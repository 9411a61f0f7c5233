------------------------------ MODULE MailProofs ------------------------------
(***************************************************************************)
(* Why the mailbox, the audit log and the records agree, whoever starts    *)
(* the runs: MailInv, the invariant behind OneSideWins, RecordsTrue,       *)
(* NothingForgotten and Confirmed, kept by every step the timer and the    *)
(* driver's trigger share; and why those steps implement InvoiceOnce.      *)
(* With the fallback webhook configured (N8n) a press may hand its draft   *)
(* over twice, and OneHandOff is false, as a run shows; the rest of the    *)
(* invariant stands with it. Where a claim may change hands under an       *)
(* append (Overlaps), FiledOnce and GivenUpStaysOut are false, as another  *)
(* run shows: what says that a number is not in the mailbox yet is left    *)
(* out there, and the rest stands.                                         *)
(***************************************************************************)
EXTENDS InvoiceProofs

InGmail == {"appended", "recorded"}

\* n is on no message in the mailbox m. Where a claim may change hands under an append, an older
\* run's message can land under any number a claim once had: nothing is said there.
Absent(m, n) == Overlaps \/ m[n] = 0
USE DEF Absent

\* What a claim says of its message is so; where it says nothing went, nothing did.
ClaimTrue(c) ==
    /\ c.num # 0 /\ c.stage \in StagesBeforeAppend => Absent(copies, c.num)
    /\ c.stage \in InGmail => copies[c.num] > 0 /\ (c.sending => c.num \in sent)
    /\ c.voided => c.stage \in StagesBeforeAppend
    /\ c.state \in {"none", "baseline", "waiting", "queued"} => c.stage \notin InGmail
    /\ c.state \in {"none", "baseline", "waiting"} => ~SendInFlight(c)
    /\ TriggerMode /\ c.state = "queued" => c.stage \in StagesBeforeAppend
    /\ c.state = "none" => c.num = 0

\* A load left to a person as maybe sent.
MaybeSent(c) == c.state = "needs_attention" /\ c.reason = "MAYBE_SENT" /\ SendInFlight(c)

\* Every claim is true; a message on its way is not in the mailbox yet, a maybe-sent load holds
\* sending stopped, and a number given up is void on the claim that has it.
ClaimsTrue ==
    \A l \in Loads :
       /\ ClaimTrue(claims[l])
       /\ outbox[l] > 0 => Absent(copies, claims[l].num)
       /\ MaybeSent(claims[l]) => stop
       /\ claims[l].num \in givenUp => claims[l].voided

\* Where a run that holds its claim may be, by the claim's stage.
StageFits(pc, c) ==
    /\ pc = "snapshot" => c.stage \notin InGmail
    /\ pc \in {"record", "finish", "rebuild"} => c.stage \in InGmail
    /\ pc = "render" => ~c.voided
    /\ pc \in {"append", "searchDraft", "searchAppended", "searchLeft"} => c.stage = "appending"
    /\ pc \in {"smtp", "searchAnswer", "searchSent"} => SendInFlight(c)
    /\ pc = "searchLost" => c.stage \in StagesBeforeAppend

\* A run that holds its claim is where the claim's stage says, and files the claim's number.
RunsTrue ==
    \A r \in Runs : runs[r].pc # "idle" /\ Holds(r) =>
       /\ StageFits(runs[r].pc, Mine(r))
       /\ runs[r].pc = "append" => runs[r].num = Mine(r).num

\* A claim under an append nobody answered yet.
BeingFiled(c) == c.stage = "appending" /\ ~c.sending /\ c.state \in {"working", "needs_attention", "skipped"}

\* Where no claim changes hands under an append: a run at its append is alone on its load, and the
\* number it files is the claim's, not in the mailbox yet.
FilesAlone ==
    Overlaps \/ \A r \in Runs : runs[r].pc = "append" =>
       /\ BeingFiled(Mine(r)) /\ Mine(r).num = runs[r].num
       /\ Absent(copies, runs[r].num)
       /\ TriggerMode \/ Holds(r)
       /\ \A q \in Runs :
             runs[q].pc # "idle" /\ LoadOf(q) = LoadOf(r) /\ (runs[q].pc = "append" \/ Holds(q)) => q = r

\* A number not minted is nowhere.
NumbersMinted ==
    /\ \A n \in Numbers : n > seq => Absent(copies, n) /\ n \notin givenUp
    /\ \A l \in Loads : claims[l].num <= seq
    /\ \A p \in Presses : presses[p].num <= seq
    /\ \A f \in inflight : f.num <= seq
    /\ \A h \in handFiled : h.num <= seq
    /\ \A n \in sent : n <= seq

\* No number is anybody else's.
NumbersApart ==
    /\ \A k, l \in Loads : k # l /\ claims[l].num # 0 => claims[k].num # claims[l].num
    /\ \A p \in Presses, l \in Loads : presses[p].num # 0 => claims[l].num # presses[p].num
    /\ \A p, q \in Presses : p # q /\ presses[p].num # 0 => presses[q].num # presses[p].num
    /\ \A f \in inflight, l \in Loads : claims[l].num # f.num
    /\ \A h \in handFiled, l \in Loads : claims[l].num # h.num

OwnRow(m) == [load |-> m.load, num |-> m.num, state |-> "in_flight", path |-> "imap"]

\* A press that holds a number has used it nowhere, but for one that waits for the webhook; one that
\* files has its own row, the only one under its number, and no email of the job's before it unless
\* it re-issues.
PressTrue(m) ==
    /\ m.pc = "n8n" => N8n
    /\ m.num # 0 /\ m.pc # "n8n" =>
          Absent(copies, m.num) /\ m.num \notin givenUp /\ \A h \in handFiled : h.num # m.num
    /\ m.pc = "render" => \A f \in inflight : f.num # m.num
    /\ m.pc = "append" =>
          /\ OwnRow(m) \in inflight
          /\ \A f \in inflight : f.num = m.num => f = OwnRow(m)
          /\ m.reissue \/ outbox[m.load] + delivered[m.load] = 0

PressesTrue == \A p \in Presses : PressTrue(presses[p])

\* What was recorded, or sent, or filed by hand, is in the mailbox.
Filed ==
    /\ \A n \in sent : copies[n] > 0
    /\ \A d \in rows : copies[d.num] > 0
    /\ \A h \in handFiled : copies[h.num] > 0

\* A number on a delivered email is that of the claim it was delivered for.
SentKnown == \A n \in sent, l \in Loads : claims[l].num = n => delivered[l] > 0

\* A press hands its draft over once: every draft of a press is known, and none is beside the job's
\* email unasked; and where runs hand theirs over once too, what was given up is in no mailbox, and
\* nothing is there twice.
OneHandOff ==
    /\ HandDraftsTracked /\ OneSideWins
    /\ \A n \in givenUp : Absent(copies, n)
    /\ Overlaps \/ FiledOnce

BooksTrue ==
    /\ ClaimsTrue /\ NumbersMinted /\ NumbersApart /\ PressesTrue /\ Filed /\ SentKnown
    /\ N8n \/ OneHandOff

\* The inductive invariant of the mail, beside Core and the types.
MailInv == BooksTrue /\ RunsTrue /\ FilesAlone

Known == Core /\ DeliveredKnown /\ RestTypeOK /\ PressTypeOK /\ MailInv

\* A claim that knows of a send goes on knowing it, under the same number, or the server
\* refused it and sending is stopped.
SendsKept ==
    \A l \in Loads : ClaimSent(claims[l]) =>
       \/ ClaimSent(claims'[l]) /\ claims'[l].num = claims[l].num
       \/ outbox'[l] + delivered'[l] = 0 /\ stop'

MailKeeps == MailInv' /\ SendsKept

\* Why the invariant is the one to prove: it says what the properties do, and where a press hands
\* over once, all of it.
LEMMA MailInvSuffices ==
    ASSUME Core, DeliveredKnown, RestTypeOK, MailInv
    PROVE  /\ RecordedIsInGmail /\ StopCoversMaybeSent /\ SendsAreTracked
           /\ ~N8n => OneSideWins /\ NothingForgotten
           /\ ~N8n /\ ~Overlaps => RecordsTrue
  <1>1. ASSUME NEW l \in Loads, outbox[l] + delivered[l] > 0
        PROVE  ClaimSent(claims[l]) /\ claims[l].state \in {"queued", "working", "needs_attention", "drafted", "skipped"}
    <2>1. ClaimSent(claims[l]) /\ ClaimTrue(claims[l]) /\ claims[l] \in Claim
      BY <1>1 DEF Core, CoreTypeOK, CoreInv, TransitKnown, DeliveredKnown, MailInv, BooksTrue, ClaimsTrue
    <2> QED BY <2>1 DEF ClaimTrue, ClaimSent, SendInFlight, InGmail, Claim, States
  <1>2. ASSUME NEW l \in Loads, outbox[l] > 0 PROVE claims[l].num \notin givenUp
    <2>1. outbox[l] + delivered[l] > 0
      BY <1>2 DEF Core, CoreTypeOK
    <2>2. claims[l].stage \notin StagesBeforeAppend
      BY <1>1, <2>1 DEF ClaimSent, StagesBeforeAppend
    <2> QED BY <2>2 DEF MailInv, BooksTrue, ClaimsTrue, ClaimTrue
  <1>3. ~N8n /\ ~Overlaps => GivenUpStaysOut
    BY <1>2 DEF GivenUpStaysOut, MailInv, BooksTrue, OneHandOff
  <1>4. RecordedIsInGmail
    BY DEF RecordedIsInGmail, MailInv, BooksTrue, Filed, ClaimsTrue, ClaimTrue, InGmail
  <1>5. StopCoversMaybeSent
    BY DEF StopCoversMaybeSent, MailInv, BooksTrue, ClaimsTrue, MaybeSent
  <1>6. SendsAreTracked
    BY <1>1 DEF SendsAreTracked
  <1> QED BY <1>3, <1>4, <1>5, <1>6 DEF MailInv, BooksTrue, OneHandOff, RecordsTrue, NothingForgotten

\* A send leaves its claim's hands only as Confirmed says.
LEMMA ConfirmedByKeeping ==
    ASSUME ClaimsTrue', SendsKept PROVE Confirmed
  BY DEF Confirmed, SendsKept, ClaimsTrue, ClaimTrue, SendInFlight, ClaimSent, InGmail

-----------------------------------------------------------------------------
(* How a write to a claim keeps the books. *)

\* d may take c's place: it says nothing untrue and takes no void back.
Follows(c, d) ==
    /\ SafeAfter(c, d)
    /\ d.num = c.num
    /\ ClaimTrue(d)
    /\ c.voided => d.voided

\* The rest of what the books speak of.
booksVars == <<rows, inflight, seq, copies, sent, delivered, handFiled, presses>>

\* A claim is written and nothing else of the books but its void, its message's way and the stop.
LEMMA BooksWrite ==
    ASSUME Known, NEW l \in Loads, NEW d \in Claim, Numbered(d),
           d.num = claims[l].num, ClaimTrue(d), claims[l].voided => d.voided,
           MaybeSent(d) => stop', stop => stop',
           WriteClaim(l, d), UNCHANGED booksVars,
           outbox' \in [Loads -> Nat], \A k \in Loads : outbox'[k] <= outbox[k]
    PROVE  BooksTrue'
  <1> USE DEF booksVars
  <1>1. /\ claims \in [Loads -> Claim] /\ outbox \in [Loads -> Nat] /\ delivered \in [Loads -> Nat]
        /\ claims' = [claims EXCEPT ![l] = d]
        /\ BooksTrue
    BY DEF Known, Core, CoreTypeOK, MailInv, WriteClaim
  <1>2. ASSUME NEW k \in Loads PROVE claims'[k].num = claims[k].num /\ (k = l \/ claims'[k] = claims[k])
    BY <1>1
  <1>3. ASSUME NEW n, n \in givenUp', n \notin givenUp
        PROVE  n = claims[l].num /\ n \in Numbers /\ Absent(copies, n) /\ d.voided
    <2>1. n = d.num /\ d.voided
      BY <1>3 DEF WriteClaim
    <2>2. d.num # 0 /\ d.num \in Numbers /\ d.stage \in StagesBeforeAppend
      BY <2>1 DEF Numbered, ClaimTrue, Claim
    <2> QED BY <2>1, <2>2 DEF ClaimTrue
  <1>4. ClaimsTrue'
    <2> SUFFICES ASSUME NEW k \in Loads
                 PROVE  /\ ClaimTrue(claims[k])'
                        /\ outbox'[k] > 0 => Absent(copies, claims'[k].num)
                        /\ MaybeSent(claims'[k]) => stop'
                        /\ claims'[k].num \in givenUp' => claims'[k].voided
      BY DEF ClaimsTrue, MaybeSent
    <2>1. /\ ClaimTrue(claims[k])
          /\ outbox[k] > 0 => Absent(copies, claims[k].num)
          /\ MaybeSent(claims[k]) => stop
          /\ claims[k].num \in givenUp => claims[k].voided
      BY <1>1 DEF BooksTrue, ClaimsTrue
    <2>2. outbox'[k] > 0 => outbox[k] > 0
      BY <1>1
    <2>3. CASE k = l
      <3>1. claims'[k] = d
        BY <1>1, <2>3
      <3>2. ClaimTrue(claims[k])'
        BY <3>1 DEF ClaimTrue
      <3> QED BY <1>3, <2>1, <2>2, <2>3, <3>1, <3>2
    <2>4. CASE k # l
      <3>1. claims'[k] = claims[k]
        BY <1>2, <2>4
      <3>2. ClaimTrue(claims[k])'
        BY <2>1, <3>1 DEF ClaimTrue
      <3>3. claims[k].num \in givenUp' => claims[k].num \in givenUp
        BY <1>1, <1>3, <2>4 DEF BooksTrue, NumbersApart, Numbers
      <3> QED BY <2>1, <2>2, <3>1, <3>2, <3>3
    <2> QED BY <2>3, <2>4
  <1>5. NumbersMinted'
    <2>1. ASSUME NEW n \in Numbers, n > seq PROVE n \notin givenUp'
      <3>1. n \notin givenUp /\ claims[l].num <= seq
        BY <1>1, <2>1 DEF BooksTrue, NumbersMinted
      <3>2. seq \in Nat /\ claims[l].num \in Nat
        BY <1>1, LedgerAssumption DEF Known, RestTypeOK, Claim, Numbers
      <3> QED BY <1>3, <2>1, <3>1, <3>2 DEF Numbers
    <2> QED BY <1>1, <1>2, <2>1 DEF BooksTrue, NumbersMinted
  <1>6. NumbersApart'
    BY <1>1, <1>2 DEF BooksTrue, NumbersApart
  <1>7. PressesTrue'
    <2> SUFFICES ASSUME NEW p \in Presses PROVE PressTrue(presses[p])'
      BY DEF PressesTrue
    <2>1. PressTrue(presses[p]) /\ (presses[p].num # 0 => claims[l].num # presses[p].num)
      BY <1>1 DEF BooksTrue, PressesTrue, NumbersApart
    <2>2. presses[p].pc = "append" => presses[p].load \in Loads
      BY DEF Known, PressTypeOK
    <2>3. presses[p].num # 0 /\ presses[p].pc # "n8n" => presses[p].num \notin givenUp'
      BY <1>3, <2>1 DEF PressTrue
    <2>4. ASSUME presses[p].pc = "append", outbox[presses[p].load] + delivered[presses[p].load] = 0
          PROVE  outbox'[presses[p].load] + delivered[presses[p].load] = 0
      BY <1>1, <2>2, <2>4
    <2> QED BY <2>1, <2>3, <2>4 DEF PressTrue, OwnRow
  <1>8. Filed'
    BY <1>1 DEF BooksTrue, Filed
  <1>12. SentKnown'
    BY <1>1, <1>2 DEF BooksTrue, SentKnown
  <1>9. ASSUME OneHandOff PROVE OneHandOff'
    <2>1. \A n \in givenUp' : Absent(copies, n)
      BY <1>3, <1>9 DEF OneHandOff
    <2>2. (Overlaps \/ FiledOnce') /\ HandDraftsTracked'
      BY <1>9 DEF OneHandOff, FiledOnce, HandDraftsTracked
    <2>3. ASSUME NEW k \in Loads, outbox'[k] + delivered'[k] > 0 PROVE outbox[k] + delivered[k] > 0
      BY <1>1, <2>3
    <2> QED BY <1>9, <2>1, <2>2, <2>3 DEF OneHandOff, OneSideWins
  <1> QED BY <1>1, <1>4, <1>5, <1>6, <1>7, <1>8, <1>9, <1>12 DEF BooksTrue

\* Neither a claim nor the mail is touched; the stop is not lifted.
LEMMA BooksStutter ==
    ASSUME Known, UNCHANGED <<claims, givenUp, outbox>>, UNCHANGED booksVars, stop => stop'
    PROVE  BooksTrue'
  BY DEF booksVars, Known, MailInv, BooksTrue, ClaimsTrue, ClaimTrue, NumbersMinted, NumbersApart, PressesTrue, PressTrue,
     OwnRow, Filed, SentKnown, OneHandOff, FiledOnce, HandDraftsTracked, OneSideWins

-----------------------------------------------------------------------------
(* How a step keeps the runs where the claims' stages say. *)

\* What a draft being filed says of its run, spelled out.
LEMMA FilesAloneMeans ==
    ASSUME FilesAlone, ~Overlaps, NEW r \in Runs, runs[r].pc = "append"
    PROVE  /\ BeingFiled(Mine(r)) /\ Mine(r).num = runs[r].num /\ Absent(copies, runs[r].num)
           /\ TriggerMode \/ Holds(r)
           /\ \A q \in Runs :
                 runs[q].pc # "idle" /\ LoadOf(q) = LoadOf(r) /\ (runs[q].pc = "append" \/ Holds(q)) => q = r
  BY DEF FilesAlone

\* A run writes the claim it holds, or one no run is filing for, and goes on or ends; what it
\* goes on to file is the claim's.
LEMMA RunsWrite ==
    ASSUME Known, NEW r \in Runs, NEW l \in Loads,
           NEW d \in Claim, d.owner \in {NoRun, r},
           NEW q, RunOK(q), q.pc # "idle" => q.load = l,
           q.pc = "append" => d.owner = r /\ BeingFiled(d) /\ d.state = "working" /\ d.num = q.num /\ Absent(copies', q.num),
           d.owner = r /\ q.pc # "idle" => StageFits(q.pc, d),
           Overlaps \/ \A p \in Runs : runs[p].pc = "append" /\ LoadOf(p) = l => p = r,
           claims' = [claims EXCEPT ![l] = d], runs' = [runs EXCEPT ![r] = q],
           \A p \in Runs : runs[p].pc = "append" /\ p # r => Absent(copies', runs[p].num)
    PROVE  RunsTrue' /\ FilesAlone'
  <1>1. claims \in [Loads -> Claim] /\ runs \in [Runs -> RunRecord] /\ RunsTrue /\ FilesAlone
    BY DEF Known, Core, CoreTypeOK, RunTypeOK, RunRecord, MailInv
  <1>2. ASSUME NEW p \in Runs, p # r, runs[p].pc # "idle"
        PROVE  /\ runs'[p] = runs[p] /\ runs[p].load \in Loads
               /\ runs[p].load # l => claims'[runs[p].load] = claims[runs[p].load]
    BY <1>1, <1>2 DEF Known, Core, CoreTypeOK, RunTypeOK
  <1>3. ASSUME NEW p \in Runs, p # r, runs[p].pc # "idle", Holds(p)'
        PROVE  runs[p].load # l /\ Holds(p)
    BY <1>1, <1>2, <1>3, RunsAreNotNoRun DEF Holds, Mine, LoadOf
  <1>4. RunsTrue'
    <2> SUFFICES ASSUME NEW p \in Runs, runs'[p].pc # "idle", Holds(p)'
                 PROVE  /\ StageFits(runs'[p].pc, claims'[runs'[p].load])
                        /\ runs'[p].pc = "append" => runs'[p].num = claims'[runs'[p].load].num
      BY DEF RunsTrue, Mine, LoadOf
    <2>1. CASE p = r
      <3>1. runs'[p] = q /\ claims'[q.load] = d
        BY <1>1, <2>1
      <3> QED BY <2>1, <3>1, RunsAreNotNoRun DEF Holds, Mine, LoadOf
    <2>2. CASE p # r
      <3>1. runs'[p] = runs[p]
        BY <1>1, <2>2
      <3> QED BY <1>1, <1>2, <1>3, <2>2, <3>1 DEF RunsTrue, Mine, LoadOf
    <2> QED BY <2>1, <2>2
  <1>5. FilesAlone'
    <2> SUFFICES ASSUME ~Overlaps, NEW p \in Runs, runs'[p].pc = "append"
                 PROVE  /\ BeingFiled(claims'[runs'[p].load]) /\ claims'[runs'[p].load].num = runs'[p].num
                        /\ Absent(copies', runs'[p].num)
                        /\ TriggerMode \/ Holds(p)'
                        /\ \A o \in Runs : /\ runs'[o].pc # "idle" /\ runs'[o].load = runs'[p].load
                                           /\ runs'[o].pc = "append" \/ Holds(o)'
                                           => o = p
      BY DEF FilesAlone, Mine, LoadOf, BeingFiled
    <2>1. CASE p = r
      <3>1. runs'[p] = q /\ q.pc = "append" /\ q.load = l /\ claims'[l] = d
        BY <1>1, <2>1
      <3>2. BeingFiled(d) /\ d.num = q.num /\ Absent(copies', q.num) /\ d.owner = r /\ d.state = "working"
        BY <3>1
      <3>3. Holds(p)'
        BY <2>1, <3>1, <3>2 DEF Holds, Mine, LoadOf
      <3>4. ASSUME NEW o \in Runs, o # r, runs'[o].pc # "idle", runs'[o].load = l, runs'[o].pc = "append" \/ Holds(o)'
            PROVE  FALSE
        <4>1. runs'[o] = runs[o] /\ claims'[runs'[o].load] = d
          BY <1>1, <3>1, <3>4
        <4>2. ~Holds(o)'
          BY <3>2, <3>4, <4>1 DEF Holds, Mine, LoadOf
        <4> QED BY <3>4, <4>1, <4>2 DEF LoadOf
      <3> QED BY <2>1, <3>1, <3>2, <3>3, <3>4
    <2>2. CASE p # r
      <3>1. runs'[p] = runs[p] /\ runs[p].pc = "append" /\ runs[p].load \in Loads
        BY <1>1, <1>2, <2>2
      <3>2. runs[p].load # l /\ claims'[runs[p].load] = claims[runs[p].load]
        BY <1>2, <2>2, <3>1 DEF LoadOf
      <3>3. /\ BeingFiled(claims[runs[p].load]) /\ claims[runs[p].load].num = runs[p].num
            /\ TriggerMode \/ Holds(p)
        BY <1>1, <3>1, FilesAloneMeans DEF Mine, LoadOf
      <3>4. TriggerMode \/ Holds(p)'
        BY <3>1, <3>2, <3>3 DEF Holds, Mine, LoadOf
      <3>5. ASSUME NEW o \in Runs, runs'[o].pc # "idle", runs'[o].load = runs'[p].load,
                   runs'[o].pc = "append" \/ Holds(o)'
            PROVE  o = p
        <4>1. o # r
          BY <1>1, <3>1, <3>2, <3>5
        <4>2. runs'[o] = runs[o]
          BY <1>1, <4>1
        <4>3. runs[o].pc = "append" \/ Holds(o)
          BY <1>3, <3>5, <4>1, <4>2
        <4> QED BY <1>1, <3>1, <3>5, <4>2, <4>3, FilesAloneMeans DEF LoadOf
      <3> QED BY <2>2, <3>1, <3>2, <3>3, <3>4, <3>5
    <2> QED BY <2>1, <2>2
  <1> QED BY <1>4, <1>5

\* A run goes on elsewhere than to an append, or ends, and writes nothing.
LEMMA RunsMove ==
    ASSUME Known, NEW r \in Runs, runs[r].pc # "idle",
           NEW q, RunOK(q), q.pc # "append", q.pc # "idle" => q.load = LoadOf(r),
           Holds(r) /\ q.pc # "idle" => StageFits(q.pc, Mine(r)),
           claims' = claims, runs' = [runs EXCEPT ![r] = q],
           \A p \in Runs : runs[p].pc = "append" /\ p # r => Absent(copies', runs[p].num)
    PROVE  RunsTrue' /\ FilesAlone'
  <1>1. claims \in [Loads -> Claim] /\ runs \in [Runs -> RunRecord] /\ RunsTrue /\ FilesAlone
    BY DEF Known, Core, CoreTypeOK, RunTypeOK, RunRecord, MailInv
  <1>2. RunsTrue'
    <2> SUFFICES ASSUME NEW p \in Runs, runs'[p].pc # "idle", Holds(p)'
                 PROVE  /\ StageFits(runs'[p].pc, claims[runs'[p].load])
                        /\ runs'[p].pc = "append" => runs'[p].num = claims[runs'[p].load].num
      BY DEF RunsTrue, Mine, LoadOf
    <2>1. CASE p = r
      BY <1>1, <2>1 DEF Holds, Mine, LoadOf
    <2>2. CASE p # r
      BY <1>1, <2>2 DEF Holds, Mine, LoadOf, RunsTrue
    <2> QED BY <2>1, <2>2
  <1>3. FilesAlone'
    <2> SUFFICES ASSUME ~Overlaps, NEW p \in Runs, runs'[p].pc = "append"
                 PROVE  /\ BeingFiled(claims[runs'[p].load]) /\ claims[runs'[p].load].num = runs'[p].num
                        /\ Absent(copies', runs'[p].num)
                        /\ TriggerMode \/ Holds(p)'
                        /\ \A o \in Runs : /\ runs'[o].pc # "idle" /\ runs'[o].load = runs'[p].load
                                           /\ runs'[o].pc = "append" \/ Holds(o)'
                                           => o = p
      BY DEF FilesAlone, Mine, LoadOf, BeingFiled
    <2>1. p # r /\ runs'[p] = runs[p] /\ runs[p].pc = "append"
      BY <1>1
    <2>2. /\ BeingFiled(claims[runs[p].load]) /\ claims[runs[p].load].num = runs[p].num
          /\ TriggerMode \/ Holds(p)'
      BY <1>1, <2>1, FilesAloneMeans DEF Mine, LoadOf, Holds
    <2>3. ASSUME NEW o \in Runs, runs'[o].pc # "idle", runs'[o].load = runs'[p].load, runs'[o].pc = "append" \/ Holds(o)'
          PROVE  o = p
      <3>1. runs[o].load = runs[p].load /\ runs[o].pc # "idle" /\ (runs[o].pc = "append" \/ Holds(o))
        <4>1. CASE o = r
          BY <1>1, <2>1, <2>3, <4>1 DEF Holds, Mine, LoadOf
        <4>2. CASE o # r
          BY <1>1, <2>1, <2>3, <4>2 DEF Holds, Mine, LoadOf
        <4> QED BY <4>1, <4>2
      <3> QED BY <1>1, <2>1, <3>1, FilesAloneMeans DEF LoadOf
    <2> QED BY <2>1, <2>2, <2>3
  <1> QED BY <1>2, <1>3

\* Somebody who is no run writes a claim and leaves it to no run; a draft being filed for it goes on.
LEMMA PlainRunsWrite ==
    ASSUME Known, NEW l \in Loads, NEW d \in Claim, d.num = claims[l].num,
           d.state # "working" \/ d.owner = NoRun,
           Overlaps \/ \A p \in Runs : runs[p].pc = "append" /\ LoadOf(p) = l => TriggerMode /\ BeingFiled(d),
           claims' = [claims EXCEPT ![l] = d], UNCHANGED <<runs, copies>>
    PROVE  RunsTrue' /\ FilesAlone'
  <1>1. claims \in [Loads -> Claim] /\ RunsTrue /\ FilesAlone
    BY DEF Known, Core, CoreTypeOK, MailInv
  <1>2. ASSUME NEW p \in Runs, runs[p].pc # "idle" PROVE runs[p].load \in Loads
    BY <1>2 DEF Known, Core, CoreTypeOK, RunTypeOK
  <1>3. ASSUME NEW p \in Runs, runs[p].pc # "idle", Holds(p)' PROVE Holds(p) /\ runs[p].load # l
    BY <1>1, <1>2, <1>3, RunsAreNotNoRun DEF Holds, Mine, LoadOf
  <1>4. RunsTrue'
    <2> SUFFICES ASSUME NEW p \in Runs, runs[p].pc # "idle", Holds(p)'
                 PROVE  /\ StageFits(runs[p].pc, claims'[runs[p].load])
                        /\ runs[p].pc = "append" => runs[p].num = claims'[runs[p].load].num
      BY DEF RunsTrue, Mine, LoadOf
    <2> QED BY <1>1, <1>2, <1>3 DEF RunsTrue, Mine, LoadOf
  <1>5. FilesAlone'
    <2> SUFFICES ASSUME ~Overlaps, NEW p \in Runs, runs[p].pc = "append"
                 PROVE  /\ BeingFiled(claims'[runs[p].load]) /\ claims'[runs[p].load].num = runs[p].num
                        /\ Absent(copies, runs[p].num)
                        /\ TriggerMode \/ Holds(p)'
                        /\ \A o \in Runs : /\ runs[o].pc # "idle" /\ runs[o].load = runs[p].load
                                           /\ runs[o].pc = "append" \/ Holds(o)'
                                           => o = p
      BY DEF FilesAlone, Mine, LoadOf, BeingFiled
    <2>1. /\ BeingFiled(claims[runs[p].load]) /\ claims[runs[p].load].num = runs[p].num
          /\ Absent(copies, runs[p].num) /\ (TriggerMode \/ Holds(p)) /\ runs[p].load \in Loads
      BY <1>1, <1>2, FilesAloneMeans DEF Mine, LoadOf
    <2>2. ASSUME NEW o \in Runs, runs[o].pc # "idle", runs[o].load = runs[p].load, runs[o].pc = "append" \/ Holds(o)'
          PROVE  o = p
      BY <1>1, <1>3, <2>2, FilesAloneMeans DEF LoadOf
    <2>3. CASE runs[p].load = l
      BY <1>1, <2>1, <2>2, <2>3 DEF LoadOf
    <2>4. CASE runs[p].load # l
      <3>1. claims'[runs[p].load] = claims[runs[p].load]
        BY <1>1, <2>1, <2>4
      <3>2. TriggerMode \/ Holds(p)'
        BY <2>1, <3>1 DEF Holds, Mine, LoadOf
      <3> QED BY <2>1, <2>2, <3>1, <3>2
    <2> QED BY <2>3, <2>4
  <1> QED BY <1>4, <1>5

\* Neither a run nor a claim is touched, and nothing is filed under a number a run is filing.
LEMMA RunsStutter ==
    ASSUME Known, UNCHANGED <<runs, claims>>, \A p \in Runs : runs[p].pc = "append" => Absent(copies', runs[p].num)
    PROVE  RunsTrue' /\ FilesAlone'
  <1>1. RunsTrue /\ FilesAlone
    BY DEF Known, MailInv
  <1>2. RunsTrue'
    BY <1>1 DEF RunsTrue, Holds, Mine, LoadOf
  <1>3. FilesAlone'
    BY <1>1 DEF FilesAlone, BeingFiled, Holds, Mine, LoadOf
  <1> QED BY <1>2, <1>3

-----------------------------------------------------------------------------
(* What the code makes of a claim is as true as the claim was. *)

\* d keeps c's number, way and void, and its stage or one before Gmail like it.
LEMMA FollowsBySame ==
    ASSUME NEW c \in Claim, ClaimTrue(c), NEW d, SafeAfter(c, d), d.num = c.num, d.sending = c.sending,
           d.stage = c.stage \/ {c.stage, d.stage} \subseteq StagesBeforeAppend,
           c.voided => d.voided, d.voided => c.voided \/ d.stage \in StagesBeforeAppend,
           d.state \notin {"none", "baseline"},
           d.state = "waiting" => ~ClaimSent(c) /\ c.stage \notin InGmail,
           d.state = "queued" => c.stage \notin InGmail,
           TriggerMode /\ d.state = "queued" => d.stage \in StagesBeforeAppend
    PROVE  Follows(c, d)
  <1>1. /\ d.num # 0 /\ d.stage \in StagesBeforeAppend => Absent(copies, d.num)
        /\ d.stage \in InGmail => copies[d.num] > 0 /\ (d.sending => d.num \in sent)
        /\ d.voided => d.stage \in StagesBeforeAppend
    BY DEF ClaimTrue, InGmail, StagesBeforeAppend
  <1>2. /\ d.state \in {"none", "baseline", "waiting", "queued"} => d.stage \notin InGmail
        /\ d.state \in {"none", "baseline", "waiting"} => ~SendInFlight(d)
    BY DEF InGmail, StagesBeforeAppend, SendInFlight, ClaimSent
  <1> QED BY <1>1, <1>2 DEF Follows, ClaimTrue

\* A released claim.
LEMMA ReleaseFollows ==
    ASSUME NEW c \in Claim, Numbered(c), c.state # "none", ClaimTrue(c),
           NEW state \in {"waiting", "skipped", "needs_attention"}, NEW reason \in Reasons,
           state = "waiting" => c.stage \notin InGmail /\ ~SendInFlight(c)
    PROVE  /\ Follows(c, Release(c, state, reason))
           /\ Release(c, state, reason).owner = NoRun
           /\ Release(c, state, reason).state = state /\ Release(c, state, reason).reason = reason
           /\ Release(c, state, reason).stage = KeptStage(c) /\ Release(c, state, reason).sending = c.sending
  <1> DEFINE d == Release(c, state, reason)
  <1>1. SafeAfter(c, d) /\ d.owner = NoRun /\ d.num = c.num
    BY ReleaseSafe DEF States
  <1>2. /\ d.state = state /\ d.reason = reason /\ d.stage = KeptStage(c) /\ d.sending = c.sending
        /\ d.voided = (c.voided \/ Voids(c, state))
    BY DEF Release, Unowned, Claim
  <1>3. d.stage = c.stage \/ {c.stage, d.stage} \subseteq StagesBeforeAppend
    BY <1>2 DEF KeptStage, StagesBeforeAppend
  <1>4. d.voided => c.voided \/ d.stage \in StagesBeforeAppend
    BY <1>2 DEF Voids, KeptStage, StagesBeforeAppend
  <1>5. state = "waiting" => ~ClaimSent(c)
    BY DEF ClaimSent, SendInFlight, InGmail
  <1> HIDE DEF d
  <1>6. Follows(c, d)
    BY <1>1, <1>2, <1>3, <1>4, <1>5, FollowsBySame
  <1> QED BY <1>1, <1>2, <1>6 DEF d

\* A claim closed because somebody drafted the load by hand.
LEMMA SkipFollows ==
    ASSUME NEW c \in Claim, Numbered(c), c.state # "none", ClaimTrue(c)
    PROVE  /\ Follows(c, SkipDraftedByHand(c)) /\ SkipDraftedByHand(c).owner = NoRun
           /\ SkipDraftedByHand(c).state = "skipped" /\ SkipDraftedByHand(c).stage = c.stage
           /\ SkipDraftedByHand(c).sending = c.sending
  <1> DEFINE d == SkipDraftedByHand(c)
  <1>1. SafeAfter(c, d) /\ d.owner = NoRun
    BY SkipSafe
  <1>2. /\ d.num = c.num /\ d.state = "skipped" /\ d.stage = c.stage /\ d.sending = c.sending
        /\ d.voided = (c.voided \/ Voids(c, "skipped"))
    BY DEF SkipDraftedByHand, Unowned, Claim
  <1>3. d.voided => c.voided \/ d.stage \in StagesBeforeAppend
    BY <1>2 DEF Voids
  <1> HIDE DEF d
  <1>4. Follows(c, d)
    BY <1>1, <1>2, <1>3, FollowsBySame
  <1> QED BY <1>1, <1>2, <1>4 DEF d

\* A claim that goes back to the queue, or to a person.
LEMMA BackoffFollows ==
    ASSUME NEW c \in Claim, Numbered(c), c.state # "none", ClaimTrue(c), NEW counted \in BOOLEAN,
           ~TriggerMode, c.stage \notin InGmail
    PROVE  Follows(c, Backoff(c, counted)) /\ Backoff(c, counted).owner = NoRun /\ Backoff(c, counted).reason = "OTHER"
  <1> DEFINE d == Backoff(c, counted)
  <1>1. SafeAfter(c, d) /\ d.owner = NoRun
    BY BackoffSafe
  <1>2. /\ d.num = c.num /\ d.state \in {"needs_attention", "queued"} /\ d.stage = KeptStage(c) /\ d.sending = c.sending
        /\ d.voided = c.voided /\ d.reason = "OTHER"
    BY DEF Backoff, Unowned, Claim
  <1>3. d.stage = c.stage \/ {c.stage, d.stage} \subseteq StagesBeforeAppend
    BY <1>2 DEF KeptStage, StagesBeforeAppend
  <1>4. d.stage \notin InGmail
    BY <1>3 DEF InGmail, StagesBeforeAppend
  <1> HIDE DEF d
  <1>5. Follows(c, d)
    BY <1>1, <1>2, <1>3, <1>4, FollowsBySame
  <1> QED BY <1>1, <1>2, <1>5 DEF d

\* A claim whose message is not in Gmail goes back to its number.
LEMMA RequeueFollows ==
    ASSUME NEW c \in Claim, Numbered(c), c.state # "none", ClaimTrue(c), ~ClaimSent(c),
           NEW stage \in StagesBeforeAppend, stage # "" => c.num # 0, c.num # 0 => Absent(copies, c.num)
    PROVE  Follows(c, Requeue(c, stage)) /\ Requeue(c, stage).owner = NoRun /\ Requeue(c, stage).state = "queued"
  <1> DEFINE d == Requeue(c, stage)
  <1>1. SafeAfter(c, d) /\ d.owner = NoRun
    BY RequeueSafe DEF Stages, StagesBeforeAppend
  <1>2. /\ d.num = c.num /\ d.state = "queued" /\ d.stage = stage /\ d.sending = c.sending /\ d.voided = c.voided
    BY DEF Requeue, Unowned, Claim
  <1> HIDE DEF d
  <1>3. ClaimTrue(d)
    BY <1>2 DEF ClaimTrue, InGmail, StagesBeforeAppend
  <1> QED BY <1>1, <1>2, <1>3 DEF Follows, d

\* A claim whose message is recorded.
LEMMA DraftedFollows ==
    ASSUME NEW c \in Claim, Numbered(c), ClaimTrue(c), c.stage \in InGmail
    PROVE  Follows(c, Drafted(c)) /\ Drafted(c).owner = NoRun /\ Drafted(c).state = "drafted"
  <1> DEFINE d == Drafted(c)
  <1>1. c.num # 0
    BY DEF Numbered, InGmail
  <1>2. SafeAfter(c, d) /\ d.owner = NoRun
    BY <1>1, DraftedSafe
  <1>3. /\ d.num = c.num /\ d.state = "drafted" /\ d.stage = "recorded" /\ d.sending = c.sending /\ d.voided = c.voided
    BY DEF Drafted, Unowned, Claim
  <1> HIDE DEF d
  <1>4. ClaimTrue(d)
    BY <1>3 DEF ClaimTrue, InGmail, StagesBeforeAppend
  <1> QED BY <1>2, <1>3, <1>4 DEF Follows, d

\* A claim a person takes: maybe sent only where a send is in flight.
LEMMA ToPersonFollows ==
    ASSUME NEW c \in Claim, Numbered(c), c.state # "none", ClaimTrue(c)
    PROVE  /\ Follows(c, ToPerson(c)) /\ ToPerson(c).owner = NoRun
           /\ ToPerson(c).state = "needs_attention" /\ ToPerson(c).stage = KeptStage(c)
           /\ ToPerson(c).sending = c.sending
           /\ MaybeSent(ToPerson(c)) => SendInFlight(c)
  BY ReleaseFollows DEF ToPerson, Reasons, MaybeSent

\* One step after another.
LEMMA FollowsOn ==
    ASSUME NEW c, NEW d, NEW e, Follows(c, d), Follows(d, e) PROVE Follows(c, e)
  BY SafeTransitive DEF Follows

\* A claim that is not at work on anything moves to another stage.
LEMMA StageFollows ==
    ASSUME NEW c \in Claim, Numbered(c), c.state \in {"working", "needs_attention"}, ClaimTrue(c),
           NEW stage \in {"reserved", "rendered", "appended"}, c.num # 0,
           stage # "appended" => ~ClaimSent(c) /\ Absent(copies, c.num),
           stage = "appended" => copies[c.num] > 0 /\ (c.sending => c.num \in sent) /\ ~c.voided
    PROVE  Follows(c, [c EXCEPT !.stage = stage])
  <1> DEFINE d == [c EXCEPT !.stage = stage]
  <1>1. SafeAfter(c, d)
    BY StageSafe DEF Stages, StagesBeforeAppend
  <1>2. /\ d.num = c.num /\ d.state = c.state /\ d.stage = stage /\ d.sending = c.sending /\ d.voided = c.voided
    BY DEF Claim
  <1> HIDE DEF d
  <1>3. ClaimTrue(d)
    BY <1>2 DEF ClaimTrue, InGmail, StagesBeforeAppend
  <1> QED BY <1>1, <1>2, <1>3 DEF Follows, d

-----------------------------------------------------------------------------
(* A run's own ways to write and to go on. *)

\* What a run that holds its claim may count on.
LEMMA HeldMail ==
    ASSUME Known, NEW r \in Runs, runs[r].pc # "idle", Holds(r)
    PROVE  /\ LoadOf(r) \in Loads /\ Mine(r) = claims[LoadOf(r)]
           /\ Mine(r) \in Claim /\ Numbered(Mine(r)) /\ Mine(r).state = "working" /\ Mine(r).owner = r
           /\ ClaimTrue(Mine(r)) /\ Follows(Mine(r), Mine(r))
           /\ RunFits(runs[r].pc, Mine(r)) /\ StageFits(runs[r].pc, Mine(r))
           /\ runs[r].pc = "append" => runs[r].num = Mine(r).num
           /\ Overlaps \/ \A p \in Runs : runs[p].pc = "append" /\ LoadOf(p) = LoadOf(r) => p = r
  <1>1. Core /\ RunsTrue /\ FilesAlone /\ ClaimsTrue
    BY DEF Known, MailInv, BooksTrue
  <1>2. /\ LoadOf(r) \in Loads /\ Mine(r) = claims[LoadOf(r)]
        /\ Mine(r) \in Claim /\ Numbered(Mine(r)) /\ Mine(r).state = "working" /\ Mine(r).owner = r
        /\ RunFits(runs[r].pc, Mine(r)) /\ SafeAfter(Mine(r), Mine(r))
    BY <1>1, HeldFacts
  <1>3. ClaimTrue(Mine(r)) /\ StageFits(runs[r].pc, Mine(r)) /\ (runs[r].pc = "append" => runs[r].num = Mine(r).num)
    BY <1>1, <1>2 DEF ClaimsTrue, RunsTrue
  <1>4. ASSUME ~Overlaps, NEW p \in Runs, runs[p].pc = "append", LoadOf(p) = LoadOf(r) PROVE p = r
    BY <1>1, <1>4, FilesAloneMeans
  <1> QED BY <1>2, <1>3, <1>4 DEF Follows

\* A send is kept where the claim that has it is followed, or left alone.
LEMMA KeptByFollowing ==
    ASSUME Known, NEW l \in Loads, NEW d, Follows(claims[l], d), claims' = [claims EXCEPT ![l] = d]
    PROVE  SendsKept
  <1>1. claims \in [Loads -> Claim]
    BY DEF Known, Core, CoreTypeOK
  <1> QED BY <1>1 DEF SendsKept, Follows, SafeAfter

\* Claims that do not change keep what they say of their sends.
LEMMA KeptByStutter == ASSUME claims' = claims PROVE SendsKept
  BY DEF SendsKept

\* The mailbox keeps no draft's number for itself while nothing is filed.
LEMMA NothingFiled ==
    ASSUME Known, copies' = copies, NEW r
    PROVE  \A p \in Runs : runs[p].pc = "append" /\ p # r => Absent(copies', runs[p].num)
  BY FilesAloneMeans DEF Known, MailInv

\* A run's last write to the claim it holds.
LEMMA EndsWithMail ==
    ASSUME Known, NEW r \in Runs, runs[r].pc # "idle", Holds(r),
           NEW d, Follows(Mine(r), d), d.owner = NoRun, EndsWith(r, d),
           MaybeSent(d) => stop', stop => stop', UNCHANGED outbox, UNCHANGED booksVars
    PROVE  MailKeeps
  <1> DEFINE l == LoadOf(r)
  <1>1. /\ l \in Loads /\ Mine(r) = claims[l] /\ d \in Claim /\ Numbered(d) /\ d.num = claims[l].num
        /\ ClaimTrue(d) /\ (claims[l].voided => d.voided)
        /\ Overlaps \/ \A p \in Runs : runs[p].pc = "append" /\ LoadOf(p) = l => p = r
    BY HeldMail DEF Follows, SafeAfter
  <1>2. WriteClaim(l, d) /\ Ends(r) /\ claims' = [claims EXCEPT ![l] = d] /\ copies' = copies
    BY DEF EndsWith, WriteClaim, booksVars
  <1>3. BooksTrue'
    BY <1>1, <1>2, BooksWrite DEF Known, Core, CoreTypeOK
  <1>4. /\ RunOK(EndedRun(r)) /\ EndedRun(r).pc # "append" /\ runs' = [runs EXCEPT ![r] = EndedRun(r)]
        /\ EndedRun(r).pc # "idle" => EndedRun(r).load = l
    BY <1>2, EndedRunOK DEF Known
  <1>5. /\ \A p \in Runs : runs[p].pc = "append" /\ p # r => Absent(copies', runs[p].num)
        /\ d.owner # r
    BY <1>2, NothingFiled, RunsAreNotNoRun
  <1>6. RunsTrue' /\ FilesAlone'
    BY <1>1, <1>2, <1>4, <1>5, RunsWrite
  <1>7. SendsKept
    BY <1>1, <1>2, KeptByFollowing
  <1> QED BY <1>3, <1>6, <1>7 DEF MailKeeps, MailInv

\* The claim is written and the run goes on, to anything but the filing of a draft.
LEMMA WritesMail ==
    ASSUME Known, NEW r \in Runs, runs[r].pc # "idle", Holds(r),
           NEW d, Follows(Mine(r), d), d.owner = r, NEW pc \in PCs \ {"idle", "append"}, Writes(r, d, pc),
           StageFits(pc, d), ~MaybeSent(d), stop => stop', UNCHANGED outbox, UNCHANGED booksVars
    PROVE  MailKeeps
  <1> DEFINE l == LoadOf(r)
  <1>1. /\ l \in Loads /\ Mine(r) = claims[l] /\ d \in Claim /\ Numbered(d) /\ d.num = claims[l].num
        /\ ClaimTrue(d) /\ (claims[l].voided => d.voided)
        /\ Overlaps \/ \A p \in Runs : runs[p].pc = "append" /\ LoadOf(p) = l => p = r
    BY HeldMail DEF Follows, SafeAfter
  <1>2. WriteClaim(l, d) /\ Go(r, pc) /\ claims' = [claims EXCEPT ![l] = d] /\ copies' = copies
    BY DEF Writes, WriteClaim, booksVars
  <1>3. BooksTrue'
    BY <1>1, <1>2, BooksWrite DEF Known, Core, CoreTypeOK
  <1>4. PICK q : RunOK(q) /\ q.pc = pc /\ q.load = l /\ runs' = [runs EXCEPT ![r] = q]
    BY <1>2, GoRunOK DEF Known
  <1>5. q.pc # "append" /\ StageFits(q.pc, d)
    BY <1>4
  <1>6. \A p \in Runs : runs[p].pc = "append" /\ p # r => Absent(copies', runs[p].num)
    BY <1>2, NothingFiled
  <1>7. RunsTrue' /\ FilesAlone'
    BY ZenonT(40), <1>1, <1>2, <1>4, <1>5, <1>6, RunsWrite
  <1>8. SendsKept
    BY <1>1, <1>2, KeptByFollowing
  <1> QED BY <1>3, <1>7, <1>8 DEF MailKeeps, MailInv

\* The run goes on, its claim as it was; what it leaves of the books is told.
LEMMA GoMail ==
    ASSUME Known, NEW r \in Runs, runs[r].pc # "idle", NEW pc \in PCs \ {"idle", "append"}, Go(r, pc),
           Holds(r) => StageFits(pc, Mine(r)), claims' = claims, copies' = copies, BooksTrue'
    PROVE  MailKeeps
  <1>1. PICK q : RunOK(q) /\ q.pc = pc /\ q.load = LoadOf(r) /\ runs' = [runs EXCEPT ![r] = q]
    BY GoRunOK DEF Known
  <1>2. q.pc # "append" /\ (Holds(r) => StageFits(q.pc, Mine(r)))
    BY <1>1
  <1>3. \A p \in Runs : runs[p].pc = "append" /\ p # r => Absent(copies', runs[p].num)
    BY NothingFiled
  <1>4. RunsTrue' /\ FilesAlone'
    BY <1>1, <1>2, <1>3, RunsMove
  <1> QED BY <1>4, KeptByStutter DEF MailKeeps, MailInv

\* The run ends, its claim as it was.
LEMMA EndsMail ==
    ASSUME Known, NEW r \in Runs, runs[r].pc # "idle", Ends(r), claims' = claims, BooksTrue',
           \A p \in Runs : runs[p].pc = "append" /\ p # r => Absent(copies', runs[p].num)
    PROVE  MailKeeps
  <1>1. /\ RunOK(EndedRun(r)) /\ EndedRun(r).pc \in {"idle", "close"} /\ runs' = [runs EXCEPT ![r] = EndedRun(r)]
        /\ EndedRun(r).pc # "idle" => EndedRun(r).load = LoadOf(r)
    BY EndedRunOK DEF Known
  <1>2. StageFits("close", Mine(r))
    BY DEF StageFits
  <1>3. RunsTrue' /\ FilesAlone'
    BY <1>1, <1>2, RunsMove
  <1> QED BY <1>3, KeptByStutter DEF MailKeeps, MailInv

\* A temporary failure: nothing of the claim is in Gmail.
LEMMA TemporaryMail ==
    ASSUME Known, NEW r \in Runs, runs[r].pc # "idle", Holds(r),
           NEW d, Follows(Mine(r), d), d.stage \notin InGmail, NEW counted \in BOOLEAN,
           TemporaryEnd(r, d, counted), UNCHANGED outbox, UNCHANGED booksVars
    PROVE  MailKeeps
  <1>1. d \in Claim /\ Numbered(d) /\ d.state # "none" /\ ClaimTrue(d)
    BY DEF Follows, SafeAfter
  <1>2. CASE TriggerMode
    <2>1. EndsWith(r, ToPerson(d)) /\ stop' = (stop \/ SendInFlight(d))
      BY <1>2 DEF TemporaryEnd
    <2>2. /\ Follows(d, ToPerson(d)) /\ ToPerson(d).owner = NoRun /\ (MaybeSent(ToPerson(d)) => SendInFlight(d))
      BY <1>1, ToPersonFollows
    <2>3. Follows(Mine(r), ToPerson(d))
      BY <2>2, FollowsOn
    <2> QED BY <2>1, <2>2, <2>3, EndsWithMail
  <1>3. CASE ~TriggerMode
    <2>1. EndsWith(r, Backoff(d, counted)) /\ stop' = stop
      BY <1>3 DEF TemporaryEnd
    <2>2. /\ Follows(d, Backoff(d, counted)) /\ Backoff(d, counted).owner = NoRun /\ ~MaybeSent(Backoff(d, counted))
      BY <1>1, <1>3, BackoffFollows DEF MaybeSent
    <2>3. Follows(Mine(r), Backoff(d, counted))
      BY <2>2, FollowsOn
    <2> QED BY <2>1, <2>2, <2>3, EndsWithMail
  <1> QED BY <1>2, <1>3

\* A claim released.
LEMMA ReleaseMail ==
    ASSUME Known, NEW r \in Runs, runs[r].pc # "idle", Holds(r),
           NEW d, Follows(Mine(r), d), NEW state \in {"waiting", "skipped", "needs_attention"}, NEW reason \in Reasons,
           state = "waiting" => d.stage \notin InGmail /\ ~SendInFlight(d),
           reason = "MAYBE_SENT" => ~SendInFlight(d),
           EndsWith(r, Release(d, state, reason)), stop' = stop, UNCHANGED outbox, UNCHANGED booksVars
    PROVE  MailKeeps
  <1>1. d \in Claim /\ Numbered(d) /\ d.state # "none" /\ ClaimTrue(d)
    BY DEF Follows, SafeAfter
  <1> DEFINE e == Release(d, state, reason)
  <1>2. /\ Follows(d, e) /\ e.owner = NoRun /\ e.reason = reason /\ e.stage = KeptStage(d) /\ e.sending = d.sending
    BY <1>1, ReleaseFollows
  <1>3. EndsWith(r, e)
    OBVIOUS
  <1> HIDE DEF e
  <1>4. ~MaybeSent(e)
    BY <1>2 DEF MaybeSent, SendInFlight, KeptStage, StagesBeforeAppend
  <1>5. Follows(Mine(r), e)
    BY <1>2, FollowsOn
  <1> QED BY <1>2, <1>3, <1>4, <1>5, EndsWithMail

\* A claim closed because somebody drafted the load by hand.
LEMMA SkipMail ==
    ASSUME Known, NEW r \in Runs, runs[r].pc # "idle", Holds(r),
           NEW d, Follows(Mine(r), d), EndsWith(r, SkipDraftedByHand(d)),
           stop' = stop, UNCHANGED outbox, UNCHANGED booksVars
    PROVE  MailKeeps
  <1>1. d \in Claim /\ Numbered(d) /\ d.state # "none" /\ ClaimTrue(d)
    BY DEF Follows, SafeAfter
  <1>2. /\ Follows(d, SkipDraftedByHand(d)) /\ SkipDraftedByHand(d).owner = NoRun /\ ~MaybeSent(SkipDraftedByHand(d))
    BY <1>1, SkipFollows DEF MaybeSent
  <1>3. Follows(Mine(r), SkipDraftedByHand(d))
    BY <1>2, FollowsOn
  <1> QED BY <1>2, <1>3, EndsWithMail

-----------------------------------------------------------------------------
(* The steps of a run that file and send nothing. *)

\* A run that lost its claim.
LEMMA LostRunMail ==
    ASSUME Known, NEW r \in Runs, LostRun(r), UNCHANGED presses PROVE MailKeeps
  <1>1. BooksTrue'
    BY BooksStutter DEF LostRun, ledgerVars, gmailVars, booksVars
  <1>2. \A p \in Runs : runs[p].pc = "append" /\ p # r => Absent(copies', runs[p].num)
    BY NothingFiled DEF LostRun, gmailVars
  <1> QED BY <1>1, <1>2, EndsMail DEF LostRun, ledgerVars

\* The snapshot.
LEMMA SnapshotMail ==
    ASSUME Known, NEW r \in Runs, SheetDown(r) \/ NotNow(r) \/ AfterSnapshot(r), UNCHANGED presses PROVE MailKeeps
  <1> DEFINE c == Mine(r)  l == LoadOf(r)
  <1>1. runs[r].pc = "snapshot" /\ Holds(r) /\ UNCHANGED outbox /\ UNCHANGED booksVars
    BY DEF SheetDown, NotNow, AfterSnapshot, At, sharedVars, gmailVars, booksVars
  <1>2. /\ c \in Claim /\ Numbered(c) /\ c.state = "working" /\ ClaimTrue(c) /\ Follows(c, c)
        /\ c.stage \notin InGmail
    BY <1>1, HeldMail DEF StageFits
  <1>3. ASSUME NEW pc \in PCs \ {"idle", "append"}, Go(r, pc), StageFits(pc, c), UNCHANGED <<claims, givenUp, stop>>
        PROVE  MailKeeps
    <2>1. BooksTrue' /\ claims' = claims /\ copies' = copies
      BY <1>1, <1>3, BooksStutter DEF booksVars
    <2> QED BY <1>1, <1>3, <2>1, GoMail
  <1>4. CASE SheetDown(r) \/ NotNow(r)
    <2>1. TemporaryEnd(r, c, FALSE)
      BY <1>4 DEF SheetDown, NotNow
    <2> HIDE DEF c
    <2> QED BY <1>1, <1>2, <2>1, TemporaryMail DEF c
  <1>5. CASE AfterSnapshot(r)
    <2>1. ASSUME SendInFlight(c), Go(r, "searchSent"), UNCHANGED <<claims, givenUp, stop>> PROVE MailKeeps
      <3>1. StageFits("searchSent", c)
        BY <2>1 DEF StageFits
      <3> QED BY <1>3, <2>1, <3>1 DEF PCs
    <2>2. ASSUME EndsWith(r, SkipDraftedByHand(c)), UNCHANGED stop PROVE MailKeeps
      BY <1>1, <1>2, <2>2, SkipMail
    <2>3. ASSUME ~SendInFlight(c), NEW v \in FreeVerdicts(l), v[1] # "queued", UNCHANGED stop,
                 EndsWith(r, Release(c, IF TriggerMode /\ v = <<"waiting", "OTHER">>
                                        THEN "needs_attention" ELSE v[1], v[2]))
          PROVE  MailKeeps
      <3> DEFINE state == IF TriggerMode /\ v = <<"waiting", "OTHER">> THEN "needs_attention" ELSE v[1]
      <3>1. v[1] \in {"waiting", "skipped", "needs_attention"} /\ v[2] \in {"OTHER", "NOT_COMPLETED"}
        BY <2>3 DEF FreeVerdicts
      <3>2. state \in {"waiting", "skipped", "needs_attention"}
        BY <3>1
      <3>3. EndsWith(r, Release(c, state, v[2]))
        BY <2>3
      <3> HIDE DEF state, c
      <3> QED BY <1>1, <1>2, <2>3, <3>1, <3>2, <3>3, ReleaseMail DEF Reasons, c
    <2>4. ASSUME c.stage = "appending", Go(r, "searchDraft"), UNCHANGED <<claims, givenUp, stop>> PROVE MailKeeps
      <3>1. StageFits("searchDraft", c)
        BY <2>4 DEF StageFits
      <3> QED BY <1>3, <2>4, <3>1 DEF PCs
    <2>5. ASSUME ~SendInFlight(c), Settles(r, c) PROVE MailKeeps
      BY <1>1, <1>2, <2>5, ReleaseMail DEF Settles, Reasons
    <2>6. ASSUME Go(r, "prepare"), UNCHANGED <<claims, givenUp, stop>> PROVE MailKeeps
      <3>1. StageFits("prepare", c)
        BY DEF StageFits
      <3> QED BY <1>3, <2>6, <3>1 DEF PCs
    <2>7. c.stage \notin {"appended", "recorded"}
      BY <1>2 DEF InGmail
    <2> HIDE DEF c
    <2> QED BY <1>5, <2>1, <2>2, <2>3, <2>4, <2>5, <2>6, <2>7 DEF AfterSnapshot, c
  <1> QED BY <1>4, <1>5

\* The engine's refusal.
LEMMA PrepareRefusedMail ==
    ASSUME Known, NEW r \in Runs, PrepareRefused(r), UNCHANGED presses PROVE MailKeeps
  <1> DEFINE c == Mine(r)
             waited == [c EXCEPT !.attempts = @ + 1]
  <1>1. runs[r].pc = "prepare" /\ Holds(r) /\ UNCHANGED outbox /\ UNCHANGED booksVars
    BY DEF PrepareRefused, At, sharedVars, gmailVars, booksVars
  <1>2. /\ c \in Claim /\ Numbered(c) /\ c.state = "working" /\ ClaimTrue(c) /\ Follows(c, c)
        /\ c.stage \in StagesBeforeAppend
    BY <1>1, HeldMail DEF RunFits
  <1>3. Follows(c, waited) /\ waited.stage = c.stage
    <2>1. /\ waited \in Claim /\ waited.stage = c.stage /\ waited.num = c.num /\ waited.state = c.state
          /\ waited.voided = c.voided /\ waited.sending = c.sending
      BY <1>2 DEF Claim
    <2>2. SafeAfter(c, waited)
      BY <1>2, <2>1 DEF SafeAfter, Numbered, ClaimSent
    <2> HIDE DEF waited
    <2> QED BY <1>2, <2>1, <2>2 DEF Follows, ClaimTrue, SendInFlight
  <1>4. ASSUME NEW d, Follows(c, d), d.stage = c.stage, NEW state \in {"needs_attention", "waiting"},
               NEW reason \in {"OTHER", "NOT_COMPLETED"}, EndsWith(r, Release(d, state, reason)), stop' = stop
        PROVE  MailKeeps
    <2>1. d.stage \notin InGmail /\ ~SendInFlight(d)
      BY <1>2, <1>4 DEF InGmail, StagesBeforeAppend, SendInFlight
    <2> HIDE DEF c
    <2> QED BY <1>1, <1>4, <2>1, ReleaseMail DEF Reasons, c
  <1>5. ASSUME NEW counted \in BOOLEAN, TemporaryEnd(r, c, counted) PROVE MailKeeps
    <2>1. c.stage \notin InGmail
      BY <1>2 DEF InGmail, StagesBeforeAppend
    <2> QED BY <1>1, <1>2, <1>5, <2>1, TemporaryMail
  <1> QED BY <1>2, <1>3, <1>4, <1>5 DEF PrepareRefused

-----------------------------------------------------------------------------
(* The number. *)

\* A number is minted for a claim under which nothing went; the one it had, unused, is given up.
LEMMA BooksMint ==
    ASSUME Known, NEW l \in Loads, NEW c \in Claim, c.num = claims[l].num, c.stage \in StagesBeforeAppend,
           ClaimTrue(c), ~ClaimSent(claims[l]),
           NEW n \in Numbers, Mint(n), NEW d \in Claim, d.num = n, ~d.voided, d.stage = "reserved", d.state = "working",
           claims' = [claims EXCEPT ![l] = d],
           givenUp' = givenUp \cup (IF c.num # 0 /\ ~c.voided THEN {c.num} ELSE {}), stop' = stop,
           UNCHANGED <<rows, inflight, copies, sent, outbox, delivered, handFiled, presses>>
    PROVE  BooksTrue'
  <1>1. /\ claims \in [Loads -> Claim] /\ outbox \in [Loads -> Nat] /\ delivered \in [Loads -> Nat]
        /\ BooksTrue /\ seq \in Nat /\ seq' = n /\ n > seq /\ n # 0
        /\ Absent(copies, n) /\ n \notin givenUp
    <2>1. /\ claims \in [Loads -> Claim] /\ outbox \in [Loads -> Nat] /\ delivered \in [Loads -> Nat]
          /\ BooksTrue /\ NumbersMinted
      BY DEF Known, Core, CoreTypeOK, MailInv, BooksTrue
    <2>2. seq \in Nat /\ n = seq + 1 /\ seq' = n
      BY LedgerAssumption DEF Known, RestTypeOK, Mint
    <2>3. n > seq /\ n # 0
      BY <2>2
    <2> QED BY <2>1, <2>2, <2>3 DEF NumbersMinted
  <1>2. ASSUME NEW k \in Loads PROVE claims[k].num <= seq /\ claims[k].num \in Nat /\ claims[k].num # n
    BY <1>1 DEF BooksTrue, NumbersMinted, Claim, Numbers
  <1>3. claims'[l] = d /\ \A k \in Loads : k # l => claims'[k] = claims[k]
    BY <1>1
  <1>4. ASSUME NEW m, m \in givenUp', m \notin givenUp
        PROVE  m = claims[l].num /\ m \in Numbers /\ Absent(copies, m) /\ m # n
    BY <1>2, <1>4 DEF ClaimTrue, Claim
  <1>5. outbox[l] = 0 /\ delivered[l] = 0
    BY <1>1 DEF Known, Core, CoreTypeOK, CoreInv, TransitKnown, DeliveredKnown
  <1>6. ClaimsTrue'
    <2> SUFFICES ASSUME NEW k \in Loads
                 PROVE  /\ ClaimTrue(claims[k])'
                        /\ outbox[k] > 0 => Absent(copies, claims'[k].num)
                        /\ MaybeSent(claims'[k]) => stop
                        /\ claims'[k].num \in givenUp' => claims'[k].voided
      BY DEF ClaimsTrue, MaybeSent
    <2>1. CASE k = l
      BY <1>1, <1>3, <1>4, <1>5, <2>1 DEF ClaimTrue, StagesBeforeAppend, InGmail, MaybeSent
    <2>2. CASE k # l
      <3>1. /\ ClaimTrue(claims[k]) /\ (outbox[k] > 0 => Absent(copies, claims[k].num))
            /\ (MaybeSent(claims[k]) => stop) /\ (claims[k].num \in givenUp => claims[k].voided)
        BY <1>1 DEF BooksTrue, ClaimsTrue
      <3>2. claims[k].num \in givenUp' => claims[k].num \in givenUp
        BY <1>1, <1>4, <2>2 DEF BooksTrue, NumbersApart, Numbers
      <3>3. claims'[k] = claims[k]
        BY <1>3, <2>2
      <3>4. ClaimTrue(claims[k])'
        BY <3>1, <3>3 DEF ClaimTrue
      <3> QED BY <3>1, <3>2, <3>3, <3>4
    <2> QED BY <2>1, <2>2
  <1>7. NumbersMinted'
    <2>1. ASSUME NEW m \in Numbers, m > n PROVE Absent(copies, m) /\ m \notin givenUp'
      <3>1. m > seq
        BY <1>1, <2>1 DEF Numbers
      <3>2. Absent(copies, m) /\ m \notin givenUp
        BY <1>1, <3>1 DEF BooksTrue, NumbersMinted
      <3> QED BY <1>1, <1>2, <1>4, <2>1, <3>2 DEF Numbers
    <2>2. ASSUME NEW k \in Loads PROVE claims'[k].num <= n
      BY <1>1, <1>2, <1>3 DEF Numbers
    <2>3. ASSUME NEW p \in Presses PROVE presses[p].num <= n
      <3>1. presses[p].num \in Nat /\ presses[p].num <= seq
        BY <1>1 DEF Known, PressTypeOK, Numbers, BooksTrue, NumbersMinted
      <3> QED BY <1>1, <3>1 DEF Numbers
    <2>4. ASSUME NEW f \in inflight PROVE f.num <= n
      <3>1. f.num \in Nat /\ f.num <= seq
        BY <1>1 DEF Known, RestTypeOK, InflightRow, Numbers, BooksTrue, NumbersMinted
      <3> QED BY <1>1, <3>1 DEF Numbers
    <2>5. ASSUME NEW h \in handFiled PROVE h.num <= n
      <3>1. h.num \in Nat /\ h.num <= seq
        BY <1>1 DEF Known, RestTypeOK, Numbers, BooksTrue, NumbersMinted
      <3> QED BY <1>1, <3>1 DEF Numbers
    <2>6. ASSUME NEW m \in sent PROVE m <= n
      <3>1. m \in Nat /\ m <= seq
        BY <1>1 DEF Known, RestTypeOK, Numbers, BooksTrue, NumbersMinted
      <3> QED BY <1>1, <3>1 DEF Numbers
    <2> QED BY <1>1, <2>1, <2>2, <2>3, <2>4, <2>5, <2>6 DEF NumbersMinted
  <1>8. NumbersApart'
    <2>1. ASSUME NEW k \in Loads, NEW j \in Loads, k # j, claims'[j].num # 0 PROVE claims'[k].num # claims'[j].num
      BY <1>1, <1>2, <1>3, <2>1 DEF BooksTrue, NumbersApart
    <2>2. ASSUME NEW p \in Presses, NEW k \in Loads, presses[p].num # 0 PROVE claims'[k].num # presses[p].num
      <3>1. presses[p].num <= seq /\ claims[k].num # presses[p].num
        BY <1>1, <2>2 DEF BooksTrue, NumbersMinted, NumbersApart
      <3>2. presses[p].num # n
        BY <1>1, <3>1 DEF Numbers
      <3> QED BY <1>3, <3>1, <3>2
    <2>3. ASSUME NEW f \in inflight, NEW k \in Loads PROVE claims'[k].num # f.num
      <3>1. f.num <= seq /\ claims[k].num # f.num
        BY <1>1 DEF BooksTrue, NumbersMinted, NumbersApart
      <3>2. f.num # n
        BY <1>1, <3>1 DEF Numbers
      <3> QED BY <1>3, <3>1, <3>2
    <2>4. ASSUME NEW h \in handFiled, NEW k \in Loads PROVE claims'[k].num # h.num
      <3>1. h.num <= seq /\ claims[k].num # h.num
        BY <1>1 DEF BooksTrue, NumbersMinted, NumbersApart
      <3>2. h.num # n
        BY <1>1, <3>1 DEF Numbers
      <3> QED BY <1>3, <3>1, <3>2
    <2> QED BY <1>1, <2>1, <2>2, <2>3, <2>4 DEF NumbersApart, BooksTrue
  <1>9. PressesTrue'
    <2> SUFFICES ASSUME NEW p \in Presses PROVE PressTrue(presses[p])'
      BY DEF PressesTrue
    <2>1. PressTrue(presses[p]) /\ (presses[p].num # 0 => claims[l].num # presses[p].num)
      BY <1>1 DEF BooksTrue, PressesTrue, NumbersApart
    <2> QED BY <1>4, <2>1 DEF PressTrue, OwnRow
  <1>10. Filed'
    BY <1>1 DEF BooksTrue, Filed
  <1>12. SentKnown'
    <2>1. n \notin sent
      <3>1. \A m \in sent : m <= seq
        BY <1>1 DEF BooksTrue, NumbersMinted
      <3> QED BY <1>1, <3>1 DEF Numbers
    <2> QED BY <1>1, <1>3, <2>1 DEF BooksTrue, SentKnown
  <1>11. ASSUME OneHandOff PROVE OneHandOff'
    BY <1>4, <1>11 DEF OneHandOff, FiledOnce, HandDraftsTracked, OneSideWins
  <1> QED BY <1>1, <1>6, <1>7, <1>8, <1>9, <1>10, <1>11, <1>12 DEF BooksTrue

\* The number is reserved on the claim as c.
LEMMA ReserveMail ==
    ASSUME Known, NEW r \in Runs, runs[r].pc # "idle", Holds(r),
           NEW c, Follows(Mine(r), c), c.owner = r, c.state = "working", c.stage \in StagesBeforeAppend,
           Mine(r).stage \in StagesBeforeAppend, Reserve(r, c), stop' = stop,
           UNCHANGED <<rows, inflight, copies, sent, outbox, delivered, handFiled, presses>>
    PROVE  MailKeeps
  <1> DEFINE l == LoadOf(r)
             usable == c.num # 0 /\ ~c.voided
  <1>1. /\ c \in Claim /\ Numbered(c) /\ ClaimTrue(c) /\ c.num = Mine(r).num /\ ~ClaimSent(Mine(r)) /\ ~ClaimSent(c)
        /\ l \in Loads /\ Mine(r) = claims[l]
    BY HeldMail DEF Follows, SafeAfter, ClaimSent, StagesBeforeAppend
  <1>2. ASSUME EndsWith(r, SkipDraftedByHand(c)), seq' = seq PROVE MailKeeps
    BY <1>2, SkipMail DEF booksVars
  <1>3. ASSUME EndsWith(r, Release(c, "skipped", "OTHER")), seq' = seq PROVE MailKeeps
    BY <1>3, ReleaseMail DEF Reasons, booksVars
  <1>4. ASSUME usable, Writes(r, [c EXCEPT !.stage = IF @ = "" THEN "reserved" ELSE @], "render"), seq' = seq
        PROVE  MailKeeps
    <2> DEFINE d == [c EXCEPT !.stage = IF c.stage = "" THEN "reserved" ELSE c.stage]
    <2>1. /\ d \in Claim /\ d.num = c.num /\ d.stage \in StagesBeforeAppend /\ d.owner = r
          /\ d.state = c.state /\ d.sending = c.sending /\ d.voided = c.voided
      BY <1>1 DEF Claim, Stages, StagesBeforeAppend
    <2>2. SafeAfter(c, d)
      BY <1>1, <1>4, <2>1 DEF SafeAfter, Numbered
    <2>3. Writes(r, d, "render")
      BY <1>4
    <2> HIDE DEF d
    <2>4. Follows(c, d)
      BY <1>1, <2>1, <2>2, FollowsBySame
    <2>5. Follows(Mine(r), d) /\ StageFits("render", d) /\ ~MaybeSent(d)
      BY <1>4, <2>1, <2>4, FollowsOn DEF StageFits, MaybeSent
    <2> QED BY <1>4, <2>1, <2>3, <2>5, WritesMail DEF PCs, booksVars
  <1>5. ASSUME NEW n \in Numbers, Mint(n),
               claims' = [claims EXCEPT ![l] = [c EXCEPT !.num = n, !.voided = FALSE, !.stage = "reserved"]],
               givenUp' = givenUp \cup (IF usable THEN {c.num} ELSE {}),
               Go(r, "render")
        PROVE  MailKeeps
    <2> DEFINE d == [c EXCEPT !.num = n, !.voided = FALSE, !.stage = "reserved"]
    <2>1. /\ d \in Claim /\ d.num = n /\ d.stage = "reserved" /\ d.owner = r /\ d.state = "working" /\ ~d.voided
      BY <1>1 DEF Claim, Stages
    <2>2. claims' = [claims EXCEPT ![l] = d]
      BY <1>5
    <2> HIDE DEF d
    <2>3. BooksTrue'
      BY <1>1, <1>5, <2>1, <2>2, BooksMint
    <2>4. PICK q : RunOK(q) /\ q.pc = "render" /\ q.load = l /\ runs' = [runs EXCEPT ![r] = q]
      BY <1>5, GoRunOK DEF PCs, Known
    <2>5. StageFits(q.pc, d) /\ q.pc # "append"
      BY <2>1, <2>4 DEF StageFits
    <2>6. /\ \A p \in Runs : runs[p].pc = "append" /\ p # r => Absent(copies', runs[p].num)
          /\ Overlaps \/ \A p \in Runs : runs[p].pc = "append" /\ LoadOf(p) = l => p = r
      BY ZenonT(40), NothingFiled, HeldMail
    <2>7. RunsTrue' /\ FilesAlone'
      BY <1>1, <2>1, <2>2, <2>4, <2>5, <2>6, RunsWrite
    <2>8. SendsKept
      BY <1>1, <2>2 DEF SendsKept, Known, Core, CoreTypeOK
    <2> QED BY <2>3, <2>7, <2>8 DEF MailKeeps, MailInv
  <1> QED BY <1>2, <1>3, <1>4, <1>5 DEF Reserve

\* prepare() answered: the look, or the number.
LEMMA PreparedMail ==
    ASSUME Known, NEW r \in Runs, Prepared(r), UNCHANGED presses PROVE MailKeeps
  <1>1. /\ runs[r].pc = "prepare" /\ Holds(r) /\ stop' = stop
        /\ UNCHANGED <<rows, inflight, copies, sent, outbox, delivered, handFiled, presses>>
    BY DEF Prepared, At, gmailVars
  <1>2. /\ Follows(Mine(r), Mine(r)) /\ Mine(r).owner = r /\ Mine(r).state = "working"
        /\ Mine(r).stage \in StagesBeforeAppend
    BY <1>1, HeldMail DEF RunFits
  <1>3. CASE Go(r, "lookFirst") /\ UNCHANGED <<claims, givenUp, seq>>
    <2>1. BooksTrue'
      BY <1>1, <1>3, BooksStutter DEF booksVars
    <2> QED BY <1>1, <1>3, <2>1, GoMail DEF PCs, StageFits
  <1>4. CASE Reserve(r, Mine(r))
    BY <1>1, <1>2, <1>4, ReserveMail
  <1> QED BY <1>3, <1>4 DEF Prepared

\* The look came back.
LEMMA LookedFirstMail ==
    ASSUME Known, NEW r \in Runs, NEW clean \in BOOLEAN, LookedFirst(r, clean), UNCHANGED presses PROVE MailKeeps
  <1>1. /\ runs[r].pc = "lookFirst" /\ Holds(r) /\ stop' = stop
        /\ UNCHANGED <<rows, inflight, copies, sent, outbox, delivered, handFiled, presses>>
    BY DEF LookedFirst, At, gmailVars
  <1>2. /\ Follows(Mine(r), Mine(r)) /\ Mine(r).owner = r /\ Mine(r).state = "working" /\ Mine(r) \in Claim
        /\ Mine(r).stage \in StagesBeforeAppend
    BY <1>1, HeldMail DEF RunFits
  <1>3. CASE EndsWith(r, Release(Mine(r), "needs_attention", "OTHER")) /\ UNCHANGED seq
    BY <1>1, <1>2, <1>3, ReleaseMail DEF Reasons, booksVars
  <1>4. CASE Reserve(r, [Mine(r) EXCEPT !.look = FALSE])
    <2> DEFINE c == [Mine(r) EXCEPT !.look = FALSE]
    <2>1. /\ c \in Claim /\ c.num = Mine(r).num /\ c.stage = Mine(r).stage /\ c.owner = r
          /\ c.state = "working" /\ c.voided = Mine(r).voided /\ c.sending = Mine(r).sending
      BY <1>2 DEF Claim
    <2>2. Reserve(r, c)
      BY <1>4
    <2> HIDE DEF c
    <2>3. Follows(Mine(r), c)
      BY <1>2, <2>1 DEF Follows, SafeAfter, Numbered, ClaimSent, ClaimTrue, SendInFlight
    <2> QED BY <1>1, <1>2, <2>1, <2>2, <2>3, ReserveMail
  <1> QED BY <1>3, <1>4 DEF LookedFirst

-----------------------------------------------------------------------------
(* The render, and what follows it. *)

\* The render threw, or its recipient was refused.
LEMMA RenderFailedMail ==
    ASSUME Known, NEW r \in Runs, RenderFailed(r), UNCHANGED presses PROVE MailKeeps
  <1>1. runs[r].pc = "render" /\ Holds(r) /\ UNCHANGED outbox /\ UNCHANGED booksVars
    BY DEF RenderFailed, At, sharedVars, gmailVars, booksVars
  <1>2. Follows(Mine(r), Mine(r)) /\ Mine(r).stage \notin InGmail /\ ~SendInFlight(Mine(r))
    BY <1>1, HeldMail DEF RunFits, InGmail, StagesBeforeAppend, SendInFlight
  <1>3. ASSUME NEW counted \in BOOLEAN, TemporaryEnd(r, Mine(r), counted) PROVE MailKeeps
    BY <1>1, <1>2, <1>3, TemporaryMail
  <1>4. ASSUME EndsWith(r, Release(Mine(r), "needs_attention", "OTHER")), UNCHANGED stop PROVE MailKeeps
    BY <1>1, <1>2, <1>4, ReleaseMail DEF Reasons
  <1> QED BY <1>3, <1>4 DEF RenderFailed

\* Where nobody else has a row for the load, no press has a draft of it in Gmail.
LEMMA NobodysDraft ==
    ASSUME Known, OneHandOff, NEW l \in Loads, OtherRows(l) = {}, InflightRows(l) = {}
    PROVE  \A h \in handFiled : h.load # l
  <1> SUFFICES ASSUME NEW h \in handFiled, h.load = l PROVE FALSE
    OBVIOUS
  <1>1. claims[l].num # h.num /\ HandDraftsTracked
    BY DEF Known, MailInv, BooksTrue, OneHandOff, NumbersApart
  <1>2. ASSUME NEW d \in rows, d.load = l, d.num = h.num PROVE FALSE
    BY <1>1, <1>2 DEF OtherRows, IsOwnRow
  <1>3. ASSUME NEW f \in inflight, f.load = l PROVE FALSE
    BY <1>3 DEF InflightRows
  <1> QED BY <1>1, <1>2, <1>3 DEF HandDraftsTracked

\* A message is on its way, under a number the mailbox has not, for a load no press is drafting.
LEMMA BooksBegin ==
    ASSUME Known, NEW l \in Loads, NEW d \in Claim, d.num = claims[l].num, ClaimTrue(d), Absent(copies, d.num),
           ~d.voided, ~claims[l].voided, d.state = "working",
           OtherRows(l) = {}, InflightRows(l) = {}, WriteClaim(l, d), stop' = stop,
           outbox' = [outbox EXCEPT ![l] = @ + 1], UNCHANGED booksVars
    PROVE  BooksTrue'
  <1> USE DEF booksVars
  <1>1. /\ claims \in [Loads -> Claim] /\ outbox \in [Loads -> Nat] /\ delivered \in [Loads -> Nat]
        /\ claims' = [claims EXCEPT ![l] = d] /\ givenUp' = givenUp
        /\ BooksTrue
    BY DEF Known, Core, CoreTypeOK, MailInv, WriteClaim
  <1>2. /\ claims'[l] = d /\ \A k \in Loads : k # l => claims'[k] = claims[k] /\ outbox'[k] = outbox[k]
        /\ \A k \in Loads : claims'[k].num = claims[k].num
    BY <1>1
  <1>3. ClaimsTrue'
    <2> SUFFICES ASSUME NEW k \in Loads
                 PROVE  /\ ClaimTrue(claims[k])'
                        /\ outbox'[k] > 0 => Absent(copies, claims'[k].num)
                        /\ MaybeSent(claims'[k]) => stop
                        /\ claims'[k].num \in givenUp => claims'[k].voided
      BY <1>1 DEF ClaimsTrue, MaybeSent
    <2>1. CASE k = l
      <3>1. ClaimTrue(claims[k])'
        BY <1>2, <2>1 DEF ClaimTrue
      <3> QED BY <1>1, <1>2, <2>1, <3>1 DEF MaybeSent, BooksTrue, ClaimsTrue
    <2>2. CASE k # l
      <3>1. ClaimTrue(claims[k])'
        BY <1>1, <1>2, <2>2 DEF ClaimTrue, BooksTrue, ClaimsTrue
      <3> QED BY <1>1, <1>2, <2>2, <3>1 DEF BooksTrue, ClaimsTrue
    <2> QED BY <2>1, <2>2
  <1>4. NumbersMinted' /\ NumbersApart'
    BY <1>1, <1>2 DEF BooksTrue, NumbersMinted, NumbersApart
  <1>5. PressesTrue'
    <2> SUFFICES ASSUME NEW p \in Presses PROVE PressTrue(presses[p])'
      BY DEF PressesTrue
    <2>1. PressTrue(presses[p])
      BY <1>1 DEF BooksTrue, PressesTrue
    <2>2. presses[p].pc = "append" => presses[p].load \in Loads /\ presses[p].load # l
      BY <2>1 DEF Known, PressTypeOK, PressTrue, OwnRow, InflightRows
    <2> QED BY <1>1, <1>2, <2>1, <2>2 DEF PressTrue, OwnRow
  <1>6. Filed' /\ SentKnown'
    BY <1>1, <1>2 DEF BooksTrue, Filed, SentKnown
  <1>7. ASSUME OneHandOff PROVE OneHandOff'
    <2>1. OneSideWins'
      BY <1>1, <1>2, <1>7, NobodysDraft DEF OneHandOff, OneSideWins
    <2> QED BY <1>1, <1>7, <2>1 DEF OneHandOff, FiledOnce, HandDraftsTracked
  <1> QED BY <1>1, <1>3, <1>4, <1>5, <1>6, <1>7 DEF BooksTrue

\* The commit to a send.
LEMMA BeginSendMail ==
    ASSUME Known, NEW r \in Runs, runs[r].pc = "render", Holds(r),
           NEW c, Follows(Mine(r), c), c.owner = r, c.state = "working", ~c.voided, c.num # 0,
           BeginSend(r, c), UNCHANGED booksVars
    PROVE  MailKeeps
  <1> DEFINE l == LoadOf(r)
             d == [c EXCEPT !.stage = "appending", !.sending = TRUE, !.checks = 0]
  <1>1. /\ l \in Loads /\ Mine(r) = claims[l] /\ ~ClaimSent(Mine(r)) /\ Mine(r).stage \in StagesBeforeAppend
        /\ ClaimTrue(Mine(r)) /\ ~Mine(r).voided
        /\ Overlaps \/ \A p \in Runs : runs[p].pc = "append" /\ LoadOf(p) = l => p = r
    BY HeldMail DEF RunFits, StageFits, ClaimSent, StagesBeforeAppend
  <1>2. c \in Claim /\ c.num = Mine(r).num
    BY DEF Follows, SafeAfter
  <1>3. /\ d \in Claim /\ d.stage = "appending" /\ d.sending /\ d.num = c.num /\ d.owner = r /\ d.state = "working"
        /\ ~d.voided
    BY <1>2 DEF Claim, Stages
  <1>4. Absent(copies, d.num)
    BY <1>1, <1>2, <1>3 DEF ClaimTrue
  <1>5. /\ WriteClaim(l, d) /\ Go(r, "smtp") /\ stop' = stop /\ outbox' = [outbox EXCEPT ![l] = @ + 1]
        /\ OtherRows(l) = {} /\ InflightRows(l) = {}
    BY DEF BeginSend, Writes
  <1> HIDE DEF d
  <1>6. ClaimTrue(d)
    BY <1>3 DEF ClaimTrue, StagesBeforeAppend, InGmail
  <1>7. BooksTrue'
    BY <1>1, <1>2, <1>3, <1>4, <1>5, <1>6, BooksBegin
  <1>8. PICK q : RunOK(q) /\ q.pc = "smtp" /\ q.load = l /\ runs' = [runs EXCEPT ![r] = q]
    BY <1>5, GoRunOK DEF PCs, Known
  <1>9. StageFits(q.pc, d) /\ q.pc # "append" /\ claims' = [claims EXCEPT ![l] = d]
    BY <1>3, <1>5, <1>8 DEF StageFits, SendInFlight, WriteClaim
  <1>10. \A p \in Runs : runs[p].pc = "append" /\ p # r => Absent(copies', runs[p].num)
    BY NothingFiled DEF booksVars
  <1>11. RunsTrue' /\ FilesAlone'
    BY <1>1, <1>3, <1>8, <1>9, <1>10, RunsWrite
  <1>12. SendsKept
    BY <1>1, <1>9 DEF SendsKept, Known, Core, CoreTypeOK
  <1> QED BY <1>7, <1>11, <1>12 DEF MailKeeps, MailInv

\* The draft is handed to Gmail: the number is in no mailbox, and no other run files for the load.
LEMMA HandsOverMail ==
    ASSUME Known, NEW r \in Runs, runs[r].pc = "render", Holds(r),
           NEW c, Follows(Mine(r), c), c.owner = r, c.state = "working", ~c.voided, c.num # 0,
           Writes(r, [c EXCEPT !.stage = "appending", !.sending = FALSE], "append"), stop' = stop,
           UNCHANGED outbox, UNCHANGED booksVars
    PROVE  MailKeeps
  <1> DEFINE l == LoadOf(r)
             d == [c EXCEPT !.stage = "appending", !.sending = FALSE]
             q == [runs[r] EXCEPT !.pc = "append", !.num = Mine(r).num]
  <1>1. /\ l \in Loads /\ Mine(r) = claims[l] /\ ~ClaimSent(Mine(r)) /\ Mine(r).stage \in StagesBeforeAppend
        /\ ClaimTrue(Mine(r)) /\ ~Mine(r).voided
        /\ Overlaps \/ \A p \in Runs : runs[p].pc = "append" /\ LoadOf(p) = l => p = r
    BY HeldMail DEF RunFits, StageFits, ClaimSent, StagesBeforeAppend
  <1>2. c \in Claim /\ c.num = Mine(r).num
    BY DEF Follows, SafeAfter
  <1>3. /\ d \in Claim /\ d.stage = "appending" /\ ~d.sending /\ d.num = c.num /\ d.owner = r /\ d.state = "working"
        /\ ~d.voided
    BY <1>2 DEF Claim, Stages
  <1>4. Absent(copies, d.num) /\ copies' = copies
    BY <1>1, <1>2, <1>3 DEF ClaimTrue, booksVars
  <1>5. WriteClaim(l, d) /\ Go(r, "append") /\ claims' = [claims EXCEPT ![l] = d]
    BY DEF Writes, WriteClaim
  <1> HIDE DEF d
  <1>6. ClaimTrue(d) /\ ~MaybeSent(d) /\ Numbered(d)
    BY <1>3 DEF ClaimTrue, StagesBeforeAppend, InGmail, MaybeSent, Numbered
  <1>7. BooksTrue'
    BY <1>1, <1>2, <1>3, <1>5, <1>6, BooksWrite DEF Known, Core, CoreTypeOK
  <1>8. RunOK(q) /\ q.pc = "append" /\ q.load = l /\ q.num = d.num /\ runs' = [runs EXCEPT ![r] = q]
    <2>1. runs[r] \in RunRecord /\ l # NoLoad
      BY <1>1, LedgerAssumption DEF Known, Core, CoreTypeOK, RunTypeOK, RunRecord
    <2>2. Mine(r).num \in Numbers
      BY <1>2 DEF Claim
    <2>3. q \in RunRecord /\ q.pc = "append" /\ q.load = l /\ q.num = Mine(r).num
      BY <2>1, <2>2 DEF RunRecord, PCs, LoadOf
    <2>4. runs' = [runs EXCEPT ![r] = q]
      BY <1>5, <2>1 DEF Go
    <2> HIDE DEF q
    <2> QED BY <1>2, <1>3, <2>1, <2>3, <2>4 DEF RunOK
  <1> HIDE DEF q
  <1>9. StageFits(q.pc, d) /\ BeingFiled(d) /\ Absent(copies', q.num)
    BY <1>3, <1>4, <1>8 DEF StageFits, BeingFiled
  <1>10. \A p \in Runs : runs[p].pc = "append" /\ p # r => Absent(copies', runs[p].num)
    BY <1>4, NothingFiled
  <1>11. RunsTrue' /\ FilesAlone'
    BY <1>1, <1>3, <1>5, <1>8, <1>9, <1>10, RunsWrite
  <1>12. SendsKept
    BY <1>1, <1>5 DEF SendsKept, Known, Core, CoreTypeOK
  <1> QED BY <1>7, <1>11, <1>12 DEF MailKeeps, MailInv

\* The render is done: sent, drafted, held back or refused.
LEMMA RenderedMail ==
    ASSUME Known, NEW r \in Runs, Rendered(r), UNCHANGED presses PROVE MailKeeps
  <1> DEFINE l == LoadOf(r)
             c == [Mine(r) EXCEPT !.stage = "rendered"]
  <1>1. runs[r].pc = "render" /\ Holds(r) /\ UNCHANGED booksVars
    BY DEF Rendered, At, sharedVars, booksVars
  <1>2. /\ Mine(r) \in Claim /\ Numbered(Mine(r)) /\ Mine(r).state = "working" /\ Mine(r).owner = r
        /\ ClaimTrue(Mine(r)) /\ Mine(r).num # 0 /\ Mine(r).stage \in StagesBeforeAppend /\ ~Mine(r).voided
    BY <1>1, HeldMail DEF RunFits, StageFits
  <1>3. /\ c \in Claim /\ c.num = Mine(r).num /\ c.owner = r /\ c.state = "working" /\ c.stage = "rendered"
        /\ ~c.voided
    BY <1>2 DEF Claim, Stages
  <1>4. Follows(Mine(r), c)
    <2>1. ~ClaimSent(Mine(r)) /\ Absent(copies, Mine(r).num)
      BY <1>2 DEF ClaimTrue, ClaimSent, StagesBeforeAppend
    <2> QED BY <1>2, <2>1, StageFollows
  <1> HIDE DEF c
  <1>5. c.stage \notin InGmail /\ ~SendInFlight(c) /\ c.stage \in StagesBeforeAppend
    BY <1>3 DEF InGmail, SendInFlight, StagesBeforeAppend
  <1>6. ASSUME EndsWith(r, SkipDraftedByHand(c)), UNCHANGED <<stop, outbox>> PROVE MailKeeps
    BY <1>1, <1>4, <1>6, SkipMail
  <1>7. ASSUME NEW state \in {"skipped", "waiting", "needs_attention"}, EndsWith(r, Release(c, state, "OTHER")),
               UNCHANGED <<stop, outbox>>
        PROVE  MailKeeps
    BY <1>1, <1>4, <1>5, <1>7, ReleaseMail DEF Reasons
  <1>8. ASSUME BeginSend(r, c) PROVE MailKeeps
    BY <1>1, <1>2, <1>3, <1>4, <1>8, BeginSendMail
  <1>9. ASSUME TemporaryEnd(r, c, FALSE), UNCHANGED outbox PROVE MailKeeps
    BY <1>1, <1>4, <1>5, <1>9, TemporaryMail
  <1>10. ASSUME EndsWith(r, [Release(c, "needs_attention", "OTHER") EXCEPT !.voided = TRUE]), UNCHANGED <<stop, outbox>>
         PROVE  MailKeeps
    <2> DEFINE e == Release(c, "needs_attention", "OTHER")
               d == [e EXCEPT !.voided = TRUE]
    <2>1. c \in Claim /\ Numbered(c) /\ c.state # "none" /\ ClaimTrue(c)
      BY <1>4 DEF Follows, SafeAfter
    <2>2. /\ Follows(c, e) /\ e.owner = NoRun /\ e.state = "needs_attention" /\ e.reason = "OTHER"
          /\ e.stage = KeptStage(c)
      BY <2>1, ReleaseFollows DEF Reasons
    <2>3. e.stage \in StagesBeforeAppend /\ e \in Claim /\ e.num = c.num /\ ClaimTrue(e) /\ ~ClaimSent(c)
      BY <1>5, <2>2 DEF KeptStage, StagesBeforeAppend, Follows, SafeAfter, ClaimSent
    <2> HIDE DEF e
    <2>4. /\ d \in Claim /\ d.num = e.num /\ d.stage = e.stage /\ d.state = e.state /\ d.owner = NoRun
          /\ d.sending = e.sending /\ d.voided = TRUE /\ d.reason = "OTHER"
      BY <2>2, <2>3 DEF Claim
    <2>5. EndsWith(r, d)
      BY <1>10 DEF e
    <2> HIDE DEF d
    <2>6. ClaimTrue(d) /\ ~MaybeSent(d)
      BY <2>2, <2>3, <2>4 DEF ClaimTrue, MaybeSent, InGmail, SendInFlight
    <2>7. SafeAfter(c, d)
      BY <1>2, <1>3, <2>2, <2>3, <2>4 DEF SafeAfter, Numbered
    <2>8. Follows(Mine(r), d)
      BY <1>4, <2>3, <2>4, <2>6, <2>7, FollowsOn DEF Follows
    <2> QED BY <1>1, <1>10, <2>4, <2>5, <2>6, <2>8, EndsWithMail
  <1>11. ASSUME Writes(r, [c EXCEPT !.stage = "appending", !.sending = FALSE], "append"), UNCHANGED <<stop, outbox>>
         PROVE  MailKeeps
    BY <1>1, <1>2, <1>3, <1>4, <1>11, HandsOverMail
  <1> QED
    BY <1>6, <1>7, <1>8, <1>9, <1>10, <1>11 DEF Rendered, SendRefused, Settles, c

-----------------------------------------------------------------------------
(* A message lands in the mailbox. *)

\* The claim of a message that landed may say so.
SaysLanded(k) ==
    /\ claims[k].state = "working"
    /\ claims' = [claims EXCEPT ![k] = [claims[k] EXCEPT !.stage = "appended"]]
    /\ claims[k].sending => claims[k].num \in sent'

\* The messages of loads M, all under way, land, each once, and beside them only what an older run
\* was filing; their claims say so or go on as they were.
LEMMA BooksLand ==
    ASSUME Known, NEW M \in SUBSET Loads, \A k \in M : claims[k].stage = "appending",
           copies' \in [Numbers -> Nat],
           \A n \in Numbers : copies[n] <= copies'[n] /\ ((\E k \in M : claims[k].num = n) => copies'[n] > 0),
           Overlaps \/ \A n \in Numbers : copies'[n] = IF \E k \in M : claims[k].num = n THEN 1 ELSE copies[n],
           claims' = claims \/ \E k \in M : SaysLanded(k),
           outbox' \in [Loads -> Nat], delivered' \in [Loads -> Nat],
           \A k \in Loads : outbox'[k] > 0 => outbox[k] > 0 /\ k \notin M,
           \A k \in Loads : outbox'[k] + delivered'[k] > 0 => outbox[k] + delivered[k] > 0,
           \A k \in Loads : delivered[k] > 0 => delivered'[k] > 0,
           sent \subseteq sent', \A n \in sent' : n \in sent \/ \E k \in M : claims[k].num = n /\ delivered'[k] > 0,
           UNCHANGED <<rows, inflight, seq, givenUp, stop, handFiled, presses>>
    PROVE  BooksTrue' /\ SendsKept
  <1>1. /\ claims \in [Loads -> Claim] /\ outbox \in [Loads -> Nat] /\ delivered \in [Loads -> Nat]
        /\ copies \in [Numbers -> Nat] /\ sent \subseteq Numbers /\ BooksTrue
    BY DEF Known, Core, CoreTypeOK, MailInv, RestTypeOK
  <1>2. ASSUME NEW k \in M
        PROVE  /\ claims[k].num \in Numbers /\ claims[k].num \notin givenUp /\ copies'[claims[k].num] > 0
               /\ \A j \in Loads : j # k => claims[j].num # claims[k].num
    <2> DEFINE c == claims[k]
    <2>1. /\ k \in Loads /\ c \in Claim /\ c.stage = "appending" /\ ClaimTrue(c) /\ Numbered(c)
          /\ (c.num \in givenUp => c.voided)
      BY <1>1, <1>2 DEF Known, Core, CoreInv, TransitKnown, BooksTrue, ClaimsTrue
    <2> HIDE DEF c
    <2>2. c.num # 0 /\ ~c.voided
      BY <2>1 DEF Numbered, ClaimTrue, StagesBeforeAppend
    <2>3. c.num \in Numbers
      BY <2>1, <2>2 DEF Claim
    <2>4. claims[k].num \in Numbers /\ claims[k].num # 0 /\ claims[k].num \notin givenUp
      BY <2>1, <2>2, <2>3 DEF c
    <2>5. copies'[claims[k].num] > 0
      BY <1>2, <2>4
    <2> QED BY <1>1, <2>1, <2>4, <2>5 DEF BooksTrue, NumbersApart
  <1>3. ASSUME NEW k \in Loads
        PROVE  \/ claims'[k] = claims[k]
               \/ /\ k \in M /\ claims'[k] = [claims[k] EXCEPT !.stage = "appended"] /\ claims[k].state = "working"
                  /\ claims[k].sending => claims[k].num \in sent'
    <2>1. CASE claims' = claims
      BY <2>1
    <2>2. ASSUME NEW j \in M, SaysLanded(j)
          PROVE  \/ claims'[k] = claims[k]
                 \/ /\ k \in M /\ claims'[k] = [claims[k] EXCEPT !.stage = "appended"] /\ claims[k].state = "working"
                    /\ claims[k].sending => claims[k].num \in sent'
      <3>1. CASE k = j
        BY <1>1, <2>2, <3>1 DEF SaysLanded
      <3>2. CASE k # j
        BY <1>1, <2>2, <3>2 DEF SaysLanded
      <3> QED BY <3>1, <3>2
    <2> QED BY <2>1, <2>2
  <1>4. ASSUME NEW k \in Loads
        PROVE  /\ claims'[k].num = claims[k].num /\ claims'[k].voided = claims[k].voided
               /\ claims'[k].sending = claims[k].sending /\ claims'[k].state = claims[k].state
               /\ claims'[k].stage = claims[k].stage \/ (k \in M /\ claims'[k].stage = "appended"
                                                          /\ claims[k].state = "working"
                                                          /\ (claims[k].sending => claims[k].num \in sent'))
    <2>1. claims[k] \in Claim
      BY <1>1
    <2>2. CASE claims'[k] = claims[k]
      BY <2>2
    <2>3. CASE claims'[k] # claims[k]
      <3>1. /\ k \in M /\ claims'[k] = [claims[k] EXCEPT !.stage = "appended"] /\ claims[k].state = "working"
            /\ claims[k].sending => claims[k].num \in sent'
        BY <1>3, <2>3
      <3>2. /\ claims'[k].num = claims[k].num /\ claims'[k].voided = claims[k].voided
            /\ claims'[k].sending = claims[k].sending /\ claims'[k].state = claims[k].state
            /\ claims'[k].stage = "appended"
        BY <2>1, <3>1 DEF Claim
      <3> QED BY <3>1, <3>2
    <2> QED BY <2>2, <2>3
  <1>5. ASSUME NEW n \in Numbers
        PROVE  /\ copies[n] > 0 \/ (\E k \in M : claims[k].num = n) => copies'[n] > 0
               /\ Absent(copies, n) /\ (\A k \in M : claims[k].num # n) => Absent(copies', n)
    BY <1>1
  <1>6. ClaimsTrue'
    <2> SUFFICES ASSUME NEW k \in Loads
                 PROVE  /\ ClaimTrue(claims[k])'
                        /\ outbox'[k] > 0 => Absent(copies', claims'[k].num)
                        /\ MaybeSent(claims'[k]) => stop
                        /\ claims'[k].num \in givenUp => claims'[k].voided
      BY DEF ClaimsTrue, MaybeSent
    <2>1. /\ ClaimTrue(claims[k]) /\ (outbox[k] > 0 => Absent(copies, claims[k].num))
          /\ (MaybeSent(claims[k]) => stop) /\ (claims[k].num \in givenUp => claims[k].voided)
          /\ claims[k] \in Claim /\ Numbered(claims[k])
      BY <1>1 DEF BooksTrue, ClaimsTrue, Known, Core, CoreInv, TransitKnown
    <2>2. CASE k \in M
      <3>1. copies'[claims[k].num] > 0 /\ claims[k].stage = "appending"
        BY <1>2, <2>2
      <3> DEFINE c == claims[k]  d == claims'[k]
      <3>2. /\ d.num = c.num /\ d.voided = c.voided /\ d.sending = c.sending /\ d.state = c.state
            /\ \/ d.stage = "appending"
               \/ d.stage = "appended" /\ c.state = "working" /\ (c.sending => c.num \in sent')
        BY <1>4, <3>1
      <3>3. ClaimTrue(c) /\ c \in Claim /\ Numbered(c) /\ c.stage = "appending" /\ copies'[d.num] > 0
        BY <2>1, <3>1, <3>2
      <3>4. ClaimTrue(claims[k])' <=>
            /\ d.num # 0 /\ d.stage \in StagesBeforeAppend => Absent(copies', d.num)
            /\ d.stage \in InGmail => copies'[d.num] > 0 /\ (d.sending => d.num \in sent')
            /\ d.voided => d.stage \in StagesBeforeAppend
            /\ d.state \in {"none", "baseline", "waiting", "queued"} => d.stage \notin InGmail
            /\ d.state \in {"none", "baseline", "waiting"} => ~SendInFlight(d)
            /\ TriggerMode /\ d.state = "queued" => d.stage \in StagesBeforeAppend
            /\ d.state = "none" => d.num = 0
        BY DEF ClaimTrue, SendInFlight
      <3> HIDE DEF c, d
      <3>5. d.stage \notin StagesBeforeAppend /\ ~d.voided
        BY <3>2, <3>3 DEF ClaimTrue, StagesBeforeAppend
      <3>6. d.state \in {"none", "baseline", "waiting"} => ~SendInFlight(d)
        BY <3>2, <3>3 DEF ClaimTrue, SendInFlight
      <3>7. d.state \in {"none", "baseline", "waiting", "queued"} => d.stage \notin InGmail
        BY <3>2 DEF InGmail
      <3>8. TriggerMode /\ d.state = "queued" => d.stage \in StagesBeforeAppend
        BY <3>2, <3>3 DEF ClaimTrue
      <3>9. d.stage \in InGmail => copies'[d.num] > 0 /\ (d.sending => d.num \in sent')
        BY <3>2, <3>3 DEF InGmail
      <3>10. d.num # 0 /\ d.stage \in StagesBeforeAppend => Absent(copies', d.num)
        BY <3>5
      <3>11. d.voided => d.stage \in StagesBeforeAppend
        BY <3>5
      <3>12. d.state = "none" => d.num = 0
        BY <3>2, <3>3 DEF ClaimTrue
      <3>13. ClaimTrue(claims[k])'
        BY <3>4, <3>6, <3>7, <3>8, <3>9, <3>10, <3>11, <3>12, Zenon
      <3>14. d = c \/ d.state = "working"
        <4>1. c \in Claim
          BY <3>3
        <4> QED BY <1>3, <3>2, <4>1 DEF c, d
      <3>15. MaybeSent(d) => MaybeSent(c)
        BY <3>14 DEF MaybeSent
      <3>16. ~(outbox'[k] > 0) /\ (MaybeSent(claims'[k]) => stop)
        BY <2>1, <2>2, <3>15 DEF c, d
      <3> QED BY <1>4, <2>1, <3>13, <3>16
    <2>3. CASE k \notin M
      <3>1. claims'[k] = claims[k]
        BY <1>3, <2>3
      <3>2. claims[k].num \in Numbers =>
               /\ copies[claims[k].num] > 0 => copies'[claims[k].num] > 0
               /\ Absent(copies, claims[k].num) => Absent(copies', claims[k].num)
        BY <1>2, <1>5, <2>3
      <3>3. claims[k].num \in Numbers \/ (claims[k].num = 0 /\ claims[k].stage = "")
        BY <2>1 DEF Claim, Numbered
      <3>4. ClaimTrue(claims[k])'
        BY <2>1, <3>1, <3>2, <3>3 DEF ClaimTrue, InGmail
      <3>5. outbox[k] > 0 => claims[k].num \in Numbers
        <4>1. outbox[k] > 0 => ClaimSent(claims[k])
          BY <1>1 DEF Known, Core, CoreInv, TransitKnown
        <4> QED BY <3>3, <4>1 DEF ClaimSent
      <3> QED BY <2>1, <3>1, <3>2, <3>4, <3>5
    <2> QED BY <2>2, <2>3
  <1>7. NumbersMinted'
    <2>1. ASSUME NEW n \in Numbers, n > seq, NEW k \in M, claims[k].num = n PROVE FALSE
      <3>1. claims[k].num <= seq /\ seq \in Nat
        BY <1>1, LedgerAssumption DEF BooksTrue, NumbersMinted, Known, RestTypeOK
      <3> QED BY <2>1, <3>1 DEF Numbers
    <2>3. \A n \in sent' : n <= seq
      BY <1>1 DEF BooksTrue, NumbersMinted
    <2>2. ASSUME NEW n \in Numbers, n > seq PROVE Absent(copies', n)
      BY <1>1, <1>5, <2>1, <2>2 DEF BooksTrue, NumbersMinted
    <2> QED BY <1>1, <1>4, <2>2, <2>3 DEF BooksTrue, NumbersMinted
  <1>8. NumbersApart'
    BY <1>1, <1>4 DEF BooksTrue, NumbersApart
  <1>9. PressesTrue'
    <2> SUFFICES ASSUME NEW p \in Presses PROVE PressTrue(presses[p])'
      BY DEF PressesTrue
    <2>1. PressTrue(presses[p]) /\ (presses[p].num # 0 => \A k \in M : claims[k].num # presses[p].num)
      BY <1>1 DEF BooksTrue, PressesTrue, NumbersApart
    <2>2. presses[p].num \in Numbers \cup {0} /\ (presses[p].pc = "append" => presses[p].load \in Loads)
      BY DEF Known, PressTypeOK
    <2>3. presses[p].num # 0 /\ presses[p].pc # "n8n" => Absent(copies', presses[p].num)
      BY <2>1, <2>2 DEF PressTrue
    <2>4. ASSUME presses[p].pc = "append", outbox[presses[p].load] + delivered[presses[p].load] = 0
          PROVE  outbox'[presses[p].load] + delivered'[presses[p].load] = 0
      BY <2>2, <2>4
    <2> QED BY <2>1, <2>3, <2>4 DEF PressTrue, OwnRow
  <1>10. Filed'
    <2>1. ASSUME NEW n \in sent' PROVE copies'[n] > 0
      <3>1. n \in Numbers
        BY <1>1, <1>2
      <3> QED BY <1>1, <1>5, <3>1 DEF BooksTrue, Filed
    <2>2. ASSUME NEW d \in rows PROVE copies'[d.num] > 0
      BY <1>1, <1>5 DEF BooksTrue, Filed, Known, RestTypeOK, DraftRow
    <2>3. ASSUME NEW h \in handFiled PROVE copies'[h.num] > 0
      BY <1>1, <1>5 DEF BooksTrue, Filed, Known, RestTypeOK
    <2> QED BY <2>1, <2>2, <2>3 DEF Filed
  <1>13. SentKnown'
    BY <1>1, <1>2, <1>4 DEF BooksTrue, SentKnown
  <1>11. ASSUME OneHandOff PROVE OneHandOff'
    <2>1. ASSUME NEW n \in givenUp PROVE Absent(copies', n)
      BY <1>1, <1>2, <1>11, <2>1 DEF OneHandOff, Known, Core, CoreTypeOK
    <2>2. (Overlaps \/ FiledOnce') /\ HandDraftsTracked' /\ OneSideWins'
      BY <1>1, <1>11 DEF OneHandOff, FiledOnce, HandDraftsTracked, OneSideWins
    <2> QED BY <1>1, <2>1, <2>2 DEF OneHandOff
  <1>12. SendsKept
    <2>1. ASSUME NEW k \in Loads, ClaimSent(claims[k]) PROVE ClaimSent(claims'[k])
      BY <1>4, <2>1 DEF ClaimSent
    <2> QED BY <1>4, <2>1 DEF SendsKept
  <1> QED BY <1>1, <1>6, <1>7, <1>8, <1>9, <1>10, <1>11, <1>12, <1>13 DEF BooksTrue

\* One message lands.
LEMMA FileLands ==
    ASSUME Known, NEW l \in Loads, claims[l].num \in Numbers, Absent(copies, claims[l].num), File(claims[l].num)
    PROVE  /\ copies' \in [Numbers -> Nat]
           /\ \A n \in Numbers : copies[n] <= copies'[n] /\ ((\E k \in {l} : claims[k].num = n) => copies'[n] > 0)
           /\ Overlaps \/ \A n \in Numbers : copies'[n] = IF \E k \in {l} : claims[k].num = n THEN 1 ELSE copies[n]
  <1>1. copies \in [Numbers -> Nat]
    BY DEF Known, RestTypeOK
  <1>2. copies' = [copies EXCEPT ![claims[l].num] = @ + 1]
    BY <1>1 DEF File
  <1> QED BY <1>1, <1>2

\* What a run that files a draft may count on: its claim, where it holds it, and where no claim
\* changes hands under an append; and then the other runs too.
LEMMA FilingFacts ==
    ASSUME Known, NEW r \in Runs, runs[r].pc = "append"
    PROVE  /\ LoadOf(r) \in Loads /\ Mine(r) = claims[LoadOf(r)] /\ runs[r].num \in Numbers
           /\ \A p \in Runs : runs[p].pc = "append" => runs[p].num \in Numbers /\ Absent(copies, runs[p].num)
           /\ Holds(r) \/ ~Overlaps =>
                 /\ claims[LoadOf(r)].num = runs[r].num
                 /\ claims[LoadOf(r)].stage = "appending" /\ ~claims[LoadOf(r)].sending
                 /\ outbox[LoadOf(r)] = 0
           /\ ~Overlaps =>
                 /\ TriggerMode \/ Holds(r)
                 /\ \A p \in Runs : runs[p].pc = "append" /\ p # r =>
                       LoadOf(p) # LoadOf(r) /\ runs[p].num # runs[r].num
  <1> DEFINE l == LoadOf(r)
  <1>1. FilesAlone /\ Core /\ NumbersApart
    BY DEF Known, MailInv, BooksTrue
  <1>2. ASSUME NEW p \in Runs, runs[p].pc = "append"
        PROVE  LoadOf(p) \in Loads /\ Mine(p) = claims[LoadOf(p)] /\ runs[p].num \in Numbers
    BY <1>1, <1>2 DEF Core, CoreTypeOK, RunTypeOK, LoadOf, Mine
  <1>3. ASSUME NEW p \in Runs, runs[p].pc = "append" PROVE Absent(copies, runs[p].num)
    BY <1>1, <1>3, FilesAloneMeans
  <1>4. ASSUME Holds(r) \/ ~Overlaps
        PROVE  claims[l].num = runs[r].num /\ claims[l].stage = "appending" /\ ~claims[l].sending
    <2>1. CASE Holds(r)
      BY <1>2, <2>1, HeldMail DEF RunFits, StageFits
    <2>2. CASE ~Overlaps
      BY <1>1, <1>2, <2>2, FilesAloneMeans DEF BeingFiled
    <2> QED BY <1>4, <2>1, <2>2
  <1>5. ASSUME Holds(r) \/ ~Overlaps PROVE outbox[l] = 0
    <2>1. ~ClaimSent(claims[l])
      BY <1>4, <1>5 DEF ClaimSent
    <2>2. outbox[l] \in Nat /\ ~(outbox[l] > 0)
      BY <1>1, <1>2, <2>1 DEF Core, CoreTypeOK, CoreInv, TransitKnown
    <2> QED BY <2>2
  <1>6. ASSUME ~Overlaps PROVE TriggerMode \/ Holds(r)
    BY <1>1, <1>6, FilesAloneMeans
  <1>7. ASSUME ~Overlaps, NEW p \in Runs, runs[p].pc = "append", p # r
        PROVE  LoadOf(p) # l /\ runs[p].num # runs[r].num
    <2>1. LoadOf(p) # l
      BY <1>1, <1>7, FilesAloneMeans
    <2>2. claims[l].num # 0 /\ claims[l].num = runs[r].num /\ claims[LoadOf(p)].num = runs[p].num
      BY <1>1, <1>2, <1>7, FilesAloneMeans DEF Numbers
    <2> QED BY <1>1, <1>2, <1>7, <2>1, <2>2 DEF NumbersApart
  <1> QED BY <1>2, <1>3, <1>4, <1>5, <1>6, <1>7

\* A draft lands: the books, and what the other runs are filing.
LEMMA DraftLands ==
    ASSUME Known, NEW r \in Runs, runs[r].pc = "append", File(runs[r].num),
           claims' = claims \/ (Holds(r) /\ SaysLanded(LoadOf(r))),
           UNCHANGED <<rows, inflight, seq, givenUp, stop, sent, outbox, delivered, handFiled, presses>>
    PROVE  /\ BooksTrue' /\ SendsKept
           /\ \A p \in Runs : runs[p].pc = "append" /\ p # r => Absent(copies', runs[p].num)
  <1> DEFINE l == LoadOf(r)
             M == IF Holds(r) \/ ~Overlaps THEN {l} ELSE {}
  <1>1. /\ l \in Loads /\ runs[r].num \in Numbers /\ Absent(copies, runs[r].num)
        /\ copies \in [Numbers -> Nat] /\ outbox \in [Loads -> Nat] /\ delivered \in [Loads -> Nat]
    BY FilingFacts DEF Known, RestTypeOK, Core, CoreTypeOK
  <1>2. ASSUME NEW k \in M
        PROVE  k = l /\ claims[k].num = runs[r].num /\ claims[k].stage = "appending" /\ outbox[k] = 0
    BY <1>2, FilingFacts
  <1>3. copies' = [copies EXCEPT ![runs[r].num] = @ + 1]
    BY DEF File
  <1>4. /\ copies' \in [Numbers -> Nat]
        /\ \A n \in Numbers : copies[n] <= copies'[n] /\ ((\E k \in M : claims[k].num = n) => copies'[n] > 0)
    BY <1>1, <1>2, <1>3
  <1>5. ASSUME ~Overlaps, NEW n \in Numbers
        PROVE  copies'[n] = IF \E k \in M : claims[k].num = n THEN 1 ELSE copies[n]
    <2>1. l \in M
      BY <1>5
    <2> HIDE DEF M
    <2> QED BY <1>1, <1>2, <1>3, <1>5, <2>1
  <1>6. M \in SUBSET Loads /\ (Holds(r) => l \in M)
    BY <1>1
  <1>9. \A n \in sent' : n \in sent \/ \E k \in M : claims[k].num = n /\ delivered'[k] > 0
    OBVIOUS
  <1> HIDE DEF M
  <1>7. BooksTrue' /\ SendsKept
    BY <1>1, <1>2, <1>4, <1>5, <1>6, <1>9, BooksLand
  <1>8. ASSUME NEW p \in Runs, runs[p].pc = "append", p # r PROVE Absent(copies', runs[p].num)
    <2>1. /\ Overlaps \/ runs[p].num # runs[r].num
          /\ runs[p].num \in Numbers /\ Absent(copies, runs[p].num)
      BY <1>8, FilingFacts
    <2> QED BY <1>1, <1>3, <2>1
  <1> QED BY <1>7, <1>8

\* The draft was filed.
LEMMA AppendedMail ==
    ASSUME Known, NEW r \in Runs, Appended(r), UNCHANGED presses PROVE MailKeeps
  <1> DEFINE l == LoadOf(r)  d == [claims[l] EXCEPT !.stage = "appended"]
  <1>1. /\ runs[r].pc = "append" /\ File(runs[r].num)
        /\ UNCHANGED <<rows, inflight, seq, stop, sent, outbox, delivered, handFiled, presses>>
    BY DEF Appended, sharedVars
  <1>2. CASE Holds(r)
    <2>1. /\ l \in Loads /\ Mine(r) = claims[l] /\ claims[l] \in Claim /\ Numbered(claims[l])
          /\ claims[l].state = "working" /\ claims[l].owner = r /\ claims[l].stage = "appending" /\ ~claims[l].sending
          /\ ClaimTrue(claims[l])
          /\ Overlaps \/ \A p \in Runs : runs[p].pc = "append" /\ LoadOf(p) = l => p = r
      BY <1>1, <1>2, HeldMail, FilingFacts
    <2>2. Writes(r, d, "record")
      BY <1>2, <2>1 DEF Appended
    <2>3. d \in Claim /\ d.stage = "appended" /\ d.owner = r /\ d.voided = claims[l].voided
      BY <2>1 DEF Claim, Stages
    <2>4. ~claims[l].voided
      BY <2>1 DEF ClaimTrue, StagesBeforeAppend
    <2>5. claims' = [claims EXCEPT ![l] = d] /\ givenUp' = givenUp /\ Go(r, "record")
      BY <2>2, <2>3, <2>4 DEF Writes, WriteClaim
    <2>6. SaysLanded(l)
      BY <2>1, <2>5 DEF SaysLanded
    <2> HIDE DEF d
    <2>7. /\ BooksTrue' /\ SendsKept
          /\ \A p \in Runs : runs[p].pc = "append" /\ p # r => Absent(copies', runs[p].num)
      BY <1>1, <1>2, <2>5, <2>6, DraftLands
    <2>8. PICK q : RunOK(q) /\ q.pc = "record" /\ q.load = l /\ runs' = [runs EXCEPT ![r] = q]
      BY <1>1, <2>5, GoRunOK DEF PCs, Known
    <2>9. StageFits(q.pc, d) /\ q.pc # "append"
      BY <2>3, <2>8 DEF StageFits, InGmail
    <2>10. RunsTrue' /\ FilesAlone'
      BY <2>1, <2>3, <2>5, <2>7, <2>8, <2>9, RunsWrite
    <2> QED BY <2>7, <2>10 DEF MailKeeps, MailInv
  <1>3. CASE ~Holds(r)
    <2>1. Ends(r) /\ UNCHANGED <<claims, givenUp>>
      BY <1>3 DEF Appended
    <2>2. BooksTrue' /\ \A p \in Runs : runs[p].pc = "append" /\ p # r => Absent(copies', runs[p].num)
      BY <1>1, <2>1, DraftLands
    <2> QED BY <1>1, <2>1, <2>2, EndsMail
  <1> QED BY <1>2, <1>3

\* The append had no answer.
LEMMA AppendUnansweredMail ==
    ASSUME Known, NEW r \in Runs, NEW landed \in BOOLEAN, AppendUnanswered(r, landed), UNCHANGED presses
    PROVE  MailKeeps
  <1>1. /\ runs[r].pc = "append" /\ IF landed THEN File(runs[r].num) ELSE UNCHANGED copies
        /\ UNCHANGED <<claims, rows, inflight, seq, givenUp, stop, sent, outbox, delivered, handFiled, presses>>
    BY DEF AppendUnanswered, ledgerVars
  <1>2. BooksTrue' /\ \A p \in Runs : runs[p].pc = "append" /\ p # r => Absent(copies', runs[p].num)
    <2>1. CASE landed
      BY <1>1, <2>1, DraftLands
    <2>2. CASE ~landed
      BY <1>1, <2>2, BooksStutter, NothingFiled DEF booksVars
    <2> QED BY <2>1, <2>2
  <1>3. CASE Holds(r)
    <2>1. PICK q : RunOK(q) /\ q.pc = "searchAppended" /\ q.load = LoadOf(r) /\ runs' = [runs EXCEPT ![r] = q]
      BY <1>1, <1>3, GoRunOK DEF AppendUnanswered, PCs, Known
    <2>2. q.pc # "append" /\ StageFits(q.pc, Mine(r))
      BY <1>1, <1>3, <2>1, FilingFacts DEF StageFits
    <2>3. RunsTrue' /\ FilesAlone'
      BY <1>1, <1>2, <2>1, <2>2, RunsMove
    <2> QED BY <1>1, <1>2, <2>3, KeptByStutter DEF MailKeeps, MailInv
  <1>4. CASE ~Holds(r)
    BY <1>1, <1>2, <1>4, EndsMail DEF AppendUnanswered
  <1> QED BY <1>3, <1>4

\* The append was refused.
LEMMA AppendRefusedMail ==
    ASSUME Known, NEW r \in Runs, AppendRefused(r), UNCHANGED presses PROVE MailKeeps
  <1> DEFINE c == [Mine(r) EXCEPT !.stage = "reserved"]
  <1>1. runs[r].pc = "append" /\ UNCHANGED outbox /\ UNCHANGED booksVars
    BY DEF AppendRefused, sharedVars, gmailVars, booksVars
  <1>2. CASE Holds(r)
    <2>1. Mine(r) \in Claim /\ Numbered(Mine(r)) /\ Mine(r).state = "working" /\ ClaimTrue(Mine(r))
      BY <1>1, <1>2, HeldMail
    <2>2. Mine(r).stage = "appending" /\ ~Mine(r).sending /\ Mine(r).num # 0 /\ Absent(copies, Mine(r).num)
      BY <1>1, <1>2, FilingFacts DEF Numbers
    <2>3. /\ Mine(r) \in Claim /\ Numbered(Mine(r)) /\ Mine(r).state = "working" /\ ClaimTrue(Mine(r))
          /\ ~ClaimSent(Mine(r)) /\ Mine(r).num # 0 /\ Absent(copies, Mine(r).num)
      BY <2>1, <2>2 DEF ClaimSent
    <2>4. Follows(Mine(r), c) /\ c.stage \notin InGmail
      BY <2>3, StageFollows DEF InGmail, Claim
    <2>5. PICK counted \in BOOLEAN : TemporaryEnd(r, c, counted)
      BY <1>2 DEF AppendRefused
    <2> HIDE DEF c
    <2> QED BY <1>1, <1>2, <2>4, <2>5, TemporaryMail
  <1>3. CASE ~Holds(r)
    <2>1. Ends(r) /\ UNCHANGED <<claims, givenUp, stop>>
      BY <1>3 DEF AppendRefused
    <2>2. BooksTrue' /\ \A p \in Runs : runs[p].pc = "append" /\ p # r => Absent(copies', runs[p].num)
      BY <1>1, <2>1, BooksStutter, NothingFiled DEF booksVars
    <2> QED BY <1>1, <2>1, <2>2, EndsMail
  <1> QED BY <1>2, <1>3

\* The mailbox was searched for a message of the claim's, whatever it said.
LEMMA LookedInGmailMail ==
    ASSUME Known, NEW r \in Runs, FoundInGmail(r) \/ GmailUnknown(r) \/ AbsentFromGmail(r), UNCHANGED presses
    PROVE  MailKeeps
  <1> DEFINE c == Mine(r)
             absent == [c EXCEPT !.stage = "reserved"]
  <1>1. /\ runs[r].pc \in {"searchDraft", "searchAppended", "searchLeft"} /\ Holds(r)
        /\ UNCHANGED outbox /\ UNCHANGED booksVars
    BY DEF FoundInGmail, GmailUnknown, AbsentFromGmail, At, sharedVars, gmailVars, booksVars
  <1>2. /\ c \in Claim /\ Numbered(c) /\ c.state = "working" /\ c.owner = r /\ c.num # 0 /\ ~ClaimSent(c)
        /\ ClaimTrue(c) /\ Follows(c, c) /\ c.stage = "appending" /\ ~c.sending /\ ~c.voided
    <2>1. /\ c \in Claim /\ Numbered(c) /\ c.state = "working" /\ c.owner = r /\ ClaimTrue(c) /\ Follows(c, c)
          /\ RunFits(runs[r].pc, c) /\ StageFits(runs[r].pc, c)
      BY <1>1, HeldMail
    <2>2. c.num # 0 /\ c.stage = "appending" /\ ~c.sending
      BY <1>1, <2>1 DEF RunFits, StageFits
    <2> QED BY <2>1, <2>2 DEF ClaimSent, ClaimTrue, StagesBeforeAppend
  <1>3. c.stage \notin InGmail /\ ~SendInFlight(c)
    BY <1>2 DEF InGmail, SendInFlight
  <1>4. CASE FoundInGmail(r)
    <2> DEFINE d == [c EXCEPT !.stage = "appended"]
               pc == IF runs[r].pc = "searchAppended" THEN "record" ELSE "rebuild"
    <2>1. copies[c.num] > 0 /\ Writes(r, d, pc) /\ stop' = stop
      BY <1>4 DEF FoundInGmail
    <2>2. Follows(c, d)
      BY <1>2, <2>1, StageFollows
    <2>3. d.stage = "appended" /\ d.owner = r /\ d.state = "working"
      BY <1>2 DEF Claim
    <2> HIDE DEF d
    <2>4. pc \in PCs \ {"idle", "append"} /\ StageFits(pc, d) /\ ~MaybeSent(d)
      BY <2>3 DEF PCs, StageFits, InGmail, MaybeSent
    <2> HIDE DEF pc, c
    <2> QED BY <1>1, <2>1, <2>2, <2>3, <2>4, WritesMail DEF c
  <1>5. CASE GmailUnknown(r)
    BY <1>1, <1>2, <1>3, <1>5, ReleaseMail DEF GmailUnknown, Reasons
  <1>6. CASE AbsentFromGmail(r)
    <2>1. Absent(copies, c.num)
      BY <1>6 DEF AbsentFromGmail
    <2>2. Follows(c, absent) /\ absent.stage = "reserved" /\ absent.owner = r /\ absent.state = "working"
      <3>1. absent.stage = "reserved" /\ absent.owner = r /\ absent.state = "working"
        BY <1>2 DEF Claim
      <3> QED BY <1>2, <2>1, <3>1, StageFollows
    <2>3. ASSUME Settles(r, absent) PROVE MailKeeps
      <3> HIDE DEF absent, c
      <3>1. absent.stage \notin InGmail /\ ~SendInFlight(absent)
        BY <2>2 DEF InGmail, SendInFlight
      <3> QED BY <1>1, <2>2, <2>3, <3>1, ReleaseMail DEF Settles, Reasons, c
    <2>4. ASSUME Writes(r, absent, "prepare"), stop' = stop PROVE MailKeeps
      <3> HIDE DEF absent, c
      <3>1. StageFits("prepare", absent) /\ ~MaybeSent(absent)
        BY <2>2 DEF StageFits, MaybeSent
      <3> QED BY <1>1, <2>2, <2>4, <3>1, WritesMail DEF PCs, c
    <2>5. ASSUME EndsWith(r, Requeue(c, "reserved")), stop' = stop PROVE MailKeeps
      <3>1. Follows(c, Requeue(c, "reserved")) /\ Requeue(c, "reserved").owner = NoRun
            /\ ~MaybeSent(Requeue(c, "reserved"))
        BY <1>2, <2>1, RequeueFollows DEF StagesBeforeAppend, MaybeSent
      <3> QED BY <1>1, <2>5, <3>1, EndsWithMail
    <2>6. ASSUME EndsWith(r, Release(c, "needs_attention", "OTHER")), stop' = stop PROVE MailKeeps
      BY <1>1, <1>2, <1>3, <2>6, ReleaseMail DEF Reasons
    <2>7. ASSUME TemporaryEnd(r, c, TRUE) PROVE MailKeeps
      BY <1>1, <1>2, <1>3, <2>7, TemporaryMail
    <2> HIDE DEF c, absent
    <2> QED BY <1>6, <2>3, <2>4, <2>5, <2>6, <2>7 DEF AbsentFromGmail, c, absent
  <1> QED BY <1>4, <1>5, <1>6

-----------------------------------------------------------------------------
(* The send. *)

\* A message on its way is a send nobody has confirmed, and its number is in no mailbox.
LEMMA OnItsWay ==
    ASSUME Known, NEW l \in Loads, outbox[l] > 0
    PROVE  /\ claims[l] \in Claim /\ claims[l].num \in Numbers /\ Absent(copies, claims[l].num)
           /\ SendInFlight(claims[l]) /\ ~claims[l].voided
           /\ outbox[l] = 1 /\ delivered[l] = 0
           /\ Overlaps \/ \A p \in Runs : runs[p].pc = "append" => LoadOf(p) # l /\ runs[p].num # claims[l].num
  <1>1. Core /\ ClaimsTrue /\ NumbersApart
    BY DEF Known, MailInv, BooksTrue
  <1>2. claims[l] \in Claim /\ outbox[l] \in Nat /\ delivered[l] \in Nat /\ outbox[l] + delivered[l] <= 1
    BY <1>1 DEF Core, CoreTypeOK, CoreInv, TransitKnown
  <1>3. outbox[l] = 1 /\ delivered[l] = 0 /\ outbox[l] + delivered[l] > 0
    BY <1>2
  <1>4. ClaimSent(claims[l]) /\ Numbered(claims[l]) /\ ClaimTrue(claims[l]) /\ Absent(copies, claims[l].num)
    BY <1>1, <1>3 DEF Core, CoreInv, TransitKnown, ClaimsTrue
  <1>5. claims[l].num # 0 /\ claims[l].num \in Numbers
    BY <1>2, <1>4 DEF ClaimSent, Numbered, Claim
  <1>6. SendInFlight(claims[l])
    <2>1. claims[l].num \notin sent
      BY <1>3 DEF Known, MailInv, BooksTrue, SentKnown
    <2>2. claims[l].stage \notin InGmail
      BY <1>4, <2>1 DEF ClaimSent, ClaimTrue
    <2> QED BY <1>4, <2>2 DEF ClaimSent, SendInFlight, InGmail
  <1>7. ~claims[l].voided
    BY <1>4, <1>6 DEF ClaimTrue, SendInFlight, StagesBeforeAppend
  <1>8. ASSUME ~Overlaps, NEW p \in Runs, runs[p].pc = "append" PROVE LoadOf(p) # l /\ runs[p].num # claims[l].num
    <2>1. LoadOf(p) \in Loads /\ claims[LoadOf(p)].num = runs[p].num /\ ~claims[LoadOf(p)].sending
      BY <1>8, FilingFacts
    <2>2. LoadOf(p) # l
      BY <1>6, <2>1 DEF SendInFlight
    <2> QED BY <1>1, <1>5, <2>1, <2>2 DEF NumbersApart
  <1> QED BY <1>2, <1>3, <1>4, <1>5, <1>6, <1>7, <1>8

\* An email lands: the books, and what the runs are filing.
LEMMA EmailLands ==
    ASSUME Known, NEW l \in Loads, Deliver(l), claims' = claims \/ SaysLanded(l),
           UNCHANGED <<rows, inflight, seq, givenUp, stop, presses>>
    PROVE  /\ BooksTrue' /\ SendsKept
           /\ \A p \in Runs : runs[p].pc = "append" => Absent(copies', runs[p].num)
  <1> DEFINE M == {l}
  <1>1. /\ outbox[l] > 0 /\ outbox' = [outbox EXCEPT ![l] = @ - 1] /\ delivered' = [delivered EXCEPT ![l] = @ + 1]
        /\ sent' = sent \cup {claims[l].num} /\ File(claims[l].num) /\ UNCHANGED handFiled
    BY DEF Deliver
  <1>2. /\ claims[l].num \in Numbers /\ Absent(copies, claims[l].num)
        /\ claims[l].stage = "appending" /\ outbox[l] = 1 /\ delivered[l] = 0
    BY <1>1, OnItsWay DEF SendInFlight
  <1>3. /\ copies \in [Numbers -> Nat] /\ outbox \in [Loads -> Nat] /\ delivered \in [Loads -> Nat]
    BY DEF Known, RestTypeOK, Core, CoreTypeOK
  <1>4. /\ copies' \in [Numbers -> Nat]
        /\ \A n \in Numbers : copies[n] <= copies'[n] /\ ((\E k \in M : claims[k].num = n) => copies'[n] > 0)
        /\ Overlaps \/ \A n \in Numbers : copies'[n] = IF \E k \in M : claims[k].num = n THEN 1 ELSE copies[n]
    BY <1>1, <1>2, FileLands
  <1>5. outbox' = [outbox EXCEPT ![l] = 0] /\ delivered' = [delivered EXCEPT ![l] = 1]
    BY <1>1, <1>2, <1>3
  <1>6. /\ outbox' \in [Loads -> Nat] /\ delivered' \in [Loads -> Nat]
        /\ \A k \in Loads : outbox'[k] > 0 => outbox[k] > 0 /\ k # l
        /\ \A k \in Loads : outbox'[k] + delivered'[k] > 0 => outbox[k] + delivered[k] > 0
    BY <1>2, <1>3, <1>5
  <1>7. /\ M \in SUBSET Loads /\ \A k \in M : claims[k].stage = "appending"
        /\ claims' = claims \/ \E k \in M : SaysLanded(k)
        /\ \A k \in Loads : outbox'[k] > 0 => outbox[k] > 0 /\ k \notin M
        /\ sent \subseteq sent' /\ \A n \in sent' : n \in sent \/ \E k \in M : claims[k].num = n /\ delivered'[k] > 0
        /\ \A k \in Loads : delivered[k] > 0 => delivered'[k] > 0
    BY <1>1, <1>2, <1>3, <1>5, <1>6
  <1> HIDE DEF M
  <1>8. BooksTrue' /\ SendsKept
    BY <1>1, <1>4, <1>6, <1>7, BooksLand
  <1>9. ASSUME NEW p \in Runs, runs[p].pc = "append" PROVE Absent(copies', runs[p].num)
    <2>1. /\ Overlaps \/ runs[p].num # claims[l].num
          /\ runs[p].num \in Numbers /\ Absent(copies, runs[p].num)
      BY <1>1, <1>9, OnItsWay, FilingFacts
    <2> QED BY <1>1, <1>3, <2>1 DEF File
  <1> QED BY <1>8, <1>9

\* The server took the message.
LEMMA SmtpAcceptedMail ==
    ASSUME Known, NEW r \in Runs, SmtpAccepted(r), UNCHANGED presses PROVE MailKeeps
  <1> DEFINE l == LoadOf(r)  d == [claims[l] EXCEPT !.stage = "appended"]
  <1>1. /\ runs[r].pc = "smtp" /\ Deliver(l) /\ UNCHANGED <<rows, inflight, seq, stop, presses>>
        /\ l \in Loads /\ Mine(r) = claims[l] /\ outbox[l] > 0
    BY DEF SmtpAccepted, sharedVars, Deliver, Known, Core, CoreTypeOK, RunTypeOK, LoadOf, Mine
  <1>2. /\ claims[l] \in Claim /\ ~claims[l].voided /\ claims[l].num \in Numbers
        /\ Overlaps \/ \A p \in Runs : runs[p].pc = "append" => LoadOf(p) # l
    BY <1>1, OnItsWay
  <1>3. CASE Holds(r) /\ SendInFlight(Mine(r))
    <2>1. claims[l].state = "working" /\ claims[l].owner = r
      BY <1>1, <1>3 DEF Holds
    <2>2. Writes(r, d, "record")
      BY <1>1, <1>3 DEF SmtpAccepted
    <2>3. d \in Claim /\ d.stage = "appended" /\ d.owner = r /\ d.voided = claims[l].voided
      BY <1>2, <2>1 DEF Claim, Stages
    <2>4. claims' = [claims EXCEPT ![l] = d] /\ givenUp' = givenUp /\ Go(r, "record")
      BY <1>2, <2>2, <2>3 DEF Writes, WriteClaim
    <2>5. SaysLanded(l)
      BY <1>1, <2>1, <2>4 DEF SaysLanded, Deliver
    <2> HIDE DEF d
    <2>6. /\ BooksTrue' /\ SendsKept
          /\ \A p \in Runs : runs[p].pc = "append" => Absent(copies', runs[p].num)
      BY <1>1, <2>4, <2>5, EmailLands
    <2>7. PICK q : RunOK(q) /\ q.pc = "record" /\ q.load = l /\ runs' = [runs EXCEPT ![r] = q]
      BY <1>1, <2>4, GoRunOK DEF PCs, Known
    <2>8. StageFits(q.pc, d) /\ q.pc # "append"
      BY <2>3, <2>7 DEF StageFits, InGmail
    <2>9. RunsTrue' /\ FilesAlone'
      BY <1>1, <1>2, <2>3, <2>4, <2>6, <2>7, <2>8, RunsWrite
    <2> QED BY <2>6, <2>9 DEF MailKeeps, MailInv
  <1>4. CASE ~(Holds(r) /\ SendInFlight(Mine(r)))
    <2>1. Ends(r) /\ UNCHANGED <<claims, givenUp>>
      BY <1>4 DEF SmtpAccepted
    <2>2. BooksTrue' /\ \A p \in Runs : runs[p].pc = "append" => Absent(copies', runs[p].num)
      BY <1>1, <2>1, EmailLands
    <2> QED BY <1>1, <2>1, <2>2, EndsMail
  <1> QED BY <1>3, <1>4

\* A message nobody waits for is delivered after all.
LEMMA LateDeliveryMail ==
    ASSUME Known, NEW l \in Loads, LateDelivery(l), UNCHANGED presses PROVE MailKeeps
  <1>1. Deliver(l) /\ UNCHANGED <<claims, rows, inflight, seq, givenUp, stop, runs, presses>>
    BY DEF LateDelivery, ledgerVars
  <1>2. /\ BooksTrue' /\ SendsKept
        /\ \A p \in Runs : runs[p].pc = "append" => Absent(copies', runs[p].num)
    BY <1>1, EmailLands
  <1>3. RunsTrue' /\ FilesAlone'
    BY <1>1, <1>2, RunsStutter
  <1> QED BY <1>2, <1>3 DEF MailKeeps, MailInv

\* The server refused the message: it is nowhere, and its claim says so.
LEMMA SmtpRefusedMail ==
    ASSUME Known, NEW r \in Runs, SmtpRefused(r), UNCHANGED presses PROVE MailKeeps
  <1> DEFINE l == LoadOf(r)
             d == [Unowned(Mine(r)) EXCEPT !.state = "queued", !.reason = "OTHER",
                                           !.stage = "reserved", !.sending = FALSE]
  <1>1. /\ runs[r].pc = "smtp" /\ outbox[l] > 0 /\ outbox' = [outbox EXCEPT ![l] = @ - 1] /\ stop' = TRUE
        /\ UNCHANGED booksVars /\ copies' = copies
        /\ l \in Loads /\ Mine(r) = claims[l]
    BY DEF SmtpRefused, sharedVars, booksVars, Known, Core, CoreTypeOK, RunTypeOK, LoadOf, Mine
  <1>2. /\ claims \in [Loads -> Claim] /\ outbox \in [Loads -> Nat] /\ delivered \in [Loads -> Nat]
        /\ BooksTrue /\ Core
    BY DEF Known, Core, CoreTypeOK, MailInv
  <1>3. /\ claims[l] \in Claim /\ claims[l].num \in Numbers /\ Absent(copies, claims[l].num) /\ ~claims[l].voided
        /\ outbox[l] = 1 /\ delivered[l] = 0
        /\ Overlaps \/ \A p \in Runs : runs[p].pc = "append" => LoadOf(p) # l
    BY <1>1, OnItsWay
  <1>4. /\ outbox' \in [Loads -> Nat] /\ \A k \in Loads : outbox'[k] <= outbox[k]
        /\ outbox'[l] + delivered'[l] = 0
    BY <1>1, <1>2, <1>3 DEF booksVars
  <1>5. \A p \in Runs : runs[p].pc = "append" /\ p # r => Absent(copies', runs[p].num)
    BY <1>1, NothingFiled
  <1>6. CASE Holds(r)
    <2>1. EndsWith(r, d)
      BY <1>6 DEF SmtpRefused
    <2>2. /\ d \in Claim /\ d.num = claims[l].num /\ d.state = "queued" /\ d.stage = "reserved" /\ ~d.sending
          /\ d.owner = NoRun /\ ~d.voided /\ d.reason = "OTHER"
      BY <1>1, <1>3 DEF Unowned, Claim, States, Stages, Reasons
    <2> HIDE DEF d
    <2>3. Numbered(d) /\ ClaimTrue(d) /\ (claims[l].voided => d.voided)
      BY <1>3, <2>2 DEF Numbered, ClaimTrue, InGmail, StagesBeforeAppend, SendInFlight, Numbers
    <2>4. WriteClaim(l, d) /\ claims' = [claims EXCEPT ![l] = d] /\ Ends(r)
      BY <2>1 DEF EndsWith, WriteClaim
    <2>5. BooksTrue'
      BY <1>1, <1>4, <2>2, <2>3, <2>4, BooksWrite
    <2>6. /\ RunOK(EndedRun(r)) /\ EndedRun(r).pc # "append" /\ runs' = [runs EXCEPT ![r] = EndedRun(r)]
          /\ EndedRun(r).pc # "idle" => EndedRun(r).load = l
      BY <1>1, <1>2, <2>4, EndedRunOK
    <2>7. /\ d.owner # r /\ d.owner \in {NoRun, r}
          /\ Overlaps \/ \A p \in Runs : runs[p].pc = "append" /\ LoadOf(p) = l => p = r
      BY <1>3, <2>2, RunsAreNotNoRun
    <2>8. RunsTrue' /\ FilesAlone'
      BY <1>1, <1>5, <2>2, <2>4, <2>6, <2>7, RunsWrite
    <2>9. SendsKept
      BY <1>1, <1>2, <1>4, <2>4 DEF SendsKept
    <2> QED BY <2>5, <2>8, <2>9 DEF MailKeeps, MailInv
  <1>7. CASE ~Holds(r)
    <2>1. Ends(r) /\ UNCHANGED <<claims, givenUp>>
      BY <1>7 DEF SmtpRefused
    <2>2. /\ Numbered(claims[l]) /\ ClaimTrue(claims[l])
      BY <1>1, <1>2 DEF Core, CoreInv, TransitKnown, BooksTrue, ClaimsTrue
    <2>3. WriteClaim(l, claims[l])
      BY <1>2, <2>1 DEF WriteClaim
    <2>4. BooksTrue'
      BY <1>1, <1>3, <1>4, <2>2, <2>3, BooksWrite
    <2> QED BY <1>1, <1>5, <2>1, <2>4, EndsMail
  <1> QED BY <1>6, <1>7

\* No answer came: the run searches, and sending is stopped meanwhile.
LEMMA SmtpUnansweredMail ==
    ASSUME Known, NEW r \in Runs, SmtpUnanswered(r), UNCHANGED presses PROVE MailKeeps
  <1>1. /\ runs[r].pc = "smtp" /\ stop' = TRUE /\ UNCHANGED <<claims, givenUp, outbox>> /\ UNCHANGED booksVars
        /\ copies' = copies
    BY DEF SmtpUnanswered, sharedVars, gmailVars, booksVars
  <1>2. BooksTrue'
    BY <1>1, BooksStutter
  <1>3. CASE Holds(r)
    <2>1. StageFits("searchAnswer", Mine(r))
      BY <1>1, <1>3, HeldMail DEF StageFits
    <2> QED BY <1>1, <1>2, <1>3, <2>1, GoMail DEF SmtpUnanswered, PCs
  <1>4. CASE ~Holds(r)
    <2>1. \A p \in Runs : runs[p].pc = "append" /\ p # r => Absent(copies', runs[p].num)
      BY <1>1, NothingFiled
    <2> QED BY <1>1, <1>2, <1>4, <2>1, EndsMail DEF SmtpUnanswered
  <1> QED BY <1>3, <1>4

\* Sent Mail was searched.
LEMMA SearchedSentMail ==
    ASSUME Known, NEW r \in Runs, FoundInSent(r) \/ NotFoundInSent(r), UNCHANGED presses PROVE MailKeeps
  <1> DEFINE c == Mine(r)
  <1>1. /\ runs[r].pc \in {"searchAnswer", "searchSent"} /\ Holds(r) /\ UNCHANGED outbox /\ UNCHANGED booksVars
    BY DEF FoundInSent, NotFoundInSent, At, sharedVars, gmailVars, booksVars
  <1>2. /\ c \in Claim /\ Numbered(c) /\ c.state = "working" /\ c.owner = r /\ ClaimTrue(c)
        /\ c.stage = "appending" /\ c.sending /\ c.num # 0 /\ ~c.voided
    <2>1. /\ c \in Claim /\ Numbered(c) /\ c.state = "working" /\ c.owner = r /\ ClaimTrue(c)
          /\ StageFits(runs[r].pc, c)
      BY <1>1, HeldMail
    <2>2. c.stage = "appending" /\ c.sending
      BY <1>1, <2>1 DEF StageFits, SendInFlight
    <2> QED BY <2>1, <2>2 DEF Numbered, ClaimTrue, StagesBeforeAppend
  <1>3. CASE FoundInSent(r)
    <2> DEFINE d == [c EXCEPT !.stage = "appended"]
               pc == IF runs[r].pc = "searchAnswer" THEN "record" ELSE "rebuild"
    <2>1. c.num \in sent /\ Writes(r, d, pc) /\ stop' = stop
      BY <1>3 DEF FoundInSent
    <2>2. copies[c.num] > 0
      BY <2>1 DEF Known, MailInv, BooksTrue, Filed
    <2>3. Follows(c, d)
      BY <1>2, <2>1, <2>2, StageFollows
    <2>4. d.stage = "appended" /\ d.owner = r /\ d.state = "working"
      BY <1>2 DEF Claim
    <2> HIDE DEF d
    <2>5. pc \in PCs \ {"idle", "append"} /\ StageFits(pc, d) /\ ~MaybeSent(d)
      BY <2>4 DEF PCs, StageFits, InGmail, MaybeSent
    <2> HIDE DEF pc, c
    <2> QED BY <1>1, <2>1, <2>3, <2>4, <2>5, WritesMail DEF c
  <1>4. CASE NotFoundInSent(r)
    <2> DEFINE last == TriggerMode \/ c.checks + 1 >= SearchLimit
               searched == [Unowned(c) EXCEPT !.checks = IF @ < SearchLimit THEN @ + 1 ELSE @]
               d == IF last THEN [searched EXCEPT !.state = "needs_attention", !.reason = "MAYBE_SENT"]
                    ELSE [searched EXCEPT !.state = "queued", !.reason = "OTHER"]
    <2>1. EndsWith(r, d) /\ stop' = (stop \/ last)
      BY <1>4 DEF NotFoundInSent
    <2>2. /\ searched \in Claim /\ searched.num = c.num /\ searched.stage = c.stage /\ searched.sending = c.sending
          /\ searched.voided = c.voided /\ searched.owner = NoRun
      <3> DEFINE u == Unowned(c)
      <3>1. c \in Claim
        BY <1>2
      <3>2. /\ u \in Claim /\ u.num = c.num /\ u.stage = c.stage /\ u.sending = c.sending
            /\ u.voided = c.voided /\ u.owner = NoRun
        BY <3>1 DEF Unowned, Claim
      <3> HIDE DEF u
      <3>3. u.checks \in Nat /\ (IF u.checks < SearchLimit THEN u.checks + 1 ELSE u.checks) \in Nat
        BY <3>2 DEF Claim
      <3>4. searched = [u EXCEPT !.checks = IF u.checks < SearchLimit THEN u.checks + 1 ELSE u.checks]
        BY DEF u
      <3> QED BY <3>2, <3>3, <3>4 DEF Claim
    <2>3. TriggerMode \in BOOLEAN /\ SearchLimit \in Nat /\ c.checks \in Nat
      BY <1>2, LedgerAssumption DEF Claim
    <2> HIDE DEF searched
    <2>4. last \in BOOLEAN
      BY <2>3
    <2> HIDE DEF last
    <2>5. /\ d \in Claim /\ d.num = c.num /\ d.stage = "appending" /\ d.sending /\ ~d.voided /\ d.owner = NoRun
          /\ d.state = IF last THEN "needs_attention" ELSE "queued"
      BY <1>2, <2>2, <2>4 DEF Claim, States, Reasons
    <2> HIDE DEF d
    <2>6. MaybeSent(d) => stop'
      BY <2>1, <2>5 DEF MaybeSent
    <2>7. SafeAfter(c, d)
      BY <1>2, <2>5 DEF SafeAfter, Numbered, ClaimSent
    <2>8. TriggerMode => last
      BY DEF last
    <2>9. ClaimTrue(d)
      BY <2>5, <2>8 DEF ClaimTrue, InGmail, StagesBeforeAppend
    <2>10. Follows(c, d)
      BY <1>2, <2>5, <2>7, <2>9 DEF Follows
    <2> HIDE DEF c
    <2> QED BY <1>1, <2>1, <2>5, <2>6, <2>10, EndsWithMail DEF c
  <1> QED BY <1>3, <1>4

-----------------------------------------------------------------------------
(* The record of a message that is in Gmail. *)

\* A claim whose message is there and could not be recorded: a person takes it, filed.
LEMMA ReleasedAppendedMail ==
    ASSUME Known, NEW r \in Runs, runs[r].pc # "idle", Holds(r), Mine(r).stage \in InGmail,
           EndsWith(r, [Release(Mine(r), "needs_attention", "OTHER") EXCEPT !.stage = "appended"]),
           stop' = stop, UNCHANGED outbox, UNCHANGED booksVars
    PROVE  MailKeeps
  <1> DEFINE c == Mine(r)
             e == Release(c, "needs_attention", "OTHER")
             d == [e EXCEPT !.stage = "appended"]
  <1>1. c \in Claim /\ Numbered(c) /\ c.state # "none" /\ ClaimTrue(c)
    BY HeldMail
  <1>2. /\ Follows(c, e) /\ e.owner = NoRun /\ e.state = "needs_attention" /\ e.reason = "OTHER"
        /\ e.stage = KeptStage(c) /\ e.sending = c.sending
    BY <1>1, ReleaseFollows DEF Reasons
  <1>3. e \in Claim /\ e.num = c.num /\ c.num # 0 /\ e.stage \in InGmail /\ ClaimTrue(e)
    BY <1>1, <1>2 DEF Follows, SafeAfter, KeptStage, StagesBeforeAppend, InGmail, Numbered
  <1>4. EndsWith(r, d)
    OBVIOUS
  <1> HIDE DEF e
  <1>5. /\ d \in Claim /\ d.num = c.num /\ d.stage = "appended" /\ d.state = "needs_attention" /\ d.reason = "OTHER"
        /\ d.owner = NoRun /\ d.sending = c.sending /\ d.voided = e.voided
    BY <1>2, <1>3 DEF Claim, Stages
  <1> HIDE DEF d
  <1>6. SafeAfter(c, d) /\ ~MaybeSent(d)
    BY <1>3, <1>5 DEF SafeAfter, Numbered, ClaimSent, MaybeSent
  <1>7. ClaimTrue(d)
    BY <1>2, <1>3, <1>5 DEF ClaimTrue, InGmail, StagesBeforeAppend
  <1>8. Follows(c, d)
    BY <1>2, <1>5, <1>6, <1>7 DEF Follows
  <1> QED BY <1>4, <1>5, <1>6, <1>8, EndsWithMail

\* The record is rebuilt, or can't be.
LEMMA RebuildMail ==
    ASSUME Known, NEW r \in Runs, Rebuilt(r) \/ NotRebuilt(r) \/ RebuildThrew(r), UNCHANGED presses PROVE MailKeeps
  <1> DEFINE c == Mine(r)
  <1>1. /\ runs[r].pc = "rebuild" /\ Holds(r) /\ stop' = stop /\ UNCHANGED outbox /\ UNCHANGED booksVars
        /\ copies' = copies
    BY DEF Rebuilt, NotRebuilt, RebuildThrew, At, ledgerVars, sharedVars, gmailVars, booksVars
  <1>2. Follows(c, c) /\ c.stage \in InGmail
    BY <1>1, HeldMail DEF StageFits
  <1>3. CASE Rebuilt(r)
    <2>1. Go(r, "record") /\ UNCHANGED <<claims, givenUp>>
      BY <1>3 DEF Rebuilt, ledgerVars
    <2>2. BooksTrue' /\ StageFits("record", c)
      BY <1>1, <1>2, <2>1, BooksStutter DEF StageFits
    <2> QED BY <1>1, <2>1, <2>2, GoMail DEF PCs
  <1>4. CASE NotRebuilt(r)
    BY <1>1, <1>2, <1>4, ReleasedAppendedMail DEF NotRebuilt
  <1>5. CASE RebuildThrew(r)
    <2>1. ASSUME NEW reason \in {"MAYBE_SENT", "OTHER"}, EndsWith(r, Release(c, "needs_attention", reason)) PROVE MailKeeps
      <3>1. ~SendInFlight(c)
        BY <1>2 DEF SendInFlight, InGmail
      <3> HIDE DEF c
      <3> QED BY <1>1, <1>2, <2>1, <3>1, ReleaseMail DEF Reasons, c
    <2>2. ASSUME Ends(r), UNCHANGED <<claims, givenUp>> PROVE MailKeeps
      <3>1. BooksTrue' /\ \A p \in Runs : runs[p].pc = "append" /\ p # r => Absent(copies', runs[p].num)
        BY <1>1, <2>2, BooksStutter, NothingFiled
      <3> QED BY <1>1, <2>2, <3>1, EndsMail
    <2> QED BY <1>5, <2>1, <2>2 DEF RebuildThrew
  <1> QED BY <1>3, <1>4, <1>5

\* A draft row is written for a message that is in Gmail.
LEMMA BooksRow ==
    ASSUME Known, NEW d, copies[d.num] > 0, rows' = rows \cup {d},
           UNCHANGED <<claims, inflight, stop, seq, givenUp, copies, sent, outbox, delivered, handFiled, presses>>
    PROVE  BooksTrue'
  <1>1. BooksTrue
    BY DEF Known, MailInv
  <1>2. ClaimsTrue' /\ NumbersMinted' /\ NumbersApart'
    BY <1>1 DEF BooksTrue, ClaimsTrue, ClaimTrue, NumbersMinted, NumbersApart
  <1>3. PressesTrue'
    BY <1>1 DEF BooksTrue, PressesTrue, PressTrue, OwnRow
  <1>4. Filed' /\ SentKnown' /\ (OneHandOff => OneHandOff')
    BY <1>1 DEF BooksTrue, Filed, SentKnown, OneHandOff, FiledOnce, HandDraftsTracked, OneSideWins
  <1> QED BY <1>1, <1>2, <1>3, <1>4 DEF BooksTrue

\* The draft row.
LEMMA RecordedMail ==
    ASSUME Known, NEW r \in Runs, NEW written \in BOOLEAN, Recorded(r, written), UNCHANGED presses PROVE MailKeeps
  <1> DEFINE c == Mine(r)  l == LoadOf(r)
  <1>1. /\ runs[r].pc = "record" /\ Holds(r) /\ copies' = copies /\ stop' = stop
        /\ UNCHANGED <<inflight, seq, copies, sent, outbox, delivered, handFiled, presses>>
    BY DEF Recorded, At, gmailVars
  <1>2. /\ Follows(c, c) /\ c \in Claim /\ Numbered(c) /\ ClaimTrue(c) /\ c.stage \in InGmail
    BY <1>1, HeldMail DEF StageFits
  <1>3. CASE HasOwnRow(l)
    <2>1. EndsWith(r, Drafted(c)) /\ UNCHANGED booksVars
      BY <1>1, <1>3 DEF Recorded, booksVars
    <2>2. Follows(c, Drafted(c)) /\ Drafted(c).owner = NoRun /\ ~MaybeSent(Drafted(c))
      BY <1>2, DraftedFollows DEF MaybeSent
    <2> QED BY <1>1, <2>1, <2>2, EndsWithMail
  <1>4. CASE ~HasOwnRow(l)
    <2>1. /\ rows' = rows \cup (IF written THEN {[load |-> l, num |-> c.num, via |-> "job"]} ELSE {})
          /\ Go(r, "finish") /\ UNCHANGED <<claims, givenUp>>
      BY <1>4 DEF Recorded
    <2>2. BooksTrue'
      <3>1. CASE written
        <4>1. copies[c.num] > 0
          BY <1>2 DEF ClaimTrue
        <4> DEFINE d == [load |-> l, num |-> c.num, via |-> "job"]
        <4>2. copies[d.num] > 0 /\ rows' = rows \cup {d}
          BY <2>1, <3>1, <4>1
        <4> HIDE DEF d
        <4> QED BY <1>1, <2>1, <4>2, BooksRow
      <3>2. CASE ~written
        <4>1. rows' = rows
          BY <2>1, <3>2
        <4> QED BY <1>1, <2>1, <4>1, BooksStutter DEF booksVars
      <3> QED BY <3>1, <3>2
    <2>3. StageFits("finish", c)
      BY <1>2 DEF StageFits
    <2> QED BY <1>1, <2>1, <2>2, <2>3, GoMail DEF PCs
  <1> QED BY <1>3, <1>4

\* The claim's last write.
LEMMA FinishedMail ==
    ASSUME Known, NEW r \in Runs, Finished(r), UNCHANGED presses PROVE MailKeeps
  <1> DEFINE c == Mine(r)
  <1>1. /\ runs[r].pc = "finish" /\ Holds(r) /\ stop' = stop /\ UNCHANGED outbox /\ UNCHANGED booksVars
    BY DEF Finished, At, sharedVars, gmailVars, booksVars
  <1>2. /\ c \in Claim /\ Numbered(c) /\ ClaimTrue(c) /\ c.stage \in InGmail
    BY <1>1, HeldMail DEF StageFits
  <1>3. CASE HasOwnRow(LoadOf(r))
    <2>1. EndsWith(r, Drafted(c))
      BY <1>3 DEF Finished
    <2>2. Follows(c, Drafted(c)) /\ Drafted(c).owner = NoRun /\ ~MaybeSent(Drafted(c))
      BY <1>2, DraftedFollows DEF MaybeSent
    <2> QED BY <1>1, <2>1, <2>2, EndsWithMail
  <1>4. CASE ~HasOwnRow(LoadOf(r))
    BY <1>1, <1>2, <1>4, ReleasedAppendedMail DEF Finished
  <1> QED BY <1>3, <1>4

-----------------------------------------------------------------------------
(* A claim is taken, and what watches the claims. *)

\* The mailbox was searched for a message whose commit is not there: without a power loss none is.
LEMMA LostSendLookedMail ==
    ASSUME Known, NEW r \in Runs, NEW seen, LostSendLooked(r, seen), UNCHANGED presses PROVE MailKeeps
  <1> DEFINE c == Mine(r)
  <1>1. /\ runs[r].pc = "searchLost" /\ Holds(r) /\ stop' = stop /\ UNCHANGED outbox /\ UNCHANGED booksVars
    BY DEF LostSendLooked, At, sharedVars, gmailVars, booksVars
  <1>2. /\ c \in Claim /\ Numbered(c) /\ c.state # "none" /\ ClaimTrue(c) /\ Follows(c, c)
        /\ c.num # 0 /\ c.stage \in StagesBeforeAppend /\ Absent(copies, c.num)
    <2>1. /\ c \in Claim /\ Numbered(c) /\ c.state = "working" /\ ClaimTrue(c) /\ Follows(c, c)
          /\ RunFits(runs[r].pc, c) /\ StageFits(runs[r].pc, c)
      BY <1>1, HeldMail
    <2>2. c.num # 0 /\ c.stage \in StagesBeforeAppend
      BY <1>1, <2>1 DEF RunFits, StageFits
    <2> QED BY <2>1, <2>2 DEF ClaimTrue
  <1>3. c.num \notin sent
    <2>1. c = claims[LoadOf(r)] /\ LoadOf(r) \in Loads
      BY <1>1 DEF Mine, LoadOf, Known, Core, CoreTypeOK, RunTypeOK
    <2>2. ~ClaimSent(c)
      BY <1>2 DEF ClaimSent, StagesBeforeAppend
    <2> QED BY <2>1, <2>2 DEF Known, DeliveredKnown, MailInv, BooksTrue, SentKnown
  <1>4. CASE EndsWith(r, Requeue(c, KeptStage(c)))
    <2>1. KeptStage(c) \in StagesBeforeAppend /\ ~ClaimSent(c)
      BY <1>2 DEF KeptStage, StagesBeforeAppend, ClaimSent
    <2>2. Follows(c, Requeue(c, KeptStage(c))) /\ Requeue(c, KeptStage(c)).owner = NoRun
          /\ ~MaybeSent(Requeue(c, KeptStage(c)))
      BY <1>2, <2>1, RequeueFollows DEF MaybeSent
    <2> QED BY <1>1, <1>4, <2>2, EndsWithMail
  <1>5. CASE EndsWith(r, Release(c, "needs_attention", "OTHER"))
    BY <1>1, <1>2, <1>5, ReleaseMail DEF Reasons
  <1> QED BY <1>3, <1>4, <1>5 DEF LostSendLooked

\* A free token starts on a claim no run is filing for; the claim follows itself.
LEMMA StartsMail ==
    ASSUME Known, NEW r \in Runs, runs[r].pc = "idle", NEW l \in Loads, Filing(l) => Overlaps,
           NEW d, Follows(claims[l], d), d.owner = r, d.state = "working", WriteClaim(l, d),
           NEW pc \in PCs \ {"idle", "append"}, NEW recovering \in BOOLEAN, Starts(r, l, pc, recovering),
           StageFits(pc, d), stop' = stop, UNCHANGED outbox, UNCHANGED booksVars
    PROVE  MailKeeps
  <1> DEFINE q == [pc |-> pc, load |-> l, recovering |-> recovering, num |-> 0]
  <1>1. /\ d \in Claim /\ Numbered(d) /\ d.num = claims[l].num /\ ClaimTrue(d) /\ (claims[l].voided => d.voided)
        /\ ~MaybeSent(d) /\ claims' = [claims EXCEPT ![l] = d] /\ copies' = copies
    BY DEF Follows, SafeAfter, MaybeSent, WriteClaim, booksVars
  <1>2. BooksTrue'
    BY <1>1, BooksWrite DEF Known, Core, CoreTypeOK
  <1>3. /\ RunOK(q) /\ q.pc = pc /\ q.load = l /\ runs' = [runs EXCEPT ![r] = q]
    BY LedgerAssumption DEF Starts, RunOK, RunRecord
  <1> HIDE DEF q
  <1>4. /\ Overlaps \/ \A p \in Runs : runs[p].pc = "append" /\ LoadOf(p) = l => p = r
        /\ StageFits(q.pc, d) /\ q.pc # "append"
    BY <1>3 DEF Filing, LoadOf
  <1>5. \A p \in Runs : runs[p].pc = "append" /\ p # r => Absent(copies', runs[p].num)
    BY <1>1, NothingFiled
  <1>6. RunsTrue' /\ FilesAlone'
    BY <1>1, <1>3, <1>4, <1>5, RunsWrite
  <1>7. SendsKept
    BY <1>1, KeptByFollowing
  <1> QED BY <1>2, <1>6, <1>7 DEF MailKeeps, MailInv

\* A claim taken over says what it said.
LEMMA TakenFollows ==
    ASSUME Known, NEW l \in Loads, NEW r \in Runs, claims[l].state \in {"queued", "working"}
    PROVE  /\ Follows(claims[l], Taken(claims[l], r))
           /\ Taken(claims[l], r).owner = r /\ Taken(claims[l], r).state = "working"
           /\ Taken(claims[l], r).stage = claims[l].stage /\ Taken(claims[l], r).sending = claims[l].sending
           /\ Taken(claims[l], r).num = claims[l].num /\ Taken(claims[l], r).voided = claims[l].voided
           /\ Numbered(claims[l]) /\ claims[l] \in Claim /\ ClaimTrue(claims[l])
  <1> DEFINE c == claims[l]  d == Taken(c, r)
  <1>1. c \in Claim /\ Numbered(c) /\ ClaimTrue(c)
    BY DEF Known, Core, CoreTypeOK, CoreInv, TransitKnown, MailInv, BooksTrue, ClaimsTrue
  <1>2. /\ d \in Claim /\ d.owner = r /\ d.state = "working" /\ d.stage = c.stage /\ d.sending = c.sending
        /\ d.num = c.num /\ d.voided = c.voided
    BY <1>1 DEF Taken, Claim, States
  <1> HIDE DEF d
  <1>3. SafeAfter(c, d) /\ ClaimTrue(d)
    BY <1>1, <1>2 DEF SafeAfter, Numbered, ClaimSent, ClaimTrue
  <1> QED BY <1>1, <1>2, <1>3 DEF Follows, d

\* A queued claim is leased.
LEMMA LeaseMail ==
    ASSUME Known, NEW r \in Runs, NEW l \in Loads, Lease(r, l), UNCHANGED presses PROVE MailKeeps
  <1> DEFINE d == Taken(claims[l], r)
  <1>1. /\ runs[r].pc = "idle" /\ claims[l].state = "queued" /\ WriteClaim(l, d) /\ Starts(r, l, "snapshot", FALSE)
        /\ stop' = stop /\ UNCHANGED outbox /\ UNCHANGED booksVars
    BY DEF Lease, Free, sharedVars, gmailVars, booksVars
  <1>2. Follows(claims[l], d) /\ d.owner = r /\ d.state = "working" /\ d.stage = claims[l].stage /\ ClaimTrue(claims[l])
    BY <1>1, TakenFollows
  <1> HIDE DEF d
  <1>3. StageFits("snapshot", d) \/ d.stage \in InGmail
    BY DEF StageFits
  <1>4. StageFits("snapshot", d)
    BY <1>1, <1>2, <1>3 DEF ClaimTrue
  <1>5. Filing(l) => Overlaps
    BY <1>1, FilesAloneMeans DEF Filing, Known, MailInv, BeingFiled, Mine, LoadOf
  <1> QED BY <1>1, <1>2, <1>4, <1>5, StartsMail DEF PCs

\* A claim left working is recovered.
LEMMA TakeOverMail ==
    ASSUME Known, NEW r \in Runs, NEW l \in Loads, TakeOver(r, l), UNCHANGED presses PROVE MailKeeps
  <1> DEFINE c == Taken(claims[l], r)
  <1>1. /\ runs[r].pc = "idle" /\ claims[l].state = "working" /\ (Filing(l) => Overlaps)
        /\ stop' = stop /\ UNCHANGED outbox /\ UNCHANGED booksVars /\ copies' = copies
    BY DEF TakeOver, Recover, Free, sharedVars, gmailVars, booksVars
  <1>2. /\ Follows(claims[l], c) /\ c.owner = r /\ c.state = "working" /\ ClaimTrue(c) /\ c \in Claim /\ Numbered(c)
    BY <1>1, TakenFollows DEF Follows, SafeAfter
  <1>3. /\ c \in Claim /\ c.state # "none"
    BY <1>2
  <1>4. ASSUME NEW pc \in {"searchSent", "searchLost", "searchLeft", "rebuild"}, StageFits(pc, c),
               Starts(r, l, pc, TRUE), WriteClaim(l, c)
        PROVE  MailKeeps
    <2> HIDE DEF c
    <2> QED BY <1>1, <1>2, <1>4, StartsMail DEF PCs
  <1>5. CASE SendInFlight(c) /\ Starts(r, l, "searchSent", TRUE) /\ WriteClaim(l, c)
    BY <1>4, <1>5 DEF StageFits
  <1>6. CASE c.stage = "appending" /\ ~c.sending /\ Starts(r, l, "searchLeft", TRUE) /\ WriteClaim(l, c)
    <2> HIDE DEF c
    <2> QED BY <1>4, <1>6 DEF StageFits
  <1>7. CASE c.stage \in {"appended", "recorded"} /\ Starts(r, l, "rebuild", TRUE) /\ WriteClaim(l, c)
    <2> HIDE DEF c
    <2> QED BY <1>4, <1>7 DEF StageFits, InGmail
  <1>8. CASE c.stage \in StagesBeforeAppend /\ Starts(r, l, "searchLost", TRUE) /\ WriteClaim(l, c)
    <2> HIDE DEF c
    <2> QED BY <1>4, <1>8 DEF StageFits
  <1>9. CASE /\ c.stage \in StagesBeforeAppend /\ WriteClaim(l, Requeue(c, KeptStage(c)))
             /\ IF TriggerMode THEN Starts(r, l, "close", TRUE) ELSE UNCHANGED runs
    <2> DEFINE d == Requeue(c, KeptStage(c))
    <2>1. /\ KeptStage(c) \in StagesBeforeAppend /\ (KeptStage(c) # "" => c.num # 0) /\ ~ClaimSent(c)
          /\ (c.num # 0 => Absent(copies, c.num))
      BY <1>2, <1>9 DEF KeptStage, StagesBeforeAppend, ClaimSent, ClaimTrue
    <2>2. Follows(c, d) /\ d.owner = NoRun /\ d.state = "queued"
      <3> HIDE DEF c
      <3> QED BY <1>2, <1>3, <2>1, RequeueFollows
    <2> HIDE DEF d
    <2>3. Follows(claims[l], d)
      <3> HIDE DEF c
      <3> QED BY <1>2, <2>2, FollowsOn
    <2>4. /\ d \in Claim /\ Numbered(d) /\ d.num = claims[l].num /\ ClaimTrue(d) /\ (claims[l].voided => d.voided)
          /\ ~MaybeSent(d)
      BY <2>2, <2>3 DEF Follows, SafeAfter, MaybeSent
    <2>5. WriteClaim(l, d) /\ claims' = [claims EXCEPT ![l] = d]
      BY <1>9 DEF WriteClaim, d
    <2>6. BooksTrue'
      BY <1>1, <2>4, <2>5, BooksWrite DEF Known, Core, CoreTypeOK
    <2>7. SendsKept
      BY <2>3, <2>5, KeptByFollowing
    <2>8. Overlaps \/ \A p \in Runs : ~(runs[p].pc = "append" /\ LoadOf(p) = l)
      BY <1>1 DEF Filing, LoadOf
    <2>9. RunsTrue' /\ FilesAlone'
      <3>1. CASE TriggerMode
        <4> DEFINE q == [pc |-> "close", load |-> l, recovering |-> TRUE, num |-> 0]
        <4>1. RunOK(q) /\ q.pc = "close" /\ q.load = l /\ runs' = [runs EXCEPT ![r] = q]
          BY <1>9, <3>1, LedgerAssumption DEF Starts, RunOK, RunRecord, PCs
        <4> HIDE DEF q
        <4>2. \A p \in Runs : runs[p].pc = "append" /\ p # r => Absent(copies', runs[p].num)
          BY <1>1, NothingFiled
        <4>3. /\ d.owner \in {NoRun, r} /\ d.owner # r /\ q.pc # "append"
              /\ Overlaps \/ \A p \in Runs : runs[p].pc = "append" /\ LoadOf(p) = l => p = r
          BY <2>2, <2>8, <4>1, RunsAreNotNoRun
        <4> QED BY <2>4, <2>5, <4>1, <4>2, <4>3, RunsWrite
      <3>2. CASE ~TriggerMode
        <4>1. UNCHANGED <<runs, copies>>
          BY <1>1, <1>9, <3>2
        <4>2. Overlaps \/ \A p \in Runs : runs[p].pc = "append" /\ LoadOf(p) = l => TriggerMode /\ BeingFiled(d)
          BY <2>8
        <4> QED BY <2>2, <2>4, <2>5, <4>1, <4>2, PlainRunsWrite
      <3> QED BY <3>1, <3>2
    <2> QED BY <2>6, <2>7, <2>9 DEF MailKeeps, MailInv
  <1> HIDE DEF c
  <1> QED BY <1>5, <1>6, <1>7, <1>8, <1>9 DEF TakeOver, Recover, c

\* Somebody who is no run writes a claim; a draft being filed for it goes on.
LEMMA PlainMail ==
    ASSUME Known, NEW l \in Loads, NEW d, Follows(claims[l], d), d.state # "working" \/ d.owner = NoRun,
           Overlaps \/ \A p \in Runs : runs[p].pc = "append" /\ LoadOf(p) = l => TriggerMode /\ BeingFiled(d),
           WriteClaim(l, d), MaybeSent(d) => stop', stop => stop', UNCHANGED <<runs, outbox>>, UNCHANGED booksVars
    PROVE  MailKeeps
  <1>1. /\ d \in Claim /\ Numbered(d) /\ d.num = claims[l].num /\ ClaimTrue(d) /\ (claims[l].voided => d.voided)
        /\ claims' = [claims EXCEPT ![l] = d] /\ UNCHANGED <<runs, copies>>
    BY DEF Follows, SafeAfter, WriteClaim, booksVars
  <1>2. BooksTrue'
    BY <1>1, BooksWrite DEF Known, Core, CoreTypeOK
  <1>3. RunsTrue' /\ FilesAlone'
    BY <1>1, PlainRunsWrite
  <1>4. SendsKept
    BY <1>1, KeptByFollowing
  <1> QED BY <1>2, <1>3, <1>4 DEF MailKeeps, MailInv

\* A claim no run holds is not being filed, but where the driver's trigger took it off its run, or
\* where it may change hands under an append.
LEMMA FiledUnheld ==
    ASSUME Known, ~Overlaps, NEW l \in Loads, claims[l].state # "working",
           NEW p \in Runs, runs[p].pc = "append", LoadOf(p) = l
    PROVE  TriggerMode /\ BeingFiled(claims[l])
  BY FilesAloneMeans DEF Known, MailInv, Mine, Holds

\* The load was drafted by hand.
LEMMA ClosedByHandMail ==
    ASSUME Known, NEW l \in Loads, ClosedByHand(l), UNCHANGED presses PROVE MailKeeps
  <1> DEFINE c == claims[l]  d == SkipDraftedByHand(c)
  <1>1. /\ c.state \in {"waiting", "queued", "needs_attention"} /\ WriteClaim(l, d) /\ stop' = stop
        /\ UNCHANGED <<runs, outbox>> /\ UNCHANGED booksVars
    BY DEF ClosedByHand, sharedVars, gmailVars, booksVars
  <1>2. c \in Claim /\ Numbered(c) /\ ClaimTrue(c)
    BY DEF Known, Core, CoreTypeOK, CoreInv, TransitKnown, MailInv, BooksTrue, ClaimsTrue
  <1>3. /\ Follows(c, d) /\ d.owner = NoRun /\ d.state = "skipped" /\ d.stage = c.stage /\ d.sending = c.sending
    BY <1>1, <1>2, SkipFollows
  <1> HIDE DEF d
  <1>4. Overlaps \/ \A p \in Runs : runs[p].pc = "append" /\ LoadOf(p) = l => TriggerMode /\ BeingFiled(d)
    BY <1>1, <1>3, FiledUnheld DEF BeingFiled
  <1>5. ~MaybeSent(d)
    BY <1>3 DEF MaybeSent
  <1> QED BY <1>1, <1>3, <1>4, <1>5, PlainMail

\* Nothing the mail speaks of is touched; the stop is not lifted.
LEMMA MailStutter ==
    ASSUME Known, UNCHANGED <<claims, givenUp, outbox, runs>>, UNCHANGED booksVars, stop => stop'
    PROVE  MailKeeps
  <1>1. BooksTrue'
    BY BooksStutter
  <1>2. \A p \in Runs : runs[p].pc = "append" => Absent(copies', runs[p].num)
    BY FilesAloneMeans DEF booksVars, Known, MailInv
  <1>3. RunsTrue' /\ FilesAlone'
    BY <1>2, RunsStutter
  <1> QED BY <1>1, <1>3, KeptByStutter DEF MailKeeps, MailInv

\* A load changed after its send.
LEMMA ChangedAfterSendMail ==
    ASSUME Known, NEW l \in Loads, ChangedAfterSend(l), UNCHANGED presses PROVE MailKeeps
  BY MailStutter DEF ChangedAfterSend, sharedVars, gmailVars, booksVars

\* The factoring switch, the stop, and the resume script, which asks for every unconfirmed send.
LEMMA SwitchMail ==
    ASSUME Known, SwitchNext, UNCHANGED <<runs, presses>> PROVE MailKeeps
  <1>1. UNCHANGED <<claims, givenUp, outbox, runs>> /\ UNCHANGED booksVars
    BY DEF SwitchNext, Mark, Clear, HandledOutside, StopSends, ResumeSends, gmailVars, booksVars
  <1>2. CASE ~ResumeSends
    <2>1. stop => stop'
      BY <1>2 DEF SwitchNext, Mark, Clear, HandledOutside, StopSends
    <2> QED BY <1>1, <2>1, MailStutter
  <1>3. CASE ResumeSends
    <2>1. ASSUME NEW l \in Loads PROVE ~MaybeSent(claims[l])
      BY <1>3 DEF ResumeSends, MaybeSent
    <2>2. BooksTrue
      BY DEF Known, MailInv
    <2>3. ClaimsTrue'
      BY <1>1, <2>1, <2>2 DEF BooksTrue, ClaimsTrue, ClaimTrue, MaybeSent, booksVars
    <2>4. NumbersMinted' /\ NumbersApart' /\ Filed' /\ SentKnown' /\ (OneHandOff => OneHandOff')
      BY <1>1, <2>2 DEF BooksTrue, NumbersMinted, NumbersApart, Filed, SentKnown, OneHandOff, FiledOnce, HandDraftsTracked, OneSideWins,
         booksVars
    <2>5. PressesTrue'
      BY <1>1, <2>2 DEF BooksTrue, PressesTrue, PressTrue, OwnRow, booksVars
    <2>6. \A p \in Runs : runs[p].pc = "append" => Absent(copies', runs[p].num)
      BY <1>1, FilesAloneMeans DEF booksVars, Known, MailInv
    <2>7. RunsTrue' /\ FilesAlone'
      BY <1>1, <2>6, RunsStutter
    <2> QED BY <1>1, <2>2, <2>3, <2>4, <2>5, <2>7, KeptByStutter DEF MailKeeps, MailInv, BooksTrue
  <1> QED BY <1>2, <1>3

-----------------------------------------------------------------------------
(* The steps of a press. *)

\* The number a press holds is its own, and in no mailbox before it waits for the webhook.
LEMMA PressFacts ==
    ASSUME Known, NEW p \in Presses
    PROVE  /\ PressTrue(presses[p])
           /\ presses[p].pc \in {"idle", "prepare", "render", "append", "n8n"}
           /\ presses[p].num = 0 <=> presses[p].pc \in {"idle", "prepare"}
           /\ presses[p].pc # "idle" => presses[p].load \in Loads
           /\ presses[p].num # 0 =>
                 /\ presses[p].num \in Numbers /\ presses[p].num <= seq
                 /\ presses[p].pc # "n8n" =>
                       Absent(copies, presses[p].num) /\ presses[p].num \notin givenUp /\ \A h \in handFiled : h.num # presses[p].num
                 /\ \A l \in Loads : claims[l].num # presses[p].num
                 /\ \A q \in Presses : q # p => presses[q].num # presses[p].num
  <1>1. PressTypeOK /\ BooksTrue
    BY DEF Known, MailInv
  <1>2. PressTrue(presses[p])
    BY <1>1 DEF BooksTrue, PressesTrue
  <1>3. /\ presses[p].pc \in {"idle", "prepare", "render", "append", "n8n"}
        /\ presses[p].num = 0 <=> presses[p].pc \in {"idle", "prepare"}
        /\ presses[p].pc # "idle" => presses[p].load \in Loads
        /\ presses[p].num \in Numbers \cup {0}
    BY <1>1 DEF PressTypeOK
  <1>4. presses[p].num # 0 =>
           /\ presses[p].num \in Numbers /\ presses[p].num <= seq
           /\ presses[p].pc # "n8n" =>
                 Absent(copies, presses[p].num) /\ presses[p].num \notin givenUp /\ \A h \in handFiled : h.num # presses[p].num
           /\ \A l \in Loads : claims[l].num # presses[p].num
           /\ \A q \in Presses : q # p => presses[q].num # presses[p].num
    BY <1>1, <1>2, <1>3 DEF BooksTrue, NumbersMinted, NumbersApart, PressTrue
  <1> QED BY <1>2, <1>3, <1>4

\* A press leaves the claims and the runs, the send and the stop; what it leaves under the claims'
\* numbers as it was keeps what they say.
LEMMA PressMail ==
    ASSUME Known, UNCHANGED <<claims, runs, sent, outbox, delivered, stop>>,
           \A l \in Loads : claims[l].num # 0 =>
              copies'[claims[l].num] = copies[claims[l].num] /\ (claims[l].num \in givenUp' => claims[l].num \in givenUp),
           givenUp' \subseteq Numbers,
           NumbersMinted', NumbersApart', PressesTrue', Filed', ~N8n /\ OneHandOff => OneHandOff'
    PROVE  MailKeeps
  <1>1. Core /\ BooksTrue /\ claims \in [Loads -> Claim]
    BY DEF Known, MailInv, Core, CoreTypeOK
  <1>2. ClaimsTrue'
    <2> SUFFICES ASSUME NEW l \in Loads
                 PROVE  /\ ClaimTrue(claims[l])'
                        /\ outbox[l] > 0 => Absent(copies', claims[l].num)
                        /\ MaybeSent(claims[l]) => stop
                        /\ claims[l].num \in givenUp' => claims[l].voided
      BY DEF ClaimsTrue, MaybeSent
    <2>1. /\ ClaimTrue(claims[l]) /\ Numbered(claims[l])
          /\ outbox[l] > 0 => Absent(copies, claims[l].num)
          /\ outbox[l] > 0 => ClaimSent(claims[l])
          /\ MaybeSent(claims[l]) => stop
          /\ claims[l].num \in givenUp => claims[l].voided
      <3>1. outbox[l] > 0 => outbox[l] + delivered[l] > 0
        BY <1>1 DEF Core, CoreTypeOK
      <3> QED BY <1>1, <3>1 DEF BooksTrue, ClaimsTrue, Core, CoreInv, TransitKnown
    <2>2. ClaimTrue(claims[l])'
      BY <2>1 DEF ClaimTrue, InGmail, Numbered
    <2>3. outbox[l] > 0 => claims[l].num # 0
      BY <2>1 DEF ClaimSent, Numbered
    <2>4. claims[l].num \in givenUp' => claims[l].voided
      BY <2>1 DEF Numbers
    <2> QED BY <2>1, <2>2, <2>3, <2>4
  <1>3. ASSUME NEW p \in Runs, runs[p].pc = "append" PROVE Absent(copies', runs[p].num)
    <2>1. ~Overlaps =>
             LoadOf(p) \in Loads /\ claims[LoadOf(p)].num = runs[p].num /\ runs[p].num # 0 /\ Absent(copies, runs[p].num)
      BY <1>3, FilingFacts DEF Numbers
    <2> QED BY <2>1
  <1>4. RunsTrue' /\ FilesAlone'
    BY <1>3, RunsStutter
  <1>5. SentKnown'
    BY <1>1 DEF BooksTrue, SentKnown
  <1> QED BY <1>1, <1>2, <1>4, <1>5, KeptByStutter DEF MailKeeps, MailInv, BooksTrue

\* A press ends or goes on to the webhook: it filed its draft or did not, gave its number up or did
\* not, and leaves every in-flight row but its own.
LEMMA PressEndsMail ==
    ASSUME Known, NEW p \in Presses, NEW m, presses' = [presses EXCEPT ![p] = m],
           m = IdlePress \/ (N8n /\ m.pc = "n8n" /\ m.num = presses[p].num /\ presses[p].num # 0),
           NEW filed \in BOOLEAN,
           filed => presses[p].num # 0 /\ File(presses[p].num) /\ givenUp' = givenUp,
           ~filed => copies' = copies,
           givenUp' = givenUp \/ (presses[p].num # 0 /\ givenUp' = givenUp \cup {presses[p].num}),
           \A f \in inflight' : f \in inflight \/ (presses[p].num # 0 /\ f.num = presses[p].num),
           \A f \in inflight : f.num # presses[p].num => f \in inflight',
           \A d \in rows' : d \in rows \/ (filed /\ d.num = presses[p].num),
           \A h \in handFiled' : \/ h \in handFiled
                                 \/ /\ filed /\ h.num = presses[p].num
                                    /\ N8n \/ h.reissue \/ outbox[h.load] + delivered[h.load] = 0,
           ~N8n => HandDraftsTracked',
           UNCHANGED <<claims, runs, seq, sent, outbox, delivered, stop>>
    PROVE  MailKeeps
  <1> DEFINE n == presses[p].num
  <1>1. /\ n \in Numbers \cup {0} /\ copies \in [Numbers -> Nat] /\ BooksTrue /\ givenUp \subseteq Numbers
        /\ rows \subseteq DraftRow /\ sent \subseteq Numbers
        /\ \A h \in handFiled : h.num \in Numbers
        /\ DOMAIN presses = Presses
    BY PressFacts DEF Known, RestTypeOK, MailInv, Core, CoreTypeOK, PressTypeOK
  <1>2. n # 0 => /\ n <= seq
                 /\ ~N8n => Absent(copies, n) /\ n \notin givenUp /\ \A h \in handFiled : h.num # n
                 /\ \A l \in Loads : claims[l].num # n
                 /\ \A q \in Presses : q # p => presses[q].num # n
    BY PressFacts DEF PressTrue
  <1>3. /\ presses'[p] = m /\ \A q \in Presses : q # p => presses'[q] = presses[q]
        /\ (m.num = 0 /\ m.pc = "idle") \/ (N8n /\ m.num = n /\ n # 0 /\ m.pc = "n8n")
    BY <1>1 DEF IdlePress
  <1>4. ASSUME NEW k \in Numbers
        PROVE  /\ k # n => copies'[k] = copies[k]
               /\ copies[k] > 0 => copies'[k] > 0
               /\ ~N8n /\ ~Overlaps /\ copies[k] <= 1 => copies'[k] <= 1
               /\ filed => copies'[n] > 0
               /\ ~filed => copies'[k] = copies[k]
    <2>1. CASE filed
      <3>1. copies' = [copies EXCEPT ![n] = @ + 1] /\ n \in Numbers /\ (~N8n => Absent(copies, n))
        BY <1>1, <1>2, <2>1 DEF File
      <3> QED BY <1>1, <2>1, <3>1
    <2>2. CASE ~filed
      BY <2>2
    <2> QED BY <2>1, <2>2
  <1>5. \A l \in Loads : claims[l].num # 0 =>
           copies'[claims[l].num] = copies[claims[l].num] /\ (claims[l].num \in givenUp' => claims[l].num \in givenUp)
    <2> SUFFICES ASSUME NEW l \in Loads, claims[l].num # 0
                 PROVE  copies'[claims[l].num] = copies[claims[l].num] /\ (claims[l].num \in givenUp' => claims[l].num \in givenUp)
      OBVIOUS
    <2>1. claims[l].num \in Numbers
      BY DEF Known, Core, CoreTypeOK, Claim
    <2>2. claims[l].num # n
      BY <1>2
    <2> QED BY <1>4, <2>1, <2>2
  <1>6. givenUp' \subseteq Numbers
    BY <1>1
  <1>7. NumbersMinted'
    <2>1. ASSUME NEW k \in Numbers, k > seq PROVE Absent(copies', k) /\ k \notin givenUp'
      <3>1. k # n
        <4>1. seq \in Nat
          BY LedgerAssumption DEF Known, RestTypeOK
        <4> QED BY <1>1, <1>2, <2>1, <4>1 DEF Numbers
      <3> QED BY <1>1, <1>4, <2>1, <3>1 DEF BooksTrue, NumbersMinted
    <2>2. \A q \in Presses : presses'[q].num <= seq
      <3>1. 0 <= seq
        BY LedgerAssumption DEF Known, RestTypeOK
      <3> QED BY <1>1, <1>2, <1>3, <3>1 DEF BooksTrue, NumbersMinted
    <2>3. \A f \in inflight' : f.num <= seq
      BY <1>1, <1>2 DEF BooksTrue, NumbersMinted
    <2>4. \A l \in Loads : claims[l].num <= seq
      BY <1>1 DEF BooksTrue, NumbersMinted
    <2>5. \A h \in handFiled' : h.num <= seq
      BY <1>1, <1>2 DEF BooksTrue, NumbersMinted
    <2>6. \A k \in sent' : k <= seq
      BY <1>1 DEF BooksTrue, NumbersMinted
    <2> QED BY <2>1, <2>2, <2>3, <2>4, <2>5, <2>6 DEF NumbersMinted
  <1>8. NumbersApart'
    <2>1. \A f \in inflight', l \in Loads : claims[l].num # f.num
      BY <1>1, <1>2 DEF BooksTrue, NumbersApart
    <2>2. \A h \in handFiled', l \in Loads : claims[l].num # h.num
      BY <1>1, <1>2 DEF BooksTrue, NumbersApart
    <2>3. \A q \in Presses, l \in Loads : presses'[q].num # 0 => claims[l].num # presses'[q].num
      BY <1>1, <1>2, <1>3 DEF BooksTrue, NumbersApart
    <2>4. \A o, q \in Presses : o # q /\ presses'[o].num # 0 => presses'[q].num # presses'[o].num
      BY <1>1, <1>2, <1>3 DEF BooksTrue, NumbersApart
    <2>5. \A k, l \in Loads : k # l /\ claims[l].num # 0 => claims[k].num # claims[l].num
      BY <1>1 DEF BooksTrue, NumbersApart
    <2> QED BY <2>1, <2>2, <2>3, <2>4, <2>5 DEF NumbersApart
  <1>9. PressesTrue'
    <2> SUFFICES ASSUME NEW q \in Presses PROVE PressTrue(presses[q])'
      BY DEF PressesTrue
    <2>1. CASE q = p
      BY <1>3, <2>1 DEF PressTrue
    <2>2. CASE q # p
      <3>1. PressTrue(presses[q]) /\ presses'[q] = presses[q] /\ presses[q].num \in Numbers \cup {0}
            /\ (presses[q].num = 0 <=> presses[q].pc \in {"idle", "prepare"})
        BY <1>3, <2>2, PressFacts
      <3>2. presses[q].num # 0 => presses[q].num # n
        BY <1>2, <2>2, PressFacts
      <3>3. presses[q].num # 0 /\ presses[q].pc # "n8n" => Absent(copies', presses[q].num) /\ presses[q].num \notin givenUp'
        BY <1>4, <3>1, <3>2 DEF PressTrue
      <3>4. \A f \in inflight' : presses[q].num # 0 /\ f.num = presses[q].num => f \in inflight
        BY <3>2
      <3>5. OwnRow(presses[q]).num = presses[q].num
        BY DEF OwnRow
      <3>6. presses[q].pc = "append" => OwnRow(presses[q]) \in inflight'
        BY <3>1, <3>2, <3>5 DEF PressTrue
      <3>7. presses[q].num # 0 /\ presses[q].pc # "n8n" => \A h \in handFiled' : h.num # presses[q].num
        BY <3>1, <3>2 DEF PressTrue
      <3> QED BY <3>1, <3>3, <3>4, <3>6, <3>7 DEF PressTrue, OwnRow
    <2> QED BY <2>1, <2>2
  <1>10. Filed'
    <2>1. \A k \in sent : copies'[k] > 0
      BY <1>1, <1>4 DEF BooksTrue, Filed
    <2>2. ASSUME NEW d \in rows' PROVE copies'[d.num] > 0
      <3>1. CASE d \in rows
        BY <1>1, <1>4, <3>1 DEF BooksTrue, Filed, DraftRow
      <3>2. CASE filed /\ d.num = n
        BY <1>1, <1>4, <3>2
      <3> QED BY <3>1, <3>2
    <2>3. ASSUME NEW h \in handFiled' PROVE copies'[h.num] > 0
      BY <1>1, <1>4 DEF BooksTrue, Filed
    <2> QED BY <2>1, <2>2, <2>3 DEF Filed
  <1>11. ASSUME ~N8n, OneHandOff PROVE OneHandOff'
    <2>1. \A k \in givenUp' : Absent(copies', k)
      BY <1>1, <1>2, <1>4, <1>11 DEF OneHandOff
    <2>2. Overlaps \/ FiledOnce'
      BY <1>1, <1>4, <1>11 DEF OneHandOff, FiledOnce
    <2>3. OneSideWins'
      <3> SUFFICES ASSUME NEW l \in Loads, outbox[l] + delivered[l] > 0, NEW h \in handFiled', h.load = l PROVE h.reissue
        BY DEF OneSideWins
      <3>1. outbox[l] + delivered[l] # 0
        BY DEF Known, Core, CoreTypeOK
      <3> QED BY <1>11, <3>1 DEF OneHandOff, OneSideWins
    <2> QED BY <1>11, <2>1, <2>2, <2>3 DEF OneHandOff
  <1> QED BY <1>5, <1>6, <1>7, <1>8, <1>9, <1>10, <1>11, PressMail

\* A press is asked for, or is given its number: it has used it nowhere.
LEMMA PressBeginsMail ==
    ASSUME Known, NEW p \in Presses,
           (\E l \in Loads, confirmReissue \in BOOLEAN : Press(p, l, confirmReissue)) \/ PressPrepared(p),
           UNCHANGED runs
    PROVE  MailKeeps
  <1>1. /\ BooksTrue /\ DOMAIN presses = Presses /\ seq \in Nat
        /\ UNCHANGED <<claims, rows, inflight, stop, givenUp, copies, sent, outbox, delivered, handFiled>>
    BY LedgerAssumption DEF Press, PressPrepared, ledgerVars, gmailVars, Known, MailInv, PressTypeOK, RestTypeOK
  <1>2. \E q : /\ presses' = [presses EXCEPT ![p] = q] /\ q.pc \in {"prepare", "render"}
               /\ q.pc = "prepare" => q.num = 0 /\ seq' = seq
               /\ q.pc = "render" => q.num = seq + 1 /\ q.num \in Numbers /\ seq' = seq + 1
    <2>1. ASSUME NEW l \in Loads, NEW confirmReissue \in BOOLEAN, Press(p, l, confirmReissue)
          PROVE  \E q : presses' = [presses EXCEPT ![p] = q] /\ q.pc = "prepare" /\ q.num = 0 /\ seq' = seq
      <3> DEFINE q == [pc |-> "prepare", load |-> l, num |-> 0, reissue |-> ClaimSent(claims[l]) /\ confirmReissue]
      <3>1. presses' = [presses EXCEPT ![p] = q] /\ seq' = seq
        BY <2>1 DEF Press, ledgerVars
      <3>2. q.pc = "prepare" /\ q.num = 0
        OBVIOUS
      <3> HIDE DEF q
      <3> QED BY <3>1, <3>2
    <2>2. ASSUME PressPrepared(p)
          PROVE  \E q : presses' = [presses EXCEPT ![p] = q] /\ q.pc = "render" /\ q.num = seq + 1 /\ q.num \in Numbers /\ seq' = seq + 1
      <3> DEFINE q == [presses[p] EXCEPT !.pc = "render", !.num = seq + 1]
      <3>1. presses' = [presses EXCEPT ![p] = q] /\ seq' = seq + 1 /\ seq + 1 \in Numbers
        BY <1>1, <2>2, LedgerAssumption DEF PressPrepared, Numbers
      <3>2. q.pc = "render" /\ q.num = seq + 1
        BY DEF Known, PressTypeOK
      <3> HIDE DEF q
      <3> QED BY <3>1, <3>2
    <2> QED BY <2>1, <2>2
  <1>3. PICK q : /\ presses' = [presses EXCEPT ![p] = q] /\ q.pc \in {"prepare", "render"}
                 /\ q.pc = "prepare" => q.num = 0 /\ seq' = seq
                 /\ q.pc = "render" => q.num = seq + 1 /\ q.num \in Numbers /\ seq' = seq + 1
    BY <1>2
  <1>4. presses'[p] = q /\ \A o \in Presses : o # p => presses'[o] = presses[o]
    BY <1>1, <1>3
  <1>5. /\ seq' \in Nat /\ seq <= seq' /\ q.num <= seq' /\ (q.num # 0 => q.num > seq)
    BY <1>1, <1>3 DEF Numbers
  <1>6. q.num # 0 => /\ Absent(copies, q.num) /\ q.num \notin givenUp
                     /\ \A l \in Loads : claims[l].num # q.num
                     /\ \A o \in Presses : presses[o].num # q.num
                     /\ \A f \in inflight : f.num # q.num
                     /\ \A h \in handFiled : h.num # q.num
    <2> SUFFICES ASSUME q.num # 0
                 PROVE  /\ Absent(copies, q.num) /\ q.num \notin givenUp
                        /\ \A l \in Loads : claims[l].num # q.num
                        /\ \A o \in Presses : presses[o].num # q.num
                        /\ \A f \in inflight : f.num # q.num
                        /\ \A h \in handFiled : h.num # q.num
      OBVIOUS
    <2>1. q.num \in Numbers /\ q.num = seq + 1 /\ q.num > seq
      BY <1>3, <1>5
    <2>2. ~(q.num <= seq)
      BY <1>1, <2>1
    <2> QED BY <1>1, <2>1, <2>2 DEF BooksTrue, NumbersMinted
  <1>7. NumbersMinted'
    <2>1. \A n \in Numbers : n > seq' => n > seq
      BY <1>1, <1>5 DEF Numbers
    <2>2. ASSUME NEW l \in Loads PROVE claims[l].num <= seq'
      <3>1. claims[l].num \in Nat /\ claims[l].num <= seq
        BY <1>1 DEF Known, Core, CoreTypeOK, Claim, Numbers, BooksTrue, NumbersMinted
      <3> QED BY <1>1, <1>5, <3>1
    <2>3. ASSUME NEW o \in Presses PROVE presses'[o].num <= seq'
      <3>1. presses[o].num \in Nat /\ presses[o].num <= seq
        BY <1>1 DEF Known, PressTypeOK, Numbers, BooksTrue, NumbersMinted
      <3> QED BY <1>1, <1>4, <1>5, <3>1
    <2>4. ASSUME NEW f \in inflight PROVE f.num <= seq'
      <3>1. f.num \in Nat /\ f.num <= seq
        BY <1>1 DEF Known, RestTypeOK, InflightRow, Numbers, BooksTrue, NumbersMinted
      <3> QED BY <1>1, <1>5, <3>1
    <2>5. ASSUME NEW h \in handFiled PROVE h.num <= seq'
      <3>1. h.num \in Nat /\ h.num <= seq
        BY <1>1 DEF Known, RestTypeOK, Numbers, BooksTrue, NumbersMinted
      <3> QED BY <1>1, <1>5, <3>1
    <2>6. ASSUME NEW n \in sent PROVE n <= seq'
      <3>1. n \in Nat /\ n <= seq
        BY <1>1 DEF Known, RestTypeOK, Numbers, BooksTrue, NumbersMinted
      <3> QED BY <1>1, <1>5, <3>1
    <2>7. sent' = sent
      BY DEF Press, PressPrepared, gmailVars
    <2> QED BY <1>1, <2>1, <2>2, <2>3, <2>4, <2>5, <2>6, <2>7 DEF BooksTrue, NumbersMinted
  <1>8. NumbersApart'
    <2>1. \A o \in Presses, l \in Loads : presses'[o].num # 0 => claims[l].num # presses'[o].num
      BY <1>1, <1>4, <1>6 DEF BooksTrue, NumbersApart
    <2>2. ASSUME NEW o \in Presses, NEW s \in Presses, o # s, presses'[o].num # 0 PROVE presses'[s].num # presses'[o].num
      BY <1>1, <1>4, <1>6, <2>2 DEF BooksTrue, NumbersApart
    <2> QED BY <1>1, <2>1, <2>2 DEF BooksTrue, NumbersApart
  <1>9. PressesTrue'
    <2> SUFFICES ASSUME NEW o \in Presses PROVE PressTrue(presses[o])'
      BY DEF PressesTrue
    <2>1. CASE o = p
      BY <1>1, <1>3, <1>4, <1>6, <2>1 DEF PressTrue
    <2>2. CASE o # p
      BY <1>1, <1>4, <2>2 DEF BooksTrue, PressesTrue, PressTrue, OwnRow
    <2> QED BY <2>1, <2>2
  <1>10. Filed' /\ (OneHandOff => OneHandOff')
    BY <1>1 DEF BooksTrue, Filed, OneHandOff, FiledOnce, HandDraftsTracked, OneSideWins
  <1>11. givenUp' \subseteq Numbers
    BY <1>1 DEF Known, Core, CoreTypeOK
  <1> QED BY <1>1, <1>7, <1>8, <1>9, <1>10, <1>11, PressMail

\* A press ends before its draft went: refused, failed, or its number given up.
LEMMA PressStopsMail ==
    ASSUME Known, NEW p \in Presses, PressFailed(p) \/ (PressRendered(p) /\ LateRefused(p)), UNCHANGED runs
    PROVE  MailKeeps
  <1>1. /\ presses' = [presses EXCEPT ![p] = IdlePress]
        /\ givenUp' = givenUp \/ (presses[p].num # 0 /\ givenUp' = givenUp \cup {presses[p].num})
        /\ UNCHANGED <<claims, runs, rows, inflight, seq, copies, sent, outbox, delivered, handFiled, stop>>
    BY PressFacts DEF PressFailed, PressRendered, Answers, GivesUp, ledgerVars, gmailVars
  <1>2. ~N8n => HandDraftsTracked'
    BY <1>1 DEF HandDraftsTracked, Known, MailInv, BooksTrue, OneHandOff
  <1> QED BY <1>1, <1>2, PressEndsMail

\* A press writes its row and hands its draft to Gmail: no send was begun before it, or it re-issues.
LEMMA PressHandsOverMail ==
    ASSUME Known, NEW p \in Presses, PressRendered(p), ~LateRefused(p), UNCHANGED runs PROVE MailKeeps
  <1> DEFINE m == presses[p]  q == [m EXCEPT !.pc = "append"]
  <1>1. /\ m.pc = "render" /\ inflight' = inflight \cup {OwnRow(m)} /\ presses' = [presses EXCEPT ![p].pc = "append"]
        /\ UNCHANGED <<claims, runs, rows, seq, givenUp, copies, sent, outbox, delivered, handFiled, stop>>
        /\ m.reissue \/ ~ClaimSent(claims[m.load])
    BY DEF PressRendered, PressGo, LateRefused, OwnRow, gmailVars
  <1>2. /\ PressTrue(m) /\ m.load \in Loads /\ m.num \in Numbers /\ m.num # 0 /\ m.num <= seq
        /\ Absent(copies, m.num) /\ m.num \notin givenUp
        /\ \A l \in Loads : claims[l].num # m.num
        /\ \A o \in Presses : o # p => presses[o].num # m.num
    BY <1>1, PressFacts
  <1>3. /\ BooksTrue /\ DOMAIN presses = Presses
        /\ m \in [pc : {"idle", "prepare", "render", "append", "n8n"}, load : Loads \cup {NoLoad},
                  num : Numbers \cup {0}, reissue : BOOLEAN]
    BY DEF Known, MailInv, PressTypeOK
  <1>4. /\ q.pc = "append" /\ q.load = m.load /\ q.num = m.num /\ q.reissue = m.reissue
        /\ presses'[p] = q /\ \A o \in Presses : o # p => presses'[o] = presses[o]
        /\ OwnRow(q) = OwnRow(m) /\ OwnRow(m).num = m.num
    BY <1>1, <1>3 DEF OwnRow
  <1> HIDE DEF q
  <1>5. m.reissue \/ outbox[m.load] + delivered[m.load] = 0
    <2>1. ~ClaimSent(claims[m.load]) => ~(outbox[m.load] + delivered[m.load] > 0) /\ outbox[m.load] + delivered[m.load] \in Nat
      BY <1>2 DEF Known, Core, CoreTypeOK, CoreInv, TransitKnown, DeliveredKnown
    <2> QED BY <1>1, <2>1
  <1>6. NumbersMinted'
    BY <1>1, <1>2, <1>3, <1>4 DEF BooksTrue, NumbersMinted
  <1>7. NumbersApart'
    <2>1. \A o \in Presses : presses'[o].num = presses[o].num
      BY <1>4
    <2> QED BY <1>1, <1>2, <1>3, <1>4, <2>1 DEF BooksTrue, NumbersApart
  <1>8. PressesTrue'
    <2> SUFFICES ASSUME NEW o \in Presses PROVE PressTrue(presses[o])'
      BY DEF PressesTrue
    <2>1. CASE o = p
      <3>1. \A f \in inflight' : f.num = m.num => f = OwnRow(m)
        BY <1>1, <1>2 DEF PressTrue
      <3> QED BY <1>1, <1>2, <1>4, <1>5, <2>1, <3>1 DEF PressTrue, OwnRow
    <2>2. CASE o # p
      <3>1. PressTrue(presses[o]) /\ presses[o].num # m.num /\ presses'[o] = presses[o]
        BY <1>2, <1>4, <2>2, PressFacts
      <3>2. \A f \in inflight' : f.num = presses[o].num => f \in inflight
        BY <1>1, <1>4, <3>1
      <3> QED BY <1>1, <3>1, <3>2 DEF PressTrue, OwnRow
    <2> QED BY <2>1, <2>2
  <1>9. Filed' /\ (OneHandOff => OneHandOff')
    BY <1>1, <1>3 DEF BooksTrue, Filed, OneHandOff, FiledOnce, HandDraftsTracked, OneSideWins
  <1>10. givenUp' \subseteq Numbers
    BY <1>1 DEF Known, Core, CoreTypeOK
  <1> QED BY <1>1, <1>6, <1>7, <1>8, <1>9, <1>10, PressMail

\* A press at its append has one in-flight row, its own; no draft on file has its number.
LEMMA OwnRowFacts ==
    ASSUME Known, NEW p \in Presses, presses[p].pc = "append"
    PROVE  /\ RowOf(p) = {OwnRow(presses[p])}
           /\ presses[p].load \in Loads /\ presses[p].num \in Numbers /\ presses[p].num # 0
           /\ presses[p].reissue \/ outbox[presses[p].load] + delivered[presses[p].load] = 0
           /\ \A f \in inflight : f.num = presses[p].num => f = OwnRow(presses[p])
           /\ \A h \in handFiled : h.num # presses[p].num
  <1>1. /\ PressTrue(presses[p]) /\ presses[p].load \in Loads /\ presses[p].num \in Numbers
        /\ presses[p].num # 0 /\ Absent(copies, presses[p].num)
    BY PressFacts DEF Numbers
  <1>3. \A h \in handFiled : h.num # presses[p].num
    BY <1>1 DEF PressTrue
  <1>4. RowOf(p) = {OwnRow(presses[p])}
    BY <1>1 DEF RowOf, PressTrue, OwnRow
  <1> QED BY <1>1, <1>3, <1>4 DEF PressTrue

\* A row no press is filing under keeps its drafts on record.
LEMMA TrackedElsewhere ==
    ASSUME Known, ~N8n, NEW n, \A h \in handFiled : h.num # n,
           \A f \in inflight : f.num # n => f \in inflight', rows \subseteq rows',
           \A h \in handFiled' : \/ h \in handFiled
                                 \/ \E d \in rows' : d.load = h.load /\ d.num = h.num
                                 \/ \E f \in inflight' : f.load = h.load /\ f.num = h.num
    PROVE  HandDraftsTracked'
  <1>1. HandDraftsTracked
    BY DEF Known, MailInv, BooksTrue, OneHandOff
  <1>2. ASSUME NEW h \in handFiled
        PROVE  \/ \E d \in rows' : d.load = h.load /\ d.num = h.num
               \/ \E f \in inflight' : f.load = h.load /\ f.num = h.num
    <2>1. CASE \E d \in rows : d.load = h.load /\ d.num = h.num
      BY <2>1
    <2>2. CASE \E f \in inflight : f.load = h.load /\ f.num = h.num
      BY <2>2
    <2> QED BY <1>1, <2>1, <2>2 DEF HandDraftsTracked
  <1> QED BY <1>2 DEF HandDraftsTracked

\* What a press at its hand-off says of its row.
LEMMA HandOffFacts ==
    ASSUME Known, NEW p \in Presses, presses[p].pc \in {"append", "n8n"}
    PROVE  /\ presses[p].num # 0
           /\ ~N8n => presses[p].pc = "append"
           /\ \A f \in RowOf(p) : f \in inflight /\ f.load = presses[p].load /\ f.num = presses[p].num
  BY PressFacts DEF RowOf, PressTrue

\* The draft is in Gmail, on record or left maybe drafted.
LEMMA PressFiledMail ==
    ASSUME Known, NEW p \in Presses, NEW recorded \in BOOLEAN, PressFiled(p, recorded), UNCHANGED runs
    PROVE  MailKeeps
  <1> DEFINE m == presses[p]
             h0 == [load |-> m.load, num |-> m.num, reissue |-> m.reissue]
  <1>1. /\ m.pc \in {"append", "n8n"} /\ File(m.num) /\ handFiled' = handFiled \cup {h0}
        /\ presses' = [presses EXCEPT ![p] = IdlePress]
        /\ UNCHANGED <<claims, runs, seq, givenUp, sent, outbox, delivered, stop>>
    BY DEF PressFiled, Answers
  <1>2. /\ m.num # 0
        /\ \A f \in RowOf(p) : f \in inflight /\ f.num = m.num
        /\ h0.load = m.load /\ h0.num = m.num /\ h0.reissue = m.reissue
    BY <1>1, HandOffFacts
  <1>3. /\ \A f \in inflight' : f \in inflight \/ f.num = m.num
        /\ \A f \in inflight : f.num # m.num => f \in inflight'
        /\ \A d \in rows' : d \in rows \/ d.num = m.num
        /\ rows \subseteq rows'
        /\ recorded => \E d \in rows' : d.load = m.load /\ d.num = m.num
        /\ ~recorded => \A f \in RowOf(p) : [f EXCEPT !.state = "maybe"] \in inflight'
    <2>1. CASE recorded
      <3>1. /\ rows' = rows \cup {[load |-> m.load, num |-> m.num, via |-> "hand"]}
            /\ inflight' = inflight \ RowOf(p)
        BY <2>1 DEF PressFiled
      <3> DEFINE d0 == [load |-> m.load, num |-> m.num, via |-> "hand"]
      <3>2. d0.load = m.load /\ d0.num = m.num /\ rows' = rows \cup {d0}
        BY <3>1
      <3> HIDE DEF d0
      <3> QED BY <1>2, <2>1, <3>1, <3>2
    <2>2. CASE ~recorded
      <3>1. rows' = rows /\ inflight' = {IF f \in RowOf(p) THEN [f EXCEPT !.state = "maybe"] ELSE f : f \in inflight}
        BY <2>2 DEF PressFiled
      <3>2. \A f \in RowOf(p) : [f EXCEPT !.state = "maybe"].num = m.num
        BY <1>2 DEF Known, RestTypeOK, InflightRow
      <3>3. \A f \in inflight' : f \in inflight \/ f.num = m.num
        BY <3>1, <3>2
      <3>4. \A f \in inflight : f.num # m.num => f \in inflight'
        BY <1>2, <3>1
      <3>5. \A f \in RowOf(p) : [f EXCEPT !.state = "maybe"] \in inflight'
        BY <1>2, <3>1
      <3> QED BY <2>2, <3>1, <3>3, <3>4, <3>5
    <2> QED BY <2>1, <2>2
  <1> HIDE DEF h0
  <1>4. ASSUME ~N8n
        PROVE  /\ m.reissue \/ outbox[m.load] + delivered[m.load] = 0
               /\ \A h \in handFiled : h.num # m.num
               /\ OwnRow(m) \in RowOf(p)
    BY <1>1, <1>4, HandOffFacts, OwnRowFacts
  <1>5. ASSUME ~N8n PROVE HandDraftsTracked'
    <2>1. \/ \E d \in rows' : d.load = m.load /\ d.num = m.num
          \/ \E f \in inflight' : f.load = m.load /\ f.num = m.num
      <3>1. LET g == [OwnRow(m) EXCEPT !.state = "maybe"] IN g.load = m.load /\ g.num = m.num
        BY DEF OwnRow
      <3> QED BY <1>3, <1>4, <1>5, <3>1
    <2> QED BY <1>1, <1>2, <1>3, <1>4, <1>5, <2>1, TrackedElsewhere
  <1>6. \A h \in handFiled' : \/ h \in handFiled
                              \/ TRUE /\ h.num = m.num /\ (N8n \/ h.reissue \/ outbox[h.load] + delivered[h.load] = 0)
    BY <1>1, <1>2, <1>4
  <1> QED BY <1>1, <1>2, <1>3, <1>5, <1>6, PressEndsMail

\* A press leaves its hand-off without an answer, or dies, or goes on to the webhook: what it handed
\* over may have landed, and its row stays.
LEMMA PressLeavesMail ==
    ASSUME Known, NEW p \in Presses, NEW landed \in BOOLEAN,
           PressUnanswered(p, landed) \/ PressN8nFailed(p, landed) \/ PressDies(p, landed), UNCHANGED runs
    PROVE  MailKeeps
  <1> DEFINE m == presses[p]
             h0 == [load |-> m.load, num |-> m.num, reissue |-> m.reissue]
  <1>1. /\ landed => m.pc \in {"append", "n8n"} /\ File(m.num) /\ handFiled' = handFiled \cup {h0}
        /\ ~landed => UNCHANGED <<copies, handFiled>>
        /\ \/ inflight' = inflight
           \/ m.pc \in {"append", "n8n"} /\ inflight' = MaybeRows(p, "imap")
           \/ m.pc \in {"append", "n8n"} /\ inflight' = MaybeRows(p, "n8n")
        /\ UNCHANGED <<claims, runs, rows, seq, givenUp, sent, outbox, delivered, stop>>
    BY DEF PressUnanswered, PressN8nFailed, PressDies, MayFile, ledgerVars
  <1>2. \/ presses' = [presses EXCEPT ![p] = IdlePress]
        \/ N8n /\ presses' = [presses EXCEPT ![p].pc = "n8n"] /\ m.pc = "append"
    BY DEF PressUnanswered, PressN8nFailed, PressDies, Answers, PressGo
  <1>3. m.pc \in {"append", "n8n"} =>
           m.num # 0 /\ \A f \in RowOf(p) : f \in inflight /\ f.load = m.load /\ f.num = m.num
    BY HandOffFacts
  <1>4. h0.load = m.load /\ h0.num = m.num /\ h0.reissue = m.reissue
    OBVIOUS
  <1> HIDE DEF h0
  <1>5. /\ \A f \in inflight' : f \in inflight \/ (m.num # 0 /\ f.num = m.num)
        /\ \A f \in inflight : f.num # m.num => f \in inflight'
        /\ m.pc = "append" => \A f \in RowOf(p) : \E g \in inflight' : g.load = f.load /\ g.num = f.num
    <2>1. CASE inflight' = inflight
      BY <1>3, <2>1
    <2>2. ASSUME NEW path \in {"imap", "n8n"}, m.pc \in {"append", "n8n"}, inflight' = MaybeRows(p, path)
          PROVE  /\ \A f \in inflight' : f \in inflight \/ (m.num # 0 /\ f.num = m.num)
                 /\ \A f \in inflight : f.num # m.num => f \in inflight'
                 /\ \A f \in RowOf(p) : \E g \in inflight' : g.load = f.load /\ g.num = f.num
      <3>1. \A f \in RowOf(p) : LET g == [f EXCEPT !.state = "maybe", !.path = path] IN g.load = f.load /\ g.num = f.num
        BY <1>3, <2>2 DEF Known, RestTypeOK, InflightRow
      <3> QED BY <1>3, <2>2, <3>1 DEF MaybeRows
    <2> QED BY <1>1, <2>1, <2>2
  <1>6. ASSUME NEW h \in handFiled', h \notin handFiled PROVE landed /\ h = h0
    BY <1>1, <1>6
  <1>7. ASSUME ~N8n
        PROVE  /\ landed => m.pc = "append"
               /\ m.pc = "append" => /\ m.reissue \/ outbox[m.load] + delivered[m.load] = 0
                                     /\ \A h \in handFiled : h.num # m.num
                                     /\ OwnRow(m) \in RowOf(p)
    BY <1>1, <1>7, HandOffFacts, OwnRowFacts
  <1>8. ASSUME ~N8n PROVE HandDraftsTracked'
    <2>1. CASE m.pc = "append"
      <3>1. \E f \in inflight' : f.load = m.load /\ f.num = m.num
        BY <1>5, <1>7, <1>8, <2>1 DEF OwnRow
      <3>2. \A h \in handFiled' : \/ h \in handFiled
                                  \/ \E d \in rows' : d.load = h.load /\ d.num = h.num
                                  \/ \E f \in inflight' : f.load = h.load /\ f.num = h.num
        BY <1>4, <1>6, <3>1
      <3> QED BY <1>1, <1>5, <1>7, <1>8, <2>1, <3>2, TrackedElsewhere
    <2>2. CASE m.pc # "append"
      <3>1. m.pc \notin {"append", "n8n"} /\ ~landed
        BY <1>7, <1>8, <2>2, PressFacts DEF PressTrue
      <3> QED BY <1>1, <1>8, <3>1 DEF HandDraftsTracked, Known, MailInv, BooksTrue, OneHandOff
    <2> QED BY <2>1, <2>2
  <1>9. \A h \in handFiled' : \/ h \in handFiled
                              \/ landed /\ h.num = m.num /\ (N8n \/ h.reissue \/ outbox[h.load] + delivered[h.load] = 0)
    BY <1>4, <1>6, <1>7
  <1>10. \A d \in rows' : d \in rows \/ (landed /\ d.num = m.num)
    BY <1>1
  <1>11. landed => m.num # 0
    BY <1>1, <1>3
  <1>12. CASE presses' = [presses EXCEPT ![p] = IdlePress]
    BY <1>1, <1>5, <1>8, <1>9, <1>10, <1>11, <1>12, PressEndsMail
  <1>13. CASE N8n /\ presses' = [presses EXCEPT ![p].pc = "n8n"] /\ m.pc = "append"
    <2> DEFINE q == [m EXCEPT !.pc = "n8n"]
    <2>1. presses' = [presses EXCEPT ![p] = q] /\ q.pc = "n8n" /\ q.num = m.num /\ m.num # 0
      BY <1>3, <1>13 DEF Known, PressTypeOK
    <2> HIDE DEF q
    <2> QED BY <1>1, <1>5, <1>8, <1>9, <1>10, <1>11, <1>13, <2>1, PressEndsMail
  <1> QED BY <1>2, <1>12, <1>13

\* Gmail refused the draft: its row goes and its number is given up, or the webhook is tried.
LEMMA PressRefusedMail ==
    ASSUME Known, NEW p \in Presses, PressRefusedByGmail(p), UNCHANGED runs PROVE MailKeeps
  <1> DEFINE m == presses[p]
  <1>1. /\ m.pc = "append" /\ UNCHANGED <<claims, runs, rows, seq, copies, sent, outbox, delivered, handFiled, stop>>
    BY DEF PressRefusedByGmail, gmailVars
  <1>2. /\ m.num # 0
        /\ \A f \in RowOf(p) : f \in inflight /\ f.num = m.num
        /\ \A h \in handFiled : h.num # m.num
    BY <1>1, OwnRowFacts, HandOffFacts
  <1>3. CASE ~(N8n /\ ~LateRefused(p))
    <2>1. /\ presses' = [presses EXCEPT ![p] = IdlePress] /\ inflight' = inflight \ RowOf(p)
          /\ givenUp' = givenUp \cup {m.num}
      BY <1>3 DEF PressRefusedByGmail, Answers, GivesUp
    <2>2. \A f \in inflight : f.num # m.num => f \in inflight'
      BY <1>2, <2>1
    <2>3. ~N8n => HandDraftsTracked'
      BY <1>1, <1>2, <2>2, TrackedElsewhere
    <2> QED BY <1>1, <1>2, <2>1, <2>2, <2>3, PressEndsMail
  <1>4. CASE N8n /\ ~LateRefused(p)
    <2> DEFINE q == [m EXCEPT !.pc = "n8n"]
    <2>1. /\ presses' = [presses EXCEPT ![p].pc = "n8n"] /\ givenUp' = givenUp
          /\ inflight' = (inflight \ RowOf(p)) \cup {[f EXCEPT !.path = "n8n"] : f \in RowOf(p)}
      BY <1>4 DEF PressRefusedByGmail, PressGo
    <2>2. presses' = [presses EXCEPT ![p] = q] /\ q.pc = "n8n" /\ q.num = m.num
      BY <1>1, <2>1 DEF Known, PressTypeOK
    <2> HIDE DEF q
    <2>3. \A f \in RowOf(p) : [f EXCEPT !.path = "n8n"].num = m.num
      BY <1>2 DEF Known, RestTypeOK, InflightRow
    <2>4. /\ \A f \in inflight' : f \in inflight \/ f.num = m.num
          /\ \A f \in inflight : f.num # m.num => f \in inflight'
      BY <1>2, <2>1, <2>3
    <2> QED BY <1>1, <1>2, <1>4, <2>1, <2>2, <2>4, PressEndsMail
  <1> QED BY <1>3, <1>4

\* A row gone stale reads maybe drafted; no press is at work under its number.
LEMMA StaleMail ==
    ASSUME Known, NEW f \in inflight, InflightStale(f), UNCHANGED runs PROVE MailKeeps
  <1> DEFINE g == [f EXCEPT !.state = "maybe"]
  <1>1. /\ inflight' = (inflight \ {f}) \cup {g} /\ \A p \in Presses : f \notin RowOf(p)
        /\ UNCHANGED <<claims, runs, rows, seq, givenUp, copies, sent, outbox, delivered, handFiled, stop, presses>>
    BY DEF InflightStale, gmailVars
  <1>2. f \in InflightRow /\ BooksTrue
    BY DEF Known, RestTypeOK, MailInv
  <1>3. g.load = f.load /\ g.num = f.num
    BY <1>2 DEF InflightRow
  <1> HIDE DEF g
  <1>4. ASSUME NEW p \in Presses PROVE PressTrue(presses[p])'
    <2>1. PressTrue(presses[p])
      BY <1>2 DEF BooksTrue, PressesTrue
    <2>2. presses[p].pc = "append" => f.num # presses[p].num /\ f # OwnRow(presses[p])
      BY <1>1, <2>1 DEF PressTrue, RowOf, OwnRow
    <2>3. presses[p].pc = "append" =>
             /\ OwnRow(presses[p]) \in inflight'
             /\ \A e \in inflight' : e.num = presses[p].num => e = OwnRow(presses[p])
      BY <1>1, <1>3, <2>1, <2>2 DEF PressTrue
    <2>4. presses[p].pc = "render" => \A e \in inflight' : e.num # presses[p].num
      BY <1>1, <1>3, <2>1 DEF PressTrue
    <2> QED BY <1>1, <2>1, <2>3, <2>4 DEF PressTrue, OwnRow
  <1>5. PressesTrue'
    BY <1>4 DEF PressesTrue
  <1>6. NumbersMinted' /\ NumbersApart'
    BY <1>1, <1>2, <1>3 DEF BooksTrue, NumbersMinted, NumbersApart
  <1>7. Filed'
    BY <1>1, <1>2 DEF BooksTrue, Filed
  <1>8. ASSUME OneHandOff PROVE OneHandOff'
    <2>1. HandDraftsTracked'
      BY <1>1, <1>3, <1>8 DEF OneHandOff, HandDraftsTracked
    <2> QED BY <1>1, <1>8, <2>1 DEF OneHandOff, FiledOnce, OneSideWins
  <1>9. givenUp' \subseteq Numbers
    BY <1>1 DEF Known, Core, CoreTypeOK
  <1> QED BY <1>1, <1>5, <1>6, <1>7, <1>8, <1>9, PressMail

\* "Check Gmail": a maybe-drafted row becomes a draft on record, or its number is given up.
LEMMA ResolvedMail ==
    ASSUME Known, NEW f \in inflight, ResolveInflight(f), UNCHANGED runs PROVE MailKeeps
  <1>1. /\ f.state = "maybe" /\ inflight' = inflight \ {f}
        /\ IF copies[f.num] > 0
           THEN rows' = rows \cup {[load |-> f.load, num |-> f.num, via |-> "hand"]} /\ givenUp' = givenUp
           ELSE givenUp' = givenUp \cup {f.num} /\ rows' = rows
        /\ UNCHANGED <<claims, runs, seq, copies, sent, outbox, delivered, handFiled, stop, presses>>
    BY DEF ResolveInflight, GivesUp, gmailVars
  <1>2. f \in InflightRow /\ BooksTrue /\ copies \in [Numbers -> Nat]
    BY DEF Known, RestTypeOK, MailInv
  <1>3. f.num \in Numbers /\ f.num <= seq /\ \A l \in Loads : claims[l].num # f.num
    BY <1>2 DEF InflightRow, BooksTrue, NumbersMinted, NumbersApart
  <1>4. ASSUME NEW p \in Presses PROVE PressTrue(presses[p])'
    <2>1. /\ PressTrue(presses[p])
          /\ presses[p].pc \in {"idle", "prepare", "render", "append", "n8n"}
          /\ (presses[p].num = 0 <=> presses[p].pc \in {"idle", "prepare"})
      BY PressFacts
    <2>2. OwnRow(presses[p]) # f
      BY <1>1 DEF OwnRow
    <2>3. presses[p].num # 0 /\ presses[p].pc # "n8n" => presses[p].num # f.num
      BY <2>1, <2>2 DEF PressTrue
    <2> QED BY <1>1, <2>1, <2>2, <2>3 DEF PressTrue, OwnRow
  <1>5. PressesTrue'
    BY <1>4 DEF PressesTrue
  <1>6. NumbersMinted'
    <2>1. ASSUME NEW n \in Numbers, n > seq PROVE n # f.num
      <3>1. seq \in Nat
        BY LedgerAssumption DEF Known, RestTypeOK
      <3> QED BY <1>3, <2>1, <3>1 DEF Numbers
    <2> QED BY <1>1, <1>2, <2>1 DEF BooksTrue, NumbersMinted
  <1>7. NumbersApart'
    BY <1>1, <1>2 DEF BooksTrue, NumbersApart
  <1>8. Filed'
    BY <1>1, <1>2 DEF BooksTrue, Filed
  <1>9. ASSUME OneHandOff PROVE OneHandOff'
    <2>1. \A n \in givenUp' : Absent(copies, n)
      BY <1>1, <1>2, <1>3, <1>9 DEF OneHandOff
    <2>2. ASSUME NEW h \in handFiled
          PROVE  \/ \E d \in rows' : d.load = h.load /\ d.num = h.num
                 \/ \E e \in inflight' : e.load = h.load /\ e.num = h.num
      <3>1. copies[h.num] > 0
        BY <1>2 DEF BooksTrue, Filed
      <3>2. CASE \E d \in rows : d.load = h.load /\ d.num = h.num
        BY <1>1, <3>2
      <3>3. CASE \E e \in inflight : e.load = h.load /\ e.num = h.num /\ e # f
        BY <1>1, <3>3
      <3>4. CASE f.load = h.load /\ f.num = h.num
        <4> DEFINE d == [load |-> f.load, num |-> f.num, via |-> "hand"]
        <4>1. d \in rows' /\ d.load = h.load /\ d.num = h.num
          BY <1>1, <3>1, <3>4
        <4> QED BY <4>1
      <3> QED BY <1>9, <3>2, <3>3, <3>4 DEF OneHandOff, HandDraftsTracked
    <2> QED BY <1>1, <1>9, <2>1, <2>2 DEF OneHandOff, FiledOnce, HandDraftsTracked, OneSideWins
  <1>10. givenUp' \subseteq Numbers
    BY <1>1, <1>3 DEF Known, Core, CoreTypeOK
  <1>11. \A l \in Loads : claims[l].num \in givenUp' => claims[l].num \in givenUp
    BY <1>1, <1>3
  <1> QED BY <1>1, <1>5, <1>6, <1>7, <1>8, <1>9, <1>10, <1>11, PressMail

\* Every step of a press, or of a row it left.
LEMMA PressNextMail ==
    ASSUME Known, PressNext, UNCHANGED runs PROVE MailKeeps
  <1>1. ASSUME NEW p \in Presses, PressStep(p) PROVE MailKeeps
    <2>1. CASE PressPrepared(p)
      BY <2>1, PressBeginsMail
    <2>2. CASE PressFailed(p) \/ (PressRendered(p) /\ LateRefused(p))
      BY <2>2, PressStopsMail
    <2>3. CASE PressRendered(p) /\ ~LateRefused(p)
      BY <2>3, PressHandsOverMail
    <2>4. ASSUME NEW recorded \in BOOLEAN, PressFiled(p, recorded) PROVE MailKeeps
      BY <2>4, PressFiledMail
    <2>5. ASSUME NEW landed \in BOOLEAN,
                 PressUnanswered(p, landed) \/ PressN8nFailed(p, landed) \/ PressDies(p, landed)
          PROVE  MailKeeps
      BY <2>5, PressLeavesMail
    <2>6. CASE PressRefusedByGmail(p)
      BY <2>6, PressRefusedMail
    <2> QED BY <1>1, <2>1, <2>2, <2>3, <2>4, <2>5, <2>6 DEF PressStep
  <1>2. ASSUME NEW p \in Presses, NEW l \in Loads, NEW confirmReissue \in BOOLEAN, Press(p, l, confirmReissue) PROVE MailKeeps
    BY <1>2, PressBeginsMail
  <1>3. ASSUME NEW f \in inflight, InflightStale(f) \/ ResolveInflight(f) PROVE MailKeeps
    BY <1>3, StaleMail, ResolvedMail
  <1> QED BY <1>1, <1>2, <1>3 DEF PressNext

\* Every step of a run.
LEMMA RunStepMail ==
    ASSUME Known, NEW r \in Runs, RunStep(r), UNCHANGED presses PROVE MailKeeps
  <1>1. CASE LostRun(r) \/ SheetDown(r) \/ NotNow(r) \/ AfterSnapshot(r)
    BY <1>1, LostRunMail, SnapshotMail
  <1>2. CASE PrepareRefused(r) \/ Prepared(r) \/ RenderFailed(r) \/ Rendered(r)
    BY <1>2, PrepareRefusedMail, PreparedMail, RenderFailedMail, RenderedMail
  <1>3. CASE Appended(r) \/ AppendRefused(r) \/ FoundInGmail(r) \/ GmailUnknown(r) \/ AbsentFromGmail(r)
    BY <1>3, AppendedMail, AppendRefusedMail, LookedInGmailMail
  <1>4. ASSUME NEW landed \in BOOLEAN, AppendUnanswered(r, landed) PROVE MailKeeps
    BY <1>4, AppendUnansweredMail
  <1>5. CASE SmtpAccepted(r) \/ SmtpRefused(r) \/ SmtpUnanswered(r) \/ FoundInSent(r) \/ NotFoundInSent(r)
    BY <1>5, SmtpAcceptedMail, SmtpRefusedMail, SmtpUnansweredMail, SearchedSentMail
  <1>6. CASE Rebuilt(r) \/ NotRebuilt(r) \/ RebuildThrew(r) \/ Finished(r)
    BY <1>6, RebuildMail, FinishedMail
  <1>7. ASSUME NEW written \in BOOLEAN, Recorded(r, written) PROVE MailKeeps
    BY <1>7, RecordedMail
  <1> QED BY <1>1, <1>2, <1>3, <1>4, <1>5, <1>6, <1>7 DEF RunStep

-----------------------------------------------------------------------------
(* The job, the button and the switch implement InvoiceOnce, whoever starts the runs: each step  *)
(* they share is a Commit, Send, Withdraw, Factor, Unfactor or HandDraft of it, or changes       *)
(* nothing it speaks of.                                                                         *)

\* What InvoiceOnce sees of the state, by the names its instance gives them.
Outcome(l) ==
    IF outbox[l] + delivered[l] > 1 THEN "twice"
    ELSE IF delivered[l] = 1 THEN "sent"
    ELSE IF outbox[l] = 1 THEN "committed" ELSE "idle"

outcome   == [l \in Loads |-> Outcome(l)]
factored  == {l \in Loads : Factored(l)}
handmade  == {l \in Loads : \E h \in handFiled : h.load = l /\ ~h.reissue}

\* A step of InvoiceOnce, or none.
Promised == Once!Next \/ UNCHANGED <<outcome, factored, handmade>>

\* Nothing it speaks of changes.
LEMMA PromiseStutter ==
    ASSUME UNCHANGED <<outbox, delivered, handFiled>>,
           \A l \in Loads : Factored(l)' <=> Factored(l)
    PROVE  Promised
  <1>1. factored' = factored
    BY DEF factored
  <1>2. outcome' = outcome
    BY DEF outcome, Outcome
  <1>3. handmade' = handmade
    BY DEF handmade
  <1> QED BY <1>1, <1>2, <1>3 DEF Promised

\* One load's email is committed, goes or is refused.
LEMMA PromiseSend ==
    ASSUME Core, Core', NEW l \in Loads, UNCHANGED <<marker, handFiled>>,
           \A k \in Loads : k # l => outbox'[k] = outbox[k] /\ delivered'[k] = delivered[k],
           \/ /\ outbox[l] + delivered[l] = 0 /\ outbox'[l] = 1 /\ delivered'[l] = 0
              /\ ~Factored(l) /\ \A h \in handFiled : h.load # l
           \/ outbox[l] = 1 /\ delivered[l] = 0 /\ outbox'[l] = 0 /\ delivered'[l] \in {0, 1}
    PROVE  Promised
  <1>1. factored' = factored /\ handmade' = handmade
    BY DEF factored, handmade, Factored
  <1>2. \A k \in Loads : k # l => Outcome(k)' = Outcome(k)
    BY DEF Outcome
  <1>3. outbox[l] \in Nat /\ delivered[l] \in Nat
    BY DEF Core, CoreTypeOK
  <1>4. CASE /\ outbox[l] + delivered[l] = 0 /\ outbox'[l] = 1 /\ delivered'[l] = 0
             /\ ~Factored(l) /\ \A h \in handFiled : h.load # l
    <2>1. Outcome(l) = "idle" /\ Outcome(l)' = "committed"
      BY <1>3, <1>4 DEF Outcome
    <2>2. outcome' = [outcome EXCEPT ![l] = "committed"]
      BY <1>2, <2>1 DEF outcome
    <2>3. l \notin factored \cup handmade
      BY <1>4 DEF factored, handmade
    <2>4. outcome[l] = "idle"
      BY <2>1 DEF outcome
    <2>5. Once!Commit(l)
      BY <1>1, <2>2, <2>3, <2>4 DEF Once!Commit, outcome, Outcome, factored, handmade
    <2> QED BY <2>5 DEF Promised, Once!Next
  <1>5. CASE outbox[l] = 1 /\ delivered[l] = 0 /\ outbox'[l] = 0 /\ delivered'[l] = 1
    <2>1. Outcome(l) = "committed" /\ Outcome(l)' = "sent"
      BY <1>5 DEF Outcome
    <2>2. outcome' = [outcome EXCEPT ![l] = "sent"] /\ outcome[l] = "committed"
      BY <1>2, <2>1 DEF outcome
    <2>3. Once!Send(l)
      BY <1>1, <2>2 DEF Once!Send, outcome, Outcome, factored, handmade
    <2> QED BY <2>3 DEF Promised, Once!Next
  <1>6. CASE outbox[l] = 1 /\ delivered[l] = 0 /\ outbox'[l] = 0 /\ delivered'[l] = 0
    <2>1. Outcome(l) = "committed" /\ Outcome(l)' = "idle"
      BY <1>6 DEF Outcome
    <2>2. outcome' = [outcome EXCEPT ![l] = "idle"] /\ outcome[l] = "committed"
      BY <1>2, <2>1 DEF outcome
    <2>3. Once!Withdraw(l)
      BY <1>1, <2>2 DEF Once!Withdraw, outcome, Outcome, factored, handmade
    <2> QED BY <2>3 DEF Promised, Once!Next
  <1> QED BY <1>4, <1>5, <1>6

\* A press files a draft: of its own accord where no email went, or as a confirmed re-issue.
LEMMA PromiseDraft ==
    ASSUME Core, NEW l \in Loads, NEW h, h.load = l, h.reissue \/ outbox[l] + delivered[l] = 0,
           handFiled' = handFiled \cup {h}, UNCHANGED <<outbox, delivered, marker>>
    PROVE  Promised
  <1>1. factored' = factored /\ outcome' = outcome
    BY DEF factored, Factored, outcome, Outcome
  <1>2. CASE h.reissue
    <2>1. handmade' = handmade
      BY <1>2 DEF handmade
    <2> QED BY <1>1, <2>1 DEF Promised
  <1>3. CASE ~h.reissue
    <2>1. handmade' = handmade \cup {l}
      BY <1>3 DEF handmade
    <2>2. outcome[l] = "idle"
      <3>1. outbox[l] \in Nat /\ delivered[l] \in Nat /\ outbox[l] + delivered[l] = 0
        BY <1>3 DEF Core, CoreTypeOK
      <3>2. Outcome(l) = "idle"
        BY <3>1 DEF Outcome
      <3> QED BY <3>2 DEF outcome
    <2>3. Once!HandDraft(l)
      BY <1>1, <2>1, <2>2 DEF Once!HandDraft, outcome, Outcome, factored, handmade
    <2> QED BY <2>3 DEF Promised, Once!Next
  <1> QED BY <1>2, <1>3

\* The factoring switch marks only a load no email went for.
LEMMA SwitchPromise ==
    ASSUME Core, DeliveredKnown, RestTypeOK, SwitchNext PROVE Promised
  <1>1. /\ UNCHANGED <<outbox, delivered, handFiled>> /\ marker \in [Loads -> {"clear", "factored", "locked"}]
        /\ outcome' = outcome /\ handmade' = handmade
    BY DEF SwitchNext, Mark, Clear, HandledOutside, StopSends, ResumeSends, gmailVars, RestTypeOK,
           outcome, Outcome, handmade
  <1>2. ASSUME NEW l \in Loads, NEW confirmed \in BOOLEAN, Mark(l, confirmed) PROVE Promised
    <2>1. ~ClaimSent(claims[l]) /\ marker' = [marker EXCEPT ![l] = "factored"]
      BY <1>2 DEF Mark
    <2>2. factored' = factored \cup {l}
      BY <1>1, <2>1 DEF factored, Factored
    <2>3. outcome[l] = "idle"
      <3>1. outbox[l] \in Nat /\ delivered[l] \in Nat /\ ~(outbox[l] + delivered[l] > 0)
        BY <2>1 DEF Core, CoreTypeOK, CoreInv, TransitKnown, DeliveredKnown
      <3>2. Outcome(l) = "idle"
        BY <3>1 DEF Outcome
      <3> QED BY <3>2 DEF outcome
    <2>4. Once!Factor(l)
      BY <1>1, <2>2, <2>3 DEF Once!Factor, outcome, Outcome, factored, handmade
    <2> QED BY <2>4 DEF Promised, Once!Next
  <1>3. ASSUME NEW l \in Loads, Clear(l) PROVE Promised
    <2>1. factored' = factored \ {l}
      BY <1>1, <1>3 DEF Clear, factored, Factored
    <2>2. Once!Unfactor(l)
      BY <1>1, <2>1 DEF Once!Unfactor, outcome, Outcome, factored, handmade
    <2> QED BY <2>2 DEF Promised, Once!Next
  <1>4. ASSUME NEW l \in Loads, HandledOutside(l) PROVE Promised
    <2>1. \A k \in Loads : Factored(k)' <=> Factored(k)
      BY <1>1, <1>4 DEF HandledOutside, Factored
    <2> QED BY <1>1, <2>1, PromiseStutter
  <1>5. CASE StopSends \/ ResumeSends
    <2>1. \A k \in Loads : Factored(k)' <=> Factored(k)
      BY <1>5 DEF StopSends, ResumeSends, Factored
    <2> QED BY <1>1, <2>1, PromiseStutter
  <1> QED BY <1>2, <1>3, <1>4, <1>5 DEF SwitchNext

\* A step of the button.
LEMMA PressPromise ==
    ASSUME Known, ~N8n, PressNext PROVE Promised
  <1>1. UNCHANGED <<outbox, delivered, marker>> /\ \A l \in Loads : Factored(l)' <=> Factored(l)
    BY PressLeaves DEF Factored
  <1>2. CASE UNCHANGED handFiled
    BY <1>1, <1>2, PromiseStutter
  <1>3. ASSUME NEW p \in Presses, presses[p].pc = "append",
               handFiled' = handFiled \cup {[load |-> presses[p].load, num |-> presses[p].num, reissue |-> presses[p].reissue]}
        PROVE  Promised
    <2> DEFINE h == [load |-> presses[p].load, num |-> presses[p].num, reissue |-> presses[p].reissue]
    <2>1. /\ presses[p].load \in Loads /\ h.load = presses[p].load /\ h.reissue = presses[p].reissue
          /\ presses[p].reissue \/ outbox[presses[p].load] + delivered[presses[p].load] = 0
      BY <1>3, OwnRowFacts
    <2>2. handFiled' = handFiled \cup {h}
      BY <1>3
    <2> HIDE DEF h
    <2> QED BY <1>1, <2>1, <2>2, PromiseDraft DEF Known
  <1>4. ASSUME NEW p \in Presses, PressStep(p)
        PROVE  \/ UNCHANGED handFiled
               \/ /\ presses[p].pc = "append"
                  /\ handFiled' = handFiled \cup {[load |-> presses[p].load, num |-> presses[p].num, reissue |-> presses[p].reissue]}
    <2>1. presses[p].pc # "n8n"
      BY PressFacts DEF PressTrue
    <2> QED BY <1>4, <2>1 DEF PressStep, PressPrepared, PressFailed, PressRendered, PressFiled, PressUnanswered,
               PressN8nFailed, PressDies, PressRefusedByGmail, MayFile, ledgerVars, gmailVars
  <1>5. UNCHANGED handFiled \/ \E p \in Presses : PressStep(p)
    BY DEF PressNext, Press, InflightStale, ResolveInflight, gmailVars
  <1> QED BY <1>2, <1>3, <1>4, <1>5

\* The mail system delivers one load's email.
LEMMA DeliverPromise ==
    ASSUME Known, Core', NEW l \in Loads, Deliver(l), UNCHANGED marker PROVE Promised
  <1>1. /\ outbox[l] = 1 /\ delivered[l] = 0 /\ outbox \in [Loads -> Nat] /\ delivered \in [Loads -> Nat]
        /\ outbox' = [outbox EXCEPT ![l] = @ - 1] /\ delivered' = [delivered EXCEPT ![l] = @ + 1]
        /\ UNCHANGED handFiled
    BY OnItsWay DEF Deliver, Known, Core, CoreTypeOK
  <1>2. outbox'[l] = 0 /\ delivered'[l] = 1
    BY <1>1
  <1>3. \A k \in Loads : k # l => outbox'[k] = outbox[k] /\ delivered'[k] = delivered[k]
    BY <1>1
  <1> QED BY <1>1, <1>2, <1>3, PromiseSend DEF Known

\* beginSend() commits one load's email, where nothing went, nobody drafted it and it is not factored.
LEMMA BeginSendPromise ==
    ASSUME Known, ~N8n, Core', NEW r \in Runs, At(r, {"render"}), NEW c, OtherRows(LoadOf(r)) = {},
           BeginSend(r, c), UNCHANGED <<marker, delivered, handFiled>>
    PROVE  Promised
  <1> DEFINE l == LoadOf(r)
  <1>1. /\ l \in Loads /\ Mine(r) = claims[l] /\ Mine(r).stage \in StagesBeforeAppend
    BY HeldMail DEF At, RunFits
  <1>2. outbox[l] + delivered[l] = 0 /\ outbox[l] = 0 /\ delivered[l] = 0
    <2>1. ~ClaimSent(claims[l])
      BY <1>1 DEF ClaimSent, StagesBeforeAppend
    <2>2. outbox[l] \in Nat /\ delivered[l] \in Nat /\ ~(outbox[l] + delivered[l] > 0)
      BY <1>1, <2>1 DEF Known, Core, CoreTypeOK, CoreInv, TransitKnown, DeliveredKnown
    <2> QED BY <2>2
  <1>3. outbox' = [outbox EXCEPT ![l] = @ + 1] /\ ~Factored(l) /\ InflightRows(l) = {} /\ DOMAIN outbox = Loads
    BY DEF BeginSend, Known, Core, CoreTypeOK
  <1>4. \A h \in handFiled : h.load # l
    BY <1>1, <1>3, NobodysDraft DEF Known, MailInv, BooksTrue
  <1>5. outbox'[l] = 1 /\ delivered'[l] = 0 /\ \A k \in Loads : k # l => outbox'[k] = outbox[k] /\ delivered'[k] = delivered[k]
    BY <1>1, <1>2, <1>3
  <1> QED BY <1>1, <1>2, <1>3, <1>4, <1>5, PromiseSend DEF Known

\* The server refused a message: the load is as it was.
LEMMA SmtpRefusedPromise ==
    ASSUME Known, Core', NEW r \in Runs, SmtpRefused(r) PROVE Promised
  <1> DEFINE l == LoadOf(r)
  <1>1. /\ l \in Loads /\ outbox[l] > 0 /\ outbox' = [outbox EXCEPT ![l] = @ - 1] /\ outbox \in [Loads -> Nat]
        /\ UNCHANGED <<marker, delivered, handFiled>>
    BY DEF SmtpRefused, sharedVars, LoadOf, Known, Core, CoreTypeOK, RunTypeOK
  <1>2. outbox[l] = 1 /\ delivered[l] = 0
    BY <1>1, OnItsWay
  <1>3. outbox'[l] = 0 /\ delivered'[l] = 0 /\ \A k \in Loads : k # l => outbox'[k] = outbox[k] /\ delivered'[k] = delivered[k]
    BY <1>1, <1>2
  <1> QED BY <1>1, <1>2, <1>3, PromiseSend DEF Known

\* A step of a run.
LEMMA RunStepPromise ==
    ASSUME Known, ~N8n, Core', NEW r \in Runs, RunStep(r) PROVE Promised
  <1>1. ASSUME UNCHANGED <<outbox, delivered, handFiled, marker>> PROVE Promised
    BY <1>1, PromiseStutter DEF Factored
  <1>2. CASE Rendered(r)
    <2>1. At(r, {"render"}) /\ UNCHANGED <<marker, delivered, handFiled>>
      BY <1>2 DEF Rendered, sharedVars
    <2>2. \/ UNCHANGED outbox
          \/ OtherRows(LoadOf(r)) = {} /\ BeginSend(r, [Mine(r) EXCEPT !.stage = "rendered"])
      BY <1>2 DEF Rendered
    <2> QED BY <1>1, <2>1, <2>2, BeginSendPromise
  <1>3. CASE SmtpAccepted(r)
    <2>1. LoadOf(r) \in Loads /\ Deliver(LoadOf(r)) /\ UNCHANGED marker
      BY <1>3 DEF SmtpAccepted, sharedVars, LoadOf, Known, Core, CoreTypeOK, RunTypeOK
    <2> QED BY <2>1, DeliverPromise
  <1>4. CASE SmtpRefused(r)
    BY <1>4, SmtpRefusedPromise
  <1>5. CASE ~(Rendered(r) \/ SmtpAccepted(r) \/ SmtpRefused(r))
    <2>1. UNCHANGED <<outbox, delivered, handFiled, marker>>
      BY <1>5 DEF RunStep, LostRun, SheetDown, NotNow, AfterSnapshot, PrepareRefused, Prepared, RenderFailed,
         Appended, AppendUnanswered, AppendRefused, FoundInGmail, GmailUnknown, AbsentFromGmail, SmtpUnanswered,
         FoundInSent, NotFoundInSent, Rebuilt, NotRebuilt, RebuildThrew, Recorded, Finished,
         sharedVars, gmailVars, ledgerVars
    <2> QED BY <1>1, <2>1
  <1> QED BY <1>2, <1>3, <1>4, <1>5
=============================================================================
