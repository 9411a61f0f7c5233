----------------------------- MODULE TriggerProofs -----------------------------
(***************************************************************************)
(* TriggerInvoices for any loads, runs, presses, taps and bounds: its      *)
(* types, at most one automatic email of a load, none nobody asked for and *)
(* none over a person's own bill, also when the box loses power over a     *)
(* send whose commit was not on the disk. On a box that keeps what it      *)
(* committed (PowerLosses off), also: no email of a factored load, no      *)
(* record without its message, no send forgotten; with the fallback        *)
(* webhook not configured, that the whole implements InvoiceOnce; and,     *)
(* where no claim is taken over under an append either (Overlaps off),     *)
(* that the mailbox and the records agree.                                 *)
(***************************************************************************)
EXTENDS TriggerInvoices, MailProofs, FiniteSetTheorems
USE DEF Absent

-----------------------------------------------------------------------------
(* What one step of a run does to its claim, its place and the outbox. *)

\* Where a run may still begin a send, or waits for the answer to one.
ToSend == {"snapshot", "searchDraft", "prepare", "lookFirst", "render", "smtp"}

\* What the look finds of a load nobody billed and no message went for.
LooksClean(r) == LoadOf(r) \notin billed /\ delivered[LoadOf(r)] = 0

\* What a run may leave of the claim it holds: at work only as its own, queued only with a look before the next send (or by
\* the server's refusal), the look kept until it came out clean, waiting only as read before the
\* number was reserved, and maybe sent only where it is.
Kept(r, d) ==
    /\ d.state # "none"
    /\ d.state = "working" => d.owner = Mine(r).owner
    /\ d.state = "queued" => d.look \/ runs[r].pc = "smtp"
    /\ Mine(r).look => d.look \/ (runs[r].pc = "lookFirst" /\ LooksClean(r))
    /\ d.state = "waiting" =>
          /\ d.reason # "DRIVER_PENDING"
          /\ runs[r].pc \in {"snapshot", "prepare"}
          /\ d.stage = KeptStage(Mine(r))
    /\ d.state = "needs_attention" /\ d.reason = "MAYBE_SENT" =>
          \/ SendInFlight(d)
          \/ runs[r].pc \in {"searchAnswer", "searchSent"} /\ d.sending = Mine(r).sending /\ d.stage = Mine(r).stage

Wrote(r, d) == claims' = [claims EXCEPT ![LoadOf(r)] = d] /\ Kept(r, d)

\* A run goes on over its load, or waits to be closed; it never begins again.
Moves(r) ==
    \E q :
       /\ runs' = [runs EXCEPT ![r] = q]
       /\ q.pc \notin {"idle", "snapshot"} /\ q.load = LoadOf(r)
       /\ q.pc \in ToSend => runs[r].pc \in ToSend

\* Only a run that rendered for the claim it holds, with no look to be made, begins a send.
SendsOwn(r) ==
    \A l \in Loads : outbox'[l] > outbox[l] =>
       l = LoadOf(r) /\ Holds(r) /\ runs[r].pc = "render" /\ ~Mine(r).look

RunShape(r) ==
    /\ runs[r].pc # "idle" /\ Moves(r) /\ SendsOwn(r)
    /\ claims' = claims \/ (Holds(r) /\ \E d : Wrote(r, d))

\* The run ends.
LEMMA EndsShape ==
    ASSUME Core, NEW r \in Runs, runs[r].pc # "idle", Ends(r), UNCHANGED claims,
           SendsOwn(r)
    PROVE  RunShape(r)
  <1> DEFINE q == EndedRun(r)
  <1>1. runs' = [runs EXCEPT ![r] = q] /\ q.pc = "close" /\ q.load = LoadOf(r)
    <2>1. runs[r] \in RunRecord
      BY DEF Core, CoreTypeOK, RunTypeOK, RunRecord
    <2>2. q.pc = "close" /\ q.load = LoadOf(r)
      BY <2>1, TriggerAssumption DEF EndedRun, RunRecord, LoadOf
    <2> QED BY <2>2, EndedRunOK
  <1> HIDE DEF q
  <1>2. Moves(r)
    BY <1>1 DEF Moves, ToSend
  <1> QED BY <1>2 DEF RunShape

\* The run ends with a write to its claim.
LEMMA EndsWithShape ==
    ASSUME Core, NEW r \in Runs, runs[r].pc # "idle", Holds(r), NEW d, Kept(r, d), EndsWith(r, d),
           SendsOwn(r)
    PROVE  RunShape(r)
  <1> DEFINE q == EndedRun(r)
  <1>1. runs' = [runs EXCEPT ![r] = q] /\ q.pc = "close" /\ q.load = LoadOf(r)
    <2>1. runs[r] \in RunRecord
      BY DEF Core, CoreTypeOK, RunTypeOK, RunRecord
    <2>2. q.pc = "close" /\ q.load = LoadOf(r)
      BY <2>1, TriggerAssumption DEF EndedRun, RunRecord, LoadOf
    <2> QED BY <2>2, EndedRunOK DEF EndsWith
  <1> HIDE DEF q
  <1>2. Moves(r)
    BY <1>1 DEF Moves, ToSend
  <1>3. Wrote(r, d)
    BY DEF EndsWith, WriteClaim, Wrote
  <1> QED BY <1>2, <1>3 DEF RunShape

\* The run goes on.
LEMMA GoShape ==
    ASSUME Core, NEW r \in Runs, runs[r].pc # "idle",
           NEW pc \in PCs \ {"idle", "snapshot"}, pc \in ToSend => runs[r].pc \in ToSend, Go(r, pc)
    PROVE  Moves(r)
  <1> DEFINE q == [runs[r] EXCEPT !.pc = pc, !.num = IF pc = "append" THEN Mine(r).num ELSE 0]
  <1>1. runs[r] \in RunRecord
    BY DEF Core, CoreTypeOK, RunTypeOK, RunRecord
  <1>2. q.pc = pc /\ q.load = LoadOf(r)
    BY <1>1 DEF LoadOf, RunRecord
  <1>3. runs' = [runs EXCEPT ![r] = q]
    BY DEF Go
  <1> HIDE DEF q
  <1> QED BY <1>2, <1>3 DEF Moves

\* The run goes on, its claim and the outbox as they were.
LEMMA GoesShape ==
    ASSUME Core, NEW r \in Runs, runs[r].pc # "idle",
           NEW pc \in PCs \ {"idle", "snapshot"}, pc \in ToSend => runs[r].pc \in ToSend, Go(r, pc),
           UNCHANGED claims, SendsOwn(r)
    PROVE  RunShape(r)
  <1>1. Moves(r)
    BY GoShape
  <1> QED BY <1>1 DEF RunShape

\* The run writes its claim and goes on.
LEMMA WritesShape ==
    ASSUME Core, NEW r \in Runs, runs[r].pc # "idle", Holds(r),
           NEW d, Kept(r, d), NEW pc \in PCs \ {"idle", "snapshot"}, pc \in ToSend => runs[r].pc \in ToSend,
           Writes(r, d, pc), SendsOwn(r)
    PROVE  RunShape(r)
  <1>1. Moves(r)
    BY GoShape DEF Writes
  <1>2. Wrote(r, d)
    BY DEF Writes, WriteClaim, Wrote
  <1> QED BY <1>1, <1>2 DEF RunShape

\* No message is put on its way.
LEMMA NoSend ==
    ASSUME Core, NEW r,
           UNCHANGED outbox \/ \E k \in Loads : outbox' = [outbox EXCEPT ![k] = @ - 1]
    PROVE  SendsOwn(r)
  <1>1. outbox \in [Loads -> Nat]
    BY DEF Core, CoreTypeOK
  <1> QED BY <1>1 DEF SendsOwn

\* What each of the ledger's ways to leave a claim makes of what Kept reads.
LEMMA ReleaseFields ==
    ASSUME NEW c \in Claim, NEW state \in States, NEW reason \in Reasons
    PROVE  /\ Release(c, state, reason).state = state /\ Release(c, state, reason).reason = reason
           /\ Release(c, state, reason).stage = KeptStage(c) /\ (Release(c, state, reason).look <=> c.look)
           /\ Release(c, state, reason).sending = c.sending
  BY DEF Release, Unowned, Claim

\* And it is a claim.
LEMMA ReleaseInClaim ==
    ASSUME NEW c \in Claim, NEW state \in States, NEW reason \in Reasons
    PROVE  Release(c, state, reason) \in Claim
  <1>1. KeptStage(c) \in Stages
    BY DEF KeptStage, StagesBeforeAppend, Stages, Claim
  <1>2. Voids(c, state) \in BOOLEAN
    BY DEF Voids
  <1> QED BY <1>1, <1>2 DEF Release, Unowned, Claim

\* What a claim somebody drafted by hand, and one that is done, are.
LEMMA DoneFields ==
    ASSUME NEW c \in Claim
    PROVE  /\ SkipDraftedByHand(c).state = "skipped" /\ (SkipDraftedByHand(c).look <=> c.look)
           /\ Drafted(c).state = "drafted" /\ (Drafted(c).look <=> c.look)
  BY DEF SkipDraftedByHand, Drafted, Unowned, Claim

\* And one that goes back to the queue.
LEMMA RequeueFields ==
    ASSUME NEW c \in Claim, NEW stage \in Stages
    PROVE  Requeue(c, stage).state = "queued" /\ Requeue(c, stage).look /\ Requeue(c, stage).stage = stage
  BY TriggerAssumption DEF Requeue, Unowned, Claim

\* A claim given to a person or skipped is kept as it should be.
LEMMA ReleaseKept ==
    ASSUME NEW r, NEW c \in Claim, Mine(r).look => c.look,
           NEW state \in {"needs_attention", "skipped"}, NEW reason \in Reasons, reason = "MAYBE_SENT" => SendInFlight(c)
    PROVE  Kept(r, Release(c, state, reason))
  <1> DEFINE d == Release(c, state, reason)
  <1>1. d.state = state /\ d.reason = reason /\ d.stage = KeptStage(c) /\ d.sending = c.sending /\ (d.look <=> c.look)
    BY ReleaseFields DEF States
  <1>2. SendInFlight(c) => SendInFlight(d)
    BY <1>1 DEF SendInFlight, KeptStage, StagesBeforeAppend
  <1> HIDE DEF d
  <1>3. Kept(r, d)
    BY <1>1, <1>2 DEF Kept
  <1> QED BY <1>3 DEF d

\* So is one that waits, as the run read it.
LEMMA WaitKept ==
    ASSUME NEW r, Mine(r) \in Claim, runs[r].pc \in {"snapshot", "prepare"}, NEW reason \in Reasons, reason # "DRIVER_PENDING"
    PROVE  Kept(r, Release(Mine(r), "waiting", reason))
  <1> DEFINE c == Mine(r)  d == Release(c, "waiting", reason)
  <1>1. d.state = "waiting" /\ d.reason = reason /\ d.stage = KeptStage(c) /\ (d.look <=> c.look)
    BY ReleaseFields DEF States
  <1> HIDE DEF d
  <1>2. Kept(r, d)
    BY <1>1 DEF Kept
  <1> QED BY <1>2 DEF d

\* And one somebody drafted by hand, and one that is done.
LEMMA DoneKept ==
    ASSUME NEW r, NEW c \in Claim, Mine(r).look => c.look
    PROVE  Kept(r, SkipDraftedByHand(c)) /\ Kept(r, Drafted(c))
  <1> DEFINE d == SkipDraftedByHand(c)  e == Drafted(c)
  <1>1. d.state = "skipped" /\ (d.look <=> c.look) /\ e.state = "drafted" /\ (e.look <=> c.look)
    BY DoneFields
  <1> HIDE DEF d, e
  <1>2. Kept(r, d) /\ Kept(r, e)
    BY <1>1 DEF Kept
  <1> QED BY <1>2 DEF d, e

\* And one that goes back to the queue.
LEMMA RequeueKept ==
    ASSUME NEW r, NEW c \in Claim, NEW stage \in Stages PROVE Kept(r, Requeue(c, stage))
  <1> DEFINE d == Requeue(c, stage)
  <1>1. d.state = "queued" /\ d.look
    BY RequeueFields
  <1> HIDE DEF d
  <1>2. Kept(r, d)
    BY <1>1 DEF Kept
  <1> QED BY <1>2 DEF d

\* And one at work, its look kept.
LEMMA WorkingKept ==
    ASSUME NEW r, NEW d, d.state = "working", d.owner = Mine(r).owner, Mine(r).look => d.look
    PROVE  Kept(r, d)
  BY DEF Kept

\* A run that ends for now.
LEMMA TemporaryShape ==
    ASSUME Core, NEW r \in Runs, runs[r].pc # "idle", Holds(r), NEW c \in Claim, Mine(r).look => c.look,
           NEW counted, TemporaryEnd(r, c, counted), SendsOwn(r)
    PROVE  RunShape(r)
  <1>1. EndsWith(r, ToPerson(c))
    BY TriggerAssumption DEF TemporaryEnd
  <1>2. Kept(r, ToPerson(c))
    <2>1. CASE SendInFlight(c)
      BY <2>1, ReleaseKept DEF ToPerson, Reasons
    <2>2. CASE ~SendInFlight(c)
      BY <2>2, ReleaseKept DEF ToPerson, Reasons
    <2> QED BY <2>1, <2>2
  <1> QED BY <1>1, <1>2, EndsWithShape

\* Nothing settles in a trigger's run.
LEMMA NoSettling == ASSUME NEW r, NEW c PROVE ~Settles(r, c)
  BY TriggerAssumption DEF Settles

\* The snapshot, and what follows it.
LEMMA SnapshotShape ==
    ASSUME Core, NEW r \in Runs, LostRun(r) \/ SheetDown(r) \/ NotNow(r) \/ AfterSnapshot(r)
    PROVE  RunShape(r)
  <1>1. SendsOwn(r) /\ runs[r].pc # "idle"
    BY NoSend DEF LostRun, SheetDown, NotNow, AfterSnapshot, At, gmailVars
  <1>2. CASE LostRun(r)
    BY <1>1, <1>2, EndsShape DEF LostRun, ledgerVars
  <1>3. CASE SheetDown(r) \/ NotNow(r)
    <2>1. Holds(r) /\ Mine(r) \in Claim /\ TemporaryEnd(r, Mine(r), FALSE)
      BY <1>1, <1>3, HeldFacts DEF SheetDown, NotNow, At
    <2> QED BY <1>1, <2>1, TemporaryShape
  <1>4. CASE AfterSnapshot(r)
    <2> DEFINE c == Mine(r)  l == LoadOf(r)
    <2>1. runs[r].pc = "snapshot" /\ Holds(r) /\ c \in Claim
      BY <1>1, <1>4, HeldFacts DEF AfterSnapshot, At
    <2>2. CASE \E pc \in {"searchSent", "rebuild", "searchDraft", "prepare"} : Go(r, pc) /\ claims' = claims
      <3>1. PICK pc \in {"searchSent", "rebuild", "searchDraft", "prepare"} : Go(r, pc) /\ claims' = claims
        BY <2>2
      <3> QED BY <1>1, <2>1, <3>1, GoesShape DEF PCs, ToSend
    <2>3. CASE EndsWith(r, SkipDraftedByHand(c))
      BY <1>1, <2>1, <2>3, DoneKept, EndsWithShape
    <2>4. CASE \E v \in FreeVerdicts(l) : v[1] # "queued" /\ EndsWith(r, Release(c, IF v = <<"waiting", "OTHER">>
                                                                     THEN "needs_attention" ELSE v[1], v[2]))
      <3>1. PICK v \in FreeVerdicts(l) : v[1] # "queued" /\ EndsWith(r, Release(c, IF v = <<"waiting", "OTHER">>
                                                                     THEN "needs_attention" ELSE v[1], v[2]))
        BY <2>4
      <3> DEFINE state == IF v = <<"waiting", "OTHER">> THEN "needs_attention" ELSE v[1]
      <3>2. state \in {"needs_attention", "skipped", "waiting"} /\ v[2] \in {"OTHER", "NOT_COMPLETED"}
        BY <3>1 DEF FreeVerdicts
      <3> HIDE DEF state
      <3>3. Kept(r, Release(c, state, v[2]))
        <4>1. v[2] \in Reasons /\ v[2] # "MAYBE_SENT" /\ v[2] # "DRIVER_PENDING"
          BY <3>2 DEF Reasons
        <4>2. CASE state = "waiting"
          BY <2>1, <4>1, <4>2, WaitKept
        <4>3. CASE state # "waiting"
          BY <2>1, <3>2, <4>1, <4>3, ReleaseKept
        <4> QED BY <4>2, <4>3
      <3> QED BY <1>1, <2>1, <3>1, <3>3, EndsWithShape DEF state
    <2> QED
      <3>1. ~Settles(r, c)
        BY NoSettling
      <3>2. ASSUME NEW v \in FreeVerdicts(l), v[1] # "queued",
                   EndsWith(r, Release(c, IF TriggerMode /\ v = <<"waiting", "OTHER">>
                                          THEN "needs_attention" ELSE v[1], v[2]))
            PROVE  RunShape(r)
        BY <2>4, <3>2, TriggerAssumption
      <3>3. ASSUME NEW pc \in {"searchSent", "rebuild", "searchDraft", "prepare"}, Go(r, pc), claims' = claims
            PROVE  RunShape(r)
        BY <2>2, <3>3
      <3> QED BY <1>4, <2>3, <3>1, <3>2, <3>3 DEF AfterSnapshot
  <1> QED BY <1>2, <1>3, <1>4

\* A refusal by the engine.
LEMMA PrepareRefusedShape ==
    ASSUME Core, NEW r \in Runs, PrepareRefused(r) PROVE RunShape(r)
  <1> DEFINE c == Mine(r)
  <1>1. SendsOwn(r) /\ runs[r].pc = "prepare" /\ Holds(r) /\ c \in Claim
    BY NoSend, HeldFacts DEF PrepareRefused, At, gmailVars
  <1>2. CASE \E counted \in BOOLEAN : TemporaryEnd(r, c, counted)
    BY <1>1, <1>2, TemporaryShape
  <1>3. CASE EndsWith(r, Release(c, "needs_attention", "OTHER"))
    BY <1>1, <1>3, ReleaseKept, EndsWithShape DEF Reasons
  <1>4. CASE EndsWith(r, Release(c, "waiting", "NOT_COMPLETED"))
    BY <1>1, <1>4, WaitKept, EndsWithShape DEF Reasons
  <1> QED BY <1>2, <1>3, <1>4, TriggerAssumption DEF PrepareRefused

\* The reservation: the look stays, but for the one that came out clean over a load
\* nobody billed and no message went for.
LEMMA ReserveShape ==
    ASSUME Core, NEW r \in Runs, runs[r].pc \in {"prepare", "lookFirst"}, Holds(r), NEW c \in Claim,
           c.state = "working", c.owner = Mine(r).owner, SendsOwn(r),
           Mine(r).look => c.look \/ (runs[r].pc = "lookFirst" /\ LooksClean(r)),
           Reserve(r, c)
    PROVE  RunShape(r)
  <1> DEFINE l == LoadOf(r)
  <1>1. ASSUME NEW d, d.state = "skipped" \/ (d.state = "working" /\ d.owner = c.owner), d.look <=> c.look
        PROVE  Kept(r, d)
    BY <1>1 DEF Kept
  <1>2. CASE EndsWith(r, SkipDraftedByHand(c)) \/ EndsWith(r, Release(c, "skipped", "OTHER"))
    <2>1. Kept(r, SkipDraftedByHand(c))
      BY <1>1, DoneFields
    <2>2. Kept(r, Release(c, "skipped", "OTHER"))
      BY <1>1, ReleaseFields DEF States, Reasons
    <2> QED BY <1>2, <2>1, <2>2, EndsWithShape
  <1>3. CASE Writes(r, [c EXCEPT !.stage = IF @ = "" THEN "reserved" ELSE @], "render")
    <2> DEFINE d == [c EXCEPT !.stage = IF @ = "" THEN "reserved" ELSE @]
    <2>1. d.state = "working" /\ d.owner = c.owner /\ (d.look <=> c.look)
      BY DEF Claim
    <2> HIDE DEF d
    <2>2. Kept(r, d)
      BY <1>1, <2>1
    <2> QED BY <1>3, <2>2, WritesShape DEF d, PCs, ToSend
  <1>4. CASE \E n \in Numbers :
                /\ claims' = [claims EXCEPT ![l] = [c EXCEPT !.num = n, !.voided = FALSE, !.stage = "reserved"]]
                /\ Go(r, "render")
    <2>1. PICK n \in Numbers :
                /\ claims' = [claims EXCEPT ![l] = [c EXCEPT !.num = n, !.voided = FALSE, !.stage = "reserved"]]
                /\ Go(r, "render")
      BY <1>4
    <2> DEFINE d == [c EXCEPT !.num = n, !.voided = FALSE, !.stage = "reserved"]
    <2>2. d.state = "working" /\ d.owner = c.owner /\ (d.look <=> c.look)
      BY DEF Claim
    <2>3. claims' = [claims EXCEPT ![l] = d]
      BY <2>1
    <2> HIDE DEF d
    <2>4. Wrote(r, d)
      BY <1>1, <2>2, <2>3 DEF Wrote
    <2>5. Moves(r)
      BY <2>1, GoShape DEF PCs, ToSend
    <2> QED BY <2>4, <2>5 DEF RunShape
  <1> QED BY <1>2, <1>3, <1>4 DEF Reserve

\* The number is reserved, or looked before.
LEMMA PreparedShape ==
    ASSUME Core, NEW r \in Runs, Prepared(r) PROVE RunShape(r)
  <1>1. SendsOwn(r) /\ runs[r].pc = "prepare" /\ Holds(r) /\ Mine(r) \in Claim /\ Mine(r).state = "working"
    BY NoSend, HeldFacts DEF Prepared, At, gmailVars
  <1>2. CASE Go(r, "lookFirst") /\ UNCHANGED claims
    BY <1>1, <1>2, GoesShape DEF PCs, ToSend
  <1>3. CASE Reserve(r, Mine(r))
    BY <1>1, <1>3, ReserveShape
  <1> QED BY <1>2, <1>3 DEF Prepared

\* The look, with what it may come out as.
LEMMA LooksFirstShape ==
    ASSUME Core, NEW r \in Runs, LooksFirst(r) PROVE RunShape(r)
  <1>1. PICK clean \in BOOLEAN : LookedFirst(r, clean) /\ (clean => LooksClean(r))
    BY DEF LooksFirst, LooksClean
  <1>2. SendsOwn(r) /\ runs[r].pc = "lookFirst" /\ Holds(r) /\ Mine(r) \in Claim /\ Mine(r).state = "working"
    BY <1>1, NoSend, HeldFacts DEF LookedFirst, At, gmailVars
  <1>3. CASE clean
    <2> DEFINE c == [Mine(r) EXCEPT !.look = FALSE]
    <2>1. c \in Claim /\ c.state = "working" /\ c.owner = Mine(r).owner
      BY <1>2 DEF Claim
    <2>2. Reserve(r, c)
      BY <1>1, <1>3 DEF LookedFirst
    <2> HIDE DEF c
    <2> QED BY <1>1, <1>2, <1>3, <2>1, <2>2, ReserveShape
  <1>4. CASE ~clean
    BY <1>1, <1>2, <1>4, ReleaseKept, EndsWithShape DEF LookedFirst, Reasons
  <1> QED BY <1>3, <1>4

\* The render, and the last checks before Gmail.
LEMMA RenderedShape ==
    ASSUME Core, NEW r \in Runs, RenderFailed(r) \/ Rendered(r) PROVE RunShape(r)
  <1>1. runs[r].pc = "render" /\ Holds(r) /\ Mine(r) \in Claim /\ Mine(r).state = "working"
    BY HeldFacts DEF RenderFailed, Rendered, At
  <1>2. CASE RenderFailed(r)
    <2>1. SendsOwn(r)
      BY <1>2, NoSend DEF RenderFailed, gmailVars
    <2>2. CASE \E counted \in BOOLEAN : TemporaryEnd(r, Mine(r), counted)
      BY <1>1, <2>1, <2>2, TemporaryShape
    <2>3. CASE EndsWith(r, Release(Mine(r), "needs_attention", "OTHER"))
      BY <1>1, <2>1, <2>3, ReleaseKept, EndsWithShape DEF Reasons
    <2> QED BY <1>2, <2>2, <2>3 DEF RenderFailed
  <1>3. CASE Rendered(r)
    <2> DEFINE l == LoadOf(r)  c == [Mine(r) EXCEPT !.stage = "rendered"]
    <2>1. c \in Claim /\ c.state = "working" /\ c.owner = Mine(r).owner /\ (c.look <=> Mine(r).look)
      BY <1>1 DEF Claim, Stages
    <2>2. ~Settles(r, c)
      BY NoSettling
    <2>3. \/ EndsWith(r, SkipDraftedByHand(c)) /\ UNCHANGED outbox
          \/ EndsWith(r, Release(c, "skipped", "OTHER")) /\ UNCHANGED outbox
          \/ BeginSend(r, c)
          \/ SendRefused(r, c) /\ UNCHANGED outbox
          \/ Writes(r, [c EXCEPT !.stage = "appending", !.sending = FALSE], "append") /\ UNCHANGED outbox
      BY <1>3, <2>2 DEF Rendered
    <2> HIDE DEF c
    <2>4. CASE UNCHANGED outbox
      <3>1. SendsOwn(r)
        BY <2>4, NoSend
      <3>2. ASSUME EndsWith(r, SkipDraftedByHand(c)) PROVE RunShape(r)
        BY <1>1, <2>1, <3>1, <3>2, DoneKept, EndsWithShape
      <3>3. ASSUME NEW state \in {"needs_attention", "skipped"}, EndsWith(r, Release(c, state, "OTHER"))
            PROVE  RunShape(r)
        BY <1>1, <2>1, <3>1, <3>3, ReleaseKept, EndsWithShape DEF Reasons
      <3>4. ASSUME SendRefused(r, c) PROVE RunShape(r)
        <4>1. ASSUME TemporaryEnd(r, c, FALSE) PROVE RunShape(r)
          BY <1>1, <2>1, <3>1, <4>1, TemporaryShape
        <4>2. ASSUME EndsWith(r, [Release(c, "needs_attention", "OTHER") EXCEPT !.voided = TRUE]) PROVE RunShape(r)
          <5> DEFINE e == Release(c, "needs_attention", "OTHER")  d == [e EXCEPT !.voided = TRUE]
          <5>1. e.state = "needs_attention" /\ e.reason = "OTHER" /\ (e.look <=> c.look)
            BY <2>1, ReleaseFields DEF States, Reasons
          <5>2. e \in Claim
            BY <1>1, <2>1, ReleaseInClaim DEF States, Reasons
          <5> HIDE DEF e
          <5>3. d.state = "needs_attention" /\ d.reason = "OTHER" /\ (d.look <=> c.look)
            BY <5>1, <5>2 DEF Claim
          <5> HIDE DEF d
          <5>4. Kept(r, d)
            BY <2>1, <5>3 DEF Kept
          <5> QED BY <1>1, <3>1, <4>2, <5>4, EndsWithShape DEF d, e
        <4> QED BY <3>3, <3>4, <4>1, <4>2 DEF SendRefused
      <3>5. ASSUME Writes(r, [c EXCEPT !.stage = "appending", !.sending = FALSE], "append") PROVE RunShape(r)
        <4> DEFINE d == [c EXCEPT !.stage = "appending", !.sending = FALSE]
        <4>1. d.state = "working" /\ d.owner = c.owner /\ (d.look <=> c.look)
          BY <2>1 DEF Claim
        <4> HIDE DEF d
        <4>2. Kept(r, d)
          BY <2>1, <4>1, WorkingKept
        <4> QED BY <1>1, <3>1, <3>5, <4>2, WritesShape DEF d, PCs, ToSend
      <3>6. ASSUME BeginSend(r, c) PROVE FALSE
        <4>1. l \in Loads /\ outbox \in [Loads -> Nat]
          BY <1>1, HeldFacts DEF Core, CoreTypeOK
        <4> QED BY <2>4, <3>6, <4>1 DEF BeginSend
      <3> QED BY <2>3, <3>2, <3>3, <3>4, <3>5, <3>6
    <2>5. CASE BeginSend(r, c)
      <3> DEFINE d == [c EXCEPT !.stage = "appending", !.sending = TRUE, !.checks = 0]
      <3>1. d.state = "working" /\ d.owner = c.owner /\ (d.look <=> c.look)
        BY <2>1 DEF Claim
      <3>2. Writes(r, d, "smtp") /\ outbox' = [outbox EXCEPT ![l] = @ + 1] /\ ~c.look
        BY <2>5 DEF BeginSend
      <3> HIDE DEF d
      <3>3. Kept(r, d)
        BY <2>1, <3>1, WorkingKept
      <3>4. SendsOwn(r)
        BY <1>1, <2>1, <3>2 DEF SendsOwn, Core, CoreTypeOK
      <3> QED BY <1>1, <3>2, <3>3, <3>4, WritesShape DEF PCs, ToSend
    <2> QED BY <2>3, <2>4, <2>5
  <1> QED BY <1>2, <1>3

\* The claim at a new stage, or with a new way to go, and the rest as it was.
LEMMA StageFields ==
    ASSUME NEW c \in Claim, NEW stage \in Stages
    PROVE  /\ [c EXCEPT !.stage = stage] \in Claim
           /\ [c EXCEPT !.stage = stage].state = c.state /\ ([c EXCEPT !.stage = stage].look <=> c.look)
           /\ [c EXCEPT !.sending = TRUE, !.stage = stage].state = c.state
           /\ [c EXCEPT !.sending = TRUE, !.stage = stage].look <=> c.look
           /\ [c EXCEPT !.stage = stage].owner = c.owner /\ [c EXCEPT !.sending = TRUE, !.stage = stage].owner = c.owner
  BY DEF Claim

\* A claim that only moved a stage on is kept.
LEMMA StagedKept ==
    ASSUME NEW r, Mine(r) \in Claim, Mine(r).state = "working", NEW stage \in Stages
    PROVE  /\ Kept(r, [Mine(r) EXCEPT !.stage = stage])
           /\ Kept(r, [Mine(r) EXCEPT !.sending = TRUE, !.stage = stage])
  <1> DEFINE c == Mine(r)
             d == [c EXCEPT !.stage = stage]
             e == [c EXCEPT !.sending = TRUE, !.stage = stage]
  <1>1. c \in Claim /\ c.state = "working"
    OBVIOUS
  <1> HIDE DEF c
  <1>2. /\ d.state = "working" /\ d.owner = c.owner /\ (d.look <=> c.look)
        /\ e.state = "working" /\ e.owner = c.owner /\ (e.look <=> c.look)
    BY <1>1, StageFields
  <1> HIDE DEF d, e
  <1>3. Kept(r, d) /\ Kept(r, e)
    BY <1>2, WorkingKept DEF c
  <1> QED BY <1>3 DEF d, e, c

\* A claim left to a person as filed.
LEMMA LeftAppendedKept ==
    ASSUME NEW r, NEW c \in Claim, Mine(r).look => c.look
    PROVE  Kept(r, [Release(c, "needs_attention", "OTHER") EXCEPT !.stage = "appended"])
  <1> DEFINE e == Release(c, "needs_attention", "OTHER")  d == [e EXCEPT !.stage = "appended"]
  <1>1. e \in Claim /\ e.state = "needs_attention" /\ e.reason = "OTHER" /\ (e.look <=> c.look)
    BY ReleaseFields, ReleaseInClaim DEF States, Reasons
  <1> HIDE DEF e
  <1>2. d.state = "needs_attention" /\ d.reason = "OTHER" /\ (d.look <=> e.look)
    BY <1>1 DEF Claim
  <1> HIDE DEF d
  <1>3. Kept(r, d)
    BY <1>1, <1>2 DEF Kept
  <1> QED BY <1>3 DEF d, e

\* The append, and its answers.
LEMMA AppendShape ==
    ASSUME Core, NEW r \in Runs,
           Appended(r) \/ (\E landed \in BOOLEAN : AppendUnanswered(r, landed)) \/ AppendRefused(r)
    PROVE  RunShape(r)
  <1>1. SendsOwn(r) /\ runs[r].pc = "append"
    BY NoSend DEF Appended, AppendUnanswered, AppendRefused, gmailVars
  <1>2. Holds(r) => Mine(r) \in Claim /\ Mine(r).state = "working"
    BY <1>1, HeldFacts
  <1>3. CASE Ends(r) /\ UNCHANGED claims
    BY <1>1, <1>3, EndsShape
  <1>4. CASE Holds(r) /\ Appended(r)
    <2> DEFINE d == [Mine(r) EXCEPT !.stage = "appended"]
    <2>1. Kept(r, d)
      BY <1>2, <1>4, StagedKept DEF Stages
    <2>2. Writes(r, d, "record")
      BY <1>4 DEF Appended
    <2> HIDE DEF d
    <2> QED BY <1>1, <1>4, <2>1, <2>2, WritesShape DEF PCs, ToSend
  <1>5. CASE Holds(r) /\ \E landed \in BOOLEAN : AppendUnanswered(r, landed)
    <2>1. Go(r, "searchAppended") /\ UNCHANGED claims
      BY <1>5 DEF AppendUnanswered, ledgerVars
    <2> QED BY <1>1, <2>1, GoesShape DEF PCs, ToSend
  <1>6. CASE Holds(r) /\ AppendRefused(r)
    <2> DEFINE c == [Mine(r) EXCEPT !.stage = "reserved"]
    <2>1. c \in Claim /\ (c.look <=> Mine(r).look)
      BY <1>2, <1>6, StageFields DEF Stages
    <2>2. PICK counted \in BOOLEAN : TemporaryEnd(r, c, counted)
      BY <1>6 DEF AppendRefused
    <2> HIDE DEF c
    <2> QED BY <1>1, <1>6, <2>1, <2>2, TemporaryShape
  <1> QED BY <1>3, <1>4, <1>5, <1>6 DEF Appended, AppendUnanswered, AppendRefused, ledgerVars

\* The mailbox searched for a draft.
LEMMA LookedInGmailShape ==
    ASSUME Core, NEW r \in Runs, FoundInGmail(r) \/ GmailUnknown(r) \/ AbsentFromGmail(r)
    PROVE  RunShape(r)
  <1> DEFINE c == Mine(r)  d == [c EXCEPT !.stage = "appended"]  absent == [c EXCEPT !.stage = "reserved"]
  <1>1. /\ SendsOwn(r) /\ runs[r].pc \in {"searchDraft", "searchAppended", "searchLeft"} /\ Holds(r)
        /\ runs[r].pc # "idle" /\ c \in Claim /\ c.state = "working"
    BY NoSend, HeldFacts DEF FoundInGmail, GmailUnknown, AbsentFromGmail, At, gmailVars
  <1>2. Kept(r, d) /\ Kept(r, absent)
    BY <1>1, StagedKept DEF Stages
  <1>3. CASE FoundInGmail(r)
    <2>1. Writes(r, d, "record") \/ Writes(r, d, "rebuild")
      BY <1>3 DEF FoundInGmail
    <2> HIDE DEF d
    <2> QED BY <1>1, <1>2, <2>1, WritesShape DEF PCs, ToSend
  <1>4. CASE EndsWith(r, Release(c, "needs_attention", "OTHER"))
    BY <1>1, <1>4, ReleaseKept, EndsWithShape DEF Reasons
  <1>5. CASE AbsentFromGmail(r)
    <2>1. ~Settles(r, absent)
      BY NoSettling
    <2>2. ASSUME runs[r].pc = "searchDraft", Writes(r, absent, "prepare") PROVE RunShape(r)
      <3> HIDE DEF absent
      <3> QED BY <1>1, <1>2, <2>2, WritesShape DEF PCs, ToSend
    <2>3. ASSUME EndsWith(r, Requeue(c, "reserved")) PROVE RunShape(r)
      BY <1>1, <2>3, RequeueKept, EndsWithShape DEF Stages
    <2> QED BY <1>4, <1>5, <2>1, <2>2, <2>3, TriggerAssumption DEF AbsentFromGmail
  <1> QED BY <1>3, <1>4, <1>5 DEF GmailUnknown

\* The send's answers.
LEMMA SmtpShape ==
    ASSUME Core, NEW r \in Runs, SmtpAccepted(r) \/ SmtpRefused(r) \/ SmtpUnanswered(r)
    PROVE  RunShape(r)
  <1>1. runs[r].pc = "smtp" /\ LoadOf(r) \in Loads
    BY DEF SmtpAccepted, SmtpRefused, SmtpUnanswered, Core, CoreTypeOK, RunTypeOK, LoadOf
  <1>2. SendsOwn(r)
    BY <1>1, NoSend DEF SmtpAccepted, SmtpRefused, SmtpUnanswered, Deliver, gmailVars
  <1>3. Holds(r) => Mine(r) \in Claim /\ Mine(r).state = "working"
    BY <1>1, HeldFacts
  <1>4. CASE Ends(r) /\ UNCHANGED claims
    BY <1>1, <1>2, <1>4, EndsShape
  <1>5. CASE Holds(r) /\ Writes(r, [Mine(r) EXCEPT !.stage = "appended"], "record")
    <2> DEFINE d == [Mine(r) EXCEPT !.stage = "appended"]
    <2>1. Kept(r, d)
      BY <1>3, <1>5, StagedKept DEF Stages
    <2> HIDE DEF d
    <2> QED BY <1>1, <1>2, <1>5, <2>1, WritesShape DEF d, PCs, ToSend
  <1>6. CASE Holds(r) /\ EndsWith(r, [Unowned(Mine(r)) EXCEPT !.state = "queued", !.reason = "OTHER",
                                                              !.stage = "reserved", !.sending = FALSE])
    <2> DEFINE c == Mine(r)
               d == [Unowned(c) EXCEPT !.state = "queued", !.reason = "OTHER", !.stage = "reserved", !.sending = FALSE]
    <2>1. c \in Claim
      BY <1>3, <1>6
    <2> HIDE DEF c
    <2>2. d.state = "queued" /\ (d.look <=> c.look)
      BY <2>1 DEF Unowned, Claim
    <2> HIDE DEF d
    <2>3. Kept(r, d)
      BY <1>1, <2>2 DEF Kept, c
    <2> QED BY <1>1, <1>2, <1>6, <2>3, EndsWithShape DEF d, c
  <1>7. CASE Go(r, "searchAnswer") /\ UNCHANGED claims
    BY <1>1, <1>2, <1>7, GoesShape DEF PCs, ToSend
  <1> QED BY <1>4, <1>5, <1>6, <1>7 DEF SmtpAccepted, SmtpRefused, SmtpUnanswered

\* Sent Mail searched for a send.
LEMMA SearchedSentShape ==
    ASSUME Core, NEW r \in Runs, FoundInSent(r) \/ NotFoundInSent(r) PROVE RunShape(r)
  <1> DEFINE c == Mine(r)
  <1>1. /\ SendsOwn(r) /\ runs[r].pc \in {"searchAnswer", "searchSent"} /\ Holds(r)
        /\ runs[r].pc # "idle" /\ c \in Claim /\ c.state = "working"
    BY NoSend, HeldFacts DEF FoundInSent, NotFoundInSent, At, gmailVars
  <1>2. CASE FoundInSent(r)
    <2> DEFINE d == [c EXCEPT !.stage = "appended"]
    <2>1. Kept(r, d)
      BY <1>1, StagedKept DEF Stages
    <2>2. Writes(r, d, "record") \/ Writes(r, d, "rebuild")
      BY <1>2 DEF FoundInSent
    <2> HIDE DEF d
    <2> QED BY <1>1, <2>1, <2>2, WritesShape DEF PCs, ToSend
  <1>3. CASE NotFoundInSent(r)
    <2> DEFINE searched == [Unowned(c) EXCEPT !.checks = IF @ < SearchLimit THEN @ + 1 ELSE @]
               d == [searched EXCEPT !.state = "needs_attention", !.reason = "MAYBE_SENT"]
    <2>1. EndsWith(r, d)
      BY <1>3, TriggerAssumption DEF NotFoundInSent
    <2> HIDE DEF c
    <2>2. d.state = "needs_attention" /\ (d.look <=> c.look) /\ d.sending = c.sending /\ d.stage = c.stage
      BY <1>1 DEF Unowned, Claim
    <2> HIDE DEF d
    <2>3. Kept(r, d)
      BY <1>1, <2>2 DEF Kept, c
    <2> QED BY <1>1, <2>1, <2>3, EndsWithShape
  <1> QED BY <1>2, <1>3

\* The record, and the look for a send whose commit was lost.
LEMMA RecordShape ==
    ASSUME Core, NEW r \in Runs,
           \/ Rebuilt(r) \/ NotRebuilt(r) \/ RebuildThrew(r) \/ Finished(r)
           \/ (\E written \in BOOLEAN : Recorded(r, written)) \/ LooksInSent(r)
    PROVE  RunShape(r)
  <1> DEFINE c == Mine(r)
  <1>1. /\ SendsOwn(r) /\ runs[r].pc # "idle" /\ Holds(r) /\ c \in Claim /\ c.state = "working"
    BY NoSend, HeldFacts DEF Rebuilt, NotRebuilt, RebuildThrew, Finished, Recorded, LooksInSent, LostSendLooked, At, gmailVars
  <1>2. CASE Ends(r) /\ UNCHANGED claims
    BY <1>1, <1>2, EndsShape
  <1>3. CASE \E pc \in {"record", "finish"} : Go(r, pc) /\ UNCHANGED claims
    BY <1>1, <1>3, GoesShape DEF PCs, ToSend
  <1>4. CASE EndsWith(r, Drafted(c))
    BY <1>1, <1>4, DoneKept, EndsWithShape
  <1>5. CASE EndsWith(r, [Release(c, "needs_attention", "OTHER") EXCEPT !.stage = "appended"])
    BY <1>1, <1>5, LeftAppendedKept, EndsWithShape
  <1>6. CASE LooksInSent(r)
    <2> DEFINE d == [c EXCEPT !.sending = TRUE, !.stage = "appended"]
    <2>1. \/ Writes(r, d, "rebuild")
          \/ EndsWith(r, Requeue(c, KeptStage(c)))
          \/ EndsWith(r, Release(c, "needs_attention", "OTHER"))
      BY <1>6 DEF LooksInSent, LostSendLooked
    <2>2. Kept(r, d)
      BY <1>1, StagedKept DEF Stages
    <2>3. KeptStage(c) \in Stages
      BY <1>1 DEF KeptStage, StagesBeforeAppend, Stages, Claim
    <2>4. Kept(r, Requeue(c, KeptStage(c)))
      BY <1>1, <2>3, RequeueKept
    <2>5. Kept(r, Release(c, "needs_attention", "OTHER"))
      BY <1>1, ReleaseKept DEF Reasons
    <2> HIDE DEF d
    <2> QED BY <1>1, <2>1, <2>2, <2>4, <2>5, WritesShape, EndsWithShape DEF PCs, ToSend
  <1> QED BY <1>2, <1>3, <1>4, <1>5, <1>6, TriggerAssumption
          DEF Rebuilt, NotRebuilt, RebuildThrew, Finished, Recorded, ledgerVars

\* Every step of a run.
LEMMA RunStepShape ==
    ASSUME Core, NEW r \in Runs, RunStep(r) \/ LooksFirst(r) \/ LooksInSent(r) PROVE RunShape(r)
  <1>1. CASE LostRun(r) \/ SheetDown(r) \/ NotNow(r) \/ AfterSnapshot(r) \/ PrepareRefused(r) \/ Prepared(r)
             \/ LooksFirst(r) \/ RenderFailed(r) \/ Rendered(r)
    BY <1>1, SnapshotShape, PrepareRefusedShape, PreparedShape, LooksFirstShape, RenderedShape
  <1>2. CASE \/ Appended(r) \/ (\E landed \in BOOLEAN : AppendUnanswered(r, landed)) \/ AppendRefused(r)
             \/ FoundInGmail(r) \/ GmailUnknown(r) \/ AbsentFromGmail(r)
             \/ SmtpAccepted(r) \/ SmtpRefused(r) \/ SmtpUnanswered(r)
    BY <1>2, AppendShape, LookedInGmailShape, SmtpShape
  <1>3. CASE \/ FoundInSent(r) \/ NotFoundInSent(r) \/ Rebuilt(r) \/ NotRebuilt(r) \/ RebuildThrew(r) \/ Finished(r)
             \/ (\E written \in BOOLEAN : Recorded(r, written)) \/ LooksInSent(r)
    BY <1>3, SearchedSentShape, RecordShape
  <1> QED BY <1>1, <1>2, <1>3 DEF RunStep

-----------------------------------------------------------------------------
(* Types, and at most one email: the invariant. *)

\* The trigger's own variables.
OutsideOK ==
    /\ line \in Runs \cup {NoRun}
    /\ counts \in [Loads -> 0..(RunsPerLine + 1)]
    /\ taps \in [Taps -> [pc : {"idle", "writing", "settling"}, load : Loads \cup {NoLoad}]]
    /\ up \in BOOLEAN /\ first \in BOOLEAN
    /\ restarts \in 0..MaxRestarts
    /\ billed \subseteq Loads /\ asked \subseteq Loads

\* The line waits for a run at work, nothing is at work while the process is down, and a tap at
\* work has its load.
LineInv ==
    /\ line # NoRun => runs[line].pc # "idle"
    /\ ~up => (\A r \in Runs : runs[r].pc = "idle") /\ \A t \in Taps : taps[t].pc = "idle"
    /\ first => ~up
    /\ \A t \in Taps : taps[t].pc = "idle" <=> taps[t].load = NoLoad

\* A claim a run may still come to.
Pending(c) == c.state \in {"queued", "working"} \/ (c.state = "waiting" /\ c.reason = "DRIVER_PENDING")

\* What may still run was asked for. Before the first start there is only what the sweep left,
\* which no tap asked for and no message went for.
AskedInv ==
    /\ first => \A l \in Loads : claims[l].reason # "DRIVER_PENDING" /\ claims[l].stage = ""
    /\ ~first => \A l \in Loads : Pending(claims[l]) => l \in asked
    /\ \A t \in Taps : taps[t].pc # "idle" => taps[t].load \in asked

\* The loads Gmail knows more of than their claims do: a person billed them, or the box lost power
\* over a send that went.
Forgotten == {l \in Loads : delivered[l] > 0 /\ ~ClaimSent(claims[l])}

Wary == billed \cup Forgotten

\* Such a load is queued, tapped or built again only with a look to be made.
Looked(l) ==
    /\ claims[l].state # "none"
    /\ up /\ claims[l].state = "queued" => claims[l].look
    /\ claims[l].state = "waiting" /\ (\E t \in Taps : taps[t].pc # "idle" /\ taps[t].load = l) => claims[l].look
    /\ \A r \in Runs : runs[r].pc \in ToSend /\ LoadOf(r) = l /\ Holds(r) => claims[l].look

BilledInv == \A l \in Wary : Looked(l)

\* The inductive invariant: the types and the core need the looks, which keep a claim that forgot
\* its send from a second one.
IInv == TypeOK /\ CoreInv /\ LineInv
AInv == IInv /\ AskedInv /\ BilledInv

\* IInv, cut as InvoiceProofs cuts it.
LEMMA TypesAreParts == TypeOK <=> CoreTypeOK /\ RestTypeOK /\ PressTypeOK /\ OutsideOK
  BY DEF TypeOK, CoreTypeOK, RestTypeOK, LedgerTypeOK, OutsideOK

\* What the sweep left has no number and no run.
LEMMA SweptClaimsOK ==
    ASSUME NEW c \in SweptClaims
    PROVE  /\ c \in Claim /\ c.stage = "" /\ c.num = 0 /\ c.voided = FALSE /\ c.sending = FALSE
           /\ c.state \in {"none", "waiting", "queued", "needs_attention"} /\ c.owner = NoRun
           /\ c.reason \in {"OTHER", "OFF_GAP"} /\ ~c.look
  <1>1. ASSUME NEW state \in States, NEW reason \in Reasons
        PROVE  NewClaim(state, reason) \in Claim /\ NewClaim(state, reason) = [NoClaim EXCEPT !.state = state, !.reason = reason]
    BY DEF NewClaim, NoClaim, Claim, Stages
  <1>2. NoClaim \in Claim /\ NoClaim.stage = "" /\ NoClaim.num = 0 /\ NoClaim.voided = FALSE
        /\ NoClaim.sending = FALSE /\ NoClaim.owner = NoRun /\ ~NoClaim.look /\ NoClaim.state = "none"
        /\ NoClaim.reason = "OTHER"
    BY DEF NoClaim, Claim, States, Stages, Reasons
  <1>3. CASE c = NoClaim
    BY <1>2, <1>3
  <1>4. CASE c \in {NewClaim("waiting", "OTHER"), NewClaim("queued", "OTHER"), NewClaim("needs_attention", "OFF_GAP")}
    <2>1. PICK state \in {"waiting", "queued", "needs_attention"}, reason \in {"OTHER", "OFF_GAP"} :
             c = NewClaim(state, reason)
      BY <1>4
    <2>2. c \in Claim /\ c = [NoClaim EXCEPT !.state = state, !.reason = reason]
      BY <1>1, <2>1 DEF States, Reasons
    <2> QED BY <2>2 DEF NoClaim
  <1> QED BY <1>3, <1>4 DEF SweptClaims

\* Nothing is filed, sent or at work at first.
LEMMA InitInv == Init => IInv
  <1> SUFFICES ASSUME Init PROVE IInv
    OBVIOUS
  <1> USE DEF Init, NothingElseYet, RunInit, PressInit
  <1>1. ASSUME NEW l \in Loads
        PROVE  claims[l] \in Claim /\ claims[l].stage = "" /\ claims[l].voided = FALSE
    BY SweptClaimsOK
  <1>2. CoreTypeOK
    <2>1. RunTypeOK
      BY LedgerAssumption DEF RunTypeOK, IdleRun, PCs
    <2>2. outbox \in [Loads -> Nat] /\ delivered \in [Loads -> Nat] /\ claims \in [Loads -> Claim]
      BY <1>1
    <2> QED BY <2>1, <2>2 DEF CoreTypeOK
  <1>3. RestTypeOK
    <2>1. seq \in 0..MaxNumber
      BY LedgerAssumption
    <2>2. copies \in [Numbers -> Nat] /\ marker \in [Loads -> {"clear", "factored", "locked"}] /\ stop \in BOOLEAN
          /\ rows = {} /\ inflight = {} /\ sent = {} /\ handFiled = {}
      OBVIOUS
    <2> QED BY <2>1, <2>2 DEF RestTypeOK
  <1>4. PressTypeOK
    BY LedgerAssumption DEF PressTypeOK, IdlePress
  <1>5. OutsideOK
    <2>1. 0 \in 0..(RunsPerLine + 1) /\ 0 \in 0..MaxRestarts
      BY TriggerAssumption
    <2>2. /\ line = NoRun /\ counts = [l \in Loads |-> 0] /\ taps = [t \in Taps |-> IdleTap]
          /\ up = FALSE /\ first = TRUE /\ restarts = 0 /\ billed = {} /\ asked = {}
      OBVIOUS
    <2>3. taps \in [Taps -> [pc : {"idle", "writing", "settling"}, load : Loads \cup {NoLoad}]]
      BY <2>2 DEF IdleTap
    <2> QED BY <2>1, <2>2, <2>3 DEF OutsideOK
  <1>6. TransitKnown
    <2> SUFFICES ASSUME NEW l \in Loads
                 PROVE  /\ outbox[l] + delivered[l] <= 1
                        /\ outbox[l] > 0 => ClaimSent(claims[l])
                        /\ Numbered(claims[l])
      BY DEF TransitKnown
    <2>1. outbox[l] = 0 /\ delivered[l] = 0
      OBVIOUS
    <2>2. outbox[l] + delivered[l] <= 1 /\ ~(outbox[l] > 0)
      BY <2>1
    <2>3. Numbered(claims[l])
      BY <1>1 DEF Numbered
    <2> QED BY <2>2, <2>3
  <1>7. RunsMatchClaims /\ OneAtSmtp
    BY DEF RunsMatchClaims, OneAtSmtp, IdleRun
  <1>8. LineInv
    BY DEF LineInv, IdleRun, IdleTap
  <1> QED BY <1>2, <1>3, <1>4, <1>5, <1>6, <1>7, <1>8, TypesAreParts DEF IInv, CoreInv

-----------------------------------------------------------------------------
(* The trigger's own steps keep the types and CoreInv. *)

\* The look for a send whose commit was lost.
LEMMA LostSendLookedKeeps ==
    ASSUME Core, RestTypeOK, NEW r \in Runs, NEW seen, LostSendLooked(r, seen) PROVE RunKeeps
  <1> DEFINE c == Mine(r)
  <1>1. runs[r].pc = "searchLost" /\ runs[r].pc # "idle" /\ Holds(r) /\ UNCHANGED <<outbox, delivered>>
    BY DEF LostSendLooked, At, gmailVars
  <1>2. /\ c \in Claim /\ Numbered(c) /\ c.state = "working" /\ c.owner = r /\ c.num # 0
        /\ SafeAfter(c, c)
    BY <1>1, HeldFacts DEF RunFits
  <1>3. CASE Writes(r, [c EXCEPT !.sending = TRUE, !.stage = "appended"], "rebuild")
    <2> DEFINE d == [c EXCEPT !.sending = TRUE, !.stage = "appended"]
    <2>1. /\ d \in Claim /\ d.state = c.state /\ d.num = c.num /\ d.stage = "appended" /\ d.sending = TRUE
          /\ d.owner = c.owner
      BY <1>2 DEF Claim, Stages
    <2>2. SafeAfter(c, d) /\ RunFits("rebuild", d)
      BY <1>2, <2>1 DEF SafeAfter, Numbered, ClaimSent, RunFits
    <2>3. Writes(r, d, "rebuild")
      BY <1>3
    <2> HIDE DEF d
    <2>4. CoreKept
      BY <1>1, <1>2, <2>1, <2>2, <2>3, WritesKeeps DEF PCs
    <2> QED BY <2>4 DEF RunKeeps, RestTypeOK, LostSendLooked, sharedVars, gmailVars
  <1>4. CASE EndsWith(r, Requeue(c, KeptStage(c)))
    <2> DEFINE d == Requeue(c, KeptStage(c))
    <2>1. KeptStage(c) \in Stages /\ (KeptStage(c) # "" => c.num # 0) /\ (ClaimSent(c) => KeptStage(c) = c.stage)
      BY <1>2 DEF KeptStage, StagesBeforeAppend, Stages, ClaimSent, Claim
    <2>2. SafeAfter(c, d) /\ d.owner = NoRun
      BY <1>2, <2>1, RequeueSafe
    <2>3. EndsWith(r, d)
      BY <1>4
    <2> HIDE DEF d
    <2>4. CoreKept
      BY <1>1, <2>2, <2>3, EndsWithKeeps
    <2> QED BY <2>4 DEF RunKeeps, RestTypeOK, LostSendLooked, sharedVars, gmailVars
  <1>5. CASE EndsWith(r, Release(c, "needs_attention", "OTHER"))
    <2>1. CoreKept
      BY <1>1, <1>2, <1>5, ReleaseKeeps DEF States, Reasons
    <2> QED BY <2>1 DEF RunKeeps, RestTypeOK, LostSendLooked, sharedVars, gmailVars
  <1> QED BY <1>3, <1>4, <1>5 DEF LostSendLooked

\* Every step of a run, the trigger's own too.
LEMMA RunKept ==
    ASSUME Core, RestTypeOK, NEW r \in Runs, SendsOnce(r), RunStep(r) \/ LooksFirst(r) \/ LooksInSent(r) PROVE RunKeeps
  BY RunStepKeeps, LookedFirstKeeps, LostSendLookedKeeps DEF LooksFirst, LooksInSent

\* Past its limit: a person takes what the run still holds.
LEMMA RunLimitKeeps ==
    ASSUME Core, RestTypeOK, NEW r \in Runs, runs[r].pc # "idle", RunLimit(r) PROVE RunKeeps
  <1>1. UNCHANGED <<runs, outbox, delivered>>
    BY DEF RunLimit, gmailVars
  <1>2. CASE Holds(r)
    <2> DEFINE l == LoadOf(r)  c == claims[l]
    <2>1. l \in Loads /\ c \in Claim /\ Numbered(c) /\ c.state # "none" /\ c = Mine(r)
      BY <1>2, HeldFacts
    <2>2. SafeAfter(c, ToPerson(c)) /\ ToPerson(c).owner = NoRun
      BY <2>1, ToPersonSafe
    <2>3. WriteClaim(l, ToPerson(c)) /\ stop' = (stop \/ SendInFlight(c))
      BY <1>2, <2>1 DEF RunLimit, CloseRun
    <2> HIDE DEF c, l
    <2>4. CoreKept
      BY <1>1, <2>1, <2>2, <2>3, PlainWrite DEF c
    <2>5. stop' \in BOOLEAN
      BY <2>3 DEF RestTypeOK, SendInFlight
    <2> QED BY <2>4, <2>5 DEF RunKeeps, RestTypeOK, RunLimit, sharedVars, gmailVars
  <1>3. CASE ~Holds(r)
    <2>1. UNCHANGED <<claims, givenUp, stop>>
      BY <1>3 DEF RunLimit, CloseRun
    <2>2. CoreKept
      BY <1>1, <2>1, CoreStutter DEF Core, CoreTypeOK
    <2> QED BY <2>1, <2>2 DEF RunKeeps, RestTypeOK, RunLimit, sharedVars, gmailVars
  <1> QED BY <1>2, <1>3

\* A run that is over is closed.
LEMMA RunOverKeeps ==
    ASSUME Core, RestTypeOK, NEW r \in Runs, RunOver(r) PROVE RunKeeps
  <1>1. /\ runs[r].pc = "close" /\ runs[r].pc # "idle" /\ runs' = [runs EXCEPT ![r] = IdleRun]
        /\ UNCHANGED <<outbox, delivered>>
    BY DEF RunOver, gmailVars
  <1>2. RunOK(IdleRun) /\ IdleRun.pc = "idle"
    BY DEF RunOK, RunRecord, IdleRun, PCs
  <1>3. CASE line = r /\ Holds(r)
    <2> DEFINE c == Mine(r)
    <2>1. c \in Claim /\ Numbered(c) /\ c.state # "none"
      BY <1>1, <1>3, HeldFacts
    <2>2. SafeAfter(c, ToPerson(c)) /\ ToPerson(c).owner = NoRun
      BY <2>1, ToPersonSafe
    <2>3. WriteClaim(LoadOf(r), ToPerson(c)) /\ stop' = (stop \/ SendInFlight(c))
      BY <1>3 DEF RunOver, CloseRun
    <2>4. claims' = [claims EXCEPT ![LoadOf(r)] = ToPerson(c)] /\ givenUp' \subseteq Numbers
      BY <2>2, <2>3, WriteClaimOK
    <2>5. stop' \in BOOLEAN
      BY <2>3 DEF RestTypeOK, SendInFlight
    <2>6. CoreKept
      BY <1>1, <1>2, <1>3, <2>2, <2>4, RunWrite
    <2> QED BY <2>5, <2>6 DEF RunKeeps, RestTypeOK, RunOver, sharedVars, gmailVars
  <1>4. CASE ~(line = r /\ Holds(r))
    <2>1. UNCHANGED <<claims, givenUp, stop>>
      BY <1>4 DEF RunOver, CloseRun
    <2>2. CoreKept
      BY <1>1, <1>2, <2>1, RunMove
    <2> QED BY <2>1, <2>2 DEF RunKeeps, RestTypeOK, RunOver, sharedVars, gmailVars
  <1> QED BY <1>3, <1>4

\* A claim written by somebody who is no run, and left to none.
LEMMA PlainKeeps ==
    ASSUME Core, RestTypeOK, NEW l \in Loads, NEW d, SafeAfter(claims[l], d),
           d.state # "working" \/ d.owner = NoRun, WriteClaim(l, d),
           UNCHANGED <<runs, sharedVars, gmailVars>>, stop' \in BOOLEAN
    PROVE  RunKeeps
  <1>1. CoreKept
    BY PlainWrite DEF gmailVars
  <1> QED BY <1>1 DEF RunKeeps, RestTypeOK, sharedVars, gmailVars

\* A claim left to a person as a restart, or a run too many, leaves it.
Left(c) == [Unowned(c) EXCEPT !.state = "needs_attention", !.reason = "OTHER", !.stage = KeptStage(c)]

LEMMA LeftFields ==
    ASSUME NEW c \in Claim, Numbered(c), c.state # "none"
    PROVE  /\ SafeAfter(c, Left(c)) /\ Left(c) \in Claim /\ Left(c).owner = NoRun
           /\ Left(c).state = "needs_attention" /\ Left(c).reason = "OTHER" /\ Left(c).stage = KeptStage(c)
           /\ Left(c).num = c.num /\ Left(c).sending = c.sending /\ Left(c).voided = c.voided
           /\ (Left(c).look <=> c.look)
  <1>1. KeptStage(c) \in Stages /\ (KeptStage(c) # "" => c.num # 0) /\ (ClaimSent(c) => KeptStage(c) = c.stage)
    BY DEF KeptStage, StagesBeforeAppend, Stages, ClaimSent, Claim, Numbered
  <1> DEFINE d == Left(c)
  <1>2. /\ d \in Claim /\ d.owner = NoRun /\ d.state = "needs_attention" /\ d.reason = "OTHER"
        /\ d.stage = KeptStage(c) /\ d.num = c.num /\ d.sending = c.sending /\ d.voided = c.voided
        /\ (d.look <=> c.look)
    BY <1>1 DEF Left, Unowned, Claim, States, Reasons
  <1>3. SafeAfter(c, d)
    BY <1>1, <1>2 DEF SafeAfter, Numbered, ClaimSent
  <1> QED BY <1>2, <1>3

\* The line takes over a claim to search for or record, or a person takes it.
LEMMA LineHeldKeeps ==
    ASSUME Core, RestTypeOK, NEW r \in Runs, NEW l \in Loads, LineHeld(r, l) PROVE RunKeeps
  <1>1. CASE TakeOver(r, l)
    BY <1>1, RecoverKeeps DEF TakeOver
  <1>2. CASE WriteClaim(l, ToPerson(claims[l])) /\ stop' = (stop \/ SendInFlight(claims[l]))
             /\ UNCHANGED <<line, runs, sharedVars, gmailVars>>
    <2>1. claims[l] \in Claim /\ Numbered(claims[l]) /\ claims[l].state # "none"
      BY DEF LineHeld, Held, Core, CoreTypeOK, CoreInv, TransitKnown
    <2>2. SafeAfter(claims[l], ToPerson(claims[l])) /\ ToPerson(claims[l]).owner = NoRun
      BY <2>1, ToPersonSafe
    <2>3. stop' \in BOOLEAN
      BY <1>2 DEF RestTypeOK, SendInFlight
    <2> QED BY <1>2, <2>2, <2>3, PlainKeeps
  <1> QED BY <1>1, <1>2 DEF LineHeld

\* The line takes the next claim due, or a person does.
LEMMA LineTakesKeeps ==
    ASSUME Core, RestTypeOK, NEW r \in Runs, NEW l \in Loads, LineTakes(r, l) PROVE RunKeeps
  <1>1. CASE Lease(r, l)
    BY <1>1, LeaseKeeps
  <1>2. CASE WriteClaim(l, Left(claims[l])) /\ UNCHANGED <<line, runs, sharedVars, stop, gmailVars>>
    <2>1. claims[l] \in Claim /\ Numbered(claims[l]) /\ claims[l].state # "none"
      BY DEF LineTakes, Due, Core, CoreTypeOK, CoreInv, TransitKnown
    <2>2. SafeAfter(claims[l], Left(claims[l])) /\ Left(claims[l]).owner = NoRun
      BY <2>1, LeftFields
    <2>3. stop' \in BOOLEAN
      BY <1>2 DEF RestTypeOK
    <2> QED BY <1>2, <2>2, <2>3, PlainKeeps
  <1> QED BY <1>1, <1>2 DEF LineTakes, Left

\* What the start makes of a claim.
LEMMA StartedUpFields ==
    ASSUME NEW c \in Claim, Numbered(c), NEW stale \in BOOLEAN
    PROVE  \/ /\ StartUpPlan(c, stale) = "none" /\ StartedUp(c, stale) = c
              /\ c.state \notin {"queued", "working"}
           \/ StartUpPlan(c, stale) = "person" /\ StartedUp(c, stale) = Left(c) /\ c.state \in {"working", "queued", "waiting"}
           \/ /\ StartUpPlan(c, stale) = "recover" /\ c.state \in {"working", "queued"}
              /\ StartedUp(c, stale) = [c EXCEPT !.state = "working", !.owner = NoRun, !.expired = TRUE]
           \/ /\ StartUpPlan(c, stale) = "queue" /\ c.state \in {"working", "queued", "waiting"}
              /\ StartedUp(c, stale) = [Unowned(c) EXCEPT !.state = "queued", !.reason = "OTHER", !.look = TRUE]
  <1>1. \/ StartUpPlan(c, stale) = "none" /\ c.state \notin {"queued", "working"}
        \/ StartUpPlan(c, stale) = "person" /\ c.state \in {"working", "queued", "waiting"}
        \/ StartUpPlan(c, stale) = "recover" /\ c.state \in {"working", "queued"}
        \/ StartUpPlan(c, stale) = "queue" /\ c.state \in {"working", "queued", "waiting"}
    <2>1. CASE c.state \notin {"working", "queued", "waiting"}
      <3>1. StartUpPlan(c, stale) = "none"
        BY <2>1 DEF StartUpPlan
      <3> QED BY <2>1, <3>1
    <2>2. CASE c.state = "waiting"
      BY <2>2 DEF StartUpPlan
    <2>3. CASE c.state \in {"working", "queued"} /\ Went(c)
      BY <2>3 DEF StartUpPlan
    <2>4. CASE c.state \in {"working", "queued"} /\ ~Went(c) /\ c.stage = "appending" /\ ~c.sending
      BY <2>4 DEF StartUpPlan
    <2>5. CASE c.state \in {"working", "queued"} /\ ~Went(c) /\ ~(c.stage = "appending" /\ ~c.sending)
      BY <2>5 DEF StartUpPlan
    <2> QED BY <2>1, <2>2, <2>3, <2>4, <2>5
  <1> QED BY <1>1 DEF StartedUp, Left

\* It forgets no send and leaves no claim to a run.
LEMMA StartedUpSafe ==
    ASSUME NEW c \in Claim, Numbered(c), NEW stale \in BOOLEAN, NEW d, d = StartedUp(c, stale)
    PROVE  /\ d \in Claim /\ Numbered(d) /\ (ClaimSent(c) => ClaimSent(d))
           /\ d.state # "working" \/ d.owner = NoRun
           /\ d.num = c.num /\ d.voided = c.voided /\ d.sending = c.sending
  <1>1. CASE StartedUp(c, stale) = c /\ c.state \notin {"queued", "working"}
    BY <1>1
  <1>2. CASE StartedUp(c, stale) = Left(c) /\ c.state \in {"working", "queued", "waiting"}
    BY <1>2, LeftFields DEF SafeAfter
  <1>3. CASE StartedUp(c, stale) = [c EXCEPT !.state = "working", !.owner = NoRun, !.expired = TRUE]
    <2>1. /\ d \in Claim /\ d.state = "working" /\ d.owner = NoRun /\ d.num = c.num /\ d.stage = c.stage
          /\ d.voided = c.voided /\ d.sending = c.sending
      BY <1>3 DEF Claim, States
    <2> QED BY <2>1 DEF Numbered, ClaimSent
  <1>4. CASE StartedUp(c, stale) = [Unowned(c) EXCEPT !.state = "queued", !.reason = "OTHER", !.look = TRUE]
    <2>1. /\ d \in Claim /\ d.state = "queued" /\ d.num = c.num /\ d.stage = c.stage
          /\ d.voided = c.voided /\ d.sending = c.sending
      BY <1>4 DEF Claim, States, Reasons, Unowned
    <2> QED BY <2>1 DEF Numbered, ClaimSent
  <1> QED BY <1>1, <1>2, <1>3, <1>4, StartedUpFields

\* Every claim is written at once, and none left to a run.
LEMMA AllWritten ==
    ASSUME Core, UNCHANGED <<runs, givenUp, outbox, delivered>>, claims' \in [Loads -> Claim],
           \A l \in Loads : /\ Numbered(claims'[l])
                            /\ ClaimSent(claims[l]) => ClaimSent(claims'[l])
                            /\ claims'[l].state # "working" \/ claims'[l].owner = NoRun
    PROVE  CoreKept
  <1>1. CoreTypeOK'
    BY DEF Core, CoreTypeOK, RunTypeOK
  <1>2. TransitKnown'
    BY DEF Core, CoreTypeOK, CoreInv, TransitKnown
  <1>3. RunsMatchClaims'
    <2> SUFFICES ASSUME NEW p \in Runs, runs[p].pc # "idle", Holds(p)' PROVE FALSE
      BY DEF RunsMatchClaims, Mine, LoadOf
    <2>1. runs[p].load \in Loads
      BY DEF Core, CoreTypeOK, RunTypeOK
    <2>2. claims'[runs[p].load].state = "working" /\ claims'[runs[p].load].owner = p
      BY DEF Holds, Mine, LoadOf
    <2> QED BY <2>1, <2>2, RunsAreNotNoRun
  <1>4. OneAtSmtp'
    BY DEF Core, CoreInv, OneAtSmtp, LoadOf
  <1>5. SendsFollow
    BY DEF Core, CoreTypeOK, SendsFollow
  <1> QED BY <1>1, <1>2, <1>3, <1>4, <1>5 DEF Core, CoreInv, CoreKept

\* startTrigger() writes every claim by its plan.
LEMMA StartTriggerKeeps ==
    ASSUME Core, RestTypeOK, StartTrigger PROVE RunKeeps
  <1>1. PICK stale \in SUBSET Loads : claims' = [l \in Loads |-> StartedUp(claims[l], l \in stale)]
    BY DEF StartTrigger
  <1>2. ASSUME NEW l \in Loads
        PROVE  /\ claims'[l] \in Claim /\ Numbered(claims'[l])
               /\ ClaimSent(claims[l]) => ClaimSent(claims'[l])
               /\ claims'[l].state # "working" \/ claims'[l].owner = NoRun
    <2>1. claims[l] \in Claim /\ Numbered(claims[l]) /\ (l \in stale) \in BOOLEAN
      BY DEF Core, CoreTypeOK, CoreInv, TransitKnown
    <2>2. claims'[l] = StartedUp(claims[l], l \in stale)
      BY <1>1
    <2> QED BY ZenonT(40), <2>1, <2>2, StartedUpSafe
  <1>3. claims' \in [Loads -> Claim]
    BY <1>1, <1>2
  <1>4. UNCHANGED <<runs, givenUp, outbox, delivered, rows, inflight, marker, seq, stop, copies, sent, handFiled>>
    BY DEF StartTrigger, sharedVars, gmailVars
  <1>5. CoreKept
    BY <1>2, <1>3, <1>4, AllWritten
  <1> QED BY <1>4, <1>5 DEF RunKeeps, RestTypeOK

\* The process dies: every run is gone, what each was filing landed or did not.
LEMMA CrashKeeps ==
    ASSUME Core, RestTypeOK, Crash PROVE RunKeeps
  <1>1. runs' = [r \in Runs |-> IdleRun]
    BY DEF Crash, Dies
  <1>2. UNCHANGED <<claims, rows, inflight, marker, stop, seq, givenUp, sent, outbox, delivered, handFiled>>
    BY DEF Crash, ledgerVars
  <1>3. \A r \in Runs : runs'[r] = IdleRun
    BY <1>1
  <1>4. RunTypeOK'
    BY <1>1, <1>3 DEF RunTypeOK, IdleRun, PCs
  <1>5. CoreTypeOK'
    BY <1>2, <1>4 DEF Core, CoreTypeOK
  <1>6. TransitKnown'
    BY <1>2 DEF Core, CoreInv, TransitKnown
  <1>7. RunsMatchClaims' /\ OneAtSmtp'
    BY <1>3 DEF RunsMatchClaims, OneAtSmtp, IdleRun
  <1>8. copies' \in [Numbers -> Nat]
    <2>1. PICK landed \in SUBSET {r \in Runs : runs[r].pc = "append"} :
             copies' = [n \in Numbers |-> copies[n] + Cardinality({r \in landed : runs[r].num = n})]
      BY DEF Crash
    <2>2. ASSUME NEW n \in Numbers PROVE Cardinality({r \in landed : runs[r].num = n}) \in Nat
      <3>1. {r \in landed : runs[r].num = n} \subseteq Runs
        OBVIOUS
      <3>2. IsFiniteSet({r \in landed : runs[r].num = n})
        BY <3>1, TriggerAssumption, FS_Subset
      <3> QED BY <3>2, FS_CardinalityType
    <2>3. \A n \in Numbers : copies[n] \in Nat
      BY DEF RestTypeOK
    <2>4. ASSUME NEW n \in Numbers PROVE copies[n] + Cardinality({r \in landed : runs[r].num = n}) \in Nat
      BY <2>2, <2>3
    <2> QED BY <2>1, <2>4
  <1>9. SendsFollow
    BY <1>2 DEF Core, CoreTypeOK, SendsFollow
  <1> QED BY <1>2, <1>5, <1>6, <1>7, <1>8, <1>9 DEF Core, CoreInv, CoreKept, RunKeeps, RestTypeOK

\* A claim that no email knows of is replaced by another.
LEMMA OpenKeeps ==
    ASSUME Core, RestTypeOK, NEW l \in Loads, claims[l].state # "working", NEW d \in Claim, d.state # "none",
           d.state # "working" \/ d.owner = NoRun,
           d.stage = claims[l].stage, d.num = claims[l].num, d.sending = claims[l].sending,
           d.voided = claims[l].voided,
           WriteClaim(l, d), UNCHANGED <<runs, sharedVars, stop, gmailVars>>
    PROVE  RunKeeps
  <1>1. Numbered(claims[l])
    BY DEF Core, CoreInv, TransitKnown
  <1>2. SafeAfter(claims[l], d)
    BY <1>1 DEF SafeAfter, Numbered, ClaimSent
  <1> QED BY <1>2, PlainKeeps DEF RestTypeOK

\* A tap on a claim that waits: it asks for the look.
LEMMA TappedFields ==
    ASSUME NEW c \in Claim
    PROVE  LET d == [c EXCEPT !.reason = "DRIVER_PENDING", !.look = TRUE] IN
           /\ d \in Claim /\ d.state = c.state /\ d.reason = "DRIVER_PENDING" /\ d.look
           /\ d.stage = c.stage /\ d.num = c.num /\ d.sending = c.sending /\ d.voided = c.voided
  BY DEF Claim, States, Reasons

\* A tap's claim queued.
LEMMA QueuedFields ==
    ASSUME NEW c \in Claim
    PROVE  LET d == [c EXCEPT !.state = "queued", !.reason = "OTHER"] IN
           /\ d \in Claim /\ d.state = "queued" /\ d.reason = "OTHER" /\ d.look = c.look
           /\ d.stage = c.stage /\ d.num = c.num /\ d.sending = c.sending /\ d.voided = c.voided
  BY DEF Claim, States, Reasons

\* A tap's write that did not land.
LEMMA NotCompletedFields ==
    ASSUME NEW c \in Claim
    PROVE  LET d == [c EXCEPT !.reason = "NOT_COMPLETED"] IN
           /\ d \in Claim /\ d.state = c.state /\ d.reason = "NOT_COMPLETED" /\ d.look = c.look
           /\ d.stage = c.stage /\ d.num = c.num /\ d.sending = c.sending /\ d.voided = c.voided
  BY DEF Claim, States, Reasons

\* A tap's first record of a load.
LEMMA FreshClaim ==
    /\ NewClaim("waiting", "DRIVER_PENDING") \in Claim
    /\ NewClaim("waiting", "DRIVER_PENDING").state = "waiting"
    /\ NewClaim("waiting", "DRIVER_PENDING").reason = "DRIVER_PENDING"
    /\ NewClaim("waiting", "DRIVER_PENDING").stage = "" /\ NewClaim("waiting", "DRIVER_PENDING").num = 0
    /\ NewClaim("waiting", "DRIVER_PENDING").sending = FALSE /\ NewClaim("waiting", "DRIVER_PENDING").voided = FALSE
    /\ NewClaim("waiting", "DRIVER_PENDING").look = FALSE
  BY DEF NewClaim, NoClaim, Claim, States, Stages, Reasons

\* The record comes before the sheet is written.
LEMMA TapKeeps ==
    ASSUME Core, RestTypeOK, NEW t \in Taps, NEW l \in Loads, Tap(t, l) PROVE RunKeeps
  <1>1. UNCHANGED <<runs, sharedVars, stop, gmailVars>> /\ claims[l] \in Claim /\ Numbered(claims[l])
    BY DEF Tap, Core, CoreTypeOK, CoreInv, TransitKnown
  <1>2. CASE claims[l].state = "none" /\ WriteClaim(l, NewClaim("waiting", "DRIVER_PENDING"))
    <2> DEFINE d == NewClaim("waiting", "DRIVER_PENDING")
    <2>1. d \in Claim /\ d.state = "waiting" /\ d.stage = "" /\ d.voided = FALSE
      BY FreshClaim
    <2>2. WriteClaim(l, d)
      BY <1>2
    <2> HIDE DEF d
    <2>3. SafeAfter(claims[l], d)
      BY <1>1, <1>2, <2>1 DEF SafeAfter, Numbered, ClaimSent
    <2> QED BY <1>1, <2>1, <2>2, <2>3, PlainKeeps DEF RestTypeOK
  <1>3. CASE claims[l].state = "waiting"
             /\ WriteClaim(l, [claims[l] EXCEPT !.reason = "DRIVER_PENDING", !.look = TRUE])
    <2> DEFINE c == claims[l]
               d == [c EXCEPT !.reason = "DRIVER_PENDING", !.look = TRUE]
    <2>1. /\ d \in Claim /\ d.state = c.state /\ d.stage = c.stage /\ d.num = c.num /\ d.sending = c.sending
          /\ d.voided = c.voided
      BY <1>1, TappedFields
    <2>2. WriteClaim(l, d)
      BY <1>3
    <2> HIDE DEF d
    <2> QED BY <1>1, <1>3, <2>1, <2>2, OpenKeeps
  <1> QED BY <1>2, <1>3 DEF Tap

\* A tap's record queued, or not any more waiting.
LEMMA QueueTappedKeeps ==
    ASSUME Core, RestTypeOK, NEW l \in Loads, QueueTapped(l), UNCHANGED <<runs, sharedVars, stop, gmailVars>>
    PROVE  RunKeeps
  <1>1. CASE claims[l].state = "waiting"
    <2> DEFINE c == claims[l]
               d == [c EXCEPT !.state = "queued", !.reason = "OTHER"]
    <2>1. c \in Claim
      BY DEF Core, CoreTypeOK
    <2>2. /\ d \in Claim /\ d.state = "queued" /\ d.stage = c.stage /\ d.num = c.num /\ d.sending = c.sending
          /\ d.voided = c.voided
      BY <2>1, QueuedFields
    <2>3. WriteClaim(l, d)
      BY <1>1 DEF QueueTapped
    <2> HIDE DEF d
    <2> QED BY <1>1, <2>2, <2>3, OpenKeeps
  <1>2. CASE claims[l].state # "waiting"
    <2>1. CoreKept
      BY <1>2, CoreStutter DEF QueueTapped, Core, CoreTypeOK, gmailVars
    <2> QED BY <2>1 DEF RunKeeps, RestTypeOK, sharedVars, gmailVars
  <1> QED BY <1>1, <1>2

\* The sheet's write is answered, or the row is read back.
LEMMA TapStepKeeps ==
    ASSUME Core, RestTypeOK, OutsideOK, LineInv, NEW t \in Taps, TapStep(t) PROVE RunKeeps
  <1> DEFINE l == taps[t].load
  <1>1. l \in Loads
    <2>1. taps[t].pc # "idle"
      BY DEF TapStep, TapWritten, TapFailed, TapSettled
    <2> QED BY <2>1 DEF LineInv, OutsideOK
  <1>2. UNCHANGED <<runs, sharedVars, stop, gmailVars>>
    BY DEF TapStep, TapWritten, TapFailed, TapSettled, ledgerVars, sharedVars
  <1>3. CASE QueueTapped(l)
    BY <1>1, <1>2, <1>3, QueueTappedKeeps
  <1>4. CASE UNCHANGED <<claims, givenUp>>
    <2>1. CoreKept
      BY <1>2, <1>4, CoreStutter DEF Core, CoreTypeOK, gmailVars
    <2> QED BY <1>2, <2>1 DEF RunKeeps, RestTypeOK, sharedVars, gmailVars
  <1>5. CASE claims[l].state = "waiting" /\ WriteClaim(l, [claims[l] EXCEPT !.reason = "NOT_COMPLETED"])
    <2> DEFINE c == claims[l]
               d == [c EXCEPT !.reason = "NOT_COMPLETED"]
    <2>1. c \in Claim
      BY <1>1 DEF Core, CoreTypeOK
    <2>2. /\ d \in Claim /\ d.state = c.state /\ d.stage = c.stage /\ d.num = c.num /\ d.sending = c.sending
          /\ d.voided = c.voided
      BY <2>1, NotCompletedFields
    <2>3. WriteClaim(l, d)
      BY <1>5
    <2> HIDE DEF d
    <2> QED BY <1>1, <1>2, <1>5, <2>2, <2>3, OpenKeeps
  <1> QED BY <1>3, <1>4, <1>5 DEF TapStep, TapWritten, TapFailed, TapSettled, ledgerVars

\* What Try again makes of a claim, once it asks for the look.
LEMMA RetryFields ==
    ASSUME NEW c \in Claim
    PROVE  LET e == [c EXCEPT !.reason = "OTHER", !.attempts = 0, !.look = TRUE]
               d == IF e.stage \in StagesBeforeAppend THEN [e EXCEPT !.state = "queued"]
                    ELSE [e EXCEPT !.state = "working", !.owner = NoRun, !.expired = TRUE]
           IN  /\ d \in Claim /\ d.stage = c.stage /\ d.num = c.num /\ d.sending = c.sending /\ d.voided = c.voided
               /\ d.look /\ d.reason = "OTHER"
               /\ \/ d.state = "queued" /\ c.stage \in StagesBeforeAppend
                  \/ d.state = "working" /\ d.owner = NoRun /\ c.stage \notin StagesBeforeAppend
  <1> DEFINE e == [c EXCEPT !.reason = "OTHER", !.attempts = 0, !.look = TRUE]
             d == IF e.stage \in StagesBeforeAppend THEN [e EXCEPT !.state = "queued"]
                  ELSE [e EXCEPT !.state = "working", !.owner = NoRun, !.expired = TRUE]
  <1>1. /\ e \in Claim /\ e.stage = c.stage /\ e.num = c.num /\ e.sending = c.sending /\ e.voided = c.voided
        /\ e.look = TRUE /\ e.reason = "OTHER"
    BY DEF Claim, Reasons
  <1> HIDE DEF e
  <1>2. /\ d \in Claim /\ d.stage = e.stage /\ d.num = e.num /\ d.sending = e.sending /\ d.voided = e.voided
        /\ d.look = TRUE /\ d.reason = "OTHER"
        /\ \/ d.state = "queued" /\ e.stage \in StagesBeforeAppend
           \/ d.state = "working" /\ d.owner = NoRun /\ e.stage \notin StagesBeforeAppend
    BY <1>1 DEF Claim, States
  <1> QED BY <1>1, <1>2 DEF e

\* A person's Try again.
LEMMA RetryKeeps ==
    ASSUME Core, RestTypeOK, NEW l \in Loads, Retry(l) PROVE RunKeeps
  <1> DEFINE c == claims[l]
             e == [c EXCEPT !.reason = "OTHER", !.attempts = 0, !.look = TRUE]
             d == IF e.stage \in StagesBeforeAppend THEN [e EXCEPT !.state = "queued"]
                  ELSE [e EXCEPT !.state = "working", !.owner = NoRun, !.expired = TRUE]
  <1>1. c \in Claim /\ c.state = "needs_attention"
    BY DEF Core, CoreTypeOK, Retry, Claim
  <1>2. /\ d \in Claim /\ d.stage = c.stage /\ d.num = c.num /\ d.sending = c.sending /\ d.voided = c.voided
        /\ d.state = "queued" \/ (d.state = "working" /\ d.owner = NoRun)
    BY <1>1, RetryFields
  <1>3. WriteClaim(l, d) /\ UNCHANGED <<runs, sharedVars, stop, gmailVars>>
    BY DEF Retry
  <1> HIDE DEF d
  <1> QED BY <1>1, <1>2, <1>3, OpenKeeps

-----------------------------------------------------------------------------
(* The line's own part of the invariant. *)

\* A run at work goes on, or waits to be closed.
LEMMA RunLine ==
    ASSUME Core, LineInv, NEW r \in Runs, RunShape(r), UNCHANGED <<line, taps, up, first>> PROVE LineInv'
  <1>1. PICK q : runs' = [runs EXCEPT ![r] = q] /\ q.pc # "idle"
    BY DEF RunShape, Moves
  <1>2. runs[r].pc # "idle" /\ up
    BY DEF RunShape, LineInv
  <1>3. \A p \in Runs : runs[p].pc # "idle" => runs'[p].pc # "idle"
    BY <1>1 DEF Core, CoreTypeOK, RunTypeOK
  <1>4. line # NoRun => runs'[line].pc # "idle"
    BY <1>1, <1>3 DEF LineInv, Core, CoreTypeOK, RunTypeOK
  <1> QED BY <1>2, <1>4 DEF LineInv

\* The run the line closes is no longer its own.
LEMMA CloseLine ==
    ASSUME Core, OutsideOK, LineInv, NEW r \in Runs, RunLimit(r) \/ RunOver(r) PROVE LineInv'
  <1>1. UNCHANGED <<taps, up, first>>
    BY DEF RunLimit, RunOver, outside
  <1>2. CASE RunLimit(r)
    BY <1>1, <1>2 DEF RunLimit, CloseRun, LineInv
  <1>3. CASE RunOver(r)
    <2>1. runs[r].pc = "close" /\ runs' = [runs EXCEPT ![r] = IdleRun] /\ (line' = NoRun \/ (line' = line /\ line # r))
      BY <1>3 DEF RunOver, CloseRun
    <2>2. up
      BY <2>1 DEF LineInv
    <2>3. line' # NoRun => runs'[line'].pc # "idle"
      BY <2>1 DEF LineInv, OutsideOK, Core, CoreTypeOK, RunTypeOK
    <2> QED BY <1>1, <2>2, <2>3 DEF LineInv
  <1> QED BY <1>2, <1>3

\* The line starts a run on what it takes.
LEMMA TakeLine ==
    ASSUME Core, LineInv, NEW r \in Runs, NEW l \in Loads, LineHeld(r, l) \/ LineTakes(r, l) PROVE LineInv'
  <1>1. UNCHANGED <<taps, up, first>> /\ up /\ line = NoRun
    BY DEF LineHeld, LineTakes, LineFree, outside
  <1>2. \/ line' = line /\ runs' = runs
        \/ line' = r /\ (Recover(r, l) \/ Lease(r, l))
    BY DEF LineHeld, LineTakes, TakeOver
  <1>3. ASSUME Recover(r, l) \/ Lease(r, l) PROVE runs'[r].pc # "idle"
    <2>1. \E pc \in PCs \ {"idle"}, recovering \in BOOLEAN : Starts(r, l, pc, recovering)
      BY <1>3, TriggerAssumption DEF Recover, Lease, PCs
    <2>2. PICK pc \in PCs \ {"idle"}, recovering \in BOOLEAN :
             runs' = [runs EXCEPT ![r] = [pc |-> pc, load |-> l, recovering |-> recovering, num |-> 0]]
      BY <2>1 DEF Starts
    <2>3. runs'[r].pc = pc
      BY <2>2 DEF Core, CoreTypeOK, RunTypeOK
    <2> QED BY <2>3
  <1>4. line' # NoRun => runs'[line'].pc # "idle"
    BY <1>1, <1>2, <1>3
  <1> QED BY <1>1, <1>4 DEF LineInv

\* A tap at work has its load, and the process is up.
LEMMA TapLine ==
    ASSUME OutsideOK, LineInv, NEW t \in Taps, TapStep(t) \/ (\E l \in Loads : Tap(t, l)) PROVE LineInv'
  <1>1. UNCHANGED <<line, runs, up, first>>
    BY DEF TapStep, TapWritten, TapFailed, TapSettled, Tap, lineVars
  <1>2. CASE TapStep(t)
    <2>1. taps[t].pc # "idle" /\ up
      BY <1>2 DEF TapStep, TapWritten, TapFailed, TapSettled, LineInv
    <2>2. taps' = [taps EXCEPT ![t] = IdleTap] \/ taps' = [taps EXCEPT ![t].pc = "settling"]
      BY <1>2 DEF TapStep, TapWritten, TapFailed, TapSettled
    <2>3. \A s \in Taps : taps'[s].pc = "idle" <=> taps'[s].load = NoLoad
      BY <2>1, <2>2 DEF LineInv, OutsideOK, IdleTap
    <2> QED BY <1>1, <2>1, <2>3 DEF LineInv
  <1>3. CASE \E l \in Loads : Tap(t, l)
    <2>1. PICK l \in Loads : up /\ taps' = [taps EXCEPT ![t] = [pc |-> "writing", load |-> l]]
      BY <1>3 DEF Tap
    <2>2. \A s \in Taps : taps'[s].pc = "idle" <=> taps'[s].load = NoLoad
      BY <2>1, LedgerAssumption DEF LineInv, OutsideOK
    <2> QED BY <1>1, <2>1, <2>2 DEF LineInv
  <1> QED BY <1>2, <1>3

\* A restart begins with no run and no tap at work.
LEMMA RestartLine ==
    ASSUME LineInv, StartTrigger \/ (Dies /\ first' = first) PROVE LineInv'
  <1>1. CASE StartTrigger
    BY <1>1 DEF StartTrigger, LineInv
  <1>2. CASE Dies /\ first' = first
    <2>1. /\ up /\ ~up' /\ first' = first /\ line' = NoRun
          /\ runs' = [r \in Runs |-> IdleRun] /\ taps' = [t \in Taps |-> IdleTap]
      BY <1>2 DEF Dies
    <2> QED BY <2>1 DEF LineInv, IdleRun, IdleTap
  <1> QED BY <1>1, <1>2

-----------------------------------------------------------------------------
(* Types, and at most one email: the steps. *)

\* A run about to send sends for a load no message went for: the others' claims look first.
LEMMA LookedSendsOnce ==
    ASSUME Core, BilledInv, NEW r \in Runs PROVE SendsOnce(r)
  <1> SUFFICES ASSUME runs[r].pc = "render", Holds(r), ~Mine(r).look PROVE delivered[LoadOf(r)] = 0
    BY DEF SendsOnce
  <1>1. LoadOf(r) \in Loads /\ Mine(r) = claims[LoadOf(r)] /\ ~ClaimSent(Mine(r))
    BY HeldFacts DEF RunFits, StagesBeforeAppend, ClaimSent
  <1>2. LoadOf(r) \notin Wary
    BY <1>1 DEF BilledInv, Looked, ToSend
  <1> QED BY <1>1, <1>2 DEF Wary, Forgotten, Core, CoreTypeOK

\* They are loads.
LEMMA WaryLoads == ASSUME OutsideOK PROVE Wary \subseteq Loads
  BY DEF OutsideOK, Wary, Forgotten

\* Only a loss of power makes a claim forget its send.
LEMMA WaryStays ==
    ASSUME Core, CoreKept, billed' = billed PROVE Wary' \subseteq Wary
  BY DEF Core, CoreTypeOK, CoreInv, TransitKnown, CoreKept, SendsFollow, Wary, Forgotten

\* The box loses power: the claim forgets the send, which went or did not.
LEMMA PowerLossKeeps ==
    ASSUME Core, RestTypeOK, NEW r \in Runs, PowerLoss(r)
    PROVE  /\ Core' /\ RestTypeOK'
           /\ LoadOf(r) \in Loads /\ runs[r].pc = "smtp" /\ Holds(r)
           /\ \A l \in Loads : outbox'[l] <= outbox[l] /\ (l # LoadOf(r) => delivered'[l] = delivered[l])
  <1> DEFINE l == LoadOf(r)  c == claims[l]  d == [c EXCEPT !.stage = "rendered", !.sending = FALSE]
  <1>1. /\ runs[r].pc = "smtp" /\ Holds(r) /\ runs' = [p \in Runs |-> IdleRun]
        /\ claims' = [claims EXCEPT ![l].stage = "rendered", ![l].sending = FALSE]
        /\ UNCHANGED <<givenUp, rows, inflight, marker, stop, seq>>
    BY DEF PowerLoss, Dies, LoadOf, sharedVars
  <1>2. /\ l \in Loads /\ c \in Claim /\ Numbered(c) /\ c.num # 0 /\ outbox[l] > 0
        /\ outbox \in [Loads -> Nat] /\ delivered \in [Loads -> Nat] /\ outbox[l] + delivered[l] <= 1
    <2>1. l \in Loads /\ c \in Claim /\ Numbered(c) /\ c.num # 0
      BY <1>1, HeldFacts DEF RunFits, Mine
    <2> QED BY <1>1, <2>1 DEF Core, CoreTypeOK, CoreInv, TransitKnown, OneAtSmtp
  <1>3. d \in Claim /\ Numbered(d)
    <2>1. d \in Claim /\ d.stage = "rendered" /\ d.num = c.num /\ d.state = c.state
      BY <1>2 DEF Claim, Stages
    <2>2. c.state # "none"
      BY <1>1 DEF Holds, Mine
    <2> HIDE DEF d, c
    <2> QED BY <1>2, <2>1, <2>2 DEF Numbered
  <1>4. claims' = [claims EXCEPT ![l] = d]
    BY <1>1, <1>2 DEF Core, CoreTypeOK
  <1>5. /\ \/ Deliver(l)
           \/ outbox' = [outbox EXCEPT ![l] = @ - 1] /\ UNCHANGED <<copies, sent, delivered, handFiled>>
    BY DEF PowerLoss, LoadOf
  <1> HIDE DEF l, c, d
  <1>6. /\ outbox' = [outbox EXCEPT ![l] = @ - 1]
        /\ delivered' = delivered \/ delivered' = [delivered EXCEPT ![l] = @ + 1]
    BY <1>5 DEF Deliver
  <1>7. RunTypeOK' /\ RunsMatchClaims' /\ OneAtSmtp'
    <2>1. \A p \in Runs : runs'[p] = IdleRun
      BY <1>1
    <2>2. RunTypeOK'
      BY <1>1, <2>1 DEF RunTypeOK, IdleRun, PCs
    <2> QED BY <2>1, <2>2 DEF RunsMatchClaims, OneAtSmtp, IdleRun
  <1>8. CoreTypeOK'
    <2>1. claims' \in [Loads -> Claim]
      BY <1>3, <1>4 DEF Core, CoreTypeOK
    <2>2. outbox[l] - 1 \in Nat /\ delivered[l] + 1 \in Nat
      BY <1>2
    <2>3. outbox' \in [Loads -> Nat] /\ delivered' \in [Loads -> Nat]
      BY <1>2, <1>6, <2>2
    <2> QED BY <1>1, <1>7, <2>1, <2>3 DEF Core, CoreTypeOK
  <1>9. TransitKnown'
    <2> SUFFICES ASSUME NEW k \in Loads
                 PROVE  /\ outbox'[k] + delivered'[k] <= 1
                        /\ outbox'[k] > 0 => ClaimSent(claims'[k])
                        /\ Numbered(claims'[k])
      BY DEF TransitKnown
    <2>1. CASE k = l
      BY <1>2, <1>3, <1>4, <1>6, <2>1 DEF Core, CoreTypeOK
    <2>2. CASE k # l
      BY <1>2, <1>4, <1>6, <2>2 DEF Core, CoreTypeOK, CoreInv, TransitKnown
    <2> QED BY <2>1, <2>2
  <1>10. RestTypeOK'
    <2>1. CASE Deliver(l)
      BY <1>1, <1>2, <2>1, DeliverOK DEF RestTypeOK
    <2>2. CASE UNCHANGED <<copies, sent, handFiled>>
      BY <1>1, <2>2 DEF RestTypeOK
    <2> QED BY <1>5, <2>1, <2>2
  <1>11. \A k \in Loads : outbox'[k] <= outbox[k] /\ (k # l => delivered'[k] = delivered[k])
    BY <1>2, <1>6
  <1> QED BY <1>1, <1>2, <1>7, <1>8, <1>9, <1>10, <1>11 DEF Core, CoreInv, l

\* The trigger's own variables keep their types.
LEMMA OutsideStep ==
    ASSUME IInv, Next PROVE OutsideOK'
  <1>1. OutsideOK
    BY TypesAreParts DEF IInv
  <1>2. UNCHANGED <<lineVars, outside>> => OutsideOK'
    BY <1>1 DEF OutsideOK, lineVars, outside
  <1>3. ASSUME NEW r \in Runs, RunLimit(r) \/ RunOver(r) PROVE OutsideOK'
    BY <1>1, <1>3 DEF RunLimit, RunOver, CloseRun, OutsideOK, outside
  <1>4. ASSUME NEW r \in Runs, NEW l \in Loads, LineHeld(r, l) PROVE OutsideOK'
    BY <1>1, <1>4 DEF LineHeld, OutsideOK, outside
  <1>5. ASSUME NEW r \in Runs, NEW l \in Loads, LineTakes(r, l) PROVE OutsideOK'
    <2>1. UNCHANGED outside /\ line' \in {line, r}
          /\ counts' = [counts EXCEPT ![l] = IF @ > RunsPerLine THEN @ ELSE @ + 1]
      BY <1>5 DEF LineTakes
    <2>2. counts' \in [Loads -> 0..(RunsPerLine + 1)]
      BY <1>1, <2>1, TriggerAssumption DEF OutsideOK
    <2> QED BY <1>1, <2>1, <2>2 DEF OutsideOK, outside
  <1>6. [l \in Loads |-> 0] \in [Loads -> 0..(RunsPerLine + 1)]
    BY TriggerAssumption
  <1>7. ASSUME LineStops PROVE OutsideOK'
    BY <1>1, <1>6, <1>7 DEF LineStops, OutsideOK, outside
  <1>8. ASSUME StartTrigger PROVE OutsideOK'
    <2>1. restarts' \in 0..MaxRestarts
      BY <1>1, <1>8, TriggerAssumption DEF StartTrigger, OutsideOK
    <2> QED BY <1>1, <1>6, <1>8, <2>1 DEF StartTrigger, OutsideOK
  <1>9. ASSUME Dies, UNCHANGED <<counts, first, billed, asked>> PROVE OutsideOK'
    <2>1. restarts' \in 0..MaxRestarts
      BY <1>1, <1>9, TriggerAssumption DEF Dies, OutsideOK
    <2>2. taps' \in [Taps -> [pc : {"idle", "writing", "settling"}, load : Loads \cup {NoLoad}]]
      BY <1>9 DEF Dies, IdleTap
    <2> QED BY <1>1, <1>9, <2>1, <2>2 DEF Dies, OutsideOK
  <1>10. ASSUME NEW t \in Taps, TapStep(t) PROVE OutsideOK'
    <2>1. taps' = [taps EXCEPT ![t] = IdleTap] \/ taps' = [taps EXCEPT ![t].pc = "settling"]
      BY <1>10 DEF TapStep, TapWritten, TapFailed, TapSettled
    <2>2. taps' \in [Taps -> [pc : {"idle", "writing", "settling"}, load : Loads \cup {NoLoad}]]
      BY <1>1, <2>1 DEF OutsideOK, IdleTap
    <2> QED BY <1>1, <1>10, <2>2 DEF TapStep, TapWritten, TapFailed, TapSettled, OutsideOK, lineVars
  <1>11. ASSUME NEW t \in Taps, NEW l \in Loads, Tap(t, l) PROVE OutsideOK'
    BY <1>1, <1>11 DEF Tap, OutsideOK, lineVars
  <1>12. ASSUME NEW l \in Loads, Retry(l) \/ PersonBills(l) PROVE OutsideOK'
    BY <1>1, <1>12 DEF Retry, PersonBills, OutsideOK, lineVars
  <1> QED BY <1>2, <1>3, <1>4, <1>5, <1>7, <1>8, <1>9, <1>10, <1>11, <1>12
          DEF Next, Run, LineStep, PowerLoss, Crash

\* The steps that send nothing and mark nothing.
LEMMA QuietSteps ==
    ASSUME \/ \E r \in Runs : LooksFirst(r) \/ LooksInSent(r) \/ RunLimit(r) \/ RunOver(r)
           \/ LineStep \/ StartTrigger \/ Crash
           \/ \E t \in Taps : TapStep(t) \/ \E l \in Loads : Tap(t, l)
           \/ \E l \in Loads : Retry(l) \/ PersonBills(l) \/ ClosedByHand(l) \/ ChangedAfterSend(l)
           \/ PressNext
    PROVE  UNCHANGED <<outbox, delivered, marker>>
  <1>1. ASSUME NEW r \in Runs, LooksFirst(r) \/ LooksInSent(r) PROVE UNCHANGED <<outbox, delivered, marker>>
    BY <1>1 DEF LooksFirst, LookedFirst, LooksInSent, LostSendLooked, gmailVars, sharedVars
  <1>2. ASSUME NEW r \in Runs, RunLimit(r) \/ RunOver(r) PROVE UNCHANGED <<outbox, delivered, marker>>
    BY <1>2 DEF RunLimit, RunOver, gmailVars, sharedVars
  <1>3. ASSUME LineStep PROVE UNCHANGED <<outbox, delivered, marker>>
    <2>1. CASE LineStops
      BY <2>1 DEF LineStops, gmailVars, sharedVars, ledgerVars
    <2>2. ASSUME NEW r \in Runs, NEW l \in Loads, LineHeld(r, l) PROVE UNCHANGED <<outbox, delivered, marker>>
      BY <2>2 DEF LineHeld, TakeOver, Recover, Lease, gmailVars, sharedVars, ledgerVars
    <2>3. ASSUME NEW r \in Runs, NEW l \in Loads, LineTakes(r, l) PROVE UNCHANGED <<outbox, delivered, marker>>
      BY <2>3 DEF LineTakes, TakeOver, Recover, Lease, gmailVars, sharedVars, ledgerVars
    <2> QED BY <1>3, <2>1, <2>2, <2>3 DEF LineStep
  <1>4. ASSUME StartTrigger \/ Crash PROVE UNCHANGED <<outbox, delivered, marker>>
    BY <1>4 DEF StartTrigger, Crash, gmailVars, sharedVars, ledgerVars
  <1>5. ASSUME NEW t \in Taps, TapStep(t) \/ \E l \in Loads : Tap(t, l) PROVE UNCHANGED <<outbox, delivered, marker>>
    BY <1>5 DEF TapStep, TapWritten, TapFailed, TapSettled, Tap, gmailVars, sharedVars, ledgerVars
  <1>6. ASSUME NEW l \in Loads, Retry(l) \/ PersonBills(l) \/ ClosedByHand(l) \/ ChangedAfterSend(l)
        PROVE  UNCHANGED <<outbox, delivered, marker>>
    BY <1>6 DEF Retry, PersonBills, ClosedByHand, ChangedAfterSend, gmailVars, sharedVars, ledgerVars
  <1>7. ASSUME PressNext PROVE UNCHANGED <<outbox, delivered, marker>>
    BY <1>7, PressLeaves
  <1> QED BY <1>1, <1>2, <1>3, <1>4, <1>5, <1>6, <1>7

\* Every step but a loss of power keeps the core, and the types of the rest.
LEMMA StepKeeps ==
    ASSUME AInv, Next, \A r \in Runs : ~PowerLoss(r)
    PROVE  CoreKept /\ RestTypeOK' /\ PressTypeOK'
  <1>1. Core /\ RestTypeOK /\ PressTypeOK /\ OutsideOK /\ LineInv /\ BilledInv /\ givenUp \subseteq Numbers
    BY TypesAreParts DEF AInv, IInv, Core, CoreTypeOK
  <1>2. UNCHANGED presses => PressTypeOK'
    BY <1>1 DEF PressTypeOK
  <1>3. RunKeeps => CoreKept /\ RestTypeOK'
    BY DEF RunKeeps
  <1>4. ASSUME NEW r \in Runs, Run(r) PROVE CoreKept /\ RestTypeOK' /\ PressTypeOK'
    <2>1. RunKeeps
      BY <1>1, <1>4, LookedSendsOnce, RunKept DEF Run
    <2> QED BY <1>2, <1>3, <1>4, <2>1 DEF Run
  <1>5. ASSUME NEW r \in Runs, RunLimit(r) \/ RunOver(r) PROVE CoreKept /\ RestTypeOK' /\ PressTypeOK'
    <2>1. RunLimit(r) => runs[r].pc # "idle"
      BY <1>1, RunsAreNotNoRun DEF RunLimit, LineInv
    <2>2. RunKeeps
      BY <1>1, <1>5, <2>1, RunLimitKeeps, RunOverKeeps
    <2> QED BY <1>2, <1>3, <1>5, <2>2 DEF RunLimit, RunOver
  <1>6. ASSUME LineStep PROVE CoreKept /\ RestTypeOK' /\ PressTypeOK'
    <2>1. UNCHANGED presses
      BY <1>6 DEF LineStep, LineStops, LineHeld, LineTakes
    <2>2. CASE LineStops
      <3>1. CoreKept
        BY <1>1, <2>2, CoreStutter DEF LineStops, ledgerVars, gmailVars
      <3> QED BY <1>1, <1>2, <2>1, <2>2, <3>1 DEF LineStops, RestTypeOK, ledgerVars, gmailVars, sharedVars
    <2>3. CASE \E r \in Runs, l \in Loads : LineHeld(r, l) \/ LineTakes(r, l)
      <3>1. RunKeeps
        BY <1>1, <2>3, LineHeldKeeps, LineTakesKeeps
      <3> QED BY <1>2, <1>3, <2>1, <3>1
    <2> QED BY <1>6, <2>2, <2>3 DEF LineStep
  <1>7. ASSUME StartTrigger \/ Crash PROVE CoreKept /\ RestTypeOK' /\ PressTypeOK'
    <2>1. RunKeeps
      BY <1>1, <1>7, StartTriggerKeeps, CrashKeeps
    <2> QED BY <1>2, <1>3, <1>7, <2>1 DEF StartTrigger, Crash
  <1>8. ASSUME NEW t \in Taps, TapStep(t) \/ \E l \in Loads : Tap(t, l)
        PROVE  CoreKept /\ RestTypeOK' /\ PressTypeOK'
    <2>1. RunKeeps
      BY <1>1, <1>8, TapStepKeeps, TapKeeps
    <2>2. UNCHANGED presses
      BY <1>8 DEF TapStep, TapWritten, TapFailed, TapSettled, Tap
    <2> QED BY <1>2, <1>3, <2>1, <2>2
  <1>9. ASSUME NEW l \in Loads, Retry(l) \/ PersonBills(l)
        PROVE  CoreKept /\ RestTypeOK' /\ PressTypeOK'
    <2>1. UNCHANGED presses
      BY <1>9 DEF Retry, PersonBills
    <2>2. CASE PersonBills(l)
      <3>1. CoreKept
        BY <1>1, <2>2, CoreStutter DEF PersonBills, ledgerVars, gmailVars
      <3> QED BY <1>1, <1>2, <2>1, <2>2, <3>1 DEF PersonBills, RestTypeOK, ledgerVars, gmailVars, sharedVars
    <2>3. CASE Retry(l)
      BY <1>1, <1>2, <1>3, <2>1, <2>3, RetryKeeps
    <2> QED BY <1>9, <2>2, <2>3
  <1>10. ASSUME NEW l \in Loads, ClosedByHand(l) \/ ChangedAfterSend(l) \/ LateDelivery(l), UNCHANGED presses
         PROVE  CoreKept /\ RestTypeOK' /\ PressTypeOK'
    BY <1>1, <1>2, <1>3, <1>10, ClosedByHandKeeps, ChangedAfterSendKeeps, LateDeliveryKeeps
  <1>11. ASSUME SwitchNext, UNCHANGED <<runs, presses>> PROVE CoreKept /\ RestTypeOK' /\ PressTypeOK'
    BY <1>1, <1>2, <1>3, <1>11, SwitchKeeps
  <1>12. ASSUME PressNext, UNCHANGED runs PROVE CoreKept /\ RestTypeOK' /\ PressTypeOK'
    <2>1. PressKeeps /\ UNCHANGED <<claims, marker, outbox, delivered>>
      BY <1>1, <1>12, PressNextKeeps, PressLeaves
    <2>2. CoreKept
      BY <1>1, <1>12, <2>1, CoreStutter DEF PressKeeps
    <2> QED BY <2>1, <2>2 DEF PressKeeps
  <1> QED BY <1>4, <1>5, <1>6, <1>7, <1>8, <1>9, <1>10, <1>11, <1>12 DEF Next

\* Every step keeps the line's part.
LEMMA StepLine ==
    ASSUME IInv, Next PROVE LineInv'
  <1>1. Core /\ RestTypeOK /\ PressTypeOK /\ OutsideOK /\ LineInv
    BY TypesAreParts DEF IInv, Core
  <1>2. ASSUME UNCHANGED <<line, runs, taps, up, first>> PROVE LineInv'
    BY <1>1, <1>2 DEF LineInv
  <1>3. ASSUME NEW r \in Runs, Run(r) PROVE LineInv'
    <2>1. RunShape(r)
      BY <1>1, <1>3, RunStepShape DEF Run
    <2> QED BY <1>1, <1>3, <2>1, RunLine DEF Run, lineVars, outside
  <1>4. ASSUME NEW r \in Runs, RunLimit(r) \/ RunOver(r) PROVE LineInv'
    BY <1>1, <1>4, CloseLine
  <1>5. ASSUME LineStep PROVE LineInv'
    BY <1>1, <1>2, <1>5, TakeLine DEF LineStep, LineStops, outside
  <1>6. ASSUME StartTrigger \/ Crash \/ (\E r \in Runs : PowerLoss(r)) PROVE LineInv'
    BY <1>1, <1>6, RestartLine DEF Crash, PowerLoss
  <1>7. ASSUME NEW t \in Taps, TapStep(t) \/ \E l \in Loads : Tap(t, l) PROVE LineInv'
    BY <1>1, <1>7, TapLine
  <1>8. ASSUME NEW l \in Loads, Retry(l) \/ PersonBills(l) PROVE LineInv'
    BY <1>2, <1>8 DEF Retry, PersonBills, lineVars
  <1>9. ASSUME NEW l \in Loads, ClosedByHand(l) \/ ChangedAfterSend(l) \/ LateDelivery(l), UNCHANGED <<lineVars, outside>>
        PROVE  LineInv'
    BY <1>2, <1>9 DEF ClosedByHand, ChangedAfterSend, LateDelivery, lineVars, outside
  <1>10. ASSUME UNCHANGED <<runs, lineVars, outside>> PROVE LineInv'
    BY <1>2, <1>10 DEF lineVars, outside
  <1> QED BY <1>3, <1>4, <1>5, <1>6, <1>7, <1>8, <1>9, <1>10 DEF Next

\* Every step keeps the types, the core and the line's part.
LEMMA StepInv == ASSUME AInv, [Next]_vars PROVE IInv'
  <1>1. CASE Next
    <2>1. Core' /\ RestTypeOK' /\ PressTypeOK'
      <3>1. ASSUME NEW r \in Runs, PowerLoss(r) PROVE Core' /\ RestTypeOK' /\ PressTypeOK'
        <4>1. Core /\ RestTypeOK /\ PressTypeOK /\ presses' = presses
          BY <3>1, TypesAreParts DEF AInv, IInv, Core, PowerLoss
        <4> QED BY <3>1, <4>1, PowerLossKeeps DEF PressTypeOK
      <3> QED BY <1>1, <3>1, StepKeeps DEF CoreKept
    <2>2. LineInv' /\ OutsideOK'
      BY <1>1, StepLine, OutsideStep DEF AInv
    <2> QED BY <2>1, <2>2 DEF Core, IInv, TypeOK, CoreTypeOK, RestTypeOK, LedgerTypeOK, OutsideOK
  <1>2. CASE UNCHANGED vars
    <2>1. Core /\ RestTypeOK /\ PressTypeOK /\ OutsideOK /\ LineInv
      BY TypesAreParts DEF AInv, IInv, Core
    <2>2. CoreKept
      BY <1>2, <2>1, CoreStutter DEF vars, ledgerVars, gmailVars, Core, CoreTypeOK
    <2>3. LineInv' /\ OutsideOK' /\ PressTypeOK'
      BY <1>2, <2>1 DEF vars, lineVars, outside, LineInv, OutsideOK, PressTypeOK
    <2>4. RestTypeOK'
      BY <1>2, <2>1 DEF vars, ledgerVars, gmailVars, sharedVars, RestTypeOK
    <2> QED BY <2>2, <2>3, <2>4 DEF Core, CoreKept, IInv, TypeOK, CoreTypeOK, RestTypeOK, LedgerTypeOK, OutsideOK
  <1> QED BY <1>1, <1>2

-----------------------------------------------------------------------------
(* Nothing nobody asked for, nothing a person billed, and nothing sent before. *)

\* A claim written after the first start.
LEMMA AskedWrite ==
    ASSUME Core, AskedInv, ~first, UNCHANGED first, NEW l \in Loads, NEW d, claims' = [claims EXCEPT ![l] = d],
           asked \subseteq asked', Pending(d) => l \in asked',
           \A t \in Taps : taps'[t].pc # "idle" => taps'[t].load \in asked'
    PROVE  AskedInv'
  <1>1. \A k \in Loads : claims'[k] = IF k = l THEN d ELSE claims[k]
    BY DEF Core, CoreTypeOK
  <1> QED BY <1>1 DEF AskedInv

\* Claims as they were.
LEMMA AskedStutter ==
    ASSUME AskedInv, UNCHANGED <<claims, first, asked>>,
           \A t \in Taps : taps'[t].pc # "idle" => taps'[t].load \in asked
    PROVE  AskedInv'
  BY DEF AskedInv

\* A load whose claim stays is looked at as before.
LEMMA LookedStays ==
    ASSUME Core, NEW l \in Loads, Looked(l), claims'[l] = claims[l], up' => up,
           \A t \in Taps : taps'[t].pc # "idle" /\ taps'[t].load = l => taps[t].pc # "idle" /\ taps[t].load = l,
           \A r \in Runs : runs'[r].pc \in ToSend /\ runs'[r].load = l => runs[r].pc \in ToSend /\ runs[r].load = l
    PROVE  Looked(l)'
  <1>1. \A r \in Runs : runs'[r].pc \in ToSend /\ LoadOf(r)' = l /\ Holds(r)' => claims'[l].look
    BY DEF Looked, LoadOf, Holds, Mine
  <1> QED BY <1>1 DEF Looked

\* One claim is written, the rest stay.
LEMMA BilledWrite ==
    ASSUME Core, OutsideOK, BilledInv, Wary' \subseteq Wary, up' = up, NEW l \in Loads, NEW d, claims' = [claims EXCEPT ![l] = d],
           \A t \in Taps : taps'[t].pc # "idle" => taps'[t] = taps[t] \/ (taps'[t].load \in {l, taps[t].load} /\ taps[t].pc # "idle")
                                                  \/ taps'[t].load = l,
           \A r \in Runs : runs'[r].pc \in ToSend /\ runs'[r].load # l => runs[r].pc \in ToSend /\ runs[r].load = runs'[r].load,
           l \in Wary =>
              /\ d.state # "none"
              /\ up /\ d.state = "queued" => d.look
              /\ d.state = "waiting" /\ (\E t \in Taps : taps'[t].pc # "idle" /\ taps'[t].load = l) => d.look
              /\ \A r \in Runs : runs'[r].pc \in ToSend /\ runs'[r].load = l /\ d.state = "working" /\ d.owner = r => d.look
    PROVE  BilledInv'
  <1> SUFFICES ASSUME NEW k \in Wary PROVE Looked(k)'
    BY DEF BilledInv
  <1>0. k \in Loads
    BY WaryLoads
  <1>1. \A m \in Loads : claims'[m] = IF m = l THEN d ELSE claims[m]
    BY DEF Core, CoreTypeOK
  <1>2. CASE k = l
    BY <1>1, <1>2 DEF Looked, LoadOf, Holds, Mine
  <1>3. CASE k # l
    <2>1. /\ \A t \in Taps : taps'[t].pc # "idle" /\ taps'[t].load = k => taps[t].pc # "idle" /\ taps[t].load = k
          /\ \A r \in Runs : runs'[r].pc \in ToSend /\ runs'[r].load = k => runs[r].pc \in ToSend /\ runs[r].load = k
      BY <1>3
    <2>2. Looked(k)
      BY DEF BilledInv
    <2> QED BY <1>0, <1>1, <1>3, <2>1, <2>2, LookedStays
  <1> QED BY <1>2, <1>3

\* Claims as they were, and nobody's bill.
LEMMA BilledStutter ==
    ASSUME Core, OutsideOK, BilledInv, Wary' \subseteq Wary, UNCHANGED claims, up' => up,
           \A t \in Taps : taps'[t].pc # "idle" => taps[t].pc # "idle" /\ taps[t].load = taps'[t].load,
           \A r \in Runs : runs'[r].pc \in ToSend => runs[r].pc \in ToSend /\ runs[r].load = runs'[r].load
    PROVE  BilledInv'
  BY LookedStays, WaryLoads DEF BilledInv

\* A run's step.
LEMMA RunAsked ==
    ASSUME AInv, Wary' \subseteq Wary, NEW r \in Runs, RunShape(r), UNCHANGED outside PROVE AskedInv' /\ BilledInv'
  <1>1. Core /\ OutsideOK /\ LineInv
    BY TypesAreParts DEF AInv, IInv, Core
  <1>2. /\ up /\ ~first /\ runs[r].pc # "idle" /\ LoadOf(r) \in Loads /\ UNCHANGED <<taps, up, first, billed, asked>>
    BY <1>1 DEF RunShape, LineInv, OutsideOK, Core, CoreTypeOK, RunTypeOK, LoadOf, outside
  <1>3. PICK q : /\ runs' = [runs EXCEPT ![r] = q] /\ q.load = LoadOf(r)
                 /\ q.pc \in ToSend => runs[r].pc \in ToSend
    BY DEF RunShape, Moves
  <1>4. \A p \in Runs : runs'[p] = IF p = r THEN q ELSE runs[p]
    BY <1>1, <1>3 DEF Core, CoreTypeOK, RunTypeOK
  <1>5. \A p \in Runs : runs'[p].pc \in ToSend => runs[p].pc \in ToSend /\ runs[p].load = runs'[p].load
    BY <1>3, <1>4 DEF LoadOf
  <1>6. CASE claims' = claims
    BY <1>1, <1>2, <1>5, <1>6, AskedStutter, BilledStutter DEF AInv, AskedInv
  <1>7. ASSUME Holds(r), NEW d, Wrote(r, d) PROVE AskedInv' /\ BilledInv'
    <2> DEFINE l == LoadOf(r)
    <2>1. claims' = [claims EXCEPT ![l] = d] /\ Kept(r, d)
      BY <1>7 DEF Wrote
    <2>2. Mine(r) = claims[l] /\ claims[l].state = "working" /\ claims[l].owner = r
      BY <1>1, <1>2, <1>7, HeldFacts
    <2>3. l \in asked
      BY <1>2, <2>2 DEF AInv, AskedInv, Pending
    <2>4. AskedInv'
      BY <1>1, <1>2, <2>1, <2>3, AskedWrite DEF AInv, AskedInv
    <2>5. ASSUME l \in Wary, runs[r].pc \in ToSend PROVE d.look
      <3>1. Mine(r).look
        BY <1>7, <2>2, <2>5 DEF AInv, BilledInv, Looked
      <3> QED BY <2>1, <2>5, <3>1 DEF Kept, LooksClean, Wary, Forgotten
    <2>6. l \in Wary =>
             /\ d.state # "none"
             /\ up /\ d.state = "queued" => d.look
             /\ d.state = "waiting" => d.look
             /\ \A p \in Runs : runs'[p].pc \in ToSend /\ runs'[p].load = l /\ d.state = "working" /\ d.owner = p => d.look
      <3> SUFFICES ASSUME l \in Wary
                   PROVE  /\ d.state # "none"
                          /\ d.state = "queued" => d.look
                          /\ d.state = "waiting" => d.look
                          /\ \A p \in Runs : runs'[p].pc \in ToSend /\ d.state = "working" /\ d.owner = p => d.look
        OBVIOUS
      <3>1. d.state = "queued" \/ d.state = "waiting" => d.look
        BY <2>1, <2>5 DEF Kept, ToSend
      <3>2. ASSUME NEW p \in Runs, runs'[p].pc \in ToSend, d.state = "working", d.owner = p PROVE d.look
        <4>1. p = r
          BY <2>1, <2>2, <3>2 DEF Kept
        <4> QED BY <1>5, <2>5, <3>2, <4>1
      <3> QED BY <2>1, <3>1, <3>2 DEF Kept
    <2> HIDE DEF l
    <2>7. BilledInv'
      BY <1>1, <1>2, <1>5, <2>1, <2>6, BilledWrite DEF AInv, l
    <2> QED BY <2>4, <2>7
  <1> QED BY <1>6, <1>7 DEF RunShape

\* The line closes a run.
LEMMA CloseAsked ==
    ASSUME AInv, Wary' \subseteq Wary, NEW r \in Runs, RunLimit(r) \/ RunOver(r) PROVE AskedInv' /\ BilledInv'
  <1>1. Core /\ OutsideOK /\ LineInv
    BY TypesAreParts DEF AInv, IInv, Core
  <1>2. runs[r].pc # "idle"
    BY <1>1, RunsAreNotNoRun DEF RunLimit, RunOver, LineInv
  <1>3. /\ up /\ ~first /\ LoadOf(r) \in Loads /\ UNCHANGED <<taps, up, first, billed, asked>>
    BY <1>1, <1>2 DEF RunLimit, RunOver, LineInv, OutsideOK, Core, CoreTypeOK, RunTypeOK, LoadOf, outside
  <1>4. \A p \in Runs : runs'[p].pc \in ToSend => runs[p].pc \in ToSend /\ runs[p].load = runs'[p].load
    BY <1>1 DEF RunLimit, RunOver, Core, CoreTypeOK, RunTypeOK, IdleRun, ToSend
  <1>5. CASE claims' = claims
    BY <1>1, <1>3, <1>4, <1>5, AskedStutter, BilledStutter DEF AInv, AskedInv
  <1>6. CASE Holds(r) /\ WriteClaim(LoadOf(r), ToPerson(Mine(r)))
    <2> DEFINE l == LoadOf(r)  d == ToPerson(Mine(r))
    <2>1. Mine(r) \in Claim
      BY <1>1, <1>2, <1>6, HeldFacts
    <2>2. d.state = "needs_attention"
      BY <2>1, ReleaseFields DEF ToPerson, States, Reasons
    <2>3. claims' = [claims EXCEPT ![l] = d]
      BY <1>6 DEF WriteClaim
    <2> HIDE DEF d, l
    <2>4. AskedInv'
      BY <1>1, <1>3, <2>2, <2>3, AskedWrite DEF AInv, AskedInv, Pending, l
    <2>5. BilledInv'
      BY <1>1, <1>3, <1>4, <2>2, <2>3, BilledWrite DEF AInv, l
    <2> QED BY <2>4, <2>5
  <1> QED BY <1>5, <1>6 DEF RunLimit, RunOver, CloseRun

\* A claim taken for a run keeps its look.
LEMMA TakenFields ==
    ASSUME NEW c \in Claim, NEW r \in Runs
    PROVE  /\ Taken(c, r) \in Claim /\ Taken(c, r).state = "working" /\ Taken(c, r).owner = r
           /\ (Taken(c, r).look <=> c.look)
  BY DEF Taken, Claim, States

\* The line takes a claim.
LEMMA LineAsked ==
    ASSUME AInv, Wary' \subseteq Wary, LineStep PROVE AskedInv' /\ BilledInv'
  <1>1. Core /\ OutsideOK /\ LineInv
    BY TypesAreParts DEF AInv, IInv, Core
  <1>2. up /\ ~first /\ UNCHANGED outside
    BY <1>1 DEF LineStep, LineStops, LineHeld, LineTakes, LineFree, LineInv
  <1>3. UNCHANGED <<taps, up, first, billed, asked>>
    BY <1>1, <1>2 DEF OutsideOK, outside
  <1>4. CASE LineStops
    BY <1>1, <1>3, <1>4, AskedStutter, BilledStutter DEF AInv, AskedInv, LineStops, ledgerVars
  <1>5. ASSUME NEW r \in Runs, NEW l \in Loads, LineHeld(r, l) \/ LineTakes(r, l) PROVE AskedInv' /\ BilledInv'
    <2>1. claims[l] \in Claim /\ claims[l].state \in {"queued", "working"} /\ l \in asked
      <3>1. claims[l].state \in {"queued", "working"}
        BY <1>5 DEF LineHeld, LineTakes, Held, Due
      <3> QED BY <1>1, <1>2, <3>1 DEF AInv, AskedInv, Pending, Core, CoreTypeOK
    <2>2. ASSUME NEW d, claims' = [claims EXCEPT ![l] = d],
                 d.state = "needs_attention" \/ d.look \/ (l \in Wary => ~\E p \in Runs : runs'[p].pc \in ToSend /\ runs'[p].load = l /\ d.owner = p),
                 d.state \in {"needs_attention", "working", "queued"}, d.state = "queued" => d.look,
                 \A p \in Runs : runs'[p].pc \in ToSend /\ runs'[p].load # l => runs[p].pc \in ToSend /\ runs[p].load = runs'[p].load
          PROVE  AskedInv' /\ BilledInv'
      <3>1. AskedInv'
        BY <1>1, <1>2, <1>3, <2>1, <2>2, AskedWrite DEF AInv, AskedInv
      <3>2. BilledInv'
        BY <1>1, <1>3, <2>2, BilledWrite DEF AInv
      <3> QED BY <3>1, <3>2
    <2>3. ASSUME runs' = runs, NEW d, d.state = "needs_attention", WriteClaim(l, d) PROVE AskedInv' /\ BilledInv'
      BY <2>2, <2>3 DEF WriteClaim
    <2>4. ASSUME Lease(r, l) PROVE AskedInv' /\ BilledInv'
      <3> DEFINE d == Taken(claims[l], r)
      <3>1. d.state = "working" /\ d.owner = r /\ (d.look <=> claims[l].look)
        BY <2>1, TakenFields
      <3>2. l \in Wary => claims[l].look
        BY <1>2, <2>4 DEF AInv, BilledInv, Looked, Lease
      <3>3. claims' = [claims EXCEPT ![l] = d] /\ runs' = [runs EXCEPT ![r] = [pc |-> "snapshot", load |-> l, recovering |-> FALSE, num |-> 0]]
        BY <2>4 DEF Lease, WriteClaim, Starts
      <3>4. \A p \in Runs : runs'[p].load # l => runs[p] = runs'[p]
        BY <1>1, <3>3 DEF Core, CoreTypeOK, RunTypeOK
      <3> HIDE DEF d
      <3> QED BY <2>2, <3>1, <3>2, <3>3, <3>4
    <2>5. ASSUME Recover(r, l) PROVE AskedInv' /\ BilledInv'
      <3>1. claims[l].state = "working"
        BY <2>5 DEF Recover
      <3>2. ASSUME NEW pc, pc \notin ToSend, Starts(r, l, pc, TRUE)
            PROVE  /\ \A p \in Runs : runs'[p].pc \in ToSend => runs'[p] = runs[p] /\ p # r
        BY <1>1, <3>2 DEF Starts, Core, CoreTypeOK, RunTypeOK
      <3>3. ASSUME NEW pc, pc \notin ToSend, Starts(r, l, pc, TRUE), WriteClaim(l, Taken(claims[l], r))
            PROVE  AskedInv' /\ BilledInv'
        <4> DEFINE d == Taken(claims[l], r)
        <4>1. d.state = "working" /\ d.owner = r /\ claims' = [claims EXCEPT ![l] = d]
          BY <2>1, <3>3, TakenFields DEF WriteClaim
        <4>2. \A p \in Runs : runs'[p].pc \in ToSend => runs'[p] = runs[p] /\ p # r
          BY <3>2, <3>3
        <4> HIDE DEF d
        <4> QED BY <2>2, <4>1, <4>2
      <3>4. ASSUME Starts(r, l, "close", TRUE), WriteClaim(l, Requeue(Taken(claims[l], r), KeptStage(Taken(claims[l], r))))
            PROVE  AskedInv' /\ BilledInv'
        <4> DEFINE c == Taken(claims[l], r)  d == Requeue(c, KeptStage(c))
        <4>1. c \in Claim
          BY <2>1, TakenFields
        <4> HIDE DEF c
        <4>2. KeptStage(c) \in Stages
          BY <4>1 DEF KeptStage, StagesBeforeAppend, Stages, Claim
        <4>3. d.state = "queued" /\ d.look
          BY <4>1, <4>2, RequeueFields
        <4>4. claims' = [claims EXCEPT ![l] = d]
          BY <3>4 DEF WriteClaim, c
        <4>5. \A p \in Runs : runs'[p].pc \in ToSend => runs'[p] = runs[p] /\ p # r
          BY <3>2, <3>4 DEF ToSend
        <4> HIDE DEF d
        <4> QED BY <2>2, <4>3, <4>4, <4>5
      <3> QED BY <2>5, <3>3, <3>4, TriggerAssumption DEF Recover, ToSend
    <2>6. LineHeld(r, l) => ToPerson(claims[l]).state = "needs_attention"
      BY <2>1, ReleaseFields DEF ToPerson, States, Reasons
    <2>7. Left(claims[l]).state = "needs_attention"
      BY <2>1 DEF Left, Unowned, Claim
    <2>8. \/ Lease(r, l) \/ Recover(r, l)
          \/ runs' = runs /\ WriteClaim(l, Left(claims[l]))
          \/ runs' = runs /\ WriteClaim(l, ToPerson(claims[l])) /\ LineHeld(r, l)
      BY <1>5 DEF LineHeld, LineTakes, TakeOver, Left
    <2> QED BY <2>3, <2>4, <2>5, <2>6, <2>7, <2>8
  <1> QED BY <1>4, <1>5 DEF LineStep

\* What the start makes of a claim: it runs only what was pending, and what it queues looks first.
\* The first start runs nothing of what the sweep left.
LEMMA StartedUpAsked ==
    ASSUME NEW c \in Claim, Numbered(c), NEW stale \in BOOLEAN, NEW d, d = StartedUp(c, stale),
           first => c.stage = "" /\ c.reason # "DRIVER_PENDING"
    PROVE  /\ Pending(d) => Pending(c) /\ ~first
           /\ c.state # "none" => d.state # "none"
           /\ d.state = "queued" => d.look
           /\ d.state = "waiting" => d = c
           /\ d.state = "working" => d.owner = NoRun
  <1>1. CASE StartUpPlan(c, stale) = "none" /\ StartedUp(c, stale) = c /\ c.state \notin {"queued", "working"}
    <2>1. c.state = "waiting" => c.reason = "NOT_COMPLETED"
      BY <1>1 DEF StartUpPlan
    <2> QED BY <1>1, <2>1 DEF Pending
  <1>2. CASE StartedUp(c, stale) = Left(c) /\ c.state \in {"working", "queued", "waiting"}
    <2>1. d.state = "needs_attention"
      BY <1>2, LeftFields
    <2> QED BY <2>1 DEF Pending
  <1>3. CASE /\ StartUpPlan(c, stale) = "recover" /\ c.state \in {"working", "queued"}
             /\ StartedUp(c, stale) = [c EXCEPT !.state = "working", !.owner = NoRun, !.expired = TRUE]
    <2>1. d.state = "working" /\ d.owner = NoRun
      BY <1>3 DEF Claim
    <2>2. ~first
      BY <1>3 DEF StartUpPlan, Went, SendInFlight
    <2> QED BY <1>3, <2>1, <2>2 DEF Pending
  <1>4. CASE /\ StartUpPlan(c, stale) = "queue" /\ c.state \in {"working", "queued", "waiting"}
             /\ StartedUp(c, stale) = [Unowned(c) EXCEPT !.state = "queued", !.reason = "OTHER", !.look = TRUE]
    <2>1. d.state = "queued" /\ d.look = TRUE
      BY <1>4 DEF Unowned, Claim
    <2>2. ~first /\ (c.state = "waiting" => c.reason = "DRIVER_PENDING")
      BY <1>4 DEF StartUpPlan
    <2> QED BY <1>4, <2>1, <2>2 DEF Pending
  <1> QED BY <1>1, <1>2, <1>3, <1>4, StartedUpFields

\* A restart.
LEMMA StartAsked ==
    ASSUME AInv, Wary' \subseteq Wary, StartTrigger PROVE AskedInv' /\ BilledInv'
  <1>1. Core /\ OutsideOK /\ LineInv /\ UNCHANGED <<taps, billed, asked, runs>> /\ up' /\ ~first'
    BY TypesAreParts DEF AInv, IInv, Core, StartTrigger, OutsideOK
  <1>2. PICK stale \in SUBSET Loads : claims' = [l \in Loads |-> StartedUp(claims[l], l \in stale)]
    BY DEF StartTrigger
  <1>3. ASSUME NEW l \in Loads
        PROVE  /\ Pending(claims'[l]) => l \in asked
               /\ claims[l].state # "none" => claims'[l].state # "none"
               /\ claims'[l].state = "queued" => claims'[l].look
               /\ claims'[l].state = "waiting" => claims'[l] = claims[l]
               /\ claims'[l].state = "working" => claims'[l].owner = NoRun
    <2> DEFINE c == claims[l]
    <2>1. c \in Claim /\ Numbered(c) /\ (first => c.stage = "" /\ c.reason # "DRIVER_PENDING")
      BY <1>1 DEF AInv, AskedInv, Core, CoreTypeOK, CoreInv, TransitKnown
    <2>2. \E old \in BOOLEAN : claims'[l] = StartedUp(c, old)
      <3>1. (l \in stale) \in BOOLEAN
        OBVIOUS
      <3>2. claims'[l] = StartedUp(c, l \in stale)
        BY <1>2
      <3> QED BY <3>1, <3>2
    <2>3. Pending(c) /\ ~first => l \in asked
      BY DEF AInv, AskedInv
    <2> HIDE DEF c
    <2>4. /\ Pending(claims'[l]) => Pending(c) /\ ~first
          /\ c.state # "none" => claims'[l].state # "none"
          /\ claims'[l].state = "queued" => claims'[l].look
          /\ claims'[l].state = "waiting" => claims'[l] = c
          /\ claims'[l].state = "working" => claims'[l].owner = NoRun
      BY <2>1, <2>2, StartedUpAsked
    <2> QED BY <2>3, <2>4 DEF c
  <1>4. AskedInv'
    BY <1>1, <1>3 DEF AInv, AskedInv
  <1>5. ASSUME NEW l \in Wary PROVE Looked(l)'
    <2>1. Looked(l) /\ l \in Loads
      BY <1>1, WaryLoads DEF AInv, BilledInv
    <2>2. ASSUME NEW r \in Runs, LoadOf(r)' = l, Holds(r)' PROVE FALSE
      <3>1. claims'[l].state = "working" /\ claims'[l].owner = r
        BY <2>2 DEF Holds, Mine, LoadOf
      <3> QED BY <1>3, <2>1, <3>1, RunsAreNotNoRun
    <2> QED BY <1>1, <1>3, <2>1, <2>2 DEF Looked
  <1> QED BY <1>1, <1>4, <1>5 DEF BilledInv

\* The process dies.
LEMMA CrashAsked ==
    ASSUME AInv, Wary' \subseteq Wary, Crash PROVE AskedInv' /\ BilledInv'
  <1>1. Core /\ OutsideOK
    BY TypesAreParts DEF AInv, IInv, Core
  <1>2. UNCHANGED <<claims, first, billed, asked>> /\ ~up'
        /\ runs' = [r \in Runs |-> IdleRun] /\ taps' = [t \in Taps |-> IdleTap]
    BY <1>1 DEF Crash, Dies, ledgerVars, OutsideOK
  <1>3. (\A r \in Runs : runs'[r].pc \notin ToSend) /\ \A t \in Taps : taps'[t].pc = "idle"
    BY <1>2 DEF IdleRun, IdleTap, ToSend
  <1> QED BY <1>1, <1>2, <1>3, AskedStutter, BilledStutter DEF AInv

\* A driver taps Delivered: the claim is asked for, and looks first if it had stopped.
LEMMA TapAsked ==
    ASSUME AInv, Wary' \subseteq Wary, NEW t \in Taps, NEW l \in Loads, Tap(t, l) PROVE AskedInv' /\ BilledInv'
  <1>1. Core /\ OutsideOK /\ LineInv
    BY TypesAreParts DEF AInv, IInv, Core
  <1>2. /\ up /\ ~first /\ UNCHANGED <<runs, up, first, billed>> /\ asked' = asked \cup {l}
        /\ taps' = [taps EXCEPT ![t] = [pc |-> "writing", load |-> l]]
    BY <1>1 DEF Tap, LineInv, OutsideOK
  <1>3. \A s \in Taps : taps'[s] = IF s = t THEN [pc |-> "writing", load |-> l] ELSE taps[s]
    BY <1>1, <1>2 DEF OutsideOK
  <1>4. ASSUME NEW d, claims' = [claims EXCEPT ![l] = d], d.state = "waiting", l \in Wary => d.look
        PROVE  AskedInv' /\ BilledInv'
    <2>1. ASSUME NEW s \in Taps, taps'[s].pc # "idle" PROVE taps'[s].load \in asked'
      <3>1. CASE s = t
        <4>1. taps'[s].load = l /\ l \in asked'
          BY <1>2, <1>3, <3>1
        <4> QED BY <4>1
      <3>2. CASE s # t
        <4>1. taps'[s] = taps[s]
          BY <1>3, <3>2
        <4>2. taps[s].load \in asked
          BY <2>1, <4>1 DEF AInv, AskedInv
        <4> QED BY <1>2, <4>1, <4>2
      <3> QED BY <3>1, <3>2
    <2>2. AskedInv'
      BY <1>1, <1>2, <1>4, <2>1, AskedWrite DEF AInv
    <2>3. \A s \in Taps : taps'[s] = taps[s] \/ taps'[s].load = l
      BY <1>3
    <2>4. BilledInv'
      BY <1>1, <1>2, <1>4, <2>3, BilledWrite DEF AInv
    <2> QED BY <2>2, <2>4
  <1>5. CASE claims[l].state = "none" /\ WriteClaim(l, NewClaim("waiting", "DRIVER_PENDING"))
    <2>1. l \notin Wary
      BY <1>5 DEF AInv, BilledInv, Looked
    <2> QED BY <1>4, <1>5, <2>1, FreshClaim DEF WriteClaim
  <1>6. CASE claims[l].state = "waiting"
             /\ WriteClaim(l, [claims[l] EXCEPT !.reason = "DRIVER_PENDING", !.look = TRUE])
    <2> DEFINE c == claims[l]  d == [c EXCEPT !.reason = "DRIVER_PENDING", !.look = TRUE]
    <2>1. c \in Claim
      BY <1>1 DEF Core, CoreTypeOK
    <2>2. d.state = c.state /\ d.look
      BY <2>1, TappedFields
    <2>3. claims' = [claims EXCEPT ![l] = d]
      BY <1>6 DEF WriteClaim
    <2> HIDE DEF d
    <2> QED BY <1>4, <1>6, <2>2, <2>3
  <1> QED BY <1>5, <1>6 DEF Tap

\* The write to the sheet is answered, or the row is read back.
LEMMA TapStepAsked ==
    ASSUME AInv, Wary' \subseteq Wary, NEW t \in Taps, TapStep(t) PROVE AskedInv' /\ BilledInv'
  <1> DEFINE l == taps[t].load
  <1>1. Core /\ OutsideOK /\ LineInv
    BY TypesAreParts DEF AInv, IInv, Core
  <1>2. /\ taps[t].pc # "idle" /\ UNCHANGED <<runs, up, first, billed, asked>>
        /\ taps' = [taps EXCEPT ![t] = IdleTap] \/ taps' = [taps EXCEPT ![t].pc = "settling"]
    BY <1>1 DEF TapStep, TapWritten, TapFailed, TapSettled, OutsideOK
  <1>3. up /\ ~first /\ l \in Loads /\ l \in asked
    BY <1>1, <1>2 DEF LineInv, OutsideOK, AInv, AskedInv
  <1>4. \A s \in Taps : taps'[s].pc # "idle" => taps[s].pc # "idle" /\ taps[s].load = taps'[s].load
    <2>1. CASE taps' = [taps EXCEPT ![t] = IdleTap]
      BY <1>1, <1>2, <2>1 DEF OutsideOK, IdleTap
    <2>2. CASE taps' = [taps EXCEPT ![t].pc = "settling"]
      BY <1>1, <1>2, <2>2 DEF OutsideOK
    <2> QED BY <1>2, <2>1, <2>2
  <1>5. CASE claims' = claims
    BY <1>1, <1>2, <1>3, <1>4, <1>5, AskedStutter, BilledStutter DEF AInv, AskedInv
  <1>6. ASSUME NEW d, claims' = [claims EXCEPT ![l] = d], claims[l].state = "waiting",
               d.state \in {"waiting", "queued"}, d.look = claims[l].look
        PROVE  AskedInv' /\ BilledInv'
    <2>1. l \in Wary => d.look
      BY <1>2, <1>6 DEF AInv, BilledInv, Looked
    <2>2. \A s \in Taps : taps'[s].pc # "idle" => taps'[s].load \in asked
      BY <1>4 DEF AInv, AskedInv
    <2> HIDE DEF l
    <2>3. AskedInv'
      BY <1>1, <1>2, <1>3, <1>6, <2>2, AskedWrite DEF AInv
    <2>4. BilledInv'
      BY <1>1, <1>2, <1>3, <1>4, <1>6, <2>1, BilledWrite DEF AInv
    <2> QED BY <2>3, <2>4
  <1>7. claims[l] \in Claim
    BY <1>1, <1>3 DEF Core, CoreTypeOK
  <1>8. CASE QueueTapped(l) /\ claims[l].state = "waiting"
    <2> DEFINE c == claims[l]  d == [c EXCEPT !.state = "queued", !.reason = "OTHER"]
    <2>1. d.state = "queued" /\ d.look = c.look
      BY <1>7, QueuedFields
    <2>2. claims' = [claims EXCEPT ![l] = d]
      BY <1>8 DEF QueueTapped, WriteClaim
    <2> HIDE DEF d
    <2> QED BY <1>6, <1>8, <2>1, <2>2
  <1>9. CASE claims[l].state = "waiting" /\ WriteClaim(l, [claims[l] EXCEPT !.reason = "NOT_COMPLETED"])
    <2> DEFINE c == claims[l]  d == [c EXCEPT !.reason = "NOT_COMPLETED"]
    <2>1. d.state = c.state /\ d.look = c.look
      BY <1>7, NotCompletedFields
    <2>2. claims' = [claims EXCEPT ![l] = d]
      BY <1>9 DEF WriteClaim
    <2> HIDE DEF d
    <2> QED BY <1>6, <1>9, <2>1, <2>2
  <1>10. CASE QueueTapped(l) /\ claims[l].state # "waiting"
    BY <1>5, <1>10 DEF QueueTapped
  <1> QED BY <1>5, <1>8, <1>9, <1>10 DEF TapStep, TapWritten, TapFailed, TapSettled, ledgerVars

\* Try again asks for the look.
LEMMA RetryAsked ==
    ASSUME AInv, Wary' \subseteq Wary, NEW l \in Loads, Retry(l) PROVE AskedInv' /\ BilledInv'
  <1> DEFINE c == claims[l]
             e == [c EXCEPT !.reason = "OTHER", !.attempts = 0, !.look = TRUE]
             d == IF e.stage \in StagesBeforeAppend THEN [e EXCEPT !.state = "queued"]
                  ELSE [e EXCEPT !.state = "working", !.owner = NoRun, !.expired = TRUE]
  <1>1. Core /\ OutsideOK /\ LineInv
    BY TypesAreParts DEF AInv, IInv, Core
  <1>2. c \in Claim
    BY <1>1 DEF Core, CoreTypeOK
  <1>3. d.look /\ (d.state = "queued" \/ d.state = "working")
    BY <1>2, RetryFields
  <1>4. /\ claims' = [claims EXCEPT ![l] = d] /\ UNCHANGED <<runs, taps, up, first, billed>> /\ asked' = asked \cup {l}
        /\ up /\ ~first
    BY <1>1 DEF Retry, WriteClaim, LineInv, OutsideOK
  <1> HIDE DEF d
  <1>5. AskedInv'
    BY <1>1, <1>4, AskedWrite DEF AInv, AskedInv
  <1>6. BilledInv'
    BY <1>1, <1>3, <1>4, BilledWrite DEF AInv
  <1> QED BY <1>5, <1>6

\* A person bills a load the job has stopped on, or any while the box is down.
LEMMA BillsAsked ==
    ASSUME AInv, NEW l \in Loads, PersonBills(l) PROVE AskedInv' /\ BilledInv'
  <1>1. Core /\ OutsideOK /\ LineInv /\ BilledInv
    BY TypesAreParts DEF AInv, IInv, Core
  <1>2. UNCHANGED <<claims, runs, taps, up, first, asked>> /\ billed' = billed \cup {l}
    BY <1>1 DEF PersonBills, ledgerVars, OutsideOK
  <1>3. AskedInv'
    BY <1>2, AskedStutter DEF AInv, AskedInv
  <1>4. ASSUME NEW k \in Wary PROVE Looked(k)'
    BY <1>1, <1>2, <1>4, LookedStays, WaryLoads DEF BilledInv
  <1>5. Looked(l)'
    <2>1. claims'[l].state # "none"
      BY <1>2 DEF PersonBills
    <2>2. ~(up' /\ claims'[l].state = "queued")
      BY <1>2 DEF PersonBills
    <2>3. ~(claims'[l].state = "waiting" /\ \E t \in Taps : taps'[t].pc # "idle" /\ taps'[t].load = l)
      BY <1>1, <1>2 DEF PersonBills, LineInv
    <2>4. ASSUME NEW r \in Runs, runs'[r].pc \in ToSend, LoadOf(r)' = l, Holds(r)' PROVE FALSE
      <3>1. claims[l].state = "working" /\ runs[r].pc # "idle"
        BY <1>2, <2>4 DEF Holds, Mine, LoadOf, ToSend
      <3> QED BY <1>1, <3>1 DEF PersonBills, LineInv
    <2> QED BY <2>1, <2>2, <2>3, <2>4 DEF Looked
  <1>6. \A k \in Wary' : k \in Wary \/ k = l
    BY <1>2 DEF Wary, Forgotten, PersonBills, gmailVars
  <1> QED BY <1>3, <1>4, <1>5, <1>6 DEF BilledInv

\* A person settles a load by hand.
LEMMA ClosedAsked ==
    ASSUME AInv, Wary' \subseteq Wary, NEW l \in Loads, ClosedByHand(l), UNCHANGED outside PROVE AskedInv' /\ BilledInv'
  <1> DEFINE c == claims[l]  d == SkipDraftedByHand(c)
  <1>1. Core /\ OutsideOK /\ LineInv
    BY TypesAreParts DEF AInv, IInv, Core
  <1>2. c \in Claim
    BY <1>1 DEF Core, CoreTypeOK
  <1>3. d.state = "skipped" /\ d.reason = "OTHER" /\ d.stage = c.stage
    BY <1>2 DEF SkipDraftedByHand, Unowned, Claim
  <1>4. claims' = [claims EXCEPT ![l] = d] /\ UNCHANGED <<runs, taps, up, first, billed, asked>>
    BY <1>1 DEF ClosedByHand, WriteClaim, outside, OutsideOK
  <1>5. AskedInv'
    <2> HIDE DEF d
    <2>1. \A k \in Loads : claims'[k] = IF k = l THEN d ELSE claims[k]
      BY <1>1, <1>4 DEF Core, CoreTypeOK
    <2> QED BY <1>1, <1>3, <1>4, <2>1 DEF AInv, AskedInv, Pending, Core, CoreTypeOK
  <1> HIDE DEF d
  <1>6. BilledInv'
    BY <1>1, <1>3, <1>4, BilledWrite DEF AInv
  <1> QED BY <1>5, <1>6

\* The box loses power: the load whose claim forgets its send is at work, with no run, and the
\* next thing on it is a search, a look or a person.
LEMMA PowerLossAsked ==
    ASSUME AInv, NEW r \in Runs, PowerLoss(r) PROVE AskedInv' /\ BilledInv'
  <1> DEFINE l == LoadOf(r)
  <1>1. Core /\ RestTypeOK /\ OutsideOK /\ LineInv /\ BilledInv
    BY TypesAreParts DEF AInv, IInv, Core
  <1>2. /\ l \in Loads /\ runs[r].pc = "smtp" /\ Holds(r) /\ \A k \in Loads : k # l => delivered'[k] = delivered[k]
    BY <1>1, PowerLossKeeps
  <1>3. /\ UNCHANGED <<first, billed, asked>> /\ ~up' /\ ~first
        /\ runs' = [p \in Runs |-> IdleRun] /\ taps' = [t \in Taps |-> IdleTap]
    BY <1>1 DEF PowerLoss, Dies, LineInv
  <1>4. (\A p \in Runs : runs'[p].pc \notin ToSend) /\ \A t \in Taps : taps'[t].pc = "idle"
    BY <1>3 DEF IdleRun, IdleTap, ToSend
  <1>5. claims[l] \in Claim /\ claims[l].state = "working" /\ claims \in [Loads -> Claim]
    BY <1>1, <1>2, HeldFacts DEF Mine, Core, CoreTypeOK
  <1>6. /\ claims'[l].state = "working"
        /\ \A k \in Loads : k # l => claims'[k] = claims[k]
    <2>1. claims' = [claims EXCEPT ![l].stage = "rendered", ![l].sending = FALSE]
      BY DEF PowerLoss, LoadOf
    <2> HIDE DEF l
    <2> QED BY <1>2, <1>5, <2>1 DEF Claim
  <1>7. AskedInv'
    <2>1. ASSUME NEW k \in Loads, Pending(claims'[k]) PROVE k \in asked
      <3>1. CASE k = l
        BY <1>1, <1>3, <1>5, <3>1 DEF AInv, AskedInv, Pending
      <3>2. CASE k # l
        BY <1>3, <1>6, <2>1, <3>2 DEF AInv, AskedInv
      <3> QED BY <3>1, <3>2
    <2> QED BY <1>3, <1>4, <2>1 DEF AskedInv
  <1>8. ASSUME NEW k \in Loads, k \in Wary' PROVE Looked(k)'
    <2>1. CASE k = l
      BY <1>3, <1>4, <1>6, <2>1 DEF Looked
    <2>2. CASE k # l
      <3>1. k \in Wary
        BY <1>2, <1>3, <1>6, <1>8, <2>2 DEF Wary, Forgotten
      <3>2. Looked(k)
        BY <1>1, <3>1 DEF BilledInv
      <3> QED BY <1>1, <1>3, <1>4, <1>6, <2>2, <3>2, LookedStays
    <2> QED BY <2>1, <2>2
  <1>9. Wary' \subseteq Loads
    BY <1>1, <1>3 DEF OutsideOK, Wary, Forgotten
  <1> QED BY <1>7, <1>8, <1>9 DEF BilledInv

\* Every step.
LEMMA StepAsked ==
    ASSUME AInv, [Next]_vars PROVE AskedInv' /\ BilledInv'
  <1>1. Core /\ OutsideOK /\ LineInv
    BY TypesAreParts DEF AInv, IInv, Core
  <1> DEFINE still == (\A r \in Runs : ~PowerLoss(r)) /\ billed' = billed
  <1>2. still => Wary' \subseteq Wary
    <2>1. Next /\ still => CoreKept
      BY StepKeeps
    <2>2. UNCHANGED vars => CoreKept
      BY <1>1, CoreStutter DEF vars, ledgerVars, gmailVars, Core, CoreTypeOK
    <2> QED BY <1>1, <2>1, <2>2, WaryStays
  <1>3. CASE \E r \in Runs : PowerLoss(r)
    BY <1>3, PowerLossAsked
  <1>4. CASE \E l \in Loads : PersonBills(l)
    BY <1>4, BillsAsked
  <1>5. CASE still
    <2>1. Wary' \subseteq Wary
      BY <1>2, <1>5
    <2>2. ASSUME UNCHANGED <<claims, runs, outside>> PROVE AskedInv' /\ BilledInv'
      BY <1>1, <2>1, <2>2, AskedStutter, BilledStutter DEF AInv, AskedInv, outside
    <2>3. ASSUME NEW r \in Runs, Run(r) PROVE AskedInv' /\ BilledInv'
      BY <1>1, <2>1, <2>3, RunStepShape, RunAsked DEF Run
    <2>4. ASSUME NEW r \in Runs, RunLimit(r) \/ RunOver(r) PROVE AskedInv' /\ BilledInv'
      BY <2>1, <2>4, CloseAsked
    <2>5. ASSUME LineStep PROVE AskedInv' /\ BilledInv'
      BY <2>1, <2>5, LineAsked
    <2>6. ASSUME StartTrigger \/ Crash PROVE AskedInv' /\ BilledInv'
      BY <2>1, <2>6, StartAsked, CrashAsked
    <2>7. ASSUME NEW t \in Taps, TapStep(t) \/ \E l \in Loads : Tap(t, l) PROVE AskedInv' /\ BilledInv'
      BY <2>1, <2>7, TapAsked, TapStepAsked
    <2>8. ASSUME NEW l \in Loads, Retry(l) PROVE AskedInv' /\ BilledInv'
      BY <2>1, <2>8, RetryAsked
    <2>9. ASSUME NEW l \in Loads, ClosedByHand(l) \/ ChangedAfterSend(l) \/ LateDelivery(l), UNCHANGED outside
          PROVE  AskedInv' /\ BilledInv'
      BY <2>1, <2>2, <2>9, ClosedAsked DEF ChangedAfterSend, LateDelivery, ledgerVars
    <2>10. ASSUME SwitchNext, UNCHANGED <<runs, outside>> PROVE AskedInv' /\ BilledInv'
      BY <2>2, <2>10 DEF SwitchNext, Mark, Clear, HandledOutside, StopSends, ResumeSends
    <2>11. ASSUME PressNext, UNCHANGED <<runs, outside>> PROVE AskedInv' /\ BilledInv'
      BY <2>2, <2>11, PressLeaves
    <2>12. ASSUME UNCHANGED vars PROVE AskedInv' /\ BilledInv'
      BY <2>2, <2>12 DEF vars, ledgerVars
    <2> HIDE DEF still
    <2> QED BY <1>3, <1>4, <2>3, <2>4, <2>5, <2>6, <2>7, <2>8, <2>9, <2>10, <2>11, <2>12 DEF Next
  <1>6. (\E l \in Loads : PersonBills(l)) \/ (\E r \in Runs : PowerLoss(r)) \/ still
    <2>1. ASSUME NEW r \in Runs, Run(r) \/ RunLimit(r) \/ RunOver(r) PROVE billed' = billed
      BY <2>1 DEF Run, RunLimit, RunOver, outside
    <2>2. ASSUME LineStep \/ StartTrigger \/ Crash PROVE billed' = billed
      BY <2>2 DEF LineStep, LineStops, LineHeld, LineTakes, StartTrigger, Crash, outside
    <2>3. ASSUME NEW t \in Taps, TapStep(t) \/ \E l \in Loads : Tap(t, l) PROVE billed' = billed
      BY <2>3 DEF TapStep, TapWritten, TapFailed, TapSettled, Tap
    <2>4. ASSUME NEW l \in Loads, Retry(l) PROVE billed' = billed
      BY <2>4 DEF Retry
    <2>5. UNCHANGED outside => billed' = billed
      BY DEF outside
    <2> QED BY <2>1, <2>2, <2>3, <2>4, <2>5 DEF Next, vars
  <1> QED BY <1>3, <1>4, <1>5, <1>6

\* No step but a run's begins a send, and it begins its own.
LEMMA StepSends ==
    ASSUME AInv, [Next]_vars, NEW l \in Loads, Sends(l) PROVE l \in asked /\ l \notin Wary
  <1>1. Core /\ RestTypeOK /\ OutsideOK /\ LineInv /\ outbox \in [Loads -> Nat]
    BY TypesAreParts DEF AInv, IInv, Core, CoreTypeOK
  <1>2. outbox'[l] > outbox[l] /\ ~(outbox'[l] = outbox[l])
    BY <1>1 DEF Sends
  <1>3. PICK r \in Runs : Run(r)
    <2>1. ~(UNCHANGED outbox)
      BY <1>2
    <2>2. ~(\E k \in Loads : LateDelivery(k))
      BY <1>1, <1>2 DEF LateDelivery, Deliver
    <2>3. ~SwitchNext
      BY <2>1 DEF SwitchNext, Mark, Clear, HandledOutside, StopSends, ResumeSends, gmailVars
    <2>4. ~UNCHANGED vars
      BY <2>1 DEF vars, gmailVars
    <2>5. Next
      BY <2>4
    <2>6. ~(\E r \in Runs : PowerLoss(r))
      <3>1. ASSUME NEW r \in Runs, PowerLoss(r) PROVE FALSE
        <4>1. Core'
          BY <1>1, <3>1, PowerLossKeeps
        <4> QED BY <1>1, <1>2, <3>1, <4>1, PowerLossKeeps DEF Core, CoreTypeOK
      <3> QED BY <3>1
    <2> QED BY <2>1, <2>2, <2>3, <2>5, <2>6, QuietSteps DEF Next
  <1>4. RunShape(r)
    BY <1>1, <1>3, RunStepShape DEF Run
  <1>5. l = LoadOf(r) /\ Holds(r) /\ runs[r].pc = "render" /\ ~Mine(r).look
    BY <1>2, <1>4 DEF RunShape, SendsOwn
  <1>6. claims[l].state = "working" /\ ~claims[l].look /\ ~first
    BY <1>1, <1>5 DEF Holds, Mine, LoadOf, LineInv
  <1>7. l \in asked
    BY <1>6 DEF AInv, AskedInv, Pending
  <1>8. l \notin Wary
    BY <1>5, <1>6 DEF AInv, BilledInv, Looked, ToSend
  <1> QED BY <1>7, <1>8

\* Nothing was asked for, billed or sent at first.
LEMMA InitAsked == Init => AskedInv /\ BilledInv
  <1> SUFFICES ASSUME Init PROVE AskedInv /\ BilledInv
    OBVIOUS
  <1>1. first = TRUE /\ billed = {} /\ \A t \in Taps : taps[t].pc = "idle"
    BY DEF Init, IdleTap
  <1>2. \A l \in Loads : claims[l].reason # "DRIVER_PENDING" /\ claims[l].stage = ""
    BY SweptClaimsOK DEF Init
  <1>3. Wary = {}
    BY <1>1 DEF Init, NothingElseYet, Wary, Forgotten
  <1> QED BY <1>1, <1>2, <1>3 DEF AskedInv, BilledInv

\* So every reachable state has it.
LEMMA AskedInvariance == Spec => []AInv
  <1>1. Init => AInv
    BY InitInv, InitAsked DEF AInv
  <1>2. AInv /\ [Next]_vars => AInv'
    BY StepInv, StepAsked DEF AInv
  <1> QED BY <1>1, <1>2, PTL DEF Spec

\* The types, for any number of loads, runs, presses and taps, and whatever power is lost.
THEOREM Typed == Spec => []TypeOK
  <1>1. AInv => TypeOK
    BY DEF AInv, IInv
  <1> QED BY <1>1, AskedInvariance, PTL

\* At most one automatic email of a load goes out, whatever the restarts, the runs past their limit,
\* the retries and the late answers, and however many; and where the box loses power over a send
\* whose commit was not on the disk yet, what comes next searches or looks before it sends.
THEOREM OneEmail == Spec => []AtMostOneSend
  <1>1. AInv => AtMostOneSend
    BY DEF AInv, IInv, CoreInv, TransitKnown, AtMostOneSend
  <1> QED BY <1>1, AskedInvariance, PTL

\* Nothing is sent that no tap and no person asked for, whatever the sweep left and however often
\* the process restarts or the power goes.
THEOREM OnlyAsked == Spec => SendOnlyAsked
  <1>1. AInv /\ [Next]_vars => [\A l \in Loads : Sends(l) => l \in asked]_vars
    BY StepSends
  <1> QED BY <1>1, AskedInvariance, PTL DEF Spec, SendOnlyAsked

\* A load a person billed while the job had stopped on it, or while the box was down, is never sent
\* over, whatever brings it back.
THEOREM NeverOverBilled == Spec => NoSendOverBilled
  <1>1. AInv /\ [Next]_vars => [\A l \in Loads : Sends(l) => l \notin billed]_vars
    BY StepSends DEF Wary
  <1> QED BY <1>1, AskedInvariance, PTL DEF Spec, NoSendOverBilled

-----------------------------------------------------------------------------
(* On a box that keeps what it committed, no claim forgets a send. *)

\* What holds there and not after a loss of power: a message delivered has a claim that says so, and
\* no factored load went out.
KInv == AInv /\ DeliveredKnown /\ FactoredNeverSent

\* Nothing is filed, sent or marked: no factored load went out.
LEMMA NothingSent ==
    ASSUME FactoredNeverSent, UNCHANGED <<outbox, delivered, marker>> PROVE FactoredNeverSent'
  BY DEF FactoredNeverSent

\* Every step keeps the promise on factored loads.
LEMMA StepFactored ==
    ASSUME ~PowerLosses, AInv, DeliveredKnown, FactoredNeverSent, [Next]_vars PROVE FactoredNeverSent'
  <1>1. Core /\ RestTypeOK
    BY TypesAreParts DEF AInv, IInv, Core
  <1>2. ASSUME NEW r \in Runs, RunStep(r) PROVE FactoredNeverSent'
    <2>1. marker' = marker
      BY <1>1, <1>2, OnlyUnfactoredSends
    <2>2. \A l \in Loads : outbox'[l] + delivered'[l] > 0 => outbox[l] + delivered[l] > 0 \/ ~Factored(l)
      BY <1>1, <1>2, OnlyUnfactoredSends
    <2> QED BY <1>1, <2>1, <2>2, FactoredKept
  <1>3. ASSUME NEW l \in Loads, LateDelivery(l) PROVE FactoredNeverSent'
    <2>1. /\ outbox[l] > 0 /\ outbox' = [outbox EXCEPT ![l] = @ - 1]
          /\ delivered' = [delivered EXCEPT ![l] = @ + 1] /\ marker' = marker
      BY <1>3 DEF LateDelivery, Deliver, ledgerVars
    <2>2. \A k \in Loads : outbox'[k] + delivered'[k] > 0 => outbox[k] + delivered[k] > 0
      BY <1>1, <2>1 DEF Core, CoreTypeOK
    <2> QED BY <1>1, <2>1, <2>2, FactoredKept
  <1>4. SwitchNext => FactoredNeverSent'
    BY <1>1, SwitchNeverOverSend
  <1>5. UNCHANGED <<outbox, delivered, marker>> => FactoredNeverSent'
    BY NothingSent
  <1>6. UNCHANGED vars => UNCHANGED <<outbox, delivered, marker>>
    BY DEF vars, ledgerVars, gmailVars, sharedVars
  <1>7. \A r \in Runs : ~PowerLoss(r)
    BY DEF PowerLoss
  <1> QED BY <1>2, <1>3, <1>4, <1>5, <1>6, <1>7, QuietSteps DEF Next, Run

\* It holds at the start.
LEMMA InitKInv == Init => KInv
  <1> SUFFICES ASSUME Init PROVE KInv
    OBVIOUS
  <1>1. AInv
    BY InitInv, InitAsked DEF AInv
  <1>2. \A l \in Loads : outbox[l] = 0 /\ delivered[l] = 0
    BY DEF Init, NothingElseYet
  <1>3. FactoredNeverSent
    BY DEF FactoredNeverSent, Init, NothingElseYet
  <1> QED BY <1>1, <1>2, <1>3 DEF KInv, DeliveredKnown

\* Every step keeps it.
LEMMA StepKInv ==
    ASSUME ~PowerLosses, KInv, [Next]_vars PROVE KInv'
  <1>1. AInv /\ Core /\ DeliveredKnown /\ FactoredNeverSent
    BY TypesAreParts DEF KInv, AInv, IInv, Core
  <1>2. AInv'
    BY <1>1, StepInv, StepAsked DEF AInv
  <1>3. CoreKept
    <2>1. Next => CoreKept
      BY <1>1, StepKeeps DEF PowerLoss
    <2>2. UNCHANGED vars => CoreKept
      BY <1>1, CoreStutter DEF vars, ledgerVars, gmailVars, Core, CoreTypeOK
    <2> QED BY <2>1, <2>2
  <1> QED BY <1>1, <1>2, <1>3, DeliveredKept, StepFactored DEF KInv

\* So every reachable state has it.
LEMMA Invariance == ASSUME ~PowerLosses PROVE Spec => []KInv
  <1>1. KInv /\ [Next]_vars => KInv'
    BY StepKInv
  <1> QED BY <1>1, InitKInv, PTL DEF Spec

\* A claim, the run at work on it and the message on its way stay in step, across restarts, taps
\* and runs that outlive their limit.
THEOREM SendsInStep == ASSUME ~PowerLosses PROVE Spec => []SendInv
  <1>1. KInv => SendInv
    BY TypesAreParts, SendInvIs DEF KInv, AInv, IInv
  <1> QED BY <1>1, Invariance, PTL

\* A load whose invoice went, or may go, by email is never marked factored.
THEOREM NoFactoredEmail == ASSUME ~PowerLosses PROVE Spec => []FactoredNeverSent
  <1>1. KInv => FactoredNeverSent
    BY DEF KInv
  <1> QED BY <1>1, Invariance, PTL

-----------------------------------------------------------------------------
(* The mail. A restart queues what waits, so what waits must have nothing in Gmail yet:   *)
(* WaitInv says so, and that a run about to leave a claim waiting has nothing there.      *)

WaitInv ==
    /\ \A l \in Loads : claims[l].state = "waiting" => claims[l].stage \in StagesBeforeAppend
    /\ \A r \in Runs : runs[r].pc = "snapshot" /\ Holds(r) => Mine(r).stage \in StagesBeforeAppend

\* The invariant with the mail.
MInv == KInv /\ MailInv /\ WaitInv /\ MaybeSentIsUnfound

\* Every such state is one MailProofs speaks of.
LEMMA KnownOf == MInv => Known
  BY TypesAreParts DEF MInv, KInv, AInv, IInv, Known, Core

\* A claim is written: what waits still has nothing in Gmail, and maybe sent is unfound.
LEMMA WaitWrite ==
    ASSUME Core, WaitInv, MaybeSentIsUnfound, NEW l \in Loads, NEW d, claims' = [claims EXCEPT ![l] = d],
           d.state = "waiting" => d.stage \in StagesBeforeAppend,
           d.state = "needs_attention" /\ d.reason = "MAYBE_SENT" => SendInFlight(d),
           \A p \in Runs : runs'[p].pc = "snapshot" =>
              \/ runs'[p].load = l /\ (d.state = "working" /\ d.owner = p => d.stage \in StagesBeforeAppend)
              \/ runs'[p] = runs[p] /\ runs[p].load # l
    PROVE  WaitInv' /\ MaybeSentIsUnfound'
  <1>1. \A k \in Loads : claims'[k] = IF k = l THEN d ELSE claims[k]
    BY DEF Core, CoreTypeOK
  <1>2. MaybeSentIsUnfound'
    BY <1>1 DEF MaybeSentIsUnfound, SendInFlight
  <1>3. \A k \in Loads : claims'[k].state = "waiting" => claims'[k].stage \in StagesBeforeAppend
    BY <1>1 DEF WaitInv
  <1>4. ASSUME NEW p \in Runs, runs'[p].pc = "snapshot", Holds(p)' PROVE Mine(p).stage' \in StagesBeforeAppend
    <2>1. CASE runs'[p].load = l /\ (d.state = "working" /\ d.owner = p => d.stage \in StagesBeforeAppend)
      BY <1>1, <1>4, <2>1 DEF Holds, Mine, LoadOf
    <2>2. CASE runs'[p] = runs[p] /\ runs[p].load # l
      <3>1. runs[p].load \in Loads
        BY <1>4, <2>2 DEF Core, CoreTypeOK, RunTypeOK
      <3>2. Holds(p) /\ Mine(p).stage' = Mine(p).stage
        BY <1>1, <1>4, <2>2, <3>1 DEF Holds, Mine, LoadOf
      <3> QED BY <1>4, <2>2, <3>2 DEF WaitInv
    <2> QED BY <1>4, <2>1, <2>2
  <1> QED BY <1>2, <1>3, <1>4 DEF WaitInv

\* Somebody who is no run writes it, or a run that ends.
LEMMA WaitPlain ==
    ASSUME Core, WaitInv, MaybeSentIsUnfound, NEW l \in Loads, NEW d, claims' = [claims EXCEPT ![l] = d],
           d.state = "waiting" => d.stage \in StagesBeforeAppend,
           d.state = "needs_attention" /\ d.reason = "MAYBE_SENT" => SendInFlight(d),
           d.state # "working" \/ d.owner = NoRun,
           \A p \in Runs : runs'[p].pc = "snapshot" => runs'[p] = runs[p]
    PROVE  WaitInv' /\ MaybeSentIsUnfound'
  <1>1. \A p \in Runs : runs'[p].pc = "snapshot" =>
              \/ runs'[p].load = l /\ (d.state = "working" /\ d.owner = p => d.stage \in StagesBeforeAppend)
              \/ runs'[p] = runs[p] /\ runs[p].load # l
    BY RunsAreNotNoRun
  <1> QED BY <1>1, WaitWrite

\* No claim is written and no run begins.
LEMMA WaitStutter ==
    ASSUME WaitInv, MaybeSentIsUnfound, claims' = claims, \A p \in Runs : runs'[p].pc = "snapshot" => runs'[p] = runs[p]
    PROVE  WaitInv' /\ MaybeSentIsUnfound'
  <1>1. MaybeSentIsUnfound'
    BY DEF MaybeSentIsUnfound, SendInFlight
  <1>2. ASSUME NEW p \in Runs, runs'[p].pc = "snapshot", Holds(p)' PROVE Mine(p).stage' \in StagesBeforeAppend
    <2>1. Holds(p) /\ Mine(p).stage' = Mine(p).stage /\ runs[p].pc = "snapshot"
      BY <1>2 DEF Holds, Mine, LoadOf
    <2> QED BY <2>1 DEF WaitInv
  <1> QED BY <1>1, <1>2 DEF WaitInv

\* A step of a run.
LEMMA RunWait ==
    ASSUME Known, WaitInv, MaybeSentIsUnfound, NEW r \in Runs, RunShape(r)
    PROVE  WaitInv' /\ MaybeSentIsUnfound'
  <1>1. PICK q : runs' = [runs EXCEPT ![r] = q] /\ q.pc # "snapshot"
    BY DEF RunShape, Moves
  <1>2. Core /\ runs[r].pc # "idle" /\ runs \in [Runs -> RunRecord]
    BY DEF Known, RunShape, Core, CoreTypeOK, RunTypeOK, RunRecord
  <1>3. \A p \in Runs : runs'[p].pc = "snapshot" => runs'[p] = runs[p] /\ p # r
    BY <1>1, <1>2
  <1>4. CASE claims' = claims
    BY <1>3, <1>4, WaitStutter
  <1>5. CASE Holds(r) /\ \E d : Wrote(r, d)
    <2>1. PICK d : Wrote(r, d)
      BY <1>5
    <2> DEFINE l == LoadOf(r)
    <2>2. claims' = [claims EXCEPT ![l] = d] /\ Kept(r, d)
      BY <2>1 DEF Wrote
    <2>3. l \in Loads /\ Mine(r).state = "working" /\ Mine(r).owner = r /\ StageFits(runs[r].pc, Mine(r)) /\ RunFits(runs[r].pc, Mine(r))
      BY <1>2, <1>5, HeldMail
    <2>4. d.state = "waiting" => d.stage \in StagesBeforeAppend
      <3>1. SUFFICES ASSUME d.state = "waiting" PROVE Mine(r).stage \in StagesBeforeAppend /\ d.stage = KeptStage(Mine(r))
        BY DEF KeptStage, StagesBeforeAppend
      <3>2. runs[r].pc \in {"snapshot", "prepare"} /\ d.stage = KeptStage(Mine(r))
        BY <2>2, <3>1 DEF Kept
      <3> QED BY <1>5, <2>3, <3>2 DEF WaitInv, RunFits
    <2>5. d.state = "needs_attention" /\ d.reason = "MAYBE_SENT" => SendInFlight(d)
      BY <2>2, <2>3 DEF Kept, StageFits, SendInFlight
    <2>6. d.state = "working" => d.owner = r
      BY <2>2, <2>3 DEF Kept
    <2>7. \A p \in Runs : runs'[p].pc = "snapshot" =>
              \/ runs'[p].load = l /\ (d.state = "working" /\ d.owner = p => d.stage \in StagesBeforeAppend)
              \/ runs'[p] = runs[p] /\ runs[p].load # l
      <3> HIDE DEF l
      <3> QED BY <1>3, <2>6
    <2> HIDE DEF l
    <2> QED BY <1>2, <2>2, <2>3, <2>4, <2>5, <2>7, WaitWrite
  <1> QED BY <1>4, <1>5 DEF RunShape

\* The trigger's own writes: what a person is left with may take the claim's place, and the draft
\* being filed for it goes on.
LEMMA ToPersonGoesOn ==
    ASSUME Known, NEW l \in Loads, claims[l].state = "working"
    PROVE  LET d == ToPerson(claims[l]) IN
           /\ Follows(claims[l], d) /\ d.owner = NoRun /\ d.state = "needs_attention"
           /\ MaybeSent(d) => SendInFlight(claims[l])
           /\ Overlaps \/ \A p \in Runs : runs[p].pc = "append" /\ LoadOf(p) = l => TriggerMode /\ BeingFiled(d)
           /\ d.reason = "MAYBE_SENT" => SendInFlight(d)
  <1> DEFINE c == claims[l]  d == ToPerson(c)
  <1>1. c \in Claim /\ Numbered(c) /\ c.state # "none" /\ ClaimTrue(c)
    BY DEF Known, Core, CoreTypeOK, CoreInv, TransitKnown, MailInv, BooksTrue, ClaimsTrue
  <1>2. /\ Follows(c, d) /\ d.owner = NoRun /\ d.state = "needs_attention" /\ d.stage = KeptStage(c)
        /\ d.sending = c.sending /\ (MaybeSent(d) => SendInFlight(c))
    BY <1>1, ToPersonFollows
  <1>3. d.reason = IF SendInFlight(c) THEN "MAYBE_SENT" ELSE "OTHER"
    BY <1>1, ReleaseFields DEF ToPerson, States, Reasons
  <1> HIDE DEF d
  <1>4. ASSUME ~Overlaps, NEW p \in Runs, runs[p].pc = "append", LoadOf(p) = l PROVE BeingFiled(d)
    <2>1. BeingFiled(c)
      BY <1>4, FilesAloneMeans DEF Known, MailInv, Mine
    <2>2. d.stage = "appending"
      BY <1>2, <2>1 DEF BeingFiled, KeptStage, StagesBeforeAppend
    <2> QED BY <1>2, <2>1, <2>2 DEF BeingFiled
  <1>5. d.reason = "MAYBE_SENT" => SendInFlight(d)
    <2>1. SUFFICES ASSUME SendInFlight(c) PROVE d.stage = c.stage
      BY <1>2, <1>3 DEF SendInFlight
    <2> QED BY <1>2, <2>1 DEF SendInFlight, KeptStage, StagesBeforeAppend
  <1> QED BY <1>2, <1>4, <1>5, TriggerAssumption DEF d

\* The run past its limit leaves its claim to a person, and may still be filing.
LEMMA RunLimitMail ==
    ASSUME Known, WaitInv, MaybeSentIsUnfound, NEW r \in Runs, runs[r].pc # "idle", RunLimit(r)
    PROVE  MailKeeps /\ WaitInv' /\ MaybeSentIsUnfound'
  <1>1. UNCHANGED <<runs, outbox>> /\ UNCHANGED booksVars
    BY DEF RunLimit, sharedVars, gmailVars, booksVars
  <1>2. CASE Holds(r)
    <2> DEFINE l == LoadOf(r)  d == ToPerson(claims[l])
    <2>1. l \in Loads /\ claims[l].state = "working" /\ claims[l] = Mine(r)
      BY <1>2, HeldMail
    <2>2. WriteClaim(l, d) /\ stop' = (stop \/ SendInFlight(claims[l]))
      BY <1>2, <2>1 DEF RunLimit, CloseRun
    <2> HIDE DEF l
    <2>3. /\ Follows(claims[l], d) /\ d.owner = NoRun /\ d.state = "needs_attention"
          /\ MaybeSent(d) => SendInFlight(claims[l])
          /\ Overlaps \/ \A p \in Runs : runs[p].pc = "append" /\ LoadOf(p) = l => TriggerMode /\ BeingFiled(d)
          /\ d.reason = "MAYBE_SENT" => SendInFlight(d)
      BY <2>1, ToPersonGoesOn
    <2> HIDE DEF d
    <2>4. MailKeeps
      BY <1>1, <2>1, <2>2, <2>3, PlainMail
    <2>5. Core /\ claims' = [claims EXCEPT ![l] = d] /\ \A p \in Runs : runs'[p].pc = "snapshot" => runs'[p] = runs[p]
      BY <1>1, <2>2 DEF WriteClaim, Known
    <2>6. WaitInv' /\ MaybeSentIsUnfound'
      BY <2>1, <2>3, <2>5, WaitPlain
    <2> QED BY <2>4, <2>6
  <1>3. CASE ~Holds(r)
    <2>1. UNCHANGED <<claims, givenUp, stop>>
      BY <1>3 DEF RunLimit, CloseRun
    <2> QED BY <1>1, <2>1, MailStutter, WaitStutter
  <1> QED BY <1>2, <1>3

\* A run that is over files nothing any more.
LEMMA RunOverMail ==
    ASSUME Known, WaitInv, MaybeSentIsUnfound, NEW r \in Runs, RunOver(r)
    PROVE  MailKeeps /\ WaitInv' /\ MaybeSentIsUnfound'
  <1>1. /\ runs[r].pc = "close" /\ runs[r].pc # "idle" /\ runs' = [runs EXCEPT ![r] = IdleRun]
        /\ UNCHANGED outbox /\ UNCHANGED booksVars
    BY DEF RunOver, sharedVars, gmailVars, booksVars
  <1>2. RunOK(IdleRun) /\ IdleRun.pc = "idle"
    BY DEF RunOK, RunRecord, IdleRun, PCs
  <1>3. Core /\ runs \in [Runs -> RunRecord]
    BY DEF Known, Core, CoreTypeOK, RunTypeOK, RunRecord
  <1>4. \A p \in Runs : runs'[p].pc = "snapshot" => runs'[p] = runs[p]
    BY <1>1, <1>2, <1>3
  <1>5. copies' = copies
    BY <1>1 DEF booksVars
  <1>6. \A p \in Runs : runs[p].pc = "append" /\ p # r => Absent(copies', runs[p].num)
    BY <1>5, NothingFiled
  <1>7. CASE line = r /\ Holds(r)
    <2> DEFINE l == LoadOf(r)  d == ToPerson(claims[l])
    <2>1. /\ l \in Loads /\ claims[l].state = "working" /\ claims[l] = Mine(r)
          /\ Overlaps \/ \A p \in Runs : runs[p].pc = "append" /\ LoadOf(p) = LoadOf(r) => p = r
      BY <1>1, <1>7, HeldMail
    <2>2. WriteClaim(l, d) /\ stop' = (stop \/ SendInFlight(claims[l]))
      BY <1>7, <2>1 DEF RunOver, CloseRun
    <2>3. /\ Follows(claims[l], d) /\ d.owner = NoRun /\ d.state = "needs_attention"
          /\ MaybeSent(d) => SendInFlight(claims[l])
          /\ d.reason = "MAYBE_SENT" => SendInFlight(d)
      BY <2>1, ToPersonGoesOn
    <2>4. Overlaps \/ \A p \in Runs : runs[p].pc = "append" /\ LoadOf(p) = l => p = r
      BY <2>1
    <2> HIDE DEF d, l
    <2>5. /\ d \in Claim /\ Numbered(d) /\ d.num = claims[l].num /\ ClaimTrue(d) /\ (claims[l].voided => d.voided)
          /\ claims' = [claims EXCEPT ![l] = d]
      BY <2>2, <2>3 DEF Follows, SafeAfter, WriteClaim
    <2>6. BooksTrue'
      <3>1. (MaybeSent(d) => stop') /\ (stop => stop')
        BY <2>2, <2>3
      <3>2. outbox' \in [Loads -> Nat] /\ \A k \in Loads : outbox'[k] <= outbox[k]
        BY <1>1, <1>3 DEF Core, CoreTypeOK
      <3> QED BY <1>1, <2>1, <2>2, <2>5, <3>1, <3>2, BooksWrite
    <2>7. SendsKept
      BY <2>1, <2>3, <2>5, KeptByFollowing
    <2>8. RunsTrue' /\ FilesAlone'
      BY <1>1, <1>2, <1>6, <2>1, <2>3, <2>4, <2>5, RunsWrite, RunsAreNotNoRun
    <2>9. WaitInv' /\ MaybeSentIsUnfound'
      BY <1>3, <1>4, <2>1, <2>3, <2>5, WaitPlain
    <2> QED BY <2>6, <2>7, <2>8, <2>9 DEF MailKeeps, MailInv
  <1>8. CASE ~(line = r /\ Holds(r))
    <2>1. UNCHANGED <<claims, givenUp, stop>>
      BY <1>8 DEF RunOver, CloseRun
    <2>2. BooksTrue' /\ SendsKept
      BY <1>1, <2>1, BooksStutter, KeptByStutter
    <2>3. RunsTrue' /\ FilesAlone'
      BY <1>1, <1>2, <1>6, <2>1, RunsMove
    <2>4. WaitInv' /\ MaybeSentIsUnfound'
      BY <1>4, <2>1, WaitStutter
    <2> QED BY <2>2, <2>3, <2>4 DEF MailKeeps, MailInv
  <1> QED BY <1>7, <1>8

\* A run that starts on a claim.
LEMMA StartsWait ==
    ASSUME Known, WaitInv, MaybeSentIsUnfound, NEW r \in Runs, NEW l \in Loads, claims[l].state \in {"queued", "working"},
           claims' = [claims EXCEPT ![l] = Taken(claims[l], r)],
           NEW pc, NEW recovering, Starts(r, l, pc, recovering),
           pc = "snapshot" => claims[l].stage \in StagesBeforeAppend
    PROVE  WaitInv' /\ MaybeSentIsUnfound'
  <1> DEFINE d == Taken(claims[l], r)
  <1>1. /\ d.owner = r /\ d.state = "working" /\ d.stage = claims[l].stage
        /\ claims' = [claims EXCEPT ![l] = d]
    BY TakenFollows
  <1> HIDE DEF d
  <1>2. Core /\ runs \in [Runs -> RunRecord]
    BY DEF Known, Core, CoreTypeOK, RunTypeOK, RunRecord
  <1> DEFINE q == [pc |-> pc, load |-> l, recovering |-> recovering, num |-> 0]
  <1>3. runs' = [runs EXCEPT ![r] = q] /\ q.pc = pc /\ q.load = l
    BY DEF Starts
  <1> HIDE DEF q
  <1>4. \A p \in Runs : runs'[p] = IF p = r THEN q ELSE runs[p]
    BY <1>2, <1>3
  <1>5. \A p \in Runs : runs'[p].pc = "snapshot" =>
              \/ runs'[p].load = l /\ (d.state = "working" /\ d.owner = p => d.stage \in StagesBeforeAppend)
              \/ runs'[p] = runs[p] /\ runs[p].load # l
    BY <1>1, <1>3, <1>4
  <1>6. /\ d.state = "waiting" => d.stage \in StagesBeforeAppend
        /\ d.state = "needs_attention" /\ d.reason = "MAYBE_SENT" => SendInFlight(d)
    BY <1>1
  <1>7. claims' = [claims EXCEPT ![l] = d]
    BY <1>1
  <1> QED BY <1>2, <1>5, <1>6, <1>7, WaitWrite

\* The line takes a claim over, or leaves it to a person.
LEMMA LineHeldMail ==
    ASSUME Known, WaitInv, MaybeSentIsUnfound, NEW r \in Runs, NEW l \in Loads, LineHeld(r, l)
    PROVE  MailKeeps /\ WaitInv' /\ MaybeSentIsUnfound'
  <1>1. UNCHANGED presses /\ claims[l].state = "working" /\ Core /\ claims[l] \in Claim /\ Numbered(claims[l])
    BY DEF LineHeld, Held, Known, Core, CoreTypeOK, CoreInv, TransitKnown
  <1>2. CASE TakeOver(r, l)
    <2>1. MailKeeps
      BY <1>1, <1>2, TakeOverMail
    <2>2. CASE \E pc \in PCs \ {"snapshot"} : Starts(r, l, pc, TRUE) /\ WriteClaim(l, Taken(claims[l], r))
      <3>1. PICK pc \in PCs \ {"snapshot"} : Starts(r, l, pc, TRUE) /\ WriteClaim(l, Taken(claims[l], r))
        BY <2>2
      <3>2. pc # "snapshot" /\ claims' = [claims EXCEPT ![l] = Taken(claims[l], r)]
        BY <3>1 DEF WriteClaim
      <3>3. WaitInv' /\ MaybeSentIsUnfound'
        BY <1>1, <3>1, <3>2, StartsWait
      <3> QED BY <2>1, <3>3
    <2>3. CASE /\ WriteClaim(l, Requeue(Taken(claims[l], r), KeptStage(Taken(claims[l], r))))
               /\ IF TriggerMode THEN Starts(r, l, "close", TRUE) ELSE UNCHANGED runs
      <3> DEFINE c == Taken(claims[l], r)  d == Requeue(c, KeptStage(c))
      <3>1. c \in Claim
        BY <1>1, TakenFields
      <3>2. KeptStage(c) \in Stages
        BY <3>1 DEF KeptStage, Claim, StagesBeforeAppend, Stages
      <3> HIDE DEF c
      <3>3. d.state = "queued"
        BY <3>1, <3>2, RequeueFields
      <3>4. claims' = [claims EXCEPT ![l] = d]
        BY <2>3 DEF WriteClaim, c
      <3>5. \A p \in Runs : runs'[p].pc = "snapshot" => runs'[p] = runs[p]
        BY <1>1, <2>3, TriggerAssumption DEF Starts, Core, CoreTypeOK, RunTypeOK
      <3> HIDE DEF d
      <3> QED BY <1>1, <2>1, <3>3, <3>4, <3>5, WaitPlain
    <2>4. Recover(r, l)
      BY <1>2 DEF TakeOver
    <2>5. {"searchSent", "searchLost", "searchLeft", "rebuild"} \subseteq PCs \ {"snapshot"}
      BY DEF PCs
    <2> QED BY <2>1, <2>2, <2>3, <2>4, <2>5 DEF Recover
  <1>3. CASE /\ WriteClaim(l, ToPerson(claims[l]))
             /\ stop' = (stop \/ SendInFlight(claims[l]))
             /\ UNCHANGED <<line, runs, sharedVars, gmailVars>>
    <2> DEFINE d == ToPerson(claims[l])
    <2>1. /\ Follows(claims[l], d) /\ d.owner = NoRun /\ d.state = "needs_attention"
          /\ MaybeSent(d) => SendInFlight(claims[l])
          /\ Overlaps \/ \A p \in Runs : runs[p].pc = "append" /\ LoadOf(p) = l => TriggerMode /\ BeingFiled(d)
          /\ d.reason = "MAYBE_SENT" => SendInFlight(d)
      BY <1>1, ToPersonGoesOn
    <2>2. WriteClaim(l, d)
      BY <1>3
    <2> HIDE DEF d
    <2>3. (MaybeSent(d) => stop') /\ (stop => stop') /\ UNCHANGED <<runs, outbox>> /\ UNCHANGED booksVars
      BY <1>1, <1>3, <2>1 DEF sharedVars, gmailVars, booksVars
    <2>4. MailKeeps
      BY <2>1, <2>2, <2>3, PlainMail
    <2>5. claims' = [claims EXCEPT ![l] = d] /\ \A p \in Runs : runs'[p].pc = "snapshot" => runs'[p] = runs[p]
      BY <2>2, <2>3 DEF WriteClaim
    <2>6. WaitInv' /\ MaybeSentIsUnfound'
      BY <1>1, <2>1, <2>5, WaitPlain
    <2> QED BY <2>4, <2>6
  <1> QED BY <1>2, <1>3 DEF LineHeld

\* What a restart, or a run too many, leaves to a person may take the claim's place.
LEMMA LeftFollows ==
    ASSUME NEW c \in Claim, Numbered(c), c.state # "none", ClaimTrue(c) PROVE Follows(c, Left(c))
  <1> DEFINE d == Left(c)
  <1>1. /\ SafeAfter(c, d) /\ d.state = "needs_attention" /\ d.stage = KeptStage(c)
        /\ d.num = c.num /\ d.sending = c.sending /\ d.voided = c.voided
    BY LeftFields
  <1> HIDE DEF d
  <1>2. d.stage = c.stage \/ {c.stage, d.stage} \subseteq StagesBeforeAppend
    BY <1>1 DEF KeptStage, StagesBeforeAppend
  <1>3. d.voided => c.voided
    BY <1>1
  <1>4. Follows(c, d)
    BY <1>1, <1>2, <1>3, FollowsBySame
  <1> QED BY <1>4 DEF d

\* The line takes the next claim due, or leaves it to a person.
LEMMA LineTakesMail ==
    ASSUME Known, WaitInv, MaybeSentIsUnfound, NEW r \in Runs, NEW l \in Loads, LineTakes(r, l)
    PROVE  MailKeeps /\ WaitInv' /\ MaybeSentIsUnfound'
  <1>1. UNCHANGED presses /\ claims[l].state = "queued" /\ Core /\ claims[l] \in Claim /\ Numbered(claims[l]) /\ ClaimTrue(claims[l])
    BY DEF LineTakes, Due, Known, Core, CoreTypeOK, CoreInv, TransitKnown, MailInv, BooksTrue, ClaimsTrue
  <1>2. claims[l].stage \in StagesBeforeAppend
    BY <1>1, TriggerAssumption DEF ClaimTrue
  <1>3. CASE Lease(r, l)
    <2>1. MailKeeps
      BY <1>1, <1>3, LeaseMail
    <2>2. Starts(r, l, "snapshot", FALSE) /\ claims' = [claims EXCEPT ![l] = Taken(claims[l], r)]
      BY <1>3 DEF Lease, WriteClaim
    <2>3. WaitInv' /\ MaybeSentIsUnfound'
      BY <1>1, <1>2, <2>2, StartsWait
    <2> QED BY <2>1, <2>3
  <1>4. CASE WriteClaim(l, Left(claims[l])) /\ UNCHANGED <<line, runs, sharedVars, stop, gmailVars>>
    <2> DEFINE d == Left(claims[l])
    <2>1. /\ Follows(claims[l], d) /\ d.state = "needs_attention" /\ d.reason = "OTHER" /\ d.owner = NoRun
      BY <1>1, LeftFollows, LeftFields
    <2>2. WriteClaim(l, d)
      BY <1>4
    <2> HIDE DEF d
    <2>3. (stop => stop') /\ UNCHANGED <<runs, outbox>> /\ UNCHANGED booksVars
      BY <1>1, <1>4 DEF sharedVars, gmailVars, booksVars
    <2>4. ASSUME ~Overlaps, NEW p \in Runs, runs[p].pc = "append", LoadOf(p) = l PROVE FALSE
      BY <1>1, <2>4, FiledUnheld DEF BeingFiled
    <2>5. ~MaybeSent(d)
      BY <2>1 DEF MaybeSent
    <2>6. MailKeeps
      BY <2>1, <2>2, <2>3, <2>4, <2>5, PlainMail
    <2>7. claims' = [claims EXCEPT ![l] = d] /\ \A p \in Runs : runs'[p].pc = "snapshot" => runs'[p] = runs[p]
      BY <2>2, <2>3 DEF WriteClaim
    <2>8. WaitInv' /\ MaybeSentIsUnfound'
      BY <1>1, <2>1, <2>7, WaitPlain
    <2> QED BY <2>6, <2>8
  <1> QED BY <1>3, <1>4 DEF LineTakes, Left

\* A claim no run holds is opened again: only where nothing of it is in Gmail can it wait or be queued.
LEMMA OpenMail ==
    ASSUME Known, WaitInv, MaybeSentIsUnfound, NEW l \in Loads, claims[l].state \in {"waiting", "needs_attention"},
           NEW d \in Claim, d.stage = claims[l].stage, d.num = claims[l].num, d.sending = claims[l].sending,
           d.voided = claims[l].voided,
           \/ d.state \in {"waiting", "queued"} /\ d.stage \in StagesBeforeAppend
           \/ d.state = "working" /\ d.owner = NoRun,
           WriteClaim(l, d), UNCHANGED <<sharedVars, stop, gmailVars, runs, presses>>
    PROVE  MailKeeps /\ WaitInv' /\ MaybeSentIsUnfound'
  <1> DEFINE c == claims[l]
  <1>1. Core /\ c \in Claim /\ Numbered(c) /\ ClaimTrue(c)
    BY DEF Known, Core, CoreTypeOK, CoreInv, TransitKnown, MailInv, BooksTrue, ClaimsTrue
  <1>2. SafeAfter(c, d)
    BY <1>1 DEF SafeAfter, Numbered, ClaimSent
  <1>3. d.state \in {"waiting", "queued"} => c.stage \notin InGmail /\ ~ClaimSent(c)
    BY DEF StagesBeforeAppend, InGmail, ClaimSent
  <1>4. Follows(c, d)
    <2>1. c.voided => d.voided
      OBVIOUS
    <2>2. d.voided => c.voided \/ d.stage \in StagesBeforeAppend
      OBVIOUS
    <2>3. d.state \notin {"none", "baseline"} /\ d.num = c.num /\ d.sending = c.sending /\ d.stage = c.stage
      OBVIOUS
    <2>4. TriggerMode /\ d.state = "queued" => d.stage \in StagesBeforeAppend
      OBVIOUS
    <2> HIDE DEF c
    <2> QED BY <1>1, <1>2, <1>3, <2>1, <2>2, <2>3, <2>4, FollowsBySame
  <1>5. ASSUME ~Overlaps, NEW p \in Runs, runs[p].pc = "append", LoadOf(p) = l PROVE BeingFiled(d)
    <2>1. BeingFiled(c)
      BY <1>5, FiledUnheld
    <2> QED BY <2>1 DEF BeingFiled, StagesBeforeAppend
  <1>6. (stop => stop') /\ UNCHANGED <<runs, outbox>> /\ UNCHANGED booksVars /\ ~MaybeSent(d)
    BY DEF sharedVars, gmailVars, booksVars, MaybeSent
  <1>7. MailKeeps
    BY <1>4, <1>5, <1>6, PlainMail, TriggerAssumption
  <1>8. claims' = [claims EXCEPT ![l] = d] /\ \A p \in Runs : runs'[p].pc = "snapshot" => runs'[p] = runs[p]
    BY DEF WriteClaim
  <1>9. d.state # "working" \/ d.owner = NoRun
    OBVIOUS
  <1>10. WaitInv' /\ MaybeSentIsUnfound'
    BY <1>1, <1>8, <1>9, WaitPlain
  <1> QED BY <1>7, <1>10

\* Nothing of the mail is touched.
LEMMA QuietMail ==
    ASSUME Known, WaitInv, MaybeSentIsUnfound, UNCHANGED <<ledgerVars, gmailVars, runs, presses>>
    PROVE  MailKeeps /\ WaitInv' /\ MaybeSentIsUnfound'
  <1>1. UNCHANGED <<claims, givenUp, stop, outbox, runs>> /\ UNCHANGED booksVars
    BY DEF ledgerVars, gmailVars, booksVars
  <1> QED BY <1>1, MailStutter, WaitStutter

\* The driver's tap.
LEMMA TapMail ==
    ASSUME Known, WaitInv, MaybeSentIsUnfound, NEW t \in Taps, NEW l \in Loads, Tap(t, l)
    PROVE  MailKeeps /\ WaitInv' /\ MaybeSentIsUnfound'
  <1> DEFINE c == claims[l]
  <1>1. UNCHANGED <<sharedVars, stop, gmailVars, runs, presses>>
    BY DEF Tap
  <1>2. Core /\ c \in Claim /\ Numbered(c) /\ ClaimTrue(c)
    BY DEF Known, Core, CoreTypeOK, CoreInv, TransitKnown, MailInv, BooksTrue, ClaimsTrue
  <1>3. CASE c.state = "none" /\ WriteClaim(l, NewClaim("waiting", "DRIVER_PENDING"))
    <2> DEFINE d == NewClaim("waiting", "DRIVER_PENDING")
    <2>1. /\ d \in Claim /\ d.state = "waiting" /\ d.stage = "" /\ d.num = 0
          /\ d.sending = FALSE /\ d.voided = FALSE
      BY FreshClaim
    <2>2. WriteClaim(l, d)
      BY <1>3
    <2> HIDE DEF d
    <2>3. ClaimTrue(d)
      BY <2>1 DEF ClaimTrue, InGmail, SendInFlight, StagesBeforeAppend
    <2>4. ~ClaimSent(c) /\ ~c.voided /\ c.num = 0
      BY <1>2, <1>3 DEF Numbered, ClaimSent, ClaimTrue
    <2>5. Follows(c, d)
      BY <2>1, <2>3, <2>4 DEF Follows, SafeAfter, Numbered
    <2>6. Overlaps \/ \A p \in Runs : runs[p].pc = "append" /\ LoadOf(p) = l => TriggerMode /\ BeingFiled(d)
      BY <1>3, FiledUnheld DEF BeingFiled
    <2>7. (stop => stop') /\ UNCHANGED <<runs, outbox>> /\ UNCHANGED booksVars /\ ~MaybeSent(d)
      BY <1>1, <2>1 DEF sharedVars, gmailVars, booksVars, MaybeSent
    <2>8. MailKeeps
      BY <2>1, <2>2, <2>5, <2>6, <2>7, PlainMail
    <2>9. claims' = [claims EXCEPT ![l] = d] /\ \A p \in Runs : runs'[p].pc = "snapshot" => runs'[p] = runs[p]
      BY <1>1, <2>2 DEF WriteClaim
    <2>10. WaitInv' /\ MaybeSentIsUnfound'
      BY <1>2, <2>1, <2>9, WaitPlain DEF StagesBeforeAppend
    <2> QED BY <2>8, <2>10
  <1>4. CASE c.state = "waiting" /\ WriteClaim(l, [c EXCEPT !.reason = "DRIVER_PENDING", !.look = TRUE])
    <2> DEFINE d == [c EXCEPT !.reason = "DRIVER_PENDING", !.look = TRUE]
    <2>1. /\ d \in Claim /\ d.state = c.state /\ d.stage = c.stage /\ d.num = c.num /\ d.sending = c.sending
          /\ d.voided = c.voided
      BY <1>2, TappedFields
    <2>2. WriteClaim(l, d) /\ c.stage \in StagesBeforeAppend
      BY <1>4 DEF WaitInv
    <2> HIDE DEF d
    <2> QED BY <1>1, <1>4, <2>1, <2>2, OpenMail
  <1> QED BY <1>3, <1>4 DEF Tap

\* Its write to the sheet is answered, or the row is read back.
LEMMA TapStepMail ==
    ASSUME Known, WaitInv, MaybeSentIsUnfound, OutsideOK, LineInv, NEW t \in Taps, TapStep(t)
    PROVE  MailKeeps /\ WaitInv' /\ MaybeSentIsUnfound'
  <1> DEFINE l == taps[t].load  c == claims[l]
  <1>1. l \in Loads /\ c \in Claim
    <2>1. taps[t].pc # "idle"
      BY DEF TapStep, TapWritten, TapFailed, TapSettled
    <2>2. l \in Loads
      BY <2>1 DEF LineInv, OutsideOK
    <2> QED BY <2>2 DEF Known, Core, CoreTypeOK
  <1>2. UNCHANGED <<sharedVars, stop, gmailVars, runs, presses>>
    BY DEF TapStep, TapWritten, TapFailed, TapSettled, ledgerVars, sharedVars
  <1>3. CASE UNCHANGED <<claims, givenUp>>
    BY <1>2, <1>3, QuietMail DEF ledgerVars, sharedVars
  <1>4. CASE c.state = "waiting" /\ QueueTapped(l)
    <2> DEFINE d == [c EXCEPT !.state = "queued", !.reason = "OTHER"]
    <2>1. /\ d \in Claim /\ d.state = "queued" /\ d.stage = c.stage /\ d.num = c.num /\ d.sending = c.sending
          /\ d.voided = c.voided
      BY <1>1, QueuedFields
    <2>2. WriteClaim(l, d) /\ c.stage \in StagesBeforeAppend
      BY <1>1, <1>4 DEF WaitInv, QueueTapped
    <2> HIDE DEF d
    <2> QED BY <1>1, <1>2, <1>4, <2>1, <2>2, OpenMail
  <1>5. CASE c.state = "waiting" /\ WriteClaim(l, [c EXCEPT !.reason = "NOT_COMPLETED"])
    <2> DEFINE d == [c EXCEPT !.reason = "NOT_COMPLETED"]
    <2>1. /\ d \in Claim /\ d.state = c.state /\ d.stage = c.stage /\ d.num = c.num /\ d.sending = c.sending
          /\ d.voided = c.voided
      BY <1>1, NotCompletedFields
    <2>2. WriteClaim(l, d) /\ c.stage \in StagesBeforeAppend
      BY <1>1, <1>5 DEF WaitInv
    <2> HIDE DEF d
    <2> QED BY <1>1, <1>2, <1>5, <2>1, <2>2, OpenMail
  <1>6. CASE QueueTapped(l)
    BY <1>3, <1>4, <1>6 DEF QueueTapped
  <1> QED BY <1>3, <1>5, <1>6 DEF TapStep, TapWritten, TapFailed, TapSettled, ledgerVars

\* A person's Try again.
LEMMA RetryMail ==
    ASSUME Known, WaitInv, MaybeSentIsUnfound, NEW l \in Loads, Retry(l)
    PROVE  MailKeeps /\ WaitInv' /\ MaybeSentIsUnfound'
  <1> DEFINE c == claims[l]
             e == [c EXCEPT !.reason = "OTHER", !.attempts = 0, !.look = TRUE]
             d == IF e.stage \in StagesBeforeAppend THEN [e EXCEPT !.state = "queued"]
                  ELSE [e EXCEPT !.state = "working", !.owner = NoRun, !.expired = TRUE]
  <1>1. c \in Claim /\ c.state = "needs_attention"
    BY DEF Known, Core, CoreTypeOK, Retry, Claim
  <1>2. /\ d \in Claim /\ d.stage = c.stage /\ d.num = c.num /\ d.sending = c.sending /\ d.voided = c.voided
        /\ (d.state = "queued" /\ c.stage \in StagesBeforeAppend) \/ (d.state = "working" /\ d.owner = NoRun)
    BY <1>1, RetryFields
  <1>3. WriteClaim(l, d) /\ UNCHANGED <<runs, sharedVars, stop, gmailVars, presses>>
    BY DEF Retry
  <1> HIDE DEF d
  <1> QED BY <1>1, <1>2, <1>3, OpenMail

\* What a start makes of a claim says nothing untrue, forgets no send, and lets a draft being filed
\* go on.
LEMMA StartedUpTrue ==
    ASSUME NEW c \in Claim, Numbered(c), ClaimTrue(c), NEW stale \in BOOLEAN, NEW d, d = StartedUp(c, stale),
           c.state = "waiting" => c.stage \in StagesBeforeAppend
    PROVE  /\ ClaimTrue(d) /\ d.num = c.num /\ (d.voided <=> c.voided)
           /\ ClaimSent(c) => ClaimSent(d)
           /\ d.state # "working" \/ d.owner = NoRun
           /\ d.state = "waiting" => d.stage \in StagesBeforeAppend
           /\ d.state = "needs_attention" /\ d.reason = "MAYBE_SENT" => d = c
           /\ BeingFiled(c) => BeingFiled(d)
  <1>1. CASE StartedUp(c, stale) = c /\ c.state \notin {"queued", "working"}
    BY <1>1
  <1>2. CASE StartedUp(c, stale) = Left(c) /\ c.state \in {"working", "queued", "waiting"}
    <2>1. /\ d.state = "needs_attention" /\ d.reason = "OTHER" /\ d.stage = KeptStage(c)
          /\ d.num = c.num /\ d.sending = c.sending /\ d.voided = c.voided /\ d.owner = NoRun
      BY <1>2, LeftFields
    <2>2. ClaimTrue(d) /\ SafeAfter(c, d)
      BY <1>2, LeftFollows DEF Follows
    <2>3. BeingFiled(c) => BeingFiled(d)
      BY <2>1 DEF BeingFiled, KeptStage, StagesBeforeAppend
    <2> QED BY <2>1, <2>2, <2>3 DEF SafeAfter
  <1>3. CASE StartedUp(c, stale) = [c EXCEPT !.state = "working", !.owner = NoRun, !.expired = TRUE]
    <2>1. /\ d.state = "working" /\ d.owner = NoRun /\ d.num = c.num /\ d.stage = c.stage
          /\ d.voided = c.voided /\ d.sending = c.sending
      BY <1>3 DEF Claim, States
    <2>2. ClaimTrue(d)
      BY <2>1 DEF ClaimTrue
    <2> QED BY <2>1, <2>2 DEF ClaimSent, BeingFiled
  <1>4. CASE /\ StartUpPlan(c, stale) = "queue" /\ c.state \in {"working", "queued", "waiting"}
             /\ StartedUp(c, stale) = [Unowned(c) EXCEPT !.state = "queued", !.reason = "OTHER", !.look = TRUE]
    <2>1. /\ d.state = "queued" /\ d.num = c.num /\ d.stage = c.stage
          /\ d.voided = c.voided /\ d.sending = c.sending
      BY <1>4 DEF Claim, States, Reasons, Unowned
    <2>2. c.stage \in StagesBeforeAppend
      <3>1. CASE c.state = "waiting"
        BY <3>1
      <3>2. CASE c.state = "queued"
        BY <3>2, TriggerAssumption DEF ClaimTrue
      <3>3. CASE c.state = "working"
        <4>1. ~Went(c) /\ ~(c.stage = "appending" /\ ~c.sending)
          BY <1>4, <3>3 DEF StartUpPlan
        <4> QED BY <4>1 DEF Went, SendInFlight, StagesBeforeAppend, Claim, Stages
      <3> QED BY <1>4, <3>1, <3>2, <3>3
    <2>3. ClaimTrue(d) /\ ~ClaimSent(c) /\ ~BeingFiled(c)
      BY <2>1, <2>2 DEF ClaimTrue, ClaimSent, BeingFiled, SendInFlight, StagesBeforeAppend, InGmail
    <2> QED BY <2>1, <2>2, <2>3
  <1> QED BY <1>1, <1>2, <1>3, <1>4, StartedUpFields

\* Every claim is written at once, by nobody's run.
LEMMA AllWrittenMail ==
    ASSUME Known, WaitInv, MaybeSentIsUnfound, UNCHANGED <<runs, givenUp, outbox, stop>>, UNCHANGED booksVars,
           \A l \in Loads :
              /\ ClaimTrue(claims'[l]) /\ claims'[l].num = claims[l].num /\ (claims'[l].voided <=> claims[l].voided)
              /\ ClaimSent(claims[l]) => ClaimSent(claims'[l])
              /\ claims'[l].state # "working" \/ claims'[l].owner = NoRun
              /\ claims'[l].state = "waiting" => claims'[l].stage \in StagesBeforeAppend
              /\ claims'[l].state = "needs_attention" /\ claims'[l].reason = "MAYBE_SENT" => claims'[l] = claims[l]
              /\ BeingFiled(claims[l]) => BeingFiled(claims'[l])
    PROVE  MailKeeps /\ WaitInv' /\ MaybeSentIsUnfound'
  <1>1. UNCHANGED <<rows, inflight, seq, copies, sent, delivered, handFiled, presses>> /\ BooksTrue /\ FilesAlone
    BY DEF booksVars, Known, MailInv
  <1>2. ClaimsTrue'
    <2> SUFFICES ASSUME NEW l \in Loads
                 PROVE  /\ ClaimTrue(claims[l])'
                        /\ outbox'[l] > 0 => Absent(copies', claims'[l].num)
                        /\ MaybeSent(claims'[l]) => stop'
                        /\ claims'[l].num \in givenUp' => claims'[l].voided
      BY DEF ClaimsTrue
    <2>1. /\ outbox[l] > 0 => Absent(copies, claims[l].num)
          /\ MaybeSent(claims[l]) => stop
          /\ claims[l].num \in givenUp => claims[l].voided
      BY <1>1 DEF BooksTrue, ClaimsTrue
    <2>2. ClaimTrue(claims[l])'
      BY <1>1 DEF ClaimTrue
    <2>3. MaybeSent(claims'[l]) => stop'
      BY <2>1 DEF MaybeSent
    <2> QED BY <1>1, <2>1, <2>2, <2>3
  <1>3. NumbersMinted' /\ NumbersApart'
    <2>1. NumbersMinted'
      BY <1>1 DEF BooksTrue, NumbersMinted
    <2>2. NumbersApart'
      BY <1>1 DEF BooksTrue, NumbersApart
    <2> QED BY <2>1, <2>2
  <1>4. PressesTrue' /\ Filed' /\ SentKnown' /\ (N8n \/ OneHandOff')
    BY <1>1 DEF BooksTrue, PressesTrue, PressTrue, Filed, SentKnown, OneHandOff, FiledOnce, HandDraftsTracked, OneSideWins
  <1>5. ASSUME NEW p \in Runs, runs'[p].pc # "idle", Holds(p)' PROVE FALSE
    <2>1. runs[p].load \in Loads
      BY <1>5 DEF Known, Core, CoreTypeOK, RunTypeOK
    <2> QED BY <1>5, <2>1, RunsAreNotNoRun DEF Holds, Mine, LoadOf
  <1>6. RunsTrue'
    BY <1>5 DEF RunsTrue
  <1>7. FilesAlone'
    <2> SUFFICES ASSUME ~Overlaps, NEW r \in Runs, runs'[r].pc = "append"
                 PROVE  /\ BeingFiled(Mine(r)') /\ Mine(r)'.num = runs'[r].num /\ Absent(copies', runs'[r].num)
                        /\ TriggerMode \/ Holds(r)'
                        /\ \A q \in Runs :
                              runs'[q].pc # "idle" /\ LoadOf(q)' = LoadOf(r)' /\ (runs'[q].pc = "append" \/ Holds(q)') => q = r
      BY DEF FilesAlone
    <2>1. /\ BeingFiled(Mine(r)) /\ Mine(r).num = runs[r].num /\ Absent(copies, runs[r].num)
          /\ \A q \in Runs :
                runs[q].pc # "idle" /\ LoadOf(q) = LoadOf(r) /\ (runs[q].pc = "append" \/ Holds(q)) => q = r
      BY <1>1, FilesAloneMeans
    <2>2. LoadOf(r) \in Loads
      BY DEF Known, Core, CoreTypeOK, RunTypeOK, LoadOf
    <2>3. BeingFiled(Mine(r)') /\ Mine(r)'.num = runs[r].num
      BY <2>1, <2>2 DEF Mine, LoadOf
    <2>4. ASSUME NEW q \in Runs, runs'[q].pc # "idle", LoadOf(q)' = LoadOf(r)', runs'[q].pc = "append" \/ Holds(q)'
          PROVE  q = r
      BY <1>5, <2>1, <2>4 DEF LoadOf
    <2> QED BY <1>1, <2>1, <2>3, <2>4, TriggerAssumption
  <1>8. SendsKept
    BY DEF SendsKept
  <1>9. MaybeSentIsUnfound'
    BY DEF MaybeSentIsUnfound, SendInFlight
  <1>10. WaitInv'
    BY <1>5 DEF WaitInv
  <1> QED BY <1>2, <1>3, <1>4, <1>6, <1>7, <1>8, <1>9, <1>10 DEF MailKeeps, MailInv, BooksTrue

\* A start goes over every claim.
LEMMA StartTriggerMail ==
    ASSUME Known, WaitInv, MaybeSentIsUnfound, StartTrigger
    PROVE  MailKeeps /\ WaitInv' /\ MaybeSentIsUnfound'
  <1>1. PICK stale \in SUBSET Loads : claims' = [l \in Loads |-> StartedUp(claims[l], l \in stale)]
    BY DEF StartTrigger
  <1>2. UNCHANGED <<runs, givenUp, outbox, stop>> /\ UNCHANGED booksVars
    BY DEF StartTrigger, sharedVars, gmailVars, booksVars
  <1>3. ASSUME NEW l \in Loads
        PROVE  /\ ClaimTrue(claims'[l]) /\ claims'[l].num = claims[l].num /\ (claims'[l].voided <=> claims[l].voided)
               /\ ClaimSent(claims[l]) => ClaimSent(claims'[l])
               /\ claims'[l].state # "working" \/ claims'[l].owner = NoRun
               /\ claims'[l].state = "waiting" => claims'[l].stage \in StagesBeforeAppend
               /\ claims'[l].state = "needs_attention" /\ claims'[l].reason = "MAYBE_SENT" => claims'[l] = claims[l]
               /\ BeingFiled(claims[l]) => BeingFiled(claims'[l])
    <2> DEFINE c == claims[l]  d == claims'[l]
    <2>1. /\ c \in Claim /\ Numbered(c) /\ ClaimTrue(c) /\ (c.state = "waiting" => c.stage \in StagesBeforeAppend)
      BY DEF Known, Core, CoreTypeOK, CoreInv, TransitKnown, MailInv, BooksTrue, ClaimsTrue, WaitInv
    <2>2. PICK old \in BOOLEAN : d = StartedUp(c, old)
      <3>1. (l \in stale) \in BOOLEAN
        OBVIOUS
      <3>2. d = StartedUp(c, l \in stale)
        BY <1>1
      <3> QED BY <3>1, <3>2
    <2> HIDE DEF c, d
    <2>3. /\ ClaimTrue(d) /\ d.num = c.num /\ (d.voided <=> c.voided)
          /\ ClaimSent(c) => ClaimSent(d)
          /\ d.state # "working" \/ d.owner = NoRun
          /\ d.state = "waiting" => d.stage \in StagesBeforeAppend
          /\ d.state = "needs_attention" /\ d.reason = "MAYBE_SENT" => d = c
          /\ BeingFiled(c) => BeingFiled(d)
      BY <2>1, <2>2, StartedUpTrue
    <2> QED BY <2>3 DEF c, d
  <1> QED BY <1>2, <1>3, AllWrittenMail

\* The process dies: what its runs were filing landed or did not, each under a number of its own.
LEMMA CrashMail ==
    ASSUME Known, WaitInv, MaybeSentIsUnfound, Crash
    PROVE  MailKeeps /\ WaitInv' /\ MaybeSentIsUnfound'
  <1>1. PICK landed \in SUBSET {r \in Runs : runs[r].pc = "append"} :
           copies' = [n \in Numbers |-> copies[n] + Cardinality({r \in landed : runs[r].num = n})]
    BY DEF Crash
  <1>2. /\ runs' = [r \in Runs |-> IdleRun] /\ IdleRun.pc = "idle"
        /\ UNCHANGED <<claims, rows, inflight, seq, givenUp, stop, sent, outbox, delivered, handFiled, presses>>
    BY DEF Crash, Dies, ledgerVars, IdleRun
  <1>3. /\ copies \in [Numbers -> Nat] /\ outbox \in [Loads -> Nat] /\ delivered \in [Loads -> Nat]
        /\ \A r \in landed : r \in Runs /\ runs[r].pc = "append" /\ runs[r].num \in Numbers
    BY FilingFacts DEF Known, Core, CoreTypeOK, RestTypeOK
  <1>4. ASSUME NEW n \in Numbers
        PROVE  /\ copies'[n] = copies[n] + Cardinality({r \in landed : runs[r].num = n})
               /\ Cardinality({r \in landed : runs[r].num = n}) \in Nat
    <2>1. IsFiniteSet({r \in landed : runs[r].num = n})
      BY FS_Subset, TriggerAssumption
    <2> QED BY <1>1, <2>1, FS_CardinalityType
  <1> DEFINE M == IF Overlaps THEN {} ELSE {LoadOf(r) : r \in landed}
  <1>5. ASSUME ~Overlaps, NEW n \in Numbers PROVE copies'[n] = IF \E k \in M : claims[k].num = n THEN 1 ELSE copies[n]
    <2> DEFINE S == {r \in landed : runs[r].num = n}
    <2>1. copies'[n] = copies[n] + Cardinality(S) /\ copies[n] \in Nat
      BY <1>3, <1>4
    <2>2. ASSUME NEW r \in landed
          PROVE  /\ claims[LoadOf(r)].num = runs[r].num /\ Absent(copies, runs[r].num)
                 /\ \A p \in landed : p # r => runs[p].num # runs[r].num
      BY <1>3, <1>5, FilingFacts
    <2>3. CASE \E r \in landed : runs[r].num = n
      <3>1. PICK r \in landed : runs[r].num = n
        BY <2>3
      <3>2. S = {r}
        BY <2>2, <3>1
      <3>3. Cardinality(S) = 1 /\ copies[n] = 0
        BY <1>5, <2>2, <3>1, <3>2, FS_Singleton
      <3>4. \E k \in M : claims[k].num = n
        BY <1>5, <2>2, <3>1
      <3> QED BY <2>1, <3>3, <3>4
    <2>4. CASE ~\E r \in landed : runs[r].num = n
      <3>1. S = {}
        BY <2>4
      <3>2. Cardinality(S) = 0
        BY <3>1, FS_EmptySet
      <3>3. ~\E k \in M : claims[k].num = n
        BY <1>5, <2>2, <2>4
      <3> QED BY <2>1, <3>2, <3>3
    <2> QED BY <2>3, <2>4
  <1>6. copies' \in [Numbers -> Nat] /\ \A n \in Numbers : copies[n] <= copies'[n]
    <2>1. ASSUME NEW n \in Numbers PROVE copies'[n] \in Nat /\ copies[n] <= copies'[n]
      <3> DEFINE k == Cardinality({r \in landed : runs[r].num = n})
      <3>1. copies'[n] = copies[n] + k /\ k \in Nat /\ copies[n] \in Nat
        BY <1>3, <1>4
      <3> HIDE DEF k
      <3> QED BY <3>1
    <2>2. copies' = [n \in Numbers |-> copies'[n]]
      BY <1>1
    <2> QED BY <2>1, <2>2
  <1>7. M \in SUBSET Loads /\ \A k \in M : claims[k].stage = "appending" /\ outbox[k] = 0
    <2>1. ASSUME ~Overlaps, NEW r \in landed
          PROVE  LoadOf(r) \in Loads /\ claims[LoadOf(r)].stage = "appending" /\ outbox[LoadOf(r)] = 0
      BY <1>3, <2>1, FilingFacts
    <2> QED BY <2>1
  <1>8. BooksTrue' /\ SendsKept
    <2>1. \A k \in Loads : outbox'[k] > 0 => outbox[k] > 0 /\ k \notin M
      BY <1>2, <1>7
    <2>2. /\ \A k \in Loads : outbox'[k] + delivered'[k] > 0 => outbox[k] + delivered[k] > 0
          /\ \A k \in Loads : delivered[k] > 0 => delivered'[k] > 0
          /\ sent \subseteq sent' /\ \A n \in sent' : n \in sent \/ \E k \in M : claims[k].num = n /\ delivered'[k] > 0
          /\ outbox' \in [Loads -> Nat] /\ delivered' \in [Loads -> Nat]
      BY <1>2, <1>3
    <2>3. \A n \in Numbers : (\E k \in M : claims[k].num = n) => copies'[n] > 0
      BY <1>5
    <2> HIDE DEF M
    <2> QED BY <1>2, <1>5, <1>6, <1>7, <2>1, <2>2, <2>3, BooksLand
  <1>9. \A r \in Runs : runs'[r].pc = "idle"
    BY <1>2
  <1>10. RunsTrue' /\ FilesAlone'
    BY <1>9 DEF RunsTrue, FilesAlone
  <1>11. WaitInv' /\ MaybeSentIsUnfound'
    BY <1>2, <1>9, WaitStutter
  <1> QED BY <1>8, <1>10, <1>11 DEF MailKeeps, MailInv

\* At first there is no number, no message and no run.
LEMMA InitMail == Init => MailInv /\ WaitInv /\ MaybeSentIsUnfound
  <1> SUFFICES ASSUME Init PROVE MailInv /\ WaitInv /\ MaybeSentIsUnfound
    OBVIOUS
  <1>1. /\ \A l \in Loads : claims[l] \in SweptClaims /\ outbox[l] = 0 /\ delivered[l] = 0
        /\ \A r \in Runs : runs[r].pc = "idle"
        /\ \A p \in Presses : presses[p] = IdlePress
        /\ \A n \in Numbers : Absent(copies, n)
        /\ rows = {} /\ inflight = {} /\ seq = 0 /\ givenUp = {} /\ sent = {} /\ handFiled = {}
    BY DEF Init, NothingElseYet, RunInit, PressInit, IdleRun
  <1>2. ASSUME NEW l \in Loads
        PROVE  /\ claims[l].stage = "" /\ claims[l].num = 0 /\ claims[l].voided = FALSE /\ claims[l].sending = FALSE
               /\ claims[l].reason # "MAYBE_SENT"
    BY <1>1, SweptClaimsOK
  <1>3. IdlePress.pc = "idle" /\ IdlePress.num = 0
    BY DEF IdlePress
  <1>4. ClaimsTrue
    <2> SUFFICES ASSUME NEW l \in Loads
                 PROVE  /\ ClaimTrue(claims[l])
                        /\ outbox[l] > 0 => Absent(copies, claims[l].num)
                        /\ MaybeSent(claims[l]) => stop
                        /\ claims[l].num \in givenUp => claims[l].voided
      BY DEF ClaimsTrue
    <2>1. ClaimTrue(claims[l]) /\ ~MaybeSent(claims[l])
      BY <1>2 DEF ClaimTrue, MaybeSent, InGmail, SendInFlight, StagesBeforeAppend
    <2>2. ~(outbox[l] > 0) /\ claims[l].num \notin givenUp
      BY <1>1
    <2> QED BY <2>1, <2>2
  <1>5. NumbersMinted /\ NumbersApart
    <2>1. /\ \A l \in Loads : claims[l].num = 0
          /\ \A p \in Presses : presses[p].num = 0
      BY <1>1, <1>2, <1>3
    <2>2. NumbersMinted
      BY <1>1, <2>1 DEF NumbersMinted
    <2>3. NumbersApart
      BY <1>1, <2>1 DEF NumbersApart
    <2> QED BY <2>2, <2>3
  <1>6. PressesTrue
    BY <1>1, <1>3 DEF PressesTrue, PressTrue
  <1>7. Filed /\ SentKnown /\ OneHandOff
    BY <1>1 DEF Filed, SentKnown, OneHandOff, FiledOnce, HandDraftsTracked, OneSideWins
  <1>8. RunsTrue /\ FilesAlone
    BY <1>1 DEF RunsTrue, FilesAlone
  <1>9. WaitInv /\ MaybeSentIsUnfound
    BY <1>1, <1>2 DEF WaitInv, MaybeSentIsUnfound, StagesBeforeAppend
  <1> QED BY <1>4, <1>5, <1>6, <1>7, <1>8, <1>9 DEF MailInv, BooksTrue

\* Every step keeps the mail and the records true, and the sends known.
LEMMA StepMail ==
    ASSUME ~PowerLosses, MInv, [Next]_vars PROVE MailKeeps /\ WaitInv' /\ MaybeSentIsUnfound'
  <1>1. Known /\ WaitInv /\ MaybeSentIsUnfound /\ OutsideOK /\ LineInv /\ Core
    BY KnownOf, TypesAreParts DEF MInv, KInv, AInv, IInv, Known
  <1>2. ASSUME NEW r \in Runs, Run(r) PROVE MailKeeps /\ WaitInv' /\ MaybeSentIsUnfound'
    <2>1. UNCHANGED presses
      BY <1>2 DEF Run
    <2>2. MailKeeps
      <3>1. CASE RunStep(r)
        BY <1>1, <2>1, <3>1, RunStepMail
      <3>2. CASE LooksFirst(r)
        BY <1>1, <2>1, <3>2, LookedFirstMail DEF LooksFirst
      <3>3. CASE LooksInSent(r)
        BY <1>1, <2>1, <3>3, LostSendLookedMail DEF LooksInSent
      <3> QED BY <1>2, <3>1, <3>2, <3>3 DEF Run
    <2>3. RunShape(r)
      BY <1>1, <1>2, RunStepShape DEF Run
    <2> QED BY <1>1, <2>2, <2>3, RunWait
  <1>3. ASSUME NEW r \in Runs, RunLimit(r) \/ RunOver(r) PROVE MailKeeps /\ WaitInv' /\ MaybeSentIsUnfound'
    <2>1. RunLimit(r) => runs[r].pc # "idle"
      BY <1>1, RunsAreNotNoRun DEF RunLimit, LineInv
    <2> QED BY <1>1, <1>3, <2>1, RunLimitMail, RunOverMail
  <1>4. ASSUME LineStep PROVE MailKeeps /\ WaitInv' /\ MaybeSentIsUnfound'
    <2>1. CASE LineStops
      BY <1>1, <2>1, QuietMail DEF LineStops
    <2> QED BY <1>1, <1>4, <2>1, LineHeldMail, LineTakesMail DEF LineStep
  <1>5. ASSUME StartTrigger \/ Crash PROVE MailKeeps /\ WaitInv' /\ MaybeSentIsUnfound'
    BY <1>1, <1>5, StartTriggerMail, CrashMail
  <1>6. ASSUME NEW t \in Taps, TapStep(t) \/ \E l \in Loads : Tap(t, l) PROVE MailKeeps /\ WaitInv' /\ MaybeSentIsUnfound'
    BY <1>1, <1>6, TapStepMail, TapMail
  <1>7. ASSUME NEW l \in Loads, Retry(l) PROVE MailKeeps /\ WaitInv' /\ MaybeSentIsUnfound'
    BY <1>1, <1>7, RetryMail
  <1>8. ASSUME NEW l \in Loads, PersonBills(l) PROVE MailKeeps /\ WaitInv' /\ MaybeSentIsUnfound'
    BY <1>1, <1>8, QuietMail DEF PersonBills
  <1>9. ASSUME NEW l \in Loads, ClosedByHand(l), UNCHANGED presses PROVE MailKeeps /\ WaitInv' /\ MaybeSentIsUnfound'
    <2> DEFINE c == claims[l]  d == SkipDraftedByHand(c)
    <2>1. c \in Claim
      BY <1>1 DEF Core, CoreTypeOK
    <2>2. d.state = "skipped" /\ claims' = [claims EXCEPT ![l] = d] /\ runs' = runs
      BY <1>9, <2>1, DoneFields DEF ClosedByHand, WriteClaim
    <2> HIDE DEF d
    <2>3. WaitInv' /\ MaybeSentIsUnfound'
      BY <1>1, <2>2, WaitPlain
    <2> QED BY <1>1, <1>9, <2>3, ClosedByHandMail
  <1>10. ASSUME UNCHANGED <<claims, runs>> PROVE WaitInv' /\ MaybeSentIsUnfound'
    BY <1>1, <1>10, WaitStutter
  <1>11. ASSUME NEW l \in Loads, ChangedAfterSend(l) \/ LateDelivery(l), UNCHANGED presses
         PROVE  MailKeeps /\ WaitInv' /\ MaybeSentIsUnfound'
    BY <1>1, <1>10, <1>11, ChangedAfterSendMail, LateDeliveryMail DEF ChangedAfterSend, LateDelivery, ledgerVars
  <1>12. ASSUME SwitchNext, UNCHANGED <<runs, presses>> PROVE MailKeeps /\ WaitInv' /\ MaybeSentIsUnfound'
    BY <1>1, <1>10, <1>12, SwitchMail DEF SwitchNext, Mark, Clear, HandledOutside, StopSends, ResumeSends
  <1>13. ASSUME PressNext, UNCHANGED runs PROVE MailKeeps /\ WaitInv' /\ MaybeSentIsUnfound'
    BY <1>1, <1>10, <1>13, PressNextMail, PressLeaves
  <1>14. ASSUME UNCHANGED vars PROVE MailKeeps /\ WaitInv' /\ MaybeSentIsUnfound'
    BY <1>1, <1>14, QuietMail DEF vars
  <1>15. \A r \in Runs : ~PowerLoss(r)
    BY DEF PowerLoss
  <1> QED BY <1>2, <1>3, <1>4, <1>5, <1>6, <1>7, <1>8, <1>9, <1>11, <1>12, <1>13, <1>14, <1>15 DEF Next

\* So the whole is kept.
LEMMA StepMInv ==
    ASSUME ~PowerLosses, MInv, [Next]_vars PROVE MInv' /\ Confirmed
  <1>1. KInv' /\ MailKeeps /\ WaitInv' /\ MaybeSentIsUnfound'
    BY StepKInv, StepMail DEF MInv
  <1>2. ClaimsTrue' /\ SendsKept
    BY <1>1 DEF MailKeeps, MailInv, BooksTrue
  <1> QED BY <1>1, <1>2, ConfirmedByKeeping DEF MInv, MailKeeps

\* Every step is a step of InvoiceOnce, or none.
LEMMA StepPromise ==
    ASSUME ~N8n, ~PowerLosses, MInv, MInv', [Next]_vars PROVE Promised
  <1>1. Known /\ Core /\ DeliveredKnown /\ RestTypeOK /\ Core'
    <2>1. Core'
      BY TypesAreParts DEF MInv, KInv, AInv, IInv, Core, TypeOK, CoreTypeOK, LedgerTypeOK
    <2> QED BY <2>1, KnownOf DEF Known
  <1>2. ASSUME UNCHANGED <<outbox, delivered, handFiled, marker>> PROVE Promised
    BY <1>2, PromiseStutter DEF Factored
  <1>3. ASSUME NEW r \in Runs, Run(r) PROVE Promised
    <2>1. CASE RunStep(r)
      BY <1>1, <2>1, RunStepPromise
    <2>2. CASE LooksFirst(r) \/ LooksInSent(r)
      BY <1>2, <2>2 DEF LooksFirst, LooksInSent, LookedFirst, LostSendLooked, sharedVars, gmailVars
    <2> QED BY <1>3, <2>1, <2>2 DEF Run
  <1>4. ASSUME NEW r \in Runs, RunLimit(r) \/ RunOver(r) PROVE Promised
    BY <1>2, <1>4 DEF RunLimit, RunOver, sharedVars, gmailVars
  <1>5. ASSUME LineStep PROVE Promised
    <2>1. ASSUME NEW r \in Runs, NEW l \in Loads, LineHeld(r, l) PROVE Promised
      <3>1. TakeOver(r, l) => UNCHANGED <<sharedVars, gmailVars>>
        BY DEF TakeOver, Recover
      <3> QED BY <1>2, <2>1, <3>1 DEF LineHeld, sharedVars, gmailVars
    <2>2. ASSUME NEW r \in Runs, NEW l \in Loads, LineTakes(r, l) PROVE Promised
      <3>1. Lease(r, l) => UNCHANGED <<sharedVars, gmailVars>>
        BY DEF Lease
      <3> QED BY <1>2, <2>2, <3>1 DEF LineTakes, sharedVars, gmailVars
    <2>3. CASE LineStops
      BY <1>2, <2>3 DEF LineStops, ledgerVars, gmailVars
    <2> QED BY <1>5, <2>1, <2>2, <2>3 DEF LineStep
  <1>6. ASSUME StartTrigger \/ Crash PROVE Promised
    BY <1>2, <1>6 DEF StartTrigger, Crash, ledgerVars, sharedVars, gmailVars
  <1>7. ASSUME NEW t \in Taps, TapStep(t) \/ \E l \in Loads : Tap(t, l) PROVE Promised
    BY <1>2, <1>7 DEF TapStep, TapWritten, TapFailed, TapSettled, Tap, ledgerVars, sharedVars, gmailVars
  <1>8. ASSUME NEW l \in Loads, Retry(l) \/ PersonBills(l) \/ ClosedByHand(l) \/ ChangedAfterSend(l) PROVE Promised
    BY <1>2, <1>8 DEF Retry, PersonBills, ClosedByHand, ChangedAfterSend, ledgerVars, sharedVars, gmailVars
  <1>9. ASSUME NEW l \in Loads, LateDelivery(l) PROVE Promised
    BY <1>1, <1>9, DeliverPromise DEF LateDelivery, ledgerVars
  <1>10. ASSUME SwitchNext PROVE Promised
    BY <1>1, <1>10, SwitchPromise
  <1>11. ASSUME PressNext PROVE Promised
    BY <1>1, <1>11, PressPromise
  <1>12. ASSUME UNCHANGED vars PROVE Promised
    BY <1>2, <1>12 DEF vars, ledgerVars, gmailVars
  <1>13. \A r \in Runs : ~PowerLoss(r)
    BY DEF PowerLoss
  <1> QED BY <1>3, <1>4, <1>5, <1>6, <1>7, <1>8, <1>9, <1>10, <1>11, <1>12, <1>13 DEF Next

\* So every reachable state has it.
LEMMA MailInvariance == ASSUME ~PowerLosses PROVE Spec => []MInv
  <1>1. Init => MInv
    BY InitKInv, InitMail DEF MInv
  <1>2. MInv /\ [Next]_vars => MInv'
    BY StepMInv
  <1> QED BY <1>1, <1>2, PTL DEF Spec

\* With the webhook or without it, what the records say went to Gmail is there, and a send recorded
\* as such is in Sent Mail: an answer that is lost, or comes from the second path after the first had
\* filed the draft, records nothing that is not in the mailbox, whatever the restarts.
THEOREM RecordsAreThere == ASSUME ~PowerLosses PROVE Spec => []RecordedIsInGmail
  <1>1. MInv => RecordedIsInGmail
    BY KnownOf, MailInvSuffices DEF Known
  <1> QED BY <1>1, MailInvariance, PTL

\* With the webhook or without it, no send of the job is forgotten: each has a claim that says so in
\* a state somebody comes back to, and a load left as maybe sent holds sending stopped.
THEOREM SendsRemembered == ASSUME ~PowerLosses PROVE Spec => [](StopCoversMaybeSent /\ SendsAreTracked)
  <1>1. MInv => StopCoversMaybeSent /\ SendsAreTracked
    BY KnownOf, MailInvSuffices DEF Known
  <1> QED BY <1>1, MailInvariance, PTL

\* Under the trigger too, without the webhook, one side wins: where the job's email went, or may
\* still go, every draft a press put in Gmail was a confirmed re-issue.
THEOREM OneSide == ASSUME ~N8n, ~PowerLosses PROVE Spec => []OneSideWins
  <1>1. MInv => OneSideWins
    BY KnownOf, MailInvSuffices DEF Known
  <1> QED BY <1>1, MailInvariance, PTL

\* The mailbox, the audit log and the records say the same across restarts, taps, presses and runs
\* past their limit: no number on two messages, none used after it was given up, no record without
\* its message. Only where nobody takes a claim over under an append: startTrigger() and a person's
\* Try again may, and FiledOnce is then false; RecordsAreThere is what stays.
THEOREM TrueRecords == ASSUME ~N8n, ~PowerLosses, ~Overlaps PROVE Spec => []RecordsTrue
  <1>1. MInv => RecordsTrue
    BY KnownOf, MailInvSuffices DEF Known
  <1> QED BY <1>1, MailInvariance, PTL

\* Nothing that left the process is forgotten: each send and each draft has a claim, a record or a
\* row somebody comes back to, and a maybe-sent load holds sending stopped.
THEOREM Remembered == ASSUME ~N8n, ~PowerLosses PROVE Spec => []NothingForgotten
  <1>1. MInv => NothingForgotten
    BY KnownOf, MailInvSuffices DEF Known
  <1> QED BY <1>1, MailInvariance, PTL

\* A load shown as maybe already sent is one whose copy no search has found.
THEOREM ChipTrue == ASSUME ~PowerLosses PROVE Spec => []MaybeSentIsUnfound
  <1>1. MInv => MaybeSentIsUnfound
    BY DEF MInv
  <1> QED BY <1>1, MailInvariance, PTL

\* Nothing but a search that found it, or the server's refusal, takes a claim off an unconfirmed
\* send, across restarts and runs past their limit too.
THEOREM SearchConfirms == ASSUME ~PowerLosses PROVE Spec => OnlySearchConfirms
  <1>1. MInv /\ [Next]_vars => [Confirmed]_vars
    BY StepMInv
  <1> QED BY <1>1, MailInvariance, PTL DEF Spec, OnlySearchConfirms

\* The trigger's job, the button and the switch implement InvoiceOnce: its initial states and its
\* steps are the only ones they take, or none.
THEOREM Promise == ASSUME ~N8n, ~PowerLosses PROVE Spec => KeepsPromise
  <1>1. Init => Once!Init
    <2> SUFFICES ASSUME Init PROVE Once!Init
      OBVIOUS
    <2>1. \A l \in Loads : outbox[l] = 0 /\ delivered[l] = 0 /\ ~Factored(l)
      BY DEF Init, NothingElseYet, Factored
    <2>2. handFiled = {}
      BY DEF Init, NothingElseYet
    <2> QED BY <2>1, <2>2 DEF Once!Init
  <1>2. MInv /\ MInv' /\ [Next]_vars => [Once!Next]_<<outcome, factored, handmade>>
    BY StepPromise DEF Promised
  <1>3. [Once!Next]_<<outcome, factored, handmade>> =>
        [Once!Next]_<<[l \in Loads |->
                    IF outbox[l] + delivered[l] > 1 THEN "twice"
                    ELSE IF delivered[l] = 1 THEN "sent"
                    ELSE IF outbox[l] = 1 THEN "committed" ELSE "idle"],
                  {l \in Loads : Factored(l)},
                  {l \in Loads : \E h \in handFiled : h.load = l /\ ~h.reissue}>>
    BY DEF outcome, Outcome, factored, handmade
  <1> QED BY <1>1, <1>2, <1>3, MailInvariance, PTL DEF Spec, KeepsPromise, Once!Spec
=============================================================================
