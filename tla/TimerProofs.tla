----------------------------- MODULE TimerProofs -----------------------------
(***************************************************************************)
(* TimerInvoices for any loads, runs, presses and bounds: its types, at    *)
(* most one automatic email of a load, none of a factored one, no record   *)
(* without its message, no send forgotten; with the fallback webhook not   *)
(* configured, that the whole implements InvoiceOnce; and, with no claim   *)
(* taken over under an append either (Overlaps off, as the timer's lease   *)
(* has it), that the mailbox and the records agree.                        *)
(***************************************************************************)
EXTENDS TimerInvoices, MailProofs
USE DEF Absent

\* The inductive invariant.
IInv == TypeOK /\ SendInv /\ FactoredNeverSent

\* IInv, cut as InvoiceProofs cuts it.
LEMMA TypesAreParts ==
    TypeOK <=> CoreTypeOK /\ RestTypeOK /\ PressTypeOK /\ crashes \in 0..MaxCrashes /\ overruns \in 0..MaxOverruns
  BY DEF TypeOK, CoreTypeOK, RestTypeOK, LedgerTypeOK

\* Nothing is filed, sent or at work at first.
LEMMA InitInv == Init => IInv
  <1> SUFFICES ASSUME Init PROVE IInv
    OBVIOUS
  <1> USE DEF Init, LedgerInit, NothingElseYet, RunInit, PressInit
  <1>1. NoClaim \in Claim
    BY DEF NoClaim, Claim, States, Stages, Reasons
  <1>2. CoreTypeOK
    <2>1. RunTypeOK
      BY DEF RunTypeOK, IdleRun, PCs
    <2>2. outbox \in [Loads -> Nat] /\ delivered \in [Loads -> Nat] /\ claims \in [Loads -> Claim]
      BY <1>1
    <2> QED BY <2>1, <2>2 DEF CoreTypeOK
  <1>3. RestTypeOK
    <2>1. seq \in 0..MaxNumber
      BY LedgerAssumption
    <2>2. copies \in [Numbers -> Nat] /\ marker \in [Loads -> {"clear", "factored", "locked"}]
      OBVIOUS
    <2> QED BY <2>1, <2>2 DEF RestTypeOK
  <1>4. PressTypeOK
    BY LedgerAssumption DEF PressTypeOK, IdlePress
  <1>5. crashes \in 0..MaxCrashes /\ overruns \in 0..MaxOverruns
    BY TimerAssumption
  <1>6. ClaimsKnowSends
    <2> SUFFICES ASSUME NEW l \in Loads
                 PROVE  /\ outbox[l] + delivered[l] <= 1
                        /\ outbox[l] + delivered[l] > 0 => ClaimSent(claims[l])
                        /\ Numbered(claims[l])
      BY DEF ClaimsKnowSends
    <2>1. claims[l].stage = "" /\ claims[l].voided = FALSE
      BY DEF NoClaim
    <2>2. outbox[l] = 0 /\ delivered[l] = 0
      OBVIOUS
    <2>3. outbox[l] + delivered[l] = 0
      BY <2>2
    <2>4. Numbered(claims[l])
      BY <2>1 DEF Numbered
    <2> QED BY <2>3, <2>4
  <1>7. RunsMatchClaims /\ OneAtSmtp
    BY DEF RunsMatchClaims, OneAtSmtp, IdleRun
  <1>8. FactoredNeverSent
    BY DEF FactoredNeverSent
  <1> QED BY <1>2, <1>3, <1>4, <1>5, <1>6, <1>7, <1>8, TypesAreParts DEF IInv, SendInv

-----------------------------------------------------------------------------
(* The timer's own steps. *)

\* The sweep files a completed load.
LEMMA SweepNewKeeps ==
    ASSUME Core, RestTypeOK, NEW l \in Loads, SweepNew(l) PROVE RunKeeps
  <1>1. PICK state \in {"baseline", "skipped", "needs_attention", "waiting", "queued"} :
           WriteClaim(l, NewClaim(state, "OTHER"))
    BY DEF SweepNew
  <1> DEFINE d == NewClaim(state, "OTHER")
  <1>2. /\ d \in Claim /\ d.state = state /\ d.stage = "" /\ d.voided = FALSE /\ d.owner = NoRun
    BY DEF NewClaim, NoClaim, Claim, States, Stages, Reasons
  <1>3. ~ClaimSent(claims[l])
    BY DEF SweepNew, Core, CoreTypeOK, CoreInv, TransitKnown, Numbered, ClaimSent
  <1>4. SafeAfter(claims[l], d)
    BY <1>2, <1>3 DEF SafeAfter, Numbered
  <1>5. WriteClaim(l, d) /\ UNCHANGED <<runs, outbox, delivered>>
    BY <1>1 DEF SweepNew, gmailVars
  <1> HIDE DEF d
  <1>6. CoreKept
    BY <1>2, <1>4, <1>5, PlainWrite
  <1> QED BY <1>6 DEF SweepNew, RunKeeps, RestTypeOK, sharedVars, gmailVars

\* The sweep goes over an open claim.
LEMMA SweepOpenKeeps ==
    ASSUME Core, RestTypeOK, NEW l \in Loads, SweepOpen(l) PROVE RunKeeps
  <1> DEFINE c == claims[l]
  <1>1. PICK v \in FreeVerdicts(l) :
           WriteClaim(l, [c EXCEPT !.state = v[1], !.reason = "OTHER", !.voided = @ \/ Voids(c, v[1])])
    BY DEF SweepOpen
  <1> DEFINE d == [c EXCEPT !.state = v[1], !.reason = "OTHER", !.voided = @ \/ Voids(c, v[1])]
  <1>2. v[1] \in {"waiting", "skipped", "needs_attention", "queued"}
    BY DEF FreeVerdicts
  <1>3. c \in Claim /\ Numbered(c) /\ c.state # "none"
    BY DEF Core, CoreTypeOK, CoreInv, TransitKnown, SweepOpen
  <1>4. Voids(c, v[1]) \in BOOLEAN /\ (Voids(c, v[1]) => c.num # 0)
    BY DEF Voids
  <1>5. /\ d \in Claim /\ d.state = v[1] /\ d.stage = c.stage /\ d.num = c.num /\ d.sending = c.sending
        /\ d.voided = (c.voided \/ Voids(c, v[1]))
    BY ZenonT(40), <1>2, <1>3, <1>4 DEF Claim, States, Reasons
  <1>6. SafeAfter(c, d) /\ d.state # "working"
    BY <1>2, <1>3, <1>4, <1>5 DEF SafeAfter, Numbered, ClaimSent
  <1>7. WriteClaim(l, d) /\ UNCHANGED <<runs, outbox, delivered>>
    BY <1>1 DEF SweepOpen, gmailVars
  <1> HIDE DEF d
  <1>8. CoreKept
    BY <1>6, <1>7, PlainWrite
  <1> QED BY <1>8 DEF SweepOpen, RunKeeps, RestTypeOK, sharedVars, gmailVars

\* A Super Admin's Try again.
LEMMA RetryKeeps ==
    ASSUME Core, RestTypeOK, NEW l \in Loads, Retry(l) PROVE RunKeeps
  <1> DEFINE c == [claims[l] EXCEPT !.reason = "OTHER", !.attempts = 0]
             d == IF c.stage \in StagesBeforeAppend THEN [c EXCEPT !.state = "queued"]
                  ELSE [c EXCEPT !.state = "working", !.owner = NoRun, !.expired = TRUE]
  <1>1. claims[l] \in Claim /\ Numbered(claims[l]) /\ claims[l].state = "needs_attention"
    BY DEF Core, CoreTypeOK, CoreInv, TransitKnown, Retry
  <1>2. /\ c \in Claim /\ c.stage = claims[l].stage /\ c.num = claims[l].num
        /\ c.sending = claims[l].sending /\ c.voided = claims[l].voided
    BY <1>1 DEF Claim, Reasons
  <1> HIDE DEF c
  <1>3. /\ d \in Claim /\ d.stage = c.stage /\ d.num = c.num /\ d.sending = c.sending /\ d.voided = c.voided
        /\ (d.state = "queued" \/ (d.state = "working" /\ d.owner = NoRun))
    BY <1>2 DEF Claim, States
  <1>4. SafeAfter(claims[l], d)
    BY <1>1, <1>2, <1>3 DEF SafeAfter, Numbered, ClaimSent
  <1>5. WriteClaim(l, d) /\ UNCHANGED <<runs, outbox, delivered>>
    BY DEF Retry, gmailVars, c
  <1> HIDE DEF d
  <1>6. CoreKept
    BY <1>3, <1>4, <1>5, PlainWrite
  <1> QED BY <1>6 DEF Retry, RunKeeps, RestTypeOK, sharedVars, gmailVars

\* A lease that ends leaves the claim with its run until somebody takes it over.
LEMMA LeaseEndsKeeps ==
    ASSUME Core, RestTypeOK, NEW l \in Loads, LeaseEnds(l) PROVE RunKeeps
  <1> DEFINE d == [claims[l] EXCEPT !.expired = TRUE]
  <1>1. claims[l] \in Claim /\ claims \in [Loads -> Claim]
    BY DEF Core, CoreTypeOK
  <1>2. claims' = [claims EXCEPT ![l] = d]
    BY <1>1 DEF LeaseEnds
  <1>3. /\ d \in Claim /\ d.state = claims[l].state /\ d.owner = claims[l].owner /\ d.stage = claims[l].stage
        /\ d.num = claims[l].num /\ d.sending = claims[l].sending /\ d.voided = claims[l].voided
    BY <1>1 DEF Claim
  <1> HIDE DEF d
  <1>4. ASSUME NEW k \in Loads
        PROVE  /\ claims'[k].state = claims[k].state /\ claims'[k].owner = claims[k].owner
               /\ claims'[k].stage = claims[k].stage /\ claims'[k].num = claims[k].num
               /\ claims'[k].sending = claims[k].sending /\ claims'[k].voided = claims[k].voided
    BY <1>1, <1>2, <1>3
  <1>5. UNCHANGED <<runs, givenUp, outbox, delivered>>
    BY DEF LeaseEnds, gmailVars
  <1>6. CoreTypeOK'
    <2>1. claims' \in [Loads -> Claim]
      BY <1>1, <1>2, <1>3
    <2> QED BY <1>5, <2>1 DEF Core, CoreTypeOK, RunTypeOK
  <1>7. TransitKnown'
    <2>1. ASSUME NEW k \in Loads
          PROVE  (ClaimSent(claims'[k]) <=> ClaimSent(claims[k])) /\ (Numbered(claims'[k]) <=> Numbered(claims[k]))
      BY <1>4 DEF ClaimSent, Numbered
    <2> QED BY <1>5, <2>1 DEF Core, CoreInv, TransitKnown
  <1>8. RunsMatchClaims'
    <2> SUFFICES ASSUME NEW p \in Runs, runs[p].pc # "idle", Holds(p)'
                 PROVE  RunFits(runs[p].pc, claims'[runs[p].load])
      BY <1>5 DEF RunsMatchClaims, Mine, LoadOf
    <2>1. runs[p].load \in Loads
      BY DEF Core, CoreTypeOK, RunTypeOK
    <2>2. Holds(p)
      BY <1>4, <1>5, <2>1 DEF Holds, Mine, LoadOf
    <2>3. RunFits(runs[p].pc, claims[runs[p].load])
      BY <2>2 DEF Core, CoreInv, RunsMatchClaims, Mine, LoadOf
    <2> QED BY <1>4, <2>1, <2>3 DEF RunFits
  <1>9. OneAtSmtp'
    BY <1>5 DEF Core, CoreInv, OneAtSmtp, LoadOf
  <1>10. SendsFollow
    BY <1>4, <1>5 DEF SendsFollow, ClaimSent, Core, CoreTypeOK
  <1> QED BY <1>6, <1>7, <1>8, <1>9, <1>10
          DEF Core, CoreInv, CoreKept, LeaseEnds, RunKeeps, RestTypeOK, sharedVars, gmailVars

\* A run dies under way.
LEMMA CrashKeeps ==
    ASSUME Core, RestTypeOK, NEW r \in Runs, Crash(r) PROVE RunKeeps
  <1>1. RunOK(IdleRun)
    BY DEF RunOK, RunRecord, IdleRun, PCs
  <1>2. UNCHANGED <<claims, givenUp, outbox, delivered>> /\ runs' = [runs EXCEPT ![r] = IdleRun]
    BY DEF Crash, ledgerVars
  <1>3. CoreKept
    BY <1>1, <1>2, RunMove DEF IdleRun
  <1>4. copies' \in [Numbers -> Nat]
    BY FileOK DEF Crash, RestTypeOK
  <1> QED BY <1>3, <1>4 DEF Crash, RunKeeps, RestTypeOK, ledgerVars

-----------------------------------------------------------------------------
(* The theorems. *)

\* Every step of the specification keeps the invariant.
LEMMA StepInv == IInv /\ [Next]_vars => IInv'
  <1> SUFFICES ASSUME IInv, [Next]_vars PROVE IInv'
    OBVIOUS
  <1>1. Core /\ DeliveredKnown /\ RestTypeOK /\ PressTypeOK /\ crashes \in 0..MaxCrashes /\ overruns \in 0..MaxOverruns
        /\ FactoredNeverSent /\ givenUp \subseteq Numbers
    BY TypesAreParts, SendInvIs DEF IInv, Core, CoreTypeOK
  <1>2. ASSUME RunKeeps, PressTypeOK', crashes' \in 0..MaxCrashes, overruns' \in 0..MaxOverruns, FactoredNeverSent'
        PROVE  IInv'
    BY <1>1, <1>2, SendInvKept DEF RunKeeps, CoreKept, Core, IInv, TypeOK, CoreTypeOK, RestTypeOK, LedgerTypeOK
  <1>3. ASSUME UNCHANGED <<outbox, delivered, marker>> PROVE FactoredNeverSent'
    BY <1>1, <1>3 DEF FactoredNeverSent
  <1>4. UNCHANGED presses => PressTypeOK'
    BY <1>1 DEF PressTypeOK
  <1>5. ASSUME NEW r \in Runs, RunStep(r), UNCHANGED others PROVE IInv'
    <2>1. RunKeeps
      BY <1>1, <1>5, KnownSendsOnce, RunStepKeeps
    <2>2. FactoredNeverSent'
      <3>1. marker' = marker
        BY <1>1, <1>5, OnlyUnfactoredSends
      <3>2. \A l \in Loads : outbox'[l] + delivered'[l] > 0 => outbox[l] + delivered[l] > 0 \/ ~Factored(l)
        BY <1>1, <1>5, OnlyUnfactoredSends
      <3> QED BY <1>1, <3>1, <3>2, FactoredKept
    <2> QED BY <1>1, <1>2, <1>4, <1>5, <2>1, <2>2 DEF others
  <1>6. ASSUME NEW r \in Runs, NEW l \in Loads, Work(r, l) \/ TakeOver(r, l), UNCHANGED others PROVE IInv'
    <2>1. RunKeeps
      BY <1>1, <1>6, LeaseKeeps, RecoverKeeps DEF Work, TakeOver
    <2>2. UNCHANGED <<outbox, delivered, marker>>
      BY <1>6 DEF Work, TakeOver, Lease, Recover, gmailVars, sharedVars
    <2> QED BY <1>1, <1>2, <1>3, <1>4, <1>6, <2>1, <2>2 DEF others
  <1>7. ASSUME NEW l \in Loads, UNCHANGED others,
               SweepNew(l) \/ SweepOpen(l) \/ ClosedByHand(l) \/ ChangedAfterSend(l) \/ Retry(l)
        PROVE  IInv'
    <2>1. RunKeeps
      BY <1>1, <1>7, SweepNewKeeps, SweepOpenKeeps, ClosedByHandKeeps, ChangedAfterSendKeeps, RetryKeeps
    <2>2. UNCHANGED <<outbox, delivered, marker>>
      BY <1>7 DEF SweepNew, SweepOpen, ClosedByHand, ChangedAfterSend, Retry, gmailVars, sharedVars
    <2> QED BY <1>1, <1>2, <1>3, <1>4, <1>7, <2>1, <2>2 DEF others
  <1>8. ASSUME NEW l \in Loads, LateDelivery(l), UNCHANGED others PROVE IInv'
    <2>1. RunKeeps
      BY <1>1, <1>8, LateDeliveryKeeps
    <2>2. /\ outbox[l] > 0 /\ outbox' = [outbox EXCEPT ![l] = @ - 1]
          /\ delivered' = [delivered EXCEPT ![l] = @ + 1] /\ marker' = marker
      BY <1>8 DEF LateDelivery, Deliver, ledgerVars
    <2>3. \A k \in Loads : outbox'[k] + delivered'[k] > 0 => outbox[k] + delivered[k] > 0
      BY <1>1, <2>2 DEF Core, CoreTypeOK
    <2>4. FactoredNeverSent'
      BY <1>1, <2>2, <2>3, FactoredKept
    <2> QED BY <1>1, <1>2, <1>4, <1>8, <2>1, <2>4 DEF others
  <1>9. ASSUME NEW l \in Loads, LeaseEnds(l) PROVE IInv'
    <2>1. RunKeeps
      BY <1>1, <1>9, LeaseEndsKeeps
    <2>2. UNCHANGED <<outbox, delivered, marker, presses, crashes>> /\ overruns' \in 0..MaxOverruns
      BY <1>1, <1>9, TimerAssumption DEF LeaseEnds, gmailVars, sharedVars
    <2> QED BY <1>1, <1>2, <1>3, <1>4, <2>1, <2>2
  <1>10. ASSUME NEW r \in Runs, Crash(r) PROVE IInv'
    <2>1. RunKeeps
      BY <1>1, <1>10, CrashKeeps
    <2>2. UNCHANGED <<outbox, delivered, marker, presses, overruns>> /\ crashes' \in 0..MaxCrashes
      BY <1>1, <1>10, TimerAssumption DEF Crash, ledgerVars
    <2> QED BY <1>1, <1>2, <1>3, <1>4, <2>1, <2>2
  <1>11. ASSUME SwitchNext, UNCHANGED <<runs, others>> PROVE IInv'
    BY <1>1, <1>2, <1>4, <1>11, SwitchKeeps, SwitchNeverOverSend DEF others
  <1>12. ASSUME PressNext, UNCHANGED <<runs, crashes, overruns>> PROVE IInv'
    <2>1. PressKeeps /\ UNCHANGED <<claims, marker, outbox, delivered>>
      BY <1>1, <1>12, PressNextKeeps, PressLeaves
    <2>2. CoreKept
      BY <1>1, <1>12, <2>1, CoreStutter DEF PressKeeps
    <2> QED BY <1>1, <1>2, <1>3, <1>12, <2>1, <2>2 DEF PressKeeps, RunKeeps
  <1>13. ASSUME UNCHANGED vars PROVE IInv'
    <2>1. CoreKept
      BY <1>1, <1>13, CoreStutter DEF vars, ledgerVars, gmailVars
    <2> QED BY <1>1, <1>2, <1>3, <1>4, <1>13, <2>1 DEF vars, ledgerVars, gmailVars, RunKeeps, RestTypeOK
  <1> QED BY <1>5, <1>6, <1>7, <1>8, <1>9, <1>10, <1>11, <1>12, <1>13 DEF Next, Tick, Sweep

\* So every reachable state has it.
LEMMA Invariance == Spec => []IInv
  BY InitInv, StepInv, PTL DEF Spec

\* The types, for any number of loads, runs and presses.
THEOREM Typed == Spec => []TypeOK
  <1>1. IInv => TypeOK
    BY DEF IInv
  <1> QED BY <1>1, Invariance, PTL

\* A claim, the run at work on it and the message on its way stay in step, for any number of
\* loads, runs and presses.
THEOREM SendsInStep == Spec => []SendInv
  <1>1. IInv => SendInv
    BY DEF IInv
  <1> QED BY <1>1, Invariance, PTL

\* At most one automatic email of a load goes out: whatever the crashes, take-overs, lost
\* answers, retries and late deliveries, and however many.
THEOREM OneEmail == Spec => []AtMostOneSend
  <1>1. IInv => AtMostOneSend
    BY DEF IInv, SendInv, ClaimsKnowSends, AtMostOneSend
  <1> QED BY <1>1, Invariance, PTL

\* A load whose invoice went, or may go, by email is never marked factored.
THEOREM NoFactoredEmail == Spec => []FactoredNeverSent
  <1>1. IInv => FactoredNeverSent
    BY DEF IInv
  <1> QED BY <1>1, Invariance, PTL

-----------------------------------------------------------------------------
(* The mail: the timer's own steps. *)

\* The invariant with the mail.
MInv == IInv /\ MailInv

\* Every such state is one MailProofs speaks of.
LEMMA KnownOf == MInv => Known
  BY TypesAreParts, SendInvIs DEF MInv, IInv, Known, Core

\* The sweep files a completed load.
LEMMA SweepNewMail ==
    ASSUME Known, NEW l \in Loads, SweepNew(l), UNCHANGED presses PROVE MailKeeps
  <1>1. PICK state \in {"baseline", "skipped", "needs_attention", "waiting", "queued"} :
           WriteClaim(l, NewClaim(state, "OTHER"))
    BY DEF SweepNew
  <1> DEFINE d == NewClaim(state, "OTHER")  c == claims[l]
  <1>2. /\ d \in Claim /\ d.state = state /\ d.stage = "" /\ d.voided = FALSE /\ d.owner = NoRun
        /\ d.num = 0 /\ d.sending = FALSE /\ d.reason = "OTHER"
    BY DEF NewClaim, NoClaim, Claim, States, Stages, Reasons
  <1>3. c.state = "none" /\ Numbered(c) /\ ClaimTrue(c)
    BY DEF SweepNew, Known, Core, CoreTypeOK, CoreInv, TransitKnown, MailInv, BooksTrue, ClaimsTrue
  <1>4. ~ClaimSent(c) /\ ~c.voided /\ c.num = 0
    BY <1>3 DEF Numbered, ClaimSent, ClaimTrue
  <1>5. /\ WriteClaim(l, d) /\ UNCHANGED <<runs, stop, outbox>> /\ UNCHANGED booksVars
    BY <1>1 DEF SweepNew, sharedVars, gmailVars, booksVars
  <1> HIDE DEF d
  <1>6. ClaimTrue(d)
    BY <1>2 DEF ClaimTrue, InGmail, SendInFlight, StagesBeforeAppend
  <1>7. Follows(c, d)
    BY <1>2, <1>4, <1>6 DEF Follows, SafeAfter, Numbered
  <1>8. ~MaybeSent(d) /\ d.state # "working"
    BY <1>2 DEF MaybeSent
  <1>9. Overlaps \/ \A p \in Runs : runs[p].pc = "append" /\ LoadOf(p) = l => TriggerMode /\ BeingFiled(d)
    BY <1>3, FiledUnheld, TimerAssumption
  <1> QED BY <1>5, <1>7, <1>8, <1>9, PlainMail

\* The sweep goes over an open claim.
LEMMA SweepOpenMail ==
    ASSUME Known, NEW l \in Loads, SweepOpen(l), UNCHANGED presses PROVE MailKeeps
  <1> DEFINE c == claims[l]
  <1>1. PICK v \in FreeVerdicts(l) :
           WriteClaim(l, [c EXCEPT !.state = v[1], !.reason = "OTHER", !.voided = @ \/ Voids(c, v[1])])
    BY DEF SweepOpen
  <1> DEFINE d == [c EXCEPT !.state = v[1], !.reason = "OTHER", !.voided = @ \/ Voids(c, v[1])]
  <1>2. v[1] \in {"waiting", "skipped", "needs_attention", "queued"}
    BY DEF FreeVerdicts
  <1>3. c \in Claim /\ Numbered(c) /\ c.state \in {"waiting", "queued"} /\ ~SendInFlight(c) /\ ClaimTrue(c)
    BY DEF Known, Core, CoreTypeOK, CoreInv, TransitKnown, SweepOpen, MailInv, BooksTrue, ClaimsTrue
  <1>4. /\ Voids(c, v[1]) \in BOOLEAN /\ (Voids(c, v[1]) => c.num # 0 /\ c.stage \in StagesBeforeAppend)
        /\ c.stage \notin InGmail /\ ~ClaimSent(c)
    BY <1>3 DEF Voids, ClaimTrue, ClaimSent, SendInFlight, InGmail
  <1>5. /\ d \in Claim /\ d.state = v[1] /\ d.stage = c.stage /\ d.num = c.num /\ d.sending = c.sending
        /\ d.voided = (c.voided \/ Voids(c, v[1])) /\ d.reason = "OTHER"
    BY ZenonT(40), <1>2, <1>3, <1>4 DEF Claim, States, Reasons
  <1>6. /\ WriteClaim(l, d) /\ UNCHANGED <<runs, stop, outbox>> /\ UNCHANGED booksVars
    BY <1>1 DEF SweepOpen, sharedVars, gmailVars, booksVars
  <1> HIDE DEF d
  <1>7. SafeAfter(c, d)
    BY <1>2, <1>3, <1>4, <1>5 DEF SafeAfter, Numbered
  <1>8. Follows(c, d)
    BY <1>2, <1>3, <1>4, <1>5, <1>7, FollowsBySame, TimerAssumption
  <1>9. ~MaybeSent(d) /\ d.state # "working"
    BY <1>2, <1>5 DEF MaybeSent
  <1>10. Overlaps \/ \A p \in Runs : runs[p].pc = "append" /\ LoadOf(p) = l => TriggerMode /\ BeingFiled(d)
    BY <1>3, FiledUnheld, TimerAssumption
  <1> QED BY <1>6, <1>8, <1>9, <1>10, PlainMail

\* A Super Admin's Try again.
LEMMA RetryMail ==
    ASSUME Known, NEW l \in Loads, Retry(l), UNCHANGED presses PROVE MailKeeps
  <1> DEFINE c == [claims[l] EXCEPT !.reason = "OTHER", !.attempts = 0]
             d == IF c.stage \in StagesBeforeAppend THEN [c EXCEPT !.state = "queued"]
                  ELSE [c EXCEPT !.state = "working", !.owner = NoRun, !.expired = TRUE]
  <1>1. claims[l] \in Claim /\ Numbered(claims[l]) /\ claims[l].state = "needs_attention" /\ ClaimTrue(claims[l])
    BY DEF Known, Core, CoreTypeOK, CoreInv, TransitKnown, Retry, MailInv, BooksTrue, ClaimsTrue
  <1>2. /\ c \in Claim /\ c.stage = claims[l].stage /\ c.num = claims[l].num
        /\ c.sending = claims[l].sending /\ c.voided = claims[l].voided
    BY <1>1 DEF Claim, Reasons
  <1>3. /\ WriteClaim(l, d) /\ UNCHANGED <<runs, stop, outbox>> /\ UNCHANGED booksVars
    BY DEF Retry, sharedVars, gmailVars, booksVars
  <1> HIDE DEF c
  <1>4. /\ d \in Claim /\ d.stage = c.stage /\ d.num = c.num /\ d.sending = c.sending /\ d.voided = c.voided
        /\ \/ d.state = "queued" /\ c.stage \in StagesBeforeAppend
           \/ d.state = "working" /\ d.owner = NoRun
    BY <1>2 DEF Claim, States
  <1> HIDE DEF d
  <1>5. SafeAfter(claims[l], d)
    BY <1>1, <1>2, <1>4 DEF SafeAfter, Numbered, ClaimSent
  <1>6. d.state = "queued" => claims[l].stage \notin InGmail
    BY <1>2, <1>4 DEF StagesBeforeAppend, InGmail
  <1>7. Follows(claims[l], d)
    BY <1>1, <1>2, <1>4, <1>5, <1>6, FollowsBySame, TimerAssumption
  <1>8. ~MaybeSent(d) /\ (d.state # "working" \/ d.owner = NoRun)
    BY <1>4 DEF MaybeSent
  <1>9. Overlaps \/ \A p \in Runs : runs[p].pc = "append" /\ LoadOf(p) = l => TriggerMode /\ BeingFiled(d)
    BY <1>1, FiledUnheld, TimerAssumption
  <1> QED BY <1>3, <1>7, <1>8, <1>9, PlainMail

\* A lease that ends leaves the claim with its run.
LEMMA LeaseEndsMail ==
    ASSUME Known, NEW l \in Loads, LeaseEnds(l) PROVE MailKeeps
  <1> DEFINE c == claims[l]  d == [c EXCEPT !.expired = TRUE]
  <1>1. /\ c \in Claim /\ claims \in [Loads -> Claim] /\ Numbered(c) /\ ClaimTrue(c) /\ c.state = "working"
        /\ runs \in [Runs -> RunRecord] /\ RunsTrue /\ FilesAlone
    BY DEF Known, Core, CoreTypeOK, CoreInv, TransitKnown, MailInv, BooksTrue, ClaimsTrue, LeaseEnds, RunTypeOK, RunRecord
  <1>2. /\ claims' = [claims EXCEPT ![l] = d] /\ UNCHANGED <<runs, givenUp, outbox, stop>> /\ UNCHANGED booksVars
    BY <1>1 DEF LeaseEnds, sharedVars, gmailVars, booksVars
  <1>3. /\ d \in Claim /\ d.state = c.state /\ d.owner = c.owner /\ d.stage = c.stage
        /\ d.num = c.num /\ d.sending = c.sending /\ d.voided = c.voided
    BY <1>1 DEF Claim
  <1> HIDE DEF d
  <1>4. WriteClaim(l, d)
    BY <1>2, <1>3 DEF WriteClaim
  <1>5. Numbered(d) /\ ClaimTrue(d) /\ ~MaybeSent(d) /\ (ClaimSent(c) => ClaimSent(d))
    BY <1>1, <1>3 DEF Numbered, ClaimTrue, MaybeSent, ClaimSent, SendInFlight
  <1>6. BooksTrue'
    BY <1>2, <1>3, <1>4, <1>5, BooksWrite DEF Known, Core, CoreTypeOK
  <1>7. Follows(c, d)
    BY <1>1, <1>3, <1>5 DEF Follows, SafeAfter
  <1>8. SendsKept
    BY <1>2, <1>7, KeptByFollowing
  <1>9. ASSUME NEW k \in Loads
        PROVE  /\ claims'[k].state = claims[k].state /\ claims'[k].owner = claims[k].owner
               /\ claims'[k].stage = claims[k].stage /\ claims'[k].num = claims[k].num
               /\ claims'[k].sending = claims[k].sending /\ claims'[k].voided = claims[k].voided
    BY <1>1, <1>2, <1>3
  <1>10. ASSUME NEW p \in Runs, runs[p].pc # "idle"
         PROVE  /\ LoadOf(p)' = LoadOf(p) /\ (Holds(p)' <=> Holds(p))
                /\ Mine(p).stage' = Mine(p).stage /\ Mine(p).num' = Mine(p).num /\ Mine(p).state' = Mine(p).state
                /\ Mine(p).sending' = Mine(p).sending /\ Mine(p).voided' = Mine(p).voided
    <2>1. runs[p].load \in Loads /\ runs'[p] = runs[p]
      BY <1>2, <1>10 DEF Known, Core, CoreTypeOK, RunTypeOK
    <2> QED BY <1>9, <2>1 DEF LoadOf, Mine, Holds
  <1>11. RunsTrue'
    <2> SUFFICES ASSUME NEW p \in Runs, runs'[p].pc # "idle", Holds(p)'
                 PROVE  /\ StageFits(runs'[p].pc, Mine(p)')
                        /\ runs'[p].pc = "append" => runs'[p].num = Mine(p)'.num
      BY DEF RunsTrue
    <2>1. /\ runs'[p] = runs[p] /\ StageFits(runs[p].pc, Mine(p))
          /\ runs[p].pc = "append" => runs[p].num = Mine(p).num
      BY <1>1, <1>2, <1>10 DEF RunsTrue
    <2> QED BY <1>2, <1>10, <2>1 DEF StageFits, SendInFlight
  <1>12. FilesAlone'
    <2> SUFFICES ASSUME ~Overlaps, NEW r \in Runs, runs'[r].pc = "append"
                 PROVE  /\ BeingFiled(Mine(r)') /\ Mine(r)'.num = runs'[r].num /\ Absent(copies', runs'[r].num)
                        /\ TriggerMode \/ Holds(r)'
                        /\ \A q \in Runs :
                              runs'[q].pc # "idle" /\ LoadOf(q)' = LoadOf(r)' /\ (runs'[q].pc = "append" \/ Holds(q)') => q = r
      BY DEF FilesAlone
    <2>1. runs' = runs /\ copies' = copies /\ runs[r].pc = "append"
      BY <1>2 DEF booksVars
    <2>2. /\ BeingFiled(Mine(r)) /\ Mine(r).num = runs[r].num /\ Absent(copies, runs[r].num)
          /\ TriggerMode \/ Holds(r)
          /\ \A q \in Runs :
                runs[q].pc # "idle" /\ LoadOf(q) = LoadOf(r) /\ (runs[q].pc = "append" \/ Holds(q)) => q = r
      BY <1>1, <2>1, FilesAloneMeans
    <2>3. BeingFiled(Mine(r)') /\ Mine(r)'.num = runs[r].num /\ (TriggerMode \/ Holds(r)')
      BY <1>10, <2>1, <2>2 DEF BeingFiled
    <2>4. ASSUME NEW q \in Runs, runs[q].pc # "idle", LoadOf(q)' = LoadOf(r)', runs[q].pc = "append" \/ Holds(q)' PROVE q = r
      BY <1>10, <2>1, <2>2, <2>4
    <2> QED BY <2>1, <2>2, <2>3, <2>4
  <1> QED BY <1>6, <1>8, <1>11, <1>12 DEF MailKeeps, MailInv

\* A run dies under way: what it was filing landed or did not.
LEMMA CrashMail ==
    ASSUME Known, NEW r \in Runs, Crash(r) PROVE MailKeeps
  <1>1. /\ runs[r].pc # "idle" /\ runs' = [runs EXCEPT ![r] = IdleRun]
        /\ UNCHANGED <<claims, rows, inflight, seq, givenUp, stop, sent, outbox, delivered, handFiled, presses>>
        /\ copies' = copies \/ (runs[r].pc = "append" /\ File(runs[r].num))
    BY DEF Crash, ledgerVars
  <1>2. RunOK(IdleRun) /\ IdleRun.pc = "idle"
    BY DEF RunOK, RunRecord, IdleRun, PCs
  <1>3. /\ BooksTrue' /\ SendsKept
        /\ \A p \in Runs : runs[p].pc = "append" /\ p # r => Absent(copies', runs[p].num)
    <2>1. CASE copies' = copies
      <3>1. BooksTrue'
        BY <1>1, <2>1, BooksStutter DEF booksVars
      <3>2. \A p \in Runs : runs[p].pc = "append" /\ p # r => Absent(copies', runs[p].num)
        BY <2>1, NothingFiled
      <3> QED BY <1>1, <3>1, <3>2, KeptByStutter
    <2>2. CASE runs[r].pc = "append" /\ File(runs[r].num)
      BY <1>1, <2>2, DraftLands
    <2> QED BY <1>1, <2>1, <2>2
  <1>4. RunsTrue' /\ FilesAlone'
    BY <1>1, <1>2, <1>3, RunsMove
  <1> QED BY <1>3, <1>4 DEF MailKeeps, MailInv

\* At the start there is no number, no message and no run.
LEMMA InitMail == Init => MailInv
  <1> SUFFICES ASSUME Init PROVE MailInv
    OBVIOUS
  <1>1. /\ \A l \in Loads : claims[l] = NoClaim /\ outbox[l] = 0 /\ delivered[l] = 0
        /\ \A r \in Runs : runs[r].pc = "idle"
        /\ \A p \in Presses : presses[p] = IdlePress
        /\ \A n \in Numbers : Absent(copies, n)
        /\ rows = {} /\ inflight = {} /\ seq = 0 /\ givenUp = {} /\ sent = {} /\ handFiled = {}
    BY DEF Init, LedgerInit, NothingElseYet, RunInit, PressInit, IdleRun
  <1>2. /\ NoClaim.state = "none" /\ NoClaim.stage = "" /\ NoClaim.num = 0 /\ NoClaim.voided = FALSE
        /\ NoClaim.sending = FALSE
    BY DEF NoClaim
  <1>3. IdlePress.pc = "idle" /\ IdlePress.num = 0
    BY DEF IdlePress
  <1>4. ClaimsTrue
    <2> SUFFICES ASSUME NEW l \in Loads
                 PROVE  /\ ClaimTrue(claims[l])
                        /\ outbox[l] > 0 => Absent(copies, claims[l].num)
                        /\ MaybeSent(claims[l]) => stop
                        /\ claims[l].num \in givenUp => claims[l].voided
      BY DEF ClaimsTrue
    <2>1. ClaimTrue(claims[l]) /\ ~MaybeSent(claims[l])
      BY <1>1, <1>2 DEF ClaimTrue, MaybeSent, InGmail, SendInFlight, StagesBeforeAppend
    <2>2. ~(outbox[l] > 0) /\ claims[l].num \notin givenUp
      BY <1>1
    <2> QED BY <2>1, <2>2
  <1>5. NumbersMinted /\ NumbersApart
    <2>1. /\ \A l \in Loads : claims[l].num = 0
          /\ \A p \in Presses : presses[p].num = 0
      BY <1>1, <1>2, <1>3
    <2>2. NumbersMinted
      BY <1>1, <2>1 DEF NumbersMinted
    <2>3. NumbersApart
      BY <1>1, <2>1 DEF NumbersApart
    <2> QED BY <2>2, <2>3
  <1>6. PressesTrue
    BY <1>1, <1>3 DEF PressesTrue, PressTrue
  <1>7. Filed /\ SentKnown /\ OneHandOff
    BY <1>1 DEF Filed, SentKnown, OneHandOff, FiledOnce, HandDraftsTracked, OneSideWins
  <1>8. RunsTrue /\ FilesAlone
    BY <1>1 DEF RunsTrue, FilesAlone
  <1> QED BY <1>4, <1>5, <1>6, <1>7, <1>8 DEF MailInv, BooksTrue

\* Every step of the specification keeps the mail and the records true, and the sends known.
LEMMA StepMail ==
    ASSUME MInv, [Next]_vars PROVE MailKeeps
  <1>1. Known
    BY KnownOf
  <1>2. ASSUME NEW r \in Runs, RunStep(r), UNCHANGED others PROVE MailKeeps
    BY <1>1, <1>2, RunStepMail DEF others
  <1>3. ASSUME NEW r \in Runs, NEW l \in Loads, Work(r, l) \/ TakeOver(r, l), UNCHANGED others PROVE MailKeeps
    BY <1>1, <1>3, LeaseMail, TakeOverMail DEF Work, others
  <1>4. ASSUME NEW l \in Loads, UNCHANGED others,
               SweepNew(l) \/ SweepOpen(l) \/ ClosedByHand(l) \/ ChangedAfterSend(l) \/ Retry(l) \/ LateDelivery(l)
        PROVE  MailKeeps
    BY <1>1, <1>4, SweepNewMail, SweepOpenMail, ClosedByHandMail, ChangedAfterSendMail, RetryMail, LateDeliveryMail
       DEF others
  <1>5. ASSUME NEW l \in Loads, LeaseEnds(l) PROVE MailKeeps
    BY <1>1, <1>5, LeaseEndsMail
  <1>6. ASSUME NEW r \in Runs, Crash(r) PROVE MailKeeps
    BY <1>1, <1>6, CrashMail
  <1>7. ASSUME SwitchNext, UNCHANGED <<runs, others>> PROVE MailKeeps
    BY <1>1, <1>7, SwitchMail DEF others
  <1>8. ASSUME PressNext, UNCHANGED <<runs, crashes, overruns>> PROVE MailKeeps
    BY <1>1, <1>8, PressNextMail
  <1>9. ASSUME UNCHANGED vars PROVE MailKeeps
    BY <1>1, <1>9, MailStutter DEF vars, ledgerVars, gmailVars, booksVars
  <1> QED BY <1>2, <1>3, <1>4, <1>5, <1>6, <1>7, <1>8, <1>9 DEF Next, Tick, Sweep

\* So the two together are kept.
LEMMA StepMInv ==
    ASSUME MInv, [Next]_vars PROVE MInv' /\ Confirmed
  <1>1. IInv' /\ MailKeeps
    BY StepInv, StepMail DEF MInv
  <1>2. ClaimsTrue' /\ SendsKept
    BY <1>1 DEF MailKeeps, MailInv, BooksTrue
  <1> QED BY <1>1, <1>2, ConfirmedByKeeping DEF MInv, MailKeeps

\* Every step is a step of InvoiceOnce, or none.
LEMMA StepPromise ==
    ASSUME ~N8n, MInv, MInv', [Next]_vars PROVE Promised
  <1>1. Known /\ Core /\ DeliveredKnown /\ RestTypeOK /\ Core'
    <2>1. Core'
      BY TypesAreParts DEF MInv, IInv, Core, TypeOK, CoreTypeOK, LedgerTypeOK, SendInv, CoreInv,
         ClaimsKnowSends, TransitKnown
    <2> QED BY <2>1, KnownOf DEF Known
  <1>2. ASSUME UNCHANGED <<outbox, delivered, handFiled, marker>> PROVE Promised
    BY <1>2, PromiseStutter DEF Factored
  <1>3. ASSUME NEW r \in Runs, RunStep(r) PROVE Promised
    BY <1>1, <1>3, RunStepPromise
  <1>4. ASSUME NEW l \in Loads, LateDelivery(l) PROVE Promised
    BY <1>1, <1>4, DeliverPromise DEF LateDelivery, ledgerVars
  <1>5. ASSUME SwitchNext PROVE Promised
    BY <1>1, <1>5, SwitchPromise
  <1>6. ASSUME PressNext PROVE Promised
    BY <1>1, <1>6, PressPromise
  <1>7. ASSUME NEW r \in Runs, NEW l \in Loads, Work(r, l) \/ TakeOver(r, l) PROVE Promised
    BY <1>2, <1>7 DEF Work, TakeOver, Lease, Recover, gmailVars, sharedVars
  <1>8. ASSUME NEW l \in Loads, SweepNew(l) \/ SweepOpen(l) \/ ClosedByHand(l) \/ ChangedAfterSend(l) \/ Retry(l)
        PROVE  Promised
    BY <1>2, <1>8 DEF SweepNew, SweepOpen, ClosedByHand, ChangedAfterSend, Retry, gmailVars, sharedVars
  <1>9. ASSUME (\E l \in Loads : LeaseEnds(l)) \/ (\E r \in Runs : Crash(r)) \/ UNCHANGED vars PROVE Promised
    BY <1>2, <1>9 DEF LeaseEnds, Crash, vars, gmailVars, sharedVars, ledgerVars
  <1> QED BY <1>3, <1>4, <1>5, <1>6, <1>7, <1>8, <1>9 DEF Next, Tick, Sweep

\* So every reachable state has it, and every step confirms and promises as it should.
LEMMA MailInvariance == Spec => []MInv
  <1>1. Init => MInv
    BY InitInv, InitMail DEF MInv
  <1>2. MInv /\ [Next]_vars => MInv'
    BY StepMInv
  <1> QED BY <1>1, <1>2, PTL DEF Spec

\* With the webhook or without it, what the records say went to Gmail is there, and a send recorded
\* as such is in Sent Mail: an answer that is lost, or comes from the second path after the first had
\* filed the draft, records nothing that is not in the mailbox.
THEOREM RecordsAreThere == Spec => []RecordedIsInGmail
  <1>1. MInv => RecordedIsInGmail
    BY KnownOf, MailInvSuffices DEF Known
  <1> QED BY <1>1, MailInvariance, PTL

\* With the webhook or without it, no send of the job is forgotten: each has a claim that says so in
\* a state somebody comes back to, and a load left as maybe sent holds sending stopped.
THEOREM SendsRemembered == Spec => [](StopCoversMaybeSent /\ SendsAreTracked)
  <1>1. MInv => StopCoversMaybeSent /\ SendsAreTracked
    BY KnownOf, MailInvSuffices DEF Known
  <1> QED BY <1>1, MailInvariance, PTL

\* Without the webhook, one side wins: where the job's email went, or may still go, every draft a
\* press put in Gmail was a confirmed re-issue.
THEOREM OneSide == ASSUME ~N8n PROVE Spec => []OneSideWins
  <1>1. MInv => OneSideWins
    BY KnownOf, MailInvSuffices DEF Known
  <1> QED BY <1>1, MailInvariance, PTL

\* The mailbox, the audit log and the records say the same, whatever fails and whenever: no number
\* on two messages, none used after it was given up, no record without its message. It needs that
\* nobody takes a claim over under an append, as LEASE_MS has it.
THEOREM TrueRecords == ASSUME ~N8n, ~Overlaps PROVE Spec => []RecordsTrue
  <1>1. MInv => RecordsTrue
    BY KnownOf, MailInvSuffices DEF Known
  <1> QED BY <1>1, MailInvariance, PTL

\* Nothing that left the process is forgotten, by hand or by the job: each send and each draft has a
\* claim, a record or a row somebody comes back to, and a maybe-sent load holds sending stopped.
THEOREM Remembered == ASSUME ~N8n PROVE Spec => []NothingForgotten
  <1>1. MInv => NothingForgotten
    BY KnownOf, MailInvSuffices DEF Known
  <1> QED BY <1>1, MailInvariance, PTL

\* Nothing but a search that found it, or the server's refusal, takes a claim off an unconfirmed
\* send.
THEOREM SearchConfirms == Spec => OnlySearchConfirms
  <1>1. MInv /\ [Next]_vars => [Confirmed]_vars
    BY StepMInv
  <1> QED BY <1>1, MailInvariance, PTL DEF Spec, OnlySearchConfirms

\* The job, the button and the switch implement InvoiceOnce: its initial states and its steps are
\* the only ones they take, or none.
THEOREM Promise == ASSUME ~N8n PROVE Spec => KeepsPromise
  <1>1. Init => Once!Init
    <2> SUFFICES ASSUME Init PROVE Once!Init
      OBVIOUS
    <2>1. \A l \in Loads : outbox[l] = 0 /\ delivered[l] = 0 /\ ~Factored(l)
      BY DEF Init, LedgerInit, NothingElseYet, Factored
    <2>2. handFiled = {}
      BY DEF Init, LedgerInit, NothingElseYet
    <2> QED BY <2>1, <2>2 DEF Once!Init
  <1>2. MInv /\ MInv' /\ [Next]_vars => [Once!Next]_<<outcome, factored, handmade>>
    BY StepPromise DEF Promised
  <1>3. [Once!Next]_<<outcome, factored, handmade>> =>
        [Once!Next]_<<[l \in Loads |->
                    IF outbox[l] + delivered[l] > 1 THEN "twice"
                    ELSE IF delivered[l] = 1 THEN "sent"
                    ELSE IF outbox[l] = 1 THEN "committed" ELSE "idle"],
                  {l \in Loads : Factored(l)},
                  {l \in Loads : \E h \in handFiled : h.load = l /\ ~h.reissue}>>
    BY DEF outcome, Outcome, factored, handmade
  <1> QED BY <1>1, <1>2, <1>3, MailInvariance, PTL DEF Spec, KeepsPromise, Once!Spec
=============================================================================
