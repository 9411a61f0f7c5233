---------------------------- MODULE InvoiceProofs ----------------------------
(***************************************************************************)
(* What the steps shared by the timer and the driver's trigger keep: the   *)
(* types, SendInv and FactoredNeverSent (InvoiceSafety).  CoreInv is       *)
(* SendInv without what a loss of power undoes; the steps keep it too.     *)
(* MailProofs, TimerProofs and TriggerProofs build on it.                  *)
(***************************************************************************)
EXTENDS InvoiceSafety, TLAPS

\* The part of the type invariant SendInv speaks of, and the rest of it.
CoreTypeOK ==
    /\ claims \in [Loads -> Claim]
    /\ givenUp \subseteq Numbers
    /\ outbox \in [Loads -> Nat]
    /\ delivered \in [Loads -> Nat]
    /\ RunTypeOK

RestTypeOK ==
    /\ rows \subseteq DraftRow
    /\ inflight \subseteq InflightRow
    /\ marker \in [Loads -> {"clear", "factored", "locked"}]
    /\ stop \in BOOLEAN
    /\ seq \in 0..MaxNumber
    /\ copies \in [Numbers -> Nat]
    /\ sent \subseteq Numbers
    /\ handFiled \subseteq [load : Loads, num : Numbers, reissue : BOOLEAN]

\* SendInv but for a load whose message is delivered: only a loss of power makes its claim forget it.
TransitKnown ==
    \A l \in Loads :
       /\ outbox[l] + delivered[l] <= 1
       /\ outbox[l] > 0 => ClaimSent(claims[l])
       /\ Numbered(claims[l])

DeliveredKnown == \A l \in Loads : delivered[l] > 0 => ClaimSent(claims[l])

CoreInv == TransitKnown /\ RunsMatchClaims /\ OneAtSmtp

Core == CoreTypeOK /\ CoreInv

\* A message delivered was on its way, and what was known of it stays known unless it is taken back.
SendsFollow ==
    \A l \in Loads :
       /\ delivered'[l] > 0 => outbox[l] + delivered[l] > 0
       /\ ClaimSent(claims[l]) => ClaimSent(claims'[l]) \/ outbox'[l] + delivered'[l] = 0

CoreKept == Core' /\ SendsFollow

\* A run about to send sends for a load that was sent nothing.
SendsOnce(r) == runs[r].pc = "render" /\ Holds(r) /\ ~Mine(r).look => delivered[LoadOf(r)] = 0

\* d may take c's place without forgetting a send or a number.
SafeAfter(c, d) ==
    /\ d \in Claim
    /\ Numbered(d)
    /\ d.state # "none"
    /\ ClaimSent(c) => ClaimSent(d)

RunRecord == [pc : PCs, load : Loads \cup {NoLoad}, recovering : BOOLEAN, num : Numbers \cup {0}]

RunOK(q) == q \in RunRecord /\ (q.load = NoLoad <=> q.pc = "idle") /\ (q.pc = "append" => q.num # 0)

-----------------------------------------------------------------------------
\* No run's token is the empty owner.
LEMMA RunsAreNotNoRun == NoRun \notin Runs
  BY LedgerAssumption

(* What the code makes of a claim is safe. *)

\* What Release() leaves: the send it knew of, its number, and no owner.
LEMMA ReleaseSafe ==
    ASSUME NEW c \in Claim, Numbered(c), c.state # "none",
           NEW state \in States \ {"none"}, NEW reason \in Reasons
    PROVE  /\ SafeAfter(c, Release(c, state, reason))
           /\ Release(c, state, reason).owner = NoRun
           /\ Release(c, state, reason).num = c.num
  <1>1. KeptStage(c) \in Stages /\ (KeptStage(c) # "" => c.num # 0)
    BY DEF KeptStage, StagesBeforeAppend, Stages, Claim, Numbered
  <1>2. ClaimSent(c) => KeptStage(c) = c.stage
    BY DEF KeptStage, StagesBeforeAppend, ClaimSent
  <1>3. Voids(c, state) \in BOOLEAN /\ (Voids(c, state) => c.num # 0)
    BY DEF Voids
  <1> DEFINE d == Release(c, state, reason)
  <1>4. d = [c EXCEPT !.owner = NoRun, !.expired = FALSE, !.state = state, !.reason = reason,
                      !.stage = KeptStage(c), !.voided = c.voided \/ Voids(c, state)]
    BY DEF Release, Unowned, Claim
  <1>5. /\ d \in Claim /\ d.state = state /\ d.stage = KeptStage(c) /\ d.num = c.num
        /\ d.sending = c.sending /\ d.voided = (c.voided \/ Voids(c, state)) /\ d.owner = NoRun
    BY <1>1, <1>3, <1>4 DEF Claim
  <1>6. Numbered(d)
    BY <1>1, <1>3, <1>5 DEF Numbered
  <1>7. ClaimSent(c) => ClaimSent(d)
    BY <1>2, <1>5 DEF ClaimSent
  <1> QED BY <1>5, <1>6, <1>7 DEF SafeAfter

\* The same of a claim closed because somebody drafted the load by hand.
LEMMA SkipSafe ==
    ASSUME NEW c \in Claim, Numbered(c), c.state # "none"
    PROVE  SafeAfter(c, SkipDraftedByHand(c)) /\ SkipDraftedByHand(c).owner = NoRun
  <1>1. Voids(c, "skipped") \in BOOLEAN /\ (Voids(c, "skipped") => c.num # 0)
    BY DEF Voids
  <1> DEFINE d == SkipDraftedByHand(c)
  <1>2. /\ d \in Claim /\ d.state = "skipped" /\ d.stage = c.stage /\ d.num = c.num
        /\ d.sending = c.sending /\ d.voided = (c.voided \/ Voids(c, "skipped")) /\ d.owner = NoRun
    BY <1>1 DEF SkipDraftedByHand, Unowned, Claim, States, Reasons
  <1> QED BY <1>1, <1>2 DEF SafeAfter, Numbered, ClaimSent

\* The same of a claim that goes back to the queue, or to a person after its last backoff.
LEMMA BackoffSafe ==
    ASSUME NEW c \in Claim, Numbered(c), c.state # "none", NEW counted \in BOOLEAN
    PROVE  SafeAfter(c, Backoff(c, counted)) /\ Backoff(c, counted).owner = NoRun
  <1>1. KeptStage(c) \in Stages /\ (KeptStage(c) # "" => c.num # 0)
    BY DEF KeptStage, StagesBeforeAppend, Stages, Claim, Numbered
  <1>2. ClaimSent(c) => KeptStage(c) = c.stage
    BY DEF KeptStage, StagesBeforeAppend, ClaimSent
  <1> DEFINE d == Backoff(c, counted)
             tries == IF counted THEN c.attempts + 1 ELSE c.attempts
             state == IF counted /\ tries > RetryLimit THEN "needs_attention" ELSE "queued"
  <1>3. tries \in Nat /\ state \in {"needs_attention", "queued"}
    BY DEF Claim
  <1>4. d = [c EXCEPT !.owner = NoRun, !.expired = FALSE, !.state = state, !.reason = "OTHER",
                      !.stage = KeptStage(c), !.attempts = tries]
    BY DEF Backoff, Unowned, Claim
  <1> HIDE DEF tries, state
  <1>5. /\ d \in Claim /\ d.state \in {"needs_attention", "queued"} /\ d.stage = KeptStage(c)
        /\ d.num = c.num /\ d.sending = c.sending /\ d.voided = c.voided /\ d.owner = NoRun
    BY ZenonT(40), <1>1, <1>3, <1>4 DEF Claim, States, Reasons
  <1> QED BY <1>1, <1>2, <1>5 DEF SafeAfter, Numbered, ClaimSent

\* A claim goes back to its number only where no send was begun.
LEMMA RequeueSafe ==
    ASSUME NEW c \in Claim, Numbered(c), c.state # "none",
           NEW stage \in Stages, stage # "" => c.num # 0,
           ClaimSent(c) => stage = c.stage
    PROVE  SafeAfter(c, Requeue(c, stage)) /\ Requeue(c, stage).owner = NoRun
  <1> DEFINE d == Requeue(c, stage)
  <1>1. TriggerMode \in BOOLEAN
    BY LedgerAssumption
  <1>2. /\ d \in Claim /\ d.state = "queued" /\ d.stage = stage /\ d.num = c.num
        /\ d.sending = c.sending /\ d.voided = c.voided /\ d.owner = NoRun
    BY <1>1 DEF Requeue, Unowned, Claim, States
  <1> QED BY <1>2 DEF SafeAfter, Numbered, ClaimSent

\* A drafted claim has its number.
LEMMA DraftedSafe ==
    ASSUME NEW c \in Claim, c.num # 0
    PROVE  SafeAfter(c, Drafted(c)) /\ Drafted(c).owner = NoRun
  <1> DEFINE d == Drafted(c)
  <1>1. /\ d \in Claim /\ d.state = "drafted" /\ d.stage = "recorded" /\ d.num = c.num
        /\ d.sending = c.sending /\ d.owner = NoRun
    BY DEF Drafted, Unowned, Claim, States, Stages, Reasons
  <1> QED BY <1>1 DEF SafeAfter, Numbered, ClaimSent

\* A person takes the claim with the send it had.
LEMMA ToPersonSafe ==
    ASSUME NEW c \in Claim, Numbered(c), c.state # "none"
    PROVE  SafeAfter(c, ToPerson(c)) /\ ToPerson(c).owner = NoRun
  BY ReleaseSafe DEF ToPerson, States, Reasons

\* Safe after safe is safe.
LEMMA SafeTransitive ==
    ASSUME NEW c, NEW d, NEW e, SafeAfter(c, d), SafeAfter(d, e)
    PROVE  SafeAfter(c, e)
  BY DEF SafeAfter

-----------------------------------------------------------------------------
(* How a step keeps Core. *)

\* Writing a claim gives up only a number it has.
LEMMA WriteClaimOK ==
    ASSUME Core, NEW l, NEW c, NEW d, SafeAfter(c, d), WriteClaim(l, d)
    PROVE  claims' = [claims EXCEPT ![l] = d] /\ givenUp' \subseteq Numbers
  <1>1. d.voided => d.num \in Numbers
    BY DEF SafeAfter, Numbered, Claim
  <1> QED BY <1>1 DEF WriteClaim, Core, CoreTypeOK

\* A run writes the claim it holds and goes on elsewhere than to the SMTP server, or ends.  What
\* another run is doing is not disturbed: no other run holds the claim.
LEMMA RunWrite ==
    ASSUME Core, NEW r \in Runs, runs[r].pc # "idle", Holds(r),
           NEW d, SafeAfter(Mine(r), d), d.owner \in {NoRun, r},
           NEW q, RunOK(q), q.pc # "smtp", q.pc # "idle" => q.load = LoadOf(r),
           d.owner = r /\ q.pc # "idle" => RunFits(q.pc, d),
           claims' = [claims EXCEPT ![LoadOf(r)] = d], givenUp' \subseteq Numbers,
           runs' = [runs EXCEPT ![r] = q],
           UNCHANGED <<outbox, delivered>>
    PROVE  CoreKept
  <1> DEFINE l == LoadOf(r)
  <1> USE DEF Core
  <1>1. l \in Loads /\ Mine(r) = claims[l]
    BY DEF CoreTypeOK, RunTypeOK, LoadOf, Mine
  <1>2. claims' = [claims EXCEPT ![l] = d] /\ d \in Claim
    BY DEF SafeAfter
  <1>3. claims' \in [Loads -> Claim]
    BY <1>2 DEF CoreTypeOK
  <1>4. RunTypeOK'
    <2>1. runs' \in [Runs -> RunRecord]
      BY DEF CoreTypeOK, RunTypeOK, RunOK, RunRecord
    <2>2. ASSUME NEW p \in Runs PROVE RunOK(runs'[p])
      BY <2>1 DEF CoreTypeOK, RunTypeOK, RunOK, RunRecord
    <2> QED BY <2>1, <2>2 DEF RunTypeOK, RunOK, RunRecord
  <1>5. TransitKnown'
    <2> SUFFICES ASSUME NEW k \in Loads
                 PROVE  /\ outbox[k] + delivered[k] <= 1
                        /\ outbox[k] > 0 => ClaimSent(claims'[k])
                        /\ Numbered(claims'[k])
      BY DEF TransitKnown
    <2>1. /\ outbox[k] + delivered[k] <= 1
          /\ outbox[k] > 0 => ClaimSent(claims[k])
          /\ Numbered(claims[k])
      BY DEF CoreInv, TransitKnown
    <2>2. CASE k = l
      BY <1>1, <1>2, <2>1, <2>2 DEF SafeAfter, CoreTypeOK
    <2>3. CASE k # l
      BY <1>1, <1>2, <2>1, <2>3 DEF CoreTypeOK
    <2> QED BY <2>2, <2>3
  <1>6. RunsMatchClaims'
    <2> SUFFICES ASSUME NEW p \in Runs, runs'[p].pc # "idle", Holds(p)'
                 PROVE  RunFits(runs'[p].pc, claims'[runs'[p].load])
      BY DEF RunsMatchClaims, Mine, LoadOf
    <2>1. CASE p = r
      <3>1. runs'[p] = q /\ claims'[q.load] = d
        BY <1>1, <1>2, <2>1 DEF CoreTypeOK, RunTypeOK
      <3> QED BY <2>1, <3>1, RunsAreNotNoRun DEF Holds, Mine, LoadOf
    <2>2. CASE p # r
      <3>1. runs'[p] = runs[p] /\ runs[p].load \in Loads
        BY <2>2, <1>4 DEF RunTypeOK, CoreTypeOK
      <3>2. runs[p].load # l
        BY <1>1, <1>2, <2>2, <3>1, RunsAreNotNoRun DEF Holds, Mine, LoadOf, CoreTypeOK
      <3>3. claims'[runs[p].load] = claims[runs[p].load]
        BY <1>1, <1>2, <3>1, <3>2 DEF CoreTypeOK
      <3>4. Holds(p)
        BY <3>1, <3>3 DEF Holds, Mine, LoadOf
      <3> QED BY <3>1, <3>3, <3>4 DEF CoreInv, RunsMatchClaims, Mine, LoadOf
    <2> QED BY <2>1, <2>2
  <1>7. OneAtSmtp'
    BY DEF OneAtSmtp, CoreInv, LoadOf, CoreTypeOK, RunTypeOK
  <1>8. SendsFollow
    <2> SUFFICES ASSUME NEW k \in Loads
                 PROVE  /\ delivered'[k] > 0 => outbox[k] + delivered[k] > 0
                        /\ ClaimSent(claims[k]) => ClaimSent(claims'[k]) \/ outbox'[k] + delivered'[k] = 0
      BY DEF SendsFollow
    <2>1. outbox[k] \in Nat /\ delivered[k] \in Nat
      BY DEF CoreTypeOK
    <2>2. CASE k = l
      BY <1>1, <1>2, <2>1, <2>2 DEF SafeAfter, CoreTypeOK
    <2>3. CASE k # l
      BY <1>1, <1>2, <2>1, <2>3 DEF CoreTypeOK
    <2> QED BY <2>2, <2>3
  <1> QED BY <1>3, <1>4, <1>5, <1>6, <1>7, <1>8 DEF CoreTypeOK, CoreInv, CoreKept

\* A run goes on elsewhere than to the SMTP server, or ends, and writes nothing.
LEMMA RunMove ==
    ASSUME Core, NEW r \in Runs,
           NEW q, RunOK(q), q.pc # "smtp", q.pc # "idle" => q.load = LoadOf(r),
           Holds(r) /\ q.pc # "idle" => RunFits(q.pc, Mine(r)),
           runs' = [runs EXCEPT ![r] = q],
           UNCHANGED <<claims, givenUp, outbox, delivered>>
    PROVE  CoreKept
  <1> USE DEF Core
  <1>1. RunTypeOK'
    <2>1. runs' \in [Runs -> RunRecord]
      BY DEF CoreTypeOK, RunTypeOK, RunOK, RunRecord
    <2>2. ASSUME NEW p \in Runs PROVE RunOK(runs'[p])
      BY <2>1 DEF CoreTypeOK, RunTypeOK, RunOK, RunRecord
    <2> QED BY <2>1, <2>2 DEF RunTypeOK, RunOK, RunRecord
  <1>2. TransitKnown'
    BY DEF TransitKnown, CoreInv
  <1>3. RunsMatchClaims'
    <2> SUFFICES ASSUME NEW p \in Runs, runs'[p].pc # "idle", Holds(p)'
                 PROVE  RunFits(runs'[p].pc, claims[runs'[p].load])
      BY DEF RunsMatchClaims, Mine, LoadOf
    <2>1. CASE p = r
      BY <2>1 DEF Holds, Mine, LoadOf, CoreTypeOK, RunTypeOK
    <2>2. CASE p # r
      BY <2>2 DEF Holds, Mine, LoadOf, CoreTypeOK, RunTypeOK, CoreInv, RunsMatchClaims
    <2> QED BY <2>1, <2>2
  <1>4. OneAtSmtp'
    BY DEF OneAtSmtp, CoreInv, LoadOf, CoreTypeOK, RunTypeOK
  <1>5. SendsFollow
    BY DEF SendsFollow, CoreTypeOK
  <1> QED BY <1>1, <1>2, <1>3, <1>4, <1>5 DEF CoreTypeOK, CoreInv, CoreKept

\* Somebody who is no run writes a claim and leaves it to no run.
LEMMA PlainWrite ==
    ASSUME Core, NEW l \in Loads, NEW d, SafeAfter(claims[l], d),
           d.state # "working" \/ d.owner = NoRun,
           WriteClaim(l, d), UNCHANGED <<runs, outbox, delivered>>
    PROVE  CoreKept
  <1> USE DEF Core
  <1>1. claims' = [claims EXCEPT ![l] = d] /\ d \in Claim
    BY WriteClaimOK DEF SafeAfter
  <1>2. claims' \in [Loads -> Claim] /\ givenUp' \subseteq Numbers
    BY <1>1, WriteClaimOK DEF CoreTypeOK
  <1>3. TransitKnown'
    <2> SUFFICES ASSUME NEW k \in Loads
                 PROVE  /\ outbox[k] + delivered[k] <= 1
                        /\ outbox[k] > 0 => ClaimSent(claims'[k])
                        /\ Numbered(claims'[k])
      BY DEF TransitKnown
    <2>1. /\ outbox[k] + delivered[k] <= 1
          /\ outbox[k] > 0 => ClaimSent(claims[k])
          /\ Numbered(claims[k])
      BY DEF CoreInv, TransitKnown
    <2> QED BY <1>1, <2>1 DEF SafeAfter, CoreTypeOK
  <1>4. RunsMatchClaims'
    <2> SUFFICES ASSUME NEW p \in Runs, runs[p].pc # "idle", Holds(p)'
                 PROVE  RunFits(runs[p].pc, claims'[runs[p].load])
      BY DEF RunsMatchClaims, Mine, LoadOf
    <2>1. runs[p].load \in Loads
      BY DEF RunTypeOK, CoreTypeOK
    <2>2. runs[p].load # l
      BY <1>1, <2>1, RunsAreNotNoRun DEF Holds, Mine, LoadOf, CoreTypeOK
    <2>3. claims'[runs[p].load] = claims[runs[p].load]
      BY <1>1, <2>1, <2>2 DEF CoreTypeOK
    <2> QED BY <2>3 DEF Holds, CoreInv, RunsMatchClaims, Mine, LoadOf
  <1>5. RunTypeOK' /\ OneAtSmtp'
    BY DEF CoreTypeOK, RunTypeOK, OneAtSmtp, CoreInv, LoadOf
  <1>6. SendsFollow
    <2> SUFFICES ASSUME NEW k \in Loads
                 PROVE  /\ delivered'[k] > 0 => outbox[k] + delivered[k] > 0
                        /\ ClaimSent(claims[k]) => ClaimSent(claims'[k]) \/ outbox'[k] + delivered'[k] = 0
      BY DEF SendsFollow
    <2>1. outbox[k] \in Nat /\ delivered[k] \in Nat
      BY DEF CoreTypeOK
    <2> QED BY <1>1, <2>1 DEF SafeAfter, CoreTypeOK
  <1> QED BY <1>2, <1>3, <1>4, <1>5, <1>6 DEF CoreTypeOK, CoreInv, CoreKept

-----------------------------------------------------------------------------
(* The run's own ways to write and to go on. *)

\* Where a run that ends is.
EndedRun(r) == IF TriggerMode THEN [runs[r] EXCEPT !.pc = "close", !.num = 0] ELSE IdleRun

\* A run that ends is idle, or waits to be closed on the load it had.
LEMMA EndedRunOK ==
    ASSUME Core, NEW r \in Runs, runs[r].pc # "idle"
    PROVE  /\ RunOK(EndedRun(r)) /\ EndedRun(r).pc \in {"idle", "close"}
           /\ EndedRun(r).pc # "idle" => EndedRun(r).load = LoadOf(r)
           /\ \A c : RunFits(EndedRun(r).pc, c) \/ EndedRun(r).pc = "idle"
           /\ Ends(r) => runs' = [runs EXCEPT ![r] = EndedRun(r)]
  <1>1. runs \in [Runs -> RunRecord] /\ runs[r].load # NoLoad
    BY DEF Core, CoreTypeOK, RunTypeOK, RunRecord
  <1>2. CASE TriggerMode
    <2>1. /\ EndedRun(r) \in RunRecord /\ EndedRun(r).pc = "close"
          /\ EndedRun(r).load = runs[r].load /\ EndedRun(r).num = 0
      BY <1>1, <1>2 DEF EndedRun, RunRecord, PCs
    <2> QED BY <1>1, <1>2, <2>1 DEF RunOK, LoadOf, RunFits, Ends, EndedRun
  <1>3. CASE ~TriggerMode
    BY <1>1, <1>3 DEF EndedRun, IdleRun, RunOK, RunRecord, PCs, Ends
  <1> QED BY <1>2, <1>3

\* A run ends and its claim is as it was.
LEMMA EndsKeeps ==
    ASSUME Core, NEW r \in Runs, runs[r].pc # "idle", Ends(r),
           UNCHANGED <<claims, givenUp, outbox, delivered>>
    PROVE  CoreKept
  BY EndedRunOK, RunMove

\* A run's last write to the claim it holds.
LEMMA EndsWithKeeps ==
    ASSUME Core, NEW r \in Runs, runs[r].pc # "idle", Holds(r),
           NEW d, SafeAfter(Mine(r), d), d.owner = NoRun,
           EndsWith(r, d), UNCHANGED <<outbox, delivered>>
    PROVE  CoreKept
  BY EndedRunOK, RunWrite, RunsAreNotNoRun, WriteClaimOK DEF EndsWith

\* A run goes on to its next await.
LEMMA GoRunOK ==
    ASSUME Core, NEW r \in Runs, runs[r].pc # "idle", NEW pc \in PCs \ {"idle"},
           pc = "append" => Mine(r).num # 0
    PROVE  \E q : /\ RunOK(q) /\ q.pc = pc /\ q.load = LoadOf(r)
                  /\ Go(r, pc) => runs' = [runs EXCEPT ![r] = q]
  <1> DEFINE q == [runs[r] EXCEPT !.pc = pc, !.num = IF pc = "append" THEN Mine(r).num ELSE 0]
  <1>1. runs[r] \in RunRecord /\ LoadOf(r) \in Loads
    BY DEF Core, CoreTypeOK, RunTypeOK, RunRecord, LoadOf
  <1>2. Mine(r).num \in Numbers \cup {0}
    BY <1>1 DEF Core, CoreTypeOK, Mine, Claim
  <1>3. q \in RunRecord /\ q.pc = pc /\ q.load = LoadOf(r) /\ (pc = "append" => q.num # 0)
    BY <1>1, <1>2 DEF RunRecord, LoadOf
  <1>4. LoadOf(r) # NoLoad
    BY <1>1, LedgerAssumption
  <1>5. Go(r, pc) => runs' = [runs EXCEPT ![r] = q]
    BY DEF Go
  <1> QED BY <1>3, <1>4, <1>5 DEF RunOK

\* A run that goes on to another await, its claim as it was, keeps the invariant.
LEMMA GoKeeps ==
    ASSUME Core, NEW r \in Runs, runs[r].pc # "idle",
           NEW pc \in PCs \ {"idle", "smtp"}, pc = "append" => Mine(r).num # 0,
           Holds(r) => RunFits(pc, Mine(r)),
           Go(r, pc), UNCHANGED <<claims, givenUp, outbox, delivered>>
    PROVE  CoreKept
  BY GoRunOK, RunMove

\* So does one that writes its claim on the way, when the claim still knows of its send and fits the new await.
LEMMA WritesKeeps ==
    ASSUME Core, NEW r \in Runs, runs[r].pc # "idle", Holds(r),
           NEW d, SafeAfter(Mine(r), d), d.owner = r,
           NEW pc \in PCs \ {"idle", "smtp"}, pc = "append" => Mine(r).num # 0,
           RunFits(pc, d), Writes(r, d, pc), UNCHANGED <<outbox, delivered>>
    PROVE  CoreKept
  BY GoRunOK, RunWrite, WriteClaimOK DEF Writes

\* A temporary failure.
LEMMA TemporaryKeeps ==
    ASSUME Core, stop \in BOOLEAN, NEW r \in Runs, runs[r].pc # "idle", Holds(r),
           NEW d, SafeAfter(Mine(r), d), NEW counted \in BOOLEAN,
           TemporaryEnd(r, d, counted), UNCHANGED <<outbox, delivered>>
    PROVE  CoreKept /\ stop' \in BOOLEAN
  <1>1. d \in Claim /\ Numbered(d) /\ d.state # "none"
    BY DEF SafeAfter
  <1>2. stop' \in BOOLEAN
    BY DEF TemporaryEnd, SendInFlight
  <1>3. CASE TriggerMode
    BY <1>1, <1>3, ToPersonSafe, SafeTransitive, EndsWithKeeps DEF TemporaryEnd
  <1>4. CASE ~TriggerMode
    BY <1>1, <1>4, BackoffSafe, SafeTransitive, EndsWithKeeps DEF TemporaryEnd
  <1> QED BY <1>2, <1>3, <1>4

\* What a run that holds its claim may count on.
LEMMA HeldFacts ==
    ASSUME Core, NEW r \in Runs, runs[r].pc # "idle", Holds(r)
    PROVE  /\ LoadOf(r) \in Loads /\ Mine(r) = claims[LoadOf(r)]
           /\ Mine(r) \in Claim /\ Numbered(Mine(r)) /\ Mine(r).state = "working" /\ Mine(r).owner = r
           /\ RunFits(runs[r].pc, Mine(r))
           /\ SafeAfter(Mine(r), Mine(r))
  <1>1. LoadOf(r) \in Loads /\ Mine(r) = claims[LoadOf(r)]
    BY DEF Core, CoreTypeOK, RunTypeOK, LoadOf, Mine
  <1>2. Mine(r) \in Claim /\ Numbered(Mine(r))
    BY <1>1 DEF Core, CoreTypeOK, CoreInv, TransitKnown
  <1> QED BY <1>1, <1>2 DEF Holds, SafeAfter, Core, CoreInv, RunsMatchClaims

\* A claim with a number moves to a later stage, or back where no send was begun.
LEMMA StageSafe ==
    ASSUME NEW c \in Claim, Numbered(c), c.state # "none", NEW stage \in Stages,
           stage # "" => c.num # 0,
           ClaimSent(c) => stage \notin StagesBeforeAppend
    PROVE  /\ SafeAfter(c, [c EXCEPT !.stage = stage])
           /\ [c EXCEPT !.stage = stage].num = c.num /\ [c EXCEPT !.stage = stage].owner = c.owner
           /\ [c EXCEPT !.stage = stage].state = c.state /\ [c EXCEPT !.stage = stage].stage = stage
           /\ [c EXCEPT !.stage = stage].sending = c.sending
  BY DEF SafeAfter, Numbered, ClaimSent, Claim, StagesBeforeAppend, Stages

-----------------------------------------------------------------------------
(* The steps of a run. *)

RunKeeps == CoreKept /\ RestTypeOK'

\* A load already drafted, or refused by the engine, ends the run with its claim released.
LEMMA ReleaseKeeps ==
    ASSUME Core, NEW r \in Runs, runs[r].pc # "idle", Holds(r),
           NEW d, SafeAfter(Mine(r), d), NEW state \in States \ {"none"}, NEW reason \in Reasons,
           EndsWith(r, Release(d, state, reason)), UNCHANGED <<outbox, delivered>>
    PROVE  CoreKept
  <1>1. d \in Claim /\ Numbered(d) /\ d.state # "none"
    BY DEF SafeAfter
  <1> QED BY <1>1, ReleaseSafe, SafeTransitive, EndsWithKeeps

\* A claim closed because somebody drafted the load by hand (skipDraftedByHand()) keeps it.
LEMMA SkipKeeps ==
    ASSUME Core, NEW r \in Runs, runs[r].pc # "idle", Holds(r),
           NEW d, SafeAfter(Mine(r), d),
           EndsWith(r, SkipDraftedByHand(d)), UNCHANGED <<outbox, delivered>>
    PROVE  CoreKept
  <1>1. d \in Claim /\ Numbered(d) /\ d.state # "none"
    BY DEF SafeAfter
  <1> QED BY <1>1, SkipSafe, SafeTransitive, EndsWithKeeps

\* A run that lost its claim.
LEMMA LostRunKeeps ==
    ASSUME Core, RestTypeOK, NEW r \in Runs, LostRun(r) PROVE RunKeeps
  <1>1. CoreKept
    BY EndsKeeps DEF LostRun, ledgerVars, gmailVars
  <1> QED BY <1>1 DEF RunKeeps, RestTypeOK, LostRun, ledgerVars, gmailVars

\* The snapshot.
LEMMA SnapshotKeeps ==
    ASSUME Core, RestTypeOK, NEW r \in Runs, SheetDown(r) \/ NotNow(r) \/ AfterSnapshot(r) PROVE RunKeeps
  <1>1. runs[r].pc = "snapshot" /\ Holds(r)
    BY DEF SheetDown, NotNow, AfterSnapshot, At
  <1>2. stop \in BOOLEAN
    BY DEF RestTypeOK
  <1>3. CASE SheetDown(r) \/ NotNow(r)
    <2>1. CoreKept /\ stop' \in BOOLEAN
      BY <1>1, <1>2, <1>3, HeldFacts, TemporaryKeeps DEF SheetDown, NotNow, gmailVars
    <2> QED BY <1>3, <2>1 DEF RunKeeps, RestTypeOK, SheetDown, NotNow, sharedVars, gmailVars
  <1>4. CASE AfterSnapshot(r)
    <2> DEFINE c == Mine(r)  l == LoadOf(r)
    <2>1. UNCHANGED <<outbox, delivered>> /\ stop' = stop
      BY <1>4 DEF AfterSnapshot, gmailVars, Settles
    <2>2. ASSUME SendInFlight(c) \/ c.stage \in {"appended", "recorded"},
                 Go(r, IF SendInFlight(c) THEN "searchSent" ELSE "rebuild"),
                 UNCHANGED <<claims, givenUp>>
          PROVE  CoreKept
      <3>1. c.num # 0
        BY <1>1, <2>2, HeldFacts DEF Numbered, SendInFlight
      <3> QED BY <1>1, <2>1, <2>2, <3>1, GoKeeps DEF PCs, RunFits
    <2>3. ASSUME EndsWith(r, SkipDraftedByHand(c)) PROVE CoreKept
      BY <1>1, <2>1, <2>3, HeldFacts, SkipKeeps
    <2>4. ASSUME NEW v \in FreeVerdicts(l),
                 EndsWith(r, Release(c, IF TriggerMode /\ v = <<"waiting", "OTHER">>
                                        THEN "needs_attention" ELSE v[1], v[2]))
          PROVE  CoreKept
      <3>1. v[1] \in States \ {"none"} /\ v[2] \in Reasons
        BY DEF FreeVerdicts, States, Reasons
      <3> QED BY <1>1, <2>1, <2>4, <3>1, HeldFacts, ReleaseKeeps DEF States
    <2>5. ASSUME c.stage = "appending", ~SendInFlight(c), Go(r, "searchDraft"), UNCHANGED <<claims, givenUp>>
          PROVE  CoreKept
      <3>1. c.num # 0 /\ ~c.sending
        BY <1>1, <2>5, HeldFacts DEF Numbered, SendInFlight, Claim
      <3> QED BY <1>1, <2>1, <2>5, <3>1, GoKeeps DEF PCs, RunFits
    <2>6. ASSUME Settles(r, c) PROVE CoreKept
      BY <1>1, <2>1, <2>6, HeldFacts, ReleaseKeeps DEF Settles, States, Reasons
    <2>7. ASSUME c.stage \notin {"appended", "recorded", "appending"}, Go(r, "prepare"), UNCHANGED <<claims, givenUp>>
          PROVE  CoreKept
      <3>1. c.stage \in StagesBeforeAppend
        BY <1>1, <2>7, HeldFacts DEF StagesBeforeAppend, Claim, Stages
      <3> QED BY <1>1, <2>1, <2>7, <3>1, GoKeeps DEF PCs, RunFits
    <2>8. CoreKept
      BY <1>4, <2>2, <2>3, <2>4, <2>5, <2>6, <2>7 DEF AfterSnapshot
    <2> QED BY <1>4, <2>1, <2>8 DEF RunKeeps, RestTypeOK, AfterSnapshot, sharedVars, gmailVars
  <1> QED BY <1>3, <1>4

\* The engine's refusal.
LEMMA PrepareRefusedKeeps ==
    ASSUME Core, RestTypeOK, NEW r \in Runs, PrepareRefused(r) PROVE RunKeeps
  <1> DEFINE c == Mine(r)
             waited == [c EXCEPT !.attempts = @ + 1]
  <1>1. runs[r].pc = "prepare" /\ Holds(r) /\ UNCHANGED <<outbox, delivered>> /\ stop \in BOOLEAN
    BY DEF PrepareRefused, At, gmailVars, RestTypeOK
  <1>2. SafeAfter(c, c) /\ SafeAfter(c, waited)
    <2>1. c \in Claim /\ Numbered(c) /\ c.state # "none"
      BY <1>1, HeldFacts
    <2>2. /\ waited \in Claim /\ waited.stage = c.stage /\ waited.num = c.num /\ waited.state = c.state
          /\ waited.voided = c.voided /\ waited.sending = c.sending
      BY <2>1 DEF Claim
    <2> QED BY <2>1, <2>2 DEF SafeAfter, Numbered, ClaimSent
  <1>3. ASSUME NEW d, SafeAfter(c, d), NEW state \in {"needs_attention", "waiting"}, NEW reason \in Reasons,
               EndsWith(r, Release(d, state, reason)), stop' = stop
        PROVE  CoreKept /\ stop' \in BOOLEAN
    BY <1>1, <1>3, ReleaseKeeps DEF States
  <1>4. ASSUME NEW counted \in BOOLEAN, TemporaryEnd(r, c, counted) PROVE CoreKept /\ stop' \in BOOLEAN
    BY <1>1, <1>2, <1>4, TemporaryKeeps
  <1>5. CoreKept /\ stop' \in BOOLEAN
    BY <1>2, <1>3, <1>4 DEF PrepareRefused, Reasons
  <1> QED BY <1>5 DEF RunKeeps, RestTypeOK, PrepareRefused, sharedVars, gmailVars

\* The number is reserved on the claim as c: nothing went under the one it replaces.
LEMMA ReserveKeeps ==
    ASSUME Core, seq \in 0..MaxNumber, NEW r \in Runs, runs[r].pc # "idle", Holds(r),
           NEW c, SafeAfter(Mine(r), c), c.owner = r, c.num = Mine(r).num, c.stage \in StagesBeforeAppend,
           ~ClaimSent(Mine(r)),
           Reserve(r, c), UNCHANGED <<outbox, delivered>>
    PROVE  CoreKept /\ seq' \in 0..MaxNumber
  <1> DEFINE l == LoadOf(r)
             usable == c.num # 0 /\ ~c.voided
  <1>1. c \in Claim /\ Numbered(c) /\ c.state # "none"
    BY DEF SafeAfter
  <1>2. ASSUME EndsWith(r, SkipDraftedByHand(c)), seq' = seq PROVE CoreKept /\ seq' \in 0..MaxNumber
    BY <1>2, SkipKeeps
  <1>3. ASSUME EndsWith(r, Release(c, "skipped", "OTHER")), seq' = seq PROVE CoreKept /\ seq' \in 0..MaxNumber
    BY <1>3, ReleaseKeeps DEF States, Reasons
  <1>4. ASSUME usable, Writes(r, [c EXCEPT !.stage = IF @ = "" THEN "reserved" ELSE @], "render"), seq' = seq
        PROVE  CoreKept /\ seq' \in 0..MaxNumber
    <2> DEFINE d == [c EXCEPT !.stage = IF c.stage = "" THEN "reserved" ELSE c.stage]
    <2>1. /\ d \in Claim /\ d.num = c.num /\ d.stage \in StagesBeforeAppend /\ d.owner = r
          /\ d.state = c.state
      BY <1>1 DEF Claim, Stages, StagesBeforeAppend
    <2>2. SafeAfter(Mine(r), d)
      BY <1>1, <1>4, <2>1 DEF SafeAfter, Numbered
    <2>3. RunFits("render", d)
      BY <1>4, <2>1 DEF RunFits
    <2>4. Writes(r, d, "render")
      BY <1>4
    <2> QED BY <1>4, <2>1, <2>2, <2>3, <2>4, WritesKeeps DEF PCs
  <1>5. ASSUME NEW n \in Numbers, Mint(n),
               claims' = [claims EXCEPT ![l] = [c EXCEPT !.num = n, !.voided = FALSE, !.stage = "reserved"]],
               givenUp' = givenUp \cup (IF usable THEN {c.num} ELSE {}),
               Go(r, "render")
        PROVE  CoreKept /\ seq' \in 0..MaxNumber
    <2> DEFINE d == [c EXCEPT !.num = n, !.voided = FALSE, !.stage = "reserved"]
    <2>1. seq' \in 0..MaxNumber
      BY <1>5, LedgerAssumption DEF Mint
    <2>2. n # 0
      BY DEF Numbers
    <2>3. /\ d \in Claim /\ d.num = n /\ d.stage = "reserved" /\ d.owner = r /\ d.state = c.state
      BY <1>1 DEF Claim, Stages
    <2>4. SafeAfter(Mine(r), d) /\ RunFits("render", d)
      BY <1>1, <2>2, <2>3 DEF SafeAfter, Numbered, RunFits, StagesBeforeAppend
    <2>5. givenUp' \subseteq Numbers
      BY <1>1, <1>5 DEF Core, CoreTypeOK, Claim
    <2>6. PICK q : RunOK(q) /\ q.pc = "render" /\ q.load = LoadOf(r) /\ runs' = [runs EXCEPT ![r] = q]
      BY <1>5, GoRunOK DEF PCs
    <2>7. claims' = [claims EXCEPT ![LoadOf(r)] = d]
      BY <1>5
    <2> HIDE DEF d
    <2> QED BY <2>1, <2>3, <2>4, <2>5, <2>6, <2>7, RunWrite
  <1> QED BY <1>2, <1>3, <1>4, <1>5 DEF Reserve

\* prepare() answered: the look, or the number.
LEMMA PreparedKeeps ==
    ASSUME Core, RestTypeOK, NEW r \in Runs, Prepared(r) PROVE RunKeeps
  <1>1. runs[r].pc = "prepare" /\ Holds(r) /\ UNCHANGED <<outbox, delivered>> /\ seq \in 0..MaxNumber
    BY DEF Prepared, At, gmailVars, RestTypeOK
  <1>2. Mine(r).stage \in StagesBeforeAppend /\ ~ClaimSent(Mine(r))
    BY <1>1, HeldFacts DEF RunFits, ClaimSent, StagesBeforeAppend
  <1>3. CoreKept /\ seq' \in 0..MaxNumber
    <2>1. CASE Go(r, "lookFirst") /\ UNCHANGED <<claims, givenUp, seq>>
      BY <1>1, <1>2, <2>1, GoKeeps DEF PCs, RunFits
    <2>2. CASE Reserve(r, Mine(r))
      BY <1>1, <1>2, <2>2, HeldFacts, ReserveKeeps
    <2> QED BY <2>1, <2>2 DEF Prepared
  <1> QED BY <1>3 DEF RunKeeps, RestTypeOK, Prepared, gmailVars

\* The look a person's Try again asked for came back.
LEMMA LookedFirstKeeps ==
    ASSUME Core, RestTypeOK, NEW r \in Runs, NEW clean \in BOOLEAN, LookedFirst(r, clean) PROVE RunKeeps
  <1>1. runs[r].pc = "lookFirst" /\ Holds(r) /\ UNCHANGED <<outbox, delivered>> /\ seq \in 0..MaxNumber
    BY DEF LookedFirst, At, gmailVars, RestTypeOK
  <1>2. Mine(r).stage \in StagesBeforeAppend /\ ~ClaimSent(Mine(r))
    BY <1>1, HeldFacts DEF RunFits, ClaimSent, StagesBeforeAppend
  <1>3. CoreKept /\ seq' \in 0..MaxNumber
    <2>1. CASE EndsWith(r, Release(Mine(r), "needs_attention", "OTHER")) /\ UNCHANGED seq
      BY <1>1, <2>1, HeldFacts, ReleaseKeeps DEF States, Reasons
    <2>2. CASE Reserve(r, [Mine(r) EXCEPT !.look = FALSE])
      <3> DEFINE c == [Mine(r) EXCEPT !.look = FALSE]
      <3>1. /\ c \in Claim /\ c.num = Mine(r).num /\ c.stage = Mine(r).stage /\ c.owner = r
            /\ c.state = Mine(r).state /\ c.voided = Mine(r).voided
        <4>1. Mine(r) \in Claim /\ Mine(r).owner = r
          BY <1>1, HeldFacts
        <4> QED BY <4>1 DEF Claim
      <3>2. SafeAfter(Mine(r), c)
        BY <1>1, <1>2, <3>1, HeldFacts DEF SafeAfter, Numbered
      <3>3. Reserve(r, c)
        BY <2>2
      <3> HIDE DEF c
      <3> QED BY <1>1, <1>2, <3>1, <3>2, <3>3, ReserveKeeps
    <2> QED BY <2>1, <2>2 DEF LookedFirst
  <1> QED BY <1>3 DEF RunKeeps, RestTypeOK, LookedFirst, gmailVars

\* The render threw, or its recipient was refused.
LEMMA RenderFailedKeeps ==
    ASSUME Core, RestTypeOK, NEW r \in Runs, RenderFailed(r) PROVE RunKeeps
  <1>1. runs[r].pc = "render" /\ Holds(r) /\ UNCHANGED <<outbox, delivered>> /\ stop \in BOOLEAN
    BY DEF RenderFailed, At, gmailVars, RestTypeOK
  <1>2. CoreKept /\ stop' \in BOOLEAN
    <2>1. ASSUME NEW counted \in BOOLEAN, TemporaryEnd(r, Mine(r), counted) PROVE CoreKept /\ stop' \in BOOLEAN
      BY <1>1, <2>1, HeldFacts, TemporaryKeeps
    <2>2. CASE EndsWith(r, Release(Mine(r), "needs_attention", "OTHER")) /\ UNCHANGED stop
      BY <1>1, <2>2, HeldFacts, ReleaseKeeps DEF States, Reasons
    <2> QED BY <2>1, <2>2 DEF RenderFailed
  <1> QED BY <1>2 DEF RunKeeps, RestTypeOK, RenderFailed, sharedVars, gmailVars

\* The commit to a send: nothing of the load went before it, since its claim was still building.
LEMMA BeginSendKeeps ==
    ASSUME Core, NEW r \in Runs, runs[r].pc = "render", Holds(r),
           NEW c, SafeAfter(Mine(r), c), c.owner = r, c.num # 0,
           ~Mine(r).look, SendsOnce(r), BeginSend(r, c), UNCHANGED delivered
    PROVE  CoreKept
  <1> DEFINE l == LoadOf(r)
             d == [c EXCEPT !.stage = "appending", !.sending = TRUE, !.checks = 0]
  <1>1. /\ l \in Loads /\ Mine(r) = claims[l] /\ Mine(r).num # 0 /\ ~ClaimSent(Mine(r))
    BY HeldFacts DEF RunFits, StagesBeforeAppend, ClaimSent
  <1>2. c \in Claim /\ Numbered(c) /\ c.state # "none"
    BY DEF SafeAfter
  <1>3. /\ d \in Claim /\ d.stage = "appending" /\ d.sending /\ d.num # 0 /\ d.owner = r /\ d.state # "none"
    BY <1>2 DEF Claim, Stages
  <1>4. SafeAfter(Mine(r), d) /\ Numbered(d) /\ ClaimSent(d) /\ RunFits("smtp", d)
    BY <1>3 DEF SafeAfter, Numbered, ClaimSent, RunFits
  <1>5. PICK q : RunOK(q) /\ q.pc = "smtp" /\ q.load = l /\ runs' = [runs EXCEPT ![r] = q]
    BY GoRunOK DEF BeginSend, Writes, PCs
  <1>6. WriteClaim(l, d)
    BY DEF BeginSend, Writes
  <1> HIDE DEF d
  <1>7. claims' = [claims EXCEPT ![l] = d] /\ givenUp' \subseteq Numbers
    BY <1>4, <1>6, WriteClaimOK
  <1>8. outbox[l] = 0 /\ delivered[l] = 0
    BY <1>1 DEF Core, CoreTypeOK, CoreInv, TransitKnown, SendsOnce
  <1>9. outbox' = [outbox EXCEPT ![l] = 1] /\ delivered' = delivered
    <2>1. outbox' = [outbox EXCEPT ![l] = @ + 1]
      BY DEF BeginSend
    <2> QED BY <1>1, <1>8, <2>1 DEF Core, CoreTypeOK
  <1>10. CoreTypeOK'
    <2>1. claims' \in [Loads -> Claim] /\ outbox' \in [Loads -> Nat] /\ delivered' \in [Loads -> Nat]
      BY <1>3, <1>7, <1>9 DEF Core, CoreTypeOK
    <2>2. RunTypeOK'
      <3>1. runs' \in [Runs -> RunRecord]
        BY <1>5 DEF Core, CoreTypeOK, RunTypeOK, RunOK, RunRecord
      <3>2. ASSUME NEW p \in Runs PROVE RunOK(runs'[p])
        BY <1>5, <3>1 DEF Core, CoreTypeOK, RunTypeOK, RunOK, RunRecord
      <3> QED BY <3>1, <3>2 DEF RunTypeOK, RunOK, RunRecord
    <2> QED BY <1>7, <2>1, <2>2 DEF CoreTypeOK
  <1>11. TransitKnown'
    <2> SUFFICES ASSUME NEW k \in Loads
                 PROVE  /\ outbox'[k] + delivered'[k] <= 1
                        /\ outbox'[k] > 0 => ClaimSent(claims'[k])
                        /\ Numbered(claims'[k])
      BY DEF TransitKnown
    <2>1. CASE k = l
      BY <1>1, <1>4, <1>7, <1>8, <1>9, <2>1 DEF Core, CoreTypeOK
    <2>2. CASE k # l
      BY <1>1, <1>7, <1>9, <2>2 DEF Core, CoreTypeOK, CoreInv, TransitKnown
    <2> QED BY <2>1, <2>2
  <1>12. RunsMatchClaims'
    <2> SUFFICES ASSUME NEW p \in Runs, runs'[p].pc # "idle", Holds(p)'
                 PROVE  RunFits(runs'[p].pc, claims'[runs'[p].load])
      BY DEF RunsMatchClaims, Mine, LoadOf
    <2>1. CASE p = r
      BY <1>1, <1>4, <1>5, <1>7, <2>1 DEF Core, CoreTypeOK, RunTypeOK
    <2>2. CASE p # r
      <3>1. runs'[p] = runs[p] /\ runs[p].load \in Loads
        BY <1>5, <2>2 DEF RunTypeOK, Core, CoreTypeOK
      <3>2. runs[p].load # l
        BY <1>1, <1>3, <1>7, <2>2, <3>1 DEF Holds, Mine, LoadOf, Core, CoreTypeOK
      <3>3. claims'[runs[p].load] = claims[runs[p].load]
        BY <1>1, <1>7, <3>1, <3>2 DEF Core, CoreTypeOK
      <3> QED BY <3>1, <3>3 DEF Holds, Core, CoreInv, RunsMatchClaims, Mine, LoadOf
    <2> QED BY <2>1, <2>2
  <1>13. OneAtSmtp'
    <2>1. ASSUME NEW p \in Runs, p # r, runs'[p].pc = "smtp" PROVE outbox[runs[p].load] > 0 /\ runs[p].load \in Loads
      BY <1>5, <2>1 DEF Core, CoreTypeOK, RunTypeOK, CoreInv, OneAtSmtp, LoadOf
    <2>2. ASSUME NEW p \in Runs, p # r, runs'[p].pc = "smtp"
          PROVE  runs'[p].load # l /\ runs'[p] = runs[p] /\ outbox'[runs'[p].load] > 0
      BY <1>5, <1>8, <1>9, <2>1, <2>2 DEF Core, CoreTypeOK, RunTypeOK
    <2>3. runs'[r].load = l /\ outbox'[l] > 0
      BY <1>1, <1>5, <1>9 DEF Core, CoreTypeOK, RunTypeOK
    <2>4. ASSUME NEW p \in Runs, NEW q2 \in Runs, runs'[p].pc = "smtp", runs'[q2].pc = "smtp",
                 runs'[q2].load = runs'[p].load
          PROVE  q2 = p
      BY <1>5, <2>2, <2>3, <2>4 DEF Core, CoreTypeOK, RunTypeOK, CoreInv, OneAtSmtp, LoadOf
    <2> QED BY <2>2, <2>3, <2>4 DEF OneAtSmtp, LoadOf
  <1>14. SendsFollow
    <2> SUFFICES ASSUME NEW k \in Loads
                 PROVE  /\ delivered'[k] > 0 => outbox[k] + delivered[k] > 0
                        /\ ClaimSent(claims[k]) => ClaimSent(claims'[k]) \/ outbox'[k] + delivered'[k] = 0
      BY DEF SendsFollow
    <2>1. CASE k = l
      BY <1>1, <1>4, <1>7, <1>8, <1>9, <2>1 DEF Core, CoreTypeOK
    <2>2. CASE k # l
      BY <1>1, <1>7, <1>9, <2>2 DEF Core, CoreTypeOK
    <2> QED BY <2>1, <2>2
  <1> QED BY <1>10, <1>11, <1>12, <1>13, <1>14 DEF Core, CoreInv, CoreKept

\* The render is done: sent, drafted, held back or refused.
LEMMA RenderedKeeps ==
    ASSUME Core, RestTypeOK, NEW r \in Runs, SendsOnce(r), Rendered(r) PROVE RunKeeps
  <1> DEFINE l == LoadOf(r)
             c == [Mine(r) EXCEPT !.stage = "rendered"]
  <1>1. runs[r].pc = "render" /\ Holds(r) /\ delivered' = delivered /\ stop \in BOOLEAN
    BY DEF Rendered, At, RestTypeOK
  <1>2. /\ Mine(r) \in Claim /\ Numbered(Mine(r)) /\ Mine(r).state = "working" /\ Mine(r).owner = r
        /\ Mine(r).num # 0 /\ ~ClaimSent(Mine(r))
    BY <1>1, HeldFacts DEF RunFits, StagesBeforeAppend, ClaimSent
  <1>3. SafeAfter(Mine(r), c) /\ c \in Claim /\ c.num = Mine(r).num /\ c.owner = r /\ c.state = "working"
    BY <1>2, StageSafe DEF SafeAfter, Stages
  <1>4. ASSUME EndsWith(r, SkipDraftedByHand(c)), UNCHANGED outbox PROVE CoreKept
    BY <1>1, <1>3, <1>4, SkipKeeps
  <1>5. ASSUME NEW state \in {"skipped", "waiting", "needs_attention"}, EndsWith(r, Release(c, state, "OTHER")),
               UNCHANGED outbox
        PROVE  CoreKept
    BY <1>1, <1>3, <1>5, ReleaseKeeps DEF States, Reasons
  <1>6. ASSUME BeginSend(r, c) PROVE CoreKept
    <2>1. c.look = Mine(r).look
      BY <1>2 DEF Claim
    <2>2. ~Mine(r).look
      BY <1>6, <2>1 DEF BeginSend
    <2> HIDE DEF c
    <2> QED BY <1>1, <1>2, <1>3, <1>6, <2>2, BeginSendKeeps
  <1>7. ASSUME SendRefused(r, c), UNCHANGED outbox PROVE CoreKept /\ stop' \in BOOLEAN
    <2>1. ASSUME TemporaryEnd(r, c, FALSE) PROVE CoreKept /\ stop' \in BOOLEAN
      BY <1>1, <1>3, <1>7, <2>1, TemporaryKeeps
    <2>2. ASSUME EndsWith(r, [Release(c, "needs_attention", "OTHER") EXCEPT !.voided = TRUE]) PROVE CoreKept
      <3> DEFINE e == Release(c, "needs_attention", "OTHER")
                 d == [e EXCEPT !.voided = TRUE]
      <3>1. SafeAfter(c, e) /\ e.owner = NoRun /\ e.num = c.num
        BY <1>3, ReleaseSafe DEF SafeAfter, States, Reasons
      <3>2. /\ d \in Claim /\ d.num = e.num /\ d.stage = e.stage /\ d.state = e.state /\ d.owner = NoRun
            /\ d.sending = e.sending
        BY <3>1 DEF SafeAfter, Claim
      <3>3. SafeAfter(Mine(r), d)
        BY <1>2, <1>3, <3>1, <3>2 DEF SafeAfter, Numbered
      <3>4. EndsWith(r, d)
        BY <2>2
      <3> HIDE DEF d
      <3> QED BY <1>1, <1>7, <3>2, <3>3, <3>4, EndsWithKeeps
    <2> QED BY <1>1, <1>5, <1>7, <2>1, <2>2 DEF SendRefused
  <1>8. ASSUME Writes(r, [c EXCEPT !.stage = "appending", !.sending = FALSE], "append"), UNCHANGED outbox
        PROVE  CoreKept
    <2> DEFINE d == [c EXCEPT !.stage = "appending", !.sending = FALSE]
    <2>1. /\ d \in Claim /\ d.num = c.num /\ d.stage = "appending" /\ d.state = c.state /\ d.owner = r
          /\ d.sending = FALSE
      BY <1>3 DEF Claim, Stages
    <2>2. SafeAfter(Mine(r), d) /\ RunFits("append", d)
      BY <1>2, <1>3, <2>1 DEF SafeAfter, Numbered, RunFits
    <2>3. Writes(r, d, "append")
      BY <1>8
    <2> HIDE DEF d
    <2> QED BY <1>1, <1>2, <1>8, <2>1, <2>2, <2>3, WritesKeeps DEF PCs
  <1>9. CoreKept /\ stop' \in BOOLEAN
    <2> HIDE DEF c
    <2>1. Settles(r, c) => EndsWith(r, Release(c, "waiting", "OTHER")) /\ stop' = stop
      BY DEF Settles
    <2>2. BeginSend(r, c) => stop' = stop
      BY DEF BeginSend
    <2> QED BY <1>1, <1>4, <1>5, <1>6, <1>7, <1>8, <2>1, <2>2 DEF Rendered, c
  <1> QED BY <1>9 DEF RunKeeps, RestTypeOK, Rendered, sharedVars

-----------------------------------------------------------------------------
(* The draft. *)

\* A message filed in the mailbox leaves it of its type.
LEMMA FileOK ==
    ASSUME copies \in [Numbers -> Nat], NEW n, File(n) PROVE copies' \in [Numbers -> Nat]
  <1>1. CASE n \in Numbers
    BY <1>1 DEF File
  <1>2. CASE n \notin Numbers
    <2>1. ASSUME NEW m \in Numbers PROVE copies'[m] = copies[m]
      BY <1>2 DEF File
    <2> QED BY <2>1 DEF File
  <1> QED BY <1>1, <1>2

\* The claim is written at a later stage and the run goes on to record the message.
LEMMA AppendedStageKeeps ==
    ASSUME Core, NEW r \in Runs, runs[r].pc # "idle", Holds(r), Mine(r).num # 0,
           NEW pc \in {"record", "rebuild"}, Writes(r, [Mine(r) EXCEPT !.stage = "appended"], pc),
           UNCHANGED <<outbox, delivered>>
    PROVE  CoreKept
  <1> DEFINE d == [Mine(r) EXCEPT !.stage = "appended"]
  <1>1. /\ SafeAfter(Mine(r), d) /\ d.owner = r /\ d.num # 0
    <2>1. Mine(r) \in Claim /\ Numbered(Mine(r)) /\ Mine(r).state = "working" /\ Mine(r).owner = r
      BY HeldFacts
    <2> QED BY <2>1, StageSafe DEF StagesBeforeAppend, Stages
  <1>2. Writes(r, d, pc)
    OBVIOUS
  <1> HIDE DEF d
  <1> QED BY <1>1, <1>2, WritesKeeps DEF PCs, RunFits

\* The draft was filed.
LEMMA AppendedKeeps ==
    ASSUME Core, RestTypeOK, NEW r \in Runs, Appended(r) PROVE RunKeeps
  <1>1. runs[r].pc = "append" /\ UNCHANGED <<outbox, delivered>>
    BY DEF Appended
  <1>2. CASE Holds(r)
    BY <1>1, <1>2, HeldFacts, AppendedStageKeeps, FileOK DEF Appended, RunKeeps, RestTypeOK, RunFits, sharedVars
  <1>3. CASE ~Holds(r)
    BY <1>1, <1>3, EndsKeeps, FileOK DEF Appended, RunKeeps, RestTypeOK, sharedVars
  <1> QED BY <1>2, <1>3

\* The append had no answer.
LEMMA AppendUnansweredKeeps ==
    ASSUME Core, RestTypeOK, NEW r \in Runs, NEW landed \in BOOLEAN, AppendUnanswered(r, landed) PROVE RunKeeps
  <1>1. runs[r].pc = "append" /\ UNCHANGED <<claims, givenUp, outbox, delivered>>
    BY DEF AppendUnanswered, ledgerVars
  <1>2. copies' \in [Numbers -> Nat]
    BY FileOK DEF AppendUnanswered, RestTypeOK
  <1>3. CASE Holds(r)
    <2>1. RunFits("searchAppended", Mine(r))
      BY <1>1, <1>3, HeldFacts DEF RunFits
    <2>2. CoreKept
      BY <1>1, <1>3, <2>1, GoKeeps DEF AppendUnanswered, PCs
    <2> QED BY <1>2, <2>2 DEF AppendUnanswered, RunKeeps, RestTypeOK, ledgerVars
  <1>4. CASE ~Holds(r)
    BY <1>1, <1>2, <1>4, EndsKeeps DEF AppendUnanswered, RunKeeps, RestTypeOK, ledgerVars
  <1> QED BY <1>3, <1>4

\* The append was refused.
LEMMA AppendRefusedKeeps ==
    ASSUME Core, RestTypeOK, NEW r \in Runs, AppendRefused(r) PROVE RunKeeps
  <1> DEFINE c == [Mine(r) EXCEPT !.stage = "reserved"]
  <1>1. runs[r].pc = "append" /\ UNCHANGED <<outbox, delivered>> /\ stop \in BOOLEAN
    BY DEF AppendRefused, gmailVars, RestTypeOK
  <1>2. CASE Holds(r)
    <2>1. SafeAfter(Mine(r), c)
      BY <1>1, <1>2, HeldFacts, StageSafe DEF RunFits, ClaimSent, Stages
    <2>2. PICK counted \in BOOLEAN : TemporaryEnd(r, c, counted)
      BY <1>2 DEF AppendRefused
    <2> HIDE DEF c
    <2>3. CoreKept /\ stop' \in BOOLEAN
      BY <1>1, <1>2, <2>1, <2>2, TemporaryKeeps
    <2> QED BY <2>3 DEF AppendRefused, RunKeeps, RestTypeOK, sharedVars, gmailVars
  <1>3. CASE ~Holds(r)
    BY <1>1, <1>3, EndsKeeps DEF AppendRefused, RunKeeps, RestTypeOK, sharedVars, gmailVars
  <1> QED BY <1>2, <1>3

\* The mailbox was searched for a message of the claim's, whatever it said.
LEMMA LookedInGmailKeeps ==
    ASSUME Core, RestTypeOK, NEW r \in Runs, FoundInGmail(r) \/ GmailUnknown(r) \/ AbsentFromGmail(r)
    PROVE  RunKeeps
  <1> DEFINE c == Mine(r)
             absent == [c EXCEPT !.stage = "reserved"]
  <1>1. /\ runs[r].pc \in {"searchDraft", "searchAppended", "searchLeft"} /\ Holds(r)
        /\ UNCHANGED <<outbox, delivered>> /\ stop \in BOOLEAN
    BY DEF FoundInGmail, GmailUnknown, AbsentFromGmail, At, gmailVars, RestTypeOK
  <1>2. /\ c \in Claim /\ Numbered(c) /\ c.state = "working" /\ c.owner = r /\ c.num # 0 /\ ~ClaimSent(c)
    BY <1>1, HeldFacts DEF RunFits, ClaimSent
  <1>3. CASE FoundInGmail(r)
    BY <1>1, <1>2, <1>3, AppendedStageKeeps DEF FoundInGmail, RunKeeps, RestTypeOK, sharedVars, gmailVars
  <1>4. CASE GmailUnknown(r)
    <2>1. CoreKept
      BY <1>1, <1>4, HeldFacts, ReleaseKeeps DEF GmailUnknown, States, Reasons
    <2> QED BY <1>4, <2>1 DEF GmailUnknown, RunKeeps, RestTypeOK, sharedVars, gmailVars
  <1>5. CASE AbsentFromGmail(r)
    <2>1. /\ SafeAfter(c, absent) /\ absent.owner = r /\ absent.stage = "reserved" /\ absent.num # 0
      BY <1>2, StageSafe DEF Stages
    <2>2. ASSUME Settles(r, absent) PROVE CoreKept /\ stop' \in BOOLEAN
      <3> HIDE DEF absent
      <3> QED BY <1>1, <2>1, <2>2, ReleaseKeeps DEF Settles, States, Reasons
    <2>3. ASSUME Writes(r, absent, "prepare") PROVE CoreKept
      <3> HIDE DEF absent
      <3> QED BY <1>1, <2>1, <2>3, WritesKeeps DEF PCs, RunFits, StagesBeforeAppend
    <2>4. ASSUME EndsWith(r, Requeue(c, "reserved")) PROVE CoreKept
      BY <1>1, <1>2, <2>4, RequeueSafe, EndsWithKeeps DEF Stages
    <2>5. ASSUME EndsWith(r, Release(c, "needs_attention", "OTHER")) PROVE CoreKept
      BY <1>1, <2>5, HeldFacts, ReleaseKeeps DEF States, Reasons
    <2>6. ASSUME TemporaryEnd(r, c, TRUE) PROVE CoreKept /\ stop' \in BOOLEAN
      BY <1>1, <2>6, HeldFacts, TemporaryKeeps
    <2> HIDE DEF c, absent
    <2>7. CoreKept /\ stop' \in BOOLEAN
      BY <1>1, <1>5, <2>2, <2>3, <2>4, <2>5, <2>6 DEF AbsentFromGmail, c, absent
    <2> QED BY <1>5, <2>7 DEF AbsentFromGmail, RunKeeps, RestTypeOK, sharedVars, gmailVars
  <1> QED BY <1>3, <1>4, <1>5

-----------------------------------------------------------------------------
(* The record. *)

\* A message in Gmail that can't be recorded stays known on its claim.
LEMMA ReleasedAppendedKeeps ==
    ASSUME Core, NEW r \in Runs, runs[r].pc # "idle", Holds(r), Mine(r).num # 0,
           EndsWith(r, [Release(Mine(r), "needs_attention", "OTHER") EXCEPT !.stage = "appended"]),
           UNCHANGED <<outbox, delivered>>
    PROVE  CoreKept
  <1> DEFINE c == Mine(r)
             e == Release(c, "needs_attention", "OTHER")
             d == [e EXCEPT !.stage = "appended"]
  <1>1. c \in Claim /\ Numbered(c) /\ c.state # "none"
    BY HeldFacts
  <1>2. SafeAfter(c, e) /\ e.owner = NoRun /\ e.num = c.num
    BY <1>1, ReleaseSafe DEF States, Reasons
  <1>3. SafeAfter(e, d) /\ d.owner = NoRun
    BY <1>2, StageSafe DEF SafeAfter, Stages, StagesBeforeAppend
  <1>4. EndsWith(r, d)
    OBVIOUS
  <1> HIDE DEF c, d, e
  <1> QED BY <1>2, <1>3, <1>4, SafeTransitive, EndsWithKeeps DEF c

\* recordFromGmail() rebuilt the message, couldn't, or threw.
LEMMA RebuildKeeps ==
    ASSUME Core, RestTypeOK, NEW r \in Runs, Rebuilt(r) \/ NotRebuilt(r) \/ RebuildThrew(r) PROVE RunKeeps
  <1> DEFINE c == Mine(r)
  <1>1. runs[r].pc = "rebuild" /\ Holds(r) /\ UNCHANGED <<outbox, delivered>>
    BY DEF Rebuilt, NotRebuilt, RebuildThrew, At, gmailVars
  <1>2. c \in Claim /\ Numbered(c) /\ c.num # 0 /\ c.state # "none"
    BY <1>1, HeldFacts DEF RunFits
  <1>3. CASE Rebuilt(r)
    <2>1. CoreKept
      BY <1>1, <1>2, <1>3, GoKeeps DEF Rebuilt, PCs, RunFits, ledgerVars
    <2> QED BY <1>3, <2>1 DEF Rebuilt, RunKeeps, RestTypeOK, ledgerVars, gmailVars
  <1>4. CASE NotRebuilt(r)
    <2>1. EndsWith(r, [Release(c, "needs_attention", "OTHER") EXCEPT !.stage = "appended"])
      BY <1>4 DEF NotRebuilt
    <2>2. CoreKept
      BY <1>1, <1>2, <2>1, ReleasedAppendedKeeps
    <2> QED BY <1>4, <2>2 DEF NotRebuilt, RunKeeps, RestTypeOK, sharedVars, gmailVars
  <1>5. CASE RebuildThrew(r)
    <2>1. ASSUME NEW reason \in {"MAYBE_SENT", "OTHER"}, EndsWith(r, Release(c, "needs_attention", reason))
          PROVE  CoreKept
      BY <1>1, <2>1, HeldFacts, ReleaseKeeps DEF States, Reasons
    <2>2. CoreKept
      BY <1>1, <1>5, <2>1, EndsKeeps DEF RebuildThrew
    <2> QED BY <1>5, <2>2 DEF RebuildThrew, RunKeeps, RestTypeOK, sharedVars, gmailVars
  <1> QED BY <1>3, <1>4, <1>5

\* The draft row was written, or was there.
LEMMA RecordedKeeps ==
    ASSUME Core, RestTypeOK, NEW r \in Runs, NEW written \in BOOLEAN, Recorded(r, written) PROVE RunKeeps
  <1> DEFINE c == Mine(r)
  <1>1. /\ runs[r].pc = "record" /\ Holds(r) /\ UNCHANGED <<outbox, delivered>>
    BY DEF Recorded, At, gmailVars
  <1>2. c \in Claim /\ c.num # 0 /\ LoadOf(r) \in Loads /\ c.num \in Numbers
    BY <1>1, HeldFacts DEF RunFits, Claim
  <1>3. CASE HasOwnRow(LoadOf(r))
    <2>1. CoreKept
      BY <1>1, <1>2, <1>3, DraftedSafe, EndsWithKeeps DEF Recorded
    <2> QED BY <1>3, <2>1 DEF Recorded, RunKeeps, RestTypeOK, gmailVars
  <1>4. CASE ~HasOwnRow(LoadOf(r))
    <2>1. CoreKept
      BY <1>1, <1>2, <1>4, GoKeeps DEF Recorded, PCs, RunFits
    <2>2. rows' \subseteq DraftRow
      BY <1>2, <1>4 DEF Recorded, RestTypeOK, DraftRow
    <2> QED BY <1>4, <2>1, <2>2 DEF Recorded, RunKeeps, RestTypeOK, gmailVars
  <1> QED BY <1>3, <1>4

\* The claim is drafted, or goes to a person unrecorded.
LEMMA FinishedKeeps ==
    ASSUME Core, RestTypeOK, NEW r \in Runs, Finished(r) PROVE RunKeeps
  <1> DEFINE c == Mine(r)
  <1>1. runs[r].pc = "finish" /\ Holds(r) /\ UNCHANGED <<outbox, delivered>>
    BY DEF Finished, At, gmailVars
  <1>2. c \in Claim /\ Numbered(c) /\ c.num # 0 /\ c.state # "none"
    BY <1>1, HeldFacts DEF RunFits
  <1>3. ASSUME EndsWith(r, Drafted(c)) PROVE CoreKept
    BY <1>1, <1>2, <1>3, DraftedSafe, EndsWithKeeps
  <1>4. ASSUME EndsWith(r, [Release(c, "needs_attention", "OTHER") EXCEPT !.stage = "appended"]) PROVE CoreKept
    BY <1>1, <1>2, <1>4, ReleasedAppendedKeeps
  <1>5. CoreKept
    BY <1>3, <1>4 DEF Finished
  <1> QED BY <1>5 DEF Finished, RunKeeps, RestTypeOK, sharedVars, gmailVars

-----------------------------------------------------------------------------
(* The send. *)

\* The SMTP server answered: the run leaves, its message out of transit, delivered or not.  The
\* claim is d now; it was d before when the run no longer held it.
LEMMA AnswerKeeps ==
    ASSUME Core, NEW r \in Runs, runs[r].pc = "smtp",
           NEW d \in Claim, Numbered(d),
           d = Mine(r) \/ Holds(r), d.owner \in {NoRun, r} \/ ~Holds(r),
           outbox' = [outbox EXCEPT ![LoadOf(r)] = @ - 1],
           \/ delivered' = delivered
           \/ delivered' = [delivered EXCEPT ![LoadOf(r)] = @ + 1] /\ (ClaimSent(Mine(r)) => ClaimSent(d)),
           NEW q, RunOK(q), q.pc # "smtp", q.pc # "idle" => q.load = LoadOf(r),
           Holds(r) /\ d.owner = r /\ q.pc # "idle" => RunFits(q.pc, d),
           claims' = [claims EXCEPT ![LoadOf(r)] = d], givenUp' \subseteq Numbers,
           runs' = [runs EXCEPT ![r] = q]
    PROVE  CoreKept
  <1> DEFINE l == LoadOf(r)
  <1>1. l \in Loads /\ Mine(r) = claims[l] /\ runs \in [Runs -> RunRecord] /\ claims \in [Loads -> Claim]
        /\ outbox \in [Loads -> Nat] /\ delivered \in [Loads -> Nat]
    BY DEF Core, CoreTypeOK, RunTypeOK, RunRecord, LoadOf, Mine
  <1>2. outbox[l] = 1 /\ delivered[l] = 0 /\ ClaimSent(claims[l])
    <2>1. outbox[l] > 0
      BY DEF Core, CoreInv, OneAtSmtp
    <2>2. outbox[l] + delivered[l] <= 1 /\ (outbox[l] > 0 => ClaimSent(claims[l]))
      BY <1>1 DEF Core, CoreInv, TransitKnown
    <2>3. outbox[l] \in Nat /\ delivered[l] \in Nat
      BY <1>1
    <2> HIDE DEF l
    <2> QED BY <2>1, <2>2, <2>3
  <1>3. outbox' = [outbox EXCEPT ![l] = 0]
        /\ (delivered' = delivered \/ (delivered' = [delivered EXCEPT ![l] = 1] /\ ClaimSent(d)))
    BY <1>1, <1>2
  <1>4. RunTypeOK'
    <2>1. runs' \in [Runs -> RunRecord]
      BY <1>1 DEF RunOK
    <2>2. ASSUME NEW p \in Runs PROVE RunOK(runs'[p])
      BY <2>1 DEF Core, CoreTypeOK, RunTypeOK, RunOK, RunRecord
    <2> QED BY <2>1, <2>2 DEF RunTypeOK, RunOK, RunRecord
  <1>5. CoreTypeOK'
    BY <1>1, <1>3, <1>4 DEF CoreTypeOK
  <1>6. TransitKnown'
    <2> SUFFICES ASSUME NEW k \in Loads
                 PROVE  /\ outbox'[k] + delivered'[k] <= 1
                        /\ outbox'[k] > 0 => ClaimSent(claims'[k])
                        /\ Numbered(claims'[k])
      BY DEF TransitKnown
    <2>1. CASE k = l
      BY <1>1, <1>2, <1>3, <2>1
    <2>2. CASE k # l
      BY <1>1, <1>3, <2>2 DEF Core, CoreInv, TransitKnown
    <2> QED BY <2>1, <2>2
  <1>7. RunsMatchClaims'
    <2> SUFFICES ASSUME NEW p \in Runs, runs'[p].pc # "idle", Holds(p)'
                 PROVE  RunFits(runs'[p].pc, claims'[runs'[p].load])
      BY DEF RunsMatchClaims, Mine, LoadOf
    <2>1. CASE p = r
      <3>1. runs'[p] = q /\ claims'[q.load] = d
        BY <1>1, <2>1
      <3> QED BY <2>1, <3>1 DEF Holds, Mine, LoadOf
    <2>2. CASE p # r
      <3>1. runs'[p] = runs[p] /\ runs[p].load \in Loads
        BY <1>4, <2>2 DEF RunTypeOK, Core, CoreTypeOK
      <3>2. claims'[runs[p].load] = claims[runs[p].load]
        BY <1>1, <2>2, <3>1, RunsAreNotNoRun DEF Holds, Mine, LoadOf
      <3> QED BY <3>1, <3>2 DEF Holds, Core, CoreInv, RunsMatchClaims, Mine, LoadOf
    <2> QED BY <2>1, <2>2
  <1>8. OneAtSmtp'
    <2>1. ASSUME NEW p \in Runs, runs'[p].pc = "smtp"
          PROVE  p # r /\ runs'[p] = runs[p] /\ runs[p].load # l /\ runs[p].load \in Loads
      BY <1>1, <2>1 DEF Core, CoreTypeOK, RunTypeOK, CoreInv, OneAtSmtp, LoadOf
    <2>2. ASSUME NEW p \in Runs, runs'[p].pc = "smtp" PROVE outbox'[runs'[p].load] > 0
      BY <1>1, <1>3, <2>1, <2>2 DEF Core, CoreInv, OneAtSmtp, LoadOf
    <2> QED BY <2>1, <2>2 DEF Core, CoreInv, OneAtSmtp, LoadOf
  <1>9. SendsFollow
    <2> SUFFICES ASSUME NEW k \in Loads
                 PROVE  /\ delivered'[k] > 0 => outbox[k] + delivered[k] > 0
                        /\ ClaimSent(claims[k]) => ClaimSent(claims'[k]) \/ outbox'[k] + delivered'[k] = 0
      BY DEF SendsFollow
    <2>1. CASE k = l
      BY <1>1, <1>2, <1>3, <2>1
    <2>2. CASE k # l
      BY <1>1, <1>3, <2>2
    <2> QED BY <2>1, <2>2
  <1> QED BY <1>5, <1>6, <1>7, <1>8, <1>9 DEF Core, CoreInv, CoreKept

\* A delivery puts the claim's number, which it has, in Sent Mail.
LEMMA DeliverOK ==
    ASSUME Core, RestTypeOK, NEW l \in Loads, Deliver(l)
    PROVE  copies' \in [Numbers -> Nat] /\ sent' \subseteq Numbers /\ handFiled' = handFiled
  <1>1. ClaimSent(claims[l])
    BY DEF Deliver, Core, CoreTypeOK, CoreInv, TransitKnown
  <1>2. claims[l].num \in Numbers
    BY <1>1 DEF Core, CoreTypeOK, CoreInv, TransitKnown, Numbered, ClaimSent, Claim
  <1> QED BY <1>2, FileOK DEF Deliver, RestTypeOK

\* The server took the message.
LEMMA SmtpAcceptedKeeps ==
    ASSUME Core, RestTypeOK, NEW r \in Runs, SmtpAccepted(r) PROVE RunKeeps
  <1> DEFINE l == LoadOf(r)
  <1>1. runs[r].pc = "smtp" /\ l \in Loads /\ Mine(r) = claims[l] /\ claims[l] \in Claim /\ Numbered(claims[l])
    BY DEF SmtpAccepted, Core, CoreTypeOK, RunTypeOK, LoadOf, Mine, CoreInv, TransitKnown
  <1>2. /\ outbox' = [outbox EXCEPT ![l] = @ - 1] /\ delivered' = [delivered EXCEPT ![l] = @ + 1]
    BY DEF SmtpAccepted, Deliver
  <1>3. CoreKept
    <2>1. CASE Holds(r) /\ SendInFlight(Mine(r))
      <3> DEFINE d == [Mine(r) EXCEPT !.stage = "appended"]
      <3>1. Mine(r).num # 0
        BY <1>1, <2>1 DEF Numbered, SendInFlight
      <3>2. /\ SafeAfter(Mine(r), d) /\ d.owner = r /\ d.num # 0 /\ d \in Claim /\ Numbered(d)
        <4>1. Mine(r).state # "none" /\ Mine(r).owner = r
          BY <2>1 DEF Holds
        <4> QED BY ZenonT(40), <1>1, <3>1, <4>1, StageSafe DEF SafeAfter, Stages, StagesBeforeAppend
      <3>3. Writes(r, d, "record")
        BY <2>1 DEF SmtpAccepted
      <3>4. WriteClaim(LoadOf(r), d) /\ Go(r, "record")
        BY <3>3 DEF Writes
      <3> HIDE DEF d
      <3>5. PICK q : RunOK(q) /\ q.pc = "record" /\ q.load = LoadOf(r) /\ runs' = [runs EXCEPT ![r] = q]
        BY <1>1, <3>4, GoRunOK DEF PCs
      <3>6. claims' = [claims EXCEPT ![LoadOf(r)] = d] /\ givenUp' \subseteq Numbers
        BY <3>2, <3>4, WriteClaimOK
      <3>7. RunFits("record", d)
        BY <3>2 DEF RunFits
      <3> QED BY <1>1, <1>2, <2>1, <3>2, <3>5, <3>6, <3>7, AnswerKeeps DEF SafeAfter
    <2>2. CASE ~(Holds(r) /\ SendInFlight(Mine(r)))
      <3>1. Ends(r) /\ UNCHANGED <<claims, givenUp>>
        BY <2>2 DEF SmtpAccepted
      <3>2. claims' = [claims EXCEPT ![LoadOf(r)] = Mine(r)] /\ givenUp' \subseteq Numbers
        BY <1>1, <3>1 DEF Core, CoreTypeOK
      <3>3. Mine(r).owner \in {NoRun, r} \/ ~Holds(r)
        BY DEF Holds
      <3>4. PICK q : /\ RunOK(q) /\ q.pc # "smtp" /\ (q.pc # "idle" => q.load = LoadOf(r) /\ RunFits(q.pc, Mine(r)))
                     /\ runs' = [runs EXCEPT ![r] = q]
        BY <1>1, <3>1, EndedRunOK
      <3> QED BY <1>1, <1>2, <3>2, <3>3, <3>4, AnswerKeeps
    <2> QED BY <2>1, <2>2
  <1> QED BY <1>1, <1>3, DeliverOK DEF SmtpAccepted, RunKeeps, RestTypeOK, sharedVars

\* The server refused it: the one step that takes an email back.
LEMMA SmtpRefusedKeeps ==
    ASSUME Core, RestTypeOK, NEW r \in Runs, SmtpRefused(r) PROVE RunKeeps
  <1> DEFINE l == LoadOf(r)
             d == [Unowned(Mine(r)) EXCEPT !.state = "queued", !.reason = "OTHER",
                                           !.stage = "reserved", !.sending = FALSE]
  <1>1. runs[r].pc = "smtp" /\ l \in Loads /\ Mine(r) = claims[l] /\ claims[l] \in Claim /\ Numbered(claims[l])
    BY DEF SmtpRefused, Core, CoreTypeOK, RunTypeOK, LoadOf, Mine, CoreInv, TransitKnown
  <1>2. outbox' = [outbox EXCEPT ![l] = @ - 1] /\ delivered' = delivered
    BY DEF SmtpRefused
  <1>3. CoreKept
    <2>1. CASE Holds(r)
      <3>1. Mine(r).num # 0
        BY <1>1, <2>1, HeldFacts DEF RunFits
      <3>2. d \in Claim /\ d.num = Mine(r).num /\ d.state = "queued" /\ d.owner = NoRun
        BY <1>1 DEF Unowned, Claim, States, Stages, Reasons
      <3>3. Numbered(d) /\ (d.voided => d.num \in Numbers)
        BY <3>1, <3>2 DEF Numbered, Claim
      <3>4. EndsWith(r, d)
        BY <2>1 DEF SmtpRefused
      <3>5. claims' = [claims EXCEPT ![LoadOf(r)] = d] /\ givenUp' \subseteq Numbers /\ Ends(r)
        BY <3>3, <3>4 DEF EndsWith, WriteClaim, Core, CoreTypeOK
      <3> HIDE DEF d
      <3> QED BY <1>1, <1>2, <2>1, <3>2, <3>3, <3>5, AnswerKeeps, EndedRunOK, RunsAreNotNoRun
    <2>2. CASE ~Holds(r)
      <3>1. Ends(r) /\ UNCHANGED <<claims, givenUp>>
        BY <2>2 DEF SmtpRefused
      <3>2. claims' = [claims EXCEPT ![LoadOf(r)] = Mine(r)] /\ givenUp' \subseteq Numbers
        BY <1>1, <3>1 DEF Core, CoreTypeOK
      <3>3. PICK q : /\ RunOK(q) /\ q.pc # "smtp" /\ (q.pc # "idle" => q.load = LoadOf(r))
                     /\ runs' = [runs EXCEPT ![r] = q]
        BY <1>1, <3>1, EndedRunOK
      <3> QED BY <1>1, <1>2, <2>2, <3>2, <3>3, AnswerKeeps
    <2> QED BY <2>1, <2>2
  <1> QED BY <1>3 DEF SmtpRefused, RunKeeps, RestTypeOK, sharedVars

\* The server never answered.
LEMMA SmtpUnansweredKeeps ==
    ASSUME Core, RestTypeOK, NEW r \in Runs, SmtpUnanswered(r) PROVE RunKeeps
  <1>1. runs[r].pc = "smtp" /\ UNCHANGED <<claims, givenUp, outbox, delivered>>
    BY DEF SmtpUnanswered, gmailVars
  <1>2. CASE Holds(r)
    <2>1. RunFits("searchAnswer", Mine(r))
      BY <1>1, <1>2, HeldFacts DEF RunFits
    <2>2. CoreKept
      BY <1>1, <1>2, <2>1, GoKeeps DEF SmtpUnanswered, PCs
    <2> QED BY <2>2 DEF SmtpUnanswered, RunKeeps, RestTypeOK, sharedVars, gmailVars
  <1>3. CASE ~Holds(r)
    BY <1>1, <1>3, EndsKeeps DEF SmtpUnanswered, RunKeeps, RestTypeOK, sharedVars, gmailVars
  <1> QED BY <1>2, <1>3

\* Sent Mail was searched, whatever it said.
LEMMA SearchedSentKeeps ==
    ASSUME Core, RestTypeOK, NEW r \in Runs, FoundInSent(r) \/ NotFoundInSent(r) PROVE RunKeeps
  <1> DEFINE c == Mine(r)
  <1>1. /\ runs[r].pc \in {"searchAnswer", "searchSent"} /\ Holds(r)
        /\ UNCHANGED <<outbox, delivered>> /\ stop \in BOOLEAN
    BY DEF FoundInSent, NotFoundInSent, At, gmailVars, RestTypeOK
  <1>2. c \in Claim /\ Numbered(c) /\ c.num # 0
    BY <1>1, HeldFacts DEF RunFits
  <1>3. CASE FoundInSent(r)
    BY <1>1, <1>2, <1>3, AppendedStageKeeps DEF FoundInSent, RunKeeps, RestTypeOK, sharedVars, gmailVars
  <1>4. CASE NotFoundInSent(r)
    <2> DEFINE last == TriggerMode \/ c.checks + 1 >= SearchLimit
               checks == IF c.checks < SearchLimit THEN c.checks + 1 ELSE c.checks
               searched == [Unowned(c) EXCEPT !.checks = IF @ < SearchLimit THEN @ + 1 ELSE @]
               d == IF last THEN [searched EXCEPT !.state = "needs_attention", !.reason = "MAYBE_SENT"]
                            ELSE [searched EXCEPT !.state = "queued", !.reason = "OTHER"]
    <2>1. /\ searched \in Claim /\ searched.owner = NoRun /\ searched.stage = c.stage
          /\ searched.num = c.num /\ searched.sending = c.sending
      <3>1. checks \in Nat
        BY <1>2 DEF Claim
      <3>2. searched = [c EXCEPT !.owner = NoRun, !.expired = FALSE, !.checks = checks]
        BY <1>2 DEF Unowned, Claim
      <3> HIDE DEF checks
      <3> QED BY <1>2, <3>1, <3>2 DEF Claim
    <2>2. last \in BOOLEAN
      BY LedgerAssumption
    <2>3. EndsWith(r, d) /\ stop' = (stop \/ last)
      BY <1>4 DEF NotFoundInSent
    <2> HIDE DEF searched, last
    <2>4. /\ d \in Claim /\ d.owner = NoRun /\ d.state # "none" /\ d.stage = c.stage /\ d.num = c.num
          /\ d.sending = c.sending
      BY <2>1 DEF Claim, States, Reasons
    <2>5. SafeAfter(c, d)
      BY <1>2, <2>4 DEF SafeAfter, Numbered, ClaimSent
    <2> HIDE DEF d
    <2>6. CoreKept /\ stop' \in BOOLEAN
      BY <1>1, <2>2, <2>3, <2>4, <2>5, EndsWithKeeps
    <2> QED BY <1>4, <2>6 DEF NotFoundInSent, RunKeeps, RestTypeOK, sharedVars, gmailVars
  <1> QED BY <1>3, <1>4

\* A message nobody waits for is delivered after all.
LEMMA LateDeliveryKeeps ==
    ASSUME Core, RestTypeOK, NEW l \in Loads, LateDelivery(l) PROVE RunKeeps
  <1>1. /\ outbox' = [outbox EXCEPT ![l] = @ - 1] /\ delivered' = [delivered EXCEPT ![l] = @ + 1]
        /\ outbox[l] > 0 /\ UNCHANGED <<claims, givenUp, runs>>
    BY DEF LateDelivery, Deliver, ledgerVars
  <1>2. CoreTypeOK'
    BY <1>1 DEF Core, CoreTypeOK, RunTypeOK
  <1>3. TransitKnown'
    BY <1>1 DEF Core, CoreTypeOK, CoreInv, TransitKnown
  <1>4. RunsMatchClaims'
    BY <1>1 DEF Core, CoreInv, RunsMatchClaims, Holds, Mine, LoadOf
  <1>5. OneAtSmtp'
    BY <1>1 DEF Core, CoreTypeOK, RunTypeOK, CoreInv, OneAtSmtp, LoadOf, LateDelivery
  <1>6. SendsFollow
    BY <1>1 DEF Core, CoreTypeOK, SendsFollow
  <1> QED BY <1>2, <1>3, <1>4, <1>5, <1>6, DeliverOK DEF Core, CoreInv, CoreKept, LateDelivery, RunKeeps, RestTypeOK, ledgerVars

\* Every step of a run.
LEMMA RunStepKeeps ==
    ASSUME Core, RestTypeOK, NEW r \in Runs, SendsOnce(r), RunStep(r) PROVE RunKeeps
  BY LostRunKeeps, SnapshotKeeps, PrepareRefusedKeeps, PreparedKeeps, RenderFailedKeeps, RenderedKeeps,
     AppendedKeeps, AppendUnansweredKeeps, AppendRefusedKeeps, LookedInGmailKeeps, SmtpAcceptedKeeps,
     SmtpRefusedKeeps, SmtpUnansweredKeeps, SearchedSentKeeps, RebuildKeeps, RecordedKeeps, FinishedKeeps
  DEF RunStep

-----------------------------------------------------------------------------
(* The sends delivered. *)

\* Where every delivery is known to its claim, a run about to send sends for a load that was sent nothing.
LEMMA KnownSendsOnce ==
    ASSUME Core, DeliveredKnown, NEW r \in Runs PROVE SendsOnce(r)
  <1> SUFFICES ASSUME runs[r].pc = "render", Holds(r) PROVE delivered[LoadOf(r)] = 0
    BY DEF SendsOnce
  <1>1. LoadOf(r) \in Loads /\ Mine(r) = claims[LoadOf(r)] /\ ~ClaimSent(Mine(r))
    BY HeldFacts DEF RunFits, StagesBeforeAppend, ClaimSent
  <1> QED BY <1>1 DEF DeliveredKnown, Core, CoreTypeOK

\* A step that keeps the core keeps every delivery known, if it was.
LEMMA DeliveredKept ==
    ASSUME Core, DeliveredKnown, CoreKept PROVE DeliveredKnown'
  BY DEF Core, CoreTypeOK, CoreInv, TransitKnown, DeliveredKnown, CoreKept, SendsFollow

\* The core with every delivery known is SendInv.
LEMMA SendInvIs ==
    ASSUME CoreTypeOK PROVE SendInv <=> CoreInv /\ DeliveredKnown
  BY DEF CoreTypeOK, SendInv, ClaimsKnowSends, CoreInv, TransitKnown, DeliveredKnown

\* And so SendInv.
LEMMA SendInvKept ==
    ASSUME Core, DeliveredKnown, CoreKept PROVE SendInv'
  <1>1. DeliveredKnown'
    BY DeliveredKept
  <1> QED BY <1>1 DEF CoreKept, Core, CoreTypeOK, SendInv, ClaimsKnowSends, CoreInv, TransitKnown, DeliveredKnown

-----------------------------------------------------------------------------
(* A run starts: on a claim it leases, or takes over. *)

\* The free run's token is on no claim, so it holds only the one it starts on; a run that held
\* that one holds it no more.
LEMMA StartKeeps ==
    ASSUME Core, NEW r \in Runs, Free(r), NEW l \in Loads,
           NEW d, SafeAfter(claims[l], d), d.owner \in {r, NoRun},
           NEW pc \in PCs \ {"idle", "smtp", "append"}, NEW recovering \in BOOLEAN,
           d.owner = r => RunFits(pc, d),
           WriteClaim(l, d), Starts(r, l, pc, recovering), UNCHANGED <<outbox, delivered>>
    PROVE  CoreKept
  <1> DEFINE q == [pc |-> pc, load |-> l, recovering |-> recovering, num |-> 0]
  <1>1. RunOK(q) /\ q.pc = pc /\ q.load = l /\ runs' = [runs EXCEPT ![r] = q]
    BY LedgerAssumption DEF RunOK, RunRecord, Starts
  <1> HIDE DEF q
  <1>2. claims' = [claims EXCEPT ![l] = d] /\ givenUp' \subseteq Numbers /\ d \in Claim
    BY WriteClaimOK DEF SafeAfter
  <1>3. RunTypeOK'
    <2>1. runs' \in [Runs -> RunRecord]
      BY <1>1 DEF Core, CoreTypeOK, RunTypeOK, RunOK, RunRecord
    <2>2. ASSUME NEW p \in Runs PROVE RunOK(runs'[p])
      BY <1>1, <2>1 DEF Core, CoreTypeOK, RunTypeOK, RunOK, RunRecord
    <2> QED BY <2>1, <2>2 DEF RunTypeOK, RunOK, RunRecord
  <1>4. CoreTypeOK'
    BY <1>2, <1>3 DEF Core, CoreTypeOK
  <1>5. TransitKnown'
    <2> SUFFICES ASSUME NEW k \in Loads
                 PROVE  /\ outbox[k] + delivered[k] <= 1
                        /\ outbox[k] > 0 => ClaimSent(claims'[k])
                        /\ Numbered(claims'[k])
      BY DEF TransitKnown
    <2> QED BY <1>2 DEF Core, CoreTypeOK, CoreInv, TransitKnown, SafeAfter
  <1>6. RunsMatchClaims'
    <2> SUFFICES ASSUME NEW p \in Runs, runs'[p].pc # "idle", Holds(p)'
                 PROVE  RunFits(runs'[p].pc, claims'[runs'[p].load])
      BY DEF RunsMatchClaims, Mine, LoadOf
    <2>1. CASE p = r
      <3>1. runs'[p] = q /\ claims'[l] = d
        BY <1>1, <1>2, <2>1 DEF Core, CoreTypeOK, RunTypeOK
      <3> QED BY <1>1, <2>1, <3>1, RunsAreNotNoRun DEF Holds, Mine, LoadOf
    <2>2. CASE p # r
      <3>1. runs'[p] = runs[p] /\ runs[p].load \in Loads
        BY <1>1, <1>3, <2>2 DEF RunTypeOK, Core, CoreTypeOK
      <3>2. claims'[runs[p].load] = claims[runs[p].load]
        BY <1>2, <2>2, <3>1, RunsAreNotNoRun DEF Holds, Mine, LoadOf, Core, CoreTypeOK
      <3> QED BY <3>1, <3>2 DEF Holds, Core, CoreInv, RunsMatchClaims, Mine, LoadOf
    <2> QED BY <2>1, <2>2
  <1>7. OneAtSmtp'
    BY <1>1 DEF OneAtSmtp, Core, CoreInv, LoadOf, CoreTypeOK, RunTypeOK
  <1>8. SendsFollow
    <2> SUFFICES ASSUME NEW k \in Loads
                 PROVE  /\ delivered'[k] > 0 => outbox[k] + delivered[k] > 0
                        /\ ClaimSent(claims[k]) => ClaimSent(claims'[k]) \/ outbox'[k] + delivered'[k] = 0
      BY DEF SendsFollow
    <2> QED BY <1>2 DEF Core, CoreTypeOK, SafeAfter
  <1> QED BY <1>4, <1>5, <1>6, <1>7, <1>8 DEF Core, CoreInv, CoreKept

\* A claim taken is the claim it was, held.
LEMMA TakenOK ==
    ASSUME NEW c \in Claim, Numbered(c), NEW r \in Runs
    PROVE  /\ SafeAfter(c, Taken(c, r)) /\ Taken(c, r).owner = r /\ Taken(c, r).stage = c.stage
           /\ Taken(c, r).num = c.num /\ Taken(c, r).sending = c.sending /\ Taken(c, r).state = "working"
  <1> DEFINE d == Taken(c, r)
  <1>1. /\ d \in Claim /\ d.owner = r /\ d.stage = c.stage /\ d.num = c.num /\ d.sending = c.sending
        /\ d.state = "working" /\ d.voided = c.voided
    BY DEF Taken, Claim, States
  <1> QED BY <1>1 DEF SafeAfter, Numbered, ClaimSent

\* A queued claim is leased: a claim with an email on its way goes to its search, not to a build.
LEMMA LeaseKeeps ==
    ASSUME Core, RestTypeOK, NEW r \in Runs, NEW l \in Loads, Lease(r, l) PROVE RunKeeps
  <1>1. claims[l] \in Claim /\ Numbered(claims[l])
    BY DEF Core, CoreTypeOK, CoreInv, TransitKnown
  <1>2. CoreKept
    BY <1>1, TakenOK, StartKeeps DEF Lease, PCs, RunFits, gmailVars
  <1> QED BY <1>2 DEF Lease, RunKeeps, RestTypeOK, sharedVars, gmailVars

\* An expired claim is taken over, whoever still runs on it.
LEMMA RecoverKeeps ==
    ASSUME Core, RestTypeOK, NEW r \in Runs, NEW l \in Loads, Recover(r, l) PROVE RunKeeps
  <1> DEFINE c == Taken(claims[l], r)
  <1>1. claims[l] \in Claim /\ Numbered(claims[l]) /\ Free(r) /\ UNCHANGED <<outbox, delivered>>
    BY DEF Core, CoreTypeOK, CoreInv, TransitKnown, Recover, gmailVars
  <1>2. /\ SafeAfter(claims[l], c) /\ c.owner = r /\ c \in Claim /\ Numbered(c) /\ c.state = "working"
    BY <1>1, TakenOK DEF SafeAfter
  <1> HIDE DEF c
  <1>3. ASSUME SendInFlight(c), Starts(r, l, "searchSent", TRUE), WriteClaim(l, c) PROVE CoreKept
    <2>1. RunFits("searchSent", c)
      BY <1>2, <1>3 DEF RunFits, SendInFlight, Numbered
    <2> QED BY <1>1, <1>2, <1>3, <2>1, StartKeeps DEF PCs
  <1>4. ASSUME c.num # 0, Starts(r, l, "searchLost", TRUE), WriteClaim(l, c) PROVE CoreKept
    <2>1. RunFits("searchLost", c)
      BY <1>4 DEF RunFits
    <2> QED BY <1>1, <1>2, <1>4, <2>1, StartKeeps DEF PCs
  <1>5. ASSUME c.stage \in StagesBeforeAppend, WriteClaim(l, Requeue(c, KeptStage(c))),
               Starts(r, l, "close", TRUE) \/ UNCHANGED runs
        PROVE  CoreKept
    <2> DEFINE d == Requeue(c, KeptStage(c))
    <2>1. KeptStage(c) \in Stages /\ (KeptStage(c) # "" => c.num # 0) /\ ~ClaimSent(c)
      BY <1>5 DEF KeptStage, StagesBeforeAppend, Stages, ClaimSent
    <2>2. SafeAfter(claims[l], d) /\ d.owner = NoRun
      BY <1>2, <2>1, RequeueSafe, SafeTransitive
    <2>3. WriteClaim(l, d)
      BY <1>5
    <2> HIDE DEF d
    <2>4. CASE Starts(r, l, "close", TRUE)
      BY <1>1, <2>2, <2>3, <2>4, RunsAreNotNoRun, StartKeeps DEF PCs
    <2>5. CASE UNCHANGED runs
      BY <1>1, <2>2, <2>3, <2>5, PlainWrite
    <2> QED BY <1>5, <2>4, <2>5
  <1>6. ASSUME c.stage = "appending", ~c.sending, Starts(r, l, "searchLeft", TRUE), WriteClaim(l, c) PROVE CoreKept
    <2>1. RunFits("searchLeft", c)
      BY <1>2, <1>6 DEF RunFits, Numbered
    <2> QED BY <1>1, <1>2, <1>6, <2>1, StartKeeps DEF PCs
  <1>7. ASSUME c.stage \in {"appended", "recorded"}, Starts(r, l, "rebuild", TRUE), WriteClaim(l, c) PROVE CoreKept
    <2>1. RunFits("rebuild", c)
      BY <1>2, <1>7 DEF RunFits, Numbered
    <2> QED BY <1>1, <1>2, <1>7, <2>1, StartKeeps DEF PCs
  <1>8. CoreKept
    BY <1>3, <1>4, <1>5, <1>6, <1>7 DEF Recover, c
  <1> QED BY <1>8 DEF Recover, RunKeeps, RestTypeOK, sharedVars, gmailVars

-----------------------------------------------------------------------------
(* Whoever watches the claims, the switch and the button. *)

\* The watch closes an open claim a person drafted by hand.
LEMMA ClosedByHandKeeps ==
    ASSUME Core, RestTypeOK, NEW l \in Loads, ClosedByHand(l) PROVE RunKeeps
  <1> DEFINE c == claims[l]
             d == SkipDraftedByHand(c)
  <1>1. c \in Claim /\ Numbered(c) /\ c.state # "none"
    BY DEF Core, CoreTypeOK, CoreInv, TransitKnown, ClosedByHand
  <1>2. SafeAfter(c, d) /\ d.owner = NoRun
    BY <1>1, SkipSafe
  <1>3. WriteClaim(l, d) /\ UNCHANGED <<runs, outbox, delivered>>
    BY DEF ClosedByHand, gmailVars
  <1> HIDE DEF d
  <1>4. CoreKept
    BY <1>2, <1>3, PlainWrite
  <1> QED BY <1>4 DEF ClosedByHand, RunKeeps, RestTypeOK, sharedVars, gmailVars

\* What changes neither a claim, a run nor the mail in transit.
LEMMA CoreStutter ==
    ASSUME Core, UNCHANGED <<claims, runs, outbox, delivered>>, givenUp' \subseteq Numbers PROVE CoreKept
  <1>1. CoreTypeOK'
    BY DEF Core, CoreTypeOK, RunTypeOK
  <1>2. TransitKnown' /\ RunsMatchClaims' /\ OneAtSmtp'
    BY DEF Core, CoreInv, TransitKnown, RunsMatchClaims, OneAtSmtp, Holds, Mine, LoadOf
  <1>3. SendsFollow
    BY DEF SendsFollow, Core, CoreTypeOK
  <1> QED BY <1>1, <1>2, <1>3 DEF Core, CoreInv, CoreKept

\* The watch stops sending for a load changed after its send.
LEMMA ChangedAfterSendKeeps ==
    ASSUME Core, RestTypeOK, NEW l \in Loads, ChangedAfterSend(l) PROVE RunKeeps
  <1>1. CoreKept
    BY CoreStutter DEF ChangedAfterSend, gmailVars, Core, CoreTypeOK
  <1> QED BY <1>1 DEF ChangedAfterSend, RunKeeps, RestTypeOK, sharedVars, gmailVars

\* The factoring switch, the stop and the resume script.
LEMMA SwitchKeeps ==
    ASSUME Core, RestTypeOK, SwitchNext, UNCHANGED runs PROVE RunKeeps
  <1>1. UNCHANGED <<claims, outbox, delivered, givenUp, rows, inflight, seq, copies, sent, handFiled>>
    BY DEF SwitchNext, Mark, Clear, HandledOutside, StopSends, ResumeSends, gmailVars
  <1>2. CoreKept
    BY <1>1, CoreStutter DEF Core, CoreTypeOK
  <1>3. marker' \in [Loads -> {"clear", "factored", "locked"}] /\ stop' \in BOOLEAN
    BY DEF SwitchNext, Mark, Clear, HandledOutside, StopSends, ResumeSends, RestTypeOK
  <1> QED BY <1>1, <1>2, <1>3 DEF RunKeeps, RestTypeOK

\* What the button leaves to the job: the claims, and the mail on its way.
LEMMA PressLeaves ==
    ASSUME PressNext PROVE UNCHANGED <<claims, marker, stop, sent, outbox, delivered>>
  BY DEF PressNext, PressStep, Press, PressPrepared, PressFailed, PressRendered, PressFiled, PressUnanswered,
         PressRefusedByGmail, PressN8nFailed, PressDies, InflightStale, ResolveInflight, MayFile, ledgerVars, gmailVars

PressKeeps == RestTypeOK' /\ PressTypeOK' /\ givenUp' \subseteq Numbers

PressRecord ==
    [pc : {"idle", "prepare", "render", "append", "n8n"}, load : Loads \cup {NoLoad},
     num : Numbers \cup {0}, reissue : BOOLEAN]

PressOK(p) ==
    /\ p \in PressRecord
    /\ p.load = NoLoad <=> p.pc = "idle"
    /\ p.num = 0 <=> p.pc \in {"idle", "prepare"}

\* A press changes only its own record.
LEMMA PressRecordOK ==
    ASSUME PressTypeOK, NEW p \in Presses, NEW q, PressOK(q), presses' = [presses EXCEPT ![p] = q]
    PROVE  PressTypeOK'
  <1>1. presses' \in [Presses -> PressRecord]
    BY DEF PressTypeOK, PressOK, PressRecord
  <1>2. ASSUME NEW o \in Presses PROVE PressOK(presses'[o])
    BY <1>1 DEF PressTypeOK, PressOK, PressRecord
  <1> QED BY <1>1, <1>2 DEF PressTypeOK, PressOK, PressRecord

\* A press that ends, or goes on with its number.
LEMMA PressMoveOK ==
    ASSUME PressTypeOK, NEW p \in Presses, presses[p].pc # "idle",
           Answers(p) \/ (presses[p].pc \in {"render", "append", "n8n"}
                          /\ \E pc \in {"append", "n8n"} : PressGo(p, pc))
    PROVE  PressTypeOK'
  <1>1. presses[p] \in PressRecord /\ presses \in [Presses -> PressRecord]
    BY DEF PressTypeOK, PressRecord
  <1>2. CASE Answers(p)
    <2>1. PressOK(IdlePress)
      BY DEF PressOK, PressRecord, IdlePress
    <2> QED BY <1>2, <2>1, PressRecordOK DEF Answers
  <1>3. ASSUME NEW pc \in {"append", "n8n"}, PressGo(p, pc), presses[p].pc \in {"render", "append", "n8n"}
        PROVE  PressTypeOK'
    <2> DEFINE q == [presses[p] EXCEPT !.pc = pc]
    <2>1. /\ q \in PressRecord /\ q.pc = pc /\ q.load = presses[p].load /\ q.num = presses[p].num
      BY <1>1 DEF PressRecord
    <2>2. PressOK(q)
      BY <1>1, <1>3, <2>1 DEF PressOK, PressTypeOK
    <2>3. presses' = [presses EXCEPT ![p] = q]
      BY <1>1, <1>3 DEF PressGo
    <2> HIDE DEF q
    <2> QED BY <2>2, <2>3, PressRecordOK
  <1> QED BY <1>2, <1>3

\* Rows change their state and path only.
LEMMA RowsOK ==
    ASSUME inflight \subseteq InflightRow, NEW S \in SUBSET inflight,
           NEW state \in {"in_flight", "maybe"}, NEW path \in {"imap", "n8n"}
    PROVE  /\ {[f EXCEPT !.state = state] : f \in S} \subseteq InflightRow
           /\ {[f EXCEPT !.path = path] : f \in S} \subseteq InflightRow
           /\ {[f EXCEPT !.state = state, !.path = path] : f \in S} \subseteq InflightRow
           /\ {IF f \in S THEN [f EXCEPT !.state = state] ELSE f : f \in inflight} \subseteq InflightRow
  <1>1. ASSUME NEW f \in inflight
        PROVE  /\ f \in InflightRow
               /\ [f EXCEPT !.state = state] \in InflightRow
               /\ [f EXCEPT !.path = path] \in InflightRow
               /\ [f EXCEPT !.state = state, !.path = path] \in InflightRow
    BY DEF InflightRow
  <1> QED BY <1>1

\* Every step of the Draft Invoice button and of Check Gmail.
LEMMA PressNextKeeps ==
    ASSUME RestTypeOK, PressTypeOK, givenUp \subseteq Numbers, PressNext PROVE PressKeeps
  <1>1. ASSUME NEW p \in Presses, presses[p].pc # "idle"
        PROVE  /\ presses[p].load \in Loads /\ presses[p].reissue \in BOOLEAN
               /\ presses[p].pc # "prepare" => presses[p].num \in Numbers
               /\ RowOf(p) \subseteq inflight
    BY <1>1 DEF PressTypeOK, RowOf
  <1>2. ASSUME NEW p \in Presses, NEW landed \in BOOLEAN, MayFile(p, landed), presses[p].pc \in {"append", "n8n"}
        PROVE  /\ copies' \in [Numbers -> Nat]
               /\ handFiled' \subseteq [load : Loads, num : Numbers, reissue : BOOLEAN]
    BY <1>1, <1>2, FileOK DEF MayFile, RestTypeOK
  <1>3. ASSUME NEW p \in Presses, NEW l \in Loads, NEW confirmReissue \in BOOLEAN, Press(p, l, confirmReissue)
        PROVE  PressKeeps
    <2> DEFINE q == [pc |-> "prepare", load |-> l, num |-> 0, reissue |-> ClaimSent(claims[l]) /\ confirmReissue]
    <2>1. PressOK(q)
      BY LedgerAssumption DEF PressOK, PressRecord, ClaimSent
    <2>2. presses' = [presses EXCEPT ![p] = q]
      BY <1>3 DEF Press
    <2> HIDE DEF q
    <2> QED BY <1>3, <2>1, <2>2, PressRecordOK DEF Press, PressKeeps, RestTypeOK, ledgerVars, gmailVars
  <1>4. ASSUME NEW p \in Presses, PressPrepared(p) PROVE PressKeeps
    <2> DEFINE q == [presses[p] EXCEPT !.pc = "render", !.num = seq + 1]
    <2>1. seq + 1 \in Numbers /\ seq + 1 # 0
      BY <1>4, LedgerAssumption DEF PressPrepared, RestTypeOK, Numbers
    <2>2. PressOK(q)
      <3>1. presses[p] \in PressRecord /\ presses[p].load # NoLoad
        BY <1>4 DEF PressTypeOK, PressRecord, PressPrepared
      <3>2. q \in PressRecord /\ q.pc = "render" /\ q.load = presses[p].load /\ q.num # 0
        BY <2>1, <3>1 DEF PressRecord
      <3> QED BY <3>1, <3>2 DEF PressOK
    <2>3. presses' = [presses EXCEPT ![p] = q] /\ seq' \in 0..MaxNumber
      BY <1>4, <2>1 DEF PressPrepared, Numbers
    <2> HIDE DEF q
    <2> QED BY <1>4, <2>2, <2>3, PressRecordOK DEF PressPrepared, PressKeeps, RestTypeOK, gmailVars
  <1>5. ASSUME NEW p \in Presses, PressFailed(p) PROVE PressKeeps
    BY <1>5, PressMoveOK DEF PressFailed, PressKeeps, RestTypeOK, ledgerVars, gmailVars
  <1>6. ASSUME NEW p \in Presses, PressRendered(p) PROVE PressKeeps
    <2>1. PressTypeOK'
      BY <1>6, PressMoveOK DEF PressRendered
    <2>2. inflight' \subseteq InflightRow /\ givenUp' \subseteq Numbers
      BY <1>1, <1>6 DEF PressRendered, RestTypeOK, InflightRow, GivesUp
    <2> QED BY <1>6, <2>1, <2>2 DEF PressRendered, PressKeeps, RestTypeOK, gmailVars
  <1>7. ASSUME NEW p \in Presses, NEW recorded \in BOOLEAN, PressFiled(p, recorded) PROVE PressKeeps
    <2>1. PressTypeOK'
      BY <1>7, PressMoveOK DEF PressFiled
    <2>2. copies' \in [Numbers -> Nat] /\ handFiled' \subseteq [load : Loads, num : Numbers, reissue : BOOLEAN]
      BY <1>1, <1>7, FileOK DEF PressFiled, RestTypeOK
    <2>3. rows' \subseteq DraftRow
      BY <1>1, <1>7 DEF PressFiled, RestTypeOK, DraftRow
    <2>4. inflight' \subseteq InflightRow
      <3>1. RowOf(p) \in SUBSET inflight /\ inflight \subseteq InflightRow
        BY DEF RowOf, RestTypeOK
      <3>2. {IF f \in RowOf(p) THEN [f EXCEPT !.state = "maybe"] ELSE f : f \in inflight} \subseteq InflightRow
        BY <3>1, RowsOK
      <3> QED BY <1>7, <3>1, <3>2 DEF PressFiled
    <2> QED BY <1>7, <2>1, <2>2, <2>3, <2>4 DEF PressFiled, PressKeeps, RestTypeOK
  <1>8. ASSUME NEW p \in Presses, NEW path \in {"imap", "n8n"}, presses[p].pc # "idle"
        PROVE  MaybeRows(p, path) \subseteq InflightRow
    <2>1. RowOf(p) \in SUBSET inflight /\ inflight \subseteq InflightRow
      BY DEF RowOf, RestTypeOK
    <2>2. {[f EXCEPT !.state = "maybe", !.path = path] : f \in RowOf(p)} \subseteq InflightRow
      BY <2>1, RowsOK
    <2> QED BY <2>1, <2>2 DEF MaybeRows
  <1>9. ASSUME NEW p \in Presses, NEW landed \in BOOLEAN, PressUnanswered(p, landed) PROVE PressKeeps
    <2>1. PressTypeOK'
      BY <1>9, PressMoveOK DEF PressUnanswered
    <2>2. inflight' \subseteq InflightRow
      BY <1>8, <1>9 DEF PressUnanswered
    <2> QED BY <1>2, <1>9, <2>1, <2>2 DEF PressUnanswered, PressKeeps, RestTypeOK
  <1>10. ASSUME NEW p \in Presses, PressRefusedByGmail(p) PROVE PressKeeps
    <2>1. PressTypeOK'
      BY <1>10, PressMoveOK DEF PressRefusedByGmail
    <2>2. RowOf(p) \in SUBSET inflight /\ inflight \subseteq InflightRow
      BY DEF RowOf, RestTypeOK
    <2>3. {[f EXCEPT !.path = "n8n"] : f \in RowOf(p)} \subseteq InflightRow
      BY <2>2, RowsOK
    <2>4. inflight' \subseteq InflightRow /\ givenUp' \subseteq Numbers
      BY <1>1, <1>10, <2>2, <2>3 DEF PressRefusedByGmail, GivesUp
    <2> QED BY <1>10, <2>1, <2>4 DEF PressRefusedByGmail, PressKeeps, RestTypeOK, gmailVars
  <1>11. ASSUME NEW p \in Presses, NEW landed \in BOOLEAN, PressN8nFailed(p, landed) PROVE PressKeeps
    <2>1. PressTypeOK'
      BY <1>11, PressMoveOK DEF PressN8nFailed
    <2>2. inflight' \subseteq InflightRow
      BY <1>8, <1>11 DEF PressN8nFailed
    <2> QED BY <1>2, <1>11, <2>1, <2>2 DEF PressN8nFailed, PressKeeps, RestTypeOK
  <1>12. ASSUME NEW p \in Presses, NEW landed \in BOOLEAN, PressDies(p, landed) PROVE PressKeeps
    <2>1. PressTypeOK'
      BY <1>12, PressMoveOK DEF PressDies
    <2>2. copies' \in [Numbers -> Nat] /\ handFiled' \subseteq [load : Loads, num : Numbers, reissue : BOOLEAN]
      BY <1>2, <1>12 DEF PressDies, MayFile, RestTypeOK
    <2> QED BY <1>12, <2>1, <2>2 DEF PressDies, PressKeeps, RestTypeOK, ledgerVars
  <1>13. ASSUME NEW f \in inflight, InflightStale(f) PROVE PressKeeps
    <2>1. [f EXCEPT !.state = "maybe"] \in InflightRow
      BY DEF RestTypeOK, InflightRow
    <2> QED BY <1>13, <2>1 DEF InflightStale, PressKeeps, RestTypeOK, PressTypeOK, gmailVars
  <1>14. ASSUME NEW f \in inflight, ResolveInflight(f) PROVE PressKeeps
    <2>1. f.load \in Loads /\ f.num \in Numbers
      BY DEF RestTypeOK, InflightRow
    <2>2. rows' \subseteq DraftRow /\ givenUp' \subseteq Numbers
      BY <1>14, <2>1 DEF ResolveInflight, RestTypeOK, DraftRow, GivesUp
    <2> QED BY <1>14, <2>2 DEF ResolveInflight, PressKeeps, RestTypeOK, PressTypeOK, gmailVars
  <1> QED BY <1>3, <1>4, <1>5, <1>6, <1>7, <1>9, <1>10, <1>11, <1>12, <1>13, <1>14 DEF PressNext, PressStep

-----------------------------------------------------------------------------
(* No send of a factored load. *)

\* Only beginSend() puts a message on its way, and it asks the marker.
LEMMA OnlyUnfactoredSends ==
    ASSUME Core, NEW r \in Runs, RunStep(r)
    PROVE  /\ marker' = marker
           /\ \A l \in Loads : outbox'[l] + delivered'[l] > 0 => outbox[l] + delivered[l] > 0 \/ ~Factored(l)
  <1>1. outbox \in [Loads -> Nat] /\ delivered \in [Loads -> Nat]
    BY DEF Core, CoreTypeOK
  <1>2. CASE Rendered(r)
    <2>1. UNCHANGED <<marker, delivered>>
      BY <1>2 DEF Rendered, sharedVars
    <2>2. \/ UNCHANGED outbox
          \/ BeginSend(r, [Mine(r) EXCEPT !.stage = "rendered"])
      BY <1>2 DEF Rendered
    <2>3. CASE BeginSend(r, [Mine(r) EXCEPT !.stage = "rendered"])
      <3>1. outbox' = [outbox EXCEPT ![LoadOf(r)] = @ + 1] /\ ~Factored(LoadOf(r))
        BY <2>3 DEF BeginSend
      <3>2. LoadOf(r) \in Loads
        BY <1>2 DEF Rendered, At, LoadOf, Core, CoreTypeOK, RunTypeOK
      <3> QED BY <1>1, <2>1, <3>1, <3>2
    <2> QED BY <2>1, <2>2, <2>3
  <1>3. CASE SmtpAccepted(r)
    <2>1. /\ outbox[LoadOf(r)] > 0 /\ outbox' = [outbox EXCEPT ![LoadOf(r)] = @ - 1]
          /\ delivered' = [delivered EXCEPT ![LoadOf(r)] = @ + 1] /\ marker' = marker
      BY <1>3 DEF SmtpAccepted, Deliver, sharedVars
    <2>2. LoadOf(r) \in Loads
      BY <1>3 DEF SmtpAccepted, LoadOf, Core, CoreTypeOK, RunTypeOK
    <2> QED BY <1>1, <2>1, <2>2
  <1>4. CASE SmtpRefused(r)
    <2>1. /\ outbox[LoadOf(r)] > 0 /\ outbox' = [outbox EXCEPT ![LoadOf(r)] = @ - 1]
          /\ delivered' = delivered /\ marker' = marker
      BY <1>4 DEF SmtpRefused, sharedVars
    <2>2. LoadOf(r) \in Loads
      BY <1>4 DEF SmtpRefused, LoadOf, Core, CoreTypeOK, RunTypeOK
    <2> QED BY <1>1, <2>1, <2>2
  <1>5. CASE ~(Rendered(r) \/ SmtpAccepted(r) \/ SmtpRefused(r))
    <2>1. UNCHANGED <<outbox, delivered, marker>>
      BY <1>5 DEF RunStep, LostRun, SheetDown, NotNow, AfterSnapshot, PrepareRefused, Prepared, RenderFailed,
         Appended, AppendUnanswered, AppendRefused, FoundInGmail, GmailUnknown, AbsentFromGmail, SmtpUnanswered,
         FoundInSent, NotFoundInSent, Rebuilt, NotRebuilt, RebuildThrew, Recorded, Finished,
         sharedVars, gmailVars, ledgerVars
    <2> QED BY <2>1
  <1> QED BY <1>2, <1>3, <1>4, <1>5

\* A step that marks nothing, and commits no send of a factored load, leaves no factored load
\* with an email out.
LEMMA FactoredKept ==
    ASSUME Core, FactoredNeverSent,
           \A l \in Loads : outbox'[l] + delivered'[l] > 0 => outbox[l] + delivered[l] > 0 \/ ~Factored(l),
           marker' = marker
    PROVE  FactoredNeverSent'
  BY DEF FactoredNeverSent, Factored

\* The switch marks only a load whose claim knows of no send.
LEMMA SwitchNeverOverSend ==
    ASSUME Core, DeliveredKnown, RestTypeOK, FactoredNeverSent, SwitchNext PROVE FactoredNeverSent'
  <1>1. UNCHANGED <<outbox, delivered>>
    BY DEF SwitchNext, Mark, Clear, HandledOutside, StopSends, ResumeSends, gmailVars
  <1>2. ASSUME NEW l \in Loads, outbox[l] + delivered[l] > 0 PROVE marker'[l] = "clear"
    <2>1. ClaimSent(claims[l]) /\ marker[l] = "clear" /\ marker \in [Loads -> {"clear", "factored", "locked"}]
      BY <1>2 DEF Core, CoreTypeOK, CoreInv, TransitKnown, DeliveredKnown, FactoredNeverSent, RestTypeOK
    <2>2. ASSUME NEW k \in Loads, NEW confirmed \in BOOLEAN, Mark(k, confirmed) PROVE marker'[l] = "clear"
      BY <2>1, <2>2 DEF Mark
    <2>3. ASSUME NEW k \in Loads, Clear(k) \/ HandledOutside(k) PROVE marker'[l] = "clear"
      BY <2>1, <2>3 DEF Clear, HandledOutside
    <2>4. CASE StopSends \/ ResumeSends
      BY <2>1, <2>4 DEF StopSends, ResumeSends
    <2> QED BY <2>2, <2>3, <2>4 DEF SwitchNext
  <1> QED BY <1>1, <1>2 DEF FactoredNeverSent
=============================================================================
