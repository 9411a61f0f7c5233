---------------------------- MODULE TimerInvoices ----------------------------
(***************************************************************************)
(* The automatic invoice job with its timer (the driver's trigger switched *)
(* off): the sweep that files loads, leases and their recovery, the runs,  *)
(* a Super Admin's Try again and stop, crashes and restarts, beside the    *)
(* Draft Invoice button and the factoring switch. The tick's order         *)
(* (recover, sweep, work) is not kept: any of them may come at any time,   *)
(* as they do when two processes overlap at a deploy.                      *)
(***************************************************************************)
EXTENDS InvoiceSafety

CONSTANTS
    MaxCrashes,     \* bound on the runs that die under way
    MaxOverruns     \* bound on the leases that end under a live run
ASSUME TimerAssumption == MaxCrashes \in Nat /\ MaxOverruns \in Nat /\ ~TriggerMode

VARIABLES crashes, overruns

vars == <<ledgerVars, gmailVars, runs, presses, crashes, overruns>>

others == <<presses, crashes, overruns>>

TypeOK ==
    LedgerTypeOK /\ RunTypeOK /\ PressTypeOK /\ crashes \in 0..MaxCrashes /\ overruns \in 0..MaxOverruns

Init == LedgerInit /\ RunInit /\ PressInit /\ crashes = 0 /\ overruns = 0

-----------------------------------------------------------------------------
(* The sweep, one claim at a time: it writes nothing but the claims and the stop. *)

\* A completed load the job sees for the first time: the baseline, an off gap, the free
\* checks, and a send that waits from the start.
SweepNew(l) ==
    /\ claims[l].state = "none"
    /\ \E state \in {"baseline", "skipped", "needs_attention", "waiting", "queued"} :
          /\ Factored(l) \/ (\E d \in rows : d.load = l) => state \in {"baseline", "skipped"}
          /\ WriteClaim(l, NewClaim(state, "OTHER"))
    /\ UNCHANGED <<sharedVars, stop, gmailVars, runs>>

\* An open claim nobody drafted by hand: the free checks again (one still settling, or the same
\* verdict, stays). A send that may have gone out moves on only by its search.
SweepOpen(l) ==
    LET c == claims[l] IN
    /\ c.state \in {"waiting", "queued"}
    /\ ~SendInFlight(c)
    /\ OtherRows(l) = {}
    /\ \E v \in FreeVerdicts(l) :
          /\ v[1] # c.state
          /\ WriteClaim(l, [c EXCEPT !.state = v[1], !.reason = "OTHER", !.voided = @ \/ Voids(c, v[1])])
    /\ UNCHANGED <<sharedVars, stop, gmailVars, runs>>

-----------------------------------------------------------------------------
\* work(): one draft in flight; the caps, the pause and the settings may hold it back.
Work(r, l) ==
    /\ \A k \in Loads : claims[k].state = "working" => claims[k].expired
    /\ Lease(r, l)

\* A lease may end under a live run, wherever that run is: nothing renews it. Every lease of a
\* run that is gone ends; LEASE_MS outlasts most runs, so only MaxOverruns end under a live one.
LeaseEnds(l) ==
    LET live == \E r \in Runs : claims[l].owner = r /\ runs[r].load = l IN
    /\ claims[l].state = "working" /\ ~claims[l].expired
    /\ claims' = [claims EXCEPT ![l].expired = TRUE]
    /\ IF live
       THEN overruns < MaxOverruns /\ overruns' = overruns + 1
       ELSE UNCHANGED overruns
    /\ UNCHANGED <<sharedVars, givenUp, stop, gmailVars, runs, presses, crashes>>

\* The process dies between two awaits: what it was filing landed or did not.
Crash(r) ==
    /\ crashes < MaxCrashes
    /\ crashes' = crashes + 1
    /\ runs[r].pc # "idle"
    /\ runs' = [runs EXCEPT ![r] = IdleRun]
    /\ \/ UNCHANGED copies
       \/ runs[r].pc = "append" /\ File(runs[r].num)
    /\ UNCHANGED <<ledgerVars, sent, outbox, delivered, handFiled, presses, overruns>>

\* A Super Admin's Try again: a message that may be in Gmail is looked for first.
Retry(l) ==
    LET c == [claims[l] EXCEPT !.reason = "OTHER", !.attempts = 0] IN
    /\ c.state = "needs_attention"
    /\ WriteClaim(l, IF c.stage \in StagesBeforeAppend THEN [c EXCEPT !.state = "queued"]
                     ELSE [c EXCEPT !.state = "working", !.owner = NoRun, !.expired = TRUE])
    /\ UNCHANGED <<sharedVars, stop, gmailVars, runs>>

Tick(r) == \E l \in Loads : Work(r, l) \/ TakeOver(r, l)

Sweep == \E l \in Loads : SweepNew(l) \/ SweepOpen(l) \/ ClosedByHand(l) \/ ChangedAfterSend(l)

Next ==
    \/ (\E r \in Runs : RunStep(r) \/ Tick(r)) /\ UNCHANGED others
    \/ (Sweep \/ \E l \in Loads : Retry(l) \/ LateDelivery(l)) /\ UNCHANGED others
    \/ \E l \in Loads : LeaseEnds(l)
    \/ \E r \in Runs : Crash(r)
    \/ SwitchNext /\ UNCHANGED <<runs, others>>
    \/ PressNext /\ UNCHANGED <<runs, crashes, overruns>>

Spec == Init /\ [][Next]_vars

-----------------------------------------------------------------------------
\* Nothing but a search that found it, or the server's refusal, takes a claim off an
\* unconfirmed send, whichever of its states the claim is in meanwhile.
OnlySearchConfirms == [][Confirmed]_vars

\* The job, the button and the switch keep InvoiceOnce's promise: each of their steps is one of
\* its steps or none.
KeepsPromise == Once!Spec

-----------------------------------------------------------------------------
(* Progress, with the timer ticking and the sheet readable again and again. *)

\* Every await of a run ends (engine calls, IMAP and SMTP sessions all have timeouts); a lease
\* runs out; a tick recovers an expired claim and takes a queued one in its turn; and of the
\* snapshots taken for a claim, not every one finds the sheet or the settings unreadable.
Fairness ==
    /\ \A r \in Runs : WF_vars(RunStep(r) /\ UNCHANGED others) /\ SF_vars(AfterSnapshot(r) /\ UNCHANGED others)
    /\ \A l \in Loads :
          /\ WF_vars(LeaseEnds(l))
          /\ SF_vars((\E r \in Runs : TakeOver(r, l)) /\ UNCHANGED others)
          /\ SF_vars((\E r \in Runs : Work(r, l)) /\ UNCHANGED others)

FairSpec == Spec /\ Fairness

\* A claim whose message may be in Gmail, or on its way to the broker, does not stay with the
\* job: it is recorded, found never to have been filed, or given to a person; no crash, lost
\* answer or taken-over lease leaves it queued or working for good.
MessagesSettle ==
    \A l \in Loads :
       claims[l].state \in {"queued", "working"} /\ claims[l].stage \notin StagesBeforeAppend
          ~> claims[l].state \notin {"queued", "working"} \/ claims[l].stage \in StagesBeforeAppend
=============================================================================
