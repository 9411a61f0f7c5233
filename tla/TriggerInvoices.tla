--------------------------- MODULE TriggerInvoices ---------------------------
(***************************************************************************)
(* The automatic invoice job with the driver's trigger (its default; the   *)
(* rules in lib/auto-invoice-trigger.js): no sweep and no timer. A         *)
(* Driver's Delivered files a claim before the sheet is written and queues *)
(* it after; one line runs the queued claims one at a time, each under a   *)
(* token of its own and up to a limit; a restart goes over every open      *)
(* claim; and a person's Try again is the only retry.                      *)
(***************************************************************************)
EXTENDS InvoiceSafety

CONSTANTS
    Taps,           \* status writes by drivers, in progress at once
    RunsPerLine,    \* RUNS_PER_LINE: how often one line takes one load
    MaxRestarts,    \* bound on the restarts after the first start
    MaxBills,       \* bound on the loads people bill from Gmail
    PowerLosses     \* the box can lose power, and with it a commit not forced to disk

ASSUME TriggerAssumption ==
    /\ TriggerMode
    /\ IsFiniteSet(Runs)
    /\ RunsPerLine \in Nat
    /\ MaxRestarts \in Nat
    /\ MaxBills \in Nat
    /\ PowerLosses \in BOOLEAN

VARIABLES
    line,           \* the run the line waits for, NoRun when between two
    counts,         \* runs this line has given each load
    taps,           \* by tap: "idle", "writing" the sheet, "settling" a failed write, and its load
    up,             \* the process is up, its start-up done
    first,          \* the trigger never ran on this database (trigger_on_at)
    restarts,
    billed,         \* loads a person billed from Gmail while the job had stopped on them
    asked           \* loads a Driver's tap or a person's Try again asked for

lineVars == <<line, counts>>
outside  == <<taps, up, first, restarts, billed, asked>>
vars     == <<ledgerVars, gmailVars, runs, presses, lineVars, outside>>

IdleTap == [pc |-> "idle", load |-> NoLoad]

TypeOK ==
    /\ LedgerTypeOK /\ RunTypeOK /\ PressTypeOK
    /\ line \in Runs \cup {NoRun}
    /\ counts \in [Loads -> 0..(RunsPerLine + 1)]
    /\ taps \in [Taps -> [pc : {"idle", "writing", "settling"}, load : Loads \cup {NoLoad}]]
    /\ up \in BOOLEAN /\ first \in BOOLEAN
    /\ restarts \in 0..MaxRestarts
    /\ billed \subseteq Loads /\ asked \subseteq Loads

\* What the timer's sweep left: the first start hands it over.
SweptClaims == {NoClaim, NewClaim("waiting", "OTHER"), NewClaim("queued", "OTHER"), NewClaim("needs_attention", "OFF_GAP")}

Init ==
    /\ claims \in [Loads -> SweptClaims]
    /\ NothingElseYet /\ RunInit /\ PressInit
    /\ line = NoRun /\ counts = [l \in Loads |-> 0]
    /\ taps = [t \in Taps |-> IdleTap]
    /\ up = FALSE /\ first = TRUE /\ restarts = 0
    /\ billed = {} /\ asked = {}

-----------------------------------------------------------------------------
(* Start-up (startUpAction()): what becomes of one open claim. *)

\* Only what already went is searched for, or recorded.
Went(c) == SendInFlight(c) \/ c.stage \in {"appended", "recorded"}

\* Mutant: the first start takes the sweep's claims for its own.
PlanNotFirst(c, stale) ==
    CASE c.state \notin {"working", "queued", "waiting"} -> "none"
      [] c.state = "waiting" ->
            IF c.reason = "NOT_COMPLETED" THEN "none"
            ELSE IF stale \/ c.reason # "DRIVER_PENDING" THEN "person" ELSE "queue"
      [] c.state \in {"working", "queued"} /\ Went(c) -> "recover"
      [] c.state \in {"working", "queued"} /\ c.stage = "appending" /\ ~c.sending ->
            IF c.state = "working" THEN "recover" ELSE "person"
      [] OTHER ->
            IF stale THEN "person" ELSE IF c.state = "working" THEN "recover" ELSE "queue"

\* `stale`: the record is over an hour old, so somebody may have billed the load since.
StartUpPlan(c, stale) ==
    CASE c.state \notin {"working", "queued", "waiting"} -> "none"
      [] c.state = "waiting" ->
            IF c.reason = "NOT_COMPLETED" THEN "none"
            ELSE IF first \/ stale \/ c.reason # "DRIVER_PENDING" THEN "person" ELSE "queue"
      [] c.state \in {"working", "queued"} /\ Went(c) -> "recover"
      [] c.state \in {"working", "queued"} /\ c.stage = "appending" /\ ~c.sending ->
            IF c.state = "working" /\ ~first THEN "recover" ELSE "person"
      [] OTHER ->
            IF first \/ stale THEN "person" ELSE IF c.state = "working" THEN "recover" ELSE "queue"

StartedUp(c, stale) ==
    LET plan == StartUpPlan(c, stale) IN
    CASE plan = "none"    -> c
      [] plan = "person"  -> [Unowned(c) EXCEPT !.state = "needs_attention", !.reason = "OTHER", !.stage = KeptStage(c)]
      [] plan = "recover" -> [c EXCEPT !.state = "working", !.owner = NoRun, !.expired = TRUE]
      [] plan = "queue"   -> [Unowned(c) EXCEPT !.state = "queued", !.reason = "OTHER", !.look = TRUE]

\* startTrigger(), one transaction before the app listens. With the process still up it is
\* another process starting beside one that outlives the restart: that one finishes the run it
\* is in, and holds no claim any more.
StartTrigger ==
    /\ restarts < MaxRestarts \/ ~up
    /\ restarts' = IF up THEN restarts + 1 ELSE restarts
    /\ \E stale \in SUBSET Loads :
          claims' = [l \in Loads |-> StartedUp(claims[l], l \in stale)]
    /\ up' = TRUE
    /\ first' = FALSE
    /\ line' = NoRun
    /\ counts' = [l \in Loads |-> 0]
    /\ UNCHANGED <<sharedVars, givenUp, stop, gmailVars, runs, presses, taps, billed, asked>>

\* The process dies between two awaits: what each of its runs was filing landed or did not.
Dies ==
    /\ up /\ restarts < MaxRestarts
    /\ restarts' = restarts + 1
    /\ up' = FALSE
    /\ runs' = [r \in Runs |-> IdleRun]
    /\ taps' = [t \in Taps |-> IdleTap]
    /\ line' = NoRun

Crash ==
    /\ Dies
    /\ \E landed \in SUBSET {r \in Runs : runs[r].pc = "append"} :
          copies' = [n \in Numbers |-> copies[n] + Cardinality({r \in landed : runs[r].num = n})]
    /\ UNCHANGED <<ledgerVars, sent, outbox, delivered, handFiled, presses, counts, first, billed, asked>>

\* The box loses power under a send whose commit could not be forced to disk (withFullSync()):
\* the commit is undone; the message was taken or was not.
PowerLoss(r) ==
    LET l == runs[r].load IN
    /\ PowerLosses
    /\ runs[r].pc = "smtp" /\ Holds(r)
    /\ Dies
    /\ claims' = [claims EXCEPT ![l].stage = "rendered", ![l].sending = FALSE]
    /\ \/ Deliver(l)
       \/ outbox' = [outbox EXCEPT ![l] = @ - 1] /\ UNCHANGED <<copies, sent, delivered, handFiled>>
    /\ UNCHANGED <<sharedVars, givenUp, stop, presses, counts, first, billed, asked>>

-----------------------------------------------------------------------------
(* The driver's tap, around the write to the sheet. *)

\* Mutant: a tap on a claim that had stopped asks for no look.
TapUnlooked(t, l) ==
    /\ up /\ taps[t].pc = "idle"
    /\ \/ claims[l].state = "none" /\ WriteClaim(l, NewClaim("waiting", "DRIVER_PENDING"))
       \/ claims[l].state = "waiting" /\ WriteClaim(l, [claims[l] EXCEPT !.reason = "DRIVER_PENDING"])
    /\ taps' = [taps EXCEPT ![t] = [pc |-> "writing", load |-> l]]
    /\ asked' = asked \cup {l}
    /\ UNCHANGED <<sharedVars, stop, gmailVars, runs, presses, lineVars, up, first, restarts, billed>>

\* driverDelivered(): the record comes first. A claim that had stopped looks before it can send.
Tap(t, l) ==
    /\ up /\ taps[t].pc = "idle"
    /\ \/ claims[l].state = "none" /\ WriteClaim(l, NewClaim("waiting", "DRIVER_PENDING"))
       \/ claims[l].state = "waiting" /\ WriteClaim(l, [claims[l] EXCEPT !.reason = "DRIVER_PENDING", !.look = TRUE])
    /\ taps' = [taps EXCEPT ![t] = [pc |-> "writing", load |-> l]]
    /\ asked' = asked \cup {l}
    /\ UNCHANGED <<sharedVars, stop, gmailVars, runs, presses, lineVars, up, first, restarts, billed>>

\* queueTapped(): whatever code the record holds by now.
QueueTapped(l) ==
    IF claims[l].state = "waiting"
    THEN WriteClaim(l, [claims[l] EXCEPT !.state = "queued", !.reason = "OTHER"])
    ELSE UNCHANGED <<claims, givenUp>>

TapWritten(t) ==
    /\ taps[t].pc = "writing"
    /\ QueueTapped(taps[t].load)
    /\ taps' = [taps EXCEPT ![t] = IdleTap]
    /\ UNCHANGED <<sharedVars, stop, gmailVars, runs, presses, lineVars, up, first, restarts, billed, asked>>

TapFailed(t) ==
    /\ taps[t].pc = "writing"
    /\ taps' = [taps EXCEPT ![t].pc = "settling"]
    /\ UNCHANGED <<ledgerVars, gmailVars, runs, presses, lineVars, up, first, restarts, billed, asked>>

\* settleFailedWrite(): the row read back after a write that may have landed.
TapSettled(t, read) ==
    LET l == taps[t].load IN
    /\ taps[t].pc = "settling"
    /\ \/ read = "completed" /\ QueueTapped(l)
       \/ read = "other" /\ claims[l].state = "waiting" /\ WriteClaim(l, [claims[l] EXCEPT !.reason = "NOT_COMPLETED"])
       \/ /\ read = "unread" \/ (read = "other" /\ claims[l].state # "waiting")
          /\ UNCHANGED <<claims, givenUp>>
    /\ taps' = [taps EXCEPT ![t] = IdleTap]
    /\ UNCHANGED <<sharedVars, stop, gmailVars, runs, presses, lineVars, up, first, restarts, billed, asked>>

TapStep(t) ==
    TapWritten(t) \/ TapFailed(t) \/ \E read \in {"completed", "other", "unread"} : TapSettled(t, read)

-----------------------------------------------------------------------------
(* The line (runNext(), inRun(), closeRun()). *)

Held == {l \in Loads : claims[l].state = "working" /\ claims[l].expired}
Due  == {l \in Loads : claims[l].state = "queued"}

LineFree == up /\ line = NoRun

\* A claim to search for or record comes first. With the settings unreadable a person takes it.
LineHeld(r, l) ==
    /\ LineFree /\ l \in Held
    /\ \/ TakeOver(r, l) /\ line' = r
       \/ /\ WriteClaim(l, ToPerson(claims[l]))
          /\ stop' = (stop \/ SendInFlight(claims[l]))
          /\ UNCHANGED <<line, runs, sharedVars, gmailVars>>
    /\ UNCHANGED <<counts, presses, outside>>

\* The next one due; a third run, a pause, a cap or the settings send it to a person.
LineTakes(r, l) ==
    /\ LineFree /\ Held = {} /\ l \in Due
    /\ counts' = [counts EXCEPT ![l] = IF @ > RunsPerLine THEN @ ELSE @ + 1]
    /\ \/ counts'[l] <= RunsPerLine /\ Lease(r, l) /\ line' = r
       \/ /\ WriteClaim(l, [Unowned(claims[l]) EXCEPT !.state = "needs_attention", !.reason = "OTHER",
                                                      !.stage = KeptStage(claims[l])])
          /\ UNCHANGED <<line, runs, sharedVars, stop, gmailVars>>
    /\ UNCHANGED <<presses, outside>>

LineStops ==
    /\ LineFree /\ Held \cup Due = {}
    /\ \E l \in Loads : counts[l] > 0
    /\ counts' = [l \in Loads |-> 0]
    /\ UNCHANGED <<ledgerVars, gmailVars, runs, presses, line, outside>>

\* Mutant: the line goes on and leaves the claim with the run.
LeaveRun(r) == line' = NoRun /\ UNCHANGED <<claims, givenUp, stop>>

\* closeRun(): what the run still holds goes to a person.
CloseRun(r) ==
    /\ line' = NoRun
    /\ IF Holds(r)
       THEN WriteClaim(LoadOf(r), ToPerson(Mine(r))) /\ stop' = (stop \/ SendInFlight(Mine(r)))
       ELSE UNCHANGED <<claims, givenUp, stop>>

\* Past its limit the run's token is dead; the run itself goes on, holding nothing.
RunLimit(r) ==
    /\ line = r /\ runs[r].pc # "close"
    /\ CloseRun(r)
    /\ UNCHANGED <<sharedVars, gmailVars, runs, presses, counts, outside>>

\* Mutant: the run ends, its load kept.
RunOverKept(r) ==
    /\ runs[r].pc = "close"
    /\ runs' = [runs EXCEPT ![r].pc = "idle"]
    /\ IF line = r THEN CloseRun(r) ELSE UNCHANGED <<line, claims, givenUp, stop>>
    /\ UNCHANGED <<sharedVars, gmailVars, presses, counts, outside>>

RunOver(r) ==
    /\ runs[r].pc = "close"
    /\ runs' = [runs EXCEPT ![r] = IdleRun]
    /\ IF line = r THEN CloseRun(r) ELSE UNCHANGED <<line, claims, givenUp, stop>>
    /\ UNCHANGED <<sharedVars, gmailVars, presses, counts, outside>>

-----------------------------------------------------------------------------
\* The looks read the mailbox and the Payments Table as they are.
LooksFirst(r) ==
    \E clean \in BOOLEAN :
        /\ LookedFirst(r, clean)
        /\ clean => /\ LoadOf(r) \notin billed /\ delivered[LoadOf(r)] = 0
                    /\ Mine(r).num # 0 => copies[Mine(r).num] = 0

LooksInSent(r) == \E seen \in {"found", "absent", "unknown"} : LostSendLooked(r, seen)

\* Try again: refused on an off gap, or on an invoice the saved evidence shows. It asks for the look.
Retry(l) ==
    LET c == [claims[l] EXCEPT !.reason = "OTHER", !.attempts = 0, !.look = TRUE] IN
    /\ up
    /\ c.state = "needs_attention" /\ claims[l].reason # "OFF_GAP"
    /\ WriteClaim(l, IF c.stage \in StagesBeforeAppend THEN [c EXCEPT !.state = "queued"]
                     ELSE [c EXCEPT !.state = "working", !.owner = NoRun, !.expired = TRUE])
    /\ asked' = asked \cup {l}
    /\ UNCHANGED <<sharedVars, stop, gmailVars, runs, presses, lineVars, taps, up, first, restarts, billed>>

\* A person bills, from Gmail, a load the job has stopped on, or any with a claim while the box is
\* down.
PersonBills(l) ==
    /\ \/ ~up /\ ~first /\ claims[l].state # "none"
       \/ claims[l].state = "needs_attention"
       \/ claims[l].state = "waiting" /\ \A t \in Taps : taps[t].load # l
    /\ l \notin billed /\ Cardinality(billed) < MaxBills
    /\ billed' = billed \cup {l}
    /\ UNCHANGED <<ledgerVars, gmailVars, runs, presses, lineVars, taps, up, first, restarts, asked>>

Run(r) == (RunStep(r) \/ LooksFirst(r) \/ LooksInSent(r)) /\ UNCHANGED <<presses, lineVars, outside>>

LineStep == LineStops \/ \E r \in Runs, l \in Loads : LineHeld(r, l) \/ LineTakes(r, l)

Next ==
    \/ \E r \in Runs : Run(r) \/ RunLimit(r) \/ RunOver(r) \/ PowerLoss(r)
    \/ LineStep
    \/ StartTrigger \/ Crash
    \/ \E t \in Taps : TapStep(t) \/ \E l \in Loads : Tap(t, l)
    \/ \E l \in Loads : Retry(l) \/ PersonBills(l)
    \/ \E l \in Loads :
          (ClosedByHand(l) \/ ChangedAfterSend(l) \/ LateDelivery(l)) /\ UNCHANGED <<presses, lineVars, outside>>
    \/ SwitchNext /\ UNCHANGED <<runs, presses, lineVars, outside>>
    \/ PressNext /\ UNCHANGED <<runs, lineVars, outside>>

Spec == Init /\ [][Next]_vars

-----------------------------------------------------------------------------
Sends(l) == outbox'[l] > outbox[l]

\* Nothing is sent that no tap and no person asked for: the first start sends nothing of what the
\* sweep left, and a restart nothing but what was asked for before it.
SendOnlyAsked == [][\A l \in Loads : Sends(l) => l \in asked]_vars

\* A load a person billed while the job had stopped on it, or while the box was down, is never
\* sent over: whatever brings it back (a tap, a press, a restart) looks first, and the look
\* outlives a crash before the run that makes it.
NoSendOverBilled == [][\A l \in Loads : Sends(l) => l \notin billed]_vars

\* Nothing but a search that found it, or the server's refusal, takes a claim off an
\* unconfirmed send, across restarts and runs past their limit too.
OnlySearchConfirms == [][Confirmed]_vars

\* The job, the button and the switch keep InvoiceOnce's promise under the trigger too.
KeepsPromise == Once!Spec

\* The line's timer ends every run, the line takes the next while one is due, an append ends
\* with an answer or without, and a box that went down comes back.
Fairness ==
    /\ WF_vars(LineStep) /\ WF_vars(StartTrigger /\ ~up)
    /\ \A r \in Runs : WF_vars(Run(r)) /\ WF_vars(RunLimit(r)) /\ WF_vars(RunOver(r))

FairSpec == Spec /\ Fairness

\* No claim stays queued or working: nothing would come back to it ("every run ends with no claim
\* left queued or working").
NothingLeftBehind ==
    \A l \in Loads : claims[l].state \in {"queued", "working"} ~> claims[l].state \notin {"queued", "working"}
=============================================================================
