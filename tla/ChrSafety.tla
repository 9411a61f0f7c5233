----------------------------- MODULE ChrSafety ------------------------------
(* What the outbox must keep, and the promise it refines. *)
EXTENDS ChrOutbox

\* A request for row h begins in this step.
Claims(h) == pc' = "request" /\ tick'.row = h /\ out[h].status # "sending"

\* Row h's status still stands, as far as the sweep has read (a row that came during a sheet read
\* is recorded by the replay before the cursor reaches it).
Stands(h) == h \in Live(SubSeq(history, 1, IF h > cursor THEN h ELSE cursor), LoadOf(h))

Skipped == {"none", "skipped_off", "skipped_not_chr", "skipped_backwards"}

-----------------------------------------------------------------------------
\* A status that went back takes its update with it: of what was recorded since the last baseline,
\* a row whose status no longer stands, as far as the sweep has read, is skipped if nothing was
\* sent yet and flagged if something may have been. Loads the sheet gave to another broker when
\* they were swept are not looked at (chr-sweep.js record(), chr-store.js applyRecording()).
RevertsReachAll ==
    \A h \in Ids :
        out[h].status \notin Skipped /\ ~out[h].reverted /\ h > baseline /\ LoadOf(h) \notin passedOver
            => Stands(h)

\* No milestone is missed: whatever still stands of the swept history above the baseline has its
\* row, however the rows were cut into batches and whatever came during the sheet read.
NothingMissed ==
    \A l \in Loads \ passedOver : \A h \in Live(history, l) :
        baseline < h /\ h <= cursor => out[h].status # "none"

\* A start of recording, a gap or a rise to Live sends nothing old: a request is for a row
\* recorded while its load was live, above the last baseline unless a person put it back.
NothingOld ==
    [][\A h \in Ids : Claims(h) => out'[h].mode = "live" /\ (h > baseline \/ hand[h] > 0)]_vars

\* Off, a hold, more stops, a pause or a load no longer live stops the sending at once: no request begins
\* after it, not even of the rows the tick has already listed; nor after CHR refused the
\* credentials, until a person resumes.
StopsAtOnce ==
    [][\A h \in Ids : Claims(h) =>
          /\ LoadMode(settings, LoadOf(h)) = "live"
          /\ ~chrLoads'[LoadOf(h)].hold /\ ~chrLoads'[LoadOf(h)].multi /\ LoadOf(h) \notin stops
          /\ paused = "" /\ ~denied]_vars

\* What has become of row h, as ChrOnce tells it.
Fate(h) ==
    LET status == out[h].status IN
    CASE status = "none" -> "none"
      [] status = "pending" -> "open"
      [] status = "sending" -> IF pc = "request" /\ tick.row = h THEN "asked" ELSE "unsure"
      [] status = "outcome_unknown" -> "unsure"
      [] status = "sent" -> "told"
      [] status = "failed" -> "refused"
      [] OTHER -> "closed"

Once == INSTANCE ChrOnce WITH Updates <- Ids, fate <- [h \in Ids |-> Fate(h)]

\* The outbox implements ChrOnce: nothing taken, closed, refused or cut off is asked for again by
\* itself, over restarts, pauses and late rows.
KeepsOnce == Once!Spec

\* Why the three above hold: a row that waits came after the last baseline or from a person; a
\* request's row is "sending" and is not listed again; the rows listed behind it are live; nothing
\* is asked for in a pause; and refused credentials pause until a person resumes.
OutboxInv ==
    /\ TypeOK
    /\ pc = "sheet" => tick.upto = 0 \/ tick.upto >= cursor
    /\ pc = "request" =>
        /\ paused = ""
        /\ tick.row \in Ids \ tick.todo /\ out[tick.row].status = "sending"
        /\ tick.row > baseline \/ hand[tick.row] > 0
        /\ \A h \in tick.todo : out[h].mode = "live"
    /\ \A h \in Ids : out[h].status = "pending" => h > baseline \/ hand[h] > 0
    /\ denied => paused = "AUTH_FAILED"

-----------------------------------------------------------------------------
\* Said of the code, and not so (see the README):
\* "every live key (the sweep voids recorded rows whose key is no longer live)" (chr-events.js).
SendsOnlyLive ==
    [][\A h \in Ids : Claims(h) /\ ~out[h].acted => Stands(h)]_vars

-----------------------------------------------------------------------------
(* Progress: the process goes on and is started again when it died; a tick comes after a row's   *)
(* time is up (its ten minutes, its 24 hours, its wait), and a sheet read comes at which it is    *)
(* due, though other ticks come too early and other reads fail.                                  *)

TickDue(h) ==
    \E timedOut, gap, pauseOver \in BOOLEAN, late \in SUBSET Waiting :
        h \in late /\ TickOn(timedOut, gap, late, pauseOver) /\ (out'[h].status = "pending" => pc' = "sheet")

ReadDue(h) ==
    \E due \in SUBSET Undecided : \E near \in SUBSET due : \E todo \in SUBSET (near \cup Waiting) :
        SheetRead(due, near, todo) /\ (out'[h].status = "pending" => out'[h].ready)

FairSpec ==
    /\ Spec
    /\ WF_vars(Boot) /\ WF_vars(Tick)
    /\ \A h \in Ids : SF_vars(TickDue(h)) /\ SF_vars(ReadDue(h))

Recording == On(EffectiveMode(settings))

\* While recording goes on, dead servers, pauses and a sheet that fails notwithstanding: a row cut
\* off mid-request does not stay "sending" (recoverStuck()); and a row that waits, and that no
\* person put back, is sent or ends otherwise within its 24 hours (expireOld()).
NothingLingers ==
    <>[]Recording =>
        \A h \in Ids :
            /\ []<>(out[h].status # "sending")
            /\ []((out[h].status = "pending" /\ hand[h] = 0) => <>(out[h].status # "pending"))
=============================================================================
