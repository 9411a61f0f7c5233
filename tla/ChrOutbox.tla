----------------------------- MODULE ChrOutbox ------------------------------
(***************************************************************************)
(* The C.H. Robinson outbox: the sweep that reads the status history above *)
(* its cursor and records each milestone once (lib/chr-sweep.js), the rows *)
(* and their conditional moves (lib/chr-store.js), the sender with one     *)
(* request at a time, and the page's switches, holds, retries and resume   *)
(* (lib/chr-routes.js).                                                    *)
(*                                                                         *)
(* A tick has two kinds of await: the sheet read and a request.  A step    *)
(* that leaves one does all the code does up to the next.  People, drivers *)
(* and the sheet move during either; the process may die in either.  Only  *)
(* milestones are modelled, with a transport that is ready.                *)
(***************************************************************************)
EXTENDS ChrReplay, FiniteSets

CONSTANTS
    Loads, NoLoad,
    RowStatuses, RowSources,    \* what the status history may be told
    SheetVerdicts,              \* what the sheet may say of a load
    Pages,                      \* the modes the page is put in
    ArrivalOn,                  \* the "arrived at pickup" switch
    Batch,                      \* history rows one tick reads (HISTORY_BATCH)
    BreakerFails,               \* retryable failures in a row that pause sending
    MaxHistory, MaxRestarts,    \* bounds on the history and on restarts,
    MaxEdits                    \* and on what people and the sheet change

Modes == {"off", "dry_run", "pilot", "live"}
Verdicts == {"chr", "skip", "other"}

ASSUME OutboxAssumption ==
    /\ NoLoad \notin Loads
    /\ RowStatuses \subseteq Statuses /\ RowSources \subseteq Sources
    /\ SheetVerdicts \subseteq Verdicts /\ "chr" \in SheetVerdicts
    /\ Pages \subseteq Modes /\ ArrivalOn \in BOOLEAN
    /\ Batch \in Nat \ {0} /\ BreakerFails \in Nat \ {0}
    /\ MaxHistory \in Nat /\ MaxRestarts \in Nat /\ MaxEdits \in Nat

VARIABLES
    history,                            \* load_status_history
    out, chrLoads,                      \* chr_events by history row, chr_loads
    cursor, baseline, lastMode, paused, streak,    \* server_state chr.state
    settings,                           \* app_settings chr.settings: the page's mode, its pilot and whether that one has its end
    config,                             \* the server switches of this boot
    sheet, stops,                       \* the sheet's verdicts; loads whose instructions list more stops
    pc, tick,                           \* the process: the await it is in, and what the tick knows
    hand, passedOver, denied,           \* history: see below
    restarts, edits

\* No code reads these three: how often a person put a row back, the loads a recording left out as
\* another broker's, and whether CHR refused the credentials since the last Resume.
historyVars == <<hand, passedOver, denied>>
stateVars   == <<cursor, baseline, lastMode, paused, streak>>
worldVars   == <<history, sheet, stops, config>>
boundVars   == <<restarts, edits>>
vars == <<worldVars, out, chrLoads, stateVars, settings, pc, tick, historyVars, boundVars>>

Ids == 1..MaxHistory
RowStates == {"none", "pending", "sending", "sent", "failed", "gave_up", "outcome_unknown", "dry_run",
              "held", "skipped_off", "skipped_not_chr", "skipped_backwards"}
Row == [status : RowStates, mode : {"dry_run", "live"}, ready : BOOLEAN, loadHold : BOOLEAN,
        acted : BOOLEAN, reverted : BOOLEAN]
Settings == [page : Modes, pilot : Loads \cup {NoLoad}, until : BOOLEAN]
NoRow  == [status |-> "none", mode |-> "dry_run", ready |-> FALSE, loadHold |-> FALSE, acted |-> FALSE, reverted |-> FALSE]
NoTick == [mode |-> "off", upto |-> 0, seen |-> [l \in Loads |-> "chr"], todo |-> {}, row |-> 0]

\* Every row, the cursor, the baseline, the tick and the switches hold only values of their kinds.
TypeOK ==
    /\ history \in Seq([load : Loads, status : Statuses, source : Sources]) /\ Len(history) <= MaxHistory
    /\ out \in [Ids -> Row]
    /\ \A h \in Ids : out[h].status # "none" => h <= Len(history)
    /\ chrLoads \in [Loads -> [known : BOOLEAN, hold : BOOLEAN, multi : BOOLEAN]]
    /\ cursor \in 0..Len(history) /\ baseline \in 0..cursor
    /\ lastMode \in Modes /\ paused \in {"", "AUTH_FAILED", "CHR_UNAVAILABLE"}
    /\ streak \in Nat
    /\ settings \in Settings
    /\ config \in [send : BOOLEAN, all : BOOLEAN]
    /\ sheet \in [Loads -> Verdicts] /\ stops \in SUBSET Loads
    /\ pc \in {"down", "booted", "idle", "sheet", "request"}
    /\ tick \in [mode : Modes, upto : 0..Len(history), seen : [Loads -> Verdicts], todo : SUBSET Ids, row : 0..MaxHistory]
    /\ hand \in [Ids -> Nat] /\ passedOver \in SUBSET Loads /\ denied \in BOOLEAN
    /\ restarts \in Nat /\ edits \in Nat

Init ==
    /\ history = <<>> /\ sheet = [l \in Loads |-> "chr"] /\ stops = {}
    /\ config \in [send : BOOLEAN, all : BOOLEAN]
    /\ out = [h \in Ids |-> NoRow]
    /\ chrLoads = [l \in Loads |-> [known |-> FALSE, hold |-> FALSE, multi |-> FALSE]]
    /\ cursor = 0 /\ baseline = 0 /\ lastMode = "off" /\ paused = "" /\ streak = 0
    /\ settings = [page |-> "dry_run", pilot |-> NoLoad, until |-> FALSE]
    /\ pc = "booted" /\ tick = NoTick
    /\ hand = [h \in Ids |-> 0] /\ passedOver = {} /\ denied = FALSE
    /\ restarts = 0 /\ edits = 0

-----------------------------------------------------------------------------
(* effectiveMode(): the kind's, as the page shows it, and one load's. *)

EffectiveMode(s) ==
    CASE s.page = "live"  -> IF config.send /\ config.all THEN "live" ELSE "dry_run"
      [] s.page = "pilot" -> IF config.send /\ s.pilot # NoLoad THEN "pilot" ELSE "dry_run"
      [] OTHER -> s.page

LoadMode(s, l) ==
    IF EffectiveMode(s) = "live" \/ (EffectiveMode(s) = "pilot" /\ s.pilot = l) THEN "live" ELSE "dry_run"

On(mode) == mode # "off"

LoadOf(h) == history[h].load

\* The event a recorded row is of: what the history made of it when it came.
EventOf(h) == EntryOf(SubSeq(history, 1, h), LoadOf(h), h)

\* Every row of the outbox moved by F(h, row).
EachRow(o, F(_, _)) == [h \in Ids |-> IF o[h].status = "none" THEN o[h] ELSE F(h, o[h])]

-----------------------------------------------------------------------------
(* The tick up to its sheet read. *)

\* pilotCheck(): the pilot's end is set by the first tick with sending on; it ends when its
\* delivered update is sent, or 72 hours after that tick.
PilotOn == settings.page = "pilot" /\ settings.pilot # NoLoad

PilotEnds(timedOut) ==
    /\ PilotOn
    /\ \/ \E h \in Ids : /\ out[h].status = "sent" /\ out[h].mode = "live"
                         /\ LoadOf(h) = settings.pilot /\ EventOf(h).event = "delivered"
       \/ timedOut /\ (settings.until \/ config.send)

PilotChecked(timedOut) ==
    IF PilotEnds(timedOut) THEN [page |-> "dry_run", pilot |-> NoLoad, until |-> FALSE]
    ELSE IF PilotOn /\ config.send THEN [settings EXCEPT !.until = TRUE]
    ELSE settings

\* skipPending(): a stop of recording skips what was waiting.
SkippedPending(h, r) == IF r.status = "pending" THEN [r EXCEPT !.status = "skipped_off"] ELSE r

\* Mutant: the baseline leaves what was waiting.
KeptUp(starts, s, late, h, r) ==
    IF r.status = "sending" /\ h \in late THEN [r EXCEPT !.status = "outcome_unknown"]
    ELSE IF r.status = "pending" /\ r.mode = "live" /\ LoadMode(s, LoadOf(h)) # "live" THEN [r EXCEPT !.status = "skipped_off"]
    ELSE IF r.status = "pending" /\ r.mode = "live" /\ ~r.acted /\ h \in late THEN [r EXCEPT !.status = "gave_up"]
    ELSE r

\* Mutants: a row cut off mid-request is tried again; it is left as it is; no row grows too old.
KeptRetried(starts, s, late, h, r) ==
    CASE r.status = "sending" /\ h \in late -> [r EXCEPT !.status = "pending"]
      [] OTHER -> KeptUp(starts, s, late, h, r)

KeptSending(starts, s, late, h, r) == IF r.status = "sending" THEN r ELSE KeptUp(starts, s, late, h, r)

\* baseline(), dropNotLive(), recoverStuck() and giveUpOld(), in that order, on one row. late:
\* the rows whose claim is ten minutes old, or whose event is 24 hours old.
Kept(starts, s, late, h, r) ==
    IF r.status = "sending" /\ h \in late THEN [r EXCEPT !.status = "outcome_unknown"]
    ELSE IF r.status = "pending" /\ starts THEN [r EXCEPT !.status = "skipped_off"]
    ELSE IF r.status = "pending" /\ r.mode = "live" /\ LoadMode(s, LoadOf(h)) # "live" THEN [r EXCEPT !.status = "skipped_off"]
    ELSE IF r.status = "pending" /\ r.mode = "live" /\ ~r.acted /\ h \in late THEN [r EXCEPT !.status = "gave_up"]
    ELSE r

\* A tick with recording off: what waited is skipped when it just went off, and nothing else is done.
TickOff(timedOut) ==
    LET s == PilotChecked(timedOut) IN
    /\ pc \in {"booted", "idle"}
    /\ timedOut => settings.page = "pilot"
    /\ EffectiveMode(s) = "off"
    /\ settings' = s /\ lastMode' = "off" /\ pc' = "idle"
    /\ out' = IF On(lastMode) THEN EachRow(out, SkippedPending) ELSE out
    /\ UNCHANGED <<worldVars, chrLoads, cursor, baseline, paused, streak, tick, historyVars, boundVars>>

\* A tick with recording on: the mode's change or a heartbeat gap (only after a restart) baselines,
\* rows that may no longer go live are dropped, housekeeping runs, and the sheet read begins when
\* there is something to record, decide or send.  A 15-minute pause may be over.
TickOn(timedOut, gap, late, pauseOver) ==
    LET s      == PilotChecked(timedOut)
        starts == ~On(lastMode) \/ gap
        from   == IF starts THEN Len(history) ELSE cursor
        upto   == IF Len(history) - from > Batch THEN from + Batch ELSE Len(history)
    IN
    /\ pc \in {"booted", "idle"}
    /\ timedOut => settings.page = "pilot"
    /\ gap => pc = "booted"
    /\ pauseOver => paused = "CHR_UNAVAILABLE"
    /\ On(EffectiveMode(s))
    /\ settings' = s /\ lastMode' = EffectiveMode(s)
    /\ out' = EachRow(out, LAMBDA h, r : Kept(starts, s, late, h, r))
    /\ cursor' = from /\ baseline' = IF starts THEN from ELSE baseline
    /\ IF pauseOver THEN paused' = "" /\ streak' = 0 ELSE UNCHANGED <<paused, streak>>
    /\ \/ /\ upto > from \/ \E h \in Ids : out'[h].status = "pending"
          /\ pc' = "sheet"
          /\ tick' = [NoTick EXCEPT !.mode = EffectiveMode(s), !.upto = IF upto > from THEN upto ELSE 0]
       \/ /\ upto = from
          /\ pc' = "idle" /\ UNCHANGED tick
    /\ UNCHANGED <<worldVars, chrLoads, historyVars, boundVars>>

-----------------------------------------------------------------------------
(* After the sheet read. *)

SheetFails ==
    /\ pc = "sheet"
    /\ pc' = "idle" /\ tick' = NoTick
    /\ UNCHANGED <<worldVars, out, chrLoads, stateVars, settings, historyVars, boundVars>>

\* The page's mode changed while the sheet was read: the tick ends.
ModeMoved ==
    /\ pc = "sheet" /\ EffectiveMode(settings) # tick.mode
    /\ pc' = "idle" /\ tick' = NoTick
    /\ UNCHANGED <<worldVars, out, chrLoads, stateVars, settings, historyVars, boundVars>>

\* The loads of the batch, and those of them a recording sweeps.
BatchLoads(upto) == {LoadOf(h) : h \in (cursor + 1)..upto}
SweptLoads(upto, seen) == {l \in BatchLoads(upto) : seen[l] # "other"}

\* A live event's first row.
NewRow(h, seen) ==
    [NoRow EXCEPT !.mode = LoadMode(settings, LoadOf(h)),
                  !.status = IF seen[LoadOf(h)] = "skip" THEN "skipped_not_chr"
                             ELSE IF EventOf(h).jump THEN "held" ELSE "pending"]

\* Mutant: a revert does not reach the rows that wait.
VoidedDone(r) ==
    IF r.status \in {"sending", "sent", "failed", "gave_up", "outcome_unknown", "dry_run"} THEN [r EXCEPT !.reverted = TRUE] ELSE r

\* A recorded row whose key is no longer live.
Voided(r) ==
    CASE r.status \in {"pending", "held"} -> [r EXCEPT !.status = "skipped_backwards"]
      [] r.status \in {"sending", "sent", "failed", "gave_up", "outcome_unknown", "dry_run"} -> [r EXCEPT !.reverted = TRUE]
      [] OTHER -> r

\* record() and applyRecording(): the swept loads' live events above the baseline that are not
\* there yet, and what became of those that are no longer live.
Recorded(upto, seen) ==
    LET swept == {h \in 1..Len(history) : LoadOf(h) \in SweptLoads(upto, seen)}
        live  == UNION {Live(history, l) : l \in SweptLoads(upto, seen)}
    IN  [h \in Ids |->
            IF h \notin swept THEN out[h]
            ELSE IF out[h].status = "none" THEN IF h > baseline /\ h \in live THEN NewRow(h, seen) ELSE NoRow
            ELSE IF h \in live THEN out[h]
            ELSE Voided(out[h])]

RecordedLoads(upto, seen) ==
    [l \in Loads |->
        IF l \in SweptLoads(upto, seen) /\ seen[l] = "chr"
        THEN [chrLoads[l] EXCEPT !.known = TRUE, !.multi = MultiStop(history, l) \/ l \in stops]
        ELSE chrLoads[l]]

\* Mutant: the cursor goes to the newest row, past what the batch read.
NewestCursor(upto) == IF upto > 0 THEN Len(history) ELSE cursor

NextCursor(upto) == IF upto > 0 THEN upto ELSE cursor

\* sendTimeCheck(): why a row may not be decided or sent now ("" for none).
Refusal(h, seen, loads) ==
    LET l == LoadOf(h) IN
    IF seen[l] # "chr" THEN "skipped_not_chr"
    ELSE IF loads[l].hold THEN "load_hold"
    ELSE IF loads[l].multi \/ l \in stops \/ ~Sendable(EventOf(h)) THEN "held"
    ELSE IF EventOf(h).event = "arrived_pickup" /\ ~ArrivalOn THEN "skipped_off"
    ELSE ""

\* finishRow() with a refusal.
Refused(r, why) ==
    [r EXCEPT !.status = IF why = "load_hold" THEN "held" ELSE why, !.loadHold = (why = "load_hold"), !.ready = FALSE]

\* decide(): of the rows that are due, those near their stop go on (a Live row waits for the
\* sender with its payload, a Dry-run row ends), the others are held.
Decided(o, seen, loads, due, near) ==
    [h \in Ids |->
        IF h \notin due THEN o[h]
        ELSE LET why == Refusal(h, seen, loads) IN
             CASE why # "" -> Refused(o[h], why)
               [] why = "" /\ h \notin near -> Refused(o[h], "held")
               [] why = "" /\ h \in near /\ o[h].mode = "live" -> [o[h] EXCEPT !.ready = TRUE]
               [] OTHER -> [o[h] EXCEPT !.status = "dry_run"]]

\* Mutant: the mode is not read again before a request.
WhySheetOnly(h, seen, loads) == Refusal(h, seen, loads)

\* The sender's checks of one row, right before its request.
WhyNotSent(h, seen, loads) ==
    IF LoadMode(settings, LoadOf(h)) # "live" THEN "skipped_off" ELSE Refusal(h, seen, loads)

\* sendDue(), up to its next request: the rows that fail their checks end on the way, those no
\* longer pending are passed, and a pause ends it.
SendNext(o, seen, loads, todo) ==
    \/ /\ paused' # ""
       /\ out' = o /\ pc' = "idle" /\ tick' = NoTick
    \/ /\ paused' = ""
       /\ \E passed \in SUBSET todo :
             LET Why(h) == WhyNotSent(h, seen, loads)
                 o2 == [h \in Ids |-> IF h \in passed /\ o[h].status = "pending" THEN Refused(o[h], Why(h)) ELSE o[h]] IN
             /\ \A h \in passed : o[h].status # "pending" \/ Why(h) # ""
             /\ \/ /\ passed = todo
                   /\ out' = o2 /\ pc' = "idle" /\ tick' = NoTick
                \/ \E h \in todo \ passed :
                      /\ o[h].status = "pending" /\ Why(h) = ""
                      /\ out' = [o2 EXCEPT ![h].status = "sending"]
                      /\ pc' = "request"
                      /\ tick' = [tick EXCEPT !.seen = seen, !.todo = todo \ (passed \cup {h}), !.row = h]

\* The sheet arrives: what is new is recorded with the cursor in one transaction, due rows are
\* decided, and the sender goes as far as its first request.
SheetRead(due, near, todo) ==
    LET upto  == tick.upto
        loads == RecordedLoads(upto, sheet)
        rec   == Recorded(upto, sheet)
        o     == Decided(rec, sheet, loads, due, near)
    IN
    /\ pc = "sheet" /\ EffectiveMode(settings) = tick.mode
    /\ due \subseteq {h \in Ids : rec[h].status = "pending" /\ ~rec[h].ready}
    /\ near \subseteq due
    /\ todo \subseteq {h \in Ids : config.send /\ o[h].status = "pending" /\ o[h].mode = "live" /\ o[h].ready}
    /\ cursor' = NextCursor(upto)
    /\ chrLoads' = loads
    /\ passedOver' = passedOver \cup {l \in BatchLoads(upto) : sheet[l] = "other"}
    /\ UNCHANGED paused
    /\ SendNext(o, sheet, loads, todo)
    /\ UNCHANGED <<worldVars, baseline, lastMode, streak, settings, hand, denied, boundVars>>

\* A request's answer: taken (SENT, DUPLICATE), to be tried again, credentials refused, or
\* refused for good; then the sender goes on.
Answer(code) ==
    LET broken == code = "RETRYABLE" /\ streak + 1 >= BreakerFails
        status == CASE code = "SENT" -> "sent" [] code = "REFUSED" -> "failed" [] OTHER -> "pending"
    IN
    /\ pc = "request"
    /\ paused' = IF code = "AUTH_FAILED" THEN code ELSE IF broken THEN "CHR_UNAVAILABLE" ELSE paused
    /\ streak' = CASE code = "NOT_CONFIGURED" -> streak
                   [] code = "RETRYABLE" /\ ~broken -> streak + 1
                   [] OTHER -> 0
    /\ denied' = (denied \/ code = "AUTH_FAILED")
    /\ SendNext([out EXCEPT ![tick.row].status = status], tick.seen, chrLoads, tick.todo)
    /\ UNCHANGED <<worldVars, chrLoads, cursor, baseline, lastMode, settings, hand, passedOver, boundVars>>

Codes == {"SENT", "RETRYABLE", "NOT_CONFIGURED", "AUTH_FAILED", "REFUSED"}

\* The process dies, a request perhaps under way; and is started again with its switches.
Crash ==
    /\ pc # "down" /\ restarts < MaxRestarts
    /\ restarts' = restarts + 1
    /\ pc' = "down" /\ tick' = NoTick
    /\ UNCHANGED <<worldVars, out, chrLoads, stateVars, settings, historyVars, edits>>

Boot ==
    /\ pc = "down"
    /\ pc' = "booted"
    /\ config' \in [send : BOOLEAN, all : BOOLEAN]
    /\ UNCHANGED <<history, sheet, stops, out, chrLoads, stateVars, settings, tick, historyVars, boundVars>>

-----------------------------------------------------------------------------
(* Drivers, the sheet, and people at the page. *)

\* recordStatusChange().
AddStatus(l, status, source) ==
    /\ pc # "down" /\ Len(history) < MaxHistory
    /\ history' = Append(history, [load |-> l, status |-> status, source |-> source])
    /\ UNCHANGED <<sheet, stops, config, out, chrLoads, stateVars, settings, pc, tick, historyVars, boundVars>>

Edited == edits < MaxEdits /\ edits' = edits + 1 /\ UNCHANGED restarts

SheetChanges(l, verdict) ==
    /\ Edited /\ sheet[l] # verdict
    /\ sheet' = [sheet EXCEPT ![l] = verdict]
    /\ UNCHANGED <<history, stops, config, out, chrLoads, stateVars, settings, pc, tick, historyVars>>

\* The load's driver instructions are read to list several stops, or no longer do.
StopsChange(l) ==
    /\ Edited
    /\ stops' = IF l \in stops THEN stops \ {l} ELSE stops \cup {l}
    /\ UNCHANGED <<history, sheet, config, out, chrLoads, stateVars, settings, pc, tick, historyVars>>

\* PUT settings: Live needs the send switches, and the pilot is set only while sending is off.
SetPage(mode, pilot) ==
    /\ pc # "down" /\ Edited
    /\ settings.page # mode \/ settings.pilot # pilot
    /\ mode = "live" => config.send /\ config.all
    /\ mode = "pilot" => ~config.send /\ pilot # NoLoad /\ chrLoads[pilot].known
    /\ mode # "pilot" => pilot = NoLoad
    /\ settings' = [page |-> mode, pilot |-> pilot, until |-> settings.until /\ settings.pilot = pilot]
    /\ UNCHANGED <<worldVars, out, chrLoads, stateVars, pc, tick, historyVars>>

\* Stop everything: the page's mode off, whatever it was.
Stop ==
    /\ pc # "down" /\ Edited
    /\ settings.page # "off"
    /\ settings' = [settings EXCEPT !.page = "off"]
    /\ UNCHANGED <<worldVars, out, chrLoads, stateVars, pc, tick, historyVars>>

Hold(l) ==
    /\ pc # "down" /\ Edited
    /\ chrLoads[l].known /\ ~chrLoads[l].hold
    /\ chrLoads' = [chrLoads EXCEPT ![l].hold = TRUE]
    /\ UNCHANGED <<worldVars, out, stateVars, settings, pc, tick, historyVars>>

\* setHold() and releaseHeld() in one transaction.
Release(l) ==
    LET back == {h \in Ids : out[h].status = "held" /\ out[h].loadHold /\ LoadOf(h) = l} IN
    /\ pc # "down" /\ Edited
    /\ chrLoads[l].hold
    /\ chrLoads' = [chrLoads EXCEPT ![l].hold = FALSE]
    /\ out' = [h \in Ids |-> IF h \in back THEN [out[h] EXCEPT !.status = "pending", !.loadHold = FALSE] ELSE out[h]]
    /\ hand' = [h \in Ids |-> IF h \in back THEN hand[h] + 1 ELSE hand[h]]
    /\ UNCHANGED <<worldVars, stateVars, settings, pc, tick, passedOver, denied>>

\* retryRow(), an unknown outcome or an old row confirmed by the person.
Retry(h) ==
    /\ pc # "down" /\ Edited
    /\ out[h].mode = "live" /\ out[h].status \in {"failed", "gave_up", "outcome_unknown"}
    /\ out' = [out EXCEPT ![h].status = "pending", ![h].acted = TRUE]
    /\ hand' = [hand EXCEPT ![h] = @ + 1]
    /\ UNCHANGED <<worldVars, chrLoads, stateVars, settings, pc, tick, passedOver, denied>>

\* Resume: what waited over two hours is given up, unless the person confirms it still goes.
Resume(late) ==
    /\ pc # "down" /\ Edited
    /\ paused # ""
    /\ paused' = "" /\ streak' = 0 /\ denied' = FALSE
    /\ out' = [h \in Ids |-> IF h \in late /\ out[h].status = "pending" /\ out[h].mode = "live"
                             THEN [out[h] EXCEPT !.status = "gave_up"] ELSE out[h]]
    /\ UNCHANGED <<worldVars, chrLoads, cursor, baseline, lastMode, settings, pc, tick, hand, passedOver>>

-----------------------------------------------------------------------------
\* The rows whose time matters to a tick, and those that may be up for a decision.
Waiting == {h \in Ids : out[h].status \in {"pending", "sending"}}
Undecided == {h \in 1..Len(history) : out[h].status \in {"none", "pending"}}

Tick ==
    \/ \E timedOut \in BOOLEAN : TickOff(timedOut)
    \/ \E timedOut, gap, pauseOver \in BOOLEAN, late \in SUBSET Waiting : TickOn(timedOut, gap, late, pauseOver)
    \/ SheetFails \/ ModeMoved
    \/ \E due \in SUBSET Undecided : \E near \in SUBSET due :
          \E todo \in SUBSET (near \cup Waiting) : SheetRead(due, near, todo)
    \/ \E code \in Codes : Answer(code)

People ==
    \/ \E mode \in Pages, pilot \in Loads \cup {NoLoad} : SetPage(mode, pilot)
    \/ Stop
    \/ \E l \in Loads : Hold(l) \/ Release(l) \/ StopsChange(l)
    \/ \E h \in Ids : Retry(h)
    \/ \E late \in SUBSET Waiting : Resume(late)

World ==
    \/ \E l \in Loads, status \in RowStatuses, source \in RowSources : AddStatus(l, status, source)
    \/ \E l \in Loads, verdict \in SheetVerdicts : SheetChanges(l, verdict)
    \/ Crash \/ Boot

Next == Tick \/ People \/ World

Spec == Init /\ [][Next]_vars
=============================================================================
