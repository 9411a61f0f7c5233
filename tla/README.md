# Invoices, milestones and receipts, modelled and proved

LogisX is one Node server with a SQLite file beside it. Three of its parts do
things that cannot be taken back, each over awaits, restarts and people acting
at the same time:

* a load's **invoice** is emailed or drafted, by the automatic invoice job, by
  the Draft Invoice button, or by neither because the factoring switch gave the
  load to the factor (`Invoice*`, `DraftInvoice`, `Timer*`, `Trigger*`);
* a load's **milestones** are told to C.H. Robinson, from a status history that
  drivers step forward and dispatchers step back (`Chr*`);
* **receipts** are filed, approved by people and by an hourly pass, and frozen
  with their month when it closes (`Receipt*`).

The three share no state but the process, so each has its own modules, runs and
theorems. SQLite calls are synchronous: one statement, one transaction, and all
code between two awaits, is atomic against the rest of the process. At each
await anything else may happen. That is where the difficulty is: what was read
before an await may be stale after it, the process may die inside it, and the
other side may do what was asked and never say so.

## 1. Inventory

### Components and their state

| Part | Source | State it keeps | Operations |
|---|---|---|---|
| Claims ledger | `lib/auto-invoice-ledger.js` | one row per load: state, stage, reason, lease, number, delivery, searches, attempts, `look_first`; the send stop; meta rows | insert, guarded transition, lease, take-over, `reserveNumber()`, `beginSend()`, stop/clear |
| Job: one run | `lib/auto-invoice-job.js` `attempt()`, `recoverOne()` and below | nothing but its await | snapshot → prepare → (look) → number → render → send or append → record; searches after a lost answer |
| Job: timer | same, `tick()`, `sweepOn()`, `work()`, `recover()` | `last_on_tick_at`, off gap | every five minutes: recover, sweep, work |
| Job: driver's trigger (the default) | same, `startTrigger()` … `checkClaims()`; rules in `lib/auto-invoice-trigger.js` | the line, its run counts | tap, line, run limit, start-up, watch |
| Send rules | `lib/auto-invoice-send.js` | none | gate, settle window, SMTP outcome classes, button refusal |
| Button | route in `server.js` (`/api/loads/:loadId/draft-invoice`), `lib/factoring-routes.js` `draftHandoff()` | in-flight rows | early checks, number, render, late checks + row, IMAP, n8n, record, Check Gmail |
| Factoring switch | `lib/factoring-store.js` | the marker | mark, clear, handled outside |
| Sequence | `server.js` `nextInvoiceNumber()` | `bison_invoice_seq` | mint |
| Engine | `lib/broker-invoice-draft.js` | `load_invoice_drafts` | prepare, render, record |
| Mailbox | `lib/imap-draft.js`, `lib/invoice-mailbox-search.js`, SMTP | Gmail's Drafts and Sent Mail | append, search, send |
| Resume script | `scripts/auto-invoice-send-resume.js` | none | clears the stop unless a send is unconfirmed |

| CHR replay | `lib/chr-events.js` | none | a load's history to its live events, its phase, its jumps |
| CHR recorder | `lib/chr-sweep.js` `tick()`, `record()`; `lib/chr-store.js` | `chr_events`, `chr_loads`, the cursor, baseline and last mode in `server_state` | baseline, sheet read, record and void, decide |
| CHR sender | `lib/chr-sweep.js` `sendDue()`, `lib/chr-transport.js` | pauses, the failure streak | checks, one request at a time, breaker |
| CHR page | `lib/chr-routes.js` | `app_settings` | modes, pilot, stop, hold, release, retry, resume |
| Receipts | `POST /api/expenses`, the status routes in `server.js`; `lib/receipt-duplicates.js`, `lib/receipt-status-recorder.js` | `expenses`, `audit_trail` | file with the duplicate warning, insert with a booking month, set a status |
| Month close | `finalizePeriods()`, its sweep and routes in `server.js` | `period_locks`, the frozen figures | close, freeze, reopen |
| Approval pass | `lib/receipt-auto-approve-pass.js`, `lib/receipt-auto-approve.js` | `receipt_auto_reviews` | judge, read, record, approve |
| Undo | `scripts/receipt-auto-approve-undo.js` | none | plan, then one write at a time |

The invoice actors interact through SQLite tables and the mailbox, and two
processes may overlap at a deploy. The outbox reads the status history and the
sheet, and is driven by one tick in one process. The pass and the close share a
process, the undo is one of its own.

The rest of the repository (listed in `PROJECT.json`) is the pure
invoice-status decision; the payouts' money formulas; renders; drivers'
availability, telematics and arrivals; accounts; dispatch pages; the replica
switch; the Vue client. Those are single reads and writes, arithmetic, or I/O.

### What makes each part correct

* Ledger: one run works on a claim; a number printed on anything is never
  called unused; a claim never forgets a message that may have gone.
* Run: one email per load, one message per number, a record only of what is in
  Gmail, an unanswered send only ever searched for.
* Timer: a claim whose message may have gone reaches a person or a record.
* Trigger: nothing is sent that nobody asked for, no load billed meanwhile is
  sent over, no claim is left for a timer that does not exist.
* Button: a hand draft and an automatic email exclude one another unless the
  person confirmed a re-issue; no hand draft is unknown to the checks.
* Switch: no factored load is emailed, no emailed load is marked.
* Replay: what a step back voids stays void; a correction takes back what came
  after it; a delivery is last.
* Recorder: every standing milestone has its row, none from before recording
  began goes out, and what went back is not told.
* Sender: one request at a time, none twice by itself, none after a stop.
* Close: the frozen figure is the receipts of the month, then and from then on.
* Pass and undo: neither overrides a person, and no copy slips through.

## 2. Modules

```
InvoiceOnce        the promise: at most one email, never factored, never beside a hand draft
   ^ refined by
InvoiceLedger      tables, mailbox, the helpers on claims, switch, stop and resume
   ^ EXTENDS           ^ EXTENDS
InvoiceRun         DraftInvoice
      ^      ^  EXTENDS
      InvoiceSafety         properties shared by both ways to start a run; the invariant
       ^            ^
TimerInvoices   TriggerInvoices          the two systems: sweep + timer, taps + line
       ^            ^
  MCTimer       MCTrigger                small instances (MC*.cfg)
InvoiceProofs <- MailProofs     lemmas on what both systems share (EXTENDS InvoiceSafety)
                   ^      ^
        TimerProofs      TriggerProofs      (each EXTENDS its system too)

ChrReplay            a load's history to its events
   ^         ^
ChrHistory   ChrOutbox          the history as it grows; recorder, sender, page
   ^            ^
MCChrHistory  ChrSafety         its properties; refines ChrOnce
                ^
              MCChr
ReplayProofs         lemmas on the replay of any history (EXTENDS ChrReplay)
   ^         ^
HistoryProofs  ChrProofs        (EXTENDS ChrHistory; ChrSafety)

ReceiptBooks <- ReceiptPass     receipts and months; the pass and its undo
                   ^       ^
            MCReceipts   ReceiptProofs
```

### Invoices

**InvoiceLedger.** `claims[l]` is the row of `auto_invoice_claims` (state
`"none"` for no row). Only the reason codes some rule reads again are told
apart. `attempts` and `checks` are the counters the code bounds. `rows` is
`load_invoice_drafts`, a job's row being the claim's own exactly when it has the
claim's number (`ownDraftRow()`). `inflight` are the button's rows, `marker` the
factoring marker, `stop` the send stop, `seq` the sequence, `givenUp` the
numbers the audit log says were never used. The mailbox is external: `copies`
counts the messages with a number in Drafts or Sent Mail, `sent` what Sent Mail
holds, `outbox` what SMTP was handed and has neither delivered nor refused,
`delivered` what reached a broker, `handFiled` what presses put in Gmail (the
last two are history no code reads). `Release`, `Backoff`, `ToPerson`,
`Requeue`, `SkipDraftedByHand` and `KeptStage` are the code's functions of the
same purpose.

**InvoiceRun.** A run has a `pc`, the await it is in; the step that leaves an
await does everything the code does up to the next one, so `Rendered` holds all
last checks and the hand-off, and `BeginSend` the whole transaction plus the
start of SMTP with nothing in between. `Holds(r)` is the owner guard of
`transition()`: a run that lost its claim writes nothing (`LostRun`), though an
append or an SMTP call it started still happens. The header lists the awaits.

**DraftInvoice.** A press's `pc` is its await. `Press` is the early checks;
`PressPrepared` consumes a number; `PressRendered` is the late checks and the
in-flight row in one transaction; `PressFiled`, `PressUnanswered`,
`PressRefusedByGmail`, `PressN8nFailed` are what the hand-off may answer;
`PressDies` is the process dying under it; `ResolveInflight` is Check Gmail.

**TimerInvoices.** `SweepNew`, `SweepOpen`, `ClosedByHand`, `ChangedAfterSend`
are the sweep claim by claim; `Work` and `TakeOver` the tick's two other parts;
`LeaseEnds`, `Crash`, `Retry`. The order recover-sweep-work inside a tick is not
kept, so that two overlapping processes are covered; `Runs` are then the
processes' worker ids.

**TriggerInvoices.** `Tap`, `TapWritten`, `TapFailed`, `TapSettled` are a
driver's Delivered around its sheet write; `LineHeld`, `LineTakes`, `LineStops`
are `runNext()`; `RunLimit`, `RunOver` are `inRun()` with `closeRun()`;
`StartTrigger` is the start-up transaction over `StartUpPlan`
(`startUpAction()`), which may also run while an older process finishes its
run; `Crash`, `PowerLoss`. `Runs` are run tokens. `billed` and `asked` are
history: who billed the load from Gmail, who asked for its invoice.

**InvoiceOnce** says in six actions what a load's invoice may go through;
`InvoiceSafety!Once` maps the detailed state to it (two emails would be the
outcome `"twice"`, which no abstract step reaches).

### Milestones

**ChrReplay** is `replayLoad()` as operators over a stack of entries: `Forward`,
`Jump`, `Rewound`, `Reverted` and `Step` are the code's `forward()`,
`jumpTo()`, `revert()` and `step()`; an entry keeps the history row that made
it, which is the outbox's key.

**ChrHistory** lets a history grow by any row and says what the replay must
keep for the outbox to rest on it.

**ChrOutbox.** `out[h]` is the `chr_events` row made by history row `h`;
`pc` is the await the tick is in: `sheet` (the sheet read) or `request`.
`TickOn` is all a tick does up to the sheet read: the pilot's end, the baseline
of a mode change or a gap, dropped rows, stuck rows, old rows, the pause.
`SheetRead` is all after it up to the first request: recording with the cursor
in one transaction, deciding, and the sender's checks (`SendNext`). `Answer` is
a request's answer and the checks up to the next one. People act during either.
`hand`, `passedOver` and `denied` are history.

**ChrOnce** is the promise: one request at a time, and what was told, closed,
refused or cut off is asked for again only when a person puts it back.
`ChrSafety!Once` maps a row's status to its fate.

### Receipts

**ReceiptBooks.** A row of `expenses` is its status, who set it (`by`, the
recorder's stamp), its paper (what the duplicate check compares, with the month
of its date), and the month it is booked to (`posted`: `EXPENSE_PERIOD_EXPR`
resolved). `File` is `POST /api/expenses` up to its awaits (with the duplicate
warning), `Insert` the rest; `SetStatus` the two status routes; `CloseBegins`
takes `closingFingerprint()`, `CloseEnds` is the freeze's transaction,
`CloseFails` what throws before it. `frozen[m]` is the set of receipts in the
figure a close stamped. `closes` has one entry for the sweep and one for the
route, which may both be under way.

**ReceiptPass.** `PassBegins` reads the facts and judges what needs no read;
`toRead` then goes one by one, each read an await: `ReadEnds` when nothing is
approved, `Approve` when the verdict is. `Restart` may fall between a verdict's
record and its application. `UndoPlanned` and `UndoWrites` are the script, step
by step beside the server. `clicked` is history.

## 3. Assumptions and abstractions

### Invoices

* Whether a claim may be taken over while a live run is *filing a draft* is the
  constant `Overlaps`. With the timer it may not: `LEASE_MS` is 15 minutes,
  while engine calls and an IMAP session, all with timeouts, are 9 at most. With
  the trigger it may: `startTrigger()` ends every lease, also that of a process
  that outlives the restart, and Try again that of a claim whose run passed its
  limit, and the line takes the claim at once; so every run of the trigger sets
  it. Only where the old process is gone before the new one starts (pm2 kills it
  after `kill_timeout`, 5 seconds) and no run is at its append when it passes
  its limit is it off there too. A *send* has no such constant: its run may be
  anywhere when another takes the claim.
* An append whose answer is lost was filed or was not by the time its own run
  searches Gmail. An unanswered SMTP message may be delivered arbitrarily late
  (`LateDelivery`).
* "Check Gmail" answers what the mailbox holds, by search or by the person who
  looks. Searches the code treats as doubtful may say "unknown" at any time.
* `PersonBills`: a person bills from Gmail only a load the job has stopped on
  (needs attention, or waiting with no tap in progress), or while the server is
  down. A person billing under a running claim is what the button is for.
* On a power loss the message is taken or gone at once, and only the last
  commit (the send's) is lost. Under power loss the types, at most one email,
  none unasked for and none over a person's bill are claimed and proved; no
  other safety property is.
* A process that outlives a restart finishes only the run it is in.
* A look in Gmail is clean only with no sent message of the load and none under
  the claim's number, in Drafts or Sent Mail; a press's draft it may miss.
* Times are choices: `next_attempt_at`, pauses, caps, settings, the sheet and
  Gemini may say anything at any time; the settle window may hold a send or
  not; a reservation may be over a day old. The sequence is one day's.
* The rate-con re-check counter is folded into "waits, or goes to a person";
  settings, wording, addresses, PDFs and digests are left out. The number on a
  draft is the minted one: the number a person types is not modelled.
* No invoice can print the factor's assignment lines yet and no Triumph claim
  has a writer, so a factored load is always refused by the button, and nothing
  is held at Triumph.
* The button's IMAP path (with n8n as fallback) is modelled; a server with n8n
  and no mailbox is not. People deleting or sending drafts in Gmail, the
  `send-drafted` script, the shadow mode and the first sweep after the trigger
  ran are not modelled. `closeRun()`'s branch for a claim queued in the future
  is not either: with the trigger every queueing is for now.

### Milestones

* One process runs the tick. The transport is ready; `DUPLICATE` is as `SENT`.
* Times are choices: `late` rows (ten minutes in a claim, 24 hours old, two
  hours before a Resume), `due` rows, and a row `near` its stop or not (the
  geofence check). A heartbeat gap is found only by the first tick of a process.
* The per-minute and per-tick limits are the free choice of `todo`. A recording
  or a decision that fails leaves its rows as they were: a failed sheet read, or
  an empty `due`.
* The sheet's verdict of a load is C.H. Robinson's, another broker's, or one
  whose updates are skipped. A boot with updates off is a process that is down,
  then a gap.
* Left out: the position updates, payloads and their redaction, withheld load
  numbers, rows without a time, pruning, the database refresh, the connection
  test.
* While the page is Off a row cut off mid-request stays "sending": no tick
  looks. Hence the premise of `NothingLingers`.

### Receipts

* The close is switched on (`PERIOD_FINALIZE_ENABLED`), the lock table can be
  read, and each month has a payout row, so that the sweep finds it.
* A close has one await that matters: everything after the fingerprint is
  synchronous but the read of the sheet and of its cached tabs. Its figures are
  computed before or after it (`early`).
* The running month does not change; `due` is a month past its grace days.
* The writes of one status request land together: the row, the review's mark
  and the audit row have no await between them.
* The rules on fills, places, trucks and what a photo reads are choices: any
  candidate that is not a copy may be held, wait, have to be read or be passed
  over. So are the read caps, the deadline and the missing key (a deferred read).
* A slip is what the duplicate check compares; copies it would miss are
  different slips.
* The script's refusals go by the clock and by its own environment; it may run
  at any time, over any part of what is untouched.
* Left out: shadow mode, Personal lines, edits of a receipt's other fields, the
  `futureReceipts` rule, an unreadable lock table, the deletion of a user.

## 4. Runs

| Run | Instance | Checks |
|---|---|---|
| `timer` | 1 load, 2 runs, 1 press, 2 numbers, 1 crash, 1 overrun | one email, one side, true records, nothing forgotten, `OnlySearchConfirms`, the refinement `KeepsPromise`, and `SendInv` |
| `timer_settles` | as `timer`, with the fallback webhook and no overrun, fair | `MessagesSettle`; none factored and no record without its message, with the webhook |
| `trigger` | 1 load, 2 tokens, 1 tap, 1 number, 1 restart, 2 runs a line, take-overs under an append | safety under the line, `RecordedIsInGmail`, `SendOnlyAsked`, `NoSendOverBilled`, `KeepsPromise`, the chip |
| `trigger_button` | 1 load, 2 tokens, 1 tap, 1 press, 2 numbers, no restart, take-overs under an append | the button against the line: who wins, factored, tracked |
| `trigger_ends` | 1 load, 2 tokens, 1 restart that may be a power loss, fair | `NothingLeftBehind`; `AtMostOneSend` and `NoSendOverBilled` although a commit was lost |
| `chr_history` | 1 load, 4 rows of 7 statuses and 3 sources | the replay's three properties |
| `chr` | 2 loads, 2 rows, batches of 1, live and pilot, 3 sheet verdicts, 1 restart, 2 edits | the outbox's safety and the refinement of `ChrOnce` |
| `chr_settles` | 1 load, 1 row, 1 restart, 3 edits, fair | `NothingLingers` |
| `receipts` | 1 month over, 1 slip, 2 clients, 2 receipts, 2 edits, 1 restart | the books, the pass and the undo together |
| `n8n_sides`, `trigger_overlap`, `chr_gap` | expected violations | see section 6 |

What the properties say:

* `AtMostOneSend`: one email per load however answers are lost.
* `FactoredNeverSent`: no load with an email out carries the marker.
* `OneSideWins`: beside an email, every press's draft was a confirmed re-issue.
* `RecordsTrue`: `GivenUpStaysOut` (a number the audit log calls unused is on no
  message), `FiledOnce` (one message per number) and `RecordedIsInGmail` (rows,
  and stages past the append, speak the truth). Under the trigger only the last
  holds without an assumption on take-overs.
* `NothingForgotten`: `HandDraftsTracked` (each press's draft has a row or an
  in-flight row), `StopCoversMaybeSent` (a load a person must check holds the
  stop) and `SendsAreTracked` (an email out has a claim somebody comes back to).
* `MaybeSentIsUnfound`: the chip "may already be sent" only on an unconfirmed send.
* `OnlySearchConfirms`: only a search that found it, or the server's refusal,
  takes a claim off a send.
* `SendOnlyAsked`: no send without a tap or a Try again.
* `NoSendOverBilled`: no send over a load billed while the job had stopped.
* `KeepsPromise`: every step is a step of `InvoiceOnce`, or none.
* `MessagesSettle`, `NothingLeftBehind`, `NothingLingers`: progress; see below.
* `VoidedForGood`, `OverrideTakesBack`, `DeliveredLast`: what a step back, a
  dispatcher's correction and a delivery mean to the outbox. A delivery taken
  back and done again is told again, as the code means it.
* `RevertsReachAll`: a recorded row whose status no longer stands is skipped or
  flagged. `NothingMissed`: a standing milestone above the baseline has its row.
* `NothingOld`: no request for the backlog or a Dry-run row.
* `StopsAtOnce`: Off, a hold, more stops, a pause and refused credentials stop
  the next request, in the middle of a tick too.
* `KeepsOnce`: the outbox refines `ChrOnce`. `OutboxInv`: why.
* `FrozenIsCounted`: a closed month's figure is its receipts.
* `OneCopyStands`: two copies both stand approved by the pass only if one was
  logged over the warning.
* `ApprovesOnlyFree`, `UndoLeavesPeople`: the pass and the undo against people,
  closes and each other.

**Why the bounds are enough.** A duplicate needs a first send, a loss and one
second attempt by another run: two runs and one crash or overrun. The claims of
different loads meet only in the sequence, the stop and the process; each of
those is exercised by the load and the press, and the proofs are for any number
of loads. Two numbers allow a voided number and its successor, or the
job's and a press's; `trigger`, without a press, has one, and leaves the
replaced number to `trigger_button`, where in turn nobody bills from Gmail
(`MaxBills` 0: a bill only narrows what the look may answer). `RetryLimit`,
`WaitLimit` and `SearchLimit` are 0 to 2 instead of the code's constants so that
both sides of each limit occur;
`timer_settles` leaves the overrun to `timer` and to the run limits of
`trigger_ends`: with it and a press the instance is too large for liveness.
`SendLoads` of one load on the list and one off gives both deliveries. The
proofs then drop the bounds for the properties they cover.
`CHECK_DEADLOCK FALSE` because the program may be done: all claims drafted,
the bounds used up. Symmetry is over `Runs` and `Clients`, whose elements no constant tells
apart, and only in runs without liveness. For the milestones, a hazard needs a
row, a step back or a second row behind it in the batch, and one change by a
person, the sheet or a restart; two rows over two loads and two edits have them
all, and longer histories are in `chr_history`, where four rows reach a second
drop, a delivery and a correction after it. For the receipts, two of one slip
are the least that can be copies; one month over and the running one are where
a receipt may be booked; two edits are a close by the route and a status set
during it, or a status and its reversal. `MaxReadWaits` is 1 instead of 6.

**Fairness.** *Timer*: a run's awaits end (each call has a timeout); leases
expire by the clock; the tick recurs and takes a queued claim or recovers an
expired one again and again (strong, as another claim may be in its way); and
not every snapshot taken finds the sheet unreadable (strong, on
`AfterSnapshot`; with the sheet down for ever nothing could settle). Crashes
and overruns are bounded by constants, so they do not repeat for ever.
*Trigger*: the line's timer ends a run, the line goes on while one is due, and
a server that went down is started again (pm2). Taps, people, presses, the
switch, searches that find and deliveries have no fairness.
*Milestones*: the process is started again and its tick goes on (weak); among
the ticks of ever, one comes after a given row's time is up, and one sheet read
succeeds at which the row is due (strong: other ticks come too early and other
reads fail). Nothing is fair about people or answers. The receipts have no
liveness property: the pass promises no approval, and a close may be retried
for as long as its month is edited, which the code reports to a person.

## 5. What is proved

### Invoices

For every value of the constants of `TimerInvoices` and `TriggerInvoices`:

| Theorem | Statement | Timer | Trigger |
|---|---|---|---|
| `Typed` | `Spec => []TypeOK` | proved | proved |
| `SendsInStep` | `Spec => []SendInv` | proved | no power losses |
| `OneEmail` | `Spec => []AtMostOneSend` | proved | proved |
| `NoFactoredEmail` | `Spec => []FactoredNeverSent` | proved | no power losses |
| `OnlyAsked` | `Spec => SendOnlyAsked` | (trigger only) | proved |
| `NeverOverBilled` | `Spec => NoSendOverBilled` | (trigger only) | proved |
| `RecordsAreThere` | `Spec => []RecordedIsInGmail` | proved | no power losses |
| `SendsRemembered` | `Spec => [](StopCoversMaybeSent /\ SendsAreTracked)` | proved | no power losses |
| `SearchConfirms` | `Spec => OnlySearchConfirms` | proved | no power losses |
| `ChipTrue` | `Spec => []MaybeSentIsUnfound` | (trigger only) | no power losses |
| `OneSide` | `Spec => []OneSideWins` | no n8n | no n8n, no power losses |
| `TrueRecords` | `Spec => []RecordsTrue` | no n8n, no overlaps | no n8n, no power losses, no overlaps |
| `Remembered` | `Spec => []NothingForgotten` | no n8n | no n8n, no power losses |
| `Promise` | `Spec => KeepsPromise` | no n8n | no n8n, no power losses |

from `LedgerAssumption`, `RunAssumption`, `DraftAssumption` and
`TimerAssumption` or `TriggerAssumption` (bounds are naturals, the flags Boolean, `NoRun` and
`NoLoad` are nobody's, `Runs` is finite, the trigger is off or on). Three further
hypotheses stand in the theorems. `~N8n`: the fallback webhook is not set up;
with it a press may hand its draft over twice, so `OneSideWins` is false (run
`n8n_sides`), a second message may carry the number, and a draft may lose its
row. What does not speak of a press's draft needs no such hypothesis: the four
theorems before `OneSide` hold with the webhook too. `~PowerLosses`: a
restart keeps the last commit. Without it a claim may forget its send, so what
a claim or a record says of a send needs the hypothesis. `Typed`, `OneEmail`,
`OnlyAsked` and `NeverOverBilled` do not: they rest on the look in Gmail that
the restart orders. Run `trigger_ends` checks two of them with such a loss.
`~Overlaps`: no claim changes hands under an append. The timer's lease gives it;
the trigger does not, and with overlaps `FiledOnce` is false (run
`trigger_overlap`), so `TrueRecords` says of the trigger only what holds where
restarts and run limits do not overlap an append; no run shows it on an
instance, since the trigger's runs all have overlaps. No other theorem needs it.

*One email.* For the timer the invariant is
`TypeOK /\ SendInv /\ FactoredNeverSent`.
`AtMostOneSend` alone is not inductive: `BeginSend` from a claim that had
forgotten its send would break it. `SendInv` adds

* `ClaimsKnowSends`: a load with an email out has a claim that says so, and a
  claim past its first stage has a number;
* `RunsMatchClaims`: a run that holds a claim is where the stage says, so none
  that may build or file a message works on a claim whose send began;
* `OneAtSmtp`: a run awaiting SMTP is the only one for its load, and its
  message is in transit, so its refusal takes back exactly that message.

`BeginSend` then finds stage `rendered`, hence no email out, hence adds the
first. `Mark` asks `ClaimSent`, so no emailed load is marked. `InvoiceProofs`
has the lemmas on what the code makes of a claim (`ReleaseSafe` and its
neighbours: no write forgets a send) and one lemma per action that it keeps the
invariant; these mention neither the timer nor the trigger, and both proofs use
them. The trigger adds `LineInv`: the line waits only for a run that is at
work, nothing is at work while the server is down, and a tap at work has a load.

*One email, when the power goes.* `SendInv` is false after a power loss: the
message went and the claim, back at its last commit, does not say so. The
trigger's proof therefore cuts it into `CoreInv`, which survives (`outbox` and
`delivered` hold one message at most, one on its way has a claim that says so,
and `RunsMatchClaims` and `OneAtSmtp` stand), and `DeliveredKnown`, which does
not. `Forgotten` are the loads whose claim forgot a delivered message. What
stands in for `DeliveredKnown` is that these loads look before they send, so the
inductive invariant is `AInv`: `TypeOK`, `CoreInv` and `LineInv` with `AskedInv`
and `BilledInv` below. `LookedSendsOnce` draws the consequence: a run about to
send without a look has a load that nothing was delivered for. On a box that
keeps its commits `KInv` adds `DeliveredKnown`, hence `SendInv`, and
`FactoredNeverSent`.

*Asked for, and not billed.* `AskedInv`: whatever may still run was asked for,
and before the first start with the trigger no claim waits for a driver and none
has a stage, which is what `StartUpPlan` rests on when it keeps the old queue
from the line. `BilledInv`: a load somebody billed while the job had stopped, or
whose claim forgot its send (together `Wary`), is queued, tapped or built again
only with `look` set, so the run comes by the search before it can send. Each
step's lemma gives both, from `Kept`, what a run's step may leave of its claim.

*The mail.* `MailInv` says what Gmail and the records know of one another:

* `BooksTrue`: what a claim's stage says of its number is so in the mailbox;
  no number is used before it is taken from the sequence, and none is another's;
  a press that files has its own in-flight row, the only one under its number,
  and no email before it unless it re-issues; what was recorded is in the
  mailbox; a number in Sent Mail that a claim carries is of a load whose email
  was delivered (`SentKnown`); and without the webhook `OneHandOff`: what was
  given up is in no mailbox, with `FiledOnce`, `HandDraftsTracked` and
  `OneSideWins`;
* `RunsTrue`: a run that holds its claim is at an await its stage fits;
* `FilesAlone`: a run awaiting the append files the claim's number, which is in
  no mailbox yet, and no other run holds the claim or appends.

`FiledOnce` needs the last two: a search that finds nothing may let the next
attempt append the same number, so no earlier append may still be on its way.
With `Overlaps` one may, and its message lands under any number a claim once
had. So `Absent`, that a number is on no message, `FilesAlone`, `FiledOnce` and
the part on what was given up are asked without overlaps only. What the other
theorems need of the mailbox says that something *is* there, which a late
landing cannot undo.
`MailProofs` keeps it action by action; each lemma also gives `SendsKept`, from
which `OnlySearchConfirms` follows, and the step of `InvoiceOnce`, from which
`Promise` does: the start of SMTP is `Commit`, its delivery `Send`, the server's
refusal `Withdraw`, a press's filing `HandDraft`, the switch `Factor` and
`Unfactor`, and all else a stutter. The trigger adds `WaitInv`, that what waits for a
driver has nothing in Gmail (a restart queues it, and would otherwise build over
it), and proves `MaybeSentIsUnfound` with it.

`SendInv` is also an invariant of the run `timer`.

### Milestones

`ChrProofs`, from `OutboxAssumption`, for every value of the constants of
`ChrOutbox`, and `HistoryProofs`, from `HistoryAssumption`:

| Theorem | Module | Statement |
|---|---|---|
| `OutboxInvariant` | `ChrProofs` | `Spec => []OutboxInv` |
| `Typed` | `ChrProofs` | `Spec => []TypeOK` |
| `NothingOldSent` | `ChrProofs` | `Spec => NothingOld` |
| `StopsHold` | `ChrProofs` | `Spec => StopsAtOnce` |
| `ImplementsOnce` | `ChrProofs` | `Spec => KeepsOnce` |
| `RevertsReach` | `ChrProofs` | `Spec => []RevertsReachAll` |
| `NoneMissed` | `ChrProofs` | `Spec => []NothingMissed` |
| `VoidedStays` | `HistoryProofs` | `Spec => VoidedForGood` |
| `OverridesTakeBack` | `HistoryProofs` | `Spec => OverrideTakesBack` |
| `DeliveredEndsTrip` | `HistoryProofs` | `Spec => []DeliveredLast` |

`OutboxInv` is inductive. `NothingOld` needs to know, when a request begins,
that its row was recorded live and above the baseline; but a row waits, is
listed and is claimed in different steps, with the baseline moving in between.
So the invariant says of every waiting row that it is above the baseline or a
person's, of the rows listed behind a request that they are live and not its
own row, and of a request that its row is "sending" and nothing is paused.
`StopsAtOnce` adds that refused credentials have paused the sending. Each
action has one lemma (`Keeps`) that gives the invariant, the claim's condition
and the abstract step together.

*The replay.* `Replay` is a recursive function, and induction is over a set of
numbers: one that holds 0 and the successor of each of its members is all of
them (`Induct`, from `WFMin` and `NatLessThanWellFounded`; no operator
parameter is needed). `ReplayMore` says what one row makes of a replay, and
`StepIs` is the fact all else rests on: a row cuts the stack somewhere and
pushes at most one phase, named by that row, and never on a delivery but to
start a new trip. Hence `ReplayOnStack`, the shape of every stack a history
builds; `LiveFalls`, that a row live now was live at each earlier point from its
own on; and `ReplayStill`, that a load's replay stands still where it has no
rows. The history's three theorems are these, one row at a time;
`OverridesTakeBack` also needs how far a step back cuts (`RewoundIs`).

*The sweep over it.* `RevertsReachAll` and `NothingMissed` are inductive beside
`OutboxInv`. All but three steps only go on from the rows there are (`Onward`:
nothing that was skipped or flagged stands again, nothing that is there goes).
A start of recording puts the baseline above every row. A new history row makes
nothing live below it. The recording judges rows by the *whole* history,
with what came during the sheet read, and moves the cursor only to its batch's
end: `LiveFalls` takes what it saw live back to the cursor, `ReplayStill` carries
the loads it did not look at over the batch, in which they have no row.

### Receipts

`ReceiptProofs`, from `BooksAssumption` and `PassAssumption`:

| Theorem | Statement |
|---|---|
| `Typed` | `Spec => []TypeOK` |
| `ClosedIsFinal` | `Spec => []FrozenIsCounted` |
| `ApprovesFree` | `Spec => ApprovesOnlyFree` |
| `UndoSparesPeople` | `Spec => UndoLeavesPeople` |
| `NoCopySlips` | `Spec => []OneCopyStands` |

`IInv` is `TypeOK /\ StampsTell /\ FrozenIsCounted`. The figure's part is
inductive once each write of a row is seen to be booked to an open month
(`FiguresKept`, `BookedOpen`), and a figure that did not move to be the one
that counts (`FigureStands`). `StampsTell` is what the two action properties
need: what the pass approved is set and never unset, so `apply()`'s look at the
stamp finds it; and of what the undo has planned, the receipts that still carry
the pass's stamp are a person's only when the click left none.

`NoCopySlips` adds `CopyInv`. What stands approved by the pass was approved at
different times from facts read at the start of different passes, so the
invariant speaks of what is in hand: approved by the pass or still to be read by
it. Two of one slip are both in hand only if one of them was logged over the
warning; what is in hand was filed; and a receipt filed over the warning stays
one. A pass that begins takes no copy of what stands, nor two of one slip
(`BeginCopies`), and no other action puts anything in hand.

### Only model-checked

* Liveness and `ENABLED`, which the provers do not do (under power losses:
  `NothingLeftBehind` in run `trigger_ends`).

No module with a theorem uses a `RECURSIVE` operator: the replay is a recursive
function. Where the arms of a choice can overlap the modules use `IF`, or make
the arms disjoint: TLC takes the first arm of a `CASE` that holds, a proof must
hold for any of them.

## 6. Where the code and its words disagree

* **`n8n_sides`**. After an unanswered IMAP append the in-flight row is
  `maybe_drafted` while the n8n POST runs, so Check Gmail may delete it; the
  job then sends, and the POST still makes the draft, against "so one side
  wins" (`lib/auto-invoice-ledger.js:381-383`).

* **`trigger_overlap`**. `startTrigger()` ends the lease of a run of a process
  that outlives the restart (`lib/auto-invoice-job.js:1713`), Try again that of
  a claim whose run passed its limit (`:2113`), and `runNext()` takes the claim
  at once (`:1857-1860`). If the older run is still in its append,
  `recoverOne()` finds nothing, queues the claim under the same number, and the
  next run files or sends it beside the older message, against "before anything
  is appended again, so a late landing is recorded, never doubled"
  (`:118-119`). A *send* is safe: the older run's token is dead, and its commit
  refused, and of emails there is still one (`OneEmail`).

* **`chr_gap`**. `baseline()` (`lib/chr-store.js:272`) skips pending rows only
  and moves the cursor past the gap's rows, which are then never swept. A row
  held before a restart, whose status went back during the gap, is released and
  sent, against "the sweep voids recorded rows whose key is no longer live"
  (`lib/chr-events.js:229-230`).

Met while modelling, and kept without a run:

* `recover()`'s catch (`lib/auto-invoice-job.js:1429`) labels a claim past its
  append `MAYBE_SENT` when its delivery is `send`, also when its send was found
  and only the record's rebuild threw; the page then says "it wasn't found in
  Gmail Sent Mail" (`client/src/lib/autoInvoiceStatus.js:55`). Under the trigger
  `MaybeSentIsUnfound` holds.
* On a load of several drops an override back to At Receiver goes on to the
  next drop instead of "back to the latest phase of the row's class"
  (`lib/chr-events.js:194-198`): `revert()` stops at the first phase no later
  than the class.
* `sendDue()` reads the mode before each request, and tests each row against the
  sheet read at the start of the tick (`lib/chr-sweep.js:456-458` says of both
  that they are "read again right before each request").
* With the status recorder off, a person's click between the undo's plan and
  its write leaves no stamp, and is undone (`scripts/receipt-auto-approve-undo.js:3-5`:
  "nobody has touched since"). The usual order of things, undo first and the
  recorder off afterwards, avoids it. `clicked` is this exception in
  `UndoLeavesPeople`.

## 7. Plan

1. *(done)* Invoices: ledger, run, button, timer, trigger, the refinement and
   the timer's theorems. Milestones: replay, outbox, refinement, theorems.
   Receipts: books, pass, undo, theorems.
2. *(done)* The trigger's theorems, the rest of the timer's, and the receipts'
   `OneCopyStands`.
3. *(done)* The replay over histories of any length, and the sweep over it.
4. *(done)* What of the mail's invariant is left with the webhook.
5. **Remaining parts**: the way back from the trigger to the timer, the
   number a person types, the `send-drafted` script, Personal lines.

## 8. Not modelled

Most of the repository by lines is the Vue client, page routes, report and
payout arithmetic, migration scripts and tests; `server.js` alone has 76,681
lines, nearly all of them such handlers. They are single reads and writes over
the sheet or a table, with nothing to interleave or lose that the parts above do
not already have, or formulas whose reference definition would be the code
again. `PROJECT.json` gives the reason part by part. The models here cover the
parts with a protocol: state kept over awaits, restarts and people, and effects
nobody can take back.
