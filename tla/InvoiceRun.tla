------------------------------ MODULE InvoiceRun ------------------------------
(***************************************************************************)
(* One run of the automatic invoice job over one claim                     *)
(* (lib/auto-invoice-job.js: attempt(), recoverOne() and what they call).  *)
(* A run's pc is the await it is in; the step that leaves the await does   *)
(* everything up to the next one, so whatever another run, a press or a    *)
(* person did meanwhile is seen only where the code looks again.           *)
(*                                                                         *)
(*   snapshot        Job Tracking is read                                  *)
(*   searchDraft     a message with no answer is searched for, to be made  *)
(*   prepare         the engine reads the load, its PODs and rate con      *)
(*   lookFirst       the look a person's Try again asked for               *)
(*   render          the PDF and the email are made under the number       *)
(*   append          the message is being filed in Drafts                  *)
(*   searchAppended  the append had no answer                              *)
(*   smtp            the message is being sent                             *)
(*   searchAnswer    the send had no answer                                *)
(*   searchSent      Sent Mail is searched for an earlier send             *)
(*   searchLeft      recovery of a claim left at its append                *)
(*   searchLost      recovery of a claim with a Message-ID and no commit   *)
(*   rebuild         the record of a message already filed is rebuilt      *)
(*   record, finish  the draft row is written, then the claim drafted      *)
(*   close           a trigger's run is over, its claim not yet closed     *)
(***************************************************************************)
EXTENDS InvoiceLedger

CONSTANT Overlaps   \* a claim may be taken over while a live run is still filing its draft
ASSUME RunAssumption == Overlaps \in BOOLEAN

VARIABLE runs       \* by run: where it is, its load, whether recover() started it, and the
                    \* number of the message it is filing in Drafts

PCs == {"idle", "snapshot", "searchDraft", "prepare", "lookFirst", "render", "append", "searchAppended",
        "smtp", "searchAnswer", "searchSent", "searchLeft", "searchLost", "rebuild", "record", "finish", "close"}

IdleRun == [pc |-> "idle", load |-> NoLoad, recovering |-> FALSE, num |-> 0]

RunTypeOK ==
    /\ runs \in [Runs -> [pc : PCs, load : Loads \cup {NoLoad}, recovering : BOOLEAN, num : Numbers \cup {0}]]
    /\ \A r \in Runs : (runs[r].load = NoLoad <=> runs[r].pc = "idle")
                    /\ (runs[r].pc = "append" => runs[r].num # 0)

RunInit == runs = [r \in Runs |-> IdleRun]

LoadOf(r) == runs[r].load
Mine(r)   == claims[LoadOf(r)]

\* Every write of a run names the owner: it changes the claim only while the run holds it.
Holds(r) == Mine(r).state = "working" /\ Mine(r).owner = r

At(r, pcs) == runs[r].pc \in pcs /\ Holds(r)

Go(r, pc) == runs' = [runs EXCEPT ![r] = [@ EXCEPT !.pc = pc, !.num = IF pc = "append" THEN Mine(r).num ELSE 0]]
Ends(r)   == runs' = [runs EXCEPT ![r] = IF TriggerMode THEN [@ EXCEPT !.pc = "close", !.num = 0] ELSE IdleRun]

\* The run's last write to its claim.
EndsWith(r, c) == WriteClaim(LoadOf(r), c) /\ Ends(r)

\* The claim is written and the run goes on.
Writes(r, c, pc) == WriteClaim(LoadOf(r), c) /\ Go(r, pc)

sharedVars == <<rows, inflight, marker, seq>>

\* A temporary failure: back to the queue; a trigger's run has no timer to come back to,
\* so a person takes it, and a send that started stops sending.
TemporaryEnd(r, c, counted) ==
    IF TriggerMode
    THEN EndsWith(r, ToPerson(c)) /\ stop' = (stop \/ SendInFlight(c))
    ELSE EndsWith(r, Backoff(c, counted)) /\ UNCHANGED stop

\* A run that lost its claim finds every write refused.
LostRun(r) ==
    /\ runs[r].pc \notin {"idle", "close", "append", "smtp"}
    /\ ~Holds(r)
    /\ Ends(r)
    /\ UNCHANGED <<ledgerVars, gmailVars>>

-----------------------------------------------------------------------------
(* attempt(): the claim read again after the snapshot. *)

\* rules.freeVerdict() on facts read in this step. The sheet may say anything; the marker and
\* the draft rows are the database's, and a load not on the sheet or not completed waits first.
FreeVerdicts(l) ==
    {<<"waiting", "NOT_COMPLETED">>} \cup
    (IF Factored(l) \/ \E d \in rows : d.load = l
     THEN {<<"skipped", "OTHER">>}
     ELSE {<<"skipped", "OTHER">>, <<"needs_attention", "OTHER">>, <<"waiting", "OTHER">>, <<"queued", "OTHER">>})

SheetDown(r) ==
    /\ At(r, {"snapshot"})
    /\ TemporaryEnd(r, Mine(r), FALSE)
    /\ UNCHANGED <<sharedVars, gmailVars>>

\* Settings unreadable, or Gemini down: nothing is spent, no attempt is used.
NotNow(r) ==
    /\ At(r, {"snapshot"})
    /\ Mine(r).stage \notin {"appended", "recorded"} /\ ~SendInFlight(Mine(r))
    /\ OtherRows(LoadOf(r)) = {}
    /\ TemporaryEnd(r, Mine(r), FALSE)
    /\ UNCHANGED <<sharedVars, gmailVars>>

\* A send still inside its settle window waits, in timer mode only.
Settles(r, c) ==
    /\ ~TriggerMode
    /\ GateOpen(LoadOf(r))
    /\ EndsWith(r, Release(c, "waiting", "OTHER"))
    /\ UNCHANGED stop

AfterSnapshot(r) ==
    LET c == Mine(r)  l == LoadOf(r) IN
    /\ At(r, {"snapshot"})
    /\ \/ /\ SendInFlight(c) \/ c.stage \in {"appended", "recorded"}
          /\ Go(r, IF SendInFlight(c) THEN "searchSent" ELSE "rebuild") /\ UNCHANGED <<claims, givenUp, stop>>
       \/ /\ c.stage \notin {"appended", "recorded"} /\ ~SendInFlight(c)
          /\ \/ OtherRows(l) # {} /\ EndsWith(r, SkipDraftedByHand(c)) /\ UNCHANGED stop
             \/ /\ OtherRows(l) = {}
                /\ \E v \in FreeVerdicts(l) :
                      \/ /\ v[1] # "queued"
                         /\ EndsWith(r, Release(c, IF TriggerMode /\ v = <<"waiting", "OTHER">>
                                                   THEN "needs_attention" ELSE v[1], v[2]))
                         /\ UNCHANGED stop
                      \/ /\ v[1] = "queued"
                         /\ IF c.stage = "appending"
                            THEN Go(r, "searchDraft") /\ UNCHANGED <<claims, givenUp, stop>>
                            ELSE \/ Settles(r, c)
                                 \/ Go(r, "prepare") /\ UNCHANGED <<claims, givenUp, stop>>
    /\ UNCHANGED <<sharedVars, gmailVars>>

\* refused(): what the engine's refusal means, or the job's own recipient rule.
PrepareRefused(r) ==
    LET c == Mine(r)  waited == [c EXCEPT !.attempts = @ + 1] IN
    /\ At(r, {"prepare"})
    /\ \/ \E counted \in BOOLEAN : TemporaryEnd(r, c, counted)
       \/ EndsWith(r, Release(c, "needs_attention", "OTHER")) /\ UNCHANGED stop
       \/ TriggerMode /\ EndsWith(r, Release(c, "waiting", "NOT_COMPLETED")) /\ UNCHANGED stop
       \/ /\ ~TriggerMode         \* RATECON_MISSING waits for its re-check
          /\ EndsWith(r, Release(c, "waiting", "OTHER")) /\ UNCHANGED stop
       \/ /\ ~TriggerMode
          /\ EndsWith(r, Release(waited, IF waited.attempts >= WaitLimit THEN "needs_attention" ELSE "waiting", "OTHER"))
          /\ UNCHANGED stop
    /\ UNCHANGED <<sharedVars, gmailVars>>
-----------------------------------------------------------------------------
(* The number: after the last await before the render. *)

Mint(n) == seq < MaxNumber /\ n = seq + 1 /\ seq' = n

\* reserveNumber(), one transaction, on the claim as `c` (the look, once clean, is cleared).
\* A marker that can't be read is factored; a reservation over a day old is replaced.
Reserve(r, c) ==
    LET l == LoadOf(r)  usable == c.num # 0 /\ ~c.voided IN
    \/ /\ OtherRows(l) # {}
       /\ EndsWith(r, SkipDraftedByHand(c)) /\ UNCHANGED seq
    \/ /\ OtherRows(l) = {}
       /\ EndsWith(r, Release(c, "skipped", "OTHER")) /\ UNCHANGED seq
    \/ /\ OtherRows(l) = {} /\ ~Factored(l) /\ usable
       /\ Writes(r, [c EXCEPT !.stage = IF @ = "" THEN "reserved" ELSE @], "render") /\ UNCHANGED seq
    \/ /\ OtherRows(l) = {} /\ ~Factored(l)
       /\ usable => c.stage \in StagesBeforeAppend
       /\ \E n \in Numbers :
             /\ Mint(n)
             /\ claims' = [claims EXCEPT ![l] = [c EXCEPT !.num = n, !.voided = FALSE, !.stage = "reserved"]]
       /\ givenUp' = givenUp \cup (IF usable THEN {c.num} ELSE {})
       /\ Go(r, "render")

CouldSend(l) == Sending /\ l \in SendLoads

Prepared(r) ==
    /\ At(r, {"prepare"})
    /\ IF Mine(r).look /\ CouldSend(LoadOf(r))
       THEN Go(r, "lookFirst") /\ UNCHANGED <<claims, givenUp, seq>>
       ELSE Reserve(r, Mine(r))
    /\ UNCHANGED <<rows, inflight, marker, stop, gmailVars>>

\* lookBeforeSend(): the Payments Table, then the mailbox. Doubt goes to a person.
LookedFirst(r, clean) ==
    /\ At(r, {"lookFirst"})
    /\ IF clean
       THEN Reserve(r, [Mine(r) EXCEPT !.look = FALSE])
       ELSE EndsWith(r, Release(Mine(r), "needs_attention", "OTHER")) /\ UNCHANGED seq
    /\ UNCHANGED <<rows, inflight, marker, stop, gmailVars>>

-----------------------------------------------------------------------------
(* The render, and the last checks before Gmail: no await between them and the hand-off. *)

RenderFailed(r) ==
    /\ At(r, {"render"})
    /\ \/ \E counted \in BOOLEAN : TemporaryEnd(r, Mine(r), counted)
       \/ EndsWith(r, Release(Mine(r), "needs_attention", "OTHER")) /\ UNCHANGED stop
    /\ UNCHANGED <<sharedVars, gmailVars>>

\* Mutant: a press with its draft in flight is not looked for.
BeginSendOverPress(r, c) ==
    LET l == LoadOf(r) IN
    /\ ~c.look
    /\ OtherRows(l) = {}
    /\ ~stop
    /\ ~Factored(l)
    /\ Writes(r, [c EXCEPT !.stage = "appending", !.sending = TRUE, !.checks = 0], "smtp")
    /\ outbox' = [outbox EXCEPT ![l] = @ + 1]
    /\ UNCHANGED stop

\* ledger.beginSend(): the claim commits to a send; the SMTP call starts with no wait between.
BeginSend(r, c) ==
    LET l == LoadOf(r) IN
    /\ ~c.look
    /\ OtherRows(l) = {}
    /\ InflightRows(l) = {}
    /\ ~stop
    /\ ~Factored(l)
    /\ Writes(r, [c EXCEPT !.stage = "appending", !.sending = TRUE, !.checks = 0], "smtp")
    /\ outbox' = [outbox EXCEPT ![l] = @ + 1]
    /\ UNCHANGED stop

\* beginSend()'s refusals, in its order, and the outgoing check before it.
SendRefused(r, c) ==
    LET l == LoadOf(r) IN
    \/ EndsWith(r, Release(c, "needs_attention", "OTHER")) /\ UNCHANGED stop
    \/ ~c.look /\ InflightRows(l) # {} /\ TemporaryEnd(r, c, FALSE)
    \/ /\ ~c.look /\ InflightRows(l) = {}      \* the marker could not be read
       /\ EndsWith(r, [Release(c, "needs_attention", "OTHER") EXCEPT !.voided = TRUE])
       /\ UNCHANGED stop

Rendered(r) ==
    LET l == LoadOf(r)  c == [Mine(r) EXCEPT !.stage = "rendered"] IN
    /\ At(r, {"render"})
    /\ \/ /\ OtherRows(l) # {}
          /\ EndsWith(r, SkipDraftedByHand(c)) /\ UNCHANGED <<stop, outbox>>
       \/ /\ OtherRows(l) = {}
          /\ EndsWith(r, Release(c, "skipped", "OTHER")) /\ UNCHANGED <<stop, outbox>>
       \/ /\ OtherRows(l) = {} /\ ~Factored(l)
          /\ \/ Settles(r, c) /\ UNCHANGED outbox
             \/ GateOpen(l) /\ BeginSend(r, c)
             \/ GateOpen(l) /\ SendRefused(r, c) /\ UNCHANGED outbox
             \/ \* drafted: the gate is shut, or no POD time proves the wait over
                /\ Writes(r, [c EXCEPT !.stage = "appending", !.sending = FALSE], "append")
                /\ UNCHANGED <<stop, outbox>>
    /\ UNCHANGED <<sharedVars, copies, sent, delivered, handFiled>>

-----------------------------------------------------------------------------
(* The draft: filed in Gmail's Drafts over IMAP. *)

Appended(r) ==
    /\ runs[r].pc = "append"
    /\ File(runs[r].num)
    /\ IF Holds(r)
       THEN Writes(r, [Mine(r) EXCEPT !.stage = "appended"], "record")
       ELSE Ends(r) /\ UNCHANGED <<claims, givenUp>>
    /\ UNCHANGED <<sharedVars, stop, sent, outbox, delivered, handFiled>>

\* The message was streamed and no answer came: it was filed or it was not, and by the time
\* the lease ends Gmail's search tells which.
AppendUnanswered(r, landed) ==
    /\ runs[r].pc = "append"
    /\ IF landed THEN File(runs[r].num) ELSE UNCHANGED copies
    /\ IF Holds(r) THEN Go(r, "searchAppended") ELSE Ends(r)
    /\ UNCHANGED <<ledgerVars, sent, outbox, delivered, handFiled>>

\* Refused, or stopped before the message went: it isn't in Gmail. A refused login pauses.
AppendRefused(r) ==
    LET c == [Mine(r) EXCEPT !.stage = "reserved"] IN
    /\ runs[r].pc = "append"
    /\ IF Holds(r)
       THEN \E counted \in BOOLEAN : TemporaryEnd(r, c, counted)
       ELSE Ends(r) /\ UNCHANGED <<claims, givenUp, stop>>
    /\ UNCHANGED <<sharedVars, gmailVars>>

\* Mutant: an answer Gmail didn't give is read as found.
FoundUnseen(r) ==
    /\ At(r, {"searchDraft", "searchAppended", "searchLeft"})
    /\ Writes(r, [Mine(r) EXCEPT !.stage = "appended"],
              IF runs[r].pc = "searchAppended" THEN "record" ELSE "rebuild")
    /\ UNCHANGED <<sharedVars, stop, gmailVars>>

\* lookInGmail(): Drafts and Sent Mail searched for the claim's Message-ID.
FoundInGmail(r) ==
    /\ At(r, {"searchDraft", "searchAppended", "searchLeft"})
    /\ copies[Mine(r).num] > 0
    /\ Writes(r, [Mine(r) EXCEPT !.stage = "appended"],
              IF runs[r].pc = "searchAppended" THEN "record" ELSE "rebuild")
    /\ UNCHANGED <<sharedVars, stop, gmailVars>>

GmailUnknown(r) ==
    /\ At(r, {"searchDraft", "searchAppended", "searchLeft"})
    /\ EndsWith(r, Release(Mine(r), "needs_attention", "OTHER"))
    /\ UNCHANGED <<sharedVars, stop, gmailVars>>

AbsentFromGmail(r) ==
    LET c == Mine(r)  absent == [c EXCEPT !.stage = "reserved"] IN
    /\ At(r, {"searchDraft", "searchAppended", "searchLeft"})
    /\ copies[c.num] = 0
    /\ \/ /\ runs[r].pc = "searchDraft"         \* the number never reached Gmail: used again
          /\ \/ Settles(r, absent)
             \/ Writes(r, absent, "prepare") /\ UNCHANGED stop
       \/ runs[r].pc = "searchLeft" /\ EndsWith(r, Requeue(c, "reserved")) /\ UNCHANGED stop
       \/ /\ runs[r].pc = "searchAppended"      \* still "appending": the retry searches again
          /\ IF TriggerMode
             THEN EndsWith(r, Release(c, "needs_attention", "OTHER")) /\ UNCHANGED stop
             ELSE TemporaryEnd(r, c, TRUE)
    /\ UNCHANGED <<sharedVars, gmailVars>>
-----------------------------------------------------------------------------
(* The send. A message handed to SMTP is in transit until the server delivers or refuses *)
(* it; an answer may never come, and a message with no answer may be delivered later.    *)

\* The server took it: markSent(), then the record.
SmtpAccepted(r) ==
    /\ runs[r].pc = "smtp"
    /\ Deliver(LoadOf(r))
    /\ IF Holds(r) /\ SendInFlight(Mine(r))
       THEN Writes(r, [Mine(r) EXCEPT !.stage = "appended"], "record")
       ELSE Ends(r) /\ UNCHANGED <<claims, givenUp>>
    /\ UNCHANGED <<sharedVars, stop>>

\* The login or the message was refused before its body: nothing left the mailbox, so sending
\* stops and the load goes back to be drafted.
SmtpRefused(r) ==
    /\ runs[r].pc = "smtp"
    /\ outbox[LoadOf(r)] > 0
    /\ outbox' = [outbox EXCEPT ![LoadOf(r)] = @ - 1]
    /\ stop' = TRUE
    /\ IF Holds(r)
       THEN EndsWith(r, [Unowned(Mine(r)) EXCEPT !.state = "queued", !.reason = "OTHER",
                                                 !.stage = "reserved", !.sending = FALSE])
       ELSE Ends(r) /\ UNCHANGED <<claims, givenUp>>
    /\ UNCHANGED <<sharedVars, copies, sent, delivered, handFiled>>

\* Mutant: no answer is taken for a refusal.
SmtpUnansweredRequeued(r) ==
    /\ runs[r].pc = "smtp"
    /\ stop' = TRUE
    /\ IF Holds(r)
       THEN EndsWith(r, [Unowned(Mine(r)) EXCEPT !.state = "queued", !.reason = "OTHER",
                                                 !.stage = "reserved", !.sending = FALSE])
       ELSE Ends(r) /\ UNCHANGED <<claims, givenUp>>
    /\ UNCHANGED <<sharedVars, gmailVars>>

\* Anything else may have been delivered: sending stops and Sent Mail is searched.
SmtpUnanswered(r) ==
    /\ runs[r].pc = "smtp"
    /\ stop' = TRUE
    /\ IF Holds(r) THEN Go(r, "searchAnswer") ELSE Ends(r)
    /\ UNCHANGED <<claims, givenUp, sharedVars, gmailVars>>

\* The mail system's own step, once nobody waits for its answer.
LateDelivery(l) ==
    /\ \A r \in Runs : ~(runs[r].pc = "smtp" /\ runs[r].load = l)
    /\ Deliver(l)
    /\ UNCHANGED <<ledgerVars, runs>>

\* searchSent(): found is recorded as sent; not found, or not searched, is searched again, and
\* at the last search (a trigger's run has only the one) a person checks and sending stops.
FoundInSent(r) ==
    /\ At(r, {"searchAnswer", "searchSent"})
    /\ Mine(r).num \in sent
    /\ Writes(r, [Mine(r) EXCEPT !.stage = "appended"],
              IF runs[r].pc = "searchAnswer" THEN "record" ELSE "rebuild")
    /\ UNCHANGED <<sharedVars, stop, gmailVars>>

\* Mutant: the searches are not counted.
NotFoundNotCounted(r) ==
    LET searched == Unowned(Mine(r)) IN
    /\ At(r, {"searchAnswer", "searchSent"})
    /\ EndsWith(r, IF TriggerMode THEN [searched EXCEPT !.state = "needs_attention", !.reason = "MAYBE_SENT"]
                                  ELSE [searched EXCEPT !.state = "queued", !.reason = "OTHER"])
    /\ stop' = (stop \/ TriggerMode)
    /\ UNCHANGED <<sharedVars, gmailVars>>

NotFoundInSent(r) ==
    LET c == Mine(r)
        last == TriggerMode \/ c.checks + 1 >= SearchLimit
        searched == [Unowned(c) EXCEPT !.checks = IF @ < SearchLimit THEN @ + 1 ELSE @]
    IN
    /\ At(r, {"searchAnswer", "searchSent"})
    /\ EndsWith(r, IF last THEN [searched EXCEPT !.state = "needs_attention", !.reason = "MAYBE_SENT"]
                           ELSE [searched EXCEPT !.state = "queued", !.reason = "OTHER"])
    /\ stop' = (stop \/ last)
    /\ UNCHANGED <<sharedVars, gmailVars>>

-----------------------------------------------------------------------------
(* The record of a message that is in Gmail. *)

\* recordFromGmail(): the engine rebuilds what went; it is recorded only when it matches.
Rebuilt(r) ==
    /\ At(r, {"rebuild"})
    /\ Go(r, "record")
    /\ UNCHANGED <<ledgerVars, gmailVars>>

NotRebuilt(r) ==
    /\ At(r, {"rebuild"})
    /\ ~HasOwnRow(LoadOf(r))
    /\ EndsWith(r, [Release(Mine(r), "needs_attention", "OTHER") EXCEPT !.stage = "appended"])
    /\ UNCHANGED <<sharedVars, stop, gmailVars>>

\* The sheet is down: the exception leaves attempt() with the claim still working, recover()
\* gives it to a person, and a trigger's run is closed.
RebuildThrew(r) ==
    LET c == Mine(r) IN
    /\ At(r, {"rebuild"})
    /\ IF runs[r].recovering /\ ~TriggerMode
       THEN EndsWith(r, Release(c, "needs_attention", IF c.sending THEN "MAYBE_SENT" ELSE "OTHER"))
       ELSE Ends(r) /\ UNCHANGED <<claims, givenUp>>
    /\ UNCHANGED <<sharedVars, stop, gmailVars>>

\* finishRecorded(): a row already there is reused; else the engine writes it, or can't.
Recorded(r, written) ==
    LET l == LoadOf(r) IN
    /\ At(r, {"record"})
    /\ IF HasOwnRow(l)
       THEN EndsWith(r, Drafted(Mine(r))) /\ UNCHANGED rows
       ELSE /\ rows' = rows \cup (IF written THEN {[load |-> l, num |-> Mine(r).num, via |-> "job"]} ELSE {})
            /\ Go(r, "finish") /\ UNCHANGED <<claims, givenUp>>
    /\ UNCHANGED <<inflight, marker, seq, stop, gmailVars>>

Finished(r) ==
    /\ At(r, {"finish"})
    /\ EndsWith(r, IF HasOwnRow(LoadOf(r)) THEN Drafted(Mine(r))
                   ELSE [Release(Mine(r), "needs_attention", "OTHER") EXCEPT !.stage = "appended"])
    /\ UNCHANGED <<sharedVars, stop, gmailVars>>

-----------------------------------------------------------------------------
(* recoverOne(): a claim left working by a run that is gone. *)

Starts(r, l, pc, recovering) ==
    runs' = [runs EXCEPT ![r] = [pc |-> pc, load |-> l, recovering |-> recovering, num |-> 0]]

\* A token names one run: it is free once no claim carries it.
Free(r) == runs[r].pc = "idle" /\ \A l \in Loads : claims[l].owner # r

Taken(c, r) == [c EXCEPT !.state = "working", !.owner = r, !.expired = FALSE]

Recover(r, l) ==
    LET c == Taken(claims[l], r) IN
    /\ Free(r)
    /\ claims[l].state = "working" /\ claims[l].expired
    /\ \/ SendInFlight(c) /\ Starts(r, l, "searchSent", TRUE) /\ WriteClaim(l, c)
       \/ /\ c.stage \in StagesBeforeAppend
          /\ IF TriggerMode /\ c.num # 0
             THEN Starts(r, l, "searchLost", TRUE) /\ WriteClaim(l, c)
             ELSE /\ WriteClaim(l, Requeue(c, KeptStage(c)))
                  /\ IF TriggerMode THEN Starts(r, l, "close", TRUE) ELSE UNCHANGED runs
       \/ c.stage = "appending" /\ ~c.sending /\ Starts(r, l, "searchLeft", TRUE) /\ WriteClaim(l, c)
       \/ c.stage \in {"appended", "recorded"} /\ Starts(r, l, "rebuild", TRUE) /\ WriteClaim(l, c)
    /\ UNCHANGED <<sharedVars, stop, gmailVars>>

\* The commit was lost with the box's power, yet the message went: recorded, never built again.
LostSendLooked(r, seen) ==
    LET c == Mine(r) IN
    /\ At(r, {"searchLost"})
    /\ \/ /\ seen = "found" /\ c.num \in sent
          /\ Writes(r, [c EXCEPT !.sending = TRUE, !.stage = "appended"], "rebuild")
       \/ seen = "absent" /\ c.num \notin sent /\ EndsWith(r, Requeue(c, KeptStage(c)))
       \/ seen = "unknown" /\ EndsWith(r, Release(c, "needs_attention", "OTHER"))
    /\ UNCHANGED <<sharedVars, stop, gmailVars>>

\* queued -> working for one owner.
Lease(r, l) ==
    /\ Free(r)
    /\ claims[l].state = "queued"
    /\ WriteClaim(l, Taken(claims[l], r))
    /\ Starts(r, l, "snapshot", FALSE)
    /\ UNCHANGED <<sharedVars, stop, gmailVars>>

-----------------------------------------------------------------------------
(* What watches the claims: the sweep, or checkClaims() with the driver's trigger. *)

\* A person drafted the load by hand: an open claim is closed, except a send that may have gone
\* out and is still being searched for.
ClosedByHand(l) ==
    LET c == claims[l] IN
    /\ c.state \in {"waiting", "queued", "needs_attention"}
    /\ SendInFlight(c) => c.state = "needs_attention"
    /\ OtherRows(l) # {}
    /\ WriteClaim(l, SkipDraftedByHand(c))
    /\ UNCHANGED <<sharedVars, stop, gmailVars, runs>>

\* checkChanged(): a load changed after its send stops sending.
ChangedAfterSend(l) ==
    /\ claims[l].state = "drafted" /\ ClaimSent(claims[l])
    /\ ~stop
    /\ stop' = TRUE
    /\ UNCHANGED <<claims, sharedVars, givenUp, gmailVars, runs>>

\* Whether a claim can be taken over while a live run is still filing its message in Drafts. With
\* the timer it can't: LEASE_MS is 15 minutes; prepare, render and an IMAP session are 9 at most.
\* Under the trigger it can: startTrigger() and a person's Try again end a lease early. A send gets
\* no such help anywhere: its run may be anywhere when another takes the claim.
Filing(l) == \E r \in Runs : runs[r].pc = "append" /\ runs[r].load = l

TakeOver(r, l) == (Filing(l) => Overlaps) /\ Recover(r, l)

\* The steps of a run, but for the two that only the driver's trigger has.
RunStep(r) ==
    \/ LostRun(r) \/ SheetDown(r) \/ NotNow(r) \/ AfterSnapshot(r)
    \/ PrepareRefused(r) \/ Prepared(r)
    \/ RenderFailed(r) \/ Rendered(r)
    \/ Appended(r) \/ \E landed \in BOOLEAN : AppendUnanswered(r, landed)
    \/ AppendRefused(r) \/ FoundInGmail(r) \/ GmailUnknown(r) \/ AbsentFromGmail(r)
    \/ SmtpAccepted(r) \/ SmtpRefused(r) \/ SmtpUnanswered(r) \/ FoundInSent(r) \/ NotFoundInSent(r)
    \/ Rebuilt(r) \/ NotRebuilt(r) \/ RebuildThrew(r)
    \/ \E written \in BOOLEAN : Recorded(r, written)
    \/ Finished(r)
=============================================================================
