---------------------------- MODULE InvoiceSafety ----------------------------
(***************************************************************************)
(* What must hold whoever starts the runs: the timer (TimerInvoices) or    *)
(* the driver's Delivered (TriggerInvoices).                               *)
(***************************************************************************)
EXTENDS InvoiceRun, DraftInvoice

\* However a send's answer is lost, and whoever takes the claim over, retries it or resumes
\* sending, the job hands at most one email of a load to the broker's side (the whole of
\* beginSend()/searchSent(): "never a resend").
AtMostOneSend == \A l \in Loads : outbox[l] + delivered[l] <= 1

\* A load whose invoice went, or may still go, to the broker by email is never marked factored,
\* whatever order the mark and the send's checks came in (mark(), beginSend()).
FactoredNeverSent == \A l \in Loads : outbox[l] + delivered[l] > 0 => marker[l] = "clear"

\* Where the job's email went, or may still go, every draft a press put in Gmail was a confirmed
\* re-issue (beginSend() against lateChecks(): "so one side wins").
OneSideWins ==
    \A l \in Loads : outbox[l] + delivered[l] > 0 => \A h \in handFiled : h.load = l => h.reissue

\* A number the audit log calls never used is on no message in the mailbox, nor on one being
\* handed over: nothing that voided it left it with a run or a press still able to use it.
GivenUpStaysOut ==
    /\ \A n \in givenUp : copies[n] = 0
    /\ \A l \in Loads : outbox[l] > 0 => claims[l].num \notin givenUp

\* A message is filed once: what a lost answer left in Gmail is found before it is made again.
FiledOnce == \A n \in Numbers : copies[n] <= 1

\* A draft a press put in Gmail is on record, or held as one to check: no crash, lost answer or
\* failed record leaves it unknown to the checks that keep the job and other presses off the load.
HandDraftsTracked ==
    \A h \in handFiled :
        \/ \E d \in rows : d.load = h.load /\ d.num = h.num
        \/ \E f \in inflight : f.load = h.load /\ f.num = h.num

\* What the records say went to Gmail is there; a send recorded as such is in Sent Mail.
RecordedIsInGmail ==
    /\ \A d \in rows : copies[d.num] > 0
    /\ \A l \in Loads : claims[l].stage \in {"appended", "recorded"} =>
          /\ copies[claims[l].num] > 0
          /\ claims[l].sending => claims[l].num \in sent

\* The mailbox, the audit log and the records say the same, whatever failed between writing one
\* and the next: no number on two messages, none used after it was given up, no record without
\* its message.
RecordsTrue == GivenUpStaysOut /\ FiledOnce /\ RecordedIsInGmail

\* A load left to a person as maybe sent holds sending stopped until that is settled: the
\* resume script refuses while it is unconfirmed.
StopCoversMaybeSent ==
    \A l \in Loads :
       (claims[l].state = "needs_attention" /\ claims[l].reason = "MAYBE_SENT" /\ SendInFlight(claims[l])) => stop

\* The chip "may already be sent" (and "it wasn't found in Gmail Sent Mail") is for a send whose
\* copy no search has found (client/src/lib/autoInvoiceStatus.js).
MaybeSentIsUnfound ==
    \A l \in Loads :
       claims[l].state = "needs_attention" /\ claims[l].reason = "MAYBE_SENT" => SendInFlight(claims[l])

\* What a step may do to an unconfirmed send: nothing but a search that found it, or the
\* server's refusal, takes the claim off it.
Confirmed ==
    \A l \in Loads : SendInFlight(claims[l]) /\ ~SendInFlight(claims'[l]) =>
        \/ claims[l].num \in sent'
        \/ outbox'[l] + delivered'[l] = 0 /\ stop'

\* An email still on its way, or delivered and not recorded, always has a claim saying so, in a
\* state somebody comes back to.
SendsAreTracked ==
    \A l \in Loads : outbox[l] + delivered[l] > 0 =>
       /\ ClaimSent(claims[l])
       /\ claims[l].state \in {"queued", "working", "needs_attention", "drafted", "skipped"}

\* Nothing that left the process is forgotten, by hand or by the job, recorded or not: somebody
\* comes back to it before sending goes on or another draft is made.
NothingForgotten == HandDraftsTracked /\ StopCoversMaybeSent /\ SendsAreTracked

(* Why at most one email goes out: the inductive invariant of the proofs. *)

\* A claim past its first stage, or with its number given up, has a number.
Numbered(c) == c.stage # "" \/ c.voided => c.num # 0 /\ c.state # "none"

\* A claim knows of every email that went or may still go, so nothing that asks the claim first
\* can make a second one.
ClaimsKnowSends ==
    \A l \in Loads :
       /\ outbox[l] + delivered[l] <= 1
       /\ outbox[l] + delivered[l] > 0 => ClaimSent(claims[l])
       /\ Numbered(claims[l])

\* A run that holds its claim is where the claim's stage says: building nothing that went,
\* with a number once one is reserved, and filing a draft only where no send was begun.
RunFits(pc, c) ==
    /\ pc \in {"prepare", "lookFirst", "render"} => c.stage \in StagesBeforeAppend
    /\ pc \notin {"snapshot", "prepare", "lookFirst", "close"} => c.num # 0
    /\ pc \in {"append", "searchDraft", "searchAppended", "searchLeft"} => ~c.sending

RunsMatchClaims ==
    \A r \in Runs : runs[r].pc # "idle" /\ Holds(r) => RunFits(runs[r].pc, Mine(r))

\* A run waiting for the SMTP server's answer is the only one, and its message is in transit.
OneAtSmtp ==
    \A r \in Runs : runs[r].pc = "smtp" =>
       /\ outbox[LoadOf(r)] > 0
       /\ \A q \in Runs : runs[q].pc = "smtp" /\ LoadOf(q) = LoadOf(r) => q = r

\* The three together: how a send, its claim and the run at work on it stay in step.
SendInv == ClaimsKnowSends /\ RunsMatchClaims /\ OneAtSmtp

\* The job, the button and the switch keep InvoiceOnce's promise: each of their steps is one of
\* its steps or none. A second message would be "twice", which no step of it reaches.
Once == INSTANCE InvoiceOnce WITH
    outcome  <- [l \in Loads |->
                    IF outbox[l] + delivered[l] > 1 THEN "twice"
                    ELSE IF delivered[l] = 1 THEN "sent"
                    ELSE IF outbox[l] = 1 THEN "committed" ELSE "idle"],
    factored <- {l \in Loads : Factored(l)},
    handmade <- {l \in Loads : \E h \in handFiled : h.load = l /\ ~h.reissue}
=============================================================================
