---------------------------- MODULE InvoiceLedger ----------------------------
(***************************************************************************)
(* What the automatic invoice job, the Draft Invoice button and the        *)
(* factoring switch share: the claims table (lib/auto-invoice-ledger.js),  *)
(* the draft rows, the button's in-flight rows and the factoring marker    *)
(* (lib/factoring-store.js), the invoice sequence (server.js), and the     *)
(* company mailbox, which is not ours and forgets nothing.                 *)
(* Every SQLite call of the program is synchronous, so a whole transaction *)
(* is one step; between two awaits anybody else may step in.               *)
(***************************************************************************)
EXTENDS Integers, FiniteSets

CONSTANTS
    Loads,          \* load keys
    Runs,           \* owner tokens: a process's worker id, or a trigger run's token
    NoRun,          \* lease_owner ''
    NoLoad,         \* what an idle run or press works on
    SendLoads,      \* loads whose resolved recipient is on the send list
    Sending,        \* the job is in real-draft mode with a sender to send through
    TriggerMode,    \* the driver's Delivered starts invoices; no timer runs
    MaxNumber,      \* bound on the invoice numbers minted
    RetryLimit,     \* RETRY_DELAYS_MS.length: counted failures before a person looks
    WaitLimit,      \* ENGINE_WAIT_MAX: "not ready" refusals before a person looks
    SearchLimit     \* SEARCH_AFTER_MS.length: Sent Mail searches before a person looks

ASSUME LedgerAssumption ==
    /\ SendLoads \subseteq Loads
    /\ Sending \in BOOLEAN
    /\ TriggerMode \in BOOLEAN
    /\ MaxNumber \in Nat
    /\ RetryLimit \in Nat
    /\ WaitLimit \in Nat
    /\ SearchLimit \in Nat \ {0}
    /\ NoRun \notin Runs
    /\ NoLoad \notin Loads

VARIABLES
    claims,         \* auto_invoice_claims, by load ("none": no row)
    rows,           \* load_invoice_drafts
    inflight,       \* the button's in-flight rows
    marker,         \* the factoring marker, by load
    stop,           \* send_stopped_at is set
    seq,            \* bison_invoice_seq: the last number minted
    givenUp,        \* the numbers the audit log calls void ("never used")
    copies,         \* messages in Drafts or Sent Mail, by invoice number
    sent,           \* the numbers Sent Mail holds
    outbox,         \* messages handed to SMTP and neither delivered nor refused, by load
    delivered,      \* emails the job delivered to the broker, by load
    handFiled       \* every draft a press put in Gmail: its load, number, and whether a re-issue

ledgerVars == <<claims, rows, inflight, marker, stop, seq, givenUp>>
gmailVars  == <<copies, sent, outbox, delivered, handFiled>>

Numbers == 1..MaxNumber
States  == {"none", "baseline", "waiting", "queued", "working", "drafted", "needs_attention", "skipped"}
Stages  == {"", "reserved", "rendered", "appending", "appended", "recorded"}
\* The reason codes some rule reads again; every other one is "OTHER".
Reasons == {"OTHER", "MAYBE_SENT", "OFF_GAP", "DRIVER_PENDING", "NOT_COMPLETED"}

Claim ==
    [state : States, stage : Stages, reason : Reasons, owner : Runs \cup {NoRun},
     expired : BOOLEAN,             \* the lease ran out
     num : Numbers \cup {0},        \* invoice_id, 0 for ''
     voided : BOOLEAN,              \* number_voided_at is set
     sending : BOOLEAN,             \* delivery is 'send'
     checks : Nat,                  \* send_checks, counted up to SearchLimit
     attempts : Nat,
     look : BOOLEAN]                \* look_first is set

DraftRow    == [load : Loads, num : Numbers, via : {"job", "hand"}]
InflightRow == [load : Loads, num : Numbers, state : {"in_flight", "maybe"}, path : {"imap", "n8n"}]

NoClaim == [state |-> "none", stage |-> "", reason |-> "OTHER", owner |-> NoRun, expired |-> FALSE,
            num |-> 0, voided |-> FALSE, sending |-> FALSE, checks |-> 0, attempts |-> 0, look |-> FALSE]

NewClaim(state, reason) == [NoClaim EXCEPT !.state = state, !.reason = reason]

LedgerTypeOK ==
    /\ claims \in [Loads -> Claim]
    /\ rows \subseteq DraftRow
    /\ inflight \subseteq InflightRow
    /\ marker \in [Loads -> {"clear", "factored", "locked"}]
    /\ stop \in BOOLEAN
    /\ seq \in 0..MaxNumber
    /\ givenUp \subseteq Numbers
    /\ copies \in [Numbers -> Nat]
    /\ sent \subseteq Numbers
    /\ outbox \in [Loads -> Nat]
    /\ delivered \in [Loads -> Nat]
    /\ handFiled \subseteq [load : Loads, num : Numbers, reissue : BOOLEAN]

NothingElseYet ==
    /\ rows = {}
    /\ inflight = {}
    /\ marker = [l \in Loads |-> "clear"]
    /\ stop = FALSE
    /\ seq = 0
    /\ givenUp = {}
    /\ copies = [n \in Numbers |-> 0]
    /\ sent = {}
    /\ outbox = [l \in Loads |-> 0]
    /\ delivered = [l \in Loads |-> 0]
    /\ handFiled = {}

LedgerInit == claims = [l \in Loads |-> NoClaim] /\ NothingElseYet

-----------------------------------------------------------------------------
(* What the code reads off a claim and the rows beside it. *)

StagesBeforeAppend == {"", "reserved", "rendered"}

\* Mutant: the stage goes back whatever may be in Gmail.
KeptStageReset(c) == IF c.num # 0 THEN "reserved" ELSE ""

\* Once a message may be in Gmail, only a search moves the stage back.
KeptStage(c) ==
    IF c.stage \in StagesBeforeAppend
    THEN IF c.num # 0 THEN "reserved" ELSE ""
    ELSE c.stage

SendInFlight(c) == c.sending /\ c.stage = "appending"
ClaimSent(c)    == c.sending /\ c.stage \in {"appending", "appended", "recorded"}
MayBeInGmail(c) == ~c.sending /\ c.stage \in {"appending", "appended"}

\* The claim's own row is the job's, under the claim's number; every other row is somebody else's.
IsOwnRow(d, l) == d.load = l /\ d.via = "job" /\ claims[l].num # 0 /\ d.num = claims[l].num
HasOwnRow(l)   == \E d \in rows : IsOwnRow(d, l)
OtherRows(l)   == {d \in rows : d.load = l /\ ~IsOwnRow(d, l)}

Factored(l)     == marker[l] # "clear"
InflightRows(l) == {f \in inflight : f.load = l}

\* The send gate: stopped, or a recipient off the list, is drafted instead.
GateOpen(l) == Sending /\ l \in SendLoads /\ ~stop

-----------------------------------------------------------------------------
(* What the code makes of a claim. *)

\* Mutant: the stage is not asked.
VoidsAtAnyStage(c, state) == state = "skipped" /\ c.num # 0 /\ ~c.voided

\* A number reserved and never handed to Gmail is given up when the claim ends skipped.
Voids(c, state) ==
    /\ state = "skipped"
    /\ c.num # 0
    /\ ~c.voided
    /\ c.stage \in StagesBeforeAppend

Unowned(c) == [c EXCEPT !.owner = NoRun, !.expired = FALSE]

Release(c, state, reason) ==
    [Unowned(c) EXCEPT !.state = state, !.reason = reason, !.stage = KeptStage(c),
                       !.voided = @ \/ Voids(c, state)]

\* Somebody drafted the load by hand: the claim is done, at the stage it had.
SkipDraftedByHand(c) ==
    [Unowned(c) EXCEPT !.state = "skipped", !.reason = "OTHER", !.voided = @ \/ Voids(c, "skipped")]

\* Back to the queue after a temporary failure; the one after the last backoff goes to a person.
Backoff(c, counted) ==
    LET tries == IF counted THEN c.attempts + 1 ELSE c.attempts
    IN  [Unowned(c) EXCEPT !.state = IF counted /\ tries > RetryLimit THEN "needs_attention" ELSE "queued",
                           !.reason = "OTHER", !.stage = KeptStage(c), !.attempts = tries]

\* Mutant: the look is forgotten.
RequeueUnlooked(c, stage) == [Unowned(c) EXCEPT !.state = "queued", !.stage = stage]

Requeue(c, stage) ==
    [Unowned(c) EXCEPT !.state = "queued", !.stage = stage, !.look = @ \/ TriggerMode]

Drafted(c) ==
    [Unowned(c) EXCEPT !.state = "drafted", !.reason = "OTHER", !.stage = "recorded"]

\* Mutant: the stage is not asked, only how the claim went.
ToPersonAnySend(c) == Release(c, "needs_attention", IF c.sending THEN "MAYBE_SENT" ELSE "OTHER")

\* A run of the driver's trigger is over: a person takes the claim, by how far it got.
ToPerson(c) ==
    Release(c, "needs_attention", IF SendInFlight(c) THEN "MAYBE_SENT" ELSE "OTHER")

-----------------------------------------------------------------------------
(* Writes shared by every component. *)

\* The claim's row is written; a number it gives up is in the audit log for good.
WriteClaim(l, c) ==
    /\ claims' = [claims EXCEPT ![l] = c]
    /\ givenUp' = givenUp \cup (IF c.voided /\ ~claims[l].voided THEN {c.num} ELSE {})

\* A message with this number is in the mailbox.
File(n) == copies' = [copies EXCEPT ![n] = @ + 1]

\* The SMTP server delivers load l's message: a broker gets it and Sent Mail keeps a copy.
Deliver(l) ==
    /\ outbox[l] > 0
    /\ outbox' = [outbox EXCEPT ![l] = @ - 1]
    /\ delivered' = [delivered EXCEPT ![l] = @ + 1]
    /\ sent' = sent \cup {claims[l].num}
    /\ File(claims[l].num)
    /\ UNCHANGED handFiled

-----------------------------------------------------------------------------
(* The factoring switch (lib/factoring-store.js). Triumph claims have no writer *)
(* in the program yet, so nothing is held there.                                *)

\* Mutant: a send is not looked for.
MarkOverSend(l, confirmed) ==
    /\ marker[l] = "clear"
    /\ InflightRows(l) = {}
    /\ claims[l].state # "working"
    /\ (MayBeInGmail(claims[l]) \/ \E d \in rows : d.load = l) => confirmed
    /\ marker' = [marker EXCEPT ![l] = "factored"]
    /\ UNCHANGED <<claims, rows, inflight, stop, seq, givenUp, gmailVars>>

\* mark(): refused while anything may still reach the broker for this load.
\* `confirmed`: the caller says, with a reason, that a draft was never sent.
Mark(l, confirmed) ==
    /\ marker[l] = "clear"
    /\ InflightRows(l) = {}
    /\ claims[l].state # "working"
    /\ ~ClaimSent(claims[l])
    /\ (MayBeInGmail(claims[l]) \/ \E d \in rows : d.load = l) => confirmed
    /\ marker' = [marker EXCEPT ![l] = "factored"]
    /\ UNCHANGED <<claims, rows, inflight, stop, seq, givenUp, gmailVars>>

Clear(l) ==
    /\ marker[l] = "factored"
    /\ InflightRows(l) = {}
    /\ marker' = [marker EXCEPT ![l] = "clear"]
    /\ UNCHANGED <<claims, rows, inflight, stop, seq, givenUp, gmailVars>>

HandledOutside(l) ==
    /\ marker[l] = "factored"
    /\ InflightRows(l) = {}
    /\ marker' = [marker EXCEPT ![l] = "locked"]
    /\ UNCHANGED <<claims, rows, inflight, stop, seq, givenUp, gmailVars>>

\* Mutant: resumes over an unconfirmed send.
ResumeUnasked ==
    /\ stop
    /\ stop' = FALSE
    /\ UNCHANGED <<claims, rows, inflight, marker, seq, givenUp, gmailVars>>

\* A Super Admin's stop: set-only. Only the resume script clears it, and not while a send
\* is unconfirmed.
StopSends ==
    /\ Sending
    /\ ~stop
    /\ stop' = TRUE
    /\ UNCHANGED <<claims, rows, inflight, marker, seq, givenUp, gmailVars>>

ResumeSends ==
    /\ stop
    /\ \A l \in Loads :
          SendInFlight(claims[l]) => claims[l].state \notin {"queued", "working", "needs_attention"}
    /\ stop' = FALSE
    /\ UNCHANGED <<claims, rows, inflight, marker, seq, givenUp, gmailVars>>

SwitchNext ==
    \/ \E l \in Loads, confirmed \in BOOLEAN : Mark(l, confirmed)
    \/ \E l \in Loads : Clear(l) \/ HandledOutside(l)
    \/ StopSends
    \/ ResumeSends
=============================================================================
