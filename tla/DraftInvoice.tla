----------------------------- MODULE DraftInvoice -----------------------------
(***************************************************************************)
(* A press of the Draft Invoice button (server.js, the route; the job's    *)
(* draftButtonCheck(); lib/factoring-routes.js draftHandoff() over         *)
(* lib/factoring-store.js), and "Check Gmail" on a press whose hand-off    *)
(* had no answer. A press's pc is the await it is in:                      *)
(*   prepare  the engine reads the load      render  the PDF is made       *)
(*   append   the draft is being filed       n8n     the webhook's answer  *)
(* No invoice can print the factor's assignment lines yet, so a factored   *)
(* load is always refused and `confirmed` is never true.                   *)
(***************************************************************************)
EXTENDS InvoiceLedger

CONSTANTS
    Presses,        \* requests in progress at once
    N8n             \* the fallback webhook is configured

ASSUME DraftAssumption == N8n \in BOOLEAN

VARIABLE presses

IdlePress == [pc |-> "idle", load |-> NoLoad, num |-> 0, reissue |-> FALSE]

PressTypeOK ==
    /\ presses \in [Presses -> [pc : {"idle", "prepare", "render", "append", "n8n"}, load : Loads \cup {NoLoad},
                                num : Numbers \cup {0}, reissue : BOOLEAN]]
    /\ \A p \in Presses :
          /\ presses[p].load = NoLoad <=> presses[p].pc = "idle"
          /\ presses[p].num = 0 <=> presses[p].pc \in {"idle", "prepare"}

PressInit == presses = [p \in Presses |-> IdlePress]

PressGo(p, pc) == presses' = [presses EXCEPT ![p].pc = pc]
\* Mutant: the press is answered, its request kept.
AnswersKept(p) == presses' = [presses EXCEPT ![p].pc = "idle"]
Answers(p)     == presses' = [presses EXCEPT ![p] = IdlePress]

RowOf(p)     == {f \in inflight : f.load = presses[p].load /\ f.num = presses[p].num}
\* Mutant: the row is dropped as if no draft existed.
RowsDropped(p, path) == inflight \ RowOf(p)
MaybeRows(p, path) == (inflight \ RowOf(p)) \cup {[f EXCEPT !.state = "maybe", !.path = path] : f \in RowOf(p)}

GivesUp(n) == givenUp' = givenUp \cup {n}

-----------------------------------------------------------------------------
(* draftEarly() and draftButtonCheck(): before anything is read or minted. *)
Press(p, l, confirmReissue) ==
    LET c == claims[l] IN
    /\ presses[p].pc = "idle"
    /\ ~Factored(l)
    /\ InflightRows(l) = {}
    /\ ClaimSent(c) => confirmReissue
    /\ ~ClaimSent(c) => ~(Sending /\ c.state = "working")
    /\ presses' = [presses EXCEPT ![p] = [pc |-> "prepare", load |-> l, num |-> 0,
                                          reissue |-> ClaimSent(c) /\ confirmReissue]]
    /\ UNCHANGED <<ledgerVars, gmailVars>>

\* prepare() answered: the sequence is consumed on every press that goes on.
PressPrepared(p) ==
    /\ presses[p].pc = "prepare"
    /\ seq < MaxNumber
    /\ seq' = seq + 1
    /\ presses' = [presses EXCEPT ![p] = [@ EXCEPT !.pc = "render", !.num = seq + 1]]
    /\ UNCHANGED <<claims, rows, inflight, marker, stop, givenUp, gmailVars>>

\* prepare() refused, or the render threw.
PressFailed(p) ==
    /\ presses[p].pc \in {"prepare", "render"}
    /\ Answers(p)
    /\ UNCHANGED <<ledgerVars, gmailVars>>

\* Mutant: a send the job began meanwhile is not looked for.
LateRefusedOverSend(p) == Factored(presses[p].load) \/ InflightRows(presses[p].load) \ RowOf(p) # {}

\* lateChecks(): the marker, a send the job began since the press started, another press.
LateRefused(p) ==
    LET l == presses[p].load IN
    \/ Factored(l)
    \/ ~presses[p].reissue /\ ClaimSent(claims[l])
    \/ InflightRows(l) \ RowOf(p) # {}

\* draftBegin(): after the render, the checks again and the in-flight row, in one transaction.
PressRendered(p) ==
    LET l == presses[p].load  n == presses[p].num IN
    /\ presses[p].pc = "render"
    /\ IF LateRefused(p)
       THEN Answers(p) /\ GivesUp(n) /\ UNCHANGED inflight
       ELSE /\ PressGo(p, "append")
            /\ inflight' = inflight \cup {[load |-> l, num |-> n, state |-> "in_flight", path |-> "imap"]}
            /\ UNCHANGED givenUp
    /\ UNCHANGED <<claims, rows, marker, stop, seq, gmailVars>>

\* The draft is in Gmail. record() writes its row and deletes the in-flight one in one
\* transaction; a draft it couldn't record leaves the row maybe drafted.
PressFiled(p, recorded) ==
    LET l == presses[p].load  n == presses[p].num IN
    /\ presses[p].pc \in {"append", "n8n"}
    /\ File(n)
    /\ handFiled' = handFiled \cup {[load |-> l, num |-> n, reissue |-> presses[p].reissue]}
    /\ IF recorded
       THEN /\ rows' = rows \cup {[load |-> l, num |-> n, via |-> "hand"]}
            /\ inflight' = inflight \ RowOf(p)
       ELSE /\ inflight' = {IF f \in RowOf(p) THEN [f EXCEPT !.state = "maybe"] ELSE f : f \in inflight}
            /\ UNCHANGED rows
    /\ Answers(p)
    /\ UNCHANGED <<claims, marker, stop, seq, givenUp, sent, outbox, delivered>>

\* The hand-off's message or POST reached the other side, whatever came back.
MayFile(p, landed) ==
    IF landed
    THEN /\ File(presses[p].num)
         /\ handFiled' = handFiled \cup {[load |-> presses[p].load, num |-> presses[p].num, reissue |-> presses[p].reissue]}
    ELSE UNCHANGED <<copies, handFiled>>

\* No answer after the message went to Gmail: maybe drafted; with n8n configured the checks
\* run again, and a refusal leaves the row and voids nothing.
PressUnanswered(p, landed) ==
    /\ presses[p].pc = "append"
    /\ MayFile(p, landed)
    /\ IF N8n /\ ~LateRefused(p)
       THEN PressGo(p, "n8n") /\ inflight' = MaybeRows(p, "n8n")
       ELSE Answers(p) /\ inflight' = MaybeRows(p, "imap")
    /\ UNCHANGED <<claims, rows, marker, stop, seq, givenUp, sent, outbox, delivered>>

\* A definite failure: no draft exists. n8n is tried when configured and still allowed, else
\* the row goes and the number is void.
PressRefusedByGmail(p) ==
    /\ presses[p].pc = "append"
    /\ IF N8n /\ ~LateRefused(p)
       THEN /\ PressGo(p, "n8n")
            /\ inflight' = (inflight \ RowOf(p)) \cup {[f EXCEPT !.path = "n8n"] : f \in RowOf(p)}
            /\ UNCHANGED givenUp
       ELSE Answers(p) /\ inflight' = inflight \ RowOf(p) /\ GivesUp(presses[p].num)
    /\ UNCHANGED <<claims, rows, marker, stop, seq, gmailVars>>

\* n8n timed out or answered non-2xx: the workflow may have made the draft.
PressN8nFailed(p, landed) ==
    /\ presses[p].pc = "n8n"
    /\ MayFile(p, landed)
    /\ Answers(p)
    /\ inflight' = MaybeRows(p, "n8n")
    /\ UNCHANGED <<claims, rows, marker, stop, seq, givenUp, sent, outbox, delivered>>

\* The process dies under the press: its row stays, and what it was handing over may land.
PressDies(p, landed) ==
    /\ presses[p].pc # "idle"
    /\ landed => presses[p].pc \in {"append", "n8n"}
    /\ MayFile(p, landed)
    /\ Answers(p)
    /\ UNCHANGED <<ledgerVars, sent, outbox, delivered>>

\* withEffective(): an in-flight row reads maybe drafted INFLIGHT_STALE_MS after its press began,
\* far longer than a press can take.
InflightStale(f) ==
    /\ f \in inflight /\ f.state = "in_flight"
    /\ \A p \in Presses : f \notin RowOf(p)
    /\ inflight' = (inflight \ {f}) \cup {[f EXCEPT !.state = "maybe"]}
    /\ UNCHANGED <<claims, rows, marker, stop, seq, givenUp, gmailVars, presses>>

\* "Check Gmail": by search, or by a person who looks; a draft not there voids its number.
ResolveInflight(f) ==
    /\ f \in inflight /\ f.state = "maybe"
    /\ inflight' = inflight \ {f}
    /\ IF copies[f.num] > 0
       THEN rows' = rows \cup {[load |-> f.load, num |-> f.num, via |-> "hand"]} /\ UNCHANGED givenUp
       ELSE GivesUp(f.num) /\ UNCHANGED rows
    /\ UNCHANGED <<claims, marker, stop, seq, gmailVars, presses>>

PressStep(p) ==
    \/ PressPrepared(p) \/ PressFailed(p) \/ PressRendered(p)
    \/ \E recorded \in BOOLEAN : PressFiled(p, recorded)
    \/ \E landed \in BOOLEAN : PressUnanswered(p, landed) \/ PressN8nFailed(p, landed) \/ PressDies(p, landed)
    \/ PressRefusedByGmail(p)

PressNext ==
    \/ \E p \in Presses : PressStep(p)
    \/ \E p \in Presses, l \in Loads, confirmReissue \in BOOLEAN : Press(p, l, confirmReissue)
    \/ \E f \in inflight : InflightStale(f) \/ ResolveInflight(f)
=============================================================================
