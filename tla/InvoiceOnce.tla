----------------------------- MODULE InvoiceOnce -----------------------------
(***************************************************************************)
(* What the automatic job, the Draft Invoice button and the factoring      *)
(* switch promise of one load's invoice together, whichever of them moves  *)
(* and however often: the broker gets at most one automatic email, never   *)
(* for a factored load and never beside a person's own draft (unless that  *)
(* person confirmed a re-issue, which this module does not count).         *)
(***************************************************************************)
CONSTANT Loads

VARIABLES
    outcome,    \* "idle", "committed" (it may go out) or "sent", by load
    factored,   \* the loads whose invoice goes through the factor
    handmade    \* the loads a person drafted in the first place

Init ==
    /\ outcome = [l \in Loads |-> "idle"]
    /\ factored = {}
    /\ handmade = {}

\* The job commits to sending: from here on it may have gone.
Commit(l) ==
    /\ outcome[l] = "idle"
    /\ l \notin factored \cup handmade
    /\ outcome' = [outcome EXCEPT ![l] = "committed"]
    /\ UNCHANGED <<factored, handmade>>

\* It went.
Send(l) ==
    /\ outcome[l] = "committed"
    /\ outcome' = [outcome EXCEPT ![l] = "sent"]
    /\ UNCHANGED <<factored, handmade>>

\* It provably did not go: the load is as it was.
Withdraw(l) ==
    /\ outcome[l] = "committed"
    /\ outcome' = [outcome EXCEPT ![l] = "idle"]
    /\ UNCHANGED <<factored, handmade>>

Factor(l) ==
    /\ outcome[l] = "idle"
    /\ factored' = factored \cup {l}
    /\ UNCHANGED <<outcome, handmade>>

Unfactor(l) ==
    /\ factored' = factored \ {l}
    /\ UNCHANGED <<outcome, handmade>>

HandDraft(l) ==
    /\ outcome[l] = "idle"
    /\ handmade' = handmade \cup {l}
    /\ UNCHANGED <<outcome, factored>>

Next == \E l \in Loads : Commit(l) \/ Send(l) \/ Withdraw(l) \/ Factor(l) \/ Unfactor(l) \/ HandDraft(l)

Spec == Init /\ [][Next]_<<outcome, factored, handmade>>
=============================================================================
