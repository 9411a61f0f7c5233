------------------------------ MODULE ChrOnce -------------------------------
(***************************************************************************)
(* What the outbox promises of its updates: one request at a time; an      *)
(* update C.H. Robinson took is never asked for again; and one that was    *)
(* closed, refused or cut off is asked for again only when a person puts   *)
(* it back.                                                                *)
(***************************************************************************)
EXTENDS Naturals

CONSTANT Updates

VARIABLES
    fate,       \* what has become of each update
    hand        \* how often a person put it back

Fates == {"none", "open", "asked", "unsure", "told", "refused", "closed"}

\* What the server may do with one update by itself.
Moves ==
    {<<"none", "open">>, <<"none", "closed">>, <<"none", "asked">>, <<"open", "closed">>, <<"open", "asked">>,
     <<"asked", "told">>, <<"asked", "refused">>, <<"asked", "open">>, <<"asked", "unsure">>}

Init == fate = [u \in Updates |-> "none"] /\ hand = [u \in Updates |-> 0]

\* The server goes on: any updates move, and one at most is being asked for.
Work ==
    /\ fate' \in [Updates -> Fates]
    /\ \A u \in Updates : fate'[u] = fate[u] \/ <<fate[u], fate'[u]>> \in Moves
    /\ \A u, v \in Updates : fate'[u] = "asked" /\ fate'[v] = "asked" => u = v
    /\ UNCHANGED hand

\* A person puts some back.
Insist(back) ==
    /\ \A u \in back : fate[u] \in {"closed", "unsure", "refused"}
    /\ fate' = [u \in Updates |-> IF u \in back THEN "open" ELSE fate[u]]
    /\ hand' = [u \in Updates |-> IF u \in back THEN hand[u] + 1 ELSE hand[u]]

Next == Work \/ \E back \in SUBSET Updates : Insist(back)

Spec == Init /\ [][Next]_<<fate, hand>>
=============================================================================
