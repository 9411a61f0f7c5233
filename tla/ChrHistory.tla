----------------------------- MODULE ChrHistory ------------------------------
(***************************************************************************)
(* A load's status history as it grows, and what its replay must keep for  *)
(* the outbox to rest on it: the outbox names a recorded event by the      *)
(* history row that made it, inserts again whatever is live each time a    *)
(* row arrives, and voids what no longer is.                               *)
(***************************************************************************)
EXTENDS ChrReplay

CONSTANTS
    Loads,
    RowStatuses,    \* the statuses and sources a history row may have
    RowSources,
    MaxHistory      \* bound on the history's length

ASSUME HistoryAssumption == RowStatuses \subseteq Statuses /\ RowSources \subseteq Sources /\ MaxHistory \in Nat

VARIABLE history

StatusRow(l, status, source) == [load |-> l, status |-> status, source |-> source]

Init == history = <<>>

\* recordStatusChange(), the one writer of the history.
AddStatus(l, status, source) ==
    /\ Len(history) < MaxHistory
    /\ history' = Append(history, StatusRow(l, status, source))

Next == \E l \in Loads, status \in RowStatuses, source \in RowSources : AddStatus(l, status, source)

Spec == Init /\ [][Next]_history

-----------------------------------------------------------------------------
\* An event a step back or a cancellation voided never becomes live again, whatever is recorded
\* after: a voided outbox row is rightly final.
VoidedForGood ==
    [][\A l \in Loads : \A h \in 1..Len(history) : h \in Live(history', l) => h \in Live(history, l)]_history

\* An override takes back every update since the load was last at a stage no later than the one
\* it sets, also where a driver's tap of the same status would be the next stop; and the load is
\* then at no later a stage.
OverrideTakesBack ==
    [][\A l \in Loads :
          LET row == history'[Len(history')]
              to  == Position(Class(row.status))
              was == Replay(history, l)
              now == Replay(history', l)
          IN  row.load = l /\ row.source = "override" /\ row.status # "cancelled" /\ to < EntryPos(Top(was)) =>
                /\ EntryPos(Top(now)) <= to
                /\ \A i \in 1..Len(was) :
                      (\A k \in i..Len(was) : EntryPos(was[k]) > to)
                          => was[i].row \notin {e.row : e \in {now[k] : k \in 1..Len(now)}} \ {0}]_history

\* Within one trip (no dispatch between) a load is delivered once, and nothing follows it.
DeliveredLast ==
    \A l \in Loads :
        LET stack == Replay(history, l) IN
        \A i \in 1..Len(stack) : stack[i].event = "delivered" => i = Len(stack) \/ stack[i + 1].phase = "before"
=============================================================================
