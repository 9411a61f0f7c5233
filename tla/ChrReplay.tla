------------------------------ MODULE ChrReplay ------------------------------
(***************************************************************************)
(* Which milestone events a load's status history makes                    *)
(* (lib/chr-events.js): the history is replayed over a stack of phases,    *)
(* each status being a step forward, a repeat, a jump past a stop, or a    *)
(* step back that takes every phase after the one it returns to off the    *)
(* stack again.  The events left on the stack are the live ones; an event  *)
(* is named by the history row that made it.                               *)
(***************************************************************************)
EXTENDS Integers, Sequences, FiniteSetsExt

\* The statuses by what the replay makes of them ("before": Dispatched, Heading to Shipper,
\* Assigned; "delivered": Delivered, Completed, POD Received), and the routes that write them:
\* "phase" is the dispatch, accept and decline routes, "manual" every other but the override.
Statuses == {"before", "shipper", "loading", "transit", "receiver", "delivered", "cancelled"}
Sources  == {"manual", "override", "phase"}

Class(status) ==
    CASE status \in {"shipper", "loading"} -> "at_pickup"
      [] status = "transit"  -> "in_transit"
      [] status = "receiver" -> "at_drop"
      [] OTHER -> status

Position(class) ==
    CASE class = "before" -> 0 [] class = "at_pickup" -> 1 [] class = "in_transit" -> 2
      [] class = "at_drop" -> 3 [] class = "delivered" -> 4

PhaseClass(phase) ==
    IF phase \in {"departed_pickup", "departed_drop"} THEN "in_transit" ELSE phase

EventNames == {"arrived_pickup", "departed_pickup", "arrived_delivery", "departed_delivery", "delivered"}

\* One phase on the stack: the pickup and the drop it is at, and the event that entered it
\* ("" for none) with its stop's number and its history row.
At(phase, k, j, event, stop, row) ==
    [phase |-> phase, k |-> k, j |-> j, event |-> event, stop |-> stop, row |-> row,
     jump |-> FALSE, multi |-> FALSE]

Bottom == At("before", 0, 0, "", 0, 0)

EntryPos(e) == Position(PhaseClass(e.phase))

Last1(j) == IF j > 1 THEN j ELSE 1

\* forward(): the phase a status leads to from phase e, if it is a step forward.
Forward(e, status, row) ==
    LET class == Class(status)
        Multi(x) == [x EXCEPT !.multi = TRUE] IN
    CASE class = "delivered" ->
            IF e.phase \in {"before", "delivered"} THEN {}
            ELSE {At("delivered", e.k, e.j, "delivered", Last1(e.j), row)}
      [] e.phase = "before" /\ status = "shipper" -> {At("at_pickup", 1, 0, "arrived_pickup", 1, row)}
      [] e.phase = "before" /\ status = "loading" -> {At("at_pickup", 1, 0, "", 0, 0)}
      [] e.phase = "before" /\ class = "in_transit" -> {At("departed_pickup", 1, 0, "departed_pickup", 1, row)}
      [] e.phase = "at_pickup" /\ class = "in_transit" -> {At("departed_pickup", e.k, e.j, "departed_pickup", e.k, row)}
      [] e.phase \in {"at_pickup", "departed_pickup"} /\ class = "at_drop" ->
            {At("at_drop", e.k, 1, "arrived_delivery", 1, row)}
      [] e.phase = "departed_pickup" /\ status = "shipper" ->
            {Multi(At("at_pickup", e.k + 1, e.j, "arrived_pickup", e.k + 1, row))}
      [] e.phase = "at_drop" /\ class = "in_transit" ->
            {Multi(At("departed_drop", e.k, e.j, "departed_delivery", e.j, row))}
      [] e.phase = "departed_drop" /\ class = "at_drop" ->
            {Multi(At("at_drop", e.k, e.j + 1, "arrived_delivery", e.j + 1, row))}
      [] OTHER -> {}

\* jumpTo(): the phase a status past a stop lands on; its event is held by the sweep.
Jump(e, class, row) ==
    LET Held(x) == [x EXCEPT !.jump = TRUE] IN
    CASE class = "at_drop"   -> {Held(At("at_drop", e.k, e.j + 1, "arrived_delivery", e.j + 1, row))}
      [] class = "delivered" -> {Held(At("delivered", e.k, e.j, "delivered", Last1(e.j), row))}
      [] OTHER -> {}

Top(stack) == stack[Len(stack)]

Pushed(stack, entries) == IF entries = {} THEN stack ELSE Append(stack, CHOOSE e \in entries : TRUE)

OrElse(entries, others) == IF entries # {} THEN entries ELSE others

ForwardOrJump(stack, status, row) ==
    Pushed(stack, OrElse(Forward(Top(stack), status, row), Jump(Top(stack), Class(status), row)))

\* Mutant: the phases after the one gone back to stay.
RewoundNot(stack, pos) == stack

\* The stack up to the last phase no later than pos.
Rewound(stack, pos) ==
    SubSeq(stack, 1, Max({i \in 1..Len(stack) : i = 1 \/ EntryPos(stack[i]) <= pos}))

\* revert(): back to the latest phase of the status's class, or the status applied from there.
ReturnedTo(back, status, row) ==
    IF PhaseClass(Top(back).phase) = Class(status) THEN back ELSE ForwardOrJump(back, status, row)

Reverted(stack, status, row) == ReturnedTo(Rewound(stack, Position(Class(status))), status, row)

\* A row that is neither a repeat nor an override backwards; next: where it leads, if forward.
Advanced(stack, r, row, next) ==
    IF next # {} THEN Pushed(stack, next)
    ELSE IF Position(Class(r.status)) > EntryPos(Top(stack)) THEN Pushed(stack, Jump(Top(stack), Class(r.status), row))
    ELSE Reverted(stack, r.status, row)

\* Mutant: an override that reads earlier is taken for the next stop, as a tap is.
StepOverrideForward(stack, r, row) ==
    CASE r.source = "phase" -> IF Top(stack).phase = "before" THEN stack ELSE Append(stack, Bottom)
      [] r.source # "phase" /\ PhaseClass(Top(stack).phase) = Class(r.status) -> stack
      [] OTHER -> Advanced(stack, r, row, Forward(Top(stack), r.status, row))

\* step(): one history row.
Step(stack, r, row) ==
    CASE r.source = "phase" -> IF Top(stack).phase = "before" THEN stack ELSE Append(stack, Bottom)
      [] r.source # "phase" /\ PhaseClass(Top(stack).phase) = Class(r.status) -> stack
      [] r.source = "override" /\ Position(Class(r.status)) < EntryPos(Top(stack)) -> Reverted(stack, r.status, row)
      [] OTHER -> Advanced(stack, r, row, Forward(Top(stack), r.status, row))

\* Mutant: a load that comes back from Cancelled takes up what it did before.
ReplayPastCancelled(history, l) ==
    LET start == IF history # <<>> /\ history[Len(history)].status = "cancelled" THEN Len(history) ELSE 0
        stack[i \in start..Len(history)] ==
            IF i = start THEN <<Bottom>>
            ELSE IF history[i].load = l /\ history[i].status # "cancelled" THEN Step(stack[i - 1], history[i], i)
            ELSE stack[i - 1]
    IN  stack[Len(history)]

\* replayLoad(): a load's rows after its last Cancelled, oldest first.
Replay(history, l) ==
    LET start == Max({0} \cup {i \in 1..Len(history) : history[i].load = l /\ history[i].status = "cancelled"})
        stack[i \in start..Len(history)] ==
            IF i = start THEN <<Bottom>>
            ELSE IF history[i].load = l THEN Step(stack[i - 1], history[i], i)
            ELSE stack[i - 1]
    IN  stack[Len(history)]

\* The live events, as the entries that made them; and the history's multi-stop signal.
Entries(stack) == {stack[i] : i \in {x \in 1..Len(stack) : stack[x].event # ""}}

LiveEntries(history, l) == Entries(Replay(history, l))

Live(history, l) == {h \in 1..Len(history) : \E e \in LiveEntries(history, l) : e.row = h}

EntryOf(history, l, h) == CHOOSE e \in LiveEntries(history, l) : e.row = h

AnyMulti(stack) == \E i \in 1..Len(stack) : stack[i].multi

MultiStop(history, l) == AnyMulti(Replay(history, l))

\* isSendable(): pickup 1 and the deliveries; no departure from a delivery.
Sendable(e) ==
    \/ e.event \in {"arrived_pickup", "departed_pickup"} /\ e.stop = 1
    \/ e.event \in {"arrived_delivery", "delivered"}
=============================================================================
