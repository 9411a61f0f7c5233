----------------------------- MODULE ReplayProofs -----------------------------
(***************************************************************************)
(* The replay of a history of any length (ChrReplay), row by row: each row *)
(* cuts the stack somewhere and pushes at most one phase, so that what is  *)
(* off the stack stays off it.  HistoryProofs and ChrProofs rest on this.  *)
(***************************************************************************)
EXTENDS ChrReplay, WellFoundedInduction, TLAPS

-----------------------------------------------------------------------------
(* Induction, for sets of numbers. *)

Below == OpToRel(<, Nat)

\* Less than is the order the induction goes down.
LEMMA BelowIs == ASSUME NEW m \in Nat, NEW n \in Nat, m < n PROVE <<m, n>> \in Below
  BY DEF Below, OpToRel

\* A set with 0 and with the successor of each of its numbers holds every number: one that is not
\* in it would have a least, and the one before that is.
LEMMA Induct ==
    ASSUME NEW S, 0 \in S, \A n \in Nat : n \in S => n + 1 \in S
    PROVE  Nat \subseteq S
  <1> SUFFICES ASSUME Nat \ S # {} PROVE FALSE
    OBVIOUS
  <1>1. IsWellFoundedOn(Below, Nat)
    BY NatLessThanWellFounded DEF Below
  <1>2. PICK x \in Nat \ S : \A y \in Nat \ S : ~(<<y, x>> \in Below)
    BY <1>1, WFMin
  <1>3. x # 0 /\ x - 1 \in Nat /\ x - 1 < x
    BY <1>2
  <1>4. x - 1 \in S
    BY <1>2, <1>3, BelowIs
  <1>5. (x - 1) + 1 = x
    BY <1>3
  <1> QED BY <1>2, <1>3, <1>4, <1>5

\* A set of numbers that has one and a bound has a greatest.
LEMMA MaxIs ==
    ASSUME NEW n \in Nat, NEW S \in SUBSET (0..n), S # {}
    PROVE  Max(S) \in S /\ \A i \in S : i <= Max(S)
  <1> DEFINE K == {m \in Nat : \A T \in SUBSET (0..m) : T # {} => \E x \in T : \A y \in T : y <= x}
  <1>1. 0 \in K
    <2>1. ASSUME NEW T \in SUBSET (0..0), T # {} PROVE \E x \in T : \A y \in T : y <= x
      <3>1. PICK x \in T : TRUE
        BY <2>1
      <3>2. x \in 0..0 /\ T \subseteq 0..0
        OBVIOUS
      <3>3. \A y \in T : y <= x
        BY <3>2
      <3> HIDE DEF K
      <3> QED BY <3>3
    <2> QED BY <2>1
  <1>2. ASSUME NEW m \in Nat, m \in K PROVE m + 1 \in K
    <2>1. ASSUME NEW T \in SUBSET (0..(m + 1)), T # {} PROVE \E x \in T : \A y \in T : y <= x
      <3>1. CASE m + 1 \in T
        BY <3>1
      <3>2. CASE m + 1 \notin T
        <4>1. T \in SUBSET (0..m)
          BY <3>2
        <4> QED BY <1>2, <2>1, <4>1
      <3> QED BY <3>1, <3>2
    <2> QED BY <2>1
  <1> HIDE DEF K
  <1>3. n \in K
    BY <1>1, <1>2, Induct
  <1>4. \E x \in S : \A y \in S : x >= y
    <2>1. \E x \in S : \A y \in S : y <= x
      BY <1>3 DEF K
    <2> QED BY <2>1
  <1>5. Max(S) \in S /\ \A y \in S : Max(S) >= y
    BY <1>4 DEF Max
  <1> QED BY <1>5

-----------------------------------------------------------------------------
(* The replay, one row at a time. *)

\* Where a load's replay starts: its last Cancelled.
Start(history, l) == Max({0} \cup {i \in 1..Len(history) : history[i].load = l /\ history[i].status = "cancelled"})

\* f has the stacks of the replay of a history's first n rows.
Replays(f, history, l, n) ==
    f = [i \in Start(history, l)..n |->
            IF i = Start(history, l) THEN <<Bottom>>
            ELSE IF history[i].load = l THEN Step(f[i - 1], history[i], i)
            ELSE f[i - 1]]

\* Where a load's rows begin: after its last Cancelled.
LEMMA StartIs ==
    ASSUME NEW history, Len(history) \in Nat, NEW l
    PROVE  /\ Start(history, l) \in 0..Len(history)
           /\ \A i \in 1..Len(history) : history[i].load = l /\ history[i].status = "cancelled" => i <= Start(history, l)
           /\ Start(history, l) # 0 => /\ history[Start(history, l)].load = l
                                      /\ history[Start(history, l)].status = "cancelled"
  <1> DEFINE S == {0} \cup {i \in 1..Len(history) : history[i].load = l /\ history[i].status = "cancelled"}
  <1>1. S \in SUBSET (0..Len(history)) /\ S # {}
    OBVIOUS
  <1>2. Max(S) \in S /\ \A i \in S : i <= Max(S)
    BY <1>1, MaxIs
  <1>3. Start(history, l) = Max(S)
    BY DEF Start
  <1> QED BY <1>1, <1>2, <1>3

\* A history has one replay.
LEMMA ReplaysOnce ==
    ASSUME NEW history, NEW l, NEW n \in Nat, Start(history, l) \in 0..n,
           NEW f, NEW g, Replays(f, history, l, n), Replays(g, history, l, n)
    PROVE  f = g
  <1> DEFINE a == Start(history, l)
             K == {m \in Nat : a + m <= n => f[a + m] = g[a + m]}
  <1>1. 0 \in K
    BY DEF Replays
  <1>2. ASSUME NEW m \in Nat, m \in K PROVE m + 1 \in K
    <2>1. CASE a + (m + 1) <= n
      <3>1. a + (m + 1) \in a..n /\ a + (m + 1) # a /\ (a + (m + 1)) - 1 = a + m /\ a + m <= n
        BY <2>1
      <3> DEFINE i == a + (m + 1)
      <3>2. i \in a..n /\ i # a /\ i - 1 = a + m
        BY <3>1
      <3>3. f[i] = (IF history[i].load = l THEN Step(f[i - 1], history[i], i) ELSE f[i - 1])
        <4> HIDE DEF i
        <4> QED BY <3>2 DEF Replays
      <3>4. g[i] = (IF history[i].load = l THEN Step(g[i - 1], history[i], i) ELSE g[i - 1])
        <4> HIDE DEF i
        <4> QED BY <3>2 DEF Replays
      <3>5. f[i - 1] = g[i - 1]
        BY <1>2, <3>1, <3>2
      <3> QED BY <3>3, <3>4, <3>5
    <2> QED BY <2>1
  <1> HIDE DEF K
  <1>3. Nat \subseteq K
    BY <1>1, <1>2, Induct
  <1>4. ASSUME NEW i \in a..n PROVE f[i] = g[i]
    <2>1. i - a \in Nat /\ a + (i - a) = i /\ i <= n
      OBVIOUS
    <2> QED BY <1>3, <2>1 DEF K
  <1>5. f = [i \in a..n |-> f[i]] /\ g = [i \in a..n |-> g[i]]
    BY DEF Replays
  <1> HIDE DEF a
  <1> QED BY <1>4, <1>5

\* The stacks of one row more.
LEMMA ReplaysMore ==
    ASSUME NEW history, NEW l, NEW n \in Nat, Start(history, l) \in 0..n, NEW f, Replays(f, history, l, n)
    PROVE  Replays([i \in Start(history, l)..(n + 1) |->
                       IF i # n + 1 THEN f[i]
                       ELSE IF history[n + 1].load = l THEN Step(f[n], history[n + 1], n + 1)
                       ELSE f[n]], history, l, n + 1)
  <1> DEFINE a == Start(history, l)
             g == [i \in a..(n + 1) |->
                       IF i # n + 1 THEN f[i]
                       ELSE IF history[n + 1].load = l THEN Step(f[n], history[n + 1], n + 1)
                       ELSE f[n]]
  <1>1. ASSUME NEW i \in a..(n + 1)
        PROVE  g[i] = IF i = a THEN <<Bottom>>
                      ELSE IF history[i].load = l THEN Step(g[i - 1], history[i], i)
                      ELSE g[i - 1]
    <2>1. CASE i = n + 1
      <3>1. g[n + 1] = (IF history[n + 1].load = l THEN Step(f[n], history[n + 1], n + 1) ELSE f[n]) /\ g[n] = f[n]
        OBVIOUS
      <3>2. n + 1 # a /\ (n + 1) - 1 = n
        OBVIOUS
      <3> HIDE DEF g, a
      <3> QED BY <2>1, <3>1, <3>2
    <2>2. CASE i # n + 1
      <3>1. i \in a..n /\ g[i] = f[i]
        BY <2>2
      <3>2. i # a => i - 1 \in a..n /\ g[i - 1] = f[i - 1]
        BY <3>1
      <3>3. f[i] = IF i = a THEN <<Bottom>> ELSE IF history[i].load = l THEN Step(f[i - 1], history[i], i) ELSE f[i - 1]
        <4> HIDE DEF g
        <4> QED BY <3>1 DEF Replays
      <3> HIDE DEF g, a
      <3> QED BY <3>1, <3>2, <3>3
    <2> QED BY <2>1, <2>2
  <1>2. g = [i \in a..(n + 1) |-> g[i]]
    OBVIOUS
  <1>3. g = [i \in a..(n + 1) |->
               IF i = a THEN <<Bottom>> ELSE IF history[i].load = l THEN Step(g[i - 1], history[i], i) ELSE g[i - 1]]
    <2> HIDE DEF g, a
    <2> QED BY <1>1, <1>2
  <1> HIDE DEF g
  <1>4. Replays(g, history, l, n + 1)
    BY <1>3 DEF Replays
  <1> QED BY <1>4 DEF g

\* And it has one.
LEMMA ReplaysExist ==
    ASSUME NEW history, Len(history) \in Nat, NEW l
    PROVE  \E f : Replays(f, history, l, Len(history))
  <1> DEFINE a == Start(history, l)
             K == {m \in Nat : \E f : Replays(f, history, l, a + m)}
  <1>1. a \in 0..Len(history)
    BY StartIs
  <1>2. 0 \in K
    <2> DEFINE f == [i \in a..a |-> <<Bottom>>]
    <2>1. f = [i \in a..a |-> IF i = a THEN <<Bottom>>
                             ELSE IF history[i].load = l THEN Step(f[i - 1], history[i], i) ELSE f[i - 1]]
      BY <1>1
    <2>2. a + 0 = a
      BY <1>1
    <2> HIDE DEF f
    <2>3. Replays(f, history, l, a + 0)
      BY <2>1, <2>2 DEF Replays
    <2> QED BY <2>3
  <1>3. ASSUME NEW m \in Nat, m \in K PROVE m + 1 \in K
    <2>1. PICK f : Replays(f, history, l, a + m)
      BY <1>3
    <2>2. a + m \in Nat /\ a \in 0..(a + m) /\ (a + m) + 1 = a + (m + 1)
      BY <1>1
    <2>3. \E g : Replays(g, history, l, (a + m) + 1)
      BY <2>1, <2>2, ReplaysMore
    <2> QED BY <2>2, <2>3
  <1> HIDE DEF K
  <1>4. Len(history) - a \in Nat /\ a + (Len(history) - a) = Len(history)
    BY <1>1
  <1>5. Len(history) - a \in K
    BY <1>2, <1>3, <1>4, Induct
  <1> QED BY <1>4, <1>5 DEF K

\* What Replay takes is the last of those stacks.
LEMMA ReplayIs ==
    ASSUME NEW history, Len(history) \in Nat, NEW l, NEW f, Replays(f, history, l, Len(history))
    PROVE  Replay(history, l) = f[Len(history)]
  <1> DEFINE a == Start(history, l)
             stack == CHOOSE g : g = [i \in a..Len(history) |->
                                       IF i = a THEN <<Bottom>>
                                       ELSE IF history[i].load = l THEN Step(g[i - 1], history[i], i)
                                       ELSE g[i - 1]]
  <1>1. Replay(history, l) = stack[Len(history)]
    BY DEF Replay, Start
  <1>2. Replays(stack, history, l, Len(history))
    <2>1. stack = CHOOSE g : Replays(g, history, l, Len(history))
      BY DEF Replays
    <2> HIDE DEF stack
    <2> QED BY <2>1
  <1> HIDE DEF stack
  <1>3. a \in 0..Len(history)
    BY StartIs
  <1>4. stack = f
    BY <1>2, <1>3, ReplaysOnce
  <1> QED BY <1>1, <1>4

\* A load's replay before anything, and after one row more.
LEMMA ReplayFirst ==
    ASSUME NEW history, Len(history) \in Nat, NEW l, Start(history, l) = Len(history)
    PROVE  Replay(history, l) = <<Bottom>>
  <1>1. PICK f : Replays(f, history, l, Len(history))
    BY ReplaysExist
  <1>2. f[Len(history)] = <<Bottom>>
    BY <1>1 DEF Replays
  <1> QED BY <1>1, <1>2, ReplayIs

\* What one row more makes of a replay.
LEMMA ReplayMore ==
    ASSUME NEW g, NEW h, Len(g) \in Nat, Len(h) = Len(g) + 1, \A i \in 1..Len(g) : h[i] = g[i], NEW l
    PROVE  LET row == h[Len(h)] IN
           Replay(h, l) = IF row.load # l THEN Replay(g, l)
                          ELSE IF row.status = "cancelled" THEN <<Bottom>>
                          ELSE Step(Replay(g, l), row, Len(h))
  <1> DEFINE n == Len(g)
             row == h[n + 1]
  <1>1. n \in Nat /\ Len(h) = n + 1 /\ Len(h) \in Nat
    OBVIOUS
  <1>2. CASE row.load = l /\ row.status = "cancelled"
    <2>1. Start(h, l) = Len(h)
      BY <1>1, <1>2, StartIs
    <2> QED BY <1>1, <1>2, <2>1, ReplayFirst
  <1>3. CASE ~(row.load = l /\ row.status = "cancelled")
    <2>1. Start(h, l) = Start(g, l) /\ Start(g, l) \in 0..n
      <3>1. /\ Start(h, l) \in 0..(n + 1)
            /\ \A i \in 1..(n + 1) : h[i].load = l /\ h[i].status = "cancelled" => i <= Start(h, l)
            /\ Start(h, l) # 0 => h[Start(h, l)].load = l /\ h[Start(h, l)].status = "cancelled"
        BY <1>1, StartIs
      <3>2. /\ Start(g, l) \in 0..n
            /\ \A i \in 1..n : g[i].load = l /\ g[i].status = "cancelled" => i <= Start(g, l)
            /\ Start(g, l) # 0 => g[Start(g, l)].load = l /\ g[Start(g, l)].status = "cancelled"
        BY <1>1, StartIs
      <3>3. Start(h, l) # n + 1
        BY <1>1, <1>3, <3>1
      <3>4. Start(h, l) <= Start(g, l)
        BY <1>1, <3>1, <3>2, <3>3
      <3>5. Start(g, l) <= Start(h, l)
        BY <1>1, <3>1, <3>2
      <3> QED BY <3>1, <3>2, <3>4, <3>5
    <2>2. PICK f : Replays(f, g, l, n)
      BY <1>1, ReplaysExist
    <2>3. Replays(f, h, l, n)
      <3> DEFINE a == Start(g, l)
      <3>1. f = [i \in a..n |-> IF i = a THEN <<Bottom>>
                              ELSE IF g[i].load = l THEN Step(f[i - 1], g[i], i) ELSE f[i - 1]]
        BY <2>2 DEF Replays
      <3>2. \A i \in a..n : i # a => h[i] = g[i]
        BY <1>1, <2>1
      <3> HIDE DEF a
      <3>3. f = [i \in a..n |-> IF i = a THEN <<Bottom>>
                              ELSE IF h[i].load = l THEN Step(f[i - 1], h[i], i) ELSE f[i - 1]]
        BY <3>1, <3>2
      <3> QED BY <2>1, <3>3 DEF Replays, a
    <2> DEFINE more == [i \in Start(h, l)..(n + 1) |->
                          IF i # n + 1 THEN f[i]
                          ELSE IF h[n + 1].load = l THEN Step(f[n], h[n + 1], n + 1)
                          ELSE f[n]]
    <2>4. Replays(more, h, l, n + 1)
      BY <1>1, <2>1, <2>3, ReplaysMore
    <2>5. more[n + 1] = IF h[n + 1].load = l THEN Step(f[n], h[n + 1], n + 1) ELSE f[n]
      BY <1>1, <2>1
    <2> HIDE DEF more
    <2>6. Replay(h, l) = more[n + 1] /\ Replay(g, l) = f[n]
      BY <1>1, <2>2, <2>4, ReplayIs
    <2> QED BY <1>1, <1>3, <2>5, <2>6
  <1> QED BY <1>2, <1>3

-----------------------------------------------------------------------------
(* What a step makes of the stack: a part of it, from the bottom, and at most one entry more. *)

Phases == {"before", "at_pickup", "departed_pickup", "at_drop", "departed_drop", "delivered"}

Entry == [phase : Phases, k : Nat, j : Nat, event : EventNames \cup {""}, stop : Nat, row : Nat,
          jump : BOOLEAN, multi : BOOLEAN]

Classes == {"before", "at_pickup", "in_transit", "at_drop", "delivered"}

\* An entry a row may make: with an event its key is the row, else it has none.
NewEntry(x, row) ==
    /\ x \in Entry
    /\ x.row = IF x.event = "" THEN 0 ELSE row
    /\ x.event = "delivered" => x.phase = "delivered"

\* t is a part of s from the bottom, at least its first entry, or that and one entry of this row's.
CutAndPushed(s, t, row) ==
    \E m \in 1..Len(s) :
       \/ t = SubSeq(s, 1, m)
       \/ \E x : /\ NewEntry(x, row) /\ t = Append(SubSeq(s, 1, m), x)
                 /\ s[m].phase = "delivered" => x.phase = "before"

Stack(s) == s \in Seq(Entry) /\ Len(s) > 0 /\ s[1] = Bottom

\* Every status but Cancelled has a place on the trip.
LEMMA ClassIs ==
    ASSUME NEW status \in Statuses \ {"cancelled"}
    PROVE  Class(status) \in Classes /\ Position(Class(status)) \in 0..4
  BY DEF Statuses, Class, Classes, Position

\* The places are in order, and delivered is the last.
LEMMA PositionsApart ==
    /\ \A c \in Classes : Position(c) \in 0..4
    /\ \A c, d \in Classes : Position(c) = Position(d) => c = d
    /\ \A c \in Classes : Position(c) >= 4 => c = "delivered"
    /\ Position("before") = 0
  <1>1. /\ Position("before") = 0 /\ Position("at_pickup") = 1 /\ Position("in_transit") = 2
        /\ Position("at_drop") = 3 /\ Position("delivered") = 4
    BY DEF Position
  <1>2. \A c \in Classes : c = "before" \/ c = "at_pickup" \/ c = "in_transit" \/ c = "at_drop" \/ c = "delivered"
    BY DEF Classes
  <1>3. \A c \in Classes : Position(c) \in 0..4
    BY <1>1, <1>2
  <1>4. \A c \in Classes : Position(c) >= 4 => c = "delivered"
    BY <1>1, <1>2
  <1>5. ASSUME NEW c \in Classes, NEW d \in Classes, Position(c) = Position(d) PROVE c = d
    BY <1>1, <1>2, <1>5
  <1> QED BY <1>1, <1>3, <1>4, <1>5

\* So are the phases'.
LEMMA PhaseIs ==
    ASSUME NEW phase \in Phases
    PROVE  /\ PhaseClass(phase) \in Classes
           /\ PhaseClass(phase) = "delivered" => phase = "delivered"
           /\ PhaseClass("delivered") = "delivered"
  BY DEF Phases, PhaseClass, Classes

\* The numbers and the phase of an entry.
LEMMA EntryHas ==
    ASSUME NEW e \in Entry
    PROVE  /\ e.k \in Nat /\ e.j \in Nat /\ Last1(e.j) \in Nat /\ e.k + 1 \in Nat /\ e.j + 1 \in Nat
           /\ e.phase \in Phases
  <1>1. e.k \in Nat /\ e.j \in Nat /\ e.phase \in Phases
    BY DEF Entry
  <1>2. ASSUME NEW n \in Nat PROVE Last1(n) \in Nat /\ n + 1 \in Nat
    BY DEF Last1
  <1> QED BY <1>1, <1>2

MultiOf(x) == [x EXCEPT !.multi = TRUE]
JumpOf(x) == [x EXCEPT !.jump = TRUE]

\* The marks of a second stop and of a jump leave the rest of an entry.
LEMMA MarkKeeps ==
    ASSUME NEW x \in Entry
    PROVE  /\ MultiOf(x) \in Entry /\ MultiOf(x).phase = x.phase /\ MultiOf(x).event = x.event /\ MultiOf(x).row = x.row
           /\ JumpOf(x) \in Entry /\ JumpOf(x).phase = x.phase /\ JumpOf(x).event = x.event /\ JumpOf(x).row = x.row
  BY DEF MultiOf, JumpOf, Entry

Makes(x, phase, row) == NewEntry(x, row) /\ x.phase = phase

\* An entry with an event, marked or not.
LEMMA EventMakes ==
    ASSUME NEW phase \in Phases, NEW k \in Nat, NEW j \in Nat, NEW event \in EventNames, NEW stop \in Nat,
           NEW row \in Nat, phase = "delivered" \/ event # "delivered"
    PROVE  /\ Makes(At(phase, k, j, event, stop, row), phase, row)
           /\ Makes(MultiOf(At(phase, k, j, event, stop, row)), phase, row)
           /\ Makes(JumpOf(At(phase, k, j, event, stop, row)), phase, row)
  <1> DEFINE y == At(phase, k, j, event, stop, row)
  <1>1. event \in EventNames \cup {""} /\ event # ""
    BY DEF EventNames
  <1>2. y \in Entry /\ y.phase = phase /\ y.event = event /\ y.row = row
    BY <1>1 DEF At, Entry
  <1> HIDE DEF y
  <1>3. Makes(y, phase, row)
    BY <1>1, <1>2 DEF NewEntry, Makes
  <1>4. Makes(MultiOf(y), phase, row)
    BY <1>1, <1>2, MarkKeeps DEF NewEntry, Makes
  <1>5. Makes(JumpOf(y), phase, row)
    BY <1>1, <1>2, MarkKeeps DEF NewEntry, Makes
  <1> QED BY <1>3, <1>4, <1>5 DEF y

\* A step forward: a new entry of the row, of the status's class, and never after delivered.
LEMMA ForwardMakes ==
    ASSUME NEW e \in Entry, NEW status \in Statuses \ {"cancelled"}, NEW row \in Nat, NEW x \in Forward(e, status, row)
    PROVE  NewEntry(x, row) /\ e.phase # "delivered" /\ PhaseClass(x.phase) = Class(status)
  <1> DEFINE k == e.k
             j == e.j
             k1 == e.k + 1
             j1 == e.j + 1
             last == Last1(e.j)
  <1>1. k \in Nat /\ j \in Nat /\ last \in Nat /\ k1 \in Nat /\ j1 \in Nat /\ e.phase \in Phases
    BY EntryHas
  <1>2. \/ /\ Class(status) = "delivered" /\ e.phase # "delivered"
           /\ x = At("delivered", k, j, "delivered", last, row)
        \/ e.phase = "before" /\ status = "shipper" /\ x = At("at_pickup", 1, 0, "arrived_pickup", 1, row)
        \/ e.phase = "before" /\ status = "loading" /\ x = At("at_pickup", 1, 0, "", 0, 0)
        \/ /\ e.phase = "before" /\ Class(status) = "in_transit"
           /\ x = At("departed_pickup", 1, 0, "departed_pickup", 1, row)
        \/ /\ e.phase = "at_pickup" /\ Class(status) = "in_transit"
           /\ x = At("departed_pickup", k, j, "departed_pickup", k, row)
        \/ /\ e.phase \in {"at_pickup", "departed_pickup"} /\ Class(status) = "at_drop"
           /\ x = At("at_drop", k, 1, "arrived_delivery", 1, row)
        \/ /\ e.phase = "departed_pickup" /\ status = "shipper"
           /\ x = MultiOf(At("at_pickup", k1, j, "arrived_pickup", k1, row))
        \/ /\ e.phase = "at_drop" /\ Class(status) = "in_transit"
           /\ x = MultiOf(At("departed_drop", k, j, "departed_delivery", j, row))
        \/ /\ e.phase = "departed_drop" /\ Class(status) = "at_drop"
           /\ x = MultiOf(At("at_drop", k, j1, "arrived_delivery", j1, row))
    BY ZenonT(60) DEF Forward, MultiOf
  <1> HIDE DEF k, j, k1, j1, last
  <1>3. Class("shipper") = "at_pickup" /\ Class("loading") = "at_pickup"
    BY DEF Class
  <1>4. /\ PhaseClass("delivered") = "delivered" /\ PhaseClass("at_pickup") = "at_pickup"
        /\ PhaseClass("departed_pickup") = "in_transit" /\ PhaseClass("departed_drop") = "in_transit"
        /\ PhaseClass("at_drop") = "at_drop"
    BY DEF PhaseClass
  <1>5. /\ "delivered" \in Phases /\ "at_pickup" \in Phases /\ "departed_pickup" \in Phases
        /\ "at_drop" \in Phases /\ "departed_drop" \in Phases
        /\ "delivered" \in EventNames /\ "arrived_pickup" \in EventNames /\ "departed_pickup" \in EventNames
        /\ "arrived_delivery" \in EventNames /\ "departed_delivery" \in EventNames
        /\ 1 \in Nat /\ 0 \in Nat
    BY DEF Phases, EventNames
  <1>6. CASE /\ Class(status) = "delivered" /\ e.phase # "delivered"
             /\ x = At("delivered", k, j, "delivered", last, row)
    <2>1. Makes(At("delivered", k, j, "delivered", last, row), "delivered", row)
      BY <1>1, <1>5, EventMakes
    <2> QED BY <1>4, <1>6, <2>1 DEF Makes
  <1>7. CASE e.phase = "before" /\ status = "shipper" /\ x = At("at_pickup", 1, 0, "arrived_pickup", 1, row)
    <2>1. Makes(At("at_pickup", 1, 0, "arrived_pickup", 1, row), "at_pickup", row)
      BY <1>5, EventMakes
    <2> QED BY <1>3, <1>4, <1>7, <2>1 DEF Makes
  <1>8. CASE e.phase = "before" /\ status = "loading" /\ x = At("at_pickup", 1, 0, "", 0, 0)
    <2>1. "" \in EventNames \cup {""}
      OBVIOUS
    <2>2. /\ At("at_pickup", 1, 0, "", 0, 0) \in Entry /\ At("at_pickup", 1, 0, "", 0, 0).phase = "at_pickup"
          /\ At("at_pickup", 1, 0, "", 0, 0).event = "" /\ At("at_pickup", 1, 0, "", 0, 0).row = 0
      BY <1>5, <2>1 DEF At, Entry
    <2> QED BY <1>3, <1>4, <1>8, <2>2 DEF NewEntry
  <1>9. CASE /\ e.phase = "before" /\ Class(status) = "in_transit"
             /\ x = At("departed_pickup", 1, 0, "departed_pickup", 1, row)
    <2>1. Makes(At("departed_pickup", 1, 0, "departed_pickup", 1, row), "departed_pickup", row)
      BY <1>5, EventMakes
    <2> QED BY <1>4, <1>9, <2>1 DEF Makes
  <1>10. CASE /\ e.phase = "at_pickup" /\ Class(status) = "in_transit"
              /\ x = At("departed_pickup", k, j, "departed_pickup", k, row)
    <2>1. Makes(At("departed_pickup", k, j, "departed_pickup", k, row), "departed_pickup", row)
      BY <1>1, <1>5, EventMakes
    <2> QED BY <1>4, <1>10, <2>1 DEF Makes
  <1>11. CASE /\ e.phase \in {"at_pickup", "departed_pickup"} /\ Class(status) = "at_drop"
              /\ x = At("at_drop", k, 1, "arrived_delivery", 1, row)
    <2>1. Makes(At("at_drop", k, 1, "arrived_delivery", 1, row), "at_drop", row)
      BY <1>1, <1>5, EventMakes
    <2> QED BY <1>4, <1>11, <2>1 DEF Makes
  <1>12. CASE /\ e.phase = "departed_pickup" /\ status = "shipper"
              /\ x = MultiOf(At("at_pickup", k1, j, "arrived_pickup", k1, row))
    <2>1. Makes(MultiOf(At("at_pickup", k1, j, "arrived_pickup", k1, row)), "at_pickup", row)
      BY <1>1, <1>5, EventMakes
    <2> QED BY <1>3, <1>4, <1>12, <2>1 DEF Makes
  <1>13. CASE /\ e.phase = "at_drop" /\ Class(status) = "in_transit"
              /\ x = MultiOf(At("departed_drop", k, j, "departed_delivery", j, row))
    <2>1. Makes(MultiOf(At("departed_drop", k, j, "departed_delivery", j, row)), "departed_drop", row)
      BY <1>1, <1>5, EventMakes
    <2> QED BY <1>4, <1>13, <2>1 DEF Makes
  <1>14. CASE /\ e.phase = "departed_drop" /\ Class(status) = "at_drop"
              /\ x = MultiOf(At("at_drop", k, j1, "arrived_delivery", j1, row))
    <2>1. Makes(MultiOf(At("at_drop", k, j1, "arrived_delivery", j1, row)), "at_drop", row)
      BY <1>1, <1>5, EventMakes
    <2> QED BY <1>4, <1>14, <2>1 DEF Makes
  <1> QED BY <1>2, <1>6, <1>7, <1>8, <1>9, <1>10, <1>11, <1>12, <1>13, <1>14

\* A jump: the same, of the class it lands on.
LEMMA JumpMakes ==
    ASSUME NEW e \in Entry, NEW class \in Classes, NEW row \in Nat, NEW x \in Jump(e, class, row)
    PROVE  NewEntry(x, row) /\ PhaseClass(x.phase) = class
  <1> DEFINE k == e.k
             j == e.j
             j1 == e.j + 1
             last == Last1(e.j)
  <1>1. k \in Nat /\ j \in Nat /\ last \in Nat /\ j1 \in Nat
    BY EntryHas
  <1>2. \/ class = "at_drop" /\ x = JumpOf(At("at_drop", k, j1, "arrived_delivery", j1, row))
        \/ class = "delivered" /\ x = JumpOf(At("delivered", k, j, "delivered", last, row))
    BY DEF Jump, JumpOf
  <1> HIDE DEF k, j, j1, last
  <1>3. /\ "delivered" \in Phases /\ "at_drop" \in Phases /\ "delivered" \in EventNames /\ "arrived_delivery" \in EventNames
        /\ PhaseClass("delivered") = "delivered" /\ PhaseClass("at_drop") = "at_drop"
    BY DEF Phases, EventNames, PhaseClass
  <1>4. /\ Makes(JumpOf(At("at_drop", k, j1, "arrived_delivery", j1, row)), "at_drop", row)
        /\ Makes(JumpOf(At("delivered", k, j, "delivered", last, row)), "delivered", row)
    BY <1>1, <1>3, EventMakes
  <1> QED BY <1>2, <1>3, <1>4 DEF Makes
-----------------------------------------------------------------------------
(* The operators on the stack. *)

\* Where every trip starts.
LEMMA BottomIs ==
    /\ Bottom \in Entry /\ Bottom.phase = "before" /\ Bottom.event = "" /\ Bottom.row = 0
    /\ EntryPos(Bottom) = 0 /\ \A row \in Nat : NewEntry(Bottom, row)
  <1>1. "before" \in Phases /\ "" \in EventNames \cup {""}
    BY DEF Phases
  <1>2. Bottom \in Entry /\ Bottom.phase = "before" /\ Bottom.event = "" /\ Bottom.row = 0
    BY <1>1 DEF Bottom, At, Entry
  <1>3. EntryPos(Bottom) = 0
    BY <1>2, PositionsApart DEF EntryPos, PhaseClass
  <1> QED BY <1>2, <1>3 DEF NewEntry

\* An entry's place; delivered has the last.
LEMMA EntryPosIs ==
    ASSUME NEW e \in Entry
    PROVE  EntryPos(e) \in 0..4 /\ PhaseClass(e.phase) \in Classes /\ (e.phase = "delivered" => EntryPos(e) = 4)
  <1>1. PhaseClass(e.phase) \in Classes
    BY EntryHas, PhaseIs
  <1>2. EntryPos(e) \in 0..4
    BY <1>1, PositionsApart DEF EntryPos
  <1>3. e.phase = "delivered" => EntryPos(e) = 4
    BY DEF EntryPos, PhaseClass, Position
  <1> QED BY <1>1, <1>2, <1>3

\* A stack cut at m.
LEMMA CutIs ==
    ASSUME NEW s, Stack(s), NEW m \in 1..Len(s)
    PROVE  /\ SubSeq(s, 1, m) \in Seq(Entry) /\ Len(SubSeq(s, 1, m)) = m
           /\ \A i \in 1..m : SubSeq(s, 1, m)[i] = s[i]
           /\ Top(SubSeq(s, 1, m)) = s[m] /\ s[m] \in Entry
           /\ Len(s) \in Nat /\ m \in Nat
  BY DEF Stack, Top

\* A stack is itself, cut at its length.
LEMMA AllOfIt ==
    ASSUME NEW s, Stack(s)
    PROVE  Len(s) \in 1..Len(s) /\ s = SubSeq(s, 1, Len(s)) /\ Top(s) = s[Len(s)] /\ Top(s) \in Entry
  BY DEF Stack, Top

\* Cut at 1, it is new.
LEMMA FirstIs == ASSUME NEW s, Stack(s) PROVE 1 \in 1..Len(s) /\ SubSeq(s, 1, 1) = <<Bottom>>
  <1>1. 1 \in 1..Len(s) /\ s[1] = Bottom
    BY DEF Stack
  <1>2. ASSUME NEW c, c \in Seq(Entry), Len(c) = 1, c[1] = Bottom PROVE c = <<Bottom>>
    BY <1>2
  <1>3. SubSeq(s, 1, 1) \in Seq(Entry) /\ Len(SubSeq(s, 1, 1)) = 1 /\ SubSeq(s, 1, 1)[1] = Bottom
    BY <1>1, CutIs
  <1> QED BY <1>1, <1>2, <1>3

\* A push leaves the stack or puts one entry on it.
LEMMA PushedIs ==
    ASSUME NEW s, NEW es
    PROVE  Pushed(s, es) = s \/ \E x \in es : Pushed(s, es) = Append(s, x)
  BY DEF Pushed

\* Rewinding to pos cuts the stack after its last entry no later than pos.
LEMMA RewoundIs ==
    ASSUME NEW s, Stack(s), NEW pos \in Nat
    PROVE  \E m \in 1..Len(s) :
              /\ Rewound(s, pos) = SubSeq(s, 1, m)
              /\ EntryPos(s[m]) <= pos
              /\ \A i \in 1..Len(s) : i > m => EntryPos(s[i]) > pos
  <1> DEFINE S == {i \in 1..Len(s) : i = 1 \/ EntryPos(s[i]) <= pos}
             m == Max(S)
  <1>1. Len(s) \in Nat /\ 1 \in 1..Len(s) /\ s[1] = Bottom /\ \A i \in 1..Len(s) : s[i] \in Entry
    BY DEF Stack
  <1>2. S \in SUBSET (0..Len(s)) /\ S # {}
    BY <1>1
  <1>3. m \in S /\ \A i \in S : i <= m
    <2> HIDE DEF S
    <2> QED BY <1>1, <1>2, MaxIs
  <1>4. Rewound(s, pos) = SubSeq(s, 1, m)
    BY DEF Rewound
  <1> HIDE DEF m
  <1>5. EntryPos(s[m]) <= pos
    <2>1. m = 1 \/ EntryPos(s[m]) <= pos
      BY <1>3
    <2>2. CASE m = 1
      <3>1. EntryPos(s[m]) = 0
        BY <1>1, <2>2, BottomIs
      <3> QED BY <3>1
    <2> QED BY <2>1, <2>2
  <1>6. ASSUME NEW i \in 1..Len(s), i > m PROVE EntryPos(s[i]) > pos
    <2>1. i \notin S
      BY <1>1, <1>3, <1>6
    <2> QED BY <1>1, <2>1, EntryPosIs
  <1> QED BY <1>1, <1>3, <1>4, <1>5, <1>6

\* Back to the last entry no later than the status's class, and no further.
Back(s, t, status, row) ==
    \E m \in 1..Len(s) :
       /\ EntryPos(s[m]) <= Position(Class(status))
       /\ \A i \in 1..Len(s) : i > m => EntryPos(s[i]) > Position(Class(status))
       /\ \/ t = SubSeq(s, 1, m)
          \/ \E x : /\ NewEntry(x, row) /\ PhaseClass(x.phase) = Class(status) /\ t = Append(SubSeq(s, 1, m), x)
                    /\ s[m].phase # "delivered"

\* A step back cuts every phase later than the status, and pushes at most one, no later than it.
LEMMA RevertedIs ==
    ASSUME NEW s, Stack(s), NEW status \in Statuses \ {"cancelled"}, NEW row \in Nat
    PROVE  Back(s, Reverted(s, status, row), status, row)
  <1> DEFINE pos == Position(Class(status))
             class == Class(status)
  <1>1. class \in Classes /\ pos \in Nat /\ pos <= 4
    BY ClassIs
  <1>2. PICK m \in 1..Len(s) :
           /\ Rewound(s, pos) = SubSeq(s, 1, m)
           /\ EntryPos(s[m]) <= pos
           /\ \A i \in 1..Len(s) : i > m => EntryPos(s[i]) > pos
    BY <1>1, RewoundIs
  <1> DEFINE back == SubSeq(s, 1, m)
  <1>3. Top(back) = s[m] /\ s[m] \in Entry
    BY CutIs
  <1>4. Reverted(s, status, row) = ReturnedTo(back, status, row)
    BY <1>2 DEF Reverted
  <1> HIDE DEF back
  <1>5. CASE PhaseClass(s[m].phase) = class
    <2>1. Reverted(s, status, row) = back
      BY <1>3, <1>4, <1>5 DEF ReturnedTo
    <2> QED BY <1>2, <2>1 DEF Back, back
  <1>6. CASE PhaseClass(s[m].phase) # class
    <2> DEFINE es == OrElse(Forward(s[m], status, row), Jump(s[m], class, row))
    <2>1. Reverted(s, status, row) = Pushed(back, es)
      BY <1>3, <1>4, <1>6 DEF ReturnedTo, ForwardOrJump
    <2>2. ASSUME NEW x \in es PROVE NewEntry(x, row) /\ PhaseClass(x.phase) = class
      <3>1. x \in Forward(s[m], status, row) \/ x \in Jump(s[m], class, row)
        BY <2>2 DEF OrElse
      <3>2. CASE x \in Forward(s[m], status, row)
        BY <1>3, <3>2, ForwardMakes
      <3>3. CASE x \in Jump(s[m], class, row)
        BY <1>1, <1>3, <3>3, JumpMakes
      <3> QED BY <3>1, <3>2, <3>3
    <2>3. s[m].phase # "delivered"
      <3> SUFFICES ASSUME s[m].phase = "delivered" PROVE FALSE
        OBVIOUS
      <3>1. pos >= 4
        BY <1>1, <1>2, <1>3, EntryPosIs
      <3>2. class = "delivered"
        BY <1>1, <3>1, PositionsApart
      <3> QED BY <1>6, <3>2 DEF PhaseClass
    <2> HIDE DEF es
    <2>4. Pushed(back, es) = back \/ \E x \in es : Pushed(back, es) = Append(back, x)
      BY PushedIs
    <2>5. CASE Pushed(back, es) = back
      BY <1>2, <2>1, <2>5 DEF Back, back
    <2>6. CASE \E x \in es : Pushed(back, es) = Append(back, x)
      <3>1. PICK x \in es : Pushed(back, es) = Append(back, x)
        BY <2>6
      <3>2. NewEntry(x, row) /\ PhaseClass(x.phase) = class
        BY <2>2
      <3> QED BY <1>2, <2>1, <2>3, <3>1, <3>2 DEF Back, back
    <2> QED BY <2>4, <2>5, <2>6
  <1> QED BY <1>5, <1>6

\* A push cuts nothing.
LEMMA PushedOn ==
    ASSUME NEW s, Stack(s), NEW row, NEW es, \A x \in es : NewEntry(x, row), es # {} => Top(s).phase # "delivered"
    PROVE  CutAndPushed(s, Pushed(s, es), row)
  <1>1. Len(s) \in 1..Len(s) /\ s = SubSeq(s, 1, Len(s)) /\ Top(s) = s[Len(s)]
    BY AllOfIt
  <1>2. CASE Pushed(s, es) = s
    BY <1>1, <1>2 DEF CutAndPushed
  <1>3. CASE \E x \in es : Pushed(s, es) = Append(s, x)
    <2>1. PICK x \in es : Pushed(s, es) = Append(s, x)
      BY <1>3
    <2>2. NewEntry(x, row) /\ s[Len(s)].phase # "delivered"
      BY <1>1
    <2> QED BY <1>1, <2>1, <2>2 DEF CutAndPushed
  <1> QED BY <1>2, <1>3, PushedIs

\* One row moves the stack by a cut and at most one entry.
LEMMA StepIs ==
    ASSUME NEW s, Stack(s), NEW r, r.status \in Statuses \ {"cancelled"}, NEW row \in Nat
    PROVE  CutAndPushed(s, Step(s, r, row), row)
  <1> DEFINE class == Class(r.status)
             next == Forward(Top(s), r.status, row)
             jump == Jump(Top(s), class, row)
  <1>1. Len(s) \in 1..Len(s) /\ s = SubSeq(s, 1, Len(s)) /\ Top(s) \in Entry
    BY AllOfIt
  <1>2. class \in Classes /\ Position(class) \in 0..4
    BY ClassIs
  <1>3. CutAndPushed(s, s, row)
    BY <1>1 DEF CutAndPushed
  <1>4. CutAndPushed(s, Reverted(s, r.status, row), row)
    <2>1. Back(s, Reverted(s, r.status, row), r.status, row)
      BY RevertedIs
    <2> QED BY <2>1 DEF Back, CutAndPushed
  <1>5. CutAndPushed(s, Append(s, Bottom), row)
    <2>1. NewEntry(Bottom, row) /\ Bottom.phase = "before"
      BY BottomIs
    <2> QED BY <1>1, <2>1 DEF CutAndPushed
  <1>6. CutAndPushed(s, Pushed(s, next), row)
    <2>1. \A x \in next : NewEntry(x, row) /\ Top(s).phase # "delivered"
      BY <1>1, ForwardMakes
    <2>2. (\A x \in next : NewEntry(x, row)) /\ (next # {} => Top(s).phase # "delivered")
      <3> HIDE DEF next
      <3> QED BY <2>1
    <2> HIDE DEF next
    <2> QED BY <2>2, PushedOn
  <1>7. ASSUME Position(class) > EntryPos(Top(s)) PROVE CutAndPushed(s, Pushed(s, jump), row)
    <2>1. \A x \in jump : NewEntry(x, row)
      BY <1>1, <1>2, JumpMakes
    <2>2. Top(s).phase # "delivered"
      BY <1>1, <1>2, <1>7, EntryPosIs
    <2> HIDE DEF jump
    <2> QED BY <2>1, <2>2, PushedOn
  <1>8. \/ Step(s, r, row) = s
        \/ Step(s, r, row) = Append(s, Bottom)
        \/ Step(s, r, row) = Reverted(s, r.status, row)
        \/ Step(s, r, row) = Advanced(s, r, row, next)
    BY DEF Step
  <1>9. \/ Advanced(s, r, row, next) = Pushed(s, next)
        \/ Position(class) > EntryPos(Top(s)) /\ Advanced(s, r, row, next) = Pushed(s, jump)
        \/ Advanced(s, r, row, next) = Reverted(s, r.status, row)
    BY DEF Advanced
  <1> HIDE DEF next, jump, class
  <1> QED BY <1>3, <1>4, <1>5, <1>6, <1>7, <1>8, <1>9

-----------------------------------------------------------------------------
(* What holds of every stack a history makes. *)

\* An entry's event is named by a row of R, and no event by none.
Named(e, R) ==
    /\ e.row \in R \cup {0}
    /\ e.event = "" <=> e.row = 0
    /\ e.event = "delivered" => e.phase = "delivered"

\* Nothing follows a delivery but a new trip.
EndsTrip(s, i) == s[i].phase = "delivered" => i = Len(s) \/ s[i + 1].phase = "before"

\* Each entry's event is named by a row of R, each by its own.
OnStack(s, R) ==
    /\ Stack(s)
    /\ \A i \in 1..Len(s) : Named(s[i], R) /\ EndsTrip(s, i)
    /\ \A i, j \in 1..Len(s) : s[i].row = s[j].row /\ s[i].row # 0 => i = j

\* A stack has a length and a bottom.
LEMMA StackLen == ASSUME NEW s, Stack(s) PROVE Len(s) \in Nat /\ 1 \in 1..Len(s) /\ s[1] = Bottom
  BY DEF Stack

\* An entry named by one of R is named by one of more.
LEMMA NamedStays ==
    ASSUME NEW e, NEW R, NEW row, Named(e, R) PROVE Named(e, R \cup {row})
  BY DEF Named

\* An entry of the row is named by it.
LEMMA NewNamed ==
    ASSUME NEW e, NEW R, NEW row, row # 0, NewEntry(e, row) PROVE Named(e, R \cup {row})
  BY DEF NewEntry, Named

\* A new trip's stack.
LEMMA FirstOnStack == ASSUME NEW R PROVE OnStack(<<Bottom>>, R)
  <1>1. ASSUME NEW s, s = <<Bottom>> PROVE OnStack(s, R)
    <2>1. Bottom \in Entry /\ Named(Bottom, R)
      BY BottomIs DEF Named
    <2>2. s \in Seq(Entry) /\ Len(s) = 1 /\ s[1] = Bottom
      BY <1>1, <2>1
    <2>3. ASSUME NEW i \in 1..Len(s) PROVE i = 1 /\ Named(s[i], R) /\ EndsTrip(s, i)
      <3>1. i = 1
        BY <2>2
      <3> QED BY <2>1, <2>2, <3>1 DEF EndsTrip
    <2> QED BY <2>2, <2>3 DEF OnStack, Stack
  <1> QED BY <1>1

\* A row that cuts and pushes keeps the stack's shape.
LEMMA StackStays ==
    ASSUME NEW s, NEW R, OnStack(s, R), NEW row \in Nat \ {0}, row \notin R, NEW t, CutAndPushed(s, t, row)
    PROVE  OnStack(t, R \cup {row})
  <1>1. /\ Stack(s) /\ \A i \in 1..Len(s) : Named(s[i], R) /\ EndsTrip(s, i)
        /\ \A i, j \in 1..Len(s) : s[i].row = s[j].row /\ s[i].row # 0 => i = j
    BY DEF OnStack
  <1>2. Len(s) \in Nat /\ 1 \in 1..Len(s) /\ s[1] = Bottom
    BY <1>1, StackLen
  <1>3. PICK m \in 1..Len(s) :
           \/ t = SubSeq(s, 1, m)
           \/ \E x : /\ NewEntry(x, row) /\ t = Append(SubSeq(s, 1, m), x)
                     /\ s[m].phase = "delivered" => x.phase = "before"
    BY DEF CutAndPushed
  <1> DEFINE c == SubSeq(s, 1, m)
  <1>4. c \in Seq(Entry) /\ Len(c) = m /\ (\A i \in 1..m : c[i] = s[i]) /\ m \in Nat /\ 1 \in 1..m
    BY <1>1, CutIs
  <1> HIDE DEF c
  <1>5. \A i \in 1..m : i \in 1..Len(s) /\ Named(s[i], R \cup {row}) /\ s[i].row # row
    <2>1. ASSUME NEW i \in 1..m PROVE i \in 1..Len(s)
      BY <1>2
    <2>2. ASSUME NEW i \in 1..m PROVE Named(s[i], R \cup {row}) /\ s[i].row # row
      <3>1. Named(s[i], R)
        BY <1>1, <2>1
      <3> QED BY <3>1, NamedStays DEF Named
    <2> QED BY <2>1, <2>2
  <1>6. ASSUME NEW i \in 1..m, i # m PROVE i + 1 \in 1..m /\ (s[i].phase = "delivered" => s[i + 1].phase = "before")
    <2>1. i + 1 \in 1..m /\ i # Len(s) /\ i \in 1..Len(s)
      BY <1>2, <1>6
    <2> QED BY <1>1, <2>1 DEF EndsTrip
  <1>7. CASE t = c
    <2>1. t \in Seq(Entry) /\ Len(t) = m /\ \A i \in 1..m : t[i] = s[i]
      BY <1>4, <1>7
    <2>2. Stack(t)
      BY <1>2, <1>4, <2>1 DEF Stack
    <2>3. ASSUME NEW i \in 1..m PROVE Named(t[i], R \cup {row}) /\ EndsTrip(t, i)
      <3>1. t[i] = s[i] /\ (i # m => t[i + 1] = s[i + 1])
        BY <1>6, <2>1
      <3> QED BY <1>5, <1>6, <2>1, <3>1 DEF EndsTrip
    <2>4. ASSUME NEW i \in 1..m, NEW j \in 1..m, t[i].row = t[j].row, t[i].row # 0 PROVE i = j
      <3>1. t[i] = s[i] /\ t[j] = s[j] /\ i \in 1..Len(s) /\ j \in 1..Len(s)
        BY <1>5, <2>1
      <3> QED BY <1>1, <2>4, <3>1
    <2> QED BY <2>1, <2>2, <2>3, <2>4 DEF OnStack
  <1>8. CASE \E x : /\ NewEntry(x, row) /\ t = Append(c, x)
                    /\ s[m].phase = "delivered" => x.phase = "before"
    <2>1. PICK x : /\ NewEntry(x, row) /\ t = Append(c, x)
                   /\ s[m].phase = "delivered" => x.phase = "before"
      BY <1>8
    <2>2. x \in Entry /\ x.row \in {0, row} /\ Named(x, R \cup {row})
      BY <2>1, NewNamed DEF NewEntry
    <2>3. t \in Seq(Entry) /\ Len(t) = m + 1 /\ (\A i \in 1..m : t[i] = c[i]) /\ t[m + 1] = x
      <3>1. x \in Entry /\ t = Append(c, x)
        BY <2>1, <2>2
      <3> QED BY <1>4, <3>1
    <2>4. \A i \in 1..m : t[i] = s[i]
      BY <1>4, <2>3
    <2>5. Stack(t)
      BY <1>2, <1>4, <2>3, <2>4 DEF Stack
    <2>6. \A i \in 1..(m + 1) : i = m + 1 \/ i \in 1..m
      BY <1>4
    <2>7. ASSUME NEW i \in 1..(m + 1) PROVE Named(t[i], R \cup {row}) /\ EndsTrip(t, i)
      <3>1. CASE i = m + 1
        BY <2>2, <2>3, <3>1 DEF EndsTrip
      <3>2. CASE i \in 1..m /\ i # m
        <4>1. t[i] = s[i] /\ t[i + 1] = s[i + 1] /\ (s[i].phase = "delivered" => s[i + 1].phase = "before")
          BY <1>6, <2>4, <3>2
        <4> QED BY <1>5, <3>2, <4>1 DEF EndsTrip
      <3>3. CASE i = m
        <4>1. t[i] = s[m] /\ t[i + 1] = x /\ m \in 1..m
          BY <1>4, <2>3, <2>4, <3>3
        <4> QED BY <1>5, <2>1, <3>3, <4>1 DEF EndsTrip
      <3> QED BY <2>6, <3>1, <3>2, <3>3
    <2>8. ASSUME NEW i \in 1..(m + 1), NEW j \in 1..(m + 1), t[i].row = t[j].row, t[i].row # 0 PROVE i = j
      <3>1. CASE i = m + 1 /\ j \in 1..m
        BY <1>5, <2>2, <2>3, <2>4, <2>8, <3>1
      <3>2. CASE i \in 1..m /\ j = m + 1
        BY <1>5, <2>2, <2>3, <2>4, <2>8, <3>2
      <3>3. CASE i \in 1..m /\ j \in 1..m
        <4>1. t[i] = s[i] /\ t[j] = s[j] /\ i \in 1..Len(s) /\ j \in 1..Len(s)
          BY <1>5, <2>4, <3>3
        <4> QED BY <1>1, <2>8, <4>1
      <3> QED BY <2>6, <3>1, <3>2, <3>3
    <2> QED BY <2>3, <2>5, <2>7, <2>8 DEF OnStack
  <1> QED BY <1>3, <1>7, <1>8 DEF c

-----------------------------------------------------------------------------
(* Histories, prefix by prefix. *)

UpTo(history, n) == SubSeq(history, 1, n)

RowsOf(history, l, n) == {h \in 1..n : history[h].load = l}

\* A sequence of rows whose statuses the replay knows.
IsHistory(history) == \E Rows : history \in Seq(Rows) /\ \A r \in Rows : r.status \in Statuses

\* The length of a history and its statuses.
LEMMA HistoryHas ==
    ASSUME NEW history, IsHistory(history)
    PROVE  Len(history) \in Nat /\ \A i \in 1..Len(history) : history[i].status \in Statuses
  <1>1. PICK Rows : history \in Seq(Rows) /\ \A r \in Rows : r.status \in Statuses
    BY DEF IsHistory
  <1> QED BY <1>1

\* The rows of a history up to n.
LEMMA UpToIs ==
    ASSUME NEW history, IsHistory(history), NEW n \in 0..Len(history)
    PROVE  /\ Len(UpTo(history, n)) = n /\ n \in Nat /\ Len(history) \in Nat
           /\ \A i \in 1..n : UpTo(history, n)[i] = history[i]
  <1>1. PICK Rows : history \in Seq(Rows) /\ \A r \in Rows : r.status \in Statuses
    BY DEF IsHistory
  <1> QED BY <1>1 DEF UpTo

\* Up to its length, it is all of it.
LEMMA AllOfHistory ==
    ASSUME NEW history, IsHistory(history)
    PROVE  UpTo(history, Len(history)) = history /\ Len(history) \in 0..Len(history)
  <1>1. PICK Rows : history \in Seq(Rows) /\ \A r \in Rows : r.status \in Statuses
    BY DEF IsHistory
  <1> QED BY <1>1 DEF UpTo

\* Before the first row.
LEMMA ReplayNone ==
    ASSUME NEW history, IsHistory(history), NEW l
    PROVE  Replay(UpTo(history, 0), l) = <<Bottom>>
  <1> DEFINE g == UpTo(history, 0)
  <1>1. 0 \in 0..Len(history)
    BY HistoryHas
  <1>2. Len(g) = 0
    BY <1>1, UpToIs
  <1> HIDE DEF g
  <1>3. Start(g, l) = 0
    BY <1>2, StartIs
  <1>4. Replay(g, l) = <<Bottom>>
    BY <1>2, <1>3, ReplayFirst
  <1> QED BY <1>4 DEF g

\* What row n + 1 makes of the replay of the rows before it.
LEMMA ReplayStep ==
    ASSUME NEW history, IsHistory(history), NEW l, NEW n \in Nat, n < Len(history),
           Stack(Replay(UpTo(history, n), l))
    PROVE  /\ CutAndPushed(Replay(UpTo(history, n), l), Replay(UpTo(history, n + 1), l), n + 1)
           /\ history[n + 1].load # l => Replay(UpTo(history, n + 1), l) = Replay(UpTo(history, n), l)
           /\ history[n + 1].load = l /\ history[n + 1].status # "cancelled" =>
                 Replay(UpTo(history, n + 1), l) = Step(Replay(UpTo(history, n), l), history[n + 1], n + 1)
  <1> DEFINE g == UpTo(history, n)
             h == UpTo(history, n + 1)
             s == Replay(g, l)
             t == Replay(h, l)
             row == history[n + 1]
  <1>1. n \in 0..Len(history) /\ n + 1 \in 0..Len(history) /\ n + 1 \in Nat /\ n + 1 \in 1..Len(history)
    BY HistoryHas
  <1>2. Len(g) = n /\ \A i \in 1..n : g[i] = history[i]
    BY <1>1, UpToIs
  <1>3. Len(h) = n + 1 /\ \A i \in 1..(n + 1) : h[i] = history[i]
    BY <1>1, UpToIs
  <1>4. Len(g) \in Nat /\ Len(h) = Len(g) + 1 /\ (\A i \in 1..Len(g) : h[i] = g[i]) /\ h[Len(h)] = row
    BY <1>1, <1>2, <1>3
  <1> HIDE DEF g, h
  <1>5. t = IF row.load # l THEN s
            ELSE IF row.status = "cancelled" THEN <<Bottom>>
            ELSE Step(s, row, n + 1)
    <2> HIDE DEF row
    <2>1. LET last == h[Len(h)] IN
          Replay(h, l) = IF last.load # l THEN Replay(g, l)
                         ELSE IF last.status = "cancelled" THEN <<Bottom>>
                         ELSE Step(Replay(g, l), last, Len(h))
      BY <1>4, ReplayMore
    <2> QED BY <1>3, <1>4, <2>1
  <1>6. Stack(s)
    BY DEF g
  <1>7. row.status \in Statuses
    BY <1>1, HistoryHas
  <1> HIDE DEF s, t, row
  <1>8. CASE row.load # l
    <2>1. Len(s) \in 1..Len(s) /\ s = SubSeq(s, 1, Len(s))
      BY <1>6, AllOfIt
    <2>2. CutAndPushed(s, t, n + 1)
      BY <1>5, <1>8, <2>1 DEF CutAndPushed
    <2> QED BY <1>5, <1>8, <2>2 DEF g, h, s, t, row
  <1>9. CASE row.load = l /\ row.status = "cancelled"
    <2>1. 1 \in 1..Len(s) /\ SubSeq(s, 1, 1) = <<Bottom>>
      BY <1>6, FirstIs
    <2>2. CutAndPushed(s, t, n + 1)
      BY <1>5, <1>9, <2>1 DEF CutAndPushed
    <2> QED BY <1>5, <1>9, <2>2 DEF g, h, s, t, row
  <1>10. CASE row.load = l /\ row.status # "cancelled"
    <2>1. t = Step(s, row, n + 1)
      BY <1>5, <1>10
    <2>2. CutAndPushed(s, t, n + 1)
      BY <1>1, <1>6, <1>7, <1>10, <2>1, StepIs
    <2> QED BY <1>10, <2>1, <2>2 DEF g, h, s, t, row
  <1> QED BY <1>8, <1>9, <1>10

\* Every prefix makes such a stack, of its own rows.
LEMMA ReplayOnStack ==
    ASSUME NEW history, IsHistory(history), NEW l, NEW n \in 0..Len(history)
    PROVE  OnStack(Replay(UpTo(history, n), l), RowsOf(history, l, n))
  <1> DEFINE K == {m \in Nat : m <= Len(history) => OnStack(Replay(UpTo(history, m), l), RowsOf(history, l, m))}
  <1>1. 0 \in K
    <2>1. OnStack(Replay(UpTo(history, 0), l), RowsOf(history, l, 0))
      BY ReplayNone, FirstOnStack
    <2> QED BY <2>1
  <1>2. ASSUME NEW m \in Nat, m \in K PROVE m + 1 \in K
    <2> SUFFICES ASSUME m + 1 <= Len(history)
                 PROVE  OnStack(Replay(UpTo(history, m + 1), l), RowsOf(history, l, m + 1))
      BY <1>2
    <2> DEFINE s == Replay(UpTo(history, m), l)
               t == Replay(UpTo(history, m + 1), l)
               R == RowsOf(history, l, m)
    <2>1. m < Len(history) /\ m <= Len(history) /\ m + 1 \in Nat \ {0}
      BY HistoryHas
    <2>2. OnStack(s, R)
      BY <1>2, <2>1
    <2>3. /\ CutAndPushed(s, t, m + 1)
          /\ history[m + 1].load # l => t = s
      BY <2>1, <2>2, ReplayStep DEF OnStack
    <2>4. m + 1 \notin R
      BY DEF RowsOf
    <2>5. RowsOf(history, l, m + 1) = IF history[m + 1].load = l THEN R \cup {m + 1} ELSE R
      BY DEF RowsOf
    <2> HIDE DEF s, t, R
    <2>6. OnStack(t, R \cup {m + 1})
      BY <2>1, <2>2, <2>3, <2>4, StackStays
    <2>7. OnStack(t, RowsOf(history, l, m + 1))
      BY <2>2, <2>3, <2>5, <2>6
    <2> QED BY <2>7 DEF t
  <1> HIDE DEF K
  <1>3. n \in Nat /\ n <= Len(history)
    BY HistoryHas
  <1>4. n \in K
    BY <1>1, <1>2, <1>3, Induct
  <1> QED BY <1>3, <1>4 DEF K

\* The stack has an event of row h.
Names(e, h) == e.event # "" /\ e.row = h

Bears(s, h) == \E i \in 1..Len(s) : Names(s[i], h)

\* A live row is one an event on the stack is named by.
LEMMA LiveIs ==
    ASSUME NEW history, NEW l, NEW h
    PROVE  h \in Live(history, l) <=> h \in 1..Len(history) /\ Bears(Replay(history, l), h)
  BY DEF Live, LiveEntries, Entries, Bears, Names

\* A cut and a push bring back no event of another row.
LEMMA BearsFalls ==
    ASSUME NEW s, Stack(s), NEW row, NEW t, CutAndPushed(s, t, row), NEW h, h # row, Bears(t, h)
    PROVE  Bears(s, h)
  <1>1. Len(s) \in Nat
    BY StackLen
  <1>2. PICK i \in 1..Len(t) : Names(t[i], h)
    BY DEF Bears
  <1>3. PICK m \in 1..Len(s) : \/ t = SubSeq(s, 1, m)
                              \/ \E x : NewEntry(x, row) /\ t = Append(SubSeq(s, 1, m), x)
    BY DEF CutAndPushed
  <1> DEFINE c == SubSeq(s, 1, m)
  <1>4. c \in Seq(Entry) /\ Len(c) = m /\ (\A k \in 1..m : c[k] = s[k]) /\ m \in Nat
    BY CutIs
  <1> HIDE DEF c
  <1>5. i \in 1..m /\ t[i] = c[i]
    <2>1. CASE t = c
      BY <1>4, <2>1
    <2>2. CASE \E x : NewEntry(x, row) /\ t = Append(c, x)
      <3>1. PICK x : NewEntry(x, row) /\ t = Append(c, x)
        BY <2>2
      <3>2. x \in Entry /\ ~Names(x, h)
        BY <3>1 DEF NewEntry, Names
      <3>3. Len(t) = m + 1 /\ t[m + 1] = x /\ \A k \in 1..m : t[k] = c[k]
        BY <1>4, <3>1, <3>2
      <3>4. i # m + 1
        BY <1>2, <3>2, <3>3
      <3>5. i \in 1..m
        BY <1>4, <3>3, <3>4
      <3> QED BY <3>3, <3>5
    <2> QED BY <1>3, <2>1, <2>2 DEF c
  <1>6. i \in 1..Len(s) /\ Names(s[i], h)
    <2>1. t[i] = s[i] /\ i \in 1..Len(s)
      BY <1>1, <1>4, <1>5
    <2> QED BY <1>2, <2>1
  <1> QED BY <1>6 DEF Bears

\* What one row more leaves live of the rows before it was live.
LEMMA LiveStep ==
    ASSUME NEW history, IsHistory(history), NEW l, NEW n \in Nat, n < Len(history), NEW h \in 1..n,
           h \in Live(UpTo(history, n + 1), l)
    PROVE  h \in Live(UpTo(history, n), l)
  <1> DEFINE s == Replay(UpTo(history, n), l)
             t == Replay(UpTo(history, n + 1), l)
  <1>1. n \in 0..Len(history) /\ h # n + 1
    BY HistoryHas
  <1>2. Stack(s) /\ Len(UpTo(history, n)) = n
    BY <1>1, ReplayOnStack, UpToIs DEF OnStack
  <1>3. CutAndPushed(s, t, n + 1)
    BY <1>2, ReplayStep
  <1>4. Bears(t, h)
    BY LiveIs
  <1> HIDE DEF s, t
  <1>5. Bears(s, h)
    BY <1>1, <1>2, <1>3, <1>4, BearsFalls
  <1> QED BY <1>2, <1>5, LiveIs DEF s

\* A status taken back never stands again: what is live of a prefix after more rows was live then.
LEMMA LiveFalls ==
    ASSUME NEW history, IsHistory(history), NEW l, NEW k \in 0..Len(history), NEW m \in 0..Len(history), k <= m,
           NEW h \in 1..k, h \in Live(UpTo(history, m), l)
    PROVE  h \in Live(UpTo(history, k), l)
  <1> DEFINE K == {d \in Nat : k + d <= Len(history) /\ h \in Live(UpTo(history, k + d), l) => h \in Live(UpTo(history, k), l)}
  <1>1. k \in Nat /\ m \in Nat /\ m - k \in Nat /\ k + (m - k) = m /\ Len(history) \in Nat
    BY HistoryHas
  <1>2. 0 \in K
    <2>1. k + 0 = k
      BY <1>1
    <2> QED BY <2>1
  <1>3. ASSUME NEW d \in Nat, d \in K PROVE d + 1 \in K
    <2> SUFFICES ASSUME k + (d + 1) <= Len(history), h \in Live(UpTo(history, k + (d + 1)), l)
                 PROVE  h \in Live(UpTo(history, k), l)
      OBVIOUS
    <2>1. k + d \in Nat /\ (k + d) + 1 = k + (d + 1) /\ k + d < Len(history) /\ h \in 1..(k + d)
      BY <1>1
    <2>2. h \in Live(UpTo(history, k + d), l)
      BY <2>1, LiveStep
    <2> QED BY <1>1, <1>3, <2>1, <2>2
  <1> HIDE DEF K
  <1>4. m - k \in K
    BY <1>1, <1>2, <1>3, Induct
  <1> QED BY <1>1, <1>4 DEF K

\* Rows of other loads change nothing.
LEMMA ReplayStill ==
    ASSUME NEW history, IsHistory(history), NEW l, NEW k \in 0..Len(history), NEW m \in 0..Len(history), k <= m,
           \A h \in (k + 1)..m : history[h].load # l
    PROVE  Replay(UpTo(history, m), l) = Replay(UpTo(history, k), l)
  <1> DEFINE K == {d \in Nat : k + d <= m => Replay(UpTo(history, k + d), l) = Replay(UpTo(history, k), l)}
  <1>1. k \in Nat /\ m \in Nat /\ m - k \in Nat /\ k + (m - k) = m /\ Len(history) \in Nat /\ m <= Len(history)
    BY HistoryHas
  <1>2. 0 \in K
    <2>1. k + 0 = k
      BY <1>1
    <2> QED BY <2>1
  <1>3. ASSUME NEW d \in Nat, d \in K PROVE d + 1 \in K
    <2> SUFFICES ASSUME k + (d + 1) <= m
                 PROVE  Replay(UpTo(history, k + (d + 1)), l) = Replay(UpTo(history, k), l)
      OBVIOUS
    <2>1. /\ k + d \in Nat /\ k + d \in 0..Len(history) /\ (k + d) + 1 = k + (d + 1) /\ k + d < Len(history)
          /\ k + d <= m /\ (k + d) + 1 \in (k + 1)..m
      BY <1>1
    <2>2. Stack(Replay(UpTo(history, k + d), l))
      BY <2>1, ReplayOnStack DEF OnStack
    <2>3. Replay(UpTo(history, (k + d) + 1), l) = Replay(UpTo(history, k + d), l)
      BY <2>1, <2>2, ReplayStep
    <2> QED BY <1>3, <2>1, <2>3
  <1> HIDE DEF K
  <1>4. m - k \in K
    BY <1>1, <1>2, <1>3, Induct
  <1> QED BY <1>1, <1>4 DEF K
=============================================================================
