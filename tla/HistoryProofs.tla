---------------------------- MODULE HistoryProofs -----------------------------
(***************************************************************************)
(* What a load's replay keeps for the outbox, over histories of any length *)
(* (ChrHistory).                                                           *)
(***************************************************************************)
EXTENDS ChrHistory, ReplayProofs

\* The history's type.
HistoryRow == [load : Loads, status : RowStatuses, source : RowSources]

HistoryTypeOK == history \in Seq(HistoryRow)

\* What the type says of the history.
LEMMA HistoryIs ==
    ASSUME HistoryTypeOK
    PROVE  /\ IsHistory(history) /\ Len(history) \in Nat
           /\ UpTo(history, Len(history)) = history /\ Len(history) \in 0..Len(history)
  <1>1. \A r \in HistoryRow : r.status \in Statuses
    BY HistoryAssumption DEF HistoryRow
  <1>2. IsHistory(history)
    BY <1>1 DEF HistoryTypeOK, IsHistory
  <1> QED BY <1>2, HistoryHas, AllOfHistory

\* One row more, and what each load's replay makes of it.
LEMMA AddIs ==
    ASSUME HistoryTypeOK, NEW k \in Loads, NEW status \in RowStatuses, NEW source \in RowSources,
           AddStatus(k, status, source)
    PROVE  /\ HistoryTypeOK' /\ Len(history') = Len(history) + 1
           /\ UpTo(history', Len(history)) = history /\ UpTo(history', Len(history) + 1) = history'
           /\ history'[Len(history) + 1] = StatusRow(k, status, source)
           /\ IsHistory(history')
  <1> DEFINE row == StatusRow(k, status, source)
  <1>1. row \in HistoryRow /\ history \in Seq(HistoryRow) /\ history' = Append(history, row)
    BY DEF HistoryRow, StatusRow, HistoryTypeOK, AddStatus
  <1> HIDE DEF row
  <1>2. /\ history' \in Seq(HistoryRow) /\ Len(history') = Len(history) + 1
        /\ SubSeq(history', 1, Len(history)) = history /\ history'[Len(history) + 1] = row
    <2>1. /\ history' \in Seq(HistoryRow) /\ Len(history') = Len(history) + 1
          /\ history'[Len(history) + 1] = row
          /\ \A i \in 1..Len(history) : history'[i] = history[i]
      BY <1>1
    <2>2. SubSeq(history', 1, Len(history)) = history
      BY <1>1, <2>1
    <2> QED BY <2>1, <2>2
  <1>3. HistoryTypeOK'
    BY <1>2 DEF HistoryTypeOK
  <1>4. \A r \in HistoryRow : r.status \in Statuses
    BY HistoryAssumption DEF HistoryRow
  <1>5. IsHistory(history')
    BY <1>2, <1>4 DEF IsHistory
  <1>6. UpTo(history', Len(history) + 1) = history'
    BY <1>2, <1>5, AllOfHistory
  <1> QED BY <1>2, <1>3, <1>5, <1>6 DEF UpTo, row

\* The history holds rows of their kinds.
LEMMA HistoryTyped == Spec => []HistoryTypeOK
  <1>1. Init => HistoryTypeOK
    BY DEF Init, HistoryTypeOK
  <1>2. HistoryTypeOK /\ [Next]_history => HistoryTypeOK'
    <2> SUFFICES ASSUME HistoryTypeOK, [Next]_history PROVE HistoryTypeOK'
      OBVIOUS
    <2>1. CASE Next
      BY <2>1, AddIs DEF Next
    <2>2. CASE UNCHANGED history
      BY <2>2 DEF HistoryTypeOK
    <2> QED BY <2>1, <2>2
  <1> QED BY <1>1, <1>2, PTL DEF Spec

\* Within one trip a load is delivered once, and nothing follows it (chr-events.js forward(),
\* jumpTo(), revert()).
THEOREM DeliveredEndsTrip == Spec => []DeliveredLast
  <1>1. HistoryTypeOK => DeliveredLast
    <2> SUFFICES ASSUME HistoryTypeOK, NEW l \in Loads,
                        NEW i \in 1..Len(Replay(history, l)), Replay(history, l)[i].event = "delivered"
                 PROVE  i = Len(Replay(history, l)) \/ Replay(history, l)[i + 1].phase = "before"
      BY DEF DeliveredLast
    <2>1. OnStack(Replay(history, l), RowsOf(history, l, Len(history)))
      BY HistoryIs, ReplayOnStack
    <2> DEFINE s == Replay(history, l)
    <2>2. Named(s[i], RowsOf(history, l, Len(history))) /\ EndsTrip(s, i)
      BY <2>1 DEF OnStack
    <2> HIDE DEF s
    <2>3. s[i].event = "delivered"
      BY DEF s
    <2>4. i = Len(s) \/ s[i + 1].phase = "before"
      BY <2>2, <2>3 DEF Named, EndsTrip
    <2> QED BY <2>4 DEF s
  <1> QED BY <1>1, HistoryTyped, PTL

\* What a step back or a cancellation voided never becomes live again.
THEOREM VoidedStays == Spec => VoidedForGood
  <1>1. HistoryTypeOK /\ [Next]_history =>
           [\A l \in Loads : \A h \in 1..Len(history) : h \in Live(history', l) => h \in Live(history, l)]_history
    <2> SUFFICES ASSUME HistoryTypeOK, Next, NEW l \in Loads, NEW h \in 1..Len(history), h \in Live(history', l)
                 PROVE  h \in Live(history, l)
      OBVIOUS
    <2>1. PICK k \in Loads, status \in RowStatuses, source \in RowSources : AddStatus(k, status, source)
      BY DEF Next
    <2>2. /\ Len(history') = Len(history) + 1 /\ IsHistory(history') /\ Len(history) \in Nat
          /\ UpTo(history', Len(history)) = history /\ UpTo(history', Len(history) + 1) = history'
      BY <2>1, AddIs, HistoryIs
    <2>3. Len(history) < Len(history')
      BY <2>2
    <2>4. h \in Live(UpTo(history', Len(history) + 1), l)
      BY <2>2
    <2>5. h \in Live(UpTo(history', Len(history)), l)
      BY <2>2, <2>3, <2>4, LiveStep
    <2> QED BY <2>2, <2>5
  <1> QED BY <1>1, HistoryTyped, PTL DEF Spec, VoidedForGood

\* An override to an earlier stage cuts the stack there, and none of the rows cut off is named again.
LEMMA OverrideCuts ==
    ASSUME NEW s, NEW R, OnStack(s, R), NEW r, r.status \in Statuses \ {"cancelled"}, r.source = "override",
           Position(Class(r.status)) < EntryPos(Top(s)), NEW row \in Nat \ {0}, row \notin R,
           NEW t, t = Step(s, r, row)
    PROVE  /\ EntryPos(Top(t)) <= Position(Class(r.status))
           /\ \A i \in 1..Len(s) :
                 (\A k \in i..Len(s) : EntryPos(s[k]) > Position(Class(r.status)))
                    => s[i].row \notin {e.row : e \in {t[k] : k \in 1..Len(t)}} \ {0}
  <1> DEFINE to == Position(Class(r.status))
  <1>1. /\ Stack(s) /\ Len(s) \in Nat /\ \A i \in 1..Len(s) : Named(s[i], R)
        /\ \A i, j \in 1..Len(s) : s[i].row = s[j].row /\ s[i].row # 0 => i = j
    BY StackLen DEF OnStack
  <1>2. to \in 0..4
    BY ClassIs
  <1>3. t = Reverted(s, r.status, row)
    <2>1. PhaseClass(Top(s).phase) # Class(r.status)
      <3>1. EntryPos(Top(s)) = Position(PhaseClass(Top(s).phase))
        BY DEF EntryPos
      <3>2. Top(s) \in Entry
        BY <1>1, AllOfIt
      <3>3. EntryPos(Top(s)) \in 0..4
        BY <3>2, EntryPosIs
      <3> QED BY <1>2, <3>1, <3>3
    <2>2. r.source # "phase"
      OBVIOUS
    <2> QED BY <2>1, <2>2 DEF Step
  <1>4. Back(s, t, r.status, row)
    BY <1>1, <1>3, RevertedIs
  <1>5. PICK m \in 1..Len(s) :
           /\ EntryPos(s[m]) <= to
           /\ \/ t = SubSeq(s, 1, m)
              \/ \E x : NewEntry(x, row) /\ PhaseClass(x.phase) = Class(r.status) /\ t = Append(SubSeq(s, 1, m), x)
    BY <1>4 DEF Back
  <1> DEFINE c == SubSeq(s, 1, m)
  <1>6. c \in Seq(Entry) /\ Len(c) = m /\ (\A k \in 1..m : c[k] = s[k]) /\ m \in Nat /\ Top(c) = s[m] /\ s[m] \in Entry
    BY <1>1, CutIs
  <1> HIDE DEF c, to
  <1>7. /\ EntryPos(Top(t)) <= to
        /\ \A k \in 1..Len(t) : (k \in 1..m /\ t[k] = s[k]) \/ t[k].row \in {0, row}
    <2>1. CASE t = c
      BY <1>5, <1>6, <2>1
    <2>2. CASE \E x : NewEntry(x, row) /\ PhaseClass(x.phase) = Class(r.status) /\ t = Append(c, x)
      <3>1. PICK x : NewEntry(x, row) /\ PhaseClass(x.phase) = Class(r.status) /\ t = Append(c, x)
        BY <2>2
      <3>2. x \in Entry /\ x.row \in {0, row} /\ EntryPos(x) = to
        BY <3>1 DEF NewEntry, EntryPos, to
      <3>3. Len(t) = m + 1 /\ t[m + 1] = x /\ \A k \in 1..m : t[k] = c[k]
        BY <1>6, <3>1, <3>2
      <3>4. Top(t) = x
        BY <3>3 DEF Top
      <3>5. \A k \in 1..Len(t) : k = m + 1 \/ k \in 1..m
        BY <1>6, <3>3
      <3> QED BY <1>2, <1>6, <3>2, <3>3, <3>4, <3>5
    <2> QED BY <1>5, <2>1, <2>2 DEF c
  <1>8. ASSUME NEW i \in 1..Len(s), \A k \in i..Len(s) : EntryPos(s[k]) > to, NEW k \in 1..Len(t), s[i].row = t[k].row, s[i].row # 0
        PROVE  FALSE
    <2>1. i > m
      <3> SUFFICES ASSUME i <= m PROVE FALSE
        BY <1>6
      <3>1. m \in i..Len(s)
        BY <1>1, <1>6
      <3>2. EntryPos(s[m]) > to /\ EntryPos(s[m]) <= to /\ EntryPos(s[m]) \in 0..4
        BY <1>5, <1>6, <1>8, <3>1, EntryPosIs
      <3> QED BY <1>2, <3>2
    <2>2. s[i].row # row
      BY <1>1 DEF Named
    <2>3. k \in 1..m /\ t[k] = s[k]
      BY <1>7, <1>8, <2>2
    <2>4. k \in 1..Len(s) /\ k # i
      BY <1>1, <1>6, <2>1, <2>3
    <2> QED BY <1>1, <1>8, <2>3, <2>4
  <1>9. ASSUME NEW i \in 1..Len(s), \A k \in i..Len(s) : EntryPos(s[k]) > to
        PROVE  s[i].row \notin {e.row : e \in {t[k] : k \in 1..Len(t)}} \ {0}
    BY <1>8, <1>9
  <1> QED BY <1>7, <1>9 DEF to

\* An override to an earlier stage takes back every update since, also where a tap of the same
\* status would be the next stop, and leaves the load at no later a stage (chr-events.js step(),
\* revert()).
THEOREM OverridesTakeBack == Spec => OverrideTakesBack
  <1>1. HistoryTypeOK /\ [Next]_history =>
           [\A l \in Loads :
              LET row == history'[Len(history')]
                  to  == Position(Class(row.status))
                  was == Replay(history, l)
                  now == Replay(history', l)
              IN  row.load = l /\ row.source = "override" /\ row.status # "cancelled" /\ to < EntryPos(Top(was)) =>
                    /\ EntryPos(Top(now)) <= to
                    /\ \A i \in 1..Len(was) :
                          (\A k \in i..Len(was) : EntryPos(was[k]) > to)
                              => was[i].row \notin {e.row : e \in {now[k] : k \in 1..Len(now)}} \ {0}]_history
    <2> DEFINE row == history'[Len(history')]
               to  == Position(Class(row.status))
    <2> SUFFICES ASSUME HistoryTypeOK, Next, NEW l \in Loads, NEW was, was = Replay(history, l), NEW now, now = Replay(history', l),
                        row.load = l, row.source = "override", row.status # "cancelled", to < EntryPos(Top(was))
                 PROVE  /\ EntryPos(Top(now)) <= to
                        /\ \A i \in 1..Len(was) :
                              (\A k \in i..Len(was) : EntryPos(was[k]) > to)
                                  => was[i].row \notin {e.row : e \in {now[k] : k \in 1..Len(now)}} \ {0}
      OBVIOUS
    <2>1. PICK k \in Loads, status \in RowStatuses, source \in RowSources : AddStatus(k, status, source)
      BY DEF Next
    <2> DEFINE n == Len(history)
    <2>2. /\ Len(history') = n + 1 /\ IsHistory(history') /\ n \in Nat
          /\ UpTo(history', n) = history /\ UpTo(history', n + 1) = history'
      BY <2>1, AddIs, HistoryIs
    <2> HIDE DEF n
    <2>3. n < Len(history') /\ n \in 0..Len(history') /\ row = history'[n + 1] /\ n + 1 \in 1..Len(history')
      BY <2>2
    <2>4. OnStack(was, RowsOf(history', l, n))
      BY <2>2, <2>3, ReplayOnStack
    <2>5. now = Step(was, row, n + 1)
      <3>1. Stack(was)
        BY <2>4 DEF OnStack
      <3> QED BY <2>2, <2>3, <3>1, ReplayStep
    <2>6. row.status \in Statuses \ {"cancelled"}
      BY <2>2, <2>3, HistoryHas
    <2>7. n + 1 \in Nat \ {0} /\ n + 1 \notin RowsOf(history', l, n)
      BY <2>2 DEF RowsOf
    <2> HIDE DEF row
    <2> QED BY <2>4, <2>5, <2>6, <2>7, OverrideCuts
  <1> QED BY <1>1, HistoryTyped, PTL DEF Spec, OverrideTakesBack
=============================================================================
