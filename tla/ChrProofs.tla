------------------------------ MODULE ChrProofs ------------------------------
(***************************************************************************)
(* What the outbox keeps for any number of loads, history rows, restarts   *)
(* and changes: OutboxInv (ChrSafety), and from it that no request is for  *)
(* something old, that a stop stops at once, and that the outbox           *)
(* implements ChrOnce, whatever the replay makes of a history; and, with   *)
(* what ReplayProofs says of the replay, that a step back reaches every    *)
(* row and that no milestone is missed.                                    *)
(***************************************************************************)
EXTENDS ChrSafety, ReplayProofs

\* The statuses a row ends in without a request, and what the sender makes of one.
Ended == {"skipped_not_chr", "skipped_off", "skipped_backwards", "held", "dry_run", "gave_up"}

\* What a step of the server other than an answer may make of a row's status.
MayBecome(s, t) ==
    \/ t = s
    \/ s = "none" /\ t \in Ended \cup {"pending", "sending"}
    \/ s = "pending" /\ t \in Ended \cup {"sending"}
    \/ s = "held" /\ t \in Ended
    \/ s = "sending" /\ t = "outcome_unknown"

Whys == {"", "skipped_not_chr", "load_hold", "held", "skipped_off"}

\* A row keeps the mode it was recorded under.
SameMode(q, r) == q.status # "none" => r.status # "none" /\ r.mode = q.mode

-----------------------------------------------------------------------------
(* One row. *)

\* A load's mode is one of two.
LEMMA LoadModeIn == ASSUME NEW s, NEW l PROVE LoadMode(s, l) \in {"dry_run", "live"}
  BY DEF LoadMode

\* A row's first state.
LEMMA NewRowOK ==
    ASSUME NEW h, NEW seen
    PROVE  NewRow(h, seen) \in Row /\ NewRow(h, seen).status \in {"skipped_not_chr", "held", "pending"}
  <1> DEFINE m == LoadMode(settings, LoadOf(h))
             s == IF seen[LoadOf(h)] = "skip" THEN "skipped_not_chr"
                  ELSE IF EventOf(h).jump THEN "held" ELSE "pending"
  <1>1. m \in {"dry_run", "live"}
    BY LoadModeIn
  <1>2. s \in {"skipped_not_chr", "held", "pending"}
    OBVIOUS
  <1>3. NewRow(h, seen) = [NoRow EXCEPT !.mode = m, !.status = s]
    BY DEF NewRow
  <1> HIDE DEF m, s
  <1> QED BY <1>1, <1>2, <1>3 DEF NoRow, Row, RowStates

\* What voiding leaves.
LEMMA VoidedOK ==
    ASSUME NEW r \in Row
    PROVE  /\ Voided(r) \in Row /\ Voided(r).mode = r.mode
           /\ Voided(r).status = r.status \/ (r.status \in {"pending", "held"} /\ Voided(r).status = "skipped_backwards")
  <1>1. CASE r.status \in {"pending", "held"}
    <2>1. Voided(r) = [r EXCEPT !.status = "skipped_backwards"]
      BY <1>1 DEF Voided
    <2> QED BY <1>1, <2>1 DEF Row, RowStates
  <1>2. CASE r.status \in {"sending", "sent", "failed", "gave_up", "outcome_unknown", "dry_run"}
    <2>1. Voided(r) = [r EXCEPT !.reverted = TRUE]
      BY <1>2 DEF Voided
    <2> QED BY <2>1 DEF Row
  <1>3. CASE r.status \notin {"pending", "held", "sending", "sent", "failed", "gave_up", "outcome_unknown", "dry_run"}
    BY <1>3 DEF Voided
  <1> QED BY <1>1, <1>2, <1>3

\* Why a row is refused.
LEMMA RefusalOK ==
    ASSUME NEW h, NEW seen, NEW loads
    PROVE  Refusal(h, seen, loads) \in Whys /\ WhyNotSent(h, seen, loads) \in Whys
  BY DEF Refusal, WhyNotSent, Whys

\* A refused row.
LEMMA RefusedOK ==
    ASSUME NEW r \in Row, NEW why \in Whys \ {""}
    PROVE  /\ Refused(r, why) \in Row /\ Refused(r, why).mode = r.mode /\ Refused(r, why).status \in Ended
  <1>1. (why = "load_hold") \in BOOLEAN
    OBVIOUS
  <1>2. (IF why = "load_hold" THEN "held" ELSE why) \in Ended
    BY DEF Whys, Ended
  <1> QED BY <1>1, <1>2 DEF Refused, Row, RowStates, Ended

\* What housekeeping leaves of a row; a baseline leaves nothing waiting.
LEMMA KeptOK ==
    ASSUME NEW r \in Row, NEW starts \in BOOLEAN, NEW s, NEW late, NEW h
    PROVE  LET k == Kept(starts, s, late, h, r) IN
           /\ k \in Row /\ k.mode = r.mode
           /\ k.status = r.status \/ (r.status = "sending" /\ k.status = "outcome_unknown")
                \/ (r.status = "pending" /\ k.status \in {"skipped_off", "gave_up"})
           /\ starts => k.status # "pending"
  <1> DEFINE k == Kept(starts, s, late, h, r)
  <1>1. \/ k = r /\ (starts => r.status # "pending")
        \/ r.status = "sending" /\ k = [r EXCEPT !.status = "outcome_unknown"]
        \/ r.status = "pending" /\ k = [r EXCEPT !.status = "skipped_off"]
        \/ r.status = "pending" /\ k = [r EXCEPT !.status = "gave_up"]
    <2>1. CASE r.status = "sending"
      BY <2>1, r.status # "pending" DEF Kept
    <2>2. CASE r.status = "pending"
      BY <2>2, r.status # "sending" DEF Kept
    <2>3. CASE r.status \notin {"sending", "pending"}
      BY <2>3 DEF Kept
    <2> QED BY <2>1, <2>2, <2>3
  <1> HIDE DEF k
  <1>2. /\ k \in Row /\ k.mode = r.mode
        /\ k.status = r.status \/ (r.status = "sending" /\ k.status = "outcome_unknown")
             \/ (r.status = "pending" /\ k.status \in {"skipped_off", "gave_up"})
        /\ starts => k.status # "pending"
    BY <1>1 DEF Row, RowStates
  <1> QED BY <1>2 DEF k

-----------------------------------------------------------------------------
(* The outbox, over the parts of a tick. *)

\* What a recording leaves: new rows only of history above the baseline.
LEMMA RecordedOK ==
    ASSUME TypeOK, NEW upto, NEW seen
    PROVE  LET rec == Recorded(upto, seen) IN
           /\ rec \in [Ids -> Row]
           /\ \A h \in Ids :
                /\ SameMode(out[h], rec[h])
                /\ \/ rec[h].status = out[h].status
                   \/ /\ out[h].status = "none" /\ rec[h].status \in {"skipped_not_chr", "held", "pending"}
                      /\ h > baseline /\ h <= Len(history)
                   \/ out[h].status \in {"pending", "held"} /\ rec[h].status = "skipped_backwards"
  <1> DEFINE swept == {h \in 1..Len(history) : LoadOf(h) \in SweptLoads(upto, seen)}
             live == UNION {Live(history, l) : l \in SweptLoads(upto, seen)}
             F(h) == IF h \notin swept THEN out[h]
                     ELSE IF out[h].status = "none" THEN IF h > baseline /\ h \in live THEN NewRow(h, seen) ELSE NoRow
                     ELSE IF h \in live THEN out[h]
                     ELSE Voided(out[h])
             rec == [h \in Ids |-> F(h)]
  <1>1. Recorded(upto, seen) = rec
    BY DEF Recorded
  <1>2. swept \subseteq 1..Len(history)
    OBVIOUS
  <1>3. Len(history) \in Nat /\ out \in [Ids -> Row]
    <2>1. history \in Seq([load : Loads, status : Statuses, source : Sources]) /\ out \in [Ids -> Row]
      BY DEF TypeOK
    <2> QED BY <2>1
  <1> HIDE DEF swept, live
  <1>4. ASSUME NEW h \in Ids
        PROVE  \/ F(h) = out[h]
               \/ out[h].status = "none" /\ F(h) = NoRow
               \/ out[h].status = "none" /\ F(h) = NewRow(h, seen) /\ h > baseline /\ h <= Len(history)
               \/ out[h].status # "none" /\ F(h) = Voided(out[h])
    BY <1>2, <1>3
  <1>5. NoRow \in Row /\ NoRow.status = "none"
    BY DEF NoRow, Row, RowStates
  <1>6. ASSUME NEW h \in Ids
        PROVE  /\ rec[h] \in Row /\ SameMode(out[h], rec[h])
               /\ \/ rec[h].status = out[h].status
                  \/ /\ out[h].status = "none" /\ rec[h].status \in {"skipped_not_chr", "held", "pending"}
                     /\ h > baseline /\ h <= Len(history)
                  \/ out[h].status \in {"pending", "held"} /\ rec[h].status = "skipped_backwards"
    <2>1. rec[h] = F(h) /\ out[h] \in Row
      BY <1>3
    <2> HIDE DEF F, rec
    <2>2. CASE F(h) = out[h] \/ (out[h].status = "none" /\ F(h) = NoRow)
      BY <1>5, <2>1, <2>2 DEF SameMode
    <2>3. CASE out[h].status = "none" /\ F(h) = NewRow(h, seen) /\ h > baseline /\ h <= Len(history)
      BY <2>1, <2>3, NewRowOK DEF SameMode
    <2>4. CASE out[h].status # "none" /\ F(h) = Voided(out[h])
      <3>1. /\ Voided(out[h]) \in Row /\ Voided(out[h]).mode = out[h].mode
            /\ Voided(out[h]).status = out[h].status
                 \/ (out[h].status \in {"pending", "held"} /\ Voided(out[h]).status = "skipped_backwards")
        BY <2>1, VoidedOK
      <3> QED BY <2>1, <2>4, <3>1 DEF SameMode
    <2> QED BY <1>4, <2>2, <2>3, <2>4
  <1> QED BY <1>1, <1>6

\* What deciding leaves: only due rows move, and none to "sending".
LEMMA DecidedOK ==
    ASSUME NEW o \in [Ids -> Row], NEW seen, NEW loads, NEW due, NEW near,
           \A h \in Ids : h \in due => o[h].status = "pending"
    PROVE  LET d == Decided(o, seen, loads, due, near) IN
           /\ d \in [Ids -> Row]
           /\ \A h \in Ids :
                /\ d[h].mode = o[h].mode
                /\ d[h].status = o[h].status \/ (o[h].status = "pending" /\ d[h].status \in Ended)
  <1> DEFINE Why(h) == Refusal(h, seen, loads)
             F(h) == IF h \notin due THEN o[h]
                     ELSE CASE Why(h) # "" -> Refused(o[h], Why(h))
                            [] Why(h) = "" /\ h \notin near -> Refused(o[h], "held")
                            [] Why(h) = "" /\ h \in near /\ o[h].mode = "live" -> [o[h] EXCEPT !.ready = TRUE]
                            [] OTHER -> [o[h] EXCEPT !.status = "dry_run"]
             d == [h \in Ids |-> F(h)]
  <1>1. Decided(o, seen, loads, due, near) = d
    BY DEF Decided
  <1>2. ASSUME NEW h \in Ids
        PROVE  /\ d[h] \in Row /\ d[h].mode = o[h].mode
               /\ d[h].status = o[h].status \/ (o[h].status = "pending" /\ d[h].status \in Ended)
    <2>1. d[h] = F(h) /\ o[h] \in Row
      OBVIOUS
    <2>2. Why(h) \in Whys /\ "held" \in Whys \ {""}
      BY RefusalOK DEF Whys
    <2> HIDE DEF Why
    <2>3. \/ F(h) = o[h]
          \/ h \in due /\ Why(h) # "" /\ F(h) = Refused(o[h], Why(h))
          \/ h \in due /\ F(h) = Refused(o[h], "held")
          \/ h \in due /\ F(h) = [o[h] EXCEPT !.ready = TRUE]
          \/ h \in due /\ F(h) = [o[h] EXCEPT !.status = "dry_run"]
      OBVIOUS
    <2> HIDE DEF F, d
    <2>4. CASE F(h) = o[h]
      BY <2>1, <2>4
    <2>5. CASE h \in due /\ Why(h) # "" /\ F(h) = Refused(o[h], Why(h))
      <3>1. o[h] \in Row /\ Why(h) \in Whys \ {""} /\ o[h].status = "pending"
        BY <2>1, <2>2, <2>5
      <3>2. LET r == Refused(o[h], Why(h)) IN r \in Row /\ r.mode = o[h].mode /\ r.status \in Ended
        BY <3>1, RefusedOK
      <3> QED BY <2>1, <2>5, <3>1, <3>2
    <2>6. CASE h \in due /\ F(h) = Refused(o[h], "held")
      <3>1. LET r == Refused(o[h], "held") IN r \in Row /\ r.mode = o[h].mode /\ r.status \in Ended
        BY <2>1, <2>2, RefusedOK
      <3> QED BY <2>1, <2>6, <3>1
    <2>7. CASE h \in due /\ F(h) = [o[h] EXCEPT !.ready = TRUE]
      BY <2>1, <2>7 DEF Row
    <2>8. CASE h \in due /\ F(h) = [o[h] EXCEPT !.status = "dry_run"]
      BY <2>1, <2>8 DEF Row, RowStates, Ended
    <2> QED BY <2>3, <2>4, <2>5, <2>6, <2>7, <2>8
  <1> QED BY <1>1, <1>2

\* Where the sender ends: with nothing to send, in a pause, or asking for one of the listed rows
\* that nothing speaks against, with the others still to come.
SentOn(o, seen, loads, todo) ==
    /\ out' \in [Ids -> Row]
    /\ \A h \in Ids :
        /\ out'[h].mode = o[h].mode
        /\ \/ out'[h].status = o[h].status
           \/ o[h].status = "pending" /\ out'[h].status \in Ended
           \/ /\ o[h].status = "pending" /\ out'[h].status = "sending" /\ h \in todo
              /\ pc' = "request" /\ tick'.row = h /\ WhyNotSent(h, seen, loads) = ""
        /\ h \notin todo => out'[h] = o[h]
    /\ \/ pc' = "idle" /\ tick' = NoTick
       \/ /\ pc' = "request" /\ paused' = ""
          /\ tick'.row \in todo /\ out'[tick'.row].status = "sending" /\ o[tick'.row].status = "pending"
          /\ tick' = [tick EXCEPT !.seen = seen, !.todo = tick'.todo, !.row = tick'.row]
          /\ tick'.todo \subseteq todo \ {tick'.row}

\* The sender ends there.
LEMMA SendNextOK ==
    ASSUME NEW o \in [Ids -> Row], NEW seen, NEW loads, NEW todo \in SUBSET Ids, SendNext(o, seen, loads, todo),
           tick \in [mode : Modes, upto : Nat, seen : [Loads -> Verdicts], todo : SUBSET Ids, row : 0..MaxHistory]
    PROVE  SentOn(o, seen, loads, todo)
  <1>1. CASE paused' # "" /\ out' = o /\ pc' = "idle" /\ tick' = NoTick
    BY <1>1 DEF SentOn
  <1>2. ASSUME NEW passed \in SUBSET todo, paused' = "",
               LET Why(h) == WhyNotSent(h, seen, loads)
                   o2 == [h \in Ids |-> IF h \in passed /\ o[h].status = "pending" THEN Refused(o[h], Why(h)) ELSE o[h]] IN
               /\ \A h \in passed : o[h].status # "pending" \/ Why(h) # ""
               /\ \/ passed = todo /\ out' = o2 /\ pc' = "idle" /\ tick' = NoTick
                  \/ \E h \in todo \ passed :
                        /\ o[h].status = "pending" /\ Why(h) = ""
                        /\ out' = [o2 EXCEPT ![h].status = "sending"]
                        /\ pc' = "request"
                        /\ tick' = [tick EXCEPT !.seen = seen, !.todo = todo \ (passed \cup {h}), !.row = h]
        PROVE  SentOn(o, seen, loads, todo)
    <2> DEFINE Why(h) == WhyNotSent(h, seen, loads)
               o2 == [h \in Ids |-> IF h \in passed /\ o[h].status = "pending" THEN Refused(o[h], Why(h)) ELSE o[h]]
    <2>1. \A h \in passed : o[h].status # "pending" \/ Why(h) # ""
      BY <1>2
    <2>2. \A h \in Ids : Why(h) \in Whys
      BY RefusalOK
    <2>3. \/ passed = todo /\ out' = o2 /\ pc' = "idle" /\ tick' = NoTick
          \/ \E h \in todo \ passed :
                /\ o[h].status = "pending" /\ Why(h) = ""
                /\ out' = [o2 EXCEPT ![h].status = "sending"]
                /\ pc' = "request"
                /\ tick' = [tick EXCEPT !.seen = seen, !.todo = todo \ (passed \cup {h}), !.row = h]
      BY <1>2
    <2> HIDE DEF Why
    <2>4. ASSUME NEW h \in Ids
          PROVE  /\ o2[h] \in Row /\ o2[h].mode = o[h].mode
                 /\ o2[h].status = o[h].status \/ (o[h].status = "pending" /\ o2[h].status \in Ended)
                 /\ h \notin passed => o2[h] = o[h]
      <3>1. CASE h \in passed /\ o[h].status = "pending"
        <4>1. o2[h] = Refused(o[h], Why(h)) /\ Why(h) \in Whys \ {""}
          BY <2>1, <2>2, <3>1
        <4> QED BY <3>1, <4>1, RefusedOK
      <3>2. CASE ~(h \in passed /\ o[h].status = "pending")
        BY <3>2
      <3> QED BY <3>1, <3>2
    <2>5. o2 \in [Ids -> Row]
      BY <2>4
    <2> HIDE DEF o2
    <2>6. CASE passed = todo /\ out' = o2 /\ pc' = "idle" /\ tick' = NoTick
      BY <2>4, <2>5, <2>6 DEF SentOn
    <2>7. ASSUME NEW g \in todo \ passed,
                 o[g].status = "pending", Why(g) = "",
                 out' = [o2 EXCEPT ![g].status = "sending"], pc' = "request",
                 tick' = [tick EXCEPT !.seen = seen, !.todo = todo \ (passed \cup {g}), !.row = g]
          PROVE  SentOn(o, seen, loads, todo)
      <3>1. g \in Ids /\ o2[g] \in Row
        BY <2>4
      <3>2. [o2[g] EXCEPT !.status = "sending"] \in Row
        BY <3>1 DEF Row, RowStates
      <3>3. out' \in [Ids -> Row] /\ out'[g] = [o2[g] EXCEPT !.status = "sending"] /\ \A h \in Ids \ {g} : out'[h] = o2[h]
        BY <2>5, <2>7, <3>1, <3>2
      <3>4. out'[g].mode = o[g].mode /\ out'[g].status = "sending"
        BY <2>4, <3>1, <3>3 DEF Row
      <3>5. tick'.row = g /\ tick'.todo = todo \ (passed \cup {g})
        BY <2>7
      <3>6. tick' = [tick EXCEPT !.seen = seen, !.todo = tick'.todo, !.row = tick'.row]
        BY <2>7, <3>5
      <3>7. ASSUME NEW h \in Ids
            PROVE  /\ out'[h].mode = o[h].mode
                   /\ \/ out'[h].status = o[h].status
                      \/ o[h].status = "pending" /\ out'[h].status \in Ended
                      \/ /\ o[h].status = "pending" /\ out'[h].status = "sending" /\ h \in todo
                         /\ pc' = "request" /\ tick'.row = h /\ WhyNotSent(h, seen, loads) = ""
                   /\ h \notin todo => out'[h] = o[h]
        <4>1. CASE h = g
          BY <2>7, <3>4, <3>5, <4>1 DEF Why
        <4>2. CASE h # g
          BY <2>4, <3>3, <4>2
        <4> QED BY <4>1, <4>2
      <3> QED BY <1>2, <2>7, <3>3, <3>4, <3>5, <3>6, <3>7 DEF SentOn
    <2> QED BY <2>3, <2>6, <2>7
  <1> QED BY <1>1, <1>2 DEF SendNext

-----------------------------------------------------------------------------
(* What each action keeps: the invariant, ChrOnce's next-state relation, and what a request's row  *)
(* is when it is asked for.                                                                         *)

\* What NothingOld and StopsAtOnce say of a request for row h that begins in this step.
ClaimOK(h) ==
    /\ out'[h].mode = "live" /\ (h > baseline \/ hand[h] > 0)
    /\ LoadMode(settings, LoadOf(h)) = "live"
    /\ ~chrLoads'[LoadOf(h)].hold /\ ~chrLoads'[LoadOf(h)].multi /\ LoadOf(h) \notin stops
    /\ paused = "" /\ ~denied

Keeps == OutboxInv' /\ Once!Next /\ (\A h \in Ids : Claims(h) => ClaimOK(h))

\* A step of the server is ChrOnce's Work, when each row's fate moves as it allows.
LEMMA WorkRefines ==
    ASSUME \A h \in Ids : Fate(h)' = Fate(h) \/ <<Fate(h), Fate(h)'>> \in Once!Moves, hand' = hand
    PROVE  Once!Next
  <1> DEFINE fates == [h \in Ids |-> Fate(h)]
  <1>1. \A h \in Ids : Fate(h)' \in Once!Fates
    BY DEF Fate, Once!Fates
  <1>2. fates' \in [Ids -> Once!Fates]
    BY <1>1
  <1>3. \A h \in Ids : fates'[h] = fates[h] \/ <<fates[h], fates'[h]>> \in Once!Moves
    OBVIOUS
  <1>4. \A g, h \in Ids : fates'[g] = "asked" /\ fates'[h] = "asked" => g = h
    <2>1. \A h \in Ids : Fate(h)' = "asked" => tick'.row = h
      BY DEF Fate
    <2> QED BY <2>1
  <1> HIDE DEF fates
  <1>5. Once!Work
    BY <1>2, <1>3, <1>4 DEF Once!Work, fates
  <1> QED BY <1>5 DEF Once!Next

\* How a row's fate moves when its status moves as the server may move it.
LEMMA FateMoves ==
    ASSUME NEW h \in Ids, MayBecome(out[h].status, out'[h].status),
           ~(pc = "request" /\ tick.row = h),
           out[h].status # "sending" /\ out'[h].status = "sending" <=> pc' = "request" /\ tick'.row = h
    PROVE  Fate(h)' = Fate(h) \/ <<Fate(h), Fate(h)'>> \in Once!Moves
  <1>1. CASE out'[h].status = out[h].status
    BY <1>1 DEF Fate
  <1>2. CASE out[h].status = "sending" /\ out'[h].status = "outcome_unknown"
    BY <1>2 DEF Fate
  <1>3. CASE out'[h].status \in Ended /\ out[h].status \in {"none", "pending", "held"}
    <2>1. Fate(h)' = "closed"
      BY <1>3 DEF Fate, Ended
    <2>2. Fate(h) \in {"none", "open", "closed"}
      BY <1>3 DEF Fate
    <2> QED BY <2>1, <2>2 DEF Once!Moves
  <1>4. CASE out'[h].status = "sending" /\ out[h].status \in {"none", "pending"}
    <2>1. Fate(h)' = "asked"
      BY <1>4 DEF Fate
    <2>2. Fate(h) \in {"none", "open"}
      BY <1>4 DEF Fate
    <2> QED BY <2>1, <2>2 DEF Once!Moves
  <1>5. CASE out'[h].status = "pending" /\ out[h].status = "none"
    BY <1>5 DEF Fate, Once!Moves
  <1> QED BY <1>1, <1>2, <1>3, <1>4, <1>5 DEF MayBecome

\* A step that moves no row, and goes on with the request under way or with none.
LEMMA QuietRefines ==
    ASSUME out' = out, hand' = hand, pc' # "request" \/ (pc' = pc /\ tick' = tick), OutboxInv
    PROVE  Once!Next /\ (\A h \in Ids : Claims(h) => ClaimOK(h))
  <1>1. \A h \in Ids : Fate(h)' = Fate(h) \/ <<Fate(h), Fate(h)'>> \in Once!Moves
    <2>1. SUFFICES ASSUME NEW h \in Ids PROVE Fate(h)' = Fate(h) \/ <<Fate(h), Fate(h)'>> \in Once!Moves
      OBVIOUS
    <2>2. CASE out[h].status = "sending"
      <3>1. Fate(h) \in {"asked", "unsure"} /\ Fate(h)' \in {"asked", "unsure"} /\ (Fate(h)' = "asked" => Fate(h) = "asked")
        BY <2>2 DEF Fate
      <3> QED BY <3>1 DEF Once!Moves
    <2>3. CASE out[h].status # "sending"
      BY <2>3 DEF Fate
    <2> QED BY <2>2, <2>3
  <1>2. ASSUME NEW h \in Ids, Claims(h) PROVE FALSE
    BY <1>2 DEF Claims, OutboxInv
  <1> QED BY <1>1, <1>2, WorkRefines

\* The invariant's last conjuncts, for a step that leaves the rows, their baseline and their hands.
LEMMA QuietKeeps ==
    ASSUME OutboxInv, TypeOK', UNCHANGED <<out, baseline, cursor, hand, denied, paused>>,
           pc' \notin {"request", "sheet"} \/ UNCHANGED <<pc, tick>>
    PROVE  OutboxInv'
  BY DEF OutboxInv

-----------------------------------------------------------------------------
(* The actions that move no row. *)

\* The type invariant, in parts that steps leave alone together.
HistoryOK == history \in Seq([load : Loads, status : Statuses, source : Sources]) /\ Len(history) <= MaxHistory
RowsOK    == out \in [Ids -> Row] /\ (\A h \in Ids : out[h].status # "none" => h <= Len(history))
LoadsOK   == chrLoads \in [Loads -> [known : BOOLEAN, hold : BOOLEAN, multi : BOOLEAN]]
CursorOK  == cursor \in 0..Len(history) /\ baseline \in 0..cursor
StateOK   == lastMode \in Modes /\ paused \in {"", "AUTH_FAILED", "CHR_UNAVAILABLE"} /\ streak \in Nat
PageOK    == settings \in Settings
ConfigOK  == config \in [send : BOOLEAN, all : BOOLEAN]
SheetOK   == sheet \in [Loads -> Verdicts] /\ stops \in SUBSET Loads
TickType(n) == [mode : Modes, upto : 0..n, seen : [Loads -> Verdicts], todo : SUBSET Ids, row : 0..MaxHistory]
TickOK    == pc \in {"down", "booted", "idle", "sheet", "request"} /\ tick \in TickType(Len(history))
PastOK    == hand \in [Ids -> Nat] /\ passedOver \in SUBSET Loads /\ denied \in BOOLEAN /\ restarts \in Nat /\ edits \in Nat

\* They make it up, before a step and after.
LEMMA TypeParts ==
    /\ TypeOK <=> (HistoryOK /\ RowsOK /\ LoadsOK /\ CursorOK /\ StateOK /\ PageOK /\ ConfigOK /\ SheetOK /\ TickOK /\ PastOK)
    /\ TypeOK' <=> (HistoryOK' /\ RowsOK' /\ LoadsOK' /\ CursorOK' /\ StateOK' /\ PageOK' /\ ConfigOK' /\ SheetOK' /\ TickOK' /\ PastOK')
  <1>1. TypeOK <=> (HistoryOK /\ RowsOK /\ LoadsOK /\ CursorOK /\ StateOK /\ PageOK /\ ConfigOK /\ SheetOK /\ TickOK /\ PastOK)
    BY Zenon DEF TypeOK, HistoryOK, RowsOK, LoadsOK, CursorOK, StateOK, PageOK, ConfigOK, SheetOK, TickOK, TickType, PastOK
  <1>2. TypeOK' <=> (HistoryOK' /\ RowsOK' /\ LoadsOK' /\ CursorOK' /\ StateOK' /\ PageOK' /\ ConfigOK' /\ SheetOK' /\ TickOK' /\ PastOK')
    BY Zenon DEF TypeOK, HistoryOK, RowsOK, LoadsOK, CursorOK, StateOK, PageOK, ConfigOK, SheetOK, TickOK, TickType, PastOK
  <1> QED BY <1>1, <1>2

\* The parts a step leaves alone stay as they are.
LEMMA PartsKept ==
    /\ UNCHANGED history /\ HistoryOK => HistoryOK'
    /\ UNCHANGED <<history, out>> /\ RowsOK => RowsOK'
    /\ UNCHANGED chrLoads /\ LoadsOK => LoadsOK'
    /\ UNCHANGED <<history, cursor, baseline>> /\ CursorOK => CursorOK'
    /\ UNCHANGED <<lastMode, paused, streak>> /\ StateOK => StateOK'
    /\ UNCHANGED settings /\ PageOK => PageOK'
    /\ UNCHANGED config /\ ConfigOK => ConfigOK'
    /\ UNCHANGED <<sheet, stops>> /\ SheetOK => SheetOK'
    /\ UNCHANGED <<history, pc, tick>> /\ TickOK => TickOK'
    /\ UNCHANGED <<hand, passedOver, denied>> /\ restarts' \in Nat /\ edits' \in Nat /\ PastOK => PastOK'
    /\ PastOK => restarts \in Nat /\ edits \in Nat /\ restarts + 1 \in Nat /\ edits + 1 \in Nat
  <1>1. (UNCHANGED history /\ HistoryOK => HistoryOK') /\ (UNCHANGED <<history, out>> /\ RowsOK => RowsOK')
    BY DEF HistoryOK, RowsOK
  <1>2. (UNCHANGED chrLoads /\ LoadsOK => LoadsOK') /\ (UNCHANGED <<history, cursor, baseline>> /\ CursorOK => CursorOK')
    BY DEF LoadsOK, CursorOK
  <1>3. (UNCHANGED <<lastMode, paused, streak>> /\ StateOK => StateOK') /\ (UNCHANGED settings /\ PageOK => PageOK')
    BY DEF StateOK, PageOK
  <1>4. (UNCHANGED config /\ ConfigOK => ConfigOK') /\ (UNCHANGED <<sheet, stops>> /\ SheetOK => SheetOK')
    BY DEF ConfigOK, SheetOK
  <1>5. UNCHANGED <<history, pc, tick>> /\ TickOK => TickOK'
    BY DEF TickOK
  <1>6. /\ UNCHANGED <<hand, passedOver, denied>> /\ restarts' \in Nat /\ edits' \in Nat /\ PastOK => PastOK'
        /\ PastOK => restarts \in Nat /\ edits \in Nat /\ restarts + 1 \in Nat /\ edits + 1 \in Nat
    BY DEF PastOK
  <1> QED BY <1>1, <1>2, <1>3, <1>4, <1>5, <1>6

\* The history has a length, and the empty tick stays within it.
LEMMA Lengths == TypeOK => Len(history) \in Nat /\ NoTick.upto \in 0..Len(history)
  <1> SUFFICES ASSUME TypeOK PROVE Len(history) \in Nat
    BY DEF NoTick
  <1>1. history \in Seq([load : Loads, status : Statuses, source : Sources])
    BY DEF TypeOK
  <1> QED BY <1>1

\* The empty tick is one.
LEMMA NoTickOK ==
    ASSUME NEW n \in Nat
    PROVE  NoTick \in TickType(n)
  BY OutboxAssumption DEF NoTick, Modes, Verdicts, TickType

\* The sheet cannot be read, or the page's mode moved meanwhile.
LEMMA SheetLostKeeps == ASSUME OutboxInv, SheetFails \/ ModeMoved PROVE Keeps
  <1>1. /\ pc' = "idle" /\ tick' = NoTick
        /\ UNCHANGED <<worldVars, out, chrLoads, stateVars, settings, historyVars, boundVars>>
    BY DEF SheetFails, ModeMoved
  <1>2. TypeOK'
    <2>1. TickOK'
      BY <1>1, Lengths, NoTickOK DEF OutboxInv, TickOK, worldVars
    <2> QED BY <1>1, <2>1, TypeParts, PartsKept DEF OutboxInv, worldVars, stateVars, historyVars, boundVars
  <1>3. OutboxInv'
    BY <1>1, <1>2, QuietKeeps DEF stateVars, historyVars
  <1> QED BY <1>1, <1>3, QuietRefines DEF Keeps, historyVars

\* The process dies.
LEMMA CrashKeeps == ASSUME OutboxInv, Crash PROVE Keeps
  <1>1. /\ pc' = "down" /\ tick' = NoTick /\ restarts' = restarts + 1
        /\ UNCHANGED <<worldVars, out, chrLoads, stateVars, settings, historyVars, edits>>
    BY DEF Crash
  <1>2. TypeOK'
    <2>1. TickOK'
      BY <1>1, Lengths, NoTickOK DEF OutboxInv, TickOK, worldVars
    <2> QED BY <1>1, <2>1, TypeParts, PartsKept DEF OutboxInv, worldVars, stateVars, historyVars, boundVars
  <1>3. OutboxInv'
    BY <1>1, <1>2, QuietKeeps DEF stateVars, historyVars
  <1> QED BY <1>1, <1>3, QuietRefines DEF Keeps, historyVars

\* The process starts.
LEMMA BootKeeps == ASSUME OutboxInv, Boot PROVE Keeps
  <1>1. /\ pc' = "booted" /\ config' \in [send : BOOLEAN, all : BOOLEAN]
        /\ UNCHANGED <<history, sheet, stops, out, chrLoads, stateVars, settings, tick, historyVars, boundVars>>
    BY DEF Boot
  <1>2. TypeOK'
    <2>1. TickOK' /\ ConfigOK'
      BY <1>1, TypeParts DEF OutboxInv, TickOK, ConfigOK
    <2> QED BY <1>1, <2>1, TypeParts, PartsKept DEF OutboxInv, stateVars, historyVars, boundVars
  <1>3. OutboxInv'
    BY <1>1, <1>2, QuietKeeps DEF stateVars, historyVars
  <1> QED BY <1>1, <1>3, QuietRefines DEF Keeps, historyVars

\* A status is written.
LEMMA AddStatusKeeps ==
    ASSUME OutboxInv, NEW l \in Loads, NEW status \in RowStatuses, NEW source \in RowSources, AddStatus(l, status, source)
    PROVE  Keeps
  <1> DEFINE r == [load |-> l, status |-> status, source |-> source]
             R == [load : Loads, status : Statuses, source : Sources]
  <1>1. /\ Len(history) < MaxHistory /\ history' = Append(history, r)
        /\ UNCHANGED <<sheet, stops, config, out, chrLoads, stateVars, settings, pc, tick, historyVars, boundVars>>
    BY DEF AddStatus
  <1>2. r \in R /\ MaxHistory \in Nat
    BY OutboxAssumption
  <1>3. history \in Seq(R) /\ TypeOK
    BY DEF OutboxInv, TypeOK
  <1> HIDE DEF r, R
  <1>4. history' \in Seq(R) /\ Len(history') = Len(history) + 1 /\ Len(history) \in Nat
    BY <1>1, <1>2, <1>3
  <1>5. TypeOK'
    <2>1. HistoryOK' /\ 0..Len(history) \subseteq 0..Len(history')
      BY <1>1, <1>2, <1>4 DEF R, HistoryOK
    <2>2. TickOK'
      BY <1>1, <1>3, <2>1, TypeParts DEF TickOK, TickType
    <2>3. CursorOK'
      BY <1>1, <1>3, <2>1, TypeParts DEF CursorOK, stateVars
    <2>4. RowsOK'
      BY <1>1, <1>3, <1>4, TypeParts DEF RowsOK, Ids
    <2> QED BY <1>1, <1>3, <2>1, <2>2, <2>3, <2>4, TypeParts, PartsKept DEF stateVars, historyVars, boundVars
  <1>6. OutboxInv'
    BY <1>1, <1>5, QuietKeeps DEF stateVars, historyVars
  <1> QED BY <1>1, <1>6, QuietRefines DEF Keeps, historyVars

\* The sheet or the driver instructions change.
LEMMA SheetChangesKeeps ==
    ASSUME OutboxInv, NEW l \in Loads, NEW verdict \in SheetVerdicts, SheetChanges(l, verdict) \/ StopsChange(l)
    PROVE  Keeps
  <1>1. /\ sheet' \in [Loads -> Verdicts] /\ stops' \in SUBSET Loads /\ edits' = edits + 1 /\ restarts' = restarts
        /\ UNCHANGED <<history, config, out, chrLoads, stateVars, settings, pc, tick, historyVars>>
    BY OutboxAssumption, TypeParts DEF SheetChanges, StopsChange, Edited, OutboxInv, SheetOK
  <1>2. TypeOK'
    <2>1. SheetOK'
      BY <1>1, TypeParts DEF OutboxInv, SheetOK
    <2> QED BY <1>1, <2>1, TypeParts, PartsKept DEF OutboxInv, worldVars, stateVars, historyVars
  <1>3. OutboxInv'
    BY <1>1, <1>2, QuietKeeps DEF stateVars, historyVars
  <1> QED BY <1>1, <1>3, QuietRefines DEF Keeps, historyVars

\* The page's mode is set, or everything stopped.
LEMMA PageKeeps ==
    ASSUME OutboxInv, (\E mode \in Pages, pilot \in Loads \cup {NoLoad} : SetPage(mode, pilot)) \/ Stop
    PROVE  Keeps
  <1>1. /\ settings' \in Settings /\ edits' = edits + 1 /\ restarts' = restarts
        /\ UNCHANGED <<worldVars, out, chrLoads, stateVars, pc, tick, historyVars>>
    <2>1. ASSUME NEW mode \in Pages, NEW pilot \in Loads \cup {NoLoad}, SetPage(mode, pilot)
          PROVE  /\ settings' \in Settings /\ edits' = edits + 1 /\ restarts' = restarts
                 /\ UNCHANGED <<worldVars, out, chrLoads, stateVars, pc, tick, historyVars>>
      BY <2>1, TypeParts, OutboxAssumption DEF SetPage, Edited, OutboxInv, PageOK, Settings
    <2>2. CASE Stop
      <3>1. settings \in Settings /\ settings' = [settings EXCEPT !.page = "off"]
        BY <2>2, TypeParts DEF Stop, OutboxInv, PageOK
      <3>2. settings' \in Settings
        BY <3>1 DEF Settings, Modes
      <3> QED BY <2>2, <3>2 DEF Stop, Edited
    <2> QED BY <2>1, <2>2
  <1>2. TypeOK'
    <2>1. PageOK'
      BY <1>1, TypeParts DEF OutboxInv, PageOK
    <2> QED BY <1>1, <2>1, TypeParts, PartsKept DEF OutboxInv, worldVars, stateVars, historyVars
  <1>3. OutboxInv'
    BY <1>1, <1>2, QuietKeeps DEF stateVars, historyVars
  <1> QED BY <1>1, <1>3, QuietRefines DEF Keeps, historyVars

\* A load is put on hold.
LEMMA HoldKeeps == ASSUME OutboxInv, NEW l \in Loads, Hold(l) PROVE Keeps
  <1>1. /\ chrLoads' = [chrLoads EXCEPT ![l].hold = TRUE] /\ edits' = edits + 1 /\ restarts' = restarts
        /\ UNCHANGED <<worldVars, out, stateVars, settings, pc, tick, historyVars>>
    BY DEF Hold, Edited
  <1>2. TypeOK'
    <2>1. LoadsOK'
      BY <1>1, TypeParts DEF OutboxInv, LoadsOK
    <2> QED BY <1>1, <2>1, TypeParts, PartsKept DEF OutboxInv, worldVars, stateVars, historyVars
  <1>3. OutboxInv'
    BY <1>1, <1>2, QuietKeeps DEF stateVars, historyVars
  <1> QED BY <1>1, <1>3, QuietRefines DEF Keeps, historyVars

-----------------------------------------------------------------------------
(* The ticks. *)

\* A step of the server with no request under way.
LEMMA ServerRefines ==
    ASSUME pc # "request", hand' = hand,
           \A h \in Ids : /\ MayBecome(out[h].status, out'[h].status)
                          /\ out[h].status # "sending" /\ out'[h].status = "sending" <=> pc' = "request" /\ tick'.row = h
    PROVE  Once!Next
  <1>1. ASSUME NEW h \in Ids PROVE Fate(h)' = Fate(h) \/ <<Fate(h), Fate(h)'>> \in Once!Moves
    BY FateMoves
  <1> QED BY <1>1, WorkRefines

\* The page after the pilot's check, and its mode.
LEMMA PageIn ==
    ASSUME PageOK, NEW timedOut
    PROVE  LET s == PilotChecked(timedOut) IN
           s \in Settings /\ EffectiveMode(s) \in Modes
  <1>1. PilotChecked(timedOut) \in Settings
    BY DEF PilotChecked, PilotEnds, PageOK, Settings, Modes
  <1>2. ASSUME NEW s \in Settings PROVE EffectiveMode(s) \in Modes
    BY DEF EffectiveMode, Settings, Modes
  <1> QED BY <1>1, <1>2

\* A tick with recording off.
LEMMA TickOffKeeps == ASSUME OutboxInv, NEW timedOut \in BOOLEAN, TickOff(timedOut) PROVE Keeps
  <1>1. /\ pc \in {"booted", "idle"} /\ pc' = "idle" /\ lastMode' = "off" /\ settings' = PilotChecked(timedOut)
        /\ out' = IF On(lastMode) THEN EachRow(out, SkippedPending) ELSE out
        /\ UNCHANGED <<worldVars, chrLoads, cursor, baseline, paused, streak, tick, historyVars, boundVars>>
    BY DEF TickOff
  <1>2. TypeOK /\ RowsOK /\ PageOK /\ TickOK /\ StateOK
    BY TypeParts DEF OutboxInv
  <1>3. ASSUME NEW h \in Ids
        PROVE  /\ out'[h] \in Row /\ MayBecome(out[h].status, out'[h].status)
               /\ out'[h].status # "pending" \/ out[h].status = "pending"
               /\ out'[h].status # "sending" \/ out[h].status = "sending"
               /\ out'[h].status # "none" => out[h].status # "none"
    <2>1. out[h] \in Row
      BY <1>2 DEF RowsOK
    <2>2. out'[h] = out[h] \/ (out[h].status = "pending" /\ out'[h] = [out[h] EXCEPT !.status = "skipped_off"])
      BY <1>1, <1>2 DEF EachRow, SkippedPending
    <2> QED BY <2>1, <2>2 DEF Row, RowStates, MayBecome, Ended
  <1>4. out' \in [Ids -> Row]
    BY <1>1, <1>2, <1>3 DEF EachRow, RowsOK
  <1>5. TypeOK'
    <2>1. RowsOK'
      BY <1>1, <1>2, <1>3, <1>4 DEF RowsOK, worldVars
    <2>2. PageOK'
      BY <1>1, <1>2, PageIn DEF PageOK
    <2>3. TickOK' /\ StateOK'
      BY <1>1, <1>2 DEF TickOK, StateOK, worldVars, Modes
    <2> QED BY <1>1, <1>2, <2>1, <2>2, <2>3, TypeParts, PartsKept DEF worldVars, historyVars, boundVars
  <1>6. OutboxInv'
    BY <1>1, <1>3, <1>5 DEF OutboxInv, historyVars
  <1>7. Once!Next
    BY <1>1, <1>3, ServerRefines DEF historyVars
  <1> QED BY <1>1, <1>6, <1>7 DEF Keeps, Claims

\* A tick with recording on.
LEMMA TickOnKeeps ==
    ASSUME OutboxInv, NEW timedOut \in BOOLEAN, NEW gap \in BOOLEAN, NEW late, NEW pauseOver \in BOOLEAN,
           TickOn(timedOut, gap, late, pauseOver)
    PROVE  Keeps
  <1> DEFINE s == PilotChecked(timedOut)
             starts == ~On(lastMode) \/ gap
             from == IF starts THEN Len(history) ELSE cursor
             upto == IF Len(history) - from > Batch THEN from + Batch ELSE Len(history)
  <1>1. /\ pc \in {"booted", "idle"} /\ settings' = s /\ lastMode' = EffectiveMode(s)
        /\ pauseOver => paused = "CHR_UNAVAILABLE"
        /\ out' = [h \in Ids |-> IF out[h].status = "none" THEN out[h] ELSE Kept(starts, s, late, h, out[h])]
        /\ cursor' = from /\ (starts => baseline' = from) /\ (~starts => baseline' = baseline)
        /\ pauseOver => paused' = "" /\ streak' = 0
        /\ ~pauseOver => paused' = paused /\ streak' = streak
        /\ \/ pc' = "sheet" /\ tick' = [NoTick EXCEPT !.mode = EffectiveMode(s), !.upto = IF upto > from THEN upto ELSE 0]
           \/ pc' = "idle" /\ UNCHANGED tick
        /\ UNCHANGED <<worldVars, chrLoads, historyVars, boundVars>>
    BY DEF TickOn, EachRow
  <1>2. TypeOK /\ RowsOK /\ PageOK /\ TickOK /\ StateOK /\ CursorOK /\ Len(history) \in Nat
    BY TypeParts, Lengths DEF OutboxInv
  <1>3. starts \in BOOLEAN
    BY DEF On
  <1>4. s \in Settings /\ EffectiveMode(s) \in Modes
    BY <1>2, PageIn
  <1> HIDE DEF s, starts
  <1>5. from \in 0..Len(history) /\ upto \in 0..Len(history) /\ from >= baseline
    BY <1>2, OutboxAssumption DEF CursorOK
  <1> HIDE DEF from, upto
  <1>6. ASSUME NEW h \in Ids
        PROVE  /\ out'[h] \in Row /\ MayBecome(out[h].status, out'[h].status)
               /\ out'[h].status # "pending" \/ (out[h].status = "pending" /\ ~starts)
               /\ out'[h].status # "sending" \/ out[h].status = "sending"
               /\ out'[h].status # "none" => out[h].status # "none"
    <2> DEFINE k == Kept(starts, s, late, h, out[h])
    <2>1. out[h] \in Row
      BY <1>2 DEF RowsOK
    <2>2. /\ k \in Row /\ k.mode = out[h].mode
          /\ k.status = out[h].status \/ (out[h].status = "sending" /\ k.status = "outcome_unknown")
               \/ (out[h].status = "pending" /\ k.status \in {"skipped_off", "gave_up"})
          /\ starts => k.status # "pending"
      BY <1>3, <2>1, KeptOK
    <2>3. out'[h] = IF out[h].status = "none" THEN out[h] ELSE k
      BY <1>1
    <2> HIDE DEF k
    <2> QED BY <2>1, <2>2, <2>3 DEF MayBecome, Ended
  <1>7. out' \in [Ids -> Row]
    <2>1. out' = [h \in Ids |-> out'[h]]
      BY <1>1
    <2> QED BY <1>6, <2>1
  <1>8. TypeOK'
    <2>1. RowsOK'
      BY <1>1, <1>2, <1>6, <1>7 DEF RowsOK, worldVars
    <2>2. PageOK'
      BY <1>1, <1>4 DEF PageOK
    <2>3. StateOK'
      <3>1. lastMode' \in Modes
        BY <1>1, <1>4
      <3>2. paused' \in {"", "AUTH_FAILED", "CHR_UNAVAILABLE"} /\ streak' \in Nat
        <4>1. CASE pauseOver
          <5>1. streak' = 0 /\ paused' = ""
            BY <1>1, <4>1
          <5> QED BY <5>1
        <4>2. CASE ~pauseOver
          BY <1>1, <1>2, <4>2 DEF StateOK
        <4> QED BY <4>1, <4>2
      <3> QED BY <3>1, <3>2 DEF StateOK
    <2>4. CursorOK'
      <3>1. history' = history /\ cursor' = from
        BY <1>1 DEF worldVars
      <3>2. baseline \in Nat /\ from \in Nat
        BY <1>2, <1>5 DEF CursorOK
      <3>3. baseline' = from \/ baseline' = baseline
        BY <1>1
      <3> QED BY <1>5, <3>1, <3>2, <3>3 DEF CursorOK
    <2>5. TickOK'
      <3>1. CASE pc' = "idle" /\ UNCHANGED tick
        BY <1>1, <1>2, <3>1 DEF TickOK, worldVars
      <3>2. CASE pc' = "sheet" /\ tick' = [NoTick EXCEPT !.mode = EffectiveMode(s), !.upto = IF upto > from THEN upto ELSE 0]
        <4>1. NoTick \in TickType(Len(history)) /\ (IF upto > from THEN upto ELSE 0) \in 0..Len(history)
          BY <1>2, <1>5, NoTickOK
        <4>2. tick' \in TickType(Len(history))
          BY <1>4, <3>2, <4>1 DEF TickType
        <4> QED BY <1>1, <3>2, <4>2 DEF TickOK, worldVars
      <3> QED BY <1>1, <3>1, <3>2
    <2> QED BY <1>1, <1>2, <2>1, <2>2, <2>3, <2>4, <2>5, TypeParts, PartsKept DEF worldVars, historyVars, boundVars
  <1>9. OutboxInv'
    <2>1. pc' = "sheet" => tick'.upto = 0 \/ tick'.upto >= cursor'
      <3>1. ASSUME pc' = "sheet" PROVE tick'.upto = IF upto > from THEN upto ELSE 0
        BY <1>1, <3>1 DEF NoTick
      <3>2. cursor' = from
        BY <1>1
      <3> QED BY <1>5, <3>1, <3>2
    <2>2. \A h \in Ids : out'[h].status = "pending" => h > baseline' \/ hand'[h] > 0
      BY <1>1, <1>6 DEF OutboxInv, historyVars
    <2>3. denied' => paused' = "AUTH_FAILED"
      BY <1>1 DEF OutboxInv, historyVars
    <2> QED BY <1>1, <1>8, <2>1, <2>2, <2>3 DEF OutboxInv
  <1>10. Once!Next
    BY <1>1, <1>6, ServerRefines DEF historyVars
  <1> QED BY <1>1, <1>9, <1>10 DEF Keeps, Claims

\* What the loads and the cursor are after a recording.
LEMMA RecordedLoadsOK ==
    ASSUME TypeOK, NEW upto, NEW seen
    PROVE  RecordedLoads(upto, seen) \in [Loads -> [known : BOOLEAN, hold : BOOLEAN, multi : BOOLEAN]]
  <1> DEFINE T == [known : BOOLEAN, hold : BOOLEAN, multi : BOOLEAN]
             F(l) == IF l \in SweptLoads(upto, seen) /\ seen[l] = "chr"
                     THEN [chrLoads[l] EXCEPT !.known = TRUE, !.multi = MultiStop(history, l) \/ l \in stops]
                     ELSE chrLoads[l]
  <1>1. ASSUME NEW l \in Loads PROVE F(l) \in T
    <2>1. chrLoads[l] \in T
      BY TypeParts DEF LoadsOK
    <2>2. (MultiStop(history, l) \/ l \in stops) \in BOOLEAN
      BY DEF MultiStop, AnyMulti
    <2> QED BY <2>1, <2>2
  <1>2. RecordedLoads(upto, seen) = [l \in Loads |-> F(l)]
    BY DEF RecordedLoads
  <1> HIDE DEF F
  <1> QED BY <1>1, <1>2

\* What nothing speaking against a row means.
LEMMA NotRefused ==
    ASSUME NEW h, NEW seen, NEW loads, WhyNotSent(h, seen, loads) = ""
    PROVE  /\ LoadMode(settings, LoadOf(h)) = "live"
           /\ ~loads[LoadOf(h)].hold /\ ~loads[LoadOf(h)].multi /\ LoadOf(h) \notin stops
  <1>1. LoadMode(settings, LoadOf(h)) = "live" /\ Refusal(h, seen, loads) = ""
    BY DEF WhyNotSent
  <1> QED BY <1>1 DEF Refusal

\* The tick's type after the sender's part.
LEMMA TickSentOn ==
    ASSUME TypeOK, NEW o, NEW seen \in [Loads -> Verdicts], NEW loads, NEW todo \in SUBSET Ids,
           SentOn(o, seen, loads, todo)
    PROVE  pc' \in {"idle", "request"} /\ tick' \in TickType(Len(history))
  <1>1. Len(history) \in Nat /\ tick \in TickType(Len(history))
    BY TypeParts, Lengths DEF TickOK
  <1>2. CASE pc' = "idle" /\ tick' = NoTick
    BY <1>1, <1>2, NoTickOK
  <1>3. CASE /\ pc' = "request" /\ tick'.row \in todo /\ tick'.todo \subseteq todo \ {tick'.row}
             /\ tick' = [tick EXCEPT !.seen = seen, !.todo = tick'.todo, !.row = tick'.row]
    <2>1. tick'.row \in 0..MaxHistory /\ tick'.todo \in SUBSET Ids
      BY <1>3, OutboxAssumption DEF Ids
    <2> QED BY <1>1, <1>3, <2>1 DEF TickType
  <1> QED BY <1>2, <1>3 DEF SentOn

\* The sheet arrives.
LEMMA SheetReadKeeps ==
    ASSUME OutboxInv, NEW due, NEW near, NEW todo, SheetRead(due, near, todo)
    PROVE  Keeps
  <1> DEFINE upto == tick.upto
             loads == RecordedLoads(upto, sheet)
             rec == Recorded(upto, sheet)
             o == Decided(rec, sheet, loads, due, near)
  <1>1. /\ pc = "sheet"
        /\ due \subseteq {h \in Ids : rec[h].status = "pending" /\ ~rec[h].ready}
        /\ todo \subseteq {h \in Ids : config.send /\ o[h].status = "pending" /\ o[h].mode = "live" /\ o[h].ready}
        /\ cursor' = NextCursor(upto) /\ chrLoads' = loads
        /\ passedOver' = passedOver \cup {l \in BatchLoads(upto) : sheet[l] = "other"}
        /\ UNCHANGED paused
        /\ SendNext(o, sheet, loads, todo)
        /\ UNCHANGED <<worldVars, baseline, lastMode, streak, settings, hand, denied, boundVars>>
    BY DEF SheetRead
  <1>2. TypeOK /\ HistoryOK /\ RowsOK /\ CursorOK /\ StateOK /\ SheetOK /\ TickOK /\ PastOK /\ Len(history) \in Nat
    BY TypeParts, Lengths DEF OutboxInv
  <1>3. /\ rec \in [Ids -> Row]
        /\ \A h \in Ids :
             /\ SameMode(out[h], rec[h])
             /\ \/ rec[h].status = out[h].status
                \/ /\ out[h].status = "none" /\ rec[h].status \in {"skipped_not_chr", "held", "pending"}
                   /\ h > baseline /\ h <= Len(history)
                \/ out[h].status \in {"pending", "held"} /\ rec[h].status = "skipped_backwards"
    BY <1>2, RecordedOK
  <1> HIDE DEF rec, loads
  <1>4. /\ o \in [Ids -> Row]
        /\ \A h \in Ids :
             /\ o[h].mode = rec[h].mode
             /\ o[h].status = rec[h].status \/ (rec[h].status = "pending" /\ o[h].status \in Ended)
    <2>1. \A h \in Ids : h \in due => rec[h].status = "pending"
      BY <1>1
    <2> QED BY <1>3, <2>1, DecidedOK
  <1> HIDE DEF o
  <1>5. todo \in SUBSET Ids /\ \A h \in todo : o[h].mode = "live"
    BY <1>1
  <1>6. SentOn(o, sheet, loads, todo)
    <2>1. tick \in [mode : Modes, upto : Nat, seen : [Loads -> Verdicts], todo : SUBSET Ids, row : 0..MaxHistory]
      BY <1>2 DEF TickOK, TickType
    <2> QED BY <1>1, <1>4, <1>5, <2>1, SendNextOK
  <1>7. ASSUME NEW h \in Ids
        PROVE  /\ MayBecome(out[h].status, out'[h].status)
               /\ out[h].status # "sending" /\ out'[h].status = "sending" <=> pc' = "request" /\ tick'.row = h
               /\ out'[h].status \in {"pending", "sending"} /\ out[h].status # out'[h].status =>
                    out[h].status \in {"none", "pending"}
               /\ out[h].status = "none" /\ out'[h].status # "none" => h > baseline /\ h <= Len(history)
    <2>1. /\ out'[h].status = o[h].status
               \/ (o[h].status = "pending" /\ out'[h].status \in Ended)
               \/ (o[h].status = "pending" /\ out'[h].status = "sending" /\ pc' = "request" /\ tick'.row = h)
          /\ pc' = "request" /\ tick'.row = h => o[h].status = "pending" /\ out'[h].status = "sending"
      BY <1>6 DEF SentOn, NoTick
    <2>2. o[h].status = rec[h].status \/ (rec[h].status = "pending" /\ o[h].status \in Ended)
      BY <1>4
    <2>3. \/ rec[h].status = out[h].status
          \/ /\ out[h].status = "none" /\ rec[h].status \in {"skipped_not_chr", "held", "pending"}
             /\ h > baseline /\ h <= Len(history)
          \/ out[h].status \in {"pending", "held"} /\ rec[h].status = "skipped_backwards"
      BY <1>3
    <2> QED BY <2>1, <2>2, <2>3 DEF MayBecome, Ended
  <1>8. TypeOK'
    <2>1. RowsOK'
      <3>1. out' \in [Ids -> Row] /\ history' = history
        BY <1>1, <1>6 DEF SentOn, worldVars
      <3>2. \A h \in Ids : out'[h].status # "none" => h <= Len(history)
        BY <1>2, <1>7 DEF RowsOK
      <3> QED BY <3>1, <3>2 DEF RowsOK
    <2>2. LoadsOK'
      BY <1>1, <1>2, RecordedLoadsOK DEF LoadsOK, loads
    <2>3. CursorOK'
      <3>1. history' = history /\ baseline' = baseline /\ cursor' = IF tick.upto > 0 THEN tick.upto ELSE cursor
        BY <1>1 DEF worldVars, NextCursor
      <3>2. tick.upto \in 0..Len(history) /\ (tick.upto = 0 \/ tick.upto >= cursor)
        BY <1>1, <1>2 DEF OutboxInv, TickOK, TickType
      <3> QED BY <1>2, <3>1, <3>2 DEF CursorOK
    <2>4. TickOK'
      BY <1>1, <1>2, <1>5, <1>6, TickSentOn DEF SheetOK, TickOK, worldVars
    <2>5. PastOK'
      <3>1. BatchLoads(upto) \subseteq Loads
        <4>1. ASSUME NEW h \in (cursor + 1)..upto PROVE LoadOf(h) \in Loads
          <5>1. h \in 1..Len(history)
            BY <1>2 DEF CursorOK, TickOK, TickType
          <5> DEFINE R == [load : Loads, status : Statuses, source : Sources]
          <5>2. history \in Seq(R)
            BY <1>2 DEF HistoryOK
          <5> HIDE DEF R
          <5>3. history[h] \in R
            BY <5>1, <5>2
          <5> QED BY <5>3 DEF R, LoadOf
        <4> QED BY <4>1 DEF BatchLoads
      <3> QED BY <1>1, <1>2, <3>1 DEF PastOK, boundVars
    <2> QED BY <1>1, <1>2, <2>1, <2>2, <2>3, <2>4, <2>5, TypeParts, PartsKept DEF worldVars
  <1>9. \A h \in Ids : out'[h].status \in {"pending", "sending"} /\ out[h].status # "sending" => h > baseline \/ hand[h] > 0
    BY <1>7 DEF OutboxInv
  <1>10. OutboxInv'
    <2>1. pc' = "request" =>
             /\ paused' = ""
             /\ tick'.row \in Ids \ tick'.todo /\ out'[tick'.row].status = "sending"
             /\ tick'.row > baseline' \/ hand'[tick'.row] > 0
             /\ \A h \in tick'.todo : out'[h].mode = "live"
      <3> SUFFICES ASSUME pc' = "request"
                   PROVE  /\ paused' = ""
                          /\ tick'.row \in Ids \ tick'.todo /\ out'[tick'.row].status = "sending"
                          /\ tick'.row > baseline' \/ hand'[tick'.row] > 0
                          /\ \A h \in tick'.todo : out'[h].mode = "live"
        OBVIOUS
      <3>1. /\ paused' = "" /\ tick'.row \in todo /\ out'[tick'.row].status = "sending"
            /\ tick'.todo \subseteq todo \ {tick'.row}
        BY <1>6 DEF SentOn
      <3>2. tick'.row \in Ids /\ tick'.row \notin tick'.todo
        BY <1>5, <3>1
      <3>3. out[tick'.row].status # "sending"
        BY <1>7, <3>2
      <3>4. tick'.row > baseline' \/ hand'[tick'.row] > 0
        BY <1>1, <1>9, <3>1, <3>2, <3>3
      <3>5. \A h \in tick'.todo : out'[h].mode = "live"
        BY <1>5, <1>6, <3>1 DEF SentOn
      <3> QED BY <3>1, <3>2, <3>4, <3>5
    <2>2. pc' # "sheet" /\ denied' = denied /\ paused' = paused
      BY <1>1, <1>6 DEF SentOn
    <2>3. \A h \in Ids : out'[h].status = "pending" => h > baseline' \/ hand'[h] > 0
      <3>1. ASSUME NEW h \in Ids, out'[h].status = "pending" PROVE out[h].status # "sending"
        BY <1>7, <3>1
      <3> QED BY <1>1, <1>9, <3>1
    <2> QED BY <1>8, <2>1, <2>2, <2>3 DEF OutboxInv
  <1>11. Once!Next
    BY <1>1, <1>7, ServerRefines
  <1>12. ASSUME NEW h \in Ids, Claims(h) PROVE ClaimOK(h)
    <2>1. pc' = "request" /\ tick'.row = h /\ out[h].status # "sending"
      BY <1>12 DEF Claims
    <2>2. /\ h \in todo /\ out'[h].status = "sending" /\ o[h].status = "pending"
          /\ out'[h].mode = o[h].mode /\ paused' = ""
      BY <1>6, <2>1 DEF SentOn
    <2>3. WhyNotSent(h, sheet, loads) = ""
      <3>1. \/ out'[h].status = o[h].status
            \/ out'[h].status \in Ended
            \/ WhyNotSent(h, sheet, loads) = ""
        BY <1>6 DEF SentOn
      <3>2. "sending" \notin Ended
        BY DEF Ended
      <3> QED BY <2>2, <3>1, <3>2
    <2>4. h > baseline \/ hand[h] > 0
      BY <1>9, <2>1, <2>2
    <2>5. paused = "" /\ ~denied
      BY <1>1, <2>2 DEF OutboxInv
    <2> QED BY ZenonT(40), <1>1, <1>5, <2>2, <2>3, <2>4, <2>5, NotRefused DEF ClaimOK
  <1> QED BY <1>10, <1>11, <1>12 DEF Keeps

\* A request's answer.
LEMMA AnswerKeeps == ASSUME OutboxInv, NEW code \in Codes, Answer(code) PROVE Keeps
  <1> DEFINE r == tick.row
             broken == code = "RETRYABLE" /\ streak + 1 >= BreakerFails
             status == CASE code = "SENT" -> "sent" [] code = "REFUSED" -> "failed" [] OTHER -> "pending"
             o == [out EXCEPT ![r].status = status]
  <1>1. /\ pc = "request"
        /\ paused' = IF code = "AUTH_FAILED" THEN code ELSE IF broken THEN "CHR_UNAVAILABLE" ELSE paused
        /\ streak' = CASE code = "NOT_CONFIGURED" -> streak
                       [] code = "RETRYABLE" /\ ~broken -> streak + 1
                       [] OTHER -> 0
        /\ denied' = (denied \/ code = "AUTH_FAILED")
        /\ SendNext(o, tick.seen, chrLoads, tick.todo)
        /\ UNCHANGED <<worldVars, chrLoads, cursor, baseline, lastMode, settings, hand, passedOver, boundVars>>
    BY DEF Answer
  <1>2. TypeOK /\ RowsOK /\ CursorOK /\ StateOK /\ TickOK /\ PastOK /\ Len(history) \in Nat
    BY TypeParts, Lengths DEF OutboxInv
  <1>3. /\ r \in Ids \ tick.todo /\ out[r].status = "sending" /\ paused = "" /\ ~denied
        /\ r > baseline \/ hand[r] > 0
        /\ \A h \in tick.todo : out[h].mode = "live"
    BY <1>1 DEF OutboxInv
  <1>4. status \in {"sent", "failed", "pending"} /\ broken \in BOOLEAN
    OBVIOUS
  <1>5. tick.todo \in SUBSET Ids /\ tick.seen \in [Loads -> Verdicts]
        /\ tick \in [mode : Modes, upto : Nat, seen : [Loads -> Verdicts], todo : SUBSET Ids, row : 0..MaxHistory]
    BY <1>2 DEF TickOK, TickType
  <1>6. /\ o \in [Ids -> Row] /\ o[r].status = status /\ o[r].mode = out[r].mode
        /\ \A h \in Ids \ {r} : o[h] = out[h]
    <2>1. out[r] \in Row /\ out \in [Ids -> Row]
      BY <1>2, <1>3 DEF RowsOK
    <2>2. status \in RowStates
      BY <1>4 DEF RowStates
    <2> HIDE DEF status
    <2>3. [out[r] EXCEPT !.status = status] \in Row
      BY <2>1, <2>2 DEF Row
    <2>4. o = [h \in Ids |-> IF h = r THEN [out[r] EXCEPT !.status = status] ELSE out[h]]
      BY <2>1
    <2>5. [out[r] EXCEPT !.status = status].status = status /\ [out[r] EXCEPT !.status = status].mode = out[r].mode
      BY <2>1 DEF Row
    <2> HIDE DEF o, r
    <2> QED BY <1>3, <2>1, <2>3, <2>4, <2>5
  <1> HIDE DEF status, o, broken
  <1>7. SentOn(o, tick.seen, chrLoads, tick.todo)
    BY <1>1, <1>5, <1>6, SendNextOK
  <1>8. out'[r] = o[r] /\ out' \in [Ids -> Row]
    BY <1>3, <1>7 DEF SentOn
  <1>9. pc' = "request" =>
           /\ paused' = "" /\ tick'.row \in tick.todo /\ out'[tick'.row].status = "sending"
           /\ o[tick'.row].status = "pending" /\ tick'.todo \subseteq tick.todo \ {tick'.row}
    BY <1>7 DEF SentOn
  <1>10. ASSUME NEW h \in Ids \ {r}
         PROVE  /\ out'[h].mode = out[h].mode
                /\ MayBecome(out[h].status, out'[h].status)
                /\ out[h].status # "sending" /\ out'[h].status = "sending" <=> pc' = "request" /\ tick'.row = h
                /\ out'[h].status = "pending" => out[h].status = "pending"
                /\ out'[h].status # "none" => out[h].status # "none"
    <2>1. o[h] = out[h]
      BY <1>6
    <2>2. /\ out'[h].mode = o[h].mode
          /\ \/ out'[h].status = o[h].status
             \/ o[h].status = "pending" /\ out'[h].status \in Ended
             \/ o[h].status = "pending" /\ out'[h].status = "sending" /\ pc' = "request" /\ tick'.row = h
      BY <1>7 DEF SentOn
    <2>3. pc' = "request" /\ tick'.row = h => out'[h].status = "sending" /\ o[h].status = "pending"
      BY <1>9
    <2> QED BY <2>1, <2>2, <2>3 DEF MayBecome, Ended
  <1>11. TypeOK'
    <2>1. RowsOK'
      <3>1. ASSUME NEW h \in Ids, out'[h].status # "none" PROVE h <= Len(history)
        <4>1. out[h].status # "none"
          BY <1>3, <1>10, <3>1
        <4> QED BY <1>2, <4>1 DEF RowsOK
      <3> QED BY <1>1, <1>8, <3>1 DEF RowsOK, worldVars
    <2>2. StateOK'
      <3>1. streak' \in Nat
        <4>1. streak' = streak \/ streak' = streak + 1 \/ streak' = 0
          BY <1>1, <1>4
        <4>2. streak \in Nat
          BY <1>2 DEF StateOK
        <4> QED BY <4>1, <4>2
      <3>2. paused' \in {"", "AUTH_FAILED", "CHR_UNAVAILABLE"}
        BY <1>1, <1>3
      <3> QED BY <1>1, <1>2, <3>1, <3>2 DEF StateOK
    <2>3. TickOK'
      BY <1>1, <1>2, <1>5, <1>7, TickSentOn DEF TickOK, worldVars
    <2>4. PastOK'
      BY <1>1, <1>2 DEF PastOK, boundVars
    <2> QED BY <1>1, <1>2, <2>1, <2>2, <2>3, <2>4, TypeParts, PartsKept DEF worldVars
  <1>12. OutboxInv'
    <2>1. pc' = "request" =>
             /\ paused' = ""
             /\ tick'.row \in Ids \ tick'.todo /\ out'[tick'.row].status = "sending"
             /\ tick'.row > baseline' \/ hand'[tick'.row] > 0
             /\ \A h \in tick'.todo : out'[h].mode = "live"
      <3> SUFFICES ASSUME pc' = "request"
                   PROVE  /\ tick'.row \in Ids \ tick'.todo
                          /\ tick'.row > baseline' \/ hand'[tick'.row] > 0
                          /\ \A h \in tick'.todo : out'[h].mode = "live"
        BY <1>9
      <3>1. tick'.row \in Ids \ {r} /\ tick'.row \notin tick'.todo
        BY <1>3, <1>5, <1>9
      <3>2. out[tick'.row].status = "pending"
        BY <1>6, <1>9, <3>1
      <3>3. tick'.row > baseline' \/ hand'[tick'.row] > 0
        BY <1>1, <3>1, <3>2 DEF OutboxInv
      <3>4. \A h \in tick'.todo : h \in tick.todo /\ h \in Ids \ {r}
        BY <1>3, <1>5, <1>9
      <3>5. ASSUME NEW h \in tick'.todo PROVE out'[h].mode = "live"
        <4>1. h \in tick.todo /\ h \in Ids \ {r}
          BY <3>4
        <4>2. out'[h].mode = out[h].mode
          BY <1>10, <4>1
        <4> QED BY <1>3, <4>1, <4>2
      <3> QED BY <3>1, <3>3, <3>5
    <2>2. \A h \in Ids : out'[h].status = "pending" => h > baseline' \/ hand'[h] > 0
      BY <1>1, <1>3, <1>10 DEF OutboxInv
    <2>3. denied' => paused' = "AUTH_FAILED"
      BY <1>1, <1>3
    <2>4. pc' # "sheet"
      BY <1>7 DEF SentOn
    <2> QED BY <1>11, <2>1, <2>2, <2>3, <2>4 DEF OutboxInv
  <1>13. Once!Next
    <2>1. ASSUME NEW h \in Ids PROVE Fate(h)' = Fate(h) \/ <<Fate(h), Fate(h)'>> \in Once!Moves
      <3>1. CASE h = r
        <4>1. Fate(h) = "asked"
          BY <1>1, <1>3, <3>1 DEF Fate
        <4>2. Fate(h)' \in {"told", "refused", "open"}
          BY <1>4, <1>6, <1>8, <3>1 DEF Fate
        <4> QED BY <4>1, <4>2 DEF Once!Moves
      <3>2. CASE h # r
        BY <1>10, <3>2, FateMoves
      <3> QED BY <3>1, <3>2
    <2> QED BY <1>1, <2>1, WorkRefines
  <1>14. ASSUME NEW h \in Ids, Claims(h) PROVE ClaimOK(h)
    <2>1. pc' = "request" /\ tick'.row = h
      BY <1>14 DEF Claims
    <2>2. h \in tick.todo /\ out'[h].status = "sending" /\ o[h].status = "pending" /\ h \in Ids \ {r}
      BY <1>3, <1>9, <2>1
    <2>3. out[h].status = "pending" /\ out'[h].mode = "live"
      BY ZenonT(40), <1>3, <1>6, <1>10, <2>2
    <2>4. WhyNotSent(h, tick.seen, chrLoads) = ""
      <3>1. \/ out'[h].status = o[h].status
            \/ out'[h].status \in Ended
            \/ WhyNotSent(h, tick.seen, chrLoads) = ""
        BY <1>7 DEF SentOn
      <3>2. "sending" \notin Ended
        BY DEF Ended
      <3> QED BY <2>2, <3>1, <3>2
    <2>5. h > baseline \/ hand[h] > 0
      BY <2>3 DEF OutboxInv
    <2> QED BY <1>1, <1>3, <2>3, <2>4, <2>5, NotRefused DEF ClaimOK
  <1> QED BY <1>12, <1>13, <1>14 DEF Keeps

-----------------------------------------------------------------------------
(* People. *)

\* A person puts rows back that are closed, refused or unsure.
LEMMA InsistKeeps ==
    ASSUME OutboxInv, TypeOK', NEW back \in SUBSET Ids,
           \A h \in back : out[h].status \in {"held", "failed", "gave_up", "outcome_unknown"} /\ out'[h].status = "pending",
           \A h \in Ids \ back : out'[h] = out[h],
           \A h \in Ids : out'[h].mode = out[h].mode,
           hand' = [h \in Ids |-> IF h \in back THEN hand[h] + 1 ELSE hand[h]],
           UNCHANGED <<baseline, cursor, denied, paused, pc, tick>>
    PROVE  Keeps
  <1>1. hand \in [Ids -> Nat]
    BY TypeParts DEF OutboxInv, PastOK
  <1>2. \A h \in Ids : hand'[h] \in Nat /\ hand'[h] >= hand[h] /\ (h \in back => hand'[h] > 0)
    BY <1>1
  <1>3. OutboxInv'
    <2>1. \A h \in Ids : out'[h].status = "pending" => h > baseline' \/ hand'[h] > 0
      <3>1. ASSUME NEW h \in Ids, out'[h].status = "pending", h \notin back PROVE h > baseline \/ hand'[h] > 0
        <4>1. h > baseline \/ hand[h] > 0
          BY <3>1 DEF OutboxInv
        <4> QED BY <1>1, <1>2, <4>1
      <3> QED BY <1>2, <3>1
    <2>2. ASSUME pc' = "request"
          PROVE  /\ paused' = ""
                 /\ tick'.row \in Ids \ tick'.todo /\ out'[tick'.row].status = "sending"
                 /\ tick'.row > baseline' \/ hand'[tick'.row] > 0
                 /\ \A h \in tick'.todo : out'[h].mode = "live"
      <3>1. /\ paused = "" /\ tick.row \in Ids \ tick.todo /\ out[tick.row].status = "sending"
            /\ tick.row > baseline \/ hand[tick.row] > 0
            /\ \A h \in tick.todo : out[h].mode = "live"
        BY <2>2 DEF OutboxInv
      <3>2. tick.row \notin back
        BY <3>1
      <3>3. tick.row > baseline \/ hand'[tick.row] > 0
        BY <1>1, <1>2, <3>1
      <3>4. tick.todo \subseteq Ids
        BY TypeParts DEF OutboxInv, TickOK, TickType
      <3> QED BY <3>1, <3>2, <3>3, <3>4
    <2> QED BY <2>1, <2>2 DEF OutboxInv
  <1>4. Once!Insist(back)
    <2>1. ASSUME NEW h \in Ids
          PROVE  /\ h \in back => Fate(h) \in {"closed", "unsure", "refused"} /\ Fate(h)' = "open"
                 /\ h \notin back => Fate(h)' = Fate(h)
      <3>1. CASE h \in back
        BY <3>1 DEF Fate
      <3>2. CASE h \notin back
        BY <3>2 DEF Fate
      <3> QED BY <3>1, <3>2
    <2> QED BY <2>1 DEF Once!Insist
  <1>5. ASSUME NEW h \in Ids, Claims(h) PROVE FALSE
    BY <1>5 DEF Claims, OutboxInv
  <1> QED BY <1>3, <1>4, <1>5 DEF Keeps, Once!Next

\* A hold ends.
LEMMA ReleaseKeeps == ASSUME OutboxInv, NEW l \in Loads, Release(l) PROVE Keeps
  <1> DEFINE back == {h \in Ids : out[h].status = "held" /\ out[h].loadHold /\ LoadOf(h) = l}
  <1>1. /\ edits' = edits + 1 /\ restarts' = restarts
        /\ chrLoads' = [chrLoads EXCEPT ![l].hold = FALSE]
        /\ out' = [h \in Ids |-> IF h \in back THEN [out[h] EXCEPT !.status = "pending", !.loadHold = FALSE] ELSE out[h]]
        /\ hand' = [h \in Ids |-> IF h \in back THEN hand[h] + 1 ELSE hand[h]]
        /\ UNCHANGED <<worldVars, stateVars, settings, pc, tick, passedOver, denied>>
    BY DEF Release, Edited
  <1>2. TypeOK /\ RowsOK /\ LoadsOK /\ PastOK
    BY TypeParts DEF OutboxInv
  <1>3. back \in SUBSET Ids /\ \A h \in back : out[h].status = "held"
    OBVIOUS
  <1> HIDE DEF back
  <1>4. ASSUME NEW h \in Ids
        PROVE  /\ out'[h] \in Row /\ out'[h].mode = out[h].mode
               /\ h \in back => out'[h].status = "pending"
               /\ h \notin back => out'[h] = out[h]
    <2>1. out[h] \in Row
      BY <1>2 DEF RowsOK
    <2>2. h \in back => out'[h] = [out[h] EXCEPT !.status = "pending", !.loadHold = FALSE]
      BY <1>1
    <2>3. h \notin back => out'[h] = out[h]
      BY <1>1
    <2> QED BY <2>1, <2>2, <2>3 DEF Row, RowStates
  <1>5. TypeOK'
    <2>1. RowsOK'
      <3>1. out' \in [Ids -> Row]
        BY <1>1, <1>4
      <3>2. \A h \in Ids : out'[h].status # "none" => out[h].status # "none"
        BY <1>1, <1>3, <1>4
      <3> QED BY <1>1, <1>2, <3>1, <3>2 DEF RowsOK, worldVars
    <2>2. LoadsOK'
      BY <1>1, <1>2 DEF LoadsOK
    <2>3. PastOK'
      <3>1. hand \in [Ids -> Nat]
        BY <1>2 DEF PastOK
      <3>2. ASSUME NEW h \in Ids PROVE (IF h \in back THEN hand[h] + 1 ELSE hand[h]) \in Nat
        <4>1. hand[h] \in Nat
          BY <3>1
        <4> QED BY <4>1
      <3>3. hand' \in [Ids -> Nat]
        BY <1>1, <3>2
      <3>4. restarts' \in Nat /\ edits' \in Nat
        BY <1>1, <1>2, PartsKept
      <3>5. passedOver' \in SUBSET Loads /\ denied' \in BOOLEAN
        BY <1>1, <1>2 DEF PastOK
      <3> QED BY <3>3, <3>4, <3>5 DEF PastOK
    <2> QED BY <1>1, <1>2, <2>1, <2>2, <2>3, TypeParts, PartsKept DEF worldVars, stateVars
  <1>6. \A h \in back : out[h].status \in {"held", "failed", "gave_up", "outcome_unknown"} /\ out'[h].status = "pending"
    BY <1>3, <1>4
  <1>7. \A h \in Ids \ back : out'[h] = out[h]
    BY <1>1
  <1> QED BY <1>1, <1>3, <1>4, <1>5, <1>6, <1>7, InsistKeeps DEF stateVars

\* A row is retried.
LEMMA RetryKeeps == ASSUME OutboxInv, NEW r \in Ids, Retry(r) PROVE Keeps
  <1>1. /\ edits' = edits + 1 /\ restarts' = restarts
        /\ out[r].status \in {"failed", "gave_up", "outcome_unknown"}
        /\ out' = [out EXCEPT ![r].status = "pending", ![r].acted = TRUE]
        /\ hand' = [hand EXCEPT ![r] = @ + 1]
        /\ UNCHANGED <<worldVars, chrLoads, stateVars, settings, pc, tick, passedOver, denied>>
    BY DEF Retry, Edited
  <1>2. TypeOK /\ RowsOK /\ PastOK
    BY TypeParts DEF OutboxInv
  <1>3. /\ out' \in [Ids -> Row] /\ out'[r].status = "pending" /\ out'[r].mode = out[r].mode
        /\ \A h \in Ids \ {r} : out'[h] = out[h]
    <2>1. out[r] \in Row /\ out \in [Ids -> Row]
      BY <1>2 DEF RowsOK
    <2>2. LET q == [out[r] EXCEPT !.status = "pending", !.acted = TRUE] IN
          q \in Row /\ q.status = "pending" /\ q.mode = out[r].mode
      BY <2>1 DEF Row, RowStates
    <2>3. out'[r] = [out[r] EXCEPT !.status = "pending", !.acted = TRUE] /\ (\A h \in Ids \ {r} : out'[h] = out[h])
          /\ DOMAIN out' = Ids
      BY <1>1, <2>1
    <2>4. out' \in [Ids -> Row]
      BY <1>1, <2>1, <2>2
    <2> QED BY <2>2, <2>3, <2>4
  <1>4. hand' = [h \in Ids |-> IF h \in {r} THEN hand[h] + 1 ELSE hand[h]]
    BY <1>1, <1>2 DEF PastOK
  <1>5. TypeOK'
    <2>1. RowsOK'
      <3>1. \A h \in Ids : out'[h].status # "none" => out[h].status # "none"
        BY <1>1, <1>3
      <3> QED BY <1>1, <1>2, <1>3, <3>1 DEF RowsOK, worldVars
    <2>2. PastOK'
      BY <1>1, <1>2 DEF PastOK
    <2> QED BY <1>1, <1>2, <2>1, <2>2, TypeParts, PartsKept DEF worldVars, stateVars
  <1>6. \A h \in Ids : out'[h].mode = out[h].mode
    BY <1>3
  <1>7. \A h \in {r} : out[h].status \in {"held", "failed", "gave_up", "outcome_unknown"} /\ out'[h].status = "pending"
    BY <1>1, <1>3
  <1>8. UNCHANGED <<baseline, cursor, denied, paused, pc, tick>> /\ {r} \in SUBSET Ids
    BY <1>1 DEF stateVars
  <1>9. \A h \in Ids \ {r} : out'[h] = out[h]
    BY <1>3
  <1> QED BY <1>4, <1>5, <1>6, <1>7, <1>8, <1>9, InsistKeeps

\* Sending is resumed.
LEMMA ResumeKeeps == ASSUME OutboxInv, NEW late, Resume(late) PROVE Keeps
  <1>1. /\ edits' = edits + 1 /\ restarts' = restarts
        /\ paused' = "" /\ streak' = 0 /\ denied' = FALSE
        /\ out' = [h \in Ids |-> IF h \in late /\ out[h].status = "pending" /\ out[h].mode = "live"
                                 THEN [out[h] EXCEPT !.status = "gave_up"] ELSE out[h]]
        /\ UNCHANGED <<worldVars, chrLoads, cursor, baseline, lastMode, settings, pc, tick, hand, passedOver>>
    BY DEF Resume, Edited
  <1>2. TypeOK /\ RowsOK /\ StateOK /\ PastOK
    BY TypeParts DEF OutboxInv
  <1>3. ASSUME NEW h \in Ids
        PROVE  /\ out'[h] \in Row /\ out'[h].mode = out[h].mode
               /\ out'[h] = out[h] \/ (out[h].status = "pending" /\ out'[h].status = "gave_up")
    <2>1. out[h] \in Row
      BY <1>2 DEF RowsOK
    <2>2. out'[h] = out[h] \/ (out[h].status = "pending" /\ out'[h] = [out[h] EXCEPT !.status = "gave_up"])
      BY <1>1
    <2> QED BY <2>1, <2>2 DEF Row, RowStates
  <1>4. TypeOK'
    <2>1. RowsOK'
      <3>1. out' \in [Ids -> Row]
        BY <1>1, <1>3
      <3>2. \A h \in Ids : out'[h].status # "none" => out[h].status # "none"
        BY <1>3
      <3> QED BY <1>1, <1>2, <3>1, <3>2 DEF RowsOK, worldVars
    <2>2. StateOK'
      BY <1>1, <1>2 DEF StateOK
    <2>3. PastOK'
      <3>1. restarts' \in Nat /\ edits' \in Nat
        BY <1>1, <1>2, PartsKept
      <3>2. hand' \in [Ids -> Nat] /\ passedOver' \in SUBSET Loads
        BY <1>1, <1>2 DEF PastOK
      <3>3. denied' \in BOOLEAN
        BY <1>1
      <3> QED BY <3>1, <3>2, <3>3 DEF PastOK
    <2> QED BY <1>1, <1>2, <2>1, <2>2, <2>3, TypeParts, PartsKept DEF worldVars
  <1>5. OutboxInv'
    <2>1. \A h \in Ids : out'[h].status = "pending" => h > baseline' \/ hand'[h] > 0
      BY <1>1, <1>3 DEF OutboxInv
    <2>2. ASSUME pc' = "request"
          PROVE  /\ tick'.row \in Ids \ tick'.todo /\ out'[tick'.row].status = "sending"
                 /\ tick'.row > baseline' \/ hand'[tick'.row] > 0
                 /\ \A h \in tick'.todo : out'[h].mode = "live"
      <3>1. /\ tick.row \in Ids \ tick.todo /\ out[tick.row].status = "sending"
            /\ tick.row > baseline \/ hand[tick.row] > 0
            /\ \A h \in tick.todo : out[h].mode = "live"
        BY <1>1, <2>2 DEF OutboxInv
      <3>2. out'[tick.row] = out[tick.row]
        BY <1>3, <3>1
      <3>3. tick.todo \subseteq Ids
        BY TypeParts DEF OutboxInv, TickOK, TickType
      <3> QED BY <1>1, <1>3, <3>1, <3>2, <3>3
    <2> QED BY <1>1, <1>4, <2>1, <2>2 DEF OutboxInv
  <1>6. ASSUME NEW h \in Ids PROVE Fate(h)' = Fate(h) \/ <<Fate(h), Fate(h)'>> \in Once!Moves
    <2>1. CASE out'[h] = out[h]
      BY <1>1, <2>1 DEF Fate
    <2>2. CASE out[h].status = "pending" /\ out'[h].status = "gave_up"
      BY <2>2 DEF Fate, Once!Moves
    <2> QED BY <1>3, <2>1, <2>2
  <1>7. ASSUME NEW h \in Ids, Claims(h) PROVE FALSE
    BY <1>1, <1>7 DEF Claims, OutboxInv
  <1> QED BY <1>1, <1>5, <1>6, <1>7, WorkRefines DEF Keeps

-----------------------------------------------------------------------------
(* The specification. *)

\* An action keeps the invariant, ChrOnce's promise and what is said of a request.
LEMMA NextKeeps == ASSUME OutboxInv, Next PROVE Keeps
  <1>1. CASE Tick
    BY <1>1, TickOffKeeps, TickOnKeeps, SheetLostKeeps, SheetReadKeeps, AnswerKeeps DEF Tick
  <1>2. CASE People
    <2>1. \A l \in Loads : StopsChange(l) => Keeps
      BY SheetChangesKeeps, OutboxAssumption
    <2> QED BY <1>2, <2>1, PageKeeps, HoldKeeps, ReleaseKeeps, RetryKeeps, ResumeKeeps DEF People
  <1>3. CASE World
    BY <1>3, AddStatusKeeps, SheetChangesKeeps, CrashKeeps, BootKeeps DEF World
  <1> QED BY <1>1, <1>2, <1>3 DEF Next

\* A step that changes nothing keeps the invariant.
LEMMA StutterKeeps ==
    ASSUME OutboxInv, UNCHANGED vars
    PROVE  OutboxInv' /\ UNCHANGED <<[h \in Ids |-> Fate(h)], hand>>
  <1>1. /\ UNCHANGED <<worldVars, out, chrLoads, stateVars, settings, pc, tick, historyVars, boundVars>>
    BY DEF vars
  <1>2. TypeOK'
    BY <1>1, TypeParts, PartsKept DEF OutboxInv, worldVars, stateVars, historyVars, boundVars, PastOK
  <1>3. OutboxInv'
    BY <1>1, <1>2, QuietKeeps DEF stateVars, historyVars
  <1> QED BY <1>1, <1>3 DEF Fate, historyVars

\* A new outbox.
LEMMA InitKeeps == ASSUME Init PROVE OutboxInv /\ Once!Init
  <1>1. TypeOK
    <2>1. HistoryOK /\ Len(history) = 0
      <3> DEFINE R == [load : Loads, status : Statuses, source : Sources]
      <3>1. history = <<>> /\ MaxHistory \in Nat
        BY OutboxAssumption DEF Init
      <3> HIDE DEF R
      <3>2. history \in Seq(R) /\ Len(history) = 0
        BY <3>1
      <3> QED BY <3>1, <3>2 DEF HistoryOK, R
    <2>2. RowsOK
      <3>1. NoRow \in Row /\ NoRow.status = "none"
        BY DEF NoRow, Row, RowStates
      <3> QED BY <3>1 DEF Init, RowsOK
    <2>3. LoadsOK /\ StateOK /\ PageOK /\ ConfigOK /\ PastOK
      BY DEF Init, LoadsOK, StateOK, PageOK, Settings, ConfigOK, PastOK, Modes
    <2>4. CursorOK /\ SheetOK
      <3>1. cursor = 0 /\ baseline = 0
        BY DEF Init
      <3>2. CursorOK
        BY <2>1, <3>1 DEF CursorOK
      <3>3. "chr" \in Verdicts /\ sheet = [l \in Loads |-> "chr"] /\ stops = {}
        BY DEF Init, Verdicts
      <3> QED BY <3>2, <3>3 DEF SheetOK
    <2>5. TickOK
      BY <2>1, NoTickOK DEF Init, TickOK
    <2> QED BY <2>1, <2>2, <2>3, <2>4, <2>5, TypeParts
  <1>2. OutboxInv
    BY <1>1 DEF Init, OutboxInv, NoRow
  <1>3. \A h \in Ids : Fate(h) = "none"
    BY DEF Init, Fate, NoRow
  <1> QED BY <1>2, <1>3 DEF Init, Once!Init

\* The invariant holds: of every outbox, whatever the history, the sheet, the people and the
\* restarts do to it (chr-sweep.js, chr-store.js, chr-routes.js).
THEOREM OutboxInvariant == Spec => []OutboxInv
  <1>1. OutboxInv /\ [Next]_vars => OutboxInv'
    BY NextKeeps, StutterKeeps DEF Keeps
  <1> QED BY <1>1, InitKeeps, PTL DEF Spec

\* Every row, the cursor, the baseline, the tick and the switches keep their types.
THEOREM Typed == Spec => []TypeOK
  <1>1. OutboxInv => TypeOK
    BY DEF OutboxInv
  <1> QED BY <1>1, OutboxInvariant, PTL

\* Nothing old is asked for: neither after recording starts, nor after a gap, nor when a load
\* rises to Live (chr-store.js baseline(), dropNotLive()).
THEOREM NothingOldSent == Spec => NothingOld
  <1>1. OutboxInv /\ [Next]_vars =>
           [\A h \in Ids : Claims(h) => out'[h].mode = "live" /\ (h > baseline \/ hand[h] > 0)]_vars
    BY NextKeeps DEF Keeps, ClaimOK
  <1> QED BY <1>1, OutboxInvariant, PTL DEF Spec, NothingOld

\* A stop is at once: the checks right before a request see the page, the holds, the pause and
\* the extra stops as they then are (chr-sweep.js sendDue()).
THEOREM StopsHold == Spec => StopsAtOnce
  <1>1. OutboxInv /\ [Next]_vars =>
           [\A h \in Ids : Claims(h) =>
              /\ LoadMode(settings, LoadOf(h)) = "live"
              /\ ~chrLoads'[LoadOf(h)].hold /\ ~chrLoads'[LoadOf(h)].multi /\ LoadOf(h) \notin stops
              /\ paused = "" /\ ~denied]_vars
    BY NextKeeps DEF Keeps, ClaimOK
  <1> QED BY <1>1, OutboxInvariant, PTL DEF Spec, StopsAtOnce

\* The outbox implements ChrOnce: no update CHR took, refused or may have taken is asked for again
\* by itself (chr-store.js's conditional moves, recoverStuck()).
THEOREM ImplementsOnce == Spec => KeepsOnce
  <1>1. OutboxInv /\ [Next]_vars => [Once!Next]_<<[h \in Ids |-> Fate(h)], hand>>
    BY NextKeeps, StutterKeeps DEF Keeps
  <1>2. Init => Once!Init
    BY InitKeeps
  <1> QED BY <1>1, <1>2, OutboxInvariant, PTL DEF Spec, KeepsOnce, Once!Spec

-----------------------------------------------------------------------------
(* The replay under the sweep: RevertsReachAll and NothingMissed are kept together with            *)
(* OutboxInv.  A row that is live in the whole history was live at each earlier point above it     *)
(* (LiveFalls), and a load's replay stands still where it has no rows (ReplayStill): what the      *)
(* recording sees of the whole history is so up to the cursor it leaves.                           *)

Reach == RevertsReachAll /\ NothingMissed

\* A row that stands did before, and one that is there stays there.
Onward(q, r) ==
    /\ r.status \notin Skipped /\ ~r.reverted => q.status \notin Skipped /\ ~q.reverted
    /\ q.status # "none" => r.status # "none"

\* What the type says of the history.
LEMMA OutboxHistory ==
    ASSUME TypeOK
    PROVE  /\ IsHistory(history) /\ Len(history) \in Nat
           /\ UpTo(history, Len(history)) = history /\ Len(history) \in 0..Len(history)
           /\ cursor \in 0..Len(history) /\ baseline \in 0..cursor /\ tick.upto \in 0..Len(history)
           /\ \A h \in 1..Len(history) : LoadOf(h) \in Loads
           /\ Len(history) <= MaxHistory /\ 1..Len(history) \subseteq Ids
           /\ \A h \in Ids : out[h].status # "none" => h \in 1..Len(history)
           /\ \A h \in Ids : out[h] \in Row
  <1> DEFINE R == [load : Loads, status : Statuses, source : Sources]
  <1>1. HistoryOK /\ CursorOK /\ TickOK /\ RowsOK
    BY TypeParts
  <1>2. history \in Seq(R) /\ Len(history) <= MaxHistory
    BY <1>1 DEF HistoryOK
  <1>3. \A r \in R : r.status \in Statuses /\ r.load \in Loads
    OBVIOUS
  <1> HIDE DEF R
  <1>4. IsHistory(history)
    BY <1>2, <1>3 DEF IsHistory
  <1>5. \A h \in 1..Len(history) : LoadOf(h) \in Loads
    BY <1>2, <1>3 DEF LoadOf
  <1>6. Len(history) \in Nat /\ UpTo(history, Len(history)) = history /\ Len(history) \in 0..Len(history)
    BY <1>4, HistoryHas, AllOfHistory
  <1>7. cursor \in 0..Len(history) /\ baseline \in 0..cursor /\ tick.upto \in 0..Len(history)
    BY <1>1 DEF CursorOK, TickOK, TickType
  <1>8. 1..Len(history) \subseteq Ids
    BY <1>2, <1>6, OutboxAssumption DEF Ids
  <1>9. \A h \in Ids : out[h] \in Row /\ (out[h].status # "none" => h <= Len(history))
    BY <1>1 DEF RowsOK
  <1>10. \A h \in Ids : out[h].status # "none" => h \in 1..Len(history)
    BY <1>6, <1>9, OutboxAssumption DEF Ids
  <1> QED BY <1>2, <1>4, <1>5, <1>6, <1>7, <1>8, <1>9, <1>10

\* How far the sweep has read, where row h is concerned.
SeenTo(h) == IF h > cursor THEN h ELSE cursor

\* Standing, by it.
LEMMA StandsIs == ASSUME NEW h PROVE Stands(h) <=> h \in Live(UpTo(history, SeenTo(h)), LoadOf(h))
  BY DEF Stands, UpTo, SeenTo

\* A live row of a load is the load's.
LEMMA LiveOf ==
    ASSUME TypeOK, NEW l, NEW h, h \in Live(history, l)
    PROVE  h \in 1..Len(history) /\ LoadOf(h) = l
  <1> DEFINE s == Replay(history, l)
             R == RowsOf(history, l, Len(history))
  <1>1. h \in 1..Len(history) /\ Bears(s, h)
    BY LiveIs
  <1>2. OnStack(s, R)
    BY OutboxHistory, ReplayOnStack
  <1> HIDE DEF s, R
  <1>3. PICK i \in 1..Len(s) : Names(s[i], h)
    BY <1>1 DEF Bears
  <1>4. Named(s[i], R)
    BY <1>2, <1>3 DEF OnStack
  <1>5. h \in R
    BY <1>3, <1>4 DEF Named, Names
  <1> QED BY <1>1, <1>5 DEF R, RowsOf, LoadOf

\* A step that reads no history and moves neither the cursor nor the baseline keeps both.
LEMMA OnwardReaches ==
    ASSUME TypeOK, Reach, UNCHANGED <<history, cursor, baseline>>, passedOver \subseteq passedOver',
           \A h \in Ids : Onward(out[h], out'[h])
    PROVE  Reach'
  <1>1. RevertsReachAll'
    BY Zenon DEF Reach, RevertsReachAll, Onward, Stands, LoadOf
  <1>2. NothingMissed'
    <2>1. ASSUME NEW l \in Loads \ passedOver', NEW h \in Live(history, l), baseline < h, h <= cursor
          PROVE  out'[h].status # "none"
      <3>1. h \in Ids /\ l \in Loads \ passedOver
        BY LiveOf, OutboxHistory
      <3>2. out[h].status # "none"
        BY <2>1, <3>1 DEF Reach, NothingMissed
      <3> QED BY <3>1, <3>2 DEF Onward
    <2> QED BY <2>1 DEF NothingMissed
  <1> QED BY <1>1, <1>2 DEF Reach

\* Housekeeping leaves what was flagged, and so do deciding and sending.
LEMMA KeptOn ==
    ASSUME NEW r \in Row, NEW starts \in BOOLEAN, NEW s, NEW late, NEW h
    PROVE  Onward(r, Kept(starts, s, late, h, r))
  <1> DEFINE k == Kept(starts, s, late, h, r)
  <1>1. k.reverted = r.reverted
    <2>1. \A t : [r EXCEPT !.status = t].reverted = r.reverted
      BY DEF Row
    <2>2. k = r \/ \E t : k = [r EXCEPT !.status = t]
      BY DEF Kept
    <2> QED BY <2>1, <2>2
  <1>2. k.status = r.status \/ (r.status = "sending" /\ k.status = "outcome_unknown")
             \/ (r.status = "pending" /\ k.status \in {"skipped_off", "gave_up"})
    BY KeptOK
  <1> HIDE DEF k
  <1> QED BY <1>1, <1>2 DEF Onward, Skipped, k

\* Deciding.
LEMMA DecidedOn ==
    ASSUME NEW o \in [Ids -> Row], NEW seen, NEW loads, NEW due, NEW near,
           \A h \in Ids : h \in due => o[h].status = "pending", NEW h \in Ids
    PROVE  Onward(o[h], Decided(o, seen, loads, due, near)[h])
  <1> DEFINE d == Decided(o, seen, loads, due, near)
             Why == Refusal(h, seen, loads)
  <1>1. d[h].reverted = o[h].reverted
    <2>1. /\ \A t : [o[h] EXCEPT !.status = t].reverted = o[h].reverted
          /\ [o[h] EXCEPT !.ready = TRUE].reverted = o[h].reverted
          /\ \A why : Refused(o[h], why).reverted = o[h].reverted
      BY DEF Refused, Row
    <2>2. \/ d[h] = o[h]
          \/ \E why : d[h] = Refused(o[h], why)
          \/ d[h] = [o[h] EXCEPT !.ready = TRUE]
          \/ \E t : d[h] = [o[h] EXCEPT !.status = t]
      <3>1. d[h] = IF h \notin due THEN o[h]
                   ELSE CASE Why # "" -> Refused(o[h], Why)
                          [] Why = "" /\ h \notin near -> Refused(o[h], "held")
                          [] Why = "" /\ h \in near /\ o[h].mode = "live" -> [o[h] EXCEPT !.ready = TRUE]
                          [] OTHER -> [o[h] EXCEPT !.status = "dry_run"]
        BY DEF Decided
      <3> HIDE DEF d, Why
      <3> QED BY <3>1
    <2> HIDE DEF d
    <2> QED BY <2>1, <2>2
  <1>2. d[h].status = o[h].status \/ (o[h].status = "pending" /\ d[h].status \in Ended)
    BY DecidedOK
  <1> HIDE DEF d
  <1> QED BY <1>1, <1>2 DEF Onward, Skipped, Ended, d

\* Sending.
LEMMA SendNextOn ==
    ASSUME NEW o \in [Ids -> Row], NEW seen, NEW loads, NEW todo \in SUBSET Ids, SendNext(o, seen, loads, todo),
           tick \in [mode : Modes, upto : Nat, seen : [Loads -> Verdicts], todo : SUBSET Ids, row : 0..MaxHistory],
           NEW h \in Ids
    PROVE  Onward(o[h], out'[h])
  <1>1. \A why : Refused(o[h], why).reverted = o[h].reverted
    BY DEF Refused, Row
  <1>2. out'[h].reverted = o[h].reverted
    <2>1. CASE out' = o
      BY <2>1
    <2> DEFINE o2(passed) == [g \in Ids |-> IF g \in passed /\ o[g].status = "pending"
                                            THEN Refused(o[g], WhyNotSent(g, seen, loads)) ELSE o[g]]
    <2>2. \/ out' = o
          \/ \E passed \in SUBSET todo :
                out' = o2(passed) \/ \E g \in todo \ passed : out' = [o2(passed) EXCEPT ![g].status = "sending"]
      BY Zenon DEF SendNext
    <2>3. ASSUME NEW passed \in SUBSET todo,
                 out' = o2(passed) \/ \E g \in todo \ passed : out' = [o2(passed) EXCEPT ![g].status = "sending"]
          PROVE  out'[h].reverted = o[h].reverted
      <3>1. o2(passed)[h] = o[h] \/ \E why : o2(passed)[h] = Refused(o[h], why)
        OBVIOUS
      <3>2. out'[h] = o2(passed)[h] \/ out'[h] = [o2(passed)[h] EXCEPT !.status = "sending"]
        BY <2>3
      <3> HIDE DEF o2
      <3>3. /\ \A why : [Refused(o[h], why) EXCEPT !.status = "sending"].reverted = o[h].reverted
            /\ [o[h] EXCEPT !.status = "sending"].reverted = o[h].reverted
        BY DEF Refused, Row
      <3>4. CASE o2(passed)[h] = o[h]
        <4>1. out'[h] = o[h] \/ out'[h] = [o[h] EXCEPT !.status = "sending"]
          BY <3>2, <3>4
        <4> QED BY <3>3, <4>1
      <3>5. ASSUME NEW why, o2(passed)[h] = Refused(o[h], why) PROVE out'[h].reverted = o[h].reverted
        <4>1. out'[h] = Refused(o[h], why) \/ out'[h] = [Refused(o[h], why) EXCEPT !.status = "sending"]
          BY <3>2, <3>5
        <4> QED BY Zenon, <1>1, <3>3, <4>1
      <3> QED BY <3>1, <3>4, <3>5
    <2> HIDE DEF o2
    <2> QED BY <2>1, <2>2, <2>3
  <1>3. SentOn(o, seen, loads, todo)
    BY SendNextOK
  <1>4. \/ out'[h].status = o[h].status
        \/ o[h].status = "pending" /\ out'[h].status \in Ended \cup {"sending"}
    BY <1>3 DEF SentOn
  <1> QED BY <1>2, <1>4 DEF Onward, Skipped, Ended

\* Ticks and restarts that record nothing.
LEMMA TickReaches ==
    ASSUME OutboxInv, Reach, NEW timedOut \in BOOLEAN, NEW gap \in BOOLEAN, NEW late, NEW pauseOver \in BOOLEAN,
           TickOff(timedOut) \/ TickOn(timedOut, gap, late, pauseOver)
    PROVE  Reach'
  <1>1. TypeOK /\ \A h \in Ids : out[h] \in Row
    BY OutboxHistory DEF OutboxInv
  <1>2. CASE TickOff(timedOut)
    <2>1. /\ UNCHANGED <<history, cursor, baseline, passedOver>>
          /\ out' = IF On(lastMode) THEN EachRow(out, SkippedPending) ELSE out
      BY <1>2 DEF TickOff, worldVars, historyVars
    <2>2. ASSUME NEW h \in Ids PROVE Onward(out[h], out'[h])
      <3>1. out'[h] = out[h] \/ (out[h].status = "pending" /\ out'[h] = [out[h] EXCEPT !.status = "skipped_off"])
        BY <2>1 DEF EachRow, SkippedPending
      <3>2. out[h] \in Row
        BY <1>1
      <3> QED BY <3>1, <3>2 DEF Onward, Skipped, Row
    <2> QED BY <1>1, <2>1, <2>2, OnwardReaches
  <1>3. CASE TickOn(timedOut, gap, late, pauseOver)
    <2> DEFINE s == PilotChecked(timedOut)
               starts == ~On(lastMode) \/ gap
    <2>1. /\ UNCHANGED <<history, passedOver>>
          /\ out' = EachRow(out, LAMBDA h, r : Kept(starts, s, late, h, r))
          /\ cursor' = IF starts THEN Len(history) ELSE cursor
          /\ baseline' = IF starts THEN Len(history) ELSE baseline
      BY <1>3 DEF TickOn, worldVars, historyVars
    <2>2. starts \in BOOLEAN
      BY DEF On
    <2> HIDE DEF s, starts
    <2>3. ASSUME NEW h \in Ids PROVE Onward(out[h], out'[h])
      <3>1. out'[h] = out[h] \/ out'[h] = Kept(starts, s, late, h, out[h])
        BY <2>1 DEF EachRow
      <3>2. Onward(out[h], Kept(starts, s, late, h, out[h]))
        BY <1>1, <2>2, KeptOn
      <3> QED BY <3>1, <3>2 DEF Onward
    <2>4. CASE ~starts
      <3>1. UNCHANGED <<history, cursor, baseline, passedOver>>
        BY <2>1, <2>4
      <3> QED BY <1>1, <2>3, <3>1, OnwardReaches
    <2>5. CASE starts
      <3>1. cursor' = Len(history) /\ baseline' = Len(history) /\ history' = history /\ Len(history) \in Nat
        BY <1>1, <2>1, <2>5, OutboxHistory
      <3>2. ASSUME NEW h \in Ids, out'[h].status \notin Skipped PROVE ~(h > baseline')
        <4>1. out[h].status # "none"
          <5>1. out'[h] = out[h] \/ out[h].status # "none"
            BY <2>1 DEF EachRow
          <5> QED BY <3>2, <5>1 DEF Skipped
        <4> QED BY <1>1, <3>1, <4>1, OutboxHistory
      <3>3. RevertsReachAll'
        BY <3>2 DEF RevertsReachAll
      <3>4. NothingMissed'
        <4>1. ASSUME NEW l \in Loads, NEW h \in Live(history', l) PROVE ~(baseline' < h /\ h <= cursor')
          <5>1. h \in 1..Len(history)
            BY <1>1, <3>1, LiveOf
          <5> QED BY <3>1, <5>1
        <4> QED BY <4>1 DEF NothingMissed
      <3> QED BY <3>3, <3>4 DEF Reach
    <2> QED BY <2>4, <2>5
  <1> QED BY <1>2, <1>3

\* The recording, seen with the cursor it leaves: every row that stands stands there, and
\* everything that stands up to there has its row.
LEMMA RecordedReaches ==
    ASSUME TypeOK, Reach, NEW upto \in 0..Len(history), upto = 0 \/ upto >= cursor, NEW seen, NEW over,
           over = passedOver \cup {l \in BatchLoads(upto) : seen[l] = "other"}
    PROVE  LET rec == Recorded(upto, seen) IN
           /\ \A h \in Ids :
                 rec[h].status \notin Skipped /\ ~rec[h].reverted /\ h > baseline /\ LoadOf(h) \notin over
                    => h \in Live(UpTo(history, IF h > NextCursor(upto) THEN h ELSE NextCursor(upto)), LoadOf(h))
           /\ \A l \in Loads \ over : \A h \in Live(history, l) :
                 baseline < h /\ h <= NextCursor(upto) => rec[h].status # "none"
  <1> DEFINE N == Len(history)
             swept == {h \in 1..N : LoadOf(h) \in SweptLoads(upto, seen)}
             live == UNION {Live(history, l) : l \in SweptLoads(upto, seen)}
             F(h) == IF h \notin swept THEN out[h]
                     ELSE IF out[h].status = "none" THEN IF h > baseline /\ h \in live THEN NewRow(h, seen) ELSE NoRow
                     ELSE IF h \in live THEN out[h]
                     ELSE Voided(out[h])
             rec == [h \in Ids |-> F(h)]
             next == NextCursor(upto)
             To(h) == IF h > next THEN h ELSE next
  <1>1. Recorded(upto, seen) = rec
    BY DEF Recorded
  <1>2. /\ IsHistory(history) /\ N \in Nat /\ UpTo(history, N) = history /\ N \in 0..N
        /\ cursor \in 0..N /\ baseline \in 0..cursor
        /\ \A h \in Ids : out[h].status # "none" => h \in 1..N
        /\ \A h \in Ids : out[h] \in Row
        /\ 1..N \subseteq Ids
    BY OutboxHistory
  <1>3. next \in 0..N /\ next >= cursor /\ (upto = 0 => next = cursor) /\ (upto > 0 => next = upto)
    BY <1>2 DEF NextCursor
  <1>4. ASSUME NEW h \in Ids, rec[h].status \notin Skipped, ~rec[h].reverted, h > baseline, LoadOf(h) \notin over
        PROVE  h \in Live(UpTo(history, To(h)), LoadOf(h))
    <2> DEFINE l == LoadOf(h)
    <2>1. rec[h] = F(h)
      OBVIOUS
    <2>2. NoRow.status \in Skipped
      BY DEF NoRow, Skipped
    <2>3. Voided(out[h]).status \in Skipped \/ Voided(out[h]).reverted
      <3>1. CASE out[h].status \in {"pending", "held"}
        BY <1>2, <3>1 DEF Voided, Skipped, Row
      <3>2. CASE out[h].status \in {"sending", "sent", "failed", "gave_up", "outcome_unknown", "dry_run"}
        BY <1>2, <3>2 DEF Voided, Row
      <3>3. CASE out[h].status \in {"none", "skipped_off", "skipped_not_chr", "skipped_backwards"}
        BY <3>3 DEF Voided, Skipped
      <3> QED BY <1>2, <3>1, <3>2, <3>3 DEF Row, RowStates
    <2>4. CASE h \in swept
      <3>1. h \in live /\ h \in 1..N
        BY <1>4, <2>1, <2>2, <2>3, <2>4
      <3>2. PICK k \in SweptLoads(upto, seen) : h \in Live(history, k)
        BY <3>1
      <3>3. LoadOf(h) = k
        BY <3>2, LiveOf
      <3>4. h \in Live(UpTo(history, N), l)
        BY <1>2, <3>2, <3>3
      <3>5. To(h) \in 0..N /\ To(h) <= N /\ h \in 1..To(h)
        BY <1>2, <1>3, <3>1
      <3> HIDE DEF To, N, l
      <3> QED BY <1>2, <3>4, <3>5, LiveFalls DEF l, N
    <2>5. CASE h \notin swept
      <3>1. rec[h] = out[h]
        BY <2>1, <2>5
      <3> HIDE DEF F, rec
      <3>2. out[h].status # "none" /\ h \in 1..N
        BY <1>2, <1>4, <3>1 DEF Skipped
      <3>3. LoadOf(h) \notin passedOver
        BY <1>4
      <3>4. h \in Live(UpTo(history, SeenTo(h)), l)
        BY <1>4, <3>1, <3>3, StandsIs DEF Reach, RevertsReachAll
      <3>5. l \notin BatchLoads(upto)
        <4>1. l \notin SweptLoads(upto, seen)
          BY <2>5, <3>2
        <4> QED BY <1>4, <4>1 DEF SweptLoads
      <3>6. SeenTo(h) \in 0..N /\ To(h) \in 0..N /\ SeenTo(h) <= To(h)
            /\ (SeenTo(h) + 1)..To(h) \subseteq (cursor + 1)..upto
        BY <1>2, <1>3, <3>2 DEF SeenTo
      <3>7. \A i \in (SeenTo(h) + 1)..To(h) : history[i].load # l
        BY <3>5, <3>6 DEF BatchLoads, LoadOf
      <3>8. Replay(UpTo(history, To(h)), l) = Replay(UpTo(history, SeenTo(h)), l)
        <4> HIDE DEF To, l
        <4> QED BY <1>2, <3>6, <3>7, ReplayStill
      <3>9. Len(UpTo(history, To(h))) = To(h) /\ Len(UpTo(history, SeenTo(h))) = SeenTo(h)
        BY <1>2, <3>6, UpToIs
      <3>10. h \in 1..SeenTo(h) /\ Bears(Replay(UpTo(history, SeenTo(h)), l), h)
        BY <3>4, <3>9, LiveIs
      <3>11. h \in 1..To(h)
        BY <3>6, <3>10
      <3> QED BY <3>8, <3>9, <3>10, <3>11, LiveIs
    <2> QED BY <2>4, <2>5
  <1>5. ASSUME NEW l \in Loads \ over, NEW h \in Live(history, l), baseline < h, h <= next
        PROVE  rec[h].status # "none"
    <2>1. h \in 1..N /\ h \in Ids /\ LoadOf(h) = l /\ rec[h] = F(h) /\ l \notin passedOver
      BY <1>2, <1>5, LiveOf
    <2>2. NewRow(h, seen).status # "none"
      BY NewRowOK
    <2>3. out[h].status # "none" => Voided(out[h]).status # "none"
      BY <1>2, <2>1, VoidedOK
    <2>4. CASE out[h].status # "none"
      BY <2>1, <2>3, <2>4
    <2>5. CASE out[h].status = "none"
      <3>1. ~(h <= cursor)
        BY <1>5, <2>1, <2>5 DEF Reach, NothingMissed
      <3>2. h \in (cursor + 1)..upto
        BY <1>2, <1>3, <1>5, <2>1, <3>1
      <3>3. l \in BatchLoads(upto) /\ seen[l] # "other"
        BY <1>5, <2>1, <3>2 DEF BatchLoads
      <3>4. l \in SweptLoads(upto, seen) /\ h \in swept /\ h \in live
        BY <2>1, <3>3 DEF SweptLoads
      <3> QED BY <1>5, <2>1, <2>2, <2>5, <3>4
    <2> QED BY <2>4, <2>5
  <1> HIDE DEF rec, next
  <1> QED BY <1>1, <1>4, <1>5 DEF next

\* The sheet arrives: what is recorded stands, and deciding and sending only go on from there.
LEMMA SheetReadReaches ==
    ASSUME OutboxInv, Reach, NEW due, NEW near, NEW todo, SheetRead(due, near, todo)
    PROVE  Reach'
  <1> DEFINE upto == tick.upto
             loads == RecordedLoads(upto, sheet)
             rec == Recorded(upto, sheet)
             o == Decided(rec, sheet, loads, due, near)
             next == NextCursor(upto)
  <1>1. /\ pc = "sheet"
        /\ due \subseteq {h \in Ids : rec[h].status = "pending" /\ ~rec[h].ready}
        /\ todo \subseteq {h \in Ids : config.send /\ o[h].status = "pending" /\ o[h].mode = "live" /\ o[h].ready}
        /\ cursor' = next
        /\ passedOver' = passedOver \cup {l \in BatchLoads(upto) : sheet[l] = "other"}
        /\ SendNext(o, sheet, loads, todo)
        /\ UNCHANGED <<history, baseline>>
    BY DEF SheetRead, worldVars
  <1>2. /\ TypeOK /\ upto \in 0..Len(history) /\ (upto = 0 \/ upto >= cursor)
        /\ tick \in [mode : Modes, upto : Nat, seen : [Loads -> Verdicts], todo : SUBSET Ids, row : 0..MaxHistory]
    <2>1. TypeOK /\ TickOK /\ Len(history) \in Nat
      BY TypeParts, Lengths DEF OutboxInv
    <2> QED BY <1>1, <2>1 DEF OutboxInv, TickOK, TickType
  <1>3. /\ \A h \in Ids :
              rec[h].status \notin Skipped /\ ~rec[h].reverted /\ h > baseline /\ LoadOf(h) \notin passedOver'
                 => h \in Live(UpTo(history, IF h > next THEN h ELSE next), LoadOf(h))
        /\ \A l \in Loads \ passedOver' : \A h \in Live(history, l) :
              baseline < h /\ h <= next => rec[h].status # "none"
    BY <1>1, <1>2, RecordedReaches
  <1>4. rec \in [Ids -> Row]
    BY <1>2, RecordedOK
  <1> HIDE DEF rec, loads, next
  <1>5. \A h \in Ids : h \in due => rec[h].status = "pending"
    BY <1>1
  <1>6. o \in [Ids -> Row] /\ \A h \in Ids : Onward(rec[h], o[h])
    BY <1>4, <1>5, DecidedOK, DecidedOn
  <1> HIDE DEF o
  <1>7. todo \in SUBSET Ids
    BY <1>1
  <1>8. ASSUME NEW h \in Ids PROVE Onward(rec[h], out'[h])
    <2>1. Onward(o[h], out'[h])
      BY <1>1, <1>2, <1>6, <1>7, SendNextOn
    <2> QED BY <1>6, <2>1 DEF Onward
  <1>9. RevertsReachAll'
    <2>1. ASSUME NEW h \in Ids, out'[h].status \notin Skipped, ~out'[h].reverted, h > baseline, LoadOf(h) \notin passedOver'
          PROVE  h \in Live(UpTo(history, IF h > next THEN h ELSE next), LoadOf(h))
      BY <1>3, <1>8, <2>1 DEF Onward
    <2> QED BY <1>1, <2>1 DEF RevertsReachAll, Stands, UpTo, LoadOf
  <1>10. NothingMissed'
    <2>1. ASSUME NEW l \in Loads \ passedOver', NEW h \in Live(history, l), baseline < h, h <= next
          PROVE  out'[h].status # "none"
      <3>1. rec[h].status # "none" /\ h \in Ids
        BY <1>2, <1>3, <2>1, LiveOf, OutboxHistory
      <3> QED BY <1>8, <3>1 DEF Onward
    <2> QED BY <1>1, <2>1 DEF NothingMissed
  <1> QED BY <1>9, <1>10 DEF Reach

\* A request's answer: its row may come to wait again, flagged as it was.
LEMMA AnswerReaches ==
    ASSUME OutboxInv, Reach, NEW code \in Codes, Answer(code)
    PROVE  Reach'
  <1> DEFINE r == tick.row
             status == CASE code = "SENT" -> "sent" [] code = "REFUSED" -> "failed" [] OTHER -> "pending"
             o == [out EXCEPT ![r].status = status]
  <1>1. /\ pc = "request" /\ SendNext(o, tick.seen, chrLoads, tick.todo)
        /\ UNCHANGED <<history, cursor, baseline, passedOver>>
    BY DEF Answer, worldVars
  <1>2. /\ TypeOK /\ r \in Ids /\ out[r].status = "sending" /\ out \in [Ids -> Row]
        /\ tick \in [mode : Modes, upto : Nat, seen : [Loads -> Verdicts], todo : SUBSET Ids, row : 0..MaxHistory]
    <2>1. TypeOK /\ TickOK /\ RowsOK /\ Len(history) \in Nat
      BY TypeParts, Lengths DEF OutboxInv
    <2>2. tick \in [mode : Modes, upto : Nat, seen : [Loads -> Verdicts], todo : SUBSET Ids, row : 0..MaxHistory]
      BY <2>1 DEF TickOK, TickType
    <2>3. r \in Ids \ tick.todo /\ out[r].status = "sending"
      BY <1>1 DEF OutboxInv
    <2> QED BY <2>1, <2>2, <2>3 DEF RowsOK
  <1>3. status \in {"sent", "failed", "pending"}
    OBVIOUS
  <1> HIDE DEF r, status
  <1>4. [out[r] EXCEPT !.status = status] \in Row /\ [out[r] EXCEPT !.status = status].status = status
        /\ [out[r] EXCEPT !.status = status].reverted = out[r].reverted
    BY <1>2, <1>3 DEF Row, RowStates
  <1>5. o[r] = [out[r] EXCEPT !.status = status] /\ o \in [Ids -> Row] /\ \A h \in Ids \ {r} : o[h] = out[h]
    BY <1>2, <1>4
  <1>6. \A h \in Ids : Onward(out[h], o[h])
    <2>1. Onward(out[r], o[r])
      BY <1>2, <1>3, <1>4, <1>5 DEF Onward, Skipped
    <2>2. \A h \in Ids \ {r} : Onward(out[h], o[h])
      BY <1>5 DEF Onward
    <2> QED BY <2>1, <2>2
  <1> HIDE DEF o
  <1>7. ASSUME NEW h \in Ids PROVE Onward(out[h], out'[h])
    <2>1. tick.todo \in SUBSET Ids
      BY <1>2
    <2>2. Onward(o[h], out'[h])
      BY <1>1, <1>2, <1>5, <2>1, SendNextOn
    <2> QED BY <1>6, <2>2 DEF Onward
  <1> QED BY <1>1, <1>2, <1>7, OnwardReaches

\* A new row of the history: what stood up to the cursor is not made to stand by it.
LEMMA AddStatusReaches ==
    ASSUME OutboxInv, Reach, NEW k \in Loads, NEW status \in RowStatuses, NEW source \in RowSources,
           AddStatus(k, status, source)
    PROVE  Reach'
  <1> DEFINE N == Len(history)
             R == [load : Loads, status : Statuses, source : Sources]
             row == [load |-> k, status |-> status, source |-> source]
  <1>1. TypeOK /\ TypeOK'
    BY AddStatusKeeps DEF Keeps, OutboxInv
  <1>2. /\ N \in Nat /\ cursor \in 0..N /\ baseline \in 0..cursor /\ UpTo(history, N) = history /\ N \in 0..N
        /\ \A h \in Ids : out[h].status # "none" => h \in 1..N
        /\ IsHistory(history)
    BY <1>1, OutboxHistory
  <1>3. row \in R /\ history \in Seq(R) /\ history' = Append(history, row)
    BY <1>1, TypeParts, OutboxAssumption DEF HistoryOK, AddStatus
  <1>4. UNCHANGED <<out, cursor, baseline, passedOver>>
    BY DEF AddStatus, stateVars, historyVars
  <1> HIDE DEF R, row
  <1>5. /\ history' \in Seq(R) /\ Len(history') = N + 1 /\ \A i \in 1..N : history'[i] = history[i]
    BY <1>3
  <1>6. /\ IsHistory(history') /\ UpTo(history', N + 1) = history'
    <2>1. \A r \in R : r.status \in Statuses
      BY DEF R
    <2>2. IsHistory(history')
      BY <1>5, <2>1 DEF IsHistory
    <2> QED BY <1>5, <2>2, AllOfHistory
  <1>7. \A n \in 0..N : UpTo(history', n) = UpTo(history, n)
    BY <1>2, <1>3, <1>5 DEF UpTo
  <1>8. RevertsReachAll'
    <2>1. ASSUME NEW h \in Ids, out[h].status \notin Skipped, ~out[h].reverted, h > baseline,
                 LoadOf(h)' \notin passedOver
          PROVE  h \in Live(UpTo(history', SeenTo(h)), LoadOf(h)')
      <3>1. h \in 1..N
        BY <1>2, <2>1 DEF Skipped
      <3>2. LoadOf(h)' = LoadOf(h)
        BY <1>5, <3>1 DEF LoadOf
      <3>3. SeenTo(h) \in 0..N
        BY <1>2, <3>1 DEF SeenTo
      <3>4. h \in Live(UpTo(history, SeenTo(h)), LoadOf(h))
        BY <2>1, <3>2, StandsIs DEF Reach, RevertsReachAll
      <3> QED BY <1>7, <3>2, <3>3, <3>4
    <2> QED BY <1>4, <2>1 DEF RevertsReachAll, Stands, UpTo, SeenTo, LoadOf
  <1>9. NothingMissed'
    <2>1. ASSUME NEW l \in Loads \ passedOver, NEW h \in Live(history', l), baseline < h, h <= cursor
          PROVE  out[h].status # "none"
      <3>1. h \in 1..Len(history')
        BY LiveIs
      <3>2. h \in 1..N /\ N < Len(history') /\ h \in Live(UpTo(history', N + 1), l)
        BY <1>2, <1>5, <1>6, <2>1, <3>1
      <3>3. h \in Live(UpTo(history', N), l)
        BY <1>2, <1>6, <3>2, LiveStep
      <3>4. h \in Live(history, l)
        BY <1>2, <1>7, <3>3
      <3> QED BY <2>1, <3>4 DEF Reach, NothingMissed
    <2> QED BY <1>4, <2>1 DEF NothingMissed
  <1> QED BY <1>8, <1>9 DEF Reach

\* A person's step: a row put back was there, and stood, already.
LEMMA PeopleReaches == ASSUME OutboxInv, Reach, People PROVE Reach'
  <1>1. TypeOK /\ \A h \in Ids : out[h] \in Row
    BY OutboxHistory DEF OutboxInv
  <1>2. UNCHANGED <<history, cursor, baseline, passedOver>>
    BY DEF People, SetPage, Stop, Hold, Release, StopsChange, Retry, Resume, worldVars, stateVars, historyVars
  <1>3. ASSUME NEW h \in Ids PROVE Onward(out[h], out'[h])
    <2>1. \/ out'[h] = out[h]
          \/ out[h].status = "held" /\ out'[h] = [out[h] EXCEPT !.status = "pending", !.loadHold = FALSE]
          \/ out[h].status \in {"failed", "gave_up", "outcome_unknown"}
               /\ out'[h] = [out[h] EXCEPT !.status = "pending", !.acted = TRUE]
          \/ out[h].status = "pending" /\ out'[h] = [out[h] EXCEPT !.status = "gave_up"]
      <3>1. CASE \E l \in Loads : Release(l)
        BY <3>1 DEF Release
      <3>2. ASSUME NEW g \in Ids, Retry(g)
            PROVE  \/ out'[h] = out[h]
                   \/ out[h].status \in {"failed", "gave_up", "outcome_unknown"}
                        /\ out'[h] = [out[h] EXCEPT !.status = "pending", !.acted = TRUE]
        BY <3>2, TypeParts, <1>1 DEF Retry, RowsOK
      <3>3. CASE \E late \in SUBSET Waiting : Resume(late)
        BY <3>3 DEF Resume
      <3>4. ASSUME \/ \E mode \in Pages, pilot \in Loads \cup {NoLoad} : SetPage(mode, pilot)
                   \/ Stop \/ \E l \in Loads : Hold(l) \/ StopsChange(l)
            PROVE  out' = out
        BY <3>4 DEF SetPage, Stop, Hold, StopsChange
      <3> QED BY <3>1, <3>2, <3>3, <3>4 DEF People
    <2>2. out[h] \in Row
      BY <1>1
    <2> QED BY <2>1, <2>2 DEF Onward, Skipped, Row
  <1> QED BY <1>1, <1>2, <1>3, OnwardReaches

\* A step that changes none of what the two speak of.
LEMMA QuietReaches ==
    ASSUME OutboxInv, Reach, UNCHANGED <<history, cursor, baseline, passedOver, out>>
    PROVE  Reach'
  <1>1. \A h \in Ids : Onward(out[h], out'[h])
    BY DEF Onward
  <1> QED BY <1>1, OnwardReaches DEF OutboxInv

\* Every step.
LEMMA NextReaches == ASSUME OutboxInv, Reach, [Next]_vars PROVE Reach'
  <1>1. CASE Tick
    <2>1. CASE SheetFails \/ ModeMoved
      BY <2>1, QuietReaches DEF SheetFails, ModeMoved, worldVars, stateVars, historyVars
    <2>2. ASSUME NEW timedOut \in BOOLEAN, TickOff(timedOut) PROVE Reach'
      <3>1. TRUE \in BOOLEAN
        OBVIOUS
      <3> QED BY <2>2, <3>1, TickReaches
    <2> QED BY <1>1, <2>1, <2>2, TickReaches, SheetReadReaches, AnswerReaches DEF Tick
  <1>2. CASE People
    BY <1>2, PeopleReaches
  <1>3. CASE World
    <2>1. CASE Crash \/ Boot \/ \E l \in Loads, verdict \in SheetVerdicts : SheetChanges(l, verdict)
      BY <2>1, QuietReaches DEF Crash, Boot, SheetChanges, worldVars, stateVars, historyVars
    <2> QED BY <1>3, <2>1, AddStatusReaches DEF World
  <1>4. CASE UNCHANGED vars
    BY <1>4, QuietReaches DEF vars, worldVars, stateVars, historyVars
  <1> QED BY <1>1, <1>2, <1>3, <1>4 DEF Next

\* A new outbox.
LEMMA InitReaches == ASSUME Init PROVE Reach
  <1>1. RevertsReachAll
    BY DEF Init, RevertsReachAll, Skipped, NoRow
  <1>2. NothingMissed
    <2>1. TypeOK /\ history = <<>>
      BY InitKeeps DEF Init, OutboxInv
    <2>2. \A l \in Loads : \A h \in Live(history, l) : FALSE
      <3>1. ASSUME NEW l \in Loads, NEW h \in Live(history, l) PROVE h \in 1..Len(history)
        BY LiveIs
      <3> QED BY <2>1, <3>1
    <2> QED BY <2>2 DEF NothingMissed
  <1> QED BY <1>1, <1>2 DEF Reach

\* Both hold throughout.
LEMMA Reaches == Spec => []Reach
  <1>1. OutboxInv /\ Reach /\ [Next]_vars => Reach'
    BY NextReaches
  <1> QED BY <1>1, InitReaches, OutboxInvariant, PTL DEF Spec

\* A step back reaches every row recorded since the baseline of a load the sweep looked at: what
\* no longer stands is skipped or flagged, whatever came while the sheet was read, however the
\* history was cut into batches (chr-sweep.js record(), chr-store.js applyRecording()).
THEOREM RevertsReach == Spec => []RevertsReachAll
  <1>1. Reach => RevertsReachAll
    BY DEF Reach
  <1> QED BY <1>1, Reaches, PTL

\* No milestone below the cursor and above the baseline is missed (chr-sweep.js record()).
THEOREM NoneMissed == Spec => []NothingMissed
  <1>1. Reach => NothingMissed
    BY DEF Reach
  <1> QED BY <1>1, Reaches, PTL
=============================================================================
