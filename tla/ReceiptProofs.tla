---------------------------- MODULE ReceiptProofs ----------------------------
(***************************************************************************)
(* ReceiptPass for any months, slips, clients and bounds: its types, that  *)
(* a closed month's figure stays the one that counts, and that neither the *)
(* pass nor its undo overrides a person.                                   *)
(***************************************************************************)
EXTENDS ReceiptPass, TLAPS

\* What the pass approved was set, and is a receipt; what the undo still has to write is a person's
\* only if the click left no stamp.
StampsTell ==
    /\ \A r \in Receipts : reviews[r].applied => rows[r].status # "none" /\ rows[r].by # ""
    /\ \A r \in undo : rows[r].by = "pass" /\ r \in decided => r \in clicked

\* The inductive invariant.
IInv == TypeOK /\ StampsTell /\ FrozenIsCounted

USE BooksAssumption, PassAssumption

-----------------------------------------------------------------------------
LEMMA PaperTyped == APaper \in Papers
  <1>1. PICK s \in Slips, m \in Dated : TRUE
    OBVIOUS
  <1>2. [slip |-> s, month |-> m] \in Papers
    BY DEF Papers
  <1> QED BY <1>2 DEF APaper

LEMMA IdleTyped ==
    /\ NoRow \in Row /\ NoReview \in Review
    /\ NoFiling \in Filing /\ NoClose \in Close
  BY PaperTyped DEF NoRow, Row, NoReview, Review, NoFiling, Filing, NoClose, Close

LEMMA InitInv == Init => IInv
  <1> SUFFICES ASSUME Init PROVE IInv
    OBVIOUS
  <1> USE DEF Init, BooksInit
  <1>1. TypeOK
    BY IdleTyped DEF TypeOK, BooksTypeOK
  <1>2. StampsTell
    BY DEF StampsTell, NoReview
  <1>3. FrozenIsCounted
    BY DEF FrozenIsCounted, Locked
  <1> QED BY <1>1, <1>2, <1>3 DEF IInv

-----------------------------------------------------------------------------
(* What a step writes. *)

LEMMA FinalTyped ==
    ASSUME NEW review \in Review, NEW verdict \in {"hold", "approve"}
    PROVE  Final(review, verdict) \in Review /\ Final(review, verdict).applied = review.applied
  BY DEF Final, Review

LEMMA StampedTyped ==
    ASSUME NEW row \in Row, NEW new \in Statuses, NEW setter \in {"", "person", "pass", "undo"}
    PROVE  /\ Stamped(row, new, setter) \in Row /\ Stamped(row, new, setter).posted = row.posted
           /\ Stamped(row, new, setter).status = new /\ Stamped(row, new, setter).by = setter
  BY DEF Stamped, Row

\* The booking month is a month, and not a closed one.
LEMMA BookedOpen ==
    ASSUME NEW paper \in Papers
    PROVE  PostedPeriod(paper) \in Months \cup {Now} /\ ~Locked(PostedPeriod(paper))
  BY DEF PostedPeriod, Locked, Papers

\* A figure that did not move is the one that counts.
LEMMA FigureStands ==
    ASSUME NEW c \in Closers, ~Moved(c), NEW m \in closes[c].months, NEW early \in BOOLEAN
    PROVE  Figure(c, m, early) = Counted(m)
  <1>1. closes[c].before = Fingerprint(closes[c].months)
    BY DEF Moved
  <1>2. ASSUME NEW r \in Receipts, rows[r].posted = m
        PROVE  closes[c].before[r] = rows[r].status
    BY <1>1, <1>2 DEF Fingerprint
  <1> QED BY <1>2 DEF Figure, Counted, Filed

\* The months' figures stand over a step that leaves locks and figures alone, and of the rows only
\* changes such as are not booked to a closed month.
LEMMA FiguresKept ==
    ASSUME FrozenIsCounted, UNCHANGED <<locks, frozen>>,
           \A r \in Receipts : \/ rows'[r] = rows[r]
                               \/ /\ ~Locked(rows[r].posted) \/ rows[r].status = "none"
                                  /\ ~Locked(rows'[r].posted)
    PROVE  FrozenIsCounted'
  <1> SUFFICES ASSUME NEW m \in Months, Locked(m)'
               PROVE  frozen'[m] = Counted(m)'
    BY DEF FrozenIsCounted
  <1>1. Locked(m) /\ frozen[m] = Counted(m)
    BY DEF FrozenIsCounted, Locked
  <1>2. ASSUME NEW r \in Receipts
        PROVE  r \in Counted(m) <=> r \in Counted(m)'
    BY <1>1 DEF Counted, Filed, Locked
  <1>3. Counted(m) = Counted(m)'
    BY <1>2 DEF Counted, Filed
  <1> QED BY <1>1, <1>3

-----------------------------------------------------------------------------
(* The steps of the books. *)

\* A step that leaves rows, reviews and the audit trail alone.
LEMMA QuietKeeps ==
    ASSUME StampsTell, UNCHANGED <<rows, decided, reviews>>, undo' = undo, clicked \subseteq clicked'
    PROVE  StampsTell'
  BY DEF StampsTell

LEMMA FileKeeps ==
    ASSUME IInv, BooksStep, NEW c \in Clients, NEW paper \in Papers, NEW anyway \in BOOLEAN, File(c, paper, anyway)
    PROVE  IInv'
  <1> USE DEF IInv, TypeOK, BooksTypeOK, File, monthVars, BooksStep
  <1>1. PICK near \in 0..MaxReceipts :
            filing' = [filing EXCEPT ![c] = [busy |-> TRUE, paper |-> paper, near |-> near]]
    <2>1. Copies(paper) \subseteq 0..MaxReceipts
      BY DEF Copies, Filed, Receipts
    <2>2. (IF Copies(paper) = {} THEN {0} ELSE Copies(paper)) \subseteq 0..MaxReceipts
      BY <2>1
    <2> HIDE DEF TypeOK, BooksTypeOK
    <2> QED BY <2>2
  <1>2. filing' \in [Clients -> Filing]
    BY <1>1 DEF Filing
  <1>3. TypeOK'
    BY <1>2
  <1>4. FrozenIsCounted'
    BY FiguresKept
  <1>5. StampsTell'
    BY QuietKeeps
  <1> QED BY <1>3, <1>4, <1>5

LEMMA InsertKeeps ==
    ASSUME IInv, BooksStep, NEW c \in Clients, Insert(c)
    PROVE  IInv'
  <1> USE DEF IInv, TypeOK, BooksTypeOK, monthVars
  <1> DEFINE new == [status |-> "Pending", by |-> "", paper |-> filing[c].paper,
                     posted |-> PostedPeriod(filing[c].paper)]
  <1>1. PICK r \in Receipts \ Filed :
          /\ rows' = [rows EXCEPT ![r] = new]
          /\ overrides' = IF filing[c].near = 0 THEN overrides ELSE overrides \cup {<<r, filing[c].near>>}
          /\ filing' = [filing EXCEPT ![c] = NoFiling]
          /\ UNCHANGED <<decided, reviews, locks, due, frozen, closes, config, edits>>
    BY DEF Insert
  <1>2. rows[r].status = "none"
    BY <1>1 DEF Filed
  <1>3. filing[c] \in Filing /\ filing[c].paper \in Papers /\ filing[c].near \in 0..MaxReceipts
    BY DEF Filing
  <1>4. new \in Row
    BY <1>3, BookedOpen DEF Row, Statuses
  <1>5. rows' \in [Receipts -> Row] /\ filing' \in [Clients -> Filing]
    BY <1>1, <1>4, IdleTyped
  <1>6. overrides' \subseteq Receipts \X Receipts
    <2>1. filing[c].near # 0 => <<r, filing[c].near>> \in Receipts \X Receipts
      BY <1>3 DEF Receipts
    <2> QED BY <1>1, <2>1
  <1>7. toRead' = toRead /\ undo' = undo /\ clicked' \subseteq Receipts /\ clicked \subseteq clicked' /\ restarts' = restarts
    BY <1>1 DEF BooksStep
  <1>8. TypeOK'
    BY <1>1, <1>5, <1>6, <1>7
  <1>9. FrozenIsCounted'
    BY <1>1, <1>2, <1>3, BookedOpen, FiguresKept
  <1>10. StampsTell'
    BY <1>1, <1>2, <1>7 DEF StampsTell
  <1> QED BY <1>8, <1>9, <1>10

LEMMA SetStatusKeeps ==
    ASSUME IInv, BooksStep, NEW rs \in SUBSET Receipts, NEW status \in Statuses, SetStatus(rs, status)
    PROVE  IInv'
  <1> USE DEF IInv, TypeOK, BooksTypeOK, monthVars
  <1> DEFINE open == OpenRows(rs)
  <1>1. /\ rows' = [r \in Receipts |->
                      IF r \in open THEN Stamped(rows[r], status, IF config.recorder THEN "person" ELSE rows[r].by)
                      ELSE rows[r]]
        /\ reviews' = MarkedUndone(open, status)
        /\ decided' = decided \cup open
        /\ UNCHANGED <<overrides, filing, locks, due, frozen, closes, config>>
        /\ edits' = edits + 1
    BY DEF SetStatus, Edited
  <1>2. open \subseteq Receipts /\ \A r \in open : ~Locked(rows[r].posted)
    BY DEF OpenRows
  <1>3. /\ toRead' = toRead /\ undo' = undo /\ restarts' = restarts
        /\ clicked' = IF config.recorder THEN clicked ELSE clicked \cup (undo \cap (decided' \ decided))
    BY DEF BooksStep
  <1>4. ASSUME NEW r \in Receipts
        PROVE  /\ rows'[r] \in Row /\ rows'[r].posted = rows[r].posted
               /\ r \notin open => rows'[r] = rows[r]
               /\ r \in open => /\ rows'[r].status = status
                               /\ rows'[r].by = IF config.recorder THEN "person" ELSE rows[r].by
    <2>1. rows[r] \in Row /\ rows[r].by \in {"", "person", "pass", "undo"}
      BY DEF Row
    <2>2. (IF config.recorder THEN "person" ELSE rows[r].by) \in {"", "person", "pass", "undo"}
      BY <2>1
    <2>3. CASE r \in open
      <3> DEFINE by == IF config.recorder THEN "person" ELSE rows[r].by
      <3>1. rows'[r] = Stamped(rows[r], status, by)
        BY <1>1, <2>3
      <3> HIDE DEF by
      <3>2. by \in {"", "person", "pass", "undo"}
        BY <2>2 DEF by
      <3>3. /\ rows'[r] \in Row /\ rows'[r].posted = rows[r].posted
            /\ rows'[r].status = status /\ rows'[r].by = by
        <4> HIDE DEF IInv, TypeOK, BooksTypeOK
        <4>1. \A setter \in {"", "person", "pass", "undo"} :
                /\ Stamped(rows[r], status, setter) \in Row
                /\ Stamped(rows[r], status, setter).posted = rows[r].posted
                /\ Stamped(rows[r], status, setter).status = status
                /\ Stamped(rows[r], status, setter).by = setter
          <5>1. status \in Statuses
            OBVIOUS
          <5> QED BY <2>1, <5>1 DEF Stamped, Row
        <4> QED BY <3>1, <3>2, <4>1
      <3> QED BY <2>3, <3>3 DEF by
    <2>4. CASE r \notin open
      BY <1>1, <2>1, <2>4
    <2> QED BY <2>3, <2>4
  <1>5. ASSUME NEW r \in Receipts
        PROVE  reviews'[r] \in Review /\ reviews'[r].applied = reviews[r].applied
    BY ZenonT(40), <1>1 DEF MarkedUndone, Review
  <1>6. rows' \in [Receipts -> Row]
    BY <1>1, <1>4
  <1>7. reviews' \in [Receipts -> Review]
    BY <1>1, <1>5 DEF MarkedUndone
  <1>8. TypeOK'
    <2>1. decided' \subseteq Receipts /\ clicked' \subseteq Receipts
      BY <1>1, <1>2, <1>3
    <2> QED BY <1>1, <1>3, <1>6, <1>7, <2>1
  <1>9. FrozenIsCounted'
    BY <1>1, <1>2, <1>4, FiguresKept DEF Locked
  <1>10. ASSUME NEW r \in Receipts, reviews'[r].applied
         PROVE  rows'[r].status # "none" /\ rows'[r].by # ""
    BY <1>4, <1>5, <1>10 DEF StampsTell, Statuses
  <1>11. ASSUME NEW r \in undo, rows'[r].by = "pass", r \in decided'
         PROVE  r \in clicked'
    <2>1. r \in undo /\ r \in Receipts
      BY <1>11
    <2>2. CASE r \in open
      <3>1. ~config.recorder /\ rows[r].by = "pass"
        BY <1>4, <1>11, <2>1, <2>2
      <3> QED BY <1>3, <1>11, <2>1, <3>1 DEF StampsTell
    <2>3. CASE r \notin open
      BY <1>1, <1>3, <1>4, <1>11, <2>1, <2>3 DEF StampsTell
    <2> QED BY <2>2, <2>3
  <1> QED BY <1>3, <1>8, <1>9, <1>10, <1>11 DEF StampsTell

LEMMA MonthKeeps ==
    ASSUME IInv, BooksStep, NEW m \in Months, GraceEnds(m) \/ Reopen(m)
    PROVE  IInv'
  <1> USE DEF IInv, TypeOK, BooksTypeOK, monthVars
  <1>1. /\ UNCHANGED <<rows, overrides, decided, reviews, filing, closes, config>>
        /\ due' \subseteq Months /\ edits' \in Nat
        /\ \/ UNCHANGED <<locks, frozen>>
           \/ locks' = [locks EXCEPT ![m] = "reopened"] /\ frozen' = [frozen EXCEPT ![m] = {}]
    BY DEF GraceEnds, Reopen, Edited
  <1>2. toRead' = toRead /\ undo' = undo /\ clicked' \subseteq Receipts /\ clicked \subseteq clicked' /\ restarts' = restarts
    BY <1>1 DEF BooksStep
  <1>3. TypeOK'
    BY <1>1, <1>2
  <1>4. FrozenIsCounted'
    BY <1>1 DEF FrozenIsCounted, Locked, Counted, Filed
  <1>5. StampsTell'
    BY <1>1, <1>2, QuietKeeps
  <1> QED BY <1>3, <1>4, <1>5

LEMMA CloseKeeps ==
    ASSUME IInv, BooksStep, NEW c \in Closers,
           \/ \E months \in SUBSET Months : CloseBegins(c, months)
           \/ CloseFails(c) \/ \E early \in BOOLEAN : CloseEnds(c, early)
    PROVE  IInv'
  <1> USE DEF IInv, TypeOK, BooksTypeOK, monthVars
  <1>1. UNCHANGED <<rows, overrides, decided, reviews, filing, due, config>> /\ edits' \in Nat
    BY DEF CloseBegins, CloseFails, CloseEnds, Edited
  <1>2. toRead' = toRead /\ undo' = undo /\ clicked' \subseteq Receipts /\ clicked \subseteq clicked' /\ restarts' = restarts
    BY <1>1 DEF BooksStep
  <1>3. closes' \in [Closers -> Close]
    <2>1. ASSUME NEW months \in SUBSET Months
          PROVE  Fingerprint(months) \in [Receipts -> Statuses \cup {"none"}]
      BY DEF Fingerprint, Row
    <2>2. ASSUME NEW months \in SUBSET Months, CloseBegins(c, months)
          PROVE  closes' \in [Closers -> Close]
      BY <2>1, <2>2 DEF CloseBegins, Close
    <2> QED BY <2>2, IdleTyped DEF CloseFails, CloseEnds
  <1>4. closes[c].months \subseteq Months
    BY DEF Close
  <1>5. \/ UNCHANGED <<locks, frozen>>
        \/ /\ ~Moved(c)
           /\ locks' = [m \in Months |-> IF m \in closes[c].months THEN "locked" ELSE locks[m]]
           /\ \E early \in BOOLEAN :
                 frozen' = [m \in Months |-> IF m \in closes[c].months THEN Figure(c, m, early) ELSE frozen[m]]
    BY DEF CloseBegins, CloseFails, CloseEnds
  <1>6. ASSUME NEW m \in Months, NEW early \in BOOLEAN
        PROVE  Figure(c, m, early) \in SUBSET Receipts
    BY DEF Figure, Counted, Filed
  <1>7. locks' \in [Months -> {"open", "locked", "reopened"}] /\ frozen' \in [Months -> SUBSET Receipts]
    BY <1>5, <1>6
  <1>8. TypeOK'
    BY <1>1, <1>2, <1>3, <1>7
  <1>9. FrozenIsCounted'
    <2>1. \A m \in Months : Counted(m)' = Counted(m)
      BY <1>1 DEF Counted, Filed
    <2> QED BY <1>5, <2>1, FigureStands DEF FrozenIsCounted, Locked
  <1>10. StampsTell'
    BY <1>1, <1>2, QuietKeeps
  <1> QED BY <1>8, <1>9, <1>10

-----------------------------------------------------------------------------
(* The steps of the pass, of a restart and of the undo. *)

LEMMA BeginKeeps ==
    ASSUME IInv, NEW hold \in SUBSET Receipts, NEW wait \in SUBSET Receipts, NEW read \in SUBSET Receipts,
           PassBegins(hold, wait, read)
    PROVE  IInv'
  <1> USE DEF IInv, TypeOK, BooksTypeOK, monthVars, PassBegins
  <1>1. ASSUME NEW r \in Receipts
        PROVE  reviews'[r] \in Review /\ reviews'[r].applied = reviews[r].applied
    <2>1. reviews[r] \in Review
      OBVIOUS
    <2>2. CASE r \in hold
      BY <2>1, <2>2, FinalTyped
    <2>3. CASE r \notin hold /\ r \in wait
      BY <2>1, <2>3 DEF Review
    <2>4. CASE r \notin hold /\ r \notin wait
      BY <2>1, <2>4
    <2> QED BY <2>2, <2>3, <2>4
  <1>2. reviews' \in [Receipts -> Review]
    BY <1>1
  <1>3. TypeOK'
    BY <1>2
  <1>4. FrozenIsCounted'
    BY FiguresKept
  <1>5. StampsTell'
    BY <1>1 DEF StampsTell
  <1> QED BY <1>3, <1>4, <1>5

LEMMA ReadKeeps ==
    ASSUME IInv, NEW r \in Receipts, NEW answer \in {"deferred", "held", "failed"}, ReadEnds(r, answer)
    PROVE  IInv'
  <1> USE DEF IInv, TypeOK, BooksTypeOK, monthVars
  <1> DEFINE fails == IF answer = "failed" THEN reviews[r].fails + 1 ELSE reviews[r].fails
             review == IF answer = "held" \/ fails > MaxReadWaits THEN Final(reviews[r], "hold")
                       ELSE [reviews[r] EXCEPT !.verdict = "wait", !.fails = fails]
  <1>1. /\ reviews' = [reviews EXCEPT ![r] = review]
        /\ toRead' \subseteq Receipts
        /\ UNCHANGED <<rows, overrides, decided, filing, locks, due, frozen, closes, config, edits, undo, clicked, restarts>>
    BY DEF ReadEnds
  <1>2. review \in Review /\ review.applied = reviews[r].applied
    <2>1. reviews[r] \in Review /\ fails \in Nat
      BY DEF Review
    <2>2. [reviews[r] EXCEPT !.verdict = "wait", !.fails = fails] \in Review
      BY <2>1 DEF Review
    <2>3. Final(reviews[r], "hold") \in Review /\ Final(reviews[r], "hold").applied = reviews[r].applied
      BY <2>1, FinalTyped
    <2> QED BY <2>1, <2>2, <2>3 DEF Review
  <1> HIDE DEF review
  <1>3. TypeOK'
    BY <1>1, <1>2
  <1>4. FrozenIsCounted'
    BY <1>1, FiguresKept
  <1>5. StampsTell'
    BY <1>1, <1>2 DEF StampsTell
  <1> QED BY <1>3, <1>4, <1>5

LEMMA ApproveKeeps ==
    ASSUME IInv, NEW r \in Receipts, Approve(r)
    PROVE  IInv'
  <1> USE DEF IInv, TypeOK, BooksTypeOK, monthVars
  <1> DEFINE review == Final(reviews[r], "approve")
  <1>1. /\ toRead' \subseteq Receipts
        /\ UNCHANGED <<overrides, decided, filing, locks, due, frozen, closes, config, edits, undo, clicked, restarts>>
    BY DEF Approve
  <1>2. review \in Review /\ review.applied = reviews[r].applied
    BY FinalTyped
  <1>3. CASE StillFree(r)
    <2>1. /\ rows' = [rows EXCEPT ![r] = Stamped(rows[r], "Approved", "pass")]
          /\ reviews' = [reviews EXCEPT ![r] = [review EXCEPT !.applied = TRUE]]
      BY <1>3 DEF Approve
    <2>2. [review EXCEPT !.applied = TRUE] \in Review
      BY <1>2 DEF Review
    <2>3. /\ rows' \in [Receipts -> Row] /\ rows'[r].posted = rows[r].posted
          /\ rows'[r].status = "Approved" /\ rows'[r].by = "pass"
      BY ZenonT(40), <2>1, StampedTyped DEF Statuses
    <2>4. TypeOK'
      BY <1>1, <2>1, <2>2, <2>3
    <2>5. ~Locked(rows[r].posted) /\ r \notin decided
      BY <1>3 DEF StillFree, MonthsOpen
    <2>6. FrozenIsCounted'
      BY <1>1, <2>1, <2>3, <2>5, FiguresKept DEF Locked
    <2>7. StampsTell'
      BY <1>1, <2>1, <2>3, <2>5 DEF StampsTell
    <2> QED BY <2>4, <2>6, <2>7
  <1>4. CASE ~StillFree(r)
    <2>1. rows' = rows /\ reviews' = [reviews EXCEPT ![r] = review]
      BY <1>4 DEF Approve
    <2> HIDE DEF review
    <2>2. TypeOK'
      BY <1>1, <1>2, <2>1
    <2>3. FrozenIsCounted'
      BY <1>1, <2>1, FiguresKept
    <2>4. StampsTell'
      BY <1>1, <1>2, <2>1 DEF StampsTell
    <2> QED BY <2>2, <2>3, <2>4
  <1> QED BY <1>3, <1>4

LEMMA RestartKeeps ==
    ASSUME IInv, NEW s \in Config, Restart(s)
    PROVE  IInv'
  <1> USE DEF IInv, TypeOK, BooksTypeOK
  <1>1. /\ UNCHANGED <<rows, overrides, decided, locks, due, frozen, edits, undo, clicked>>
        /\ config' \in Config /\ toRead' = {} /\ restarts' \in Nat
        /\ filing' \in [Clients -> Filing] /\ closes' \in [Closers -> Close]
    BY IdleTyped DEF Restart
  <1>2. /\ reviews' \in [Receipts -> Review]
        /\ \A q \in Receipts : reviews'[q].applied = reviews[q].applied
    <2>1. CASE reviews' = reviews
      BY <2>1
    <2>2. ASSUME NEW r \in toRead, reviews' = [reviews EXCEPT ![r] = Final(@, "approve")]
          PROVE  <1>2!1 /\ <1>2!2
      <3>1. Final(reviews[r], "approve") \in Review /\ Final(reviews[r], "approve").applied = reviews[r].applied
        BY FinalTyped
      <3> QED BY <2>2, <3>1
    <2> QED BY <2>1, <2>2 DEF Restart
  <1>3. FrozenIsCounted'
    BY <1>1, FiguresKept
  <1>4. StampsTell'
    BY <1>1, <1>2 DEF StampsTell
  <1> QED BY <1>1, <1>2, <1>3, <1>4

LEMMA PlanKeeps ==
    ASSUME IInv, NEW rs \in SUBSET Receipts, UndoPlanned(rs)
    PROVE  IInv'
  <1> USE DEF IInv, UndoPlanned, booksVars, monthVars
  <1>1. TypeOK'
    BY DEF TypeOK, BooksTypeOK
  <1>2. FrozenIsCounted'
    BY FiguresKept
  <1>3. StampsTell'
    BY DEF StampsTell, Untouched
  <1> QED BY <1>1, <1>2, <1>3

LEMMA WriteKeeps ==
    ASSUME IInv, NEW r \in Receipts, UndoWrites(r)
    PROVE  IInv'
  <1> USE DEF IInv, TypeOK, BooksTypeOK, monthVars
  <1>1. /\ undo' = undo \ {r} /\ clicked' = clicked \ {r}
        /\ UNCHANGED <<overrides, decided, filing, locks, due, frozen, closes, config, edits, toRead, restarts>>
    BY DEF UndoWrites
  <1>2. CASE StillUntouched(r)
    <2>1. /\ rows' = [rows EXCEPT ![r] = Stamped(rows[r], "Pending", "undo")]
          /\ reviews' = [reviews EXCEPT ![r].undone = TRUE]
          /\ ~Locked(rows[r].posted)
      BY <1>2 DEF UndoWrites, StillUntouched, MonthsOpen
    <2>2. /\ rows' \in [Receipts -> Row] /\ rows'[r].posted = rows[r].posted
          /\ rows'[r].status = "Pending" /\ rows'[r].by = "undo"
      BY ZenonT(40), <2>1, StampedTyped DEF Statuses
    <2>3. /\ reviews' \in [Receipts -> Review]
          /\ \A q \in Receipts : reviews'[q].applied = reviews[q].applied
      <3>1. reviews[r] \in Review
        OBVIOUS
      <3>2. [reviews[r] EXCEPT !.undone = TRUE] \in Review /\ [reviews[r] EXCEPT !.undone = TRUE].applied = reviews[r].applied
        BY <3>1 DEF Review
      <3>3. reviews' = [reviews EXCEPT ![r] = [reviews[r] EXCEPT !.undone = TRUE]]
        BY <2>1
      <3> QED BY <3>2, <3>3
    <2>4. TypeOK'
      BY <1>1, <2>2, <2>3
    <2>5. FrozenIsCounted'
      BY <1>1, <2>1, <2>2, FiguresKept DEF Locked
    <2>6. StampsTell'
      BY <1>1, <2>1, <2>2, <2>3 DEF StampsTell
    <2> QED BY <2>4, <2>5, <2>6
  <1>3. CASE ~StillUntouched(r)
    <2>1. rows' = rows /\ reviews' = reviews
      BY <1>3 DEF UndoWrites
    <2>2. TypeOK'
      BY <1>1, <2>1
    <2>3. FrozenIsCounted'
      BY <1>1, <2>1, FiguresKept
    <2>4. StampsTell'
      BY <1>1, <2>1 DEF StampsTell
    <2> QED BY <2>2, <2>3, <2>4
  <1> QED BY <1>2, <1>3

-----------------------------------------------------------------------------
LEMMA NextInv == IInv /\ [Next]_vars => IInv'
  <1> SUFFICES ASSUME IInv, [Next]_vars PROVE IInv'
    OBVIOUS
  <1>1. CASE BooksStep
    BY <1>1, FileKeeps, InsertKeeps, SetStatusKeeps, MonthKeeps, CloseKeeps DEF BooksStep, Books
  <1>2. CASE Pass
    BY <1>2, BeginKeeps, ReadKeeps, ApproveKeeps DEF Pass
  <1>3. CASE Undo
    BY <1>3, PlanKeeps, WriteKeeps DEF Undo
  <1>4. CASE \E s \in Config : Restart(s)
    BY <1>4, RestartKeeps
  <1>5. CASE UNCHANGED vars
    BY <1>5 DEF IInv, TypeOK, BooksTypeOK, StampsTell, FrozenIsCounted, Locked, Counted, Filed,
                vars, booksVars, passVars, monthVars
  <1> QED BY <1>1, <1>2, <1>3, <1>4, <1>5 DEF Next

LEMMA AlwaysInv == Spec => []IInv
  BY InitInv, NextInv, PTL DEF Spec

\* Every reachable state of the books, the pass and the undo is type-correct (server.js,
\* lib/receipt-auto-approve-pass.js).
THEOREM Typed == Spec => []TypeOK
  <1>1. IInv => TypeOK
    BY DEF IInv
  <1> QED BY AlwaysInv, <1>1, PTL

\* A closed month's figure is the one that counts, whatever came while its close computed
\* (finalizePeriods() and every write of a receipt).
THEOREM ClosedIsFinal == Spec => []FrozenIsCounted
  <1>1. IInv => FrozenIsCounted
    BY DEF IInv
  <1> QED BY AlwaysInv, <1>1, PTL

\* Only the pass's approval and the undo's write put their stamps.
LEMMA StampsByTheirOwn ==
    ASSUME IInv, Next, NEW r \in Receipts, rows'[r].by \in {"pass", "undo"}, rows'[r].by # rows[r].by
    PROVE  \/ rows'[r].by = "pass" /\ StillFree(r)
           \/ rows'[r].by = "undo" /\ r \in undo /\ StillUntouched(r)
  <1>1. rows \in [Receipts -> Row] /\ rows[r] \in Row
    BY DEF IInv, TypeOK, BooksTypeOK
  <1>2. CASE BooksStep
    <2>1. ASSUME NEW c \in Clients, Insert(c) PROVE FALSE
      <3> DEFINE new == [status |-> "Pending", by |-> "", paper |-> filing[c].paper,
                         posted |-> PostedPeriod(filing[c].paper)]
      <3>1. \E q \in Receipts : rows' = [rows EXCEPT ![q] = new]
        BY <2>1 DEF Insert
      <3>2. new.by = ""
        OBVIOUS
      <3> HIDE DEF new
      <3> QED BY <1>1, <3>1, <3>2
    <2>2. ASSUME NEW rs \in SUBSET Receipts, NEW status \in Statuses, SetStatus(rs, status) PROVE FALSE
      <3>1. rows'[r] = rows[r] \/ rows'[r] = Stamped(rows[r], status, IF config.recorder THEN "person" ELSE rows[r].by)
        BY <2>2 DEF SetStatus
      <3>2. rows[r].by \in {"", "person", "pass", "undo"}
        BY <1>1 DEF Row
      <3> DEFINE by == IF config.recorder THEN "person" ELSE rows[r].by
      <3>3. by \in {"person", rows[r].by}
        OBVIOUS
      <3> HIDE DEF by
      <3>4. \A setter \in {"", "person", "pass", "undo"} : Stamped(rows[r], status, setter).by = setter
        BY <1>1 DEF Stamped, Row
      <3> QED BY <3>1, <3>2, <3>3, <3>4 DEF by
    <2>3. ASSUME UNCHANGED rows PROVE FALSE
      BY <2>3
    <2> QED BY <1>2, <2>1, <2>2, <2>3 DEF BooksStep, Books, File, GraceEnds, Reopen, CloseBegins, CloseFails, CloseEnds
  <1>3. CASE Pass
    <2>1. ASSUME NEW q \in Receipts, Approve(q) PROVE rows'[r].by = "pass" /\ StillFree(r)
      <3>1. CASE StillFree(q)
        <4>1. rows' = [rows EXCEPT ![q] = Stamped(rows[q], "Approved", "pass")]
          BY <2>1, <3>1 DEF Approve
        <4>2. q = r
          BY <1>1, <4>1
        <4>3. Stamped(rows[r], "Approved", "pass").by = "pass"
          BY <1>1, StampedTyped DEF Statuses
        <4> QED BY <1>1, <3>1, <4>1, <4>2, <4>3
      <3>2. CASE ~StillFree(q)
        BY <2>1, <3>2 DEF Approve
      <3> QED BY <3>1, <3>2
    <2> QED BY <1>3, <2>1 DEF Pass, PassBegins, ReadEnds
  <1>4. CASE Undo
    <2>1. ASSUME NEW q \in Receipts, UndoWrites(q) PROVE rows'[r].by = "undo" /\ r \in undo /\ StillUntouched(r)
      <3>1. CASE StillUntouched(q)
        <4>1. rows' = [rows EXCEPT ![q] = Stamped(rows[q], "Pending", "undo")] /\ q \in undo
          BY <2>1, <3>1 DEF UndoWrites
        <4>2. q = r
          BY <1>1, <4>1
        <4>3. Stamped(rows[r], "Pending", "undo").by = "undo"
          BY <1>1, StampedTyped DEF Statuses
        <4> QED BY <1>1, <3>1, <4>1, <4>2, <4>3
      <3>2. CASE ~StillUntouched(q)
        BY <2>1, <3>2 DEF UndoWrites
      <3> QED BY <3>1, <3>2
    <2> QED BY <1>4, <2>1 DEF Undo, UndoPlanned, booksVars
  <1>5. CASE \E s \in Config : Restart(s)
    BY <1>5 DEF Restart
  <1> QED BY <1>2, <1>3, <1>4, <1>5 DEF Next

\* The pass approves a receipt once at most, and none that a person decided, that an undo took back,
\* or whose month is closed or due for close (apply()).
THEOREM ApprovesFree == Spec => ApprovesOnlyFree
  <1> DEFINE Free(r) == ~reviews[r].applied /\ r \notin decided /\ ~Locked(rows[r].posted) /\ rows[r].posted \notin due
  <1>1. ASSUME IInv, Next, NEW r \in Receipts, rows'[r].by = "pass", rows[r].by # "pass"
        PROVE  Free(r)
    <2>1. StillFree(r)
      BY <1>1, StampsByTheirOwn
    <2> QED BY <1>1, <2>1 DEF StillFree, MonthsOpen, IInv, StampsTell
  <1>2. IInv /\ [Next]_vars => [\A r \in Receipts : rows'[r].by = "pass" /\ rows[r].by # "pass" => Free(r)]_vars
    BY <1>1
  <1> QED BY AlwaysInv, <1>2, PTL DEF Spec, ApprovesOnlyFree

\* The undo takes back only what the pass approved, and nothing a person decided since with a
\* stamp or before its plan (undoPlan(), undoApply()).
THEOREM UndoSparesPeople == Spec => UndoLeavesPeople
  <1> DEFINE Fair(r) == rows[r].by = "pass" /\ (r \in decided => r \in clicked)
  <1>1. ASSUME IInv, Next, NEW r \in Receipts, rows'[r].by = "undo", rows[r].by # "undo"
        PROVE  Fair(r)
    <2>1. r \in undo /\ StillUntouched(r)
      BY <1>1, StampsByTheirOwn
    <2> QED BY <1>1, <2>1 DEF StillUntouched, IInv, StampsTell
  <1>2. IInv /\ [Next]_vars => [\A r \in Receipts : rows'[r].by = "undo" /\ rows[r].by # "undo" => Fair(r)]_vars
    BY <1>1
  <1> QED BY AlwaysInv, <1>2, PTL DEF Spec, UndoLeavesPeople

-----------------------------------------------------------------------------
(* Copies. A receipt the pass has in hand was judged when it was the only one of its slip that    *)
(* counted; nothing a person did since makes it, or another of that slip, one of the pass's.      *)

\* The pass may still approve it, or did and nobody decided since.
InHand(r) == r \in toRead \/ StandsByPass(r)

\* A receipt of this slip was logged over the warning.
Warned(paper) == \E o \in overrides : rows[o[1]].paper = paper

\* Two of one slip are in hand only where one was logged over the warning; what is to be read,
\* and what was logged over a warning, is filed.
CopyInv ==
    /\ toRead \subseteq Filed
    /\ \A o \in overrides : o[1] \in Filed
    /\ \A r, q \in Receipts : r # q /\ InHand(r) /\ InHand(q) /\ rows[r].paper = rows[q].paper => Warned(rows[r].paper)

LEMMA InHandFiled == ASSUME IInv, CopyInv, NEW r \in Receipts, InHand(r) PROVE r \in Filed
  BY DEF IInv, CopyInv, InHand, StandsByPass, Filed

\* A filed receipt keeps its slip, an override stays, and nothing else comes in hand.
LEMMA CopiesKept ==
    ASSUME IInv, CopyInv, overrides \subseteq overrides', overrides' \subseteq Receipts \X Receipts,
           \A o \in overrides' \ overrides : rows'[o[1]].status # "none",
           \A r \in Filed : rows'[r].paper = rows[r].paper /\ rows'[r].status # "none",
           toRead' \subseteq toRead,
           \A r \in Receipts : StandsByPass(r)' => InHand(r)
    PROVE  CopyInv'
  <1>1. Filed \subseteq Filed' /\ overrides \subseteq Receipts \X Receipts
    BY DEF Filed, IInv, TypeOK, BooksTypeOK
  <1>2. toRead' \subseteq Filed'
    BY <1>1 DEF CopyInv
  <1>3. \A o \in overrides' : o[1] \in Filed'
    <2>1. \A o \in overrides' : o[1] \in Receipts
      OBVIOUS
    <2> QED BY <1>1, <2>1 DEF CopyInv, Filed
  <1>4. ASSUME NEW r \in Receipts, InHand(r)' PROVE InHand(r) /\ r \in Filed /\ rows'[r].paper = rows[r].paper
    <2>1. InHand(r)
      BY <1>4 DEF InHand
    <2> QED BY <2>1, InHandFiled
  <1>5. ASSUME NEW paper, Warned(paper) PROVE Warned(paper)'
    <2>1. PICK o \in overrides : rows[o[1]].paper = paper
      BY <1>5 DEF Warned
    <2>2. o[1] \in Filed
      BY <2>1 DEF CopyInv
    <2> QED BY <2>1, <2>2 DEF Warned
  <1>6. ASSUME NEW r \in Receipts, NEW q \in Receipts, r # q, InHand(r)', InHand(q)', rows'[r].paper = rows'[q].paper
        PROVE  Warned(rows[r].paper)'
    <2>1. Warned(rows[r].paper)
      BY <1>4, <1>6 DEF CopyInv
    <2>2. \A paper : Warned(paper) => Warned(paper)'
      BY <1>5
    <2>3. rows'[r].paper = rows[r].paper
      BY <1>4, <1>6
    <2>4. Warned(rows'[r].paper) => (\E o \in overrides' : rows'[o[1]].paper = rows'[r].paper)
      BY <2>2 DEF Warned
    <2> QED BY <2>1, <2>3, <2>4 DEF Warned
  <1> QED BY <1>2, <1>3, <1>6 DEF CopyInv

LEMMA BooksCopies == ASSUME IInv, CopyInv, BooksStep PROVE CopyInv'
  <1>1. /\ rows \in [Receipts -> Row] /\ overrides \subseteq Receipts \X Receipts /\ toRead' = toRead
        /\ filing \in [Clients -> Filing]
    BY DEF IInv, TypeOK, BooksTypeOK, BooksStep
  <1>2. ASSUME NEW c \in Clients, Insert(c) PROVE CopyInv'
    <2> DEFINE new == [status |-> "Pending", by |-> "", paper |-> filing[c].paper,
                       posted |-> PostedPeriod(filing[c].paper)]
    <2>1. PICK r \in Receipts \ Filed :
            /\ rows' = [rows EXCEPT ![r] = new]
            /\ overrides' = IF filing[c].near = 0 THEN overrides ELSE overrides \cup {<<r, filing[c].near>>}
            /\ decided' = decided
      BY <1>2 DEF Insert
    <2>2. rows'[r] = new /\ new.status = "Pending"
      BY <1>1, <2>1
    <2> HIDE DEF new
    <2>3. \A q \in Receipts : q # r => rows'[q] = rows[q]
      BY <1>1, <2>1
    <2>4. overrides \subseteq overrides' /\ \A o \in overrides' \ overrides : o[1] = r
      BY <2>1
    <2>5. IInv'
      BY <1>2, InsertKeeps
    <2>6. overrides' \subseteq Receipts \X Receipts
      BY <2>5 DEF IInv, TypeOK, BooksTypeOK
    <2>7. \A q \in Receipts : StandsByPass(q)' => InHand(q)
      BY <2>1, <2>2, <2>3 DEF StandsByPass, InHand
    <2>8. \A q \in Filed : rows'[q].paper = rows[q].paper /\ rows'[q].status # "none"
      BY <2>1, <2>3 DEF Filed
    <2> QED BY <1>1, <2>2, <2>4, <2>6, <2>7, <2>8, CopiesKept
  <1>3. ASSUME NEW rs \in SUBSET Receipts, NEW status \in Statuses, SetStatus(rs, status) PROVE CopyInv'
    <2> DEFINE by(r) == IF config.recorder THEN "person" ELSE rows[r].by
    <2>1. /\ rows' = [r \in Receipts |->
                        IF r \in OpenRows(rs) THEN Stamped(rows[r], status, by(r)) ELSE rows[r]]
          /\ decided' = decided \cup OpenRows(rs) /\ overrides' = overrides
      BY <1>3 DEF SetStatus
    <2>2. ASSUME NEW r \in Receipts
          PROVE  /\ r \notin OpenRows(rs) => rows'[r] = rows[r]
                 /\ r \in OpenRows(rs) => rows'[r].paper = rows[r].paper /\ rows'[r].status = status /\ r \in decided'
      <3>1. rows[r] \in Row
        BY <1>1
      <3>2. \A setter : Stamped(rows[r], status, setter).paper = rows[r].paper /\ Stamped(rows[r], status, setter).status = status
        BY <3>1 DEF Stamped, Row
      <3> HIDE DEF by
      <3> QED BY <2>1, <3>2
    <2>3. status # "none"
      BY DEF Statuses
    <2>4. \A r \in Receipts : StandsByPass(r)' => InHand(r)
      BY <2>1, <2>2 DEF StandsByPass, InHand
    <2>5. \A r \in Filed : rows'[r].paper = rows[r].paper /\ rows'[r].status # "none"
      BY <2>2, <2>3 DEF Filed
    <2> QED BY <1>1, <2>1, <2>4, <2>5, CopiesKept
  <1>4. ASSUME UNCHANGED <<rows, overrides, decided>> PROVE CopyInv'
    <2>1. \A r \in Receipts : StandsByPass(r)' => InHand(r)
      BY <1>4 DEF StandsByPass, InHand
    <2> QED BY <1>1, <1>4, <2>1, CopiesKept DEF Filed
  <1> QED BY <1>2, <1>3, <1>4 DEF BooksStep, Books, File, GraceEnds, Reopen, CloseBegins, CloseFails, CloseEnds

\* What a pass begins with is of slips no other receipt of which counts, but for those logged over
\* the warning (duplicateMemberIds()).
LEMMA BeginCopies ==
    ASSUME IInv, CopyInv, NEW hold \in SUBSET Receipts, NEW wait \in SUBSET Receipts, NEW read \in SUBSET Receipts,
           PassBegins(hold, wait, read)
    PROVE  CopyInv'
  <1>1. /\ UNCHANGED <<rows, overrides, decided>> /\ toRead' = read /\ toRead = {}
        /\ read \subseteq Candidates /\ \A r \in read : ~Twinned(r)
    BY DEF PassBegins
  <1>2. read \subseteq Filed /\ \A r \in read : rows[r].status = "Pending"
    BY <1>1 DEF Candidates
  <1>3. ASSUME NEW r \in Receipts, InHand(r)'
        PROVE  r \in Copies(rows[r].paper) /\ (r \in read \/ StandsByPass(r))
    BY <1>1, <1>2, <1>3 DEF InHand, StandsByPass, Copies, Filed
  <1>4. ASSUME NEW r \in read, NEW q \in Receipts, r # q, InHand(q)', rows[r].paper = rows[q].paper
        PROVE  Warned(rows[r].paper)
    <2>1. q \in Copies(rows[r].paper)
      BY <1>3, <1>4
    <2>2. PICK o \in overrides : o[1] \in Copies(rows[r].paper)
      BY <1>1, <1>4, <2>1 DEF Twinned
    <2> QED BY <2>2 DEF Warned, Copies
  <1>5. ASSUME NEW r \in Receipts, NEW q \in Receipts, r # q, InHand(r)', InHand(q)', rows[r].paper = rows[q].paper
        PROVE  Warned(rows[r].paper)
    <2>1. CASE r \in read
      BY <1>4, <1>5, <2>1
    <2>2. CASE q \in read
      BY <1>4, <1>5, <2>2
    <2>3. CASE StandsByPass(r) /\ StandsByPass(q)
      BY <1>5, <2>3 DEF CopyInv, InHand
    <2> QED BY <1>3, <1>5, <2>1, <2>2, <2>3
  <1> QED BY <1>1, <1>2, <1>5 DEF CopyInv, Warned, Filed

LEMMA PassCopies ==
    ASSUME IInv, CopyInv, NEW r \in Receipts,
           Approve(r) \/ UndoWrites(r) \/ \E answer \in {"deferred", "held", "failed"} : ReadEnds(r, answer)
    PROVE  CopyInv'
  <1>1. rows \in [Receipts -> Row] /\ overrides \subseteq Receipts \X Receipts
    BY DEF IInv, TypeOK, BooksTypeOK
  <1>2. UNCHANGED <<overrides, decided>> /\ toRead' \subseteq toRead
    BY DEF Approve, UndoWrites, ReadEnds
  <1>3. \/ rows' = rows
        \/ r \in toRead /\ rows' = [rows EXCEPT ![r] = Stamped(rows[r], "Approved", "pass")]
        \/ rows' = [rows EXCEPT ![r] = Stamped(rows[r], "Pending", "undo")]
    BY DEF Approve, UpNext, UndoWrites, ReadEnds
  <1>4. \A status, setter : /\ Stamped(rows[r], status, setter).paper = rows[r].paper
                            /\ Stamped(rows[r], status, setter).status = status
    BY <1>1 DEF Stamped, Row
  <1>5. \A q \in Filed : rows'[q].paper = rows[q].paper /\ rows'[q].status # "none"
    BY <1>1, <1>3, <1>4 DEF Filed
  <1>6. \A q \in Receipts : StandsByPass(q)' => InHand(q)
    BY <1>1, <1>2, <1>3, <1>4 DEF StandsByPass, InHand
  <1> QED BY <1>1, <1>2, <1>5, <1>6, CopiesKept

LEMMA NextCopies == IInv /\ CopyInv /\ [Next]_vars => CopyInv'
  <1> SUFFICES ASSUME IInv, CopyInv, [Next]_vars PROVE CopyInv'
    OBVIOUS
  <1>1. ASSUME UNCHANGED <<rows, overrides, decided>>, toRead' \subseteq toRead PROVE CopyInv'
    <2>1. \A r \in Receipts : StandsByPass(r)' => InHand(r)
      BY <1>1 DEF StandsByPass, InHand
    <2>2. overrides \subseteq Receipts \X Receipts
      BY DEF IInv, TypeOK, BooksTypeOK
    <2> QED BY <1>1, <2>1, <2>2, CopiesKept DEF Filed
  <1>2. CASE BooksStep
    BY <1>2, BooksCopies
  <1>3. CASE Pass
    BY <1>3, BeginCopies, PassCopies DEF Pass
  <1>4. CASE Undo
    BY <1>1, <1>4, PassCopies DEF Undo, UndoPlanned, booksVars
  <1>5. CASE \E s \in Config : Restart(s)
    BY <1>1, <1>5 DEF Restart
  <1>6. CASE UNCHANGED vars
    BY <1>1, <1>6 DEF vars, booksVars, passVars
  <1> QED BY <1>2, <1>3, <1>4, <1>5, <1>6 DEF Next

\* Two receipts of one slip both stand approved by the pass only if one was logged over the warning,
\* for any clients filing at once and any reads the pass waits for (duplicateMemberIds(), apply()).
THEOREM NoCopySlips == Spec => []OneCopyStands
  <1>1. Init => CopyInv
    <2> SUFFICES ASSUME Init PROVE CopyInv
      OBVIOUS
    <2>1. toRead = {} /\ overrides = {} /\ \A r \in Receipts : rows[r].status = "none"
      BY DEF Init, BooksInit, NoRow
    <2>2. \A r \in Receipts : ~InHand(r)
      BY <2>1 DEF InHand, StandsByPass
    <2> QED BY <2>1, <2>2 DEF CopyInv
  <1>2. CopyInv => OneCopyStands
    BY DEF CopyInv, InHand, OneCopyStands, Warned
  <1> QED BY AlwaysInv, NextCopies, <1>1, <1>2, PTL DEF Spec
=============================================================================
