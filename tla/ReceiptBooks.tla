---------------------------- MODULE ReceiptBooks -----------------------------
(***************************************************************************)
(* Receipts and the months they are booked to, as server.js keeps them:    *)
(* POST /api/expenses, with its duplicate warning before the awaits and    *)
(* its booking month after them; the status routes; the month-end close,   *)
(* by its sweep or by the route; and the reopening of a month.  The pass   *)
(* that approves receipts, and its undo, are in ReceiptPass.               *)
(***************************************************************************)
EXTENDS Integers, FiniteSets

CONSTANTS
    Months, Now,            \* the months that are over, and the one that runs
    Slips, Dated,           \* what the duplicate check compares (driver, day, amount), and the months the days are in
    Clients,                \* who files receipts at the same time
    MaxReceipts, MaxEdits   \* bounds on receipts, and on what people do to them and to months

ASSUME BooksAssumption ==
    /\ Now \notin Months /\ Slips # {} /\ Dated # {} /\ Dated \subseteq Months \cup {Now}
    /\ MaxReceipts \in Nat \ {0} /\ MaxEdits \in Nat

VARIABLES
    rows,                   \* expenses
    overrides,              \* audit_trail: receipts logged over a warning, each with the one it named
    decided,                \* audit_trail: receipts whose status a person set
    reviews,                \* receipt_auto_reviews
    filing,                 \* each client's POST between its duplicate check and its insert
    locks, due, frozen,     \* period_locks; the months past their grace; the receipts in a closed figure
    closes,                 \* each close between its fingerprint and its freeze
    config,                 \* the switches of this boot: the pass, whether it is on or in shadow, and the status recorder
    edits

monthVars == <<locks, due, frozen, closes>>

Receipts == 1..MaxReceipts
Closers  == {"sweep", "route"}
Statuses == {"Pending", "Approved", "Rejected"}
Papers   == [slip : Slips, month : Dated]
Row      == [status : Statuses \cup {"none"}, by : {"", "person", "pass", "undo"},
             paper : Papers, posted : Months \cup {Now}]
Review   == [verdict : {"none", "wait", "hold", "approve"}, fails : Nat, applied : BOOLEAN, undone : BOOLEAN]
Filing   == [busy : BOOLEAN, paper : Papers, near : 0..MaxReceipts]
Close    == [months : SUBSET Months, before : [Receipts -> Statuses \cup {"none"}]]

\* readConfig(): without the recorder the pass is not on, only in shadow.
Config == {s \in [enabled : BOOLEAN, on : BOOLEAN, recorder : BOOLEAN] : s.on => s.enabled /\ s.recorder}

APaper   == CHOOSE paper \in Papers : TRUE
NoRow    == [status |-> "none", by |-> "", paper |-> APaper, posted |-> Now]
NoReview == [verdict |-> "none", fails |-> 0, applied |-> FALSE, undone |-> FALSE]
NoFiling == [busy |-> FALSE, paper |-> APaper, near |-> 0]
NoClose  == [months |-> {}, before |-> [r \in Receipts |-> "none"]]

BooksInit ==
    /\ rows = [r \in Receipts |-> NoRow] /\ overrides = {} /\ decided = {}
    /\ reviews = [r \in Receipts |-> NoReview]
    /\ filing = [c \in Clients |-> NoFiling]
    /\ locks = [m \in Months |-> "open"] /\ due = {} /\ frozen = [m \in Months |-> {}]
    /\ closes = [c \in Closers |-> NoClose]
    /\ config \in Config
    /\ edits = 0

\* Every row, review, request, month and close holds only values of its kind.
BooksTypeOK ==
    /\ rows \in [Receipts -> Row] /\ overrides \subseteq Receipts \X Receipts /\ decided \subseteq Receipts
    /\ reviews \in [Receipts -> Review]
    /\ filing \in [Clients -> Filing]
    /\ locks \in [Months -> {"open", "locked", "reopened"}] /\ due \subseteq Months
    /\ frozen \in [Months -> SUBSET Receipts]
    /\ closes \in [Closers -> Close]
    /\ config \in Config
    /\ edits \in Nat

-----------------------------------------------------------------------------
Filed == {r \in Receipts : rows[r].status # "none"}
Locked(m) == m \in Months /\ locks[m] = "locked"

\* A row's new status, and who set it.
Stamped(row, status, by) == [row EXCEPT !.status = status, !.by = by]

\* A person's act, of which there are at most MaxEdits.
Edited == edits < MaxEdits /\ edits' = edits + 1

\* The receipts a month's figures count (EXPENSE_PNL_FILTER over EXPENSE_PERIOD_EXPR).
Counted(m) == {r \in Filed : rows[r].posted = m /\ rows[r].status # "Rejected"}

\* findContentDuplicate(): who else was filed with this paper and still counts.
Copies(paper) == {r \in Filed : rows[r].paper = paper /\ rows[r].status # "Rejected"}

\* POST /api/expenses up to its awaits: a copy is refused with 409, unless the person logs it anyway.
File(c, paper, anyway) ==
    /\ ~filing[c].busy
    /\ Copies(paper) # {} => anyway
    /\ \E near \in IF Copies(paper) = {} THEN {0} ELSE Copies(paper) :
          filing' = [filing EXCEPT ![c] = [busy |-> TRUE, paper |-> paper, near |-> near]]
    /\ UNCHANGED <<rows, overrides, decided, reviews, monthVars, config, edits>>

\* Mutant: a receipt of a closed month gets no booking month.
NoPeriod(paper) == IF Locked(paper.month) THEN "" ELSE paper.month

\* The booking month, read beside the insert: the month of the slip, or the running one if that is closed.
PostedPeriod(paper) == IF Locked(paper.month) THEN Now ELSE paper.month

\* The insert, and the override's audit row.
Insert(c) ==
    \E r \in Receipts \ Filed :
        /\ filing[c].busy
        /\ \A q \in 1..(r - 1) : q \in Filed
        /\ rows' = [rows EXCEPT ![r] = [status |-> "Pending", by |-> "", paper |-> filing[c].paper,
                                        posted |-> PostedPeriod(filing[c].paper)]]
        /\ overrides' = IF filing[c].near = 0 THEN overrides ELSE overrides \cup {<<r, filing[c].near>>}
        /\ filing' = [filing EXCEPT ![c] = NoFiling]
        /\ UNCHANGED <<decided, reviews, monthVars, config, edits>>

\* markUndone(): a person takes back what the pass approved.
MarkedUndone(rs, status) ==
    [r \in Receipts |->
        IF config.enabled /\ status # "Approved" /\ r \in rs /\ reviews[r].applied
        THEN [reviews[r] EXCEPT !.undone = TRUE] ELSE reviews[r]]

\* The receipts of a request whose booking month is not closed: the others are withheld.
OpenRows(rs) == {r \in rs : ~Locked(rows[r].posted)}

\* PUT status and PUT bulk-status: the status, who set it (with the recorder on), and the audit row.
SetStatus(rs, status) ==
    LET open == OpenRows(rs) IN
    /\ Edited
    /\ rs \subseteq Filed /\ open # {}
    /\ rows' = [r \in Receipts |->
                   IF r \in open THEN Stamped(rows[r], status, IF config.recorder THEN "person" ELSE rows[r].by)
                   ELSE rows[r]]
    /\ reviews' = MarkedUndone(open, status)
    /\ decided' = decided \cup open
    /\ UNCHANGED <<overrides, filing, monthVars, config>>

-----------------------------------------------------------------------------
(* The month-end close. *)

\* isPastGrace(): a month's days of grace are over.
GraceEnds(m) ==
    /\ m \notin due
    /\ due' = due \cup {m}
    /\ UNCHANGED <<rows, overrides, decided, reviews, filing, locks, frozen, closes, config, edits>>

\* Of closingFingerprint(), what is about receipts.
Fingerprint(months) == [r \in Receipts |-> IF rows[r].posted \in months THEN rows[r].status ELSE "none"]

\* The sweep takes every month due that was never locked, the route one that is not locked now.
CloseBegins(c, months) ==
    /\ closes[c].months = {} /\ months # {}
    /\ \/ c = "sweep" /\ months = {m \in due : locks[m] = "open"} /\ UNCHANGED edits
       \/ c = "route" /\ (\E m \in Months : months = {m} /\ ~Locked(m)) /\ Edited
    /\ closes' = [closes EXCEPT ![c] = [months |-> months, before |-> Fingerprint(months)]]
    /\ UNCHANGED <<rows, overrides, decided, reviews, filing, locks, due, frozen, config>>

\* The figure a close has computed for a month: before its wait for the sheet (the sheet's copy ran
\* out on the way) or after it.
Figure(c, m, early) ==
    IF early
    THEN {r \in Receipts : rows[r].posted = m /\ closes[c].before[r] \notin {"none", "Rejected"}}
    ELSE Counted(m)

\* Mutant: the freeze looks only at which receipts there are.
RowsMoved(c) ==
    \/ \E m \in closes[c].months : Locked(m)
    \/ {r \in Receipts : Fingerprint(closes[c].months)[r] # "none"} # {r \in Receipts : closes[c].before[r] # "none"}

\* Another close was first, or the receipts moved meanwhile: the close is retried later.
Moved(c) ==
    \/ \E m \in closes[c].months : Locked(m)
    \/ Fingerprint(closes[c].months) # closes[c].before

\* The freeze: the figures and the locks in one transaction.
CloseEnds(c, early) ==
    /\ closes[c].months # {}
    /\ IF Moved(c) THEN UNCHANGED <<locks, frozen>>
       ELSE /\ locks' = [m \in Months |-> IF m \in closes[c].months THEN "locked" ELSE locks[m]]
            /\ frozen' = [m \in Months |-> IF m \in closes[c].months THEN Figure(c, m, early) ELSE frozen[m]]
    /\ closes' = [closes EXCEPT ![c] = NoClose]
    /\ UNCHANGED <<rows, overrides, decided, reviews, filing, due, config, edits>>

\* The sheet cannot be read, or a payout row came that the close did not reconcile: nothing is written.
CloseFails(c) ==
    /\ closes[c].months # {}
    /\ closes' = [closes EXCEPT ![c] = NoClose]
    /\ UNCHANGED <<rows, overrides, decided, reviews, filing, locks, due, frozen, config, edits>>

\* POST reopen: the lock's row stays, so that the sweep leaves the month alone.
Reopen(m) ==
    /\ Edited /\ Locked(m)
    /\ locks' = [locks EXCEPT ![m] = "reopened"]
    /\ frozen' = [frozen EXCEPT ![m] = {}]
    /\ UNCHANGED <<rows, overrides, decided, reviews, filing, due, closes, config>>

Books ==
    \/ \E c \in Clients, paper \in Papers, anyway \in BOOLEAN : File(c, paper, anyway)
    \/ \E c \in Clients : Insert(c)
    \/ \E rs \in SUBSET Receipts, status \in Statuses : SetStatus(rs, status)
    \/ \E m \in Months : GraceEnds(m) \/ Reopen(m)
    \/ \E c \in Closers, months \in SUBSET Months : CloseBegins(c, months)
    \/ \E c \in Closers, early \in BOOLEAN : CloseEnds(c, early)
    \/ \E c \in Closers : CloseFails(c)

-----------------------------------------------------------------------------
\* A closed month is final: the receipts its frozen figure has are those that count in it, whatever
\* was filed, set or approved while the close computed, and whatever arrives after it
\* (finalizePeriods(), POST /api/expenses, the status routes, the pass and its undo).
FrozenIsCounted == \A m \in Months : Locked(m) => frozen[m] = Counted(m)
=============================================================================
