----------------------------- MODULE ReceiptPass -----------------------------
(***************************************************************************)
(* The hourly pass that approves fuel receipts and its undo script         *)
(* (lib/receipt-auto-approve-pass.js), over the books.  The pass reads its *)
(* facts once, judges what it can, then has the other receipts read one    *)
(* by one: each read is an await.  The undo is a process of its own.       *)
(***************************************************************************)
EXTENDS ReceiptBooks

CONSTANTS
    MaxReadWaits,           \* failed reads after which a receipt is held (MAX_READ_WAITS)
    MaxRestarts             \* bound on restarts

ASSUME PassAssumption == MaxReadWaits \in Nat /\ MaxRestarts \in Nat

VARIABLES
    toRead,                 \* the receipts a pass still has to have read
    undo,                   \* the undo script's plan, of what it still has to write
    clicked,                \* history: receipts set with the recorder off while the plan had them
    restarts

booksVars == <<rows, overrides, decided, reviews, filing, monthVars, config, edits>>
passVars  == <<toRead, undo, clicked, restarts>>
vars      == <<booksVars, passVars>>

Init == BooksInit /\ toRead = {} /\ undo = {} /\ clicked = {} /\ restarts = 0

\* Every variable holds only values of its kind.
TypeOK ==
    /\ BooksTypeOK
    /\ toRead \subseteq Receipts /\ undo \subseteq Receipts /\ clicked \subseteq Receipts
    /\ restarts \in Nat

-----------------------------------------------------------------------------
\* monthsOpen(): the receipt's two months are neither closed nor due for close.
MonthsOpen(r) == \A m \in {rows[r].posted, rows[r].paper.month} : ~Locked(m) /\ m \notin due

\* candidates(): Pending, set by nobody, in open months, without a final verdict.
Candidates ==
    {r \in Filed : /\ rows[r].status = "Pending" /\ rows[r].by = "" /\ r \notin decided
                   /\ MonthsOpen(r)
                   /\ reviews[r].verdict \in {"none", "wait"}}

\* Mutant: only a Pending copy counts as one.
PendingTwinned(r) ==
    \E q \in Copies(rows[r].paper) \ {r} : rows[q].status = "Pending"

\* duplicateMemberIds(): another copy counts, and no copy was logged over a warning (that closes the group).
Twinned(r) ==
    LET copies == Copies(rows[r].paper) IN
    copies # {r} /\ \A o \in overrides : o[1] \notin copies

\* overrideNamedIds(): what a person logged over a warning, and what the warning named.
Overridden(r) == \E o \in overrides : r \in {o[1], o[2]}

\* A verdict that stays; its failed reads are not asked for again.
Final(review, verdict) == [review EXCEPT !.verdict = verdict, !.fails = 0]

\* A pass begins: it judges by the rules that need no read. Copies are held; others may be held, wait
\* for their fill, have to be read, or are passed over (another owner's, a Personal line).
PassBegins(hold, wait, read) ==
    /\ config.on /\ toRead = {}
    /\ closes["sweep"].months = {}
    /\ hold \cup wait \cup read \subseteq Candidates
    /\ hold \cap wait = {} /\ hold \cap read = {} /\ wait \cap read = {}
    /\ \A r \in wait \cup read : ~Twinned(r) /\ ~Overridden(r)
    /\ reviews' = [r \in Receipts |->
                     CASE r \in hold -> Final(reviews[r], "hold")
                       [] r \in wait -> [reviews[r] EXCEPT !.verdict = "wait"]
                       [] OTHER -> reviews[r]]
    /\ toRead' = read
    /\ UNCHANGED <<rows, overrides, decided, filing, monthVars, config, edits, undo, clicked, restarts>>

UpNext(r) == r \in toRead /\ \A q \in toRead : r <= q

\* A read is deferred (a cap, the deadline, no key), answers with something that holds the receipt, or fails.
ReadEnds(r, answer) ==
    LET fails == IF answer = "failed" THEN reviews[r].fails + 1 ELSE reviews[r].fails IN
    /\ UpNext(r)
    /\ toRead' = toRead \ {r}
    /\ reviews' = [reviews EXCEPT ![r] = IF answer = "held" \/ fails > MaxReadWaits THEN Final(@, "hold")
                                         ELSE [@ EXCEPT !.verdict = "wait", !.fails = fails]]
    /\ UNCHANGED <<rows, overrides, decided, filing, monthVars, config, edits, undo, clicked, restarts>>

\* Mutant: the approval trusts what the pass read at its start.
FreeAtStart(r) == TRUE

\* What apply() reads again inside its transaction.
StillFree(r) == MonthsOpen(r) /\ r \notin decided /\ rows[r].status = "Pending" /\ rows[r].by = ""

\* A read finds nothing against the receipt: the verdict is recorded, and applied if it still may be.
Approve(r) ==
    /\ UpNext(r)
    /\ toRead' = toRead \ {r}
    /\ IF StillFree(r)
       THEN /\ rows' = [rows EXCEPT ![r] = Stamped(@, "Approved", "pass")]
            /\ reviews' = [reviews EXCEPT ![r] = [Final(@, "approve") EXCEPT !.applied = TRUE]]
       ELSE /\ reviews' = [reviews EXCEPT ![r] = Final(@, "approve")]
            /\ UNCHANGED rows
    /\ UNCHANGED <<overrides, decided, filing, monthVars, config, edits, undo, clicked, restarts>>

\* The process dies, perhaps between a verdict's record and its application, and starts again.
Restart(s) ==
    /\ restarts < MaxRestarts /\ restarts' = restarts + 1
    /\ config' = s
    /\ toRead' = {} /\ filing' = [c \in Clients |-> NoFiling] /\ closes' = [c \in Closers |-> NoClose]
    /\ \/ UNCHANGED reviews
       \/ \E r \in toRead : UpNext(r) /\ reviews' = [reviews EXCEPT ![r] = Final(@, "approve")]
    /\ UNCHANGED <<rows, overrides, decided, locks, due, frozen, edits, undo, clicked>>

-----------------------------------------------------------------------------
\* undoPlan(): what the pass approved and nobody touched since.
Untouched ==
    {r \in Filed : /\ rows[r].status = "Approved" /\ rows[r].by = "pass"
                   /\ reviews[r].applied /\ ~reviews[r].undone
                   /\ r \notin decided /\ MonthsOpen(r)}

\* The script's refusals go by the clock and by its own shell: any time may be one it runs at. It
\* leaves out what changed otherwise, what is older than --since, and what it is stopped before.
UndoPlanned(rs) ==
    /\ undo = {} /\ rs # {} /\ rs \subseteq Untouched
    /\ undo' = rs /\ clicked' = {}
    /\ UNCHANGED <<booksVars, toRead, restarts>>

\* Mutant: the undo's write does not look at the stamp.
StatusKept(r) == MonthsOpen(r) /\ rows[r].status = "Approved"

\* What undoApply() reads again inside each transaction.
StillUntouched(r) == MonthsOpen(r) /\ rows[r].status = "Approved" /\ rows[r].by = "pass"

UndoWrites(r) ==
    /\ r \in undo
    /\ undo' = undo \ {r} /\ clicked' = clicked \ {r}
    /\ IF StillUntouched(r)
       THEN /\ rows' = [rows EXCEPT ![r] = Stamped(@, "Pending", "undo")]
            /\ reviews' = [reviews EXCEPT ![r].undone = TRUE]
       ELSE UNCHANGED <<rows, reviews>>
    /\ UNCHANGED <<overrides, decided, filing, monthVars, config, edits, toRead, restarts>>

-----------------------------------------------------------------------------
\* A step of the books, with the history of what it did to the plan's receipts.
BooksStep ==
    /\ Books
    /\ clicked' = IF config.recorder THEN clicked ELSE clicked \cup (undo \cap (decided' \ decided))
    /\ UNCHANGED <<toRead, undo, restarts>>

Pass ==
    \/ \E hold, wait, read \in SUBSET Receipts : PassBegins(hold, wait, read)
    \/ \E r \in Receipts, answer \in {"deferred", "held", "failed"} : ReadEnds(r, answer)
    \/ \E r \in Receipts : Approve(r)

Undo ==
    \/ \E rs \in SUBSET Receipts : UndoPlanned(rs)
    \/ \E r \in Receipts : UndoWrites(r)

Next == BooksStep \/ Pass \/ Undo \/ \E s \in Config : Restart(s)

Spec == Init /\ [][Next]_vars

-----------------------------------------------------------------------------
\* A copy is never approved behind a person's back: two receipts of one slip both stand approved by
\* the pass only if one of that slip was logged over the warning, though a receipt is judged on what
\* was there when its pass began, and two may be filed past the warning at once.
StandsByPass(r) == rows[r].status = "Approved" /\ rows[r].by = "pass" /\ r \notin decided

OneCopyStands ==
    \A r, q \in Receipts :
        r # q /\ StandsByPass(r) /\ StandsByPass(q) /\ rows[r].paper = rows[q].paper
            => \E o \in overrides : rows[o[1]].paper = rows[r].paper

\* The pass approves a receipt once at most, and never one a person decided or an undo took back,
\* nor one in a closed month or one due for close: over reads, restarts and switches.
ApprovesOnlyFree ==
    [][\A r \in Receipts : rows'[r].by = "pass" /\ rows[r].by # "pass" =>
          ~reviews[r].applied /\ r \notin decided /\ ~Locked(rows[r].posted) /\ rows[r].posted \notin due]_vars

\* The undo takes back only what the pass approved and nobody decided since: whatever people set
\* between its plan and its write, except with the recorder off (see the README).
UndoLeavesPeople ==
    [][\A r \in Receipts : rows'[r].by = "undo" /\ rows[r].by # "undo" =>
          rows[r].by = "pass" /\ (r \in decided => r \in clicked)]_vars
=============================================================================
