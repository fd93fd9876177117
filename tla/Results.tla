------------------------------ MODULE Results ------------------------------
(***************************************************************************)
(* One PGresult of libpq, from the call that gets it to the last PQclear:  *)
(* ReturnResult, row(), scalar(), script(), copy_from_csv() and the        *)
(* transaction methods of src/connection.cpp, ResultHolder of              *)
(* src/pglib.h, SetResultError of src/errors.cpp, the result set of        *)
(* src/resultset.cpp and the rows of src/row.cpp.                          *)
(*                                                                         *)
(* A call runs alone up to its return, but each allocation on its way may  *)
(* fail.  Then the program iterates over the result set, with several      *)
(* loops that take turns as it likes, keeps rows, and drops what it has.   *)
(***************************************************************************)
EXTENDS Naturals, Sequences, FiniteSets

CONSTANTS Loops,       \* iterators the program has over the result set
          MaxRows,     \* rows of a result
          MaxKept,     \* rows the program keeps
          AllowNoMem   \* whether an allocation may fail

ASSUME ResultsAssumption ==
    /\ IsFiniteSet(Loops)
    /\ MaxRows \in Nat
    /\ MaxKept \in Nat
    /\ AllowNoMem \in BOOLEAN

TxnMethods  == {"begin", "commit", "rollback"}
RowMethods  == {"row", "scalar"}
PassMethods == {"execute", "notify", "_getResult"}   \* ReturnResult
Methods     == TxnMethods \cup RowMethods \cup PassMethods
               \cup {"script", "copy_from_csv"}

(* What libpq answers: rows, a command that is done, an empty query, a     *)
(* COPY that starts, an error of the backend, an error of libpq itself,    *)
(* which has no SQLSTATE, or no result at all.                             *)
Errors  == {"error", "libpq error"}
Answers == {"tuples", "command", "empty", "copy", "none"} \cup Errors
AnswersTo(m) ==
    CASE m \in TxnMethods     -> {"command", "none"} \cup Errors
      [] m = "copy_from_csv"  -> {"copy", "none"} \cup Errors
      [] m = "notify"         -> {"tuples", "none"} \cup Errors
      [] OTHER                -> Answers

VARIABLES
    \* ---- the call
    method,     \* the method called
    answer,     \* what PQexec, PQexecParams or PQgetResult returned
    readable,   \* which of its rows can be decoded, one by one
    pc,         \* where the call is
    holder,     \* whether its ResultHolder has the result
    returned,   \* what it returns: nothing yet, None (or a count), the
                \* result set, a row or value, NULL
    exc,        \* the Python exception it set
    nomem,      \* whether an allocation failed in it
    clears,     \* how often the result was given to PQclear
    \* ---- the result set
    set,        \* none, alive, freed
    refs,       \* its reference count
    colRefs,    \* the reference count of its tuple of column names
    cursor,     \* cFetched
    \* ---- the program
    mine,       \* whether a variable of it holds the result set
    loop,       \* where each loop is: off, on, over (StopIteration), left
    disturbed,  \* whether another loop moved the cursor meanwhile
    got,        \* the rows each loop was given before that
    errors,     \* the rows that it could not be given
    kept        \* rows the program keeps

result == <<answer, readable>>
ended  == <<returned, exc>>
rset   == <<set, refs, colRefs, cursor, clears>>
loops  == <<loop, got, errors, disturbed>>
held   == <<mine, kept>>
vars   == <<method, result, pc, holder, ended, nomem, rset, loops, held>>

Rows   == Len(readable)

---------------------------------------------------------------------------
(***************************************************************************)
(* The call                                                                *)
(***************************************************************************)

Leave(value, how) == /\ pc' = "leave"
                     /\ returned' = value
                     /\ exc' = how

(* A method decides by PQresultStatus what becomes of the result.          *)
Wanted == IF method \in RowMethods THEN answer = "tuples" /\ Rows = 1
                                   ELSE answer = "tuples"

(* Without a result script() and copy_from_csv() return NULL and set no    *)
(* exception; internal_execute does, and the end of the results of an      *)
(* asynchronous command is one; PQresultStatus makes it an error for the   *)
(* transaction methods.                                                    *)
NoResult ==
    /\ answer = "none"
    /\ method \notin TxnMethods
    /\ Leave("NULL", CASE method \in {"script", "copy_from_csv"} -> "none"
                       [] method = "_getResult" -> "StopIteration"
                       [] OTHER -> "Error")
    /\ UNCHANGED holder

(* The answer is good, and it holds nothing the caller is given.           *)
NothingToReturn ==
    /\ \/ answer \in {"command", "empty", "copy"} /\ method \notin RowMethods
       \/ answer = "tuples" /\ method = "script"
       \/ answer = "tuples" /\ method \in RowMethods /\ Rows = 0
    /\ Leave("None", "none")
    /\ UNCHANGED holder

(* A COPY goes on after its first result, and may fail: see SyncConnection.*)
CopyFails ==
    /\ answer = "copy" /\ method = "copy_from_csv"
    /\ Leave("NULL", "Error")
    /\ UNCHANGED holder

(* row() and scalar() want a query with one row.                           *)
WrongShape ==
    /\ method \in RowMethods
    /\ \/ answer \in {"command", "empty", "copy"}
       \/ answer = "tuples" /\ Rows > 1
    /\ Leave("NULL", "Error")
    /\ UNCHANGED holder

(* Mutant of DetachesForSet: ReturnResult keeps the result it passes on.   *)
NeverDetaches == FALSE
(* ReturnResult gives the result away before ResultSet_New; row() does so  *)
(* after it.                                                               *)
DetachesForSet == method \in PassMethods

ToResultSet ==
    /\ Wanted
    /\ method \in PassMethods \cup {"row"}
    /\ pc' = "new set"
    /\ holder' = (holder /\ ~DetachesForSet)
    /\ UNCHANGED ended

ToValue ==
    /\ Wanted
    /\ method = "scalar"
    /\ pc' = "value"
    /\ UNCHANGED <<holder, ended>>

(* The transaction methods give SetResultError the result and keep it too. *)
ToError ==
    /\ answer \in Errors \/ (answer = "none" /\ method \in TxnMethods)
    /\ pc' = "error"
    /\ holder' = (holder /\ method \in TxnMethods)
    /\ UNCHANGED ended

Judge ==
    /\ pc = "judge"
    /\ \/ NoResult \/ NothingToReturn \/ CopyFails \/ WrongShape
       \/ ToResultSet \/ ToValue \/ ToError
    /\ UNCHANGED <<method, result, nomem, rset, loops, held>>

(* PQclear; a null pointer is ignored.                                     *)
Clear == clears' = IF answer = "none" THEN clears ELSE clears + 1

(* Mutants of ErrorOf: a missing SQLSTATE is no reason to set an           *)
(* exception, or gives an Error like any other.                            *)
SilentError(short) == IF short THEN "MemoryError"
                      ELSE IF answer = "error" THEN "Error" ELSE "none"
PlainError(short) == IF short THEN "MemoryError" ELSE "Error"

ErrorOf(short) == IF answer = "error" /\ ~short THEN "Error"
                                                ELSE "MemoryError"

(* SetResultError: an exception with the SQLSTATE, or what went wrong in   *)
(* making it; the result is cleared in any case.                           *)
RaiseResult(short) ==
    /\ pc = "error"
    /\ short => AllowNoMem
    /\ nomem' = short
    /\ Leave("NULL", ErrorOf(short))
    /\ Clear
    /\ UNCHANGED <<method, result, holder, set, refs, colRefs, cursor, loops,
                   held>>

(* ResultSet_New.                                                          *)
MakeSet ==
    /\ pc = "new set"
    /\ set' = "alive" /\ refs' = 1 /\ colRefs' = 1 /\ cursor' = 0
    /\ IF method = "row"
       THEN /\ pc' = "value"
            /\ holder' = FALSE                    \* result.Detach()
            /\ UNCHANGED <<ended, mine>>
       ELSE /\ Leave("set", "none")
            /\ mine' = TRUE
            /\ UNCHANGED holder
    /\ UNCHANGED <<method, result, nomem, clears, loops, kept>>

(* Without memory for the object, its formats or its columns, the result   *)
(* is cleared, by ResultSet_New or with the set it drops.                  *)
MakeSetFails ==
    /\ pc = "new set"
    /\ AllowNoMem
    /\ nomem' = TRUE
    /\ Leave("NULL", "MemoryError")
    /\ Clear
    /\ UNCHANGED <<method, result, holder, set, refs, colRefs, cursor, loops,
                   held>>

(* The one value of scalar(), or the Row of row(), is made; row() then     *)
(* drops its result set.  The caller gets the Row.                         *)
MakeValue(ok) ==
    /\ pc = "value"
    /\ ok => readable[1]
    /\ ~ok /\ readable[1] => AllowNoMem
    /\ nomem' = (~ok /\ readable[1])
    /\ IF ok THEN Leave("value", "none")
       ELSE Leave("NULL", IF readable[1] THEN "MemoryError"
                                         ELSE "conversion error")
    /\ IF method = "row"
       THEN /\ set' = "freed" /\ refs' = 0
            /\ colRefs' = IF ok THEN 1 ELSE 0
            /\ kept' = IF ok THEN 1 ELSE 0
            /\ Clear
       ELSE UNCHANGED <<set, refs, colRefs, kept, clears>>
    /\ UNCHANGED <<method, result, holder, cursor, loops, mine>>

(* The destructor of ResultHolder.                                         *)
Unwind ==
    /\ pc = "leave"
    /\ pc' = "over"
    /\ holder' = FALSE
    /\ IF holder THEN Clear ELSE UNCHANGED clears
    /\ UNCHANGED <<method, result, ended, nomem, set, refs, colRefs, cursor,
                   loops, held>>

---------------------------------------------------------------------------
(***************************************************************************)
(* Result sets and rows                                                    *)
(***************************************************************************)

(* Py_DECREF of the set; the last one frees it: ResultSet_dealloc.         *)
Release ==
    /\ refs' = refs - 1
    /\ IF refs = 1
       THEN set' = "freed" /\ colRefs' = colRefs - 1 /\ Clear
       ELSE UNCHANGED <<set, colRefs, clears>>

(* Whether the cursor of loop k moves under it when loop l uses the set.   *)
Disturbs(l, k) == k # l /\ (disturbed[k] \/ loop[k] = "on")

(* Mutants of IterRefs: ResultSet_iter returns the set without a reference *)
(* for the loop; of IterCursor: it goes on where the last loop stopped.    *)
BorrowedRefs == refs
KeepCursor   == cursor
IterRefs     == refs + 1
IterCursor   == 0

(* `for row in rset': ResultSet_iter.  The set is its own iterator.        *)
StartLoop(l) ==
    /\ pc = "over" /\ mine
    /\ loop[l] # "on"
    /\ loop' = [loop EXCEPT ![l] = "on"]
    /\ got' = [got EXCEPT ![l] = <<>>]
    /\ errors' = [errors EXCEPT ![l] = {}]
    /\ refs' = IterRefs
    /\ cursor' = IterCursor
    /\ disturbed' = [k \in Loops |-> Disturbs(l, k)]
    /\ UNCHANGED <<method, result, pc, holder, ended, nomem, set, colRefs,
                   clears, held>>

(* Mutant of Advance: the cursor stays on a row that cannot be decoded.    *)
AdvanceIfRead == IF readable[cursor + 1] THEN cursor + 1 ELSE cursor
Advance == cursor + 1

(* ResultSet_iternext with a row left: the cursor moves, whether Row_New   *)
(* makes the Row or not.                                                   *)
NextRow(l) ==
    /\ pc = "over"
    /\ loop[l] = "on"
    /\ cursor < Rows
    /\ cursor' = Advance
    /\ disturbed' = [k \in Loops |-> disturbed[k] \/ Disturbs(l, k)]
    /\ IF disturbed[l] THEN UNCHANGED <<got, errors>>
       ELSE IF readable[cursor + 1]
       THEN got' = [got EXCEPT ![l] = Append(@, cursor + 1)] /\ UNCHANGED errors
       ELSE /\ errors' = [errors EXCEPT ![l] = @ \cup {cursor + 1}]
            /\ UNCHANGED got
    /\ UNCHANGED <<method, result, pc, holder, ended, nomem, set, refs,
                   colRefs, clears, loop, held>>

(* ResultSet_iternext at the end, or a program that breaks out of its      *)
(* loop, for an exception or its own reasons.                              *)
EndLoop(l, how) ==
    /\ pc = "over"
    /\ loop[l] = "on"
    /\ how = "over" => cursor >= Rows
    /\ loop' = [loop EXCEPT ![l] = how]
    /\ Release
    /\ UNCHANGED <<method, result, pc, holder, ended, nomem, cursor, got,
                   errors, disturbed, held>>

(* Mutant of RowColumns: a Row borrows the names of its columns.           *)
BorrowedColumns == colRefs
RowColumns == colRefs + 1

(* rset[i], or a row of a loop, that the program keeps: Row_New.           *)
KeepRow(i) ==
    /\ pc = "over"
    /\ mine \/ \E l \in Loops : loop[l] = "on"
    /\ i \in 1..Rows /\ readable[i]
    /\ kept < MaxKept
    /\ kept' = kept + 1
    /\ colRefs' = RowColumns
    /\ UNCHANGED <<method, result, pc, holder, ended, nomem, set, refs,
                   cursor, clears, loops, mine>>

DropRow ==
    /\ pc = "over"
    /\ kept > 0
    /\ kept' = kept - 1
    /\ colRefs' = colRefs - 1
    /\ UNCHANGED <<method, result, pc, holder, ended, nomem, set, refs,
                   cursor, clears, loops, mine>>

DropSet ==
    /\ pc = "over"
    /\ mine
    /\ mine' = FALSE
    /\ Release
    /\ UNCHANGED <<method, result, pc, holder, ended, nomem, cursor, loops,
                   kept>>

---------------------------------------------------------------------------
Init ==
    /\ method \in Methods
    /\ answer \in AnswersTo(method)
    /\ readable \in IF answer = "tuples"
                    THEN UNION {[1..n -> BOOLEAN] : n \in 0..MaxRows}
                    ELSE {<<>>}
    /\ pc = "judge"
    /\ holder = (answer # "none")
    /\ returned = "nothing" /\ exc = "none" /\ nomem = FALSE
    /\ clears = 0
    /\ set = "none" /\ refs = 0 /\ colRefs = 0 /\ cursor = 0
    /\ mine = FALSE /\ kept = 0
    /\ loop = [l \in Loops |-> "off"]
    /\ got = [l \in Loops |-> <<>>]
    /\ errors = [l \in Loops |-> {}]
    /\ disturbed = [l \in Loops |-> FALSE]

Call ==
    \/ Judge
    \/ \E short \in BOOLEAN : RaiseResult(short)
    \/ MakeSet \/ MakeSetFails
    \/ \E ok \in BOOLEAN : MakeValue(ok)
    \/ Unwind

Begins == \E l \in Loops : StartLoop(l)

(* What a loop does as long as its program stays in it.                    *)
Goes(l) == NextRow(l) \/ EndLoop(l, "over")

(* The program has dropped what it was given.                              *)
Terminating == pc = "over" /\ ~mine /\ UNCHANGED vars

Next ==
    \/ Call
    \/ Begins
    \/ \E l \in Loops : Goes(l) \/ EndLoop(l, "left")
    \/ \E i \in 1..MaxRows : KeepRow(i)
    \/ DropRow \/ DropSet
    \/ Terminating

(* A call runs to its end, and a program that is in a loop goes on in it.  *)
Fairness == WF_vars(Call) /\ \A l \in Loops : WF_vars(Goes(l))

Spec == Init /\ [][Next]_vars
FairSpec == Spec /\ Fairness

---------------------------------------------------------------------------
(***************************************************************************)
(* Properties                                                              *)
(***************************************************************************)

CallTypes ==
    /\ method \in Methods
    /\ answer \in Answers
    /\ readable \in UNION {[1..n -> BOOLEAN] : n \in 0..MaxRows}
    /\ pc \in {"judge", "error", "new set", "value", "leave", "over"}
    /\ holder \in BOOLEAN
    /\ returned \in {"nothing", "None", "set", "value", "NULL"}
    /\ exc \in {"none", "Error", "MemoryError", "StopIteration",
                "conversion error"}
    /\ nomem \in BOOLEAN
    /\ clears \in Nat

SetTypes ==
    /\ set \in {"none", "alive", "freed"}
    /\ refs \in Nat /\ colRefs \in Nat
    /\ cursor \in 0..MaxRows
    /\ mine \in BOOLEAN /\ kept \in Nat
    /\ loop \in [Loops -> {"off", "on", "over", "left"}]
    /\ got \in [Loops -> Seq(1..MaxRows)]
    /\ errors \in [Loops -> SUBSET (1..MaxRows)]
    /\ disturbed \in [Loops -> BOOLEAN]

TypeOK == CallTypes /\ SetTypes

(* The code clears a result twice in two places: begin(), commit() and     *)
(* rollback() keep the result they give to SetResultError, and row() keeps *)
(* the one it gives to a ResultSet_New that fails.                         *)
KeptAndGiven == \/ method \in TxnMethods /\ answer \in Errors
                \/ method = "row" /\ Wanted /\ set = "none"

(* When nobody has it any more a result was cleared, and not before; once, *)
(* but for the two places where it is kept and given away.                 *)
ClearedOnce ==
    pc = "over" =>
        clears = IF answer = "none" \/ set = "alive" THEN 0
                 ELSE IF KeptAndGiven THEN 2 ELSE 1

(* The program and its loops never hold a result set that was freed, or    *)
(* whose result was cleared, its rows keep the names of their columns, and *)
(* what nobody holds is freed.                                             *)
InUse == mine \/ \E l \in Loops : loop[l] = "on"
HeldIsAlive ==
    pc = "over" =>
        /\ InUse <=> set = "alive"
        /\ InUse => clears = 0
        /\ InUse \/ kept > 0 <=> colRefs > 0

(* A call that returns NULL has set an exception, and only then; but       *)
(* script() and copy_from_csv() set none when PQexec gives them no result  *)
(* (Python makes a SystemError of that).  "The error class raised for all  *)
(* errors" (api.rst): an error is reported as MemoryError, though there is *)
(* memory, when libpq made it itself, for a lost connection or a session   *)
(* that ended, and only then.                                              *)
Silent == method \in {"script", "copy_from_csv"} /\ answer = "none"
ExceptionsTell ==
    pc = "over" =>
        /\ returned = "NULL" <=> exc # "none" \/ Silent
        /\ exc = "MemoryError" <=>
            \/ nomem
            \/ answer = "libpq error" /\ returned = "NULL"
            \/ answer = "none" /\ method \in TxnMethods

(* Loop l was given those of the first n rows that can be decoded, each    *)
(* once and in order, and told of the others.                              *)
Yielded(l, n) ==
    /\ \A i, j \in DOMAIN got[l] : i < j => got[l][i] < got[l][j]
    /\ {got[l][i] : i \in DOMAIN got[l]} = {i \in 1..n : readable[i]}
    /\ errors[l] = {i \in 1..n : ~readable[i]}

(* "result sets can be iterated over multiple times" (quick-start.rst), "but *)
(* not at the same time" (resultset.cpp): a loop that is over, and that no *)
(* other loop disturbed, was given each row once and in order, and was     *)
(* told of each one that cannot be decoded.                                *)
LoopYieldsAll ==
    \A l \in Loops : loop[l] = "over" /\ ~disturbed[l] => Yielded(l, Rows)

(* A loop ends, also one that goes on after a row that cannot be decoded;  *)
(* only starting loops over the same result set again and again keeps it   *)
(* from that.                                                              *)
LoopsEnd ==
    (<>[][~Begins]_vars) => \A l \in Loops : loop[l] = "on" ~> loop[l] # "on"

=============================================================================
