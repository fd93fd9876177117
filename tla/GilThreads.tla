----------------------------- MODULE GilThreads -----------------------------
(***************************************************************************)
(* Python threads that use pglib, each with a connection of its own, and   *)
(* the two locks they meet at: Python's GIL, which src/connection.cpp      *)
(* gives back around some calls of libpq and keeps during others, and a    *)
(* row of a table, which a transaction keeps until it ends.                *)
(*                                                                         *)
(* A method is one command or, for copy_from_csv, two: the COPY with its   *)
(* data, and PQputCopyEnd.  The interpreter and the backend are external.  *)
(***************************************************************************)
EXTENDS Naturals, Sequences

CONSTANTS Threads,
          Programs,   \* what a thread may do: sequences of commands
          Nobody

TxnMethods == {"begin", "commit", "rollback"}
Commands   == {"execute", "script", "copy", "copy end", "reset"}
              \cup TxnMethods

(* A "copy" without its end is a copy_from_csv whose source raises.        *)
ASSUME ProgramsAssumption ==
    /\ Programs \subseteq Seq(Commands) \ {<<>>}
    /\ \A p \in Programs : \A i \in 1..Len(p) :
         p[i] = "copy end" => i > 1 /\ p[i - 1] = "copy"
ASSUME NobodyAssumption == Nobody \notin Threads

VARIABLES
    todo,       \* the commands a thread has not finished
    pc,         \* python (between methods), libpq (in one), back (libpq
                \* returned), over
    gil,        \* the thread that has the GIL
    txn,        \* the transaction of its session: none, open, failed
    lock,       \* the thread whose session has the row
    copy,       \* its COPY: none, open (the backend has data to read), read
                \* (it has read them), ending (PQputCopyEnd was called, and
                \* it has data to read), done (libpq has not seen the end)
    room        \* whether the data of the COPY fit the socket's buffers

session == <<txn, lock, copy, room>>
vars    == <<todo, pc, gil, session>>

Command(t) == Head(todo[t])

---------------------------------------------------------------------------
(***************************************************************************)
(* The GIL                                                                 *)
(***************************************************************************)

TakeGil(t) ==
    /\ gil = Nobody
    /\ pc[t] \in {"python", "back"}
    /\ gil' = t
    /\ UNCHANGED <<todo, pc, session>>

(* The interpreter lets another thread run.                                *)
GiveGil(t) ==
    /\ gil = t
    /\ pc[t] = "python"
    /\ gil' = Nobody
    /\ UNCHANGED <<todo, pc, session>>

(* Mutant of Releases: internal_execute keeps the GIL too.                 *)
ReleasesLess(c) == c \in {"copy", "begin", "commit", "rollback"}

(* The calls of libpq between Py_BEGIN_ALLOW_THREADS and                   *)
(* Py_END_ALLOW_THREADS; script(), reset() and PQputCopyEnd are not.       *)
Releases(c) == c \in {"execute", "copy", "begin", "commit", "rollback"}

(* A method calls libpq.                                                   *)
Call(t) ==
    /\ gil = t
    /\ pc[t] = "python"
    /\ pc' = [pc EXCEPT ![t] = "libpq"]
    /\ gil' = IF Releases(Command(t)) THEN Nobody ELSE gil
    /\ UNCHANGED <<todo, session>>

(* What the thread has left; a COPY that was refused needs no end.         *)
Rest(t) ==
    IF Command(t) = "copy" /\ copy[t] = "none" /\ Len(todo[t]) > 1
       /\ todo[t][2] = "copy end"
    THEN Tail(Tail(todo[t])) ELSE Tail(todo[t])

(* Mutant of Dropped: Connection_dealloc forgets PQfinish.                 *)
Leaked(t) == UNCHANGED session

(* Connection_dealloc: the session ends, and with it its transaction.      *)
Dropped(t) ==
    /\ txn' = [txn EXCEPT ![t] = "none"]
    /\ lock' = IF lock = t THEN Nobody ELSE lock
    /\ copy' = [copy EXCEPT ![t] = "none"]
    /\ UNCHANGED room

(* Mutant of GilAfter: a thread that ends keeps the GIL.                   *)
GilKept(t) == t
GilAfter(t) == IF Rest(t) = <<>> THEN Nobody ELSE t

(* A method returns or raises, and the program goes on; after its last one *)
(* it drops the connection.                                                *)
Return(t) ==
    /\ gil = t
    /\ pc[t] = "back"
    /\ todo' = [todo EXCEPT ![t] = Rest(t)]
    /\ gil' = GilAfter(t)
    /\ IF Rest(t) = <<>>
       THEN pc' = [pc EXCEPT ![t] = "over"] /\ Dropped(t)
       ELSE pc' = [pc EXCEPT ![t] = "python"] /\ UNCHANGED session

---------------------------------------------------------------------------
(***************************************************************************)
(* libpq and the sessions                                                  *)
(***************************************************************************)

RowFree(t) == lock \in {Nobody, t}

InLibpq(t, commands) == pc[t] = "libpq" /\ Command(t) \in commands
Finish(t) == pc' = [pc EXCEPT ![t] = "back"] /\ UNCHANGED <<todo, gil>>

(* The row stays locked until the statement, or its transaction, ends.     *)
EndStatement(t) == lock' = IF txn[t] = "open" THEN t ELSE Nobody
LetGo(t) == lock' = IF lock = t THEN Nobody ELSE lock

(* begin(), commit() and rollback() look at PQtransactionStatus first: it  *)
(* is active as long as libpq has not seen the end of a COPY.  They raise, *)
(* or commit() and rollback() have nothing to do.                          *)
Accepted(t) == copy[t] = "none"
               /\ txn[t] = IF Command(t) = "begin" THEN "none" ELSE "open"
Refuses(t) ==
    /\ InLibpq(t, TxnMethods)
    /\ ~Accepted(t)
    /\ Finish(t)
    /\ UNCHANGED session

Transacts(t) ==
    /\ InLibpq(t, TxnMethods)
    /\ Accepted(t)
    /\ Finish(t)
    /\ IF Command(t) = "begin"
       THEN txn' = [txn EXCEPT ![t] = "open"] /\ UNCHANGED lock
       ELSE txn' = [txn EXCEPT ![t] = "none"] /\ LetGo(t)
    /\ UNCHANGED <<copy, room>>

(* Before a command PQexec takes what the last COPY left, and makes the    *)
(* backend fail one that has not ended.                                    *)
Drains(t) ==
    /\ InLibpq(t, {"execute", "script", "copy"})
    /\ copy[t] \in {"read", "done"}
    /\ copy' = [copy EXCEPT ![t] = "none"]
    /\ IF copy[t] = "read"
       THEN /\ LetGo(t)
            /\ txn' = [txn EXCEPT ![t] = IF @ = "open" THEN "failed" ELSE @]
       ELSE UNCHANGED <<lock, txn>>
    /\ UNCHANGED <<todo, pc, gil, room>>

(* A statement that writes the row; in a transaction that failed it is an  *)
(* error.                                                                  *)
Writes(t) ==
    /\ InLibpq(t, {"execute", "script"})
    /\ copy[t] = "none"
    /\ \/ txn[t] = "failed" /\ UNCHANGED lock
       \/ txn[t] # "failed" /\ RowFree(t) /\ EndStatement(t)
    /\ Finish(t)
    /\ UNCHANGED <<txn, copy, room>>

(* PQreset drops the session with all it has.                              *)
Resets(t) ==
    /\ InLibpq(t, {"reset"})
    /\ Finish(t)
    /\ Dropped(t)

(* The COPY is accepted, and its data are sent as far as there is room;    *)
(* PQputCopyData, which gives the GIL back, waits for the rest.            *)
CopyStarts(t) ==
    /\ InLibpq(t, {"copy"})
    /\ copy[t] = "none"
    /\ Finish(t)
    /\ IF txn[t] = "failed" THEN UNCHANGED <<copy, room>>
       ELSE /\ copy' = [copy EXCEPT ![t] = "open"]
            /\ \E fits \in BOOLEAN : room' = [room EXCEPT ![t] = fits]
    /\ UNCHANGED <<txn, lock>>

(* The backend reads the data, which it can only with the row.             *)
CopyReads(t) ==
    /\ copy[t] \in {"open", "ending"}
    /\ RowFree(t)
    /\ IF copy[t] = "open"
       THEN copy' = [copy EXCEPT ![t] = "read"] /\ lock' = t
       ELSE copy' = [copy EXCEPT ![t] = "done"] /\ EndStatement(t)
    /\ UNCHANGED <<todo, pc, gil, txn, room>>

(* PQputCopyEnd flushes what is left of the data.                          *)
CopyEnds(t) ==
    /\ InLibpq(t, {"copy end"})
    /\ \/ /\ copy[t] = "open" /\ room[t]
          /\ copy' = [copy EXCEPT ![t] = "ending"]
          /\ UNCHANGED lock
       \/ /\ copy[t] = "read"
          /\ copy' = [copy EXCEPT ![t] = "done"]
          /\ EndStatement(t)
    /\ Finish(t)
    /\ UNCHANGED <<txn, room>>

Works(t) == Refuses(t) \/ Transacts(t) \/ Drains(t) \/ Writes(t)
            \/ Resets(t) \/ CopyStarts(t) \/ CopyReads(t) \/ CopyEnds(t)

---------------------------------------------------------------------------
Init ==
    /\ todo \in [Threads -> Programs]
    /\ pc = [t \in Threads |-> "python"]
    /\ gil = Nobody
    /\ txn = [t \in Threads |-> "none"]
    /\ lock = Nobody
    /\ copy = [t \in Threads |-> "none"]
    /\ room = [t \in Threads |-> TRUE]

Next ==
    \E t \in Threads :
        TakeGil(t) \/ GiveGil(t) \/ Call(t) \/ Return(t) \/ Works(t)

(* A thread that waits for the GIL gets it some day (the interpreter takes *)
(* it from the others), one that runs comes to its next method, and the    *)
(* backend executes what it can.                                           *)
Fairness ==
    \A t \in Threads : /\ SF_vars(TakeGil(t)) /\ SF_vars(Call(t))
                       /\ WF_vars(Return(t)) /\ WF_vars(Works(t))

Spec == Init /\ [][Next]_vars
FairSpec == Spec /\ Fairness

---------------------------------------------------------------------------
(***************************************************************************)
(* Properties                                                              *)
(***************************************************************************)

TypeOK ==
    /\ todo \in [Threads -> Seq(Commands)]
    /\ pc \in [Threads -> {"python", "libpq", "back", "over"}]
    /\ gil \in {t \in Threads : pc[t] # "over"} \cup {Nobody}
    /\ txn \in [Threads -> {"none", "open", "failed"}]
    /\ lock \in Threads \cup {Nobody}
    /\ copy \in [Threads -> {"none", "open", "read", "ending", "done"}]
    /\ room \in [Threads -> BOOLEAN]

(* Nobody keeps the row for good: who has it is in a transaction, or in a  *)
(* COPY that has not ended, of a program that is not over.                 *)
RowComesBack ==
    \A t \in Threads : lock = t =>
        pc[t] # "over" /\ (txn[t] = "open" \/ copy[t] = "read")

(* A thread waits in libpq with the GIL, in script() or at the end of      *)
(* copy_from_csv(), for a row whose owner needs the GIL to let it go.      *)
NeedsRow(t) ==
    \/ InLibpq(t, {"script"}) /\ txn[t] # "failed"
    \/ InLibpq(t, {"copy end"}) /\ ~room[t]
Frozen ==
    \E t, u \in Threads : /\ gil = t /\ NeedsRow(t)
                         /\ lock = u /\ u # t
                         /\ pc[u] \in {"python", "back"}

(* Every program comes to its end, unless the whole process stands still   *)
(* because a thread waits with the GIL for a row whose owner waits for the *)
(* GIL.                                                                    *)
ProgramsEnd == \A t \in Threads : <>(pc[t] = "over" \/ []Frozen)
=============================================================================
