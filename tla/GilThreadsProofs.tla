-------------------------- MODULE GilThreadsProofs --------------------------
(***************************************************************************)
(* Proofs about GilThreads, for any set of threads and any programs.       *)
(***************************************************************************)
EXTENDS GilThreads, SequenceTheorems, TLAPS

---------------------------------------------------------------------------
(***************************************************************************)
(* The inductive invariant                                                 *)
(***************************************************************************)

(* A thread that is not over has a command left, which is the one it       *)
(* calls; of one that is over nothing is left in the backend.              *)
Unfinished == \A t \in Threads : pc[t] # "over" => todo[t] # <<>>
NothingLeft == \A t \in Threads : pc[t] = "over" => copy[t] = "none"

Inv == TypeOK /\ Unfinished /\ NothingLeft /\ RowComesBack

(* The parts of a session, with the types of TypeOK.                       *)
Types == /\ txn \in [Threads -> {"none", "open", "failed"}]
         /\ lock \in Threads \cup {Nobody}
         /\ copy \in [Threads -> {"none", "open", "read", "ending", "done"}]
         /\ room \in [Threads -> BOOLEAN]

(* The invariant holds when the threads start.                             *)
LEMMA InitInv == Init => Inv
<1> SUFFICES ASSUME Init
             PROVE  Inv
  OBVIOUS
<1>1. todo \in [Threads -> Seq(Commands)] /\ \A t \in Threads : todo[t] # <<>>
  BY ProgramsAssumption DEF Init
<1>2. TypeOK
  BY <1>1 DEF Init, TypeOK
<1>3. RowComesBack
  BY NobodyAssumption DEF Init, RowComesBack
<1> QED
  BY <1>1, <1>2, <1>3 DEF Init, Inv, Unfinished, NothingLeft

(* What is left of a program is a program, or nothing.                     *)
LEMMA RestIsSequence ==
    ASSUME Inv, NEW t \in Threads, pc[t] # "over"
    PROVE  Rest(t) \in Seq(Commands)
<1>1. todo[t] \in Seq(Commands) /\ todo[t] # <<>>
  BY DEF Inv, TypeOK, Unfinished
<1>2. Tail(todo[t]) \in Seq(Commands) /\ Len(Tail(todo[t])) = Len(todo[t]) - 1
  BY <1>1, HeadTailProperties
<1>3. ASSUME Len(todo[t]) > 1
      PROVE  Tail(Tail(todo[t])) \in Seq(Commands)
  <2>1. Tail(todo[t]) # <<>>
    BY <1>1, <1>2, <1>3, LenProperties, EmptySeq
  <2> QED
    BY <1>2, <2>1, HeadTailProperties
<1> QED
  BY <1>2, <1>3 DEF Rest

---------------------------------------------------------------------------
(***************************************************************************)
(* Methods                                                                 *)
(***************************************************************************)

(* Taking the GIL changes no session.                                      *)
LEMMA TakeGilKeeps ==
    ASSUME Inv, NEW t \in Threads, TakeGil(t)
    PROVE  Inv'
<1>1. pc[t] # "over"
  BY DEF TakeGil
<1> QED
  BY <1>1 DEF TakeGil, session, Inv, TypeOK, Unfinished, NothingLeft, RowComesBack

(* Calling libpq changes no session.                                       *)
LEMMA CallKeeps ==
    ASSUME Inv, NEW t \in Threads, Call(t)
    PROVE  Inv'
<1>1. /\ pc' = [pc EXCEPT ![t] = "libpq"] /\ pc[t] = "python"
      /\ gil' \in {gil, Nobody} /\ UNCHANGED <<todo, txn, lock, copy, room>>
  BY DEF Call, session
<1> QED
  BY <1>1 DEF Inv, TypeOK, Unfinished, NothingLeft, RowComesBack

(* The last command of a program ends its session.                         *)
LEMMA ReturnKeeps ==
    ASSUME Inv, NEW t \in Threads, Return(t)
    PROVE  Inv'
<1>1. Rest(t) \in Seq(Commands)
  BY RestIsSequence DEF Return
<1> DEFINE rest == Rest(t)
<1>2. todo' = [todo EXCEPT ![t] = rest] /\ pc[t] = "back" /\ gil = t
  BY DEF Return
<1>3. CASE rest = <<>>
  <2>1. /\ pc' = [pc EXCEPT ![t] = "over"] /\ gil' = Nobody
        /\ txn' = [txn EXCEPT ![t] = "none"]
        /\ lock' = IF lock = t THEN Nobody ELSE lock
        /\ copy' = [copy EXCEPT ![t] = "none"] /\ UNCHANGED room
    BY <1>3 DEF Return, GilAfter, Dropped
  <2> HIDE DEF rest
  <2>2. TypeOK'
    BY <1>1, <1>2, <2>1 DEF Inv, TypeOK, rest
  <2>3. RowComesBack'
    BY <2>1, NobodyAssumption DEF Inv, TypeOK, RowComesBack
  <2>4. Unfinished' /\ NothingLeft'
    BY <1>2, <2>1 DEF Inv, TypeOK, Unfinished, NothingLeft
  <2> QED
    BY <2>2, <2>3, <2>4 DEF Inv
<1>4. CASE rest # <<>>
  <2>1. /\ pc' = [pc EXCEPT ![t] = "python"] /\ gil' = t
        /\ UNCHANGED <<txn, lock, copy, room>>
    BY <1>4 DEF Return, GilAfter, session
  <2> HIDE DEF rest
  <2>2. TypeOK'
    BY <1>1, <1>2, <2>1 DEF Inv, TypeOK, rest
  <2>3. RowComesBack' /\ Unfinished' /\ NothingLeft'
    BY <1>2, <1>4, <2>1 DEF Inv, TypeOK, RowComesBack, Unfinished, NothingLeft
  <2> QED
    BY <2>2, <2>3 DEF Inv
<1> QED
  BY <1>3, <1>4

---------------------------------------------------------------------------
(***************************************************************************)
(* Steps of a session                                                      *)
(***************************************************************************)

(* A step of a session of thread t that ends its call of libpq, or is one  *)
(* of the backend alone, and after which t has the row for a reason and    *)
(* others as before.                                                       *)
LEMMA SessionKeeps ==
    ASSUME Inv, NEW t \in Threads, pc[t] # "over",
           UNCHANGED <<todo, gil>>,
           pc' \in {pc, [pc EXCEPT ![t] = "back"]},
           Types',
           \A u \in Threads \ {t} : txn'[u] = txn[u] /\ copy'[u] = copy[u],
           lock' \in {lock, Nobody, t},
           lock' = t => txn'[t] = "open" \/ copy'[t] = "read"
    PROVE  Inv'
<1>1. TypeOK'
  BY DEF Inv, TypeOK, Types
<1>2. Unfinished' /\ NothingLeft'
  BY DEF Inv, TypeOK, Unfinished, NothingLeft
<1>3. RowComesBack'
  BY NobodyAssumption DEF Inv, TypeOK, RowComesBack
<1> QED
  BY <1>1, <1>2, <1>3 DEF Inv

(* Whatever libpq and the backend do keeps the invariant.                  *)
LEMMA WorksKeeps ==
    ASSUME Inv, NEW t \in Threads, Works(t)
    PROVE  Inv'
<1> DEFINE Others == \A u \in Threads \ {t} : txn'[u] = txn[u] /\ copy'[u] = copy[u]
           Reason == lock' = t => txn'[t] = "open" \/ copy'[t] = "read"
<1> USE DEF Inv, TypeOK, Types, RowComesBack
<1>0. pc[t] # "over"
  BY DEF Works, InLibpq, Refuses, Transacts, Drains, Writes, Resets,
         CopyStarts, CopyReads, CopyEnds, NothingLeft
<1>1. CASE Refuses(t)
  BY <1>0, <1>1, SessionKeeps DEF Refuses, Finish, session
<1>2. CASE Transacts(t)
  <2>1. copy[t] = "none" /\ UNCHANGED <<copy, room, todo, gil>>
        /\ pc' = [pc EXCEPT ![t] = "back"]
    BY <1>2 DEF Transacts, Accepted, Finish
  <2>2. CASE Command(t) = "begin"
    <3>1. txn' = [txn EXCEPT ![t] = "open"] /\ UNCHANGED lock
      BY <1>2, <2>2 DEF Transacts
    <3>2. Types' /\ Others /\ Reason
      BY <2>1, <3>1
    <3> QED
      BY <1>0, <2>1, <3>1, <3>2, SessionKeeps
  <2>3. CASE Command(t) # "begin"
    <3>1. txn' = [txn EXCEPT ![t] = "none"]
          /\ lock' = IF lock = t THEN Nobody ELSE lock
      BY <1>2, <2>3 DEF Transacts, LetGo
    <3>2. Types' /\ Others /\ Reason
      BY <2>1, <3>1, NobodyAssumption
    <3> QED
      BY <1>0, <2>1, <3>1, <3>2, SessionKeeps
  <2> QED
    BY <2>2, <2>3
<1>3. CASE Drains(t)
  <2>1. /\ UNCHANGED <<room, todo, gil, pc>> /\ copy' = [copy EXCEPT ![t] = "none"]
        /\ \/ UNCHANGED <<txn, lock>> /\ copy[t] = "done"
           \/ /\ txn' = [txn EXCEPT ![t] = IF @ = "open" THEN "failed" ELSE @]
              /\ lock' = IF lock = t THEN Nobody ELSE lock
    BY <1>3 DEF Drains, LetGo
  <2>2. Types' /\ Others /\ Reason /\ lock' \in {lock, Nobody}
    BY <2>1, NobodyAssumption
  <2> QED
    BY <1>0, <2>1, <2>2, SessionKeeps
<1>4. CASE Writes(t)
  <2>1. /\ UNCHANGED <<txn, copy, room, todo, gil>>
        /\ pc' = [pc EXCEPT ![t] = "back"]
        /\ lock' \in {lock, IF txn[t] = "open" THEN t ELSE Nobody}
    BY <1>4 DEF Writes, Finish, EndStatement
  <2>2. Types' /\ Others /\ Reason /\ lock' \in {lock, Nobody, t}
    BY <2>1, NobodyAssumption
  <2> QED
    BY <1>0, <2>1, <2>2, SessionKeeps
<1>5. CASE Resets(t)
  BY <1>0, <1>5, SessionKeeps, NobodyAssumption DEF Resets, Finish, Dropped
<1>6. CASE CopyStarts(t)
  <2>1. /\ copy[t] = "none" /\ UNCHANGED <<txn, lock, todo, gil>>
        /\ pc' = [pc EXCEPT ![t] = "back"]
    BY <1>6 DEF CopyStarts, Finish
  <2>2. copy' \in {copy, [copy EXCEPT ![t] = "open"]} /\ room' \in [Threads -> BOOLEAN]
    BY <1>6 DEF CopyStarts
  <2>3. Types' /\ Others /\ Reason
    BY <2>1, <2>2
  <2> QED
    BY <1>0, <2>1, <2>3, SessionKeeps
<1>7. CASE CopyReads(t)
  <2>1. /\ UNCHANGED <<txn, room, todo, gil, pc>>
        /\ \/ copy' = [copy EXCEPT ![t] = "read"] /\ lock' = t
           \/ /\ copy' = [copy EXCEPT ![t] = "done"]
              /\ lock' = IF txn[t] = "open" THEN t ELSE Nobody
    BY <1>7 DEF CopyReads, EndStatement
  <2>2. Types' /\ Others /\ Reason /\ lock' \in {Nobody, t}
    BY <2>1, NobodyAssumption
  <2> QED
    BY <1>0, <2>1, <2>2, SessionKeeps
<1>8. CASE CopyEnds(t)
  <2>1. /\ UNCHANGED <<txn, room, todo, gil>> /\ pc' = [pc EXCEPT ![t] = "back"]
        /\ \/ /\ copy[t] = "open" /\ UNCHANGED lock
              /\ copy' = [copy EXCEPT ![t] = "ending"]
           \/ /\ copy' = [copy EXCEPT ![t] = "done"]
              /\ lock' = IF txn[t] = "open" THEN t ELSE Nobody
    BY <1>8 DEF CopyEnds, Finish, EndStatement
  <2>2. Types' /\ Others /\ Reason /\ lock' \in {lock, Nobody, t}
    BY <2>1, NobodyAssumption
  <2> QED
    BY <1>0, <2>1, <2>2, SessionKeeps
<1> QED
  BY <1>1, <1>2, <1>3, <1>4, <1>5, <1>6, <1>7, <1>8 DEF Works

(* Every step keeps the invariant.                                         *)
LEMMA StepInv == Inv /\ [Next]_vars => Inv'
<1> SUFFICES ASSUME Inv, [Next]_vars
             PROVE  Inv'
  OBVIOUS
<1>1. ASSUME NEW t \in Threads, TakeGil(t) PROVE Inv'
  BY <1>1, TakeGilKeeps
<1>2. ASSUME NEW t \in Threads, GiveGil(t) PROVE Inv'
  BY <1>2 DEF GiveGil, session, Inv, TypeOK, Unfinished, NothingLeft, RowComesBack
<1>3. ASSUME NEW t \in Threads, Call(t) PROVE Inv'
  BY <1>3, CallKeeps
<1>4. ASSUME NEW t \in Threads, Return(t) PROVE Inv'
  BY <1>4, ReturnKeeps
<1>5. ASSUME NEW t \in Threads, Works(t) PROVE Inv'
  BY <1>5, WorksKeeps
<1>6. CASE UNCHANGED vars
  BY <1>6 DEF vars, session, Inv, TypeOK, Unfinished, NothingLeft, RowComesBack
<1> QED
  BY <1>1, <1>2, <1>3, <1>4, <1>5, <1>6 DEF Next

---------------------------------------------------------------------------
(***************************************************************************)
(* The theorems                                                            *)
(***************************************************************************)

(* The invariant holds in every state.                                     *)
LEMMA Invariant == Spec => []Inv
BY InitInv, StepInv, PTL DEF Spec

(* Each variable has its type, and no thread that is over has the GIL.     *)
THEOREM ThreadsTypeCorrect == Spec => []TypeOK
<1>1. Inv => TypeOK
  BY DEF Inv
<1> QED
  BY <1>1, Invariant, PTL

(* Who has the row is in a transaction or a COPY, of a program that goes   *)
(* on: whatever methods the threads run, in any order, and wherever they   *)
(* stop, none keeps the row with nothing left that would let it go.        *)
THEOREM RowsComeBack == Spec => []RowComesBack
<1>1. Inv => RowComesBack
  BY DEF Inv
<1> QED
  BY <1>1, Invariant, PTL
=============================================================================
