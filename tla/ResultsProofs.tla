---------------------------- MODULE ResultsProofs ----------------------------
(***************************************************************************)
(* Proofs about Results, for any number of loops, rows and kept rows.      *)
(***************************************************************************)
EXTENDS Results, FiniteSetTheorems, SequenceTheorems, TLAPS

---------------------------------------------------------------------------
(***************************************************************************)
(* The inductive invariant                                                 *)
(***************************************************************************)

One(b) == IF b THEN 1 ELSE 0
On == {l \in Loops : loop[l] = "on"}

(* The program has nothing before the call has made its value.             *)
Before == pc \in {"judge", "error", "new set", "value"}
NothingYet ==
    /\ Before => clears = 0 /\ ~mine /\ kept = 0 /\ ~nomem
    /\ pc # "over" => On = {}
    /\ pc \in {"judge", "error", "new set"} =>
           set = "none" /\ refs = 0 /\ colRefs = 0

(* Which results the holder has, and which answers lead where.             *)
HolderHas ==
    /\ pc = "judge" => holder = (answer # "none")
    /\ pc = "error" =>
           /\ answer \in Errors \/ (answer = "none" /\ method \in TxnMethods)
           /\ holder = (answer # "none" /\ method \in TxnMethods)
    /\ pc = "new set" => /\ Wanted /\ method \in PassMethods \cup {"row"}
                         /\ holder = (method = "row")
    /\ pc = "value" =>
           /\ Wanted /\ method \in RowMethods
           /\ holder = (method = "scalar")
           /\ method = "row" => set = "alive" /\ refs = 1 /\ colRefs = 1
           /\ method = "scalar" => set = "none" /\ refs = 0 /\ colRefs = 0
    /\ pc = "over" => ~holder

(* What is cleared, and what is still to be, makes up what ClearedOnce     *)
(* says; a set has a reference for the program and one for each loop, and  *)
(* the names of its columns one for it and for each row.                   *)
Settled == pc \in {"leave", "over"}
Total == IF answer = "none" \/ set = "alive" THEN 0
         ELSE IF KeptAndGiven THEN 2 ELSE 1
Counted ==
    Settled =>
        /\ clears + One(holder) = Total
        /\ refs = One(mine) + Cardinality(On)
        /\ colRefs = kept + One(set = "alive")
        /\ set = "alive" <=> mine \/ On # {}
        /\ set = "alive" => method \in PassMethods /\ answer = "tuples"

(* What ExceptionsTell says, from the moment the call leaves.              *)
Told ==
    Settled =>
        /\ returned = "NULL" <=> exc # "none" \/ Silent
        /\ exc = "MemoryError" <=>
            \/ nomem
            \/ answer = "libpq error" /\ returned = "NULL"
            \/ answer = "none" /\ method \in TxnMethods

Inv == TypeOK /\ NothingYet /\ HolderHas /\ Counted /\ Told

(* A result has no more rows than the bound.                               *)
LEMMA RowsBounded ==
    ASSUME CallTypes
    PROVE  Rows \in 0..MaxRows
<1>1. PICK n \in 0..MaxRows : readable \in [1..n -> BOOLEAN]
  BY DEF CallTypes
<1>2. n \in Nat
  BY <1>1, ResultsAssumption
<1>3. Len(readable) = n
  BY <1>1, <1>2
<1> QED
  BY <1>1, <1>3 DEF Rows

(* Loops that are on are finitely many, one more when one starts and one   *)
(* less when it ends.                                                      *)
LEMMA OnFinite == IsFiniteSet(On) /\ Cardinality(On) \in Nat
<1>1. On \in SUBSET Loops
  BY DEF On
<1> QED
  BY <1>1, ResultsAssumption, FS_Subset, FS_CardinalityType

(* A loop that starts is one more in On.                                   *)
LEMMA OneMoreOn ==
    ASSUME loop \in [Loops -> {"off", "on", "over", "left"}],
           NEW l \in Loops, loop[l] # "on", loop' = [loop EXCEPT ![l] = "on"]
    PROVE  On' # {} /\ Cardinality(On') = Cardinality(On) + 1
<1>1. On' = On \cup {l} /\ l \notin On
  BY DEF On
<1> QED
  BY <1>1, OnFinite, FS_AddElement

(* A loop that ends is one less in On.                                     *)
LEMMA OneLessOn ==
    ASSUME loop \in [Loops -> {"off", "on", "over", "left"}],
           NEW l \in Loops, loop[l] = "on",
           NEW how \in {"over", "left"}, loop' = [loop EXCEPT ![l] = how]
    PROVE  /\ On # {} /\ Cardinality(On) > 0
           /\ Cardinality(On') = Cardinality(On) - 1
           /\ On' = {} <=> Cardinality(On) = 1
<1>1. On' = On \ {l} /\ l \in On
  BY DEF On
<1>2. IsFiniteSet(On') /\ Cardinality(On') = Cardinality(On) - 1
  BY <1>1, OnFinite, FS_RemoveElement
<1>3. Cardinality(On) > 0
  BY <1>1, OnFinite, FS_EmptySet
<1>4. On' = {} <=> Cardinality(On') = 0
  BY <1>2, FS_EmptySet
<1> QED
  BY <1>1, <1>2, <1>3, <1>4, OnFinite

(* The invariant holds at the call.                                        *)
LEMMA InitInv == Init => Inv
<1> SUFFICES ASSUME Init
             PROVE  Inv
  OBVIOUS
<1>1. readable \in UNION {[1..n -> BOOLEAN] : n \in 0..MaxRows}
  <2>1. CASE answer = "tuples"
    BY <2>1 DEF Init
  <2>2. CASE answer # "tuples"
    <3>1. 0 \in 0..MaxRows
      BY ResultsAssumption
    <3>2. readable \in [1..0 -> BOOLEAN]
      BY <2>2 DEF Init
    <3> QED
      BY <3>1, <3>2
  <2> QED
    BY <2>1, <2>2
<1>2. answer \in Answers
  BY DEF Init, AnswersTo, Answers, Errors
<1>3. CallTypes
  BY <1>1, <1>2 DEF Init, CallTypes
<1>4. SetTypes
  <2>1. 0 \in 0..MaxRows
    BY ResultsAssumption
  <2>2. <<>> \in Seq(1..MaxRows) /\ {} \in SUBSET (1..MaxRows)
    BY EmptySeq
  <2> QED
    BY <2>1, <2>2 DEF Init, SetTypes
<1>5. On = {}
  BY DEF Init, On
<1> QED
  BY <1>3, <1>4, <1>5
     DEF Init, Inv, TypeOK, NothingYet, HolderHas, Counted, Told, Settled

---------------------------------------------------------------------------
(***************************************************************************)
(* The call                                                                *)
(***************************************************************************)

(* A step of the call that leaves loops, rows and cursor alone.            *)
LEMMA OnSame ==
    ASSUME UNCHANGED loop
    PROVE  On' = On
BY DEF On

(* Every way a method judges its result keeps the invariant.               *)
LEMMA JudgeKeeps ==
    ASSUME Inv, Judge
    PROVE  Inv'
<1>0. /\ UNCHANGED <<method, answer, readable, nomem, set, refs, colRefs, cursor,
                     clears, loop, got, errors, disturbed, mine, kept>>
      /\ pc = "judge" /\ clears = 0 /\ ~mine /\ kept = 0 /\ ~nomem /\ On = {}
      /\ set = "none" /\ refs = 0 /\ colRefs = 0 /\ holder = (answer # "none")
      /\ Cardinality(On) = 0 /\ On' = On
  BY OnSame, FS_EmptySet
     DEF Judge, result, rset, loops, held, Inv, NothingYet, HolderHas, Before
<1>1. SetTypes'
  BY <1>0 DEF Inv, TypeOK, SetTypes
<1>2. Wanted' = Wanted /\ KeptAndGiven' = KeptAndGiven /\ Silent' = Silent
  BY <1>0 DEF Wanted, KeptAndGiven, Silent, Rows
<1> DEFINE Leaving == NoResult \/ NothingToReturn \/ CopyFails \/ WrongShape
<1>3. CASE Leaving
  <2>1. /\ pc' = "leave" /\ UNCHANGED holder
        /\ returned' \in {"None", "NULL"}
        /\ exc' \in {"none", "StopIteration", "Error"}
        /\ returned' = "NULL" <=> exc' # "none" \/ Silent
        /\ answer \notin Errors /\ ~KeptAndGiven
        /\ ~(answer = "none" /\ method \in TxnMethods)
    <3> DEFINE Gone == pc' = "leave" /\ UNCHANGED holder
               Fine == returned' = "None" /\ exc' = "none"
               Bad == returned' = "NULL" /\ exc' \in {"StopIteration", "Error"}
               Mute == returned' = "NULL" /\ exc' = "none"
               Plain == answer \in {"command", "empty", "copy", "tuples"}
    <3>1. CASE NoResult
      <4>1. Gone /\ answer = "none" /\ method \notin TxnMethods
        BY <3>1 DEF NoResult, Leave
      <4>2. IF method \in {"script", "copy_from_csv"} THEN Mute ELSE Bad
        BY <3>1 DEF NoResult, Leave
      <4>3. answer \notin Errors /\ ~KeptAndGiven
        BY <4>1 DEF Errors, KeptAndGiven, Wanted, RowMethods
      <4>4. Silent <=> method \in {"script", "copy_from_csv"}
        BY <4>1 DEF Silent
      <4> QED
        BY <4>1, <4>2, <4>3, <4>4
    <3>2. CASE NothingToReturn
      <4>1. Gone /\ Fine /\ Plain
        BY <3>2 DEF NothingToReturn, Leave
      <4>2. ~(method = "row" /\ Wanted)
        BY <3>2 DEF NothingToReturn, Wanted, RowMethods
      <4>3. answer \notin Errors /\ ~KeptAndGiven /\ ~Silent
        BY <4>1, <4>2 DEF Errors, KeptAndGiven, Silent
      <4> QED
        BY <4>1, <4>3
    <3>3. CASE CopyFails
      <4>1. Gone /\ Bad /\ Plain /\ method = "copy_from_csv"
        BY <3>3 DEF CopyFails, Leave
      <4>2. answer \notin Errors /\ ~KeptAndGiven /\ ~Silent
        BY <4>1 DEF Errors, KeptAndGiven, Silent, TxnMethods
      <4> QED
        BY <4>1, <4>2
    <3>4. CASE WrongShape
      <4>1. Gone /\ Bad /\ Plain /\ method \in RowMethods
        BY <3>4 DEF WrongShape, Leave
      <4>2. Rows \in Nat
        BY RowsBounded, ResultsAssumption DEF Inv, TypeOK
      <4>3. ~Wanted
        BY <3>4, <4>1, <4>2 DEF WrongShape, Wanted
      <4>4. answer \notin Errors /\ ~KeptAndGiven /\ ~Silent
        BY <4>1, <4>3 DEF Errors, KeptAndGiven, Silent, TxnMethods, RowMethods
      <4> QED
        BY <4>1, <4>4
    <3> QED
      BY <1>3, <3>1, <3>2, <3>3, <3>4
  <2>2. CallTypes'
    BY <1>0, <2>1 DEF Inv, TypeOK, CallTypes
  <2>3. Counted'
    <3>1. Total' = IF answer = "none" THEN 0 ELSE 1
      BY <1>0, <1>2, <2>1 DEF Total
    <3>2. One(holder') = IF answer = "none" THEN 0 ELSE 1
      BY <1>0, <2>1 DEF One
    <3>3. clears' + One(holder') = Total'
      BY <1>0, <3>1, <3>2
    <3>4. One(mine') = 0 /\ One(set' = "alive") = 0
      BY <1>0 DEF One
    <3> QED
      BY <1>0, <3>3, <3>4 DEF Counted
  <2>4. Told'
    BY <1>0, <1>2, <2>1 DEF Told, Settled, Errors
  <2> QED
    BY <1>0, <1>1, <2>1, <2>2, <2>3, <2>4
       DEF Inv, TypeOK, NothingYet, HolderHas, Before
<1>4. CASE ToResultSet
  <2>1. /\ pc' = "new set" /\ Wanted /\ method \in PassMethods \cup {"row"}
        /\ holder' = (holder /\ ~(method \in PassMethods))
        /\ UNCHANGED <<returned, exc>>
    BY <1>4 DEF ToResultSet, ended, DetachesForSet
  <2>2. answer = "tuples"
    BY <2>1 DEF Wanted
  <2>3. holder' = (method = "row")
    BY <1>0, <2>1, <2>2 DEF PassMethods
  <2>4. CallTypes'
    BY <1>0, <2>1 DEF Inv, TypeOK, CallTypes
  <2> QED
    BY <1>0, <1>1, <1>2, <2>1, <2>3, <2>4
       DEF Inv, TypeOK, NothingYet, HolderHas, Before, Counted, Told, Settled
<1>5. CASE ToValue
  <2>1. /\ pc' = "value" /\ Wanted /\ method = "scalar"
        /\ UNCHANGED <<holder, returned, exc>>
    BY <1>5 DEF ToValue, ended
  <2>2. answer = "tuples"
    BY <2>1 DEF Wanted
  <2>3. CallTypes'
    BY <1>0, <2>1 DEF Inv, TypeOK, CallTypes
  <2> QED
    BY <1>0, <1>1, <1>2, <2>1, <2>2, <2>3
       DEF Inv, TypeOK, NothingYet, HolderHas, Before, Counted, Told, Settled,
           RowMethods
<1>6. CASE ToError
  <2>1. /\ pc' = "error" /\ UNCHANGED <<returned, exc>>
        /\ answer \in Errors \/ (answer = "none" /\ method \in TxnMethods)
        /\ holder' = (holder /\ method \in TxnMethods)
    BY <1>6 DEF ToError, ended
  <2>2. holder' = (answer # "none" /\ method \in TxnMethods)
    BY <1>0, <2>1 DEF Errors
  <2>3. CallTypes'
    BY <1>0, <2>1 DEF Inv, TypeOK, CallTypes
  <2> QED
    BY <1>0, <1>1, <2>1, <2>2, <2>3
       DEF Inv, TypeOK, NothingYet, HolderHas, Before, Counted, Told, Settled
<1> QED
  BY <1>3, <1>4, <1>5, <1>6 DEF Judge

(* SetResultError clears the result that a transaction method keeps too.   *)
LEMMA RaiseResultKeeps ==
    ASSUME Inv, NEW short \in BOOLEAN, RaiseResult(short)
    PROVE  Inv'
<1>0. /\ UNCHANGED <<method, answer, readable, holder, set, refs, colRefs, cursor,
                     loop, got, errors, disturbed, mine, kept>>
      /\ pc = "error" /\ pc' = "leave" /\ returned' = "NULL" /\ nomem' = short
      /\ exc' = IF answer = "error" /\ ~short THEN "Error" ELSE "MemoryError"
      /\ clears' = IF answer = "none" THEN clears ELSE clears + 1
      /\ clears = 0 /\ ~mine /\ kept = 0 /\ On = {}
      /\ set = "none" /\ refs = 0 /\ colRefs = 0
      /\ answer \in Errors \/ (answer = "none" /\ method \in TxnMethods)
      /\ holder = (answer # "none" /\ method \in TxnMethods)
      /\ Cardinality(On) = 0 /\ On' = On
  BY OnSame, FS_EmptySet
     DEF RaiseResult, Leave, ErrorOf, Clear, result, loops, held, Inv,
         NothingYet, HolderHas, Before
<1>1. TypeOK'
  <2>1. clears' \in Nat /\ nomem' \in BOOLEAN /\ exc' \in {"Error", "MemoryError"}
    BY <1>0
  <2>2. CallTypes'
    BY <1>0, <2>1 DEF Inv, TypeOK, CallTypes
  <2>3. SetTypes'
    BY <1>0 DEF Inv, TypeOK, SetTypes
  <2> QED
    BY <2>2, <2>3 DEF TypeOK
<1>2. Counted'
  <2>1. KeptAndGiven' <=> method \in TxnMethods /\ answer \in Errors
    BY <1>0 DEF KeptAndGiven, Wanted, Errors, TxnMethods
  <2>2. /\ answer # "none" <=> answer \in Errors
        /\ answer = "none" => method \in TxnMethods
    BY <1>0 DEF Errors
  <2>3. clears' + One(holder') = Total'
    <3>1. CASE answer = "none"
      <4>1. ~holder' /\ Total' = 0 /\ clears' = 0
        BY <1>0, <3>1 DEF Total
      <4> QED
        BY <4>1 DEF One
    <3>2. CASE answer # "none" /\ method \in TxnMethods
      <4>1. holder'
        BY <1>0, <3>2, Zenon
      <4>2. clears' = 1
        BY <1>0, <3>2
      <4>3. KeptAndGiven'
        BY <2>1, <2>2, <3>2, Zenon
      <4>4. Total' = 2
        BY <1>0, <3>2, <4>3 DEF Total
      <4> QED
        BY <4>1, <4>2, <4>4 DEF One
    <3>3. CASE answer # "none" /\ method \notin TxnMethods
      <4>1. ~holder'
        BY <1>0, <3>3, Zenon
      <4>2. clears' = 1
        BY <1>0, <3>3
      <4>3. ~KeptAndGiven'
        BY <2>1, <2>2, <3>3, Zenon
      <4>4. Total' = 1
        BY <1>0, <3>3, <4>3 DEF Total
      <4> QED
        BY <4>1, <4>2, <4>4 DEF One
    <3> QED
      BY <2>2, <3>1, <3>2, <3>3
  <2>4. One(mine') = 0 /\ One(set' = "alive") = 0
    BY <1>0 DEF One
  <2> QED
    BY <1>0, <2>3, <2>4 DEF Counted
<1>3. Told'
  BY <1>0 DEF Told, Settled, Errors, Silent, TxnMethods
<1> QED
  BY <1>0, <1>1, <1>2, <1>3 DEF Inv, NothingYet, HolderHas, Before

(* A new result set has its one holder, and the result with it.            *)
LEMMA MakeSetKeeps ==
    ASSUME Inv, MakeSet
    PROVE  Inv'
<1>0. /\ UNCHANGED <<method, answer, readable, nomem, clears, loop, got, errors,
                     disturbed, kept>>
      /\ pc = "new set" /\ clears = 0 /\ ~mine /\ kept = 0 /\ ~nomem
      /\ set' = "alive" /\ refs' = 1 /\ colRefs' = 1 /\ cursor' = 0
      /\ Wanted /\ method \in PassMethods \cup {"row"}
      /\ holder = (method = "row") /\ On' = {} /\ Cardinality(On') = 0
      /\ answer = "tuples"
  BY OnSame, FS_EmptySet
     DEF MakeSet, result, loops, Inv, NothingYet, HolderHas, Before, Wanted
<1>1. Wanted' = Wanted
  BY <1>0 DEF Wanted, Rows
<1>2. SetTypes' /\ cursor' \in 0..MaxRows
  <2>1. 0 \in 0..MaxRows
    BY ResultsAssumption
  <2>2. mine' \in BOOLEAN
    BY DEF MakeSet, Inv, TypeOK, SetTypes
  <2> QED
    BY <1>0, <2>1, <2>2 DEF Inv, TypeOK, SetTypes
<1>3. CASE method = "row"
  <2>1. pc' = "value" /\ holder' = FALSE /\ UNCHANGED <<returned, exc, mine>>
    BY <1>3 DEF MakeSet, ended
  <2>2. CallTypes'
    BY <1>0, <2>1 DEF Inv, TypeOK, CallTypes
  <2>3. HolderHas'
    BY <1>0, <1>1, <1>3, <2>1 DEF HolderHas, RowMethods
  <2> QED
    BY <1>0, <1>2, <2>1, <2>2, <2>3
       DEF Inv, TypeOK, NothingYet, Before, Counted, Told, Settled
<1>4. CASE method # "row"
  <2>1. /\ pc' = "leave" /\ returned' = "set" /\ exc' = "none" /\ mine'
        /\ mine' = TRUE /\ UNCHANGED holder /\ method \in PassMethods
    BY <1>0, <1>4 DEF MakeSet, Leave
  <2>2. CallTypes'
    BY <1>0, <2>1 DEF Inv, TypeOK, CallTypes
  <2>3. ~holder'
    BY <1>0, <1>4, <2>1
  <2>4. Counted'
    <3>1. One(holder') = 0 /\ One(mine') = 1 /\ One(set' = "alive") = 1
      BY <1>0, <2>1, <2>3 DEF One
    <3>2. Total' = 0
      BY <1>0 DEF Total
    <3>3. refs' = 1 /\ colRefs' = 1 /\ clears' = 0 /\ kept' = 0 /\ Cardinality(On') = 0
      BY <1>0
    <3>4. refs' = One(mine') + Cardinality(On')
      BY <3>1, <3>3
    <3>5. clears' + One(holder') = 0
      BY <3>1, <3>3
    <3>6. colRefs' = kept' + One(set' = "alive")
      BY <3>1, <3>3
    <3> QED
      BY <1>0, <2>1, <3>2, <3>4, <3>5, <3>6 DEF Counted
  <2>5. Told'
    BY <1>0, <2>1 DEF Told, Silent, TxnMethods, PassMethods
  <2> QED
    BY <1>0, <1>2, <2>1, <2>2, <2>4, <2>5
       DEF Inv, TypeOK, NothingYet, HolderHas, Before
<1> QED
  BY <1>3, <1>4

(* The set that cannot be made clears the result, which row() keeps too.   *)
LEMMA MakeSetFailsKeeps ==
    ASSUME Inv, MakeSetFails
    PROVE  Inv'
<1>0. /\ UNCHANGED <<method, answer, readable, holder, set, refs, colRefs, cursor,
                     loop, got, errors, disturbed, mine, kept>>
      /\ pc' = "leave" /\ returned' = "NULL" /\ exc' = "MemoryError" /\ nomem'
      /\ nomem' = TRUE /\ clears = 0 /\ ~mine /\ kept = 0 /\ On = {}
      /\ set = "none" /\ refs = 0 /\ colRefs = 0
      /\ Wanted /\ method \in PassMethods \cup {"row"}
      /\ holder = (method = "row") /\ answer = "tuples"
      /\ Cardinality(On) = 0 /\ On' = On
  BY OnSame, FS_EmptySet
     DEF MakeSetFails, Leave, result, loops, held, Inv, NothingYet, HolderHas,
         Before, Wanted
<1>1. clears' = 1
  <2>1. clears' = clears + 1 /\ clears = 0
    BY <1>0 DEF MakeSetFails, Clear
  <2> QED
    BY <2>1
<1>2. CallTypes'
  BY <1>0, <1>1 DEF Inv, TypeOK, CallTypes
<1>3. SetTypes'
  BY <1>0 DEF Inv, TypeOK, SetTypes
<1>4. KeptAndGiven' <=> method = "row"
  BY <1>0 DEF KeptAndGiven, Wanted, Rows, Errors, TxnMethods
<1>5. clears' + One(holder') = Total'
  <2>1. CASE method = "row"
    <3>1. holder' /\ KeptAndGiven'
      BY <1>0, <1>4, <2>1, Zenon
    <3>2. Total' = 2
      BY <1>0, <3>1 DEF Total
    <3> QED
      BY <1>1, <3>1, <3>2 DEF One
  <2>2. CASE method # "row"
    <3>1. ~holder' /\ ~KeptAndGiven'
      BY <1>0, <1>4, <2>2, Zenon
    <3>2. Total' = 1
      BY <1>0, <3>1 DEF Total
    <3> QED
      BY <1>1, <3>1, <3>2 DEF One
  <2> QED
    BY <2>1, <2>2
<1>6. Counted'
  <2>1. One(mine') = 0 /\ One(set' = "alive") = 0
    BY <1>0 DEF One
  <2> QED
    BY <1>0, <1>5, <2>1 DEF Counted
<1>7. Told'
  BY <1>0 DEF Told
<1> QED
  BY <1>0, <1>2, <1>3, <1>6, <1>7 DEF Inv, TypeOK, NothingYet, HolderHas, Before

(* row() drops its set, which clears the result; the holder of scalar()    *)
(* has yet to.                                                             *)
LEMMA MakeValueKeeps ==
    ASSUME Inv, NEW ok \in BOOLEAN, MakeValue(ok)
    PROVE  Inv'
<1>0. /\ UNCHANGED <<method, answer, readable, holder, cursor, loop, got, errors,
                     disturbed, mine>>
      /\ pc' = "leave" /\ clears = 0 /\ ~mine /\ kept = 0 /\ On = {}
      /\ Wanted /\ method \in RowMethods /\ answer = "tuples"
      /\ holder = (method = "scalar")
      /\ method = "row" => set = "alive"
      /\ method = "scalar" => set = "none" /\ refs = 0 /\ colRefs = 0
      /\ Cardinality(On) = 0 /\ On' = On
  BY OnSame, FS_EmptySet
     DEF MakeValue, Leave, result, loops, Inv, NothingYet, HolderHas, Before,
         Wanted
<1>1. \/ returned' = "value" /\ exc' = "none" /\ ~nomem'
      \/ returned' = "NULL" /\ exc' = "MemoryError" /\ nomem'
      \/ returned' = "NULL" /\ exc' = "conversion error" /\ ~nomem'
  <2>1. CASE ok
    BY <2>1 DEF MakeValue, Leave
  <2>2. CASE ~ok /\ readable[1]
    BY <2>2 DEF MakeValue, Leave
  <2>3. CASE ~ok /\ ~readable[1]
    BY <2>3 DEF MakeValue, Leave
  <2> QED
    BY <2>1, <2>2, <2>3
<1>2. nomem' \in BOOLEAN
  BY DEF MakeValue
<1>3. Told'
  BY <1>0, <1>1 DEF Told, Silent, TxnMethods, RowMethods
<1>4. One(mine') = 0
  BY <1>0 DEF One
<1>5. CASE method = "row"
  <2>1. /\ set' = "freed" /\ refs' = 0 /\ clears' = 1
        /\ colRefs' = kept' /\ kept' \in Nat
    <3>1. /\ set' = "freed" /\ refs' = 0 /\ clears' = clears + 1 /\ clears = 0
          /\ colRefs' = IF ok THEN 1 ELSE 0
          /\ kept' = IF ok THEN 1 ELSE 0
      BY <1>0, <1>5 DEF MakeValue, Clear
    <3> QED
      BY <3>1
  <2>2. ~holder'
    BY <1>0, <1>5
  <2>3. ~KeptAndGiven'
    BY <1>0, <1>5, <2>1 DEF KeptAndGiven, TxnMethods
  <2>4. Total' = 1
    BY <1>0, <2>1, <2>3 DEF Total
  <2>5. One(holder') = 0 /\ One(set' = "alive") = 0
    BY <2>1, <2>2 DEF One
  <2>6. Counted'
    BY <1>0, <1>4, <2>1, <2>4, <2>5 DEF Counted
  <2>7. CallTypes'
    BY <1>0, <1>1, <1>2, <2>1 DEF Inv, TypeOK, CallTypes
  <2>8. SetTypes'
    BY <1>0, <2>1 DEF Inv, TypeOK, SetTypes
  <2> QED
    BY <1>0, <1>3, <2>1, <2>6, <2>7, <2>8
       DEF Inv, TypeOK, NothingYet, HolderHas, Before
<1>6. CASE method # "row"
  <2>1. method = "scalar" /\ UNCHANGED <<set, refs, colRefs, kept, clears>>
    BY <1>0, <1>6 DEF MakeValue, RowMethods
  <2>2. holder'
    BY <1>0, <2>1
  <2>3. ~KeptAndGiven'
    BY <1>0, <2>1 DEF KeptAndGiven, TxnMethods
  <2>4. Total' = 1
    BY <1>0, <2>1, <2>3 DEF Total
  <2>5. One(holder') = 1 /\ One(set' = "alive") = 0
    BY <1>0, <2>1, <2>2 DEF One
  <2>6. Counted'
    BY <1>0, <1>4, <2>1, <2>4, <2>5 DEF Counted
  <2>7. CallTypes'
    BY <1>0, <1>1, <1>2, <2>1 DEF Inv, TypeOK, CallTypes
  <2>8. SetTypes'
    BY <1>0, <2>1 DEF Inv, TypeOK, SetTypes
  <2> QED
    BY <1>0, <1>3, <2>1, <2>6, <2>7, <2>8
       DEF Inv, TypeOK, NothingYet, HolderHas, Before
<1> QED
  BY <1>5, <1>6

(* The destructor of ResultHolder settles the account.                     *)
LEMMA UnwindKeeps ==
    ASSUME Inv, Unwind
    PROVE  Inv'
<1>0. /\ UNCHANGED <<method, answer, readable, returned, exc, nomem, set, refs,
                     colRefs, cursor, loop, got, errors, disturbed, mine, kept>>
      /\ pc = "leave" /\ pc' = "over" /\ ~holder' /\ holder' = FALSE /\ On' = On
  BY OnSame DEF Unwind, result, ended, loops, held
<1>1. clears + One(holder) = Total /\ clears \in Nat /\ Total' = Total
  BY <1>0 DEF Inv, Counted, Settled, Total, KeptAndGiven, Wanted, Rows, TypeOK,
              CallTypes
<1>2. clears' \in Nat /\ clears' + One(holder') = Total'
  <2>1. One(holder') = 0
    BY <1>0 DEF One
  <2>2. CASE holder
    <3>1. One(holder) = 1
      BY <2>2 DEF One
    <3>2. Total # 0
      BY <1>1, <3>1
    <3>3. answer # "none"
      BY <3>2 DEF Total
    <3>4. clears' = clears + 1
      BY <2>2, <3>3 DEF Unwind, Clear
    <3> QED
      BY <1>1, <2>1, <3>1, <3>4
  <2>3. CASE ~holder
    <3>1. One(holder) = 0 /\ clears' = clears
      BY <2>3 DEF One, Unwind
    <3> QED
      BY <1>1, <2>1, <3>1
  <2> QED
    BY <2>2, <2>3
<1>3. CallTypes'
  BY <1>0, <1>2 DEF Inv, TypeOK, CallTypes
<1>4. SetTypes'
  BY <1>0 DEF Inv, TypeOK, SetTypes
<1>5. Counted'
  BY <1>0, <1>2 DEF Inv, Counted, Settled, One
<1>6. Told'
  BY <1>0 DEF Inv, Told, Settled, Silent
<1> QED
  BY <1>0, <1>3, <1>4, <1>5, <1>6 DEF Inv, TypeOK, NothingYet, HolderHas, Before

---------------------------------------------------------------------------
(***************************************************************************)
(* Result sets and rows                                                    *)
(***************************************************************************)

(* What a step after the call leaves as it is.                             *)
CallOver == /\ pc = "over"
            /\ UNCHANGED <<method, answer, readable, pc, holder, returned, exc,
                           nomem>>

(* What the caller was told does not change after the call.                *)
LEMMA ToldStays ==
    ASSUME Inv, CallOver
    PROVE  Told'
<1>1. Settled' /\ Settled /\ Silent' = Silent
  BY DEF CallOver, Settled, Silent
<1> QED
  BY <1>1 DEF Inv, CallOver, Told

(* An alive set was returned by a method that passes it on, its result is  *)
(* not cleared, and its column names have a reference of it.               *)
LEMMA AliveFacts ==
    ASSUME Inv, pc = "over", set = "alive"
    PROVE  /\ clears = 0 /\ colRefs = kept + 1 /\ ~holder
           /\ method \in PassMethods /\ answer = "tuples"
           /\ refs = One(mine) + Cardinality(On)
           /\ refs \in Nat /\ kept \in Nat /\ colRefs \in Nat
<1>1. /\ clears + One(holder) = Total /\ colRefs = kept + One(set = "alive")
      /\ ~holder /\ method \in PassMethods /\ answer = "tuples"
      /\ refs = One(mine) + Cardinality(On)
      /\ clears \in Nat /\ refs \in Nat /\ kept \in Nat /\ colRefs \in Nat
  BY DEF Inv, TypeOK, CallTypes, SetTypes, Counted, Settled, HolderHas
<1>2. One(holder) = 0 /\ One(set = "alive") = 1
  BY <1>1 DEF One
<1>3. Total = 0
  BY DEF Total
<1> QED
  BY <1>1, <1>2, <1>3

(* The last reference frees the set and clears the result.                 *)
LEMMA ReleaseKeeps ==
    ASSUME Inv, CallOver, Release, set = "alive",
           UNCHANGED <<cursor, kept, got, errors, disturbed>>,
           loop' \in [Loops -> {"off", "on", "over", "left"}],
           mine' \in BOOLEAN,
           refs > 0, refs - 1 = One(mine') + Cardinality(On'),
           refs = 1 <=> ~mine' /\ On' = {}
    PROVE  Inv'
<1>0. /\ clears = 0 /\ colRefs = kept + 1 /\ ~holder /\ ~holder'
      /\ method \in PassMethods /\ answer = "tuples"
      /\ refs \in Nat /\ kept \in Nat /\ colRefs \in Nat
      /\ pc' = "over" /\ UNCHANGED <<method, answer, kept>>
  BY AliveFacts DEF CallOver
<1>1. refs' = refs - 1 /\ refs' \in Nat
  BY <1>0 DEF Release
<1>2. Told'
  BY ToldStays
<1>3. One(holder') = 0
  BY <1>0 DEF One
<1>4. CASE refs = 1
  <2>1. set' = "freed" /\ colRefs' = colRefs - 1 /\ clears' = clears + 1
    BY <1>0, <1>4 DEF Release, Clear
  <2>2. colRefs' = kept /\ clears' = 1
    BY <1>0, <2>1
  <2>3. ~KeptAndGiven'
    BY <1>0, <2>1 DEF KeptAndGiven, PassMethods, TxnMethods
  <2>4. Total' = 1
    BY <1>0, <2>1, <2>3 DEF Total
  <2>5. clears' + One(holder') = Total'
    BY <1>3, <2>2, <2>4
  <2>6. One(set' = "alive") = 0
    BY <2>1 DEF One
  <2>7. colRefs' = kept' + One(set' = "alive")
    BY <1>0, <2>2, <2>6
  <2>8. Counted'
    BY <1>1, <1>4, <2>1, <2>5, <2>7 DEF Counted
  <2>9. CallTypes'
    BY <2>2 DEF CallOver, Inv, TypeOK, CallTypes
  <2>10. SetTypes'
    BY <1>0, <1>1, <2>1, <2>2 DEF Inv, TypeOK, SetTypes
  <2> QED
    BY <1>0, <1>2, <2>8, <2>9, <2>10
       DEF Inv, TypeOK, NothingYet, HolderHas, Before
<1>5. CASE refs # 1
  <2>1. UNCHANGED <<set, colRefs, clears>>
    BY <1>5 DEF Release
  <2>2. Total' = 0
    BY <2>1 DEF Total
  <2>3. clears' + One(holder') = Total'
    BY <1>0, <1>3, <2>1, <2>2
  <2>4. One(set' = "alive") = 1
    BY <2>1 DEF One
  <2>5. colRefs' = kept' + One(set' = "alive")
    BY <1>0, <2>1, <2>4
  <2>6. Counted'
    BY <1>0, <1>1, <1>5, <2>1, <2>3, <2>5 DEF Counted
  <2>7. CallTypes'
    BY <2>1 DEF CallOver, Inv, TypeOK, CallTypes
  <2>8. SetTypes'
    BY <1>0, <1>1, <2>1 DEF Inv, TypeOK, SetTypes
  <2> QED
    BY <1>0, <1>2, <2>6, <2>7, <2>8
       DEF Inv, TypeOK, NothingYet, HolderHas, Before
<1> QED
  BY <1>4, <1>5

(* A program that drops its result set keeps the invariant.                *)
LEMMA DropSetKeeps ==
    ASSUME Inv, DropSet
    PROVE  Inv'
<1>0. /\ CallOver /\ Release /\ mine /\ ~mine' /\ mine' = FALSE
      /\ UNCHANGED <<cursor, loop, got, errors, disturbed, kept>> /\ On' = On
  BY OnSame DEF DropSet, CallOver, result, ended, loops
<1>1. set = "alive"
  BY <1>0 DEF Inv, Counted, Settled, CallOver
<1>2. One(mine) = 1 /\ One(mine') = 0
  BY <1>0 DEF One
<1>3. /\ refs = One(mine) + Cardinality(On) /\ Cardinality(On) \in Nat
      /\ On = {} <=> Cardinality(On) = 0
  BY <1>0, <1>1, AliveFacts, OnFinite, FS_EmptySet DEF CallOver
<1>4. /\ refs > 0 /\ refs - 1 = One(mine') + Cardinality(On')
      /\ refs = 1 <=> ~mine' /\ On' = {}
  BY <1>0, <1>2, <1>3
<1>5. loop' \in [Loops -> {"off", "on", "over", "left"}]
  BY <1>0 DEF Inv, TypeOK, SetTypes
<1> QED
  BY <1>0, <1>1, <1>4, <1>5, ReleaseKeeps

(* A loop that ends gives back its reference.                              *)
LEMMA EndLoopKeeps ==
    ASSUME Inv, NEW l \in Loops, NEW how \in {"over", "left"}, EndLoop(l, how)
    PROVE  Inv'
<1>0. /\ CallOver /\ Release /\ loop[l] = "on"
      /\ loop' = [loop EXCEPT ![l] = how]
      /\ UNCHANGED <<cursor, got, errors, disturbed, mine, kept>>
  BY DEF EndLoop, CallOver, result, ended, held
<1>1. loop \in [Loops -> {"off", "on", "over", "left"}] /\ mine \in BOOLEAN
  BY DEF Inv, TypeOK, SetTypes
<1>2. /\ On # {} /\ Cardinality(On) > 0
      /\ Cardinality(On') = Cardinality(On) - 1
      /\ On' = {} <=> Cardinality(On) = 1
  BY <1>0, <1>1, OneLessOn
<1>3. set = "alive"
  BY <1>0, <1>2 DEF Inv, Counted, Settled, CallOver
<1>4. /\ refs = One(mine) + Cardinality(On) /\ Cardinality(On) \in Nat
      /\ One(mine) \in Nat /\ (One(mine) = 0 <=> ~mine) /\ One(mine') = One(mine)
  BY <1>0, <1>3, AliveFacts, OnFinite DEF CallOver, One
<1>5. refs > 0 /\ refs - 1 = One(mine') + Cardinality(On')
  BY <1>2, <1>4
<1>6. refs = 1 <=> One(mine) = 0 /\ Cardinality(On) = 1
  BY <1>2, <1>4
<1>7. refs = 1 <=> ~mine' /\ On' = {}
  BY <1>0, <1>2, <1>4, <1>6
<1>8. loop' \in [Loops -> {"off", "on", "over", "left"}]
  BY <1>0, <1>1
<1> QED
  BY <1>0, <1>1, <1>3, <1>5, <1>7, <1>8, ReleaseKeeps

(* A loop that starts takes a reference.                                   *)
LEMMA StartLoopKeeps ==
    ASSUME Inv, NEW l \in Loops, StartLoop(l)
    PROVE  Inv'
<1>0. /\ CallOver /\ mine /\ loop[l] # "on" /\ loop' = [loop EXCEPT ![l] = "on"]
      /\ got' = [got EXCEPT ![l] = <<>>] /\ errors' = [errors EXCEPT ![l] = {}]
      /\ refs' = refs + 1 /\ cursor' = 0
      /\ disturbed' = [k \in Loops |-> Disturbs(l, k)]
      /\ UNCHANGED <<set, colRefs, clears, mine, kept>>
  BY DEF StartLoop, CallOver, result, ended, held, IterRefs, IterCursor
<1>1. set = "alive" /\ pc = "over" /\ pc' = "over"
  BY <1>0 DEF Inv, Counted, Settled, CallOver
<1>2. loop \in [Loops -> {"off", "on", "over", "left"}]
  BY DEF Inv, TypeOK, SetTypes
<1>3. On' # {} /\ Cardinality(On') = Cardinality(On) + 1
  BY <1>0, <1>2, OneMoreOn
<1>4. refs' = One(mine') + Cardinality(On') /\ refs' \in Nat
  <2>1. refs = One(mine) + Cardinality(On) /\ refs \in Nat
    BY <1>1, AliveFacts
  <2>2. Cardinality(On) \in Nat /\ One(mine) = 1 /\ One(mine') = 1
    BY <1>0, OnFinite DEF One
  <2>3. refs' = refs + 1
    BY <1>0
  <2> QED
    BY <1>3, <2>1, <2>2, <2>3
<1>5. CallTypes'
  BY <1>0 DEF CallOver, Inv, TypeOK, CallTypes
<1>6. SetTypes'
  <2>1. disturbed' \in [Loops -> BOOLEAN]
    BY <1>0 DEF Disturbs, Inv, TypeOK, SetTypes
  <2>2. cursor' \in 0..MaxRows
    BY <1>0, ResultsAssumption
  <2>3. got' \in [Loops -> Seq(1..MaxRows)]
    BY <1>0, EmptySeq DEF Inv, TypeOK, SetTypes
  <2>4. errors' \in [Loops -> SUBSET (1..MaxRows)]
    BY <1>0 DEF Inv, TypeOK, SetTypes
  <2>5. loop' \in [Loops -> {"off", "on", "over", "left"}]
    BY <1>0, <1>2
  <2> QED
    BY <1>0, <1>4, <2>1, <2>2, <2>3, <2>4, <2>5 DEF Inv, TypeOK, SetTypes
<1>7. Counted'
  <2>1. clears' + One(holder') = Total'
    BY <1>0, <1>1 DEF CallOver, Inv, Counted, Settled, Total, One
  <2> QED
    BY <1>0, <1>1, <1>3, <1>4, <2>1 DEF CallOver, Inv, Counted, Settled
<1>8. Told'
  BY <1>0, ToldStays
<1> QED
  BY <1>0, <1>1, <1>5, <1>6, <1>7, <1>8
     DEF CallOver, Inv, TypeOK, NothingYet, HolderHas, Before

(* The rows a loop is given are rows of the result.                        *)
LEMMA NextRowKeeps ==
    ASSUME Inv, NEW l \in Loops, NextRow(l)
    PROVE  Inv'
<1>0. /\ CallOver /\ loop[l] = "on" /\ cursor < Rows /\ cursor' = cursor + 1
      /\ UNCHANGED <<set, refs, colRefs, clears, loop, mine, kept>>
      /\ pc' = "over" /\ On' = On
  BY OnSame DEF NextRow, CallOver, result, ended, held, Advance
<1>1. cursor' \in 0..MaxRows /\ cursor + 1 \in 1..MaxRows
  <2>1. Rows \in 0..MaxRows /\ cursor \in 0..MaxRows /\ MaxRows \in Nat
    BY RowsBounded, ResultsAssumption DEF Inv, TypeOK, SetTypes
  <2> QED
    BY <1>0, <2>1
<1>2. SetTypes'
  <2>1. disturbed' \in [Loops -> BOOLEAN]
    BY DEF NextRow, Disturbs, Inv, TypeOK, SetTypes
  <2>2. got' \in [Loops -> Seq(1..MaxRows)]
    <3>1. got \in [Loops -> Seq(1..MaxRows)]
      BY DEF Inv, TypeOK, SetTypes
    <3>2. got' \in {got, [got EXCEPT ![l] = Append(got[l], cursor + 1)]}
      BY DEF NextRow
    <3>3. Append(got[l], cursor + 1) \in Seq(1..MaxRows)
      BY <1>1, <3>1, AppendProperties
    <3> QED
      BY <3>1, <3>2, <3>3
  <2>3. errors' \in [Loops -> SUBSET (1..MaxRows)]
    <3>1. errors' \in {errors, [errors EXCEPT ![l] = errors[l] \cup {cursor + 1}]}
      BY DEF NextRow
    <3>2. errors \in [Loops -> SUBSET (1..MaxRows)]
      BY DEF Inv, TypeOK, SetTypes
    <3>3. errors[l] \cup {cursor + 1} \in SUBSET (1..MaxRows)
      BY <1>1, <3>2
    <3> QED
      BY <3>1, <3>2, <3>3
  <2> QED
    BY <1>0, <1>1, <2>1, <2>2, <2>3 DEF Inv, TypeOK, SetTypes
<1>3. CallTypes'
  BY <1>0 DEF CallOver, Inv, TypeOK, CallTypes
<1>4. Counted'
  BY <1>0 DEF CallOver, Inv, Counted, Settled, Total, KeptAndGiven, Wanted,
              Rows, One
<1>5. Told'
  BY <1>0, ToldStays
<1> QED
  BY <1>0, <1>2, <1>3, <1>4, <1>5
     DEF CallOver, Inv, TypeOK, NothingYet, HolderHas, Before

(* A Row that is kept has its reference to the columns.                    *)
LEMMA KeepRowKeeps ==
    ASSUME Inv, NEW i \in 1..MaxRows, KeepRow(i)
    PROVE  Inv'
<1>0. /\ CallOver /\ kept' = kept + 1 /\ colRefs' = colRefs + 1
      /\ UNCHANGED <<set, refs, cursor, clears, loop, got, errors, disturbed, mine>>
      /\ pc' = "over" /\ On' = On
  BY OnSame DEF KeepRow, CallOver, result, ended, loops, RowColumns
<1>1. TypeOK'
  <2>1. kept' \in Nat /\ colRefs' \in Nat
    BY <1>0 DEF Inv, TypeOK, SetTypes
  <2>2. CallTypes'
    BY <1>0 DEF CallOver, Inv, TypeOK, CallTypes
  <2>3. SetTypes'
    BY <1>0, <2>1 DEF Inv, TypeOK, SetTypes
  <2> QED
    BY <2>2, <2>3 DEF TypeOK
<1>2. colRefs' = kept' + One(set' = "alive")
  <2>1. colRefs = kept + One(set = "alive") /\ kept \in Nat
    BY <1>0 DEF CallOver, Inv, TypeOK, SetTypes, Counted, Settled
  <2>2. One(set' = "alive") = One(set = "alive") /\ One(set = "alive") \in Nat
    BY <1>0 DEF One
  <2> QED
    BY <1>0, <2>1, <2>2
<1>3. Counted'
  <2>1. Total' = Total /\ One(holder') = One(holder) /\ One(mine') = One(mine)
    BY <1>0 DEF CallOver, Total, KeptAndGiven, Wanted, Rows, One
  <2> QED
    BY <1>0, <1>2, <2>1 DEF CallOver, Inv, Counted, Settled
<1>4. Told'
  BY <1>0, ToldStays
<1> QED
  BY <1>0, <1>1, <1>3, <1>4 DEF CallOver, Inv, NothingYet, HolderHas, Before

(* A Row that is dropped gives its reference back.                         *)
LEMMA DropRowKeeps ==
    ASSUME Inv, DropRow
    PROVE  Inv'
<1>0. /\ CallOver /\ kept > 0 /\ kept' = kept - 1 /\ colRefs' = colRefs - 1
      /\ UNCHANGED <<set, refs, cursor, clears, loop, got, errors, disturbed, mine>>
      /\ pc' = "over" /\ On' = On
  BY OnSame DEF DropRow, CallOver, result, ended, loops
<1>1. colRefs' = kept' + One(set' = "alive") /\ kept' \in Nat /\ colRefs' \in Nat
  <2>1. colRefs = kept + One(set = "alive") /\ kept \in Nat
    BY <1>0 DEF CallOver, Inv, TypeOK, SetTypes, Counted, Settled
  <2>2. One(set' = "alive") = One(set = "alive") /\ One(set = "alive") \in Nat
    BY <1>0 DEF One
  <2> QED
    BY <1>0, <2>1, <2>2
<1>2. TypeOK'
  BY <1>0, <1>1 DEF CallOver, Inv, TypeOK, CallTypes, SetTypes
<1>3. Counted'
  <2>1. Total' = Total /\ One(holder') = One(holder) /\ One(mine') = One(mine)
    BY <1>0 DEF CallOver, Total, KeptAndGiven, Wanted, Rows, One
  <2> QED
    BY <1>0, <1>1, <2>1 DEF CallOver, Inv, Counted, Settled
<1>4. Told'
  BY <1>0, ToldStays
<1> QED
  BY <1>0, <1>2, <1>3, <1>4 DEF CallOver, Inv, NothingYet, HolderHas, Before

(* Every step keeps the invariant.                                         *)
LEMMA StepInv == Inv /\ [Next]_vars => Inv'
<1> SUFFICES ASSUME Inv, [Next]_vars
             PROVE  Inv'
  OBVIOUS
<1>1. CASE Judge
  BY <1>1, JudgeKeeps
<1>2. ASSUME NEW short \in BOOLEAN, RaiseResult(short) PROVE Inv'
  BY <1>2, RaiseResultKeeps
<1>3. CASE MakeSet
  BY <1>3, MakeSetKeeps
<1>4. CASE MakeSetFails
  BY <1>4, MakeSetFailsKeeps
<1>5. ASSUME NEW ok \in BOOLEAN, MakeValue(ok) PROVE Inv'
  BY <1>5, MakeValueKeeps
<1>6. CASE Unwind
  BY <1>6, UnwindKeeps
<1>7. ASSUME NEW l \in Loops, StartLoop(l) PROVE Inv'
  BY <1>7, StartLoopKeeps
<1>8. ASSUME NEW l \in Loops, NextRow(l) PROVE Inv'
  BY <1>8, NextRowKeeps
<1>9. ASSUME NEW l \in Loops, NEW how \in {"over", "left"}, EndLoop(l, how)
      PROVE  Inv'
  BY <1>9, EndLoopKeeps
<1>10. ASSUME NEW i \in 1..MaxRows, KeepRow(i) PROVE Inv'
  BY <1>10, KeepRowKeeps
<1>11. CASE DropRow
  BY <1>11, DropRowKeeps
<1>12. CASE DropSet
  BY <1>12, DropSetKeeps
<1>13. CASE UNCHANGED vars
  <2>1. UNCHANGED <<method, answer, readable, pc, holder, returned, exc, nomem,
                    set, refs, colRefs, cursor, clears, loop, got, errors,
                    disturbed, mine, kept>>
    BY <1>13 DEF vars, result, ended, rset, loops, held
  <2>2. TypeOK'
    <3>1. CallTypes'
      BY <2>1, Zenon DEF Inv, TypeOK, CallTypes
    <3>2. SetTypes'
      BY <2>1, Zenon DEF Inv, TypeOK, SetTypes
    <3> QED
      BY <3>1, <3>2 DEF TypeOK
  <2>3. On' = On
    BY <2>1, OnSame
  <2>4. NothingYet'
    BY <2>1, <2>3 DEF Inv, NothingYet, Before
  <2>5. HolderHas'
    BY <2>1 DEF Inv, HolderHas, Wanted, Rows
  <2>6. Counted'
    <3>1. /\ Total' = Total /\ Settled' = Settled /\ One(holder') = One(holder)
          /\ One(mine') = One(mine) /\ One(set' = "alive") = One(set = "alive")
      BY <2>1 DEF Total, KeptAndGiven, Wanted, Rows, Settled, One
    <3> QED
      BY <2>1, <2>3, <3>1 DEF Inv, Counted
  <2>7. Told'
    BY <2>1 DEF Inv, Told, Settled, Silent
  <2> QED
    BY <2>2, <2>4, <2>5, <2>6, <2>7 DEF Inv
<1> QED
  BY <1>1, <1>2, <1>3, <1>4, <1>5, <1>6, <1>7, <1>8, <1>9, <1>10, <1>11, <1>12,
     <1>13 DEF Next, Call, Begins, Goes, Terminating

---------------------------------------------------------------------------
(***************************************************************************)
(* The theorems                                                            *)
(***************************************************************************)

(* The invariant holds in every state.                                     *)
LEMMA Invariant == Spec => []Inv
BY InitInv, StepInv, PTL DEF Spec

(* What the invariant says when the call is over.                          *)
LEMMA InvClears == Inv => ClearedOnce
<1> SUFFICES ASSUME Inv, pc = "over"
             PROVE  clears = Total
  BY DEF ClearedOnce, Total
<1>1. clears + One(holder) = Total /\ ~holder /\ clears \in Nat
  BY DEF Inv, Counted, Settled, HolderHas, TypeOK, CallTypes
<1>2. One(holder) = 0
  BY <1>1 DEF One
<1> QED
  BY <1>1, <1>2

(* The references of a set are those of its holders.                       *)
LEMMA InvAlive == Inv => HeldIsAlive
<1> SUFFICES ASSUME Inv, pc = "over"
             PROVE  /\ InUse <=> set = "alive"
                    /\ InUse => clears = 0
                    /\ InUse \/ kept > 0 <=> colRefs > 0
  BY DEF HeldIsAlive
<1>1. InUse <=> set = "alive"
  BY DEF InUse, On, Inv, Counted, Settled
<1>2. colRefs = kept + One(set = "alive") /\ kept \in Nat
  BY DEF Inv, Counted, Settled, TypeOK, SetTypes
<1>3. CASE set = "alive"
  BY <1>1, <1>2, <1>3, AliveFacts
<1>4. CASE set # "alive"
  <2>1. One(set = "alive") = 0
    BY <1>4 DEF One
  <2>2. colRefs = kept
    BY <1>2, <2>1
  <2> QED
    BY <1>1, <1>4, <2>2
<1> QED
  BY <1>3, <1>4

(* Each variable has its type.                                             *)
THEOREM ResultsTypeCorrect == Spec => []TypeOK
<1>1. Inv => TypeOK
  BY DEF Inv
<1> QED
  BY <1>1, Invariant, PTL

(* Every result is cleared exactly once when nobody has it any more, with  *)
(* however many loops, rows and failed allocations; twice in the two       *)
(* places where the code keeps it and gives it away.                       *)
THEOREM ClearsOnce == Spec => []ClearedOnce
BY Invariant, InvClears, PTL

(* No result set, result or column name is freed while somebody holds it,  *)
(* and none stays when nobody does.                                        *)
THEOREM HeldStaysAlive == Spec => []HeldIsAlive
BY Invariant, InvAlive, PTL

(* NULL is returned with an exception and only then, and MemoryError means *)
(* no memory, or an error of libpq itself.                                 *)
THEOREM ExceptionsHonest == Spec => []ExceptionsTell
<1>1. Inv => ExceptionsTell
  BY DEF Inv, Told, Settled, ExceptionsTell
<1> QED
  BY <1>1, Invariant, PTL

---------------------------------------------------------------------------
(***************************************************************************)
(* Loops                                                                   *)
(***************************************************************************)

(* A loop that nobody disturbed has seen the rows up to the cursor, and    *)
(* one that is over has seen them all, whatever other loops did since.     *)
CursorInv == cursor <= Rows
YieldInv ==
    \A l \in Loops : ~disturbed[l] =>
        /\ loop[l] = "on" => Yielded(l, cursor)
        /\ loop[l] = "over" => Yielded(l, Rows)

(* One row more that can be decoded goes behind those a loop was given.    *)
LEMMA OneMoreRow ==
    ASSUME SetTypes, CallTypes, NEW l \in Loops, Yielded(l, cursor),
           cursor < Rows, readable[cursor + 1],
           got'[l] = Append(got[l], cursor + 1), errors'[l] = errors[l],
           readable' = readable, cursor' = cursor + 1
    PROVE  Yielded(l, cursor)'
<1> DEFINE g == got[l]
           h == Append(g, cursor + 1)
<1>0. cursor \in Nat /\ cursor + 1 \in 1..MaxRows
  BY RowsBounded, ResultsAssumption DEF SetTypes
<1>1. g \in Seq(1..MaxRows)
  BY DEF SetTypes
<1> HIDE DEF g
<1>2. /\ Len(h) = Len(g) + 1 /\ Len(g) \in Nat
      /\ DOMAIN g = 1..Len(g) /\ DOMAIN h = 1..(Len(g) + 1)
      /\ \A i \in 1..Len(g) : h[i] = g[i] /\ g[i] \in 1..MaxRows
      /\ h[Len(g) + 1] = cursor + 1
  <2>1. h \in Seq(1..MaxRows) /\ Len(h) = Len(g) + 1
        /\ \A i \in 1..Len(g) : h[i] = g[i]
        /\ h[Len(g) + 1] = cursor + 1
    BY <1>0, <1>1, AppendProperties
  <2>2. Len(g) \in Nat /\ DOMAIN g = 1..Len(g) /\ DOMAIN h = 1..Len(h)
    BY <1>1, <2>1, LenProperties
  <2>3. \A i \in 1..Len(g) : g[i] \in 1..MaxRows
    BY <1>1, ElementOfSeq
  <2> QED
    BY <2>1, <2>2, <2>3
<1> USE DEF g
<1>3. \A i \in 1..Len(g) : g[i] <= cursor
  <2>1. \A i \in DOMAIN g : g[i] \in {k \in 1..cursor : readable[k]}
    BY DEF Yielded
  <2> QED
    BY <1>0, <1>2, <2>1
<1>4. \A i, j \in DOMAIN h : i < j => h[i] < h[j]
  <2>1. \A i, j \in 1..Len(g) : i < j => g[i] < g[j]
    BY <1>2 DEF Yielded
  <2> HIDE DEF g, h
  <2> QED
    BY <1>0, <1>2, <1>3, <2>1
<1>5. {h[i] : i \in DOMAIN h} = {k \in 1..(cursor + 1) : readable[k]}
  <2>1. {g[i] : i \in 1..Len(g)} = {k \in 1..cursor : readable[k]}
    BY <1>2 DEF Yielded
  <2> HIDE DEF g, h
  <2>2. \A k : k \in {h[i] : i \in DOMAIN h}
               <=> k \in {g[i] : i \in 1..Len(g)} \/ k = cursor + 1
    <3>1. DOMAIN h = 1..Len(g) \cup {Len(g) + 1}
      BY <1>2
    <3> QED
      BY <1>2, <3>1
  <2>3. \A k : k \in {j \in 1..(cursor + 1) : readable[j]}
               <=> k \in {j \in 1..cursor : readable[j]} \/ k = cursor + 1
    BY <1>0
  <2> QED
    BY <2>1, <2>2, <2>3
<1>6. errors[l] = {k \in 1..(cursor + 1) : ~readable[k]}
  BY <1>0 DEF Yielded
<1> QED
  BY <1>4, <1>5, <1>6 DEF Yielded

(* One that cannot is told.                                                *)
LEMMA OneMoreError ==
    ASSUME SetTypes, NEW l \in Loops, Yielded(l, cursor),
           ~readable[cursor + 1],
           got'[l] = got[l], errors'[l] = errors[l] \cup {cursor + 1},
           readable' = readable, cursor' = cursor + 1
    PROVE  Yielded(l, cursor)'
<1>0. cursor \in Nat
  BY ResultsAssumption DEF SetTypes
<1>1. {k \in 1..(cursor + 1) : readable[k]} = {k \in 1..cursor : readable[k]}
  BY <1>0
<1>2. {k \in 1..(cursor + 1) : ~readable[k]}
      = {k \in 1..cursor : ~readable[k]} \cup {cursor + 1}
  BY <1>0
<1> QED
  BY <1>1, <1>2 DEF Yielded

(* A step that leaves the loops alone.                                     *)
LEMMA YieldSame ==
    ASSUME CursorInv, YieldInv, UNCHANGED <<readable, loops>>,
           cursor' = cursor \/ (cursor' = 0 /\ On = {}), TypeOK
    PROVE  CursorInv' /\ YieldInv'
<1>1. Rows' = Rows /\ Rows \in Nat
  BY RowsBounded, ResultsAssumption DEF Rows, TypeOK
<1> QED
  BY <1>1 DEF CursorInv, YieldInv, Yielded, On, loops

(* Every step keeps it.                                                    *)
LEMMA YieldStep ==
    ASSUME Inv, CursorInv, YieldInv, [Next]_vars
    PROVE  CursorInv' /\ YieldInv'
<1>0. /\ TypeOK /\ SetTypes /\ CallTypes
      /\ Rows \in Nat /\ cursor \in Nat
      /\ loop \in [Loops -> {"off", "on", "over", "left"}]
      /\ disturbed \in [Loops -> BOOLEAN]
      /\ got \in [Loops -> Seq(1..MaxRows)]
      /\ errors \in [Loops -> SUBSET (1..MaxRows)]
  BY RowsBounded, ResultsAssumption DEF Inv, TypeOK, SetTypes
<1>1. CASE \/ Call \/ DropRow \/ DropSet \/ Terminating \/ UNCHANGED vars
           \/ \E i \in 1..MaxRows : KeepRow(i)
  <2>1. /\ UNCHANGED <<readable, loops>>
        /\ cursor' = cursor \/ (cursor' = 0 /\ pc = "new set")
    BY <1>1 DEF Call, Judge, RaiseResult, MakeSet, MakeSetFails, MakeValue, Unwind,
       DropRow, DropSet, Terminating, KeepRow, vars, result, rset, loops
  <2>2. pc = "new set" => On = {}
    BY DEF Inv, NothingYet
  <2> QED
    BY <1>0, <2>1, <2>2, YieldSame
<1>2. ASSUME NEW l \in Loops, StartLoop(l)
      PROVE  CursorInv' /\ YieldInv'
  <2>1. UNCHANGED readable /\ Rows' = Rows /\ cursor' = 0
    BY <1>2 DEF StartLoop, result, Rows, IterCursor
  <2>2. ASSUME NEW k \in Loops, ~disturbed'[k]
        PROVE  /\ loop'[k] = "on" => Yielded(k, cursor)'
               /\ loop'[k] = "over" => Yielded(k, Rows)'
    <3>1. CASE k = l
      <4>1. got'[k] = <<>> /\ errors'[k] = {} /\ loop'[k] = "on"
        BY <1>0, <1>2, <3>1 DEF StartLoop
      <4> QED
        BY <2>1, <4>1 DEF Yielded
    <3>2. CASE k # l
      <4>1. /\ got'[k] = got[k] /\ errors'[k] = errors[k] /\ loop'[k] = loop[k]
            /\ ~disturbed[k] /\ loop[k] # "on"
        BY <1>0, <1>2, <2>2, <3>2 DEF StartLoop, Disturbs
      <4> QED
        BY <2>1, <4>1 DEF YieldInv, Yielded
    <3> QED
      BY <3>1, <3>2
  <2> QED
    BY <1>0, <2>1, <2>2 DEF YieldInv, CursorInv
<1>3. ASSUME NEW l \in Loops, NextRow(l)
      PROVE  CursorInv' /\ YieldInv'
  <2>1. /\ UNCHANGED <<readable, loop>> /\ Rows' = Rows
        /\ cursor < Rows /\ cursor' = cursor + 1 /\ loop[l] = "on"
    BY <1>3 DEF NextRow, result, Rows, Advance
  <2>2. ASSUME NEW k \in Loops, ~disturbed'[k]
        PROVE  /\ loop'[k] = "on" => Yielded(k, cursor)'
               /\ loop'[k] = "over" => Yielded(k, Rows)'
    <3>1. CASE k = l
      <4>1. ~disturbed[l]
        BY <1>0, <1>3, <2>2, <3>1 DEF NextRow
      <4>2. Yielded(l, cursor)
        BY <2>1, <4>1 DEF YieldInv
      <4>3. CASE readable[cursor + 1]
        <5>1. got'[l] = Append(got[l], cursor + 1) /\ errors'[l] = errors[l]
          BY <1>0, <1>3, <4>1, <4>3 DEF NextRow
        <5>2. Yielded(l, cursor)'
          BY <1>0, <2>1, <4>2, <4>3, <5>1, OneMoreRow
        <5> QED
          BY <2>1, <3>1, <5>2
      <4>4. CASE ~readable[cursor + 1]
        <5>1. got'[l] = got[l] /\ errors'[l] = errors[l] \cup {cursor + 1}
          BY <1>0, <1>3, <4>1, <4>4 DEF NextRow
        <5>2. Yielded(l, cursor)'
          BY <1>0, <2>1, <4>2, <4>4, <5>1, OneMoreError
        <5> QED
          BY <2>1, <3>1, <5>2
      <4> QED
        BY <4>3, <4>4
    <3>2. CASE k # l
      <4>1. got'[k] = got[k] /\ errors'[k] = errors[k]
            /\ ~disturbed[k] /\ loop[k] # "on"
        BY <1>0, <1>3, <2>2, <3>2 DEF NextRow, Disturbs
      <4> QED
        BY <2>1, <4>1 DEF YieldInv, Yielded
    <3> QED
      BY <3>1, <3>2
  <2> QED
    BY <1>0, <2>1, <2>2 DEF YieldInv, CursorInv
<1>4. ASSUME NEW l \in Loops, NEW how \in {"over", "left"}, EndLoop(l, how)
      PROVE  CursorInv' /\ YieldInv'
  <2>1. /\ UNCHANGED <<readable, cursor, got, errors, disturbed>> /\ Rows' = Rows
        /\ how = "over" => cursor >= Rows
        /\ loop[l] = "on" /\ loop' = [loop EXCEPT ![l] = how]
    BY <1>4 DEF EndLoop, result, Rows
  <2>2. how = "over" => cursor = Rows
    BY <1>0, <2>1 DEF CursorInv
  <2> QED
    BY <1>0, <2>1, <2>2 DEF YieldInv, CursorInv, Yielded
<1> QED
  BY <1>1, <1>2, <1>3, <1>4 DEF Next, Begins, Goes

(* A loop that ended undisturbed was given every row that can be decoded,  *)
(* once and in order, and was told of every other: however many loops      *)
(* there were before, between and after.                                   *)
THEOREM LoopsYieldAll == Spec => []LoopYieldsAll
<1>1. Init => CursorInv /\ YieldInv
  <2> SUFFICES ASSUME Init
               PROVE  CursorInv /\ YieldInv
    OBVIOUS
  <2>1. Rows \in Nat
    BY InitInv, RowsBounded, ResultsAssumption DEF Inv, TypeOK
  <2> QED
    BY <2>1 DEF Init, CursorInv, YieldInv
<1>2. Inv /\ CursorInv /\ YieldInv /\ [Next]_vars => CursorInv' /\ YieldInv'
  BY YieldStep
<1>3. YieldInv => LoopYieldsAll
  BY DEF YieldInv, LoopYieldsAll
<1> QED
  BY <1>1, <1>2, <1>3, Invariant, PTL DEF Spec
=============================================================================
