------------------------- MODULE AsyncConnectProofs -------------------------
(***************************************************************************)
(* Proofs about AsyncConnect, for any number of files, hosts and answers.  *)
(***************************************************************************)
EXTENDS AsyncConnect, FiniteSetTheorems, WellFoundedInduction, TLAPS

---------------------------------------------------------------------------
(***************************************************************************)
(* The lowest free number                                                  *)
(***************************************************************************)

(* A set of numbers that is not empty has a least one.                     *)
LEMMA Least ==
    ASSUME NEW S \in SUBSET Nat, S # {}
    PROVE  Min(S) \in S /\ \A n \in S : Min(S) <= n
<1> DEFINE R == {p \in Nat \X Nat : p[1] < p[2]}
<1>1. IsWellFoundedOn(R, Nat)
  BY NatLessThanWellFounded DEF OpToRel
<1>2. PICK m \in S : \A n \in S : ~(<<n, m>> \in R)
  BY <1>1, WFMin
<1>3. \A n \in S : m <= n
  <2> TAKE n \in S
  <2>1. n \in Nat /\ m \in Nat
    OBVIOUS
  <2>2. ~(n < m)
    BY <1>2, <2>1
  <2> QED
    BY <2>1, <2>2
<1> QED
  BY <1>3 DEF Min

Tables == [Fds -> {"free", "libpq", "other"}]

Lowest(fs, m) == /\ fs[m] = "free"
                 /\ \A fd \in Fds : fd < m => fs[fd] # "free"
                 /\ OpenPQ(fs) = [fs EXCEPT ![m] = "libpq"]
                 /\ Min(Free(fs)) = m

(* libpq opens its socket at the lowest free number.                       *)
LEMMA OpensLowest ==
    ASSUME NEW fs \in Tables, Free(fs) # {}
    PROVE  \E m \in Fds : Lowest(fs, m)
<1> DEFINE m == Min(Free(fs))
<1>1. Fds \subseteq Nat
  BY DEF Fds
<1>2. m \in Free(fs) /\ \A n \in Free(fs) : m <= n
  <2>1. Free(fs) \in SUBSET Nat
    BY <1>1 DEF Free
  <2> QED
    BY <2>1, Least
<1> HIDE DEF m
<1>3. m \in Fds /\ fs[m] = "free"
  BY <1>2 DEF Free
<1>4. ASSUME NEW fd \in Fds, fd < m
      PROVE  fs[fd] # "free"
  <2>1. fd \in Nat /\ m \in Nat
    BY <1>1, <1>3
  <2> QED
    BY <1>2, <1>4, <2>1 DEF Free
<1> QED
  BY <1>3, <1>4 DEF m, OpenPQ, Lowest

(* It has one socket then, when it had none, and PQsocket is its number.   *)
OneAt(fs, s) == \A fd \in Fds : fs[fd] = "libpq" <=> fd = s
(* PQsocket finds the one number that is libpq's.                          *)
LEMMA FindsSocket ==
    ASSUME NEW fs, NEW s \in Fds, OneAt(fs, s)
    PROVE  SocketOf(fs) = s
BY DEF SocketOf, OneAt

---------------------------------------------------------------------------
(***************************************************************************)
(* The inductive invariant                                                 *)
(***************************************************************************)

(* libpq has its one socket as long as the connection is not given up, but *)
(* not between two hosts.                                                  *)
Active == pc \notin {"start", "raised"}
OneSocket == IF Active /\ pc # "moving"
             THEN \E s \in Fds : OneAt(files, s)
             ELSE \A fd \in Fds : files[fd] # "libpq"

(* Nothing happened to the coroutine before it starts, and afterwards it   *)
(* has a number and libpq a host, with another to try when it moves.       *)
Starting == /\ pc = "start" => tries = 0 /\ ~lost
            /\ Active => sock \in Fds /\ tries > 0
            /\ pc = "moving" => tries < MaxTries

(* As long as nobody closed a file since the start there is no free number *)
(* below the one that was the lowest then, and between two sockets that    *)
(* one is free as long as nobody opened a file there.                      *)
Undisturbed == Active /\ ~closed /\ ~taken
NoneLower == Undisturbed => /\ \A fd \in Fds : fd < sock => files[fd] # "free"
                            /\ pc = "moving" => files[sock] = "free"

OwnHandler == watched # "none" => pc \in {"waiting", "cancelled"}

Inv == Types /\ OneSocket /\ Starting /\ NoneLower /\ OwnHandler /\ OnlyMovesHurt

(* The invariant holds before connect_async.                               *)
LEMMA InitInv == Init => Inv
<1> SUFFICES ASSUME Init
             PROVE  Inv
  OBVIOUS
<1>1. tries \in 0..MaxTries /\ steps \in 0..MaxSteps
  BY ConnectAssumption DEF Init
<1>2. Types
  BY <1>1 DEF Init, Types
<1> QED
  BY <1>2 DEF Init, Inv, OneSocket, Active, Starting, NoneLower, Undisturbed,
              OwnHandler, OnlyMovesHurt

(* The invariant says how many sockets libpq has.                          *)
LEMMA InvTypes == Inv => TypeOK
<1> SUFFICES ASSUME Inv
             PROVE  TypeOK
  OBVIOUS
<1>1. CASE Active /\ pc # "moving"
  <2>1. PICK s \in Fds : OneAt(files, s)
    BY <1>1 DEF Inv, OneSocket
  <2>2. Sockets = {s}
    BY <2>1 DEF Sockets, OneAt
  <2> QED
    BY <1>1, <2>2, FS_Singleton DEF TypeOK, Inv, OwnHandler, Active
<1>2. CASE ~(Active /\ pc # "moving")
  <2>1. Sockets = {}
    BY <1>2 DEF Inv, OneSocket, Sockets
  <2> QED
    BY <1>2, <2>1, FS_EmptySet DEF TypeOK, Inv, OwnHandler, Active
<1> QED
  BY <1>1, <1>2

---------------------------------------------------------------------------
(***************************************************************************)
(* The coroutine                                                           *)
(***************************************************************************)

(* The number that is read once is that of the first socket.               *)
LEMMA StartKeeps ==
    ASSUME Inv, Start
    PROVE  Inv'
<1>1. files \in Tables /\ Free(files) # {} /\ \A fd \in Fds : files[fd] # "libpq"
  BY DEF Start, Inv, Types, OneSocket, Active, Tables
<1>a. PICK m \in Fds : Lowest(files, m)
  BY <1>1, OpensLowest
<1>2. /\ files[m] = "free"
      /\ \A fd \in Fds : fd < m => files[fd] # "free"
      /\ OpenPQ(files) = [files EXCEPT ![m] = "libpq"]
  BY <1>a DEF Lowest
<1>3. files' = [files EXCEPT ![m] = "libpq"]
  BY <1>2 DEF Start
<1>4. OneAt(files', m)
  BY <1>1, <1>3 DEF OneAt, Tables
<1>5. sock' = m
  BY <1>4, FindsSocket DEF Start
<1>6. /\ tries' = 1 /\ steps' = MaxSteps /\ ready' = FALSE /\ closed' = FALSE
      /\ host' \in {"answers", "refuses", "silent"} /\ want' = "writing"
      /\ pc' = "polling" /\ UNCHANGED <<watched, theirs, taken, lost>>
  BY DEF Start, Begin, Inv, Starting
<1>7. Types'
  <2>1. tries' \in 0..MaxTries /\ steps' \in 0..MaxSteps
    BY <1>6, ConnectAssumption
  <2>2. files' \in Tables
    BY <1>1, <1>3 DEF Tables
  <2>3. theirs' \subseteq {fd \in Fds : files'[fd] = "other"}
    BY <1>1, <1>2, <1>3, <1>6 DEF Inv, Types, Tables
  <2> QED
    BY <1>5, <1>6, <2>1, <2>2, <2>3 DEF Inv, Types, Tables
<1>8. OneSocket' /\ Starting'
  BY <1>4, <1>5, <1>6 DEF OneSocket, Starting, Active
<1>9. NoneLower'
  BY <1>1, <1>2, <1>3, <1>5, <1>6 DEF NoneLower, Undisturbed, Tables
<1>10. watched = "none" /\ ~lost
  BY DEF Start, Inv, OwnHandler, Starting, Types
<1>11. OwnHandler' /\ OnlyMovesHurt'
  BY <1>4, <1>5, <1>6, <1>10 DEF OwnHandler, OnlyMovesHurt, OneAt
<1> QED
  BY <1>7, <1>8, <1>9, <1>11 DEF Inv

(* libpq's number becomes free when it closes its socket for another host. *)
LEMMA NextHostKeeps ==
    ASSUME Inv, PollNextHost
    PROVE  Inv'
<1>1. /\ pc = "polling" /\ pc' = "moving" /\ watched = "none"
      /\ files \in Tables /\ sock \in Fds /\ tries < MaxTries
      /\ files' = [fd \in Fds |-> IF files[fd] = "libpq" THEN "free" ELSE files[fd]]
      /\ UNCHANGED <<sock, want, watched, theirs, closed, taken, lost, tries,
                     steps, host, ready>>
  BY DEF PollNextHost, Finish, Inv, Types, Tables, OwnHandler, Starting, Active, pq
<1>2. \A fd \in Fds : /\ files'[fd] # "libpq"
                      /\ files[fd] # "libpq" => files'[fd] = files[fd]
                      /\ files[fd] = "libpq" => files'[fd] = "free"
  BY <1>1 DEF Tables
<1>3. Types'
  <2>1. theirs' \subseteq {fd \in Fds : files'[fd] = "other"}
    BY <1>1, <1>2 DEF Inv, Types
  <2>2. files' \in [Fds -> {"free", "libpq", "other"}]
    BY <1>1 DEF Tables
  <2> QED
    BY <1>1, <2>1, <2>2 DEF Inv, Types
<1>4. OneSocket'
  BY <1>1, <1>2 DEF OneSocket
<1>5. NoneLower'
  <2> SUFFICES ASSUME Undisturbed'
               PROVE  /\ \A fd \in Fds : fd < sock => files'[fd] # "free"
                      /\ files'[sock] = "free"
    BY <1>1 DEF NoneLower
  <2>1. Undisturbed
    BY <1>1 DEF Undisturbed, Active
  <2>2. files[sock] = "libpq"
    BY <1>1, <2>1 DEF Inv, OnlyMovesHurt, Moves, Undisturbed
  <2>3. PICK s \in Fds : OneAt(files, s)
    BY <1>1 DEF Inv, OneSocket, Active
  <2>4. \A fd \in Fds : files[fd] = "libpq" <=> fd = sock
    BY <1>1, <2>2, <2>3 DEF OneAt
  <2>5. ASSUME NEW fd \in Fds, fd < sock
        PROVE  files'[fd] # "free"
    <3>1. fd # sock
      BY <1>1, <2>5 DEF Fds
    <3>2. files[fd] # "free"
      BY <2>1, <2>5 DEF Inv, NoneLower
    <3> QED
      BY <1>2, <2>4, <3>1, <3>2
  <2> QED
    BY <1>1, <1>2, <2>2, <2>5
<1>6. OnlyMovesHurt'
  BY <1>1 DEF Inv, OnlyMovesHurt, Moves
<1> QED
  BY <1>1, <1>3, <1>4, <1>5, <1>6 DEF Inv, Starting, Active, OwnHandler

(* Undisturbed, it gets that number back for the other host.               *)
LEMMA OpenNextKeeps ==
    ASSUME Inv, OpenNextHost
    PROVE  Inv'
<1>0. /\ files \in Tables /\ sock \in Fds /\ pc = "moving" /\ Active
      /\ tries \in Nat /\ tries > 0 /\ MaxTries \in Nat /\ tries < MaxTries
      /\ Free(files) # {}
      /\ watched = "none" /\ \A fd \in Fds : files[fd] # "libpq"
  BY ConnectAssumption DEF OpenNextHost, Inv, Types, Tables, Starting, Active,
                           OwnHandler, OneSocket
<1>a. PICK m \in Fds : Lowest(files, m)
  BY <1>0, OpensLowest
<1>1. /\ files[m] = "free"
      /\ \A fd \in Fds : fd < m => files[fd] # "free"
      /\ OpenPQ(files) = [files EXCEPT ![m] = "libpq"]
  BY <1>a DEF Lowest
<1>2. /\ files' = [files EXCEPT ![m] = "libpq"]
      /\ tries' = tries + 1 /\ steps' = MaxSteps /\ ready' = FALSE
      /\ host' \in {"answers", "refuses", "silent"} /\ want' = "writing"
      /\ pc' = "polling"
      /\ UNCHANGED <<sock, watched, theirs, closed, taken, lost>>
  BY <1>1 DEF OpenNextHost, Begin
<1>3. OneAt(files', m)
  BY <1>0, <1>2 DEF OneAt, Tables
<1>4. Types'
  <2>1. tries' \in 0..MaxTries /\ steps' \in 0..MaxSteps
    BY <1>0, <1>2, ConnectAssumption
  <2>2. files' \in Tables
    BY <1>0, <1>2 DEF Tables
  <2>3. theirs' \subseteq {fd \in Fds : files'[fd] = "other"}
    BY <1>0, <1>1, <1>2 DEF Inv, Types, Tables
  <2> QED
    BY <1>2, <2>1, <2>2, <2>3 DEF Inv, Types, Tables
<1>5. OneSocket' /\ Starting' /\ OwnHandler'
  BY <1>0, <1>2, <1>3 DEF OneSocket, Starting, OwnHandler, Active
<1>6. CASE closed \/ taken
  <2>1. Moves'
    BY <1>0, <1>2, <1>6 DEF Moves
  <2> QED
    BY <1>2, <1>4, <1>5, <1>6, <2>1
       DEF Inv, NoneLower, Undisturbed, OnlyMovesHurt
<1>7. CASE ~closed /\ ~taken
  <2>1. /\ \A fd \in Fds : fd < sock => files[fd] # "free"
        /\ files[sock] = "free" /\ ~lost
    BY <1>0, <1>7 DEF Inv, NoneLower, Undisturbed, OnlyMovesHurt, Moves
  <2>2. m = sock
    <3>1. m \in Nat /\ sock \in Nat
      BY <1>0 DEF Fds
    <3>2. ~(sock < m) /\ ~(m < sock)
      BY <1>0, <1>1, <2>1
    <3> QED
      BY <3>1, <3>2
  <2>3. NoneLower'
    BY <1>0, <1>2, <2>1, <2>2 DEF NoneLower, Tables
  <2>4. OnlyMovesHurt'
    BY <1>0, <1>2, <1>3, <2>1, <2>2 DEF OnlyMovesHurt, OneAt
  <2> QED
    BY <1>4, <1>5, <2>3, <2>4 DEF Inv
<1> QED
  BY <1>6, <1>7

(* The error ends all that the invariant is about.                         *)
LEMMA RaiseKeeps ==
    ASSUME Inv, pc \in {"polling", "moving", "adding"}, Raise,
           UNCHANGED <<sock, want, theirs, closed, taken, lost, pq>>
    PROVE  Inv'
<1>1. /\ pc' = "raised" /\ watched = "none" /\ watched' = "none"
      /\ files' = [fd \in Fds |-> IF files[fd] = "libpq" THEN "free" ELSE files[fd]]
      /\ UNCHANGED <<sock, want, theirs, closed, taken, lost, tries, steps,
                     host, ready>>
  BY DEF Raise, Finish, Inv, OwnHandler, pq
<1>2. Types'
  <2>1. theirs' \subseteq {fd \in Fds : files'[fd] = "other"}
    BY <1>1 DEF Inv, Types
  <2>2. files' \in [Fds -> {"free", "libpq", "other"}]
    BY <1>1 DEF Inv, Types
  <2> QED
    BY <1>1, <2>1, <2>2 DEF Inv, Types
<1>3. OneSocket'
  BY <1>1 DEF OneSocket, Active
<1> QED
  BY <1>1, <1>2, <1>3
     DEF Inv, Starting, Active, NoneLower, Undisturbed, OwnHandler,
         OnlyMovesHurt, Moves

(* The reader is added at libpq's number, which is no other task's.        *)
LEMMA AddHandlerKeeps ==
    ASSUME Inv, AddHandler
    PROVE  Inv'
<1>1. /\ pc = "adding" /\ pc' = "waiting" /\ sock \in Fds
      /\ watched' = files[sock] /\ watched' # "free"
      /\ theirs' = theirs \ {fd \in {sock} : want = "reading"}
      /\ lost' = (lost \/ theirs' # theirs)
      /\ UNCHANGED <<sock, want, files, closed, taken, tries, steps, host, ready>>
  BY DEF AddHandler, FileAt, pq, Inv, Starting, Active
<1>2. Types'
  BY <1>1 DEF Inv, Types
<1>3. CASE Moves
  BY <1>1, <1>2, <1>3 DEF Inv, OneSocket, Starting, Active, NoneLower,
                          Undisturbed, OwnHandler, OnlyMovesHurt, Moves
<1>4. CASE ~Moves
  <2>1. files[sock] = "libpq" /\ ~lost
    BY <1>1, <1>4 DEF Inv, OnlyMovesHurt
  <2>2. sock \notin theirs
    BY <2>1 DEF Inv, Types
  <2>3. theirs' = theirs
    BY <1>1, <2>2
  <2> QED
    BY <1>1, <1>2, <2>1, <2>3 DEF Inv, OneSocket, Starting, Active, NoneLower,
                                  Undisturbed, OwnHandler, OnlyMovesHurt,
                                  Moves
<1> QED
  BY <1>3, <1>4

---------------------------------------------------------------------------
(***************************************************************************)
(* The other tasks and threads                                             *)
(***************************************************************************)

(* A file opened by others takes the lowest free number.                   *)
LEMMA OtherOpensKeeps ==
    ASSUME Inv, OtherOpens
    PROVE  Inv'
<1>1. files \in Tables /\ Free(files) # {}
  BY DEF OtherOpens, Inv, Types, Tables
<1>a. PICK m \in Fds : Lowest(files, m)
  BY <1>1, OpensLowest
<1>2. files[m] = "free" /\ Min(Free(files)) = m
  BY <1>a DEF Lowest
<1>3. /\ files' = [files EXCEPT ![m] = "other"]
      /\ taken' = (taken \/ pc = "moving")
      /\ UNCHANGED <<pc, sock, want, watched, theirs, closed, lost, tries,
                     steps, host, ready>>
  BY <1>2 DEF OtherOpens, task, pq
<1>4. \A fd \in Fds : /\ files'[fd] = "libpq" <=> files[fd] = "libpq"
                      /\ files[fd] = "other" => files'[fd] = "other"
                      /\ files[fd] # "free" => files'[fd] # "free"
  BY <1>1, <1>2, <1>3 DEF Tables
<1>5. Types'
  <2>1. theirs' \subseteq {fd \in Fds : files'[fd] = "other"}
    BY <1>3, <1>4 DEF Inv, Types
  <2>2. files' \in [Fds -> {"free", "libpq", "other"}]
    BY <1>1, <1>3 DEF Tables
  <2> QED
    BY <1>3, <2>1, <2>2 DEF Inv, Types
<1>6. OneSocket'
  BY <1>3, <1>4 DEF Inv, OneSocket, OneAt, Active
<1>7. OnlyMovesHurt'
  BY <1>3, <1>4 DEF Inv, OnlyMovesHurt, Moves, Starting, Active
<1>8. NoneLower'
  <2>1. Undisturbed' => Undisturbed /\ pc # "moving"
    BY <1>3 DEF Undisturbed, Active
  <2> QED
    BY <1>3, <1>4, <2>1 DEF Inv, NoneLower
<1> QED
  BY <1>3, <1>5, <1>6, <1>7, <1>8 DEF Inv, Starting, Active, OwnHandler

(* A reader of another task may only take back its own number.             *)
LEMMA OtherWatchesKeeps ==
    ASSUME Inv, NEW fd \in Fds, OtherWatches(fd)
    PROVE  Inv'
<1>1. /\ files[fd] = "other" /\ theirs' = theirs \cup {fd}
      /\ watched' \in {watched, "gone"} /\ (watched # "other" => watched' = watched)
      /\ UNCHANGED <<pc, sock, want, files, closed, taken, lost, tries, steps,
                     host, ready>>
  BY DEF OtherWatches, Overrun, pq
<1>2. Types'
  BY <1>1 DEF Inv, Types
<1> QED
  BY <1>1, <1>2 DEF Inv, OneSocket, Starting, Active, NoneLower, Undisturbed,
                    OwnHandler, OnlyMovesHurt, Moves

(* A file closed by others is recorded in closed.                          *)
LEMMA OtherClosesKeeps ==
    ASSUME Inv, NEW fd \in Fds, OtherCloses(fd)
    PROVE  Inv'
<1>1. /\ files[fd] = "other" /\ theirs' = theirs \ {fd} /\ closed' = TRUE
      /\ files' = [files EXCEPT ![fd] = "free"]
      /\ watched' \in {watched, "gone"} /\ (watched # "other" => watched' = watched)
      /\ UNCHANGED <<pc, sock, want, taken, lost, tries, steps, host, ready>>
  BY DEF OtherCloses, Overrun, pq
<1>2. \A g \in Fds : /\ files'[g] = "libpq" <=> files[g] = "libpq"
                     /\ g # fd => files'[g] = files[g]
  BY <1>1 DEF Inv, Types
<1>3. Types'
  <2>1. theirs' \subseteq {g \in Fds : files'[g] = "other"}
    BY <1>1, <1>2 DEF Inv, Types
  <2>2. files' \in [Fds -> {"free", "libpq", "other"}]
    BY <1>1 DEF Inv, Types
  <2> QED
    BY <1>1, <2>1, <2>2 DEF Inv, Types
<1>4. OneSocket'
  BY <1>1, <1>2 DEF Inv, OneSocket, OneAt, Active
<1>5. OnlyMovesHurt'
  BY <1>1, <1>2 DEF Inv, OnlyMovesHurt, Moves, Starting, Active
<1> QED
  BY <1>1, <1>3, <1>4, <1>5
     DEF Inv, Starting, Active, NoneLower, Undisturbed, OwnHandler

---------------------------------------------------------------------------
(* Steps that change neither files nor readers.                            *)
LEMMA OtherSteps ==
    ASSUME Inv,
           \/ StartFails \/ PollOK \/ PollGoesOn \/ PollTooEarly \/ Wake
           \/ Cancel \/ HostActs
    PROVE  Inv'
<1> USE DEF Inv, Types, OneSocket, Starting, Active, NoneLower, Undisturbed,
            OwnHandler, OnlyMovesHurt, Moves, proc, pq, task
<1>1. CASE StartFails
  BY <1>1 DEF StartFails
<1>2. CASE PollOK
  BY <1>2 DEF PollOK
<1>3. CASE PollGoesOn
  <2>1. steps' \in 0..MaxSteps
    BY <1>3, ConnectAssumption DEF PollGoesOn
  <2> QED
    BY <1>3, <2>1 DEF PollGoesOn, Wants
<1>4. CASE PollTooEarly
  BY <1>4 DEF PollTooEarly, Wants
<1>5. CASE Wake
  BY <1>5 DEF Wake, Removed
<1>6. CASE Cancel
  BY <1>6 DEF Cancel
<1>7. CASE HostActs
  BY <1>7 DEF HostActs
<1> QED
  BY <1>1, <1>2, <1>3, <1>4, <1>5, <1>6, <1>7

(* Every step keeps the invariant.                                         *)
LEMMA StepInv == Inv /\ [Next]_vars => Inv'
<1> SUFFICES ASSUME Inv, [Next]_vars
             PROVE  Inv'
  OBVIOUS
<1>1. CASE Start
  BY <1>1, StartKeeps
<1>2. CASE PollNextHost
  BY <1>2, NextHostKeeps
<1>o. CASE OpenNextHost
  BY <1>o, OpenNextKeeps
<1>3. CASE PollFails
  BY <1>3, RaiseKeeps DEF PollFails
<1>4. CASE AddFails
  BY <1>4, RaiseKeeps DEF AddFails
<1>5. CASE AddHandler
  BY <1>5, AddHandlerKeeps
<1>6. CASE OtherOpens
  BY <1>6, OtherOpensKeeps
<1>7. ASSUME NEW fd \in Fds, OtherWatches(fd) PROVE Inv'
  BY <1>7, OtherWatchesKeeps
<1>8. ASSUME NEW fd \in Fds, OtherCloses(fd) PROVE Inv'
  BY <1>8, OtherClosesKeeps
<1>9. CASE \/ StartFails \/ PollOK \/ PollGoesOn \/ PollTooEarly \/ Wake
           \/ Cancel \/ HostActs
  BY <1>9, OtherSteps
<1>10. CASE UNCHANGED vars
  BY <1>10 DEF vars, task, proc, pq, Inv, Types, OneSocket, OneAt, Starting,
               Active, NoneLower, Undisturbed, OwnHandler, OnlyMovesHurt, Moves
<1> QED
  BY <1>1, <1>2, <1>o, <1>3, <1>4, <1>5, <1>6, <1>7, <1>8, <1>9, <1>10
     DEF Next, Polls, Others

---------------------------------------------------------------------------
(***************************************************************************)
(* The theorems                                                            *)
(***************************************************************************)

(* The invariant holds in every state.                                     *)
LEMMA Invariant == Spec => []Inv
BY InitInv, StepInv, PTL DEF Spec

(* Each variable has its type; libpq has one socket from the start until   *)
(* the connection is given up, but for the moment between two hosts, and a *)
(* handler is in the loop only while we wait or after a cancel.            *)
THEOREM ConnectTypeCorrect == Spec => []TypeOK
BY Invariant, InvTypes, PTL

(* The number that was read once is libpq's, and the wait for it hurts     *)
(* nobody, unless libpq went to another host after a file was closed, or   *)
(* while another thread opened one between its two sockets.                *)
THEOREM SocketKept == Spec => []OnlyMovesHurt
<1>1. Inv => OnlyMovesHurt
  BY DEF Inv
<1> QED
  BY <1>1, Invariant, PTL
=============================================================================
