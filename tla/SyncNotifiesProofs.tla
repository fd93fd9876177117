------------------------- MODULE SyncNotifiesProofs -------------------------
(***************************************************************************)
(* Proofs about SyncNotifies, for any number of notifications, of other    *)
(* messages and of signals.                                                *)
(***************************************************************************)
EXTENDS SyncNotifies, SequenceTheorems, TLAPS

---------------------------------------------------------------------------
(***************************************************************************)
(* Sequences of notifications                                              *)
(***************************************************************************)

Numbers == 1..MaxNotify

(* The notifications on their way, first to last; what a look makes of     *)
(* those the program has, and of those libpq has.                          *)
Line(g, a, b) == g \o a \o b
Given(g, a, b) == Append(g, Head(a \o b))
Left(a, b) == Tail(a \o b)

(* What one that is sent makes of the socket, and of all that were sent.   *)
Longer(b, n) == Append(b, n + 1)
UpTo(n) == [i \in 1..n |-> i]

(* The head goes before the tail.                                          *)
LEMMA HeadAndTail ==
    ASSUME NEW S, NEW s \in Seq(S), s # <<>>
    PROVE  /\ Head(s) \in S /\ Tail(s) \in Seq(S)
           /\ <<Head(s)>> \o Tail(s) = s
<1>1. Head(s) \in S /\ Tail(s) \in Seq(S) /\ Len(s) \in Nat \ {0}
  BY HeadTailProperties, EmptySeq
<1>2. <<s[1]>> \o SubSeq(s, 2, Len(s)) = SubSeq(s, 1, Len(s))
  BY <1>1, SubSeqRecursiveFirst
<1>3. Tail(s) = SubSeq(s, 2, Len(s)) /\ SubSeq(s, 1, Len(s)) = s
  BY TailIsSubSeq, SubSeqFull
<1>4. Head(s) = s[1]
  BY <1>1
<1> QED
  BY <1>1, <1>2, <1>3, <1>4

(* Brackets do not matter.                                                 *)
LEMMA Associates ==
    \A x, y, z \in Seq(Numbers) : (x \o y) \o z = x \o (y \o z)
BY ConcatAssociative

(* The first of those read goes to the program, the rest stays.            *)
LEMMA TakesFirst ==
    ASSUME NEW g \in Seq(Numbers), NEW a \in Seq(Numbers), NEW b \in Seq(Numbers),
           Len(a) + Len(b) # 0
    PROVE  /\ Given(g, a, b) \in Seq(Numbers) /\ Left(a, b) \in Seq(Numbers)
           /\ Len(Given(g, a, b)) = Len(g) + 1
           /\ Line(Given(g, a, b), Left(a, b), <<>>) = Line(g, a, b)
<1> DEFINE s == a \o b
           g2 == Append(g, Head(s))
           a2 == Tail(s)
<1>1. s \in Seq(Numbers) /\ s # <<>>
  BY ConcatProperties, EmptySeq
<1>2. g \o s = g \o a \o b
  BY Associates
<1> HIDE DEF s
<1>3. Head(s) \in Numbers /\ a2 \in Seq(Numbers) /\ <<Head(s)>> \o a2 = s
  BY <1>1, HeadAndTail
<1>4. g2 \in Seq(Numbers) /\ Len(g2) = Len(g) + 1 /\ g2 = g \o <<Head(s)>>
  BY <1>3, AppendProperties, AppendIsConcat
<1>5. <<Head(s)>> \in Seq(Numbers)
  BY <1>3
<1> HIDE DEF g2, a2
<1>6. (g \o <<Head(s)>>) \o a2 = g \o (<<Head(s)>> \o a2)
  BY Associates, <1>3, <1>5
<1>7. g2 \o a2 = g \o s
  BY <1>3, <1>4, <1>6
<1>8. g2 \o a2 \in Seq(Numbers)
  BY <1>3, <1>4, ConcatProperties
<1>9. (g2 \o a2) \o <<>> = g2 \o a2
  BY <1>8, ConcatEmptySeq
<1>10. g2 \o a2 \o <<>> = g \o a \o b
  BY <1>2, <1>7, <1>9
<1> QED
  BY <1>3, <1>4, <1>10 DEF s, g2, a2, Given, Left, Line

(* The program was not given more than the line has.                       *)
LEMMA InLine ==
    ASSUME NEW g \in Seq(Numbers), NEW a \in Seq(Numbers), NEW n \in Nat,
           Line(g, a, <<>>) = [i \in 1..n |-> i]
    PROVE  Len(g) <= n
<1>1. g \o a \in Seq(Numbers) /\ Len(g \o a) = Len(g) + Len(a)
  BY ConcatProperties
<1>2. (g \o a) \o <<>> = g \o a
  BY <1>1, ConcatEmptySeq
<1>3. Len(g) \in Nat /\ Len(a) \in Nat
  BY LenProperties
<1>4. Len(g \o a) = n
  BY <1>1, <1>2 DEF Line
<1> QED
  BY <1>1, <1>3, <1>4

(* What libpq reads goes behind what it holds.                             *)
LEMMA ReadsBehind ==
    ASSUME NEW S, NEW g \in Seq(S), NEW a \in Seq(S), NEW b \in Seq(S)
    PROVE  a \o b \in Seq(S) /\ g \o (a \o b) \o <<>> = g \o a \o b
<1>1. a \o b \in Seq(S) /\ g \o (a \o b) \in Seq(S)
  BY ConcatProperties
<1>2. g \o (a \o b) \o <<>> = g \o (a \o b)
  BY <1>1, ConcatEmptySeq
<1> QED
  BY <1>1, <1>2, ConcatAssociative

(* A new one goes to the end.                                              *)
LEMMA SendsBehind ==
    ASSUME NEW g \in Seq(Numbers), NEW a \in Seq(Numbers),
           NEW b \in Seq(Numbers), NEW n \in Nat, n < MaxNotify,
           Line(g, a, b) = UpTo(n)
    PROVE  /\ Longer(b, n) \in Seq(Numbers)
           /\ Line(g, a, Longer(b, n)) = UpTo(n + 1)
<1> USE DEF Line, UpTo, Longer
<1> DEFINE ga == g \o a
           all == ga \o b
<1>1. ga \in Seq(Numbers) /\ all \in Seq(Numbers)
  BY ConcatProperties
<1>2. n + 1 \in Numbers /\ <<n + 1>> \in Seq(Numbers)
  <2>1. MaxNotify \in Nat
    BY NotifiesAssumption
  <2> QED
    BY <2>1 DEF Numbers
<1>3. Append(b, n + 1) \in Seq(Numbers) /\ Append(b, n + 1) = b \o <<n + 1>>
  BY <1>2, AppendProperties, AppendIsConcat
<1> HIDE DEF ga
<1>4. ga \o (b \o <<n + 1>>) = all \o <<n + 1>>
  BY <1>1, <1>2, ConcatAssociative
<1>5. all \o <<n + 1>> = Append(all, n + 1)
  BY <1>1, <1>2, AppendIsConcat
<1>6. all = [i \in 1..n |-> i]
  BY DEF ga
<1>7. Len(all) = n
  BY <1>1, <1>6, LenProperties
<1> HIDE DEF all
<1>8. Append(all, n + 1) = [i \in 1..(n + 1) |-> i]
  <2> DEFINE up == [i \in 1..(n + 1) |-> i]
  <2>1. up \in Seq(Numbers) /\ Len(up) = n + 1
    <3>1. MaxNotify \in Nat
      BY NotifiesAssumption
    <3> QED
      BY <3>1 DEF Numbers
  <2>2. /\ Append(all, n + 1) \in Seq(Numbers)
        /\ Len(Append(all, n + 1)) = n + 1
        /\ \A i \in 1..n : Append(all, n + 1)[i] = all[i]
        /\ Append(all, n + 1)[n + 1] = n + 1
    BY <1>1, <1>2, <1>7, AppendProperties
  <2>3. \A i \in 1..(n + 1) : Append(all, n + 1)[i] = up[i]
    BY <1>6, <2>2
  <2> HIDE DEF up
  <2>4. Append(all, n + 1) = up
    BY <2>1, <2>2, <2>3, SeqEqual
  <2> QED
    BY <2>4 DEF up
<1> QED
  BY <1>3, <1>4, <1>5, <1>8 DEF ga

---------------------------------------------------------------------------
(***************************************************************************)
(* The inductive invariant                                                 *)
(***************************************************************************)

(* select woke the call for something on the socket, and as long as nobody *)
(* read it, it is there.                                                   *)
WokenFor == pc = "woken" => Readable

Inv == TypeOK /\ NotificationsInOrder /\ NoneMeansNone /\ WokenFor

(* The invariant holds at the start.                                       *)
LEMMA InitInv == Init => Inv
<1> SUFFICES ASSUME Init
             PROVE  Inv
  OBVIOUS
<1> USE NotifiesAssumption
<1>1. got \in Seq(Numbers) /\ notes \in Seq(Numbers) /\ net \in Seq(Numbers)
  BY DEF Init
<1>2. TypeOK
  <2>1. Len(got) = 0
    BY EmptySeq DEF Init
  <2>2. /\ signals \in 0..MaxSignals /\ sent \in 0..MaxNotify
        /\ others \in 0..MaxOther
    BY DEF Init
  <2>3. Len(got) <= sent
    BY <2>1 DEF Init
  <2> QED
    BY <1>1, <2>2, <2>3 DEF Init, TypeOK, Numbers
<1>3. got \o notes \o net = <<>>
  BY <1>1, ConcatEmptySeq DEF Init
<1>4. NotificationsInOrder
  BY <1>3 DEF Init, NotificationsInOrder
<1> QED
  BY <1>2, <1>4 DEF Init, Inv, NoneMeansNone, WokenFor

(* A look changes the sequences as TakesFirst or ReadsBehind say, or ends  *)
(* the call.                                                               *)
LEMMA LookKeeps ==
    ASSUME Inv, NEW ACTION goOn, Look(goOn), UNCHANGED <<timeout, expired, signals, peer>>,
           goOn => pc' \in {"waiting", "ready"}
                   /\ outcome' \in {"none", "notification", "None", "raised"}
    PROVE  TypeOK' /\ NotificationsInOrder'
<1>0. got \in Seq(Numbers) /\ notes \in Seq(Numbers) /\ net \in Seq(Numbers)
  BY DEF Inv, TypeOK, Numbers
<1>1. /\ Len(got) \in Nat /\ Len(got) <= sent
      /\ sent \in Nat /\ Line(got, notes, net) = [i \in 1..sent |-> i]
  BY <1>0, LenProperties, NotifiesAssumption
     DEF Inv, TypeOK, NotificationsInOrder, Line
<1>2. CASE ~ConsumeOK
  BY <1>2 DEF Look, End, Inv, TypeOK, NotificationsInOrder, sock, peer
<1>3. CASE ConsumeOK /\ All # <<>>
  <2>1. /\ got' = Append(got, Head(notes \o net))
        /\ notes' = Tail(notes \o net) /\ net' = <<>>
        /\ UNCHANGED <<sent, link>>
        /\ other' = (other \/ noise) /\ noise' = FALSE
        /\ pc' = "ready" /\ outcome' = "notification"
    BY <1>3 DEF Look, End, All, Fetched, Kept, peer
  <2>2. Len(notes) + Len(net) # 0
    BY <1>0, <1>3, ConcatProperties, EmptySeq DEF All
  <2>3. /\ got' \in Seq(Numbers) /\ notes' \in Seq(Numbers)
        /\ Len(got') = Len(got) + 1
        /\ Line(got', notes', <<>>) = Line(got, notes, net)
    <3>1. /\ Given(got, notes, net) \in Seq(Numbers)
          /\ Left(notes, net) \in Seq(Numbers)
          /\ Len(Given(got, notes, net)) = Len(got) + 1
          /\ Line(Given(got, notes, net), Left(notes, net), <<>>)
               = Line(got, notes, net)
      BY <1>0, <2>2, TakesFirst
    <3>2. got' = Given(got, notes, net) /\ notes' = Left(notes, net)
      BY <2>1 DEF Given, Left
    <3> QED
      BY <3>1, <3>2
  <2>4. NotificationsInOrder'
    <3>1. Line(got', notes', net') = [i \in 1..sent' |-> i]
      BY <1>1, <2>1, <2>3
    <3> QED
      BY <3>1 DEF NotificationsInOrder, Line
  <2>5. Len(got') <= sent
    BY <1>1, <2>3, InLine
  <2>6. net' \in Seq(Numbers)
    BY <2>1
  <2> QED
    BY <2>1, <2>3, <2>4, <2>5, <2>6 DEF Inv, TypeOK, Numbers, peer
<1>4. CASE ConsumeOK /\ All = <<>>
  <2>1. /\ notes' = notes \o net /\ net' = <<>>
        /\ UNCHANGED <<got, sent, link>>
        /\ other' = (other \/ noise) /\ noise' = FALSE
        /\ goOn
    BY <1>4 DEF Look, All, Fetched, peer
  <2>2. notes' \in Seq(Numbers) /\ net' \in Seq(Numbers)
        /\ got' \o notes' \o net' = got \o notes \o net
    <3>1. /\ notes \o net \in Seq(Numbers)
          /\ got \o (notes \o net) \o <<>> = got \o notes \o net
      BY <1>0, ReadsBehind
    <3> QED
      BY <2>1, <3>1
  <2> QED
    BY <1>0, <1>1, <2>1, <2>2 DEF Inv, TypeOK, Numbers, NotificationsInOrder, peer
<1> QED
  BY <1>2, <1>3, <1>4

(* When nothing was fetched there was nothing on either side.              *)
LEMMA NothingThere ==
    ASSUME NEW a \in Seq(Numbers), NEW b \in Seq(Numbers), a \o b = <<>>
    PROVE  a = <<>> /\ b = <<>>
<1>1. Len(a \o b) = Len(a) + Len(b) /\ Len(a) \in Nat /\ Len(b) \in Nat
  BY ConcatProperties, LenProperties
<1>2. Len(a \o b) = 0
  BY EmptySeq
<1>3. Len(a) = 0 /\ Len(b) = 0
  BY <1>1, <1>2
<1> QED
  BY <1>3, EmptySeq

(* execute() puts what it reads behind what libpq holds.                   *)
LEMMA ExecutesKeeps ==
    ASSUME Inv, Executes
    PROVE  Inv'
<1>0. got \in Seq(Numbers) /\ notes \in Seq(Numbers) /\ net \in Seq(Numbers)
  BY DEF Inv, TypeOK, Numbers
<1>1. CASE ~ConsumeOK
  BY <1>1 DEF Executes, Inv, TypeOK, NotificationsInOrder, NoneMeansNone,
              WokenFor, Readable, prog, ended, sock, peer
<1>2. CASE ConsumeOK
  <2>1. /\ notes' = notes \o net /\ net' = <<>> /\ noise' = FALSE
        /\ UNCHANGED <<got, sent, link>> /\ UNCHANGED prog /\ UNCHANGED peer
    BY <1>2 DEF Executes, All, prog, peer
  <2>2. /\ notes' \in Seq(Numbers)
        /\ got' \o notes' \o net' = got \o notes \o net
    <3>1. /\ notes \o net \in Seq(Numbers)
          /\ got \o (notes \o net) \o <<>> = got \o notes \o net
      BY <1>0, ReadsBehind
    <3> QED
      BY <2>1, <3>1
  <2>3. NotificationsInOrder'
    BY <2>1, <2>2 DEF Inv, NotificationsInOrder
  <2>4. TypeOK'
    <3>1. notes' \in Seq(Numbers) /\ net' \in Seq(Numbers)
      BY <2>1, <2>2
    <3> QED
      BY <2>1, <3>1 DEF Inv, TypeOK, Numbers, prog, ended, peer
  <2>5. NoneMeansNone' /\ WokenFor'
    BY <2>1 DEF Executes, Inv, NoneMeansNone, WokenFor, prog, ended
  <2> QED
    BY <2>3, <2>4, <2>5 DEF Inv
<1> QED
  BY <1>1, <1>2

(* A notification goes to the end of the line.                             *)
LEMMA SendKeeps ==
    ASSUME Inv, Send
    PROVE  Inv'
<1>0. /\ got \in Seq(Numbers) /\ notes \in Seq(Numbers) /\ net \in Seq(Numbers)
      /\ sent \in Nat /\ sent < MaxNotify /\ MaxNotify \in Nat
      /\ Len(got) \in Nat /\ Len(got) <= sent
  BY NotifiesAssumption, LenProperties DEF Inv, TypeOK, Numbers, Send
<1>1. /\ net' = Append(net, sent + 1) /\ sent' = sent + 1
      /\ UNCHANGED <<got, notes, link, others>> /\ UNCHANGED prog
      /\ half' = FALSE /\ noise' = (noise /\ ~half)
  BY DEF Send, prog
<1>2. /\ net' \in Seq(Numbers)
      /\ got' \o notes' \o net' = [i \in 1..sent' |-> i]
  <2>1. /\ Append(net, sent + 1) \in Seq(Numbers)
        /\ got \o notes \o Append(net, sent + 1) = [i \in 1..(sent + 1) |-> i]
    <3>1. Line(got, notes, net) = UpTo(sent)
      BY DEF Inv, NotificationsInOrder, Line, UpTo
    <3>2. /\ Longer(net, sent) \in Seq(Numbers)
          /\ Line(got, notes, Longer(net, sent)) = UpTo(sent + 1)
      BY <1>0, <3>1, SendsBehind
    <3> QED
      BY <3>2 DEF Line, UpTo, Longer
  <2> QED
    BY <1>1, <2>1
<1>3. NotificationsInOrder'
  BY <1>2 DEF NotificationsInOrder
<1>4. TypeOK'
  <2>1. net' \in Seq(Numbers)
    BY <1>2
  <2>2. sent' \in 0..MaxNotify /\ Len(got') <= sent'
    BY <1>0, <1>1
  <2>3. half' \in BOOLEAN /\ noise' \in BOOLEAN
    BY <1>1 DEF Inv, TypeOK
  <2>4. /\ UNCHANGED <<pc, timeout, expired, outcome, other, signals>>
        /\ UNCHANGED <<got, notes, link, others>>
    BY <1>1 DEF prog, ended
  <2> QED
    BY <2>1, <2>2, <2>3, <2>4 DEF Inv, TypeOK, Numbers
<1>5. net' # <<>>
  BY <1>0, <1>1, AppendProperties
<1>6. NoneMeansNone' /\ WokenFor'
  BY <1>1, <1>5 DEF Inv, NoneMeansNone, WokenFor, Readable, prog, ended
<1> QED
  BY <1>3, <1>4, <1>6 DEF Inv

(* The look before the wait keeps the invariant.                           *)
LEMMA LookFirstKeeps ==
    ASSUME Inv, LookFirst
    PROVE  Inv'
<1>0. notes \in Seq(Numbers) /\ net \in Seq(Numbers)
  BY DEF Inv, TypeOK, Numbers
<1>1. TypeOK' /\ NotificationsInOrder'
  <2>1. GoOn("waiting") => /\ pc' \in {"waiting", "ready"}
                           /\ outcome' \in {"none", "notification", "None", "raised"}
    BY DEF GoOn, Inv, TypeOK
  <2> QED
    BY <2>1, LookKeeps DEF LookFirst
<1>2. CASE ~ConsumeOK
  <2>1. pc' = "ready" /\ outcome' = "raised"
    BY <1>2 DEF LookFirst, Look, End
  <2> QED
    BY <1>1, <2>1 DEF Inv, NoneMeansNone, WokenFor
<1>3. CASE ConsumeOK /\ All # <<>>
  <2>1. pc' = "ready" /\ outcome' = "notification"
    BY <1>3 DEF LookFirst, Look, End, Fetched
  <2> QED
    BY <1>1, <2>1 DEF Inv, NoneMeansNone, WokenFor
<1>4. CASE ConsumeOK /\ All = <<>>
  <2>1. pc' = "waiting" /\ notes' = <<>>
    BY <1>4 DEF LookFirst, Look, GoOn, Fetched
  <2> QED
    BY <1>1, <2>1 DEF Inv, NoneMeansNone, WokenFor
<1> QED
  BY <1>2, <1>3, <1>4

(* None after the wait: what woke the call was no whole notification.      *)
LEMMA LookAgainKeeps ==
    ASSUME Inv, LookAgain
    PROVE  Inv'
<1>0. notes \in Seq(Numbers) /\ net \in Seq(Numbers)
  BY DEF Inv, TypeOK, Numbers
<1>1. TypeOK' /\ NotificationsInOrder'
  <2>1. End("None") => /\ pc' \in {"waiting", "ready"}
                       /\ outcome' \in {"none", "notification", "None", "raised"}
    BY DEF End
  <2> QED
    BY <2>1, LookKeeps DEF LookAgain, AfterWait
<1>2. CASE ~ConsumeOK
  <2>1. pc' = "ready" /\ outcome' = "raised"
    BY <1>2 DEF LookAgain, AfterWait, Look, End
  <2> QED
    BY <1>1, <2>1 DEF Inv, NoneMeansNone, WokenFor
<1>3. CASE ConsumeOK /\ All # <<>>
  <2>1. pc' = "ready" /\ outcome' = "notification"
    BY <1>3 DEF LookAgain, AfterWait, Look, End, Fetched
  <2> QED
    BY <1>1, <2>1 DEF Inv, NoneMeansNone, WokenFor
<1>4. CASE ConsumeOK /\ All = <<>>
  <2>1. pc' = "ready" /\ other' = (other \/ noise)
    BY <1>4 DEF LookAgain, AfterWait, Look, End, Fetched
  <2>2. net = <<>>
    BY <1>0, <1>4, NothingThere DEF All
  <2>3. noise
    BY <1>4, <2>2 DEF LookAgain, Inv, WokenFor, Readable, ConsumeOK
  <2> QED
    BY <1>1, <2>1, <2>3 DEF Inv, NoneMeansNone, WokenFor
<1> QED
  BY <1>2, <1>3, <1>4

(* Every step keeps the invariant.                                         *)
LEMMA StepInv == Inv /\ [Next]_vars => Inv'
<1> SUFFICES ASSUME Inv, [Next]_vars
             PROVE  Inv'
  OBVIOUS
<1> USE DEF prog, ended, sock, peer
<1>1. ASSUME NEW t \in Timeouts, Notifies(t)
      PROVE  Inv'
  <2>1. timeout' \in {"forever", "finite", "bad"}
    BY <1>1, NotifiesAssumption DEF Notifies, Cast
  <2> QED
    BY <1>1, <2>1 DEF Notifies, Inv, TypeOK, NotificationsInOrder,
                      NoneMeansNone, WokenFor
<1>2. CASE LookFirst
  BY <1>2, LookFirstKeeps
<1>3. CASE SelectReads
  BY <1>3 DEF SelectReads, Inv, TypeOK, NotificationsInOrder, NoneMeansNone,
              WokenFor, Readable
<1>4. CASE SelectExpires
  BY <1>4 DEF SelectExpires, End, Inv, TypeOK, NotificationsInOrder,
              NoneMeansNone, WokenFor
<1>5. CASE SelectFails
  <2>1. signals' \in 0..MaxSignals
    BY <1>5, NotifiesAssumption DEF SelectFails, Inv, TypeOK
  <2> QED
    BY <1>5, <2>1 DEF SelectFails, End, Inv, TypeOK, NotificationsInOrder,
                      NoneMeansNone, WokenFor
<1>6. CASE LookAgain
  BY <1>6, LookAgainKeeps
<1>7. CASE Executes
  BY <1>7, ExecutesKeeps
<1>8. CASE Send
  BY <1>8, SendKeeps
<1>9. CASE SendHalf
  BY <1>9 DEF SendHalf, Inv, TypeOK, NotificationsInOrder, NoneMeansNone,
              WokenFor, Readable
<1>10. CASE SendOther
  <2>1. others' \in 0..MaxOther
    BY <1>10, NotifiesAssumption DEF SendOther, Inv, TypeOK
  <2> QED
    BY <1>10, <2>1 DEF SendOther, Inv, TypeOK, NotificationsInOrder,
                       NoneMeansNone, WokenFor, Readable
<1>11. ASSUME NEW how \in {"lost", "silent"}, Lose(how)
       PROVE  Inv'
  BY <1>11 DEF Lose, Inv, TypeOK, NotificationsInOrder, NoneMeansNone,
               WokenFor, Readable
<1>12. CASE UNCHANGED vars
  BY <1>12 DEF vars, Inv, TypeOK, NotificationsInOrder, NoneMeansNone,
               WokenFor, Readable
<1> QED
  BY <1>1, <1>2, <1>3, <1>4, <1>5, <1>6, <1>7, <1>8, <1>9, <1>10, <1>11, <1>12
     DEF Next, Calls, Waits, Peer

---------------------------------------------------------------------------
(***************************************************************************)
(* The theorems                                                            *)
(***************************************************************************)

(* The invariant holds in every state.                                     *)
LEMMA Invariant == Spec => []Inv
BY InitInv, StepInv, PTL DEF Spec

(* Each variable has its type, and the program was given no more than was  *)
(* sent.                                                                   *)
THEOREM NotifiesTypeCorrect == Spec => []TypeOK
<1>1. Inv => TypeOK
  BY DEF Inv
<1> QED
  BY <1>1, Invariant, PTL

(* No call of notifies() or execute(), however it ends, loses, repeats or  *)
(* reorders a notification.                                                *)
THEOREM OrderKept == Spec => []NotificationsInOrder
<1>1. Inv => NotificationsInOrder
  BY DEF Inv
<1> QED
  BY <1>1, Invariant, PTL

(* notifies() returns None only when its timeout is over or something that *)
(* is no whole notification woke it, and waits only when libpq holds none. *)
THEOREM NoneHonest == Spec => []NoneMeansNone
<1>1. Inv => NoneMeansNone
  BY DEF Inv
<1> QED
  BY <1>1, Invariant, PTL
=============================================================================
