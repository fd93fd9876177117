------------------------ MODULE SyncConnectionProofs ------------------------
(***************************************************************************)
(* Proofs about SyncConnection, for any number of calls and reads, any     *)
(* choice of methods, with or without session loss.                        *)
(***************************************************************************)
EXTENDS SyncConnection, TLAPS

Writers == {"execute", "row", "script"}
Verbs == {"write", "begin", "commit", "rollback", "copy"}

(* The values of the variables that are neither queries nor sets of rows.  *)
WordTypes ==
    /\ n \in 0..MaxCalls
    /\ method \in Methods \cup {"reset"}
    /\ phase \in {"ready", "send", "wait", "copying", "crashed"}
    /\ outcome \in {"none", "ok", "raised"}
    /\ reads \in 0..MaxReads
    /\ async \in {"idle", "busy", "copyin"}
    /\ xact \in {"idle", "intrans", "inerror"}
    /\ link \in {"ok", "bad"}
    /\ alive \in BOOLEAN
    /\ srv \in {"idle", "query", "copy", "copydone", "copyfail"}
    /\ reply \in {"none", "ok", "err", "copyin"}
    /\ rfq \in {"idle", "intrans", "inerror"}
    /\ txn \in {"idle", "intrans", "inerror"}

Query == Seq(Verbs)
QueryTypes == stmts \in Query /\ todo \in Query

(* libpq and the backend agree on who has to speak.                        *)
TurnInv ==
    /\ srv # "idle" => alive /\ async # "idle"
    /\ async = "idle" => reply = "none"
    /\ reply # "none" => async = "busy"
    /\ reply \in {"ok", "err"} => srv = "idle"
    /\ reply = "copyin" => phase = "wait" /\ method = "copy_from_csv"
                           /\ srv = IF alive THEN "copy" ELSE "idle"
    /\ phase = "wait" => async = "busy" /\ srv # "copydone" /\ srv # "copyfail"
    /\ phase = "crashed" => async = "idle"
    /\ srv = "query" =>
         phase = "wait" /\ todo \in StmtsOf(method) /\ reply = "none"
    /\ srv = "copy" => \/ async = "copyin" /\ reply = "none"
                       \/ phase = "wait" /\ reply = "copyin"
    /\ srv \in {"copydone", "copyfail"} => async = "busy" /\ reply = "none"
    /\ async = "copyin" => /\ phase \in {"ready", "send", "copying"}
                           /\ alive => srv = "copy"
    /\ phase = "copying" => async = "copyin" /\ method = "copy_from_csv"
    /\ phase \in {"send", "wait"} =>
         method \in Methods \ {"reset"} /\ stmts \in StmtsOf(method)
    /\ phase = "send" /\ method \in {"begin", "commit", "rollback"} =>
         async = "idle"
    /\ phase = "send" /\ method = "begin" => xact = "idle"
    /\ phase = "send" /\ method \in {"commit", "rollback"} => xact = "intrans"
    /\ phase = "wait" /\ reply = "ok" => method # "copy_from_csv"
    /\ srv = "copyfail" => phase = "send"
    /\ srv # "idle" /\ phase = "ready" /\ outcome = "ok" =>
         method = "copy_from_csv"

(* libpq's transaction status is the backend's, or about to become it.     *)
StatusInv ==
    /\ ~alive => work = {}
    /\ alive =>
      /\ reply \in {"ok", "err"} => txn = rfq
      /\ async = "idle" => txn = xact
      /\ srv \in {"copy", "copydone", "copyfail"} => txn = xact
      /\ phase = "wait" /\ method = "begin" =>
           IF reply = "ok" THEN txn = "intrans" /\ work = {} ELSE txn = "idle"
      /\ phase = "wait" /\ method \in {"commit", "rollback"} =>
           txn = IF reply = "none" THEN "intrans" ELSE "idle"
      /\ srv = "query" /\ method = "copy_from_csv" => txn = xact
      /\ txn = "idle" /\ (srv = "query" => method # "script") => work = {}
      /\ txn = "inerror" => work = {}
      /\ reply = "err" => txn # "intrans"
      /\ srv \in {"copy", "copydone"} => txn # "inerror"

(* Where the rows of calls that returned in the open transaction are.      *)
AckedInv ==
    /\ alive /\ txn = "intrans" =>
         acked \subseteq work \cup (IF srv = "copydone" THEN {copier} ELSE {})
    /\ alive /\ txn = "idle" /\ acked # {} =>
         phase = "wait" /\ method \in {"commit", "rollback"} /\ reply # "none"
    /\ xact = "idle" => acked = {}
    /\ reply \in {"ok", "err"} /\ rfq = "idle" /\ acked # {} =>
         phase = "wait" /\ method \in {"commit", "rollback"}
    /\ \A r \in acked : r \in db =>
         /\ phase = "wait" /\ method = "commit"
         /\ reply = "ok" \/ (reply = "none" /\ ~alive)
    /\ phase = "wait" /\ method = "commit" /\ reply = "ok" =>
         acked \subseteq db

(* Where the row of the current call is.                                   *)
CurrentInv ==
    /\ phase = "wait" /\ method \in Writers /\ reply = "ok" =>
         /\ rfq = "idle" => n \in db
         /\ alive /\ rfq = "intrans" => n \in work
         /\ rfq # "idle" => n \notin db
    /\ phase \in {"send", "copying"} => n \notin db \cup work
    /\ phase = "wait" /\ reply \in {"err", "copyin"} => n \notin db \cup work
    /\ phase = "wait" /\ srv = "query" => n \notin db
    /\ phase = "wait" /\ ~(method \in Writers) => n \notin db \cup work
    /\ phase \in {"send", "wait", "copying"} => n \notin undone

(* Rows that are known to be undone are not on their way.                  *)
UndoneInv ==
    /\ \A r \in undone : r \notin work /\ r \notin db
    /\ srv = "copydone" => copier \notin undone
    /\ srv = "copydone" => copier \notin db \cup work
    /\ srv = "copy" /\ phase \in {"wait", "copying"} => copier = n

(* Rows are named by the calls made so far.                                *)
MadeCalls == 1..n

RowsNamed ==
    /\ acked \subseteq MadeCalls /\ kept \subseteq MadeCalls
    /\ undone \subseteq MadeCalls /\ copied \subseteq MadeCalls
    /\ work \subseteq MadeCalls /\ db \subseteq MadeCalls
    /\ rejected \subseteq MadeCalls

CopierNamed ==
    /\ copier \in 0..n
    /\ srv \in {"copy", "copydone"} => copier > 0
    /\ srv = "copydone" /\ phase = "send" => copier < n
    /\ phase # "ready" => n > 0

SyncInv == /\ WordTypes /\ QueryTypes /\ TurnInv /\ StatusInv /\ AckedInv
           /\ CurrentInv /\ UndoneInv /\ RowsNamed /\ CopierNamed
           /\ KeptIsDurable /\ TransactionsDelimited

(* The methods that send a query.                                          *)
LEMMA Senders ==
  \A m \in Methods \ {"reset"} :
    m \in {"execute", "row", "script", "copy_from_csv", "begin", "commit",
           "rollback"}
  BY MethodsAssumption

(* A query is one statement, or the two of a script.                       *)
LEMMA Queries ==
  ASSUME NEW m \in Methods \ {"reset"}, NEW q \in StmtsOf(m)
  PROVE  \/ m \in {"execute", "row"} /\ q = <<"write">>
         \/ m = "script" /\ q \in {<<"write">>, <<"write", "write">>,
                                    <<"begin", "write">>}
         \/ m = "copy_from_csv" /\ q = <<"copy">>
         \/ m \in {"begin", "commit", "rollback"} /\ q = <<m>>
  BY Senders DEF StmtsOf

(* Statements a query may have.                                            *)
LEMMA QueryType ==
  /\ <<>> \in Query
  /\ \A m \in Methods \ {"reset"} : StmtsOf(m) \subseteq Query
<1>1. /\ <<>> \in Query
      /\ \A v \in Verbs : <<v>> \in Query
      /\ \A v, w \in Verbs : <<v, w>> \in Query
  BY DEF Query
<1>2. ASSUME NEW m \in Methods \ {"reset"}, NEW q \in StmtsOf(m)
      PROVE  q \in Query
  BY <1>1, <1>2, Queries DEF Verbs
<1> QED
  BY <1>1, <1>2

(* The first statement of a query and the rest of it.                      *)
LEMMA QueryTail ==
  ASSUME NEW m \in Methods \ {"reset"}, NEW q \in StmtsOf(m)
  PROVE  /\ Len(q) # 1 => m = "script" /\ Tail(q) \in StmtsOf(m)
         /\ Head(q) = "write" => m \in Writers
         /\ Head(q) = "begin" => \/ m = "begin" /\ Len(q) = 1
                                 \/ m = "script" /\ Len(q) # 1
         /\ Head(q) = "commit" => m = "commit" /\ Len(q) = 1
         /\ Head(q) = "rollback" => m = "rollback" /\ Len(q) = 1
         /\ Head(q) = "copy" => m = "copy_from_csv" /\ Len(q) = 1
<1>1. CASE m \in {"execute", "row"} /\ q = <<"write">>
  BY <1>1 DEF Writers
<1>2. CASE m = "script" /\ q = <<"write">>
  BY <1>2 DEF Writers
<1>3. CASE m = "script" /\ q = <<"write", "write">>
  BY <1>3 DEF Writers, StmtsOf
<1>4. CASE m = "script" /\ q = <<"begin", "write">>
  BY <1>4 DEF StmtsOf
<1>5. CASE m = "copy_from_csv" /\ q = <<"copy">>
  BY <1>5
<1>6. CASE m \in {"begin", "commit", "rollback"} /\ q = <<m>>
  BY <1>6
<1> QED
  BY <1>1, <1>2, <1>3, <1>4, <1>5, <1>6, Queries

(* A statement of a query fails, and the query is over.                    *)
LEMMA StatementFails ==
  ASSUME SyncInv, alive, srv = "query", method # "rollback",
         NEW t, t = (IF txn = "idle" \/ method = "commit" THEN "idle"
                     ELSE "inerror"),
         EndOfQuery("err", t, {}), copier' \in {copier, n},
         UNCHANGED <<prog, phase, outcome, reads, pq, alive, rejected, told>>
  PROVE  SyncInv'
<1>1. /\ WordTypes /\ QueryTypes /\ TurnInv /\ StatusInv /\ AckedInv
      /\ CurrentInv /\ UndoneInv /\ RowsNamed /\ CopierNamed
      /\ KeptIsDurable /\ TransactionsDelimited
  BY Zenon DEF SyncInv
<1>2. WordTypes'
  BY <1>1 DEF WordTypes, EndOfQuery, prog, pq
<1>3. QueryTypes'
  BY <1>1, QueryType DEF QueryTypes, EndOfQuery, prog
<1>4. TurnInv'
  BY <1>1 DEF TurnInv, EndOfQuery, prog, pq
<1>5. StatusInv'
  BY <1>1 DEF TurnInv, StatusInv, EndOfQuery, prog, pq
<1>6. AckedInv'
  BY <1>1 DEF TurnInv, AckedInv, EndOfQuery, prog, pq, told
<1>7. CurrentInv'
  BY <1>1 DEF CurrentInv, EndOfQuery, prog, told
<1>8. UndoneInv'
  BY <1>1 DEF UndoneInv, EndOfQuery, told
<1>9. RowsNamed'
  <2>1. MadeCalls' = MadeCalls
    BY <1>1 DEF MadeCalls, prog, EndOfQuery
  <2> QED
    BY <1>1, <2>1 DEF RowsNamed, EndOfQuery, told
<1>10. CopierNamed'
  BY <1>1 DEF CopierNamed, EndOfQuery, prog
<1>11. KeptIsDurable'
  BY <1>1 DEF KeptIsDurable, EndOfQuery, told
<1>12. TransactionsDelimited'
  BY <1>1 DEF TurnInv, TransactionsDelimited, JustReturned
<1> QED
  BY <1>2, <1>3, <1>4, <1>5, <1>6, <1>7, <1>8, <1>9, <1>10, <1>11, <1>12
  DEF SyncInv

(* The last statement of a query succeeds.                                 *)
LEMMA QueryDone ==
  ASSUME SyncInv, alive, srv = "query", NEW t, NEW w,
         \/ /\ method \in Writers /\ txn # "inerror"
            /\ t = txn /\ w = work \cup {n}
         \/ method = "begin" /\ t = "intrans" /\ w = work
         \/ method = "commit" /\ t = "idle" /\ w = work
         \/ method = "rollback" /\ t = "idle" /\ w = {},
         EndOfQuery("ok", t, w), copier' = copier,
         UNCHANGED <<prog, phase, outcome, reads, pq, alive, rejected, told>>
  PROVE  SyncInv'
<1>1. /\ WordTypes /\ QueryTypes /\ TurnInv /\ StatusInv /\ AckedInv
      /\ CurrentInv /\ UndoneInv /\ RowsNamed /\ CopierNamed
      /\ KeptIsDurable /\ TransactionsDelimited
  BY Zenon DEF SyncInv
<1>2. WordTypes'
  BY <1>1 DEF WordTypes, EndOfQuery, prog, pq
<1>3. QueryTypes'
  BY <1>1, QueryType DEF QueryTypes, EndOfQuery, prog
<1>4. TurnInv'
  BY <1>1 DEF TurnInv, EndOfQuery, prog, pq, Writers
<1>5. StatusInv'
  BY <1>1 DEF TurnInv, StatusInv, EndOfQuery, prog, pq, Writers
<1>6. AckedInv'
  BY <1>1
  DEF TurnInv, StatusInv, AckedInv, EndOfQuery, prog, pq, told, Writers
<1>7. CurrentInv'
  BY <1>1 DEF TurnInv, CurrentInv, EndOfQuery, prog, told, Writers
<1>8. UndoneInv'
  BY <1>1 DEF TurnInv, CurrentInv, UndoneInv, EndOfQuery, told
<1>9. RowsNamed'
  <2>1. MadeCalls' = MadeCalls
    BY <1>1 DEF MadeCalls, prog, EndOfQuery
  <2>2. phase # "ready" => n \in MadeCalls
    BY <1>1 DEF CopierNamed, WordTypes, MadeCalls
  <2>3. w \subseteq MadeCalls
    BY <1>1, <2>2 DEF RowsNamed, TurnInv
  <2> QED
    BY <1>1, <2>1, <2>3 DEF RowsNamed, EndOfQuery, told
<1>10. CopierNamed'
  BY <1>1 DEF CopierNamed, EndOfQuery, prog
<1>11. KeptIsDurable'
  BY <1>1 DEF KeptIsDurable, EndOfQuery, told
<1>12. TransactionsDelimited'
  BY <1>1 DEF TurnInv, TransactionsDelimited, JustReturned
<1> QED
  BY <1>2, <1>3, <1>4, <1>5, <1>6, <1>7, <1>8, <1>9, <1>10, <1>11, <1>12
  DEF SyncInv

(* A statement of a script succeeds, and another follows.                  *)
LEMMA StatementDone ==
  ASSUME SyncInv, alive, srv = "query", method = "script",
         txn # "inerror",
         \/ txn' = txn /\ work' = work \cup {n}
         \/ txn' = "intrans" /\ work' = work,
         todo' \in StmtsOf("script"),
         UNCHANGED <<srv, reply, rfq, db, copier>>,
         UNCHANGED <<prog, phase, outcome, reads, pq, alive, rejected, told>>
  PROVE  SyncInv'
<1>1. /\ WordTypes /\ QueryTypes /\ TurnInv /\ StatusInv /\ AckedInv
      /\ CurrentInv /\ UndoneInv /\ RowsNamed /\ CopierNamed
      /\ KeptIsDurable /\ TransactionsDelimited
  BY Zenon DEF SyncInv
<1>2. CopierNamed' /\ KeptIsDurable'
  BY <1>1 DEF CopierNamed, KeptIsDurable, prog, told
<1>3. WordTypes'
  BY <1>1 DEF WordTypes, prog, pq
<1>4. QueryTypes'
  BY <1>1, QueryType DEF QueryTypes, TurnInv, prog
<1>5. TurnInv'
  BY <1>1 DEF TurnInv, prog, pq
<1>6. StatusInv'
  BY <1>1 DEF TurnInv, StatusInv, prog, pq
<1>7. AckedInv'
  BY <1>1 DEF WordTypes, TurnInv, AckedInv, pq, told
<1>8. CurrentInv'
  BY <1>1 DEF TurnInv, CurrentInv, prog, told, Writers
<1>9. UndoneInv'
  BY <1>1 DEF TurnInv, CurrentInv, UndoneInv, told
<1>10. RowsNamed'
  <2>1. MadeCalls' = MadeCalls
    BY <1>1 DEF MadeCalls, prog
  <2>2. phase # "ready" => n \in MadeCalls
    BY <1>1 DEF CopierNamed, WordTypes, MadeCalls
  <2> QED
    BY <1>1, <2>1, <2>2 DEF RowsNamed, told, TurnInv
<1>11. TransactionsDelimited'
  BY <1>1 DEF TurnInv, TransactionsDelimited, JustReturned
<1> QED
  BY <1>2, <1>3, <1>4, <1>5, <1>6, <1>7, <1>8, <1>9, <1>10, <1>11 DEF SyncInv

(* A method is entered: nothing is known to be committed or undone that    *)
(* was not.                                                                *)
LEMMA CallKeeps ==
  ASSUME NEW m \in Methods \ {"reset"}, SyncInv, Call(m)
  PROVE  SyncInv'
<1>1. /\ WordTypes /\ QueryTypes /\ TurnInv /\ StatusInv /\ AckedInv
      /\ CurrentInv /\ UndoneInv /\ RowsNamed /\ CopierNamed
      /\ KeptIsDurable /\ TransactionsDelimited
  BY Zenon DEF SyncInv
<1>2. /\ phase = "ready" /\ n < MaxCalls /\ n' = n + 1
      /\ method' = m /\ stmts' \in StmtsOf(m)
      /\ UNCHANGED <<reads, pq, alive, backend, told>>
      /\ \/ phase' = "send" /\ outcome' = "none" /\ Sends(m)
         \/ phase' = "ready" /\ outcome' = "raised"
         \/ /\ phase' = "ready" /\ outcome' = "ok"
            /\ m \in {"commit", "rollback"} /\ TxnStatus = "idle"
  <2>1. CASE Sends(m)
    <3>1. ~ReturnsAtOnce(m)
      BY <2>1
      DEF Sends, ReturnsAtOnce, CommitSends, CommitReturns, RollbackSends,
          RollbackReturns
    <3> QED
      BY <2>1, <3>1 DEF Call, told
  <2>2. CASE ~Sends(m) /\ ReturnsAtOnce(m)
    <3>1. m \in {"commit", "rollback"} /\ TxnStatus = "idle"
      BY <2>2 DEF ReturnsAtOnce, CommitReturns, RollbackReturns
    <3>2. acked = {}
      BY <1>1, <3>1 DEF AckedInv, TxnStatus, WordTypes
    <3> QED
      BY <3>1, <3>2 DEF Call, told, EndCall, Concludes
  <2>3. CASE ~Sends(m) /\ ~ReturnsAtOnce(m)
    BY <2>3 DEF Call, told, EndCall
  <2> QED
    BY <2>1, <2>2, <2>3
<1>3. KeptIsDurable'
  BY <1>1, <1>2 DEF KeptIsDurable, data, backend, told
<1>4. WordTypes'
  BY <1>1, <1>2, SyncBoundsAssumption DEF WordTypes, pq, data, backend
<1>5. QueryTypes'
  BY <1>1, <1>2, QueryType DEF QueryTypes, backend
<1>6. TurnInv'
  BY <1>1, <1>2
  DEF TurnInv, Sends, BeginSends, CommitSends, RollbackSends, TxnStatus, pq,
      backend
<1>7. StatusInv'
  BY <1>1, <1>2 DEF TurnInv, StatusInv, pq, data, backend
<1>8. AckedInv'
  BY <1>1, <1>2 DEF AckedInv, pq, data, backend, told
<1>9. CurrentInv'
  BY <1>1, <1>2
  DEF WordTypes, CurrentInv, RowsNamed, MadeCalls, data, backend, told
<1>10. UndoneInv'
  BY <1>1, <1>2 DEF UndoneInv, data, backend, told
<1>11. RowsNamed'
  <2>1. MadeCalls \subseteq MadeCalls'
    BY <1>1, <1>2 DEF WordTypes, MadeCalls
  <2> QED
    BY <1>1, <1>2, <2>1 DEF RowsNamed, data, backend, told
<1>12. CopierNamed'
  BY <1>1, <1>2 DEF WordTypes, CopierNamed, backend
<1>13. TransactionsDelimited'
  BY <1>1, <1>2
  DEF StatusInv, TransactionsDelimited, JustReturned, TxnStatus, data,
      backend
<1> QED
  BY <1>3, <1>4, <1>5, <1>6, <1>7, <1>8, <1>9, <1>10, <1>11, <1>12, <1>13
  DEF SyncInv

(* reset() starts a session, which knows nothing of the old one.           *)
LEMMA ResetKeeps ==
  ASSUME SyncInv, Reset
  PROVE  SyncInv'
<1>1. /\ WordTypes /\ QueryTypes /\ TurnInv /\ StatusInv /\ AckedInv
      /\ CurrentInv /\ UndoneInv /\ RowsNamed /\ CopierNamed
      /\ KeptIsDurable /\ TransactionsDelimited
  BY Zenon DEF SyncInv
<1>2. alive' \in BOOLEAN
  BY Zenon DEF Reset
<1>3. WordTypes'
  BY <1>1, <1>2, SyncBoundsAssumption DEF WordTypes, Reset
<1>4. QueryTypes'
  BY <1>1, QueryType DEF QueryTypes, Reset
<1>5. TurnInv'
  BY DEF TurnInv, Reset
<1>6. StatusInv'
  BY DEF StatusInv, Reset
<1>7. AckedInv'
  BY DEF AckedInv, Reset
<1>8. CurrentInv'
  BY DEF CurrentInv, Reset
<1>9. UndoneInv'
  BY <1>1 DEF TurnInv, AckedInv, UndoneInv, Reset
<1>10. RowsNamed'
  <2>1. MadeCalls \subseteq MadeCalls'
    BY <1>1, <1>2 DEF WordTypes, MadeCalls, Reset
  <2>2. copier > 0 => copier \in MadeCalls
    BY <1>1 DEF CopierNamed, WordTypes, MadeCalls
  <2> QED
    BY <1>1, <2>1, <2>2 DEF RowsNamed, Reset, CopierNamed
<1>11. CopierNamed'
  BY <1>1 DEF WordTypes, CopierNamed, Reset
<1>12. KeptIsDurable'
  BY <1>1 DEF KeptIsDurable, Reset
<1>13. TransactionsDelimited'
  BY DEF TransactionsDelimited, JustReturned, Reset
<1> QED
  BY <1>3, <1>4, <1>5, <1>6, <1>7, <1>8, <1>9, <1>10, <1>11, <1>12, <1>13
  DEF SyncInv

(* PQexec ends a COPY that still wants data.                               *)
LEMMA DrainCopyKeeps ==
  ASSUME SyncInv, DrainCopy
  PROVE  SyncInv'
<1>1. /\ WordTypes /\ QueryTypes /\ TurnInv /\ StatusInv /\ AckedInv
      /\ CurrentInv /\ UndoneInv /\ RowsNamed /\ CopierNamed
      /\ KeptIsDurable /\ TransactionsDelimited
  BY Zenon DEF SyncInv
<1>2. /\ QueryTypes' /\ RowsNamed' /\ KeptIsDurable'
      /\ TransactionsDelimited'
  BY <1>1
  DEF QueryTypes, RowsNamed, KeptIsDurable, TransactionsDelimited, MadeCalls,
      JustReturned, DrainCopy, prog, data, told
<1>3. WordTypes'
  BY <1>1 DEF WordTypes, DrainCopy, prog, data
<1>4. TurnInv'
  BY <1>1 DEF TurnInv, DrainCopy, prog
<1>5. StatusInv'
  BY <1>1 DEF TurnInv, StatusInv, DrainCopy, data
<1>6. AckedInv'
  BY <1>1 DEF TurnInv, AckedInv, DrainCopy, data, told
<1>7. CurrentInv'
  BY <1>1 DEF CurrentInv, DrainCopy, prog, data, told
<1>8. UndoneInv'
  BY <1>1 DEF UndoneInv, DrainCopy, data, told
<1>9. CopierNamed'
  BY <1>1 DEF CopierNamed, DrainCopy, prog
<1> QED
  BY <1>2, <1>3, <1>4, <1>5, <1>6, <1>7, <1>8, <1>9 DEF SyncInv

(* PQexec throws away the result of an earlier COPY.                       *)
LEMMA DrainResultsKeeps ==
  ASSUME SyncInv, DrainResults
  PROVE  SyncInv'
<1>1. /\ WordTypes /\ QueryTypes /\ TurnInv /\ StatusInv /\ AckedInv
      /\ CurrentInv /\ UndoneInv /\ RowsNamed /\ CopierNamed
      /\ KeptIsDurable /\ TransactionsDelimited
  BY Zenon DEF SyncInv
<1>2. /\ QueryTypes' /\ UndoneInv' /\ RowsNamed' /\ CopierNamed'
      /\ KeptIsDurable' /\ TransactionsDelimited'
  BY <1>1
  DEF QueryTypes, UndoneInv, RowsNamed, CopierNamed, KeptIsDurable,
      TransactionsDelimited, MadeCalls, JustReturned, DrainResults, prog,
      data, told
<1>3. WordTypes'
  BY <1>1 DEF WordTypes, DrainResults, prog, data
<1>4. TurnInv'
  BY <1>1 DEF WordTypes, TurnInv, DrainResults, prog
<1>5. StatusInv'
  BY <1>1 DEF WordTypes, TurnInv, StatusInv, DrainResults, data
<1>6. AckedInv'
  BY <1>1 DEF WordTypes, TurnInv, AckedInv, DrainResults, data, told
<1>7. CurrentInv'
  BY <1>1 DEF CurrentInv, DrainResults, prog, data, told
<1> QED
  BY <1>2, <1>3, <1>4, <1>5, <1>6, <1>7 DEF SyncInv

(* PQexec finds the session gone.                                          *)
LEMMA DrainFailsKeeps ==
  ASSUME SyncInv, DrainFails
  PROVE  SyncInv'
<1>1. /\ WordTypes /\ QueryTypes /\ TurnInv /\ StatusInv /\ AckedInv
      /\ CurrentInv /\ UndoneInv /\ RowsNamed /\ CopierNamed
      /\ KeptIsDurable /\ TransactionsDelimited
  BY Zenon DEF SyncInv
<1>2. /\ QueryTypes' /\ AckedInv' /\ CurrentInv' /\ UndoneInv'
      /\ RowsNamed' /\ CopierNamed' /\ KeptIsDurable'
      /\ TransactionsDelimited'
  BY <1>1
  DEF QueryTypes, AckedInv, CurrentInv, UndoneInv, RowsNamed, CopierNamed,
      KeptIsDurable, TransactionsDelimited, MadeCalls, JustReturned,
      DrainFails, prog, data, backend, told
<1>3. WordTypes'
  BY <1>1 DEF WordTypes, DrainFails, prog, data, backend
<1>4. TurnInv'
  BY <1>1 DEF TurnInv, DrainFails, prog, backend
<1>5. StatusInv'
  BY <1>1 DEF StatusInv, DrainFails, data, backend
<1> QED
  BY <1>2, <1>3, <1>4, <1>5 DEF SyncInv

(* A query is sent, to a session that may have ended.                      *)
LEMMA SendKeeps ==
  ASSUME SyncInv, Send
  PROVE  SyncInv'
<1>1. /\ WordTypes /\ QueryTypes /\ TurnInv /\ StatusInv /\ AckedInv
      /\ CurrentInv /\ UndoneInv /\ RowsNamed /\ CopierNamed
      /\ KeptIsDurable /\ TransactionsDelimited
  BY Zenon DEF SyncInv
<1>2. RowsNamed' /\ KeptIsDurable'
  BY <1>1 DEF RowsNamed, KeptIsDurable, MadeCalls, Send, prog, data, told
<1>3. WordTypes'
  BY <1>1 DEF WordTypes, Send, prog, data
<1>4. QueryTypes'
  BY <1>1 DEF QueryTypes, Send, prog
<1>5. TurnInv'
  BY <1>1 DEF TurnInv, Send, prog
<1>6. StatusInv'
  BY <1>1 DEF TurnInv, StatusInv, Send, prog, data
<1>7. AckedInv'
  BY <1>1 DEF TurnInv, AckedInv, Send, data, told
<1>8. CurrentInv'
  BY <1>1 DEF TurnInv, CurrentInv, Send, prog, data, told
<1>9. UndoneInv'
  BY <1>1 DEF TurnInv, UndoneInv, Send, data, told
<1>10. CopierNamed'
  BY <1>1 DEF CopierNamed, Send, prog
<1>11. TransactionsDelimited'
  BY DEF TransactionsDelimited, JustReturned, Send
<1> QED
  BY <1>2, <1>3, <1>4, <1>5, <1>6, <1>7, <1>8, <1>9, <1>10, <1>11 DEF SyncInv

(* A query cannot be sent.                                                 *)
LEMMA SendFailsKeeps ==
  ASSUME SyncInv, SendFails
  PROVE  SyncInv'
<1>1. /\ WordTypes /\ QueryTypes /\ TurnInv /\ StatusInv /\ AckedInv
      /\ CurrentInv /\ UndoneInv /\ RowsNamed /\ CopierNamed
      /\ KeptIsDurable /\ TransactionsDelimited
  BY Zenon DEF SyncInv
<1>2. QueryTypes' /\ KeptIsDurable'
  BY <1>1 DEF QueryTypes, KeptIsDurable, SendFails, prog, data, backend
<1>3. WordTypes'
  BY <1>1 DEF WordTypes, SendFails, EndCall, prog, data, backend
<1>4. TurnInv'
  BY <1>1 DEF TurnInv, SendFails, EndCall, backend
<1>5. StatusInv'
  BY <1>1 DEF StatusInv, SendFails, data, backend
<1>6. AckedInv'
  BY DEF AckedInv, SendFails
<1>7. CurrentInv'
  BY DEF CurrentInv, SendFails, EndCall
<1>8. UndoneInv'
  BY <1>1 DEF UndoneInv, SendFails, EndCall, data, backend
<1>9. RowsNamed'
  <2>1. MadeCalls' = MadeCalls
    BY <1>1 DEF MadeCalls, prog, SendFails, EndCall
  <2> QED
    BY <1>1, <2>1 DEF RowsNamed, SendFails, data, backend
<1>10. CopierNamed'
  BY <1>1 DEF CopierNamed, SendFails, prog, backend
<1>11. TransactionsDelimited'
  BY DEF TransactionsDelimited, JustReturned, SendFails
<1> QED
  BY <1>2, <1>3, <1>4, <1>5, <1>6, <1>7, <1>8, <1>9, <1>10, <1>11 DEF SyncInv

(* The session ends while PQexec waits.                                    *)
LEMMA WaitFailsKeeps ==
  ASSUME SyncInv, WaitFails
  PROVE  SyncInv'
<1>1. /\ WordTypes /\ QueryTypes /\ TurnInv /\ StatusInv /\ AckedInv
      /\ CurrentInv /\ UndoneInv /\ RowsNamed /\ CopierNamed
      /\ KeptIsDurable /\ TransactionsDelimited
  BY Zenon DEF SyncInv
<1>2. QueryTypes' /\ KeptIsDurable'
  BY <1>1 DEF QueryTypes, KeptIsDurable, WaitFails, prog, data, backend
<1>3. WordTypes'
  BY <1>1 DEF WordTypes, WaitFails, ErrorResult, EndCall, prog, data, backend
<1>4. TurnInv'
  BY <1>1 DEF TurnInv, WaitFails, ErrorResult, EndCall, backend
<1>5. StatusInv'
  BY <1>1 DEF StatusInv, WaitFails, data, backend
<1>6. AckedInv'
  BY DEF AckedInv, WaitFails
<1>7. CurrentInv'
  BY DEF CurrentInv, WaitFails, ErrorResult, EndCall
<1>8. UndoneInv'
  BY <1>1 DEF UndoneInv, WaitFails, ErrorResult, EndCall, data, backend
<1>9. RowsNamed'
  <2>1. MadeCalls' = MadeCalls
    BY <1>1 DEF MadeCalls, prog, WaitFails, ErrorResult, ClearsTwice, EndCall
  <2> QED
    BY <1>1, <2>1 DEF RowsNamed, WaitFails, data, backend
<1>10. CopierNamed'
  BY <1>1 DEF CopierNamed, WaitFails, ErrorResult, EndCall, prog, backend
<1>11. TransactionsDelimited'
  BY DEF TransactionsDelimited, JustReturned, WaitFails
<1> QED
  BY <1>2, <1>3, <1>4, <1>5, <1>6, <1>7, <1>8, <1>9, <1>10, <1>11 DEF SyncInv

(* A method returns.                                                       *)
LEMMA ReturnsOKKeeps ==
  ASSUME SyncInv, ReturnsOK
  PROVE  SyncInv'
<1>1. /\ WordTypes /\ QueryTypes /\ TurnInv /\ StatusInv /\ AckedInv
      /\ CurrentInv /\ UndoneInv /\ RowsNamed /\ CopierNamed
      /\ KeptIsDurable /\ TransactionsDelimited
  BY Zenon DEF SyncInv
<1>2. method \in Writers \cup {"begin", "commit", "rollback"}
  BY <1>1, Senders DEF TurnInv, Writers, ReturnsOK, Answered
<1>3. QueryTypes'
  BY <1>1 DEF QueryTypes, ReturnsOK, Answered, prog
<1>4. WordTypes'
  BY <1>1 DEF WordTypes, ReturnsOK, Answered, prog, data
<1>5. TurnInv'
  BY <1>1 DEF TurnInv, ReturnsOK, Answered
<1>6. StatusInv'
  BY <1>1 DEF TurnInv, StatusInv, ReturnsOK, Answered, data
<1>7. AckedInv'
  BY <1>1, <1>2
  DEF StatusInv, AckedInv, CurrentInv, ReturnsOK, Answered, Concludes, data
<1>8. CurrentInv'
  BY DEF CurrentInv, ReturnsOK
<1>9. UndoneInv'
  BY <1>1
  DEF TurnInv, StatusInv, AckedInv, UndoneInv, ReturnsOK, Answered,
      Concludes, data
<1>10. RowsNamed'
  <2>1. MadeCalls' = MadeCalls
    BY <1>1 DEF MadeCalls, prog, ReturnsOK, Answered, Concludes
  <2>2. phase # "ready" => n \in MadeCalls
    BY <1>1 DEF CopierNamed, WordTypes, MadeCalls
  <2> QED
    BY <1>1, <2>1, <2>2 DEF RowsNamed, ReturnsOK, Answered, Concludes, data
<1>11. CopierNamed'
  BY <1>1 DEF CopierNamed, ReturnsOK, Answered, prog
<1>12. KeptIsDurable'
  BY <1>1, <1>2
  DEF AckedInv, CurrentInv, KeptIsDurable, ReturnsOK, Answered, Concludes,
      data
<1>13. TransactionsDelimited'
  BY <1>1
  DEF StatusInv, TransactionsDelimited, JustReturned, ReturnsOK, Answered,
      prog, data
<1> QED
  BY <1>3, <1>4, <1>5, <1>6, <1>7, <1>8, <1>9, <1>10, <1>11, <1>12, <1>13
  DEF SyncInv

(* row() raises although its statement succeeded.                          *)
LEMMA RowRaisesKeeps ==
  ASSUME SyncInv, RowRaises
  PROVE  SyncInv'
<1>1. /\ WordTypes /\ QueryTypes /\ TurnInv /\ StatusInv /\ AckedInv
      /\ CurrentInv /\ UndoneInv /\ RowsNamed /\ CopierNamed
      /\ KeptIsDurable /\ TransactionsDelimited
  BY Zenon DEF SyncInv
<1>2. QueryTypes' /\ RowsNamed' /\ KeptIsDurable'
  BY <1>1
  DEF QueryTypes, RowsNamed, KeptIsDurable, MadeCalls, RowRaises, Answered,
      prog, data
<1>3. WordTypes'
  BY <1>1 DEF WordTypes, RowRaises, Answered, EndCall, prog, data
<1>4. TurnInv'
  BY <1>1 DEF TurnInv, RowRaises, Answered, EndCall
<1>5. StatusInv'
  BY <1>1 DEF StatusInv, RowRaises, Answered, EndCall, data
<1>6. AckedInv'
  BY <1>1 DEF AckedInv, RowRaises, Answered, data
<1>7. CurrentInv'
  BY DEF CurrentInv, RowRaises, EndCall
<1>8. UndoneInv'
  BY <1>1 DEF UndoneInv, RowRaises, Answered, EndCall, data
<1>9. CopierNamed'
  BY <1>1 DEF CopierNamed, RowRaises, Answered, EndCall, prog
<1>10. TransactionsDelimited'
  BY DEF TransactionsDelimited, JustReturned, RowRaises, EndCall
<1> QED
  BY <1>2, <1>3, <1>4, <1>5, <1>6, <1>7, <1>8, <1>9, <1>10 DEF SyncInv

(* A method raises the error that the backend reported.                    *)
LEMMA ReturnsErrorKeeps ==
  ASSUME SyncInv, ReturnsError
  PROVE  SyncInv'
<1>1. /\ WordTypes /\ QueryTypes /\ TurnInv /\ StatusInv /\ AckedInv
      /\ CurrentInv /\ UndoneInv /\ RowsNamed /\ CopierNamed
      /\ KeptIsDurable /\ TransactionsDelimited
  BY Zenon DEF SyncInv
<1>2. QueryTypes' /\ KeptIsDurable'
  BY <1>1 DEF QueryTypes, KeptIsDurable, ReturnsError, Answered, prog, data
<1>3. WordTypes'
  BY <1>1
  DEF WordTypes, ReturnsError, Answered, ErrorResult, EndCall, prog, data
<1>4. TurnInv'
  BY <1>1 DEF TurnInv, ReturnsError, Answered, ErrorResult, EndCall
<1>5. StatusInv'
  BY <1>1
  DEF TurnInv, StatusInv, ReturnsError, Answered, ErrorResult, EndCall, data
<1>6. AckedInv'
  BY DEF AckedInv, ReturnsError
<1>7. CurrentInv'
  BY DEF CurrentInv, ReturnsError, ErrorResult, EndCall
<1>8. UndoneInv'
  BY <1>1
  DEF WordTypes, TurnInv, StatusInv, AckedInv, CurrentInv, UndoneInv,
      ReturnsError, Answered, data
<1>9. RowsNamed'
  <2>1. MadeCalls' = MadeCalls
    BY <1>1
    DEF MadeCalls, prog, ReturnsError, Answered, ErrorResult, ClearsTwice,
        EndCall
  <2>2. phase # "ready" => n \in MadeCalls
    BY <1>1 DEF CopierNamed, WordTypes, MadeCalls
  <2> QED
    BY <1>1, <2>1, <2>2 DEF RowsNamed, ReturnsError, Answered, data
<1>10. CopierNamed'
  BY <1>1 DEF CopierNamed, ReturnsError, Answered, ErrorResult, EndCall, prog
<1>11. TransactionsDelimited'
  BY
  DEF TransactionsDelimited, JustReturned, ReturnsError, ErrorResult, EndCall
<1> QED
  BY <1>2, <1>3, <1>4, <1>5, <1>6, <1>7, <1>8, <1>9, <1>10, <1>11 DEF SyncInv

(* The backend is ready for the data of a COPY.                            *)
LEMMA CopyStartsKeeps ==
  ASSUME SyncInv, CopyStarts
  PROVE  SyncInv'
<1>1. /\ WordTypes /\ QueryTypes /\ TurnInv /\ StatusInv /\ AckedInv
      /\ CurrentInv /\ UndoneInv /\ RowsNamed /\ CopierNamed
      /\ KeptIsDurable /\ TransactionsDelimited
  BY Zenon DEF SyncInv
<1>2. QueryTypes' /\ RowsNamed' /\ KeptIsDurable'
  BY <1>1
  DEF QueryTypes, RowsNamed, KeptIsDurable, MadeCalls, CopyStarts, prog,
      data, told
<1>3. WordTypes'
  BY <1>1 DEF WordTypes, CopyStarts, prog, data
<1>4. TurnInv'
  BY <1>1 DEF TurnInv, CopyStarts, prog
<1>5. StatusInv'
  BY <1>1 DEF TurnInv, StatusInv, CopyStarts, data
<1>6. AckedInv'
  BY <1>1 DEF TurnInv, AckedInv, CopyStarts, data, told
<1>7. CurrentInv'
  BY <1>1 DEF CurrentInv, CopyStarts, prog, data, told
<1>8. UndoneInv'
  BY <1>1 DEF UndoneInv, CopyStarts, prog, data, told
<1>9. CopierNamed'
  BY <1>1 DEF CopierNamed, CopyStarts, prog
<1>10. TransactionsDelimited'
  BY DEF TransactionsDelimited, JustReturned, CopyStarts
<1> QED
  BY <1>2, <1>3, <1>4, <1>5, <1>6, <1>7, <1>8, <1>9, <1>10 DEF SyncInv

(* Data of a COPY is sent.                                                 *)
LEMMA CopyDataKeeps ==
  ASSUME SyncInv, CopyData
  PROVE  SyncInv'
<1>1. /\ WordTypes /\ QueryTypes /\ TurnInv /\ StatusInv /\ AckedInv
      /\ CurrentInv /\ UndoneInv /\ RowsNamed /\ CopierNamed
      /\ KeptIsDurable /\ TransactionsDelimited
  BY Zenon DEF SyncInv
<1>2. /\ QueryTypes' /\ TurnInv' /\ StatusInv' /\ AckedInv'
      /\ CurrentInv' /\ UndoneInv' /\ RowsNamed' /\ CopierNamed'
      /\ KeptIsDurable' /\ TransactionsDelimited'
  BY <1>1
  DEF QueryTypes, TurnInv, StatusInv, AckedInv, CurrentInv, UndoneInv,
      RowsNamed, CopierNamed, KeptIsDurable, TransactionsDelimited,
      MadeCalls, JustReturned, CopyData, prog, pq, data, backend, told
<1>3. WordTypes'
  BY <1>1, SyncBoundsAssumption
  DEF WordTypes, CopyData, MoreData, prog, pq, data, backend
<1> QED
  BY <1>2, <1>3 DEF SyncInv

(* The source of a COPY fails.                                             *)
LEMMA CopyReadFailsKeeps ==
  ASSUME SyncInv, CopyReadFails
  PROVE  SyncInv'
<1>1. /\ WordTypes /\ QueryTypes /\ TurnInv /\ StatusInv /\ AckedInv
      /\ CurrentInv /\ UndoneInv /\ RowsNamed /\ CopierNamed
      /\ KeptIsDurable /\ TransactionsDelimited
  BY Zenon DEF SyncInv
<1>2. QueryTypes' /\ KeptIsDurable'
  BY <1>1 DEF QueryTypes, KeptIsDurable, CopyReadFails, prog, data
<1>3. WordTypes'
  BY <1>1 DEF WordTypes, CopyReadFails, SourceFails, EndCall, prog, data
<1>4. TurnInv'
  BY <1>1 DEF TurnInv, CopyReadFails, SourceFails, EndCall
<1>5. StatusInv'
  BY <1>1 DEF TurnInv, StatusInv, CopyReadFails, EndCall, data
<1>6. AckedInv'
  BY <1>1 DEF AckedInv, CopyReadFails, SourceFails, EndCall, data
<1>7. CurrentInv'
  BY DEF CurrentInv, CopyReadFails, EndCall
<1>8. UndoneInv'
  BY <1>1
  DEF TurnInv, CurrentInv, UndoneInv, CopyReadFails, SourceFails, EndCall,
      data
<1>9. RowsNamed'
  <2>1. MadeCalls' = MadeCalls
    BY <1>1 DEF MadeCalls, prog, CopyReadFails, SourceFails, EndCall
  <2>2. phase # "ready" => n \in MadeCalls
    BY <1>1 DEF CopierNamed, WordTypes, MadeCalls
  <2> QED
    BY <1>1, <2>1, <2>2 DEF RowsNamed, CopyReadFails, data
<1>10. CopierNamed'
  BY <1>1 DEF CopierNamed, CopyReadFails, SourceFails, EndCall, prog
<1>11. TransactionsDelimited'
  BY DEF TransactionsDelimited, JustReturned, CopyReadFails, EndCall
<1> QED
  BY <1>2, <1>3, <1>4, <1>5, <1>6, <1>7, <1>8, <1>9, <1>10, <1>11 DEF SyncInv

(* The data of a COPY cannot be sent.                                      *)
LEMMA CopyPutFailsKeeps ==
  ASSUME SyncInv, CopyPutFails
  PROVE  SyncInv'
<1>1. /\ WordTypes /\ QueryTypes /\ TurnInv /\ StatusInv /\ AckedInv
      /\ CurrentInv /\ UndoneInv /\ RowsNamed /\ CopierNamed
      /\ KeptIsDurable /\ TransactionsDelimited
  BY Zenon DEF SyncInv
<1>2. QueryTypes' /\ KeptIsDurable'
  BY <1>1 DEF QueryTypes, KeptIsDurable, CopyPutFails, prog, data, backend
<1>3. WordTypes'
  BY <1>1 DEF WordTypes, CopyPutFails, EndCall, prog, pq, data, backend
<1>4. TurnInv'
  BY <1>1 DEF TurnInv, CopyPutFails, EndCall, backend
<1>5. StatusInv'
  BY <1>1 DEF StatusInv, CopyPutFails, data, backend
<1>6. AckedInv'
  BY DEF AckedInv, CopyPutFails
<1>7. CurrentInv'
  BY DEF CurrentInv, CopyPutFails, EndCall
<1>8. UndoneInv'
  BY <1>1 DEF UndoneInv, CopyPutFails, EndCall, data, backend
<1>9. RowsNamed'
  <2>1. MadeCalls' = MadeCalls
    BY <1>1 DEF MadeCalls, prog, CopyPutFails, EndCall
  <2> QED
    BY <1>1, <2>1 DEF RowsNamed, CopyPutFails, data, backend
<1>10. CopierNamed'
  BY <1>1 DEF CopierNamed, CopyPutFails, EndCall, prog, backend
<1>11. TransactionsDelimited'
  BY DEF TransactionsDelimited, JustReturned, CopyPutFails
<1> QED
  BY <1>2, <1>3, <1>4, <1>5, <1>6, <1>7, <1>8, <1>9, <1>10, <1>11 DEF SyncInv

(* copy_from_csv returns at the end of its source.                         *)
LEMMA CopyEndsKeeps ==
  ASSUME SyncInv, CopyEnds
  PROVE  SyncInv'
<1>1. /\ WordTypes /\ QueryTypes /\ TurnInv /\ StatusInv /\ AckedInv
      /\ CurrentInv /\ UndoneInv /\ RowsNamed /\ CopierNamed
      /\ KeptIsDurable /\ TransactionsDelimited
  BY Zenon DEF SyncInv
<1>2. QueryTypes' /\ KeptIsDurable'
  BY <1>1 DEF QueryTypes, KeptIsDurable, CopyEnds, prog, data
<1>3. WordTypes'
  BY <1>1 DEF WordTypes, CopyEnds, prog, data
<1>4. TurnInv'
  BY <1>1 DEF TurnInv, CopyEnds, prog
<1>5. StatusInv'
  BY <1>1 DEF TurnInv, StatusInv, CopyEnds, data
<1>6. AckedInv'
  BY <1>1
  DEF TurnInv, StatusInv, AckedInv, CurrentInv, UndoneInv, CopyEnds, data
<1>7. CurrentInv'
  BY DEF CurrentInv, CopyEnds
<1>8. UndoneInv'
  BY <1>1 DEF TurnInv, CurrentInv, UndoneInv, CopyEnds, data
<1>9. RowsNamed'
  <2>1. MadeCalls' = MadeCalls
    BY <1>1 DEF MadeCalls, prog, CopyEnds, AtEndOfFile
  <2>2. phase # "ready" => n \in MadeCalls
    BY <1>1 DEF CopierNamed, WordTypes, MadeCalls
  <2> QED
    BY <1>1, <2>1, <2>2 DEF RowsNamed, CopyEnds, data
<1>10. CopierNamed'
  BY <1>1 DEF TurnInv, CopierNamed, CopyEnds, prog
<1>11. TransactionsDelimited'
  BY <1>1 DEF TurnInv, TransactionsDelimited, JustReturned, CopyEnds, prog
<1> QED
  BY <1>2, <1>3, <1>4, <1>5, <1>6, <1>7, <1>8, <1>9, <1>10, <1>11 DEF SyncInv

(* A statement that writes a row.                                          *)
LEMMA BackendWritesKeeps ==
  ASSUME SyncInv, BackendWrites
  PROVE  SyncInv'
<1>1. /\ srv = "query" /\ alive /\ phase = "wait"
      /\ method \in Methods \ {"reset"} /\ todo \in StmtsOf(method)
      /\ Head(todo) = "write"
      /\ UNCHANGED <<prog, phase, outcome, reads, pq, alive, rejected, told>>
  BY DEF SyncInv, TurnInv, BackendWrites, Executes
<1>2. /\ method \in Writers
      /\ Len(todo) # 1 => method = "script" /\ Tail(todo) \in StmtsOf("script")
  BY <1>1, QueryTail
<1>3. CASE Fails
  <2>1. method # "commit" /\ method # "rollback"
    BY <1>2 DEF Writers
  <2>2. copier' = copier
    BY DEF BackendWrites
  <2> QED
    BY <1>1, <1>3, <2>1, <2>2, StatementFails DEF Fails
<1>4. CASE ~Fails
  <2>1. txn # "inerror" /\ Succeeds(txn, work \cup {n}) /\ copier' = copier
    BY <1>4 DEF BackendWrites
  <2>2. CASE Len(todo) = 1
    <3>1. EndOfQuery("ok", txn, work \cup {n})
      BY <2>1, <2>2 DEF Succeeds
    <3> QED
      BY <1>1, <1>2, <2>1, <3>1, QueryDone
  <2>3. CASE Len(todo) # 1
    <3>1. /\ todo' = Tail(todo) /\ txn' = txn /\ work' = work \cup {n}
          /\ UNCHANGED <<srv, reply, rfq, db>>
      BY <2>1, <2>3 DEF Succeeds
    <3> QED
      BY <1>1, <1>2, <2>1, <2>3, <3>1, StatementDone
  <2> QED
    BY <2>2, <2>3
<1> QED
  BY <1>3, <1>4

(* A BEGIN, of begin() or of a script.                                     *)
LEMMA BackendBeginsKeeps ==
  ASSUME SyncInv, BackendBegins
  PROVE  SyncInv'
<1>1. /\ srv = "query" /\ alive /\ phase = "wait"
      /\ method \in Methods \ {"reset"} /\ todo \in StmtsOf(method)
      /\ Head(todo) = "begin"
      /\ UNCHANGED <<prog, phase, outcome, reads, pq, alive, rejected, told>>
  BY DEF SyncInv, TurnInv, BackendBegins, Executes
<1>2. /\ Len(todo) # 1 => method = "script" /\ Tail(todo) \in StmtsOf("script")
      /\ Len(todo) = 1 => method = "begin"
      /\ method \in {"begin", "script"}
  BY <1>1, QueryTail
<1>3. CASE Fails
  <2>1. copier' = copier
    BY DEF BackendBegins
  <2> QED
    BY <1>1, <1>2, <1>3, <2>1, StatementFails DEF Fails
<1>4. CASE ~Fails
  <2>1. txn # "inerror" /\ Succeeds("intrans", work) /\ copier' = copier
    BY <1>4 DEF BackendBegins
  <2>2. CASE Len(todo) = 1
    <3>1. EndOfQuery("ok", "intrans", work)
      BY <2>1, <2>2 DEF Succeeds
    <3> QED
      BY <1>1, <1>2, <2>1, <2>2, <3>1, QueryDone
  <2>3. CASE Len(todo) # 1
    <3>1. /\ todo' = Tail(todo) /\ txn' = "intrans" /\ work' = work
          /\ UNCHANGED <<srv, reply, rfq, db>>
      BY <2>1, <2>3 DEF Succeeds
    <3> QED
      BY <1>1, <1>2, <2>1, <2>3, <3>1, StatementDone
  <2> QED
    BY <2>2, <2>3
<1> QED
  BY <1>3, <1>4

(* A COMMIT, which may fail.                                               *)
LEMMA BackendCommitsKeeps ==
  ASSUME SyncInv, BackendCommits
  PROVE  SyncInv'
<1>1. /\ srv = "query" /\ alive /\ phase = "wait"
      /\ method \in Methods \ {"reset"} /\ todo \in StmtsOf(method)
      /\ Head(todo) = "commit"
      /\ UNCHANGED <<prog, phase, outcome, reads, pq, alive, rejected, told>>
  BY DEF SyncInv, TurnInv, BackendCommits, Executes
<1>2. method = "commit" /\ Len(todo) = 1
  BY <1>1, QueryTail
<1>3. txn = "intrans"
  BY <1>1, <1>2 DEF SyncInv, StatusInv, TurnInv
<1>4. CASE EndOfQuery("err", "idle", {})
  <2>1. copier' = copier
    BY DEF BackendCommits
  <2> QED
    BY <1>1, <1>2, <1>4, <2>1, StatementFails
<1>5. CASE ~EndOfQuery("err", "idle", {})
  <2>1. EndOfQuery("ok", "idle", work) /\ copier' = copier
    BY <1>2, <1>3, <1>5 DEF BackendCommits, Succeeds
  <2> QED
    BY <1>1, <1>2, <2>1, QueryDone
<1> QED
  BY <1>4, <1>5

(* A ROLLBACK.                                                             *)
LEMMA BackendRollsBackKeeps ==
  ASSUME SyncInv, BackendRollsBack
  PROVE  SyncInv'
<1>1. /\ srv = "query" /\ alive /\ phase = "wait"
      /\ method \in Methods \ {"reset"} /\ todo \in StmtsOf(method)
      /\ Head(todo) = "rollback"
      /\ UNCHANGED <<prog, phase, outcome, reads, pq, alive, rejected, told>>
  BY DEF SyncInv, TurnInv, BackendRollsBack, Executes
<1>2. method = "rollback" /\ Len(todo) = 1
  BY <1>1, QueryTail
<1>3. EndOfQuery("ok", "idle", {}) /\ copier' = copier
  BY <1>2 DEF BackendRollsBack, Succeeds
<1> QED
  BY <1>1, <1>2, <1>3, QueryDone

(* The backend asks for the data of a COPY.                                *)
LEMMA CopyAccepted ==
  ASSUME SyncInv, alive, srv = "query", method = "copy_from_csv",
         txn # "inerror",
         srv' = "copy", todo' = <<>>, reply' = "copyin", copier' = n,
         UNCHANGED <<rfq, data>>,
         UNCHANGED <<prog, phase, outcome, reads, pq, alive, rejected, told>>
  PROVE  SyncInv'
<1>1. /\ WordTypes /\ QueryTypes /\ TurnInv /\ StatusInv /\ AckedInv
      /\ CurrentInv /\ UndoneInv /\ RowsNamed /\ CopierNamed
      /\ KeptIsDurable /\ TransactionsDelimited
  BY Zenon DEF SyncInv
<1>2. RowsNamed' /\ KeptIsDurable' /\ TransactionsDelimited'
  BY <1>1
  DEF RowsNamed, KeptIsDurable, TransactionsDelimited, MadeCalls,
      JustReturned, prog, data, told
<1>3. WordTypes'
  BY <1>1 DEF WordTypes, prog, pq, data
<1>4. QueryTypes'
  BY <1>1, QueryType DEF QueryTypes, prog
<1>5. TurnInv'
  BY <1>1 DEF TurnInv, prog, pq
<1>6. StatusInv'
  BY <1>1 DEF StatusInv, prog, pq, data
<1>7. AckedInv'
  BY <1>1 DEF AckedInv, pq, data, told
<1>8. CurrentInv'
  BY <1>1 DEF CurrentInv, prog, data, told, Writers
<1>9. UndoneInv'
  BY <1>1 DEF UndoneInv, prog, data, told
<1>10. CopierNamed'
  BY <1>1 DEF WordTypes, TurnInv, CopierNamed, prog
<1> QED
  BY <1>2, <1>3, <1>4, <1>5, <1>6, <1>7, <1>8, <1>9, <1>10 DEF SyncInv

(* A COPY statement.                                                       *)
LEMMA BackendCopiesKeeps ==
  ASSUME SyncInv, BackendCopies
  PROVE  SyncInv'
<1>1. /\ srv = "query" /\ alive /\ phase = "wait"
      /\ method \in Methods \ {"reset"} /\ todo \in StmtsOf(method)
      /\ Head(todo) = "copy"
      /\ UNCHANGED <<prog, phase, outcome, reads, pq, alive, rejected, told>>
  BY DEF SyncInv, TurnInv, BackendCopies, Executes
<1>2. method = "copy_from_csv"
  BY <1>1, QueryTail
<1>3. CASE Fails
  <2>1. copier' = n
    BY DEF BackendCopies
  <2> QED
    BY <1>1, <1>2, <1>3, <2>1, StatementFails DEF Fails
<1>4. CASE ~Fails
  BY <1>1, <1>2, <1>4, CopyAccepted DEF BackendCopies
<1> QED
  BY <1>3, <1>4

(* The data of a COPY is good.                                             *)
LEMMA CopyCommitted ==
  ASSUME SyncInv, alive, srv = "copydone",
         EndOfQuery("ok", txn, work \cup {copier}),
         UNCHANGED <<prog, phase, outcome, reads, pq, alive, copier, rejected,
                     told>>
  PROVE  SyncInv'
<1>1. /\ WordTypes /\ QueryTypes /\ TurnInv /\ StatusInv /\ AckedInv
      /\ CurrentInv /\ UndoneInv /\ RowsNamed /\ CopierNamed
      /\ KeptIsDurable /\ TransactionsDelimited
  BY Zenon DEF SyncInv
<1>2. WordTypes'
  BY <1>1 DEF WordTypes, EndOfQuery, prog, pq
<1>3. QueryTypes'
  BY <1>1, QueryType DEF QueryTypes, EndOfQuery, prog
<1>4. TurnInv'
  BY <1>1 DEF TurnInv, EndOfQuery, prog, pq
<1>5. StatusInv'
  BY <1>1 DEF TurnInv, StatusInv, EndOfQuery, pq
<1>6. AckedInv'
  BY <1>1 DEF TurnInv, AckedInv, EndOfQuery, pq, told
<1>7. CurrentInv'
  BY <1>1 DEF TurnInv, CurrentInv, CopierNamed, EndOfQuery, prog, told
<1>8. UndoneInv'
  BY <1>1 DEF UndoneInv, EndOfQuery, told
<1>9. RowsNamed'
  <2>1. MadeCalls' = MadeCalls
    BY <1>1 DEF MadeCalls, prog, EndOfQuery
  <2>2. copier > 0 => copier \in MadeCalls
    BY <1>1 DEF CopierNamed, WordTypes, MadeCalls
  <2> QED
    BY <1>1, <2>1, <2>2 DEF RowsNamed, EndOfQuery, told, CopierNamed
<1>10. CopierNamed'
  BY <1>1 DEF CopierNamed, prog
<1>11. KeptIsDurable'
  BY <1>1 DEF KeptIsDurable, EndOfQuery, told
<1>12. TransactionsDelimited'
  BY <1>1 DEF TurnInv, TransactionsDelimited, JustReturned, prog
<1> QED
  BY <1>2, <1>3, <1>4, <1>5, <1>6, <1>7, <1>8, <1>9, <1>10, <1>11, <1>12
  DEF SyncInv

(* A COPY fails, for its data or as it was ended without.                  *)
LEMMA CopyRejected ==
  ASSUME SyncInv, alive, srv \in {"copydone", "copyfail"}, Fails,
         rejected' \in {rejected, rejected \cup {copier}},
         srv = "copyfail" => rejected' = rejected,
         UNCHANGED <<prog, phase, outcome, reads, pq, alive, copier, told>>
  PROVE  SyncInv'
<1>1. /\ WordTypes /\ QueryTypes /\ TurnInv /\ StatusInv /\ AckedInv
      /\ CurrentInv /\ UndoneInv /\ RowsNamed /\ CopierNamed
      /\ KeptIsDurable /\ TransactionsDelimited
  BY Zenon DEF SyncInv
<1>2. WordTypes'
  BY <1>1 DEF WordTypes, EndOfQuery, Fails, prog, pq
<1>3. QueryTypes'
  BY <1>1, QueryType DEF QueryTypes, EndOfQuery, Fails, prog
<1>4. TurnInv'
  BY <1>1 DEF TurnInv, EndOfQuery, Fails, prog, pq
<1>5. StatusInv'
  BY <1>1 DEF TurnInv, StatusInv, EndOfQuery, Fails, pq
<1>6. AckedInv'
  BY <1>1 DEF StatusInv, AckedInv, EndOfQuery, Fails, pq, told
<1>7. CurrentInv'
  BY <1>1 DEF TurnInv, CurrentInv, EndOfQuery, Fails, prog, told
<1>8. UndoneInv'
  BY <1>1 DEF UndoneInv, EndOfQuery, Fails, told
<1>9. RowsNamed'
  <2>1. MadeCalls' = MadeCalls
    BY <1>1 DEF MadeCalls, prog, EndOfQuery, Fails
  <2>2. copier > 0 => copier \in MadeCalls
    BY <1>1 DEF CopierNamed, WordTypes, MadeCalls
  <2> QED
    BY <1>1, <2>1, <2>2 DEF RowsNamed, EndOfQuery, Fails, told, CopierNamed
<1>10. CopierNamed'
  BY <1>1 DEF CopierNamed, EndOfQuery, Fails, prog
<1>11. KeptIsDurable'
  BY <1>1 DEF KeptIsDurable, EndOfQuery, Fails, told
<1>12. TransactionsDelimited'
  BY <1>1 DEF TurnInv, TransactionsDelimited, JustReturned, prog
<1> QED
  BY <1>2, <1>3, <1>4, <1>5, <1>6, <1>7, <1>8, <1>9, <1>10, <1>11, <1>12
  DEF SyncInv

(* The session ends.                                                       *)
LEMMA LoseKeeps ==
  ASSUME SyncInv, Lose
  PROVE  SyncInv'
<1>1. /\ WordTypes /\ QueryTypes /\ TurnInv /\ StatusInv /\ AckedInv
      /\ CurrentInv /\ UndoneInv /\ RowsNamed /\ CopierNamed
      /\ KeptIsDurable /\ TransactionsDelimited
  BY Zenon DEF SyncInv
<1>2. alive' \in BOOLEAN /\ reply' \in {"none", "ok", "err", "copyin"}
  BY <1>1 DEF Lose, WordTypes
<1>3. KeptIsDurable'
  BY <1>1 DEF KeptIsDurable, Lose, told
<1>4. WordTypes'
  BY <1>1, <1>2 DEF WordTypes, Lose, prog, pq
<1>5. QueryTypes'
  BY <1>1, QueryType DEF QueryTypes, Lose, prog
<1>6. TurnInv'
  BY <1>1 DEF TurnInv, Lose, prog, pq
<1>7. StatusInv'
  BY DEF StatusInv, Lose
<1>8. AckedInv'
  BY <1>1 DEF AckedInv, Lose, prog, pq, told
<1>9. CurrentInv'
  BY <1>1 DEF CurrentInv, Lose, prog, told
<1>10. UndoneInv'
  BY <1>1 DEF UndoneInv, Lose, told
<1>11. RowsNamed'
  <2>1. MadeCalls' = MadeCalls
    BY <1>1 DEF MadeCalls, prog, Lose
  <2> QED
    BY <1>1, <2>1 DEF RowsNamed, Lose, told
<1>12. CopierNamed'
  BY <1>1 DEF CopierNamed, Lose, prog
<1>13. TransactionsDelimited'
  BY DEF TransactionsDelimited, JustReturned, Lose
<1> QED
  BY <1>3, <1>4, <1>5, <1>6, <1>7, <1>8, <1>9, <1>10, <1>11, <1>12, <1>13
  DEF SyncInv

(* Every step of the program, of libpq and of the backend keeps SyncInv.   *)
LEMMA SyncStep == SyncInv /\ [Next]_vars => SyncInv'
<1> SUFFICES ASSUME SyncInv, [Next]_vars
             PROVE  SyncInv'
  OBVIOUS
<1>1. ASSUME NEW m \in Methods \ {"reset"}, Call(m)
      PROVE  SyncInv'
  BY <1>1, CallKeeps
<1>2. CASE Reset
  BY <1>2, ResetKeeps
<1>3. CASE Client
  BY <1>3, DrainCopyKeeps, DrainResultsKeeps, DrainFailsKeeps, SendKeeps,
      SendFailsKeeps, WaitFailsKeeps, ReturnsOKKeeps, RowRaisesKeeps,
      ReturnsErrorKeeps, CopyStartsKeeps, CopyDataKeeps, CopyPutFailsKeeps,
      CopyEndsKeeps
  DEF Client
<1>4. CASE CopyReadFails
  BY <1>4, CopyReadFailsKeeps
<1>5. CASE BackendCopyDone
  <2>1. CASE Fails
    BY <1>5, <2>1, CopyRejected DEF BackendCopyDone
  <2>2. CASE ~Fails
    BY <1>5, <2>2, CopyCommitted DEF BackendCopyDone
  <2> QED
    BY <2>1, <2>2
<1>6. CASE BackendCopyFails
  BY <1>6, CopyRejected DEF BackendCopyFails
<1>7. CASE Backend
  BY <1>5, <1>6, <1>7, BackendWritesKeeps, BackendBeginsKeeps,
      BackendCommitsKeeps, BackendRollsBackKeeps, BackendCopiesKeeps
  DEF Backend
<1>8. CASE Lose
  BY <1>8, LoseKeeps
<1>9. CASE UNCHANGED vars
  BY <1>9
  DEF vars, prog, pq, data, backend, told, SyncInv, WordTypes, QueryTypes,
      TurnInv, StatusInv, AckedInv, CurrentInv, UndoneInv, RowsNamed,
      MadeCalls, CopierNamed, KeptIsDurable, TransactionsDelimited,
      JustReturned
<1> QED
  BY <1>1, <1>2, <1>3, <1>4, <1>7, <1>8, <1>9 DEF Next, Terminating

(* Before the first call nothing is written, said or on its way.           *)
LEMMA SyncInit == Init => SyncInv
<1> SUFFICES ASSUME Init
             PROVE  SyncInv
  OBVIOUS
<1>1. QueryTypes
  BY QueryType DEF Init, QueryTypes
<1>2. WordTypes /\ CopierNamed
  BY SyncBoundsAssumption DEF Init, WordTypes, CopierNamed
<1>3. TurnInv /\ StatusInv
  BY DEF Init, TurnInv, StatusInv
<1>4. AckedInv /\ CurrentInv /\ UndoneInv /\ RowsNamed
  BY DEF Init, AckedInv, CurrentInv, UndoneInv, RowsNamed, Writers
<1>5. KeptIsDurable /\ TransactionsDelimited
  BY DEF Init, KeptIsDurable, TransactionsDelimited, JustReturned
<1> QED
  BY <1>1, <1>2, <1>3, <1>4, <1>5 DEF SyncInv

(* The invariant holds of every program, whatever the backend and the      *)
(* network do.                                                             *)
LEMMA SyncAlways == Spec => []SyncInv
  BY SyncInit, SyncStep, PTL DEF Spec

(* The types follow from the invariant: the calls made so far are some of  *)
(* the calls.                                                              *)
LEMMA SyncTypes == SyncInv => TypeOK
<1> SUFFICES ASSUME SyncInv
             PROVE  TypeOK
  OBVIOUS
<1>1. WordTypes /\ QueryTypes /\ RowsNamed /\ CopierNamed
  BY DEF SyncInv
<1>2. MadeCalls \subseteq Rows /\ copier \in 0..MaxCalls
  BY <1>1, SyncBoundsAssumption DEF WordTypes, CopierNamed, MadeCalls, Rows
<1>3. ProgTypes
  BY <1>1 DEF WordTypes, QueryTypes, Query, Verbs, ProgTypes
<1>4. BackendTypes
  BY <1>1, <1>2
  DEF WordTypes, QueryTypes, Query, Verbs, RowsNamed, BackendTypes
<1>5. ToldTypes
  BY <1>1, <1>2 DEF RowsNamed, ToldTypes
<1> QED
  BY <1>3, <1>4, <1>5 DEF TypeOK

---------------------------------------------------------------------------
(* Every variable keeps its type.                                          *)
THEOREM SyncTypeCorrect == Spec => []TypeOK
  BY SyncAlways, SyncTypes, PTL

(* What a program was told is committed, by commit() or by a statement     *)
(* that returned outside of a transaction, is in the database.             *)
THEOREM CommitsAreKept == Spec => []KeptIsDurable
<1>1. SyncInv => KeptIsDurable
  BY DEF SyncInv
<1> QED
  BY <1>1, SyncAlways, PTL

(* What a program was told is undone, by rollback(), by an error or by a   *)
(* copy whose source failed, never gets into the database.                 *)
THEOREM UndoneStays == Spec => []UndoneStaysOut
<1>1. SyncInv => UndoneStaysOut
  BY DEF SyncInv, UndoneInv, UndoneStaysOut
<1> QED
  BY <1>1, SyncAlways, PTL

(* A transaction that begin() started holds nothing of what was done       *)
(* before, and none is open when commit() or rollback() has returned.      *)
THEOREM DelimitedTransactions == Spec => []TransactionsDelimited
<1>1. SyncInv => TransactionsDelimited
  BY DEF SyncInv
<1> QED
  BY <1>1, SyncAlways, PTL
=============================================================================
