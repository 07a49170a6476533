-------------------------- MODULE DbServiceProofs --------------------------
(* Proofs about DbService, for any set of queries, requests and initial     *)
(* tables, any number of crashes and any statement that throws.             *)
EXTENDS DbService, TLAPS

(***************************************************************************)
(* That no name is stored twice rests on the router: Serial says that one  *)
(* dealer at most is under way, so that between the count and the insert   *)
(* of a registration (Fresh) nobody else writes Users.  Conns says where   *)
(* the only connection is.  Told carries the row of an accepted            *)
(* registration through the dealer's ret to its reply; Unasked is what it  *)
(* needs of queries that have not been sent.                               *)
(***************************************************************************)
Jobs == [step : {"none", "open", "sql", "insert", "trigger", "missed"},
         i : Int, conn : Nat, waiting : BOOLEAN]

Shape ==
  /\ users \in Seq(UserRows)
  /\ request \in [Queries -> Requests \cup {NoRequest}]
  /\ job \in [Queries -> Jobs]
  /\ ret = [q \in Queries |-> ret[q]]
  /\ reply = [q \in Queries |-> reply[q]]
  /\ inbox \in Seq(Queries)

Serial == \A p, q \in Queries : job[p].step # "none" /\ job[q].step # "none" => p = q

AtWork(q) == job[q].step \in {"sql", "insert"}

Conns ==
  /\ made = 1
  /\ \A q \in Queries : job[q].conn = IF AtWork(q) THEN 1 ELSE 0
  /\ idle = IF \E q \in Queries : AtWork(q) THEN {} ELSE {1}

Fresh ==
  \A q \in Queries :
    (job[q].step = "insert" /\ request[q].op = "Regist") => ~ Named(users, request[q].name)

Told ==
  \A q \in Queries :
    (request[q].op = "Regist" /\ (ret[q].code = "ok" \/ reply[q].code = "ok"))
      => Has(users, UserRow(request[q]))

Unasked ==
  /\ \A q \in Queries : request[q] = NoRequest
       => job[q].step = "none" /\ ret[q] = NoReply /\ reply[q] = NoReply
  /\ \A k \in DOMAIN inbox : request[inbox[k]] # NoRequest

DbInv == Shape /\ Serial /\ Conns /\ Fresh /\ Told /\ Unasked /\ NamesUnique

(* A started service with an empty inbox satisfies the invariant. *)
LEMMA InitDbInv == DbInit => DbInv
  <1> SUFFICES ASSUME DbInit PROVE DbInv
    OBVIOUS
  <1>1. users \in Seq(UserRows) /\ NamesUnique
    BY DbAssumption DEF DbInit, NamesUnique
  <1>2. job \in [Queries -> Jobs]
    BY DEF DbInit, NoJob, Jobs
  <1>3. Shape
    BY <1>1, <1>2 DEF DbInit, Shape
  <1>4. Serial /\ Conns /\ Fresh
    BY DEF DbInit, Started, Serial, Conns, AtWork, Fresh, NoJob
  <1>5. Told /\ Unasked
    BY DEF DbInit, Told, Unasked, NoRequest, NoReply, NoJob
  <1> QED
    BY <1>1, <1>3, <1>4, <1>5 DEF DbInv

(* A query that arrives is one that was not asked before. *)
LEMMA ArriveKeeps ==
  ASSUME DbInv, NEW q \in Queries, NEW r \in Requests, Arrive(q, r)
  PROVE  DbInv'
  <1> USE DEF DbInv
  <1>1. Shape'
    BY DEF Arrive, Shape
  <1>2. Serial' /\ Conns' /\ NamesUnique'
    BY DEF Arrive, Serial, Conns, AtWork, NamesUnique
  <1>3. Fresh' /\ Told'
    <2>1. job[q].step = "none" /\ ret[q].code # "ok" /\ reply[q].code # "ok"
      BY DEF Arrive, Unasked, NoReply
    <2> QED
      BY <2>1 DEF Arrive, Shape, Fresh, Told, Named, Has, UserRow
  <1>4. Unasked'
    <2>1. r # NoRequest
      BY DbAssumption DEF NoRequest
    <2> QED
      BY <2>1 DEF Arrive, Shape, Unasked
  <1> QED
    BY <1>1, <1>2, <1>3, <1>4

(* The router takes a query only when no dealer is under way. *)
LEMMA TakeKeeps ==
  ASSUME DbInv, RouterTake
  PROVE  DbInv'
  <1> USE DEF DbInv
  <1> DEFINE q == Head(inbox)
  <1>1. q \in Queries /\ q = inbox[1] /\ 1 \in DOMAIN inbox
    BY DEF Shape, RouterTake
  <1>2. \A p \in Queries : job[p].step = "none"
    BY DEF RouterTake, RouterFree, Active
  <1>3. /\ UNCHANGED << users, request, ret, idle, made >>
        /\ inbox' = Tail(inbox)
        /\ \/ UNCHANGED job /\ reply' = [reply EXCEPT ![q] = Rep("invalidJson")]
           \/ job' = [job EXCEPT ![q].step = "open"] /\ UNCHANGED reply
    BY DEF RouterTake
  <1> HIDE DEF q
  <1>4. \A p \in Queries : p # q => job'[p] = job[p] /\ reply'[p] = reply[p]
    BY <1>1, <1>3 DEF Shape
  <1>5. job'[q].step \in {"none", "open"} /\ job'[q].conn = job[q].conn
    BY <1>1, <1>2, <1>3 DEF Shape, Jobs
  <1>6. reply'[q] = reply[q] \/ reply'[q].code # "ok"
    BY <1>1, <1>3 DEF Shape, Rep
  <1>7. inbox' \in Seq(Queries) /\ \A k \in DOMAIN inbox' : k + 1 \in DOMAIN inbox /\ inbox'[k] = inbox[k + 1]
    BY <1>1, <1>3 DEF Shape
  <1>8. Shape'
    <2>1. job' \in [Queries -> Jobs]
      <3>1. job[q] \in Jobs
        BY <1>1 DEF Shape
      <3>2. [job[q] EXCEPT !.step = "open"] \in Jobs
        BY <3>1 DEF Jobs
      <3> QED
        BY <1>3, <3>2 DEF Shape
    <2> QED
      BY <1>1, <1>3, <1>7, <2>1 DEF Shape
  <1>9. Serial' /\ Fresh' /\ NamesUnique'
    BY <1>2, <1>3, <1>4, <1>5 DEF Serial, Fresh, NamesUnique, Named
  <1>10. Conns'
    BY <1>2, <1>3, <1>4, <1>5 DEF Conns, AtWork
  <1>11. Told'
    BY <1>3, <1>4, <1>6 DEF Told, Has, UserRow
  <1>12. Unasked'
    BY <1>1, <1>3, <1>4, <1>7 DEF Unasked
  <1> QED
    BY <1>8, <1>9, <1>10, <1>11, <1>12

(* Waiting for the event, and the event. *)
LEMMA EventKeeps ==
  ASSUME DbInv, NEW q \in Queries, AsyncWait(q) \/ Trigger(q)
  PROVE  DbInv'
  <1> USE DEF DbInv
  <1>1. /\ UNCHANGED << users, request, idle, made, inbox >>
        /\ \A p \in Queries : p # q => /\ job'[p] = job[p] /\ reply'[p] = reply[p]
                                       /\ ret'[p] = ret[p]
    BY DEF AsyncWait, Trigger, Shape
  <1>2. /\ job[q].step # "none" /\ job'[q].conn = job[q].conn
        /\ AtWork(q)' = AtWork(q)
        /\ job'[q].step = "insert" => job[q].step = "insert"
        /\ job' \in [Queries -> Jobs]
    <2>1. CASE AsyncWait(q)
      BY <2>1 DEF AsyncWait, Shape, Jobs, AtWork
    <2>2. CASE Trigger(q)
      <3>1. job[q].step = "trigger" /\ job[q].conn = 0
        BY <2>2 DEF Trigger, Conns, AtWork
      <3> QED
        <4>1. job[q] \in Jobs /\ NoJob \in Jobs
          BY DEF Shape, Jobs, NoJob
        <4>2. [job[q] EXCEPT !.step = "missed"] \in Jobs
          BY <4>1 DEF Jobs
        <4>3. \/ job' = [job EXCEPT ![q] = NoJob]
              \/ job' = [job EXCEPT ![q] = [job[q] EXCEPT !.step = "missed"]]
          BY <2>2 DEF Trigger
        <4>4. job' \in [Queries -> Jobs]
          BY <4>1, <4>2, <4>3 DEF Shape
        <4>5. \/ job'[q] = NoJob
              \/ job'[q] = [job[q] EXCEPT !.step = "missed"]
          BY <4>3 DEF Shape
        <4>6. job'[q].step \in {"none", "missed"} /\ job'[q].conn = 0
          BY <3>1, <4>1, <4>5 DEF NoJob, Jobs
        <4> QED
          BY <3>1, <4>4, <4>6 DEF AtWork
    <2> QED
      BY <2>1, <2>2
  <1>3. /\ ret' = [p \in Queries |-> ret'[p]]
        /\ reply' = [p \in Queries |-> reply'[p]]
        /\ reply'[q] = reply[q] \/ reply'[q] = ret[q]
        /\ ret'[q] = ret[q] \/ ret'[q] = NoReply
    BY DEF AsyncWait, Trigger, Shape
  <1>4. Shape'
    BY <1>1, <1>2, <1>3 DEF Shape
  <1>5. Serial' /\ Fresh' /\ NamesUnique'
    BY <1>1, <1>2 DEF Serial, Fresh, NamesUnique, Named
  <1>6. Conns'
    BY <1>1, <1>2 DEF Conns, AtWork
  <1>7. Told'
    BY <1>1, <1>3 DEF Told, Has, UserRow, NoReply
  <1>8. Unasked'
    BY <1>1, <1>2, <1>3 DEF Unasked
  <1> QED
    BY <1>4, <1>5, <1>6, <1>7, <1>8

(* DBManager::GetConn finds the connection idle: no other dealer has it. *)
LEMMA OpenKeeps ==
  ASSUME DbInv, NEW q \in Queries, OpenDb(q)
  PROVE  DbInv'
  <1> USE DEF DbInv
  <1>1. job[q].step = "open" /\ \A p \in Queries : p # q => job[p].step = "none"
    BY DEF OpenDb, Serial
  <1>2. idle = {1} /\ (CHOOSE x \in idle : TRUE) = 1
    BY <1>1 DEF Conns, AtWork
  <1>3. /\ made' = made /\ idle' = {}
        /\ job' = [job EXCEPT ![q] =
                     [step |-> "sql", i |-> 1, conn |-> 1, waiting |-> job[q].waiting]]
        /\ UNCHANGED << users, inbox, request, ret, reply >>
    BY <1>2 DEF OpenDb
  <1>4. /\ job' \in [Queries -> Jobs]
        /\ job'[q].step = "sql" /\ job'[q].conn = 1
        /\ \A p \in Queries : p # q => job'[p] = job[p]
    <2>1. job[q] \in Jobs
      BY DEF Shape
    <2> DEFINE new == [step |-> "sql", i |-> 1, conn |-> 1, waiting |-> job[q].waiting]
    <2>2. new \in Jobs /\ new.step = "sql" /\ new.conn = 1
      BY <2>1 DEF Jobs
    <2>3. job' = [job EXCEPT ![q] = new]
      BY <1>3
    <2> HIDE DEF new
    <2> QED
      BY <2>2, <2>3 DEF Shape
  <1>5. Shape' /\ Serial' /\ Fresh' /\ NamesUnique'
    BY <1>1, <1>3, <1>4 DEF Shape, Serial, Fresh, NamesUnique, Named
  <1>6. Conns'
    BY <1>1, <1>3, <1>4 DEF Conns, AtWork
  <1>7. Told' /\ Unasked'
    BY <1>1, <1>3, <1>4 DEF Told, Unasked, Has, UserRow
  <1> QED
    BY <1>5, <1>6, <1>7

(* A dealer that ends without writing Users, and does not say ok to a       *)
(* registration, keeps the invariant.                                       *)
LEMMA FinishKeeps ==
  ASSUME DbInv, NEW q \in Queries, NEW rep, AtWork(q), Finish(q, rep), users' = users,
         request[q].op = "Regist" => rep.code # "ok"
  PROVE  DbInv'
  <1> USE DEF DbInv
  <1>1. job[q].step # "none" /\ \A p \in Queries : p # q => job[p].step = "none"
    BY DEF AtWork, Serial
  <1>2. /\ job' \in [Queries -> Jobs]
        /\ job'[q].step = "trigger" /\ job'[q].conn = 0
        /\ \A p \in Queries : p # q => job'[p] = job[p] /\ ret'[p] = ret[p]
        /\ ret' = [p \in Queries |-> ret'[p]] /\ ret'[q] = rep
        /\ UNCHANGED << made, inbox, request, reply >>
    BY DEF Finish, Shape, Jobs
  <1>3. idle' = {1}
    BY DEF Finish, Conns, AtWork
  <1>4. Shape' /\ Serial' /\ Fresh' /\ NamesUnique'
    BY <1>1, <1>2 DEF Shape, Serial, Fresh, NamesUnique, Named
  <1>5. Conns'
    BY <1>1, <1>2, <1>3 DEF Conns, AtWork
  <1>6. Told' /\ Unasked'
    BY <1>1, <1>2 DEF Told, Unasked, Has, UserRow
  <1> QED
    BY <1>4, <1>5, <1>6

(* So does a dealer that goes on to its next statement, as long as the next *)
(* is not the insertion of a name that is there.                            *)
LEMMA GoOnKeeps ==
  ASSUME DbInv, NEW q \in Queries, NEW step \in {"sql", "insert"}, NEW i \in Int,
         AtWork(q), GoOn(q, step, i), users' = users,
         (step = "insert" /\ request[q].op = "Regist") => ~ Named(users, request[q].name)
  PROVE  DbInv'
  <1> USE DEF DbInv
  <1>1. /\ job' \in [Queries -> Jobs]
        /\ job'[q].step = step /\ job'[q].conn = job[q].conn
        /\ \A p \in Queries : p # q => job'[p] = job[p]
        /\ UNCHANGED << idle, made, inbox, request, ret, reply >>
    BY DEF GoOn, Shape, Jobs
  <1>2. Shape' /\ Serial' /\ NamesUnique'
    BY <1>1 DEF Shape, Serial, NamesUnique, AtWork
  <1>3. Conns'
    BY <1>1 DEF Conns, AtWork
  <1>4. Fresh'
    BY <1>1 DEF Fresh, Named
  <1>5. Told' /\ Unasked'
    BY <1>1 DEF Told, Unasked, Has, UserRow, AtWork
  <1> QED
    BY <1>2, <1>3, <1>4, <1>5

(* The insertion of a registration: the name was counted by the same dealer *)
(* and nobody has written Users since.                                      *)
LEMMA InsertKeeps ==
  ASSUME DbInv, NEW q \in Queries, InsertUser(q)
  PROVE  DbInv'
  <1> USE DEF DbInv
  <1> DEFINE row == UserRow(request[q])
  <1>1. /\ job[q].step = "insert" /\ request[q].op = "Regist"
        /\ users' = Append(users, row)
        /\ job' = [job EXCEPT ![q].step = "trigger", ![q].conn = 0]
        /\ idle' = idle \cup {job[q].conn}
        /\ UNCHANGED << made, inbox, request, reply >>
    BY DEF InsertUser, Finish
  <1>2. \A p \in Queries : p # q => job[p].step = "none"
    BY <1>1 DEF Serial
  <1>3. request[q] \in Requests /\ row \in UserRows /\ row.name = request[q].name
    BY <1>1 DEF Shape, NoRequest, UserRows, UserRow
  <1>4. ~ Named(users, row.name)
    BY <1>1, <1>3 DEF Fresh
  <1> HIDE DEF row
  <1>5. /\ users' \in Seq(UserRows) /\ DOMAIN users' = 1 .. Len(users) + 1
        /\ DOMAIN users = 1 .. Len(users) /\ Len(users) \in Nat
        /\ users'[Len(users) + 1] = row
        /\ \A k \in 1 .. Len(users) : users'[k] = users[k]
    BY <1>1, <1>3 DEF Shape
  <1>6. NamesUnique'
    BY <1>4, <1>5 DEF NamesUnique, Named
  <1>7. /\ job' \in [Queries -> Jobs]
        /\ job'[q].step = "trigger" /\ job'[q].conn = 0
        /\ \A p \in Queries : p # q => job'[p] = job[p]
    BY <1>1, ZenonT(30) DEF Shape, Jobs
  <1>8. ret' = [p \in Queries |-> ret'[p]] /\ \A p \in Queries : p # q => ret'[p] = ret[p]
    BY DEF InsertUser, Finish, Shape
  <1>9. Shape' /\ Serial' /\ Fresh'
    BY <1>1, <1>2, <1>5, <1>7, <1>8 DEF Shape, Serial, Fresh
  <1>10. Conns'
    BY <1>1, <1>2, <1>7 DEF Conns, AtWork
  <1>11. \A p \in Queries : Has(users, UserRow(request[p])) => Has(users', UserRow(request[p]))
    BY <1>5 DEF Has
  <1>12. Has(users', row)
    BY <1>5 DEF Has
  <1>13. Told'
    BY <1>1, <1>8, <1>11, <1>12 DEF Told, row
  <1>14. Unasked'
    BY <1>1, <1>3, <1>7, <1>8, DbAssumption DEF Unasked, NoRequest
  <1> QED
    BY <1>6, <1>9, <1>10, <1>13, <1>14

(* Every statement, and every one that throws, keeps the invariant. *)
LEMMA StatementKeeps ==
  ASSUME DbInv, NEW q \in Queries, Statement(q) \/ SqlThrows(q)
  PROVE  DbInv'
  <1> USE DEF AtWork
  <1>0. job[q].i \in Int /\ job[q].i + 1 \in Int
    BY DEF DbInv, Shape, Jobs
  <1>1. CASE SqlThrows(q)
    BY <1>1, FinishKeeps DEF SqlThrows, Thrown, Rep, Executes
  <1>2. CASE CountName(q)
    <2>1. CASE Named(users, request[q].name)
      <3> DEFINE rep == [Rep("registNameRepeat") EXCEPT !.user = request[q].name]
      <3>1. rep.code # "ok"
        BY DEF Rep
      <3>2. Finish(q, rep) /\ users' = users /\ AtWork(q)
        BY <1>2, <2>1 DEF CountName
      <3> HIDE DEF rep
      <3> QED
        BY <3>1, <3>2, FinishKeeps
    <2>2. CASE ~ Named(users, request[q].name)
      BY <1>2, <2>2, GoOnKeeps DEF CountName
    <2> QED
      BY <2>1, <2>2
  <1>3. CASE InsertUser(q)
    BY <1>3, InsertKeeps
  <1>4. CASE Login(q)
    BY <1>4, FinishKeeps DEF Login
  <1>5. CASE GetAllUsers(q)
    BY <1>5, FinishKeeps DEF GetAllUsers
  <1>6. CASE CountAdmin(q)
    <2>1. users' = users /\ AtWork(q) /\ request[q].op # "Regist"
      BY <1>6 DEF CountAdmin
    <2>2. Finish(q, Rep("ok")) \/ GoOn(q, "sql", job[q].i + 1) \/ GoOn(q, "insert", job[q].i)
      BY <1>6 DEF CountAdmin
    <2> QED
      BY <1>0, <2>1, <2>2, FinishKeeps, GoOnKeeps
  <1>7. CASE InsertAdmin(q)
    BY <1>0, <1>7, GoOnKeeps DEF InsertAdmin
  <1>8. CASE GetSysAdmin(q)
    BY <1>8, FinishKeeps DEF GetSysAdmin
  <1>9. CASE DelSysAdmin(q)
    <2>1. users' = users /\ AtWork(q) /\ request[q].op # "Regist"
      BY <1>9 DEF DelSysAdmin
    <2>2. Finish(q, Rep("ok")) \/ GoOn(q, "sql", job[q].i + 1)
      BY <1>9 DEF DelSysAdmin
    <2> QED
      BY <1>0, <2>1, <2>2, FinishKeeps, GoOnKeeps
  <1>10. CASE LoadGenInfo(q)
    BY <1>10, FinishKeeps DEF LoadGenInfo
  <1>11. CASE ReadGenInfo(q)
    BY <1>11, FinishKeeps DEF ReadGenInfo, FromCache
  <1> QED
    BY <1>1, <1>2, <1>3, <1>4, <1>5, <1>6, <1>7, <1>8, <1>9, <1>10, <1>11 DEF Statement

(* A crash forgets the dealers and keeps the tables. *)
LEMMA RestartKeeps ==
  ASSUME DbInv, Restart
  PROVE  DbInv'
  <1> USE DEF DbInv
  <1>1. /\ UNCHANGED << users, request, reply >> /\ inbox' = << >>
        /\ \A q \in Queries : job'[q].step = "none" /\ job'[q].conn = 0 /\ ret'[q] = NoReply
        /\ idle' = {1} /\ made' = 1
    BY DEF Restart, NoJob
  <1>2. job' \in [Queries -> Jobs]
    BY DEF Restart, NoJob, Jobs
  <1>3. ret' = [q \in Queries |-> ret'[q]]
    BY DEF Restart
  <1>4. Shape'
    BY <1>1, <1>2, <1>3 DEF Shape
  <1>5. Serial' /\ Fresh' /\ NamesUnique'
    BY <1>1 DEF Serial, Fresh, NamesUnique
  <1>6. Conns'
    BY <1>1 DEF Conns, AtWork
  <1>7. Told'
    BY <1>1 DEF Told, Has, UserRow, NoReply
  <1>8. Unasked'
    BY <1>1 DEF Unasked
  <1> QED
    BY <1>4, <1>5, <1>6, <1>7, <1>8

(* Every step keeps the invariant. *)
LEMMA StepDbInv == DbInv /\ [DbNext]_dbVars => DbInv'
  <1> SUFFICES ASSUME DbInv, [DbNext]_dbVars PROVE DbInv'
    OBVIOUS
  <1>1. CASE UNCHANGED dbVars
    BY <1>1 DEF dbVars, DbInv, Shape, Serial, Conns, AtWork, Fresh, Told, Unasked, NamesUnique,
                Named, Has, UserRow
  <1>2. CASE DbNext
    <2>1. CASE RouterTake
      BY <2>1, TakeKeeps
    <2>2. CASE Restart
      BY <2>2, RestartKeeps
    <2>3. ASSUME NEW q \in Queries,
                 AsyncWait(q) \/ Trigger(q) \/ OpenDb(q) \/ Statement(q) \/ SqlThrows(q)
          PROVE  DbInv'
      BY <2>3, EventKeeps, OpenKeeps, StatementKeeps
    <2>4. ASSUME NEW q \in Queries, NEW r \in Requests, Arrive(q, r)
          PROVE  DbInv'
      BY <2>4, ArriveKeeps
    <2> QED
      BY <1>2, <2>1, <2>2, <2>3, <2>4 DEF DbNext, DbStep
  <1> QED
    BY <1>1, <1>2

(* The invariant holds in every reachable state. *)
LEMMA DbInvariant == DbSpec => []DbInv
  BY InitDbInv, StepDbInv, PTL DEF DbSpec

(* No name is registered twice, whichever queries overlap, throw or are cut *)
(* off by a crash: sregist needs no unique key as long as the router runs   *)
(* one dealer at a time.                                                    *)
THEOREM NamesStayUnique == DbSpec => []NamesUnique
  <1>1. DbInv => NamesUnique
    BY DEF DbInv
  <1> QED
    BY <1>1, DbInvariant, PTL

(* A registration that was answered ok is in the table for good.            *)
THEOREM RegistrationsKept == DbSpec => []RegisteredForGood
  <1>1. DbInv => RegisteredForGood
    BY DEF DbInv, Told, RegisteredForGood
  <1> QED
    BY <1>1, DbInvariant, PTL

(* DBManager never makes a second connection and never lends one twice.     *)
THEOREM ConnectionNotLeaked == DbSpec => []OneConnection
  <1>1. DbInv => OneConnection
    BY DEF DbInv, Conns, AtWork, Serial, OneConnection
  <1> QED
    BY <1>1, DbInvariant, PTL
-----------------------------------------------------------------------------
(***************************************************************************)
(* The administrators and the logins.  They rest on DbInv (one dealer at a *)
(* time, so that nobody else writes Sysadmin while a dealer is in its      *)
(* loop): Adding says what the loop of saddSysAdmin has done before its    *)
(* element i, and that the row about to be inserted is not there; Removing *)
(* is the same for sdelSysAdmin; Settled carries "all rows done" from the  *)
(* end of the loop to the event; Proved carries the row that a login found.*)
(***************************************************************************)
RowOf(q, i) == AdminRow(request[q], request[q].admins[i])

Adding(q) ==
  (AtWork(q) /\ request[q].op = "AddSysAdmin")
    => /\ job[q].i \in Nat \ {0}
       /\ \A j \in DOMAIN request[q].admins : j < job[q].i => admins[RowOf(q, j)] # 0
       /\ job[q].step = "insert"
            => ~ Exhausted(request[q], job[q].i) /\ admins[RowOf(q, job[q].i)] = 0

Removing(q) ==
  (AtWork(q) /\ request[q].op = "DelSysAdmin")
    => /\ job[q].i \in Nat \ {0}
       /\ \A j \in DOMAIN request[q].admins : j < job[q].i => admins[RowOf(q, j)] = 0

Settled(q) == ret[q].code = "ok" => job[q].step = "trigger" /\ Done(request[q])

Proves(t, r, rep) ==
  (r.op = "Login" /\ rep.code # "none" /\ rep.token)
    => \E k \in DOMAIN t : /\ t[k].name = rep.user /\ t[k].pass = r.pass
                           /\ t[k].name = r.name \/ t[k].phone = r.phone

Proved(q) == Proves(users, request[q], ret[q]) /\ Proves(users, request[q], reply[q])

AdminInv ==
  /\ admins \in [AdminRows -> Nat] /\ AdminsUnique
  /\ \A q \in Queries : Adding(q) /\ Removing(q) /\ Settled(q) /\ Proved(q)

(* An element of the loop is a row that Sysadmin may hold. *)
LEMMA RowInTable ==
  ASSUME Shape, NEW q \in Queries, request[q].op \in {"AddSysAdmin", "DelSysAdmin"}
  PROVE  /\ request[q].admins \in Seq(AdminNames)
         /\ \A i \in DOMAIN request[q].admins : RowOf(q, i) \in AdminRows
  <1>1. request[q] \in AdminRequests
    BY DEF Shape, NoRequest, AdminRequests
  <1>2. request[q].admins \in Seq(AdminNames)
    BY <1>1, DbAssumption
  <1>3. \A i \in DOMAIN request[q].admins : request[q].admins[i] \in AdminNames
    BY <1>2
  <1> QED
    BY <1>1, <1>2, <1>3 DEF AdminRows, RowOf

(* Whoever does nothing in a step keeps its part, when the tables stay as   *)
(* they are or it is not under way, and Users only grows.                   *)
LEMMA Bystander ==
  ASSUME DbInv, AdminInv, NEW p \in Queries,
         job'[p] = job[p], ret'[p] = ret[p], reply'[p] = reply[p], request'[p] = request[p],
         admins' = admins \/ job[p].step = "none",
         \A k \in DOMAIN users : k \in DOMAIN users' /\ users'[k] = users[k]
  PROVE  Adding(p)' /\ Removing(p)' /\ Settled(p)' /\ Proved(p)'
  <1>1. Adding(p)' /\ Removing(p)'
    BY DEF AdminInv, Adding, Removing, AtWork, RowOf
  <1>2. Settled(p)'
    BY DEF AdminInv, Settled, Done
  <1>3. Proved(p)'
    BY DEF AdminInv, Proved, Proves
  <1> QED
    BY <1>1, <1>2, <1>3

(* A started service has no administrators and told nobody anything. *)
LEMMA InitAdminInv == DbInit => AdminInv
  <1> SUFFICES ASSUME DbInit PROVE AdminInv
    OBVIOUS
  <1>1. admins \in [AdminRows -> Nat] /\ AdminsUnique
    BY DEF DbInit, AdminsUnique
  <1>2. ASSUME NEW q \in Queries PROVE Adding(q) /\ Removing(q) /\ Settled(q) /\ Proved(q)
    BY DEF DbInit, Adding, Removing, Settled, Proved, Proves, AtWork, NoJob, NoReply
  <1> QED
    BY <1>1, <1>2 DEF AdminInv

(* The steps of the router, the event and the connection write no table. *)
LEMMA RouterAdminInv ==
  ASSUME DbInv, AdminInv,
         \/ RouterTake
         \/ \E q \in Queries : AsyncWait(q) \/ Trigger(q) \/ OpenDb(q)
         \/ \E q \in Queries, r \in Requests : Arrive(q, r)
  PROVE  AdminInv'
  <1>0. DbInv /\ Shape /\ Unasked /\ admins' = admins /\ users' = users
    BY DEF DbInv, RouterTake, AsyncWait, Trigger, OpenDb, Arrive
  <1>1. admins' \in [AdminRows -> Nat] /\ AdminsUnique'
    BY <1>0 DEF AdminInv, AdminsUnique
  <1>2. ASSUME NEW p \in Queries PROVE Adding(p)' /\ Removing(p)' /\ Settled(p)' /\ Proved(p)'
    <2>1. CASE RouterTake
      <3>1. PICK q \in Queries :
              /\ UNCHANGED << request, ret >>
              /\ \/ UNCHANGED job /\ reply' = [reply EXCEPT ![q] = Rep("invalidJson")]
                 \/ job' = [job EXCEPT ![q].step = "open"] /\ UNCHANGED reply
        <4>1. Head(inbox) \in Queries
          BY <1>0, <2>1 DEF Shape, RouterTake
        <4> QED
          BY <2>1, <4>1 DEF RouterTake
      <3>2. job[q].step = "none" /\ ret[q].code # "ok"
        BY <2>1 DEF RouterTake, RouterFree, Active, AdminInv, Settled
      <3>3. CASE p # q
        BY <1>0, <3>1, <3>3, Bystander DEF Shape
      <3>4. CASE p = q
        <4>1. job'[q].step \in {"none", "open"}
          BY <1>0, <3>1, <3>2 DEF Shape, Jobs
        <4>2. Proved(q)'
          <5>1. reply'[q] = reply[q] \/ reply'[q] = Rep("invalidJson")
            BY <1>0, <3>1 DEF Shape
          <5>2. ~ Rep("invalidJson").token
            BY DEF Rep
          <5> QED
            BY <1>0, <3>1, <5>1, <5>2 DEF AdminInv, Proved, Proves
        <4> QED
          BY <3>1, <3>2, <3>4, <4>1, <4>2 DEF Adding, Removing, Settled, AtWork
      <3> QED
        BY <3>3, <3>4
    <2>2. ASSUME NEW q \in Queries, AsyncWait(q) PROVE Adding(p)' /\ Removing(p)' /\ Settled(p)' /\ Proved(p)'
      <3>1. /\ job'[p].step = job[p].step /\ job'[p].i = job[p].i
            /\ UNCHANGED << ret, reply, request >>
        BY <1>0, <2>2 DEF AsyncWait, Shape, Jobs
      <3>2. Adding(p)' /\ Removing(p)'
        BY <1>0, <3>1 DEF AdminInv, Adding, Removing, AtWork, RowOf
      <3> QED
        BY <1>0, <3>1, <3>2 DEF AdminInv, Settled, Done, Proved, Proves
    <2>3. ASSUME NEW q \in Queries, Trigger(q) PROVE Adding(p)' /\ Removing(p)' /\ Settled(p)' /\ Proved(p)'
      <3>1. CASE p # q
        BY <1>0, <2>3, <3>1, Bystander DEF Trigger, Shape
      <3>2. CASE p = q
        <4>1. /\ job[q].step = "trigger" /\ job[q].waiting
              /\ reply'[q] = ret[q] /\ ret'[q] = NoReply /\ job'[q] = NoJob
              /\ request' = request
          BY <1>0, <2>3 DEF Trigger, TriggerRuns, Shape
        <4>2. job'[q].step = "none" /\ ret'[q].code = "none"
          BY <4>1 DEF NoJob, NoReply
        <4> QED
          BY <1>0, <3>2, <4>1, <4>2 DEF AdminInv, Adding, Removing, Settled, Proved, Proves, AtWork
      <3> QED
        BY <3>1, <3>2
    <2>4. ASSUME NEW q \in Queries, OpenDb(q) PROVE Adding(p)' /\ Removing(p)' /\ Settled(p)' /\ Proved(p)'
      <3>1. CASE p # q
        BY <1>0, <2>4, <3>1, Bystander DEF OpenDb, Shape
      <3>2. CASE p = q
        <4>1. PICK c : job' = [job EXCEPT ![q] = [step |-> "sql", i |-> 1, conn |-> c, waiting |-> job[q].waiting]]
          BY <2>4 DEF OpenDb
        <4>2. job[q].step = "open" /\ UNCHANGED << ret, reply, request >>
          BY <2>4 DEF OpenDb
        <4>3. job'[q].step = "sql" /\ job'[q].i = 1
          BY <1>0, <4>1 DEF Shape
        <4>4. ret[q].code # "ok"
          BY <4>2 DEF AdminInv, Settled
        <4>5. \A r : r.op \in {"AddSysAdmin", "DelSysAdmin"} /\ request[q] = r =>
                \A j \in DOMAIN r.admins : ~ (j < 1)
          BY <1>0, RowInTable
        <4> QED
          BY <1>0, <3>2, <4>2, <4>3, <4>4, <4>5
             DEF AdminInv, Adding, Removing, Settled, Proved, Proves
      <3> QED
        BY <3>1, <3>2
    <2>5. ASSUME NEW q \in Queries, NEW r \in Requests, Arrive(q, r)
          PROVE  Adding(p)' /\ Removing(p)' /\ Settled(p)' /\ Proved(p)'
      <3>1. CASE p # q
        BY <1>0, <2>5, <3>1, Bystander DEF Arrive, Shape
      <3>2. CASE p = q
        <4>1. /\ job'[q].step = "none" /\ ret'[q] = NoReply /\ reply'[q] = NoReply
          BY <1>0, <2>5 DEF Arrive, Unasked
        <4> QED
          BY <3>2, <4>1 DEF Adding, Removing, Settled, Proved, Proves, AtWork, NoReply
      <3> QED
        BY <3>1, <3>2
    <2> QED
      BY <2>1, <2>2, <2>3, <2>4, <2>5
  <1> QED
    BY <1>1, <1>2 DEF AdminInv

(* A dealer that ends without writing Sysadmin: what it says ok to is done, *)
(* and what it says to a login is proved.                                   *)
LEMMA FinishAdminInv ==
  ASSUME DbInv, AdminInv, NEW q \in Queries, NEW rep, Finish(q, rep), admins' = admins,
         \A k \in DOMAIN users : k \in DOMAIN users' /\ users'[k] = users[k],
         rep.code = "ok" => Done(request[q]),
         Proves(users, request[q], rep)
  PROVE  AdminInv'
  <1>0. DbInv /\ Shape
    BY DEF DbInv
  <1>1. admins' \in [AdminRows -> Nat] /\ AdminsUnique'
    BY DEF AdminInv, AdminsUnique
  <1>2. /\ UNCHANGED << request, reply >> /\ ret'[q] = rep
        /\ job'[q].step = "trigger"
        /\ \A p \in Queries : p # q => job'[p] = job[p] /\ ret'[p] = ret[p]
    BY <1>0 DEF Finish, Shape, Jobs
  <1>3. Adding(q)' /\ Removing(q)'
    BY <1>2 DEF Adding, Removing, AtWork
  <1>4. Settled(q)'
    BY <1>2 DEF Settled, Done
  <1>5. Proved(q)'
    BY <1>2 DEF AdminInv, Proved, Proves
  <1>6. \A p \in Queries : p # q => Adding(p)' /\ Removing(p)' /\ Settled(p)' /\ Proved(p)'
    BY <1>2, Bystander
  <1> QED
    BY <1>1, <1>3, <1>4, <1>5, <1>6 DEF AdminInv
(* The loop of saddSysAdmin: an element is counted, then inserted. *)
LEMMA AddAdminInv ==
  ASSUME DbInv, AdminInv, NEW q \in Queries, CountAdmin(q) \/ InsertAdmin(q)
  PROVE  AdminInv'
  <1>0. /\ DbInv /\ Shape
        /\ request[q].op = "AddSysAdmin" /\ AtWork(q) /\ job[q].step # "none"
        /\ UNCHANGED << users, request, reply >>
    BY DEF DbInv, CountAdmin, InsertAdmin, AtWork, Finish, GoOn
  <1>1. PICK i : i = job[q].i
    OBVIOUS
  <1>2. PICK n \in Nat : /\ n = Len(request[q].admins) /\ DOMAIN request[q].admins = 1 .. n
                         /\ \A j \in 1 .. n : RowOf(q, j) \in AdminRows
    BY <1>0, RowInTable
  <1>3. /\ i \in Nat \ {0} /\ \A j \in 1 .. n : j < i => admins[RowOf(q, j)] # 0
        /\ job[q].step = "insert" => i \in 1 .. n /\ admins[RowOf(q, i)] = 0
    BY <1>0, <1>1, <1>2 DEF AdminInv, Adding, Exhausted
  <1>4. CASE CountAdmin(q) /\ Exhausted(request[q], i)
    <2>1. Finish(q, Rep("ok")) /\ admins' = admins
      BY <1>1, <1>4 DEF CountAdmin
    <2>2. Done(request[q])
      BY <1>0, <1>2, <1>3, <1>4 DEF Done, Exhausted, RowOf
    <2>3. Proves(users, request[q], Rep("ok"))
      BY <1>0 DEF Proves
    <2> QED
      BY <1>0, <2>1, <2>2, <2>3, FinishAdminInv
  <1>5. CASE (CountAdmin(q) /\ ~ Exhausted(request[q], i)) \/ InsertAdmin(q)
    <2>1. i \in 1 .. n
      BY <1>2, <1>3, <1>5 DEF InsertAdmin, Exhausted
    <2>2. \/ admins' = admins /\ admins[RowOf(q, i)] # 0 /\ GoOn(q, "sql", i + 1)
          \/ admins' = admins /\ admins[RowOf(q, i)] = 0 /\ GoOn(q, "insert", i)
          \/ admins' = [admins EXCEPT ![RowOf(q, i)] = @ + 1] /\ GoOn(q, "sql", i + 1)
             /\ admins[RowOf(q, i)] = 0
      BY <1>1, <1>3, <1>5 DEF CountAdmin, InsertAdmin, RowOf
    <2>3. admins' \in [AdminRows -> Nat] /\ AdminsUnique'
      BY <1>2, <2>1, <2>2 DEF AdminInv, AdminsUnique
    <2>4. \A j \in 1 .. n : admins[RowOf(q, j)] # 0 => admins'[RowOf(q, j)] # 0
      BY <1>2, <2>1, <2>2 DEF AdminInv
    <2>5. /\ ret' = ret /\ \A p \in Queries : p # q => job'[p] = job[p]
          /\ \/ job'[q].step = "sql" /\ job'[q].i = i + 1 /\ admins'[RowOf(q, i)] # 0
             \/ job'[q].step = "insert" /\ job'[q].i = i /\ admins'[RowOf(q, i)] = 0
      BY <1>0, <1>2, <2>1, <2>2 DEF GoOn, Shape, Jobs, AdminInv
    <2>6. Adding(q)'
      <3>1. \A j \in 1 .. n : RowOf(q, j)' = RowOf(q, j)
        BY <1>0 DEF RowOf
      <3>2. Exhausted(request[q], job[q].i)' <=> job'[q].i > n
        BY <1>0, <1>2 DEF Exhausted
      <3>3. \A j \in 1 .. n : j < job'[q].i => admins'[RowOf(q, j)] # 0
        BY <1>3, <2>1, <2>4, <2>5
      <3> QED
        BY <1>0, <1>2, <1>3, <2>1, <2>5, <3>1, <3>2, <3>3 DEF Adding
    <2>7. Removing(q)' /\ Settled(q)' /\ Proved(q)'
      BY <1>0, <2>5 DEF AdminInv, AtWork, Removing, Settled, Proved, Proves
    <2>8. \A p \in Queries : p # q => job[p].step = "none"
      BY <1>0 DEF DbInv, Serial
    <2>9. \A p \in Queries : p # q => Adding(p)' /\ Removing(p)' /\ Settled(p)' /\ Proved(p)'
      BY <1>0, <2>5, <2>8, Bystander
    <2> QED
      BY <2>3, <2>6, <2>7, <2>9 DEF AdminInv
  <1> QED
    BY <1>4, <1>5

(* The loop of sdelSysAdmin. *)
LEMMA DelAdminInv ==
  ASSUME DbInv, AdminInv, NEW q \in Queries, DelSysAdmin(q)
  PROVE  AdminInv'
  <1>0. /\ DbInv /\ Shape
        /\ request[q].op = "DelSysAdmin" /\ AtWork(q) /\ job[q].step # "none"
        /\ UNCHANGED << users, request, reply >>
    BY DEF DbInv, DelSysAdmin, AtWork, Finish, GoOn
  <1>1. PICK i : i = job[q].i
    OBVIOUS
  <1>2. PICK n \in Nat : /\ n = Len(request[q].admins) /\ DOMAIN request[q].admins = 1 .. n
                         /\ \A j \in 1 .. n : RowOf(q, j) \in AdminRows
    BY <1>0, RowInTable
  <1>3. i \in Nat \ {0} /\ \A j \in 1 .. n : j < i => admins[RowOf(q, j)] = 0
    BY <1>0, <1>1, <1>2 DEF AdminInv, Removing
  <1>4. CASE Exhausted(request[q], i)
    <2>1. Finish(q, Rep("ok")) /\ admins' = admins
      BY <1>1, <1>4 DEF DelSysAdmin
    <2>2. Done(request[q])
      BY <1>0, <1>2, <1>3, <1>4 DEF Done, Exhausted, RowOf
    <2>3. Proves(users, request[q], Rep("ok"))
      BY <1>0 DEF Proves
    <2> QED
      BY <1>0, <2>1, <2>2, <2>3, FinishAdminInv
  <1>5. CASE ~ Exhausted(request[q], i)
    <2>1. i \in 1 .. n
      BY <1>2, <1>3, <1>5 DEF Exhausted
    <2>2. admins' = [admins EXCEPT ![RowOf(q, i)] = 0] /\ GoOn(q, "sql", i + 1)
      BY <1>1, <1>5 DEF DelSysAdmin, RowOf
    <2>3. admins' \in [AdminRows -> Nat] /\ AdminsUnique'
      BY <1>2, <2>1, <2>2 DEF AdminInv, AdminsUnique
    <2>4. \A j \in 1 .. n : j < i + 1 => admins'[RowOf(q, j)] = 0
      BY <1>2, <1>3, <2>1, <2>2 DEF AdminInv
    <2>5. /\ ret' = ret /\ \A p \in Queries : p # q => job'[p] = job[p]
          /\ job'[q].step = "sql" /\ job'[q].i = i + 1
      BY <1>0, <2>2 DEF GoOn, Shape, Jobs
    <2>6. Removing(q)'
      <3>1. \A j \in 1 .. n : RowOf(q, j)' = RowOf(q, j)
        BY <1>0 DEF RowOf
      <3> QED
        BY <1>0, <1>2, <1>3, <2>4, <2>5, <3>1 DEF Removing
    <2>7. Adding(q)' /\ Settled(q)' /\ Proved(q)'
      BY <1>0, <2>5 DEF AdminInv, AtWork, Adding, Settled, Proved, Proves
    <2>8. \A p \in Queries : p # q => job[p].step = "none"
      BY <1>0 DEF DbInv, Serial
    <2>9. \A p \in Queries : p # q => Adding(p)' /\ Removing(p)' /\ Settled(p)' /\ Proved(p)'
      BY <1>0, <2>5, <2>8, Bystander
    <2> QED
      BY <2>3, <2>6, <2>7, <2>9 DEF AdminInv
  <1> QED
    BY <1>4, <1>5

(* What a login is told, it is told of a row that has its password. *)
LEMMA LoginProves ==
  ASSUME NEW t, NEW r, NEW rep \in LoginReps(t, r)
  PROVE  Proves(t, r, rep)
  <1>1. CASE rep = Rep("invalidUserOrPhone") \/ rep = [Rep("wrongUserOrPhoneOrPass") EXCEPT !.user = r.name]
    BY <1>1 DEF Rep, Proves
  <1>2. ASSUME NEW k \in Checked(t, r), rep = [Rep("ok") EXCEPT !.user = t[k].name, !.token = TRUE]
        PROVE  Proves(t, r, rep)
    <2>1. /\ k \in DOMAIN t /\ t[k].pass = r.pass
          /\ t[k].name = r.name \/ t[k].phone = r.phone
      BY <1>2 DEF Checked
    <2>2. rep.user = t[k].name
      BY <1>2 DEF Rep
    <2> QED
      BY <2>1, <2>2 DEF Proves
  <1> QED
    BY <1>1, <1>2 DEF LoginReps

(* Every statement, and every one that throws, keeps the second invariant.  *)
LEMMA StatementAdminInv ==
  ASSUME DbInv, AdminInv, NEW q \in Queries, Statement(q) \/ SqlThrows(q)
  PROVE  AdminInv'
  <1>1. CASE SqlThrows(q)
    <2>1. Rep("sqlExecuteFailed").code # "ok" /\ Proves(users, request[q], Rep("sqlExecuteFailed"))
      BY DEF Rep, Proves
    <2> QED
      BY <1>1, <2>1, FinishAdminInv DEF SqlThrows, Thrown
  <1>2. CASE CountAdmin(q) \/ InsertAdmin(q)
    BY <1>2, AddAdminInv
  <1>3. CASE DelSysAdmin(q)
    BY <1>3, DelAdminInv
  <1>4. CASE Login(q)
    <2>1. PICK rep \in LoginReps(users, request[q]) : Finish(q, rep)
      BY <1>4 DEF Login
    <2>2. Proves(users, request[q], rep)
      BY LoginProves
    <2>3. Done(request[q]) /\ users' = users /\ admins' = admins
      BY <1>4 DEF Login, Done
    <2> QED
      BY <2>1, <2>2, <2>3, FinishAdminInv
  <1>5. CASE InsertUser(q)
    <2>1. /\ request[q].op = "Regist" /\ users' = Append(users, UserRow(request[q])) /\ admins' = admins
          /\ \E rep : Finish(q, rep)
      BY <1>5 DEF InsertUser
    <2>2. users \in Seq(UserRows) /\ request[q] \in Requests
      BY <2>1 DEF DbInv, Shape, NoRequest
    <2>3. UserRow(request[q]) \in UserRows
      BY <2>1, <2>2 DEF UserRows
    <2>4. \A k \in DOMAIN users : k \in DOMAIN users' /\ users'[k] = users[k]
      BY <2>1, <2>2, <2>3
    <2>5. Done(request[q]) /\ \A rep : Proves(users, request[q], rep)
      BY <2>1 DEF Done, Proves
    <2> QED
      BY <2>1, <2>4, <2>5, FinishAdminInv
  <1>6. CASE CountName(q) \/ GetAllUsers(q) \/ GetSysAdmin(q) \/ LoadGenInfo(q) \/ ReadGenInfo(q)
    <2>1. /\ users' = users /\ admins' = admins
          /\ request[q].op \in {"Regist", "GetAllUsers", "GetSysAdmin", "GetUserGenInfo"}
          /\ (\E rep : Finish(q, rep)) \/ (GoOn(q, "insert", 1) /\ request[q].op = "Regist")
      BY <1>6 DEF CountName, GetAllUsers, GetSysAdmin, LoadGenInfo, ReadGenInfo, FromCache
    <2>2. Done(request[q]) /\ \A rep : Proves(users, request[q], rep)
      BY <2>1 DEF Done, Proves
    <2>3. CASE \E rep : Finish(q, rep)
      BY <2>1, <2>2, <2>3, FinishAdminInv
    <2>4. CASE GoOn(q, "insert", 1) /\ request[q].op = "Regist"
      <3>1. /\ UNCHANGED << request, ret, reply >> /\ job[q].step # "trigger"
            /\ \A p \in Queries : p # q => job'[p] = job[p]
        BY <1>6, <2>1, <2>4 DEF DbInv, Shape, GoOn, CountName, GetAllUsers, GetSysAdmin, LoadGenInfo, ReadGenInfo
      <3>2. Adding(q)' /\ Removing(q)' /\ Settled(q)' /\ Proved(q)'
        BY <2>1, <2>4, <3>1 DEF AdminInv, Adding, Removing, Settled, Proved, Proves
      <3>3. \A p \in Queries : p # q => Adding(p)' /\ Removing(p)' /\ Settled(p)' /\ Proved(p)'
        BY <2>1, <3>1, Bystander
      <3> QED
        BY <2>1, <3>2, <3>3 DEF AdminInv, AdminsUnique
    <2> QED
      BY <2>1, <2>3, <2>4
  <1> QED
    BY <1>1, <1>2, <1>3, <1>4, <1>5, <1>6 DEF Statement

(* A crash forgets how far the loops had come, and they start again. *)
LEMMA RestartAdminInv ==
  ASSUME DbInv, AdminInv, Restart
  PROVE  AdminInv'
  <1>1. /\ UNCHANGED << users, admins, request, reply >>
        /\ \A q \in Queries : job'[q].step = "none" /\ ret'[q].code = "none"
    BY DEF Restart, NoJob, NoReply
  <1>2. \A q \in Queries : Adding(q)' /\ Removing(q)' /\ Settled(q)' /\ Proved(q)'
    BY <1>1 DEF AdminInv, Adding, Removing, Settled, Proved, Proves, AtWork
  <1> QED
    BY <1>1, <1>2 DEF AdminInv, AdminsUnique

(* Every step keeps the second invariant, given the first. *)
LEMMA StepAdminInv == DbInv /\ AdminInv /\ [DbNext]_dbVars => AdminInv'
  <1> SUFFICES ASSUME DbInv, AdminInv, [DbNext]_dbVars PROVE AdminInv'
    OBVIOUS
  <1>1. CASE UNCHANGED dbVars
    <2>1. \A q \in Queries : Adding(q)' /\ Removing(q)' /\ Settled(q)' /\ Proved(q)'
      BY <1>1, Bystander DEF dbVars
    <2> QED
      BY <1>1, <2>1 DEF dbVars, AdminInv, AdminsUnique
  <1>2. CASE DbNext
    BY <1>2, RouterAdminInv, StatementAdminInv, RestartAdminInv DEF DbNext, DbStep
  <1> QED
    BY <1>1, <1>2

(* The second invariant holds in every reachable state. *)
LEMMA AdminInvariant == DbSpec => []AdminInv
  BY InitAdminInv, StepAdminInv, DbInvariant, PTL DEF DbSpec

(* Sysadmin never has a row twice, although its key is only a count before  *)
(* the insert and a request may stop half way and be repeated.              *)
THEOREM AdminsStayUnique == DbSpec => []AdminsUnique
  <1>1. AdminInv => AdminsUnique
    BY DEF AdminInv
  <1> QED
    BY <1>1, AdminInvariant, PTL

(* A token is given only for a row with the password of the request, and    *)
(* the row stays: nothing removes users.                                    *)
THEOREM LoginsAreSound == DbSpec => []LoginSound
  <1>1. AdminInv => LoginSound
    BY DEF AdminInv, Proved, Proves, LoginSound
  <1> QED
    BY <1>1, AdminInvariant, PTL

(* The answer ok to a request for administrators is given in a state in     *)
(* which all of it is done: no other dealer ran since the loop ended.       *)
THEOREM OkIsDone == DbSpec => OkMeansDone
  <1>1. ASSUME DbInv, AdminInv, [DbNext]_dbVars
        PROVE  [\A q \in Queries : AnsweredDone(q)]_dbVars
    <2> SUFFICES ASSUME DbNext, NEW q \in Queries, reply[q] = NoReply, reply'[q].code = "ok"
                 PROVE  Done(request[q])'
      BY <1>1 DEF AnsweredDone
    <2>1. reply'[q] # reply[q]
      BY DEF NoReply
    <2>2. PICK p \in Queries : Trigger(p)
      <3>1. ~ RouterTake
        <4> SUFFICES ASSUME RouterTake PROVE FALSE
          OBVIOUS
        <4>1. reply' = reply \/ reply' = [reply EXCEPT ![Head(inbox)] = Rep("invalidJson")]
          BY DEF RouterTake
        <4>2. reply'[q] = reply[q] \/ reply'[q] = Rep("invalidJson")
          BY <1>1, <4>1 DEF DbInv, Shape
        <4> QED
          BY <2>1, <4>2 DEF Rep
      <3>2. ~ Restart /\ \A p \in Queries : ~ AsyncWait(p) /\ ~ OpenDb(p) /\ ~ SqlThrows(p)
        BY <2>1 DEF Restart, AsyncWait, OpenDb, SqlThrows, Thrown, Finish
      <3>3. \A p \in Queries : ~ Statement(p)
        BY <2>1 DEF Statement, CountName, InsertUser, Login, GetAllUsers, CountAdmin, InsertAdmin,
                    GetSysAdmin, DelSysAdmin, LoadGenInfo, ReadGenInfo, Finish, GoOn
      <3>4. \A p \in Queries, r \in Requests : ~ Arrive(p, r)
        BY <2>1 DEF Arrive
      <3> QED
        BY <3>1, <3>2, <3>3, <3>4 DEF DbNext, DbStep
    <2>3. p = q /\ ret[q].code = "ok" /\ UNCHANGED << admins, request >>
      BY <1>1, <2>1, <2>2 DEF Trigger, DbInv, Shape
    <2> QED
      BY <1>1, <2>3 DEF AdminInv, Settled, Done
  <1> QED
    BY <1>1, DbInvariant, AdminInvariant, PTL DEF DbSpec, OkMeansDone
=============================================================================
