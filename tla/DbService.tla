----------------------------- MODULE DbService -----------------------------
(***************************************************************************)
(* The database service: queries arrive at the router, which runs one      *)
(* dealer at a time.  A dealer (ROUTER_DBT2) hands the query to a thread of*)
(* the executor and waits for an event; the thread borrows a connection    *)
(* from DBManager, executes its SQL statements one by one, any of which may*)
(* throw, and spawns the coroutine that triggers the event.                *)
(*                                                                         *)
(* A SQL statement is atomic.  The table Users is the sequence of its rows;*)
(* of Sysadmin, whose order nothing depends on, only the number of copies  *)
(* of a row is kept.  The tables are on disk: Restart is a crash of the    *)
(* process and its next start.  Names, phones, passwords and administrators*)
(* (a name with its role) are values; Empty is "".                         *)
(***************************************************************************)
EXTENDS Integers, Sequences, FiniteSets

CONSTANTS
  Queries,     \* queries that may be sent, each once: numbers
  Requests,    \* what a query may ask: a set of records with a field op
  Empty,       \* the empty string
  InitUsers,   \* possible contents of the table Users at start
  MaxRestart   \* bound: crashes of the process

(* The rows that Users may hold. *)
UserRow(r) == [name |-> r.name, phone |-> r.phone, pass |-> r.pass]
UserRows == {UserRow(r) : r \in {x \in Requests : x.op = "Regist"}}
              \cup UNION {{t[k] : k \in DOMAIN t} : t \in InitUsers}

(* The rows that Sysadmin may hold. *)
AdminRow(r, a) == [user |-> r.user, phone |-> r.phone, admin |-> a]
AdminRequests == {r \in Requests : r.op \in {"AddSysAdmin", "DelSysAdmin"}}
AdminNames == UNION {{r.admins[i] : i \in DOMAIN r.admins} : r \in AdminRequests}
AdminRows == {AdminRow(r, a) : r \in AdminRequests, a \in AdminNames}

ASSUME DbAssumption ==
  /\ Queries \subseteq Nat /\ MaxRestart \in Nat
  /\ \A t \in InitUsers : /\ t \in Seq(UserRows)
                          /\ \A j, k \in DOMAIN t : t[j].name = t[k].name => j = k
  /\ \A r \in Requests : r.op # "none"
  /\ \A r \in AdminRequests : r.admins \in Seq(AdminNames)

VARIABLES
  users,          \* the table Users
  admins,         \* the table Sysadmin: how often it has a row
  genUsers,       \* CommonDBProcess.cpp: _genUsers, phone -> names
  idle, made,     \* DBManager::_conns, connections made since the start
  inbox,          \* MessageRouter::_dataio
  request,        \* what a query asked
  job,            \* the dealer of a query and its thread
  ret,            \* ret of the dealer: what it is going to answer
  reply,          \* what was answered
  lost,           \* queries that a crash took with it
  restarts

dbVars == << users, admins, genUsers, idle, made, inbox, request, job, ret, reply, lost, restarts >>

NoRequest == [op |-> "none"]
NoReply == [code |-> "none"]
NoJob == [step |-> "none", i |-> 0, conn |-> 0, waiting |-> FALSE]

Rep(code) == [code |-> code, user |-> Empty, token |-> FALSE, items |-> << >>]

Phones == {r.phone : r \in {x \in Requests : "phone" \in DOMAIN x}}
            \cup UNION {{t[k].phone : k \in DOMAIN t} : t \in InitUsers}

(* _genUsers after the rows of a query: the entry of a phone is cleared for *)
(* every row with that phone, so the last one is all it keeps.              *)
Load(g, rows) ==
  [p \in Phones |->
     LET ks == {k \in DOMAIN rows : rows[k].phone = p}
     IN  IF ks = {} THEN g[p]
         ELSE {rows[CHOOSE k \in ks : \A j \in ks : j <= k].name}]

NoGen == [p \in Phones |-> {}]

(* CommonDBProcess::init loads the cache; if that throws it stays empty.    *)
AtStart(t) == {NoGen, Load(NoGen, t)}

(* SDBMgrInit2: the connection that init borrowed is idle. *)
Started(t) ==
  /\ genUsers \in AtStart(t)
  /\ idle = {1} /\ made = 1

DbInit ==
  /\ users \in InitUsers /\ admins = [row \in AdminRows |-> 0]
  /\ Started(users)
  /\ inbox = << >> /\ lost = {} /\ restarts = 0
  /\ request = [q \in Queries |-> NoRequest]
  /\ job = [q \in Queries |-> NoJob]
  /\ ret = [q \in Queries |-> NoReply]
  /\ reply = [q \in Queries |-> NoReply]

-----------------------------------------------------------------------------
(* The router. *)

Active == {q \in Queries : job[q].step # "none"}

(* addPackFromIo: a query reaches the service. *)
Arrive(q, r) ==
  /\ request[q] = NoRequest
  /\ request' = [request EXCEPT ![q] = r]
  /\ inbox' = Append(inbox, q)
  /\ UNCHANGED << users, admins, genUsers, idle, made, job, ret, reply, lost, restarts >>

RouterFree_Spawns == TRUE
(* Router coroutine 2 awaits the dealer before it receives again. *)
RouterFree == Active = {}

(* The dealer parses its arguments and hands the query to the executor. *)
RouterTake ==
  /\ inbox # << >> /\ RouterFree
  /\ LET q == Head(inbox)
     IN  IF request[q].op = "Garbled"
         THEN /\ reply' = [reply EXCEPT ![q] = Rep("invalidJson")]
              /\ UNCHANGED job
         ELSE /\ job' = [job EXCEPT ![q].step = "open"]
              /\ UNCHANGED reply
  /\ inbox' = Tail(inbox)
  /\ UNCHANGED << users, admins, genUsers, idle, made, request, ret, lost, restarts >>

(* ev.async_wait() *)
AsyncWait(q) ==
  /\ job[q].step # "none" /\ ~ job[q].waiting
  /\ job' = [job EXCEPT ![q].waiting = TRUE]
  /\ UNCHANGED << users, admins, genUsers, idle, made, inbox, request, ret, reply, lost, restarts >>

TriggerRuns_OnThread(q) == TRUE
(* The trigger is a coroutine on the io_context, whose thread is the one    *)
(* that is on its way to async_wait: it runs after that.                    *)
TriggerRuns(q) == job[q].waiting

(* ev.trigger(): whoever waits is resumed and the router has its reply.     *)
Trigger(q) ==
  /\ job[q].step = "trigger" /\ TriggerRuns(q)
  /\ IF job[q].waiting
     THEN /\ reply' = [reply EXCEPT ![q] = ret[q]]
          /\ job' = [job EXCEPT ![q] = NoJob]
          /\ ret' = [ret EXCEPT ![q] = NoReply]
     ELSE /\ job' = [job EXCEPT ![q].step = "missed"]
          /\ UNCHANGED << ret, reply >>
  /\ UNCHANGED << users, admins, genUsers, idle, made, inbox, request, lost, restarts >>

-----------------------------------------------------------------------------
(* The executor's thread: DBInst, the statements, the end of the query.     *)

(* DBInst::DBInst and DBManager::GetConn *)
OpenDb(q) ==
  LET c == IF idle = {} THEN made + 1 ELSE CHOOSE x \in idle : TRUE
  IN  /\ job[q].step = "open"
      /\ made' = IF idle = {} THEN made + 1 ELSE made
      /\ idle' = idle \ {c}
      /\ job' = [job EXCEPT ![q] = [step |-> "sql", i |-> 1, conn |-> c, waiting |-> @.waiting]]
      /\ UNCHANGED << users, admins, genUsers, inbox, request, ret, reply, lost, restarts >>

(* The dealer's function returns or throws: DBInst::~DBInst gives the       *)
(* connection back and the triggering coroutine is spawned.                 *)
Finish(q, rep) ==
  /\ idle' = idle \cup {job[q].conn}
  /\ job' = [job EXCEPT ![q].step = "trigger", ![q].conn = 0]
  /\ ret' = [ret EXCEPT ![q] = rep]
  /\ UNCHANGED << made, inbox, request, reply, lost, restarts >>

GoOn(q, step, i) ==
  /\ job' = [job EXCEPT ![q].step = step, ![q].i = i]
  /\ UNCHANGED << idle, made, inbox, request, ret, reply, lost, restarts >>

Thrown_Leaks(q) ==
  /\ job' = [job EXCEPT ![q].step = "trigger", ![q].conn = 0]
  /\ ret' = [ret EXCEPT ![q] = Rep("sqlExecuteFailed")]
  /\ UNCHANGED << idle, made, inbox, request, reply, lost, restarts >>
Thrown_SaysOk(q) == Finish(q, Rep("ok"))
(* BEGIN_DB ... END_DB: ret keeps the code set before the call.             *)
Thrown(q) == Finish(q, Rep("sqlExecuteFailed"))

FromCache(r) == r.op = "GetUserGenInfo" /\ ~ r.fromdb

Exhausted_OneShort(r, i) == i >= Len(r.admins)
(* for (auto& a : req.admins) has ended. *)
Exhausted(r, i) == i > Len(r.admins)

(* The step of q is a SQL statement and not one of the steps without. *)
Executes(q) ==
  LET r == request[q]
  IN  /\ job[q].step \in {"sql", "insert"}
      /\ ~ FromCache(r)
      /\ r.op = "Login" => r.name # Empty \/ r.phone # Empty
      /\ r.op \in {"AddSysAdmin", "DelSysAdmin"} => ~ Exhausted(r, job[q].i)

SqlThrows(q) ==
  /\ Executes(q)
  /\ Thrown(q)
  /\ UNCHANGED << users, admins, genUsers >>

Has(t, row) == \E k \in DOMAIN t : t[k] = row
Named(t, n) == \E k \in DOMAIN t : t[k].name = n

(* sregist: the name is counted, then inserted. *)
CountName(q) ==
  LET r == request[q]
  IN  /\ job[q].step = "sql" /\ r.op = "Regist"
      /\ IF Named(users, r.name)
         THEN Finish(q, [Rep("registNameRepeat") EXCEPT !.user = r.name])
         ELSE GoOn(q, "insert", 1)
      /\ UNCHANGED << users, admins, genUsers >>

InsertUser(q) ==
  LET r == request[q]
  IN  /\ job[q].step = "insert" /\ r.op = "Regist"
      /\ users' = Append(users, UserRow(r))
      /\ Finish(q, [Rep("ok") EXCEPT !.user = r.name, !.token = TRUE])
      /\ UNCHANGED << admins, genUsers >>

(* slogin: the rows that prove the password.  With name and phone the rows  *)
(* are only counted, and bchecked stays false.                              *)
Checked_Counted(t, r) == {k \in DOMAIN t : t[k].name = r.name \/ t[k].phone = r.phone}
Checked(t, r) ==
  IF r.name # Empty /\ r.phone # Empty THEN {}
  ELSE {k \in DOMAIN t : /\ IF r.name # Empty THEN t[k].name = r.name ELSE t[k].phone = r.phone
                         /\ t[k].pass = r.pass}

(* for (row : ...) { ...; break; }: the name is that of the first such row. *)
LoginReps(t, r) ==
  LET ks == Checked(t, r)
      firsts == {k \in ks : \A j \in ks : k <= j}
  IN  IF r.name = Empty /\ r.phone = Empty THEN {Rep("invalidUserOrPhone")}
      ELSE IF ks = {} THEN {[Rep("wrongUserOrPhoneOrPass") EXCEPT !.user = r.name]}
      ELSE {[Rep("ok") EXCEPT !.user = t[k].name, !.token = TRUE] : k \in firsts}

Login(q) ==
  /\ job[q].step = "sql" /\ request[q].op = "Login"
  /\ \E rep \in LoginReps(users, request[q]) : Finish(q, rep)
  /\ UNCHANGED << users, admins, genUsers >>

(* sgetAllUsers *)
GetAllUsers(q) ==
  /\ job[q].step = "sql" /\ request[q].op = "GetAllUsers"
  /\ Finish(q, [Rep("ok") EXCEPT !.items =
                  [k \in DOMAIN users |-> [user |-> users[k].name, phone |-> users[k].phone]]])
  /\ UNCHANGED << users, admins, genUsers >>

(* saddSysAdmin: each admin of the request is counted, then inserted.       *)
CountAdmin(q) ==
  LET r == request[q]
      i == job[q].i
  IN  /\ job[q].step = "sql" /\ r.op = "AddSysAdmin"
      /\ IF Exhausted(r, i) THEN Finish(q, Rep("ok"))
         ELSE IF admins[AdminRow(r, r.admins[i])] # 0 THEN GoOn(q, "sql", i + 1)
         ELSE GoOn(q, "insert", i)
      /\ UNCHANGED << users, admins, genUsers >>

InsertAdmin(q) ==
  LET r == request[q]
      i == job[q].i
  IN  /\ job[q].step = "insert" /\ r.op = "AddSysAdmin"
      /\ admins' = [admins EXCEPT ![AdminRow(r, r.admins[i])] = @ + 1]
      /\ GoOn(q, "sql", i + 1)
      /\ UNCHANGED << users, genUsers >>

(* sgetSysAdmin: the answer lists the administrators, with their copies.   *)
GetSysAdmin(q) ==
  LET r == request[q]
      rows == {row \in AdminRows : row.user = r.user /\ row.phone = r.phone /\ admins[row] > 0}
  IN  /\ job[q].step = "sql" /\ r.op = "GetSysAdmin"
      /\ Finish(q, [Rep("ok") EXCEPT !.items = {<< row.admin, admins[row] >> : row \in rows}])
      /\ UNCHANGED << users, admins, genUsers >>

(* sdelSysAdmin *)
DelSysAdmin(q) ==
  LET r == request[q]
      i == job[q].i
  IN  /\ job[q].step = "sql" /\ r.op = "DelSysAdmin"
      /\ IF Exhausted(r, i)
         THEN Finish(q, Rep("ok")) /\ UNCHANGED admins
         ELSE /\ admins' = [admins EXCEPT ![AdminRow(r, r.admins[i])] = 0]
              /\ GoOn(q, "sql", i + 1)
      /\ UNCHANGED << users, genUsers >>

(* sgetUserGenInfo from the database: fills the cache, answers nothing.     *)
LoadGenInfo(q) ==
  LET r == request[q]
  IN  /\ job[q].step = "sql" /\ r.op = "GetUserGenInfo" /\ r.fromdb
      /\ genUsers' = Load(genUsers, SelectSeq(users, LAMBDA x :
                            /\ r.user # Empty => x.name = r.user
                            /\ r.phone # Empty => x.phone = r.phone))
      /\ Finish(q, Rep("ok"))
      /\ UNCHANGED << users, admins >>

(* sgetUserGenInfo from the cache: a named user first, then the whole entry *)
(* (which has at most one user, so the named one is answered twice).        *)
CachedInfo(g, r) ==
  IF g = {} THEN Rep("noPhone")
  ELSE LET all == CHOOSE s \in [1 .. Cardinality(g) -> g] : \A n \in g : \E k \in DOMAIN s : s[k] = n
       IN  IF r.user = Empty THEN [Rep("ok") EXCEPT !.items = all]
           ELSE IF r.user \in g THEN [Rep("ok") EXCEPT !.items = << r.user >> \o all]
           ELSE [Rep("noUser") EXCEPT !.items = all]

ReadGenInfo(q) ==
  LET r == request[q]
  IN  /\ job[q].step = "sql" /\ FromCache(r)
      /\ Finish(q, CachedInfo(IF r.phone \in Phones THEN genUsers[r.phone] ELSE {}, r))
      /\ UNCHANGED << users, admins, genUsers >>

(* The process dies and is started again: the tables are on disk.           *)
Restart ==
  /\ restarts < MaxRestart
  /\ restarts' = restarts + 1
  /\ lost' = lost \cup Active \cup {inbox[k] : k \in DOMAIN inbox}
  /\ inbox' = << >>
  /\ job' = [q \in Queries |-> NoJob]
  /\ ret' = [q \in Queries |-> NoReply]
  /\ genUsers' \in AtStart(users)
  /\ idle' = {1} /\ made' = 1
  /\ UNCHANGED << users, admins, request, reply >>

Statement(q) ==
  \/ CountName(q) \/ InsertUser(q) \/ Login(q) \/ GetAllUsers(q)
  \/ CountAdmin(q) \/ InsertAdmin(q) \/ GetSysAdmin(q) \/ DelSysAdmin(q)
  \/ LoadGenInfo(q) \/ ReadGenInfo(q)

(* What the service does by itself. *)
DbStep ==
  \/ RouterTake
  \/ \E q \in Queries : AsyncWait(q) \/ Trigger(q) \/ OpenDb(q) \/ Statement(q) \/ SqlThrows(q)
  \/ Restart

(* Queries have the numbers in which they arrive. *)
InOrder(q) == \A p \in Queries : p < q => request[p] # NoRequest

DbNext == DbStep \/ \E q \in Queries, r \in Requests : InOrder(q) /\ Arrive(q, r)

DbFairness ==
  /\ WF_dbVars(RouterTake)
  /\ \A q \in Queries : WF_dbVars(AsyncWait(q) \/ Trigger(q)) /\ WF_dbVars(OpenDb(q) \/ Statement(q))

DbSpec == DbInit /\ [][DbNext]_dbVars /\ DbFairness

-----------------------------------------------------------------------------
(* Registration counts the name and inserts it in two statements           *)
(* (CommonDBProcess.cpp 38-47) on a table without a unique key: no name is  *)
(* ever in the table twice, whichever queries overlap, fail or are cut off. *)
NamesUnique ==
  \A j, k \in DOMAIN users : users[j].name = users[k].name => j = k

(* Adding an administrator is count and insert in a loop that may stop half *)
(* way: a row is never stored twice, so a failed request may be repeated.   *)
AdminsUnique ==
  \A row \in AdminRows : admins[row] <= 1

(* A registration that was answered ok is in the table with its own phone   *)
(* and password, also after a crash: of two callers who registered a name,  *)
(* one at most was told that it is his.                                     *)
RegisteredForGood ==
  \A q \in Queries :
    (request[q].op = "Regist" /\ reply[q].code = "ok")
      => Has(users, UserRow(request[q]))

(* A login gets a token only for a row with the password that was sent, and *)
(* the name in the answer is that row's.                                    *)
LoginSound ==
  \A q \in Queries :
    (request[q].op = "Login" /\ reply[q].code # "none" /\ reply[q].token)
      => \E k \in DOMAIN users :
           /\ users[k].name = reply[q].user
           /\ users[k].pass = request[q].pass
           /\ users[k].name = request[q].name \/ users[k].phone = request[q].phone

(* A connection is idle or used by one thread, and since dealers run one at *)
(* a time one connection is enough: also when statements throw, none leaks. *)
OneConnection ==
  /\ made <= 1
  /\ \A q \in Queries : job[q].conn # 0 => job[q].conn \notin idle
  /\ \A p, q \in Queries : job[p].conn # 0 /\ job[p].conn = job[q].conn => p = q

(* When ok is answered the tables are as the request wanted them: nothing   *)
(* of another query comes between the last statement and the answer.        *)
Done(r) ==
  CASE r.op = "AddSysAdmin" -> \A i \in DOMAIN r.admins : admins[AdminRow(r, r.admins[i])] # 0
    [] r.op = "DelSysAdmin" -> \A i \in DOMAIN r.admins : admins[AdminRow(r, r.admins[i])] = 0
    [] OTHER -> TRUE

AnsweredDone(q) ==
  (reply[q] = NoReply /\ reply'[q].code = "ok") => Done(request[q])'
OkMeansDone == [][\A q \in Queries : AnsweredDone(q)]_dbVars

(* Every query is answered, also when its statements throw, unless a crash  *)
(* of the service took it.                                                  *)
EveryQueryAnswered ==
  \A q \in Queries : request[q] # NoRequest ~> (reply[q] # NoReply \/ q \in lost)

=============================================================================
