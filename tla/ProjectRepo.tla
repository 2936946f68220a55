---------------------------- MODULE ProjectRepo ----------------------------
(***************************************************************************)
(* The project repository (src/pkg/repository/project/project.go) serving  *)
(* concurrent HTTP requests on the Raft leader.  Every write goes through  *)
(* WriteCommandToRaftLog: the handler reads the local store, appends a     *)
(* DbExecute command to the Raft log and blocks until the FSM has applied  *)
(* it.  Reads (GetOneByName, GetOneByID, GetBatchProjectsByIDs) go         *)
(* straight to the local store under its connection lock, so each is one   *)
(* atomic step.                                                            *)
(*                                                                         *)
(* The job repository's create and delete are part of the model because    *)
(* DeleteOneByID checks the jobs table before it deletes; they are         *)
(* modelled from the spec (C5 JobRepo), as are the Raft log and the FSM    *)
(* apply path (C3, C4), whose code is not in the repository snapshot.      *)
(* The SQL schema is not in the repository either, so the rowid rule is a  *)
(* constant: SQLite gives a new row one past the largest rowid in the     *)
(* table, or, for an AUTOINCREMENT key, one past the largest ever given.   *)
(***************************************************************************)
EXTENDS Naturals, Sequences

CONSTANTS
    Clients,           \* concurrent HTTP request handlers (goroutines)
    Names,             \* non-empty project names a client may send
    Descs,             \* non-empty project descriptions a client may send
    Empty,             \* the empty string ""
    MaxRequests,       \* bound on the number of requests started
    MaxIdInput,        \* largest row id a client puts in a URL
    MaxLeaderChanges,  \* bound on the number of leadership losses
    MaxStoreFaults,    \* bound on the number of failing store queries
    AutoIncrement      \* the tables' INTEGER PRIMARY KEY is AUTOINCREMENT

ASSUME ConstantsAssumption ==
    /\ MaxRequests \in Nat
    /\ MaxIdInput \in Nat
    /\ MaxLeaderChanges \in Nat
    /\ MaxStoreFaults \in Nat
    /\ Empty \notin Names \cup Descs
    /\ AutoIncrement \in BOOLEAN

NameVals == Names \cup {Empty}
DescVals == Descs \cup {Empty}

\* Ids a client may put in a URL.
IdInputs == 1..MaxIdInput

Ops == {"CreateProject", "UpdateProject", "DeleteProject",
        "CreateJob", "DeleteJob"}

\* pc of a handler: idle, about to call WriteCommandToRaftLog, blocked in
\* it, or (CreateOne only) about to read the new row back.
PCs == {"idle", "submit", "await", "readback"}

VARIABLES
    projects,      \* rows of the projects table: [id, name, desc]
    jobs,          \* rows of the jobs table: [id, pid]
    nextId,        \* the projects table's next rowid
    nextJobId,     \* the jobs table's next rowid
    log,           \* Raft log entries appended and not yet applied
    hasLeader,     \* this node is the Raft leader
    pc,            \* per handler: where the running method is
    cmd,           \* per handler: the command it writes (its locals)
    newId,         \* per handler: CreateOne's res.Data.LastInsertedId
    nextTicket,    \* requests started so far; a fresh ticket per request
    applied,       \* tickets of the commands the FSM has applied (history)
    failed,        \* tickets whose handler answered an error after submitting
    panicked,      \* tickets whose handler goroutine panicked (no answer)
    leaderChanges, \* leadership losses so far
    storeFaults    \* store queries that failed so far

vars == <<projects, jobs, nextId, nextJobId, log, hasLeader, pc, cmd, newId,
          nextTicket, applied, failed, panicked, leaderChanges, storeFaults>>

ProjectRec == [id : Nat, name : NameVals, desc : DescVals]
JobRec == [id : Nat, pid : Nat]
\* A DbExecute command with the request's arguments; the ticket names the
\* request, as the Raft future does in the code.
Cmd == [op : Ops, client : Clients, ticket : Nat,
        name : NameVals, desc : DescVals, pid : Nat]

TypeOK ==
    /\ projects \subseteq ProjectRec
    /\ jobs \subseteq JobRec
    /\ nextId \in Nat \ {0}
    /\ nextJobId \in Nat \ {0}
    /\ log \in Seq(Cmd)
    /\ hasLeader \in BOOLEAN
    /\ pc \in [Clients -> PCs]
    /\ cmd \in [Clients -> Cmd]
    /\ newId \in [Clients -> Nat]
    /\ nextTicket \in Nat
    /\ applied \subseteq Nat
    /\ failed \subseteq Nat
    /\ panicked \subseteq Nat
    /\ leaderChanges \in Nat
    /\ storeFaults \in Nat

\* The locals of an idle handler.
NoCmd(c) == [op |-> "CreateProject", client |-> c, ticket |-> 0,
             name |-> Empty, desc |-> Empty, pid |-> 0]

Init ==
    /\ projects = {}
    /\ jobs = {}
    /\ nextId = 1
    /\ nextJobId = 1
    /\ log = << >>
    /\ hasLeader = TRUE
    /\ pc = [c \in Clients |-> "idle"]
    /\ cmd = [c \in Clients |-> NoCmd(c)]
    /\ newId = [c \in Clients |-> 0]
    /\ nextTicket = 0
    /\ applied = {}
    /\ failed = {}
    /\ panicked = {}
    /\ leaderChanges = 0
    /\ storeFaults = 0

\* GetBatchProjectsByIDs: the ids for which a row exists.
ProjectIds == {p.id : p \in projects}

\* GetOneByID finds the row with this id (404 otherwise).
GetOneByID(id) == id \in ProjectIds

\* GetOneByName(project) scans every row named n into project itself, so
\* the description the caller goes on with is d when there is no such row
\* and otherwise that of whichever row came last (SQLite gives no order).
ScannedDescs(n, d) ==
    LET sameName == {p \in projects : p.name = n}
    IN  IF sameName = {} THEN {d} ELSE {p.desc : p \in sameName}

-----------------------------------------------------------------------------
(* Starting a request: the handler's checks up to its WriteCommandToRaftLog *)
(* call, done against the local store in one step.                         *)

\* Begin request o of client c with the given arguments.
Begin(c, o, n, d, pid) ==
    /\ pc[c] = "idle"
    /\ nextTicket < MaxRequests
    /\ nextTicket' = nextTicket + 1
    /\ pc' = [pc EXCEPT ![c] = "submit"]
    /\ cmd' = [cmd EXCEPT ![c] = [op |-> o, client |-> c, ticket |-> nextTicket,
                                  name |-> n, desc |-> d, pid |-> pid]]
    /\ UNCHANGED <<projects, jobs, nextId, nextJobId, log, hasLeader, newId,
                   applied, failed, leaderChanges,
                   panicked, storeFaults>>

\* Answer a request of client c with a 400 before any write.
Reject(c) ==
    /\ pc[c] = "idle"
    /\ nextTicket < MaxRequests
    /\ nextTicket' = nextTicket + 1
    /\ UNCHANGED <<projects, jobs, nextId, nextJobId, log, hasLeader, pc, cmd,
                   newId, applied, failed, leaderChanges,
                   panicked, storeFaults>>

\* CreateOne: reject an empty name or description; otherwise call
\* GetOneByName(project).  The duplicate check then tests
\* projectWithName.ID, which nothing has written, so it never rejects.
\* The insert uses project.Description as the scan left it.
CreateOne(c, n, d) ==
    \/ /\ n = Empty \/ d = Empty
       /\ Reject(c)
    \/ /\ n # Empty /\ d # Empty
       /\ LET projectWithName == [id |-> 0, name |-> n]
          IN  /\ ~(projectWithName.id > 0)
              /\ \E scanned \in ScannedDescs(n, d) :
                    Begin(c, "CreateProject", n, scanned, 0)

\* UpdateOneByID: no check at all; the description is written as given.
UpdateOneByID(c, id, d) == Begin(c, "UpdateProject", Empty, d, id)

\* DeleteOneByID: GetAllByProjectID(id, 0, 1) and reject when a job is
\* found; the delete itself is a separate Raft write.
DeleteOneByID(c, id) ==
    \/ /\ \E j \in jobs : j.pid = id
       /\ Reject(c)
    \/ /\ ~\E j \in jobs : j.pid = id
       /\ Begin(c, "DeleteProject", Empty, Empty, id)

\* GetBatchProjectsByIDs' query fails: it defers rows.Close() before it
\* tests the error, so at its return the deferred Close runs on a nil
\* *sql.Rows and panics (the deferred ConnectionUnlock still runs).
QueryPanics(c) ==
    /\ pc[c] = "idle"
    /\ nextTicket < MaxRequests
    /\ storeFaults < MaxStoreFaults
    /\ nextTicket' = nextTicket + 1
    /\ storeFaults' = storeFaults + 1
    /\ panicked' = panicked \cup {nextTicket}
    /\ UNCHANGED <<projects, jobs, nextId, nextJobId, log, hasLeader, pc, cmd,
                   newId, applied, failed, leaderChanges>>

\* Job creation validates its project with GetBatchProjectsByIDs([pid])
\* and rejects an unknown project, then inserts through Raft.
CreateJob(c, pid) ==
    \/ QueryPanics(c)
    \/ /\ pid \notin ProjectIds
       /\ Reject(c)
    \/ /\ pid \in ProjectIds
       /\ Begin(c, "CreateJob", Empty, Empty, pid)

\* Job deletion writes through Raft without a check.
DeleteJob(c, jid) == Begin(c, "DeleteJob", Empty, Empty, jid)

-----------------------------------------------------------------------------
(* WriteCommandToRaftLog and the FSM.                                      *)

\* The handler calls WriteCommandToRaftLog on the leader: the command is
\* appended and the handler blocks until the FSM has applied it.
Submit(c) ==
    /\ pc[c] = "submit"
    /\ hasLeader
    /\ log' = Append(log, cmd[c])
    /\ pc' = [pc EXCEPT ![c] = "await"]
    /\ UNCHANGED <<projects, jobs, nextId, nextJobId, hasLeader, cmd, newId,
                   nextTicket, applied, failed, leaderChanges,
                   panicked, storeFaults>>

\* CreateOne and UpdateOneByID turn a WriteCommandToRaftLog error into
\* HTTPGenericError(500, applyErr.Error()).  applyErr is a
\* *utils.GenericError, whose Error() panics ("implement me"), so the
\* handler goroutine panics and the client gets no answer; DeleteOneByID
\* and the job writes return the error as it is.
PanicsOnWriteError == {"CreateProject", "UpdateProject"}
\* The tickets of the failed commands cs that are answered with an error,
\* and those whose handler panics.
ErrorAnswered(cs) == {x.ticket : x \in {y \in cs : y.op \notin PanicsOnWriteError}}
ErrorPanics(cs) == {x.ticket : x \in {y \in cs : y.op \in PanicsOnWriteError}}

\* WriteCommandToRaftLog off the leader fails at once (NotLeader).
SubmitNotLeader(c) ==
    /\ pc[c] = "submit"
    /\ ~hasLeader
    /\ pc' = [pc EXCEPT ![c] = "idle"]
    /\ cmd' = [cmd EXCEPT ![c] = NoCmd(c)]
    /\ failed' = failed \cup ErrorAnswered({cmd[c]})
    /\ panicked' = panicked \cup ErrorPanics({cmd[c]})
    /\ UNCHANGED <<projects, jobs, nextId, nextJobId, log, hasLeader, newId,
                   nextTicket, applied, leaderChanges, storeFaults>>

\* The store's tables as one value.
Db == [projects |-> projects, jobs |-> jobs, nextId |-> nextId, nextJobId |-> nextJobId]

\* The effect of one DbExecute command x on the tables db.
ApplyProjects(db, x) ==
    CASE x.op = "CreateProject" ->
              db.projects \cup {[id |-> db.nextId, name |-> x.name, desc |-> x.desc]}
      [] x.op = "UpdateProject" ->
              {IF p.id = x.pid THEN [id |-> p.id, name |-> p.name, desc |-> x.desc]
                               ELSE p : p \in db.projects}
      [] x.op = "DeleteProject" -> {p \in db.projects : p.id # x.pid}
      [] OTHER -> db.projects

ApplyJobs(db, x) ==
    CASE x.op = "CreateJob" -> db.jobs \cup {[id |-> db.nextJobId, pid |-> x.pid]}
      [] x.op = "DeleteJob" -> {j \in db.jobs : j.id # x.pid}
      [] OTHER -> db.jobs

\* The rowids of the rows rs, and the largest of them (0 for an empty table).
RowidsOf(rs) == {r.id : r \in rs}
TopRowid(rs) ==
    LET IsTop(m) == \A k \in RowidsOf(rs) : k <= m
    IN  IF \E m \in RowidsOf(rs) : IsTop(m)
        THEN CHOOSE m \in RowidsOf(rs) : IsTop(m) ELSE 0

\* The rowid SQLite gives the next insert into a table whose rows are now
\* rs, after an insert (grows) or another command (stays): with
\* AUTOINCREMENT one past the largest rowid ever given, otherwise one past
\* the largest rowid left in the table, which a delete may lower.
NextTableRowid(next, rs, inserts) ==
    IF AutoIncrement THEN IF inserts THEN next + 1 ELSE next
    ELSE TopRowid(rs) + 1

\* Mutant: the rowid counter steps back when a project is deleted.
NextRowidStepsBack(db, x) ==
    CASE x.op = "CreateProject" -> db.nextId + 1
      [] x.op = "DeleteProject" -> db.nextId - 1
      [] OTHER -> db.nextId

\* The projects table's rowid after command x.
NextRowid(db, x) ==
    NextTableRowid(db.nextId, ApplyProjects(db, x), x.op = "CreateProject")

\* The jobs table's rowid after command x.
NextJobRowid(db, x) ==
    NextTableRowid(db.nextJobId, ApplyJobs(db, x), x.op = "CreateJob")

\* The tables after the FSM has executed x.
Execute(db, x) ==
    [projects |-> ApplyProjects(db, x), jobs |-> ApplyJobs(db, x),
     nextId |-> NextRowid(db, x), nextJobId |-> NextJobRowid(db, x)]

\* Mutant: the id read back is one past the inserted row's.
LastInsertedIdOffByOne(db) == db.nextId + 1

\* CreateOne takes res.Data.LastInsertedId, the rowid the FSM's insert
\* gave the new row, as the id to read back.
LastInsertedId(db) == db.nextId

\* The FSM applies the oldest entry; the handler blocked on that entry, if
\* any, is released with the result.  CreateOne goes on to GetOneByID; the
\* other writes answer at once.
Apply ==
    /\ hasLeader
    /\ log # << >>
    /\ LET x == Head(log)
           c == x.client
           waiting == pc[c] = "await" /\ cmd[c].ticket = x.ticket
       IN  /\ projects' = Execute(Db, x).projects
           /\ jobs' = Execute(Db, x).jobs
           /\ nextId' = Execute(Db, x).nextId
           /\ nextJobId' = Execute(Db, x).nextJobId
           /\ log' = Tail(log)
           /\ applied' = applied \cup {x.ticket}
           /\ pc' = IF ~waiting THEN pc
                    ELSE [pc EXCEPT ![c] = IF x.op = "CreateProject"
                                             THEN "readback" ELSE "idle"]
           /\ cmd' = IF waiting /\ x.op # "CreateProject"
                       THEN [cmd EXCEPT ![c] = NoCmd(c)] ELSE cmd
           /\ newId' = IF waiting /\ x.op = "CreateProject"
                         THEN [newId EXCEPT ![c] = LastInsertedId(Db)] ELSE newId
    /\ UNCHANGED <<hasLeader, nextTicket, failed, leaderChanges,
                   panicked, storeFaults>>

\* Mutant: when the read-back finds no row, the handler resubmits its insert.
ReadBackRetries(c) ==
    /\ pc[c] = "readback"
    /\ pc' = [pc EXCEPT ![c] = IF GetOneByID(newId[c]) THEN "idle" ELSE "submit"]
    /\ cmd' = IF GetOneByID(newId[c]) THEN [cmd EXCEPT ![c] = NoCmd(c)] ELSE cmd
    /\ newId' = [newId EXCEPT ![c] = 0]
    /\ UNCHANGED <<projects, jobs, nextId, nextJobId, log, hasLeader,
                   nextTicket, applied, failed, leaderChanges,
                   panicked, storeFaults>>

\* Whether a store query may fail: a fault is left.
QueryOutcomes == IF storeFaults < MaxStoreFaults THEN BOOLEAN ELSE {FALSE}

\* CreateOne, after the write: GetOneByID on the new id.  When the row is
\* gone (404), or the query fails (500), CreateOne calls getErr.Error(),
\* which panics.
ReadBack(c) ==
    /\ pc[c] = "readback"
    /\ pc' = [pc EXCEPT ![c] = "idle"]
    /\ cmd' = [cmd EXCEPT ![c] = NoCmd(c)]
    /\ newId' = [newId EXCEPT ![c] = 0]
    /\ \E queryFails \in QueryOutcomes :
          /\ storeFaults' = IF queryFails THEN storeFaults + 1 ELSE storeFaults
          /\ panicked' = IF GetOneByID(newId[c]) /\ ~queryFails THEN panicked
                         ELSE panicked \cup {cmd[c].ticket}
    /\ UNCHANGED <<projects, jobs, nextId, nextJobId, log, hasLeader,
                   nextTicket, applied, failed, leaderChanges>>

\* The node loses leadership: the entries not yet committed may be lost (a
\* new leader keeps some prefix of them) and every blocked call returns
\* ErrLeadershipLost, whether or not its entry survives.
LoseLeader ==
    /\ hasLeader
    /\ leaderChanges < MaxLeaderChanges
    /\ leaderChanges' = leaderChanges + 1
    /\ hasLeader' = FALSE
    /\ \E k \in 0..Len(log) : log' = SubSeq(log, 1, k)
    /\ LET waiting == {c \in Clients : pc[c] = "await"}
       IN  /\ pc' = [c \in Clients |-> IF c \in waiting THEN "idle" ELSE pc[c]]
           /\ cmd' = [c \in Clients |-> IF c \in waiting THEN NoCmd(c) ELSE cmd[c]]
           /\ failed' = failed \cup ErrorAnswered({cmd[c] : c \in waiting})
           /\ panicked' = panicked \cup ErrorPanics({cmd[c] : c \in waiting})
    /\ UNCHANGED <<projects, jobs, nextId, nextJobId, newId, nextTicket, applied,
                   storeFaults>>

\* A leader is elected again (this model follows the leader's store).
Elect ==
    /\ ~hasLeader
    /\ hasLeader' = TRUE
    /\ UNCHANGED <<projects, jobs, nextId, nextJobId, log, pc, cmd, newId,
                   nextTicket, applied, failed, leaderChanges,
                   panicked, storeFaults>>

\* Every request has been served and the request bound is reached.
Terminated ==
    /\ nextTicket = MaxRequests
    /\ \A c \in Clients : pc[c] = "idle"
    /\ log = << >>
    /\ UNCHANGED vars

Handler(c) ==
    \/ \E n \in NameVals, d \in DescVals : CreateOne(c, n, d)
    \/ \E id \in IdInputs, d \in DescVals : UpdateOneByID(c, id, d)
    \/ \E id \in IdInputs : DeleteOneByID(c, id)
    \/ \E id \in IdInputs : CreateJob(c, id)
    \/ \E id \in IdInputs : DeleteJob(c, id)
    \/ Submit(c)
    \/ SubmitNotLeader(c)
    \/ ReadBack(c)

Next ==
    \/ \E c \in Clients : Handler(c)
    \/ Apply
    \/ LoseLeader
    \/ Elect
    \/ Terminated

Spec == Init /\ [][Next]_vars

-----------------------------------------------------------------------------
(* Properties.                                                             *)

LogTickets == {log[i].ticket : i \in 1..Len(log)}

\* The Raft write pipeline stays consistent through leadership losses: no
\* command is in the log twice or applied twice, and a handler blocked in
\* WriteCommandToRaftLog always has its own entry still in the log, so the
\* FSM will release it (a handler whose entry was dropped without an error
\* would block forever).
LogDistinct ==
    \A i, j \in 1..Len(log) : i # j => log[i].ticket # log[j].ticket
LogNotApplied == LogTickets \cap applied = {}
WaiterHasEntry ==
    \A c \in Clients : pc[c] = "await" =>
        \E i \in 1..Len(log) : log[i] = cmd[c]
PipelineConsistent == LogDistinct /\ LogNotApplied /\ WaiterHasEntry

\* CreateOne reads back the row its own insert created: whatever other
\* creates, updates and deletes the FSM applied in between, a row with the
\* id a handler holds for its read-back carries that handler's name (it may
\* be gone, or have another description after an update).
ReadBackOwnRow ==
    \A c \in Clients : pc[c] = "readback" =>
        \A p \in projects : p.id = newId[c] => p.name = cmd[c].name

\* Spec 3 and 4.5: CreateOne rejects a duplicate name, so no two projects
\* share a name.
UniqueNames ==
    \A p, q \in projects : p.id # q.id => p.name # q.name

\* Spec 3: a project is not deleted while a job references it, so every
\* job's project exists.
NoOrphanJobs ==
    \A j \in jobs : j.pid \in ProjectIds

\* Spec 7: every error surfaces at the HTTP boundary as a status; no
\* request's handler dies without answering it.
ErrorsSurface == panicked = {}

\* A write whose handler answered an error was not performed.
FailedWriteNotApplied == failed \cap applied = {}

=============================================================================
