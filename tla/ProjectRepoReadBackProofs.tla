--------------------- MODULE ProjectRepoReadBackProofs ---------------------
(***************************************************************************)
(* Proof that CreateOne reads back its own row when the tables' key is     *)
(* AUTOINCREMENT, so that a rowid is never given twice.  (Without it,      *)
(* SQLite gives a deleted top rowid again, and the read_back_reused run    *)
(* shows a handler reading a neighbour's row.)  ReadBackOwnRow is not      *)
(* inductive alone: when the FSM inserts a row with rowid nextId, no       *)
(* earlier row may have that id (IdsBelow), and no handler that is about   *)
(* to read back may hold it (ReadBackBelow); the handler the insert        *)
(* releases must hold the inserted command itself, which IInv gives        *)
(* (WaiterHasEntry and LogDistinct single out the head entry).             *)
(***************************************************************************)
EXTENDS ProjectRepoProofs, TLAPS

\* Every row's id was handed out by the rowid counter.
IdsBelow == \A p \in projects : p.id < nextId
\* A handler about to read back holds an id handed out already.
ReadBackBelow == \A c \in Clients : pc[c] = "readback" => newId[c] < nextId

RInv == IInv /\ IdsBelow /\ ReadBackBelow /\ ReadBackOwnRow

\* Executing a command keeps every row's id and name, or inserts the one
\* row with the current rowid and the command's name.
LEMMA ApplyProjectsRows ==
    ASSUME NEW db, NEW x, NEW q \in ApplyProjects(db, x)
    PROVE  \/ x.op = "CreateProject" /\ q.id = db.nextId /\ q.name = x.name
           \/ \E p \in db.projects : p.id = q.id /\ p.name = q.name
<1>1. CASE x.op = "CreateProject"
  <2>1. ApplyProjects(db, x) =
          db.projects \cup {[id |-> db.nextId, name |-> x.name, desc |-> x.desc]}
    BY <1>1 DEF ApplyProjects
  <2> QED
    BY <1>1, <2>1
<1>2. CASE x.op = "UpdateProject"
  <2>1. ApplyProjects(db, x) =
          {IF p.id = x.pid THEN [id |-> p.id, name |-> p.name, desc |-> x.desc]
                           ELSE p : p \in db.projects}
    BY <1>2 DEF ApplyProjects
  <2>2. PICK p \in db.projects :
          q = IF p.id = x.pid THEN [id |-> p.id, name |-> p.name, desc |-> x.desc]
                              ELSE p
    BY <2>1
  <2> QED
    BY <2>2
<1>3. CASE x.op = "DeleteProject"
  <2>1. ApplyProjects(db, x) = {p \in db.projects : p.id # x.pid}
    BY <1>3 DEF ApplyProjects
  <2> QED
    BY <2>1
<1>4. CASE x.op \notin {"CreateProject", "UpdateProject", "DeleteProject"}
  <2>1. ApplyProjects(db, x) = db.projects
    BY <1>4 DEF ApplyProjects
  <2> QED
    BY <2>1
<1> QED
  BY <1>1, <1>2, <1>3, <1>4

\* With AUTOINCREMENT the rowid counter never goes back, and an insert
\* moves it one on.
LEMMA NextRowidGrows ==
    ASSUME AutoIncrement, NEW db, db.nextId \in Nat, NEW x
    PROVE  /\ NextRowid(db, x) \in Nat /\ db.nextId <= NextRowid(db, x)
           /\ x.op = "CreateProject" => NextRowid(db, x) = db.nextId + 1
BY DEF NextRowid, NextTableRowid

\* A step that leaves the tables and the rowid alone and makes no handler
\* newly ready to read back, nor changes a reading handler's id or command,
\* keeps the three conjuncts.
LEMMA QuietStep ==
    ASSUME IdsBelow, ReadBackBelow, ReadBackOwnRow,
           UNCHANGED <<projects, nextId>>,
           \A e \in Clients : pc'[e] = "readback" =>
              pc[e] = "readback" /\ newId'[e] = newId[e] /\ cmd'[e] = cmd[e]
    PROVE  IdsBelow' /\ ReadBackBelow' /\ ReadBackOwnRow'
BY DEF IdsBelow, ReadBackBelow, ReadBackOwnRow

\* A handler step of c touches neither the tables nor a reading handler.
LEMMA HandlerQuiet ==
    ASSUME TypeOK, NEW c \in Clients, Handler(c)
    PROVE  /\ UNCHANGED <<projects, nextId>>
           /\ \A e \in Clients : pc'[e] = "readback" =>
                 pc[e] = "readback" /\ newId'[e] = newId[e] /\ cmd'[e] = cmd[e]
<1> DEFINE Quiet == /\ UNCHANGED <<projects, nextId>>
                    /\ \A e \in Clients : pc'[e] = "readback" =>
                          pc[e] = "readback" /\ newId'[e] = newId[e]
                          /\ cmd'[e] = cmd[e]
<1>1. ASSUME NEW o, NEW n, NEW d, NEW pid, Begin(c, o, n, d, pid) PROVE Quiet
  BY <1>1 DEF Begin, TypeOK
<1>2. ASSUME Reject(c) \/ QueryPanics(c) PROVE Quiet
  BY <1>2 DEF Reject, QueryPanics
<1>3. CASE \E n \in NameVals, d \in DescVals : CreateOne(c, n, d)
  BY <1>3, <1>1, <1>2 DEF CreateOne
<1>4. CASE \E id \in IdInputs, d \in DescVals : UpdateOneByID(c, id, d)
  BY <1>4, <1>1 DEF UpdateOneByID
<1>5. CASE \E id \in IdInputs : DeleteOneByID(c, id)
  BY <1>5, <1>1, <1>2 DEF DeleteOneByID
<1>6. CASE \E id \in IdInputs : CreateJob(c, id)
  BY <1>6, <1>1, <1>2 DEF CreateJob
<1>7. CASE \E id \in IdInputs : DeleteJob(c, id)
  BY <1>7, <1>1 DEF DeleteJob
<1>8. CASE Submit(c)
  BY <1>8 DEF Submit, TypeOK
<1>9. CASE SubmitNotLeader(c)
  BY <1>9 DEF SubmitNotLeader, TypeOK
<1>10. CASE ReadBack(c)
  BY <1>10 DEF ReadBack, TypeOK
<1> QED
  BY <1>3, <1>4, <1>5, <1>6, <1>7, <1>8, <1>9, <1>10 DEF Handler

\* The handler the FSM releases is blocked on the head entry itself.
LEMMA WaiterHoldsHead ==
    ASSUME IInv, log # << >>, NEW c \in Clients, pc[c] = "await",
           cmd[c].ticket = Head(log).ticket
    PROVE  cmd[c] = Head(log)
<1>1. PICK i \in 1..Len(log) : log[i] = cmd[c]
  BY DEF IInv, PipelineConsistent, WaiterHasEntry
<1>2. Len(log) >= 1 /\ Head(log) = log[1]
  BY DEF IInv, TypeOK
<1>3. i = 1
  BY <1>1, <1>2 DEF IInv, PipelineConsistent, LogDistinct
<1> QED
  BY <1>1, <1>2, <1>3

\* The FSM's apply keeps the three conjuncts: a created row gets the fresh
\* rowid, and the handler it releases reads back exactly that id.
LEMMA ApplyReadBack ==
    ASSUME AutoIncrement, IInv, IdsBelow, ReadBackBelow, ReadBackOwnRow, Apply
    PROVE  IdsBelow' /\ ReadBackBelow' /\ ReadBackOwnRow'
<1> DEFINE x == Head(log)
           c0 == x.client
           w == pc[c0] = "await" /\ cmd[c0].ticket = x.ticket
           create == w /\ x.op = "CreateProject"
<1>1. /\ log # << >>
      /\ projects' = ApplyProjects(Db, x)
      /\ nextId' = NextRowid(Db, x)
      /\ pc' = IF ~w THEN pc
               ELSE [pc EXCEPT ![c0] = IF x.op = "CreateProject"
                                        THEN "readback" ELSE "idle"]
      /\ cmd' = IF w /\ x.op # "CreateProject"
                  THEN [cmd EXCEPT ![c0] = NoCmd(c0)] ELSE cmd
      /\ newId' = IF create THEN [newId EXCEPT ![c0] = LastInsertedId(Db)]
                  ELSE newId
  BY DEF Apply, Execute
<1>2. Db.nextId = nextId /\ Db.projects = projects /\ LastInsertedId(Db) = nextId
  BY DEF Db, LastInsertedId
<1>3. nextId \in Nat /\ nextId' \in Nat /\ nextId <= nextId'
  BY <1>1, <1>2, NextRowidGrows DEF IInv, TypeOK
<1>4. x.op = "CreateProject" => nextId' = nextId + 1
  BY <1>1, <1>2, <1>3, NextRowidGrows
<1>5. c0 \in Clients
  <2>1. x \in Cmd
    BY <1>1 DEF IInv, TypeOK
  <2> QED
    BY <2>1 DEF Cmd
<1>6. \A q \in projects' :
         \/ x.op = "CreateProject" /\ q.id = nextId /\ q.name = x.name
         \/ \E p \in projects : p.id = q.id /\ p.name = q.name
  BY <1>1, <1>2, ApplyProjectsRows
<1>7. \A p \in projects : p.id \in Nat
  BY DEF IInv, TypeOK, ProjectRec
<1>8. IdsBelow'
  BY <1>3, <1>4, <1>6, <1>7 DEF IdsBelow
<1>9. ASSUME NEW e \in Clients, pc'[e] = "readback"
      PROVE  \/ create /\ e = c0
             \/ pc[e] = "readback" /\ newId'[e] = newId[e] /\ cmd'[e] = cmd[e]
  BY <1>1, <1>9 DEF IInv, TypeOK
<1>10. create => cmd[c0] = x /\ newId'[c0] = nextId /\ cmd'[c0] = cmd[c0]
  BY <1>1, <1>2, <1>5, WaiterHoldsHead DEF IInv, TypeOK
<1>11. \A e \in Clients : pc[e] = "readback" => newId[e] \in Nat
  BY DEF IInv, TypeOK
<1>12. ReadBackBelow'
  BY <1>3, <1>4, <1>9, <1>10, <1>11 DEF ReadBackBelow
<1>13. ReadBackOwnRow'
  <2> SUFFICES ASSUME NEW e \in Clients, pc'[e] = "readback",
                      NEW q \in projects', q.id = newId'[e]
               PROVE  q.name = cmd'[e].name
    BY DEF ReadBackOwnRow
  <2>1. CASE create /\ e = c0
    BY <2>1, <1>6, <1>7, <1>10 DEF IdsBelow
  <2>2. CASE pc[e] = "readback" /\ newId'[e] = newId[e] /\ cmd'[e] = cmd[e]
    <3>1. newId[e] < nextId
      BY <2>2 DEF ReadBackBelow
    <3>2. newId[e] \in Nat /\ nextId \in Nat
      BY <2>2, <1>3, <1>11
    <3>3. q.id # nextId
      BY <2>2, <3>1, <3>2
    <3> QED
      BY <2>2, <1>6, <3>3 DEF ReadBackOwnRow
  <2> QED
    BY <1>9, <2>1, <2>2
<1> QED
  BY <1>8, <1>12, <1>13

\* With AUTOINCREMENT, every step keeps the strengthened invariant.
LEMMA NextRInv ==
    ASSUME AutoIncrement
    PROVE  RInv /\ [Next]_vars => RInv'
<1> SUFFICES ASSUME RInv, [Next]_vars PROVE RInv'
  OBVIOUS
<1>1. IInv'
  BY NextIInv DEF RInv
<1>2. CASE \E c \in Clients : Handler(c)
  BY <1>1, <1>2, HandlerQuiet, QuietStep DEF RInv, IInv
<1>3. CASE Apply
  BY <1>1, <1>3, ApplyReadBack DEF RInv
<1>4. CASE LoseLeader
  <2>1. /\ UNCHANGED <<projects, nextId>>
        /\ \A e \in Clients : pc'[e] = "readback" =>
              pc[e] = "readback" /\ newId'[e] = newId[e] /\ cmd'[e] = cmd[e]
    BY <1>4 DEF LoseLeader
  <2> QED
    BY <1>1, <2>1, QuietStep DEF RInv
<1>5. CASE Elect \/ Terminated \/ UNCHANGED vars
  <2>1. UNCHANGED <<projects, nextId, pc, newId, cmd>>
    BY <1>5 DEF Elect, Terminated, vars
  <2> QED
    BY <1>1, <2>1, QuietStep DEF RInv
<1> QED
  BY <1>2, <1>3, <1>4, <1>5 DEF Next

\* For any clients and bounds, if the projects table's key is declared
\* AUTOINCREMENT, CreateOne's GetOneByID reads back the row its own insert
\* created: a row with the id LastInsertedId gave the handler carries the
\* handler's name, whatever other creates, updates and deletes the FSM
\* applied between the insert and the read-back.  The hypothesis is
\* needed: read_back_reused breaks the invariant under SQLite's default
\* rowids.
THEOREM ReadBackOwnRowInvariant ==
    ASSUME AutoIncrement
    PROVE  Spec => []ReadBackOwnRow
<1>1. Init => RInv
  BY InitIInv DEF Init, RInv, IdsBelow, ReadBackBelow, ReadBackOwnRow
<1>2. RInv => ReadBackOwnRow
  BY DEF RInv
<1>3. RInv /\ [Next]_vars => RInv'
  BY NextRInv
<1> QED
  BY <1>1, <1>2, <1>3, PTL DEF Spec

=============================================================================
