----------------------- MODULE ProjectRepoStoreProofs -----------------------
(***************************************************************************)
(* Proof that ProjectRepo implements ProjectStore under the mapping of     *)
(* ProjectRepoStore: the initial state maps to the abstract initial state, *)
(* and, in every state satisfying the pipeline's inductive invariant IInv, *)
(* every step maps to an abstract step or to a stutter.                    *)
(***************************************************************************)
EXTENDS ProjectRepoStore, ProjectRepoProofs, TLAPS

\* The mapped status and call of the handlers.
St == [c \in Clients |-> CallStatus(c)]
Cl == [c \in Clients |-> IF pc[c] = "idle" THEN NoCall ELSE cmd[c]]

LEMMA InitRefines == Init => Store!Init
BY DEF Init, Store!Init, Db, LogEntries, CallStatus

\* A step that leaves the tables, the log, the applied set, the tickets and
\* the handlers alone is an abstract stutter.
LEMMA StutterRefines ==
    ASSUME UNCHANGED <<projects, jobs, nextId, nextJobId, log, applied,
                       nextTicket, pc, cmd>>
    PROVE  UNCHANGED Store!vars
BY DEF Store!vars, Db, LogEntries, CallStatus

\* Begin is a call: the handler leaves idle with a fresh ticket.
LEMMA BeginRefines ==
    ASSUME TypeOK, NEW c \in Clients, NEW o \in Ops, NEW n \in NameVals,
           NEW d \in DescVals, NEW pid \in Nat, Begin(c, o, n, d, pid)
    PROVE  Store!Call(c)
<1> DEFINE r == [op |-> o, client |-> c, ticket |-> nextTicket,
                 name |-> n, desc |-> d, pid |-> pid]
<1>1. /\ pc[c] = "idle"
      /\ pc' = [pc EXCEPT ![c] = "submit"]
      /\ cmd' = [cmd EXCEPT ![c] = r]
      /\ nextTicket' = nextTicket + 1
      /\ UNCHANGED <<projects, jobs, nextId, nextJobId, log, applied>>
  BY DEF Begin
<1>2. St[c] = "idle" /\ St' = [St EXCEPT ![c] = "pending"]
  <2>1. St[c] = "idle"
    BY <1>1 DEF St, CallStatus
  <2>2. CallStatus(c)' = "pending"
    BY <1>1 DEF CallStatus, TypeOK
  <2>3. \A e \in Clients \ {c} : CallStatus(e)' = CallStatus(e)
    BY <1>1 DEF CallStatus, TypeOK
  <2> QED
    BY <2>1, <2>2, <2>3 DEF St
<1>3. Cl'[c] = r /\ Cl' = [Cl EXCEPT ![c] = Cl'[c]]
  BY <1>1 DEF Cl, TypeOK
<1>4. UNCHANGED <<Db, LogEntries>>
  BY <1>1 DEF Db, LogEntries
<1> QED
  BY <1>1, <1>2, <1>3, <1>4 DEF Store!Call, St, Cl

\* A request refused before any write, or whose store query panicked,
\* only uses up a ticket.
LEMMA RefuseRefines ==
    ASSUME TypeOK, NEW c \in Clients,
           pc[c] = "idle", nextTicket' = nextTicket + 1,
           UNCHANGED <<projects, jobs, nextId, nextJobId, log, applied, pc, cmd>>
    PROVE  Store!Refuse(c)
<1>1. St[c] = "idle"
  BY DEF St, CallStatus
<1> QED
  BY <1>1 DEF Store!Refuse, St, Db, LogEntries, CallStatus

\* Submit hands the handler's command to the store: the command carries a
\* fresh ticket (SubmitFresh), so it is neither logged nor applied yet.
LEMMA SubmitRefines ==
    ASSUME IInv, NEW c \in Clients, Submit(c)
    PROVE  Store!Accept(c)
<1> USE DEF IInv
<1>1. /\ pc[c] = "submit"
      /\ log' = Append(log, cmd[c])
      /\ pc' = [pc EXCEPT ![c] = "await"]
      /\ UNCHANGED <<projects, jobs, nextId, nextJobId, cmd, nextTicket, applied>>
  BY DEF Submit
<1>2. St[c] = "pending" /\ St' = St
  BY <1>1 DEF St, CallStatus, TypeOK
<1>3. Cl[c] = cmd[c] /\ Cl' = Cl
  BY <1>1 DEF Cl, TypeOK
<1>4. cmd[c].ticket \notin LogTickets \cup applied
  BY <1>1 DEF SubmitFresh
<1>5. cmd[c] \notin LogEntries
  BY <1>4 DEF LogEntries, LogTickets
<1>6. LogEntries' = LogEntries \cup {cmd[c]}
  <2>1. /\ Len(log') = Len(log) + 1
        /\ log'[Len(log) + 1] = cmd[c]
        /\ \A i \in 1..Len(log) : log'[i] = log[i]
    BY <1>1 DEF TypeOK
  <2>2. 1..Len(log') = (1..Len(log)) \cup {Len(log) + 1}
    BY <2>1 DEF TypeOK
  <2> QED
    BY <2>1, <2>2 DEF LogEntries
<1>7. UNCHANGED Db
  BY <1>1 DEF Db
<1> QED
  BY <1>1, <1>2, <1>3, <1>4, <1>5, <1>6, <1>7 DEF Store!Accept, St, Cl

\* A step in which some handlers in the pipeline fail back to idle, the
\* others are left alone, and the log keeps a subset of its entries, is an
\* abort.
LEMMA AbortRefines ==
    ASSUME TypeOK, TypeOK',
           UNCHANGED <<projects, jobs, nextId, nextJobId, applied, nextTicket>>,
           LogEntries' \subseteq LogEntries,
           \A e \in Clients : \/ pc'[e] = pc[e] /\ cmd'[e] = cmd[e]
                              \/ pc[e] \in {"submit", "await"} /\ pc'[e] = "idle"
    PROVE  Store!Abort
<1>1. DOMAIN St' = DOMAIN St /\ DOMAIN Cl' = DOMAIN Cl
  BY DEF St, Cl
<1>2. \A e \in Clients : \/ St'[e] = St[e] /\ Cl'[e] = Cl[e]
                         \/ St[e] = "pending" /\ St'[e] = "idle" /\ Cl'[e] = NoCall
  BY DEF St, Cl, CallStatus, TypeOK
<1>3. UNCHANGED Db
  BY DEF Db
<1> QED
  BY <1>1, <1>2, <1>3 DEF Store!Abort, St, Cl

\* WriteCommandToRaftLog failing off the leader aborts one call.
LEMMA SubmitNotLeaderRefines ==
    ASSUME IInv, NEW c \in Clients, SubmitNotLeader(c)
    PROVE  Store!Abort
<1>1. TypeOK'
  BY SubmitNotLeaderIInv DEF IInv
<1>2. /\ pc[c] = "submit"
      /\ pc' = [pc EXCEPT ![c] = "idle"]
      /\ cmd' = [cmd EXCEPT ![c] = NoCmd(c)]
      /\ UNCHANGED <<projects, jobs, nextId, nextJobId, log, applied, nextTicket>>
  BY DEF SubmitNotLeader
<1>3. LogEntries' \subseteq LogEntries
  BY <1>2 DEF LogEntries
<1>4. \A e \in Clients : \/ pc'[e] = pc[e] /\ cmd'[e] = cmd[e]
                         \/ pc[e] \in {"submit", "await"} /\ pc'[e] = "idle"
  BY <1>2 DEF IInv, TypeOK
<1> QED
  BY <1>1, <1>2, <1>3, <1>4, AbortRefines DEF IInv

\* A leadership loss keeps a prefix of the log and fails every waiter.
LEMMA LoseLeaderRefines ==
    ASSUME IInv, LoseLeader
    PROVE  Store!Abort
<1>1. TypeOK'
  BY LoseLeaderIInv DEF IInv
<1>2. PICK k \in 0..Len(log) : log' = SubSeq(log, 1, k)
  BY DEF LoseLeader
<1>3. LogEntries' \subseteq LogEntries
  BY <1>2 DEF LogEntries, IInv, TypeOK
<1>4. \A e \in Clients : \/ pc'[e] = pc[e] /\ cmd'[e] = cmd[e]
                         \/ pc[e] \in {"submit", "await"} /\ pc'[e] = "idle"
  BY DEF LoseLeader
<1>5. UNCHANGED <<projects, jobs, nextId, nextJobId, applied, nextTicket>>
  BY DEF LoseLeader
<1> QED
  BY <1>1, <1>3, <1>4, <1>5, AbortRefines DEF IInv

\* CreateOne's read-back ends the call: the handler answers (or panics).
LEMMA ReadBackRefines ==
    ASSUME TypeOK, NEW c \in Clients, ReadBack(c)
    PROVE  Store!Answer(c)
<1>1. /\ pc[c] = "readback"
      /\ pc' = [pc EXCEPT ![c] = "idle"]
      /\ cmd' = [cmd EXCEPT ![c] = NoCmd(c)]
      /\ UNCHANGED <<projects, jobs, nextId, nextJobId, log, applied, nextTicket>>
  BY DEF ReadBack
<1>2. St[c] = "answering" /\ St' = [St EXCEPT ![c] = "idle"]
  <2>1. St[c] = "answering"
    BY <1>1 DEF St, CallStatus
  <2>2. CallStatus(c)' = "idle"
    BY <1>1 DEF CallStatus, TypeOK
  <2>3. \A e \in Clients \ {c} : CallStatus(e)' = CallStatus(e)
    BY <1>1 DEF CallStatus, TypeOK
  <2> QED
    BY <2>1, <2>2, <2>3 DEF St
<1>3. Cl' = [Cl EXCEPT ![c] = NoCall]
  BY <1>1 DEF Cl, TypeOK
<1>4. UNCHANGED <<Db, LogEntries>>
  BY <1>1 DEF Db, LogEntries
<1> QED
  BY <1>1, <1>2, <1>3, <1>4 DEF Store!Answer, St, Cl

\* The FSM's apply executes the head of the log, whose ticket is not
\* applied yet (LogNotApplied) and not repeated in the rest of the log
\* (LogDistinct).  The handler the abstract step releases is the one blocked
\* on that entry: a handler about to submit holds a fresh ticket
\* (SubmitFresh), so it cannot be the head's caller.
LEMMA ApplyRefines ==
    ASSUME IInv, Apply
    PROVE  \E x \in LogEntries : Store!Apply(x)
<1> USE DEF IInv, PipelineConsistent
<1> DEFINE x == Head(log)
           c0 == x.client
           w == pc[c0] = "await" /\ cmd[c0].ticket = x.ticket
<1>1. /\ log # << >>
      /\ log' = Tail(log)
      /\ applied' = applied \cup {x.ticket}
      /\ UNCHANGED nextTicket
      /\ projects' = Execute(Db, x).projects
      /\ jobs' = Execute(Db, x).jobs
      /\ nextId' = Execute(Db, x).nextId
      /\ nextJobId' = Execute(Db, x).nextJobId
      /\ pc' = IF ~w THEN pc
               ELSE [pc EXCEPT ![c0] = IF x.op = "CreateProject"
                                        THEN "readback" ELSE "idle"]
      /\ cmd' = IF w /\ x.op # "CreateProject"
                  THEN [cmd EXCEPT ![c0] = NoCmd(c0)] ELSE cmd
  BY DEF Apply
<1>2. /\ Len(log) >= 1
      /\ x = log[1]
      /\ Len(log') = Len(log) - 1
      /\ \A i \in 1..Len(log') : log'[i] = log[i + 1]
  BY <1>1 DEF TypeOK
<1>3. x \in Cmd /\ c0 \in Clients
  <2>1. x \in Cmd
    BY <1>2 DEF TypeOK
  <2> QED
    BY <2>1 DEF Cmd
<1>4. x \in LogEntries /\ x.ticket \in LogTickets
  BY <1>2 DEF LogEntries, LogTickets
<1>5. x.ticket \notin applied
  BY <1>4 DEF LogNotApplied
<1>6. LogEntries' = LogEntries \ {x}
  <2>1. \A i \in 2..Len(log) : log[i] # x
    BY <1>2 DEF LogDistinct
  <2>2. LogEntries' = {log[i] : i \in 2..Len(log)}
    <3>1. \A i \in 1..Len(log') : log'[i] = log[i + 1]
      BY <1>2
    <3>2. \A y : y \in LogEntries' <=> \E i \in 1..Len(log') : y = log'[i]
      BY DEF LogEntries
    <3>3. \A y : (\E i \in 1..Len(log') : y = log'[i])
                   <=> \E i \in 2..Len(log) : y = log[i]
      <4>1. ASSUME NEW i \in 1..Len(log') PROVE i + 1 \in 2..Len(log)
        BY <1>2 DEF TypeOK
      <4>2. ASSUME NEW i \in 2..Len(log) PROVE i - 1 \in 1..Len(log') /\ i - 1 + 1 = i
        BY <1>2 DEF TypeOK
      <4> QED
        BY <3>1, <4>1, <4>2
    <3> QED
      BY <3>2, <3>3
  <2>3. LogEntries = {x} \cup {log[i] : i \in 2..Len(log)}
    <3>1. 1..Len(log) = {1} \cup 2..Len(log)
      BY <1>2 DEF TypeOK
    <3> QED
      BY <1>2, <3>1 DEF LogEntries
  <2> QED
    BY <2>1, <2>2, <2>3
<1>7. Db' = Execute(Db, x)
  BY <1>1 DEF Db, Execute
<1>8. (St[c0] = "pending" /\ Cl[c0].ticket = x.ticket) <=> w
  <2>1. pc[c0] = "submit" => cmd[c0].ticket # x.ticket
    BY <1>3, <1>4 DEF SubmitFresh
  <2>2. St[c0] = "pending" <=> pc[c0] \in {"submit", "await"}
    BY <1>3 DEF St, CallStatus, TypeOK, PCs
  <2>3. pc[c0] # "idle" => Cl[c0] = cmd[c0]
    BY <1>3 DEF Cl
  <2> QED
    BY <2>1, <2>2, <2>3
<1>9. CASE w /\ x.op = "CreateProject"
  <2>1. pc' = [pc EXCEPT ![c0] = "readback"] /\ cmd' = cmd
    BY <1>1, <1>9
  <2>2. St' = [St EXCEPT ![c0] = "answering"]
    <3>1. \A e \in Clients :
             CallStatus(e)' = IF e = c0 THEN "answering" ELSE CallStatus(e)
      BY <1>3, <2>1 DEF CallStatus, TypeOK
    <3> QED
      BY <1>3, <3>1 DEF St
  <2>3. Cl' = Cl
    BY <1>3, <1>9, <2>1 DEF Cl, TypeOK
  <2> QED
    BY <1>1, <1>3, <1>5, <1>6, <1>7, <1>8, <1>9, <2>2, <2>3, <1>4
       DEF Store!Apply, St, Cl
<1>10. CASE w /\ x.op # "CreateProject"
  <2>1. pc' = [pc EXCEPT ![c0] = "idle"] /\ cmd' = [cmd EXCEPT ![c0] = NoCmd(c0)]
    BY <1>1, <1>10
  <2>2. St' = [St EXCEPT ![c0] = "idle"]
    <3>1. \A e \in Clients :
             CallStatus(e)' = IF e = c0 THEN "idle" ELSE CallStatus(e)
      BY <1>3, <2>1 DEF CallStatus, TypeOK
    <3> QED
      BY <1>3, <3>1 DEF St
  <2>3. Cl' = [Cl EXCEPT ![c0] = NoCall]
    BY <1>3, <2>1 DEF Cl, TypeOK
  <2> QED
    BY <1>1, <1>3, <1>5, <1>6, <1>7, <1>8, <1>10, <2>2, <2>3, <1>4
       DEF Store!Apply, St, Cl
<1>11. CASE ~w
  <2>1. pc' = pc /\ cmd' = cmd
    BY <1>1, <1>11
  <2>2. St' = St /\ Cl' = Cl
    BY <2>1 DEF St, Cl, CallStatus
  <2> QED
    BY <1>1, <1>5, <1>6, <1>7, <1>8, <1>11, <2>2, <1>4 DEF Store!Apply, St, Cl
<1> QED
  BY <1>9, <1>10, <1>11

LEMMA HandlerRefines ==
    ASSUME IInv, NEW c \in Clients, Handler(c)
    PROVE  [Store!Next]_Store!vars
<1> USE DEF IInv
<1>1. ASSUME NEW o \in Ops, NEW n \in NameVals, NEW d \in DescVals,
             NEW pid \in Nat, Begin(c, o, n, d, pid)
      PROVE  [Store!Next]_Store!vars
  BY <1>1, BeginRefines DEF Store!Next
<1>2. ASSUME Reject(c) PROVE [Store!Next]_Store!vars
  <2>1. Store!Refuse(c)
    BY <1>2, RefuseRefines DEF Reject
  <2> QED
    BY <2>1 DEF Store!Next
<1>3. ASSUME QueryPanics(c) PROVE [Store!Next]_Store!vars
  <2>1. Store!Refuse(c)
    BY <1>3, RefuseRefines DEF QueryPanics
  <2> QED
    BY <2>1 DEF Store!Next
<1>4. CASE \E n \in NameVals, d \in DescVals : CreateOne(c, n, d)
  <2> PICK n \in NameVals, d \in DescVals : CreateOne(c, n, d)
    BY <1>4
  <2>1. CASE n = Empty \/ d = Empty
    BY <2>1, <1>2 DEF CreateOne
  <2>2. CASE n # Empty /\ d # Empty
    <3> PICK s \in DescVals : Begin(c, "CreateProject", n, s, 0)
      BY <2>2 DEF CreateOne, ScannedDescs, TypeOK, ProjectRec
    <3> QED
      BY <1>1 DEF Ops
  <2> QED
    BY <2>1, <2>2
<1>5. CASE \E id \in IdInputs, d \in DescVals : UpdateOneByID(c, id, d)
  BY <1>5, <1>1 DEF UpdateOneByID, Ops, IdInputs, NameVals
<1>6. CASE \E id \in IdInputs : DeleteOneByID(c, id)
  BY <1>6, <1>1, <1>2 DEF DeleteOneByID, Ops, IdInputs, NameVals, DescVals
<1>7. CASE \E id \in IdInputs : CreateJob(c, id)
  BY <1>7, <1>1, <1>2, <1>3 DEF CreateJob, Ops, IdInputs, NameVals, DescVals
<1>8. CASE \E id \in IdInputs : DeleteJob(c, id)
  BY <1>8, <1>1 DEF DeleteJob, Ops, IdInputs, NameVals, DescVals
<1>9. CASE Submit(c)
  BY <1>9, SubmitRefines DEF Store!Next
<1>10. CASE SubmitNotLeader(c)
  BY <1>10, SubmitNotLeaderRefines DEF Store!Next
<1>11. CASE ReadBack(c)
  BY <1>11, ReadBackRefines DEF Store!Next
<1> QED
  BY <1>4, <1>5, <1>6, <1>7, <1>8, <1>9, <1>10, <1>11 DEF Handler

LEMMA NextRefines == IInv /\ [Next]_vars => [Store!Next]_Store!vars
<1> SUFFICES ASSUME IInv, [Next]_vars PROVE [Store!Next]_Store!vars
  OBVIOUS
<1>1. CASE \E c \in Clients : Handler(c)
  BY <1>1, HandlerRefines
<1>2. CASE Apply
  BY <1>2, ApplyRefines DEF Store!Next
<1>3. CASE LoseLeader
  BY <1>3, LoseLeaderRefines DEF Store!Next
<1>4. CASE Elect
  BY <1>4, StutterRefines DEF Elect
<1>5. CASE Terminated \/ UNCHANGED vars
  BY <1>5, StutterRefines DEF Terminated, vars
<1> QED
  BY <1>1, <1>2, <1>3, <1>4, <1>5 DEF Next

\* The project handlers over the Raft log implement ProjectStore, for any
\* number of clients, requests, leadership losses and store faults: every
\* change of the tables is the execution of one logged command whose
\* request had not executed before; a handler is released with success only
\* when the FSM executes its own command; a failed WriteCommandToRaftLog
\* returns while its entry may still execute later.
THEOREM Refinement == Spec => StoreSpec
<1>1. Init => Store!Init
  BY InitRefines
<1>2. IInv /\ [Next]_vars => [Store!Next]_Store!vars
  BY NextRefines
<1> QED
  BY <1>1, <1>2, InitIInv, NextIInv, PTL DEF Spec, StoreSpec, Store!Spec

=============================================================================
