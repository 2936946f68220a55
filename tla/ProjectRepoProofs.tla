------------------------- MODULE ProjectRepoProofs -------------------------
(***************************************************************************)
(* Proofs about ProjectRepo for every value of the constants: the type     *)
(* invariant, and the consistency of the Raft write pipeline through       *)
(* leadership losses.                                                      *)
(***************************************************************************)
EXTENDS ProjectRepo, TLAPS

-----------------------------------------------------------------------------
(* Type correctness.                                                       *)

LEMMA InitTypeOK == Init => TypeOK
BY ConstantsAssumption DEF Init, TypeOK, NoCmd, Cmd, NameVals, DescVals, PCs, Ops

\* Begin and Reject keep the types.
LEMMA BeginTypeOK ==
    ASSUME TypeOK, NEW c \in Clients, NEW o \in Ops, NEW n \in NameVals,
           NEW d \in DescVals, NEW pid \in Nat, Begin(c, o, n, d, pid)
    PROVE  TypeOK'
BY DEF TypeOK, Begin, Cmd, PCs

LEMMA RejectTypeOK ==
    ASSUME TypeOK, NEW c \in Clients, Reject(c)
    PROVE  TypeOK'
BY DEF TypeOK, Reject

LEMMA QueryPanicsTypeOK ==
    ASSUME TypeOK, NEW c \in Clients, QueryPanics(c)
    PROVE  TypeOK'
BY DEF TypeOK, QueryPanics

LEMMA HandlerTypeOK ==
    ASSUME TypeOK, NEW c \in Clients, Handler(c)
    PROVE  TypeOK'
<1>1. CASE \E n \in NameVals, d \in DescVals : CreateOne(c, n, d)
  <2> PICK n \in NameVals, d \in DescVals : CreateOne(c, n, d)
    BY <1>1
  <2>1. CASE n = Empty \/ d = Empty
    BY <2>1, RejectTypeOK DEF CreateOne
  <2>2. CASE n # Empty /\ d # Empty
    <3> PICK s \in DescVals : Begin(c, "CreateProject", n, s, 0)
      BY <2>2 DEF CreateOne, ScannedDescs, TypeOK, ProjectRec
    <3> QED
      BY BeginTypeOK DEF Ops
  <2> QED
    BY <2>1, <2>2
<1>2. CASE \E id \in IdInputs, d \in DescVals : UpdateOneByID(c, id, d)
  BY <1>2, BeginTypeOK DEF UpdateOneByID, Ops, IdInputs, NameVals
<1>3. CASE \E id \in IdInputs : DeleteOneByID(c, id)
  BY <1>3, BeginTypeOK, RejectTypeOK DEF DeleteOneByID, Ops, IdInputs,
     NameVals, DescVals
<1>4. CASE \E id \in IdInputs : CreateJob(c, id)
  BY <1>4, BeginTypeOK, RejectTypeOK, QueryPanicsTypeOK DEF CreateJob, Ops, IdInputs,
     NameVals, DescVals
<1>5. CASE \E id \in IdInputs : DeleteJob(c, id)
  BY <1>5, BeginTypeOK DEF DeleteJob, Ops, IdInputs, NameVals, DescVals
<1>6. CASE Submit(c)
  BY <1>6 DEF Submit, TypeOK, PCs
<1>8. CASE SubmitNotLeader(c)
  <2>1. cmd[c].ticket \in Nat
    BY DEF TypeOK, Cmd
  <2>2. NoCmd(c) \in Cmd
    BY DEF NoCmd, Cmd, Ops, NameVals, DescVals
  <2>3. ErrorAnswered({cmd[c]}) \subseteq Nat /\ ErrorPanics({cmd[c]}) \subseteq Nat
    BY <2>1 DEF ErrorAnswered, ErrorPanics
  <2> QED
    BY <1>8, <2>1, <2>2, <2>3 DEF SubmitNotLeader, TypeOK, PCs
<1>7. CASE ReadBack(c)
  <2>1. cmd[c].ticket \in Nat
    BY DEF TypeOK, Cmd
  <2>2. NoCmd(c) \in Cmd
    BY DEF NoCmd, Cmd, Ops, NameVals, DescVals
  <2>3. PICK q \in BOOLEAN :
          /\ storeFaults' = IF q THEN storeFaults + 1 ELSE storeFaults
          /\ panicked' = IF GetOneByID(newId[c]) /\ ~q THEN panicked
                         ELSE panicked \cup {cmd[c].ticket}
    BY <1>7 DEF ReadBack, QueryOutcomes
  <2>4. storeFaults' \in Nat /\ panicked' \subseteq Nat
    <3>1. CASE q
      <4>1. storeFaults' = storeFaults + 1
        BY <2>3, <3>1, Zenon
      <4>2. panicked' = panicked \cup {cmd[c].ticket}
        BY <2>3, <3>1, Zenon
      <4>3. storeFaults \in Nat /\ panicked \subseteq Nat
        BY DEF TypeOK
      <4>4. storeFaults' \in Nat
        BY <4>1, <4>3
      <4>5. panicked' \subseteq Nat
        BY <2>1, <4>2, <4>3, Zenon
      <4> QED
        BY <4>4, <4>5
    <3>2. CASE ~q
      <4>1. storeFaults' = storeFaults
        BY <2>3, <3>2, Zenon
      <4>2. panicked' \subseteq panicked \cup {cmd[c].ticket}
        BY <2>3, <3>2, Zenon
      <4> QED
        BY <2>1, <4>1, <4>2 DEF TypeOK
    <3> QED
      BY <3>1, <3>2
  <2> QED
    BY <1>7, <2>1, <2>2, <2>4 DEF ReadBack, TypeOK, PCs
<1> QED
  BY <1>1, <1>2, <1>3, <1>4, <1>5, <1>6, <1>7, <1>8 DEF Handler

\* The largest rowid of a table whose rowids are natural numbers is one.
LEMMA TopRowidNat ==
    ASSUME NEW rs, \A r \in rs : r.id \in Nat
    PROVE  TopRowid(rs) \in Nat
<1> DEFINE Top(m) == \A k \in RowidsOf(rs) : k <= m
<1>1. RowidsOf(rs) \subseteq Nat
  BY DEF RowidsOf
<1>2. CASE \E m \in RowidsOf(rs) : Top(m)
  <2>1. (CHOOSE m \in RowidsOf(rs) : Top(m)) \in RowidsOf(rs)
    BY <1>2
  <2> QED
    BY <1>1, <1>2, <2>1 DEF TopRowid
<1>3. CASE ~\E m \in RowidsOf(rs) : Top(m)
  BY <1>3 DEF TopRowid
<1> QED
  BY <1>2, <1>3

LEMMA ApplyTypeOK ==
    ASSUME TypeOK, Apply
    PROVE  TypeOK'
<1> USE DEF TypeOK
<1> DEFINE x == Head(log)
<1>1. x \in Cmd
  BY DEF Apply
<1>2. ApplyProjects(Db, x) \subseteq ProjectRec
  BY <1>1 DEF ApplyProjects, Db, ProjectRec, Cmd
<1>3. ApplyJobs(Db, x) \subseteq JobRec
  BY <1>1 DEF ApplyJobs, Db, JobRec, Cmd
<1>4. NextRowid(Db, x) \in Nat \ {0} /\ NextJobRowid(Db, x) \in Nat \ {0}
  <2>1. TopRowid(ApplyProjects(Db, x)) \in Nat /\ TopRowid(ApplyJobs(Db, x)) \in Nat
    BY <1>2, <1>3, TopRowidNat DEF ProjectRec, JobRec
  <2> QED
    BY <2>1 DEF NextRowid, NextJobRowid, NextTableRowid, Db
<1>5. pc' \in [Clients -> PCs] /\ cmd' \in [Clients -> Cmd]
        /\ newId' \in [Clients -> Nat]
  <2>1. pc' \in [Clients -> PCs]
    BY <1>1 DEF Apply, PCs, Cmd
  <2>2. cmd' \in [Clients -> Cmd]
    BY <1>1 DEF Apply, NoCmd, Ops, NameVals, DescVals, Cmd
  <2>3. newId' \in [Clients -> Nat]
    BY <1>1 DEF Apply, LastInsertedId, Db, Cmd
  <2> QED
    BY <2>1, <2>2, <2>3
<1>6. log' \in Seq(Cmd)
  BY DEF Apply
<1>7. /\ projects' = ApplyProjects(Db, x)
      /\ jobs' = ApplyJobs(Db, x)
      /\ nextId' = NextRowid(Db, x)
      /\ nextJobId' = NextJobRowid(Db, x)
      /\ applied' = applied \cup {x.ticket}
      /\ UNCHANGED <<hasLeader, nextTicket, failed, leaderChanges,
                     panicked, storeFaults>>
  BY DEF Apply, Execute
<1>8. x.ticket \in Nat
  BY <1>1 DEF Cmd
<1> QED
  BY <1>2, <1>3, <1>4, <1>5, <1>6, <1>7, <1>8

LEMMA LoseLeaderTypeOK ==
    ASSUME TypeOK, LoseLeader
    PROVE  TypeOK'
<1> USE DEF TypeOK
<1>1. log' \in Seq(Cmd)
  BY DEF LoseLeader
<1>2. pc' \in [Clients -> PCs] /\ cmd' \in [Clients -> Cmd]
  BY DEF LoseLeader, NoCmd, PCs, Ops, NameVals, DescVals, Cmd
<1>3. failed' \subseteq Nat /\ panicked' \subseteq Nat
  <2>1. \A c \in Clients : cmd[c].ticket \in Nat
    BY DEF Cmd
  <2>2. failed' \subseteq Nat
    BY <2>1 DEF LoseLeader, ErrorAnswered
  <2>3. panicked' \subseteq Nat
    BY <2>1 DEF LoseLeader, ErrorPanics
  <2> QED
    BY <2>2, <2>3
<1>4. /\ leaderChanges' = leaderChanges + 1
      /\ hasLeader' = FALSE
      /\ UNCHANGED <<projects, jobs, nextId, nextJobId, newId, nextTicket, applied,
                     storeFaults>>
  BY DEF LoseLeader
<1>5. leaderChanges' \in Nat
  BY <1>4
<1>6. hasLeader' \in BOOLEAN
  BY <1>4, Zenon
<1> QED
  BY <1>1, <1>2, <1>3, <1>4, <1>5, <1>6

LEMMA NextTypeOK == TypeOK /\ [Next]_vars => TypeOK'
<1> SUFFICES ASSUME TypeOK, [Next]_vars PROVE TypeOK'
  OBVIOUS
<1>1. CASE \E c \in Clients : Handler(c)
  BY <1>1, HandlerTypeOK
<1>2. CASE Apply
  BY <1>2, ApplyTypeOK
<1>3. CASE LoseLeader
  BY <1>3, LoseLeaderTypeOK
<1>4. CASE Elect
  BY <1>4 DEF Elect, TypeOK
<1>5. CASE Terminated \/ UNCHANGED vars
  BY <1>5 DEF Terminated, vars, TypeOK
<1> QED
  BY <1>1, <1>2, <1>3, <1>4, <1>5 DEF Next

\* The handlers, the Raft log and the store keep their types in every
\* reachable state.
THEOREM TypeCorrect == Spec => []TypeOK
BY InitTypeOK, NextTypeOK, PTL DEF Spec

-----------------------------------------------------------------------------
(* The Raft write pipeline.  PipelineConsistent is not inductive by itself: *)
(* Submit appends a handler's command, and Begin hands out its ticket, so  *)
(* the invariant must also say that tickets are fresh: every ticket in use  *)
(* is below nextTicket, a handler about to submit holds a ticket that is    *)
(* neither in the log nor applied, and two active handlers never share one. *)

Active == {"submit", "await"}

CmdClient == \A c \in Clients : cmd[c].client = c
LogBelow == \A i \in 1..Len(log) : log[i].ticket < nextTicket
AppliedBelow == \A t \in applied : t < nextTicket
ActiveBelow == \A c \in Clients : pc[c] \in Active => cmd[c].ticket < nextTicket
SubmitFresh ==
    \A c \in Clients : pc[c] = "submit" =>
        cmd[c].ticket \notin LogTickets \cup applied
ActiveDistinct ==
    \A c, d \in Clients :
        c # d /\ pc[c] \in Active /\ pc[d] \in Active =>
            cmd[c].ticket # cmd[d].ticket

\* The tickets the type invariant speaks of are numbers.
LEMMA TicketsNat ==
    ASSUME TypeOK
    PROVE  /\ \A i \in 1..Len(log) : log[i] \in Cmd /\ log[i].ticket \in Nat
           /\ \A c \in Clients : cmd[c].ticket \in Nat
           /\ nextTicket \in Nat
           /\ applied \subseteq Nat
<1>1. \A i \in 1..Len(log) : log[i] \in Cmd
  BY DEF TypeOK
<1>2. \A i \in 1..Len(log) : log[i].ticket \in Nat
  BY <1>1 DEF Cmd
<1>3. \A c \in Clients : cmd[c].ticket \in Nat
  BY DEF TypeOK, Cmd
<1> QED
  BY <1>1, <1>2, <1>3 DEF TypeOK

IInv ==
    /\ TypeOK
    /\ PipelineConsistent
    /\ CmdClient
    /\ LogBelow
    /\ AppliedBelow
    /\ ActiveBelow
    /\ SubmitFresh
    /\ ActiveDistinct

LEMMA InitIInv == Init => IInv
<1> SUFFICES ASSUME Init PROVE IInv
  OBVIOUS
<1>1. TypeOK
  BY InitTypeOK
<1> QED
  BY <1>1 DEF Init, IInv, PipelineConsistent, LogDistinct, LogNotApplied,
     WaiterHasEntry, LogTickets, CmdClient, NoCmd, LogBelow, AppliedBelow,
     ActiveBelow, Active, SubmitFresh, ActiveDistinct

LEMMA BeginIInv ==
    ASSUME IInv, NEW c \in Clients, NEW o \in Ops, NEW n \in NameVals,
           NEW d \in DescVals, NEW pid \in Nat, Begin(c, o, n, d, pid)
    PROVE  IInv'
<1> USE DEF IInv, TypeOK
<1>1. TypeOK'
  BY BeginTypeOK
<1>2. /\ pc' = [pc EXCEPT ![c] = "submit"]
      /\ cmd' = [cmd EXCEPT ![c] = [op |-> o, client |-> c, ticket |-> nextTicket,
                                    name |-> n, desc |-> d, pid |-> pid]]
      /\ nextTicket' = nextTicket + 1
      /\ UNCHANGED <<log, applied>>
      /\ pc[c] = "idle"
  BY DEF Begin
<1>3. PipelineConsistent'
  BY <1>2 DEF PipelineConsistent, LogDistinct, LogNotApplied, WaiterHasEntry,
     LogTickets
<1>4. CmdClient'
  BY <1>2 DEF CmdClient
<1>0. TicketsNat!2
  BY TicketsNat
<1>5. LogBelow' /\ AppliedBelow'
  <2>1. nextTicket \in Nat /\ nextTicket' = nextTicket + 1
    BY <1>2
  <2>2. LogBelow'
    <3>1. \A i \in 1..Len(log) : log[i].ticket \in Nat
      BY TicketsNat
    <3> QED
      BY <2>1, <1>2, <3>1 DEF LogBelow
  <2>3. AppliedBelow'
    BY <2>1, <1>2 DEF AppliedBelow
  <2> QED
    BY <2>2, <2>3
<1>7. ActiveBelow'
  BY <1>0, <1>2 DEF ActiveBelow, Active
<1>6. SubmitFresh'
  <2> SUFFICES ASSUME NEW e \in Clients, pc'[e] = "submit"
               PROVE  cmd'[e].ticket \notin LogTickets' \cup applied'
    BY DEF SubmitFresh
  <2>1. LogTickets' = LogTickets /\ applied' = applied
    BY <1>2 DEF LogTickets
  <2>2. CASE e = c
    <3>1. cmd'[e].ticket = nextTicket
      BY <1>2, <2>2
    <3>2. nextTicket \notin LogTickets
      BY <1>0 DEF LogTickets, LogBelow
    <3>3. nextTicket \notin applied
      BY <1>0 DEF AppliedBelow
    <3> QED
      BY <2>1, <3>1, <3>2, <3>3
  <2>3. CASE e # c
    BY <1>2, <2>1, <2>3 DEF SubmitFresh
  <2> QED
    BY <2>2, <2>3
<1>8. ActiveDistinct'
  BY <1>2 DEF ActiveDistinct, ActiveBelow, Active, Cmd
<1> QED
  BY <1>1, <1>3, <1>4, <1>5, <1>6, <1>7, <1>8

LEMMA RejectIInv ==
    ASSUME IInv, NEW c \in Clients, Reject(c)
    PROVE  IInv'
<1> USE DEF IInv, TypeOK
<1>1. TypeOK'
  BY RejectTypeOK
<1>2. /\ nextTicket' = nextTicket + 1
      /\ UNCHANGED <<log, applied, pc, cmd>>
  BY DEF Reject
<1>3. PipelineConsistent' /\ CmdClient' /\ SubmitFresh' /\ ActiveDistinct'
  BY <1>2 DEF PipelineConsistent, LogDistinct, LogNotApplied,
     WaiterHasEntry, LogTickets, CmdClient, SubmitFresh, ActiveDistinct
<1>0. TicketsNat!2
  BY TicketsNat
<1>4. LogBelow' /\ AppliedBelow' /\ ActiveBelow'
  BY <1>0, <1>2 DEF LogBelow, AppliedBelow, ActiveBelow
<1> QED
  BY <1>1, <1>3, <1>4

LEMMA QueryPanicsIInv ==
    ASSUME IInv, NEW c \in Clients, QueryPanics(c)
    PROVE  IInv'
<1> USE DEF IInv, TypeOK
<1>1. TypeOK'
  BY QueryPanicsTypeOK
<1>2. /\ nextTicket' = nextTicket + 1
      /\ UNCHANGED <<log, applied, pc, cmd>>
  BY DEF QueryPanics
<1>3. PipelineConsistent' /\ CmdClient' /\ SubmitFresh' /\ ActiveDistinct'
  BY <1>2 DEF PipelineConsistent, LogDistinct, LogNotApplied,
     WaiterHasEntry, LogTickets, CmdClient, SubmitFresh, ActiveDistinct
<1>0. TicketsNat!2
  BY TicketsNat
<1>4. LogBelow' /\ AppliedBelow' /\ ActiveBelow'
  BY <1>0, <1>2 DEF LogBelow, AppliedBelow, ActiveBelow
<1> QED
  BY <1>1, <1>3, <1>4

\* Submit appends a fresh ticket, so the log stays duplicate-free.
LEMMA SubmitIInv ==
    ASSUME IInv, NEW c \in Clients, Submit(c)
    PROVE  IInv'
<1> USE DEF IInv, PipelineConsistent
<1>1. TypeOK'
  BY HandlerTypeOK DEF Handler
<1>0. TicketsNat!2
  BY TicketsNat
<1>2. /\ log' = Append(log, cmd[c])
      /\ pc' = [pc EXCEPT ![c] = "await"]
      /\ pc[c] = "submit"
      /\ UNCHANGED <<cmd, nextTicket, applied>>
  BY DEF Submit
<1>3. /\ Len(log') = Len(log) + 1
      /\ log'[Len(log) + 1] = cmd[c]
      /\ \A i \in 1..Len(log) : log'[i] = log[i]
  BY <1>2 DEF TypeOK
<1>4. cmd[c].ticket \notin LogTickets \cup applied
  BY <1>2 DEF SubmitFresh
<1>5. LogTickets' = LogTickets \cup {cmd[c].ticket}
  BY <1>3 DEF LogTickets
<1>6. LogDistinct'
  BY <1>0, <1>2, <1>3, <1>4 DEF LogDistinct, LogTickets
<1>7. LogNotApplied'
  BY <1>2, <1>4, <1>5 DEF LogNotApplied
<1>8. WaiterHasEntry'
  BY <1>2, <1>3 DEF WaiterHasEntry, TypeOK
<1>9. CmdClient' /\ AppliedBelow' /\ ActiveBelow'
  BY <1>2 DEF CmdClient, AppliedBelow, ActiveBelow, Active, TypeOK
<1>10. LogBelow'
  BY <1>0, <1>2, <1>3 DEF LogBelow, ActiveBelow, Active
<1>11. SubmitFresh'
  BY <1>2, <1>5 DEF SubmitFresh, ActiveDistinct, Active, TypeOK
<1>12. ActiveDistinct'
  BY <1>2 DEF ActiveDistinct, Active, TypeOK
<1> QED
  BY <1>1, <1>6, <1>7, <1>8, <1>9, <1>10, <1>11, <1>12 DEF PipelineConsistent

\* A handler that leaves the pipeline without touching the log, the
\* applied set or nextTicket keeps the invariant.
LEMMA LeaveIInv ==
    ASSUME IInv, NEW c \in Clients, TypeOK',
           pc' = [pc EXCEPT ![c] = "idle"],
           cmd' = [cmd EXCEPT ![c] = NoCmd(c)],
           pc[c] # "await",
           UNCHANGED <<log, nextTicket, applied>>
    PROVE  IInv'
<1> USE DEF IInv, PipelineConsistent
<1>0. TicketsNat!2
  BY TicketsNat
<1>1. PipelineConsistent'
  BY DEF PipelineConsistent, LogDistinct, LogNotApplied, WaiterHasEntry,
     LogTickets, TypeOK
<1>2. CmdClient'
  BY DEF CmdClient, NoCmd, TypeOK
<1>3. LogBelow' /\ AppliedBelow' /\ ActiveBelow'
  BY <1>0 DEF LogBelow, AppliedBelow, ActiveBelow, Active, TypeOK
<1>4. SubmitFresh' /\ ActiveDistinct'
  BY DEF SubmitFresh, ActiveDistinct, Active, LogTickets, TypeOK
<1> QED
  BY <1>1, <1>2, <1>3, <1>4

LEMMA SubmitNotLeaderIInv ==
    ASSUME IInv, NEW c \in Clients, SubmitNotLeader(c)
    PROVE  IInv'
<1>1. TypeOK'
  BY HandlerTypeOK DEF Handler, IInv
<1> QED
  BY <1>1, LeaveIInv DEF SubmitNotLeader

LEMMA ReadBackIInv ==
    ASSUME IInv, NEW c \in Clients, ReadBack(c)
    PROVE  IInv'
<1>1. TypeOK'
  BY HandlerTypeOK DEF Handler, IInv
<1> QED
  BY <1>1, LeaveIInv DEF ReadBack


\* The FSM applies the head of the log: a handler blocked on that entry is
\* released, and no other handler's entry is lost.
LEMMA ApplyIInv ==
    ASSUME IInv, Apply
    PROVE  IInv'
<1> USE DEF IInv, PipelineConsistent
<1> DEFINE x == Head(log)
           c0 == x.client
           w == pc[c0] = "await" /\ cmd[c0].ticket = x.ticket
<1>1. TypeOK'
  BY ApplyTypeOK
<1>0. TicketsNat!2
  BY TicketsNat
<1>2. /\ log # << >>
      /\ log' = Tail(log)
      /\ applied' = applied \cup {x.ticket}
      /\ nextTicket' = nextTicket
      /\ pc' = IF ~w THEN pc
               ELSE [pc EXCEPT ![c0] = IF x.op = "CreateProject"
                                        THEN "readback" ELSE "idle"]
      /\ cmd' = IF w /\ x.op # "CreateProject"
                  THEN [cmd EXCEPT ![c0] = NoCmd(c0)] ELSE cmd
  BY DEF Apply
<1>3. /\ Len(log) >= 1
      /\ x = log[1]
      /\ Len(log') = Len(log) - 1
      /\ \A i \in 1..Len(log') : log'[i] = log[i + 1]
  BY <1>2 DEF TypeOK
<1>4a. x \in Cmd
  BY <1>3 DEF TypeOK
<1>4. c0 \in Clients /\ x.ticket \in Nat
  BY <1>4a DEF Cmd
\* A handler still in the pipeline after the step is one the step left alone.
<1>5. \A d \in Clients : pc'[d] \in Active =>
          /\ pc'[d] = pc[d]
          /\ cmd'[d] = cmd[d]
          /\ ~(w /\ d = c0)
  <2>1. CASE ~w
    BY <1>2, <2>1
  <2>2. CASE w
    BY <1>2, <1>4, <2>2 DEF TypeOK, Active
  <2> QED
    BY <2>1, <2>2
<1>6. LogTickets' \subseteq LogTickets /\ x.ticket \in LogTickets
  BY <1>3 DEF LogTickets
<1>7. \A t \in LogTickets' : t # x.ticket
  BY <1>3 DEF LogTickets, LogDistinct
<1>8. LogDistinct'
  BY <1>3 DEF LogDistinct
<1>9. LogNotApplied'
  BY <1>2, <1>6, <1>7 DEF LogNotApplied
<1>10. WaiterHasEntry'
  <2> SUFFICES ASSUME NEW d \in Clients, pc'[d] = "await"
               PROVE  \E i \in 1..Len(log') : log'[i] = cmd'[d]
    BY DEF WaiterHasEntry
  <2>1. pc[d] = "await" /\ cmd'[d] = cmd[d] /\ ~(w /\ d = c0)
    BY <1>5 DEF Active
  <2>2. PICK i \in 1..Len(log) : log[i] = cmd[d]
    BY <2>1 DEF WaiterHasEntry
  <2>3. i # 1
    <3> SUFFICES ASSUME i = 1 PROVE FALSE
      OBVIOUS
    <3>1. x = cmd[d]
      BY <1>3, <2>2
    <3>2. c0 = d
      BY <3>1 DEF CmdClient
    <3> QED
      BY <3>1, <3>2, <2>1
  <2>4. i - 1 \in 1..Len(log') /\ log'[i - 1] = cmd[d]
    BY <1>3, <2>2, <2>3
  <2> QED
    BY <2>1, <2>4
<1>11. CmdClient'
  BY <1>2, <1>4 DEF CmdClient, NoCmd, TypeOK
<1>12a. x.ticket < nextTicket
  BY <1>3 DEF LogBelow
<1>12b. LogBelow'
  BY <1>0, <1>2, <1>3 DEF LogBelow
<1>12. LogBelow' /\ AppliedBelow'
  BY <1>2, <1>12a, <1>12b DEF AppliedBelow
<1>13. ActiveBelow'
  BY <1>2, <1>5 DEF ActiveBelow
<1>14. SubmitFresh'
  BY <1>2, <1>5, <1>6, <1>7 DEF SubmitFresh, Active
<1>15. ActiveDistinct'
  BY <1>5 DEF ActiveDistinct
<1> QED
  BY <1>1, <1>8, <1>9, <1>10, <1>11, <1>12, <1>13, <1>14, <1>15


\* Losing leadership keeps a prefix of the log and fails every blocked call,
\* so no waiter is left without its entry.
LEMMA LoseLeaderIInv ==
    ASSUME IInv, LoseLeader
    PROVE  IInv'
<1> USE DEF IInv, PipelineConsistent
<1> DEFINE waiting == {c \in Clients : pc[c] = "await"}
<1>1. TypeOK'
  BY LoseLeaderTypeOK
<1>0. TicketsNat!2
  BY TicketsNat
<1>2. PICK k \in 0..Len(log) : log' = SubSeq(log, 1, k)
  BY DEF LoseLeader
<1>3. /\ pc' = [c \in Clients |-> IF c \in waiting THEN "idle" ELSE pc[c]]
      /\ cmd' = [c \in Clients |-> IF c \in waiting THEN NoCmd(c) ELSE cmd[c]]
      /\ UNCHANGED <<nextTicket, applied>>
  BY DEF LoseLeader
<1>4. /\ Len(log') = k
      /\ \A i \in 1..k : log'[i] = log[i]
  BY <1>2 DEF TypeOK
<1>5. LogTickets' \subseteq LogTickets
  BY <1>4 DEF LogTickets
\* A handler in the pipeline after the step was there before, untouched.
<1>6. \A d \in Clients : pc'[d] # "idle" =>
          pc'[d] = pc[d] /\ cmd'[d] = cmd[d] /\ pc[d] # "await"
  BY <1>3
<1>7. LogDistinct'
  BY <1>4 DEF LogDistinct
<1>8. LogNotApplied'
  BY <1>3, <1>5 DEF LogNotApplied
<1>9. WaiterHasEntry'
  BY <1>6 DEF WaiterHasEntry
<1>10. CmdClient'
  BY <1>3 DEF CmdClient, NoCmd
<1>11. LogBelow' /\ AppliedBelow'
  BY <1>0, <1>3, <1>4 DEF LogBelow, AppliedBelow
<1>12. ActiveBelow' /\ SubmitFresh' /\ ActiveDistinct'
  BY <1>3, <1>5, <1>6 DEF ActiveBelow, SubmitFresh, ActiveDistinct, Active
<1> QED
  BY <1>1, <1>7, <1>8, <1>9, <1>10, <1>11, <1>12

LEMMA HandlerIInv ==
    ASSUME IInv, NEW c \in Clients, Handler(c)
    PROVE  IInv'
<1>1. CASE \E n \in NameVals, d \in DescVals : CreateOne(c, n, d)
  <2> PICK n \in NameVals, d \in DescVals : CreateOne(c, n, d)
    BY <1>1
  <2>1. CASE n = Empty \/ d = Empty
    BY <2>1, RejectIInv DEF CreateOne
  <2>2. CASE n # Empty /\ d # Empty
    <3> PICK s \in DescVals : Begin(c, "CreateProject", n, s, 0)
      BY <2>2 DEF CreateOne, ScannedDescs, IInv, TypeOK, ProjectRec
    <3> QED
      BY BeginIInv DEF Ops
  <2> QED
    BY <2>1, <2>2
<1>2. CASE \E id \in IdInputs, d \in DescVals : UpdateOneByID(c, id, d)
  BY <1>2, BeginIInv DEF UpdateOneByID, Ops, IdInputs, NameVals
<1>3. CASE \E id \in IdInputs : DeleteOneByID(c, id)
  BY <1>3, BeginIInv, RejectIInv DEF DeleteOneByID, Ops, IdInputs,
     NameVals, DescVals
<1>4. CASE \E id \in IdInputs : CreateJob(c, id)
  BY <1>4, BeginIInv, RejectIInv, QueryPanicsIInv DEF CreateJob, Ops, IdInputs,
     NameVals, DescVals
<1>5. CASE \E id \in IdInputs : DeleteJob(c, id)
  BY <1>5, BeginIInv DEF DeleteJob, Ops, IdInputs, NameVals, DescVals
<1>6. CASE Submit(c)
  BY <1>6, SubmitIInv
<1>7. CASE SubmitNotLeader(c)
  BY <1>7, SubmitNotLeaderIInv
<1>8. CASE ReadBack(c)
  BY <1>8, ReadBackIInv
<1> QED
  BY <1>1, <1>2, <1>3, <1>4, <1>5, <1>6, <1>7, <1>8 DEF Handler

LEMMA NextIInv == IInv /\ [Next]_vars => IInv'
<1> SUFFICES ASSUME IInv, [Next]_vars PROVE IInv'
  OBVIOUS
<1>1. CASE \E c \in Clients : Handler(c)
  BY <1>1, HandlerIInv
<1>2. CASE Apply
  BY <1>2, ApplyIInv
<1>3. CASE LoseLeader
  BY <1>3, LoseLeaderIInv
<1>4. CASE Elect
  <2>1. TypeOK'
    BY <1>4, NextTypeOK DEF IInv, Next
  <2> QED
    BY <1>4, <2>1 DEF Elect, IInv, PipelineConsistent, LogDistinct,
       LogNotApplied, WaiterHasEntry, LogTickets, CmdClient, LogBelow,
       AppliedBelow, ActiveBelow, SubmitFresh, ActiveDistinct
<1>5. CASE Terminated \/ UNCHANGED vars
  <2>1. UNCHANGED vars
    BY <1>5 DEF Terminated
  <2>2. TypeOK'
    BY <2>1, NextTypeOK DEF IInv
  <2> QED
    BY <2>1, <2>2 DEF vars, IInv, PipelineConsistent, LogDistinct,
       LogNotApplied, WaiterHasEntry, LogTickets, CmdClient, LogBelow,
       AppliedBelow, ActiveBelow, SubmitFresh, ActiveDistinct
<1> QED
  BY <1>1, <1>2, <1>3, <1>4, <1>5 DEF Next

\* The Raft write pipeline of the project handlers stays consistent in
\* every reachable state, for any number of clients, requests and
\* leadership losses: no command is logged or applied twice, and a handler
\* blocked in WriteCommandToRaftLog always has its entry in the log.
THEOREM PipelineInvariant == Spec => []PipelineConsistent
<1>1. IInv => PipelineConsistent
  BY DEF IInv
<1> QED
  BY InitIInv, NextIInv, <1>1, PTL DEF Spec

=============================================================================
