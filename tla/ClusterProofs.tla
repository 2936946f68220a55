---------------------------- MODULE ClusterProofs ----------------------------
(***************************************************************************)
(* Type correctness of the job-processor start-up loop of Start.  What    *)
(* the loop does over time (LeaderStartsProcessor) is liveness, and stays *)
(* with TLC.                                                               *)
(***************************************************************************)
EXTENDS Cluster, TLAPS

LEMMA InitTypeOK == Init => TypeOK
BY ClusterAssumption DEF Init, TypeOK

LEMMA NextTypeOK == TypeOK /\ [Next]_vars => TypeOK'
<1> SUFFICES ASSUME TypeOK, [Next]_vars PROVE TypeOK'
  OBVIOUS
<1>1. ASSUME NEW n \in Nodes, BecomeLeader(n) PROVE TypeOK'
  BY <1>1 DEF BecomeLeader, TypeOK
<1>2. ASSUME NEW n \in Nodes, Tick(n) \/ TickNotLeader(n) PROVE TypeOK'
  BY <1>2 DEF Tick, TickNotLeader, TypeOK, vars
<1>3. ASSUME NEW n \in Nodes, Crash(n) PROVE TypeOK'
  BY <1>3 DEF Crash, TypeOK
<1>4. ASSUME NEW n \in Nodes, Restart(n) PROVE TypeOK'
  BY <1>4 DEF Restart, TypeOK
<1>5. CASE StepDown
  BY <1>5, ClusterAssumption DEF StepDown, TypeOK
<1>6. CASE Settled \/ UNCHANGED vars
  BY <1>6 DEF Settled, TypeOK, vars
<1> QED
  BY <1>1, <1>2, <1>3, <1>4, <1>5, <1>6 DEF Next

\* Every reachable state of the start-up loop is well-typed.
THEOREM TypeCorrect == Spec => []TypeOK
BY InitTypeOK, NextTypeOK, PTL DEF Spec

=============================================================================
