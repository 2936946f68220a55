------------------------------ MODULE Cluster ------------------------------
(***************************************************************************)
(* Starting the job processor (src/http_server/http_server.go, Start).      *)
(* Each node's Start runs a goroutine that polls rft.VerifyLeader() every  *)
(* 100ms while !startedJobs; the first time it succeeds it starts          *)
(* jobProcessor.StartJobs and leaves the loop.  Nothing stops the processor *)
(* again but the process ending.  Leadership changes and node crashes and  *)
(* restarts come from Raft and the environment.                            *)
(***************************************************************************)
EXTENDS Naturals

CONSTANTS
    Nodes,          \* the cluster's nodes
    NoLeader,       \* no leader known
    MaxElections,   \* bound on leaderships
    MaxCrashes      \* bound on node crashes

ASSUME ClusterAssumption ==
    /\ NoLeader \notin Nodes
    /\ MaxElections \in Nat /\ MaxCrashes \in Nat

VARIABLES
    leader,       \* the node VerifyLeader succeeds on, or NoLeader
    up,           \* up[n]: n's process is running
    startedJobs,  \* startedJobs[n]: n's polling loop has started the processor
    processing,   \* processing[n]: n runs the job processor
    elections,    \* leaderships so far
    crashes       \* crashes so far

vars == <<leader, up, startedJobs, processing, elections, crashes>>

Init ==
    /\ leader = NoLeader
    /\ up = [n \in Nodes |-> TRUE]
    /\ startedJobs = [n \in Nodes |-> FALSE]
    /\ processing = [n \in Nodes |-> FALSE]
    /\ elections = 0
    /\ crashes = 0

\* A running node wins an election.
BecomeLeader(n) ==
    /\ leader = NoLeader
    /\ up[n]
    /\ elections < MaxElections
    /\ leader' = n
    /\ elections' = elections + 1
    /\ UNCHANGED <<up, startedJobs, processing, crashes>>

\* The leader loses its quorum and steps down.
StepDown ==
    /\ leader # NoLeader
    /\ leader' = NoLeader
    /\ UNCHANGED <<up, startedJobs, processing, elections, crashes>>

\* A tick while VerifyLeader succeeds: start the processor, leave the loop.
Tick(n) ==
    /\ up[n]
    /\ ~startedJobs[n]
    /\ leader = n
    /\ processing' = [processing EXCEPT ![n] = TRUE]
    /\ startedJobs' = [startedJobs EXCEPT ![n] = TRUE]
    /\ UNCHANGED <<leader, up, elections, crashes>>

\* Mutant: a failed VerifyLeader also ends the loop.
TickNotLeaderExits(n) ==
    /\ up[n]
    /\ ~startedJobs[n]
    /\ leader # n
    /\ startedJobs' = [startedJobs EXCEPT ![n] = TRUE]
    /\ UNCHANGED <<leader, up, processing, elections, crashes>>

\* A tick while VerifyLeader fails: the loop goes on.
TickNotLeader(n) ==
    /\ up[n]
    /\ ~startedJobs[n]
    /\ leader # n
    /\ UNCHANGED vars

\* The process dies, with every goroutine; a leader's leadership ends.
Crash(n) ==
    /\ up[n]
    /\ crashes < MaxCrashes
    /\ up' = [up EXCEPT ![n] = FALSE]
    /\ startedJobs' = [startedJobs EXCEPT ![n] = FALSE]
    /\ processing' = [processing EXCEPT ![n] = FALSE]
    /\ leader' = IF leader = n THEN NoLeader ELSE leader
    /\ crashes' = crashes + 1
    /\ UNCHANGED elections

\* The node restarts and Start runs again, with a new polling loop.
Restart(n) ==
    /\ ~up[n]
    /\ up' = [up EXCEPT ![n] = TRUE]
    /\ startedJobs' = [startedJobs EXCEPT ![n] = FALSE]
    /\ UNCHANGED <<leader, processing, elections, crashes>>

\* Every bound is used up and every node runs: nothing the model tracks
\* changes any more.
Settled ==
    /\ elections = MaxElections
    /\ crashes = MaxCrashes
    /\ \A n \in Nodes : up[n]
    /\ UNCHANGED vars

Next ==
    \/ \E n \in Nodes : BecomeLeader(n) \/ Tick(n) \/ TickNotLeader(n)
                        \/ Crash(n) \/ Restart(n)
    \/ StepDown
    \/ Settled

\* The ticker fires every 100ms for as long as the loop runs, and a crashed
\* node is restarted.
Fairness ==
    \A n \in Nodes : WF_vars(Tick(n)) /\ WF_vars(Restart(n))

Spec == Init /\ [][Next]_vars /\ Fairness

-----------------------------------------------------------------------------
(* Properties.                                                             *)

TypeOK ==
    /\ leader \in Nodes \cup {NoLeader}
    /\ up \in [Nodes -> BOOLEAN]
    /\ startedJobs \in [Nodes -> BOOLEAN]
    /\ processing \in [Nodes -> BOOLEAN]
    /\ elections \in Nat
    /\ crashes \in Nat

\* A node that is leader long enough runs the job processor: while it
\* stays leader, its polling loop, or the one of its next Start after a
\* crash, eventually sees VerifyLeader succeed.
LeaderStartsProcessor ==
    \A n \in Nodes : leader = n ~> (processing[n] \/ leader # n)

\* Spec 4.7 (the job processor runs per node, on the node's assigned
\* range) and 4.10 (a follower keeps its processor): every node that
\* stays up eventually runs a job processor.
EveryNodeProcesses ==
    \A n \in Nodes : <>[]up[n] => <>processing[n]

=============================================================================
