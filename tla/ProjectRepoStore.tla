-------------------------- MODULE ProjectRepoStore --------------------------
(***************************************************************************)
(* ProjectRepo implements ProjectStore.  The refinement mapping hides the  *)
(* Raft log's order, the leader, the handlers' control points and their    *)
(* answers:                                                                 *)
(*   - the tables are the store's tables;                                   *)
(*   - the accepted commands are the entries of the log;                    *)
(*   - a handler about to call WriteCommandToRaftLog, or blocked in it, is  *)
(*     pending; one in CreateOne's read-back is answering.                  *)
(***************************************************************************)
EXTENDS ProjectRepo

\* The call of an idle handler: a value that is no command.
NoCall == "none"

LogEntries == {log[i] : i \in 1..Len(log)}

\* What a handler's control point means to its caller.
CallStatus(c) ==
    IF pc[c] = "idle" THEN "idle"
    ELSE IF pc[c] = "readback" THEN "answering"
    ELSE "pending"

Store == INSTANCE ProjectStore WITH
            db <- Db,
            EmptyDb <- [projects |-> {}, jobs |-> {}, nextId |-> 1, nextJobId |-> 1],
            Exec <- Execute,
            accepted <- LogEntries,
            status <- [c \in Clients |-> CallStatus(c)],
            call <- [c \in Clients |-> IF pc[c] = "idle" THEN NoCall ELSE cmd[c]]

\* The project handlers over the Raft log keep ProjectStore's promises: the
\* tables change only when the FSM executes a logged command whose request
\* has not executed before, a handler is released with success only by the
\* execution of its own command, and a failed WriteCommandToRaftLog leaves
\* its entry to execute or be dropped later.
StoreSpec == Store!Spec

=============================================================================
