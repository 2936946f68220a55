---------------------------- MODULE ProjectStore ----------------------------
(***************************************************************************)
(* What the repository's writes promise their callers (spec 4.3 and 4.5), *)
(* with the Raft log and the handlers' control hidden.  A call takes a     *)
(* fresh ticket and either is refused before any write or hands its        *)
(* command to the store.  The store executes accepted commands one at a    *)
(* time, each at most once, and the tables change only then.  A caller is  *)
(* released with success only by the execution of its own command (it may *)
(* then still read the result back); a call that fails returns while its   *)
(* command may stay accepted and execute later.  Nothing here orders the  *)
(* executions, and nothing says a failed call's command is dropped.        *)
(***************************************************************************)
EXTENDS Naturals

CONSTANTS
    Clients,     \* the callers
    EmptyDb,     \* the tables of a new store
    NoCall,      \* the call of an idle client
    Exec(_, _)   \* Exec(db, x): the tables after executing command x

VARIABLES
    db,          \* the tables
    accepted,    \* the commands handed to the store and not yet executed
    applied,     \* the tickets of the executed commands
    nextTicket,  \* calls made so far
    status,      \* per client: "idle", "pending" or "answering"
    call         \* per client: the command of its call, or NoCall

vars == <<db, accepted, applied, nextTicket, status, call>>

Init ==
    /\ db = EmptyDb
    /\ accepted = {}
    /\ applied = {}
    /\ nextTicket = 0
    /\ status = [c \in Clients |-> "idle"]
    /\ call = [c \in Clients |-> NoCall]

\* Client c calls with a fresh ticket.
Call(c) ==
    /\ status[c] = "idle"
    /\ status' = [status EXCEPT ![c] = "pending"]
    /\ call'[c].client = c
    /\ call'[c].ticket = nextTicket
    /\ call' = [call EXCEPT ![c] = call'[c]]
    /\ nextTicket' = nextTicket + 1
    /\ UNCHANGED <<db, accepted, applied>>

\* Client c's call is refused (or dies) before it writes anything.
Refuse(c) ==
    /\ status[c] = "idle"
    /\ nextTicket' = nextTicket + 1
    /\ UNCHANGED <<db, accepted, applied, status, call>>

\* The command of c's pending call is handed to the store, once.
Accept(c) ==
    /\ status[c] = "pending"
    /\ call[c] \notin accepted
    /\ call[c].ticket \notin applied
    /\ accepted' = accepted \cup {call[c]}
    /\ UNCHANGED <<db, applied, nextTicket, status, call>>

\* The store executes an accepted command x that has not executed yet.  If
\* its caller is still pending on it, the caller is released: it answers,
\* or goes on to read the result back.
Apply(x) ==
    /\ x.ticket \notin applied
    /\ db' = Exec(db, x)
    /\ accepted' = accepted \ {x}
    /\ applied' = applied \cup {x.ticket}
    /\ LET c == x.client
       IN  IF status[c] = "pending" /\ call[c].ticket = x.ticket
           THEN /\ status' = [status EXCEPT ![c] = status'[c]]
                /\ \/ status'[c] = "idle" /\ call' = [call EXCEPT ![c] = NoCall]
                   \/ status'[c] = "answering" /\ call' = call
           ELSE UNCHANGED <<status, call>>
    /\ UNCHANGED nextTicket

\* Some pending calls return an error, and some accepted commands are
\* lost; a failed call's command may also stay accepted.
Abort ==
    /\ accepted' \subseteq accepted
    /\ DOMAIN status' = DOMAIN status
    /\ DOMAIN call' = DOMAIN call
    /\ \A c \in DOMAIN status :
          \/ status'[c] = status[c] /\ call'[c] = call[c]
          \/ status[c] = "pending" /\ status'[c] = "idle" /\ call'[c] = NoCall
    /\ UNCHANGED <<db, applied, nextTicket>>

\* A client that read its result back answers.
Answer(c) ==
    /\ status[c] = "answering"
    /\ status' = [status EXCEPT ![c] = "idle"]
    /\ call' = [call EXCEPT ![c] = NoCall]
    /\ UNCHANGED <<db, accepted, applied, nextTicket>>

Next ==
    \/ \E c \in Clients : Call(c) \/ Refuse(c) \/ Accept(c) \/ Answer(c)
    \/ \E x \in accepted : Apply(x)
    \/ Abort

Spec == Init /\ [][Next]_vars

=============================================================================
