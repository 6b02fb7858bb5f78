---------------------------- MODULE TPQSession ----------------------------
(***************************************************************************)
(* One tpq_client and the server it talks to.  Of the server only what one *)
(* client sees of it is here: its context, and the query it may hold.  The *)
(* interval queue decides whether a query is answered at once or held: the *)
(* choice is open here and made in TPQServer.                              *)
(*                                                                         *)
(* The connection is a ZeroMQ one: ordered, and it comes back by itself    *)
(* after the server process died, without what was under way.              *)
(***************************************************************************)
EXTENDS TPQClient, FiniteSets

CONSTANTS
  Faults,    \* which of "RESTART", "EXPIRE", "INTERNAL" can occur
  MaxFaults  \* bound: how many of them

ASSUME SessionAssumption ==
  /\ Faults \subseteq {"RESTART", "EXPIRE", "INTERNAL"}
  /\ MaxFaults \in Nat

VARIABLES
  up,      \* the server process runs
  context, \* "none", "start" or "connected": the client's context there
  held,    \* seqno of the queries held for the client
  faults,  \* how many faults there were
  lost     \* PINGs and PONGs lost in faults

serverVars == <<up, context, held, faults, lost>>
vars == <<clientVars, netVars, serverVars>>

-----------------------------------------------------------------------------
(***************************************************************************)
(* The server.                                                             *)
(***************************************************************************)

SendToClient(m) == toClient' = Append(toClient, m)

\* An ERROR of this server always carries 500 (set_command_invalid).
CommandInvalid == SendToClient([type |-> "ERROR", status |-> 500])

\* The "*" rows: ERROR, and the context is gone; what is held stays held.
Refuse == CommandInvalid /\ context' = "none" /\ UNCHANGED held

ServeHello ==
  \/ /\ context # "connected"
     /\ context' = "connected"
     /\ SendToClient([type |-> "COVERAGE"])
     /\ UNCHANGED held
  \/ context = "connected" /\ Refuse

ServePing ==
  /\ context' = IF context = "none" THEN "start" ELSE context
  /\ SendToClient([type |-> "PONG"])
  /\ UNCHANGED held

ServeQuery(n, m) ==
  \/ context # "connected" /\ Refuse
  \/ /\ context = "connected"
     /\ UNCHANGED context
     /\ \/ m = "none" /\ CommandInvalid /\ UNCHANGED held
        \/ m = "some" /\ SendToClient([type |-> "RESULT", seqno |-> n]) /\ UNCHANGED held
        \/ m = "some" /\ held' = held \cup {n} /\ UNCHANGED toClient

\* The server takes the next message of the client.
Take ==
  /\ up
  /\ toServer # <<>>
  /\ toServer' = Tail(toServer)
  /\ LET m == Head(toServer)
     IN  \/ m.type = "HELLO" /\ ServeHello
         \/ m.type = "PING" /\ ServePing
         \/ m.type = "QUERY" /\ ServeQuery(m.seqno, m.mask)
  /\ UNCHANGED <<clientVars, up, faults, lost>>

\* The stream reached the end of a held query.  What happens when the context
\* is no longer there is for TPQServer to say: nothing is sent here.
ServeHeld(n) ==
  /\ up
  /\ n \in held
  /\ held' = held \ {n}
  /\ \/ context = "connected" /\ SendToClient([type |-> "RESULT", seqno |-> n])
                              /\ UNCHANGED context
     \/ context = "start" /\ CommandInvalid /\ context' = "none"
     \/ context = "none" /\ UNCHANGED <<toClient, context>>
  /\ UNCHANGED <<clientVars, toServer, up, faults, lost>>

-----------------------------------------------------------------------------
(***************************************************************************)
(* Faults.                                                                 *)
(***************************************************************************)

Fault(kind) ==
  /\ kind \in Faults
  /\ faults < MaxFaults
  /\ faults' = faults + 1

\* PINGs the server has not taken and PONGs the client has not.
PingsSent == {i \in DOMAIN toServer : toServer[i].type = "PING"}
PongsSent == {i \in DOMAIN toClient : toClient[i].type = "PONG"}

Beats == Cardinality(PingsSent) + Cardinality(PongsSent)

\* The server process dies.  Messages that had not left the client's socket
\* and messages that had reached it survive.
Crash ==
  /\ up
  /\ Fault("RESTART")
  /\ up' = FALSE
  /\ context' = "none"
  /\ held' = {}
  /\ \E i \in 0 .. Len(toServer), j \in 0 .. Len(toClient) :
       /\ toServer' = SubSeq(toServer, i + 1, Len(toServer))
       /\ toClient' = SubSeq(toClient, 1, j)
  /\ lost' = lost + Beats - Beats'
  /\ UNCHANGED clientVars

Restart ==
  /\ ~ up
  /\ up' = TRUE
  /\ UNCHANGED <<clientVars, netVars, context, held, faults, lost>>

\* The ticket of the context ran out: the server heard nothing for a minute.
ContextExpires ==
  /\ up
  /\ context # "none"
  /\ toServer = <<>>
  /\ Fault("EXPIRE")
  /\ context' = "none"
  /\ UNCHANGED <<clientVars, netVars, up, held, lost>>

\* Another server of the same protocol may answer INTERNAL ERROR; tpq_server
\* never does.
InternalError ==
  /\ up
  /\ context # "none"
  /\ Fault("INTERNAL")
  /\ SendToClient([type |-> "ERROR", status |-> 502])
  /\ UNCHANGED <<clientVars, toServer, up, context, held, lost>>

-----------------------------------------------------------------------------
Init ==
  /\ ClientInit
  /\ up = TRUE
  /\ context = "none"
  /\ held = {}
  /\ faults = 0
  /\ lost = 0

Server == Take \/ \E n \in held : ServeHeld(n)

Next ==
  \/ ClientNext /\ UNCHANGED serverVars
  \/ Server
  \/ Crash
  \/ Restart
  \/ ContextExpires
  \/ InternalError

Spec == Init /\ [][Next]_vars

\* The loops of both actors serve what is ready, a call that can return does,
\* the stream of TPSets goes on, and a server that died is started again.
\* Timers may be early or late, but an armed one is not put off for ever.
Fairness ==
  /\ WF_vars(Waiting /\ UNCHANGED serverVars)
  /\ WF_vars(HandleCmdpipe /\ UNCHANGED serverVars)
  /\ WF_vars(HandleProtocol /\ UNCHANGED serverVars)
  /\ WF_vars(HandleExpiry /\ UNCHANGED serverVars)
  /\ WF_vars(Take)
  /\ WF_vars(\E n \in held : ServeHeld(n))
  /\ WF_vars(Restart)

FairSpec == Spec /\ Fairness

-----------------------------------------------------------------------------
(***************************************************************************)
(* Properties.                                                             *)
(***************************************************************************)

\* Every variable has its type.  Three expiries without a PONG are the most
\* one connection sees; each INTERNAL ERROR may arm the timer once more.
TypeOK ==
  /\ state \in ClientStates
  /\ {fsm_stopped, terminated, connected, expiry, timeout, greeted, up} \subseteq BOOLEAN
  /\ retries \in 0 .. (3 + faults)
  /\ seqno \in 0 .. calls /\ calls \in 0 .. MaxCalls
  /\ commands \in Seq(Commands) /\ pipe \in Seq(Replies)
  /\ call \in Methods
  /\ returned \in 0 .. MaxCalls
  /\ toServer \in Seq(ToServer) /\ toClient \in Seq(ToClient)
  /\ context \in {"none", "start", "connected"}
  /\ held \subseteq 1 .. MaxCalls
  /\ faults \in 0 .. MaxFaults /\ lost \in Nat

\* Queries sent whose answer the application has not taken, wherever they or
\* their answers are.
QueriesSent == {i \in DOMAIN toServer : toServer[i].type = "QUERY"}
ResultsSent == {i \in DOMAIN toClient : toClient[i].type = "RESULT"}
ResultsReplied == {i \in DOMAIN pipe : pipe[i].reply = "RESULT"}

Outstanding ==
    Cardinality(QueriesSent) + Cardinality(held)
  + Cardinality(ResultsSent) + Cardinality(ResultsReplied)

\* Calls are synchronous from end to end: whatever is lost, refused or late,
\* the server never holds two queries of one client, and no answer is left
\* over on the pipe for a later call to take.
OneOutstanding ==
  /\ Outstanding <= 1
  /\ call = "idle" /\ ~ fsm_stopped => Outstanding = 0

\* A query returns its own answer: the application tells answers apart by
\* nothing but the order of its calls.
ResultIsOwn ==
  [][returned' # returned => returned' = calls]_vars

\* The client declares a server dead only for PINGs it did not answer: each
\* retry counted stands for one PING still under way or lost in a fault, up to
\* the third, which is not sent.
RetriesUnanswered ==
  ~ fsm_stopped =>
    (IF retries < 2 THEN retries ELSE 2) <= Beats + lost

\* While the server stays up, every call returns, also when the client's timer
\* gave up on the server before the answer came.  Two calls do not: a say_hello
\* whose endpoint the client cannot connect to, and a query with a mask the
\* server refuses with ERROR.  Both stop the client without a reply.
EveryCallReturns ==
  call # "idle" ~> \/ call \in {"idle", "gone"}
                   \/ faults > 0
                   \/ call = "say_hello" /\ fsm_stopped
                   \/ state = "have_error"

\* tpq_client.hpp, tpq_client_connected: a client that was connected once is
\* connected again after the server died and restarted.
Reconnects ==
  connected /\ context = "none" ~> context = "connected" \/ terminated
=============================================================================
