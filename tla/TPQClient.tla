----------------------------- MODULE TPQClient -----------------------------
(***************************************************************************)
(* The tpq_client class: an application thread that calls its blocking     *)
(* methods, and the actor that serves them, a zloop over the command pipe, *)
(* the DEALER socket to the server and one expiry timer.                   *)
(*                                                                         *)
(* A method sends a command and waits for a reply it accepts on the same   *)
(* pipe.  The actor runs a state machine on commands, on messages from the *)
(* server and on expiries; each callback is one step, since it runs to its *)
(* end.  Time is not modelled: an armed timer may expire at any moment, so *)
(* every race of an answer with a timeout is there.                        *)
(*                                                                         *)
(* The server is not part of this module: toServer and toClient are the    *)
(* two directions of the connection.                                       *)
(***************************************************************************)
EXTENDS Integers, Sequences

CONSTANTS
  Endpoints,  \* what say_hello may be given: "good", or "bad" (no endpoint)
  Masks,      \* "some" or "none": whether a query's mask has a bit
  Timeouts,   \* FALSE if a query's timeout is 0, TRUE if it is not
  MaxCalls,   \* bound: queries the application makes
  MaxFlight   \* bound: messages under way when a PING is sent

ASSUME ClientAssumption ==
  /\ Endpoints \subseteq {"good", "bad"}
  /\ Masks \subseteq {"some", "none"}
  /\ Timeouts \subseteq BOOLEAN
  /\ MaxCalls \in Nat /\ MaxFlight \in Nat

VARIABLES
  \* The actor.
  state,       \* state of its state machine
  fsm_stopped, \* the state machine took "terminate": it ignores all events
  terminated,  \* the actor is gone
  connected,   \* the flag the API reads with $CONNECTED
  retries,     \* expiries since the last PONG or COVERAGE
  expiry,      \* TRUE if the expiry timer is armed
  timeout,     \* args.timeout is not 0; only QUERY sets it
  seqno,       \* number of the last QUERY sent
  \* The pipe and the application.
  commands,    \* commands to the actor
  pipe,        \* replies to the application
  call,        \* the method the application is in
  calls,       \* queries it has made
  greeted,     \* it has called say_hello
  returned,    \* seqno of the RESULT the last query returned, 0 before
  \* The connection.
  toServer,
  toClient

actorVars == <<state, fsm_stopped, terminated, connected, retries, expiry,
               timeout, seqno>>
appVars == <<commands, call, calls, greeted, returned>>
clientVars == <<actorVars, appVars, pipe>>
netVars == <<toServer, toClient>>

ClientStates ==
  {"start", "expect_coverage", "connected", "have_error", "reconnecting"}
Methods == {"idle", "say_hello", "query", "connected", "destroy", "gone"}

Commands ==
       [method : {"SAY HELLO"}, endpoint : Endpoints]
  \cup [method : {"QUERY"}, mask : Masks, timeout : Timeouts]
  \cup [method : {"$CONNECTED", "$TERM"}]

Replies ==
       [reply : {"CONNECTED", "FAILURE"}]
  \cup [reply : {"RESULT"}, seqno : 1 .. MaxCalls]
  \cup [reply : {"flag"}, value : BOOLEAN]

ToServer ==
       [type : {"HELLO", "PING"}]
  \cup [type : {"QUERY"}, seqno : 1 .. MaxCalls, mask : Masks]

ToClient ==
       [type : {"COVERAGE", "PONG"}]
  \cup [type : {"RESULT"}, seqno : 1 .. MaxCalls]
  \cup [type : {"ERROR"}, status : {500, 502}]

-----------------------------------------------------------------------------
(***************************************************************************)
(* The application.  It says hello once, before any query; a query before  *)
(* that is an assertion failure in the actor.                              *)
(***************************************************************************)

Invoke(method, command) ==
  /\ call = "idle"
  /\ call' = method
  /\ commands' = Append(commands, command)
  /\ UNCHANGED <<actorVars, pipe, returned, netVars>>

SayHello(e) ==
  /\ ~ greeted
  /\ greeted' = TRUE
  /\ Invoke("say_hello", [method |-> "SAY HELLO", endpoint |-> e])
  /\ UNCHANGED calls

\* The application does not look at what say_hello returned.
Query(m, t) ==
  /\ greeted
  /\ calls < MaxCalls
  /\ calls' = calls + 1
  /\ Invoke("query", [method |-> "QUERY", mask |-> m, timeout |-> t])
  /\ UNCHANGED greeted

Connected ==
  /\ Invoke("connected", [method |-> "$CONNECTED"])
  /\ UNCHANGED <<calls, greeted>>

\* The message pipe is flushed and the actor told to end.
Destroy ==
  /\ Invoke("destroy", [method |-> "$TERM"])
  /\ UNCHANGED <<calls, greeted>>

\* Replies s_accept_reply lets each method return with.
Accepted ==
  [say_hello |-> {"CONNECTED", "FAILURE"}, query |-> {"RESULT", "FAILURE"}]

\* Variant: a method whose timeout passed returns without a reply.
AcceptReplyInTime ==
  /\ call \in {"say_hello", "query"}
  /\ call' = "idle"
  /\ pipe' = IF pipe = <<>> THEN pipe ELSE Tail(pipe)
  /\ returned' = IF pipe = <<>> \/ Head(pipe).reply # "RESULT" THEN returned
                 ELSE Head(pipe).seqno
  /\ UNCHANGED <<actorVars, commands, calls, greeted, netVars>>

\* s_accept_reply: take the next reply; return if it is accepted, else drop it.
AcceptReply ==
  /\ call \in {"say_hello", "query"}
  /\ pipe # <<>>
  /\ pipe' = Tail(pipe)
  /\ \/ /\ Head(pipe).reply \in Accepted[call]
        /\ call' = "idle"
        /\ returned' = IF Head(pipe).reply = "RESULT" THEN Head(pipe).seqno
                       ELSE returned
     \/ /\ Head(pipe).reply \notin Accepted[call]
        /\ UNCHANGED <<call, returned>>
  /\ UNCHANGED <<actorVars, commands, calls, greeted, netVars>>

\* tpq_client_connected takes the next reply for the flag, whatever it is.
ReadFlag ==
  /\ call = "connected"
  /\ pipe # <<>>
  /\ pipe' = Tail(pipe)
  /\ call' = "idle"
  /\ UNCHANGED <<actorVars, commands, calls, greeted, returned, netVars>>

Destroyed ==
  /\ call = "destroy"
  /\ terminated
  /\ call' = "gone"
  /\ UNCHANGED <<actorVars, commands, pipe, calls, greeted, returned, netVars>>

-----------------------------------------------------------------------------
(***************************************************************************)
(* Actions of the state machine.                                           *)
(***************************************************************************)

SendToServer(m) == toServer' = Append(toServer, m)
Reply(r) == pipe' = Append(pipe, r)

\* use_connect_timeout: args.timeout, which no QUERY has set before say_hello.
UseConnectTimeout == expiry' = timeout

\* connect_to_server: zsock_connect fails for a bad endpoint.
Connects(e) == e = "good"

SignalConnected == Reply([reply |-> "CONNECTED"])

\* signal_result: the number is that of the message.
SignalResult(n) == Reply([reply |-> "RESULT", seqno |-> n])

\* signal_internal_error, for a caller that may not be waiting.
SignalInternalError == Reply([reply |-> "FAILURE"])

\* check_status_code: INTERNAL ERROR alone means that the server does not know
\* the client.
StatusEvent(status) == IF status = 502 THEN "command_invalid" ELSE "other"

\* set_query: a new number for every query.
SetQuery(m) ==
  /\ seqno' = seqno + 1
  /\ SendToServer([type |-> "QUERY", seqno |-> seqno + 1, mask |-> m])

\* Variant: the count of retries is not reset.
ClientIsConnectedNoReset ==
  /\ connected' = TRUE
  /\ expiry' = TRUE
  /\ UNCHANGED retries

\* client_is_connected
ClientIsConnected ==
  /\ retries' = 0
  /\ connected' = TRUE
  /\ expiry' = TRUE

\* The "*" row of the protocol states: signal_internal_error, terminate.
Unexpected ==
  /\ SignalInternalError
  /\ fsm_stopped' = TRUE
  /\ UNCHANGED <<state, connected, retries, expiry, seqno>>

\* say_hello in the start state.  When connecting fails no reply is ever sent.
ExecuteSayHello(e) ==
  /\ UseConnectTimeout
  /\ \/ /\ Connects(e)
        /\ SendToServer([type |-> "HELLO"])
        /\ state' = "expect_coverage"
        /\ UNCHANGED fsm_stopped
     \/ /\ ~ Connects(e)
        /\ fsm_stopped' = TRUE
        /\ UNCHANGED <<toServer, state>>
  /\ UNCHANGED <<connected, retries, seqno, pipe>>

\* Variant: the number is sent before it is incremented.
ExecuteQueryLate(m) ==
  \/ /\ state = "connected"
     /\ seqno' = seqno + 1
     /\ SendToServer([type |-> "QUERY", seqno |-> seqno, mask |-> m])
     /\ UNCHANGED <<state, fsm_stopped, connected, retries, expiry, pipe>>
  \/ /\ state # "connected"
     /\ Unexpected
     /\ UNCHANGED toServer

\* query in the connected state, and in the states that do not expect it.
ExecuteQuery(m) ==
  \/ /\ state = "connected"
     /\ SetQuery(m)
     /\ UNCHANGED <<state, fsm_stopped, connected, retries, expiry, pipe>>
  \/ /\ state # "connected"
     /\ Unexpected
     /\ UNCHANGED toServer

ExecuteCoverage ==
  \/ /\ state = "expect_coverage"
     /\ SignalConnected
     /\ ClientIsConnected
     /\ state' = "connected"
     /\ UNCHANGED <<fsm_stopped, seqno, toServer>>
  \/ /\ state # "expect_coverage"
     /\ Unexpected
     /\ UNCHANGED toServer

ExecuteResult(n) ==
  \/ /\ state = "connected"
     /\ SignalResult(n)
     /\ UNCHANGED <<state, fsm_stopped, connected, retries, expiry, seqno, toServer>>
  \/ /\ state # "connected"
     /\ Unexpected
     /\ UNCHANGED toServer

ExecutePong ==
  /\ ClientIsConnected
  /\ UNCHANGED <<state, fsm_stopped, seqno, pipe, toServer>>

\* ERROR and the have_error state.  INTERNAL ERROR means hello again under
\* the timeout of the last query; any other status ends the state machine,
\* without a word to the application.
ExecuteError(status) ==
  /\ \/ /\ StatusEvent(status) = "command_invalid"
        /\ SendToServer([type |-> "HELLO"])
        /\ UseConnectTimeout
        /\ state' = "reconnecting"
        /\ UNCHANGED fsm_stopped
     \/ /\ StatusEvent(status) = "other"
        /\ state' = "have_error"
        /\ fsm_stopped' = TRUE
        /\ UNCHANGED <<toServer, expiry>>
  /\ UNCHANGED <<connected, retries, seqno, pipe>>

\* Variant: the third expiry ends the state machine.
GiveUpAndStop ==
  /\ retries' = retries + 1
  /\ connected' = FALSE
  /\ expiry' = FALSE
  /\ fsm_stopped' = TRUE
  /\ UNCHANGED toServer

\* Variant: the third expiry leaves the timer armed.
GiveUpArmed ==
  /\ retries' = retries + 1
  /\ connected' = FALSE
  /\ UNCHANGED <<expiry, fsm_stopped, toServer>>

\* check_if_connection_is_dead at the third expiry: the timer is off, PING is
\* not sent, and the exception event does nothing.
GiveUp ==
  /\ retries' = retries + 1
  /\ connected' = FALSE
  /\ expiry' = FALSE
  /\ UNCHANGED <<fsm_stopped, toServer>>

ExecuteExpired ==
  /\ \/ retries + 1 >= 3 /\ GiveUp
     \/ /\ retries + 1 < 3
        /\ retries' = retries + 1
        /\ SendToServer([type |-> "PING"])
        /\ UNCHANGED <<connected, expiry, fsm_stopped>>
  /\ UNCHANGED <<state, seqno, pipe>>

-----------------------------------------------------------------------------
(***************************************************************************)
(* Callbacks of the actor.  A stopped state machine takes no event, but    *)
(* the sockets are still read.                                             *)
(***************************************************************************)

Ignore ==
  /\ fsm_stopped
  /\ UNCHANGED <<state, fsm_stopped, connected, retries, expiry, seqno, pipe, toServer>>

\* s_client_handle_cmdpipe
HandleCmdpipe ==
  /\ ~ terminated
  /\ commands # <<>>
  /\ commands' = Tail(commands)
  /\ LET c == Head(commands)
     IN  \/ /\ c.method = "SAY HELLO"
            /\ (~ fsm_stopped /\ ExecuteSayHello(c.endpoint)) \/ Ignore
            /\ UNCHANGED <<terminated, timeout>>
         \/ /\ c.method = "QUERY"
            /\ timeout' = c.timeout
            /\ (~ fsm_stopped /\ ExecuteQuery(c.mask)) \/ Ignore
            /\ UNCHANGED terminated
         \/ /\ c.method = "$CONNECTED"
            /\ Reply([reply |-> "flag", value |-> connected])
            /\ UNCHANGED <<actorVars, toServer>>
         \/ /\ c.method = "$TERM"
            /\ terminated' = TRUE
            /\ UNCHANGED <<state, fsm_stopped, connected, retries, expiry,
                           timeout, seqno, pipe, toServer>>
  /\ UNCHANGED <<call, calls, greeted, returned, toClient>>

\* s_client_handle_protocol; the timer it restarts is armed before and after.
HandleProtocol ==
  /\ ~ terminated
  /\ toClient # <<>>
  /\ toClient' = Tail(toClient)
  /\ LET m == Head(toClient)
     IN  \/ Ignore
         \/ /\ ~ fsm_stopped
            /\ \/ m.type = "COVERAGE" /\ ExecuteCoverage
               \/ m.type = "RESULT" /\ ExecuteResult(m.seqno)
               \/ m.type = "PONG" /\ ExecutePong
               \/ m.type = "ERROR" /\ ExecuteError(m.status)
  /\ UNCHANGED <<terminated, timeout, appVars>>

\* s_client_handle_expiry; it arms the timer again unless it was turned off.
HandleExpiry ==
  /\ ~ terminated
  /\ ~ fsm_stopped
  /\ expiry
  /\ Len(toServer) + Len(toClient) < MaxFlight
  /\ ExecuteExpired
  /\ UNCHANGED <<terminated, timeout, appVars, toClient>>

-----------------------------------------------------------------------------
ClientInit ==
  /\ state = "start"
  /\ fsm_stopped = FALSE
  /\ terminated = FALSE
  /\ connected = FALSE
  /\ retries = 0
  /\ expiry = FALSE
  /\ timeout = FALSE
  /\ seqno = 0
  /\ commands = <<>>
  /\ pipe = <<>>
  /\ call = "idle"
  /\ calls = 0
  /\ greeted = FALSE
  /\ returned = 0
  /\ toServer = <<>>
  /\ toClient = <<>>

\* What the application begins, and what goes on by itself.
Application ==
  \/ \E e \in Endpoints : SayHello(e)
  \/ \E m \in Masks, t \in Timeouts : Query(m, t)
  \/ Connected
  \/ Destroy

Waiting == AcceptReply \/ ReadFlag \/ Destroyed

ClientNext ==
  \/ Application
  \/ Waiting
  \/ HandleCmdpipe
  \/ HandleProtocol
  \/ HandleExpiry
=============================================================================
