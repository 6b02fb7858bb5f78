-------------------------- MODULE TPQSessionProofs --------------------------
(***************************************************************************)
(* Theorems about TPQSession, for any number of calls and faults: a        *)
(* query's answer is taken by the call that made it, calls stay            *)
(* synchronous from the application to the server and back, every variable *)
(* keeps its type, and a retry counted stands for a PING not answered.     *)
(***************************************************************************)
EXTENDS TPQSession, SequenceTheorems, FiniteSetTheorems, FunctionTheorems,
        TLAPS

-----------------------------------------------------------------------------
(***************************************************************************)
(* The messages of one kind in a sequence, under the three things that     *)
(* happen to a connection.                                                 *)
(***************************************************************************)

Of(s, t) == {i \in DOMAIN s : s[i].type = t}

\* One message of kind t, numbered n.
Single(s, t, n) == \E i : Of(s, t) = {i} /\ s[i].seqno = n

\* A message is appended.
LEMMA OfAppend ==
  ASSUME NEW S, NEW s \in Seq(S), NEW m \in S, NEW t
  PROVE  /\ m.type # t => Of(Append(s, m), t) = Of(s, t)
         /\ m.type # t => \A n : Single(s, t, n) => Single(Append(s, m), t, n)
         /\ m.type = t /\ Of(s, t) = {} => Single(Append(s, m), t, m.seqno)
<1> DEFINE u == Append(s, m)
           k == Len(s) + 1
<1>1. /\ Len(s) \in Nat /\ DOMAIN s = 1 .. Len(s)
      /\ u \in Seq(S) /\ Len(u) = k /\ u[k] = m
      /\ \A i \in 1 .. Len(s) : u[i] = s[i]
  BY AppendProperties, LenProperties
<1>2. DOMAIN u = 1 .. k
  BY <1>1, LenProperties
<1> HIDE DEF u
<1>3. ASSUME m.type # t
      PROVE  Of(u, t) = Of(s, t)
  BY <1>1, <1>2, <1>3 DEF Of
<1>4. ASSUME m.type # t, NEW n, Single(s, t, n)
      PROVE  Single(u, t, n)
  <2>1. PICK i : Of(s, t) = {i} /\ s[i].seqno = n
    BY <1>4 DEF Single
  <2>2. u[i] = s[i]
    BY <1>1, <2>1 DEF Of
  <2>3. QED
    BY <1>3, <1>4, <2>1, <2>2 DEF Single
<1>5. ASSUME m.type = t, Of(s, t) = {}
      PROVE  Single(u, t, m.seqno)
  <2>1. Of(u, t) = {k}
    BY <1>1, <1>2, <1>5 DEF Of
  <2>2. QED
    BY <1>1, <2>1 DEF Single
<1>6. QED
  BY <1>3, <1>4, <1>5 DEF u

\* A part of the messages remains.
LEMMA OfSubSeq ==
  ASSUME NEW S, NEW s \in Seq(S), NEW a \in 1 .. (Len(s) + 1), NEW b \in 0 .. Len(s),
         NEW t
  PROVE  /\ SubSeq(s, a, b) \in Seq(S)
         /\ Of(s, t) = {} => Of(SubSeq(s, a, b), t) = {}
         /\ \A n : Single(s, t, n) => \/ Of(SubSeq(s, a, b), t) = {}
                                      \/ Single(SubSeq(s, a, b), t, n)
<1> DEFINE u == SubSeq(s, a, b)
<1>1. /\ Len(s) \in Nat /\ DOMAIN s = 1 .. Len(s)
      /\ \A i \in 1 .. Len(s) : s[i] \in S
  BY LenProperties, ElementOfSeq
<1>2. /\ u \in Seq(S)
      /\ Len(u) = IF a <= b THEN b - a + 1 ELSE 0
      /\ \A i \in 1 .. (b - a + 1) : u[i] = s[a + i - 1]
  <2>1. \A i \in a .. b : s[i] \in S
    BY <1>1
  <2>2. QED
    BY <1>1, <2>1, SubSeqProperties
<1>3. DOMAIN u = 1 .. Len(u)
  BY <1>2, LenProperties
<1> HIDE DEF u
<1>4. \A i \in DOMAIN u : a + i - 1 \in DOMAIN s /\ u[i] = s[a + i - 1]
  <2>1. \A i \in DOMAIN u : i \in 1 .. (b - a + 1)
    <3>1. CASE a <= b
      BY <1>2, <1>3, <3>1
    <3>2. CASE ~ a <= b
      BY <1>2, <1>3, <3>2
    <3>3. QED
      BY <3>1, <3>2
  <2>2. \A i \in 1 .. (b - a + 1) : a + i - 1 \in 1 .. Len(s)
    BY <1>1
  <2>3. QED
    BY <1>1, <1>2, <2>1, <2>2
<1>5. \A i \in Of(u, t) : a + i - 1 \in Of(s, t)
  BY <1>4 DEF Of
<1>6. ASSUME NEW n, Single(s, t, n), Of(u, t) # {}
      PROVE  Single(u, t, n)
  <2>1. PICK i : Of(s, t) = {i} /\ s[i].seqno = n
    BY <1>6 DEF Single
  <2>2. PICK j \in Of(u, t) : TRUE
    BY <1>6
  <2>3. a + j - 1 = i /\ u[j] = s[i]
    BY <1>4, <1>5, <2>1, <2>2 DEF Of
  <2>4. \A l \in Of(u, t) : l = j
    <3>1. \A l \in Of(u, t) : l \in Nat /\ a + l - 1 = i
      BY <1>2, <1>3, <1>5, <2>1 DEF Of
    <3>2. QED
      BY <2>2, <2>3, <3>1
  <2>5. Of(u, t) = {j}
    BY <2>2, <2>4
  <2>6. QED
    BY <2>1, <2>3, <2>5 DEF Single
<1>7. QED
  BY <1>2, <1>5, <1>6 DEF u

\* The first message is taken.
LEMMA OfTail ==
  ASSUME NEW S, NEW s \in Seq(S), s # << >>, NEW t
  PROVE  /\ Tail(s) \in Seq(S) /\ Head(s) \in S /\ Head(s) = s[1]
         /\ Of(s, t) = {} => Of(Tail(s), t) = {} /\ Head(s).type # t
         /\ \A n : Single(s, t, n) =>
              \/ Head(s).type = t /\ Head(s).seqno = n /\ Of(Tail(s), t) = {}
              \/ Head(s).type # t /\ Single(Tail(s), t, n)
<1> DEFINE u == Tail(s)
<1>1. /\ Head(s) \in S /\ u \in Seq(S) /\ Len(u) = Len(s) - 1
      /\ \A i \in 1 .. Len(u) : u[i] = s[i + 1]
  BY HeadTailProperties
<1>2. /\ Len(s) \in Nat \ {0} /\ DOMAIN s = 1 .. Len(s)
      /\ DOMAIN u = 1 .. Len(u) /\ Head(s) = s[1]
  BY <1>1, LenProperties, EmptySeq
<1> HIDE DEF u
<1>3. 1 \in DOMAIN s
  BY <1>2
<1>4. \A i : i \in Of(u, t) <=> i \in Nat \ {0} /\ i + 1 \in Of(s, t)
  BY <1>1, <1>2 DEF Of
<1>5. Of(s, t) = {} => Of(u, t) = {} /\ Head(s).type # t
  BY <1>2, <1>3, <1>4 DEF Of
<1>6. ASSUME NEW n, Single(s, t, n)
      PROVE  \/ Head(s).type = t /\ Head(s).seqno = n /\ Of(u, t) = {}
             \/ Head(s).type # t /\ Single(u, t, n)
  <2>1. PICK i : Of(s, t) = {i} /\ s[i].seqno = n
    BY <1>6 DEF Single
  <2>2. i \in 1 .. Len(s) /\ s[i].type = t
    BY <1>2, <2>1 DEF Of
  <2>3. CASE i = 1
    <3>1. Of(u, t) = {}
      BY <1>4, <2>1, <2>3
    <3>2. QED
      BY <1>2, <2>1, <2>2, <2>3, <3>1
  <2>4. CASE i # 1
    <3>1. Head(s).type # t
      BY <1>2, <1>3, <2>1, <2>4 DEF Of
    <3>2. i - 1 \in 1 .. Len(u) /\ u[i - 1] = s[i]
      BY <1>1, <1>2, <2>2, <2>4
    <3>3. \A j : j \in Of(u, t) <=> j = i - 1
      BY <1>4, <2>1, <2>2, <2>4
    <3>4. Of(u, t) = {i - 1}
      BY <3>3
    <3>5. QED
      BY <2>1, <3>1, <3>2, <3>4 DEF Single
  <2>5. QED
    BY <2>3, <2>4
<1>7. QED
  BY <1>1, <1>2, <1>5, <1>6 DEF u
-----------------------------------------------------------------------------
(***************************************************************************)
(* The invariant: where the one query of the client can be, and what the   *)
(* application, the pipe and the actor are at, phase by phase.  Once the   *)
(* state machine has stopped only the first part remains.                  *)
(***************************************************************************)

AnyReply ==
       [reply : {"CONNECTED", "FAILURE"}]
  \cup [reply : {"RESULT"}, seqno : Nat]
  \cup [reply : {"flag"}, value : BOOLEAN]

AnyToServer ==
  [type : {"HELLO", "PING"}] \cup [type : {"QUERY"}, seqno : Nat, mask : Masks]

AnyToClient ==
       [type : {"COVERAGE", "PONG"}]
  \cup [type : {"RESULT"}, seqno : Nat]
  \cup [type : {"ERROR"}, status : {500, 502}]

Types ==
  /\ commands \in Seq(Commands)
  /\ pipe \in Seq(AnyReply)
  /\ toServer \in Seq(AnyToServer)
  /\ toClient \in Seq(AnyToClient)
  /\ held \subseteq Nat
  /\ seqno \in Nat /\ calls \in Nat
  /\ fsm_stopped \in BOOLEAN /\ connected \in BOOLEAN

\* Nothing of a query is with the server or on the connection.
Quiet ==
  /\ Of(toServer, "QUERY") = {}
  /\ held = {}
  /\ Of(toClient, "RESULT") = {}

\* At most query n is, in one place.
UnderWay(n) ==
  \/ Quiet
  \/ /\ Single(toServer, "QUERY", n)
     /\ held = {} /\ Of(toClient, "RESULT") = {}
  \/ /\ held = {n}
     /\ Of(toServer, "QUERY") = {} /\ Of(toClient, "RESULT") = {}
  \/ /\ Single(toClient, "RESULT", n)
     /\ Of(toServer, "QUERY") = {} /\ held = {}

\* A RESULT on the pipe is first, is the answer of the last query, and is the
\* last of that query.
PipeInv ==
  \A i \in DOMAIN pipe :
    pipe[i].reply = "RESULT" =>
      i = 1 /\ pipe[i].seqno = calls /\ call = "query" /\ Quiet

\* The command of each method; "gone" is what destroy ends in.
CommandOf ==
  [say_hello |-> "SAY HELLO", query |-> "QUERY", connected |-> "$CONNECTED",
   destroy |-> "$TERM", gone |-> "$TERM"]

Idle ==
  /\ call = "idle" /\ commands = << >> /\ pipe = << >>
  /\ Quiet /\ seqno = calls /\ state # "expect_coverage"

\* In a method other than query: its command is to be handled, or its reply
\* is awaited, or is there.
Calling ==
  /\ call \in {"say_hello", "connected", "destroy", "gone"}
  /\ Quiet /\ seqno = calls
  /\ \A i \in DOMAIN pipe : pipe[i].reply # "RESULT"
  /\ \/ /\ commands = << >> /\ Len(pipe) <= 1
        /\ state = "expect_coverage" => call = "say_hello" /\ pipe = << >>
     \/ /\ Len(commands) = 1 /\ pipe = << >>
        /\ state # "expect_coverage"
        /\ commands[1].method = CommandOf[call]

\* In query: its command is to be handled, it was sent, its answer is there.
Asking ==
  /\ call = "query" /\ pipe = << >>
  /\ Len(commands) = 1 /\ commands[1].method = "QUERY"
  /\ Quiet /\ seqno + 1 = calls /\ state # "expect_coverage"

Asked ==
  /\ call = "query" /\ pipe = << >> /\ commands = << >>
  /\ UnderWay(calls) /\ seqno = calls /\ state # "expect_coverage"

Answered ==
  /\ call = "query" /\ Len(pipe) = 1 /\ commands = << >>
  /\ Quiet /\ seqno = calls /\ state # "expect_coverage"

Phase == Idle \/ Calling \/ Asking \/ Asked \/ Answered

SessionInv ==
  /\ Types
  /\ \E n \in Nat : UnderWay(n)
  /\ PipeInv
  /\ ~ fsm_stopped => Phase

-----------------------------------------------------------------------------
(***************************************************************************)
(* The connection: no step of the server or of the network makes a query   *)
(* of its own, and each moves the one under way from place to place.       *)
(***************************************************************************)

Stays ==
  /\ toServer' \in Seq(AnyToServer)
  /\ toClient' \in Seq(AnyToClient)
  /\ held' \subseteq Nat
  /\ Quiet => Quiet'
  /\ \A n \in Nat : UnderWay(n) => UnderWay(n)'

\* What a message appended to either direction does to the queries there.
LEMMA SentToClient ==
  ASSUME Types, NEW r \in AnyToClient
  PROVE  /\ Append(toClient, r) \in Seq(AnyToClient)
         /\ r.type # "RESULT" => Of(Append(toClient, r), "RESULT") = Of(toClient, "RESULT")
         /\ r.type # "RESULT" => \A n : Single(toClient, "RESULT", n)
                                          => Single(Append(toClient, r), "RESULT", n)
         /\ r.type = "RESULT" /\ Of(toClient, "RESULT") = {}
              => Single(Append(toClient, r), "RESULT", r.seqno)
<1>1. toClient \in Seq(AnyToClient)
  BY DEF Types
<1>2. Append(toClient, r) \in Seq(AnyToClient)
  BY <1>1, AppendProperties
<1>3. QED
  BY <1>1, <1>2, OfAppend

\* The same for what the client sends.
LEMMA SentToServer ==
  ASSUME Types, NEW r \in AnyToServer
  PROVE  /\ Append(toServer, r) \in Seq(AnyToServer)
         /\ r.type # "QUERY" => Of(Append(toServer, r), "QUERY") = Of(toServer, "QUERY")
         /\ r.type # "QUERY" => \A n : Single(toServer, "QUERY", n)
                                         => Single(Append(toServer, r), "QUERY", n)
         /\ r.type = "QUERY" /\ Of(toServer, "QUERY") = {}
              => Single(Append(toServer, r), "QUERY", r.seqno)
<1>1. toServer \in Seq(AnyToServer)
  BY DEF Types
<1>2. Append(toServer, r) \in Seq(AnyToServer)
  BY <1>1, AppendProperties
<1>3. QED
  BY <1>1, <1>2, OfAppend

\* The server takes a message: a query is refused, held or answered.
LEMMA TakeStays ==
  ASSUME Types, Take
  PROVE  Stays
<1> DEFINE m == Head(toServer)
<1> USE DEF Types
<1>1. /\ toServer # << >> /\ toServer' = Tail(toServer)
      /\ m \in AnyToServer
      /\ Tail(toServer) \in Seq(AnyToServer)
      /\ Of(toServer, "QUERY") = {} => Of(Tail(toServer), "QUERY") = {} /\ m.type # "QUERY"
      /\ \A n : Single(toServer, "QUERY", n) =>
           \/ m.type = "QUERY" /\ m.seqno = n /\ Of(Tail(toServer), "QUERY") = {}
           \/ m.type # "QUERY" /\ Single(Tail(toServer), "QUERY", n)
  BY OfTail DEF Take
<1>2. ASSUME NEW r \in AnyToClient
      PROVE  /\ Append(toClient, r) \in Seq(AnyToClient)
             /\ r.type # "RESULT" => Of(Append(toClient, r), "RESULT") = Of(toClient, "RESULT")
             /\ r.type # "RESULT" => \A n : Single(toClient, "RESULT", n)
                                              => Single(Append(toClient, r), "RESULT", n)
             /\ r.type = "RESULT" /\ Of(toClient, "RESULT") = {}
                  => Single(Append(toClient, r), "RESULT", r.seqno)
  BY SentToClient
<1> HIDE DEF m
<1> DEFINE Refused ==
             held' = held /\ SendToClient([type |-> "ERROR", status |-> 500])
<1>3. CASE m.type \in {"HELLO", "PING"} \/ (m.type = "QUERY" /\ Refused)
  <2>1. PICK r \in AnyToClient : r.type # "RESULT" /\ toClient' = Append(toClient, r) /\ held' = held
    <3>1. CASE m.type = "HELLO"
      <4>1. ServeHello
        BY <3>1 DEF Take, m
      <4>2. PICK r \in {[type |-> "COVERAGE"], [type |-> "ERROR", status |-> 500]} :
              toClient' = Append(toClient, r) /\ held' = held
        BY <4>1 DEF ServeHello, Refuse, CommandInvalid, SendToClient
      <4>3. QED
        BY <4>2 DEF AnyToClient
    <3>2. CASE m.type = "PING"
      <4>1. ServePing
        BY <3>2 DEF Take, m
      <4>2. QED
        BY <4>1 DEF ServePing, SendToClient, AnyToClient
    <3>3. CASE m.type = "QUERY"
      BY <1>3, <3>3 DEF SendToClient, AnyToClient
    <3>4. QED
      BY <1>3, <3>1, <3>2, <3>3
  <2>2. toClient' \in Seq(AnyToClient)
    BY <1>2, <2>1
  <2>3. /\ Of(toClient', "RESULT") = Of(toClient, "RESULT")
        /\ \A n : Single(toClient, "RESULT", n) => Single(toClient', "RESULT", n)
    BY <1>2, <2>1
  <2>4. QED
    BY <1>1, <2>1, <2>2, <2>3 DEF Stays, Quiet, UnderWay
<1>4. CASE m.type = "QUERY" /\ ~ Refused
  <2>1. m.seqno \in Nat
    BY <1>1, <1>4 DEF AnyToServer
  <2>2. ServeQuery(m.seqno, m.mask)
    BY <1>4 DEF Take, m
  <2>3. \/ toClient' = Append(toClient, [type |-> "RESULT", seqno |-> m.seqno]) /\ held' = held
        \/ held' = held \cup {m.seqno} /\ toClient' = toClient
    BY <1>4, <2>2 DEF ServeQuery, Refuse, CommandInvalid, SendToClient
  <2>4. [type |-> "RESULT", seqno |-> m.seqno] \in AnyToClient
    BY <2>1 DEF AnyToClient
  <2>5. CASE toClient' = Append(toClient, [type |-> "RESULT", seqno |-> m.seqno]) /\ held' = held
    <3>1. /\ toClient' \in Seq(AnyToClient)
          /\ Of(toClient, "RESULT") = {} => Single(toClient', "RESULT", m.seqno)
      BY <1>2, <2>4, <2>5
    <3>2. ASSUME NEW n \in Nat, UnderWay(n)
          PROVE  UnderWay(n)'
      BY <1>1, <1>4, <2>5, <3>1, <3>2 DEF Quiet, UnderWay
    <3>3. ~ Quiet /\ toServer' \in Seq(AnyToServer) /\ held' \subseteq Nat
      BY <1>1, <1>4, <2>5 DEF Quiet
    <3>4. QED
      BY <3>1, <3>2, <3>3 DEF Stays
  <2>6. CASE held' = held \cup {m.seqno} /\ toClient' = toClient
    <3>1. ASSUME NEW n \in Nat, UnderWay(n)
          PROVE  UnderWay(n)'
      BY <1>1, <1>4, <2>6, <3>1 DEF Quiet, UnderWay
    <3>2. /\ ~ Quiet /\ toServer' \in Seq(AnyToServer)
          /\ toClient' \in Seq(AnyToClient) /\ held' \subseteq Nat
      BY <1>1, <1>4, <2>1, <2>6 DEF Quiet
    <3>3. QED
      BY <3>1, <3>2 DEF Stays
  <2>7. QED
    BY <2>3, <2>5, <2>6
<1>5. m.type \in {"HELLO", "PING", "QUERY"}
  BY <1>1 DEF AnyToServer
<1>6. QED
  BY <1>3, <1>4, <1>5

\* A held query is answered, or its client is told or not that it is unknown.
LEMMA ServeHeldStays ==
  ASSUME Types, NEW k \in held, ServeHeld(k)
  PROVE  Stays
<1>1. k \in Nat /\ held' = held \ {k} /\ toServer' = toServer
  BY DEF ServeHeld, Types
<1>2. \/ toClient' = Append(toClient, [type |-> "RESULT", seqno |-> k])
      \/ toClient' = Append(toClient, [type |-> "ERROR", status |-> 500])
      \/ toClient' = toClient
  BY DEF ServeHeld, SendToClient, CommandInvalid
<1>3. /\ [type |-> "RESULT", seqno |-> k] \in AnyToClient
      /\ [type |-> "ERROR", status |-> 500] \in AnyToClient
  BY <1>1 DEF AnyToClient
<1>4. CASE toClient' = Append(toClient, [type |-> "RESULT", seqno |-> k])
  <2>1. /\ toClient' \in Seq(AnyToClient)
        /\ Of(toClient, "RESULT") = {} => Single(toClient', "RESULT", k)
    BY <1>3, <1>4, SentToClient
  <2>2. QED
    BY <1>1, <2>1 DEF Stays, Types, Quiet, UnderWay
<1>5. CASE toClient' = Append(toClient, [type |-> "ERROR", status |-> 500])
  <2>1. /\ toClient' \in Seq(AnyToClient)
        /\ Of(toClient', "RESULT") = Of(toClient, "RESULT")
    BY <1>3, <1>5, SentToClient
  <2>2. QED
    BY <1>1, <2>1 DEF Stays, Types, Quiet, UnderWay
<1>6. CASE toClient' = toClient
  BY <1>1, <1>6 DEF Stays, Types, Quiet, UnderWay
<1>7. QED
  BY <1>2, <1>4, <1>5, <1>6

\* A server that dies loses what it held and a part of each direction.
LEMMA CrashStays ==
  ASSUME Types, Crash
  PROVE  Stays
<1>1. PICK i \in 0 .. Len(toServer), j \in 0 .. Len(toClient) :
        /\ toServer' = SubSeq(toServer, i + 1, Len(toServer))
        /\ toClient' = SubSeq(toClient, 1, j)
  BY DEF Crash
<1>2. /\ toServer \in Seq(AnyToServer) /\ toClient \in Seq(AnyToClient)
      /\ Len(toServer) \in Nat /\ Len(toClient) \in Nat
  BY LenProperties DEF Types
<1>3. /\ toServer' \in Seq(AnyToServer)
      /\ Of(toServer, "QUERY") = {} => Of(toServer', "QUERY") = {}
      /\ \A n : Single(toServer, "QUERY", n) =>
                 Of(toServer', "QUERY") = {} \/ Single(toServer', "QUERY", n)
  <2>1. i + 1 \in 1 .. (Len(toServer) + 1) /\ Len(toServer) \in 0 .. Len(toServer)
    BY <1>2
  <2>2. QED
    BY <1>1, <1>2, <2>1, OfSubSeq
<1>4. /\ toClient' \in Seq(AnyToClient)
      /\ Of(toClient, "RESULT") = {} => Of(toClient', "RESULT") = {}
      /\ \A n : Single(toClient, "RESULT", n) =>
                 Of(toClient', "RESULT") = {} \/ Single(toClient', "RESULT", n)
  <2>1. 1 \in 1 .. (Len(toClient) + 1)
    BY <1>2
  <2>2. QED
    BY <1>1, <1>2, <2>1, OfSubSeq
<1>5. held' = {}
  BY DEF Crash
<1>6. QED
  BY <1>3, <1>4, <1>5 DEF Stays, Quiet, UnderWay

\* The other steps of the server and of the network.
LEMMA ServerStays ==
  ASSUME Types, Server \/ Crash \/ Restart \/ ContextExpires \/ InternalError
  PROVE  Stays /\ UNCHANGED clientVars
<1>1. CASE Take
  BY <1>1, TakeStays DEF Take
<1>2. CASE \E k \in held : ServeHeld(k)
  BY <1>2, ServeHeldStays DEF ServeHeld
<1>3. CASE Crash
  BY <1>3, CrashStays DEF Crash
<1>4. CASE Restart \/ ContextExpires
  BY <1>4 DEF Restart, ContextExpires, netVars, Stays, Types, Quiet, UnderWay
<1>5. CASE InternalError
  <2>1. toClient' = Append(toClient, [type |-> "ERROR", status |-> 502])
    BY <1>5 DEF InternalError, SendToClient
  <2>2. [type |-> "ERROR", status |-> 502] \in AnyToClient
    BY DEF AnyToClient
  <2>3. /\ toClient' \in Seq(AnyToClient)
        /\ Of(toClient', "RESULT") = Of(toClient, "RESULT")
        /\ \A n : Single(toClient, "RESULT", n) => Single(toClient', "RESULT", n)
    BY <2>1, <2>2, SentToClient
  <2>4. QED
    BY <1>5, <2>3 DEF InternalError, Stays, Types, Quiet, UnderWay
<1>6. QED
  BY <1>1, <1>2, <1>3, <1>4, <1>5 DEF Server

-----------------------------------------------------------------------------
(***************************************************************************)
(* The pipe and the phases, under steps that leave the rest of the client  *)
(* as it is.                                                               *)
(***************************************************************************)

\* The application, the pipe and the connection keep their phase when only the
\* query moves on.
LEMMA PhaseStays ==
  ASSUME Types, Stays, Phase,
         UNCHANGED <<call, commands, pipe, seqno, calls>>,
         state' = state \/ state' # "expect_coverage"
  PROVE  Phase'
<1>1. calls \in Nat /\ (Quiet => Quiet') /\ (UnderWay(calls) => UnderWay(calls)')
  BY DEF Types, Stays
<1>2. CASE Idle
  BY <1>1, <1>2 DEF Phase, Idle
<1>3. CASE Calling
  BY <1>1, <1>3 DEF Phase, Calling
<1>4. CASE Asking
  BY <1>1, <1>4 DEF Phase, Asking
<1>5. CASE Asked
  BY <1>1, <1>5 DEF Phase, Asked
<1>6. CASE Answered
  BY <1>1, <1>6 DEF Phase, Answered
<1>7. QED
  BY <1>2, <1>3, <1>4, <1>5, <1>6 DEF Phase

\* A reply is appended to the pipe.
LEMMA Replied ==
  ASSUME Types, NEW r \in AnyReply, pipe' = Append(pipe, r)
  PROVE  /\ pipe' \in Seq(AnyReply)
         /\ Len(pipe') = Len(pipe) + 1
         /\ \A i \in DOMAIN pipe' : \/ i \in DOMAIN pipe /\ pipe'[i] = pipe[i]
                                    \/ i = Len(pipe) + 1 /\ pipe'[i] = r
<1>1. pipe \in Seq(AnyReply)
  BY DEF Types
<1>2. /\ Len(pipe) \in Nat /\ DOMAIN pipe = 1 .. Len(pipe)
      /\ pipe' \in Seq(AnyReply) /\ Len(pipe') = Len(pipe) + 1
      /\ pipe'[Len(pipe) + 1] = r
      /\ \A i \in 1 .. Len(pipe) : pipe'[i] = pipe[i]
  BY <1>1, AppendProperties, LenProperties
<1>3. DOMAIN pipe' = 1 .. (Len(pipe) + 1)
  BY <1>2, LenProperties
<1>4. QED
  BY <1>2, <1>3

\* A reply that is no answer.
LEMMA RepliedNoResult ==
  ASSUME Types, PipeInv, Quiet => Quiet', UNCHANGED <<call, calls>>,
         NEW r \in AnyReply, r.reply # "RESULT", pipe' = Append(pipe, r)
  PROVE  PipeInv'
<1>1. \A i \in DOMAIN pipe' : \/ i \in DOMAIN pipe /\ pipe'[i] = pipe[i]
                              \/ pipe'[i] = r
  BY Replied
<1>2. QED
  BY <1>1 DEF PipeInv

\* The first reply is taken.
LEMMA ReplyTaken ==
  ASSUME Types, PipeInv, pipe # << >>, pipe' = Tail(pipe)
  PROVE  /\ pipe' \in Seq(AnyReply) /\ Head(pipe) = pipe[1] /\ 1 \in DOMAIN pipe
         /\ \A i \in DOMAIN pipe' : pipe'[i].reply # "RESULT"
         /\ Len(pipe) <= 1 => pipe' = << >>
<1>1. pipe \in Seq(AnyReply)
  BY DEF Types
<1>2. /\ Len(pipe) \in Nat \ {0} /\ DOMAIN pipe = 1 .. Len(pipe)
      /\ pipe' \in Seq(AnyReply) /\ Len(pipe') = Len(pipe) - 1
      /\ \A i \in 1 .. Len(pipe') : pipe'[i] = pipe[i + 1]
      /\ Head(pipe) = pipe[1]
  BY <1>1, HeadTailProperties, LenProperties, EmptySeq
<1>3. DOMAIN pipe' = 1 .. Len(pipe')
  BY <1>2, LenProperties
<1>4. \A i \in DOMAIN pipe' : i + 1 \in DOMAIN pipe /\ i + 1 # 1 /\ pipe'[i] = pipe[i + 1]
  BY <1>2, <1>3
<1>5. \A i \in DOMAIN pipe' : pipe'[i].reply # "RESULT"
  BY <1>4 DEF PipeInv
<1>6. Len(pipe) <= 1 => pipe' = << >>
  BY <1>2, EmptySeq
<1>7. QED
  BY <1>2, <1>5, <1>6

-----------------------------------------------------------------------------
(***************************************************************************)
(* Every step keeps the invariant.                                         *)
(***************************************************************************)

\* Initially nothing is under way.
LEMMA InitSession == Init => SessionInv
<1> SUFFICES ASSUME Init PROVE SessionInv
  OBVIOUS
<1> USE DEF Init, ClientInit
<1>1. \A t : Of(<< >>, t) = {}
  BY DEF Of
<1>2. Quiet
  BY <1>1 DEF Quiet
<1>3. Types
  <2>1. \A S : << >> \in Seq(S)
    BY EmptySeq
  <2>2. QED
    BY <2>1 DEF Types
<1>4. QED
  BY <1>2, <1>3 DEF SessionInv, PipeInv, Phase, Idle, UnderWay

\* The server and the network.
LEMMA ServerKeeps ==
  ASSUME SessionInv, Server \/ Crash \/ Restart \/ ContextExpires \/ InternalError
  PROVE  SessionInv'
<1>1. Types /\ Stays /\ UNCHANGED clientVars
  BY ServerStays DEF SessionInv
<1>2. UNCHANGED <<state, fsm_stopped, connected, seqno, commands, pipe, call, calls>>
  BY <1>1 DEF clientVars, actorVars, appVars
<1>3. Types'
  BY <1>1, <1>2 DEF Types, Stays
<1>4. PipeInv'
  BY <1>1, <1>2 DEF SessionInv, PipeInv, Stays
<1>5. ~ fsm_stopped' => Phase'
  BY <1>1, <1>2, PhaseStays DEF SessionInv
<1>6. QED
  BY <1>1, <1>3, <1>4, <1>5 DEF SessionInv, Stays

\* The application begins a call.
LEMMA ApplicationKeeps ==
  ASSUME SessionInv, Application, UNCHANGED serverVars
  PROVE  SessionInv'
<1> DEFINE Begins(method, c) ==
             /\ Invoke(method, c)
             /\ calls' = IF method = "query" THEN calls + 1 ELSE calls
             /\ c.method = CommandOf[method]
<1>1. PICK method \in {"say_hello", "query", "connected", "destroy"}, c \in Commands :
        Begins(method, c)
  <2>1. ASSUME NEW e \in Endpoints, SayHello(e)
        PROVE  /\ [method |-> "SAY HELLO", endpoint |-> e] \in Commands
               /\ Begins("say_hello", [method |-> "SAY HELLO", endpoint |-> e])
    BY <2>1 DEF SayHello, Commands, CommandOf
  <2>2. ASSUME NEW m \in Masks, NEW t \in Timeouts, Query(m, t)
        PROVE  /\ [method |-> "QUERY", mask |-> m, timeout |-> t] \in Commands
               /\ Begins("query", [method |-> "QUERY", mask |-> m, timeout |-> t])
    BY <2>2 DEF Query, Commands, CommandOf
  <2>3. ASSUME Connected
        PROVE  /\ [method |-> "$CONNECTED"] \in Commands
               /\ Begins("connected", [method |-> "$CONNECTED"])
    BY <2>3 DEF Connected, Commands, CommandOf
  <2>4. ASSUME Destroy
        PROVE  /\ [method |-> "$TERM"] \in Commands
               /\ Begins("destroy", [method |-> "$TERM"])
    BY <2>4 DEF Destroy, Commands, CommandOf
  <2>5. QED
    BY <2>1, <2>2, <2>3, <2>4 DEF Application
<1>2. /\ call = "idle" /\ call' = method /\ commands' = Append(commands, c)
      /\ UNCHANGED <<state, fsm_stopped, connected, seqno, pipe, toServer, toClient, held>>
  BY <1>1 DEF Invoke, actorVars, netVars, serverVars
<1>3. /\ commands \in Seq(Commands) /\ commands' \in Seq(Commands)
      /\ calls \in Nat /\ calls' \in Nat
  <2>1. commands \in Seq(Commands) /\ calls \in Nat
    BY DEF SessionInv, Types
  <2>2. commands' \in Seq(Commands)
    BY <1>2, <2>1, AppendProperties
  <2>3. calls' \in Nat
    BY <1>1, <2>1
  <2>4. QED
    BY <2>1, <2>2, <2>3
<1>4. Types'
  BY <1>2, <1>3 DEF SessionInv, Types
<1>5. (Quiet => Quiet') /\ \A n : UnderWay(n) => UnderWay(n)'
  BY <1>2 DEF Quiet, UnderWay
<1>6. PipeInv'
  BY <1>2 DEF SessionInv, PipeInv
<1>7. ASSUME ~ fsm_stopped'
      PROVE  Phase'
  <2>1. Idle
    BY <1>2, <1>7 DEF SessionInv, Phase, Idle, Calling, Asking, Asked, Answered
  <2>2. Len(commands') = 1 /\ commands'[1] = c
    BY <1>2, <1>3, <2>1, AppendProperties, EmptySeq DEF Idle
  <2>3. CASE method = "query"
    BY <1>1, <1>2, <1>3, <1>5, <2>1, <2>2, <2>3 DEF Phase, Idle, Asking, Types, CommandOf
  <2>4. CASE method # "query"
    <3>1. /\ pipe' = << >> /\ Quiet' /\ seqno' = calls' /\ state' # "expect_coverage"
          /\ call' \in {"say_hello", "connected", "destroy"}
      BY <1>1, <1>2, <1>5, <2>1, <2>4 DEF Idle
    <3>2. c.method = CommandOf[call']
      BY <1>1, <1>2, <2>4
    <3>3. \A i \in DOMAIN pipe' : pipe'[i].reply # "RESULT"
      BY <3>1
    <3>4. QED
      BY <2>2, <3>1, <3>2, <3>3 DEF Phase, Calling
  <2>5. QED
    BY <2>3, <2>4
<1>8. QED
  BY <1>4, <1>5, <1>6, <1>7 DEF SessionInv

\* A call takes a reply, or ends.
LEMMA WaitingKeeps ==
  ASSUME SessionInv, Waiting, UNCHANGED serverVars
  PROVE  SessionInv'
<1>1. /\ UNCHANGED <<state, fsm_stopped, connected, seqno, commands, calls>>
      /\ UNCHANGED <<toServer, toClient, held>>
  BY DEF Waiting, AcceptReply, ReadFlag, Destroyed, actorVars, netVars, serverVars
<1>2. (Quiet => Quiet') /\ \A n : UnderWay(n) => UnderWay(n)'
  BY <1>1 DEF Quiet, UnderWay
<1>3. CASE AcceptReply \/ ReadFlag
  <2>1. /\ pipe # << >> /\ pipe' = Tail(pipe)
        /\ call \in {"say_hello", "query", "connected"}
        /\ call' \in {call, "idle"}
        /\ call' # "idle" => Head(pipe).reply \notin Accepted[call]
    BY <1>3 DEF AcceptReply, ReadFlag
  <2>2. /\ pipe' \in Seq(AnyReply) /\ Head(pipe) = pipe[1] /\ 1 \in DOMAIN pipe
        /\ \A i \in DOMAIN pipe' : pipe'[i].reply # "RESULT"
        /\ Len(pipe) <= 1 => pipe' = << >>
    BY <2>1, ReplyTaken DEF SessionInv
  <2>3. Types'
    BY <1>1, <2>2 DEF SessionInv, Types
  <2>4. PipeInv'
    BY <2>2 DEF PipeInv
  <2>5. ASSUME ~ fsm_stopped'
        PROVE  Phase'
    <3>1. Phase
      BY <1>1, <2>5 DEF SessionInv
    <3>2. CASE Calling
      <4>1. /\ commands = << >> /\ Len(pipe) <= 1
            /\ state # "expect_coverage"
        BY <2>1, <3>2 DEF Calling
      <4>2. CASE call' = "idle"
        BY <1>1, <1>2, <2>2, <3>2, <4>1, <4>2 DEF Calling, Phase, Idle
      <4>3. CASE call' # "idle"
        BY <1>1, <1>2, <2>1, <2>2, <3>2, <4>1, <4>3, EmptySeq DEF Calling, Phase
      <4>4. QED
        BY <4>2, <4>3
    <3>3. CASE Answered
      <4>1. pipe' = << >> /\ commands = << >> /\ Quiet /\ call = "query"
        BY <2>2, <3>3 DEF Answered
      <4>2. CASE call' = "idle"
        BY <1>1, <1>2, <3>3, <4>1, <4>2 DEF Answered, Phase, Idle
      <4>3. CASE call' # "idle"
        BY <1>1, <1>2, <2>1, <3>3, <4>1, <4>3 DEF Answered, Phase, Asked, UnderWay
      <4>4. QED
        BY <4>2, <4>3
    <3>4. QED
      BY <2>1, <3>1, <3>2, <3>3 DEF Phase, Idle, Asking, Asked
  <2>6. QED
    BY <1>2, <2>3, <2>4, <2>5 DEF SessionInv
<1>4. CASE Destroyed
  <2>1. call = "destroy" /\ call' = "gone" /\ UNCHANGED pipe
    BY <1>4 DEF Destroyed
  <2>2. Types'
    BY <1>1, <2>1 DEF SessionInv, Types
  <2>3. PipeInv'
    BY <2>1 DEF SessionInv, PipeInv
  <2>4. ASSUME ~ fsm_stopped'
        PROVE  Phase'
    <3>1. Calling
      BY <1>1, <2>1, <2>4 DEF SessionInv, Phase, Idle, Asking, Asked, Answered
    <3>2. QED
      BY <1>1, <1>2, <2>1, <3>1 DEF Calling, Phase, CommandOf
  <2>5. QED
    BY <1>2, <2>2, <2>3, <2>4 DEF SessionInv
<1>5. QED
  BY <1>3, <1>4 DEF Waiting

\* A command is taken from the pipe.
LEMMA CommandTaken ==
  ASSUME Types, commands # << >>, commands' = Tail(commands)
  PROVE  /\ commands' \in Seq(Commands)
         /\ Head(commands) \in Commands /\ Head(commands) = commands[1]
         /\ Len(commands) = 1 => commands' = << >>
<1>1. commands \in Seq(Commands)
  BY DEF Types
<1>2. /\ Head(commands) \in Commands /\ commands' \in Seq(Commands)
      /\ Len(commands') = Len(commands) - 1 /\ Len(commands) \in Nat
      /\ Head(commands) = commands[1]
  BY <1>1, HeadTailProperties, LenProperties
<1>3. QED
  BY <1>2, EmptySeq

\* An empty pipe.
LEMMA EmptyPipe == DOMAIN << >> = {} /\ Len(<< >>) = 0
OBVIOUS

\* HELLO and PING are no queries.
LEMMA BeatSent ==
  ASSUME Types, UNCHANGED <<held, toClient>>,
         \/ toServer' = toServer
         \/ \E t \in {"HELLO", "PING"} : toServer' = Append(toServer, [type |-> t])
  PROVE  Stays
<1>1. CASE toServer' = toServer
  BY <1>1 DEF Stays, Types, Quiet, UnderWay
<1>2. ASSUME NEW t \in {"HELLO", "PING"}, toServer' = Append(toServer, [type |-> t])
      PROVE  Stays
  <2>1. [type |-> t] \in AnyToServer /\ [type |-> t].type # "QUERY"
    BY DEF AnyToServer
  <2>2. /\ toServer' \in Seq(AnyToServer)
        /\ Of(toServer', "QUERY") = Of(toServer, "QUERY")
        /\ \A n : Single(toServer, "QUERY", n) => Single(toServer', "QUERY", n)
    BY <1>2, <2>1, SentToServer
  <2>3. QED
    BY <2>2 DEF Stays, Types, Quiet, UnderWay
<1>3. QED
  BY <1>1, <1>2

\* A command, when the state machine has stopped: it is dropped, or it is
\* $CONNECTED, which is answered outside of the state machine, or $TERM.
LEMMA CmdpipeStopped ==
  ASSUME SessionInv, HandleCmdpipe, UNCHANGED serverVars, fsm_stopped
  PROVE  SessionInv'
<1>1. /\ commands # << >> /\ commands' = Tail(commands)
      /\ UNCHANGED <<fsm_stopped, connected, seqno, call, calls, toServer, toClient, held>>
      /\ \/ pipe' = pipe
         \/ pipe' = Append(pipe, [reply |-> "flag", value |-> connected])
  BY DEF HandleCmdpipe, Ignore, Reply, actorVars, serverVars
<1>2. Types /\ PipeInv
  BY DEF SessionInv
<1>3. commands' \in Seq(Commands)
  BY <1>1, <1>2, CommandTaken
<1>4. (Quiet => Quiet') /\ \A n : UnderWay(n) => UnderWay(n)'
  BY <1>1 DEF Quiet, UnderWay
<1>5. pipe' \in Seq(AnyReply) /\ PipeInv'
  <2>1. CASE pipe' = pipe
    BY <1>1, <1>2, <1>4, <2>1 DEF Types, PipeInv
  <2>2. CASE pipe' = Append(pipe, [reply |-> "flag", value |-> connected])
    <3>1. [reply |-> "flag", value |-> connected] \in AnyReply
      BY <1>2 DEF Types, AnyReply
    <3>2. QED
      BY <1>1, <1>2, <1>4, <2>2, <3>1, Replied, RepliedNoResult
  <2>3. QED
    BY <1>1, <2>1, <2>2
<1>6. Types'
  BY <1>1, <1>2, <1>3, <1>5 DEF Types
<1>7. QED
  BY <1>1, <1>4, <1>5, <1>6 DEF SessionInv

\* A reply that tells of no answer, when the state machine stops with it.
LEMMA StopsWithReply ==
  ASSUME SessionInv, Unexpected, UNCHANGED <<call, calls>>, Stays,
         commands' \in Seq(Commands)
  PROVE  SessionInv'
<1>1. /\ pipe' = Append(pipe, [reply |-> "FAILURE"]) /\ fsm_stopped'
      /\ fsm_stopped' \in BOOLEAN /\ UNCHANGED <<connected, seqno>>
  BY DEF Unexpected, SignalInternalError, Reply
<1>2. [reply |-> "FAILURE"] \in AnyReply
  BY DEF AnyReply
<1>3. pipe' \in Seq(AnyReply) /\ PipeInv'
  BY <1>1, <1>2, Replied, RepliedNoResult DEF SessionInv, Stays
<1>4. Types'
  BY <1>1, <1>3 DEF SessionInv, Types, Stays
<1>5. QED
  BY <1>1, <1>3, <1>4 DEF SessionInv, Stays

\* A command, when the state machine runs.
LEMMA CmdpipeRunning ==
  ASSUME SessionInv, HandleCmdpipe, UNCHANGED serverVars, ~ fsm_stopped
  PROVE  SessionInv'
<1> DEFINE c == Head(commands)
<1>1. /\ commands # << >> /\ commands' = Tail(commands)
      /\ UNCHANGED <<call, calls, toClient, held>>
  BY DEF HandleCmdpipe, serverVars
<1>2. Types /\ PipeInv /\ Phase
  BY DEF SessionInv
<1>3. /\ commands' \in Seq(Commands) /\ c = commands[1]
      /\ Len(commands) = 1 => commands' = << >>
  BY <1>1, <1>2, CommandTaken
<1>4. /\ \/ Calling /\ c.method # "QUERY" /\ (c.method = "SAY HELLO" => call = "say_hello")
         \/ Asking /\ c.method = "QUERY"
      /\ pipe = << >> /\ commands' = << >> /\ Quiet
      /\ state # "expect_coverage"
  <2>1. Calling \/ Asking
    BY <1>1, <1>2 DEF Phase, Idle, Asked, Answered
  <2>2. CASE Calling
    <3>1. \A x \in {"say_hello", "connected", "destroy", "gone"} :
            CommandOf[x] # "QUERY" /\ (CommandOf[x] = "SAY HELLO" => x = "say_hello")
      <4>1. /\ CommandOf["say_hello"] = "SAY HELLO"
            /\ CommandOf["connected"] = "$CONNECTED"
            /\ CommandOf["destroy"] = "$TERM"
            /\ CommandOf["gone"] = "$TERM"
        BY DEF CommandOf
      <4>2. QED
        BY <4>1
    <3>2. /\ call \in {"say_hello", "connected", "destroy", "gone"}
          /\ c.method = CommandOf[call] /\ Len(commands) = 1
          /\ pipe = << >> /\ Quiet /\ state # "expect_coverage"
      BY <1>1, <1>3, <2>2 DEF Calling
    <3>3. QED
      BY <1>3, <2>2, <3>1, <3>2
  <2>3. CASE Asking
    BY <1>3, <2>3 DEF Asking
  <2>4. QED
    BY <2>1, <2>2, <2>3
<1>5. CASE c.method = "SAY HELLO"
  <2>1. ExecuteSayHello(c.endpoint)
    BY <1>5 DEF HandleCmdpipe, Ignore
  <2>2. /\ Calling /\ call = "say_hello"
    BY <1>4, <1>5
  <2>3. UNCHANGED <<connected, seqno, pipe>>
    BY <2>1 DEF ExecuteSayHello
  <2>4. /\ \/ toServer' = toServer
           \/ \E t \in {"HELLO", "PING"} : toServer' = Append(toServer, [type |-> t])
        /\ \/ fsm_stopped' = TRUE
           \/ fsm_stopped' = fsm_stopped
    BY <2>1 DEF ExecuteSayHello, SendToServer
  <2>5. Stays
    BY <1>1, <1>2, <2>4, BeatSent
  <2>6. Types'
    BY <1>1, <1>2, <1>3, <2>3, <2>4, <2>5 DEF Types, Stays
  <2>7. PipeInv'
    BY <1>4, <2>3, EmptyPipe DEF PipeInv
  <2>8. Phase'
    BY <1>1, <1>4, <2>2, <2>3, <2>5, EmptySeq DEF Phase, Calling, Stays
  <2>9. QED
    BY <2>5, <2>6, <2>7, <2>8 DEF SessionInv, Stays
<1>6. CASE c.method = "QUERY"
  <2>1. ExecuteQuery(c.mask)
    BY <1>6 DEF HandleCmdpipe, Ignore
  <2>2. Asking
    BY <1>4, <1>6
  <2>3. CASE state = "connected"
    <3>1. /\ toServer' = Append(toServer, [type |-> "QUERY", seqno |-> seqno + 1, mask |-> c.mask])
          /\ seqno' = seqno + 1
          /\ UNCHANGED <<state, fsm_stopped, connected, pipe>>
      BY <2>1, <2>3 DEF ExecuteQuery, SetQuery, SendToServer, Unexpected
    <3>2. c.mask \in Masks /\ seqno + 1 \in Nat /\ seqno + 1 = calls
      BY <1>1, <1>2, <1>6, <2>2, CommandTaken DEF Commands, Types, Asking
    <3>3. [type |-> "QUERY", seqno |-> seqno + 1, mask |-> c.mask] \in AnyToServer
      BY <3>2 DEF AnyToServer
    <3>4. /\ toServer' \in Seq(AnyToServer)
          /\ Single(toServer', "QUERY", calls)
      BY <1>2, <1>4, <3>1, <3>2, <3>3, SentToServer DEF Quiet
    <3>5. Types'
      BY <1>1, <1>2, <1>3, <3>1, <3>2, <3>4 DEF Types
    <3>6. UnderWay(calls)' /\ calls \in Nat
      BY <1>1, <1>2, <1>4, <3>4 DEF UnderWay, Quiet, Types
    <3>7. PipeInv'
      BY <1>4, <3>1, EmptyPipe DEF PipeInv
    <3>8. Phase'
      BY <1>1, <1>4, <2>2, <3>1, <3>2, <3>6 DEF Phase, Asking, Asked
    <3>9. QED
      BY <1>1, <3>5, <3>6, <3>7, <3>8 DEF SessionInv
  <2>4. CASE state # "connected"
    <3>1. Unexpected /\ UNCHANGED toServer
      BY <2>1, <2>4 DEF ExecuteQuery
    <3>2. Stays
      BY <1>1, <1>2, <3>1, BeatSent
    <3>3. QED
      BY <1>1, <1>3, <3>1, <3>2, StopsWithReply
  <2>5. QED
    BY <2>3, <2>4
<1>7. CASE c.method = "$CONNECTED" \/ c.method = "$TERM"
  <2>1. /\ UNCHANGED <<state, fsm_stopped, connected, seqno, toServer>>
        /\ \/ pipe' = pipe
           \/ pipe' = Append(pipe, [reply |-> "flag", value |-> connected])
    BY <1>7 DEF HandleCmdpipe, Reply, actorVars
  <2>2. Calling
    BY <1>4, <1>7
  <2>3. Stays
    BY <1>1, <1>2, <2>1, BeatSent
  <2>4. /\ pipe' \in Seq(AnyReply) /\ Len(pipe') <= 1
        /\ \A i \in DOMAIN pipe' : pipe'[i].reply # "RESULT"
    <3>1. CASE pipe' = pipe
      <4>1. pipe' = << >> /\ pipe' \in Seq(AnyReply)
        BY <1>2, <1>4, <3>1 DEF Types
      <4>2. QED
        BY <4>1, EmptyPipe
    <3>2. CASE pipe' = Append(pipe, [reply |-> "flag", value |-> connected])
      <4>1. /\ [reply |-> "flag", value |-> connected] \in AnyReply
            /\ Len(pipe) = 0
        BY <1>2, <1>4, EmptySeq DEF Types, AnyReply
      <4>2. /\ pipe' \in Seq(AnyReply) /\ Len(pipe') = 1
            /\ \A i \in DOMAIN pipe' : \/ i \in DOMAIN pipe
                                       \/ pipe'[i] = [reply |-> "flag", value |-> connected]
        BY <1>2, <3>2, <4>1, Replied
      <4>3. pipe = << >>
        BY <1>4
      <4>4. \A i \in DOMAIN pipe' : pipe'[i] = [reply |-> "flag", value |-> connected]
        BY <4>2, <4>3, EmptyPipe
      <4>5. QED
        BY <4>2, <4>4
    <3>3. QED
      BY <2>1, <3>1, <3>2
  <2>5. Types'
    BY <1>1, <1>2, <1>3, <2>1, <2>4, <2>3 DEF Types, Stays
  <2>6. PipeInv'
    BY <2>4 DEF PipeInv
  <2>7. Phase'
    BY <1>1, <1>4, <2>1, <2>2, <2>3, <2>4 DEF Phase, Calling, Stays
  <2>8. QED
    BY <2>3, <2>5, <2>6, <2>7 DEF SessionInv, Stays
<1>8. QED
  BY <1>5, <1>6, <1>7 DEF HandleCmdpipe

\* A message is taken from the connection; at most HELLO is sent.  If it is a
\* RESULT it is the one answer, and nothing is under way after it.
LEMMA MessageTaken ==
  ASSUME Types, toClient # << >>, toClient' = Tail(toClient), UNCHANGED held,
         \/ toServer' = toServer
         \/ toServer' = Append(toServer, [type |-> "HELLO"])
  PROVE  /\ Stays
         /\ Head(toClient) \in AnyToClient
         /\ Head(toClient).type = "RESULT" =>
              /\ ~ Quiet
              /\ \A n \in Nat : UnderWay(n) => Head(toClient).seqno = n /\ Quiet'
<1>1. /\ toClient' \in Seq(AnyToClient) /\ Head(toClient) \in AnyToClient
      /\ Of(toClient, "RESULT") = {} =>
           Of(toClient', "RESULT") = {} /\ Head(toClient).type # "RESULT"
      /\ \A n : Single(toClient, "RESULT", n) =>
           \/ /\ Head(toClient).type = "RESULT" /\ Head(toClient).seqno = n
              /\ Of(toClient', "RESULT") = {}
           \/ Head(toClient).type # "RESULT" /\ Single(toClient', "RESULT", n)
  <2>1. toClient \in Seq(AnyToClient)
    BY DEF Types
  <2>2. QED
    BY <2>1, OfTail
<1>2. /\ toServer' \in Seq(AnyToServer)
      /\ Of(toServer', "QUERY") = Of(toServer, "QUERY")
      /\ \A n : Single(toServer, "QUERY", n) => Single(toServer', "QUERY", n)
  <2>1. CASE toServer' = toServer
    BY <2>1 DEF Types
  <2>2. CASE toServer' = Append(toServer, [type |-> "HELLO"])
    <3>1. [type |-> "HELLO"] \in AnyToServer /\ [type |-> "HELLO"].type # "QUERY"
      BY DEF AnyToServer
    <3>2. QED
      BY <2>2, <3>1, SentToServer
  <2>3. QED
    BY <2>1, <2>2
<1>3. Stays
  BY <1>1, <1>2 DEF Stays, Types, Quiet, UnderWay
<1>4. ASSUME Head(toClient).type = "RESULT"
      PROVE  /\ ~ Quiet
             /\ \A n \in Nat : UnderWay(n) => Head(toClient).seqno = n /\ Quiet'
  BY <1>1, <1>2, <1>4 DEF Quiet, UnderWay
<1>5. QED
  BY <1>1, <1>3, <1>4

\* A message from the server, when the state machine has stopped.
LEMMA ProtocolStopped ==
  ASSUME SessionInv, HandleProtocol, UNCHANGED serverVars, fsm_stopped
  PROVE  SessionInv'
<1>1. /\ toClient # << >> /\ toClient' = Tail(toClient)
      /\ UNCHANGED <<fsm_stopped, connected, seqno, pipe, toServer>>
      /\ UNCHANGED <<commands, call, calls, held>>
  BY DEF HandleProtocol, Ignore, appVars, serverVars
<1>2. Stays
  BY <1>1, MessageTaken DEF SessionInv
<1>3. Types'
  BY <1>1, <1>2 DEF SessionInv, Types, Stays
<1>4. PipeInv'
  BY <1>1, <1>2 DEF SessionInv, PipeInv, Stays
<1>5. QED
  BY <1>1, <1>2, <1>3, <1>4 DEF SessionInv, Stays

\* A message from the server, when the state machine runs.
LEMMA ProtocolRunning ==
  ASSUME SessionInv, HandleProtocol, UNCHANGED serverVars, ~ fsm_stopped
  PROVE  SessionInv'
<1> DEFINE m == Head(toClient)
<1>1. /\ toClient # << >> /\ toClient' = Tail(toClient)
      /\ UNCHANGED <<commands, call, calls, held>>
  BY DEF HandleProtocol, appVars, serverVars
<1>2. Types /\ PipeInv /\ Phase /\ commands' \in Seq(Commands)
  BY <1>1 DEF SessionInv, Types
<1>3. \/ m.type = "COVERAGE" /\ ExecuteCoverage
      \/ m.type = "RESULT" /\ ExecuteResult(m.seqno)
      \/ m.type = "PONG" /\ ExecutePong
      \/ m.type = "ERROR" /\ ExecuteError(m.status)
  BY DEF HandleProtocol, Ignore
<1>4. \/ toServer' = toServer
      \/ toServer' = Append(toServer, [type |-> "HELLO"])
  BY <1>3 DEF ExecuteCoverage, ExecuteResult, ExecutePong, ExecuteError, SendToServer
<1>5. /\ Stays
      /\ m \in AnyToClient
      /\ m.type = "RESULT" =>
           ~ Quiet /\ \A n \in Nat : UnderWay(n) => m.seqno = n /\ Quiet'
  BY <1>1, <1>2, <1>4, MessageTaken
<1> HIDE DEF m
<1>6. CASE m.type = "COVERAGE" /\ ExecuteCoverage
  <2>1. CASE state = "expect_coverage"
    <3>1. /\ pipe' = Append(pipe, [reply |-> "CONNECTED"]) /\ state' = "connected"
          /\ connected' = TRUE /\ UNCHANGED <<fsm_stopped, seqno>>
      BY <1>6, <2>1 DEF ExecuteCoverage, SignalConnected, Reply, ClientIsConnected, Unexpected
    <3>2. /\ Calling /\ pipe = << >> /\ commands = << >>
      BY <1>2, <2>1 DEF Phase, Idle, Calling, Asking, Asked, Answered
    <3>3. [reply |-> "CONNECTED"] \in AnyReply
      BY DEF AnyReply
    <3>4. /\ pipe' \in Seq(AnyReply) /\ Len(pipe') = Len(pipe) + 1
          /\ \A i \in DOMAIN pipe' : \/ i \in DOMAIN pipe
                                     \/ pipe'[i] = [reply |-> "CONNECTED"]
      BY <1>2, <3>1, <3>3, Replied
    <3>5. Len(pipe') = 1 /\ \A i \in DOMAIN pipe' : pipe'[i].reply # "RESULT"
      BY <3>2, <3>4, EmptyPipe
    <3>6. Types'
      BY <1>1, <1>2, <1>5, <3>1, <3>4 DEF Types, Stays
    <3>7. PipeInv'
      BY <3>5 DEF PipeInv
    <3>8. Phase'
      BY <1>1, <1>5, <3>1, <3>2, <3>5 DEF Phase, Calling, Stays
    <3>9. QED
      BY <1>5, <3>6, <3>7, <3>8 DEF SessionInv, Stays
  <2>2. CASE state # "expect_coverage"
    BY <1>1, <1>2, <1>5, <1>6, <2>2, StopsWithReply DEF ExecuteCoverage
  <2>3. QED
    BY <2>1, <2>2
<1>7. CASE m.type = "RESULT" /\ ExecuteResult(m.seqno)
  <2>1. CASE state = "connected"
    <3>1. /\ pipe' = Append(pipe, [reply |-> "RESULT", seqno |-> m.seqno])
          /\ UNCHANGED <<state, fsm_stopped, connected, seqno>>
      BY <1>7, <2>1 DEF ExecuteResult, SignalResult, Reply, Unexpected
    <3>2. Asked /\ calls \in Nat
      BY <1>2, <1>5, <1>7 DEF Phase, Idle, Calling, Asking, Answered, Types
    <3>3. m.seqno = calls /\ Quiet'
      BY <1>5, <1>7, <3>2 DEF Asked
    <3>4. [reply |-> "RESULT", seqno |-> m.seqno] \in AnyReply
      BY <3>2, <3>3 DEF AnyReply
    <3>5. /\ pipe' \in Seq(AnyReply) /\ Len(pipe') = Len(pipe) + 1
          /\ \A i \in DOMAIN pipe' :
               \/ i \in DOMAIN pipe
               \/ i = Len(pipe) + 1 /\ pipe'[i] = [reply |-> "RESULT", seqno |-> m.seqno]
      BY <1>2, <3>1, <3>4, Replied
    <3>6. /\ Len(pipe') = 1
          /\ \A i \in DOMAIN pipe' :
               i = 1 /\ pipe'[i] = [reply |-> "RESULT", seqno |-> m.seqno]
      <4>1. pipe = << >>
        BY <3>2 DEF Asked
      <4>2. QED
        BY <3>5, <4>1, EmptyPipe
    <3>7. Types'
      BY <1>1, <1>2, <1>5, <3>1, <3>5 DEF Types, Stays
    <3>8. PipeInv'
      BY <1>1, <3>2, <3>3, <3>6 DEF PipeInv, Asked
    <3>9. Phase'
      BY <1>1, <3>1, <3>2, <3>3, <3>6 DEF Phase, Asked, Answered
    <3>10. QED
      BY <1>5, <3>7, <3>8, <3>9 DEF SessionInv, Stays
  <2>2. CASE state # "connected"
    BY <1>1, <1>2, <1>5, <1>7, <2>2, StopsWithReply DEF ExecuteResult
  <2>3. QED
    BY <2>1, <2>2
<1>8. CASE \/ m.type = "PONG" /\ ExecutePong
           \/ m.type = "ERROR" /\ ExecuteError(m.status)
  <2>1. /\ UNCHANGED <<seqno, pipe>>
        /\ connected' \in BOOLEAN /\ fsm_stopped' \in BOOLEAN
        /\ state' = state \/ state' # "expect_coverage"
    BY <1>2, <1>8 DEF ExecutePong, ExecuteError, ClientIsConnected, Types
  <2>2. Types'
    BY <1>1, <1>2, <1>5, <2>1 DEF Types, Stays
  <2>3. PipeInv'
    BY <1>1, <1>2, <1>5, <2>1 DEF PipeInv, Stays
  <2>4. Phase'
    BY <1>1, <1>2, <1>5, <2>1, PhaseStays
  <2>5. QED
    BY <1>5, <2>2, <2>3, <2>4 DEF SessionInv, Stays
<1>9. QED
  BY <1>3, <1>6, <1>7, <1>8

\* The timer expires: PING, or nothing any more.
LEMMA ExpiryKeeps ==
  ASSUME SessionInv, HandleExpiry, UNCHANGED serverVars
  PROVE  SessionInv'
<1>1. /\ UNCHANGED <<commands, call, calls, held, toClient, state, seqno, pipe, fsm_stopped>>
      /\ connected' \in {connected, FALSE}
      /\ \/ toServer' = toServer
         \/ \E t \in {"HELLO", "PING"} : toServer' = Append(toServer, [type |-> t])
  BY DEF HandleExpiry, ExecuteExpired, GiveUp, SendToServer, appVars, serverVars
<1>2. Types /\ PipeInv
  BY DEF SessionInv
<1>3. Stays
  BY <1>1, <1>2, BeatSent
<1>4. Types'
  BY <1>1, <1>2, <1>3 DEF Types, Stays
<1>5. PipeInv'
  BY <1>1, <1>2, <1>3 DEF PipeInv, Stays
<1>6. ~ fsm_stopped' => Phase'
  BY <1>1, <1>2, <1>3, PhaseStays DEF SessionInv
<1>7. QED
  BY <1>3, <1>4, <1>5, <1>6 DEF SessionInv, Stays

\* A step in which nothing changes.
LEMMA StutterKeeps ==
  ASSUME SessionInv, UNCHANGED vars
  PROVE  SessionInv'
<1>1. /\ UNCHANGED <<state, fsm_stopped, connected, seqno, commands, pipe, call, calls>>
      /\ UNCHANGED <<toServer, toClient, held>>
  BY DEF vars, clientVars, actorVars, appVars, netVars, serverVars
<1>2. (Quiet' <=> Quiet) /\ \A n : UnderWay(n)' <=> UnderWay(n)
  BY <1>1 DEF Quiet, UnderWay
<1>3. Types' /\ PipeInv'
  BY <1>1, <1>2 DEF SessionInv, Types, PipeInv
<1>4. Phase => Phase'
  BY <1>1, <1>2 DEF Phase, Idle, Calling, Asking, Asked, Answered
<1>5. QED
  BY <1>1, <1>2, <1>3, <1>4 DEF SessionInv

\* Every step of the specification.
LEMMA StepKeeps == SessionInv /\ [Next]_vars => SessionInv'
<1> SUFFICES ASSUME SessionInv, [Next]_vars PROVE SessionInv'
  OBVIOUS
<1>1. CASE ClientNext /\ UNCHANGED serverVars
  <2>1. CASE Application
    BY <1>1, <2>1, ApplicationKeeps
  <2>2. CASE Waiting
    BY <1>1, <2>2, WaitingKeeps
  <2>3. CASE HandleCmdpipe
    BY <1>1, <2>3, CmdpipeStopped, CmdpipeRunning
  <2>4. CASE HandleProtocol
    BY <1>1, <2>4, ProtocolStopped, ProtocolRunning
  <2>5. CASE HandleExpiry
    BY <1>1, <2>5, ExpiryKeeps
  <2>6. QED
    BY <1>1, <2>1, <2>2, <2>3, <2>4, <2>5 DEF ClientNext
<1>2. CASE Server \/ Crash \/ Restart \/ ContextExpires \/ InternalError
  BY <1>2, ServerKeeps
<1>3. CASE UNCHANGED vars
  BY <1>3, StutterKeeps
<1>4. QED
  BY <1>1, <1>2, <1>3 DEF Next

\* The invariant holds throughout.
LEMMA SessionInvariant == Spec => []SessionInv
<1>1. QED
  BY InitSession, StepKeeps, PTL DEF Spec

-----------------------------------------------------------------------------
(***************************************************************************)
(* Theorems.                                                               *)
(***************************************************************************)

\* What the invariant says of the number of queries outstanding.
LEMMA InvOutstanding == SessionInv => OneOutstanding
<1> SUFFICES ASSUME SessionInv PROVE OneOutstanding
  OBVIOUS
<1>1. /\ QueriesSent = Of(toServer, "QUERY")
      /\ ResultsSent = Of(toClient, "RESULT")
  BY DEF QueriesSent, ResultsSent, Of
<1>2. Cardinality({}) = 0 /\ \A x : Cardinality({x}) = 1
  BY FS_EmptySet, FS_Singleton
<1>3. CASE Quiet
  <2>1. /\ Cardinality(QueriesSent) = 0 /\ Cardinality(held) = 0
        /\ Cardinality(ResultsSent) = 0
    BY <1>1, <1>2, <1>3 DEF Quiet
  <2>2. ResultsReplied = {} \/ (ResultsReplied = {1} /\ call = "query")
    BY DEF ResultsReplied, SessionInv, PipeInv
  <2>3. \/ Cardinality(ResultsReplied) = 0
        \/ Cardinality(ResultsReplied) = 1 /\ call = "query"
    BY <1>2, <2>2, Zenon
  <2>4. QED
    BY <2>1, <2>3 DEF OneOutstanding, Outstanding
<1>4. CASE ~ Quiet
  <2>1. ResultsReplied = {}
    BY <1>4 DEF ResultsReplied, SessionInv, PipeInv
  <2>2. PICK n \in Nat : UnderWay(n)
    BY DEF SessionInv
  <2>3. Cardinality(QueriesSent) + Cardinality(held) + Cardinality(ResultsSent) = 1
    <3>1. CASE Single(toServer, "QUERY", n) /\ held = {} /\ Of(toClient, "RESULT") = {}
      <4>1. PICK i : Of(toServer, "QUERY") = {i}
        BY <3>1 DEF Single
      <4>2. QED
        <5>1. /\ Cardinality(QueriesSent) = 1 /\ Cardinality(held) = 0
              /\ Cardinality(ResultsSent) = 0
          BY <1>1, <1>2, <3>1, <4>1, Zenon
        <5>2. QED
          BY <5>1
    <3>2. CASE held = {n} /\ Of(toServer, "QUERY") = {} /\ Of(toClient, "RESULT") = {}
      <4>1. /\ Cardinality(QueriesSent) = 0 /\ Cardinality(held) = 1
            /\ Cardinality(ResultsSent) = 0
        BY <1>1, <1>2, <3>2, Zenon
      <4>2. QED
        BY <4>1
    <3>3. CASE Single(toClient, "RESULT", n) /\ Of(toServer, "QUERY") = {} /\ held = {}
      <4>1. PICK i : Of(toClient, "RESULT") = {i}
        BY <3>3 DEF Single
      <4>2. QED
        <5>1. /\ Cardinality(QueriesSent) = 0 /\ Cardinality(held) = 0
              /\ Cardinality(ResultsSent) = 1
          BY <1>1, <1>2, <3>3, <4>1, Zenon
        <5>2. QED
          BY <5>1
    <3>4. QED
      BY <1>4, <2>2, <3>1, <3>2, <3>3 DEF UnderWay
  <2>4. ~ (call = "idle" /\ ~ fsm_stopped)
    BY <1>4 DEF SessionInv, Phase, Idle, Calling, Asking, Asked, Answered
  <2>5. Cardinality(ResultsReplied) = 0
    BY <1>2, <2>1, Zenon
  <2>6. QED
    BY <2>3, <2>4, <2>5 DEF OneOutstanding, Outstanding
<1>5. QED
  BY <1>3, <1>4

\* At any time at most one query of the client is anywhere between its call and
\* its reply: sent, held, answered or waiting on the pipe; and none is while
\* the application is between calls, so no call finds an answer left over.
THEOREM CallsAreSynchronous == Spec => []OneOutstanding
<1>1. QED
  BY SessionInvariant, InvOutstanding, PTL

\* The answer a query returns is its own, whatever is lost, refused or late and
\* however often the server dies.
THEOREM AnswersAreOwn == Spec => ResultIsOwn
<1>1. ASSUME SessionInv, [Next]_vars
      PROVE  [returned' # returned => returned' = calls]_vars
  <2> SUFFICES ASSUME Next, returned' # returned
               PROVE  returned' = calls
    BY <1>1
  <2>1. AcceptReply
    BY DEF Next, ClientNext, Application, SayHello, Query, Connected, Destroy, Invoke,
           Waiting, ReadFlag, Destroyed, HandleCmdpipe, HandleProtocol, HandleExpiry,
           Server, Take, ServeHeld, Crash, Restart, ContextExpires, InternalError,
           clientVars, appVars
  <2>2. /\ pipe # << >> /\ Head(pipe).reply = "RESULT"
        /\ returned' = Head(pipe).seqno
    BY <2>1 DEF AcceptReply
  <2>3. Head(pipe) = pipe[1] /\ 1 \in DOMAIN pipe
    BY <1>1, <2>1, <2>2, ReplyTaken DEF SessionInv, AcceptReply
  <2>4. QED
    BY <1>1, <2>2, <2>3 DEF SessionInv, PipeInv
<1>2. QED
  BY <1>1, SessionInvariant, PTL DEF Spec, ResultIsOwn
-----------------------------------------------------------------------------
(***************************************************************************)
(* Counting the messages of a kind: PINGs and PONGs, and the ERRORs that   *)
(* arm the client's timer again.                                           *)
(***************************************************************************)

Where(s, M) == {i \in DOMAIN s : s[i] \in M}
Count(s, M) == Cardinality(Where(s, M))

\* Only finitely many messages are under way.
LEMMA CountType ==
  ASSUME NEW S, NEW s \in Seq(S), NEW M
  PROVE  IsFiniteSet(Where(s, M)) /\ Count(s, M) \in Nat
<1>1. Len(s) \in Nat /\ DOMAIN s = 1 .. Len(s)
  BY LenProperties
<1>2. IsFiniteSet(1 .. Len(s))
  BY <1>1, FS_Interval
<1>3. Where(s, M) \in SUBSET (1 .. Len(s))
  BY <1>1 DEF Where
<1>4. IsFiniteSet(Where(s, M))
  BY <1>2, <1>3, FS_Subset
<1>5. QED
  BY <1>4, FS_CardinalityType DEF Count

\* One that is sent is counted.
LEMMA CountAppend ==
  ASSUME NEW S, NEW s \in Seq(S), NEW m \in S, NEW M
  PROVE  Count(Append(s, m), M) = IF m \in M THEN Count(s, M) + 1 ELSE Count(s, M)
<1> DEFINE u == Append(s, m)
           k == Len(s) + 1
<1>1. /\ Len(s) \in Nat /\ DOMAIN s = 1 .. Len(s)
      /\ u \in Seq(S) /\ Len(u) = k /\ u[k] = m
      /\ \A i \in 1 .. Len(s) : u[i] = s[i]
  BY AppendProperties, LenProperties
<1>2. DOMAIN u = 1 .. k
  BY <1>1, LenProperties
<1> HIDE DEF u
<1>3. IsFiniteSet(Where(s, M)) /\ k \notin Where(s, M)
  <2>1. IsFiniteSet(Where(s, M))
    BY CountType
  <2>2. k \notin Where(s, M)
    BY <1>1 DEF Where
  <2>3. QED
    BY <2>1, <2>2
<1>4. CASE m \in M
  <2>1. Where(u, M) = Where(s, M) \cup {k}
    BY <1>1, <1>2, <1>4 DEF Where
  <2>2. Cardinality(Where(s, M) \cup {k}) = Cardinality(Where(s, M)) + 1
    BY <1>3, FS_AddElement
  <2>3. QED
    BY <1>4, <2>1, <2>2 DEF Count, u
<1>5. CASE m \notin M
  <2>1. Where(u, M) = Where(s, M)
    BY <1>1, <1>2, <1>5 DEF Where
  <2>2. QED
    BY <1>5, <2>1 DEF Count, u
<1>6. QED
  BY <1>4, <1>5

\* What remains counts for no more than there was.
LEMMA CountSubSeq ==
  ASSUME NEW S, NEW s \in Seq(S), NEW a \in 1 .. (Len(s) + 1), NEW b \in 0 .. Len(s),
         NEW M
  PROVE  Count(SubSeq(s, a, b), M) <= Count(s, M)
<1> DEFINE u == SubSeq(s, a, b)
           W == Where(u, M)
           f == [i \in W |-> a + i - 1]
<1>1. /\ Len(s) \in Nat /\ DOMAIN s = 1 .. Len(s)
      /\ \A i \in 1 .. Len(s) : s[i] \in S
  BY LenProperties, ElementOfSeq
<1>2. /\ u \in Seq(S)
      /\ Len(u) = IF a <= b THEN b - a + 1 ELSE 0
      /\ \A i \in 1 .. (b - a + 1) : u[i] = s[a + i - 1]
  <2>1. \A i \in a .. b : s[i] \in S
    BY <1>1
  <2>2. QED
    BY <1>1, <2>1, SubSeqProperties
<1>3. DOMAIN u = 1 .. Len(u)
  BY <1>2, LenProperties
<1> HIDE DEF u
<1>4. \A i \in DOMAIN u : i \in Nat /\ a + i - 1 \in DOMAIN s /\ u[i] = s[a + i - 1]
  <2>1. \A i \in DOMAIN u : i \in 1 .. (b - a + 1)
    <3>1. CASE a <= b
      BY <1>2, <1>3, <3>1
    <3>2. CASE ~ a <= b
      BY <1>2, <1>3, <3>2
    <3>3. QED
      BY <3>1, <3>2
  <2>2. \A i \in 1 .. (b - a + 1) : i \in Nat /\ a + i - 1 \in 1 .. Len(s)
    BY <1>1
  <2>3. QED
    BY <1>1, <1>2, <2>1, <2>2
<1>5. \A i \in W : i \in Nat /\ a + i - 1 \in Where(s, M)
  BY <1>4 DEF Where
<1>6. f \in [W -> Where(s, M)]
  BY <1>5
<1>7. \A i, j \in W : f[i] = f[j] => i = j
  BY <1>5
<1>8. IsFiniteSet(Where(s, M))
  BY CountType
<1>9. f \in Injection(W, Where(s, M))
  BY <1>6, <1>7, Fun_IsInj
<1> HIDE DEF f
<1>10. Cardinality(W) <= Cardinality(Where(s, M))
  BY <1>8, <1>9, FS_Injection
<1>11. QED
  BY <1>10 DEF Count, u

\* One that is taken counts no more.
LEMMA CountTail ==
  ASSUME NEW S, NEW s \in Seq(S), s # << >>, NEW M
  PROVE  /\ Head(s) \in M => Count(Tail(s), M) = Count(s, M) - 1
         /\ Head(s) \notin M => Count(Tail(s), M) = Count(s, M)
<1> DEFINE u == Tail(s)
           W == Where(u, M)
           V == Where(s, M) \ {1}
           f == [i \in W |-> i + 1]
<1>1. /\ u \in Seq(S) /\ Len(u) = Len(s) - 1
      /\ \A i \in 1 .. Len(u) : u[i] = s[i + 1]
      /\ Head(s) = s[1]
  BY HeadTailProperties
<1>2. /\ Len(s) \in Nat \ {0} /\ DOMAIN s = 1 .. Len(s)
      /\ DOMAIN u = 1 .. Len(u)
  BY <1>1, LenProperties, EmptySeq
<1> HIDE DEF u
<1>3. \A i \in W : i \in Nat \ {0} /\ i + 1 \in V
  BY <1>1, <1>2 DEF Where
<1>4. \A j \in V : j - 1 \in W
  BY <1>1, <1>2 DEF Where
<1>5. f \in [W -> V]
  BY <1>3
<1>6. \A i, j \in W : f[i] = f[j] => i = j
  BY <1>3
<1>7. \A j \in V : \E i \in W : f[i] = j
  <2> TAKE j \in V
  <2>1. j \in Int
    BY <1>2 DEF Where
  <2>2. j - 1 \in W /\ f[j - 1] = j
    BY <1>4, <2>1
  <2>3. QED
    BY <2>2
<1>8. f \in Bijection(W, V)
  BY <1>5, <1>6, <1>7, Fun_IsBij
<1> HIDE DEF f
<1>9. IsFiniteSet(Where(s, M)) /\ Count(s, M) \in Nat /\ IsFiniteSet(W)
  BY <1>1, CountType
<1>10. Cardinality(V) = Cardinality(W)
  <2>1. ExistsBijection(W, V)
    BY <1>8 DEF ExistsBijection
  <2>2. QED
    BY <1>9, <2>1, FS_Bijection
<1>11. Cardinality(V) = IF 1 \in Where(s, M) THEN Count(s, M) - 1 ELSE Count(s, M)
  BY <1>9, FS_RemoveElement DEF Count
<1>12. 1 \in Where(s, M) <=> Head(s) \in M
  BY <1>1, <1>2 DEF Where
<1>13. QED
  BY <1>10, <1>11, <1>12 DEF Count, u
-----------------------------------------------------------------------------
(***************************************************************************)
(* The strengthening of TypeOK: nothing is on the connection before the    *)
(* client said hello, and the retries, the armed timer and the ERRORs that *)
(* would arm it again stay within three and one for each fault.            *)
(***************************************************************************)

Ping == [type |-> "PING"]
Pong == [type |-> "PONG"]
NotKnown == [type |-> "ERROR", status |-> 502]

Pings(s) == Count(s, {Ping})
Pongs(s) == Count(s, {Pong})
Rearms(s) == Count(s, {NotKnown})

\* TypeOK without the bound on retries.
Domains ==
  /\ state \in ClientStates
  /\ fsm_stopped \in BOOLEAN /\ terminated \in BOOLEAN /\ connected \in BOOLEAN
  /\ expiry \in BOOLEAN /\ timeout \in BOOLEAN /\ greeted \in BOOLEAN /\ up \in BOOLEAN
  /\ retries \in Nat
  /\ seqno \in 0 .. calls /\ calls \in 0 .. MaxCalls
  /\ commands \in Seq(Commands) /\ pipe \in Seq(Replies)
  /\ call \in Methods
  /\ returned \in 0 .. MaxCalls
  /\ toServer \in Seq(ToServer) /\ toClient \in Seq(ToClient)
  /\ context \in {"none", "start", "connected"}
  /\ held \subseteq 1 .. MaxCalls
  /\ faults \in 0 .. MaxFaults /\ lost \in Nat

\* The client says hello once, and nothing happens before it does.
Beginning ==
  /\ ~ greeted => state = "start"
  /\ \A i \in DOMAIN commands :
       commands[i].method = "SAY HELLO" => greeted /\ state = "start"
  /\ state = "start" => toServer = << >> /\ toClient = << >> /\ context = "none"
  /\ state = "start" /\ ~ fsm_stopped => ~ expiry /\ retries = 0

RetryBound ==
  /\ Rearms(toClient) <= faults
  /\ retries + (IF expiry THEN 1 ELSE 0) + Rearms(toClient) <= 3 + faults

CallCounted == call = "query" => calls # 0

RetriesCovered ==
  ~ fsm_stopped =>
    (IF retries < 2 THEN retries ELSE 2) <= Pings(toServer) + Pongs(toClient) + lost

TypeInv == Domains /\ CallCounted /\ Beginning /\ RetryBound /\ RetriesCovered

\* The counts of the properties are those of the lemmas above.
LEMMA PingsCounted ==
  ASSUME NEW s \in Seq(ToServer)
  PROVE  Cardinality({i \in DOMAIN s : s[i].type = "PING"}) = Count(s, {Ping})
<1>1. \A i \in DOMAIN s : s[i] \in ToServer
  BY LenProperties, ElementOfSeq
<1>2. \A m \in ToServer : m.type = "PING" <=> m = Ping
  BY DEF ToServer, Ping
<1>3. {i \in DOMAIN s : s[i].type = "PING"} = Where(s, {Ping})
  BY <1>1, <1>2 DEF Where
<1>4. QED
  BY <1>3 DEF Count

\* And the PONGs.
LEMMA PongsCounted ==
  ASSUME NEW s \in Seq(ToClient)
  PROVE  Cardinality({i \in DOMAIN s : s[i].type = "PONG"}) = Count(s, {Pong})
<1>1. \A i \in DOMAIN s : s[i] \in ToClient
  BY LenProperties, ElementOfSeq
<1>2. \A m \in ToClient : m.type = "PONG" <=> m = Pong
  BY DEF ToClient, Pong
<1>3. {i \in DOMAIN s : s[i].type = "PONG"} = Where(s, {Pong})
  BY <1>1, <1>2 DEF Where
<1>4. QED
  BY <1>3 DEF Count

\* The counts are numbers.
LEMMA CountsAreNat ==
  /\ \A s \in Seq(ToServer) : Pings(s) \in Nat
  /\ \A s \in Seq(ToClient) : Pongs(s) \in Nat /\ Rearms(s) \in Nat
BY CountType DEF Pings, Pongs, Rearms

\* In one state.
LEMMA BeatsCounted ==
  ASSUME toServer \in Seq(ToServer), toClient \in Seq(ToClient)
  PROVE  Beats = Pings(toServer) + Pongs(toClient)
<1>1. Cardinality(PingsSent) = Pings(toServer)
  BY PingsCounted DEF PingsSent, Pings
<1>2. Cardinality(PongsSent) = Pongs(toClient)
  BY PongsCounted DEF PongsSent, Pongs
<1>3. QED
  BY <1>1, <1>2 DEF Beats

\* In the next state.
LEMMA BeatsCountedNext ==
  ASSUME toServer' \in Seq(ToServer), toClient' \in Seq(ToClient)
  PROVE  Beats' = Pings(toServer') + Pongs(toClient')
<1>1. Cardinality(PingsSent') = Pings(toServer')
  BY PingsCounted DEF PingsSent, Pings
<1>2. Cardinality(PongsSent') = Pongs(toClient')
  BY PongsCounted DEF PongsSent, Pongs
<1>3. QED
  BY <1>1, <1>2 DEF Beats

\* What the server takes from the connection.
LEMMA TakenByServer ==
  ASSUME toServer \in Seq(ToServer), toServer # << >>, toServer' = Tail(toServer)
  PROVE  /\ Head(toServer) \in ToServer /\ toServer' \in Seq(ToServer)
         /\ Pings(toServer') = IF Head(toServer).type = "PING" THEN Pings(toServer) - 1 ELSE Pings(toServer)
<1>1. Head(toServer) \in ToServer /\ toServer' \in Seq(ToServer)
  BY HeadTailProperties
<1>2. Head(toServer).type = "PING" <=> Head(toServer) \in {Ping}
  BY <1>1 DEF ToServer, Ping
<1>3. QED
  BY <1>1, <1>2, CountTail DEF Pings

\* What the client takes from the connection.
LEMMA TakenByClient ==
  ASSUME toClient \in Seq(ToClient), toClient # << >>, toClient' = Tail(toClient)
  PROVE  /\ Head(toClient) \in ToClient /\ toClient' \in Seq(ToClient)
         /\ Pongs(toClient') = IF Head(toClient).type = "PONG" THEN Pongs(toClient) - 1 ELSE Pongs(toClient)
         /\ Rearms(toClient') = IF Head(toClient) = NotKnown THEN Rearms(toClient) - 1 ELSE Rearms(toClient)
<1>1. Head(toClient) \in ToClient /\ toClient' \in Seq(ToClient)
  BY HeadTailProperties
<1>2. Head(toClient).type = "PONG" <=> Head(toClient) \in {Pong}
  BY <1>1 DEF ToClient, Pong
<1>3. QED
  BY <1>1, <1>2, CountTail DEF Pongs, Rearms

\* What the client sends.
LEMMA GivenToServer ==
  ASSUME toServer \in Seq(ToServer), NEW m \in ToServer, toServer' = Append(toServer, m)
  PROVE  /\ toServer' \in Seq(ToServer)
         /\ Pings(toServer') = IF m.type = "PING" THEN Pings(toServer) + 1 ELSE Pings(toServer)
<1>1. m.type = "PING" <=> m \in {Ping}
  BY DEF ToServer, Ping
<1>2. QED
  BY <1>1, AppendProperties, CountAppend DEF Pings

\* What the server sends.
LEMMA GivenToClient ==
  ASSUME toClient \in Seq(ToClient), NEW m \in ToClient, toClient' = Append(toClient, m)
  PROVE  /\ toClient' \in Seq(ToClient)
         /\ Pongs(toClient') = IF m.type = "PONG" THEN Pongs(toClient) + 1 ELSE Pongs(toClient)
         /\ Rearms(toClient') = IF m = NotKnown THEN Rearms(toClient) + 1 ELSE Rearms(toClient)
<1>1. m.type = "PONG" <=> m \in {Pong}
  BY DEF ToClient, Pong
<1>2. QED
  BY <1>1, AppendProperties, CountAppend DEF Pongs, Rearms

-----------------------------------------------------------------------------
(***************************************************************************)
(* The steps of the server and of the network.                             *)
(***************************************************************************)

\* What they do to the connection: PINGs and PONGs go over into one another or
\* are lost, each new INTERNAL ERROR is a fault, and none follows nothing.
Flow ==
  /\ toServer' \in Seq(ToServer) /\ toClient' \in Seq(ToClient)
  /\ context' \in {"none", "start", "connected"} /\ up' \in BOOLEAN
  /\ held' \subseteq 1 .. MaxCalls
  /\ faults' \in 0 .. MaxFaults /\ lost' \in Nat
  /\ lost' + Pings(toServer') + Pongs(toClient') = lost + Pings(toServer) + Pongs(toClient)
  /\ faults <= faults' /\ Rearms(toClient') + faults <= Rearms(toClient) + faults'
  /\ toServer = << >> /\ toClient = << >> /\ context = "none" =>
       toServer' = << >> /\ toClient' = << >> /\ context' = "none"

\* The server takes a message and answers it, or holds the query.
LEMMA TakeFlows ==
  ASSUME Domains, Take
  PROVE  Flow
<1> DEFINE m == Head(toServer)
<1>1. /\ toServer # << >> /\ toServer' = Tail(toServer)
      /\ UNCHANGED <<up, faults, lost>>
  BY DEF Take
<1>2. /\ m \in ToServer /\ toServer' \in Seq(ToServer)
      /\ Pings(toServer') = IF m.type = "PING" THEN Pings(toServer) - 1 ELSE Pings(toServer)
  BY <1>1, TakenByServer DEF Domains
<1>3. /\ toClient \in Seq(ToClient) /\ toServer \in Seq(ToServer)
      /\ Pings(toServer) \in Nat /\ Pongs(toClient) \in Nat /\ Rearms(toClient) \in Nat
      /\ faults \in 0 .. MaxFaults /\ lost \in Nat /\ up \in BOOLEAN
      /\ held \subseteq 1 .. MaxCalls /\ context \in {"none", "start", "connected"}
  BY CountsAreNat DEF Domains
<1>4. \/ m.type = "HELLO" /\ ServeHello
      \/ m.type = "PING" /\ ServePing
      \/ m.type = "QUERY" /\ ServeQuery(m.seqno, m.mask)
  BY DEF Take
<1>5. m.type = "QUERY" => m.seqno \in 1 .. MaxCalls
  BY <1>2 DEF ToServer
<1> HIDE DEF m
<1>6. /\ context' \in {"none", "start", "connected"} /\ held' \subseteq 1 .. MaxCalls
      /\ \/ toClient' = toClient /\ m.type # "PING"
         \/ \E r \in ToClient : /\ toClient' = Append(toClient, r) /\ r # NotKnown
                                /\ r.type = "PONG" <=> m.type = "PING"
  <2>1. CASE m.type = "HELLO" /\ ServeHello
    <3>1. /\ context' \in {"none", "start", "connected"} /\ held' = held
          /\ \/ toClient' = Append(toClient, [type |-> "COVERAGE"])
             \/ toClient' = Append(toClient, [type |-> "ERROR", status |-> 500])
      BY <2>1 DEF ServeHello, Refuse, CommandInvalid, SendToClient
    <3>2. /\ [type |-> "COVERAGE"] \in ToClient /\ [type |-> "COVERAGE"] # NotKnown
          /\ [type |-> "ERROR", status |-> 500] \in ToClient
          /\ [type |-> "ERROR", status |-> 500] # NotKnown
      BY DEF ToClient, NotKnown
    <3>3. QED
      BY <1>3, <2>1, <3>1, <3>2
  <2>2. CASE m.type = "PING" /\ ServePing
    <3>1. [type |-> "PONG"] \in ToClient /\ [type |-> "PONG"] # NotKnown
      BY DEF ToClient, NotKnown
    <3>2. QED
      BY <1>3, <2>2, <3>1 DEF ServePing, SendToClient
  <2>3. CASE m.type = "QUERY" /\ ServeQuery(m.seqno, m.mask)
    <3>1. /\ context' \in {"none", "start", "connected"}
          /\ \/ /\ toClient' = Append(toClient, [type |-> "ERROR", status |-> 500])
                /\ held' = held
             \/ /\ toClient' = Append(toClient, [type |-> "RESULT", seqno |-> m.seqno])
                /\ held' = held
             \/ toClient' = toClient /\ held' = held \cup {m.seqno}
      BY <1>3, <2>3 DEF ServeQuery, Refuse, CommandInvalid, SendToClient
    <3>2. /\ [type |-> "ERROR", status |-> 500] \in ToClient
          /\ [type |-> "ERROR", status |-> 500] # NotKnown
          /\ [type |-> "RESULT", seqno |-> m.seqno] \in ToClient
          /\ [type |-> "RESULT", seqno |-> m.seqno] # NotKnown
      BY <1>5, <2>3 DEF ToClient, NotKnown
    <3>3. held' \subseteq 1 .. MaxCalls
      <4>1. m.seqno \in 1 .. MaxCalls
        BY <1>5, <2>3
      <4>2. held' = held \/ held' = held \cup {m.seqno}
        BY <3>1
      <4>3. QED
        BY <1>3, <4>1, <4>2
    <3>4. QED
      BY <2>3, <3>1, <3>2, <3>3
  <2>4. QED
    BY <1>4, <2>1, <2>2, <2>3
<1>7. /\ toClient' \in Seq(ToClient)
      /\ Pongs(toClient') = IF m.type = "PING" THEN Pongs(toClient) + 1 ELSE Pongs(toClient)
      /\ Rearms(toClient') = Rearms(toClient)
  <2>1. CASE toClient' = toClient /\ m.type # "PING"
    BY <1>3, <2>1 DEF Pongs, Rearms
  <2>2. ASSUME NEW r \in ToClient, toClient' = Append(toClient, r), r # NotKnown,
               r.type = "PONG" <=> m.type = "PING"
        PROVE  /\ toClient' \in Seq(ToClient)
               /\ Pongs(toClient') = IF m.type = "PING" THEN Pongs(toClient) + 1 ELSE Pongs(toClient)
               /\ Rearms(toClient') = Rearms(toClient)
    BY <1>3, <2>2, GivenToClient
  <2>3. QED
    BY <1>6, <2>1, <2>2
<1>8. /\ lost' + Pings(toServer') + Pongs(toClient') = lost + Pings(toServer) + Pongs(toClient)
      /\ faults <= faults' /\ Rearms(toClient') + faults <= Rearms(toClient) + faults'
  <2>1. /\ lost' = lost /\ faults' = faults /\ faults \in Nat /\ lost \in Nat
        /\ Rearms(toClient) \in Nat /\ Pings(toServer) \in Nat /\ Pongs(toClient) \in Nat
    BY <1>1, <1>3, SessionAssumption
  <2>2. CASE m.type = "PING"
    BY <1>2, <1>7, <2>1, <2>2
  <2>3. CASE m.type # "PING"
    BY <1>2, <1>7, <2>1, <2>3
  <2>4. QED
    BY <2>2, <2>3
<1>9. QED
  BY <1>1, <1>2, <1>3, <1>6, <1>7, <1>8 DEF Flow

\* A held query reaches its end.
LEMMA ServeHeldFlows ==
  ASSUME Domains, NEW n \in held, ServeHeld(n)
  PROVE  Flow
<1>1. /\ n \in 1 .. MaxCalls /\ held' \subseteq 1 .. MaxCalls
      /\ UNCHANGED <<toServer, up, faults, lost>>
  BY DEF ServeHeld, Domains
<1>2. /\ context' \in {"none", "start", "connected"}
      /\ \/ /\ toClient' = Append(toClient, [type |-> "RESULT", seqno |-> n])
            /\ context # "none"
         \/ /\ toClient' = Append(toClient, [type |-> "ERROR", status |-> 500])
            /\ context # "none"
         \/ toClient' = toClient /\ context' = context
  BY DEF ServeHeld, SendToClient, CommandInvalid, Domains
<1>3. /\ [type |-> "RESULT", seqno |-> n] \in ToClient
      /\ [type |-> "RESULT", seqno |-> n] # NotKnown
      /\ [type |-> "ERROR", status |-> 500] \in ToClient
      /\ [type |-> "ERROR", status |-> 500] # NotKnown
  BY <1>1 DEF ToClient, NotKnown
<1>4. toClient \in Seq(ToClient) /\ toServer \in Seq(ToServer)
  BY DEF Domains
<1>5. /\ toClient' \in Seq(ToClient) /\ Pongs(toClient') = Pongs(toClient) /\ Rearms(toClient') = Rearms(toClient)
  <2>1. CASE toClient' = Append(toClient, [type |-> "RESULT", seqno |-> n])
    BY <1>3, <1>4, <2>1, GivenToClient
  <2>2. CASE toClient' = Append(toClient, [type |-> "ERROR", status |-> 500])
    BY <1>3, <1>4, <2>2, GivenToClient
  <2>3. CASE toClient' = toClient
    BY <1>4, <2>3 DEF Pongs, Rearms
  <2>4. QED
    BY <1>2, <2>1, <2>2, <2>3
<1>6. Pings(toServer') = Pings(toServer)
  BY <1>1 DEF Pings
<1>7. Pings(toServer) \in Nat /\ Pongs(toClient) \in Nat /\ Rearms(toClient) \in Nat
  BY <1>4, CountsAreNat
<1>8. /\ up' \in BOOLEAN /\ faults' \in 0 .. MaxFaults /\ lost' \in Nat
      /\ toServer' \in Seq(ToServer)
  BY <1>1, <1>4 DEF Domains
<1>9. QED
  BY <1>1, <1>2, <1>5, <1>6, <1>7, <1>8 DEF Flow

\* A server that dies: what is lost with it is counted.
LEMMA CrashFlows ==
  ASSUME Domains, Crash
  PROVE  Flow
<1>1. PICK i \in 0 .. Len(toServer), j \in 0 .. Len(toClient) :
        /\ toServer' = SubSeq(toServer, i + 1, Len(toServer))
        /\ toClient' = SubSeq(toClient, 1, j)
  BY DEF Crash
<1>2. /\ toServer \in Seq(ToServer) /\ toClient \in Seq(ToClient)
      /\ Len(toServer) \in Nat /\ Len(toClient) \in Nat
  BY LenProperties DEF Domains
<1>3. /\ i + 1 \in 1 .. (Len(toServer) + 1) /\ Len(toServer) \in 0 .. Len(toServer)
      /\ 1 \in 1 .. (Len(toClient) + 1)
  BY <1>2
<1>4. toServer' \in Seq(ToServer) /\ Pings(toServer') <= Pings(toServer)
  BY <1>1, <1>2, <1>3, OfSubSeq, CountSubSeq DEF Pings
<1>5. toClient' \in Seq(ToClient) /\ Pongs(toClient') <= Pongs(toClient) /\ Rearms(toClient') <= Rearms(toClient)
  BY <1>1, <1>2, <1>3, OfSubSeq, CountSubSeq DEF Pongs, Rearms
<1>6. /\ toServer = << >> => toServer' = << >>
      /\ toClient = << >> => toClient' = << >>
  <2>1. Len(<< >>) = 0
    OBVIOUS
  <2>2. ASSUME toServer = << >>
        PROVE  toServer' = << >>
    BY <1>1, <2>1, <2>2, SubSeqEmpty
  <2>3. ASSUME toClient = << >>
        PROVE  toClient' = << >>
    BY <1>1, <2>1, <2>3, SubSeqEmpty
  <2>4. QED
    BY <2>2, <2>3
<1>7. /\ Beats = Pings(toServer) + Pongs(toClient)
      /\ Pings(toServer) \in Nat /\ Pongs(toClient) \in Nat /\ Rearms(toClient) \in Nat
  BY <1>2, BeatsCounted, CountsAreNat
<1>8. /\ Beats' = Pings(toServer') + Pongs(toClient')
      /\ Pings(toServer') \in Nat /\ Pongs(toClient') \in Nat /\ Rearms(toClient') \in Nat
  BY <1>4, <1>5, BeatsCountedNext, CountsAreNat
<1>9. /\ lost' = lost + Beats - Beats' /\ up' = FALSE /\ faults' = faults + 1
      /\ faults < MaxFaults /\ context' = "none" /\ held' = {}
  BY DEF Crash, Fault
<1>10. lost \in Nat /\ faults \in 0 .. MaxFaults
  BY DEF Domains
<1>11. /\ lost' \in Nat /\ lost' + Pings(toServer') + Pongs(toClient') = lost + Pings(toServer) + Pongs(toClient)
       /\ faults <= faults' /\ Rearms(toClient') + faults <= Rearms(toClient) + faults'
  <2>1. lost' = lost + (Pings(toServer) + Pongs(toClient)) - (Pings(toServer') + Pongs(toClient'))
    BY <1>7, <1>8, <1>9
  <2>2. /\ Pings(toServer) \in Nat /\ Pongs(toClient) \in Nat /\ Rearms(toClient) \in Nat
        /\ Pings(toServer') \in Nat /\ Pongs(toClient') \in Nat /\ Rearms(toClient') \in Nat
        /\ Pings(toServer') <= Pings(toServer) /\ Pongs(toClient') <= Pongs(toClient) /\ Rearms(toClient') <= Rearms(toClient)
    BY <1>4, <1>5, <1>7, <1>8
  <2>3. lost' \in Nat /\ lost' + Pings(toServer') + Pongs(toClient') = lost + Pings(toServer) + Pongs(toClient)
    <3>1. lost \in Nat
      BY <1>10
    <3>2. ASSUME NEW p \in Nat, NEW q \in Nat, NEW r \in Nat, NEW s \in Nat,
                 r <= p, s <= q, lost' = lost + (p + q) - (r + s)
          PROVE  lost' \in Nat /\ lost' + r + s = lost + p + q
      BY <3>1, <3>2
    <3>3. QED
      BY <2>1, <2>2, <3>2
  <2>4. faults \in Nat /\ faults' = faults + 1
    BY <1>9, <1>10, SessionAssumption
  <2>5. faults <= faults' /\ Rearms(toClient') + faults <= Rearms(toClient) + faults'
    BY <2>2, <2>4
  <2>6. QED
    BY <2>3, <2>5
<1>12. faults' \in 0 .. MaxFaults
  BY <1>9, <1>10, SessionAssumption
<1>13. QED
  BY <1>4, <1>5, <1>6, <1>9, <1>11, <1>12 DEF Flow

\* The context of a client nobody heard from goes.
LEMMA ExpiresFlows ==
  ASSUME Domains, Restart \/ ContextExpires
  PROVE  Flow
<1>1. /\ UNCHANGED <<toServer, toClient, held, lost>>
      /\ up' \in BOOLEAN /\ context' \in {context, "none"}
      /\ faults' = faults \/ (faults < MaxFaults /\ faults' = faults + 1)
  BY DEF Restart, ContextExpires, Fault, netVars, Domains
<1>2. Pings(toServer') = Pings(toServer) /\ Pongs(toClient') = Pongs(toClient) /\ Rearms(toClient') = Rearms(toClient)
  BY <1>1 DEF Pings, Pongs, Rearms
<1>3. Pings(toServer) \in Nat /\ Pongs(toClient) \in Nat /\ Rearms(toClient) \in Nat
  BY CountsAreNat DEF Domains
<1>4. faults \in 0 .. MaxFaults /\ MaxFaults \in Nat
  BY SessionAssumption DEF Domains
<1>5. faults' \in 0 .. MaxFaults /\ faults <= faults' /\ Rearms(toClient') + faults <= Rearms(toClient) + faults'
  BY <1>1, <1>2, <1>3, <1>4
<1>6. QED
  BY <1>1, <1>2, <1>5 DEF Flow, Domains

\* An INTERNAL ERROR is sent.
LEMMA InternalErrorFlows ==
  ASSUME Domains, InternalError
  PROVE  Flow
<1>1. /\ UNCHANGED <<toServer, up, context, held, lost>> /\ context # "none"
      /\ faults < MaxFaults /\ faults' = faults + 1
      /\ toClient' = Append(toClient, NotKnown)
  BY DEF InternalError, Fault, SendToClient, NotKnown
<1>2. NotKnown \in ToClient /\ NotKnown.type # "PONG"
  BY DEF ToClient, NotKnown
<1>3. toClient' \in Seq(ToClient) /\ Pongs(toClient') = Pongs(toClient) /\ Rearms(toClient') = Rearms(toClient) + 1
  BY <1>1, <1>2, GivenToClient DEF Domains
<1>4. Pings(toServer') = Pings(toServer)
  BY <1>1 DEF Pings
<1>5. Pings(toServer) \in Nat /\ Pongs(toClient) \in Nat /\ Rearms(toClient) \in Nat
  BY CountsAreNat DEF Domains
<1>6. faults \in 0 .. MaxFaults /\ MaxFaults \in Nat
  BY SessionAssumption DEF Domains
<1>7. faults' \in 0 .. MaxFaults /\ faults <= faults' /\ Rearms(toClient') + faults <= Rearms(toClient) + faults'
  BY <1>1, <1>3, <1>5, <1>6
<1>8. QED
  BY <1>1, <1>3, <1>4, <1>7 DEF Flow, Domains

\* None of them disturbs the typing.
LEMMA ServerKeepsTypes ==
  ASSUME TypeInv, Server \/ Crash \/ Restart \/ ContextExpires \/ InternalError
  PROVE  TypeInv'
<1>1. Domains /\ Beginning /\ RetryBound /\ RetriesCovered /\ CallCounted
  BY DEF TypeInv
<1>2. Flow
  BY <1>1, TakeFlows, ServeHeldFlows, CrashFlows, ExpiresFlows, InternalErrorFlows DEF Server
<1>3. UNCHANGED clientVars
  BY DEF Server, Take, ServeHeld, Crash, Restart, ContextExpires, InternalError
<1>4. /\ UNCHANGED <<state, fsm_stopped, terminated, connected, retries, expiry,
                     timeout, seqno, commands, call, calls, greeted, returned, pipe>>
  BY <1>3 DEF clientVars, actorVars, appVars
<1>5. Domains'
  BY <1>1, <1>2, <1>4 DEF Domains, Flow
<1>6. Beginning'
  BY <1>1, <1>2, <1>4 DEF Beginning, Flow
<1>7. Pings(toServer) \in Nat /\ Pongs(toClient) \in Nat /\ Rearms(toClient) \in Nat
  BY <1>1, CountsAreNat DEF Domains
<1>8. Pings(toServer') \in Nat /\ Pongs(toClient') \in Nat /\ Rearms(toClient') \in Nat
  BY <1>2, CountsAreNat DEF Flow
<1>9. /\ retries \in Nat /\ faults \in Nat /\ faults' \in Nat /\ lost \in Nat /\ lost' \in Nat
  BY <1>1, <1>2 DEF Domains, Flow
<1>10. RetryBound'
  <2>1. /\ Rearms(toClient) <= faults
        /\ retries + (IF expiry THEN 1 ELSE 0) + Rearms(toClient) <= 3 + faults
    BY <1>1 DEF RetryBound
  <2>2. Rearms(toClient') + faults <= Rearms(toClient) + faults'
    BY <1>2 DEF Flow
  <2>3. /\ Rearms(toClient') <= faults'
        /\ retries + (IF expiry THEN 1 ELSE 0) + Rearms(toClient') <= 3 + faults'
    BY <1>7, <1>8, <1>9, <2>1, <2>2
  <2>4. QED
    BY <1>4, <2>3 DEF RetryBound
<1>11. RetriesCovered'
  <2>1. lost' + Pings(toServer') + Pongs(toClient') = lost + Pings(toServer) + Pongs(toClient)
    BY <1>2 DEF Flow
  <2>2. QED
    BY <1>1, <1>4, <1>7, <1>8, <1>9, <2>1 DEF RetriesCovered
<1>12. CallCounted'
  BY <1>1, <1>4 DEF CallCounted
<1>13. QED
  BY <1>5, <1>6, <1>10, <1>11, <1>12 DEF TypeInv

-----------------------------------------------------------------------------
(***************************************************************************)
(* The steps of the client.                                                *)
(***************************************************************************)

\* A step that neither hears from the server nor counts a retry.
LEMMA RestKeeps ==
  ASSUME TypeInv,
         UNCHANGED <<state, retries, expiry, toClient, context, faults, lost>>,
         fsm_stopped => fsm_stopped', greeted => greeted',
         toServer' = toServer \/ (state # "start" /\ Pings(toServer') = Pings(toServer)),
         \A i \in DOMAIN commands' :
           \/ \E j \in DOMAIN commands : commands'[i] = commands[j]
           \/ commands'[i].method = "SAY HELLO" => greeted' /\ ~ greeted
  PROVE  Beginning' /\ RetryBound' /\ RetriesCovered'
<1>1. Beginning /\ RetryBound /\ RetriesCovered
  BY DEF TypeInv
<1>2. Pings(toServer') = Pings(toServer)
  OBVIOUS
<1>3. RetryBound'
  BY <1>1 DEF RetryBound
<1>4. RetriesCovered'
  BY <1>1, <1>2 DEF RetriesCovered
<1>5. Beginning'
  <2>1. \A i \in DOMAIN commands' :
          commands'[i].method = "SAY HELLO" => greeted' /\ state' = "start"
    BY <1>1 DEF Beginning
  <2>2. QED
    BY <1>1, <2>1 DEF Beginning
<1>6. QED
  BY <1>3, <1>4, <1>5

\* The application begins a call.
LEMMA ApplicationTypes ==
  ASSUME TypeInv, Application, UNCHANGED <<up, context, held, faults, lost>>
  PROVE  TypeInv'
<1> DEFINE Begun(method, c) ==
             /\ Invoke(method, c)
             /\ greeted' \in BOOLEAN
             /\ greeted => greeted'
             /\ c.method = "SAY HELLO" => greeted' /\ ~ greeted
             /\ calls' = IF method = "query" THEN calls + 1 ELSE calls
             /\ method = "query" => calls < MaxCalls
<1>1. Domains
  BY DEF TypeInv
<1>2. PICK method \in {"say_hello", "query", "connected", "destroy"}, c \in Commands :
        Begun(method, c)
  <2>1. ASSUME NEW e \in Endpoints, SayHello(e)
        PROVE  /\ [method |-> "SAY HELLO", endpoint |-> e] \in Commands
               /\ Begun("say_hello", [method |-> "SAY HELLO", endpoint |-> e])
    BY <2>1 DEF SayHello, Commands
  <2>2. ASSUME NEW m \in Masks, NEW t \in Timeouts, Query(m, t)
        PROVE  /\ [method |-> "QUERY", mask |-> m, timeout |-> t] \in Commands
               /\ Begun("query", [method |-> "QUERY", mask |-> m, timeout |-> t])
    BY <1>1, <2>2 DEF Query, Commands, Domains
  <2>3. ASSUME Connected
        PROVE  /\ [method |-> "$CONNECTED"] \in Commands
               /\ Begun("connected", [method |-> "$CONNECTED"])
    BY <1>1, <2>3 DEF Connected, Commands, Domains
  <2>4. ASSUME Destroy
        PROVE  /\ [method |-> "$TERM"] \in Commands
               /\ Begun("destroy", [method |-> "$TERM"])
    BY <1>1, <2>4 DEF Destroy, Commands, Domains
  <2>5. QED
    BY <2>1, <2>2, <2>3, <2>4 DEF Application
<1>3. /\ call' = method /\ commands' = Append(commands, c)
      /\ UNCHANGED <<state, fsm_stopped, terminated, connected, retries, expiry,
                     timeout, seqno, pipe, returned, toServer, toClient,
                     up, context, held, faults, lost>>
  BY <1>2 DEF Invoke, actorVars, netVars
<1>4. /\ commands' \in Seq(Commands)
      /\ \A i \in DOMAIN commands' :
           \/ \E j \in DOMAIN commands : commands'[i] = commands[j]
           \/ commands'[i] = c
  <2>1. commands \in Seq(Commands)
    BY <1>1 DEF Domains
  <2>2. /\ Len(commands) \in Nat /\ DOMAIN commands = 1 .. Len(commands)
        /\ commands' \in Seq(Commands) /\ Len(commands') = Len(commands) + 1
        /\ \A i \in 1 .. Len(commands) : commands'[i] = commands[i]
        /\ commands'[Len(commands) + 1] = c
    BY <1>3, <2>1, AppendProperties, LenProperties
  <2>3. DOMAIN commands' = 1 .. (Len(commands) + 1)
    BY <2>2, LenProperties
  <2>4. QED
    BY <2>2, <2>3
<1>5. /\ calls' \in 0 .. MaxCalls /\ calls <= calls'
      /\ call' = "query" => calls' # 0
  <2>1. calls \in 0 .. MaxCalls /\ MaxCalls \in Nat
    BY <1>1, ClientAssumption DEF Domains
  <2>2. CASE method = "query"
    <3>1. calls' = calls + 1 /\ calls < MaxCalls
      BY <1>2, <2>2
    <3>2. QED
      BY <2>1, <3>1
  <2>3. CASE method # "query"
    <3>1. calls' = calls /\ call' # "query"
      BY <1>2, <1>3, <2>3
    <3>2. QED
      BY <2>1, <3>1
  <2>4. QED
    BY <2>2, <2>3
<1>6. Domains'
  <2>1. call' \in Methods
    BY <1>3 DEF Methods
  <2>2. seqno' \in 0 .. calls'
    BY <1>1, <1>3, <1>5 DEF Domains
  <2>3. QED
    BY <1>1, <1>2, <1>3, <1>4, <1>5, <2>1, <2>2 DEF Domains
<1>7. Beginning' /\ RetryBound' /\ RetriesCovered'
  <2>1. \A i \in DOMAIN commands' :
           \/ \E j \in DOMAIN commands : commands'[i] = commands[j]
           \/ commands'[i].method = "SAY HELLO" => greeted' /\ ~ greeted
    BY <1>2, <1>4
  <2>2. QED
    BY <1>2, <1>3, <2>1, RestKeeps
<1>8. QED
  BY <1>5, <1>6, <1>7 DEF TypeInv, CallCounted

\* A call takes a reply, or ends.
LEMMA WaitingTypes ==
  ASSUME TypeInv, Waiting, UNCHANGED <<up, context, held, faults, lost>>
  PROVE  TypeInv'
<1>1. Domains /\ CallCounted
  BY DEF TypeInv
<1>2. UNCHANGED <<state, fsm_stopped, terminated, connected, retries, expiry,
                  timeout, seqno, commands, calls, greeted, toServer, toClient,
                  up, context, held, faults, lost>>
  BY DEF Waiting, AcceptReply, ReadFlag, Destroyed, actorVars, netVars
<1>3. /\ call' \in {call, "idle", "gone"}
      /\ \/ pipe' = pipe /\ returned' = returned
         \/ /\ pipe # << >> /\ pipe' = Tail(pipe)
            /\ returned' = returned \/ (Head(pipe).reply = "RESULT" /\ returned' = Head(pipe).seqno)
  BY DEF Waiting, AcceptReply, ReadFlag, Destroyed
<1>4. pipe' \in Seq(Replies) /\ returned' \in 0 .. MaxCalls
  <2>1. CASE pipe' = pipe /\ returned' = returned
    BY <1>1, <2>1 DEF Domains
  <2>2. CASE pipe # << >> /\ pipe' = Tail(pipe)
    <3>1. pipe' \in Seq(Replies) /\ Head(pipe) \in Replies
      BY <1>1, <2>2, HeadTailProperties DEF Domains
    <3>2. Head(pipe).reply = "RESULT" => Head(pipe).seqno \in 1 .. MaxCalls
      BY <3>1 DEF Replies
    <3>3. returned' = returned \/ returned' \in 1 .. MaxCalls
      BY <1>1, <1>3, <2>2, <3>2
    <3>4. returned' \in 0 .. MaxCalls
      BY <1>1, <3>3, ClientAssumption DEF Domains
    <3>5. QED
      BY <3>1, <3>4
  <2>3. QED
    BY <1>3, <2>1, <2>2
<1>5. call' \in Methods /\ CallCounted'
  BY <1>1, <1>2, <1>3 DEF Domains, Methods, CallCounted
<1>6. Domains'
  BY <1>1, <1>2, <1>4, <1>5 DEF Domains
<1>7. Beginning' /\ RetryBound' /\ RetriesCovered'
  BY <1>2, RestKeeps
<1>8. QED
  BY <1>5, <1>6, <1>7 DEF TypeInv

\* The commands left when one is taken were there before.
LEMMA CommandsLeft ==
  ASSUME commands \in Seq(Commands), commands # << >>, commands' = Tail(commands)
  PROVE  /\ commands' \in Seq(Commands) /\ Head(commands) \in Commands
         /\ \E j \in DOMAIN commands : Head(commands) = commands[j]
         /\ \A i \in DOMAIN commands' : \E j \in DOMAIN commands : commands'[i] = commands[j]
<1>1. /\ Head(commands) \in Commands /\ commands' \in Seq(Commands)
      /\ Len(commands') = Len(commands) - 1
      /\ \A i \in 1 .. Len(commands') : commands'[i] = commands[i + 1]
      /\ Head(commands) = commands[1]
  BY HeadTailProperties
<1>2. /\ Len(commands) \in Nat \ {0} /\ DOMAIN commands = 1 .. Len(commands)
      /\ DOMAIN commands' = 1 .. Len(commands')
  BY <1>1, LenProperties, EmptySeq
<1>3. 1 \in DOMAIN commands
  BY <1>2
<1>4. \A i \in DOMAIN commands' : i + 1 \in DOMAIN commands /\ commands'[i] = commands[i + 1]
  BY <1>1, <1>2
<1>5. QED
  BY <1>1, <1>3, <1>4

\* A reply is typed.
LEMMA ReplyTyped ==
  ASSUME pipe \in Seq(Replies), NEW r \in Replies, pipe' = Append(pipe, r)
  PROVE  pipe' \in Seq(Replies)
BY AppendProperties

SaysHello == Head(commands).method = "SAY HELLO" /\ ~ fsm_stopped

\* SAY HELLO: what begins, begins here.
LEMMA SayHelloTypes ==
  ASSUME TypeInv, SessionInv, HandleCmdpipe, UNCHANGED <<up, context, held, faults, lost>>,
         SaysHello
  PROVE  TypeInv'
<1> DEFINE c == Head(commands)
<1>1. Domains /\ CallCounted /\ Beginning /\ RetryBound /\ RetriesCovered
  BY DEF TypeInv
<1>2. /\ commands # << >> /\ commands' = Tail(commands)
      /\ ExecuteSayHello(c.endpoint) /\ UNCHANGED <<terminated, timeout>>
      /\ UNCHANGED <<call, calls, greeted, returned, toClient>>
      /\ UNCHANGED <<up, context, held, faults, lost>>
  BY DEF HandleCmdpipe, Ignore, SaysHello
<1>3. /\ commands \in Seq(Commands) /\ commands' \in Seq(Commands)
      /\ \E j \in DOMAIN commands : Head(commands) = commands[j]
  BY <1>1, <1>2, CommandsLeft DEF Domains
<1>4. greeted /\ state = "start"
  BY <1>1, <1>3 DEF Beginning, SaysHello
<1>5. toServer = << >> /\ toClient = << >> /\ context = "none" /\ retries = 0
  BY <1>1, <1>4 DEF Beginning, SaysHello
<1>6. commands' = << >>
  <2>1. Len(commands) = 1
    BY <1>2 DEF SaysHello, SessionInv, Phase, Idle, Calling, Asking, Asked, Answered
  <2>2. QED
    BY <1>2, <2>1, CommandTaken DEF SessionInv
<1>7. /\ expiry' = timeout /\ UNCHANGED <<connected, retries, seqno, pipe>>
      /\ \/ /\ toServer' = Append(toServer, [type |-> "HELLO"])
            /\ state' = "expect_coverage" /\ fsm_stopped' = FALSE
         \/ toServer' = toServer /\ state' = "start" /\ fsm_stopped' = TRUE
  BY <1>1, <1>2, <1>4 DEF ExecuteSayHello, UseConnectTimeout, SendToServer, Domains,
     SaysHello
<1>8. toServer' \in Seq(ToServer)
  <2>1. [type |-> "HELLO"] \in ToServer
    BY DEF ToServer
  <2>2. toServer \in Seq(ToServer)
    BY <1>1 DEF Domains
  <2>3. QED
    BY <1>7, <2>1, <2>2, AppendProperties
<1>9. Domains'
  <2>1. state' \in ClientStates /\ fsm_stopped' \in BOOLEAN
    BY <1>7 DEF ClientStates
  <2>2. QED
    BY <1>1, <1>2, <1>3, <1>7, <1>8, <2>1 DEF Domains
<1>10. Beginning'
  BY <1>2, <1>4, <1>5, <1>6, <1>7, EmptyPipe DEF Beginning
<1>11. RetryBound'
  <2>1. /\ Rearms(toClient) \in Nat /\ faults \in Nat /\ Rearms(toClient) <= faults
    <3>1. Rearms(toClient) \in Nat
      BY <1>1, CountsAreNat DEF Domains
    <3>2. faults \in Nat
      BY <1>1, SessionAssumption DEF Domains
    <3>3. QED
      BY <1>1, <3>1, <3>2 DEF RetryBound
  <2>2. retries + (IF timeout THEN 1 ELSE 0) + Rearms(toClient) <= 3 + faults
    BY <1>5, <2>1
  <2>3. QED
    BY <1>2, <1>7, <2>1, <2>2 DEF RetryBound
<1>12. RetriesCovered'
  <2>1. Pings(toServer') \in Nat /\ Pongs(toClient') \in Nat /\ lost' \in Nat
    BY <1>8, <1>9, CountsAreNat DEF Domains
  <2>2. retries' = 0
    BY <1>5, <1>7
  <2>3. QED
    BY <2>1, <2>2 DEF RetriesCovered
<1>13. CallCounted'
  BY <1>1, <1>2 DEF CallCounted
<1>14. QED
  BY <1>9, <1>10, <1>11, <1>12, <1>13 DEF TypeInv

\* Any other command, and any command once the state machine has stopped.
LEMMA OtherCommandTypes ==
  ASSUME TypeInv, SessionInv, HandleCmdpipe, UNCHANGED <<up, context, held, faults, lost>>,
         ~ SaysHello
  PROVE  TypeInv'
<1> DEFINE c == Head(commands)
<1>1. Domains /\ CallCounted /\ Beginning /\ RetryBound /\ RetriesCovered
  BY DEF TypeInv
<1>2. /\ commands # << >> /\ commands' = Tail(commands)
      /\ UNCHANGED <<call, calls, greeted, returned, toClient>>
      /\ UNCHANGED <<up, context, held, faults, lost>>
  BY DEF HandleCmdpipe
<1>3. /\ commands' \in Seq(Commands) /\ c \in Commands
      /\ \A i \in DOMAIN commands' : \E j \in DOMAIN commands : commands'[i] = commands[j]
  BY <1>1, <1>2, CommandsLeft DEF Domains
<1>4. c.method = "QUERY" => c.timeout \in BOOLEAN /\ c.mask \in Masks
  BY <1>3, ClientAssumption DEF Commands
<1> DEFINE Rest ==
      /\ UNCHANGED <<state, connected, retries, expiry>>
      /\ terminated' \in BOOLEAN /\ timeout' \in BOOLEAN /\ fsm_stopped' \in BOOLEAN
      /\ fsm_stopped => fsm_stopped'
<1> DEFINE Silent ==
      /\ UNCHANGED <<toServer, seqno>>
      /\ \/ pipe' = pipe
         \/ \E r \in Replies : pipe' = Append(pipe, r)
<1> DEFINE Asks ==
      /\ state = "connected" /\ ~ fsm_stopped /\ c.method = "QUERY" /\ pipe' = pipe
      /\ seqno' = seqno + 1
      /\ toServer' = Append(toServer, [type |-> "QUERY", seqno |-> seqno + 1, mask |-> c.mask])
<1>5. Rest /\ (Silent \/ Asks)
  <2> USE <1>1 DEF Domains
  <2>1. CASE Ignore /\ c.method = "SAY HELLO"
    BY <2>1 DEF HandleCmdpipe, Ignore, ExecuteSayHello, SaysHello
  <2>2. CASE c.method = "QUERY"
    <3>1. timeout' = c.timeout /\ terminated' = terminated
      BY <2>2 DEF HandleCmdpipe
    <3>2. CASE Ignore
      BY <1>4, <2>2, <3>1, <3>2 DEF Ignore
    <3>3. CASE ~ fsm_stopped /\ ExecuteQuery(c.mask)
      <4>1. CASE state = "connected"
        BY <1>4, <2>2, <3>1, <3>3, <4>1 DEF ExecuteQuery, SetQuery, SendToServer
      <4>2. CASE state # "connected"
        <5>1. [reply |-> "FAILURE"] \in Replies
          BY DEF Replies
        <5>2. QED
          BY <1>4, <2>2, <3>1, <3>3, <4>2, <5>1
             DEF ExecuteQuery, Unexpected, SignalInternalError, Reply
      <4>3. QED
        BY <4>1, <4>2
    <3>4. QED
      BY <2>2, <3>2, <3>3 DEF HandleCmdpipe
  <2>3. CASE c.method = "$CONNECTED"
    <3>1. [reply |-> "flag", value |-> connected] \in Replies
      BY DEF Replies
    <3>2. QED
      BY <2>3, <3>1 DEF HandleCmdpipe, Reply, actorVars
  <2>4. CASE c.method = "$TERM"
    BY <2>4 DEF HandleCmdpipe
  <2>5. c.method \in {"SAY HELLO", "QUERY", "$CONNECTED", "$TERM"}
    BY <1>3 DEF Commands
  <2>6. c.method = "SAY HELLO" => Ignore
    BY DEF HandleCmdpipe, SaysHello
  <2>7. QED
    BY <2>1, <2>2, <2>3, <2>4, <2>5, <2>6
<1>6. /\ pipe' \in Seq(Replies) /\ toServer' \in Seq(ToServer)
      /\ seqno' \in 0 .. calls /\ Pings(toServer') = Pings(toServer)
  <2>1. CASE Silent
    BY <1>1, <2>1, ReplyTyped DEF Domains
  <2>2. CASE Asks
    <3>1. seqno + 1 = calls
      <4>1. Head(commands) = commands[1]
        BY <1>2, CommandTaken DEF SessionInv
      <4>2. commands[1].method = "QUERY"
        BY <2>2, <4>1
      <4>3. Phase
        BY <2>2 DEF SessionInv
      <4>4. ~ Calling
        <5>1. SUFFICES ASSUME Calling PROVE FALSE
          OBVIOUS
        <5>2. commands[1].method = CommandOf[call]
          BY <1>2, <5>1 DEF Calling
        <5>3. \A x \in {"say_hello", "connected", "destroy", "gone"} : CommandOf[x] # "QUERY"
          <6>1. /\ CommandOf["say_hello"] = "SAY HELLO" /\ CommandOf["connected"] = "$CONNECTED"
                /\ CommandOf["destroy"] = "$TERM" /\ CommandOf["gone"] = "$TERM"
            BY DEF CommandOf
          <6>2. QED
            BY <6>1
        <5>4. QED
          BY <4>2, <5>1, <5>2, <5>3 DEF Calling
      <4>5. QED
        BY <1>2, <4>3, <4>4 DEF Phase, Idle, Asking, Asked, Answered
    <3>2. /\ calls \in 1 .. MaxCalls /\ seqno' \in 0 .. calls
      <4>1. seqno \in 0 .. calls /\ calls \in 0 .. MaxCalls
        BY <1>1 DEF Domains
      <4>2. seqno' = seqno + 1
        BY <2>2
      <4>3. MaxCalls \in Nat
        BY ClientAssumption
      <4>4. calls \in 1 .. MaxCalls /\ seqno + 1 \in 0 .. calls
        BY <3>1, <4>1, <4>3
      <4>5. QED
        BY <4>2, <4>4
    <3>3. [type |-> "QUERY", seqno |-> seqno + 1, mask |-> c.mask] \in ToServer
      BY <1>4, <2>2, <3>1, <3>2 DEF ToServer
    <3>4. toServer' \in Seq(ToServer) /\ Pings(toServer') = Pings(toServer)
      BY <1>1, <2>2, <3>3, GivenToServer DEF Domains
    <3>5. QED
      BY <1>1, <2>2, <3>2, <3>4 DEF Domains
  <2>3. QED
    BY <1>5, <2>1, <2>2
<1>7. Domains'
  BY <1>1, <1>2, <1>3, <1>5, <1>6 DEF Domains
<1>8. toServer' = toServer \/ state # "start"
  BY <1>5
<1> HIDE DEF Silent, Asks
<1>9. Beginning' /\ RetryBound' /\ RetriesCovered'
  BY <1>2, <1>3, <1>5, <1>6, <1>8, RestKeeps
<1>10. CallCounted'
  BY <1>1, <1>2 DEF CallCounted
<1>11. QED
  BY <1>7, <1>9, <1>10 DEF TypeInv

\* A message of the server: ERRORs and the timer, PONGs and the retries.
LEMMA ProtocolTypes ==
  ASSUME TypeInv, HandleProtocol, UNCHANGED <<up, context, held, faults, lost>>
  PROVE  TypeInv'
<1> DEFINE m == Head(toClient)
           Heard(t) == ~ fsm_stopped /\ m.type = t
<1>1. Domains /\ CallCounted /\ Beginning /\ RetryBound /\ RetriesCovered
  BY DEF TypeInv
<1>2. /\ toClient # << >> /\ toClient' = Tail(toClient)
      /\ UNCHANGED <<terminated, timeout, commands, call, calls, greeted, returned>>
  BY DEF HandleProtocol, appVars
<1>3. /\ m \in ToClient /\ toClient' \in Seq(ToClient)
      /\ Pongs(toClient') = IF m.type = "PONG" THEN Pongs(toClient) - 1 ELSE Pongs(toClient)
      /\ Rearms(toClient') = IF m = NotKnown THEN Rearms(toClient) - 1 ELSE Rearms(toClient)
  BY <1>1, <1>2, TakenByClient DEF Domains
<1>4. state # "start"
  BY <1>1, <1>2 DEF Beginning
<1>5. \/ Ignore
      \/ Heard("COVERAGE") /\ ExecuteCoverage
      \/ Heard("RESULT") /\ ExecuteResult(m.seqno)
      \/ Heard("PONG") /\ ExecutePong
      \/ Heard("ERROR") /\ ExecuteError(m.status)
  BY DEF HandleProtocol
\* What the handlers have in common: a reply at most, a HELLO at most, and the
\* retries are started anew or the timer is set as it was or by ERROR.
<1> DEFINE ReplyAtMost == pipe' = pipe \/ \E r \in Replies : pipe' = Append(pipe, r)
           HelloAtMost == \/ toServer' = toServer
                    \/ toServer' = Append(toServer, [type |-> "HELLO"])
           Anew == retries' = 0 /\ expiry' = TRUE
           AsBefore == /\ retries' = retries
                       /\ expiry' = expiry \/ m = NotKnown
                       /\ expiry' \in BOOLEAN
                       /\ m.type = "PONG" => fsm_stopped'
           Common == /\ ReplyAtMost /\ HelloAtMost /\ (Anew \/ AsBefore)
                     /\ seqno' = seqno /\ connected' \in BOOLEAN
                     /\ state' = state \/ (state' \in ClientStates \ {"start"})
                     /\ fsm_stopped' \in BOOLEAN
                     /\ fsm_stopped => fsm_stopped'
<1>6. Common
  <2>1. /\ expiry \in BOOLEAN /\ timeout \in BOOLEAN /\ connected \in BOOLEAN
        /\ fsm_stopped \in BOOLEAN
    BY <1>1 DEF Domains
  <2>2. [reply |-> "CONNECTED"] \in Replies /\ [reply |-> "FAILURE"] \in Replies
    BY DEF Replies
  <2>3. ASSUME Unexpected, toServer' = toServer
        PROVE  Common
    BY <2>1, <2>2, <2>3 DEF Unexpected, SignalInternalError, Reply
  <2>4. CASE Ignore
    BY <2>1, <2>4 DEF Ignore
  <2>5. CASE Heard("COVERAGE") /\ ExecuteCoverage
    <3>1. CASE state = "expect_coverage"
      BY <2>1, <2>2, <2>5, <3>1
         DEF ExecuteCoverage, SignalConnected, Reply, ClientIsConnected, ClientStates
    <3>2. CASE state # "expect_coverage"
      BY <2>3, <2>5, <3>2 DEF ExecuteCoverage
    <3>3. QED
      BY <3>1, <3>2
  <2>6. CASE Heard("RESULT") /\ ExecuteResult(m.seqno)
    <3>1. CASE state = "connected"
      <4>1. m.seqno \in 1 .. MaxCalls
        BY <1>3, <2>6 DEF ToClient
      <4>2. [reply |-> "RESULT", seqno |-> m.seqno] \in Replies
        BY <4>1 DEF Replies
      <4>3. QED
        BY <2>1, <2>6, <3>1, <4>2 DEF ExecuteResult, SignalResult, Reply
    <3>2. CASE state # "connected"
      BY <2>3, <2>6, <3>2 DEF ExecuteResult
    <3>3. QED
      BY <3>1, <3>2
  <2>7. CASE Heard("PONG") /\ ExecutePong
    BY <2>1, <2>7 DEF ExecutePong, ClientIsConnected
  <2>8. CASE Heard("ERROR") /\ ExecuteError(m.status)
    <3>1. m.status = 502 => m = NotKnown
      BY <1>3, <2>8 DEF ToClient, NotKnown
    <3>2. CASE StatusEvent(m.status) = "command_invalid"
      <4>1. m.status = 502
        BY <3>2 DEF StatusEvent
      <4>2. QED
        BY <2>1, <2>8, <3>1, <3>2, <4>1
           DEF ExecuteError, SendToServer, UseConnectTimeout, ClientStates
    <3>3. CASE StatusEvent(m.status) # "command_invalid"
      BY <2>1, <2>8, <3>3 DEF ExecuteError, ClientStates
    <3>4. QED
      BY <3>2, <3>3
  <2>9. QED
    BY <1>5, <2>4, <2>5, <2>6, <2>7, <2>8
<1>7. /\ toServer' \in Seq(ToServer) /\ Pings(toServer') = Pings(toServer)
  <2>1. [type |-> "HELLO"] \in ToServer
    BY DEF ToServer
  <2>2. toServer \in Seq(ToServer)
    BY <1>1 DEF Domains
  <2>3. QED
    BY <1>6, <2>1, <2>2, GivenToServer
<1>8. pipe' \in Seq(Replies)
  BY <1>1, <1>6, ReplyTyped DEF Domains
<1>9. Domains'
  <2>1. retries' \in Nat
    BY <1>1, <1>6 DEF Domains
  <2>2. expiry' \in BOOLEAN /\ state' \in ClientStates
    BY <1>1, <1>6 DEF Domains
  <2>3. QED
    BY <1>1, <1>2, <1>3, <1>6, <1>7, <1>8, <2>1, <2>2 DEF Domains
<1>10. Beginning'
  BY <1>1, <1>2, <1>4, <1>6 DEF Beginning
<1>11. CallCounted'
  BY <1>1, <1>2 DEF CallCounted
<1>12. /\ Rearms(toClient) \in Nat /\ Rearms(toClient') \in Nat
       /\ Pings(toServer) \in Nat /\ Pongs(toClient) \in Nat /\ Pongs(toClient') \in Nat
       /\ retries \in Nat /\ lost \in Nat /\ faults \in Nat
  <2>1. faults \in Nat
    BY <1>1, SessionAssumption DEF Domains
  <2>2. QED
    BY <1>1, <1>3, <2>1, CountsAreNat DEF Domains
<1>13. RetryBound'
  <2>1. /\ Rearms(toClient) <= faults
        /\ retries + (IF expiry THEN 1 ELSE 0) + Rearms(toClient) <= 3 + faults
    BY <1>1 DEF RetryBound
  <2>2. Rearms(toClient') <= faults
    BY <1>3, <1>12, <2>1
  <2>3. retries' + (IF expiry' THEN 1 ELSE 0) + Rearms(toClient') <= 3 + faults
    <3>1. CASE Anew
      BY <1>12, <2>2, <3>1
    <3>2. CASE retries' = retries /\ expiry' = expiry
      BY <1>3, <1>12, <2>1, <3>2
    <3>3. CASE retries' = retries /\ m = NotKnown
      BY <1>3, <1>12, <2>1, <3>3
    <3>4. QED
      BY <1>6, <3>1, <3>2, <3>3
  <2>4. QED
    BY <2>2, <2>3 DEF RetryBound
<1>14. RetriesCovered'
  <2>1. CASE Anew
    BY <1>7, <1>12, <2>1 DEF RetriesCovered
  <2>2. CASE AsBefore
    <3>1. ~ fsm_stopped' => Pongs(toClient') = Pongs(toClient) /\ ~ fsm_stopped
      BY <1>3, <1>6, <2>2
    <3>2. QED
      BY <1>1, <1>7, <2>2, <3>1 DEF RetriesCovered
  <2>3. QED
    BY <1>6, <2>1, <2>2
<1>15. QED
  BY <1>9, <1>10, <1>11, <1>13, <1>14 DEF TypeInv

\* The timer: a retry is counted with a PING, or is the last.
LEMMA ExpiryTypes ==
  ASSUME TypeInv, HandleExpiry, UNCHANGED <<up, context, held, faults, lost>>
  PROVE  TypeInv'
<1>1. Domains /\ CallCounted /\ Beginning /\ RetryBound /\ RetriesCovered
  BY DEF TypeInv
<1>2. /\ ~ fsm_stopped /\ expiry
      /\ UNCHANGED <<terminated, timeout, commands, call, calls, greeted, returned,
                     toClient, state, seqno, pipe, fsm_stopped>>
      /\ retries' = retries + 1 /\ connected' \in {connected, FALSE}
      /\ \/ /\ retries + 1 >= 3 /\ expiry' = FALSE /\ toServer' = toServer
         \/ /\ retries + 1 < 3 /\ expiry' = TRUE
            /\ toServer' = Append(toServer, Ping)
  BY <1>1 DEF HandleExpiry, ExecuteExpired, GiveUp, SendToServer, appVars, Ping, Domains
<1>3. Ping \in ToServer /\ Ping.type = "PING"
  BY DEF Ping, ToServer
<1>4. toServer' \in Seq(ToServer)
      /\ \/ toServer' = toServer
         \/ Pings(toServer') = Pings(toServer) + 1
  BY <1>1, <1>2, <1>3, GivenToServer DEF Domains
<1>5. /\ Rearms(toClient) \in Nat /\ Pings(toServer) \in Nat /\ Pings(toServer') \in Nat
      /\ Pongs(toClient) \in Nat /\ retries \in Nat /\ lost \in Nat /\ faults \in Nat
  <2>1. faults \in Nat
    BY <1>1, SessionAssumption DEF Domains
  <2>2. QED
    BY <1>1, <1>4, <2>1, CountsAreNat DEF Domains
<1>6. Domains'
  <2>1. retries' \in Nat
    BY <1>2, <1>5
  <2>2. expiry' \in BOOLEAN /\ connected' \in BOOLEAN
    BY <1>1, <1>2 DEF Domains
  <2>3. QED
    BY <1>1, <1>2, <1>4, <2>1, <2>2 DEF Domains
<1>7. Beginning'
  BY <1>1, <1>2 DEF Beginning
<1>8. CallCounted'
  BY <1>1, <1>2 DEF CallCounted
<1>9. RetryBound'
  <2>1. /\ Rearms(toClient) <= faults
        /\ retries + 1 + Rearms(toClient) <= 3 + faults
    BY <1>1, <1>2 DEF RetryBound
  <2>2. retries' + (IF expiry' THEN 1 ELSE 0) + Rearms(toClient) <= 3 + faults
    <3>1. CASE retries + 1 >= 3 /\ expiry' = FALSE
      BY <1>2, <1>5, <2>1, <3>1
    <3>2. CASE retries + 1 < 3 /\ expiry' = TRUE
      BY <1>2, <1>5, <2>1, <3>2
    <3>3. QED
      BY <1>2, <3>1, <3>2
  <2>3. QED
    BY <1>2, <2>1, <2>2 DEF RetryBound
<1>10. RetriesCovered'
  <2>1. (IF retries < 2 THEN retries ELSE 2) <= Pings(toServer) + Pongs(toClient) + lost
    BY <1>1, <1>2 DEF RetriesCovered
  <2>2. (IF retries' < 2 THEN retries' ELSE 2) <= Pings(toServer') + Pongs(toClient) + lost
    <3>1. CASE retries + 1 >= 3 /\ toServer' = toServer
      BY <1>2, <1>5, <2>1, <3>1
    <3>2. CASE retries + 1 < 3 /\ toServer' = Append(toServer, Ping)
      <4>1. Pings(toServer') = Pings(toServer) + 1
        BY <1>1, <1>3, <3>2, GivenToServer DEF Domains
      <4>2. QED
        BY <1>2, <1>5, <2>1, <3>2, <4>1
    <3>3. QED
      BY <1>2, <3>1, <3>2
  <2>3. QED
    BY <1>2, <2>2 DEF RetriesCovered
<1>11. QED
  BY <1>6, <1>7, <1>8, <1>9, <1>10 DEF TypeInv

\* Initially.
LEMMA InitTypes == Init => TypeInv
<1> SUFFICES ASSUME Init PROVE TypeInv
  OBVIOUS
<1> USE DEF Init, ClientInit
<1>1. Domains
  <2>1. \A S : << >> \in Seq(S)
    BY EmptySeq
  <2>2. 0 \in 0 .. calls /\ 0 \in 0 .. MaxCalls /\ 0 \in 0 .. MaxFaults
    BY ClientAssumption, SessionAssumption
  <2>3. QED
    BY <2>1, <2>2 DEF Domains, ClientStates, Methods
<1>2. CallCounted /\ Beginning
  BY EmptyPipe DEF CallCounted, Beginning
<1>3. /\ Pings(toServer) \in Nat /\ Pongs(toClient) \in Nat /\ Rearms(toClient) = 0
  <2>1. Where(<< >>, {NotKnown}) = {}
    BY EmptyPipe DEF Where
  <2>2. Rearms(toClient) = 0
    BY <2>1, FS_EmptySet DEF Rearms, Count
  <2>3. QED
    BY <1>1, <2>2, CountsAreNat DEF Domains
<1>4. RetryBound /\ RetriesCovered
  BY <1>3 DEF RetryBound, RetriesCovered
<1>5. QED
  BY <1>1, <1>2, <1>4 DEF TypeInv

\* Every step keeps the types, the retries and what stands for them.
LEMMA StepTypes == SessionInv /\ TypeInv /\ [Next]_vars => TypeInv'
<1> SUFFICES ASSUME SessionInv, TypeInv, [Next]_vars PROVE TypeInv'
  OBVIOUS
<1>1. CASE ClientNext /\ UNCHANGED serverVars
  <2>1. UNCHANGED <<up, context, held, faults, lost>>
    BY <1>1 DEF serverVars
  <2>2. CASE Application
    BY <2>1, <2>2, ApplicationTypes
  <2>3. CASE Waiting
    BY <2>1, <2>3, WaitingTypes
  <2>4. CASE HandleCmdpipe
    BY <2>1, <2>4, SayHelloTypes, OtherCommandTypes
  <2>5. CASE HandleProtocol
    BY <2>1, <2>5, ProtocolTypes
  <2>6. CASE HandleExpiry
    BY <2>1, <2>6, ExpiryTypes
  <2>7. QED
    BY <1>1, <2>2, <2>3, <2>4, <2>5, <2>6 DEF ClientNext
<1>2. CASE Server \/ Crash \/ Restart \/ ContextExpires \/ InternalError
  BY <1>2, ServerKeepsTypes
<1>3. CASE UNCHANGED vars
  <2>1. UNCHANGED <<state, fsm_stopped, terminated, connected, retries, expiry, timeout,
                    seqno, commands, pipe, call, calls, greeted, returned,
                    toServer, toClient, up, context, held, faults, lost>>
    BY <1>3 DEF vars, clientVars, actorVars, appVars, netVars, serverVars
  <2>2. Domains' /\ CallCounted' /\ Beginning'
    BY <2>1 DEF TypeInv, Domains, CallCounted, Beginning
  <2>3. RetryBound' /\ RetriesCovered'
    BY <2>1 DEF TypeInv, RetryBound, RetriesCovered
  <2>4. QED
    BY <2>2, <2>3 DEF TypeInv
<1>4. QED
  BY <1>1, <1>2, <1>3 DEF Next

\* The types hold throughout.
LEMMA TypeInvariant == Spec => []TypeInv
<1>1. QED
  BY InitSession, StepKeeps, InitTypes, StepTypes, PTL DEF Spec

\* What TypeInv says in the terms of the properties.
LEMMA TypeInvImplies == TypeInv => TypeOK /\ RetriesUnanswered
<1> SUFFICES ASSUME TypeInv PROVE TypeOK /\ RetriesUnanswered
  OBVIOUS
<1>1. Domains /\ RetryBound /\ RetriesCovered
  BY DEF TypeInv
<1>2. /\ Rearms(toClient) \in Nat /\ faults \in Nat /\ retries \in Nat
  <2>1. faults \in Nat
    BY <1>1, SessionAssumption DEF Domains
  <2>2. QED
    BY <1>1, <2>1, CountsAreNat DEF Domains
<1>3. retries \in 0 .. (3 + faults)
  BY <1>1, <1>2 DEF RetryBound
<1>4. TypeOK
  BY <1>1, <1>3 DEF Domains, TypeOK
<1>5. RetriesUnanswered
  BY <1>1, BeatsCounted DEF Domains, RetriesCovered, RetriesUnanswered
<1>6. QED
  BY <1>4, <1>5

\* Every variable has its type; no connection sees more than three expiries
\* without an answer, but for the ERRORs that arm the timer again.
THEOREM SessionTypes == Spec => []TypeOK
<1>1. QED
  BY TypeInvariant, TypeInvImplies, PTL

\* The client declares a server dead only for PINGs it did not answer: of the
\* retries counted, as many as were sent a PING for stand each for a PING or a
\* PONG that is still under way or was lost in a fault, however late it is.
THEOREM RetriesStandForPings == Spec => []RetriesUnanswered
<1>1. QED
  BY TypeInvariant, TypeInvImplies, PTL
====
