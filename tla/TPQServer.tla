----------------------------- MODULE TPQServer -----------------------------
(***************************************************************************)
(* The tpq_server actor: one thread running a zloop over its pipe (the     *)
(* application's configuration commands), its ROUTER socket (protocol      *)
(* messages of the clients), its ingest socket (TPSets) and one expiry     *)
(* timer per client.                                                       *)
(*                                                                         *)
(* A callback of the loop runs to its end before the next one starts.      *)
(* Protocol messages, expiries and commands are one step each.  The ingest *)
(* handler is several: it slurps a batch, then answers the pending         *)
(* requests that became due, one step per request, then purges; pc says    *)
(* where it is, and no other callback runs until it is back at "poll".     *)
(*                                                                         *)
(* A client context is a heap block.  Clients (the set of slots) stands    *)
(* for the addresses malloc can return: a terminated context leaves its    *)
(* address free, and a new context may receive any free address.  A        *)
(* pending request holds the address, as request_t does.                   *)
(***************************************************************************)
EXTENDS TPQueue, Sequences

CONSTANTS
  Peers,          \* routing ids: connections of clients to the ROUTER
  Clients,        \* addresses of client contexts
  NoPeer,         \* no routing id: the context is not allocated
  Queries,        \* interval and mask of the QUERYs peers may send
  QueueSettings,  \* water marks the application may configure
  InitSetting,    \* the water marks of server_initialize
  DetMasks,       \* masks the application may configure
  Depth,          \* no low water mark is below this
  Skew,           \* how far behind the queue's end a TPSet may start
  Conduct,        \* which of the optional doings of peers can occur
  MaxSend,        \* bound: messages one peer sends
  MaxOutstanding  \* bound: QUERYs of one peer held at a time (1: its API
                  \* calls are synchronous)

\* What a peer may do beside saying HELLO and sending QUERYs.
Doings == {"PING", "GOODBYE", "REHELLO", "UNEXPECTED", "MALFORMED", "EXPIRE"}

Settings == [lwm : Nat, hwm : Nat]

ASSUME ServerAssumption ==
  /\ IsFiniteSet(Clients) /\ IsFiniteSet(Peers)
  /\ Cardinality(Peers) <= Cardinality(Clients)   \* malloc does not fail
  /\ NoPeer \notin Peers
  /\ Queries \subseteq [tstart : UInt64, tspan : UInt64, detmask : SUBSET DetBits]
  /\ DetMasks \subseteq (SUBSET DetBits) \ {{}}    \* DETMASK asserts > 0
  /\ InitSetting \in QueueSettings
  /\ QueueSettings \subseteq Settings
  /\ Depth \in Nat \ {0}
  /\ \A w \in QueueSettings : Depth <= w.lwm
  /\ Skew \in Nat
  /\ Conduct \subseteq Doings
  /\ MaxSend \in Nat /\ MaxOutstanding \in Nat

VARIABLES
  clients,  \* context at each address: its peer and its protocol state
  message,  \* tstart and tspan fields of the codec object all contexts share
  pending,  \* requests held, in arrival order, under the end they wait for
  iq,       \* the interval queue
  detmask,  \* detector ID mask of the server
  water,    \* low and high water marks iq_lwm and iq_hwm
  ingest,   \* TRUE once the ingest socket exists
  pc,       \* "poll", "serve" inside the ingest handler, "crashed"
  out,      \* protocol messages sent to each peer, oldest first
  \* Histories of the inputs, read by bounds and properties only.
  arrived,  \* TPSets received on the ingest socket
  kept,     \* those of them that matched the mask of their time
  asked,    \* QUERYs of each peer handled in the connected state
  sent      \* how many messages each peer has sent

serverVars == <<clients, message, pending, iq, detmask, water, ingest, pc>>
vars == <<serverVars, out, arrived, kept, asked, sent>>

-----------------------------------------------------------------------------
(***************************************************************************)
(* Types.                                                                  *)
(***************************************************************************)

States == {"free", "start", "connected"}
Contexts == [peer : Peers \cup {NoPeer}, state : States]
Free == [peer |-> NoPeer, state |-> "free"]

Ticks == (-Half) .. (Half - 1)

\* request_t; its key in the map is the end of the requested interval.  from
\* remembers who asked: the program does not.
Requests ==
  [client : Clients, detmask : SUBSET DetBits, tstart : Ticks,
   seqno : Nat \ {0}, from : Peers]

Registers == [tstart : UInt64, tspan : UInt64]

Messages ==
       [type : {"COVERAGE"}, detmask : SUBSET DetBits]
  \cup [type : {"RESULT"}, seqno : Nat \ {0}, status : {200, 206, 404},
        payload : SUBSET TPSets]
  \cup [type : {"PONG", "GOODBYE_OK"}]
  \cup [type : {"ERROR"}, status : {500}]

-----------------------------------------------------------------------------
(***************************************************************************)
(* Client contexts: s_client_new, the lookup of s_server_handle_protocol   *)
(* and the end of a context.                                               *)
(***************************************************************************)

Live(c) == clients[c].state # "free"

\* The context that handles a message of p is p's, or else a new one at an
\* address malloc finds free.
Serves(c, p) ==
  \/ Live(c) /\ clients[c].peer = p
  \/ ~ Live(c) /\ \A d \in Clients : Live(d) => clients[d].peer # p

\* Variant: a new context is born connected.
StateOfConnected(c) == IF Live(c) THEN clients[c].state ELSE "connected"

\* s_client_new leaves a context in the start state.
StateOf(c) == IF Live(c) THEN clients[c].state ELSE "start"

SetState(c, p, s) ==
  clients' = [clients EXCEPT ![c] = [peer |-> p, state |-> s]]

\* terminate: zhash_delete frees the context; nobody holds a reference count.
Terminate(c) == clients' = [clients EXCEPT ![c] = Free]

Send(p, m) == out' = [out EXCEPT ![p] = Append(@, m)]

Error == [type |-> "ERROR", status |-> 500]

\* The "*" row of both states: set_command_invalid, send ERROR, terminate.
Refuse(c, p) == Send(p, Error) /\ Terminate(c)

\* One more message from p; input is taken while the loop polls.
Receive(p) ==
  /\ pc = "poll"
  /\ sent[p] < MaxSend
  /\ sent' = [sent EXCEPT ![p] = @ + 1]

-----------------------------------------------------------------------------
(***************************************************************************)
(* Protocol messages other than QUERY.                                     *)
(***************************************************************************)

\* HELLO: COVERAGE in the start state, an error once connected.
RecvHello(p) ==
  /\ Receive(p)
  /\ \E c \in Clients :
       /\ Serves(c, p)
       /\ \/ /\ StateOf(c) = "start"
             /\ Send(p, [type |-> "COVERAGE", detmask |-> detmask])
             /\ SetState(c, p, "connected")
          \/ /\ StateOf(c) = "connected"
             /\ "REHELLO" \in Conduct
             /\ Refuse(c, p)
  /\ UNCHANGED <<message, pending, iq, detmask, water, ingest, pc,
                 arrived, kept, asked>>

\* PING: PONG in either state; the first word of a peer creates its context.
RecvPing(p) ==
  /\ "PING" \in Conduct
  /\ Receive(p)
  /\ \E c \in Clients : Serves(c, p) /\ SetState(c, p, StateOf(c))
  /\ Send(p, [type |-> "PONG"])
  /\ UNCHANGED <<message, pending, iq, detmask, water, ingest, pc,
                 arrived, kept, asked>>

\* GOODBYE: GOODBYE_OK and the context is gone.
RecvGoodbye(p) ==
  /\ "GOODBYE" \in Conduct
  /\ Receive(p)
  /\ \E c \in Clients : Serves(c, p) /\ Terminate(c)
  /\ Send(p, [type |-> "GOODBYE_OK"])
  /\ UNCHANGED <<message, pending, iq, detmask, water, ingest, pc,
                 arrived, kept, asked>>

\* A message only a server sends: s_protocol_event has no event for it.
RecvUnexpected(p) ==
  /\ "UNEXPECTED" \in Conduct
  /\ Receive(p)
  /\ \E c \in Clients : Serves(c, p) /\ Refuse(c, p)
  /\ UNCHANGED <<message, pending, iq, detmask, water, ingest, pc,
                 arrived, kept, asked>>

\* A message the codec rejects is discarded after its context was created.
RecvMalformed(p) ==
  /\ "MALFORMED" \in Conduct
  /\ Receive(p)
  /\ \E c \in Clients : Serves(c, p) /\ SetState(c, p, StateOf(c))
  /\ UNCHANGED <<message, pending, iq, detmask, water, ingest, pc,
                 out, arrived, kept, asked>>

\* The ticket of a context ran out: no message for the whole timeout.
Expire(c) ==
  /\ "EXPIRE" \in Conduct
  /\ pc = "poll"
  /\ Live(c)
  /\ Terminate(c)
  /\ UNCHANGED <<message, pending, iq, detmask, water, ingest, pc,
                 out, arrived, kept, asked, sent>>

-----------------------------------------------------------------------------
(***************************************************************************)
(* QUERY: handle_query and the events it raises.                           *)
(***************************************************************************)

\* The test  ! want_detmask & detmask  negates before it masks: it rejects an
\* empty mask when the server has bit 0, and nothing else.
Bogus(q) == q.detmask = {} /\ LowBit \in detmask

FullyLate(q) == End(q) <= Lower(iq)
InSight(q) == Lower(iq) < End(q) /\ End(q) <= Upper(iq)
Early(q) == Lower(iq) < End(q) /\ Upper(iq) < End(q)

\* Variant: the payload runs up to the end of the queue.
PayloadToEnd(register) == Fetch(iq, Beg(register), Upper(iq))

\* set_payload: the queue over the interval in the registers of the codec.
Payload(register) == Fetch(iq, Beg(register), End(register))

Result(n, s, tps) ==
  [type |-> "RESULT", seqno |-> n, status |-> s, payload |-> tps]

\* Variant: partly late queries are not told from the satisfied ones.
AnswerAllSuccess(p, q, n) ==
  \/ Bogus(q) /\ Send(p, Error)
  \/ ~ Bogus(q) /\ FullyLate(q) /\ Send(p, Result(n, 404, {}))
  \/ ~ Bogus(q) /\ InSight(q) /\ Send(p, Result(n, 200, Payload(q)))

\* The replies handle_query has at once.
Answer(p, q, n) ==
  \/ Bogus(q) /\ Send(p, Error)
  \/ ~ Bogus(q) /\ FullyLate(q) /\ Send(p, Result(n, 404, {}))
  \/ ~ Bogus(q) /\ InSight(q) /\ Beg(q) < Lower(iq)
       /\ Send(p, Result(n, 206, Payload(q)))
  \/ ~ Bogus(q) /\ InSight(q) /\ Lower(iq) <= Beg(q)
       /\ Send(p, Result(n, 200, Payload(q)))

\* Variant: the request replaces those that wait for the same end.
HoldLatest(c, p, q, n) ==
  /\ ~ Bogus(q) /\ Early(q)
  /\ pending' = [pending EXCEPT ![End(q)] = <<
        [client |-> c, detmask |-> q.detmask, tstart |-> Beg(q),
         seqno |-> n, from |-> p]>>]

\* The request joins those that wait for the same end.
Hold(c, p, q, n) ==
  /\ ~ Bogus(q) /\ Early(q)
  /\ pending' = [pending EXCEPT ![End(q)] = Append(@,
        [client |-> c, detmask |-> q.detmask, tstart |-> Beg(q),
         seqno |-> n, from |-> p])]

\* Where the requests of p are held, as <<key, position>>.
HeldFor(p) ==
  UNION {{<<k, i>> : i \in {j \in DOMAIN pending[k] : pending[k][j].from = p}} :
           k \in Ticks}

\* The codec object takes the fields of the QUERY whatever the state.
RecvQuery(p, q) ==
  /\ Receive(p)
  /\ Cardinality(HeldFor(p)) < MaxOutstanding
  /\ message' = [tstart |-> q.tstart, tspan |-> q.tspan]
  /\ \E c \in Clients :
       /\ Serves(c, p)
       /\ \/ /\ StateOf(c) = "start"
             /\ Refuse(c, p)
             /\ UNCHANGED <<pending, asked>>
          \/ /\ StateOf(c) = "connected"
             /\ asked' = [asked EXCEPT ![p] = Append(@, q)]
             /\ LET n == Len(asked[p]) + 1   \* the client counts its queries
                IN  \/ Answer(p, q, n) /\ UNCHANGED pending
                    \/ Hold(c, p, q, n) /\ UNCHANGED out
             /\ UNCHANGED clients
  /\ UNCHANGED <<iq, detmask, water, ingest, pc, arrived, kept>>

-----------------------------------------------------------------------------
(***************************************************************************)
(* The ingest handler s_server_handle_ingest.                              *)
(***************************************************************************)

\* (1) Slurp what waits on the socket; the mask decides what is kept.
Slurp(batch) ==
  /\ pc = "poll"
  /\ ingest
  /\ batch # {}
  /\ \A tp \in batch : Upper(iq) <= tp.tstart + Skew
  /\ LET match == {tp \in batch : tp.detid \cap detmask # {}}
     IN  /\ iq' = Insert(iq, match)
         /\ kept' = kept \cup match
  /\ arrived' = arrived \cup batch
  /\ pc' = "serve"
  /\ UNCHANGED <<clients, message, pending, detmask, water, ingest,
                 out, asked, sent>>

\* Variant: a request waits until the queue's end is past its key.
DueStrictly == {k \in Ticks : pending[k] # <<>> /\ k < Upper(iq)}

\* Keys the queue's end has reached.
Due == {k \in Ticks : pending[k] # <<>> /\ k <= Upper(iq)}

\* (2) The next due request, by key and then by age: its context executes
\* query_is_satisfied with status 200.  A context at that address which is in
\* the start state has no such event.  When nothing is allocated there the
\* program uses freed memory: it is taken to crash, and nothing it might do
\* after is relied on.
Serve ==
  /\ pc = "serve"
  /\ Due # {}
  /\ LET k == Min(Due)
         r == Head(pending[k])
         p == clients[r.client].peer
     IN  /\ pending' = [pending EXCEPT ![k] = Tail(@)]
         /\ \/ /\ clients[r.client].state = "connected"
               /\ Send(p, Result(r.seqno, 200, Payload(message)))
               /\ UNCHANGED <<clients, pc>>
            \/ /\ clients[r.client].state = "start"
               /\ Refuse(r.client, p)
               /\ UNCHANGED pc
            \/ /\ clients[r.client].state = "free"
               /\ pc' = "crashed"
               /\ UNCHANGED <<clients, out>>
  /\ UNCHANGED <<message, iq, detmask, water, ingest, arrived, kept, asked, sent>>

\* (3) Purge.  The span is compared as a uint64, so that of an empty queue, -1,
\* is above any mark; erasing from an empty queue does nothing.
Span == Upper(iq) - Lower(iq)
AboveHwm == Span < 0 \/ water.hwm < Span

Purge ==
  /\ pc = "serve"
  /\ Due = {}
  /\ \/ AboveHwm /\ iq' = EraseBelow(iq, Upper(iq) - water.lwm)
     \/ ~ AboveHwm /\ UNCHANGED iq
  /\ pc' = "poll"
  /\ UNCHANGED <<clients, message, pending, detmask, water, ingest,
                 out, arrived, kept, asked, sent>>

-----------------------------------------------------------------------------
(***************************************************************************)
(* server_method: the application's commands on the actor pipe.            *)
(***************************************************************************)

\* INGEST; an application sends it once.
StartIngest ==
  /\ pc = "poll"
  /\ ~ ingest
  /\ ingest' = TRUE
  /\ UNCHANGED <<clients, message, pending, iq, detmask, water, pc,
                 out, arrived, kept, asked, sent>>

SetDetmask(m) ==
  /\ pc = "poll"
  /\ detmask' = m
  /\ UNCHANGED <<clients, message, pending, iq, water, ingest, pc,
                 out, arrived, kept, asked, sent>>

\* QUEUE takes any two numbers; it does not purge.
SetQueue(w) ==
  /\ pc = "poll"
  /\ water' = w
  /\ UNCHANGED <<clients, message, pending, iq, detmask, ingest, pc,
                 out, arrived, kept, asked, sent>>

-----------------------------------------------------------------------------
Init ==
  /\ clients = [c \in Clients |-> Free]
  /\ message = [tstart |-> 0, tspan |-> 0]
  /\ pending = [k \in Ticks |-> <<>>]
  /\ iq = {}
  /\ detmask = DetBits
  /\ water = InitSetting
  /\ ingest = FALSE
  /\ pc = "poll"
  /\ out = [p \in Peers |-> <<>>]
  /\ arrived = {}
  /\ kept = {}
  /\ asked = [p \in Peers |-> <<>>]
  /\ sent = [p \in Peers |-> 0]

Protocol(p) ==
  \/ RecvHello(p)
  \/ RecvPing(p)
  \/ RecvGoodbye(p)
  \/ RecvUnexpected(p)
  \/ RecvMalformed(p)
  \/ \E q \in Queries : RecvQuery(p, q)

Method ==
  \/ StartIngest
  \/ \E m \in DetMasks : SetDetmask(m)
  \/ \E w \in QueueSettings : SetQueue(w)

\* Each TPSet is received once.
Ingest == \E batch \in SUBSET (TPSets \ arrived) : Slurp(batch)

Next ==
  \/ \E p \in Peers : Protocol(p)
  \/ \E c \in Clients : Expire(c)
  \/ Ingest
  \/ Serve
  \/ Purge
  \/ Method

Spec == Init /\ [][Next]_vars

\* The thread finishes a handler it has started.
Fairness == WF_vars(Serve) /\ WF_vars(Purge)
FairSpec == Spec /\ Fairness

\* Moreover the application configures the ingest socket and the stream of
\* TPSets goes on while the server polls.
StreamSpec == FairSpec /\ WF_vars(StartIngest) /\ WF_vars(Ingest)

-----------------------------------------------------------------------------
(***************************************************************************)
(* Properties.                                                             *)
(***************************************************************************)

\* Every variable has the type its declaration in the program gives it.
TypeOK ==
  /\ clients \in [Clients -> Contexts]
  /\ message \in Registers
  /\ pending \in [Ticks -> Seq(Requests)]
  /\ iq \in SUBSET Entries
  /\ detmask \in SUBSET DetBits
  /\ water \in Settings
  /\ ingest \in BOOLEAN
  /\ pc \in {"poll", "serve", "crashed"}
  /\ out \in [Peers -> Seq(Messages)]
  /\ arrived \in SUBSET TPSets
  /\ kept \in SUBSET arrived
  /\ asked \in [Peers -> Seq(Queries)]
  /\ sent \in [Peers -> 0 .. MaxSend]

\* No request waits for data the queue already has: whenever the loop polls,
\* every key of pending is past the end of the queue.  handle_query compares
\* with the end of its moment; the ingest handler, which alone moves the end,
\* must drain everything due, and its purge must not lower the end.
PendingIsFuture ==
  pc = "poll" => \A k \in Ticks : pending[k] # <<>> => Upper(iq) < k

\* The depth of the queue: whatever the order of arrival and however QUEUE
\* is reconfigured, a TPSet that was accepted and reaches into the last Depth
\* ticks before the end of the queue is still there, at least over those ticks.
RecentKept ==
  \A tp \in kept : tp.tspan > 0 /\ Upper(iq) - Depth < TpEnd(tp) =>
    \E e \in iq : /\ e.tp = tp
                  /\ e.lo <= tp.tstart \/ e.lo <= Upper(iq) - Depth

\* What is left of a message is a part of it, and nothing is in the queue that
\* was not accepted.
QueueFromKept ==
  \A e \in iq : e.tp \in kept /\ e.tp.tstart <= e.lo /\ e.lo < TpEnd(e.tp)

\* Before tick h nothing is left, from h on everything accepted is there, and
\* h is at least Depth ticks back.
Horizon(h) ==
  /\ h <= Upper(iq) - Depth
  /\ \A e \in iq : h <= e.lo
  /\ \A tp \in kept : tp.tspan > 0 /\ h < TpEnd(tp) =>
       \E e \in iq : e.tp = tp /\ (e.lo <= tp.tstart \/ e.lo <= h)

\* The queue has no hole: one horizon parts what was purged from what is kept,
\* message by message and tick by tick.  A TPSet that arrives after the cut has
\* passed it would stand alone before the horizon; a stream less out of order
\* than the queue is deep has none.
NoHole == \E h \in (-Depth) .. MaxTick : Horizon(h)

\* The end of the queue never moves back, neither by a late TPSet nor by a
\* purge: a query that could be answered before stays answerable.
EndNeverMovesBack == [][Upper(iq) <= Upper(iq')]_vars

\* The messages sent to p in this step.
New(p) == SubSeq(out'[p], Len(out[p]) + 1, Len(out'[p]))
NewResults(p) == {m \in Range(New(p)) : m.type = "RESULT"}

\* Of some TPSets, those a detector mask matches.
Selected(tps, mask) == {tp \in tps : tp.detid \cap mask # {}}

\* Status 200 to a query on its arrival means that nothing is missing: of the
\* TPSets its mask matches, the payload has all that were accepted and overlap
\* its interval, purged or not, and no others (src/README.org:158-166).  It needs
\* a stream less out of order than the queue is deep.  The payload may hold
\* TPSets that the mask does not match, against src/README.org:184-186:
\* set_payload tests no mask, and nothing is claimed of them here.
SuccessIsComplete ==
  [][pc = "poll" => \A p \in Peers : \A m \in NewResults(p) : m.status = 200 =>
       LET q == asked'[p][m.seqno]
       IN  Selected(m.payload, q.detmask)
             = Selected({tp \in kept : Overlaps(tp, Beg(q), End(q))}, q.detmask)]_vars

\* The purge bounds the queue: back at polling it spans no more than the
\* larger of the two water marks.
PurgeBounds ==
  [][pc = "serve" /\ pc' = "poll" =>
       (Upper(iq) - Lower(iq))' <= Max({water.lwm, water.hwm})]_vars

\* RESULTs to p that carry seqno n.
ResultsFor(p, n) ==
  {i \in DOMAIN out[p] : out[p][i].type = "RESULT" /\ out[p][i].seqno = n}

\* No query is lost and none is answered twice: of each query that reached a
\* connected context and was not bogus, there is exactly one RESULT to the
\* peer that asked, or exactly one request held.
OneAnswerEach ==
  \A p \in Peers : \A n \in DOMAIN asked[p] : asked[p][n].detmask # {} =>
    Cardinality(ResultsFor(p, n))
      + Cardinality({h \in HeldFor(p) : pending[h[1]][h[2]].seqno = n}) = 1

\* Every RESULT that was sent to p with payload answers the query of p that
\* has its seqno: the payload lies in that query's interval.
AnswerMatchesQuery ==
  \A p \in Peers : \A i \in DOMAIN out[p] : out[p][i].type = "RESULT" =>
    /\ out[p][i].seqno \in DOMAIN asked[p]
    /\ LET q == asked[p][out[p][i].seqno]
       IN  \A tp \in out[p][i].payload : Overlaps(tp, Beg(q), End(q))

\* No callback uses a context that has been freed.
NoFreedContextUsed == pc # "crashed"

\* A peer gets a RESULT only while it is connected: some COVERAGE went before
\* it and no GOODBYE_OK came between, whoever held its context's address before.
GreetedBeforeResult ==
  \A p \in Peers : \A i \in DOMAIN out[p] : out[p][i].type = "RESULT" =>
    \E j \in 1 .. (i - 1) :
      /\ out[p][j].type = "COVERAGE"
      /\ \A k \in (j + 1) .. (i - 1) : out[p][k].type # "GOODBYE_OK"

\* The end of the queue when every TPSet has arrived.
StreamEnd == Upper(Insert({}, TPSets))

\* While its context stays, every query that is not bogus and that the stream
\* reaches is answered, early ones too: no request is forgotten in pending.
EveryQueryAnswered ==
  \A p \in Peers : \A n \in 1 .. MaxSend :
    /\ n \in DOMAIN asked[p]
    /\ asked[p][n].detmask # {}
    /\ End(asked[p][n]) <= StreamEnd
    ~> ResultsFor(p, n) # {}

=============================================================================
