# TPQuery in TLA+

TLA+ modules, TLC configurations and TLAPS proofs for `tpquery`: a server that
keeps the recent trigger primitive messages (TPSets) of a detector in an interval
queue and answers queries for intervals of time, the client class that asks, the
codec both speak through, and the interval containers (a copy of Boost ICL) that
the queue is made of. `PROJECT.json` maps every definition that models code to its
source lines.

## 1. The system

| part | source | state it keeps | operations |
|------|--------|----------------|------------|
| `tpq_server` | `src/src/tpq_server.cpp` | interval queue `iq`, requests held `pending` (keyed by the end of the query), water marks, detector mask, ingest socket | `server_initialize`, commands `INGEST`, `DETMASK`, `QUEUE`, the ingest handler (slurp, drain, purge), `handle_query`, payload |
| server engine | `src/src/tpq_server_engine.inc` | hash of client contexts by routing id, a state and an expiry ticket for each, one codec object `message` | protocol handler, state machine, context creation and end, expiry, the commands of the actor itself (`BIND`, `$TERM`, ...) |
| `tpq_client` | `src/src/tpq_client.cpp` | `retries`, `seqno` | actions of the state machine, `check_status_code`, `check_if_connection_is_dead` |
| client engine | `src/src/tpq_client_engine.inc` | state, `fsm_stopped`, `connected`, expiry timer, arguments | handlers of pipe, socket and timer; blocking API `say_hello`, `query`, `connected`, `destroy` |
| `tpq_codec` | `src/src/tpq_codec.cpp` | fields of the last message, routing id, payload | send, receive, setters and getters, dup, save to and load from a text (`zpl`) |
| intervals | `src/src/icl/concept/interval.hpp` and the interval types | limits and bound bits | constructors, relations, hull, subtraction, intersection, complement |
| interval sets and maps | `src/src/icl/interval_*`, `split_*`, `separate_*`, `concept`, `detail` | a `std::set` or `std::map` of disjoint segments | add, subtract, insert, erase, set, flip, section, join, absorb, searches |
| element containers, iteration, comparison | `src/src/icl/map.hpp`, `detail/element_iterator.hpp`, `detail/*compar*.hpp` | elements; positions in one or two containers | the meaning of the interval containers; loops over them |
| `tpqsvc`, `tpqclt` | `src/src/tpqsvc.cpp`, `tpqclt.cpp` | the actor they own | start-up commands; a loop of queries |
| the rest | selftests, zproto XML, build files | | |

How they meet:

- The application calls blocking methods of the client class; each sends a command
  on a pipe and waits on the same pipe for a reply of an accepted kind, and drops
  other replies. The client actor turns commands, server messages and expiries
  into events of its state machine.
- Client and server speak `HELLO/COVERAGE`, `QUERY/RESULT`, `PING/PONG`,
  `GOODBYE/GOODBYE_OK` and `ERROR` over a DEALER and a ROUTER socket, each through
  one codec object that it reuses for everything. The server makes a context for
  the first message of a routing id.
- TPSets come in on an ingest socket that the loop of the server reads; the
  handler takes all that is waiting, answers the held requests whose end has come
  and purges the queue. The queue is an ICL interval map from ticks to sets of
  message pointers.
- The application of the server configures it on the actor pipe at any time.
- All contexts of one server share one codec object. The ingest handler answers
  through it whatever it last received.

What is hard here:

- *Time against arrival.* A query may come before, while or after its data does,
  and data of several links come out of order. The queue's end moves with the
  newest message and the purge follows the end.
- *Deferred answers.* A request is held across any number of callbacks with the
  raw address of a context that other callbacks may free and `malloc` may reuse.
- *Shared registers.* Between a query and its deferred answer any client may
  overwrite the codec's fields.
- *Protocol order.* Peers may speak in any order; a refused peer's context is
  freed and made anew by its next word.
- *Timeouts.* The client's heartbeat races answers. The server's ticket races
  held requests.
- *Restart.* Nothing is persisted; contexts and held requests die with the server,
  messages under way may or may not.
- *Widths and frames.* A frame is sized by one switch and filled by another; fields
  of 8 bytes go through signed text; a frame may be cut in the middle.
- *Ownership.* Payloads and routing ids move between caller and codec by seven
  functions, each with its own rule of who frees them.
- *Segments.* Operations on interval containers split, combine and rejoin segments
  around both ends of an operand, with iterators into what they change, and
  comparisons walk two differently cut containers at once.

What makes each part correct:

- *Queue*: nothing accepted and recent is lost; one horizon parts purged from kept;
  the span is bounded after a purge; the end never moves back.
- *Query handling*: at polling nothing due is held; each query is answered exactly
  once or held exactly once; status 200 on arrival means complete; an answer lies
  in the interval asked for; a query the stream reaches is answered.
- *Contexts*: a RESULT only goes to a connected peer; no freed context is used.
- *Client*: at most one query is outstanding from the application to the server
  and back; a call returns its own answer; a call returns; only unanswered PINGs
  count against the server; a restarted server is found again.
- *Codec*: what is received is what was sent; a frame is filled exactly; a message
  changes only its own fields; each payload has one owner; copies are faithful.
- *Intervals*: every operation and relation says of limits and bounds what it says
  of elements.
- *Containers*: segments stay ordered, disjoint and joined as their type promises,
  and every operation and query does what the container of elements does, however
  the segments are cut.
- *Comparisons*: the loops end and answer inclusion, equality or order of the
  elements.

## 2. Modules

| module | models |
|--------|--------|
| `TPQueue` | the queue's operators and the int64 arithmetic of queries; no variables |
| `TPQServer`, `MCTPQServer` | the server actor: engine, handlers, codec registers, commands, and its properties; its small instances |
| `TPQServerProofs` | lemmas about the queue; theorems about the queue, the contexts and the answers of `TPQServer` |
| `TPQClient` | application, blocking API, client actor |
| `TPQSession`, `MCTPQSession` | one client composed with the server as that client sees it, with faults; its small instances |
| `TPQSessionProofs` | theorems about the session |
| `TPQCodec`, `MCTPQCodec` | two codec objects at the ends of a connection, what their owners do with them; its small instance |
| `TPQCodecProofs` | theorems about types, ownership and frames of the codec, and about what is received and copied |
| `ICLInterval` | intervals: bounds, constructors, relations, operations; no variables |
| `ICLIntervalOps`, `ICLIntervalProofs` | a caller of the interval algebra, its properties, and their proofs |
| `ICLIntervalSet`, `ICLIntervalMap` | operators of the three interval sets and of the interval maps; no variables |
| `ICLElementMap` | operators of the containers of single elements, the meaning of the former |
| `ICLElementIterator` | iteration over the elements of a segment container |
| `ICLContainers`, `MCICLContainers` | one container of any of the seven types and its caller; its small instance |
| `ICLSetProofs`, `ICLMapProofs` | lemmas about the operators of intervals and sets, and about those of maps |
| `ICLContainerProofs` | theorems about the container |
| `ICLInclusion` | abstract specification: a comparison answers once, with a relation of the elements |
| `ICLPasses`, `ICLSubsetCompare`, `ICLElementCompare`, `ICLFlatCompare` | what the comparing loops share, and the three loops |
| `ICLComparisons`, `MCICLComparisons` | the three loops composed, shown to implement `ICLInclusion`; the containers compared |
| `ICLComparisonProofs` | theorems about the loops, the refinement among them |

Operators marked *Variant* are the definition that follows them with a plausible
mistake; no specification uses them. Every property is checked to fail when such a
variant takes the place of the original.

### TPQueue and TPQServer

`iq` is a set of entries `[tp, lo]`: message `tp` covers `lo .. TpEnd(tp)-1` in the
map. A message is added over its interval and the only removal is everything below
a cut, so one interval is left of each message, and a set of entries
holds as much as the segments of the ICL map do: `icl::lower`, `icl::upper` and the
intersection with an interval are `Lower`, `Upper` and `Fetch`. `-1`, the span of an
empty map, is explicit in `Span` and `AboveHwm`. That the map itself works this way, segment
by segment, is what `ICLContainers` checks.

`clients` maps addresses to contexts. `malloc` may return any free address, so a
context may be born where another one was freed. `pending` maps each key (the
int64 end of a query) to the requests that wait for it, in the order of insertion,
as the multimap does. `message` holds `tstart` and `tspan` of the codec object,
overwritten by every QUERY in whatever state, and read by `set_payload` when a held
request is served. `out`, `arrived`, `kept`, `asked` and `sent` are histories of
inputs and outputs: no guard of the program's reads them except to bound a run.

A callback is one step, except the ingest handler. It is `Slurp`, one `Serve` for each
request due, and `Purge`, under `pc`; no other action runs while `pc = "serve"`. The
split shows each answer; it adds no interleaving.

| action | code |
|--------|------|
| `RecvHello`, `RecvPing`, `RecvGoodbye`, `RecvUnexpected`, `RecvMalformed` | `s_server_handle_protocol` and the rows of `s_client_execute` |
| `RecvQuery` (`Answer`, `Hold`, `Refuse`) | the same, and `handle_query` with the events it raises |
| `Expire` | `s_client_handle_ticket` and the `expired` rows |
| `Slurp`, `Serve`, `Purge` | the three parts of `s_server_handle_ingest` |
| `StartIngest`, `SetDetmask`, `SetQueue` | `server_method` |

What `Serve` does at the address a request kept depends on what is there now: a
connected context sends a RESULT to *its* peer; one in the start state has no such
event and refuses; at a freed block the program has undefined behaviour, which the
model takes as the end of the run (`pc = "crashed"`). That choice loses behaviours
only after the defect that `ServerFreed` exhibits.

`Conduct` is what peers may do beside HELLO and QUERY: `PING`, `MALFORMED` (dropped by the codec),
`GOODBYE`, `REHELLO`, `UNEXPECTED`, and let their ticket `EXPIRE`.

### TPQClient and TPQSession

`commands` and `pipe` are the two directions of the actor pipe, `toServer` and
`toClient` those of the connection. Time is abstracted: an armed timer may fire at
any moment, so every race of an answer with an expiry is in the model. An expiry in
the client does not end a call: the timeout of a query is stored in the arguments
and read by `say_hello` and by the reconnect path alone.

| action | code |
|--------|------|
| `SayHello`, `Query`, `Connected`, `Destroy` | the class methods, up to the wait |
| `AcceptReply`, `ReadFlag`, `Destroyed` | `s_accept_reply`, the read of `$CONNECTED`, the end of `tpq_client_destroy` |
| `HandleCmdpipe`, `HandleProtocol`, `HandleExpiry` | the callbacks of the engine, each with the row of `s_client_execute` it runs |
| `Take`, `ServeHeld` | the server, for one client: data that decides between answer and hold is left open |
| `Crash`, `Restart`, `ContextExpires`, `InternalError` | faults: death and restart of the server with any split of the messages under way into lost and kept; the server's ticket; an ERROR 502 |

`InternalError` is outside what `tpq_server` sends (it knows 500 only). It is there
because the client has code for it (the reconnecting state), and a client must
survive any server of its protocol.

### TPQCodec

`codec[e]` is the object of end `e` with every field of `struct _tpq_codec_t`. A frame is
a sequence of bytes of base `Byte`, written and read number by number with the widths of
the PUT and GET macros, strings cut at the size of their array, `FrameSize` computed apart from
`DataFrame` as in `tpq_codec_send`. `tpq_codec_recv` consumes a data frame, and for RESULT
the rest of its message as payload; a frame cut short jumps to `malformed` in the middle of
its fields. `heap` holds the `zmsg_t` objects, so leaks and double ownership are states.
The copies (`tpq_codec_dup`, and `tpq_codec_zpl` read back by `tpq_codec_new_zpl`, a text with
signed numbers and hexadecimal digits that somebody may edit in between) make a second object whose
content is compared. `MessagesAssumption` is what the C types of the setters' arguments allow: strings without a
zero byte, integers of any value (the setter cuts them to the width), at most one `zmsg_t`.

### The ICL modules

An interval is `[lo, up, b]` with two bound bits; the four statically bounded types and
`discrete_interval` differ in what they construct. `ICLIntervalOps` puts every interval the
library can produce from small limits into two registers, inverted limits included.

A set is the TLA+ set of its intervals and a map the set of its segments `[itv, val]`, ordered
by `exclusive_less`; an iterator is the segment it points to, and `lower_bound` and
`upper_bound` find what an operand overlaps. The types differ in two traits: whether neighbours
are joined, and whether identities (empty values) are absorbed. `ICLContainers` applies any
sequence of operations, and its invariants compare every operation and query with
`ICLElementMap`, which is translated from `icl::map` key by key. `IterationExact` asks of a walk that it
ends at the end, that the set of what it dereferences is the set of elements, and that it dereferences
them in order.

The comparers are loops over two iterators, one step per pass, with the `state` variable of
the code. `ICLComparisons!Promised` is `INSTANCE ICLInclusion` with the answer taken from
the stopped loop: `AnswersAsPromised` is refinement, the end of the loop included.
`ComparisonsAssumption` is what the containers of the library are: disjoint segments in ascending order,
none empty, of one tick for the containers of elements; and the `operator <` of the values of two maps that are
put in order is asymmetric, with neither less than the other for equal values only.

## 3. Runs

All bounds are constants of the configurations. Deadlock is not checked where the stream and
the bounded inputs can be used up or a loop has ended; it is in `Intervals` and `Containers`, where the
caller always has a next operation.

| run | instance | what it shows |
|-----|----------|---------------|
| `ServerQueue` | 7 TPSets in any order within `Skew = Depth = 2`, 3 settings of the water marks, 2 masks, one peer with 2 messages | `TypeOK`, `PendingIsFuture`, `RecentKept`, `NoHole`, `AnswerMatchesQuery`, `EndNeverMovesBack`, `PurgeBounds`, `SuccessIsComplete` |
| `ServerContexts` | two peers and two addresses, 3 messages each, every conduct | `GreetedBeforeResult` |
| `ServerLive` | two peers, 3 messages each, two queries of which may be held at once, one ending where the stream does | `OneAnswerEach`, `EveryQueryAnswered` |
| `SessionCalls` | 3 queries, 2 faults of any kind, good and bad endpoints and masks | `TypeOK`, `OneOutstanding`, `RetriesUnanswered`, `ResultIsOwn`, `EveryCallReturns` |
| `Codec` | 8 messages at the ends of their widths, whole or cut at 5 places, 6 calls | `TypeOK`, `BufferIsFilled`, `ReceivedIsSent`, `CopyIsFaithful`, `OneOwner`, `OtherFieldsSurvive` |
| `Intervals` | limits 0 to 4, all bounds, both registers, all five types | `TypeOK`, `OperationsExact`, `ConstructorsExact`, `RelationsExact`, `OrderIsTotal`, `SizesExact` |
| `Containers` | 4 ticks, two values, at most 3 segments, all seven types | `TypeOK`, `SegmentOpsExact`, `OperandOpsExact`, `SetOpsExact`, `QueriesExact`, `JoinCoalesces`, `IterationExact` |
| `Comparisons` | all pairs of sets over 5 ticks and of maps over 3, cut in every way; of element sets over 5 and element maps over 4 | `TypeOK`, `AnswersAsPromised` |

Why the bounds are enough:

- *Server.* Ticks run from 0 to 9 and an int64 has the values -16 .. 15 (`Half = 16`): a sum of
  tick and span wraps within reach, and one query has a uint64 start that is the image of
  a negative tick. Streams have two links whose TPSets abut, overlap, straddle cuts and may be
  empty; each batch is any non-empty subset of what has not arrived. One pair of water marks has
  the low one above the high one. The server treats requests one by one and contexts one by
  one, so two peers, two addresses and two queries held give each pair that can meet
  (same key, different keys, same address one after the other). TPSets that come later
  than the queue is deep (`Skew > Depth`) are not in `ServerQueue`: they make `NoHole` and
  `SuccessIsComplete` fail (below), and for the other properties the theorems of section 5
  allow any skew.
- *Session.* `MaxFlight` bounds the messages under way only when a PING is sent. Two faults give
  a fault during the recovery of another; three queries give one before, between and after.
- *Codec.* A byte is a decimal digit (`Byte = 10` for 256) and a hexadecimal digit has base 4
  (`Digit`), so eight bytes fit TLC's integers; widths and the boundary between the signed and the
  unsigned half keep their place. Messages have the low and the high end of a
  width, a string that fills its array and one that is cut, a payload that is missing, empty and of two
  frames, one of them like a message. Six calls reach two messages under way and a copy of what was received.
- *Intervals.* Five limits give every order in which four bounds can lie, adjacent or apart. The
  theorems need no bound.
- *Containers.* Three segments are a left, a middle and a right one around any operand; the
  operands of at most two segments reach over each end and leave a gap. Operands with two segments are
  only compared (`OperandOpsExact`), not applied further (`MaxPassed = 1`): the containers they
  result in are reached by segments too. Values are permuted by symmetry: they are only compared.
- *Comparisons.* The initial states are all pairs of containers of the size; five ticks let each iterator
  overtake the other twice.

### Fairness

- `Fairness` of the server is weak fairness of `Serve` and `Purge`: the thread
  finishes a handler it has entered.
- `StreamSpec` adds that the application sends `INGEST` and that TPSets go on
  arriving while the server polls: `zloop` serves every ready socket, and the ingest
  handler drains its socket at each call. No fairness is assumed of peers.
- `TPQSession!Fairness`: both loops serve ready sockets, a call that can return
  does, an armed timer fires in the end, a held query is reached by the stream, a dead
  server is started again. Nothing makes the application call anything.
- `ICLComparisons!Spec`: a loop goes on until it stops.

### Disagreements between code and documentation

These runs must find a violation.

| run | what the documentation says | what the code does |
|-----|-----------------------------|--------------------|
| `ServerSharedCodec` | a query returns TPSets that overlap *its* interval (`src/README.org:158-160`) | a held query is answered with the interval of the last QUERY received from anyone (`tpq_server.cpp:417`) |
| `ServerFreed` | a held query's result goes to its client (`src/README.org:177-180`) | the request keeps the address of a context that GOODBYE, expiry or an error has freed (`tpq_server.cpp:329`, `520`) |
| `SessionReconnect` | the client reconnects if the server dies and restarts (`src/include/tpq_client.hpp:55-57`) | reconnecting is reached through status 502 alone, which the server never sends; a query after the restart gets 500, stops the state machine and blocks its caller (`tpq_client.cpp:201`) |
| `CodecShort` | `tpq_codec_recv` returns -2 if the message is malformed (`tpq_codec.cpp:620-622`) | a field that does not fit what is left of the frame ends the receive with 0, the fields after it left from an earlier message (`tpq_codec.cpp:675`) |

Seen while modelling, without a run of their own. In the server and the client:

- A held query that is answered always gets status 200 (`tpq_server.cpp:328`); `src/README.org:180-182`
  says 206 unless its interval is inside the queue's.
- The mask is tested by `! want & mask`, and `!` binds first: only an empty mask is rejected
  (`tpq_server.cpp:454`, against `src/README.org:189-191`).
- The mask of a query selects nothing from the payload (`tpq_server.cpp:424`), though `src/README.org:158-160`
  and `184-186` say that only TPSets that match it are returned: `request_t::detmask` is stored and never read.
  `SuccessIsComplete` therefore speaks of the matching TPSets, the ones promised; that the RESULT of a query for
  one detector bit may hold TPSets of another is visible in `ServerQueue`, whose masks and TPSets have two bits.
- A query whose end overflows an int64 has a negative end and is answered 404
  (`tpq_server.cpp:461`); `ServerQueue` includes its neighbourhood.
- With a stream further out of order than the queue is deep (`Skew > Depth`)
  `NoHole` and `SuccessIsComplete` fail: a late TPSet stands alone before the cut,
  `Lower` moves back to it, and a query over the gap is told 200. The README of the
  program warns that out-of-order messages reduce the depth; not that the status
  becomes wrong.
- A context born at a freed address gets the answers of the request that was
  held for the old one, so a peer may get a RESULT it did not ask for; it is
  connected when it does (`GreetedBeforeResult` is what remains true).
- A call blocks for ever when `say_hello` has a bad endpoint, and when the server answers a
  query with an ERROR: the state machine stops without a reply. `EveryCallReturns` excepts
  both, and nothing else, while the server is up.

In the codec: `tpq_codec_zpl` of a RESULT encodes the payload without asking whether there is one,
as `tpq_codec_send` does, and fails an assertion of czmq if not (`tpq_codec.cpp:965`); the model saves
only what has a payload. `BYTES_FROM_STR` returns NULL from `tpq_codec_new_zpl` without freeing the object
it had begun (`tpq_codec.cpp:208`); `OneOwner` counts `zmsg_t` objects only, neither codec objects nor the frames
of routing ids.

In the interval library:

- `operator <` is no order between a non-empty interval and an empty one to its right: each is
  less than the other. `OrderIsTotal` is stated without that pair.
- `flip` of an empty interval on a non-empty container iterates from the end; the caller of
  `ICLContainers` flips non-empty ones.
- `set_at` with an empty value erases in an absorbing interval map and does nothing in the
  element map, whose code for it would not compile if it were instantiated.
- `add_intersection` of a segment with an empty value keeps the values of an absorbing map.
- `element_comparer.hpp:127` and `149` call a member `touches` of a key, which `discrete_interval` does not have
  and which would not compile if the comparer were instantiated with it; the model takes it as the free function.
- `Set::within` (`detail/set_algo.hpp:66`) ignores elements outside the common range;
  no container calls it.
- `add_if` of `icl::map` does not end when the predicate is false, and `assign_if` passes its arguments in
  the wrong order; neither is used.

## 4. Abstractions and what is not modelled

TPSets are records of what the queue tells apart: one start, one span, a set of detector
bits; ticks are small naturals, and `QueueAssumption` states that `tstart + tspan` of a
TPSet does not overflow. In `TPQServer` and `TPQSession` messages are records; their bytes are in
`TPQCodec`. Statuses are numbers, texts are left out. Nodes of `std::set` and `std::map` are the
segments themselves; hints to insertion are left out, as they change no result.

Not modelled, and why:

- the actor's own commands (`BIND`, `UNBIND`, `PORT`, `CONFIGURE`, `SET`, `SAVE`,
  `VERBOSE`, `$TERM`) and the watch on the configuration file: they change no state
  a query depends on, or end the actor;
- a second `INGEST`, which destroys a socket that stays registered with the loop:
  what follows depends on libzmq and czmq, and the repository's application sends
  one;
- events that no code raises (`exception`, `wakeup`, `hello_ok`, `destructor`) and
  the client's `GOODBYE`, which no method sends;
- a query before `say_hello` (an assertion in the client's state machine) and a
  client that receives messages only clients send;
- `tpq_codec_print` and the selftests: output and tests;
- continuous intervals, the order `std::greater`, total maps, maps with inverse aggregation,
  streaming, dates and rationals of ICL: the program instantiates none of them;
- the free `add` of `detail/interval_set_algo.hpp`, which goes by the position that `std::set::insert` returns
  among several overlapping intervals;
- generated headers, build files, debug output and the counters that feed it.

## 5. Proofs

Eight modules hold theorems; each holds for every value of the constants that satisfies the
assumptions of the module it is about.

| theorem | statement | needs |
|---------|-----------|-------|
| `TPQServerProofs!TypeCorrect` | `Spec => []TypeOK` | |
| `QueueInvariant` | `Spec => []QueueInv` | `TypeOK` |
| `RecentDataKept` | `Spec => []RecentKept` | `QueueInv` |
| `EndMonotonic` | `Spec => EndNeverMovesBack` | `QueueInv` |
| `NothingDueLeftWaiting` | `Spec => []PendingIsFuture` | `QueueInv` |
| `QueueHasNoHole` | `Skew <= Depth` gives `Spec => []NoHole` | `QueueInv` |
| `SuccessComplete` | `Skew <= Depth` gives `Spec => SuccessIsComplete` | `NoHole` |
| `QueueBounded` | `Spec => PurgeBounds` | `QueueInv` |
| `TPQServerProofs!OneContextEach` | `Spec => []ContextInv` | `TypeOK` |
| `ResultsAreGreeted` | `Spec => []GreetedBeforeResult` | `ContextInv`, `GreetingInv` |
| `HeldContextsStay` | steady peers give `Spec => []HeldConnected` | `ContextInv` |
| `NoFreedContext` | steady peers give `Spec => []NoFreedContextUsed` | `HeldConnected` |
| `ExactlyOneAnswer` | steady peers give `Spec => []OneAnswerEach` | `HeldConnected`, `AnswersInv` |
| `AnswersMatchOneAtATime` | one peer, one query at a time, give `Spec => []AnswerMatchesQuery` | `ContextInv`, `QueueInv`, `FieldsInv` |
| `TPQSessionProofs!CallsAreSynchronous` | `Spec => []OneOutstanding` | `SessionInv` |
| `AnswersAreOwn` | `Spec => ResultIsOwn` | `SessionInv` |
| `SessionTypes` | `Spec => []TypeOK` | `TypeInv` |
| `RetriesStandForPings` | `Spec => []RetriesUnanswered` | `TypeInv` |
| `TPQCodecProofs!CodecInvariant` | `Spec => []CodecInv` | |
| `CodecTypes`, `PayloadsHaveOneOwner` | `Spec => []TypeOK`, `Spec => []OneOwner` | `CodecInv` |
| `FramesAreFilled` | `Spec => []BufferIsFilled` | `CodecInv` |
| `FieldsSurvive` | `Spec => OtherFieldsSurvive` | `CodecInv` |
| `TPQCodecProofs!RoundTripInvariant` | `Spec => []RoundTripInv` | `CodecInv` |
| `ReceivedAsSent`, `CopiesAreFaithful` | `Spec => []ReceivedIsSent`, `Spec => []CopyIsFaithful` | `RoundTripInv` |
| `ICLComparisonProofs!ComparisonInvariant` | `Spec => []ComparisonInv` | |
| `PassesStayWithin` | `Spec => []TypeOK` | `ComparisonInv` |
| `AnswersAreRelations` | `Spec => []Answered` | `ComparisonInv` |
| `ComparisonsAnswerAsPromised` | `Spec` implements `Promised!Init /\ [][Promised!Answer]_(Promised!vars)` | `Answered` |
| `ICLIntervalProofs!IntervalsTyped`, `AlgebraExact`, `ConstructionExact`, `RelationsAreExact`, `LessIsTotal`, `SizesAreExact` | the six properties of `Intervals` | `TypeOK` |
| `ICLContainerProofs!ContainersTyped` | `Spec => []TypeOK` | `ContainerInv` |
| `SetsExact` | `Spec => []SetOpsExact` | `SetInv` |
| `SegmentOpsAreExact`, `OperandOpsAreExact` | `Spec => []SegmentOpsExact`, `Spec => []OperandOpsExact` | `ContainerInv` |
| `QueriesAreExact` | `Spec => []QueriesExact` | `ContainerInv` |
| `JoinsAreExact` | `Spec => []JoinCoalesces` | `ContainerInv` |
| `IterationsAreExact` | `Spec => []IterationExact` | `ContainerInv` |

*The queue.* The purge cuts at `Upper(iq) - water.lwm`, so what it may take away
depends on a water mark that the application changes; `RecentKept` is inductive only
together with `water \in QueueSettings` (no low mark is below `Depth`, at least 1) and
with `QueueFromKept`: each entry is a non-empty part of an accepted message. These
three make `QueueInv`. Since `lwm >= 1`, the message that gives the end reaches
past every cut and survives with its end, so `Upper` does not move: that is lemma
`PurgeFacts`, on which `EndMonotonic`, `PendingIsFuture` and `RecentKept` rest.
`Slurp` only adds entries. `QueueFrame` reduces every other action to a
stutter of the queue.

`NoHole` is inductive given `QueueInv` and `Skew <= Depth`: the horizon `h` of the state
before serves after a slurp, as no new TPSet starts before `Upper - Skew >= h`, and after a
purge the larger of `h` and the cut does. `SuccessComplete` then has the query begin at
or after `Lower(iq)`, hence at or after what the horizon allows, and every accepted
message over a later tick has an entry that covers it (`FetchComplete`). The payload is then all that overlaps
the interval, hence all of it that the mask of the query matches, which is what is promised; it has the rest too.
`TPQServerProofs` has what these need of `Insert`, `EraseBelow`, `Lower` and `Upper`, from the
facts about finite sets that `Min` and `Max` have values.

Assumptions are those of the modules: no TPSet's end overflows; a
low water mark is at least `Depth >= 1`. With `lwm = 0` the purge empties the queue and
the end falls to 0, so the second is needed; `tpqsvc` sets 5e8.

*Contexts and answers.* `ContextInv` (a live context belongs to a peer, no peer has two) holds
whatever peers do, as a context is made only for a peer that has none. `GreetingInv` adds to
`GreetedBeforeResult` that a connected context's peer has been greeted since its last
GOODBYE_OK: a RESULT is sent only from a connected context, whichever request it answers, so
dangling addresses do no harm to this property. The others need that held contexts stay:
`Steady` (conduct within PING and malformed frames) makes `HeldConnected` inductive, and this excludes the
freed context and ties each request held to the peer that asked it. `AnswersInv` says of
each query *where* its one answer is, a place in `out` or in `pending`, and that no other place has one;
the counts of `OneAnswerEach` follow from the sets of places being singletons. `FieldsInv` (with one peer and
one query at a time the codec fields are those of the query held) gives `AnswersMatchOneAtATime`;
`ServerFreed` and `ServerSharedCodec` show that neither condition can go.

*The session.* `OneOutstanding` counts four places and is not inductive: nothing in it says that the
client will not send another query. `SessionInv` says which place the one query is in
(`UnderWay`), and, while the state machine runs, which of five phases application, pipe, actor and connection
are in together: idle, in another call, query asked and not yet sent, sent, answered. A RESULT
can only come in the fourth and carries the number of the last call. Once the state machine has stopped the phases
are gone, but no query is sent any more, and a RESULT on the pipe is still first, for the
current call and the last one of its query. The steps of server and network are treated by one lemma (`Stays`): they move,
lose or consume what is under way and make nothing.

`RetriesUnanswered` compares the retries with the PINGs and PONGs that are under way or were lost in
faults. `TypeInv` adds what makes this inductive: an expiry sends a PING with each retry it counts up to the
second, an answer moves a PING from one count to another (`Flow`: no step of server or network makes or loses
one uncounted), and before the client has greeted nothing is on the connection that could be miscounted
(`Beginning`). The third retry and those after it send no PING; their bound is three and one for each fault, as
only an INTERNAL ERROR, a fault, arms the timer again without resetting the count (`RetryBound`).

*The codec.* Types, ownership and heap hold each other up: a payload has a type only if its owner points into
the heap, it points there only if nobody else frees it, and a fresh id is outside the heap only if the heap's
domain is known. `CodecInv` is all of it, with `EndsWhole` of the wires: the last frame of what is under way
ends a message, so that a receive of RESULT which takes the rest of its message as payload takes none of the
next. One lemma for each call shows both of its step. `FramesAreFilled` is then a fact about one
object whose fields have their types: the switch that sizes a frame and the one that fills it are added up
field by field.

*Round trips.* `RoundTripInv` says of each message under way that was sent whole that its frames are those of an object and a payload that say what
its sender said (`Intact`), and that it begins where the next receive looks (`Placed`), however many
messages, cut ones too, lie before it. The heart is that GET undoes
PUT: a number of a width less than its capacity is the sum of its bytes by weight, two joined sequences of
bytes come apart at the length of the first, a text field carries its own length. Since every message
has a fixed list of at most five fields, this needs no induction over the list. For texts the
invariant `TextInv` says what an exported tree shows; editing may spoil an entry or make a routing id unreadable but never change
what is shown unspoiled, and reading back refuses the one, so a copy that is made is faithful.

*Intervals.* Every interval, of any bounds, empty or inverted, has the elements `first .. last`; lemmas reduce
each constructor, relation and operation to arithmetic on these two numbers, and the statements
about sets follow from facts about integer ranges.

*Comparisons.* The invariant is a frontier, an integer `F` that the pass moves up: the segments passed end at or
before `F`, the others after it, the current ones may straddle it (`Shape`); a bit that is still set
holds of every key up to `F` (`Going`), and a bit that was cleared has been refuted by a key
(`Misfit`). Each of the steps is shown to move the frontier to the end of the segment it passes, or to stop
with every bit decided; the searches of `lower_bound` need that a non-empty set of naturals has a least element, which the library has.
The lexicographic comparison stays where both containers are alike up to `F` and stops at the first key where
they are not: `Precedes` has that key, and it is the least of `ICLInclusion!Differences`. The last lemmas restate each
relation of `ICLInclusion` key by key, and the refinement follows: before the stop nothing is told, the step that stops tells
the promised answer. Containers may have any number of segments and values of any kind. `TypeOK` here is more than types: no step reads a
segment past the end, nor a prior segment before there is one.

*Containers.* `ContainerInv` says that a set is `Fit` (its intervals are proper and apart, and in a
joining set no two touch) and a map `MapFit` (the same of its segments, no two joinable ones touch
in a joining map, and an absorber holds no empty value). Each operation with one interval or segment
is shown to keep this and to do to the elements what its element-wise counterpart does: for a set
what it does to `Has(S, e)`, for a map to `ValueAt(M, k)`, the value of each key. Between its steps
an operation on a joining map may leave a seam (two segments that meet and could be one) at an edge
of its operand: lemmas say at which keys a seam may be (`Seam`), and that the rejoin at the end
leaves none.

The operators fold over the segments that an operand overlaps, in order. A fold is the value of a
recursion over the subsets of the positions, which has a solution for every number of positions
(`FoldSolved`), and so it is the last of a sequence of states in which each comes of the one before
by a step of the loop (`FoldStates`). Each loop then has a lemma of its own, with an invariant that
says what is already done behind the last segment visited and that nothing has changed after it;
that it holds at every state is an ordinary least-counterexample argument (`Upwards`), so no
induction theorem that takes an operator as a parameter is needed. The order in which segments are
visited is that of their first elements. `flip`, `join` and `between` change or skip what they
iterate over, and their loop invariants say what is left. The lemmas about operands that are
containers hold for any number of segments; the property quantifies over those the caller passes.
Cardinality and length are sums over the segments: the segments' elements are disjoint, and the
sizes of disjoint sets add up. Distance is the sum of the gaps between neighbours. For the iterator,
the elements passed before a position are counted: a step adds one, the element it passes, and after
as many steps as there are elements the position is the end.

`ContainersAssumption` says of the constants that `Top`, the operand size and the bounds are
naturals and that `NoValue`, which stands for the absence of a key, is not a set of values. `Top`,
the number of values and the three bounds are arbitrary in the theorems.

Only model-checked is liveness: `EveryQueryAnswered`, `EveryCallReturns`, and that the comparisons
stop (the fairness in `AnswersAsPromised`; its safety is `ComparisonsAnswerAsPromised`). It needs
ENABLED and fairness, which the installed provers do not reason about. Every invariant and every
action property that a run checks is also a theorem, those of `ServerQueue` about holes and
completeness under the condition `Skew <= Depth` that the run's constants satisfy, `OneAnswerEach`
for peers as steady as those of `ServerLive`, and `AnswerMatchesQuery` for one peer with one query
at a time.
