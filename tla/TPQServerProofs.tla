-------------------------- MODULE TPQServerProofs --------------------------
(***************************************************************************)
(* Theorems about TPQServer, for every number of peers, contexts, queries, *)
(* TPSets and every setting of the queue: first what the operators of      *)
(* TPQueue return, so that the proofs about the server expand neither      *)
(* Lower nor Upper nor Int64; then the queue; then the answers, who gets a *)
(* RESULT, to which query it belongs, and that every query has one, each   *)
(* under the weakest conduct of the peers for which it holds.              *)
(***************************************************************************)
EXTENDS TPQServer, WellFoundedInduction, SequenceTheorems, FiniteSetTheorems, TLAPS

-----------------------------------------------------------------------------
(***************************************************************************)
(* Greatest and least elements: the ticks of the queue lie in 0 .. MaxTick, *)
(* and a nonempty set of naturals has a least element.                     *)
(***************************************************************************)

\* A nonempty set of naturals has a least element, found by Min.
LEMMA MinOfNaturals ==
  ASSUME NEW S \in SUBSET Nat, S # {}
  PROVE  Min(S) \in S /\ \A x \in S : Min(S) <= x
<1> DEFINE R == {ss \in Nat \X Nat : ss[1] < ss[2]}
<1>1. R = OpToRel(<, Nat)
  BY Zenon DEF OpToRel
<1>2. IsWellFoundedOn(R, Nat)
  BY <1>1, NatLessThanWellFounded, Zenon
<1> HIDE DEF R
<1>3. PICK m \in S : \A x \in S : ~ (<<x, m>> \in R)
  BY <1>2, WFMin, Zenon
<1> USE DEF R
<1>4. ASSUME NEW x \in S
      PROVE  m <= x
  <2>1. ~ (<<x, m>> \in R)
    BY <1>3
  <2>2. ~ (x < m)
    BY <2>1
  <2>3. QED
    BY <2>2
<1>5. QED
  BY <1>4 DEF Min

\* A nonempty set of ticks of the queue has a greatest element, found by Max.
LEMMA MaxOfTicks ==
  ASSUME NEW S \in SUBSET (0 .. MaxTick), S # {}
  PROVE  Max(S) \in S /\ \A x \in S : x <= Max(S)
<1> DEFINE D == {MaxTick - x : x \in S}
<1>1. D \in SUBSET Nat /\ D # {}
  <2>1. \A x \in S : MaxTick - x \in Nat
    BY QueueAssumption
  <2>2. QED
    BY <2>1
<1>2. PICK m \in S : MaxTick - m = Min(D)
  <2>1. Min(D) \in D
    BY <1>1, MinOfNaturals
  <2>2. QED
    BY <2>1
<1>3. \A x \in S : x <= m
  <2> TAKE x \in S
  <2>1. MaxTick - m <= MaxTick - x
    <3>1. MaxTick - x \in D
      OBVIOUS
    <3>2. QED
      BY <1>1, <1>2, <3>1, MinOfNaturals
  <2>2. QED
    BY <2>1, QueueAssumption
<1>4. QED
  BY <1>3 DEF Max

\* A nonempty set of int64 values has a least element, found by Min.
LEMMA MinOfInt64 ==
  ASSUME NEW S \in SUBSET ((-Half) .. (Half - 1)), S # {}
  PROVE  Min(S) \in S /\ \A x \in S : Min(S) <= x
<1> DEFINE D == {x + Half : x \in S}
<1>1. D \in SUBSET Nat /\ D # {}
  <2>1. \A x \in S : x + Half \in Nat
    BY QueueAssumption
  <2>2. QED
    BY <2>1
<1>2. PICK m \in S : m + Half = Min(D)
  <2>1. Min(D) \in D
    BY <1>1, MinOfNaturals
  <2>2. QED
    BY <2>1
<1>3. \A x \in S : m <= x
  <2> TAKE x \in S
  <2>1. m + Half <= x + Half
    <3>1. x + Half \in D
      OBVIOUS
    <3>2. QED
      BY <1>1, <1>2, <3>1, MinOfNaturals
  <2>2. QED
    BY <2>1, QueueAssumption
<1>4. QED
  BY <1>3 DEF Min

-----------------------------------------------------------------------------
(***************************************************************************)
(* Types of ticks and queues.                                              *)
(***************************************************************************)

\* Conversion to int64_t gives an int64_t.
LEMMA Int64Type ==
  ASSUME NEW n \in Int
  PROVE  Int64(n) \in (-Half) .. (Half - 1)
<1>1. Half > 0
  BY QueueAssumption
<1>2. (n + Half) % (2 * Half) \in 0 .. (2 * Half - 1)
  BY <1>1, QueueAssumption
<1>3. QED
  BY <1>1, <1>2, QueueAssumption DEF Int64

\* The interval of a TPSet lies in the ticks of the queue.
LEMMA TpEndType ==
  ASSUME NEW tp \in TPSets
  PROVE  /\ tp.tstart \in Nat /\ tp.tspan \in Nat
         /\ TpEnd(tp) \in 0 .. MaxTick
         /\ tp.tstart <= TpEnd(tp)
         /\ tp.tspan > 0 <=> tp.tstart < TpEnd(tp)
  BY QueueAssumption DEF TpEnd

\* A batch put in a queue gives a queue.
LEMMA InsertType ==
  ASSUME NEW q \in SUBSET Entries, NEW tps \in SUBSET TPSets
  PROVE  Insert(q, tps) \in SUBSET Entries
<1> SUFFICES ASSUME NEW tp \in tps
             PROVE  [tp |-> tp, lo |-> tp.tstart] \in Entries
  BY DEF Insert
<1>1. tp.tstart \in 0 .. MaxTick
  BY TpEndType, QueueAssumption
<1>2. QED
  BY <1>1 DEF Entries

\* A purge leaves a queue.
LEMMA EraseType ==
  ASSUME NEW q \in SUBSET Entries, NEW cut \in Int
  PROVE  EraseBelow(q, cut) \in SUBSET Entries
<1> SUFFICES ASSUME NEW e \in q, cut < TpEnd(e.tp)
             PROVE  [tp |-> e.tp, lo |-> IF e.lo < cut THEN cut ELSE e.lo] \in Entries
  BY DEF EraseBelow
<1>1. e.tp \in TPSets /\ e.lo \in 0 .. MaxTick
  BY DEF Entries
<1>2. (IF e.lo < cut THEN cut ELSE e.lo) \in 0 .. MaxTick
  BY <1>1, TpEndType, QueueAssumption
<1>3. QED
  BY <1>1, <1>2 DEF Entries

-----------------------------------------------------------------------------
(***************************************************************************)
(* Members of the queue after an insertion and after a cut.                *)
(***************************************************************************)

\* What is in the queue after a batch went in, message by message.
LEMMA InsertMembers ==
  ASSUME NEW q \in SUBSET Entries, NEW tps \in SUBSET TPSets
  PROVE  /\ q \subseteq Insert(q, tps)
         /\ \A tp \in tps : tp.tspan > 0 =>
              [tp |-> tp, lo |-> tp.tstart] \in Insert(q, tps)
         /\ \A e \in Insert(q, tps) :
              e \in q \/ (e.tp \in tps /\ e.tp.tspan > 0 /\ e.lo = e.tp.tstart)
<1>1. q \subseteq Insert(q, tps)
  BY DEF Insert
<1>2. ASSUME NEW tp \in tps, tp.tspan > 0
      PROVE  [tp |-> tp, lo |-> tp.tstart] \in Insert(q, tps)
  BY <1>2 DEF Insert
<1>3. ASSUME NEW e \in Insert(q, tps), e \notin q
      PROVE  e.tp \in tps /\ e.tp.tspan > 0 /\ e.lo = e.tp.tstart
  <2>1. PICK tp \in tps : tp.tspan > 0 /\ e = [tp |-> tp, lo |-> tp.tstart]
    BY <1>3 DEF Insert
  <2>2. e.tp = tp /\ e.lo = tp.tstart
    BY <2>1
  <2>3. QED
    BY <2>1, <2>2
<1>4. QED
  BY <1>1, <1>2, <1>3

\* What is in the queue after a purge, message by message.
LEMMA EraseMembers ==
  ASSUME NEW q \in SUBSET Entries, NEW cut \in Int
  PROVE  /\ \A e \in q : cut < TpEnd(e.tp) =>
              \E f \in EraseBelow(q, cut) :
                f.tp = e.tp /\ f.lo = IF e.lo < cut THEN cut ELSE e.lo
         /\ \A f \in EraseBelow(q, cut) :
              /\ cut < TpEnd(f.tp)
              /\ \E e \in q :
                   f.tp = e.tp /\ f.lo = IF e.lo < cut THEN cut ELSE e.lo
<1>1. ASSUME NEW e \in q, cut < TpEnd(e.tp)
      PROVE  \E f \in EraseBelow(q, cut) :
               f.tp = e.tp /\ f.lo = IF e.lo < cut THEN cut ELSE e.lo
  <2> DEFINE l == IF e.lo < cut THEN cut ELSE e.lo
             f == [tp |-> e.tp, lo |-> l]
  <2>1. f \in EraseBelow(q, cut)
    BY <1>1 DEF EraseBelow
  <2>2. f.tp = e.tp /\ f.lo = l
    OBVIOUS
  <2> HIDE DEF f
  <2>3. QED
    BY <2>1, <2>2
<1>2. ASSUME NEW f \in EraseBelow(q, cut)
      PROVE  /\ cut < TpEnd(f.tp)
             /\ \E e \in q :
                  f.tp = e.tp /\ f.lo = IF e.lo < cut THEN cut ELSE e.lo
  <2>1. PICK e \in q :
          /\ cut < TpEnd(e.tp)
          /\ f = [tp |-> e.tp, lo |-> IF e.lo < cut THEN cut ELSE e.lo]
    BY DEF EraseBelow
  <2>2. f.tp = e.tp /\ f.lo = IF e.lo < cut THEN cut ELSE e.lo
    BY <2>1
  <2>3. QED
    BY <2>1, <2>2
<1>3. QED
  BY <1>1, <1>2

-----------------------------------------------------------------------------
(***************************************************************************)
(* The ends of the queue.                                                  *)
(***************************************************************************)

\* Upper is the greatest end of a message in the queue.
LEMMA UpperIsGreatest ==
  ASSUME NEW q \in SUBSET Entries
  PROVE  /\ Upper(q) \in 0 .. MaxTick
         /\ \A e \in q : TpEnd(e.tp) <= Upper(q)
         /\ q # {} => \E e \in q : TpEnd(e.tp) = Upper(q)
<1>1. CASE q = {}
  BY <1>1, QueueAssumption DEF Upper
<1>2. CASE q # {}
  <2> DEFINE S == {TpEnd(e.tp) : e \in q}
  <2>1. S \in SUBSET (0 .. MaxTick) /\ S # {}
    BY <1>2, TpEndType DEF Entries
  <2>2. Max(S) \in S /\ \A x \in S : x <= Max(S)
    BY <2>1, MaxOfTicks
  <2>3. Upper(q) = Max(S)
    BY <1>2 DEF Upper
  <2> HIDE DEF S
  <2>4. QED
    BY <2>1, <2>2, <2>3 DEF S
<1>3. QED
  BY <1>1, <1>2

\* Lower is the least tick of the queue.
LEMMA LowerIsLeast ==
  ASSUME NEW q \in SUBSET Entries
  PROVE  /\ Lower(q) \in 0 .. MaxTick
         /\ \A e \in q : Lower(q) <= e.lo
         /\ q # {} => \E e \in q : e.lo = Lower(q)
<1>1. CASE q = {}
  BY <1>1, QueueAssumption DEF Lower
<1>2. CASE q # {}
  <2> DEFINE S == {e.lo : e \in q}
  <2>1. S \in SUBSET Nat /\ S \in SUBSET (0 .. MaxTick) /\ S # {}
    BY <1>2 DEF Entries
  <2>2. Min(S) \in S /\ \A x \in S : Min(S) <= x
    BY <2>1, MinOfNaturals
  <2>3. Lower(q) = Min(S)
    BY <1>2 DEF Lower
  <2> HIDE DEF S
  <2>4. QED
    BY <2>1, <2>2, <2>3 DEF S
<1>3. QED
  BY <1>1, <1>2

\* Adding messages, whenever they start, never moves the end back.
LEMMA UpperOfInsert ==
  ASSUME NEW q \in SUBSET Entries, NEW tps \in SUBSET TPSets
  PROVE  Upper(q) <= Upper(Insert(q, tps))
<1>1. Insert(q, tps) \in SUBSET Entries /\ q \subseteq Insert(q, tps)
  BY InsertType DEF Insert
<1>2. CASE q = {}
  <2>1. Upper(q) = 0
    BY <1>2 DEF Upper
  <2>2. Upper(Insert(q, tps)) \in 0 .. MaxTick
    BY <1>1, UpperIsGreatest
  <2>3. QED
    BY <2>1, <2>2, QueueAssumption
<1>3. CASE q # {}
  BY <1>1, <1>3, UpperIsGreatest
<1>4. QED
  BY <1>2, <1>3

\* A cut before the end leaves the end where it is.
LEMMA UpperOfErase ==
  ASSUME NEW q \in SUBSET Entries, NEW cut \in Int, cut < Upper(q)
  PROVE  Upper(EraseBelow(q, cut)) = Upper(q)
<1> DEFINE r == EraseBelow(q, cut)
<1>1. r \in SUBSET Entries
  BY EraseType
<1>2. CASE q = {}
  BY <1>2 DEF EraseBelow
<1>3. CASE q # {}
  <2>1. PICK e \in q : TpEnd(e.tp) = Upper(q)
    BY <1>3, UpperIsGreatest
  <2>2. PICK f \in r : f.tp = e.tp
    <3>1. [tp |-> e.tp, lo |-> IF e.lo < cut THEN cut ELSE e.lo] \in r
      BY <2>1 DEF EraseBelow
    <3>2. QED
      BY <3>1
  <2>3. PICK g \in r : TpEnd(g.tp) = Upper(r)
    BY <1>1, <2>2, UpperIsGreatest
  <2>4. PICK h \in q : h.tp = g.tp
    BY <2>3 DEF EraseBelow
  <2>5. Upper(q) <= Upper(r)
    BY <1>1, <2>1, <2>2, UpperIsGreatest
  <2>6. Upper(r) <= Upper(q)
    BY <2>3, <2>4, UpperIsGreatest
  <2>7. QED
    BY <1>1, <2>5, <2>6, UpperIsGreatest
<1>4. QED
  BY <1>2, <1>3

-----------------------------------------------------------------------------
(***************************************************************************)
(* Type correctness.                                                       *)
(***************************************************************************)

\* The ends of a query are int64 values.
LEMMA QueryTicks ==
  ASSUME NEW q, q.tstart \in UInt64, q.tspan \in UInt64
  PROVE  Beg(q) \in Ticks /\ End(q) \in Ticks
<1>1. q.tstart \in Int /\ q.tstart + q.tspan \in Int
  BY QueueAssumption DEF UInt64
<1>2. QED
  BY <1>1, Int64Type DEF Beg, End, Ticks

\* A message appended to the messages of a peer keeps their type.
LEMMA SendType ==
  ASSUME TypeOK, NEW p, NEW m \in Messages, Send(p, m)
  PROVE  out' \in [Peers -> Seq(Messages)]
<1>1. \A s \in Seq(Messages) : Append(s, m) \in Seq(Messages)
  BY AppendProperties
<1>2. QED
  BY <1>1 DEF Send, TypeOK

\* The replies to queries are messages.
LEMMA ResultType ==
  ASSUME TypeOK, NEW n \in Nat \ {0}, NEW s \in {200, 206, 404},
         NEW r
  PROVE  /\ Result(n, s, {}) \in Messages
         /\ Result(n, s, Payload(r)) \in Messages
<1>1. Payload(r) \in SUBSET TPSets
  BY DEF TypeOK, Payload, Fetch, Entries
<1>2. QED
  BY <1>1 DEF Result, Messages

\* ERROR is a protocol message.
LEMMA ErrorType == Error \in Messages
  BY DEF Error, Messages

\* A context that is set to one of the live states keeps the contexts' type.
LEMMA ContextType ==
  ASSUME TypeOK, NEW c \in Clients, NEW p \in Peers
  PROVE  /\ StateOf(c) \in States
         /\ \A s \in States : SetState(c, p, s) => clients' \in [Clients -> Contexts]
         /\ Terminate(c) => clients' \in [Clients -> Contexts]
<1>1. clients \in [Clients -> Contexts]
  BY DEF TypeOK
<1>2. StateOf(c) \in States
  BY <1>1 DEF StateOf, Live, Contexts, States
<1>3. ASSUME NEW s \in States, SetState(c, p, s)
      PROVE  clients' \in [Clients -> Contexts]
  <2>1. [peer |-> p, state |-> s] \in Contexts
    BY <1>3 DEF Contexts
  <2>2. QED
    BY <1>1, <1>3, <2>1 DEF SetState
<1>4. ASSUME Terminate(c)
      PROVE  clients' \in [Clients -> Contexts]
  <2>1. Free \in Contexts
    BY DEF Free, Contexts, States
  <2>2. QED
    BY <1>1, <1>4, <2>1 DEF Terminate
<1>5. QED
  BY <1>2, <1>3, <1>4

\* A request joins those that wait for the same end.
LEMMA HoldType ==
  ASSUME TypeOK, NEW c \in Clients, NEW p \in Peers, NEW q \in Queries,
         NEW n \in Nat \ {0}, Hold(c, p, q, n)
  PROVE  pending' \in [Ticks -> Seq(Requests)]
<1> DEFINE r == [client |-> c, detmask |-> q.detmask, tstart |-> Beg(q),
                 seqno |-> n, from |-> p]
<1>1. r \in Requests
  BY QueryTicks, ServerAssumption DEF Requests
<1>2. \A s \in Seq(Requests) : Append(s, r) \in Seq(Requests)
  BY <1>1, AppendProperties
<1>3. pending' = [pending EXCEPT ![End(q)] = Append(@, r)]
  BY DEF Hold
<1> HIDE DEF r
<1>4. QED
  BY <1>2, <1>3 DEF TypeOK

\* The request that Serve takes is one, and the rest stay requests.
LEMMA ServeType ==
  ASSUME TypeOK, Due # {}
  PROVE  /\ Min(Due) \in Due /\ \A k \in Due : Min(Due) <= k
         /\ Head(pending[Min(Due)]) \in Requests
         /\ \A k \in Ticks : pending[k] # <<>> => Tail(pending[k]) \in Seq(Requests)
<1>1. Min(Due) \in Due /\ \A k \in Due : Min(Due) <= k
  BY MinOfInt64 DEF Due, Ticks
<1>2. pending[Min(Due)] \in Seq(Requests) /\ pending[Min(Due)] # <<>>
  BY <1>1 DEF Due, TypeOK
<1>3. QED
  BY <1>1, <1>2, HeadTailProperties DEF TypeOK

\* Every step of the server keeps the types.
LEMMA TypeStep == TypeOK /\ [Next]_vars => TypeOK'
<1> SUFFICES ASSUME TypeOK, [Next]_vars
             PROVE  TypeOK'
  OBVIOUS
<1>1. ASSUME NEW p \in Peers, Receive(p)
      PROVE  sent' \in [Peers -> 0 .. MaxSend]
  BY <1>1, ServerAssumption DEF Receive, TypeOK
<1>2. ASSUME NEW p \in Peers, RecvHello(p)
      PROVE  TypeOK'
  <2>1. sent' \in [Peers -> 0 .. MaxSend]
    BY <1>1, <1>2 DEF RecvHello
  <2>2. PICK c \in Clients :
          \/ /\ Send(p, [type |-> "COVERAGE", detmask |-> detmask])
             /\ SetState(c, p, "connected")
          \/ Refuse(c, p)
    BY <1>2 DEF RecvHello
  <2>3. clients' \in [Clients -> Contexts]
    BY <2>2, ContextType DEF Refuse, States
  <2>4. [type |-> "COVERAGE", detmask |-> detmask] \in Messages
    BY DEF TypeOK, Messages
  <2>5. out' \in [Peers -> Seq(Messages)]
    BY <2>2, <2>4, ErrorType, SendType DEF Refuse
  <2>6. QED
    BY <1>2, <2>1, <2>3, <2>5 DEF RecvHello, TypeOK
<1>3. ASSUME NEW p \in Peers, RecvPing(p)
      PROVE  TypeOK'
  <2>1. sent' \in [Peers -> 0 .. MaxSend]
    BY <1>1, <1>3 DEF RecvPing
  <2>2. clients' \in [Clients -> Contexts]
    BY <1>3, ContextType DEF RecvPing
  <2>3. [type |-> "PONG"] \in Messages
    BY DEF Messages
  <2>4. out' \in [Peers -> Seq(Messages)]
    BY <1>3, <2>3, SendType DEF RecvPing
  <2>5. QED
    BY <1>3, <2>1, <2>2, <2>4 DEF RecvPing, TypeOK
<1>4. ASSUME NEW p \in Peers, RecvGoodbye(p)
      PROVE  TypeOK'
  <2>1. sent' \in [Peers -> 0 .. MaxSend]
    BY <1>1, <1>4 DEF RecvGoodbye
  <2>2. clients' \in [Clients -> Contexts]
    BY <1>4, ContextType DEF RecvGoodbye
  <2>3. [type |-> "GOODBYE_OK"] \in Messages
    BY DEF Messages
  <2>4. out' \in [Peers -> Seq(Messages)]
    BY <1>4, <2>3, SendType DEF RecvGoodbye
  <2>5. QED
    BY <1>4, <2>1, <2>2, <2>4 DEF RecvGoodbye, TypeOK
<1>5. ASSUME NEW p \in Peers, RecvUnexpected(p)
      PROVE  TypeOK'
  <2>1. sent' \in [Peers -> 0 .. MaxSend]
    BY <1>1, <1>5 DEF RecvUnexpected
  <2>2. clients' \in [Clients -> Contexts] /\ out' \in [Peers -> Seq(Messages)]
    BY <1>5, ContextType, ErrorType, SendType DEF RecvUnexpected, Refuse
  <2>3. QED
    BY <1>5, <2>1, <2>2 DEF RecvUnexpected, TypeOK
<1>6. ASSUME NEW p \in Peers, RecvMalformed(p)
      PROVE  TypeOK'
  <2>1. sent' \in [Peers -> 0 .. MaxSend]
    BY <1>1, <1>6 DEF RecvMalformed
  <2>2. clients' \in [Clients -> Contexts]
    BY <1>6, ContextType DEF RecvMalformed
  <2>3. QED
    BY <1>6, <2>1, <2>2 DEF RecvMalformed, TypeOK
<1>7. ASSUME NEW p \in Peers, NEW q \in Queries, RecvQuery(p, q)
      PROVE  TypeOK'
  <2> DEFINE n == Len(asked[p]) + 1
  <2>1. sent' \in [Peers -> 0 .. MaxSend]
    BY <1>1, <1>7 DEF RecvQuery
  <2>2. message' \in Registers
    BY <1>7, ServerAssumption DEF RecvQuery, Registers
  <2>3. asked[p] \in Seq(Queries) /\ n \in Nat \ {0}
    BY LenProperties DEF TypeOK
  <2> HIDE DEF n
  <2>4. PICK c \in Clients :
          \/ Refuse(c, p) /\ UNCHANGED <<pending, asked>>
          \/ /\ asked' = [asked EXCEPT ![p] = Append(@, q)]
             /\ \/ Answer(p, q, n) /\ UNCHANGED pending
                \/ Hold(c, p, q, n) /\ UNCHANGED out
             /\ UNCHANGED clients
    BY <1>7 DEF RecvQuery, n
  <2>5. clients' \in [Clients -> Contexts]
    BY <2>4, ContextType DEF Refuse, TypeOK
  <2>6. asked' \in [Peers -> Seq(Queries)]
    <3>1. Append(asked[p], q) \in Seq(Queries)
      BY <2>3, AppendProperties
    <3>2. QED
      BY <2>4, <3>1 DEF TypeOK
  <2>7. pending' \in [Ticks -> Seq(Requests)]
    BY <2>3, <2>4, HoldType DEF TypeOK
  <2>8. out' \in [Peers -> Seq(Messages)]
    <3>1. CASE Refuse(c, p)
      BY <3>1, ErrorType, SendType DEF Refuse
    <3>2. CASE Answer(p, q, n)
      BY <3>2, <2>3, ErrorType, ResultType, SendType DEF Answer
    <3>3. CASE UNCHANGED out
      BY <3>3 DEF TypeOK
    <3>4. QED
      BY <2>4, <3>1, <3>2, <3>3
  <2>9. QED
    BY <1>7, <2>1, <2>2, <2>5, <2>6, <2>7, <2>8 DEF RecvQuery, TypeOK
<1>8. ASSUME NEW c \in Clients, Expire(c)
      PROVE  TypeOK'
  BY <1>8 DEF Expire, Terminate, Free, Contexts, States, TypeOK
<1>9. ASSUME NEW batch \in SUBSET (TPSets \ arrived), Slurp(batch)
      PROVE  TypeOK'
  <2> DEFINE match == {tp \in batch : tp.detid \cap detmask # {}}
  <2>1. iq' \in SUBSET Entries
    <3>1. match \in SUBSET TPSets /\ iq' = Insert(iq, match)
      BY <1>9 DEF Slurp
    <3>2. QED
      BY <3>1, InsertType DEF TypeOK
  <2>2. QED
    BY <1>9, <2>1 DEF Slurp, TypeOK
<1>10. CASE Serve
  <2> DEFINE k == Min(Due)
             r == Head(pending[k])
             p == clients[r.client].peer
  <2>1. k \in Due /\ r \in Requests /\ Tail(pending[k]) \in Seq(Requests)
    BY <1>10, ServeType DEF Serve, Due
  <2> HIDE DEF k, r, p
  <2>2. /\ pending' = [pending EXCEPT ![k] = Tail(@)]
        /\ \/ Send(p, Result(r.seqno, 200, Payload(message))) /\ UNCHANGED <<clients, pc>>
           \/ Refuse(r.client, p) /\ UNCHANGED pc
           \/ pc' = "crashed" /\ UNCHANGED <<clients, out>>
    BY <1>10 DEF Serve, k, r, p
  <2>3. r.client \in Clients /\ r.seqno \in Nat \ {0}
    BY <2>1 DEF Requests
  <2>4. pending' \in [Ticks -> Seq(Requests)]
    BY <2>1, <2>2 DEF TypeOK
  <2>5. clients' \in [Clients -> Contexts]
    BY <2>2, <2>3 DEF Refuse, Terminate, Free, Contexts, States, TypeOK
  <2>6. out' \in [Peers -> Seq(Messages)]
    <3>1. CASE Send(p, Result(r.seqno, 200, Payload(message)))
      BY <3>1, <2>3, ResultType, SendType
    <3>2. CASE Refuse(r.client, p)
      BY <3>2, ErrorType, SendType DEF Refuse
    <3>3. CASE UNCHANGED out
      BY <3>3 DEF TypeOK
    <3>4. QED
      BY <2>2, <3>1, <3>2, <3>3
  <2>7. QED
    BY <1>10, <2>2, <2>4, <2>5, <2>6 DEF Serve, TypeOK
<1>11. CASE Purge
  <2>1. Upper(iq) - water.lwm \in Int
    BY UpperIsGreatest DEF TypeOK, Settings
  <2>2. iq' \in SUBSET Entries
    BY <1>11, <2>1, EraseType DEF Purge, TypeOK
  <2>3. QED
    BY <1>11, <2>2 DEF Purge, TypeOK
<1>12. CASE Method
  BY <1>12, ServerAssumption
  DEF Method, StartIngest, SetDetmask, SetQueue, TypeOK
<1>13. CASE UNCHANGED vars
  BY <1>13 DEF vars, serverVars, TypeOK
<1>14. QED
  BY <1>2, <1>3, <1>4, <1>5, <1>6, <1>7, <1>8, <1>9, <1>10, <1>11, <1>12, <1>13
  DEF Next, Protocol, Ingest

\* server_initialize gives every variable its type.
LEMMA TypeInit == Init => TypeOK
<1> SUFFICES ASSUME Init PROVE TypeOK
  OBVIOUS
<1>1. message \in Registers
  BY QueueAssumption DEF Init, Registers, UInt64
<1>2. clients \in [Clients -> Contexts]
  BY DEF Init, Free, Contexts, States
<1>3. /\ pending \in [Ticks -> Seq(Requests)]
      /\ out \in [Peers -> Seq(Messages)]
      /\ asked \in [Peers -> Seq(Queries)]
  BY EmptySeq DEF Init
<1>4. water \in Settings /\ sent \in [Peers -> 0 .. MaxSend]
  BY ServerAssumption DEF Init
<1>5. QED
  BY <1>1, <1>2, <1>3, <1>4 DEF Init, TypeOK

\* Every variable keeps its type.
THEOREM TypeCorrect == Spec => []TypeOK
  BY TypeInit, TypeStep, PTL DEF Spec

-----------------------------------------------------------------------------
(***************************************************************************)
(* The queue.  Only the ingest handler changes it: the slurp adds to it,   *)
(* the purge cuts it.  The invariant below is inductive; its first         *)
(* conjunct keeps every cut Depth ticks away from the end, the second says *)
(* that no step invents data, and RecentKept is what is wanted.            *)
(***************************************************************************)

QueueInv ==
  /\ water \in QueueSettings
  /\ QueueFromKept
  /\ RecentKept

\* Steps outside the ingest handler leave the queue and its history alone.
LEMMA QueueFrame ==
  ASSUME TypeOK, [Next]_vars
  PROVE  \/ UNCHANGED <<iq, kept>>
         \/ \E batch \in SUBSET (TPSets \ arrived) : Slurp(batch)
         \/ Purge
  BY DEF Next, Protocol, RecvHello, RecvPing, RecvGoodbye, RecvUnexpected,
         RecvMalformed, RecvQuery, Expire, Ingest, Serve, Method, StartIngest,
         SetDetmask, SetQueue, vars, serverVars

\* Only QUEUE changes the water marks.
LEMMA WaterStep ==
  ASSUME TypeOK, water \in QueueSettings, [Next]_vars
  PROVE  water' \in QueueSettings
  BY DEF Next, Protocol, RecvHello, RecvPing, RecvGoodbye, RecvUnexpected,
         RecvMalformed, RecvQuery, Expire, Ingest, Slurp, Serve, Purge, Method,
         StartIngest, SetDetmask, SetQueue, vars, serverVars

\* What the slurp does to the queue.
LEMMA SlurpFacts ==
  ASSUME TypeOK, NEW batch \in SUBSET (TPSets \ arrived), Slurp(batch)
  PROVE  \E match \in SUBSET batch :
           /\ iq' = Insert(iq, match)
           /\ kept' = kept \cup match
           /\ iq' \in SUBSET Entries
           /\ iq \subseteq iq'
           /\ Upper(iq) <= Upper(iq')
           /\ \A tp \in match : tp.tspan > 0 => [tp |-> tp, lo |-> tp.tstart] \in iq'
           /\ \A e \in iq' : e \in iq \/ /\ e.tp \in match
                                         /\ e.tp.tspan > 0
                                         /\ e.lo = e.tp.tstart
<1> DEFINE match == {tp \in batch : tp.detid \cap detmask # {}}
<1>1. match \in SUBSET batch /\ match \in SUBSET TPSets /\ iq \in SUBSET Entries
  BY DEF TypeOK
<1>2. iq' = Insert(iq, match) /\ kept' = kept \cup match
  BY DEF Slurp
<1> HIDE DEF match
<1>3. iq' \in SUBSET Entries /\ Upper(iq) <= Upper(iq')
  BY <1>1, <1>2, InsertType, UpperOfInsert
<1>4. /\ iq \subseteq iq'
      /\ \A tp \in match : tp.tspan > 0 => [tp |-> tp, lo |-> tp.tstart] \in iq'
      /\ \A e \in iq' : e \in iq \/ /\ e.tp \in match
                                    /\ e.tp.tspan > 0
                                    /\ e.lo = e.tp.tstart
  BY <1>1, <1>2, InsertMembers
<1>5. QED
  BY <1>1, <1>2, <1>3, <1>4

\* What the purge does: nothing, or a cut at least Depth ticks before the end.
LEMMA PurgeFacts ==
  ASSUME TypeOK, water \in QueueSettings, Purge
  PROVE  /\ UNCHANGED kept
         /\ Upper(iq') = Upper(iq)
         /\ \/ UNCHANGED iq
            \/ \E cut \in Int :
                 /\ cut = Upper(iq) - water.lwm
                 /\ cut <= Upper(iq) - Depth
                 /\ iq' = EraseBelow(iq, cut)
<1> DEFINE cut == Upper(iq) - water.lwm
<1>1. water.lwm \in Nat /\ Depth \in Nat \ {0} /\ Depth <= water.lwm
  BY ServerAssumption DEF Settings
<1>2. iq \in SUBSET Entries /\ Upper(iq) \in Int
  BY UpperIsGreatest DEF TypeOK
<1>3. cut \in Int /\ cut <= Upper(iq) - Depth /\ cut < Upper(iq)
  BY <1>1, <1>2
<1>4. UNCHANGED iq \/ iq' = EraseBelow(iq, cut)
  BY DEF Purge
<1> HIDE DEF cut
<1>5. Upper(iq') = Upper(iq)
  BY <1>2, <1>3, <1>4, UpperOfErase
<1>6. UNCHANGED kept
  BY DEF Purge
<1>7. QED
  BY <1>3, <1>4, <1>5, <1>6 DEF cut

\* The empty queue satisfies the queue's invariant.
LEMMA QueueInit == Init => QueueInv
  BY ServerAssumption DEF Init, QueueInv, QueueFromKept, RecentKept

\* Every step keeps the queue within the messages accepted.
LEMMA QueueFromKeptStep ==
  ASSUME TypeOK, QueueInv, [Next]_vars
  PROVE  QueueFromKept'
<1>1. CASE UNCHANGED <<iq, kept>>
  BY <1>1 DEF QueueInv, QueueFromKept
<1>2. ASSUME NEW batch \in SUBSET (TPSets \ arrived), Slurp(batch)
      PROVE  QueueFromKept'
  <2>1. PICK match \in SUBSET batch :
          /\ kept' = kept \cup match
          /\ \A e \in iq' : e \in iq \/ /\ e.tp \in match
                                        /\ e.tp.tspan > 0
                                        /\ e.lo = e.tp.tstart
    BY <1>2, SlurpFacts
  <2>2. ASSUME NEW e \in iq', e.tp \in match, e.tp.tspan > 0, e.lo = e.tp.tstart
        PROVE  e.tp.tstart <= e.lo /\ e.lo < TpEnd(e.tp)
    BY <2>2, TpEndType
  <2>3. QED
    BY <2>1, <2>2 DEF QueueInv, QueueFromKept
<1>3. CASE Purge
  <2>1. CASE UNCHANGED iq
    BY <1>3, <2>1 DEF Purge, QueueInv, QueueFromKept
  <2>2. ASSUME NEW cut \in Int, iq' = EraseBelow(iq, cut)
        PROVE  QueueFromKept'
    <3> SUFFICES ASSUME NEW f \in iq'
                 PROVE  f.tp \in kept /\ f.tp.tstart <= f.lo /\ f.lo < TpEnd(f.tp)
      BY <1>3 DEF Purge, QueueFromKept
    <3>1. iq \in SUBSET Entries
      BY DEF TypeOK
    <3>2. cut < TpEnd(f.tp)
      BY <2>2, <3>1, EraseMembers
    <3>3. PICK e \in iq : f.tp = e.tp /\ f.lo = IF e.lo < cut THEN cut ELSE e.lo
      BY <2>2, <3>1, EraseMembers
    <3>4. e.tp \in kept /\ e.tp.tstart <= e.lo /\ e.lo < TpEnd(e.tp)
      BY DEF QueueInv, QueueFromKept
    <3>5. e.tp.tstart \in Int /\ e.lo \in Int
      BY <3>1, TpEndType DEF Entries
    <3>6. QED
      BY <3>2, <3>3, <3>4, <3>5
  <2>3. QED
    BY <1>3, <2>1, <2>2, PurgeFacts DEF QueueInv
<1>4. QED
  BY <1>1, <1>2, <1>3, QueueFrame

\* Every step keeps the recent data.
LEMMA RecentKeptStep ==
  ASSUME TypeOK, QueueInv, [Next]_vars
  PROVE  RecentKept'
<1> USE ServerAssumption
<1>1. CASE UNCHANGED <<iq, kept>>
  BY <1>1 DEF QueueInv, RecentKept
<1>2. ASSUME NEW batch \in SUBSET (TPSets \ arrived), Slurp(batch)
      PROVE  RecentKept'
  <2>1. PICK match \in SUBSET batch :
          /\ kept' = kept \cup match
          /\ iq' \in SUBSET Entries
          /\ iq \subseteq iq'
          /\ Upper(iq) <= Upper(iq')
          /\ \A tp \in match : tp.tspan > 0 => [tp |-> tp, lo |-> tp.tstart] \in iq'
    BY <1>2, SlurpFacts
  <2>2. iq \in SUBSET Entries /\ kept \in SUBSET TPSets
    BY DEF TypeOK
  <2>3. Upper(iq) \in Int /\ Upper(iq') \in Int
    BY <2>1, <2>2, UpperIsGreatest
  <2> SUFFICES ASSUME NEW tp \in kept', tp.tspan > 0, Upper(iq') - Depth < TpEnd(tp)
               PROVE  \E e \in iq' : /\ e.tp = tp
                                     /\ e.lo <= tp.tstart \/ e.lo <= Upper(iq') - Depth
    BY DEF RecentKept
  <2>4. CASE tp \in match
    <3>1. tp.tstart <= tp.tstart
      BY <2>4, TpEndType
    <3>2. QED
      BY <2>1, <2>4, <3>1
  <2>5. CASE tp \in kept
    <3>1. TpEnd(tp) \in Int
      BY <2>2, <2>5, TpEndType
    <3>2. PICK e \in iq : e.tp = tp /\ (e.lo <= tp.tstart \/ e.lo <= Upper(iq) - Depth)
      BY <2>1, <2>3, <2>5, <3>1 DEF QueueInv, RecentKept
    <3>3. e.lo \in Int
      BY <2>2 DEF Entries
    <3>4. e.lo <= tp.tstart \/ e.lo <= Upper(iq') - Depth
      BY <2>1, <2>3, <3>2, <3>3
    <3>5. QED
      BY <2>1, <3>2, <3>4
  <2>6. QED
    BY <2>1, <2>4, <2>5
<1>3. CASE Purge
  <2>1. iq \in SUBSET Entries /\ kept \in SUBSET TPSets /\ Upper(iq) \in Int
    BY UpperIsGreatest DEF TypeOK
  <2>2. kept' = kept /\ Upper(iq') = Upper(iq)
    BY <1>3, PurgeFacts DEF QueueInv
  <2>3. CASE UNCHANGED iq
    BY <2>2, <2>3 DEF QueueInv, RecentKept
  <2>4. ASSUME NEW cut \in Int, cut <= Upper(iq) - Depth, iq' = EraseBelow(iq, cut)
        PROVE  RecentKept'
    <3> SUFFICES ASSUME NEW tp \in kept, tp.tspan > 0, Upper(iq) - Depth < TpEnd(tp)
                 PROVE  \E f \in iq' : /\ f.tp = tp
                                       /\ f.lo <= tp.tstart \/ f.lo <= Upper(iq) - Depth
      BY <2>2 DEF RecentKept
    <3>1. PICK e \in iq : e.tp = tp /\ (e.lo <= tp.tstart \/ e.lo <= Upper(iq) - Depth)
      BY DEF QueueInv, RecentKept
    <3>2. e.lo \in Int /\ TpEnd(tp) \in Int
      BY <2>1, TpEndType DEF Entries
    <3>3. cut < TpEnd(e.tp)
      BY <2>1, <2>4, <3>1, <3>2
    <3>4. PICK f \in iq' : f.tp = e.tp /\ f.lo = IF e.lo < cut THEN cut ELSE e.lo
      BY <2>1, <2>4, <3>3, EraseMembers
    <3>5. f.lo <= tp.tstart \/ f.lo <= Upper(iq) - Depth
      BY <2>1, <2>4, <3>1, <3>2, <3>4
    <3>6. QED
      BY <3>1, <3>4, <3>5
  <2>5. QED
    BY <1>3, <2>3, <2>4, PurgeFacts DEF QueueInv
<1>4. QED
  BY <1>1, <1>2, <1>3, QueueFrame

\* Every step keeps the queue's invariant.
LEMMA QueueStep == TypeOK /\ QueueInv /\ [Next]_vars => QueueInv'
<1> SUFFICES ASSUME TypeOK, QueueInv, [Next]_vars
             PROVE  QueueInv'
  OBVIOUS
<1>1. water' \in QueueSettings
  BY WaterStep DEF QueueInv
<1>2. QED
  BY <1>1, QueueFromKeptStep, RecentKeptStep DEF QueueInv

\* The inductive invariant of the queue.
THEOREM QueueInvariant == Spec => []QueueInv
  BY TypeCorrect, QueueInit, QueueStep, PTL DEF Spec

\* The last Depth ticks are never lost, for any order of arrival.
THEOREM RecentDataKept == Spec => []RecentKept
<1>1. QueueInv => RecentKept
  BY DEF QueueInv
<1>2. QED
  BY <1>1, QueueInvariant, PTL

\* The end of the queue never moves back.
THEOREM EndMonotonic == Spec => EndNeverMovesBack
<1>1. TypeOK /\ QueueInv /\ [Next]_vars => [Upper(iq) <= Upper(iq')]_vars
  <2> SUFFICES ASSUME TypeOK, QueueInv, [Next]_vars
               PROVE  Upper(iq) <= Upper(iq')
    OBVIOUS
  <2>1. Upper(iq) \in Int
    BY UpperIsGreatest DEF TypeOK
  <2>2. CASE UNCHANGED <<iq, kept>>
    BY <2>1, <2>2
  <2>3. ASSUME NEW batch \in SUBSET (TPSets \ arrived), Slurp(batch)
        PROVE  Upper(iq) <= Upper(iq')
    BY <2>3, SlurpFacts
  <2>4. CASE Purge
    BY <2>1, <2>4, PurgeFacts DEF QueueInv
  <2>5. QED
    BY <2>2, <2>3, <2>4, QueueFrame
<1>2. QED
  BY <1>1, TypeCorrect, QueueInvariant, PTL DEF Spec, EndNeverMovesBack

-----------------------------------------------------------------------------
(***************************************************************************)
(* Pending requests.  handle_query adds only requests that end after the   *)
(* queue; the purge, the step that goes back to polling, runs when nothing *)
(* is due and leaves the end of the queue where it is.                     *)
(***************************************************************************)

\* No request that could be answered is left waiting while the loop polls.
LEMMA PendingStep ==
  ASSUME TypeOK, QueueInv, PendingIsFuture, [Next]_vars
  PROVE  PendingIsFuture'
<1> USE DEF PendingIsFuture
<1>1. CASE UNCHANGED <<pending, iq, pc>>
  BY <1>1
<1>2. ASSUME NEW p \in Peers, NEW q \in Queries, RecvQuery(p, q)
      PROVE  PendingIsFuture'
  <2>1. pc = "poll" /\ UNCHANGED <<iq, pc>>
    BY <1>2 DEF RecvQuery, Receive
  <2>2. CASE UNCHANGED pending
    BY <2>1, <2>2
  <2>3. ASSUME NEW c \in Clients, NEW n, Hold(c, p, q, n)
        PROVE  PendingIsFuture'
    <3>1. Upper(iq) < End(q)
      BY <2>3 DEF Hold, Early
    <3>2. \A k \in Ticks : k # End(q) => pending'[k] = pending[k]
      BY <2>3 DEF Hold, TypeOK
    <3>3. QED
      BY <2>1, <3>1, <3>2
  <2>4. QED
    BY <1>2, <2>2, <2>3 DEF RecvQuery
<1>3. ASSUME NEW batch \in SUBSET (TPSets \ arrived), Slurp(batch)
      PROVE  PendingIsFuture'
  BY <1>3 DEF Slurp
<1>4. CASE Serve
  BY <1>4 DEF Serve
<1>5. CASE Purge
  <2>1. Upper(iq') = Upper(iq) /\ Upper(iq) \in Int
    BY <1>5, PurgeFacts, UpperIsGreatest DEF QueueInv, TypeOK
  <2>2. pending' = pending /\ Due = {}
    BY <1>5 DEF Purge
  <2>3. \A k \in Ticks : pending[k] # <<>> => Upper(iq) < k
    BY <2>1, <2>2, QueueAssumption DEF Due, Ticks
  <2>4. QED
    BY <2>1, <2>2, <2>3
<1>6. QED
  BY <1>1, <1>2, <1>3, <1>4, <1>5
  DEF Next, Protocol, RecvHello, RecvPing, RecvGoodbye, RecvUnexpected,
      RecvMalformed, Expire, Ingest, Method, StartIngest, SetDetmask, SetQueue,
      vars, serverVars

\* While the loop polls, no pending request is due: the drain leaves none and
\* the purge that follows does not lower the end of the queue.
THEOREM NothingDueLeftWaiting == Spec => []PendingIsFuture
<1>1. Init => PendingIsFuture
  BY DEF Init, PendingIsFuture
<1>2. QED
  BY <1>1, TypeCorrect, QueueInvariant, PendingStep, PTL DEF Spec

-----------------------------------------------------------------------------
(***************************************************************************)
(* Completeness.  If a TPSet starts no further behind the end of the queue *)
(* than the queue is deep, it starts at or after every cut made so far.    *)
(* Then one horizon separates what is gone from what is there, and a query *)
(* that starts inside the queue starts after the horizon.                  *)
(***************************************************************************)

\* The empty queue has no hole.
LEMMA NoHoleInit == Init => NoHole
<1> SUFFICES ASSUME Init PROVE NoHole
  OBVIOUS
<1>1. Upper(iq) = 0 /\ iq = {} /\ kept = {}
  BY DEF Init, Upper
<1>2. Horizon(-Depth)
  BY <1>1, ServerAssumption DEF Horizon
<1>3. -Depth \in (-Depth) .. MaxTick
  BY ServerAssumption, QueueAssumption
<1>4. QED
  BY <1>2, <1>3 DEF NoHole

\* Every step of a stream that is ordered enough keeps the queue without holes.
LEMMA NoHoleStep ==
  ASSUME Skew <= Depth, TypeOK, QueueInv, NoHole, [Next]_vars
  PROVE  NoHole'
<1> USE ServerAssumption
<1>1. PICK h \in (-Depth) .. MaxTick : Horizon(h)
  BY DEF NoHole
<1>2. iq \in SUBSET Entries /\ kept \in SUBSET TPSets /\ arrived \in SUBSET TPSets
  BY DEF TypeOK
<1>3. Upper(iq) \in 0 .. MaxTick
  BY <1>2, UpperIsGreatest
<1>4. CASE UNCHANGED <<iq, kept>>
  BY <1>1, <1>4 DEF NoHole, Horizon
<1>5. ASSUME NEW batch \in SUBSET (TPSets \ arrived), Slurp(batch)
      PROVE  NoHole'
  <2>1. PICK match \in SUBSET batch :
          /\ kept' = kept \cup match
          /\ iq' \in SUBSET Entries
          /\ iq \subseteq iq'
          /\ Upper(iq) <= Upper(iq')
          /\ \A tp \in match : tp.tspan > 0 => [tp |-> tp, lo |-> tp.tstart] \in iq'
          /\ \A e \in iq' : e \in iq \/ /\ e.tp \in match
                                        /\ e.tp.tspan > 0
                                        /\ e.lo = e.tp.tstart
    BY <1>5, SlurpFacts
  <2>2. Upper(iq') \in Int
    BY <2>1, UpperIsGreatest
  <2>3. \A tp \in match : tp.tstart \in Nat /\ h <= tp.tstart
    <3> TAKE tp \in match
    <3>1. Upper(iq) <= tp.tstart + Skew /\ tp.tstart \in Nat
      BY <1>5, TpEndType DEF Slurp
    <3>2. h <= Upper(iq) - Depth
      BY <1>1 DEF Horizon
    <3>3. QED
      BY <1>3, <3>1, <3>2
  <2>4. h <= Upper(iq') - Depth
    BY <1>1, <1>3, <2>1, <2>2 DEF Horizon
  <2>5. \A e \in iq' : h <= e.lo
    BY <1>1, <2>1, <2>3 DEF Horizon
  <2>6. ASSUME NEW tp \in kept', tp.tspan > 0, h < TpEnd(tp)
        PROVE  \E e \in iq' : e.tp = tp /\ (e.lo <= tp.tstart \/ e.lo <= h)
    <3>1. CASE tp \in match
      <4>1. tp.tstart <= tp.tstart
        BY <2>3, <3>1
      <4>2. QED
        BY <2>1, <2>6, <3>1, <4>1
    <3>2. CASE tp \in kept
      BY <1>1, <2>1, <2>6, <3>2 DEF Horizon
    <3>3. QED
      BY <2>1, <3>1, <3>2
  <2>7. Horizon(h)'
    BY <2>4, <2>5, <2>6 DEF Horizon
  <2>8. QED
    BY <2>7 DEF NoHole
<1>6. CASE Purge
  <2>1. kept' = kept /\ Upper(iq') = Upper(iq)
    BY <1>6, PurgeFacts DEF QueueInv
  <2>2. CASE UNCHANGED iq
    BY <1>1, <2>1, <2>2 DEF NoHole, Horizon
  <2>3. ASSUME NEW cut \in Int, cut <= Upper(iq) - Depth, iq' = EraseBelow(iq, cut)
        PROVE  NoHole'
    <3> DEFINE g == IF h < cut THEN cut ELSE h
    <3>1. g \in (-Depth) .. MaxTick /\ g <= Upper(iq) - Depth /\ h <= g /\ cut <= g
      <4>1. h \in Int /\ -Depth <= h /\ h <= Upper(iq) - Depth
        BY <1>1 DEF Horizon
      <4>2. Upper(iq) \in Int /\ Upper(iq) <= MaxTick /\ Depth \in Nat /\ MaxTick \in Nat
        BY <1>3, QueueAssumption
      <4>3. QED
        BY <2>3, <4>1, <4>2
    <3>2. g = h \/ g = cut
      OBVIOUS
    <3> HIDE DEF g
    <3>3. ASSUME NEW f \in iq'
          PROVE  g <= f.lo
      <4>1. PICK e \in iq : f.lo = IF e.lo < cut THEN cut ELSE e.lo
        BY <1>2, <2>3, EraseMembers
      <4>2. h <= e.lo /\ e.lo \in Int
        BY <1>1, <1>2 DEF Horizon, Entries
      <4>3. QED
        BY <2>3, <3>2, <4>1, <4>2
    <3>4. ASSUME NEW tp \in kept, tp.tspan > 0, g < TpEnd(tp)
          PROVE  \E f \in iq' : f.tp = tp /\ (f.lo <= tp.tstart \/ f.lo <= g)
      <4>1. TpEnd(tp) \in Int /\ tp.tstart \in Int
        BY <1>2, TpEndType
      <4>2. h < TpEnd(tp) /\ cut < TpEnd(tp)
        BY <2>3, <3>1, <3>4, <4>1
      <4>3. PICK e \in iq : e.tp = tp /\ (e.lo <= tp.tstart \/ e.lo <= h)
        BY <1>1, <3>4, <4>2 DEF Horizon
      <4>4. PICK f \in iq' : f.tp = e.tp /\ f.lo = IF e.lo < cut THEN cut ELSE e.lo
        BY <1>2, <2>3, <4>2, <4>3, EraseMembers
      <4>5. e.lo \in Int
        BY <1>2 DEF Entries
      <4>6. f.lo <= tp.tstart \/ f.lo <= g
        BY <2>3, <3>1, <4>1, <4>3, <4>4, <4>5
      <4>7. QED
        BY <4>3, <4>4, <4>6
    <3>5. Horizon(g)'
      BY <2>1, <3>1, <3>3, <3>4 DEF Horizon
    <3>6. QED
      BY <3>1, <3>5 DEF NoHole
  <2>4. QED
    BY <1>6, <2>2, <2>3, PurgeFacts DEF QueueInv
<1>7. QED
  BY <1>4, <1>5, <1>6, QueueFrame

\* The queue has no hole when the stream is less out of order than it is deep.
THEOREM QueueHasNoHole ==
  ASSUME Skew <= Depth
  PROVE  Spec => []NoHole
<1>1. TypeOK /\ QueueInv /\ NoHole /\ [Next]_vars => NoHole'
  BY NoHoleStep
<1>2. QED
  BY <1>1, NoHoleInit, TypeCorrect, QueueInvariant, PTL DEF Spec

\* In a queue without holes the payload of a query that begins inside the
\* queue is every accepted TPSet that overlaps its interval.
LEMMA FetchComplete ==
  ASSUME TypeOK, QueueFromKept, NoHole, iq # {},
         NEW beg \in Int, NEW end \in Int, Lower(iq) <= beg
  PROVE  Fetch(iq, beg, end) = {tp \in kept : Overlaps(tp, beg, end)}
<1>1. PICK h \in (-Depth) .. MaxTick : Horizon(h)
  BY DEF NoHole
<1>2. iq \in SUBSET Entries /\ kept \in SUBSET TPSets
  BY DEF TypeOK
<1>3. h <= beg
  <2>1. PICK e \in iq : e.lo = Lower(iq)
    BY <1>2, LowerIsLeast
  <2>2. h <= e.lo /\ e.lo \in Int
    BY <1>1, <1>2 DEF Horizon, Entries
  <2>3. QED
    BY <2>1, <2>2, ServerAssumption
<1>4. ASSUME NEW e \in iq, beg < end, e.lo < end, beg < TpEnd(e.tp)
      PROVE  e.tp \in kept /\ Overlaps(e.tp, beg, end)
  <2>1. e.tp \in kept /\ e.tp.tstart <= e.lo /\ e.lo < TpEnd(e.tp)
    BY DEF QueueFromKept
  <2>2. e.lo \in Int /\ e.tp \in TPSets
    BY <1>2 DEF Entries
  <2>3. QED
    BY <1>4, <2>1, <2>2, TpEndType DEF Overlaps
<1>5. ASSUME NEW tp \in kept, Overlaps(tp, beg, end)
      PROVE  \E e \in iq : e.tp = tp /\ beg < end /\ e.lo < end /\ beg < TpEnd(e.tp)
  <2>1. tp.tstart \in Int /\ TpEnd(tp) \in Int
    BY <1>2, TpEndType
  <2>2. tp.tspan > 0 /\ beg < end /\ tp.tstart < end /\ beg < TpEnd(tp)
    BY <1>5 DEF Overlaps
  <2>3. h < TpEnd(tp)
    BY <1>3, <2>1, <2>2, ServerAssumption
  <2>4. PICK e \in iq : e.tp = tp /\ (e.lo <= tp.tstart \/ e.lo <= h)
    BY <1>1, <2>2, <2>3 DEF Horizon
  <2>5. e.lo \in Int
    BY <1>2 DEF Entries
  <2>6. e.lo < end
    BY <1>3, <2>1, <2>2, <2>4, <2>5, ServerAssumption
  <2>7. QED
    BY <2>2, <2>4, <2>6
<1>6. QED
  BY <1>4, <1>5 DEF Fetch

\* One message appended to a sequence is what is new in it.
LEMMA NewOfAppend ==
  ASSUME TypeOK, NEW p \in Peers, NEW r \in Peers, NEW m \in Messages, Send(p, m)
  PROVE  \A x \in Range(New(r)) : r = p /\ x = m
<1>1. out[r] \in Seq(Messages)
  BY DEF TypeOK
<1>2. CASE r = p
  <2>1. out'[r] = Append(out[r], m)
    BY <1>2 DEF Send, TypeOK
  <2>2. /\ out'[r] \in Seq(Messages)
        /\ Len(out'[r]) = Len(out[r]) + 1
        /\ out'[r][Len(out[r]) + 1] = m
    BY <1>1, <2>1, AppendProperties
  <2>3. /\ Len(New(r)) = 1 /\ New(r) \in Seq(Messages)
        /\ New(r)[1] = m
    BY <1>1, <2>2, SubSeqProperties, LenProperties DEF New
  <2>4. QED
    BY <1>2, <2>3 DEF Range
<1>3. CASE r # p
  <2>1. out'[r] = out[r]
    BY <1>3 DEF Send, TypeOK
  <2>2. New(r) = << >>
    BY <1>1, <2>1, SubSeqEmpty, LenProperties DEF New
  <2>3. QED
    BY <2>2 DEF Range
<1>4. QED
  BY <1>2, <1>3

\* Nothing is new when nothing was sent.
LEMMA NothingNew ==
  ASSUME TypeOK, NEW r \in Peers, UNCHANGED out
  PROVE  Range(New(r)) = {}
<1>1. out[r] \in Seq(Messages)
  BY DEF TypeOK
<1>2. New(r) = << >>
  BY <1>1, SubSeqEmpty, LenProperties DEF New
<1>3. QED
  BY <1>2 DEF Range

\* Only a reply of handle_query is a RESULT sent while the loop polls.
LEMMA NewResultFromAnswer ==
  ASSUME TypeOK, [Next]_vars, pc = "poll",
         NEW p \in Peers, NEW m \in NewResults(p)
  PROVE  \E q \in Queries : \E n \in Nat \ {0} :
           /\ n = Len(asked[p]) + 1
           /\ asked' = [asked EXCEPT ![p] = Append(@, q)]
           /\ ~ Bogus(q)
           /\ \/ m = Result(n, 404, {})
              \/ InSight(q) /\ m = Result(n, 206, Payload(q))
              \/ InSight(q) /\ Lower(iq) <= Beg(q) /\ m = Result(n, 200, Payload(q))
<1>1. m \in Range(New(p)) /\ m.type = "RESULT"
  BY DEF NewResults
<1>2. ~ UNCHANGED out
  BY <1>1, NothingNew
<1>3. ASSUME NEW r \in Peers, NEW x \in Messages, Send(r, x)
      PROVE  r = p /\ x = m
  BY <1>1, <1>3, NewOfAppend
<1>4. ASSUME NEW r \in Peers, Send(r, Error)
      PROVE  FALSE
  BY <1>1, <1>3, <1>4, ErrorType DEF Error
<1>5. ASSUME NEW r \in Peers, RecvHello(r)
      PROVE  FALSE
  <2>1. [type |-> "COVERAGE", detmask |-> detmask] \in Messages
    BY DEF TypeOK, Messages
  <2>2. ~ Send(r, [type |-> "COVERAGE", detmask |-> detmask])
    BY <1>1, <1>3, <2>1
  <2>3. QED
    BY <1>4, <1>5, <2>2 DEF RecvHello, Refuse
<1>6. ASSUME NEW r \in Peers, RecvPing(r) \/ RecvGoodbye(r)
      PROVE  FALSE
  <2>1. [type |-> "PONG"] \in Messages /\ [type |-> "GOODBYE_OK"] \in Messages
    BY DEF Messages
  <2>2. ~ Send(r, [type |-> "PONG"]) /\ ~ Send(r, [type |-> "GOODBYE_OK"])
    BY <1>1, <1>3, <2>1
  <2>3. QED
    BY <1>6, <2>2 DEF RecvPing, RecvGoodbye
<1>7. ASSUME NEW r \in Peers, RecvUnexpected(r)
      PROVE  FALSE
  BY <1>4, <1>7 DEF RecvUnexpected, Refuse
<1>8. PICK r \in Peers, q \in Queries : RecvQuery(r, q)
  BY <1>2, <1>5, <1>6, <1>7
  DEF Next, Protocol, RecvMalformed, Expire, Ingest, Slurp, Serve, Purge, Method,
      StartIngest, SetDetmask, SetQueue, vars, serverVars
<1> DEFINE n == Len(asked[r]) + 1
<1>9. n \in Nat \ {0}
  BY LenProperties DEF TypeOK
<1>10. /\ asked' = [asked EXCEPT ![r] = Append(@, q)]
       /\ Answer(r, q, n)
  BY <1>2, <1>4, <1>8 DEF RecvQuery, Refuse
<1> HIDE DEF n
<1>11. /\ ~ Bogus(q)
       /\ \/ Send(r, Result(n, 404, {}))
          \/ InSight(q) /\ Send(r, Result(n, 206, Payload(q)))
          \/ InSight(q) /\ Lower(iq) <= Beg(q) /\ Send(r, Result(n, 200, Payload(q)))
  BY <1>4, <1>10 DEF Answer
<1>12. r = p
  BY <1>3, <1>9, <1>11, ResultType
<1>13. \/ m = Result(n, 404, {})
       \/ InSight(q) /\ m = Result(n, 206, Payload(q))
       \/ InSight(q) /\ Lower(iq) <= Beg(q) /\ m = Result(n, 200, Payload(q))
  BY <1>3, <1>9, <1>11, ResultType
<1>14. n = Len(asked[p]) + 1
  BY <1>12 DEF n
<1>15. asked' = [asked EXCEPT ![p] = Append(@, q)]
  BY <1>10, <1>12
<1>16. QED
  <2> USE <1>9
  <2> WITNESS q \in Queries
  <2> WITNESS n \in Nat \ {0}
  <2>1. QED
    BY <1>11, <1>13, <1>14, <1>15

\* Status 200 on arrival of a query means that the payload is complete.
LEMMA SuccessStep ==
  ASSUME TypeOK, QueueInv, NoHole, [Next]_vars, pc = "poll",
         NEW p \in Peers, NEW m \in NewResults(p), m.status = 200
  PROVE  m.payload = {tp \in kept : Overlaps(tp, Beg(asked'[p][m.seqno]),
                                                 End(asked'[p][m.seqno]))}
<1>1. PICK q \in Queries, n \in Nat \ {0} :
        /\ n = Len(asked[p]) + 1
        /\ asked' = [asked EXCEPT ![p] = Append(@, q)]
        /\ \/ m = Result(n, 404, {})
           \/ m = Result(n, 206, Payload(q))
           \/ InSight(q) /\ Lower(iq) <= Beg(q) /\ m = Result(n, 200, Payload(q))
  BY NewResultFromAnswer
<1>2. Result(n, 404, {}).status = 404 /\ Result(n, 206, Payload(q)).status = 206
  BY DEF Result
<1>3. InSight(q) /\ Lower(iq) <= Beg(q) /\ m = Result(n, 200, Payload(q))
  BY <1>1, <1>2
<1>4. m.seqno = n /\ m.payload = Payload(q)
  BY <1>3 DEF Result
<1>5. asked'[p][n] = q
  <2>1. asked[p] \in Seq(Queries) /\ asked'[p] = Append(asked[p], q)
    BY <1>1 DEF TypeOK
  <2>2. QED
    BY <1>1, <2>1, AppendProperties
<1>6. Beg(q) \in Int /\ End(q) \in Int
  BY QueryTicks, ServerAssumption, QueueAssumption DEF Ticks
<1>7. iq # {}
  BY <1>3, <1>6 DEF InSight, Lower, Upper
<1>8. Payload(q) = {tp \in kept : Overlaps(tp, Beg(q), End(q))}
  BY <1>3, <1>6, <1>7, FetchComplete DEF Payload, QueueInv
<1>9. QED
  BY <1>4, <1>5, <1>8

\* Success is complete when the stream is less out of order than the queue is
\* deep: the payload is every accepted TPSet over the interval, and so has every
\* one that the mask matches.
THEOREM SuccessComplete ==
  ASSUME Skew <= Depth
  PROVE  Spec => SuccessIsComplete
<1>1. TypeOK /\ QueueInv /\ NoHole /\ [Next]_vars =>
        [pc = "poll" => \A p \in Peers : \A m \in NewResults(p) : m.status = 200 =>
           LET q == asked'[p][m.seqno]
           IN  Selected(m.payload, q.detmask)
                 = Selected({tp \in kept : Overlaps(tp, Beg(q), End(q))}, q.detmask)]_vars
  <2>1. SUFFICES ASSUME TypeOK, QueueInv, NoHole, [Next]_vars, ~ UNCHANGED vars,
                        pc = "poll",
                        NEW p \in Peers, NEW m \in NewResults(p), m.status = 200
                 PROVE  LET q == asked'[p][m.seqno]
                        IN  Selected(m.payload, q.detmask)
                              = Selected({tp \in kept : Overlaps(tp, Beg(q), End(q))},
                                         q.detmask)
    OBVIOUS
  <2>2. LET q == asked'[p][m.seqno]
        IN  m.payload = {tp \in kept : Overlaps(tp, Beg(q), End(q))}
    BY <2>1, SuccessStep
  <2>3. QED
    BY <2>2
<1>2. QED
  BY <1>1, TypeCorrect, QueueInvariant, QueueHasNoHole, PTL
  DEF Spec, SuccessIsComplete

-----------------------------------------------------------------------------
(***************************************************************************)
(* The bound on the queue.                                                 *)
(***************************************************************************)

\* The larger of two water marks.
LEMMA MaxOfTwo ==
  ASSUME NEW a \in Nat, NEW b \in Nat
  PROVE  Max({a, b}) \in Nat /\ a <= Max({a, b}) /\ b <= Max({a, b})
<1>1. \E x \in {a, b} : \A y \in {a, b} : x >= y
  OBVIOUS
<1>2. Max({a, b}) \in {a, b} /\ \A y \in {a, b} : Max({a, b}) >= y
  BY <1>1 DEF Max
<1>3. QED
  BY <1>2

\* A purge brings the span of the queue under the larger water mark.
LEMMA PurgeStep ==
  ASSUME TypeOK, QueueInv, [Next]_vars, pc = "serve", pc' = "poll"
  PROVE  Upper(iq') - Lower(iq') <= Max({water.lwm, water.hwm})
<1>1. Purge
  BY DEF Next, Protocol, Receive, RecvHello, RecvPing, RecvGoodbye,
         RecvUnexpected, RecvMalformed, RecvQuery, Expire, Ingest, Slurp, Serve,
         Method, StartIngest, SetDetmask, SetQueue, vars, serverVars
<1>2. water.lwm \in Nat /\ water.hwm \in Nat
  BY DEF TypeOK, Settings
<1>3. /\ Max({water.lwm, water.hwm}) \in Nat
      /\ water.lwm <= Max({water.lwm, water.hwm})
      /\ water.hwm <= Max({water.lwm, water.hwm})
  BY <1>2, MaxOfTwo
<1>4. iq \in SUBSET Entries /\ iq' \in SUBSET Entries
  BY TypeStep DEF TypeOK
<1>5. /\ Upper(iq) \in Int /\ Lower(iq) \in Int
      /\ Upper(iq') \in Int /\ Lower(iq') \in Int
  BY <1>4, UpperIsGreatest, LowerIsLeast
<1>6. Upper(iq') = Upper(iq)
  BY <1>1, PurgeFacts DEF QueueInv
<1>7. CASE ~ AboveHwm
  <2>1. iq' = iq
    BY <1>1, <1>7 DEF Purge
  <2>2. QED
    BY <1>2, <1>3, <1>5, <1>7, <2>1 DEF AboveHwm, Span
<1>8. CASE AboveHwm
  <2> DEFINE cut == Upper(iq) - water.lwm
  <2>1. iq' = EraseBelow(iq, cut) /\ cut \in Int
    BY <1>1, <1>2, <1>5, <1>8 DEF Purge
  <2>2. CASE iq' = {}
    BY <1>3, <2>2 DEF Upper, Lower
  <2>3. CASE iq' # {}
    <3>1. PICK f \in iq' : f.lo = Lower(iq')
      BY <1>4, <2>3, LowerIsLeast
    <3>2. PICK e \in iq : f.lo = IF e.lo < cut THEN cut ELSE e.lo
      BY <1>4, <2>1, EraseMembers
    <3>3. e.lo \in Int
      BY <1>4 DEF Entries
    <3>4. cut <= Lower(iq')
      BY <2>1, <3>1, <3>2, <3>3
    <3>5. QED
      BY <1>2, <1>3, <1>5, <1>6, <3>4
  <2>4. QED
    BY <2>2, <2>3
<1>9. QED
  BY <1>7, <1>8

\* The purge bounds the queue.
THEOREM QueueBounded == Spec => PurgeBounds
<1>1. TypeOK /\ QueueInv /\ [Next]_vars =>
        [pc = "serve" /\ pc' = "poll" =>
           (Upper(iq) - Lower(iq))' <= Max({water.lwm, water.hwm})]_vars
  BY PurgeStep
<1>2. QED
  BY <1>1, TypeCorrect, QueueInvariant, PTL DEF Spec, PurgeBounds

-----------------------------------------------------------------------------
(***************************************************************************)
(* Contexts.  A live context belongs to a peer and no peer has two.        *)
(***************************************************************************)

ContextInv ==
  /\ \A c \in Clients : Live(c) => clients[c].peer \in Peers
  /\ \A c, d \in Clients :
       Live(c) /\ Live(d) /\ clients[c].peer = clients[d].peer => c = d

\* A context set to a live state is that of its peer, the others stay.
LEMMA SetContext ==
  ASSUME TypeOK, ContextInv, NEW c \in Clients, NEW p \in Peers, Serves(c, p),
         NEW s, s # "free", SetState(c, p, s)
  PROVE  /\ ContextInv'
         /\ clients'[c] = [peer |-> p, state |-> s]
         /\ \A d \in Clients : d # c => clients'[d] = clients[d]
<1>1. clients \in [Clients -> Contexts]
  BY DEF TypeOK
<1>2. /\ clients'[c] = [peer |-> p, state |-> s]
      /\ \A d \in Clients : d # c => clients'[d] = clients[d]
  BY <1>1 DEF SetState
<1>3. \A d \in Clients : Live(d) /\ clients[d].peer = p => d = c
  BY DEF Serves, ContextInv
<1>4. \A d \in Clients : Live(d)' => clients'[d].peer \in Peers
  BY <1>2 DEF ContextInv, Live
<1>5. ASSUME NEW d \in Clients, NEW e \in Clients, Live(d)', Live(e)',
             clients'[d].peer = clients'[e].peer
      PROVE  d = e
  BY <1>2, <1>3, <1>5 DEF ContextInv, Live
<1>6. QED
  BY <1>2, <1>4, <1>5 DEF ContextInv

\* A terminated context is free, the others stay.
LEMMA EndContext ==
  ASSUME TypeOK, ContextInv, NEW c \in Clients, Terminate(c)
  PROVE  /\ ContextInv'
         /\ clients'[c].state = "free"
         /\ \A d \in Clients : d # c => clients'[d] = clients[d]
<1>1. /\ clients'[c] = Free
      /\ \A d \in Clients : d # c => clients'[d] = clients[d]
  BY DEF TypeOK, Terminate
<1>2. clients'[c].state = "free"
  BY <1>1 DEF Free
<1>3. \A d \in Clients : Live(d)' => d # c /\ Live(d) /\ clients'[d] = clients[d]
  BY <1>1, <1>2 DEF Live
<1>4. QED
  BY <1>1, <1>2, <1>3 DEF ContextInv

\* The messages that are no RESULT and no ERROR.
LEMMA OtherMessages ==
  ASSUME TypeOK
  PROVE  /\ [type |-> "COVERAGE", detmask |-> detmask] \in Messages
         /\ [type |-> "PONG"] \in Messages
         /\ [type |-> "GOODBYE_OK"] \in Messages
<1>1. detmask \in SUBSET DetBits
  BY DEF TypeOK
<1>2. [type |-> "COVERAGE", detmask |-> detmask]
        \in [type : {"COVERAGE"}, detmask : SUBSET DetBits]
  BY <1>1
<1>3. [type |-> "PONG"] \in [type : {"PONG", "GOODBYE_OK"}]
  OBVIOUS
<1>4. [type |-> "GOODBYE_OK"] \in [type : {"PONG", "GOODBYE_OK"}]
  OBVIOUS
<1>5. QED
  BY <1>2, <1>3, <1>4 DEF Messages

\* The state of the context that serves a peer is a live one.
LEMMA LiveState ==
  ASSUME TypeOK, NEW c \in Clients
  PROVE  StateOf(c) # "free"
  BY DEF StateOf, Live

\* How a step can change the contexts: not at all, by a message of a peer to
\* its own one, or by the end of one.
LEMMA ContextFrame ==
  ASSUME TypeOK, [Next]_vars
  PROVE  \/ UNCHANGED clients
         \/ \E p \in Peers, c \in Clients :
              /\ Serves(c, p)
              /\ SetState(c, p, StateOf(c)) \/ SetState(c, p, "connected")
         \/ \E c \in Clients : Terminate(c)
<1>1. ASSUME NEW p \in Peers, Protocol(p)
      PROVE  \/ UNCHANGED clients
             \/ \E c \in Clients :
                  /\ Serves(c, p)
                  /\ SetState(c, p, StateOf(c)) \/ SetState(c, p, "connected")
             \/ \E c \in Clients : Terminate(c)
  BY <1>1 DEF Protocol, RecvHello, RecvPing, RecvGoodbye, RecvUnexpected,
              RecvMalformed, RecvQuery, Refuse
<1>2. CASE Serve
  <2>1. Min(Due) \in Due /\ Head(pending[Min(Due)]) \in Requests
    BY <1>2, ServeType DEF Serve
  <2>2. Head(pending[Min(Due)]).client \in Clients
    BY <2>1 DEF Requests
  <2>3. QED
    BY <1>2, <2>2 DEF Serve, Refuse
<1>3. QED
  BY <1>1, <1>2 DEF Next, Expire, Ingest, Slurp, Purge, Method, StartIngest,
                    SetDetmask, SetQueue, vars, serverVars

\* Every step leaves each peer with one context at most.
LEMMA ContextStep == TypeOK /\ ContextInv /\ [Next]_vars => ContextInv'
<1> SUFFICES ASSUME TypeOK, ContextInv, [Next]_vars PROVE ContextInv'
  OBVIOUS
<1>1. CASE UNCHANGED clients
  BY <1>1 DEF ContextInv, Live
<1>2. ASSUME NEW p \in Peers, NEW c \in Clients, Serves(c, p),
             SetState(c, p, StateOf(c)) \/ SetState(c, p, "connected")
      PROVE  ContextInv'
  BY <1>2, SetContext, LiveState
<1>3. ASSUME NEW c \in Clients, Terminate(c)
      PROVE  ContextInv'
  BY <1>3, EndContext
<1>4. QED
  BY <1>1, <1>2, <1>3, ContextFrame

\* Each peer has one context at most, whatever contexts came and went: the
\* lookup by routing id never creates a second one.
THEOREM OneContextEach == Spec => []ContextInv
<1>1. Init => ContextInv
  BY DEF Init, ContextInv, Live, Free
<1>2. QED
  BY <1>1, ContextStep, TypeCorrect, PTL DEF Spec

-----------------------------------------------------------------------------
(***************************************************************************)
(* Greetings.  A peer is greeted by the first n messages sent to it when   *)
(* one of them is a COVERAGE and no later one a GOODBYE_OK.  The           *)
(* invariant: the peer of every connected context is greeted now.  A       *)
(* RESULT is sent only through a connected context, and only GOODBYE,      *)
(* which ends the one context of its peer, undoes a greeting.              *)
(***************************************************************************)

GreetedBy(s, n) ==
  \E j \in 1 .. n :
    /\ s[j].type = "COVERAGE"
    /\ \A k \in (j + 1) .. n : s[k].type # "GOODBYE_OK"

Greeted(p) == GreetedBy(out[p], Len(out[p]))

GreetingInv ==
  /\ \A c \in Clients : clients[c].state = "connected" => Greeted(clients[c].peer)
  /\ GreetedBeforeResult

\* What one more message does to the greetings of a sequence.
LEMMA GreetingOfAppend ==
  ASSUME NEW s \in Seq(Messages), NEW m \in Messages
  PROVE  /\ \A i \in 0 .. Len(s) : GreetedBy(s, i) => GreetedBy(Append(s, m), i)
         /\ GreetedBy(s, Len(s)) /\ m.type # "GOODBYE_OK" =>
              GreetedBy(Append(s, m), Len(s) + 1)
         /\ m.type = "COVERAGE" => GreetedBy(Append(s, m), Len(s) + 1)
<1> DEFINE t == Append(s, m)
           n == Len(s)
<1>1. /\ n \in Nat /\ t[n + 1] = m
      /\ \A i \in 1 .. n : t[i] = s[i]
  BY AppendProperties, LenProperties
<1> HIDE DEF t, n
<1>2. ASSUME NEW i \in 0 .. n, GreetedBy(s, i)
      PROVE  GreetedBy(t, i)
  <2>1. PICK j \in 1 .. i :
          s[j].type = "COVERAGE" /\ \A k \in (j + 1) .. i : s[k].type # "GOODBYE_OK"
    BY <1>2 DEF GreetedBy
  <2>2. t[j].type = "COVERAGE" /\ \A k \in (j + 1) .. i : t[k].type # "GOODBYE_OK"
    BY <1>1, <2>1
  <2>3. QED
    BY <2>2 DEF GreetedBy
<1>3. ASSUME GreetedBy(s, n), m.type # "GOODBYE_OK"
      PROVE  GreetedBy(t, n + 1)
  <2>1. PICK j \in 1 .. n :
          s[j].type = "COVERAGE" /\ \A k \in (j + 1) .. n : s[k].type # "GOODBYE_OK"
    BY <1>3 DEF GreetedBy
  <2>2. /\ j \in 1 .. (n + 1) /\ t[j].type = "COVERAGE"
        /\ \A k \in (j + 1) .. (n + 1) : t[k].type # "GOODBYE_OK"
    BY <1>1, <1>3, <2>1
  <2>3. QED
    BY <2>2 DEF GreetedBy
<1>4. ASSUME m.type = "COVERAGE"
      PROVE  GreetedBy(t, n + 1)
  <2>1. /\ n + 1 \in 1 .. (n + 1) /\ t[n + 1].type = "COVERAGE"
        /\ \A k \in (n + 1 + 1) .. (n + 1) : t[k].type # "GOODBYE_OK"
    BY <1>1, <1>4
  <2>2. QED
    BY <2>1 DEF GreetedBy
<1>5. QED
  BY <1>2, <1>3, <1>4 DEF t, n

\* A message sent to p: the others are as greeted as before, and so is p unless
\* it was the farewell; a COVERAGE greets it.
LEMMA GreetingOfSend ==
  ASSUME TypeOK, NEW p \in Peers, NEW m \in Messages, Send(p, m)
  PROVE  /\ \A r \in Peers : Greeted(r) /\ (r = p => m.type # "GOODBYE_OK") => Greeted(r)'
         /\ m.type = "COVERAGE" => Greeted(p)'
<1>1. out[p] \in Seq(Messages) /\ out'[p] = Append(out[p], m)
  BY DEF TypeOK, Send
<1>2. \A r \in Peers : r # p => out'[r] = out[r]
  BY DEF TypeOK, Send
<1>3. Len(out[p]) \in Nat /\ Len(out'[p]) = Len(out[p]) + 1
  BY <1>1, AppendProperties, LenProperties
<1>4. /\ Greeted(p) /\ m.type # "GOODBYE_OK" => Greeted(p)'
      /\ m.type = "COVERAGE" => Greeted(p)'
  BY <1>1, <1>3, GreetingOfAppend DEF Greeted
<1>5. QED
  BY <1>2, <1>4 DEF Greeted

\* If a RESULT is sent to a greeted peer only, all RESULTs stay so.
LEMMA ResultsStayGreeted ==
  ASSUME TypeOK, GreetedBeforeResult, NEW p \in Peers, NEW m \in Messages, Send(p, m),
         m.type = "RESULT" => Greeted(p)
  PROVE  GreetedBeforeResult'
<1> SUFFICES ASSUME NEW r \in Peers, NEW i \in DOMAIN out'[r], out'[r][i].type = "RESULT"
             PROVE  GreetedBy(out'[r], i - 1)
  BY DEF GreetedBeforeResult, GreetedBy
<1>1. \A j \in DOMAIN out[r] : out[r][j].type = "RESULT" => GreetedBy(out[r], j - 1)
  BY DEF GreetedBeforeResult, GreetedBy
<1>2. CASE r # p
  <2>1. out'[r] = out[r]
    BY <1>2 DEF TypeOK, Send
  <2>2. QED
    BY <1>1, <2>1
<1>3. CASE r = p
  <2>1. out[p] \in Seq(Messages) /\ out'[p] = Append(out[p], m)
    BY DEF TypeOK, Send
  <2>2. /\ Len(out[p]) \in Nat /\ DOMAIN out[p] = 1 .. Len(out[p])
        /\ DOMAIN out'[p] = 1 .. (Len(out[p]) + 1)
        /\ \A j \in 1 .. Len(out[p]) : out'[p][j] = out[p][j]
        /\ out'[p][Len(out[p]) + 1] = m
    <3>1. Append(out[p], m) \in Seq(Messages)
      BY <2>1, AppendProperties
    <3>2. QED
      BY <2>1, <3>1, AppendProperties, LenProperties
  <2>3. \A j \in 0 .. Len(out[p]) : GreetedBy(out[p], j) => GreetedBy(out'[p], j)
    BY <2>1, GreetingOfAppend
  <2>4. CASE i \in 1 .. Len(out[p])
    <3>1. i - 1 \in 0 .. Len(out[p]) /\ GreetedBy(out[p], i - 1)
      BY <1>1, <1>3, <2>2, <2>4
    <3>2. QED
      BY <1>3, <2>3, <3>1
  <2>5. CASE i = Len(out[p]) + 1
    <3>1. i - 1 = Len(out[p]) /\ GreetedBy(out[p], Len(out[p]))
      BY <1>3, <2>2, <2>5 DEF Greeted
    <3>2. QED
      BY <1>3, <2>2, <2>3, <3>1
  <2>6. QED
    BY <1>3, <2>2, <2>4, <2>5
<1>4. QED
  BY <1>2, <1>3

\* Nothing sent: the greetings stay.
LEMMA GreetingFrame ==
  ASSUME GreetingInv, UNCHANGED out
  PROVE  /\ GreetedBeforeResult'
         /\ \A r \in Peers : Greeted(r) => Greeted(r)'
BY DEF GreetingInv, GreetedBeforeResult, Greeted

\* A step that sends m to p and leaves every connected context greeted.
LEMMA GreetingSendStep ==
  ASSUME TypeOK, ContextInv, GreetingInv, NEW p \in Peers, NEW m \in Messages,
         Send(p, m), m.type # "GOODBYE_OK", m.type = "RESULT" => Greeted(p),
         \A c \in Clients : clients'[c].state = "connected" =>
           \/ clients'[c] = clients[c]
           \/ clients'[c].peer = p /\ m.type = "COVERAGE"
  PROVE  GreetingInv'
<1>1. GreetedBeforeResult'
  BY ResultsStayGreeted DEF GreetingInv
<1>2. ASSUME NEW c \in Clients, clients'[c].state = "connected",
             NEW r, r = clients'[c].peer
      PROVE  Greeted(r)'
  <2>1. CASE clients'[c] = clients[c]
    <3>1. r \in Peers /\ Greeted(r)
      BY <1>2, <2>1 DEF GreetingInv, ContextInv, Live
    <3>2. QED
      BY <3>1, GreetingOfSend
  <2>2. CASE clients'[c].peer = p /\ m.type = "COVERAGE"
    BY <1>2, <2>2, GreetingOfSend
  <2>3. QED
    BY <1>2, <2>1, <2>2
<1>3. QED
  BY <1>1, <1>2 DEF GreetingInv, Greeted

\* The silent steps: a connected context was connected before.
LEMMA GreetingSilentStep ==
  ASSUME ContextInv, GreetingInv, UNCHANGED out,
         \A c \in Clients : clients'[c].state = "connected" => clients'[c] = clients[c]
  PROVE  GreetingInv'
<1>1. ASSUME NEW c \in Clients, clients'[c].state = "connected",
             NEW r, r = clients'[c].peer
      PROVE  Greeted(r)'
  <2>1. r \in Peers /\ Greeted(r)
    BY <1>1 DEF GreetingInv, ContextInv, Live
  <2>2. QED
    BY <2>1, GreetingFrame
<1>2. QED
  BY <1>1, GreetingFrame DEF GreetingInv, Greeted

\* Every step keeps the greetings.
LEMMA GreetingStep == TypeOK /\ ContextInv /\ GreetingInv /\ [Next]_vars => GreetingInv'
<1> SUFFICES ASSUME TypeOK, ContextInv, GreetingInv, [Next]_vars PROVE GreetingInv'
  OBVIOUS
<1>1. ASSUME NEW p \in Peers, NEW c \in Clients, Refuse(c, p)
      PROVE  GreetingInv'
  <2>1. Send(p, Error) /\ Error \in Messages /\ Error.type = "ERROR"
    BY <1>1, ErrorType DEF Refuse, Error
  <2>2. \A d \in Clients : clients'[d].state = "connected" => clients'[d] = clients[d]
    BY <1>1, EndContext DEF Refuse
  <2>3. QED
    BY <2>1, <2>2, GreetingSendStep
\* A context whose state does not change.
<1>2. ASSUME NEW p \in Peers, NEW c \in Clients, Serves(c, p), SetState(c, p, StateOf(c))
      PROVE  \A d \in Clients : clients'[d].state = "connected" => clients'[d] = clients[d]
  <2>1. /\ clients'[c] = [peer |-> p, state |-> StateOf(c)]
        /\ \A d \in Clients : d # c => clients'[d] = clients[d]
    BY <1>2, SetContext, LiveState
  <2>2. StateOf(c) = "connected" => clients[c] = [peer |-> p, state |-> "connected"]
    BY <1>2 DEF StateOf, Serves, TypeOK, Contexts
  <2>3. QED
    BY <2>1, <2>2
<1>3. ASSUME NEW p \in Peers, RecvHello(p)
      PROVE  GreetingInv'
  <2>1. CASE \E c \in Clients : Refuse(c, p)
    BY <1>1, <2>1
  <2>2. ASSUME NEW c \in Clients, Serves(c, p), SetState(c, p, "connected"),
               Send(p, [type |-> "COVERAGE", detmask |-> detmask])
        PROVE  GreetingInv'
    <3> DEFINE m == [type |-> "COVERAGE", detmask |-> detmask]
    <3>1. m \in Messages /\ m.type = "COVERAGE"
      BY DEF TypeOK, Messages
    <3>2. \A d \in Clients : clients'[d] = clients[d] \/ clients'[d].peer = p
      <4>1. /\ clients'[c] = [peer |-> p, state |-> "connected"]
            /\ \A d \in Clients : d # c => clients'[d] = clients[d]
        BY <2>2, SetContext
      <4>2. QED
        BY <4>1
    <3>3. Send(p, m)
      BY <2>2
    <3> HIDE DEF m
    <3>4. QED
      BY <3>1, <3>2, <3>3, GreetingSendStep
  <2>3. QED
    BY <1>3, <2>1, <2>2 DEF RecvHello
<1>4. ASSUME NEW p \in Peers, RecvPing(p)
      PROVE  GreetingInv'
  <2>1. [type |-> "PONG"] \in Messages /\ [type |-> "PONG"].type = "PONG"
    BY DEF Messages
  <2>2. Send(p, [type |-> "PONG"])
    BY <1>4 DEF RecvPing
  <2>3. \A d \in Clients : clients'[d].state = "connected" => clients'[d] = clients[d]
    BY <1>2, <1>4 DEF RecvPing
  <2>4. QED
    BY <2>1, <2>2, <2>3, GreetingSendStep
<1>5. ASSUME NEW p \in Peers, RecvGoodbye(p)
      PROVE  GreetingInv'
  <2> DEFINE m == [type |-> "GOODBYE_OK"]
  <2>1. m \in Messages /\ m.type = "GOODBYE_OK" /\ Send(p, m)
    BY <1>5 DEF Messages, RecvGoodbye
  <2>2. PICK c \in Clients : Serves(c, p) /\ Terminate(c)
    BY <1>5 DEF RecvGoodbye
  <2> HIDE DEF m
  <2>3. GreetedBeforeResult'
    BY <2>1, ResultsStayGreeted DEF GreetingInv
  <2>4. ASSUME NEW d \in Clients, clients'[d].state = "connected",
               NEW r, r = clients'[d].peer
        PROVE  Greeted(r)'
    <3>1. d # c /\ clients'[d] = clients[d]
      BY <2>2, <2>4, EndContext
    <3>2. r \in Peers /\ Greeted(r)
      BY <2>4, <3>1 DEF GreetingInv, ContextInv, Live
    <3>3. r # p
      BY <2>2, <2>4, <3>1 DEF Serves, ContextInv, Live
    <3>4. QED
      BY <2>1, <3>2, <3>3, GreetingOfSend
  <2>5. QED
    BY <2>3, <2>4 DEF GreetingInv, Greeted
<1>6. ASSUME NEW p \in Peers, RecvUnexpected(p)
      PROVE  GreetingInv'
  BY <1>1, <1>6 DEF RecvUnexpected
<1>7. ASSUME NEW p \in Peers, RecvMalformed(p)
      PROVE  GreetingInv'
  <2>1. \A d \in Clients : clients'[d].state = "connected" => clients'[d] = clients[d]
    BY <1>2, <1>7 DEF RecvMalformed
  <2>2. QED
    BY <1>7, <2>1, GreetingSilentStep DEF RecvMalformed
<1>8. ASSUME NEW p \in Peers, NEW q \in Queries, RecvQuery(p, q)
      PROVE  GreetingInv'
  <2> DEFINE n == Len(asked[p]) + 1
  <2>1. n \in Nat \ {0}
    BY LenProperties DEF TypeOK
  <2> HIDE DEF n
  <2>2. CASE \E c \in Clients : Refuse(c, p)
    BY <1>1, <2>2
  <2>3. ASSUME NEW c \in Clients, Serves(c, p), StateOf(c) = "connected",
               UNCHANGED clients, Answer(p, q, n)
        PROVE  GreetingInv'
    <3>1. Greeted(p)
      BY <2>3 DEF GreetingInv, StateOf, Serves
    <3>2. PICK m \in Messages : Send(p, m) /\ m.type \in {"RESULT", "ERROR"}
      <4>1. /\ Error \in Messages /\ Error.type = "ERROR"
            /\ \A s \in {200, 206, 404} :
                 /\ Result(n, s, {}) \in Messages /\ Result(n, s, {}).type = "RESULT"
                 /\ Result(n, s, Payload(q)) \in Messages
                 /\ Result(n, s, Payload(q)).type = "RESULT"
        BY <2>1, ErrorType, ResultType DEF Error, Result
      <4>2. QED
        BY <2>3, <4>1 DEF Answer
    <3>3. QED
      BY <2>3, <3>1, <3>2, GreetingSendStep
  <2>4. ASSUME UNCHANGED clients, UNCHANGED out
        PROVE  GreetingInv'
    BY <2>4, GreetingSilentStep
  <2>5. QED
    BY <1>8, <2>2, <2>3, <2>4 DEF RecvQuery, n
<1>9. ASSUME NEW c \in Clients, Expire(c)
      PROVE  GreetingInv'
  <2>1. UNCHANGED out /\ Terminate(c)
    BY <1>9 DEF Expire
  <2>2. \A d \in Clients : clients'[d].state = "connected" => clients'[d] = clients[d]
    BY <2>1, EndContext
  <2>3. QED
    BY <2>1, <2>2, GreetingSilentStep
<1>10. CASE Serve
  <2> DEFINE r == Head(pending[Min(Due)])
             p == clients[r.client].peer
  <2>1. r \in Requests
    BY <1>10, ServeType DEF Serve, Due
  <2>2. r.client \in Clients /\ r.seqno \in Nat \ {0}
    BY <2>1 DEF Requests
  <2>3. /\ clients[r.client].state = "connected" =>
             Send(p, Result(r.seqno, 200, Payload(message))) /\ UNCHANGED clients
        /\ clients[r.client].state = "start" => Refuse(r.client, p)
        /\ clients[r.client].state = "free" => UNCHANGED <<clients, out>>
    BY <1>10 DEF Serve
  <2>4. clients[r.client].state # "free" => p \in Peers
    BY <2>2 DEF ContextInv, Live
  <2>5. clients[r.client].state = "connected" => Greeted(p)
    BY <2>2 DEF GreetingInv
  <2> HIDE DEF r, p
  <2>6. CASE clients[r.client].state = "free"
    BY <2>3, <2>6, GreetingSilentStep
  <2>7. CASE clients[r.client].state = "start"
    BY <1>1, <2>2, <2>3, <2>4, <2>7
  <2>8. CASE clients[r.client].state = "connected"
    <3>1. PICK m \in Messages : m = Result(r.seqno, 200, Payload(message))
      BY <2>2, ResultType
    <3>2. m.type = "RESULT"
      BY <3>1 DEF Result
    <3>3. QED
      BY <2>3, <2>4, <2>5, <2>8, <3>1, <3>2, GreetingSendStep
  <2>9. QED
    BY <2>2, <2>6, <2>7, <2>8 DEF TypeOK, Contexts, States
<1>11. ASSUME UNCHANGED <<clients, out>>
       PROVE  GreetingInv'
  BY <1>11, GreetingSilentStep
<1>12. QED
  BY <1>3, <1>4, <1>5, <1>6, <1>7, <1>8, <1>9, <1>10, <1>11
  DEF Next, Protocol, Ingest, Slurp, Purge, Method, StartIngest, SetDetmask,
      SetQueue, vars, serverVars

\* A peer gets a RESULT only while it is connected: whoever used the address of
\* its context before, whatever requests an earlier context left behind and
\* however the peers behave.
THEOREM ResultsAreGreeted == Spec => []GreetedBeforeResult
<1>1. Init => GreetingInv
  BY DEF Init, GreetingInv, GreetedBeforeResult, Free
<1>2. GreetingInv => GreetedBeforeResult
  BY DEF GreetingInv
<1>3. QED
  BY <1>1, <1>2, GreetingStep, OneContextEach, TypeCorrect, PTL DEF Spec

-----------------------------------------------------------------------------
(***************************************************************************)
(* Answers and waiting requests.  Query n of peer p is answered by message *)
(* i to p, or waits at place i of the requests under key k.  The lemmas    *)
(* say how a message that is sent, a query that is held and a request that *)
(* is served change these two relations.                                   *)
(***************************************************************************)

AnsweredAt(p, n, i) ==
  /\ i \in DOMAIN out[p]
  /\ out[p][i].type = "RESULT"
  /\ out[p][i].seqno = n

WaitsAt(p, n, k, i) ==
  /\ k \in Ticks
  /\ i \in DOMAIN pending[k]
  /\ pending[k][i].from = p
  /\ pending[k][i].seqno = n

\* One message appended to what was sent to p.
LEMMA OutOfSend ==
  ASSUME TypeOK, NEW p \in Peers, NEW m \in Messages, Send(p, m)
  PROVE  /\ \A r \in Peers : r # p => out'[r] = out[r]
         /\ Len(out[p]) \in Nat
         /\ DOMAIN out[p] = 1 .. Len(out[p])
         /\ DOMAIN out'[p] = 1 .. (Len(out[p]) + 1)
         /\ \A j \in 1 .. Len(out[p]) : out'[p][j] = out[p][j]
         /\ out'[p][Len(out[p]) + 1] = m
<1>1. /\ out[p] \in Seq(Messages) /\ out'[p] = Append(out[p], m)
      /\ \A r \in Peers : r # p => out'[r] = out[r]
  BY DEF TypeOK, Send
<1>2. Append(out[p], m) \in Seq(Messages)
  BY <1>1, AppendProperties
<1>3. QED
  BY <1>1, <1>2, AppendProperties, LenProperties

\* A message that is no RESULT answers nothing.
LEMMA SendOther ==
  ASSUME TypeOK, NEW p \in Peers, NEW m \in Messages, Send(p, m), m.type # "RESULT"
  PROVE  \A r \in Peers : \A n, i : AnsweredAt(r, n, i)' <=> AnsweredAt(r, n, i)
<1> TAKE r \in Peers
<1> TAKE n, i
<1>1. CASE r # p
  BY <1>1, OutOfSend DEF AnsweredAt
<1>2. CASE r = p
  BY <1>2, OutOfSend DEF AnsweredAt
<1>3. QED
  BY <1>1, <1>2

\* A RESULT answers one query, in the place after all others.
LEMMA SendResult ==
  ASSUME TypeOK, NEW p \in Peers, NEW m \in Messages, Send(p, m), m.type = "RESULT"
  PROVE  /\ \A r \in Peers : \A n, i :
              AnsweredAt(r, n, i)' <=> \/ AnsweredAt(r, n, i)
                                       \/ r = p /\ n = m.seqno /\ i = Len(out[p]) + 1
         /\ \A n, i : AnsweredAt(p, n, i) => i # Len(out[p]) + 1
<1>1. ASSUME NEW r \in Peers, NEW n, NEW i
      PROVE  AnsweredAt(r, n, i)' <=> \/ AnsweredAt(r, n, i)
                                      \/ r = p /\ n = m.seqno /\ i = Len(out[p]) + 1
  <2>1. CASE r # p
    BY <2>1, OutOfSend DEF AnsweredAt
  <2>2. CASE r = p
    BY <2>2, OutOfSend DEF AnsweredAt
  <2>3. QED
    BY <2>1, <2>2
<1>2. ASSUME NEW n, NEW i, AnsweredAt(p, n, i)
      PROVE  i # Len(out[p]) + 1
  BY <1>2, OutOfSend DEF AnsweredAt
<1>3. QED
  BY <1>1, <1>2

\* Held requests are requests.
LEMMA PendingType ==
  ASSUME TypeOK, NEW k \in Ticks
  PROVE  /\ pending[k] \in Seq(Requests)
         /\ Len(pending[k]) \in Nat /\ DOMAIN pending[k] = 1 .. Len(pending[k])
         /\ \A i \in DOMAIN pending[k] : pending[k][i] \in Requests
<1>1. pending[k] \in Seq(Requests)
  BY DEF TypeOK
<1>2. QED
  BY <1>1, LenProperties, ElementOfSeq

\* A query that is held waits in the place after all others under its key.
LEMMA HoldFacts ==
  ASSUME TypeOK, NEW c \in Clients, NEW p \in Peers, NEW q \in Queries,
         NEW n \in Nat \ {0}, Hold(c, p, q, n)
  PROVE  /\ End(q) \in Ticks
         /\ \A k \in Ticks : k # End(q) => pending'[k] = pending[k]
         /\ DOMAIN pending'[End(q)] = 1 .. (Len(pending[End(q)]) + 1)
         /\ \A i \in DOMAIN pending[End(q)] : pending'[End(q)][i] = pending[End(q)][i]
         /\ pending'[End(q)][Len(pending[End(q)]) + 1] =
              [client |-> c, detmask |-> q.detmask, tstart |-> Beg(q),
               seqno |-> n, from |-> p]
<1> DEFINE r == [client |-> c, detmask |-> q.detmask, tstart |-> Beg(q),
                 seqno |-> n, from |-> p]
           k == End(q)
<1>1. k \in Ticks /\ Beg(q) \in Ticks
  BY QueryTicks, ServerAssumption
<1>2. r \in Requests
  BY <1>1, ServerAssumption DEF Requests
<1>3. pending' = [pending EXCEPT ![k] = Append(@, r)]
  BY DEF Hold
<1> HIDE DEF r, k
<1>4. /\ \A l \in Ticks : l # k => pending'[l] = pending[l]
      /\ pending'[k] = Append(pending[k], r)
  BY <1>1, <1>3 DEF TypeOK
<1>5. pending[k] \in Seq(Requests) /\ DOMAIN pending[k] = 1 .. Len(pending[k])
  BY <1>1, PendingType
<1>6. /\ Append(pending[k], r) \in Seq(Requests)
      /\ Len(Append(pending[k], r)) = Len(pending[k]) + 1
      /\ \A i \in 1 .. Len(pending[k]) : Append(pending[k], r)[i] = pending[k][i]
      /\ Append(pending[k], r)[Len(pending[k]) + 1] = r
  BY <1>2, <1>5, AppendProperties
<1>7. DOMAIN Append(pending[k], r) = 1 .. (Len(pending[k]) + 1)
  BY <1>6, LenProperties
<1>8. QED
  BY <1>1, <1>4, <1>5, <1>6, <1>7 DEF r, k

\* What handle_query holds waits last under its key, and nothing else changes.
LEMMA HoldWaits ==
  ASSUME TypeOK, NEW c \in Clients, NEW p \in Peers, NEW q \in Queries,
         NEW n \in Nat \ {0}, Hold(c, p, q, n)
  PROVE  \A r \in Peers : \A o, k, i :
           WaitsAt(r, o, k, i)' <=>
             \/ WaitsAt(r, o, k, i)
             \/ r = p /\ o = n /\ k = End(q) /\ i = Len(pending[End(q)]) + 1
<1> DEFINE e == End(q)
           l == Len(pending[End(q)])
           h == [client |-> c, detmask |-> q.detmask, tstart |-> Beg(q),
                 seqno |-> n, from |-> p]
<1>1. /\ e \in Ticks
      /\ \A k \in Ticks : k # e => pending'[k] = pending[k]
      /\ DOMAIN pending'[e] = 1 .. (l + 1)
      /\ \A j \in DOMAIN pending[e] : pending'[e][j] = pending[e][j]
      /\ pending'[e][l + 1] = h
  BY HoldFacts
<1>2. h.from = p /\ h.seqno = n
  OBVIOUS
<1>3. l \in Nat /\ DOMAIN pending[e] = 1 .. l
  BY <1>1, PendingType
<1> SUFFICES ASSUME NEW r \in Peers, NEW o, NEW k, NEW i
             PROVE  WaitsAt(r, o, k, i)' <=>
                      \/ WaitsAt(r, o, k, i)
                      \/ r = p /\ o = n /\ k = e /\ i = l + 1
  OBVIOUS
<1> HIDE DEF e, l, h
<1>4. CASE k # e
  <2>1. k \notin Ticks \/ pending'[k] = pending[k]
    BY <1>1, <1>4
  <2>2. QED
    BY <1>4, <2>1 DEF WaitsAt
<1>5. CASE k = e /\ i \in 1 .. l
  <2>1. i # l + 1 /\ i \in 1 .. (l + 1)
    BY <1>3, <1>5
  <2>2. QED
    BY <1>1, <1>3, <1>5, <2>1 DEF WaitsAt
<1>6. CASE k = e /\ i = l + 1
  <2>1. i \notin 1 .. l /\ i \in 1 .. (l + 1)
    BY <1>3, <1>6
  <2>2. QED
    BY <1>1, <1>2, <1>3, <1>6, <2>1 DEF WaitsAt
<1>7. CASE k = e /\ i \notin 1 .. l /\ i # l + 1
  <2>1. i \notin 1 .. (l + 1)
    BY <1>3, <1>7
  <2>2. QED
    BY <1>1, <1>3, <1>7, <2>1 DEF WaitsAt
<1>8. QED
  BY <1>4, <1>5, <1>6, <1>7

\* The request that is served is the first under its key; those behind it move
\* up by one place.
LEMMA ServeFacts ==
  ASSUME TypeOK, Serve
  PROVE  \E k \in Ticks, r \in Requests :
           /\ 1 \in DOMAIN pending[k] /\ r = pending[k][1]
           /\ \A l \in Ticks : l # k => pending'[l] = pending[l]
           /\ \A i : i \in DOMAIN pending'[k] <=> i \in Nat \ {0} /\ i + 1 \in DOMAIN pending[k]
           /\ \A i \in DOMAIN pending'[k] : pending'[k][i] = pending[k][i + 1]
           /\ \/ /\ clients[r.client].state = "connected"
                 /\ Send(clients[r.client].peer, Result(r.seqno, 200, Payload(message)))
                 /\ UNCHANGED <<clients, pc>>
              \/ /\ clients[r.client].state = "start"
                 /\ Refuse(r.client, clients[r.client].peer)
                 /\ UNCHANGED pc
              \/ /\ clients[r.client].state = "free"
                 /\ UNCHANGED <<clients, out>>
<1> DEFINE k == Min(Due)
           r == Head(pending[k])
<1>1. k \in Ticks /\ pending[k] # << >> /\ r \in Requests
  BY ServeType DEF Serve, Due
<1>2. pending[k] \in Seq(Requests) /\ Len(pending[k]) \in Nat
  BY <1>1, PendingType
<1>3. /\ Tail(pending[k]) \in Seq(Requests)
      /\ Len(Tail(pending[k])) = Len(pending[k]) - 1
      /\ \A i \in 1 .. Len(Tail(pending[k])) : Tail(pending[k])[i] = pending[k][i + 1]
  BY <1>1, <1>2, HeadTailProperties
<1>4. /\ DOMAIN pending[k] = 1 .. Len(pending[k]) /\ Len(pending[k]) \in Nat \ {0}
      /\ DOMAIN Tail(pending[k]) = 1 .. (Len(pending[k]) - 1)
  BY <1>1, <1>2, <1>3, LenProperties, EmptySeq
<1>5. r = pending[k][1]
  BY <1>1, <1>2
<1> HIDE DEF k, r
<1>6. /\ pending' = [pending EXCEPT ![k] = Tail(@)]
      /\ \/ /\ clients[r.client].state = "connected"
            /\ Send(clients[r.client].peer, Result(r.seqno, 200, Payload(message)))
            /\ UNCHANGED <<clients, pc>>
         \/ /\ clients[r.client].state = "start"
            /\ Refuse(r.client, clients[r.client].peer)
            /\ UNCHANGED pc
         \/ /\ clients[r.client].state = "free"
            /\ UNCHANGED <<clients, out>>
  BY DEF Serve, k, r
<1>7. /\ pending'[k] = Tail(pending[k])
      /\ \A l \in Ticks : l # k => pending'[l] = pending[l]
  BY <1>1, <1>6 DEF TypeOK
<1>8. \A i : i \in DOMAIN pending'[k] <=> i \in Nat \ {0} /\ i + 1 \in DOMAIN pending[k]
  BY <1>4, <1>7
<1>9. \A i \in DOMAIN pending'[k] : pending'[k][i] = pending[k][i + 1]
  BY <1>3, <1>4, <1>7
<1>10. 1 \in DOMAIN pending[k]
  BY <1>4
<1>11. QED
  BY <1>1, <1>5, <1>6, <1>7, <1>8, <1>9, <1>10

-----------------------------------------------------------------------------
(***************************************************************************)
(* Contexts of held requests.  Nothing keeps a context alive while a       *)
(* request holds its address.  With peers that neither leave nor break the *)
(* protocol once connected, contexts are only ended in the start state,    *)
(* where they hold nothing.                                                *)
(***************************************************************************)

HeldConnected ==
  \A k \in Ticks : \A i \in DOMAIN pending[k] :
    clients[pending[k][i].client] = [peer |-> pending[k][i].from, state |-> "connected"]

\* Steady peers may send HELLO, QUERY, PING and what the codec discards.
Steady == Conduct \subseteq {"PING", "MALFORMED"}

\* Connected contexts stay what they are.
LEMMA ConnectedStay ==
  ASSUME Steady, TypeOK, ContextInv, HeldConnected, [Next]_vars
  PROVE  \A c \in Clients : clients[c].state = "connected" => clients'[c] = clients[c]
<1>1. "REHELLO" \notin Conduct /\ "GOODBYE" \notin Conduct
      /\ "UNEXPECTED" \notin Conduct /\ "EXPIRE" \notin Conduct
  BY DEF Steady
<1>2. ASSUME NEW c \in Clients, NEW p \in Peers, Terminate(c), StateOf(c) = "start"
      PROVE  \A d \in Clients : clients[d].state = "connected" => clients'[d] = clients[d]
  BY <1>2, EndContext DEF StateOf, Live
<1>3. ASSUME NEW c \in Clients, NEW p \in Peers, Serves(c, p), SetState(c, p, StateOf(c))
      PROVE  \A d \in Clients : clients[d].state = "connected" => clients'[d] = clients[d]
  <2>1. /\ clients'[c] = [peer |-> p, state |-> StateOf(c)]
        /\ \A d \in Clients : d # c => clients'[d] = clients[d]
    BY <1>3, SetContext, LiveState
  <2>2. clients[c].state = "connected" => clients[c] = [peer |-> p, state |-> "connected"]
    BY <1>3 DEF Serves, Live, TypeOK, Contexts
  <2>3. QED
    BY <2>1, <2>2 DEF StateOf, Live
<1>4. ASSUME NEW c \in Clients, NEW p \in Peers, Serves(c, p), StateOf(c) = "start",
             SetState(c, p, "connected")
      PROVE  \A d \in Clients : clients[d].state = "connected" => clients'[d] = clients[d]
  BY <1>4, SetContext DEF StateOf, Live
<1>5. ASSUME NEW p \in Peers, RecvHello(p)
      PROVE  \A d \in Clients : clients[d].state = "connected" => clients'[d] = clients[d]
  BY <1>1, <1>4, <1>5 DEF RecvHello
<1>6. ASSUME NEW p \in Peers, RecvPing(p) \/ RecvMalformed(p)
      PROVE  \A d \in Clients : clients[d].state = "connected" => clients'[d] = clients[d]
  BY <1>3, <1>6 DEF RecvPing, RecvMalformed
<1>7. ASSUME NEW p \in Peers, NEW q \in Queries, RecvQuery(p, q)
      PROVE  \A d \in Clients : clients[d].state = "connected" => clients'[d] = clients[d]
  BY <1>2, <1>7 DEF RecvQuery, Refuse
<1>8. CASE Serve
  <2>1. PICK k \in Ticks, r \in Requests :
          /\ 1 \in DOMAIN pending[k] /\ r = pending[k][1]
          /\ \/ UNCHANGED clients
             \/ clients[r.client].state = "start"
    BY <1>8, ServeFacts
  <2>2. clients[r.client] = [peer |-> r.from, state |-> "connected"]
    BY <2>1 DEF HeldConnected
  <2>3. clients[r.client].state = "connected"
    BY <2>2
  <2>4. QED
    BY <2>1, <2>3
<1>9. QED
  BY <1>1, <1>5, <1>6, <1>7, <1>8
  DEF Next, Protocol, RecvGoodbye, RecvUnexpected, Expire, Ingest, Slurp, Purge,
      Method, StartIngest, SetDetmask, SetQueue, vars, serverVars

\* How a step can change the requests that wait.
LEMMA PendingFrame ==
  ASSUME TypeOK, [Next]_vars
  PROVE  \/ UNCHANGED pending
         \/ Serve
         \/ \E p \in Peers, q \in Queries, c \in Clients, n \in Nat \ {0} :
              /\ RecvQuery(p, q)
              /\ Serves(c, p) /\ StateOf(c) = "connected"
              /\ n = Len(asked[p]) + 1
              /\ asked' = [asked EXCEPT ![p] = Append(@, q)]
              /\ Hold(c, p, q, n)
              /\ UNCHANGED <<clients, out>>
<1>1. ASSUME NEW p \in Peers, NEW q \in Queries, RecvQuery(p, q)
      PROVE  \/ UNCHANGED pending
             \/ \E c \in Clients, n \in Nat \ {0} :
                  /\ Serves(c, p) /\ StateOf(c) = "connected"
                  /\ n = Len(asked[p]) + 1
                  /\ asked' = [asked EXCEPT ![p] = Append(@, q)]
                  /\ Hold(c, p, q, n)
                  /\ UNCHANGED <<clients, out>>
  <2>1. Len(asked[p]) + 1 \in Nat \ {0}
    BY LenProperties DEF TypeOK
  <2>2. QED
    BY <1>1, <2>1 DEF RecvQuery
<1>2. QED
  BY <1>1 DEF Next, Protocol, RecvHello, RecvPing, RecvGoodbye, RecvUnexpected,
    RecvMalformed, Expire, Ingest, Slurp, Purge, Method, StartIngest, SetDetmask,
    SetQueue, vars, serverVars

\* No step of steady peers frees or changes the context of a held request.
LEMMA HeldConnectedStep ==
  ASSUME Steady, TypeOK, ContextInv, HeldConnected, [Next]_vars
  PROVE  HeldConnected'
<1>0. \A k \in Ticks : \A i \in DOMAIN pending[k] :
        /\ pending[k][i].client \in Clients
        /\ clients'[pending[k][i].client] =
             [peer |-> pending[k][i].from, state |-> "connected"]
  <2> TAKE k \in Ticks
  <2> TAKE i \in DOMAIN pending[k]
  <2>1. pending[k][i].client \in Clients
    BY PendingType DEF Requests
  <2>2. clients[pending[k][i].client] =
          [peer |-> pending[k][i].from, state |-> "connected"]
    BY DEF HeldConnected
  <2>3. clients[pending[k][i].client].state = "connected"
    BY <2>2
  <2>4. QED
    BY <2>1, <2>2, <2>3, ConnectedStay
<1>1. CASE UNCHANGED pending
  BY <1>0, <1>1 DEF HeldConnected
<1>2. CASE Serve
  <2>1. PICK k \in Ticks :
           /\ \A l \in Ticks : l # k => pending'[l] = pending[l]
           /\ \A i : i \in DOMAIN pending'[k] <=> i \in Nat \ {0} /\ i + 1 \in DOMAIN pending[k]
           /\ \A i \in DOMAIN pending'[k] : pending'[k][i] = pending[k][i + 1]
    BY <1>2, ServeFacts
  <2>2. \A l \in Ticks : \A i \in DOMAIN pending'[l] :
          \E j \in DOMAIN pending[l] : pending'[l][i] = pending[l][j]
    BY <2>1
  <2>3. QED
    BY <1>0, <2>2 DEF HeldConnected
<1>3. ASSUME NEW p \in Peers, NEW q \in Queries, NEW c \in Clients, NEW n \in Nat \ {0},
             Serves(c, p), StateOf(c) = "connected", Hold(c, p, q, n), UNCHANGED clients
      PROVE  HeldConnected'
  <2> DEFINE e == End(q)
             l == Len(pending[e])
             h == [client |-> c, detmask |-> q.detmask, tstart |-> Beg(q),
                   seqno |-> n, from |-> p]
  <2>1. /\ e \in Ticks
        /\ \A k \in Ticks : k # e => pending'[k] = pending[k]
        /\ DOMAIN pending'[e] = 1 .. (l + 1)
        /\ \A j \in DOMAIN pending[e] : pending'[e][j] = pending[e][j]
        /\ pending'[e][l + 1] = h
    BY <1>3, HoldFacts
  <2>2. h.client = c /\ h.from = p
    OBVIOUS
  <2>3. clients'[c] = [peer |-> p, state |-> "connected"]
    BY <1>3 DEF StateOf, Serves, TypeOK, Contexts
  <2> HIDE DEF e, h
  <2>4. DOMAIN pending[e] = 1 .. l /\ l \in Nat
    BY <2>1, PendingType
  <2> HIDE DEF l
  <2>5. ASSUME NEW k \in Ticks, NEW i \in DOMAIN pending'[k]
        PROVE  clients'[pending'[k][i].client] =
                 [peer |-> pending'[k][i].from, state |-> "connected"]
    <3>1. CASE k = e /\ i = l + 1
      BY <2>1, <2>2, <2>3, <3>1
    <3>2. CASE ~ (k = e /\ i = l + 1)
      <4>1. i \in DOMAIN pending[k] /\ pending'[k][i] = pending[k][i]
        BY <2>1, <2>4, <2>5, <3>2
      <4>2. QED
        BY <1>0, <4>1
    <3>3. QED
      BY <3>1, <3>2
  <2>6. QED
    BY <2>5 DEF HeldConnected
<1>4. QED
  BY <1>1, <1>2, <1>3, PendingFrame

\* With steady peers the context of a held request stays connected to the peer
\* that asked.
THEOREM HeldContextsStay ==
  ASSUME Steady
  PROVE  Spec => []HeldConnected
<1>1. Init => HeldConnected
  BY DEF Init, HeldConnected
<1>2. TypeOK /\ ContextInv /\ HeldConnected /\ [Next]_vars => HeldConnected'
  BY HeldConnectedStep
<1>3. QED
  BY <1>1, <1>2, OneContextEach, TypeCorrect, PTL DEF Spec

\* With steady peers no callback uses a context that has been freed: what makes
\* it possible is a context that ends while it has a request held.
THEOREM NoFreedContext ==
  ASSUME Steady
  PROVE  Spec => []NoFreedContextUsed
<1>1. Init => NoFreedContextUsed
  BY DEF Init, NoFreedContextUsed
<1>2. ASSUME TypeOK, HeldConnected, NoFreedContextUsed, [Next]_vars
      PROVE  NoFreedContextUsed'
  <2>1. CASE Serve
    <3>1. PICK k \in Ticks, r \in Requests :
            /\ 1 \in DOMAIN pending[k] /\ r = pending[k][1]
            /\ clients[r.client].state = "free" \/ UNCHANGED pc
      BY <1>2, <2>1, ServeFacts
    <3>2. clients[r.client] = [peer |-> r.from, state |-> "connected"]
      BY <1>2, <3>1 DEF HeldConnected
    <3>3. clients[r.client].state = "connected"
      BY <3>2
    <3>4. QED
      BY <1>2, <3>1, <3>3 DEF NoFreedContextUsed
  <2>2. QED
    BY <1>2, <2>1
    DEF NoFreedContextUsed, Next, Protocol, RecvHello, RecvPing, RecvGoodbye,
        RecvUnexpected, RecvMalformed, RecvQuery, Expire, Ingest, Slurp, Purge,
        Method, StartIngest, SetDetmask, SetQueue, vars, serverVars
<1>3. QED
  BY <1>1, <1>2, HeldContextsStay, TypeCorrect, PTL DEF Spec

-----------------------------------------------------------------------------
(***************************************************************************)
(* One answer each.  The invariant spells out "exactly one": answers and   *)
(* waiting requests belong to queries that were asked, no query has two    *)
(* answers, two requests, or one of each, and none has neither.            *)
(***************************************************************************)

AnswersInv ==
  /\ \A p \in Peers : \A n, i : AnsweredAt(p, n, i) => n \in DOMAIN asked[p]
  /\ \A p \in Peers : \A n, k, i : WaitsAt(p, n, k, i) => n \in DOMAIN asked[p]
  /\ \A p \in Peers : \A n, i, j : AnsweredAt(p, n, i) /\ AnsweredAt(p, n, j) => i = j
  /\ \A p \in Peers : \A n, k, i, l, j :
       WaitsAt(p, n, k, i) /\ WaitsAt(p, n, l, j) => k = l /\ i = j
  /\ \A p \in Peers : \A n, i, k, j : ~ (AnsweredAt(p, n, i) /\ WaitsAt(p, n, k, j))
  /\ \A p \in Peers : \A n \in DOMAIN asked[p] : asked[p][n].detmask # {} =>
       \/ \E i : AnsweredAt(p, n, i)
       \/ \E k, i : WaitsAt(p, n, k, i)

\* What a step does to answers and requests: nothing, one more answer of query
\* n of p, one more request for it, or one less under a key.
SameAnswers == \A r \in Peers : \A n, i : AnsweredAt(r, n, i)' <=> AnsweredAt(r, n, i)
SameWaits == \A r \in Peers : \A n, k, i : WaitsAt(r, n, k, i)' <=> WaitsAt(r, n, k, i)

OneMoreAnswer(p, n, place) ==
  \A r \in Peers : \A o, i : AnsweredAt(r, o, i)' <=>
    AnsweredAt(r, o, i) \/ (r = p /\ o = n /\ i = place)

OneMoreWaits(p, n, key, place) ==
  \A r \in Peers : \A o, k, i : WaitsAt(r, o, k, i)' <=>
    WaitsAt(r, o, k, i) \/ (r = p /\ o = n /\ k = key /\ i = place)

FirstLeaves(key) ==
  /\ \A r \in Peers : \A n, k, i : k # key => (WaitsAt(r, n, k, i)' <=> WaitsAt(r, n, k, i))
  /\ \A r \in Peers : \A n, i :
       WaitsAt(r, n, key, i)' <=> i \in Nat \ {0} /\ WaitsAt(r, n, key, i + 1)
  /\ \A r \in Peers : \A n, i : WaitsAt(r, n, key, i) => i \in Nat \ {0}

\* One more query of p.
LEMMA AskedFacts ==
  ASSUME TypeOK, NEW p \in Peers, NEW q \in Queries,
         asked' = [asked EXCEPT ![p] = Append(@, q)]
  PROVE  /\ \A r \in Peers : r # p => asked'[r] = asked[r]
         /\ Len(asked[p]) + 1 \notin DOMAIN asked[p]
         /\ DOMAIN asked'[p] = DOMAIN asked[p] \cup {Len(asked[p]) + 1}
         /\ \A n \in DOMAIN asked[p] : asked'[p][n] = asked[p][n]
         /\ asked'[p][Len(asked[p]) + 1] = q
<1>1. /\ asked[p] \in Seq(Queries) /\ asked'[p] = Append(asked[p], q)
      /\ \A r \in Peers : r # p => asked'[r] = asked[r]
  BY DEF TypeOK
<1>2. /\ Append(asked[p], q) \in Seq(Queries)
      /\ Len(Append(asked[p], q)) = Len(asked[p]) + 1
      /\ \A n \in 1 .. Len(asked[p]) : Append(asked[p], q)[n] = asked[p][n]
      /\ Append(asked[p], q)[Len(asked[p]) + 1] = q
  BY <1>1, AppendProperties
<1>3. /\ Len(asked[p]) \in Nat /\ DOMAIN asked[p] = 1 .. Len(asked[p])
      /\ DOMAIN asked'[p] = 1 .. (Len(asked[p]) + 1)
  BY <1>1, <1>2, LenProperties
<1>4. /\ Len(asked[p]) + 1 \notin DOMAIN asked[p]
      /\ DOMAIN asked'[p] = DOMAIN asked[p] \cup {Len(asked[p]) + 1}
  BY <1>3
<1>5. QED
  BY <1>1, <1>2, <1>3, <1>4

\* Neither a new query, nor an answer, nor a change among the requests.
LEMMA AnswersFrame ==
  ASSUME AnswersInv, UNCHANGED asked, SameAnswers, SameWaits
  PROVE  AnswersInv'
BY DEF AnswersInv, SameAnswers, SameWaits

\* A bogus query gets an ERROR.
LEMMA AnswersBogus ==
  ASSUME TypeOK, AnswersInv, NEW p \in Peers, NEW q \in Queries, q.detmask = {},
         asked' = [asked EXCEPT ![p] = Append(@, q)], SameAnswers, SameWaits
  PROVE  AnswersInv'
BY AskedFacts DEF AnswersInv, SameAnswers, SameWaits

\* A query that is answered at once.
LEMMA AnswersNow ==
  ASSUME TypeOK, AnswersInv, NEW p \in Peers, NEW q \in Queries,
         asked' = [asked EXCEPT ![p] = Append(@, q)],
         NEW m, m = Len(asked[p]) + 1, NEW place,
         OneMoreAnswer(p, m, place), SameWaits
  PROVE  AnswersInv'
<1>1. /\ \A r \in Peers : r # p => asked'[r] = asked[r]
      /\ m \notin DOMAIN asked[p]
      /\ DOMAIN asked'[p] = DOMAIN asked[p] \cup {m}
      /\ \A n \in DOMAIN asked[p] : asked'[p][n] = asked[p][n]
  BY AskedFacts
<1>2. /\ \A i : ~ AnsweredAt(p, m, i)
      /\ \A k, i : ~ WaitsAt(p, m, k, i)
  BY <1>1 DEF AnswersInv
<1>3. /\ \A i : AnsweredAt(p, m, i)' <=> i = place
      /\ \A k, i : ~ WaitsAt(p, m, k, i)'
  BY <1>2 DEF OneMoreAnswer, SameWaits
<1>4. /\ \A r \in Peers : \A n, i : r # p \/ n # m =>
           (AnsweredAt(r, n, i)' <=> AnsweredAt(r, n, i))
      /\ \A r \in Peers : \A n, k, i : WaitsAt(r, n, k, i)' <=> WaitsAt(r, n, k, i)
  BY DEF OneMoreAnswer, SameWaits
<1>5. /\ m \in DOMAIN asked'[p]
      /\ \A r \in Peers : \A n \in DOMAIN asked[r] : n \in DOMAIN asked'[r]
      /\ \A r \in Peers : \A n \in DOMAIN asked'[r] :
           \/ r = p /\ n = m
           \/ n \in DOMAIN asked[r] /\ asked'[r][n] = asked[r][n]
  BY <1>1
<1>6. /\ \A r \in Peers : \A n, i : AnsweredAt(r, n, i)' => n \in DOMAIN asked'[r]
      /\ \A r \in Peers : \A n, k, i : WaitsAt(r, n, k, i)' => n \in DOMAIN asked'[r]
  BY <1>3, <1>4, <1>5 DEF AnswersInv
<1>7. /\ \A r \in Peers : \A n, i, j : AnsweredAt(r, n, i)' /\ AnsweredAt(r, n, j)' => i = j
      /\ \A r \in Peers : \A n, k, i, l, j :
           WaitsAt(r, n, k, i)' /\ WaitsAt(r, n, l, j)' => k = l /\ i = j
      /\ \A r \in Peers : \A n, i, k, j : ~ (AnsweredAt(r, n, i)' /\ WaitsAt(r, n, k, j)')
  BY <1>3, <1>4 DEF AnswersInv
<1>8. \A r \in Peers : \A n \in DOMAIN asked'[r] : asked'[r][n].detmask # {} =>
        \/ \E i : AnsweredAt(r, n, i)'
        \/ \E k, i : WaitsAt(r, n, k, i)'
  <2> SUFFICES ASSUME NEW r \in Peers, NEW n \in DOMAIN asked'[r],
                      asked'[r][n].detmask # {}
               PROVE  (\E i : AnsweredAt(r, n, i)') \/ (\E k, i : WaitsAt(r, n, k, i)')
    OBVIOUS
  <2>1. CASE r = p /\ n = m
    BY <1>3, <2>1
  <2>2. CASE ~ (r = p /\ n = m)
    <3>1. n \in DOMAIN asked[r] /\ asked[r][n].detmask # {}
      BY <1>5, <2>2
    <3>2. (\E i : AnsweredAt(r, n, i)) \/ (\E k, i : WaitsAt(r, n, k, i))
      BY <3>1 DEF AnswersInv
    <3>3. QED
      BY <1>4, <2>2, <3>2
  <2>3. QED
    BY <2>1, <2>2
<1>9. QED
  BY <1>6, <1>7, <1>8 DEF AnswersInv

\* A query that is held.
LEMMA AnswersHeld ==
  ASSUME TypeOK, AnswersInv, NEW p \in Peers, NEW q \in Queries,
         asked' = [asked EXCEPT ![p] = Append(@, q)],
         NEW m, m = Len(asked[p]) + 1, NEW key, NEW place,
         SameAnswers, OneMoreWaits(p, m, key, place)
  PROVE  AnswersInv'
<1>1. /\ \A r \in Peers : r # p => asked'[r] = asked[r]
      /\ m \notin DOMAIN asked[p]
      /\ DOMAIN asked'[p] = DOMAIN asked[p] \cup {m}
      /\ \A n \in DOMAIN asked[p] : asked'[p][n] = asked[p][n]
  BY AskedFacts
<1>2. /\ \A i : ~ AnsweredAt(p, m, i)
      /\ \A k, i : ~ WaitsAt(p, m, k, i)
  BY <1>1 DEF AnswersInv
<1>3. /\ \A k, i : WaitsAt(p, m, k, i)' <=> k = key /\ i = place
      /\ \A i : ~ AnsweredAt(p, m, i)'
  BY <1>2 DEF OneMoreWaits, SameAnswers
<1>4. /\ \A r \in Peers : \A n, i : AnsweredAt(r, n, i)' <=> AnsweredAt(r, n, i)
      /\ \A r \in Peers : \A n, k, i : r # p \/ n # m =>
           (WaitsAt(r, n, k, i)' <=> WaitsAt(r, n, k, i))
  BY DEF OneMoreWaits, SameAnswers
<1>5. /\ m \in DOMAIN asked'[p]
      /\ \A r \in Peers : \A n \in DOMAIN asked[r] : n \in DOMAIN asked'[r]
      /\ \A r \in Peers : \A n \in DOMAIN asked'[r] :
           \/ r = p /\ n = m
           \/ n \in DOMAIN asked[r] /\ asked'[r][n] = asked[r][n]
  BY <1>1
<1>6. /\ \A r \in Peers : \A n, i : AnsweredAt(r, n, i)' => n \in DOMAIN asked'[r]
      /\ \A r \in Peers : \A n, k, i : WaitsAt(r, n, k, i)' => n \in DOMAIN asked'[r]
  BY <1>3, <1>4, <1>5 DEF AnswersInv
<1>7. /\ \A r \in Peers : \A n, i, j : AnsweredAt(r, n, i)' /\ AnsweredAt(r, n, j)' => i = j
      /\ \A r \in Peers : \A n, k, i, l, j :
           WaitsAt(r, n, k, i)' /\ WaitsAt(r, n, l, j)' => k = l /\ i = j
      /\ \A r \in Peers : \A n, i, k, j : ~ (AnsweredAt(r, n, i)' /\ WaitsAt(r, n, k, j)')
  BY <1>3, <1>4 DEF AnswersInv
<1>8. \A r \in Peers : \A n \in DOMAIN asked'[r] : asked'[r][n].detmask # {} =>
        \/ \E i : AnsweredAt(r, n, i)'
        \/ \E k, i : WaitsAt(r, n, k, i)'
  <2> SUFFICES ASSUME NEW r \in Peers, NEW n \in DOMAIN asked'[r],
                      asked'[r][n].detmask # {}
               PROVE  (\E i : AnsweredAt(r, n, i)') \/ (\E k, i : WaitsAt(r, n, k, i)')
    OBVIOUS
  <2>1. CASE r = p /\ n = m
    BY <1>3, <2>1
  <2>2. CASE ~ (r = p /\ n = m)
    <3>1. n \in DOMAIN asked[r] /\ asked[r][n].detmask # {}
      BY <1>5, <2>2
    <3>2. (\E i : AnsweredAt(r, n, i)) \/ (\E k, i : WaitsAt(r, n, k, i))
      BY <3>1 DEF AnswersInv
    <3>3. QED
      BY <1>4, <2>2, <3>2
  <2>3. QED
    BY <2>1, <2>2
<1>9. QED
  BY <1>6, <1>7, <1>8 DEF AnswersInv

\* A request that is served: the query of p with number m, first under its key.
LEMMA AnswersServed ==
  ASSUME AnswersInv, UNCHANGED asked, NEW p \in Peers, NEW m,
         NEW key \in Ticks, WaitsAt(p, m, key, 1), NEW place,
         OneMoreAnswer(p, m, place), FirstLeaves(key)
  PROVE  AnswersInv'
<1>a. /\ \A r \in Peers : \A n, i : AnsweredAt(r, n, i)' <=>
           AnsweredAt(r, n, i) \/ (r = p /\ n = m /\ i = place)
      /\ \A r \in Peers : \A n, k, i : k # key =>
           (WaitsAt(r, n, k, i)' <=> WaitsAt(r, n, k, i))
      /\ \A r \in Peers : \A n, i : WaitsAt(r, n, key, i)' <=>
           i \in Nat \ {0} /\ WaitsAt(r, n, key, i + 1)
      /\ \A r \in Peers : \A n, i : WaitsAt(r, n, key, i) => i \in Nat \ {0}
  BY DEF OneMoreAnswer, FirstLeaves
<1>1. /\ \A i : ~ AnsweredAt(p, m, i)
      /\ \A k, i : WaitsAt(p, m, k, i) => k = key /\ i = 1
  BY DEF AnswersInv
<1>2. \A k, i : ~ WaitsAt(p, m, k, i)'
  <2> SUFFICES ASSUME NEW k, NEW i, WaitsAt(p, m, k, i)' PROVE FALSE
    OBVIOUS
  <2>1. CASE k # key
    BY <1>a, <1>1, <2>1
  <2>2. CASE k = key
    BY <1>a, <1>1, <2>2
  <2>3. QED
    BY <2>1, <2>2
<1>3. \A i : AnsweredAt(p, m, i)' <=> i = place
  BY <1>a, <1>1
<1>4. \A r \in Peers : \A n, i : r # p \/ n # m => (AnsweredAt(r, n, i)' <=> AnsweredAt(r, n, i))
  BY <1>a
<1>5. ASSUME NEW r \in Peers, NEW n, NEW k, NEW i, NEW l, NEW j,
             WaitsAt(r, n, k, i)', WaitsAt(r, n, l, j)'
      PROVE  k = l /\ i = j
  <2> DEFINE a == IF k = key THEN i + 1 ELSE i
             b == IF l = key THEN j + 1 ELSE j
  <2>1. WaitsAt(r, n, k, a) /\ WaitsAt(r, n, l, b)
    BY <1>a, <1>5
  <2>2. k = l /\ a = b
    BY <2>1 DEF AnswersInv
  <2>3. k = key => i \in Nat /\ j \in Nat
    BY <1>a, <1>5, <2>2
  <2>4. QED
    BY <2>2, <2>3
<1>6. ASSUME NEW r \in Peers, NEW n, NEW k, NEW i, WaitsAt(r, n, k, i)'
      PROVE  \E j : WaitsAt(r, n, k, j)
  BY <1>a, <1>6
<1>7. ASSUME NEW r \in Peers, NEW n, NEW k, NEW i, WaitsAt(r, n, k, i), r # p \/ n # m
      PROVE  \E j : WaitsAt(r, n, k, j)'
  <2>1. CASE k # key
    BY <1>a, <1>7, <2>1
  <2>2. CASE k = key
    <3>1. i \in Nat \ {0}
      BY <1>a, <1>7, <2>2
    <3>2. i # 1
      <4> SUFFICES ASSUME i = 1 PROVE FALSE
        OBVIOUS
      <4>1. r = p /\ n = m
        BY <1>7, <2>2 DEF WaitsAt
      <4>2. QED
        BY <1>7, <4>1
    <3>3. i - 1 \in Nat \ {0} /\ (i - 1) + 1 = i
      BY <3>1, <3>2
    <3>4. WaitsAt(r, n, key, i - 1)'
      BY <1>a, <1>7, <2>2, <3>3
    <3>5. QED
      BY <2>2, <3>4
  <2>3. QED
    BY <2>1, <2>2
<1>8. /\ \A r \in Peers : \A n, i : AnsweredAt(r, n, i)' => n \in DOMAIN asked[r]
      /\ \A r \in Peers : \A n, i, j : AnsweredAt(r, n, i)' /\ AnsweredAt(r, n, j)' => i = j
  <2>1. m \in DOMAIN asked[p]
    BY DEF AnswersInv
  <2>2. QED
    BY <1>3, <1>4, <2>1 DEF AnswersInv
<1>9. /\ \A r \in Peers : \A n, k, i : WaitsAt(r, n, k, i)' => n \in DOMAIN asked[r]
      /\ \A r \in Peers : \A n, i, k, j : ~ (AnsweredAt(r, n, i)' /\ WaitsAt(r, n, k, j)')
  BY <1>2, <1>4, <1>6 DEF AnswersInv
<1>10. \A r \in Peers : \A n \in DOMAIN asked[r] : asked[r][n].detmask # {} =>
         \/ \E i : AnsweredAt(r, n, i)'
         \/ \E k, i : WaitsAt(r, n, k, i)'
  BY <1>3, <1>4, <1>7 DEF AnswersInv
<1>11. QED
  BY <1>5, <1>8, <1>9, <1>10 DEF AnswersInv

\* handle_query: a bogus query, an answer, or a request that is held.
LEMMA AnswersQuery ==
  ASSUME TypeOK, AnswersInv, NEW p \in Peers, NEW q \in Queries, RecvQuery(p, q)
  PROVE  AnswersInv'
<1>1. PICK n \in Nat \ {0} : n = Len(asked[p]) + 1
  BY LenProperties DEF TypeOK
<1>2. PICK c \in Clients :
        \/ Refuse(c, p) /\ UNCHANGED <<pending, asked>>
        \/ /\ asked' = [asked EXCEPT ![p] = Append(@, q)]
           /\ \/ Answer(p, q, n) /\ UNCHANGED pending
              \/ Hold(c, p, q, n) /\ UNCHANGED out
  BY <1>1 DEF RecvQuery
<1>3. UNCHANGED pending => SameWaits
  BY DEF WaitsAt, SameWaits
<1>4. Send(p, Error) => SameAnswers
  <2>1. Error \in Messages /\ Error.type # "RESULT"
    BY ErrorType DEF Error
  <2>2. QED
    BY <2>1, SendOther DEF SameAnswers
<1>5. CASE Refuse(c, p) /\ UNCHANGED <<pending, asked>>
  BY <1>3, <1>4, <1>5, AnswersFrame DEF Refuse
<1>6. ASSUME asked' = [asked EXCEPT ![p] = Append(@, q)], Answer(p, q, n), UNCHANGED pending
      PROVE  AnswersInv'
  <2>1. CASE Bogus(q) /\ Send(p, Error)
    BY <1>3, <1>4, <1>6, <2>1, AnswersBogus DEF Bogus
  <2>2. ASSUME NEW m \in Messages, Send(p, m), m.type = "RESULT", m.seqno = n
        PROVE  AnswersInv'
    <3>1. \A r \in Peers : \A o, i :
            AnsweredAt(r, o, i)' <=> \/ AnsweredAt(r, o, i)
                                     \/ r = p /\ o = n /\ i = Len(out[p]) + 1
      BY <2>2, SendResult
    <3>2. PICK place : place = Len(out[p]) + 1
      OBVIOUS
    <3>3. OneMoreAnswer(p, n, place)
      BY <3>1, <3>2 DEF OneMoreAnswer
    <3>4. SameWaits
      BY <1>3, <1>6
    <3>5. QED
      BY <1>1, <1>6, <3>3, <3>4, AnswersNow
  <2>3. \A s \in {200, 206, 404} :
          /\ Result(n, s, {}) \in Messages
          /\ Result(n, s, {}).type = "RESULT" /\ Result(n, s, {}).seqno = n
          /\ Result(n, s, Payload(q)) \in Messages
          /\ Result(n, s, Payload(q)).type = "RESULT" /\ Result(n, s, Payload(q)).seqno = n
    <3> TAKE s \in {200, 206, 404}
    <3>1. Result(n, s, {}) \in Messages /\ Result(n, s, Payload(q)) \in Messages
      BY <1>1, ResultType
    <3>2. \A tps : Result(n, s, tps).type = "RESULT" /\ Result(n, s, tps).seqno = n
      BY DEF Result
    <3>3. QED
      BY <3>1, <3>2
  <2>4. \/ Bogus(q) /\ Send(p, Error)
        \/ Send(p, Result(n, 404, {}))
        \/ Send(p, Result(n, 206, Payload(q)))
        \/ Send(p, Result(n, 200, Payload(q)))
    BY <1>6 DEF Answer
  <2>5. QED
    BY <2>1, <2>2, <2>3, <2>4
<1>7. ASSUME asked' = [asked EXCEPT ![p] = Append(@, q)], Hold(c, p, q, n), UNCHANGED out
      PROVE  AnswersInv'
  <2>1. SameAnswers
    BY <1>7 DEF AnsweredAt, SameAnswers
  <2>2. PICK key, place : key = End(q) /\ place = Len(pending[End(q)]) + 1
    OBVIOUS
  <2>3. OneMoreWaits(p, n, key, place)
    BY <1>1, <1>7, <2>2, HoldWaits DEF OneMoreWaits
  <2>4. QED
    BY <1>1, <1>7, <2>1, <2>3, AnswersHeld
<1>8. QED
  BY <1>2, <1>5, <1>6, <1>7

\* The request that is served leaves pending and its RESULT goes to the peer
\* that asked.
LEMMA AnswersServe ==
  ASSUME TypeOK, ContextInv, HeldConnected, AnswersInv, Serve
  PROVE  AnswersInv'
<1>1. PICK key \in Ticks, r \in Requests :
        /\ 1 \in DOMAIN pending[key] /\ r = pending[key][1]
        /\ \A l \in Ticks : l # key => pending'[l] = pending[l]
        /\ \A i : i \in DOMAIN pending'[key] <=>
                    i \in Nat \ {0} /\ i + 1 \in DOMAIN pending[key]
        /\ \A i \in DOMAIN pending'[key] : pending'[key][i] = pending[key][i + 1]
        /\ \/ Send(clients[r.client].peer, Result(r.seqno, 200, Payload(message)))
           \/ clients[r.client].state # "connected"
  BY ServeFacts
<1>2. clients[r.client] = [peer |-> r.from, state |-> "connected"]
  BY <1>1 DEF HeldConnected
<1>3. /\ clients[r.client].peer = r.from /\ clients[r.client].state = "connected"
      /\ r.from \in Peers /\ r.seqno \in Nat \ {0}
  BY <1>2 DEF Requests
<1>4. PICK m \in Messages : m = Result(r.seqno, 200, Payload(message))
  BY <1>3, ResultType
<1>5. m.type = "RESULT" /\ m.seqno = r.seqno /\ Send(r.from, m)
  BY <1>1, <1>3, <1>4 DEF Result
<1>6. \A s \in Peers : \A n, i :
        AnsweredAt(s, n, i)' <=> \/ AnsweredAt(s, n, i)
                                 \/ s = r.from /\ n = r.seqno /\ i = Len(out[r.from]) + 1
  BY <1>3, <1>5, SendResult
<1>7. PICK p \in Peers : p = r.from
  BY <1>3
<1>7a. PICK n, place : n = r.seqno /\ place = Len(out[r.from]) + 1
  OBVIOUS
<1>8. WaitsAt(r.from, r.seqno, key, 1)
  BY <1>1 DEF WaitsAt
<1>9. \A s \in Peers : \A o, k, i : k # key => (WaitsAt(s, o, k, i)' <=> WaitsAt(s, o, k, i))
  <2> SUFFICES ASSUME NEW s \in Peers, NEW o, NEW k, NEW i, k # key
               PROVE  WaitsAt(s, o, k, i)' <=> WaitsAt(s, o, k, i)
    OBVIOUS
  <2>1. k \notin Ticks \/ pending'[k] = pending[k]
    BY <1>1
  <2>2. QED
    BY <2>1 DEF WaitsAt
<1>10. \A s \in Peers : \A o, i :
         WaitsAt(s, o, key, i)' <=> i \in Nat \ {0} /\ WaitsAt(s, o, key, i + 1)
  BY <1>1 DEF WaitsAt
<1>11. \A s \in Peers : \A o, i : WaitsAt(s, o, key, i) => i \in Nat \ {0}
  BY PendingType DEF WaitsAt
<1>12. UNCHANGED asked
  BY DEF Serve
<1>13. OneMoreAnswer(p, n, place) /\ FirstLeaves(key)
  BY <1>6, <1>7, <1>7a, <1>9, <1>10, <1>11 DEF OneMoreAnswer, FirstLeaves
<1>14. WaitsAt(p, n, key, 1)
  BY <1>7, <1>7a, <1>8
<1>15. QED
  BY <1>12, <1>13, <1>14, AnswersServed

\* Every step of steady peers keeps one answer or one held request per query.
LEMMA AnswersStep ==
  ASSUME Steady, TypeOK, ContextInv, HeldConnected, AnswersInv, [Next]_vars
  PROVE  AnswersInv'
<1>1. "REHELLO" \notin Conduct /\ "GOODBYE" \notin Conduct /\ "UNEXPECTED" \notin Conduct
  BY DEF Steady
<1>2. UNCHANGED pending => SameWaits
  BY DEF WaitsAt, SameWaits
<1>3. UNCHANGED out => SameAnswers
  BY DEF AnsweredAt, SameAnswers
<1>4. ASSUME NEW p \in Peers, NEW m \in Messages, Send(p, m), m.type # "RESULT",
             UNCHANGED <<pending, asked>>
      PROVE  AnswersInv'
  <2>1. SameAnswers
    BY <1>4, SendOther DEF SameAnswers
  <2>2. QED
    BY <1>2, <1>4, <2>1, AnswersFrame
<1>5. ASSUME NEW p \in Peers, RecvHello(p)
      PROVE  AnswersInv'
  <2>1. PICK m \in Messages : m = [type |-> "COVERAGE", detmask |-> detmask]
    BY OtherMessages
  <2>2. m.type # "RESULT" /\ Send(p, m)
    BY <1>1, <1>5, <2>1 DEF RecvHello
  <2>3. QED
    BY <1>4, <1>5, <2>2 DEF RecvHello
<1>6. ASSUME NEW p \in Peers, RecvPing(p)
      PROVE  AnswersInv'
  <2>1. PICK m \in Messages : m = [type |-> "PONG"]
    BY OtherMessages
  <2>2. m.type # "RESULT" /\ Send(p, m)
    BY <1>6, <2>1 DEF RecvPing
  <2>3. QED
    BY <1>4, <1>6, <2>2 DEF RecvPing
<1>7. ASSUME UNCHANGED <<pending, asked, out>>
      PROVE  AnswersInv'
  BY <1>2, <1>3, <1>7, AnswersFrame
<1>8. QED
  BY <1>1, <1>5, <1>6, <1>7, AnswersQuery, AnswersServe
  DEF Next, Protocol, RecvGoodbye, RecvUnexpected, RecvMalformed, Expire, Ingest,
      Slurp, Purge, Method, StartIngest, SetDetmask, SetQueue, vars, serverVars

\* What the invariant says is what OneAnswerEach counts.
LEMMA AnswersCounted ==
  ASSUME TypeOK, AnswersInv
  PROVE  OneAnswerEach
<1> SUFFICES ASSUME NEW p \in Peers, NEW n \in DOMAIN asked[p], asked[p][n].detmask # {}
             PROVE  Cardinality(ResultsFor(p, n))
                      + Cardinality({h \in HeldFor(p) : pending[h[1]][h[2]].seqno = n}) = 1
  BY DEF OneAnswerEach
<1> DEFINE held == {h \in HeldFor(p) : pending[h[1]][h[2]].seqno = n}
<1>1. \A i : i \in ResultsFor(p, n) <=> AnsweredAt(p, n, i)
  BY DEF ResultsFor, AnsweredAt
<1>2. \A h \in held : \E k, i : h = <<k, i>> /\ WaitsAt(p, n, k, i)
  BY DEF HeldFor, WaitsAt
<1>3. \A k, i : WaitsAt(p, n, k, i) => <<k, i>> \in held
  BY DEF HeldFor, WaitsAt
<1>4. /\ Cardinality({}) = 0
      /\ \A e : Cardinality({e}) = 1
  BY FS_EmptySet, FS_Singleton
<1> HIDE DEF held
<1>5. CASE \E i : AnsweredAt(p, n, i)
  <2>1. PICK i : AnsweredAt(p, n, i)
    BY <1>5
  <2>2. ResultsFor(p, n) = {i}
    BY <1>1, <2>1 DEF AnswersInv
  <2>3. held = {}
    BY <1>2, <2>1 DEF AnswersInv
  <2>4. Cardinality(ResultsFor(p, n)) = 1 /\ Cardinality(held) = 0
    BY <1>4, <2>2, <2>3
  <2>5. QED
    BY <2>4 DEF held
<1>6. CASE \E k, i : WaitsAt(p, n, k, i)
  <2>1. PICK k, i : WaitsAt(p, n, k, i)
    BY <1>6
  <2>2. ResultsFor(p, n) = {}
    BY <1>1, <2>1 DEF AnswersInv
  <2>3. \A l, j : WaitsAt(p, n, l, j) => l = k /\ j = i
    BY <2>1 DEF AnswersInv
  <2>4. held = {<<k, i>>}
    BY <1>2, <1>3, <2>1, <2>3
  <2>5. Cardinality(ResultsFor(p, n)) = 0 /\ Cardinality(held) = 1
    BY <1>4, <2>2, <2>4
  <2>6. QED
    BY <2>5 DEF held
<1>7. QED
  BY <1>5, <1>6 DEF AnswersInv

\* With steady peers every query that is not bogus has exactly one RESULT, at
\* the peer that asked, or exactly one request held, however many peers ask,
\* answers are due at once and requests wait for the same end.
THEOREM ExactlyOneAnswer ==
  ASSUME Steady
  PROVE  Spec => []OneAnswerEach
<1>1. Init => AnswersInv
  BY DEF Init, AnswersInv, AnsweredAt, WaitsAt
<1>2. TypeOK /\ ContextInv /\ HeldConnected /\ AnswersInv /\ [Next]_vars => AnswersInv'
  BY AnswersStep
<1>3. TypeOK /\ AnswersInv => OneAnswerEach
  BY AnswersCounted
<1>4. QED
  BY <1>1, <1>2, <1>3, HeldContextsStay, OneContextEach, TypeCorrect, PTL DEF Spec

-----------------------------------------------------------------------------
(***************************************************************************)
(* The interval of an answer.  A held request remembers where its query    *)
(* begins and not where it ends; its payload is computed from the fields   *)
(* of the codec object, which every QUERY overwrites.  With one peer that  *)
(* waits for each answer no QUERY comes in between: while a request is     *)
(* held, it is the only one and the fields are those of its query.         *)
(***************************************************************************)

OneAtATime ==
  /\ MaxOutstanding = 1
  /\ \A p, r \in Peers : p = r

Fields(q) == [tstart |-> q.tstart, tspan |-> q.tspan]

FieldsInv ==
  /\ \A k, l \in Ticks : \A i \in DOMAIN pending[k], j \in DOMAIN pending[l] : k = l /\ i = j
  /\ \A k \in Ticks : \A i \in DOMAIN pending[k] :
       /\ pending[k][i].seqno \in DOMAIN asked[pending[k][i].from]
       /\ message = Fields(asked[pending[k][i].from][pending[k][i].seqno])

\* What the queue returns over an interval overlaps it.
LEMMA FetchOverlaps ==
  ASSUME TypeOK, QueueInv, NEW b \in Int, NEW e \in Int
  PROVE  \A tp \in Fetch(iq, b, e) : Overlaps(tp, b, e)
<1> SUFFICES ASSUME NEW f \in iq, b < e, f.lo < e, b < TpEnd(f.tp)
             PROVE  Overlaps(f.tp, b, e)
  BY DEF Fetch
<1>1. f.tp \in TPSets /\ f.lo \in Int
  BY DEF TypeOK, Entries
<1>2. f.tp.tstart <= f.lo /\ f.lo < TpEnd(f.tp)
  BY DEF QueueInv, QueueFromKept
<1>3. /\ f.tp.tstart \in Nat /\ f.tp.tspan \in Nat /\ TpEnd(f.tp) \in Int
      /\ f.tp.tspan > 0 <=> f.tp.tstart < TpEnd(f.tp)
  BY <1>1, TpEndType
<1>4. QED
  BY <1>1, <1>2, <1>3 DEF Overlaps

\* The payload for the fields of a query lies in the interval of the query.
LEMMA PayloadOverlaps ==
  ASSUME TypeOK, QueueInv, NEW q \in Queries
  PROVE  /\ \A tp \in Payload(q) : Overlaps(tp, Beg(q), End(q))
         /\ Payload(Fields(q)) = Payload(q)
<1>1. Beg(q) \in Int /\ End(q) \in Int
  BY QueryTicks, ServerAssumption, QueueAssumption DEF Ticks
<1>2. Beg(Fields(q)) = Beg(q) /\ End(Fields(q)) = End(q)
  BY DEF Beg, End, Fields
<1>3. QED
  BY <1>1, <1>2, FetchOverlaps DEF Payload

\* The queries of a peer are only added to.
AskedGrows ==
  \A p \in Peers : \A n \in DOMAIN asked[p] :
    n \in DOMAIN asked'[p] /\ asked'[p][n] = asked[p][n]

\* What was sent stays matched, and so does one more message that is.
LEMMA MatchedSend ==
  ASSUME TypeOK, AnswerMatchesQuery, AskedGrows,
         NEW p \in Peers, NEW m \in Messages, Send(p, m),
         m.type = "RESULT" =>
           /\ m.seqno \in DOMAIN asked'[p]
           /\ \A tp \in m.payload :
                Overlaps(tp, Beg(asked'[p][m.seqno]), End(asked'[p][m.seqno]))
  PROVE  AnswerMatchesQuery'
<1> SUFFICES ASSUME NEW r \in Peers, NEW i \in DOMAIN out'[r], out'[r][i].type = "RESULT"
             PROVE  /\ out'[r][i].seqno \in DOMAIN asked'[r]
                    /\ \A tp \in out'[r][i].payload :
                         Overlaps(tp, Beg(asked'[r][out'[r][i].seqno]),
                                      End(asked'[r][out'[r][i].seqno]))
  BY DEF AnswerMatchesQuery
<1>1. \/ i \in DOMAIN out[r] /\ out'[r][i] = out[r][i]
      \/ r = p /\ out'[r][i] = m
  BY OutOfSend
<1>2. CASE i \in DOMAIN out[r] /\ out'[r][i] = out[r][i]
  <2>1. /\ out[r][i].seqno \in DOMAIN asked[r]
        /\ \A tp \in out[r][i].payload :
             Overlaps(tp, Beg(asked[r][out[r][i].seqno]), End(asked[r][out[r][i].seqno]))
    BY <1>2 DEF AnswerMatchesQuery
  <2>2. /\ out[r][i].seqno \in DOMAIN asked'[r]
        /\ asked'[r][out[r][i].seqno] = asked[r][out[r][i].seqno]
    BY <2>1 DEF AskedGrows
  <2>3. QED
    BY <1>2, <2>1, <2>2
<1>3. CASE r = p /\ out'[r][i] = m
  BY <1>3
<1>4. QED
  BY <1>1, <1>2, <1>3

\* Nothing is sent.
LEMMA MatchedSilent ==
  ASSUME AnswerMatchesQuery, AskedGrows, UNCHANGED out
  PROVE  AnswerMatchesQuery'
BY DEF AnswerMatchesQuery, AskedGrows

\* A peer that may send a QUERY has no request held.
LEMMA NothingHeld ==
  ASSUME OneAtATime, TypeOK, FieldsInv, NEW p \in Peers,
         Cardinality(HeldFor(p)) < MaxOutstanding
  PROVE  \A k \in Ticks : DOMAIN pending[k] = {} /\ Len(pending[k]) = 0
<1>1. ASSUME NEW k \in Ticks, NEW i \in DOMAIN pending[k]
      PROVE  FALSE
  <2>1. pending[k][i].from \in Peers
    BY <1>1, PendingType DEF Requests
  <2>2. pending[k][i].from = p
    BY <2>1 DEF OneAtATime
  <2>3. <<k, i>> \in HeldFor(p)
    BY <1>1, <2>2 DEF HeldFor
  <2>4. \A h \in HeldFor(p) : h = <<k, i>>
    BY <1>1 DEF HeldFor, FieldsInv
  <2>5. HeldFor(p) = {<<k, i>>}
    BY <2>3, <2>4
  <2>6. Cardinality(HeldFor(p)) = 1
    BY <2>5, FS_Singleton
  <2>7. QED
    BY <2>6 DEF OneAtATime
<1>2. ASSUME NEW k \in Ticks
      PROVE  Len(pending[k]) = 0
  BY <1>1, PendingType
<1>3. QED
  BY <1>1, <1>2

\* handle_query, with one query at a time.
LEMMA MatchedQuery ==
  ASSUME OneAtATime, TypeOK, QueueInv, FieldsInv, AnswerMatchesQuery,
         NEW p \in Peers, NEW q \in Queries, RecvQuery(p, q)
  PROVE  FieldsInv' /\ AnswerMatchesQuery'
<1>0. \A k \in Ticks : DOMAIN pending[k] = {} /\ Len(pending[k]) = 0
  BY NothingHeld DEF RecvQuery
<1>1. PICK n \in Nat \ {0} : n = Len(asked[p]) + 1
  BY LenProperties DEF TypeOK
<1>2. PICK c \in Clients :
        \/ Refuse(c, p) /\ UNCHANGED <<pending, asked>>
        \/ /\ asked' = [asked EXCEPT ![p] = Append(@, q)]
           /\ \/ Answer(p, q, n) /\ UNCHANGED pending
              \/ Hold(c, p, q, n) /\ UNCHANGED out
  BY <1>1 DEF RecvQuery
<1>3. UNCHANGED pending => FieldsInv'
  BY <1>0 DEF FieldsInv
<1>4. CASE Refuse(c, p) /\ UNCHANGED <<pending, asked>>
  <2>1. AskedGrows
    BY <1>4 DEF AskedGrows
  <2>2. Error \in Messages /\ Error.type # "RESULT"
    BY ErrorType DEF Error
  <2>3. QED
    BY <1>3, <1>4, <2>1, <2>2, MatchedSend DEF Refuse
<1>5. ASSUME asked' = [asked EXCEPT ![p] = Append(@, q)]
      PROVE  AskedGrows /\ n \in DOMAIN asked'[p] /\ asked'[p][n] = q
  BY <1>1, <1>5, AskedFacts DEF AskedGrows
<1>6. ASSUME asked' = [asked EXCEPT ![p] = Append(@, q)], Answer(p, q, n), UNCHANGED pending
      PROVE  AnswerMatchesQuery'
  <2>1. Error \in Messages /\ Error.type # "RESULT"
    BY ErrorType DEF Error
  <2>2. ASSUME NEW m \in Messages, Send(p, m), m.seqno = n, m.payload \in {{}, Payload(q)}
        PROVE  AnswerMatchesQuery'
    <3>1. \A tp \in m.payload : Overlaps(tp, Beg(q), End(q))
      BY <2>2, PayloadOverlaps
    <3>2. QED
      BY <1>5, <1>6, <2>2, <3>1, MatchedSend
  <2>3. \A s \in {200, 206, 404} :
          Result(n, s, {}) \in Messages /\ Result(n, s, Payload(q)) \in Messages
    BY <1>1, ResultType
  <2>4. \A s, tps : Result(n, s, tps).seqno = n /\ Result(n, s, tps).payload = tps
    BY DEF Result
  <2>5. \/ Send(p, Error)
        \/ Send(p, Result(n, 404, {}))
        \/ Send(p, Result(n, 206, Payload(q)))
        \/ Send(p, Result(n, 200, Payload(q)))
    BY <1>6 DEF Answer
  <2>6. QED
    BY <1>5, <1>6, <2>1, <2>2, <2>3, <2>4, <2>5, MatchedSend
<1>7. ASSUME asked' = [asked EXCEPT ![p] = Append(@, q)], Hold(c, p, q, n), UNCHANGED out
      PROVE  FieldsInv' /\ AnswerMatchesQuery'
  <2> DEFINE h == [client |-> c, detmask |-> q.detmask, tstart |-> Beg(q),
                   seqno |-> n, from |-> p]
  <2>1. PICK e \in Ticks :
          /\ \A k \in Ticks : k # e => pending'[k] = pending[k]
          /\ DOMAIN pending'[e] = 1 .. (Len(pending[e]) + 1)
          /\ pending'[e][Len(pending[e]) + 1] = h
    BY <1>1, <1>7, HoldFacts
  <2>2. h.seqno = n /\ h.from = p
    OBVIOUS
  <2> HIDE DEF h
  <2>3. \A k \in Ticks : \A i \in DOMAIN pending'[k] : k = e /\ i = 1 /\ pending'[k][i] = h
    BY <1>0, <2>1
  <2>4. message' = Fields(q)
    BY DEF RecvQuery, Fields
  <2>5. n \in DOMAIN asked'[p] /\ message' = Fields(asked'[p][n])
    BY <1>5, <1>7, <2>4
  <2>6. FieldsInv'
    <3>1. \A k, l \in Ticks : \A i \in DOMAIN pending'[k], j \in DOMAIN pending'[l] :
            k = l /\ i = j
      BY <2>3
    <3>2. ASSUME NEW k \in Ticks, NEW i \in DOMAIN pending'[k]
          PROVE  /\ pending'[k][i].seqno \in DOMAIN asked'[pending'[k][i].from]
                 /\ message' = Fields(asked'[pending'[k][i].from][pending'[k][i].seqno])
      <4>1. pending'[k][i] = h
        BY <2>3
      <4>2. QED
        BY <2>2, <2>5, <4>1
    <3>3. QED
      BY <3>1, <3>2 DEF FieldsInv, Fields
  <2>7. QED
    BY <1>5, <1>7, <2>6, MatchedSilent
<1>8. QED
  BY <1>2, <1>3, <1>4, <1>6, <1>7

\* The codec's fields and the requests that wait still agree when the first
\* request under a key leaves.
LEMMA FieldsServe ==
  ASSUME FieldsInv, UNCHANGED <<message, asked>>,
         NEW k \in Ticks,
         \A l \in Ticks : l # k => pending'[l] = pending[l],
         \A i : i \in DOMAIN pending'[k] <=> i \in Nat \ {0} /\ i + 1 \in DOMAIN pending[k],
         \A i \in DOMAIN pending'[k] : pending'[k][i] = pending[k][i + 1],
         1 \in DOMAIN pending[k]
  PROVE  FieldsInv'
<1>1. \A l \in Ticks : \A i \in DOMAIN pending[l] : l = k /\ i = 1
  BY DEF FieldsInv
<1>2. \A i \in Nat \ {0} : i + 1 # 1
  OBVIOUS
<1>3. \A l \in Ticks : DOMAIN pending'[l] = {}
  BY <1>1, <1>2
<1>4. QED
  BY <1>3 DEF FieldsInv

\* The ingest handler answers the one request with the fields of its query.
LEMMA MatchedServe ==
  ASSUME OneAtATime, TypeOK, ContextInv, QueueInv, FieldsInv, AnswerMatchesQuery, Serve
  PROVE  FieldsInv' /\ AnswerMatchesQuery'
<1>1. PICK k \in Ticks, r \in Requests :
        /\ 1 \in DOMAIN pending[k] /\ r = pending[k][1]
        /\ \A l \in Ticks : l # k => pending'[l] = pending[l]
        /\ \A i : i \in DOMAIN pending'[k] <=> i \in Nat \ {0} /\ i + 1 \in DOMAIN pending[k]
        /\ \A i \in DOMAIN pending'[k] : pending'[k][i] = pending[k][i + 1]
        /\ \/ /\ clients[r.client].state = "connected"
              /\ Send(clients[r.client].peer, Result(r.seqno, 200, Payload(message)))
              /\ UNCHANGED <<clients, pc>>
           \/ /\ clients[r.client].state = "start"
              /\ Refuse(r.client, clients[r.client].peer)
              /\ UNCHANGED pc
           \/ /\ clients[r.client].state = "free"
              /\ UNCHANGED <<clients, out>>
  BY ServeFacts
<1>2. UNCHANGED <<message, asked>>
  BY DEF Serve
<1>3. FieldsInv'
  BY <1>1, <1>2, FieldsServe
<1>4. AskedGrows
  BY <1>2 DEF AskedGrows
<1>5. r.client \in Clients /\ r.from \in Peers /\ r.seqno \in Nat \ {0}
  BY <1>1 DEF Requests
<1>6. PICK p : p = clients[r.client].peer
  OBVIOUS
<1>7. clients[r.client].state # "free" => p \in Peers /\ p = r.from
  BY <1>5, <1>6 DEF ContextInv, Live, OneAtATime
<1>8. CASE clients[r.client].state = "connected" /\ Send(p, Result(r.seqno, 200, Payload(message)))
  <2>1. p \in Peers /\ p = r.from
    BY <1>7, <1>8
  <2>2. r.seqno \in DOMAIN asked[p] /\ message = Fields(asked[p][r.seqno])
    BY <1>1, <2>1 DEF FieldsInv
  <2>3. PICK q \in Queries : q = asked[p][r.seqno]
    <3>1. asked[p] \in Seq(Queries)
      BY <2>1 DEF TypeOK
    <3>2. QED
      BY <2>2, <3>1, ElementOfSeq, LenProperties
  <2>4. \A tp \in Payload(message) : Overlaps(tp, Beg(q), End(q))
    BY <2>2, <2>3, PayloadOverlaps
  <2>5. PICK m \in Messages : m = Result(r.seqno, 200, Payload(message))
    BY <1>5, ResultType
  <2>6. m.seqno = r.seqno /\ m.payload = Payload(message)
    BY <2>5 DEF Result
  <2>7. Send(p, m)
    BY <1>8, <2>5
  <2>8. /\ m.seqno \in DOMAIN asked'[p]
        /\ \A tp \in m.payload :
             Overlaps(tp, Beg(asked'[p][m.seqno]), End(asked'[p][m.seqno]))
    BY <1>2, <2>2, <2>3, <2>4, <2>6
  <2>9. QED
    BY <1>3, <1>4, <2>1, <2>7, <2>8, MatchedSend
<1>9. CASE clients[r.client].state = "start" /\ Refuse(r.client, p)
  <2>1. p \in Peers
    BY <1>7, <1>9
  <2>2. Error \in Messages /\ Error.type # "RESULT"
    BY ErrorType DEF Error
  <2>3. Send(p, Error)
    BY <1>9 DEF Refuse
  <2>4. QED
    BY <1>3, <1>4, <2>1, <2>2, <2>3, MatchedSend
<1>10. CASE UNCHANGED out
  BY <1>3, <1>4, <1>10, MatchedSilent
<1>11. QED
  BY <1>1, <1>6, <1>8, <1>9, <1>10

\* Every step, with one query at a time.
LEMMA MatchedStep ==
  ASSUME OneAtATime, TypeOK, ContextInv, QueueInv, FieldsInv, AnswerMatchesQuery, [Next]_vars
  PROVE  FieldsInv' /\ AnswerMatchesQuery'
<1>1. ASSUME UNCHANGED <<message, pending, asked>>
      PROVE  FieldsInv' /\ AskedGrows
  BY <1>1 DEF FieldsInv, AskedGrows
<1>2. ASSUME NEW p \in Peers, NEW m \in Messages, Send(p, m), m.type # "RESULT",
             UNCHANGED <<message, pending, asked>>
      PROVE  FieldsInv' /\ AnswerMatchesQuery'
  BY <1>1, <1>2, MatchedSend
<1>3. ASSUME UNCHANGED <<message, pending, asked, out>>
      PROVE  FieldsInv' /\ AnswerMatchesQuery'
  BY <1>1, <1>3, MatchedSilent
<1>4. Error \in Messages /\ Error.type # "RESULT"
  BY ErrorType DEF Error
<1>5. ASSUME NEW p \in Peers, RecvHello(p)
      PROVE  FieldsInv' /\ AnswerMatchesQuery'
  <2>1. PICK m \in Messages : m = [type |-> "COVERAGE", detmask |-> detmask]
    BY OtherMessages
  <2>2. m.type # "RESULT" /\ (Send(p, m) \/ Send(p, Error))
    BY <1>5, <2>1 DEF RecvHello, Refuse
  <2>3. QED
    BY <1>2, <1>4, <1>5, <2>2 DEF RecvHello
<1>6. ASSUME NEW p \in Peers, RecvPing(p)
      PROVE  FieldsInv' /\ AnswerMatchesQuery'
  <2>1. PICK m \in Messages : m = [type |-> "PONG"]
    BY OtherMessages
  <2>2. m.type # "RESULT" /\ Send(p, m)
    BY <1>6, <2>1 DEF RecvPing
  <2>3. QED
    BY <1>2, <1>6, <2>2 DEF RecvPing
<1>7. ASSUME NEW p \in Peers, RecvGoodbye(p)
      PROVE  FieldsInv' /\ AnswerMatchesQuery'
  <2>1. PICK m \in Messages : m = [type |-> "GOODBYE_OK"]
    BY OtherMessages
  <2>2. m.type # "RESULT" /\ Send(p, m)
    BY <1>7, <2>1 DEF RecvGoodbye
  <2>3. QED
    BY <1>2, <1>7, <2>2 DEF RecvGoodbye
<1>8. ASSUME NEW p \in Peers, RecvUnexpected(p)
      PROVE  FieldsInv' /\ AnswerMatchesQuery'
  BY <1>2, <1>4, <1>8 DEF RecvUnexpected, Refuse
<1>9. QED
  BY <1>3, <1>5, <1>6, <1>7, <1>8, MatchedQuery, MatchedServe
  DEF Next, Protocol, RecvMalformed, Expire, Ingest, Slurp, Purge, Method,
      StartIngest, SetDetmask, SetQueue, vars, serverVars

\* When one peer asks one query at a time, every RESULT carries data of the
\* interval of the query it answers, whatever else the peer sends, however its
\* context comes and goes.  With more peers it does not: the fields of the codec
\* object are those of the latest QUERY.
THEOREM AnswersMatchOneAtATime ==
  ASSUME OneAtATime
  PROVE  Spec => []AnswerMatchesQuery
<1>1. Init => FieldsInv /\ AnswerMatchesQuery
  BY DEF Init, FieldsInv, AnswerMatchesQuery
<1>2. TypeOK /\ ContextInv /\ QueueInv /\ FieldsInv /\ AnswerMatchesQuery /\ [Next]_vars =>
        FieldsInv' /\ AnswerMatchesQuery'
  BY MatchedStep
<1>3. QED
  BY <1>1, <1>2, OneContextEach, QueueInvariant, TypeCorrect, PTL DEF Spec
=============================================================================
