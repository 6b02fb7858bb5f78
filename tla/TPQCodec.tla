------------------------------ MODULE TPQCodec ------------------------------
(***************************************************************************)
(* tpq_codec: what two programs tell each other, and how.                  *)
(*                                                                         *)
(* A client (a DEALER socket) and a server (a ROUTER socket) own one codec *)
(* object each and use it for everything they send and receive, as both    *)
(* engines do.  A message is one data frame, for RESULT followed by one    *)
(* frame per payload frame; a frame is the sequence of bytes that the PUT  *)
(* macros write and the GET macros read.  The object outlives its messages: *)
(* a field that a message does not carry keeps its value.                  *)
(*                                                                         *)
(* A peer may also send a frame that stops early.  Payloads are zmsg_t     *)
(* objects with owners, so a leak and a shared payload are states of the   *)
(* model.  CZMQ and ZeroMQ are external: frames of one message arrive      *)
(* together and in order; a ROUTER drops what it cannot route.             *)
(*                                                                         *)
(* A definition marked Variant is the one that follows it with a plausible *)
(* mistake; no specification uses it.                                      *)
(***************************************************************************)
EXTENDS Integers, SequencesExt

CONSTANTS
  Byte,       \* 256 in the program: the values of a byte are 0 .. Byte - 1
  Signature,  \* the two bytes a message begins with
  Digit,      \* 16 in the program: the base of the textual form of bytes
  Identity,   \* the bytes by which the server's socket knows the client
  Messages,   \* what each program says: the calls of the setters it makes
  Cuts,       \* the lengths at which a short frame may stop
  MaxMsgs,    \* bound: zmsg_t objects alive at a time
  MaxCalls    \* bound: calls made

ASSUME CodecAssumption ==
  /\ Byte \in Nat /\ Byte > 9 /\ Digit \in Nat /\ Byte <= Digit * Digit
  /\ Signature \in 0 .. Byte * Byte - 1
  /\ Identity \in Seq(0 .. Byte - 1) /\ Identity # << >>
  /\ MaxMsgs \in Nat /\ MaxCalls \in Nat

VARIABLES
  codec,      \* the codec object of each end
  copy,       \* <<a codec made by dup or new_zpl, what it shall say>>, or <<>>
  text,       \* <<a zconfig tree, what it shall say>>, or <<>>
  held,       \* the zmsg_t the application owns, 0 if none
  heap,       \* the zmsg_t objects that are alive, with their frames
  wire,       \* the frames on their way to each end
  got,        \* what the last receive of each end returned
  calls

vars == <<codec, copy, text, held, heap, wire, got, calls>>

Ends == {"client", "server"}
Peer == [client |-> "server", server |-> "client"]
HELLO == 1
COVERAGE == 2
QUERY == 3
RESULT == 4
PING == 5
PONG == 6
GOODBYE == 7
GOODBYE_OK == 8
ERROR == 9
Ids == HELLO .. ERROR

Strings == {"nickname", "reason"}
Numbers == {"detmask", "seqno", "tstart", "tspan", "timeout", "status"}

\* Bytes of each number; _tpq_codec_t declares them with the same widths.
Width == [detmask |-> 8, tstart |-> 8, tspan |-> 8, seqno |-> 4, timeout |-> 4,
          status |-> 2]

\* What the programs pass to the setters: C strings, integers of any value, and
\* a zmsg_t for the payload, or none.
ASSUME MessagesAssumption ==
  /\ Cuts \subseteq Nat
  /\ \A e \in Ends : \A m \in Messages[e] :
       /\ m.id \in Ids
       /\ DOMAIN m.set \subseteq Strings \cup Numbers
       /\ \A f \in DOMAIN m.set \cap Strings : m.set[f] \in Seq(1 .. Byte - 1)
       /\ \A f \in DOMAIN m.set \cap Numbers : m.set[f] \in Int
       /\ m.payload \in Seq(Seq(Seq(0 .. Byte - 1))) /\ Len(m.payload) <= 1

\* What a shift by k bytes divides by, k in 0 .. 8: the k-th power of Byte.
Byte2 == Byte * Byte
Byte4 == Byte2 * Byte2
Weights == <<1, Byte, Byte2, Byte2 * Byte, Byte4, Byte4 * Byte, Byte4 * Byte2,
             Byte4 * (Byte2 * Byte), Byte4 * Byte4>>
Weight(k) == Weights[k + 1]
Capacity(f) == Weight(Width[f])

\* The object as zmalloc leaves it.  A payload is an object of the heap, or 0
\* for NULL; a routing_id is <<frame>>, or <<>> for NULL.
tpq_codec_new ==
  [routing_id |-> << >>, id |-> 0, nickname |-> << >>, detmask |-> 0,
   seqno |-> 0, tstart |-> 0, tspan |-> 0, timeout |-> 0, status |-> 0,
   payload |-> 0, reason |-> << >>]

-----------------------------------------------------------------------------
(***************************************************************************)
(* Setters.                                                                *)
(***************************************************************************)

\* Variant: the copy is not bounded.
SetStringWhole(value) == value
\* strncpy of at most 255 bytes.
SetString(value) == SubSeq(value, 1, Min({Len(value), Byte - 1}))

\* The argument is converted to the type of the field.
SetNumber(f, value) == value % Capacity(f)

\* One setter is called for each of the values.
Set(c, values) ==
  [f \in DOMAIN c |-> IF f \notin DOMAIN values THEN c[f]
                      ELSE IF f \in Strings THEN SetString(values[f])
                      ELSE SetNumber(f, values[f])]

\* The objects owned through a payload field are freed through this.
Destroy(h, o) == [x \in DOMAIN h \ {o} |-> h[x]]
FreshIds(h) == (1 .. MaxMsgs) \ DOMAIN h
Fresh(h) == CHOOSE o \in FreshIds(h) : TRUE
Alloc(h, frames) == [x \in DOMAIN h \cup {Fresh(h)} |->
                       IF x = Fresh(h) THEN frames ELSE h[x]]

-----------------------------------------------------------------------------
(***************************************************************************)
(* The data frame.                                                         *)
(***************************************************************************)

PutNumber(n, w) == [i \in 1 .. w |-> (n \div Weight(w - i)) % Byte]
PutString(s) == <<Len(s) % Byte>> \o s

\* The sum of the bytes by weight, from position i.
GetNumber2(b, i) == b[i] * Byte + b[i + 1]
GetNumber4(b, i) == GetNumber2(b, i) * Byte2 + GetNumber2(b, i + 2)
GetNumber8(b, i) == GetNumber4(b, i) * Byte4 + GetNumber4(b, i + 4)
GetNumber(bytes) ==
  CASE Len(bytes) = 2 -> GetNumber2(bytes, 1)
    [] Len(bytes) = 4 -> GetNumber4(bytes, 1)
    [] Len(bytes) = 8 -> GetNumber8(bytes, 1)

PutFields(id) ==
  CASE id = HELLO    -> <<"nickname">>
    [] id = COVERAGE -> <<"detmask">>
    [] id = QUERY    -> <<"seqno", "tstart", "tspan", "detmask", "timeout">>
    [] id = RESULT   -> <<"seqno", "status">>
    [] id = ERROR    -> <<"status", "reason">>
    [] OTHER         -> << >>

\* Variant: the length byte of the reason is forgotten.
FrameSizeShort(c) ==
  2 + 1 + CASE c.id = HELLO    -> 1 + Len(c.nickname)
            [] c.id = COVERAGE -> 8
            [] c.id = QUERY    -> 4 + 8 + 8 + 8 + 4
            [] c.id = RESULT   -> 4 + 2
            [] c.id = ERROR    -> 2 + Len(c.reason)
            [] OTHER           -> 0

\* The size the frame is allocated with, before anything is written to it.
FrameSize(c) ==
  2 + 1 + CASE c.id = HELLO    -> 1 + Len(c.nickname)
            [] c.id = COVERAGE -> 8
            [] c.id = QUERY    -> 4 + 8 + 8 + 8 + 4
            [] c.id = RESULT   -> 4 + 2
            [] c.id = ERROR    -> 2 + 1 + Len(c.reason)
            [] OTHER           -> 0

PutField(c, f) ==
  IF f \in Strings THEN PutString(c[f]) ELSE PutNumber(c[f], Width[f])

\* The fields in turn; no message has more than five.
Put(c, fields, i) == IF i \in DOMAIN fields THEN PutField(c, fields[i]) ELSE << >>
PutAll(c, fs) ==
  Put(c, fs, 1) \o (Put(c, fs, 2) \o (Put(c, fs, 3) \o (Put(c, fs, 4) \o Put(c, fs, 5))))

DataFrame(c) ==
  PutNumber(Signature, 2) \o (PutNumber(c.id, 1) \o PutAll(c, PutFields(c.id)))

\* Variant: the mask is read before the interval.
GetFieldsSwapped(id) ==
  IF id = QUERY THEN <<"seqno", "detmask", "tstart", "tspan", "timeout">>
                ELSE PutFields(id)

\* Variant: the reason is read into the nickname.
GetFieldsMixed(id) ==
  IF id = ERROR THEN <<"status", "nickname">> ELSE PutFields(id)

GetFields(id) ==
  CASE id = HELLO    -> <<"nickname">>
    [] id = COVERAGE -> <<"detmask">>
    [] id = QUERY    -> <<"seqno", "tstart", "tspan", "detmask", "timeout">>
    [] id = RESULT   -> <<"seqno", "status">>
    [] id = ERROR    -> <<"status", "reason">>
    [] OTHER         -> << >>

\* A reader of a frame: the codec it fills, the bytes left, whether a GET
\* macro has jumped to malformed.  A value is taken from the first n bytes.
Take(r, f, value, n) ==
  [codec |-> [r.codec EXCEPT ![f] = value], short |-> FALSE,
   rest |-> SubSeq(r.rest, n + 1, Len(r.rest))]

GetField(r, f) ==
  LET n == IF f \in Strings THEN 1 ELSE Width[f]
      last == 1 + Head(r.rest)
  IN  IF r.short \/ Len(r.rest) < n THEN [r EXCEPT !.short = TRUE]
      ELSE IF f \in Numbers THEN Take(r, f, GetNumber(SubSeq(r.rest, 1, n)), n)
      ELSE IF Len(r.rest) < last THEN [r EXCEPT !.short = TRUE]
      ELSE Take(r, f, SubSeq(r.rest, 2, last), last)

\* The fields of the message in turn.
Get(r, fields, i) == IF i \in DOMAIN fields THEN GetField(r, fields[i]) ELSE r
ReadFields(r, fs) == Get(Get(Get(Get(Get(r, fs, 1), fs, 2), fs, 3), fs, 4), fs, 5)

\* From the signature to the last field: the codec afterwards, the return
\* value, and whether the reader stopped early.  What is too short returns 0.
Parse(c, bytes) ==
  LET stop(cc, rc) == [codec |-> cc, rc |-> rc, short |-> TRUE]
      id == bytes[3]
      read == ReadFields([codec |-> [c EXCEPT !.id = id], short |-> FALSE,
                          rest |-> SubSeq(bytes, 4, Len(bytes))], GetFields(id))
  IN  IF Len(bytes) < 2 THEN stop(c, 0)
      ELSE IF GetNumber(SubSeq(bytes, 1, 2)) # Signature THEN stop(c, -2)
      ELSE IF Len(bytes) < 3 THEN stop(c, 0)
      ELSE IF id \notin Ids THEN stop([c EXCEPT !.id = id], -2)
      ELSE [codec |-> read.codec, rc |-> 0, short |-> read.short]

-----------------------------------------------------------------------------
(***************************************************************************)
(* What an object says, for the comparison of two of them: the fields of   *)
(* its message by value.  A NULL payload is told apart from an empty one.  *)
(***************************************************************************)

PayloadOf(c, h) == IF c.payload = 0 THEN << >> ELSE <<h[c.payload]>>

Says(c, h) ==
  [id |-> c.id, fields |-> [f \in ToSet(PutFields(c.id)) |-> c[f]],
   payload |-> IF c.id = RESULT THEN PayloadOf(c, h) ELSE << >>]

\* All of it, whatever the message carries.
Holds(c, h) ==
  [id |-> c.id, fields |-> [f \in Strings \cup Numbers |-> c[f]],
   payload |-> PayloadOf(c, h)]

\* What a copy of an object shall say, and whom it shall address.
Claim(c, says) == [says |-> says, routing_id |-> c.routing_id]

-----------------------------------------------------------------------------
(***************************************************************************)
(* Sending and receiving.                                                  *)
(***************************************************************************)

\* The frames of a RESULT after the data frame.  A NULL payload is sent as one
\* empty frame, an empty one as no frame.
PayloadFrames(c, h) ==
  IF c.id # RESULT THEN << >>
  ELSE IF c.payload = 0 THEN << << >> >>
  ELSE h[c.payload]

\* A message as it travels.  of is what the sender says, <<>> for a frame that
\* is not an intact data frame.
Frames(datas, of) ==
  [i \in DOMAIN datas |-> [data |-> datas[i], more |-> i < Len(datas),
                           of |-> IF i = 1 THEN of ELSE << >>]]

\* What the receiver shall find: a NULL payload arrives as one empty frame.
Delivered(c, h) ==
  LET said == Says(c, h)
  IN  IF c.id = RESULT /\ c.payload = 0
      THEN [said EXCEPT !.payload = << << << >> >> >>] ELSE said

\* External: a DEALER adds no frame, a ROUTER reads the identity of the sender
\* first; what a ROUTER sends begins with a routing frame, which it takes off.
Deliver(e, message) ==
  wire' = [wire EXCEPT ![Peer[e]] = @ \o
             (IF e = "client"
              THEN <<[data |-> Identity, more |-> TRUE, of |-> << >>]>>
              ELSE << >>) \o message]

Routable(e) ==
  \/ e = "client"
  \/ codec[e].routing_id = <<Identity>>

tpq_codec_send(e) ==
  /\ LET datas == <<DataFrame(codec[e])>> \o PayloadFrames(codec[e], heap)
         of == IF codec[e].id \in Ids THEN <<Delivered(codec[e], heap)>> ELSE << >>
     IN  IF Routable(e)
         THEN Deliver(e, Frames(datas, of))
         ELSE UNCHANGED wire
  /\ UNCHANGED <<codec, copy, text, held, heap, got>>

\* External: a peer that follows another version of the protocol, or none,
\* sends a data frame that stops after n bytes.
SendShort(e) ==
  /\ Routable(e)
  /\ \E n \in {c \in Cuts : c < Len(DataFrame(codec[e]))} :
       Deliver(e, Frames(<<SubSeq(DataFrame(codec[e]), 1, n)>>
                           \o PayloadFrames(codec[e], heap), << >>))
  /\ UNCHANGED <<codec, copy, text, held, heap, got>>

\* The frames of the message on the wire from position i to its last.
RestOfMessage(frames, i) ==
  IF ~ frames[i - 1].more THEN << >>
  ELSE SubSeq(frames, i, Min({j \in i .. Len(frames) : ~ frames[j].more}))

\* The data frame at position i: parsed, and for RESULT the payload received.
\* A frame that is too short or of a bad kind leaves the frames after it.
ReceiveData(e, c, i) ==
  LET frames == wire[e]
      p == Parse(c, frames[i].data)
      whole == p.codec.id = RESULT /\ ~ p.short
      tail == IF whole THEN RestOfMessage(frames, i + 1) ELSE << >>
      datas == [j \in DOMAIN tail |-> tail[j].data]
      freed == Destroy(heap, c.payload)
  IN  /\ whole => FreshIds(freed) # {}
      /\ wire' = [wire EXCEPT ![e] = SubSeq(@, i + 1 + Len(tail), Len(@))]
      /\ codec' = [codec EXCEPT ![e] =
           IF whole THEN [p.codec EXCEPT !.payload = Fresh(freed)] ELSE p.codec]
      /\ heap' = IF whole THEN Alloc(freed, datas) ELSE heap
      /\ got' = [got EXCEPT ![e] = [rc |-> p.rc, of |-> frames[i].of]]
      /\ UNCHANGED <<copy, text, held>>

tpq_codec_recv(e) ==
  /\ wire[e] # << >>
  /\ IF e = "client" THEN ReceiveData(e, codec[e], 1)
     ELSE LET named == [codec[e] EXCEPT !.routing_id = <<wire[e][1].data>>]
          IN  IF wire[e][1].more THEN ReceiveData(e, named, 2)
              ELSE /\ codec' = [codec EXCEPT ![e] = named]
                   /\ wire' = [wire EXCEPT ![e] = Tail(@)]
                   /\ got' = [got EXCEPT ![e] = [rc |-> -1, of |-> wire[e][1].of]]
                   /\ UNCHANGED <<copy, text, held, heap>>

\* A signal interrupts the receive: a ROUTER has lost its routing_id by then.
Interrupt(e) ==
  /\ codec' = IF e = "server" THEN [codec EXCEPT ![e].routing_id = << >>] ELSE codec
  /\ got' = [got EXCEPT ![e] = [rc |-> -1, of |-> << >>]]
  /\ UNCHANGED <<copy, text, held, heap, wire>>

-----------------------------------------------------------------------------
(***************************************************************************)
(* The calls of the program on its object.                                 *)
(***************************************************************************)

\* set_id, the setters of the fields that the program fills, and set_payload
\* with a new zmsg_t if the program has built one.
Compose(e) ==
  /\ \E m \in Messages[e] :
       LET c == Set([codec[e] EXCEPT !.id = m.id], m.set)
           freed == Destroy(heap, c.payload)
       IN  IF m.payload = << >>
           THEN codec' = [codec EXCEPT ![e] = c] /\ UNCHANGED heap
           ELSE /\ FreshIds(freed) # {}
                /\ codec' = [codec EXCEPT ![e] = [c EXCEPT !.payload = Fresh(freed)]]
                /\ heap' = Alloc(freed, m.payload[1])
  /\ got' = [got EXCEPT ![e] = [rc |-> 0, of |-> << >>]]
  /\ UNCHANGED <<copy, text, held, wire>>

\* The server engine addresses its object to a client.
tpq_codec_set_routing_id(e) ==
  /\ codec' = [codec EXCEPT ![e].routing_id = <<Identity>>]
  /\ UNCHANGED <<copy, text, held, heap, wire, got>>

\* The application destroys the payload it took.
DestroyPayload ==
  /\ held # 0
  /\ held' = 0 /\ heap' = Destroy(heap, held)
  /\ UNCHANGED <<codec, copy, text, wire, got>>

\* Variant: the object keeps the payload it gives away.
GetPayloadKeeping(e) ==
  /\ held = 0
  /\ held' = codec[e].payload
  /\ got' = [got EXCEPT ![e].of = << >>]
  /\ UNCHANGED <<codec, copy, text, heap, wire>>

tpq_codec_get_payload(e) ==
  /\ held = 0
  /\ held' = codec[e].payload
  /\ codec' = [codec EXCEPT ![e].payload = 0]
  /\ got' = [got EXCEPT ![e].of = << >>]
  /\ UNCHANGED <<copy, text, heap, wire>>
tpq_codec_set_payload(e) ==
  /\ codec' = [codec EXCEPT ![e].payload = held]
  /\ heap' = Destroy(heap, codec[e].payload)
  /\ held' = 0
  /\ got' = [got EXCEPT ![e].of = << >>]
  /\ UNCHANGED <<copy, text, wire>>

\* The setters of the copy are called with every field of the other object;
\* the payload is a copy too.
CopyOf(c, payload) == [c EXCEPT !.payload = payload]

tpq_codec_dup(e) ==
  /\ copy = << >>
  /\ LET c == codec[e]
     IN  IF c.payload = 0
         THEN /\ copy' = <<CopyOf(c, 0), Claim(c, Holds(c, heap))>>
              /\ UNCHANGED heap
         ELSE /\ FreshIds(heap) # {}
              /\ copy' = <<CopyOf(c, Fresh(heap)),
                           Claim(c, Holds(c, heap))>>
              /\ heap' = Alloc(heap, heap[c.payload])
  /\ UNCHANGED <<codec, text, held, wire, got>>

tpq_codec_destroy ==
  /\ copy # << >>
  /\ copy' = << >> /\ heap' = Destroy(heap, copy[1].payload)
  /\ UNCHANGED <<codec, text, held, wire, got>>

-----------------------------------------------------------------------------
(***************************************************************************)
(* The textual form.                                                       *)
(***************************************************************************)

\* "%ld" prints an unsigned number as a long, strtoll reads it back; the result
\* is converted to the type of the field.
LongOf(n) == IF n < Weight(8) \div 2 THEN n ELSE n - Weight(8)
\* Variant: a number that is printed with a sign is not accepted.
NumberOfClamped(f, long) == IF long < 0 THEN 0 ELSE long % Capacity(f)
NumberOf(f, long) == (long % Weight(8)) % Capacity(f)

\* Bytes are printed as two digits each; BYTES_FROM_STR takes an even number.
STR_FROM_BYTES(bytes) ==
  [i \in 1 .. 2 * Len(bytes) |->
     IF i % 2 = 1 THEN bytes[(i + 1) \div 2] \div Digit
                  ELSE bytes[(i + 1) \div 2] % Digit]
BYTES_FROM_STR(str) ==
  [i \in 1 .. Len(str) \div 2 |-> str[2 * i - 1] * Digit + str[2 * i]]
IsBytes(str) == Len(str) % 2 = 0

ZplFields(id) ==
  CASE id = HELLO    -> {"nickname"}
    [] id = COVERAGE -> {"detmask"}
    [] id = QUERY    -> {"seqno", "tstart", "tspan", "detmask", "timeout"}
    [] id = RESULT   -> {"seqno", "status"}
    [] id = ERROR    -> {"status", "reason"}
    [] OTHER         -> {}

\* The tree: the name of the message, the fields printed, the frames of the
\* payload, and the entries that someone has since removed or spoiled.
tpq_codec_zpl(e) ==
  LET c == codec[e]
  IN  /\ c.id = RESULT => c.payload # 0     \* external: zmsg_encode asserts it
      /\ text' =
           <<[message |-> c.id,
              routing_id |-> [i \in DOMAIN c.routing_id |->
                                STR_FROM_BYTES(c.routing_id[i])],
              content |-> [f \in ZplFields(c.id) |->
                             IF f \in Strings THEN c[f] ELSE LongOf(c[f])],
              payload |-> IF c.id # RESULT THEN << >>
                          ELSE [i \in DOMAIN heap[c.payload] |->
                                  STR_FROM_BYTES(heap[c.payload][i])],
              bad |-> {}],
             Claim(c, Says(c, heap))>>
      /\ UNCHANGED <<codec, copy, held, heap, wire, got>>

\* External: the tree is edited by hand: an entry is spoiled, or a digit lost.
EditText ==
  /\ text # << >>
  /\ \/ \E f \in DOMAIN text[1].content : text' = [text EXCEPT ![1].bad = @ \cup {f}]
     \/ /\ text[1].routing_id # << >> /\ text[1].routing_id[1] # << >>
        /\ IsBytes(text[1].routing_id[1])
        /\ text' = [text EXCEPT ![1].routing_id[1] = Tail(@)]
  /\ UNCHANGED <<codec, copy, held, heap, wire, got>>

NewZplFields(id) ==
  CASE id = HELLO    -> {"nickname"}
    [] id = COVERAGE -> {"detmask"}
    [] id = QUERY    -> {"seqno", "tstart", "tspan", "detmask", "timeout"}
    [] id = RESULT   -> {"seqno", "status"}
    [] id = ERROR    -> {"status", "reason"}
    [] OTHER         -> {}

\* The object that a tree describes, its payload not yet decoded.
FromText(t) ==
  [f \in DOMAIN tpq_codec_new |->
     CASE f = "id"         -> t.message
       [] f = "routing_id" -> [i \in DOMAIN t.routing_id |->
                                 BYTES_FROM_STR(t.routing_id[i])]
       [] f \in NewZplFields(t.message) \cap Strings -> SetString(t.content[f])
       [] f \in NewZplFields(t.message) \cap Numbers -> NumberOf(f, t.content[f])
       [] OTHER -> tpq_codec_new[f]]

\* NULL, and no copy, unless the message is known and every entry is good.  The
\* object begun is destroyed when a field is bad; a text that BYTES_FROM_STR
\* refuses leaks it instead (tpq_codec.cpp:205-208), but it reaches nobody, and
\* no property counts codec objects.
tpq_codec_new_zpl ==
  /\ text # << >> /\ copy = << >>
  /\ LET t == text[1]
     IN  IF \/ t.message \notin Ids \/ NewZplFields(t.message) \cap t.bad # {}
            \/ \E i \in DOMAIN t.routing_id : ~ IsBytes(t.routing_id[i])
         THEN UNCHANGED <<copy, heap>>
         ELSE IF t.message # RESULT
         THEN copy' = <<FromText(t), text[2]>> /\ UNCHANGED heap
         ELSE /\ FreshIds(heap) # {}
              /\ copy' = <<[FromText(t) EXCEPT !.payload = Fresh(heap)], text[2]>>
              /\ heap' = Alloc(heap, [i \in DOMAIN t.payload |->
                                       BYTES_FROM_STR(t.payload[i])])
  /\ UNCHANGED <<codec, text, held, wire, got>>

-----------------------------------------------------------------------------
Init ==
  /\ codec = [e \in Ends |-> tpq_codec_new]
  /\ copy = << >> /\ text = << >>
  /\ held = 0 /\ heap = << >>
  /\ wire = [e \in Ends |-> << >>]
  /\ got = [e \in Ends |-> [rc |-> 0, of |-> << >>]]
  /\ calls = 0

Call ==
  \/ \E e \in Ends :
       \/ Compose(e) \/ tpq_codec_send(e) \/ SendShort(e)
       \/ tpq_codec_recv(e) \/ Interrupt(e)
       \/ tpq_codec_get_payload(e) \/ tpq_codec_set_payload(e)
       \/ tpq_codec_dup(e) \/ tpq_codec_zpl(e)
  \/ tpq_codec_set_routing_id("server")
  \/ DestroyPayload
  \/ tpq_codec_destroy \/ EditText \/ tpq_codec_new_zpl

Next == calls < MaxCalls /\ calls' = calls + 1 /\ Call

Spec == Init /\ [][Next]_vars

-----------------------------------------------------------------------------
(***************************************************************************)
(* Properties.                                                             *)
(***************************************************************************)

CodecType ==
  [routing_id : Seq(Seq(0 .. Byte - 1)), id : 0 .. Byte - 1,
   nickname : Seq(0 .. Byte - 1), reason : Seq(0 .. Byte - 1),
   detmask : 0 .. Weight(8) - 1, tstart : 0 .. Weight(8) - 1,
   tspan : 0 .. Weight(8) - 1, seqno : 0 .. Weight(4) - 1,
   timeout : 0 .. Weight(4) - 1, status : 0 .. Weight(2) - 1,
   payload : 0 .. MaxMsgs]

\* Fields keep the width of their C types; strings fit their arrays.
TypeOK ==
  /\ codec \in [Ends -> CodecType]
  /\ copy # << >> => copy[1] \in CodecType
  /\ \A e \in Ends : /\ Len(codec[e].nickname) < Byte /\ Len(codec[e].reason) < Byte
                     /\ Len(codec[e].routing_id) <= 1
  /\ held \in 0 .. MaxMsgs /\ DOMAIN heap \subseteq 1 .. MaxMsgs
  /\ calls \in 0 .. MaxCalls

\* tpq_codec_send writes its data frame through a pointer into a buffer whose
\* size it computed from the same fields by another switch: the two agree,
\* whatever the object has become by receiving, copying and setting.
BufferIsFilled ==
  \A e \in Ends : Len(DataFrame(codec[e])) = FrameSize(codec[e])

\* An intact message is accepted and says, after it was received, what its
\* sender's object said, whatever the receiving object held before and whatever
\* a short message left on the socket.
ReceivedIsSent ==
  \A e \in Ends : got[e].of # << >> =>
    got[e].rc = 0 /\ Says(codec[e], heap) = got[e].of[1]

\* A dup holds all that its original held, an object read back from its
\* textual form says what was exported, and no object comes of a spoiled text.
CopyIsFaithful ==
  copy # << >> =>
    /\ copy[2].says \in {Says(copy[1], heap), Holds(copy[1], heap)}
    /\ copy[2].routing_id = copy[1].routing_id

Owners == {<<"codec", e>> : e \in Ends} \cup {<<"copy", 1>>, <<"app", 1>>}
Owned(o) == CASE o[1] = "codec" -> codec[o[2]].payload
              [] o[1] = "copy"  -> IF copy = << >> THEN 0 ELSE copy[1].payload
              [] o[1] = "app"   -> held

\* Every zmsg_t has one owner: none is leaked by a receive, a setter or a
\* destructor, none is owned twice or used after it was freed.
OneOwner ==
  /\ \A m \in DOMAIN heap : \E o \in Owners : Owned(o) = m
  /\ \A o \in Owners : Owned(o) # 0 =>
       /\ Owned(o) \in DOMAIN heap
       /\ \A q \in Owners : Owned(q) = Owned(o) => q = o

\* A receive changes only the fields of the message it announces: what an
\* earlier message left, the interval of a query among it, survives every other
\* kind of message.  (tpq_server answers held queries from these fields.)
OtherFieldsSurvive ==
  [][\A e \in Ends : tpq_codec_recv(e) =>
       \A f \in Strings \cup Numbers :
         \/ f \in ToSet(PutFields(codec'[e].id))
         \/ codec'[e][f] = codec[e][f]]_vars

\* What the comment above tpq_codec_recv says: -2 if the message is malformed.
MalformedIsReported ==
  [][\A e \in Ends : tpq_codec_recv(e) =>
       (got'[e].rc = 0 => got'[e].of # << >>)]_vars
=============================================================================
