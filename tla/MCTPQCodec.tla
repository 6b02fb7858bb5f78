----------------------------- MODULE MCTPQCodec -----------------------------
(***************************************************************************)
(* A small instance of TPQCodec.  A byte is a decimal digit, so a number   *)
(* of eight bytes still fits TLC's integers and a string holds at most     *)
(* nine bytes.                                                             *)
(***************************************************************************)
EXTENDS TPQCodec

ClientIdentity == <<7>>

Say(i, s) == [id |-> i, set |-> s, payload |-> << >>]
SayWith(i, s, frames) == [id |-> i, set |-> s, payload |-> <<frames>>]
NoFields == [f \in {} |-> 0]

\* The low and the high end of every width, a string of full length and one
\* that is cut, a RESULT with no payload, an empty one, and one of two frames
\* of which the second begins as a message does.
SomeMessages ==
  [client |->
     {Say(HELLO, [nickname |-> <<1, 2, 3, 4, 5, 6, 7, 8, 9, 8, 7>>]),
      Say(QUERY, [seqno |-> 12, tstart |-> 99999998, tspan |-> 7,
                  detmask |-> 3, timeout |-> 4321]),
      Say(PING, NoFields)},
   server |->
     {Say(COVERAGE, [detmask |-> 51234567]),
      Say(RESULT, [seqno |-> 12, status |-> 20]),
      SayWith(RESULT, [seqno |-> 13, status |-> 40], << >>),
      SayWith(RESULT, [seqno |-> 12, status |-> 20], << <<5>>, <<8, 3, 5>> >>),
      Say(ERROR, [status |-> 50, reason |-> <<4, 2>>])}]

\* Nothing, the signature, the ID, and after a number of the longer messages.
SomeCuts == {0, 2, 3, 7, 15}
=============================================================================
