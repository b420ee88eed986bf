------------------------------ MODULE MCPacket ------------------------------
(* A small instance of Packet: nibbles have five values and octets 25.       *)
EXTENDS Packet

Long == [i \in 1 .. Octet |-> 3]

(* Lengths 1 and 2 of the value with its leading zero are a plain and an     *)
(* extended one; the distances 0, 1, 6 and 24 too.                           *)
SomeOptions ==
  {[number |-> 0, value |-> <<>>], [number |-> 1, value |-> <<>>],
   [number |-> 1, value |-> <<1>>],
   [number |-> 24, value |-> Long]}

(* A header octet for every kind of distance and length: short ones, the two *)
(* extensions, the reserved nibble; and octets of a value.                   *)
Heads == {0, 1, 2, 3, 4, 6, 10, 13, 15, 20}

ABody(b, t) == [version |-> COAP_VERSION, tkl |-> t, body |-> b]

AllBodies ==
  {ABody(b, 0) : b \in BoundedSeq(Heads, 3)}
  \cup {ABody(b, t) : b \in BoundedSeq({0, 6}, 2), t \in 1 .. 3}
  \cup {[version |-> 2, tkl |-> 4, body |-> <<>>]}

FewBodies ==
  {ABody(<<6, 9, 1, 8, 0, 4>>, 0),    \* two options and a payload
   ABody(<<5, 5, 0>>, 0),             \* two without values
   ABody(<<15, 20, 22, 15, 20, 22, 0>>, 0), \* two so far apart: the number wraps
   ABody(<<9, 16, 7, 0, 8>>, 1),      \* a token
   ABody(<<6, 9>>, 0),                \* no marker
   ABody(<<6, 9, 24>>, 0),            \* a reserved distance
   ABody(<<9, 9>>, 4),                \* a token too long
   [version |-> 2, tkl |-> 4, body |-> <<>>]}

SomePayloads == {<<>>, <<0>>}

(* The memory behind: one more option, or several of the same or of another. *)
Around ==
  [before : {0, 7}, behind : {<<0>>, <<7>>, <<30>>, <<24, 24>>, <<24, 1, 24>>, <<1, 1>>}]
=============================================================================
