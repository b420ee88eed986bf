---------------------------- MODULE PacketFormat ----------------------------
(* The octets of a datagram as packet::serialize writes them and             *)
(* packet::parse reads them (src/src/packet.cc). Widths are parameters: with *)
(* Plain = 13 and TOKEN_MAX_LENGTH = 8 they are the code's. A datagram is    *)
(* what follows its four header octets, with the two fields of the header    *)
(* that steer the parser.                                                    *)
EXTENDS Integers, SequencesExt

CONSTANTS
  Plain,             \* MINUS_THIRTEEN: a smaller nibble stands for itself
  TOKEN_MAX_LENGTH

ASSUME FormatAssumption ==
  /\ Plain \in Nat /\ Plain > 1
  /\ TOKEN_MAX_LENGTH \in 1 .. Plain + 2

Nibbles == Plain + 3            \* 16
Octet == Nibbles * Nibbles      \* 256
Word == Octet * Octet           \* 65536, for a uint16_t
TwoOctets == Octet + Plain      \* MINUS_TWO_HUNDRED_SIXTY_NINE_OPT_VALUE

(* message_s() initialises its payloadMarker to 0.                           *)
PAYLOAD_MARKER == 0
COAP_VERSION == 1

Octets == 0 .. Octet - 1
Option == [number : 0 .. Word - 1, value : Seq(Octets)]
Datagram == [version : 0 .. 3, tkl : 0 .. Nibbles - 1, body : Seq(Octets)]

-----------------------------------------------------------------------------
(* Writing. get_option_nibble gives 0 for what does not fit.                 *)
Nibble(value) ==
  CASE value \in 0 .. Plain - 1 -> value
    [] value \in Plain .. Octet - 1 + Plain -> Plain
    [] value \in Octet + Plain .. Word - 1 + TwoOctets -> Plain + 1
    [] OTHER -> 0

(* option_maker: how far it moves the offset, and what it writes. Its second *)
(* argument has one octet, which is too few for the longer extension.        *)
ExtensionLength(nibble) ==
  CASE nibble = Plain -> 1 [] nibble = Plain + 1 -> 2 [] OTHER -> 0

Extension(nibble, value) ==
  LET second == value % Octet
      excess == second - TwoOctets
  IN  CASE nibble = Plain -> <<(second - Plain) % Octet>>
        [] nibble = Plain + 1 -> <<(excess \div Octet) % Octet, excess % Octet>>
        [] OTHER -> <<>>

(* As if a difference were never taken.                                      *)
DeltaWhole(opts, k) == opts[k].number

(* optNumDelta, the number of the option before, has one octet.              *)
Delta(opts, k) ==
  opts[k].number - (IF k = 1 THEN 0 ELSE opts[k - 1].number % Octet)

OptionHead(opts, k) ==
  LET delta == Delta(opts, k)
      length == Len(opts[k].value)
  IN  <<Nibble(delta) * Nibbles + Nibble(length)>>
        \o Extension(Nibble(delta), delta) \o Extension(Nibble(length), length)

WrittenOption(opts, k) == OptionHead(opts, k) \o opts[k].value

WrittenOptions(opts) == FlattenSeq([k \in DOMAIN opts |-> WrittenOption(opts, k)])

(* serialize with a buffer: the octets behind the header.                    *)
WrittenBody(token, opts, payload) ==
  token \o WrittenOptions(opts)
    \o IF payload = <<>> THEN <<>> ELSE <<PAYLOAD_MARKER>> \o payload

(* As if the first pass forgot the extension of a length.                    *)
MeasuredOptionShort(opts, k) ==
  1 + ExtensionLength(Nibble(Delta(opts, k))) + Len(opts[k].value)

(* serialize with checkBufferSizeOnly: the length it tells, less the header. *)
MeasuredOption(opts, k) ==
  1 + ExtensionLength(Nibble(Delta(opts, k)))
    + ExtensionLength(Nibble(Len(opts[k].value))) + Len(opts[k].value)

MeasuredLength(token, opts, payload) ==
  LET upTo[k \in 0 .. Len(opts)] ==
        IF k = 0 THEN Len(token) ELSE upTo[k - 1] + MeasuredOption(opts, k)
  IN  upTo[Len(opts)] + IF payload = <<>> THEN 0 ELSE 1 + Len(payload)

(* The assertions on the way through a buffer of that length: something      *)
(* follows the token and each option's head; values and payload end inside.  *)
WritesInside(token, opts, payload, length) ==
  LET before(k) == Len(token) + Len(WrittenOptions(SubSeq(opts, 1, k - 1)))
  IN  /\ Len(token) < length
      /\ \A k \in DOMAIN opts :
           /\ before(k) + Len(OptionHead(opts, k)) < length
           /\ before(k) + Len(WrittenOption(opts, k)) <= length
      /\ Len(WrittenBody(token, opts, payload)) <= length

-----------------------------------------------------------------------------
(* Reading. One octet behind the datagram may be looked at.                  *)
OctetAt(d, past, p) == IF p <= Len(d.body) THEN d.body[p] ELSE past

(* option_parser, with p the last octet read so far. It compares the offset  *)
(* of the octet it is about to read with the length, one too late; the two   *)
(* octets of the longer extension are taken the wrong way round.             *)
Field(d, past, nibble, p) ==
  CASE nibble < Plain -> [ok |-> TRUE, value |-> nibble, last |-> p]
    [] nibble = Plain ->
         [ok |-> p <= Len(d.body),
          value |-> OctetAt(d, past, p + 1) + Plain, last |-> p + 1]
    [] nibble = Plain + 1 ->
         [ok |-> p + 1 <= Len(d.body),
          value |-> (OctetAt(d, past, p + 1) + OctetAt(d, past, p + 2) * Octet
                       + TwoOctets) % Word,
          last |-> p + 2]
    [] OTHER -> [ok |-> FALSE, value |-> nibble, last |-> p]

(* As if an option might end one octet behind the datagram.                  *)
OptionAtLong(d, past, p) ==
  LET octet == OctetAt(d, past, p)
      delta == Field(d, past, octet \div Nibbles, p)
      length == Field(d, past, octet % Nibbles, delta.last)
      first == length.last + 1
  IN  [ok |-> delta.ok /\ length.ok /\ first + length.value <= Len(d.body) + 2,
       delta |-> delta.value, first |-> first, next |-> first + length.value]

(* The option whose header octet is at p: whether it is well-formed, its     *)
(* number's distance from the one before, and where its value lies.          *)
OptionAt(d, past, p) ==
  LET octet == OctetAt(d, past, p)
      delta == Field(d, past, octet \div Nibbles, p)
      length == Field(d, past, octet % Nibbles, delta.last)
      first == length.last + 1
  IN  [ok |-> delta.ok /\ length.ok /\ first + length.value <= Len(d.body) + 1,
       delta |-> delta.value, first |-> first, next |-> first + length.value]

(* As if the number were kept in an int.                                     *)
NumberAfterWide(number, delta) == number + delta

(* The number of the next option, a uint16_t.                                *)
NumberAfter(number, delta) == (number + delta) % Word

(* What is read of the option at p, behind one with the number given.        *)
OptionRead(d, past, p, number) ==
  LET option == OptionAt(d, past, p)
  IN  [number |-> NumberAfter(number, option.delta),
       value |-> [i \in 1 .. option.next - option.first |->
                    OctetAt(d, past, option.first + i - 1)]]

(* parse_options behind a token of d.tkl octets, from place to place, with   *)
(* the number of the option before. The options before one that is not       *)
(* well-formed are kept.                                                     *)
Places == (Nat \ {0}) \X Nat

ReadOptions(d, past) ==
  LET read[at \in Places] ==
        LET p == at[1]
            option == OptionRead(d, past, p, at[2])
        IN  IF p > Len(d.body) \/ OctetAt(d, past, p) = PAYLOAD_MARKER
              THEN [ok |-> TRUE, options |-> <<>>, payloadOffset |-> p + 1]
            ELSE IF ~OptionAt(d, past, p).ok
              THEN [ok |-> FALSE, options |-> <<>>, payloadOffset |-> 0]
            ELSE [read[<<OptionAt(d, past, p).next, option.number>>] EXCEPT
                    !.options = <<option>> \o @]
  IN  read[<<d.tkl + 1, 0>>]

(* option_s() starts a value with one zero octet, which clear() removes      *)
(* before the second option.                                                 *)
LeadingZero(o) == [o EXCEPT !.value = <<0>> \o @]

ReadOptionList(d, past) ==
  LET opts == ReadOptions(d, past).options
  IN  IF opts = <<>> THEN <<>> ELSE <<LeadingZero(Head(opts))>> \o Tail(opts)

(* The three conditions parse() finds on its way, and what it asserts last.  *)
HeaderReadable(d) == d.version = COAP_VERSION
TokenReadable(d) == d.tkl <= TOKEN_MAX_LENGTH /\ d.tkl <= Len(d.body)
OptionsReadable(d, past) == ReadOptions(d, past).ok
PayloadReadable(d, past) == ReadOptions(d, past).payloadOffset <= Len(d.body) + 1

ReadPayload(d, past) ==
  SubSeq(d.body, ReadOptions(d, past).payloadOffset, Len(d.body))
=============================================================================
