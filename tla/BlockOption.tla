---------------------------- MODULE BlockOption ----------------------------
(* The value of a BLOCK_1 or BLOCK_2 option, as src/blockwise.cc writes it   *)
(* into an option_t and reads it back.                                       *)
(*                                                                           *)
(* Octets are cut into halves, as the shifts by BLOCK_NUM_SHIFT cut them. A  *)
(* value of k octets is the sequence of its 2k - 1 high-order halves, the    *)
(* digits, and of its last half, which holds the more bit and the size       *)
(* exponent. A half has Nib values: 16 in the code, fewer in the runs that   *)
(* take a transfer past the limits, which are powers of Nib (16, 4096 and    *)
(* 1048576 in the code).                                                     *)
EXTENDS Integers, Sequences

CONSTANT Nib

ASSUME NibAssumption == Nib \in Nat /\ Nib >= 2

Digit == 0 .. Nib - 1

MaxNumber == Nib * Nib * Nib * Nib * Nib - 1

(* What decode_block_option can store in _size: pow(2, szx + 4).             *)
SizeOptions == <<16, 32, 64, 128, 256, 512, 1024, 2048>>

BlockSizes == {SizeOptions[i] : i \in 1 .. 8}

BLOCK_MAX_SIZE == 2048

(* A size that is not in the table is written as 64.                         *)
SizeToSizeoption(size) ==
  CASE size = 16 -> 0 [] size = 32 -> 1 [] size = 64 -> 2 [] size = 128 -> 3
    [] size = 256 -> 4 [] size = 512 -> 5 [] size = 1024 -> 6 [] size = 2048 -> 7
    [] OTHER -> 2

(* As if the shifts were not followed by a mask.                             *)
HalfUnmasked(number, i) ==
  CASE i = 0 -> number % Nib
    [] i = 1 -> number \div Nib
    [] i > 1 -> (number \div Nib) \div Nib

(* The i-th half of a block number, the lowest being the 0th.                *)
Half(number, i) ==
  CASE i = 0 -> number % Nib
    [] i = 1 -> (number \div Nib) % Nib
    [] i = 2 -> ((number \div Nib) \div Nib) % Nib
    [] i = 3 -> (((number \div Nib) \div Nib) \div Nib) % Nib
    [] i = 4 -> ((((number \div Nib) \div Nib) \div Nib) \div Nib) % Nib

(* As if the two-octet branch, too, started with the low octet.              *)
DigitsLowOctetFirst(number) ==
  IF number < Nib THEN <<Half(number, 0)>>
                  ELSE <<Half(number, 1), Half(number, 0), Half(number, 2)>>

(* The halves of the block number, in the order encode_block_option appends  *)
(* them. The three-octet branch starts with the LOW octet of the number.     *)
Digits(number) ==
  CASE number < Nib -> <<Half(number, 0)>>
    [] number >= Nib /\ number < Nib * Nib * Nib ->
         <<Half(number, 2), Half(number, 1), Half(number, 0)>>
    [] number >= Nib * Nib * Nib ->
         <<Half(number, 1), Half(number, 0),
           Half(number, 4), Half(number, 3), Half(number, 2)>>

(* encode_block_option refuses a size it cannot write and a number of more   *)
(* than five halves.                                                         *)
Encodable(number, size) ==
  size % 16 = 0 /\ size <= BLOCK_MAX_SIZE /\ number <= MaxNumber

EncodeBlockOption(number, more, size) ==
  [digits |-> Digits(number), more |-> more, szx |-> SizeToSizeoption(size)]

(* option_s() starts every value with one octet 0, and add_option copies the *)
(* value of the encoder's option_t into another one that starts so too: two  *)
(* zero octets, four zero halves, precede what encode_block_option appended. *)
AddOption(value) == [value EXCEPT !.digits = <<0, 0, 0, 0>> \o @]

OptionValue == [digits : Seq(Digit), more : BOOLEAN, szx : 0 .. 7]

Octets(value) == (Len(value.digits) + 1) \div 2

(* The value of an option of length 0.                                       *)
EmptyOption == [digits |-> <<>>, more |-> FALSE, szx |-> 0]

(* The option_t that parse_options fills is constructed with one octet 0,    *)
(* which clear() removes only after the first option of a packet.            *)
ParsedFirst(value) ==
  IF value = EmptyOption THEN [value EXCEPT !.digits = <<0>>]
                         ELSE [value EXCEPT !.digits = <<0, 0>> \o @]

(* The number a reader obtains from the digits, taken in network byte order, *)
(* when at most its five lowest halves can be other than zero.               *)
NumberOf(digits) ==
  LET at(i) == IF i < Len(digits) THEN digits[Len(digits) - i] ELSE 0
  IN  at(0) + Nib * (at(1) + Nib * (at(2) + Nib * (at(3) + Nib * at(4))))

(* decode_block_option knows values of one, two and three octets.            *)
Decodable(value) == Octets(value) \in 1 .. 3

(* As if the more bit were the highest bit of the size exponent.             *)
DecodeBlockOptionBitTwo(value) ==
  [number |-> NumberOf(value.digits),
   more   |-> value.szx >= 4,
   size   |-> SizeOptions[value.szx + 1]]

DecodeBlockOption(value) ==
  [number |-> NumberOf(value.digits),
   more   |-> value.more,
   size   |-> SizeOptions[value.szx + 1]]

-----------------------------------------------------------------------------
(* The other end of the wire, which is not this library: RFC 7959 encodes    *)
(* the number in network byte order with as few octets as it takes.          *)
PeerEncode(number, more, size) ==
  [digits |-> CASE number < Nib -> <<Half(number, 0)>>
                [] number >= Nib /\ number < Nib * Nib * Nib ->
                     <<Half(number, 2), Half(number, 1), Half(number, 0)>>
                [] number >= Nib * Nib * Nib ->
                     <<Half(number, 4), Half(number, 3), Half(number, 2),
                       Half(number, 1), Half(number, 0)>>,
   more   |-> more,
   szx    |-> SizeToSizeoption(size)]
=============================================================================
