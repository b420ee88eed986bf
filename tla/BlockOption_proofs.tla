------------------------- MODULE BlockOption_proofs -------------------------
(* What the codec of src/blockwise.cc guarantees for every block number, not *)
(* only for those a bounded transfer reaches, and the types of what it reads *)
(* and writes.                                                               *)
EXTENDS BlockOption, TLAPS

LEMMA DivMod ==
  ASSUME NEW n \in Nat
  PROVE  /\ n % Nib \in Digit
         /\ n \div Nib \in Nat
         /\ n = Nib * (n \div Nib) + (n % Nib)
BY NibAssumption DEF Digit

LEMMA DivBound ==
  ASSUME NEW n \in Nat, NEW b \in Nat, n < Nib * b
  PROVE  n \div Nib < b
<1>1. n >= Nib * (n \div Nib) /\ n \div Nib \in Nat
  BY DivMod, NibAssumption DEF Digit
<1>2. ASSUME n \div Nib >= b PROVE FALSE
  <2>1. Nib * (n \div Nib) >= Nib * b
    BY <1>1, <1>2, NibAssumption, Z3
  <2> QED
    BY <1>1, <2>1, NibAssumption
<1> QED
  BY <1>1, <1>2

(* Below Nib a number is its own lowest half.                                *)
LEMMA SmallMod ==
  ASSUME NEW n \in 0 .. Nib - 1
  PROVE  n % Nib = n
BY NibAssumption

(* What a reader makes of the digits of one and of two octets, with and      *)
(* without the two octets the constructors of option_t put in front.         *)
LEMMA Reading ==
  ASSUME NEW a \in Digit, NEW b \in Digit, NEW c \in Digit
  PROVE  /\ NumberOf(<<c>>) = c
         /\ NumberOf(<<a, b, c>>) = c + Nib * (b + Nib * a)
         /\ NumberOf(<<0, 0, 0, 0>> \o <<c>>) = c
         /\ NumberOf(<<0, 0, 0, 0>> \o <<a, b, c>>) = c + Nib * (b + Nib * a)
         /\ NumberOf(<<0, 0>> \o <<c>>) = c
         /\ NumberOf(<<0, 0>> \o <<a, b, c>>) = c + Nib * (b + Nib * a)
<1>1. NumberOf(<<c>>) = c
  BY NibAssumption DEF NumberOf, Digit
<1>2. NumberOf(<<a, b, c>>) = c + Nib * (b + Nib * a)
  BY NibAssumption DEF NumberOf, Digit
<1>3. NumberOf(<<0, 0, 0, 0>> \o <<c>>) = c
  <2> DEFINE d == <<0, 0, 0, 0>> \o <<c>>
  <2>1. Len(d) = 5
    OBVIOUS
  <2>2. d[1] = 0 /\ d[2] = 0 /\ d[3] = 0 /\ d[4] = 0 /\ d[5] = c
    OBVIOUS
  <2> HIDE DEF d
  <2>3. NumberOf(d) = c
    BY <2>1, <2>2, NibAssumption DEF NumberOf, Digit
  <2> QED
    BY <2>3 DEF d
<1>4. NumberOf(<<0, 0, 0, 0>> \o <<a, b, c>>) = c + Nib * (b + Nib * a)
  <2> DEFINE d == <<0, 0, 0, 0>> \o <<a, b, c>>
  <2>1. Len(d) = 7
    OBVIOUS
  <2>2. d[3] = 0 /\ d[4] = 0 /\ d[5] = a /\ d[6] = b /\ d[7] = c
    OBVIOUS
  <2> HIDE DEF d
  <2>3. NumberOf(d) = c + Nib * (b + Nib * a)
    BY <2>1, <2>2, NibAssumption DEF NumberOf, Digit
  <2> QED
    BY <2>3 DEF d
<1>5. NumberOf(<<0, 0>> \o <<c>>) = c
  <2> DEFINE d == <<0, 0>> \o <<c>>
  <2>1. Len(d) = 3 /\ d[1] = 0 /\ d[2] = 0 /\ d[3] = c
    OBVIOUS
  <2> HIDE DEF d
  <2>2. NumberOf(d) = c
    BY <2>1, NibAssumption DEF NumberOf, Digit
  <2> QED
    BY <2>2 DEF d
<1>6. NumberOf(<<0, 0>> \o <<a, b, c>>) = c + Nib * (b + Nib * a)
  <2> DEFINE d == <<0, 0>> \o <<a, b, c>>
  <2>1. Len(d) = 5
    OBVIOUS
  <2>2. d[1] = 0 /\ d[2] = 0 /\ d[3] = a /\ d[4] = b /\ d[5] = c
    OBVIOUS
  <2> HIDE DEF d
  <2>3. NumberOf(d) = c + Nib * (b + Nib * a)
    BY <2>1, <2>2, NibAssumption DEF NumberOf, Digit
  <2> QED
    BY <2>3 DEF d
<1> QED
  BY <1>1, <1>2, <1>3, <1>4, <1>5, <1>6

(* The halves of a number of at most three halves, in terms of its quotients.*)
LEMMA Halves ==
  ASSUME NEW n \in Nat, n < Nib * Nib * Nib
  PROVE  /\ Half(n, 0) \in Digit /\ Half(n, 1) \in Digit /\ Half(n, 2) \in Digit
         /\ n = Half(n, 0) + Nib * (Half(n, 1) + Nib * Half(n, 2))
<1> DEFINE q == n \div Nib
           r == q \div Nib
<1>1. q \in Nat /\ n % Nib \in Digit /\ n = Nib * q + (n % Nib)
  BY DivMod
<1> HIDE DEF q
<1>2. r \in Nat /\ q % Nib \in Digit /\ q = Nib * r + (q % Nib)
  BY <1>1, DivMod
<1>3. r < Nib
  <2>1. Nib * Nib \in Nat /\ n < Nib * (Nib * Nib)
    BY NibAssumption
  <2>2. q < Nib * Nib
    BY <2>1, DivBound DEF q
  <2> QED
    BY <1>1, <2>2, NibAssumption, DivBound
<1> HIDE DEF r
<1>4. r \in Digit /\ r % Nib = r
  BY <1>2, <1>3, NibAssumption, SmallMod DEF Digit
<1>5. Half(n, 0) = n % Nib /\ Half(n, 1) = q % Nib /\ Half(n, 2) = r
  BY <1>4 DEF Half, q, r
<1>6. n = (n % Nib) + Nib * ((q % Nib) + Nib * r)
  BY <1>1, <1>2, NibAssumption
<1> QED
  BY <1>1, <1>2, <1>4, <1>5, <1>6

(* An option with a value, when it is the first of its packet.               *)
LEMMA FirstOf ==
  ASSUME NEW n, NEW m, NEW s, PeerEncode(n, m, s).digits # <<>>
  PROVE  /\ ParsedFirst(PeerEncode(n, m, s)).digits = <<0, 0>> \o PeerEncode(n, m, s).digits
         /\ ParsedFirst(PeerEncode(n, m, s)).more = PeerEncode(n, m, s).more
         /\ ParsedFirst(PeerEncode(n, m, s)).szx = PeerEncode(n, m, s).szx
<1>1. PeerEncode(n, m, s) # EmptyOption
  BY DEF EmptyOption
<1> QED
  BY <1>1 DEF ParsedFirst, PeerEncode

(* Whatever number below Nib^3 (4096) set_header writes, a reader of the     *)
(* option takes the same number from it; and get_header takes from an answer *)
(* below that bound the number the server wrote.                             *)
THEOREM RoundTrip ==
  ASSUME NEW n \in Nat, n < Nib * Nib * Nib, NEW m, NEW s
  PROVE  /\ NumberOf(<<0, 0, 0, 0>> \o Digits(n)) = n
         /\ NumberOf(PeerEncode(n, m, s).digits) = n
         /\ NumberOf(ParsedFirst(PeerEncode(n, m, s)).digits) = n
         /\ Decodable(PeerEncode(n, m, s))
         /\ PeerEncode(n, m, s).digits \in Seq(Digit)
         /\ (<<0, 0, 0, 0>> \o Digits(n)) \in Seq(Digit)
<1> DEFINE a == Half(n, 2)
           b == Half(n, 1)
           c == Half(n, 0)
<1>1. /\ a \in Digit /\ b \in Digit /\ c \in Digit /\ 0 \in Digit
      /\ n = c + Nib * (b + Nib * a)
  BY Halves, NibAssumption DEF Digit
<1>2. CASE n < Nib
  <2>1. ~(n >= Nib)
    BY <1>2, NibAssumption
  <2>2. ~(n >= Nib * Nib * Nib)
    BY NibAssumption
  <2>3. Digits(n) = <<c>> /\ PeerEncode(n, m, s).digits = <<c>>
    BY <1>2, <2>1, <2>2 DEF Digits, PeerEncode
  <2>4. c = n
    BY <1>2, NibAssumption, SmallMod DEF Half
  <2> HIDE DEF c
  <2>5. <<c>> \in Seq(Digit) /\ <<0, 0, 0, 0>> \in Seq(Digit) /\ Len(<<c>>) = 1
    BY <1>1
  <2>6. <<0, 0, 0, 0>> \o <<c>> \in Seq(Digit)
    BY <2>5
  <2>7. /\ NumberOf(<<c>>) = n /\ NumberOf(<<0, 0, 0, 0>> \o <<c>>) = n
        /\ NumberOf(<<0, 0>> \o <<c>>) = n
    BY <1>1, <2>4, Reading
  <2>8. Octets(PeerEncode(n, m, s)) = 1
    <3>1. Len(PeerEncode(n, m, s).digits) = 1
      BY <2>3, <2>5
    <3> QED
      BY <3>1 DEF Octets
  <2>9. NumberOf(ParsedFirst(PeerEncode(n, m, s)).digits) = n
    <3>1. PeerEncode(n, m, s).digits # <<>>
      BY <2>3, <2>5
    <3>2. ParsedFirst(PeerEncode(n, m, s)).digits = <<0, 0>> \o <<c>>
      BY <3>1, <2>3, FirstOf
    <3> QED
      BY <3>2, <2>7
  <2> QED
    BY <2>3, <2>5, <2>6, <2>7, <2>8, <2>9 DEF Decodable
<1>3. CASE n >= Nib
  <2>1. ~(n < Nib) /\ ~(n >= Nib * Nib * Nib)
    BY <1>3, NibAssumption
  <2>2. Digits(n) = <<a, b, c>> /\ PeerEncode(n, m, s).digits = <<a, b, c>>
    BY <1>3, <2>1 DEF Digits, PeerEncode
  <2> HIDE DEF a, b, c
  <2>3. <<a, b, c>> \in Seq(Digit) /\ <<0, 0, 0, 0>> \in Seq(Digit) /\ Len(<<a, b, c>>) = 3
    BY <1>1
  <2>4. <<0, 0, 0, 0>> \o <<a, b, c>> \in Seq(Digit)
    BY <2>3
  <2>5. /\ NumberOf(<<a, b, c>>) = n /\ NumberOf(<<0, 0, 0, 0>> \o <<a, b, c>>) = n
        /\ NumberOf(<<0, 0>> \o <<a, b, c>>) = n
    BY <1>1, Reading
  <2>6. Octets(PeerEncode(n, m, s)) = 2
    <3>1. Len(PeerEncode(n, m, s).digits) = 3
      BY <2>2, <2>3
    <3> QED
      BY <3>1 DEF Octets
  <2>7. NumberOf(ParsedFirst(PeerEncode(n, m, s)).digits) = n
    <3>1. PeerEncode(n, m, s).digits # <<>>
      BY <2>2, <2>3
    <3>2. ParsedFirst(PeerEncode(n, m, s)).digits = <<0, 0>> \o <<a, b, c>>
      BY <3>1, <2>2, FirstOf
    <3> QED
      BY <3>2, <2>5
  <2> QED
    BY <2>2, <2>3, <2>4, <2>5, <2>6, <2>7 DEF Decodable
<1> QED
  BY <1>2, <1>3, NibAssumption

(* Every size of the table survives the exponent it is written as.           *)
LEMMA SizeTable ==
  ASSUME NEW s \in {16, 32, 64, 128, 256, 512, 1024, 2048}
  PROVE  /\ SizeToSizeoption(s) \in 0 .. 7
         /\ SizeOptions[SizeToSizeoption(s) + 1] = s
BY DEF SizeToSizeoption, SizeOptions

LEMMA SizesListed ==
  ASSUME NEW s \in BlockSizes
  PROVE  s \in {16, 32, 64, 128, 256, 512, 1024, 2048}
<1>1. PICK i \in 1 .. 8 : s = SizeOptions[i]
  BY DEF BlockSizes
<1>2. i \in {1, 2, 3, 4, 5, 6, 7, 8}
  BY <1>1
<1> QED
  BY <1>1, <1>2 DEF SizeOptions

-----------------------------------------------------------------------------
(* One more half on top of a number of halves.                               *)
LEMMA Horner ==
  ASSUME NEW K \in Nat \ {0}, NEW d \in Digit, NEW x \in 0 .. K - 1
  PROVE  d + Nib * x \in 0 .. Nib * K - 1
<1>1. d \in 0 .. Nib - 1 /\ Nib \in Nat /\ Nib >= 2
  BY NibAssumption DEF Digit
<1>2. Nib * x \in Nat /\ Nib * K \in Nat
  BY <1>1
<1>3. Nib * x <= Nib * (K - 1)
  BY <1>1
<1>4. Nib * (K - 1) = Nib * K - Nib
  BY <1>1
<1> QED
  BY <1>1, <1>2, <1>3, <1>4

(* What get_header can store in _number.                                     *)
LEMMA NumberRange ==
  ASSUME NEW ds \in Seq(Digit)
  PROVE  NumberOf(ds) \in 0 .. MaxNumber
<1> DEFINE at(i) == IF i < Len(ds) THEN ds[Len(ds) - i] ELSE 0
           x4 == at(4)
           x3 == at(3) + Nib * x4
           x2 == at(2) + Nib * x3
           x1 == at(1) + Nib * x2
<1>1. \A i \in 0 .. 4 : at(i) \in Digit
  BY NibAssumption DEF Digit
<1>2. at(0) \in Digit /\ at(1) \in Digit /\ at(2) \in Digit /\ at(3) \in Digit /\ at(4) \in Digit
  BY <1>1
<1>3. NumberOf(ds) = at(0) + Nib * x1
  BY DEF NumberOf
<1> HIDE DEF at
<1>4. x4 \in 0 .. Nib - 1
  BY <1>2 DEF Digit
<1> HIDE DEF x4
<1>5. Nib \in Nat \ {0} /\ Nib * Nib \in Nat \ {0} /\ Nib * (Nib * Nib) \in Nat \ {0}
      /\ Nib * (Nib * (Nib * Nib)) \in Nat \ {0}
  BY NibAssumption
<1>6. x3 \in 0 .. Nib * Nib - 1
  BY <1>2, <1>4, <1>5, Horner
<1> HIDE DEF x3
<1>7. x2 \in 0 .. Nib * (Nib * Nib) - 1
  BY <1>2, <1>5, <1>6, Horner
<1> HIDE DEF x2
<1>8. x1 \in 0 .. Nib * (Nib * (Nib * Nib)) - 1
  BY <1>2, <1>5, <1>7, Horner
<1> HIDE DEF x1
<1>9. at(0) + Nib * x1 \in 0 .. Nib * (Nib * (Nib * (Nib * Nib))) - 1
  BY <1>2, <1>5, <1>8, Horner
<1>10. Nib * (Nib * (Nib * (Nib * Nib))) - 1 = MaxNumber
  BY NibAssumption DEF MaxNumber
<1> QED
  BY <1>3, <1>9, <1>10

LEMMA HalfIsDigit ==
  ASSUME NEW n \in Nat
  PROVE  /\ Half(n, 0) \in Digit /\ Half(n, 1) \in Digit /\ Half(n, 2) \in Digit
         /\ Half(n, 3) \in Digit /\ Half(n, 4) \in Digit
<1>1. \A k \in Nat : k % Nib \in Digit /\ k \div Nib \in Nat
  BY NibAssumption DEF Digit
<1> QED
  BY <1>1 DEF Half

(* Every request carries a value of the option's type.                       *)
LEMMA EncodedOption ==
  ASSUME NEW n \in Nat, NEW m \in BOOLEAN, NEW s
  PROVE  AddOption(EncodeBlockOption(n, m, s)) \in OptionValue
<1>1. Digits(n) \in Seq(Digit)
  BY HalfIsDigit, NibAssumption DEF Digits
<1>2. <<0, 0, 0, 0>> \in Seq(Digit)
  BY NibAssumption DEF Digit
<1>3. <<0, 0, 0, 0>> \o Digits(n) \in Seq(Digit)
  BY <1>1, <1>2
<1>4. SizeToSizeoption(s) \in 0 .. 7
  BY DEF SizeToSizeoption
<1> QED
  BY <1>3, <1>4 DEF AddOption, EncodeBlockOption, OptionValue

(* An answer of the peer carries one, too, and the parser leaves one.        *)
LEMMA PeerOption ==
  ASSUME NEW n \in Nat, NEW m \in BOOLEAN, NEW s
  PROVE  PeerEncode(n, m, s) \in OptionValue
<1>1. PeerEncode(n, m, s).digits \in Seq(Digit)
  BY HalfIsDigit, NibAssumption DEF PeerEncode
<1>2. SizeToSizeoption(s) \in 0 .. 7
  BY DEF SizeToSizeoption
<1> QED
  BY <1>1, <1>2 DEF PeerEncode, OptionValue

LEMMA ParsedFirstType ==
  ASSUME NEW v \in OptionValue
  PROVE  ParsedFirst(v) \in OptionValue
<1>1. v.digits \in Seq(Digit) /\ 0 \in Digit
  BY NibAssumption DEF OptionValue, Digit
<1>2. <<0, 0>> \o v.digits \in Seq(Digit) /\ <<0>> \in Seq(Digit)
  BY <1>1
<1> QED
  BY <1>1, <1>2 DEF ParsedFirst, OptionValue

(* The type of what decode_block_option stores.                              *)
LEMMA DecodedType ==
  ASSUME NEW option \in OptionValue
  PROVE  /\ DecodeBlockOption(option).number \in 0 .. MaxNumber
         /\ DecodeBlockOption(option).more \in BOOLEAN
         /\ DecodeBlockOption(option).size \in BlockSizes
<1>1. /\ option.digits \in Seq(Digit) /\ option.more \in BOOLEAN
      /\ option.szx \in 0 .. 7
  BY DEF OptionValue
<1>2. NumberOf(option.digits) \in 0 .. MaxNumber
  BY <1>1, NumberRange
<1>3. option.szx + 1 \in 1 .. 8
  BY <1>1
<1>4. SizeOptions[option.szx + 1] \in BlockSizes
  BY <1>3 DEF BlockSizes
<1> QED
  BY <1>1, <1>2, <1>4 DEF DecodeBlockOption

LEMMA MaxNumberType == MaxNumber \in Nat
BY NibAssumption DEF MaxNumber
=============================================================================
