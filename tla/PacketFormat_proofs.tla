------------------------- MODULE PacketFormat_proofs -------------------------
(* What the reading and the writing of a datagram guarantee for every width  *)
(* of a nibble and every datagram.                                           *)
EXTENDS PacketFormat, SequenceTheorems, WellFoundedInduction, TLAPS

(* Induction over numbers, as a fact about sets: a set of numbers that has 0 *)
(* and with each number the next one has all.                                *)
LEMMA LeastNumber ==
  ASSUME NEW T, T \subseteq Nat, T # {}
  PROVE  \E x \in T : \A y \in T : x <= y
<1> DEFINE less == OpToRel(<, Nat)
<1>1. IsWellFoundedOn(less, Nat)
  BY NatLessThanWellFounded
<1>2. PICK x \in T : \A y \in T : <<y, x>> \notin less
  <2> HIDE DEF less
  <2> QED
    BY <1>1, WFMin
<1>3. \A y \in T : ~(y < x)
  BY <1>2 DEF OpToRel
<1> HIDE DEF less
<1> QED
  BY <1>2, <1>3

LEMMA Induction ==
  ASSUME NEW S, S \subseteq Nat, 0 \in S, \A n \in S : n + 1 \in S
  PROVE  \A n \in Nat : n \in S
<1> SUFFICES ASSUME Nat \ S # {} PROVE FALSE
  OBVIOUS
<1>1. PICK x \in Nat \ S : \A y \in Nat \ S : x <= y
  BY LeastNumber
<1>2. x # 0 /\ x - 1 \in Nat
  BY <1>1
<1>3. x - 1 \in S
  BY <1>1, <1>2
<1> QED
  BY <1>1, <1>2, <1>3

-----------------------------------------------------------------------------
LEMMA Widths ==
  /\ Plain \in Nat /\ Nibbles \in Nat /\ Octet \in Nat /\ Word \in Nat /\ TwoOctets \in Nat
  /\ Plain > 1 /\ Nibbles = Plain + 3 /\ TwoOctets = Octet + Plain
  /\ Octet > Nibbles /\ Word > TwoOctets
<1>1. Plain \in Nat /\ Plain > 1 /\ Nibbles = Plain + 3
  BY FormatAssumption DEF Nibbles
<1>2. Octet \in Nat /\ Octet > Nibbles /\ Octet > 2 * Plain
  BY <1>1, Z3 DEF Octet
<1>3. Word \in Nat /\ Word >= 2 * Octet
  <2> HIDE DEF Octet
  <2> QED
    BY <1>1, <1>2, Z3 DEF Word
<1> QED
  BY <1>1, <1>2, <1>3 DEF TwoOctets

(* An octet read, inside or just behind the datagram, is one.                *)
LEMMA OctetType ==
  ASSUME NEW d \in Datagram, NEW past \in Octets, NEW p \in Nat, p > 0
  PROVE  OctetAt(d, past, p) \in Octets
<1>1. d.body \in Seq(Octets)
  BY DEF Datagram
<1> QED
  BY <1>1 DEF OctetAt

LEMMA HalvesOfOctet ==
  ASSUME NEW o \in Octets
  PROVE  o \div Nibbles \in 0 .. Nibbles - 1 /\ o % Nibbles \in 0 .. Nibbles - 1
<1>1. o \in Nat /\ o < Nibbles * Nibbles /\ Nibbles \in Nat /\ Nibbles > 0
  BY Widths DEF Octets, Octet
<1>2. o % Nibbles \in 0 .. Nibbles - 1
  BY <1>1
<1>3. o \div Nibbles \in Nat /\ o = Nibbles * (o \div Nibbles) + (o % Nibbles)
  BY <1>1
<1> DEFINE h == o \div Nibbles
<1>4. h \in Nat /\ Nibbles * h <= o
  BY <1>1, <1>2, <1>3
<1> HIDE DEF h
<1>5. ASSUME h >= Nibbles PROVE FALSE
  <2>1. Nibbles * h >= Nibbles * Nibbles
    BY <1>1, <1>4, <1>5, Z3
  <2> QED
    BY <1>1, <1>4, <2>1
<1>6. h \in 0 .. Nibbles - 1
  BY <1>1, <1>4, <1>5
<1> QED
  BY <1>2, <1>6 DEF h

(* A field, and the last octet looked at for it.                             *)
LEMMA FieldType ==
  ASSUME NEW d \in Datagram, NEW past \in Octets, NEW nibble \in 0 .. Nibbles - 1,
         NEW p \in Nat, p > 0
  PROVE  LET f == Field(d, past, nibble, p)
         IN  /\ f.ok \in BOOLEAN /\ f.value \in Nat
             /\ f.last \in Nat /\ f.last >= p
<1>1. OctetAt(d, past, p + 1) \in Nat /\ OctetAt(d, past, p + 2) \in Nat
  BY OctetType DEF Octets
<1>2. /\ Plain \in Nat /\ Octet \in Nat /\ Word \in Nat /\ Word > 0 /\ TwoOctets \in Nat
      /\ Nibbles = Plain + 3
  BY Widths
<1>3. CASE nibble < Plain
  <2>1. Field(d, past, nibble, p) = [ok |-> TRUE, value |-> nibble, last |-> p]
    BY <1>2, <1>3 DEF Field
  <2> QED
    BY <2>1
<1>4. CASE nibble = Plain
  <2>1. Field(d, past, nibble, p) =
          [ok |-> p <= Len(d.body), value |-> OctetAt(d, past, p + 1) + Plain,
           last |-> p + 1]
    BY <1>2, <1>4 DEF Field
  <2> QED
    BY <1>1, <1>2, <2>1
<1>5. CASE nibble = Plain + 1
  <2> DEFINE v == OctetAt(d, past, p + 1) + OctetAt(d, past, p + 2) * Octet + TwoOctets
  <2>1. Field(d, past, nibble, p) =
          [ok |-> p + 1 <= Len(d.body), value |-> v % Word, last |-> p + 2]
    BY <1>2, <1>5 DEF Field
  <2>2. v \in Nat
    BY <1>1, <1>2, Z3
  <2> HIDE DEF v
  <2>3. v % Word \in Nat
    BY <1>2, <2>2
  <2> QED
    BY <2>1, <2>3
<1>6. CASE nibble = Plain + 2
  <2>1. Field(d, past, nibble, p) = [ok |-> FALSE, value |-> nibble, last |-> p]
    BY <1>2, <1>6 DEF Field
  <2> QED
    BY <2>1
<1> QED
  BY <1>2, <1>3, <1>4, <1>5, <1>6

LEMMA OptionAtType ==
  ASSUME NEW d \in Datagram, NEW past \in Octets, NEW p \in Nat, p > 0
  PROVE  LET o == OptionAt(d, past, p)
         IN  /\ o.ok \in BOOLEAN /\ o.delta \in Nat
             /\ o.first \in Nat /\ o.first > p
             /\ o.next \in Nat /\ o.next >= o.first
             /\ o.ok => o.next <= Len(d.body) + 1
<1> DEFINE octet == OctetAt(d, past, p)
           delta == Field(d, past, octet \div Nibbles, p)
           length == Field(d, past, octet % Nibbles, delta.last)
<1>1. octet \div Nibbles \in 0 .. Nibbles - 1 /\ octet % Nibbles \in 0 .. Nibbles - 1
  BY OctetType, HalvesOfOctet
<1> HIDE DEF octet
<1>2. /\ delta.ok \in BOOLEAN /\ delta.value \in Nat
      /\ delta.last \in Nat /\ delta.last >= p
  BY <1>1, FieldType
<1> HIDE DEF delta
<1>3. /\ length.ok \in BOOLEAN /\ length.value \in Nat
      /\ length.last \in Nat /\ length.last >= delta.last
  BY <1>1, <1>2, FieldType
<1> HIDE DEF length
<1> DEFINE fits == delta.ok /\ length.ok /\ length.last + 1 + length.value <= Len(d.body) + 1
<1>4. OptionAt(d, past, p) =
        [ok |-> fits,
         delta |-> delta.value, first |-> length.last + 1,
         next |-> length.last + 1 + length.value]
  BY DEF OptionAt, octet, delta, length
<1> DEFINE o == OptionAt(d, past, p)
<1>5. (o.ok <=> fits) /\ o.ok \in BOOLEAN
  <2>1. fits \in BOOLEAN
    OBVIOUS
  <2> HIDE DEF fits
  <2>2. o.ok = fits
    BY <1>4
  <2> QED
    BY <2>1, <2>2, Zenon
<1>6. /\ o.delta = delta.value /\ o.first = length.last + 1
      /\ o.next = length.last + 1 + length.value
  BY <1>4
<1> HIDE DEF o
<1> QED
  BY <1>2, <1>3, <1>5, <1>6 DEF o

LEMMA OptionReadType ==
  ASSUME NEW d \in Datagram, NEW past \in Octets, NEW p \in Nat, p > 0, NEW n \in Nat
  PROVE  OptionRead(d, past, p, n) \in Option
<1> DEFINE o == OptionAt(d, past, p)
           value == [i \in 1 .. o.next - o.first |-> OctetAt(d, past, o.first + i - 1)]
<1>1. o.delta \in Nat /\ o.first \in Nat /\ o.first > p /\ o.next \in Nat /\ o.next >= o.first
  BY OptionAtType
<1> HIDE DEF o
<1>2. NumberAfter(n, o.delta) \in 0 .. Word - 1
  BY <1>1, Widths DEF NumberAfter
<1>3. value \in Seq(Octets)
  <2>1. \A i \in 1 .. o.next - o.first : OctetAt(d, past, o.first + i - 1) \in Octets
    BY <1>1, OctetType
  <2>2. o.next - o.first \in Nat
    BY <1>1
  <2> QED
    BY <2>1, <2>2
<1>4. OptionRead(d, past, p, n) = [number |-> NumberAfter(n, o.delta), value |-> value]
  BY DEF OptionRead, o
<1> HIDE DEF value
<1> QED
  BY <1>2, <1>3, <1>4 DEF Option

-----------------------------------------------------------------------------
(* The reader of ReadOptions, as a function that is given itself.            *)
Ends(d, past, p) == p > Len(d.body) \/ OctetAt(d, past, p) = PAYLOAD_MARKER
Onward(d, past, at) ==
  <<OptionAt(d, past, at[1]).next, OptionRead(d, past, at[1], at[2]).number>>

ReadStep(d, past, read, at) ==
  IF Ends(d, past, at[1])
    THEN [ok |-> TRUE, options |-> <<>>, payloadOffset |-> at[1] + 1]
  ELSE IF ~OptionAt(d, past, at[1]).ok
    THEN [ok |-> FALSE, options |-> <<>>, payloadOffset |-> 0]
  ELSE [read[Onward(d, past, at)] EXCEPT
          !.options = <<OptionRead(d, past, at[1], at[2])>> \o @]

Reader(d, past) == CHOOSE f : f = [at \in Places |-> ReadStep(d, past, f, at)]

LEMMA ReadOptionsReader ==
  ASSUME NEW d, NEW past
  PROVE  ReadOptions(d, past) = Reader(d, past)[<<d.tkl + 1, 0>>]
BY DEF ReadOptions, Reader, ReadStep, Ends, Onward

LEMMA OnwardType ==
  ASSUME NEW d \in Datagram, NEW past \in Octets, NEW at \in Places
  PROVE  Onward(d, past, at) \in Places /\ Onward(d, past, at)[1] > at[1]
<1>1. at[1] \in Nat /\ at[1] > 0 /\ at[2] \in Nat
  BY DEF Places
<1>2. OptionAt(d, past, at[1]).next \in Nat /\ OptionAt(d, past, at[1]).next > at[1]
  BY <1>1, OptionAtType
<1>3. OptionRead(d, past, at[1], at[2]).number \in Nat
  <2>1. OptionRead(d, past, at[1], at[2]) \in Option
    BY <1>1, OptionReadType
  <2> QED
    BY <2>1, Widths DEF Option
<1> QED
  BY <1>1, <1>2, <1>3 DEF Onward, Places

LEMMA StepIsLocal ==
  ASSUME NEW d, NEW past, NEW f, NEW g, NEW at,
         ~Ends(d, past, at[1]) => f[Onward(d, past, at)] = g[Onward(d, past, at)]
  PROVE  ReadStep(d, past, f, at) = ReadStep(d, past, g, at)
BY DEF ReadStep

(* Every place is reached from behind the end of the datagram.               *)
Behind(d, k) == {at \in Places : at[1] + k > Len(d.body)}

LEMMA BehindAll ==
  ASSUME NEW d \in Datagram
  PROVE  Len(d.body) \in Nat /\ Behind(d, Len(d.body)) = Places
<1>1. Len(d.body) \in Nat
  BY DEF Datagram
<1> QED
  BY <1>1 DEF Behind, Places

LEMMA PlaceInduction ==
  ASSUME NEW d \in Datagram, NEW past \in Octets, NEW X,
         \A at \in Places : at[1] > Len(d.body) \/ Onward(d, past, at) \in X => at \in X
  PROVE  \A at \in Places : at \in X
<1> DEFINE S == {k \in Nat : Behind(d, k) \subseteq X}
<1>1. 0 \in S
  BY BehindAll DEF Behind, Places
<1>2. ASSUME NEW k \in S PROVE k + 1 \in S
  <2> SUFFICES ASSUME NEW at \in Behind(d, k + 1) PROVE at \in X
    BY <1>2
  <2>1. at \in Places /\ Onward(d, past, at) \in Places /\ Onward(d, past, at)[1] > at[1]
    BY OnwardType DEF Behind
  <2>2. Onward(d, past, at) \in Behind(d, k)
    BY <1>2, <2>1, BehindAll DEF Behind, Places
  <2> QED
    BY <1>2, <2>1, <2>2
<1> HIDE DEF S
<1>3. \A k \in Nat : k \in S
  <2>1. S \subseteq Nat
    BY DEF S
  <2> QED
    BY <1>1, <1>2, <2>1, Induction
<1> QED
  BY <1>3, BehindAll DEF S

(* The recursion of ReadOptions has a solution, because every option leads   *)
(* onward: the loop of parse_options ends for every datagram.                *)
LEMMA ReaderUnfolds ==
  ASSUME NEW d \in Datagram, NEW past \in Octets
  PROVE  Reader(d, past) = [at \in Places |-> ReadStep(d, past, Reader(d, past), at)]
<1> DEFINE Solves(f, k) == f = [at \in Behind(d, k) |-> ReadStep(d, past, f, at)]
           S == {k \in Nat : \E f : Solves(f, k)}
<1>1. 0 \in S
  <2> DEFINE f == [at \in Behind(d, 0) |-> ReadStep(d, past, <<>>, at)]
  <2>1. ASSUME NEW at \in Behind(d, 0)
        PROVE  ReadStep(d, past, <<>>, at) = ReadStep(d, past, f, at)
    <3>1. at[1] > Len(d.body)
      BY BehindAll DEF Behind, Places
    <3> QED
      BY <3>1, StepIsLocal DEF Ends
  <2>2. Solves(f, 0)
    BY <2>1
  <2> QED
    BY <2>2
<1>2. ASSUME NEW k \in S PROVE k + 1 \in S
  <2>1. PICK f : Solves(f, k)
    BY <1>2
  <2> DEFINE g == [at \in Behind(d, k + 1) |-> ReadStep(d, past, f, at)]
  <2>2. ASSUME NEW at \in Behind(d, k + 1)
        PROVE  ReadStep(d, past, f, at) = ReadStep(d, past, g, at)
    <3> DEFINE on == Onward(d, past, at)
    <3>1. at \in Places /\ on \in Places /\ on[1] > at[1]
      BY OnwardType DEF Behind
    <3>2. on \in Behind(d, k) /\ on \in Behind(d, k + 1)
      BY <1>2, <3>1, BehindAll DEF Behind, Places
    <3> HIDE DEF on
    <3>3. f[on] = ReadStep(d, past, f, on)
      BY <2>1, <3>2
    <3>4. g[on] = ReadStep(d, past, f, on)
      BY <3>2
    <3> QED
      BY <3>3, <3>4, StepIsLocal DEF on
  <2>3. Solves(g, k + 1)
    BY <2>2
  <2> HIDE DEF g, Solves
  <2>4. k + 1 \in Nat /\ \E h : Solves(h, k + 1)
    BY <1>2, <2>3
  <2> QED
    BY <2>4
<1> HIDE DEF S
<1>3. \A k \in Nat : k \in S
  <2>1. S \subseteq Nat
    BY DEF S
  <2> QED
    BY <1>1, <1>2, <2>1, Induction
<1>4. \E f : Solves(f, Len(d.body))
  BY <1>3, BehindAll DEF S
<1>5. \E f : f = [at \in Places |-> ReadStep(d, past, f, at)]
  BY <1>4, BehindAll
<1> QED
  BY <1>5 DEF Reader

-----------------------------------------------------------------------------
Reading ==
  {r \in [ok : BOOLEAN, options : Seq(Option), payloadOffset : Nat] :
     r.ok => r.payloadOffset > 0}

LEMMA ReaderType ==
  ASSUME NEW d \in Datagram, NEW past \in Octets
  PROVE  \A at \in Places : Reader(d, past)[at] \in Reading
<1> DEFINE X == {at \in Places : Reader(d, past)[at] \in Reading}
<1>1. ASSUME NEW at \in Places, at[1] > Len(d.body) \/ Onward(d, past, at) \in X
      PROVE  Reader(d, past)[at] \in Reading
  <2>1. Reader(d, past)[at] = ReadStep(d, past, Reader(d, past), at)
    BY ReaderUnfolds
  <2>2. at[1] \in Nat /\ at[1] > 0 /\ at[2] \in Nat
    BY DEF Places
  <2>3. CASE Ends(d, past, at[1])
    BY <2>1, <2>2, <2>3 DEF ReadStep, Reading
  <2>4. CASE ~Ends(d, past, at[1]) /\ ~OptionAt(d, past, at[1]).ok
    BY <2>1, <2>4 DEF ReadStep, Reading
  <2>5. CASE ~Ends(d, past, at[1]) /\ OptionAt(d, past, at[1]).ok
    <3> DEFINE r == Reader(d, past)[Onward(d, past, at)]
               o == OptionRead(d, past, at[1], at[2])
    <3>1. r \in Reading
      BY <1>1, <2>5 DEF Ends
    <3>2. o \in Option
      BY <2>2, OptionReadType
    <3>3. Reader(d, past)[at] = [r EXCEPT !.options = <<o>> \o @]
      BY <2>1, <2>5 DEF ReadStep
    <3> HIDE DEF r, o
    <3>4. <<o>> \o r.options \in Seq(Option)
      <4>1. <<o>> \in Seq(Option) /\ r.options \in Seq(Option)
        BY <3>1, <3>2 DEF Reading
      <4> QED
        BY <4>1
    <3> QED
      BY <3>1, <3>3, <3>4 DEF Reading
  <2> QED
    BY <2>3, <2>4, <2>5
<1> HIDE DEF X
<1>2. \A at \in Places : at \in X
  <2>1. \A at \in Places :
          at[1] > Len(d.body) \/ Onward(d, past, at) \in X => at \in X
    BY <1>1 DEF X
  <2> QED
    BY <2>1, PlaceInduction
<1> QED
  BY <1>2 DEF X

LEMMA StartIsPlace ==
  ASSUME NEW d \in Datagram
  PROVE  <<d.tkl + 1, 0>> \in Places
BY Widths DEF Datagram, Places

(* Whatever arrives, options are read of their type, or the datagram is      *)
(* refused.                                                                  *)
LEMMA ReadOptionsType ==
  ASSUME NEW d \in Datagram, NEW past \in Octets
  PROVE  ReadOptions(d, past) \in Reading
BY ReaderType, StartIsPlace, ReadOptionsReader

LEMMA ReadOptionListType ==
  ASSUME NEW d \in Datagram, NEW past \in Octets
  PROVE  ReadOptionList(d, past) \in Seq(Option)
<1> DEFINE opts == ReadOptions(d, past).options
<1>1. opts \in Seq(Option)
  BY ReadOptionsType DEF Reading
<1>2. ReadOptionList(d, past) =
        IF opts = <<>> THEN <<>> ELSE <<LeadingZero(Head(opts))>> \o Tail(opts)
  BY DEF ReadOptionList
<1> HIDE DEF opts
<1>3. CASE opts = <<>>
  BY <1>2, <1>3
<1>4. CASE opts # <<>>
  <2>1. Head(opts) \in Option /\ Tail(opts) \in Seq(Option)
    BY <1>1, <1>4
  <2>2. <<0>> \o Head(opts).value \in Seq(Octets)
    <3>1. <<0>> \in Seq(Octets) /\ Head(opts).value \in Seq(Octets)
      BY <2>1, Widths DEF Octets, Option
    <3> QED
      BY <3>1
  <2>3. LeadingZero(Head(opts)) \in Option
    BY <2>1, <2>2 DEF LeadingZero, Option
  <2> QED
    BY <1>2, <1>4, <2>1, <2>3
<1> QED
  BY <1>3, <1>4

LEMMA ReadPayloadType ==
  ASSUME NEW d \in Datagram, NEW past \in Octets, OptionsReadable(d, past)
  PROVE  ReadPayload(d, past) \in Seq(Octets)
<1> DEFINE from == ReadOptions(d, past).payloadOffset
<1>1. from \in Nat /\ from > 0
  BY ReadOptionsType DEF OptionsReadable, Reading
<1>2. d.body \in Seq(Octets)
  BY DEF Datagram
<1>3. ReadPayload(d, past) = SubSeq(d.body, from, Len(d.body))
  BY DEF ReadPayload
<1> HIDE DEF from
<1>4. \A i \in from .. Len(d.body) : d.body[i] \in Octets
  BY <1>1, <1>2
<1> QED
  BY <1>1, <1>2, <1>3, <1>4, SubSeqProperties

-----------------------------------------------------------------------------
(* The octet behind a datagram. A field that looks at it ends behind the     *)
(* datagram, and then so does the option.                                    *)
LEMMA FieldPast ==
  ASSUME NEW d \in Datagram, NEW past1 \in Octets, NEW past2 \in Octets,
         NEW nibble \in 0 .. Nibbles - 1, NEW p \in Nat, p > 0
  PROVE  LET f1 == Field(d, past1, nibble, p)
             f2 == Field(d, past2, nibble, p)
         IN  /\ f1.ok = f2.ok /\ f1.last = f2.last
             /\ f1.last <= Len(d.body) => f1.value = f2.value
<1>1. Plain \in Nat /\ Nibbles = Plain + 3 /\ Len(d.body) \in Nat
  BY Widths, BehindAll
<1>2. CASE nibble < Plain
  BY <1>1, <1>2 DEF Field
<1>3. CASE nibble = Plain
  <2>1. \A past : Field(d, past, nibble, p) =
          [ok |-> p <= Len(d.body), value |-> OctetAt(d, past, p + 1) + Plain,
           last |-> p + 1]
    BY <1>1, <1>3 DEF Field
  <2>2. p + 1 <= Len(d.body) => OctetAt(d, past1, p + 1) = OctetAt(d, past2, p + 1)
    BY DEF OctetAt
  <2> QED
    BY <2>1, <2>2
<1>4. CASE nibble = Plain + 1
  <2>1. \A past : Field(d, past, nibble, p) =
          [ok |-> p + 1 <= Len(d.body),
           value |-> (OctetAt(d, past, p + 1) + OctetAt(d, past, p + 2) * Octet
                        + TwoOctets) % Word,
           last |-> p + 2]
    BY <1>1, <1>4 DEF Field
  <2>2. p + 2 <= Len(d.body) =>
          /\ OctetAt(d, past1, p + 1) = OctetAt(d, past2, p + 1)
          /\ OctetAt(d, past1, p + 2) = OctetAt(d, past2, p + 2)
    BY <1>1 DEF OctetAt
  <2> QED
    BY <2>1, <2>2
<1>5. CASE nibble = Plain + 2
  BY <1>1, <1>5 DEF Field
<1> QED
  BY <1>1, <1>2, <1>3, <1>4, <1>5

LEMMA OptionPast ==
  ASSUME NEW d \in Datagram, NEW past1 \in Octets, NEW past2 \in Octets,
         NEW p \in Nat, p > 0, p <= Len(d.body), OptionAt(d, past1, p).ok
  PROVE  OptionAt(d, past1, p) = OptionAt(d, past2, p)
<1> DEFINE o1 == OctetAt(d, past1, p)
           delta1 == Field(d, past1, o1 \div Nibbles, p)
           delta2 == Field(d, past2, o1 \div Nibbles, p)
           length1 == Field(d, past1, o1 % Nibbles, delta1.last)
           length2 == Field(d, past2, o1 % Nibbles, delta1.last)
<1>1. OctetAt(d, past2, p) = o1
  BY DEF OctetAt
<1>2. o1 \div Nibbles \in 0 .. Nibbles - 1 /\ o1 % Nibbles \in 0 .. Nibbles - 1
  BY OctetType, HalvesOfOctet
<1> HIDE DEF o1
<1>3. /\ delta1.ok = delta2.ok /\ delta1.last = delta2.last
      /\ delta1.last <= Len(d.body) => delta1.value = delta2.value
      /\ delta1.last \in Nat /\ delta1.last >= p
  BY <1>2, FieldPast, FieldType
<1> HIDE DEF delta1, delta2
<1>4. /\ length1.ok = length2.ok /\ length1.last = length2.last
      /\ length1.last <= Len(d.body) => length1.value = length2.value
      /\ length1.last \in Nat /\ length1.last >= delta1.last /\ length1.value \in Nat
  BY <1>2, <1>3, FieldPast, FieldType
<1> HIDE DEF length1, length2
<1>5. OptionAt(d, past1, p) =
        [ok |-> delta1.ok /\ length1.ok
                  /\ length1.last + 1 + length1.value <= Len(d.body) + 1,
         delta |-> delta1.value, first |-> length1.last + 1,
         next |-> length1.last + 1 + length1.value]
  BY DEF OptionAt, o1, delta1, length1
<1>6. OptionAt(d, past2, p) =
        [ok |-> delta2.ok /\ length2.ok
                  /\ length2.last + 1 + length2.value <= Len(d.body) + 1,
         delta |-> delta2.value, first |-> length2.last + 1,
         next |-> length2.last + 1 + length2.value]
  BY <1>1, <1>3 DEF OptionAt, delta2, length2
<1>7. length1.last + 1 + length1.value <= Len(d.body) + 1
  <2>1. OptionAt(d, past1, p).next <= Len(d.body) + 1
    BY OptionAtType
  <2> QED
    BY <1>5, <2>1
<1>8. length1.last <= Len(d.body) /\ delta1.last <= Len(d.body)
  BY <1>3, <1>4, <1>7, BehindAll
<1> QED
  BY <1>3, <1>4, <1>5, <1>6, <1>8

LEMMA OptionReadPast ==
  ASSUME NEW d \in Datagram, NEW past1 \in Octets, NEW past2 \in Octets,
         NEW p \in Nat, p > 0, p <= Len(d.body), OptionAt(d, past1, p).ok, NEW n
  PROVE  OptionRead(d, past1, p, n) = OptionRead(d, past2, p, n)
<1> DEFINE o == OptionAt(d, past1, p)
<1>1. OptionAt(d, past2, p) = o
  BY OptionPast
<1>2. o.first \in Nat /\ o.next \in Nat /\ o.next <= Len(d.body) + 1 /\ Len(d.body) \in Nat
  BY OptionAtType, BehindAll
<1> HIDE DEF o
<1>3. \A i \in 1 .. o.next - o.first :
        OctetAt(d, past1, o.first + i - 1) = OctetAt(d, past2, o.first + i - 1)
  BY <1>2 DEF OctetAt
<1>4. [i \in 1 .. o.next - o.first |-> OctetAt(d, past1, o.first + i - 1)]
      = [i \in 1 .. o.next - o.first |-> OctetAt(d, past2, o.first + i - 1)]
  BY <1>3
<1> QED
  BY <1>1, <1>4 DEF OptionRead, o

(* The parser reads the same options, whatever lies behind the datagram.     *)
LEMMA ReadOptionsPast ==
  ASSUME NEW d \in Datagram, NEW past1 \in Octets, NEW past2 \in Octets
  PROVE  ReadOptions(d, past1) = ReadOptions(d, past2)
<1> DEFINE X == {at \in Places : Reader(d, past1)[at] = Reader(d, past2)[at]}
<1>1. ASSUME NEW at \in Places, at[1] > Len(d.body) \/ Onward(d, past1, at) \in X
      PROVE  Reader(d, past1)[at] = Reader(d, past2)[at]
  <2>1. /\ Reader(d, past1)[at] = ReadStep(d, past1, Reader(d, past1), at)
        /\ Reader(d, past2)[at] = ReadStep(d, past2, Reader(d, past2), at)
    BY ReaderUnfolds
  <2>2. at[1] \in Nat /\ at[1] > 0 /\ Len(d.body) \in Nat
    BY BehindAll DEF Places
  <2>3. Ends(d, past1, at[1]) <=> Ends(d, past2, at[1])
    BY <2>2 DEF Ends, OctetAt
  <2>4. CASE Ends(d, past1, at[1])
    BY <2>1, <2>3, <2>4 DEF ReadStep
  <2>5. CASE ~Ends(d, past1, at[1])
    <3>1. at[1] <= Len(d.body)
      BY <2>2, <2>5 DEF Ends
    <3>2. CASE OptionAt(d, past1, at[1]).ok
      <4>1. /\ OptionAt(d, past1, at[1]) = OptionAt(d, past2, at[1])
            /\ OptionRead(d, past1, at[1], at[2]) = OptionRead(d, past2, at[1], at[2])
        BY <2>2, <3>1, <3>2, OptionPast, OptionReadPast
      <4>2. Onward(d, past1, at) = Onward(d, past2, at)
        BY <4>1 DEF Onward
      <4>3. Reader(d, past1)[Onward(d, past1, at)] = Reader(d, past2)[Onward(d, past1, at)]
        BY <1>1, <2>2, <3>1
      <4> QED
        BY <2>1, <2>3, <2>5, <4>1, <4>2, <4>3 DEF ReadStep
    <3>3. CASE ~OptionAt(d, past1, at[1]).ok
      <4>1. ~OptionAt(d, past2, at[1]).ok
        BY <2>2, <3>1, <3>3, OptionPast
      <4> QED
        BY <2>1, <2>3, <2>5, <3>3, <4>1 DEF ReadStep
    <3> QED
      BY <3>2, <3>3
  <2> QED
    BY <2>4, <2>5
<1> HIDE DEF X
<1>2. \A at \in Places : at \in X
  <2>1. \A at \in Places :
          at[1] > Len(d.body) \/ Onward(d, past1, at) \in X => at \in X
    BY <1>1 DEF X
  <2> QED
    BY <2>1, PlaceInduction
<1> QED
  BY <1>2, StartIsPlace, ReadOptionsReader DEF X

-----------------------------------------------------------------------------
(* What is written are octets, and the first pass measures each option right.*)
LEMMA NibbleType ==
  ASSUME NEW v \in Int
  PROVE  Nibble(v) \in 0 .. Plain + 1
<1>1. Plain \in Nat /\ Octet \in Nat /\ Word \in Nat /\ TwoOctets = Octet + Plain
  BY Widths
<1>2. \/ v \in 0 .. Plain - 1
      \/ v \in Plain .. Octet - 1 + Plain
      \/ v \in Octet + Plain .. Word - 1 + TwoOctets
      \/ /\ v \notin 0 .. Plain - 1
         /\ v \notin Plain .. Octet - 1 + Plain
         /\ v \notin Octet + Plain .. Word - 1 + TwoOctets
  OBVIOUS
<1> QED
  BY <1>1, <1>2 DEF Nibble

LEMMA ExtensionType ==
  ASSUME NEW nibble \in 0 .. Plain + 1, NEW v \in Int
  PROVE  /\ Extension(nibble, v) \in Seq(Octets)
         /\ Len(Extension(nibble, v)) = ExtensionLength(nibble)
         /\ ExtensionLength(nibble) \in 0 .. 2
<1>1. Plain \in Nat /\ Octet \in Nat /\ Octet > 0 /\ TwoOctets \in Nat
  BY Widths
<1> DEFINE second == v % Octet
           excess == second - TwoOctets
<1>2. second \in Int /\ excess \in Int
  BY <1>1
<1> HIDE DEF second, excess
<1>3. \A x \in Int : x % Octet \in Octets
  BY <1>1 DEF Octets
<1>4. /\ (second - Plain) % Octet \in Octets
      /\ (excess \div Octet) % Octet \in Octets /\ excess % Octet \in Octets
  <2>1. second - Plain \in Int /\ excess \div Octet \in Int
    BY <1>1, <1>2
  <2> QED
    BY <1>2, <1>3, <2>1
<1>5. CASE nibble = Plain
  <2>1. Extension(nibble, v) = <<(second - Plain) % Octet>>
    BY <1>1, <1>5 DEF Extension, second
  <2>2. ExtensionLength(nibble) = 1
    BY <1>1, <1>5 DEF ExtensionLength
  <2> QED
    BY <1>4, <2>1, <2>2
<1>6. CASE nibble = Plain + 1
  <2>1. Extension(nibble, v) = <<(excess \div Octet) % Octet, excess % Octet>>
    BY <1>1, <1>6 DEF Extension, second, excess
  <2>2. ExtensionLength(nibble) = 2
    BY <1>1, <1>6 DEF ExtensionLength
  <2> QED
    BY <1>4, <2>1, <2>2
<1>7. CASE nibble # Plain /\ nibble # Plain + 1
  <2>1. Extension(nibble, v) = <<>> /\ ExtensionLength(nibble) = 0
    BY <1>7 DEF Extension, ExtensionLength
  <2> QED
    BY <2>1
<1> QED
  BY <1>5, <1>6, <1>7

LEMMA OptionFields ==
  ASSUME NEW o \in Option
  PROVE  o.number \in Nat /\ o.number < Word /\ o.value \in Seq(Octets)
BY Widths DEF Option

LEMMA DeltaType ==
  ASSUME NEW opts \in Seq(Option), NEW k \in 1 .. Len(opts)
  PROVE  Delta(opts, k) \in Int
<1>1. opts[k].number \in Int
  <2>1. opts[k] \in Option
    OBVIOUS
  <2> QED
    BY <2>1, OptionFields
<1>2. k # 1 => opts[k - 1].number % Octet \in Int
  <2>1. k # 1 => opts[k - 1] \in Option
    OBVIOUS
  <2>2. k # 1 => opts[k - 1].number \in Nat
    BY <2>1, OptionFields
  <2> QED
    BY <2>2, Widths
<1> QED
  BY <1>1, <1>2 DEF Delta

LEMMA HeadOctet ==
  ASSUME NEW m \in 0 .. Plain + 1, NEW n \in 0 .. Plain + 1
  PROVE  m * Nibbles + n \in Octets
<1>1. Nibbles \in Nat /\ Nibbles > 3 /\ m \in Nat /\ n \in Nat /\ m < Nibbles - 1 /\ n < Nibbles
  BY Widths
<1>2. m * Nibbles <= (Nibbles - 1) * Nibbles
  BY <1>1, Z3
<1>3. (Nibbles - 1) * Nibbles = Nibbles * Nibbles - Nibbles
  BY <1>1, Z3
<1>4. m * Nibbles \in Nat /\ Nibbles * Nibbles \in Nat
  BY <1>1, Z3
<1> QED
  BY <1>1, <1>2, <1>3, <1>4 DEF Octets, Octet

LEMMA WrittenOptionType ==
  ASSUME NEW opts \in Seq(Option), NEW k \in 1 .. Len(opts)
  PROVE  /\ OptionHead(opts, k) \in Seq(Octets)
         /\ WrittenOption(opts, k) \in Seq(Octets)
         /\ Len(WrittenOption(opts, k)) = Len(OptionHead(opts, k)) + Len(opts[k].value)
         /\ Len(WrittenOption(opts, k)) = MeasuredOption(opts, k)
         /\ Len(OptionHead(opts, k)) \in Nat \ {0}
         /\ opts[k].value \in Seq(Octets)
<1> DEFINE delta == Delta(opts, k)
           length == Len(opts[k].value)
           first == Nibble(delta) * Nibbles + Nibble(length)
           e1 == Extension(Nibble(delta), delta)
           e2 == Extension(Nibble(length), length)
<1>1. opts[k].value \in Seq(Octets)
  <2>1. opts[k] \in Option
    OBVIOUS
  <2> QED
    BY <2>1, OptionFields
<1>2. delta \in Int /\ length \in Nat
  BY <1>1, DeltaType
<1> HIDE DEF delta, length
<1>3. Nibble(delta) \in 0 .. Plain + 1 /\ Nibble(length) \in 0 .. Plain + 1
  BY <1>2, NibbleType
<1>4. first \in Octets
  BY <1>3, HeadOctet
<1>5. /\ e1 \in Seq(Octets) /\ Len(e1) = ExtensionLength(Nibble(delta))
      /\ ExtensionLength(Nibble(delta)) \in 0 .. 2
  BY <1>2, <1>3, ExtensionType
<1>6. /\ e2 \in Seq(Octets) /\ Len(e2) = ExtensionLength(Nibble(length))
      /\ ExtensionLength(Nibble(length)) \in 0 .. 2
  BY <1>2, <1>3, ExtensionType
<1> HIDE DEF first, e1, e2
<1>7. OptionHead(opts, k) = <<first>> \o e1 \o e2
  BY DEF OptionHead, first, e1, e2, delta, length
<1>8. /\ OptionHead(opts, k) \in Seq(Octets)
      /\ Len(OptionHead(opts, k)) = 1 + Len(e1) + Len(e2)
  <2>1. <<first>> \in Seq(Octets) /\ Len(<<first>>) = 1
    BY <1>4
  <2>2. <<first>> \o e1 \in Seq(Octets) /\ Len(<<first>> \o e1) = 1 + Len(e1)
    BY <1>5, <2>1, ConcatProperties
  <2> QED
    BY <1>5, <1>6, <1>7, <2>2, ConcatProperties
<1>9. MeasuredOption(opts, k) =
        1 + ExtensionLength(Nibble(delta)) + ExtensionLength(Nibble(length)) + length
  BY DEF MeasuredOption, delta, length
<1>10. /\ WrittenOption(opts, k) \in Seq(Octets)
       /\ Len(WrittenOption(opts, k)) = Len(OptionHead(opts, k)) + length
  BY <1>1, <1>8, ConcatProperties DEF WrittenOption, length
<1> QED
  BY <1>1, <1>2, <1>5, <1>6, <1>8, <1>9, <1>10 DEF length

-----------------------------------------------------------------------------
(* FlattenSeq, piece by piece.                                               *)
FlatStep(s, f, i) == IF i = 1 THEN s[i] ELSE f[i - 1] \o s[i]
Flat(s) == CHOOSE f : f = [i \in 1 .. Len(s) |-> FlatStep(s, f, i)]

LEMMA FlattenIsFlat ==
  ASSUME NEW s, Len(s) # 0
  PROVE  FlattenSeq(s) = Flat(s)[Len(s)]
BY DEF FlattenSeq, Flat, FlatStep

LEMMA FlatUnfolds ==
  ASSUME NEW s, Len(s) \in Nat
  PROVE  Flat(s) = [i \in 1 .. Len(s) |-> FlatStep(s, Flat(s), i)]
<1> DEFINE Solves(f, k) == f = [i \in 1 .. k |-> FlatStep(s, f, i)]
           S == {k \in Nat : \E f : Solves(f, k)}
<1>1. 0 \in S
  <2>1. Solves([i \in 1 .. 0 |-> FlatStep(s, <<>>, i)], 0)
    OBVIOUS
  <2> HIDE DEF Solves
  <2> QED
    BY <2>1
<1>2. ASSUME NEW k \in S PROVE k + 1 \in S
  <2>1. PICK f : Solves(f, k)
    BY <1>2
  <2>2. k \in Nat
    BY <1>2
  <2> DEFINE g == [i \in 1 .. k + 1 |-> FlatStep(s, f, i)]
  <2>3. ASSUME NEW i \in 1 .. k + 1 PROVE FlatStep(s, f, i) = FlatStep(s, g, i)
    <3>1. CASE i = 1
      BY <3>1 DEF FlatStep
    <3>2. CASE i # 1
      <4>1. i - 1 \in 1 .. k /\ i - 1 \in 1 .. k + 1
        BY <2>2, <3>2
      <4>2. g[i - 1] = FlatStep(s, f, i - 1)
        BY <4>1
      <4>3. f[i - 1] = FlatStep(s, f, i - 1)
        BY <2>1, <4>1
      <4> HIDE DEF g
      <4> QED
        BY <3>2, <4>2, <4>3 DEF FlatStep
    <3> QED
      BY <3>1, <3>2
  <2>4. Solves(g, k + 1)
    BY <2>3
  <2> HIDE DEF g, Solves
  <2>5. k + 1 \in Nat /\ \E h : Solves(h, k + 1)
    BY <2>2, <2>4
  <2> QED
    BY <2>5
<1> HIDE DEF S
<1>3. \A k \in Nat : k \in S
  <2>1. S \subseteq Nat
    BY DEF S
  <2> QED
    BY <1>1, <1>2, <2>1, Induction
<1>4. \E f : Solves(f, Len(s))
  BY <1>3 DEF S
<1> QED
  BY <1>4 DEF Flat

LEMMA FlatType ==
  ASSUME NEW T, NEW s \in Seq(Seq(T))
  PROVE  \A i \in 1 .. Len(s) : Flat(s)[i] \in Seq(T)
<1> DEFINE S == {i \in Nat : i \in 1 .. Len(s) => Flat(s)[i] \in Seq(T)}
<1>1. 0 \in S
  OBVIOUS
<1>2. ASSUME NEW i \in S PROVE i + 1 \in S
  <2> SUFFICES ASSUME i + 1 \in 1 .. Len(s) PROVE Flat(s)[i + 1] \in Seq(T)
    BY <1>2
  <2>1. i \in Nat /\ s[i + 1] \in Seq(T) /\ Len(s) \in Nat
    BY <1>2
  <2>2. Flat(s)[i + 1] = FlatStep(s, Flat(s), i + 1)
    BY <2>1, FlatUnfolds
  <2>3. CASE i = 0
    BY <2>1, <2>2, <2>3 DEF FlatStep
  <2>4. CASE i # 0
    <3>1. Flat(s)[i] \in Seq(T)
      BY <1>2, <2>1, <2>4
    <3>2. Flat(s)[i + 1] = Flat(s)[i] \o s[i + 1]
      <4>1. i + 1 # 1 /\ (i + 1) - 1 = i
        BY <2>1, <2>4
      <4> QED
        BY <2>2, <4>1 DEF FlatStep
    <3> QED
      BY <2>1, <3>1, <3>2
  <2> QED
    BY <2>3, <2>4
<1> HIDE DEF S
<1>3. \A i \in Nat : i \in S
  <2>1. S \subseteq Nat
    BY DEF S
  <2> QED
    BY <1>1, <1>2, <2>1, Induction
<1> QED
  BY <1>3 DEF S

LEMMA FlatOfAppend ==
  ASSUME NEW T, NEW s \in Seq(Seq(T)), NEW e \in Seq(T)
  PROVE  \A i \in 1 .. Len(s) : Flat(Append(s, e))[i] = Flat(s)[i]
<1> DEFINE t == Append(s, e)
           S == {i \in Nat : i \in 1 .. Len(s) => Flat(t)[i] = Flat(s)[i]}
<1>1. /\ t \in Seq(Seq(T)) /\ Len(t) = Len(s) + 1 /\ Len(s) \in Nat
      /\ \A i \in 1 .. Len(s) : t[i] = s[i]
  OBVIOUS
<1> HIDE DEF t
<1>2. 0 \in S
  OBVIOUS
<1>3. ASSUME NEW i \in S PROVE i + 1 \in S
  <2> SUFFICES ASSUME i + 1 \in 1 .. Len(s) PROVE Flat(t)[i + 1] = Flat(s)[i + 1]
    BY <1>3
  <2>1. i \in Nat
    BY <1>3
  <2>2. /\ Flat(t)[i + 1] = FlatStep(t, Flat(t), i + 1)
        /\ Flat(s)[i + 1] = FlatStep(s, Flat(s), i + 1)
    BY <1>1, <2>1, FlatUnfolds
  <2>3. i # 0 => Flat(t)[i] = Flat(s)[i]
    BY <1>1, <1>3, <2>1
  <2> QED
    BY <1>1, <2>1, <2>2, <2>3 DEF FlatStep
<1> HIDE DEF S
<1>4. \A i \in Nat : i \in S
  <2>1. S \subseteq Nat
    BY DEF S
  <2> QED
    BY <1>2, <1>3, <2>1, Induction
<1> QED
  BY <1>4 DEF S, t

LEMMA FlattenEmpty == FlattenSeq(<<>>) = <<>>
BY DEF FlattenSeq

LEMMA FlattenAppend ==
  ASSUME NEW T, NEW s \in Seq(Seq(T)), NEW e \in Seq(T)
  PROVE  /\ FlattenSeq(s) \in Seq(T)
         /\ FlattenSeq(Append(s, e)) = FlattenSeq(s) \o e
<1> DEFINE t == Append(s, e)
           n == Len(s)
<1>1. /\ t \in Seq(Seq(T)) /\ Len(t) = n + 1 /\ n \in Nat /\ t[n + 1] = e
  OBVIOUS
<1>2. FlattenSeq(t) = FlatStep(t, Flat(t), n + 1)
  <2> HIDE DEF t, n
  <2>1. FlattenSeq(t) = Flat(t)[n + 1]
    BY <1>1, FlattenIsFlat
  <2>2. Flat(t)[n + 1] = FlatStep(t, Flat(t), n + 1)
    BY <1>1, FlatUnfolds
  <2> QED
    BY <2>1, <2>2
<1>3. CASE n = 0
  <2>1. s = <<>> /\ FlattenSeq(s) = <<>>
    BY <1>3, FlattenEmpty
  <2>2. FlattenSeq(t) = e
    <3>1. FlatStep(t, Flat(t), 1) = t[1]
      BY DEF FlatStep
    <3> HIDE DEF t, n
    <3>2. n + 1 = 1
      BY <1>3
    <3> QED
      BY <1>1, <1>2, <3>1, <3>2
  <2>3. <<>> \in Seq(T) /\ <<>> \o e = e
    OBVIOUS
  <2>4. FlattenSeq(s) \in Seq(T) /\ FlattenSeq(s) \o e = e
    BY <2>1, <2>3
  <2> QED
    BY <2>2, <2>4
<1>4. CASE n # 0
  <2>1. FlattenSeq(s) = Flat(s)[n]
    BY <1>4, FlattenIsFlat
  <2>2. Flat(s)[n] \in Seq(T) /\ Flat(t)[n] = Flat(s)[n]
    BY <1>1, <1>4, FlatType, FlatOfAppend
  <2>3. FlattenSeq(t) = Flat(t)[n] \o e
    <3> HIDE DEF t, n
    <3> QED
      BY <1>1, <1>2, <1>4 DEF FlatStep
  <2> QED
    BY <2>1, <2>2, <2>3
<1> QED
  BY <1>3, <1>4
-----------------------------------------------------------------------------
(* What is written of the options, one option after another.                 *)
Upto(opts, k) == WrittenOptions(SubSeq(opts, 1, k))
Pieces(opts) == [k \in DOMAIN opts |-> WrittenOption(opts, k)]

LEMMA PiecesType ==
  ASSUME NEW opts \in Seq(Option)
  PROVE  Pieces(opts) \in Seq(Seq(Octets)) /\ Len(Pieces(opts)) = Len(opts)
<1>1. DOMAIN opts = 1 .. Len(opts) /\ Len(opts) \in Nat
  OBVIOUS
<1>2. \A k \in 1 .. Len(opts) : WrittenOption(opts, k) \in Seq(Octets)
  BY WrittenOptionType
<1> QED
  BY <1>1, <1>2 DEF Pieces

LEMMA PrefixType ==
  ASSUME NEW opts \in Seq(Option), NEW k \in 0 .. Len(opts)
  PROVE  /\ SubSeq(opts, 1, k) \in Seq(Option)
         /\ Len(SubSeq(opts, 1, k)) = k
         /\ \A j \in 1 .. k : SubSeq(opts, 1, k)[j] = opts[j]
<1>1. Len(opts) \in Nat /\ \A j \in 1 .. k : opts[j] \in Option
  OBVIOUS
<1> QED
  BY <1>1, SubSeqProperties

(* An option is written the same whatever follows it.                        *)
LEMMA WrittenLocally ==
  ASSUME NEW opts, NEW others, NEW k \in Nat \ {0},
         \A j \in 1 .. k : others[j] = opts[j]
  PROVE  WrittenOption(others, k) = WrittenOption(opts, k)
<1>1. others[k] = opts[k] /\ (k # 1 => others[k - 1] = opts[k - 1])
  OBVIOUS
<1>2. Delta(others, k) = Delta(opts, k)
  BY <1>1 DEF Delta
<1> QED
  BY <1>1, <1>2 DEF WrittenOption, OptionHead

LEMMA UptoNone ==
  ASSUME NEW opts \in Seq(Option)
  PROVE  Upto(opts, 0) = <<>>
<1>1. SubSeq(opts, 1, 0) = <<>>
  OBVIOUS
<1>2. Pieces(<<>>) = <<>>
  BY DEF Pieces
<1> QED
  BY <1>1, <1>2, FlattenEmpty DEF Upto, WrittenOptions, Pieces

LEMMA UptoAll ==
  ASSUME NEW opts \in Seq(Option)
  PROVE  Upto(opts, Len(opts)) = WrittenOptions(opts)
<1>1. SubSeq(opts, 1, Len(opts)) = opts
  OBVIOUS
<1> QED
  BY <1>1 DEF Upto

LEMMA UptoNext ==
  ASSUME NEW opts \in Seq(Option), NEW k \in 1 .. Len(opts)
  PROVE  /\ Upto(opts, k - 1) \in Seq(Octets)
         /\ Upto(opts, k) = Upto(opts, k - 1) \o WrittenOption(opts, k)
<1> DEFINE short == SubSeq(opts, 1, k - 1)
           long == SubSeq(opts, 1, k)
           e == WrittenOption(opts, k)
<1>1. Len(opts) \in Nat /\ k \in Nat \ {0} /\ k - 1 \in 0 .. Len(opts) /\ k \in 0 .. Len(opts)
  OBVIOUS
<1>2. /\ short \in Seq(Option) /\ Len(short) = k - 1
      /\ \A j \in 1 .. k - 1 : short[j] = opts[j]
  BY <1>1, PrefixType
<1>3. /\ long \in Seq(Option) /\ Len(long) = k
      /\ \A j \in 1 .. k : long[j] = opts[j]
  BY <1>1, PrefixType
<1>4. e \in Seq(Octets)
  BY WrittenOptionType
<1>5. /\ Pieces(short) \in Seq(Seq(Octets)) /\ Len(Pieces(short)) = k - 1
      /\ Pieces(long) \in Seq(Seq(Octets)) /\ Len(Pieces(long)) = k
  BY <1>2, <1>3, PiecesType
<1>6. DOMAIN short = 1 .. k - 1 /\ DOMAIN long = 1 .. k
  BY <1>2, <1>3
<1> HIDE DEF short, long, e
<1>7. ASSUME NEW j \in 1 .. k - 1
      PROVE  Pieces(long)[j] = Pieces(short)[j]
  <2>1. j \in 1 .. k /\ j \in Nat \ {0}
    BY <1>1
  <2>2. \A i \in 1 .. j : long[i] = short[i]
    BY <1>1, <1>2, <1>3, <2>1
  <2>3. WrittenOption(long, j) = WrittenOption(short, j)
    BY <2>1, <2>2, WrittenLocally
  <2> QED
    BY <1>6, <2>1, <2>3 DEF Pieces
<1>8. Pieces(long)[k] = e
  <2>1. WrittenOption(long, k) = WrittenOption(opts, k)
    BY <1>1, <1>3, WrittenLocally
  <2> QED
    BY <1>1, <1>6, <2>1 DEF Pieces, e
<1>9. Pieces(long) = Append(Pieces(short), e)
  <2> DEFINE a == Pieces(short)
             b == Pieces(long)
  <2>1. /\ Append(a, e) \in Seq(Seq(Octets)) /\ Len(Append(a, e)) = k
        /\ \A j \in 1 .. k - 1 : Append(a, e)[j] = a[j]
        /\ Append(a, e)[k] = e
    BY <1>1, <1>4, <1>5
  <2>2. \A j \in 1 .. k : b[j] = Append(a, e)[j]
    BY <1>1, <1>7, <1>8, <2>1
  <2> HIDE DEF a, b
  <2>3. b \in Seq(Seq(Octets)) /\ Len(b) = k
    BY <1>5 DEF b
  <2>4. b = Append(a, e)
    BY <2>1, <2>2, <2>3
  <2> QED
    BY <2>4 DEF a, b
<1>10. /\ FlattenSeq(Pieces(short)) \in Seq(Octets)
       /\ FlattenSeq(Pieces(long)) = FlattenSeq(Pieces(short)) \o e
  BY <1>4, <1>5, <1>9, FlattenAppend
<1>11. /\ Upto(opts, k) = FlattenSeq(Pieces(long))
       /\ Upto(opts, k - 1) = FlattenSeq(Pieces(short))
  BY DEF Upto, WrittenOptions, Pieces, long, short
<1> QED
  BY <1>10, <1>11 DEF e

LEMMA UptoType ==
  ASSUME NEW opts \in Seq(Option), NEW k \in 0 .. Len(opts)
  PROVE  Upto(opts, k) \in Seq(Octets) /\ Len(Upto(opts, k)) \in Nat
<1>1. CASE k = 0
  <2>1. <<>> \in Seq(Octets) /\ Len(<<>>) = 0
    OBVIOUS
  <2>2. Upto(opts, k) = <<>>
    BY <1>1, UptoNone
  <2> QED
    BY <2>1, <2>2
<1>2. CASE k # 0
  <2>1. k \in 1 .. Len(opts)
    BY <1>2
  <2>2. Upto(opts, k - 1) \in Seq(Octets) /\ WrittenOption(opts, k) \in Seq(Octets)
    BY <2>1, UptoNext, WrittenOptionType
  <2>3. Upto(opts, k) = Upto(opts, k - 1) \o WrittenOption(opts, k)
    BY <2>1, UptoNext
  <2> QED
    BY <2>2, <2>3
<1> QED
  BY <1>1, <1>2

LEMMA UptoGrows ==
  ASSUME NEW opts \in Seq(Option), NEW k \in 1 .. Len(opts)
  PROVE  Len(Upto(opts, k)) = Len(Upto(opts, k - 1)) + MeasuredOption(opts, k)
<1>1. /\ Upto(opts, k - 1) \in Seq(Octets) /\ WrittenOption(opts, k) \in Seq(Octets)
      /\ Upto(opts, k) = Upto(opts, k - 1) \o WrittenOption(opts, k)
      /\ Len(WrittenOption(opts, k)) = MeasuredOption(opts, k)
  BY UptoNext, WrittenOptionType
<1>2. Len(Upto(opts, k)) = Len(Upto(opts, k - 1)) + Len(WrittenOption(opts, k))
  BY <1>1, ConcatProperties
<1> QED
  BY <1>1, <1>2

LEMMA WrittenBodyType ==
  ASSUME NEW token \in Seq(Octets), NEW opts \in Seq(Option),
         NEW payload \in Seq(Octets)
  PROVE  /\ WrittenBody(token, opts, payload) \in Seq(Octets)
         /\ Len(WrittenBody(token, opts, payload)) =
              Len(token) + Len(WrittenOptions(opts))
                + (IF payload = <<>> THEN 0 ELSE 1 + Len(payload))
<1> DEFINE tail == IF payload = <<>> THEN <<>> ELSE <<PAYLOAD_MARKER>> \o payload
           written == WrittenOptions(opts)
<1>1. written \in Seq(Octets)
  <2>1. Len(opts) \in 0 .. Len(opts)
    OBVIOUS
  <2> QED
    BY <2>1, UptoType, UptoAll
<1>2. tail \in Seq(Octets) /\ Len(tail) = IF payload = <<>> THEN 0 ELSE 1 + Len(payload)
  <2>1. PAYLOAD_MARKER \in Octets
    BY Widths DEF PAYLOAD_MARKER, Octets
  <2>2. /\ <<PAYLOAD_MARKER>> \in Seq(Octets)
        /\ Len(<<PAYLOAD_MARKER>>) = 1
    BY <2>1
  <2>3. /\ <<PAYLOAD_MARKER>> \o payload \in Seq(Octets)
        /\ Len(<<PAYLOAD_MARKER>> \o payload) = 1 + Len(payload)
    BY <2>2, ConcatProperties
  <2>4. <<>> \in Seq(Octets) /\ Len(<<>>) = 0
    OBVIOUS
  <2> QED
    BY <2>3, <2>4
<1>3. WrittenBody(token, opts, payload) = (token \o written) \o tail
  BY DEF WrittenBody
<1> HIDE DEF tail, written
<1> DEFINE head == token \o written
<1>4. head \in Seq(Octets) /\ Len(head) = Len(token) + Len(written)
  BY <1>1, ConcatProperties
<1>5. WrittenBody(token, opts, payload) = head \o tail
  BY <1>3
<1> HIDE DEF head
<1>6. head \o tail \in Seq(Octets) /\ Len(head \o tail) = Len(head) + Len(tail)
  BY <1>2, <1>4, ConcatProperties
<1> QED
  BY <1>2, <1>4, <1>5, <1>6 DEF written

-----------------------------------------------------------------------------
(* The first pass of serialize, which only measures.                         *)
Measures(token, opts) ==
  CHOOSE f : f = [k \in 0 .. Len(opts) |->
                    IF k = 0 THEN Len(token)
                    ELSE f[k - 1] + MeasuredOption(opts, k)]

LEMMA MeasuredIsMeasures ==
  ASSUME NEW token, NEW opts, NEW payload
  PROVE  MeasuredLength(token, opts, payload) =
           Measures(token, opts)[Len(opts)]
             + (IF payload = <<>> THEN 0 ELSE 1 + Len(payload))
BY DEF MeasuredLength, Measures

LEMMA MeasuresUnfolds ==
  ASSUME NEW token, NEW opts, Len(opts) \in Nat
  PROVE  Measures(token, opts) =
           [k \in 0 .. Len(opts) |->
              IF k = 0 THEN Len(token)
              ELSE Measures(token, opts)[k - 1] + MeasuredOption(opts, k)]
<1> DEFINE Step(f, k) == IF k = 0 THEN Len(token) ELSE f[k - 1] + MeasuredOption(opts, k)
           Solves(f, n) == f = [k \in 0 .. n |-> Step(f, k)]
           S == {n \in Nat : \E f : Solves(f, n)}
<1>1. 0 \in S
  <2>1. Solves([k \in 0 .. 0 |-> Len(token)], 0)
    OBVIOUS
  <2> HIDE DEF Solves
  <2> QED
    BY <2>1
<1>2. ASSUME NEW n \in S PROVE n + 1 \in S
  <2>1. PICK f : Solves(f, n)
    BY <1>2
  <2>2. n \in Nat
    BY <1>2
  <2> DEFINE g == [k \in 0 .. n + 1 |-> Step(f, k)]
  <2>3. ASSUME NEW k \in 0 .. n + 1 PROVE Step(f, k) = Step(g, k)
    <3>1. CASE k = 0
      BY <3>1
    <3>2. CASE k # 0
      <4>1. k - 1 \in 0 .. n /\ k - 1 \in 0 .. n + 1
        BY <2>2, <3>2
      <4>2. g[k - 1] = Step(f, k - 1)
        BY <4>1
      <4>3. f[k - 1] = Step(f, k - 1)
        BY <2>1, <4>1
      <4> HIDE DEF g
      <4> QED
        BY <3>2, <4>2, <4>3
    <3> QED
      BY <3>1, <3>2
  <2>4. Solves(g, n + 1)
    <3> HIDE DEF Step
    <3> QED
      BY <2>3
  <2> HIDE DEF g, Solves
  <2>5. n + 1 \in Nat /\ \E h : Solves(h, n + 1)
    BY <2>2, <2>4
  <2> QED
    BY <2>5
<1> HIDE DEF S
<1>3. \A n \in Nat : n \in S
  <2>1. S \subseteq Nat
    BY DEF S
  <2> QED
    BY <1>1, <1>2, <2>1, Induction
<1>4. \E f : Solves(f, Len(opts))
  BY <1>3 DEF S
<1> QED
  BY <1>4 DEF Measures

LEMMA MeasuresUpto ==
  ASSUME NEW token \in Seq(Octets), NEW opts \in Seq(Option)
  PROVE  \A k \in 0 .. Len(opts) :
           Measures(token, opts)[k] = Len(token) + Len(Upto(opts, k))
<1> DEFINE f == Measures(token, opts)
           n == Len(opts)
           S == {k \in Nat : k \in 0 .. n => f[k] = Len(token) + Len(Upto(opts, k))}
<1>1. n \in Nat
  OBVIOUS
<1>2. f = [k \in 0 .. n |-> IF k = 0 THEN Len(token)
                            ELSE f[k - 1] + MeasuredOption(opts, k)]
  BY <1>1, MeasuresUnfolds
<1> HIDE DEF f
<1>3. 0 \in S
  <2>1. f[0] = Len(token)
    BY <1>1, <1>2
  <2>2. Len(Upto(opts, 0)) = 0
    BY UptoNone
  <2>3. Len(token) \in Nat
    OBVIOUS
  <2> QED
    BY <2>1, <2>2, <2>3
<1>4. ASSUME NEW k \in S PROVE k + 1 \in S
  <2>1. k \in Nat
    BY <1>4
  <2> SUFFICES ASSUME k + 1 \in 0 .. n
               PROVE  f[k + 1] = Len(token) + Len(Upto(opts, k + 1))
    BY <2>1
  <2>2. k \in 0 .. n /\ k + 1 \in 1 .. n /\ k + 1 # 0 /\ (k + 1) - 1 = k
    BY <1>1, <2>1
  <2>3. f[k + 1] = f[k] + MeasuredOption(opts, k + 1)
    BY <1>2, <2>2
  <2>4. f[k] = Len(token) + Len(Upto(opts, k))
    BY <1>4, <2>2
  <2>5. Len(Upto(opts, k + 1)) = Len(Upto(opts, k)) + MeasuredOption(opts, k + 1)
    BY <2>2, UptoGrows
  <2>6. Len(Upto(opts, k)) \in Nat /\ Len(token) \in Nat
    BY <2>2, UptoType
  <2>7. MeasuredOption(opts, k + 1) \in Nat
    BY <2>2, WrittenOptionType
  <2> QED
    BY <2>3, <2>4, <2>5, <2>6, <2>7
<1> HIDE DEF S
<1>5. \A k \in Nat : k \in S
  <2>1. S \subseteq Nat
    BY DEF S
  <2> QED
    BY <1>3, <1>4, <2>1, Induction
<1> QED
  BY <1>5 DEF S, n, f

(* The first pass of serialize measures exactly what the second one writes,  *)
(* for every token, list of options and payload, although the second one has *)
(* the number of the option before in one octet: both passes do.             *)
THEOREM MeasuredIsWritten ==
  ASSUME NEW token \in Seq(Octets), NEW opts \in Seq(Option),
         NEW payload \in Seq(Octets)
  PROVE  MeasuredLength(token, opts, payload) = Len(WrittenBody(token, opts, payload))
<1>1. Measures(token, opts)[Len(opts)] = Len(token) + Len(Upto(opts, Len(opts)))
  <2>1. Len(opts) \in 0 .. Len(opts)
    OBVIOUS
  <2> QED
    BY <2>1, MeasuresUpto
<1>2. Measures(token, opts)[Len(opts)] = Len(token) + Len(WrittenOptions(opts))
  BY <1>1, UptoAll
<1> DEFINE more == IF payload = <<>> THEN 0 ELSE 1 + Len(payload)
<1>3. MeasuredLength(token, opts, payload) = Measures(token, opts)[Len(opts)] + more
  BY MeasuredIsMeasures
<1>4. Len(WrittenBody(token, opts, payload)) =
        Len(token) + Len(WrittenOptions(opts)) + more
  BY WrittenBodyType
<1> HIDE DEF more
<1> QED
  BY <1>2, <1>3, <1>4
LEMMA UptoMonotone ==
  ASSUME NEW opts \in Seq(Option)
  PROVE  \A k \in 0 .. Len(opts) : Len(Upto(opts, k)) <= Len(WrittenOptions(opts))
<1> DEFINE n == Len(opts)
           w(k) == Len(Upto(opts, k))
           S == {i \in Nat : i \in 0 .. n => w(n - i) <= w(n)}
<1>1. n \in Nat /\ \A k \in 0 .. n : w(k) \in Nat
  BY UptoType
<1>2. \A k \in 1 .. n : w(k - 1) <= w(k)
  <2> TAKE k \in 1 .. n
  <2>1. k - 1 \in 0 .. n /\ MeasuredOption(opts, k) \in Nat
    BY <1>1, WrittenOptionType
  <2>2. w(k) = w(k - 1) + MeasuredOption(opts, k) /\ w(k - 1) \in Nat
    BY <1>1, <2>1, UptoGrows
  <2> QED
    BY <2>1, <2>2
<1> HIDE DEF n, w
<1>3. 0 \in S
  BY <1>1
<1>4. ASSUME NEW i \in S PROVE i + 1 \in S
  <2>1. i \in Nat
    BY <1>4
  <2> SUFFICES ASSUME i + 1 \in 0 .. n PROVE w(n - (i + 1)) <= w(n)
    BY <2>1
  <2>2. /\ n - i \in 1 .. n /\ (n - i) - 1 = n - (i + 1)
        /\ i \in 0 .. n /\ n - (i + 1) \in 0 .. n
    BY <1>1, <2>1
  <2>3. w((n - i) - 1) <= w(n - i) /\ w(n - i) <= w(n)
    BY <1>2, <1>4, <2>2
  <2>4. w(n) \in Nat /\ w(n - i) \in Nat /\ w(n - (i + 1)) \in Nat
    BY <1>1, <2>2
  <2> QED
    BY <2>2, <2>3, <2>4
<1> HIDE DEF S
<1>5. \A i \in Nat : i \in S
  <2>1. S \subseteq Nat
    BY DEF S
  <2> QED
    BY <1>3, <1>4, <2>1, Induction
<1>6. ASSUME NEW k \in 0 .. n PROVE w(k) <= w(n)
  <2>1. n - k \in Nat /\ n - k \in 0 .. n /\ n - (n - k) = k
    BY <1>1
  <2>2. w(n - (n - k)) <= w(n)
    BY <1>5, <2>1 DEF S
  <2> QED
    BY <2>1, <2>2
<1> QED
  BY <1>6, UptoAll DEF n, w

(* serialize's assertions on a buffer of the measured length hold unless the *)
(* message has neither an option nor a payload, when no value is empty:      *)
(* add_option puts one octet in front of each.                               *)
THEOREM MeasuredFits ==
  ASSUME NEW token \in Seq(Octets), NEW opts \in Seq(Option),
         NEW payload \in Seq(Octets),
         \A k \in DOMAIN opts : opts[k].value # <<>>
  PROVE  WritesInside(token, opts, payload, MeasuredLength(token, opts, payload))
           <=> opts # <<>> \/ payload # <<>>
<1> DEFINE length == MeasuredLength(token, opts, payload)
           before(k) == Len(token) + Len(WrittenOptions(SubSeq(opts, 1, k - 1)))
           n == Len(opts)
           written == Len(WrittenOptions(opts))
           more == IF payload = <<>> THEN 0 ELSE 1 + Len(payload)
<1>1. /\ n \in Nat /\ DOMAIN opts = 1 .. n /\ Len(token) \in Nat /\ more \in Nat
      /\ more = 0 <=> payload = <<>>
      /\ n = 0 <=> opts = <<>>
  OBVIOUS
<1>2. length = Len(WrittenBody(token, opts, payload))
  BY MeasuredIsWritten
<1>3. length = Len(token) + written + more
  <2>1. Len(WrittenBody(token, opts, payload)) = Len(token) + written + more
    BY WrittenBodyType
  <2> QED
    BY <1>2, <2>1
<1>4. written \in Nat /\ (n = 0 => written = 0)
  <2>1. n \in 0 .. n
    BY <1>1
  <2>2. written = Len(Upto(opts, n)) /\ Len(Upto(opts, n)) \in Nat
    BY <2>1, UptoType, UptoAll
  <2>3. Len(Upto(opts, 0)) = 0
    BY UptoNone
  <2> QED
    BY <2>2, <2>3
<1>5. ASSUME NEW k \in 1 .. n
      PROVE  /\ before(k) + Len(WrittenOption(opts, k)) <= Len(token) + written
             /\ Len(OptionHead(opts, k)) < Len(WrittenOption(opts, k))
             /\ Len(OptionHead(opts, k)) \in Nat /\ Len(WrittenOption(opts, k)) \in Nat
             /\ before(k) \in Nat /\ before(k) >= Len(token)
  <2>1. k \in 0 .. n /\ k - 1 \in 0 .. n
    BY <1>1
  <2>2. /\ Len(OptionHead(opts, k)) \in Nat
        /\ Len(WrittenOption(opts, k)) = Len(OptionHead(opts, k)) + Len(opts[k].value)
        /\ Len(WrittenOption(opts, k)) = MeasuredOption(opts, k)
        /\ opts[k].value \in Seq(Octets)
    BY WrittenOptionType
  <2>3. opts[k].value # <<>>
    BY <1>1
  <2>4. Len(opts[k].value) \in Nat \ {0}
    BY <2>2, <2>3
  <2>5. /\ Len(Upto(opts, k)) = Len(Upto(opts, k - 1)) + MeasuredOption(opts, k)
        /\ Len(Upto(opts, k - 1)) \in Nat
        /\ Len(Upto(opts, k)) <= written
    BY <2>1, UptoGrows, UptoMonotone, UptoType
  <2>6. before(k) = Len(token) + Len(Upto(opts, k - 1))
    BY DEF Upto
  <2> DEFINE h == Len(OptionHead(opts, k))
             o == Len(WrittenOption(opts, k))
             v == Len(opts[k].value)
             u == Len(Upto(opts, k - 1))
             b == before(k)
             t == Len(token)
             m == MeasuredOption(opts, k)
             w == Len(Upto(opts, k))
  <2>7. h \in Nat /\ o = h + v /\ o = m /\ v \in Nat \ {0}
    BY <2>2, <2>4
  <2>8. w = u + m /\ u \in Nat /\ w <= written /\ b = t + u /\ t \in Nat
    BY <1>1, <2>5, <2>6
  <2> HIDE DEF h, o, v, u, b, t, m, w, written
  <2>9. b + o <= t + written /\ h < o /\ h \in Nat /\ o \in Nat /\ b \in Nat /\ b >= t
    BY <1>4, <2>7, <2>8
  <2> QED
    BY <2>9 DEF h, o, b, t
<1>6. WritesInside(token, opts, payload, length) <=>
        /\ Len(token) < length
        /\ \A k \in 1 .. n :
             /\ before(k) + Len(OptionHead(opts, k)) < length
             /\ before(k) + Len(WrittenOption(opts, k)) <= length
        /\ Len(WrittenBody(token, opts, payload)) <= length
  BY <1>1 DEF WritesInside
<1> HIDE DEF length, before, written, more, n
<1>7. ASSUME n # 0 \/ more # 0 PROVE WritesInside(token, opts, payload, length)
  <2>1. ASSUME NEW k \in 1 .. n
        PROVE  /\ before(k) + Len(OptionHead(opts, k)) < length
               /\ before(k) + Len(WrittenOption(opts, k)) <= length
    <3> DEFINE h == Len(OptionHead(opts, k))
               o == Len(WrittenOption(opts, k))
               b == before(k)
               t == Len(token)
    <3>1. /\ b + o <= t + written /\ h < o /\ h \in Nat /\ o \in Nat /\ b \in Nat
          /\ t \in Nat
      BY <1>1, <1>5, <2>1
    <3> HIDE DEF h, o, b, t
    <3>2. length = t + written + more
      BY <1>3 DEF t
    <3>3. b + h < length /\ b + o <= length
      BY <1>1, <1>4, <3>1, <3>2
    <3> QED
      BY <3>3 DEF h, o, b
  <2>2. Len(token) < length
    <3>1. CASE n # 0
      <4>1. 1 \in 1 .. n
        BY <1>1, <3>1
      <4> QED
        BY <1>1, <1>3, <1>4, <1>5, <2>1, <4>1
    <3>2. CASE more # 0
      BY <1>1, <1>3, <1>4, <3>2
    <3> QED
      BY <1>7, <3>1, <3>2
  <2>3. Len(WrittenBody(token, opts, payload)) <= length
    BY <1>1, <1>2, <1>3, <1>4
  <2> QED
    BY <1>6, <2>1, <2>2, <2>3
<1>8. ASSUME n = 0, more = 0 PROVE ~WritesInside(token, opts, payload, length)
  BY <1>1, <1>3, <1>4, <1>6, <1>8
<1> QED
  BY <1>1, <1>7, <1>8 DEF length

-----------------------------------------------------------------------------
(* What is written is read. The options add_option makes, in their order.    *)
ShortOption == {o \in Option : o.number < Octet /\ Len(o.value) \in 1 .. Octet + 1}

Legible(opts) ==
  /\ opts \in Seq(ShortOption)
  /\ \A k \in 2 .. Len(opts) : opts[k - 1].number <= opts[k].number

LEMMA HeadOctetHalves ==
  ASSUME NEW a \in 0 .. Nibbles - 1, NEW b \in 0 .. Nibbles - 1
  PROVE  /\ (a * Nibbles + b) \div Nibbles = a
         /\ (a * Nibbles + b) % Nibbles = b
<1> DEFINE o == a * Nibbles + b
           q == o \div Nibbles
           r == o % Nibbles
<1>1. Nibbles \in Nat /\ Nibbles > 0 /\ a \in Nat /\ b \in Nat /\ b < Nibbles
  BY Widths
<1>2. o \in Nat
  BY <1>1, Z3
<1> HIDE DEF o
<1>3. q \in Int /\ r \in 0 .. Nibbles - 1 /\ o = Nibbles * q + r
  BY <1>1, <1>2
<1> HIDE DEF q, r
<1>4. Nibbles * q + r = a * Nibbles + b
  BY <1>3 DEF o
<1>5. ASSUME q > a PROVE FALSE
  <2>1. Nibbles * q >= Nibbles * (a + 1)
    BY <1>1, <1>3, <1>5, Z3
  <2>2. Nibbles * (a + 1) = a * Nibbles + Nibbles
    BY <1>1, Z3
  <2> QED
    BY <1>1, <1>3, <1>4, <2>1, <2>2, Z3
<1>6. ASSUME q < a PROVE FALSE
  <2>1. Nibbles * (q + 1) <= Nibbles * a
    BY <1>1, <1>3, <1>6, Z3
  <2>2. Nibbles * (q + 1) = Nibbles * q + Nibbles /\ Nibbles * a = a * Nibbles
    BY <1>1, <1>3, Z3
  <2> QED
    BY <1>1, <1>3, <1>4, <2>1, <2>2, Z3
<1>7. q = a
  BY <1>1, <1>3, <1>5, <1>6
<1>8. r = b
  BY <1>1, <1>3, <1>4, <1>7, Z3
<1> QED
  BY <1>7, <1>8 DEF q, r, o

(* A distance or a length of these fits into a nibble or its one-octet       *)
(* extension, and the octet that is written is what is left over Plain.      *)
LEMMA ShortField ==
  ASSUME NEW v \in 0 .. Octet - 1 + Plain
  PROVE  \/ /\ Nibble(v) = v /\ v < Plain
            /\ ExtensionLength(Nibble(v)) = 0 /\ Extension(Nibble(v), v) = <<>>
         \/ /\ Nibble(v) = Plain
            /\ ExtensionLength(Nibble(v)) = 1 /\ Extension(Nibble(v), v) = <<v - Plain>>
<1>1. Plain \in Nat /\ Octet \in Nat /\ Octet > Plain + 3 /\ v \in Nat /\ v <= Octet - 1 + Plain
  BY Widths
<1>2. CASE v < Plain
  <2>1. Nibble(v) = v
    BY <1>1, <1>2 DEF Nibble
  <2>2. v # Plain /\ v # Plain + 1
    BY <1>1, <1>2
  <2> QED
    BY <1>2, <2>1, <2>2 DEF ExtensionLength, Extension
<1>3. CASE v >= Plain
  <2>1. Nibble(v) = Plain
    BY <1>1, <1>3 DEF Nibble
  <2>2. ((v % Octet) - Plain) % Octet = v - Plain
    <3>1. CASE v < Octet
      <4>1. v % Octet = v /\ v - Plain \in 0 .. Octet - 1
        BY <1>1, <1>3, <3>1
      <4> QED
        BY <1>1, <4>1
    <3>2. CASE v >= Octet
      <4>1. v % Octet = v - Octet
        BY <1>1, <3>2
      <4> DEFINE u == v - Octet - Plain
      <4>2. u \in Int /\ u + Octet \in 0 .. Octet - 1 /\ u + Octet = v - Plain
        BY <1>1, <3>2
      <4>3. u % Octet = u + Octet
        <5> HIDE DEF u
        <5> QED
          BY <1>1, <4>2
      <4> QED
        BY <4>1, <4>2, <4>3
    <3> QED
      BY <1>1, <3>1, <3>2
  <2>3. Extension(Plain, v) = <<v - Plain>> /\ ExtensionLength(Plain) = 1
    <3>1. Plain # Plain + 1
      BY <1>1
    <3>2. Extension(Plain, v) = <<((v % Octet) - Plain) % Octet>>
      BY <3>1 DEF Extension
    <3>3. ExtensionLength(Plain) = 1
      BY <3>1 DEF ExtensionLength
    <3> QED
      BY <2>2, <3>2, <3>3
  <2> QED
    BY <2>1, <2>3
<1> QED
  BY <1>1, <1>2, <1>3

(* Behind the octets before it, such a field is read as it was written.      *)
LEMMA FieldReads ==
  ASSUME NEW d \in Datagram, NEW past \in Octets, NEW v \in 0 .. Octet - 1 + Plain,
         NEW q \in Nat \ {0}, q + ExtensionLength(Nibble(v)) <= Len(d.body),
         ExtensionLength(Nibble(v)) = 1 => d.body[q + 1] = Extension(Nibble(v), v)[1]
  PROVE  Field(d, past, Nibble(v), q) =
           [ok |-> TRUE, value |-> v, last |-> q + ExtensionLength(Nibble(v))]
<1>1. Plain \in Nat /\ Octet \in Nat /\ Octet > Plain + 3 /\ v \in Nat /\ Len(d.body) \in Nat
  BY Widths DEF Datagram
<1>2. CASE Nibble(v) = v /\ v < Plain /\ ExtensionLength(Nibble(v)) = 0
  <2>1. Field(d, past, v, q) = [ok |-> TRUE, value |-> v, last |-> q]
    BY <1>1, <1>2 DEF Field
  <2>2. q + ExtensionLength(Nibble(v)) = q
    BY <1>2
  <2>3. Field(d, past, Nibble(v), q) = Field(d, past, v, q)
    BY <1>2
  <2> QED
    BY <2>1, <2>2, <2>3
<1>3. CASE Nibble(v) = Plain /\ ExtensionLength(Nibble(v)) = 1
           /\ Extension(Nibble(v), v) = <<v - Plain>>
  <2>1. Field(d, past, Plain, q) =
          [ok |-> q <= Len(d.body), value |-> OctetAt(d, past, q + 1) + Plain, last |-> q + 1]
    BY <1>1 DEF Field
  <2>2. q <= Len(d.body) /\ q + 1 <= Len(d.body)
    BY <1>1, <1>3
  <2>3. OctetAt(d, past, q + 1) + Plain = v
    BY <1>1, <1>3, <2>2 DEF OctetAt
  <2>4. (q <= Len(d.body)) = TRUE
    BY <2>2
  <2> HIDE DEF Field
  <2> QED
    BY <1>3, <2>1, <2>3, <2>4
<1> QED
  BY <1>2, <1>3, ShortField
LEMMA LegibleType ==
  ASSUME NEW opts, Legible(opts)
  PROVE  /\ opts \in Seq(Option)
         /\ \A k \in 1 .. Len(opts) :
              /\ opts[k].number \in 0 .. Octet - 1
              /\ opts[k].value \in Seq(Octets) /\ Len(opts[k].value) \in 1 .. Octet + 1
              /\ opts[k] = [number |-> opts[k].number, value |-> opts[k].value]
<1>1. opts \in Seq(ShortOption) /\ ShortOption \subseteq Option
  BY DEF Legible, ShortOption
<1>2. opts \in Seq(Option)
  BY <1>1
<1>3. ASSUME NEW k \in 1 .. Len(opts)
      PROVE  /\ opts[k].number \in 0 .. Octet - 1
             /\ opts[k].value \in Seq(Octets) /\ Len(opts[k].value) \in 1 .. Octet + 1
             /\ opts[k] = [number |-> opts[k].number, value |-> opts[k].value]
  <2>1. opts[k] \in ShortOption
    BY <1>1
  <2>2. opts[k].number \in Nat
    BY <2>1, OptionFields DEF ShortOption
  <2> QED
    BY <2>1, <2>2, Widths DEF ShortOption, Option
<1> QED
  BY <1>2, <1>3

(* The number the reader has before it reads option k.                       *)
NumberBefore(opts, k) == IF k = 1 THEN 0 ELSE opts[k - 1].number

LEMMA ShortDelta ==
  ASSUME NEW opts, Legible(opts), NEW k \in 1 .. Len(opts)
  PROVE  /\ Delta(opts, k) \in 0 .. Octet - 1
         /\ NumberBefore(opts, k) \in 0 .. Octet - 1
         /\ NumberAfter(NumberBefore(opts, k), Delta(opts, k)) = opts[k].number
<1>1. Octet \in Nat /\ Octet > 3 /\ Word \in Nat /\ Word > Octet /\ Len(opts) \in Nat
  BY Widths, LegibleType
<1>2. opts[k].number \in 0 .. Octet - 1
  BY LegibleType
<1>3. /\ NumberBefore(opts, k) \in 0 .. Octet - 1
      /\ NumberBefore(opts, k) <= opts[k].number
  <2>1. CASE k = 1
    BY <1>1, <1>2, <2>1 DEF NumberBefore
  <2>2. CASE k # 1
    <3>1. k - 1 \in 1 .. Len(opts) /\ k \in 2 .. Len(opts)
      BY <1>1, <2>2
    <3> QED
      BY <2>2, <3>1, LegibleType DEF Legible, NumberBefore
  <2> QED
    BY <2>1, <2>2
<1>4. Delta(opts, k) = opts[k].number - NumberBefore(opts, k)
  <2>1. CASE k = 1
    BY <2>1 DEF Delta, NumberBefore
  <2>2. CASE k # 1
    <3>1. opts[k - 1].number \in 0 .. Octet - 1
      BY <1>3, <2>2 DEF NumberBefore
    <3>2. opts[k - 1].number % Octet = opts[k - 1].number
      BY <1>1, <3>1
    <3> QED
      BY <2>2, <3>2 DEF Delta, NumberBefore
  <2> QED
    BY <2>1, <2>2
<1>5. Delta(opts, k) \in 0 .. Octet - 1
  BY <1>1, <1>2, <1>3, <1>4
<1>6. NumberBefore(opts, k) + Delta(opts, k) = opts[k].number
  BY <1>1, <1>2, <1>3, <1>4
<1>7. opts[k].number % Word = opts[k].number
  BY <1>1, <1>2
<1> QED
  BY <1>3, <1>5, <1>6, <1>7 DEF NumberAfter

(* Option k as it is written lies in d from the octet p.                     *)
Lies(d, p, opts, k) ==
  /\ p + Len(WrittenOption(opts, k)) <= Len(d.body) + 1
  /\ \A i \in 1 .. Len(WrittenOption(opts, k)) :
       d.body[p + i - 1] = WrittenOption(opts, k)[i]

LEMMA OptionReads ==
  ASSUME NEW d \in Datagram, NEW past \in Octets, NEW opts, Legible(opts),
         NEW k \in 1 .. Len(opts), NEW p \in Nat \ {0}, Lies(d, p, opts, k)
  PROVE  /\ p <= Len(d.body) /\ OctetAt(d, past, p) # PAYLOAD_MARKER
         /\ OptionAt(d, past, p) =
              [ok |-> TRUE, delta |-> Delta(opts, k),
               first |-> p + Len(OptionHead(opts, k)),
               next |-> p + Len(WrittenOption(opts, k))]
<1> DEFINE delta == Delta(opts, k)
           length == Len(opts[k].value)
           nd == Nibble(delta)
           nl == Nibble(length)
           h == nd * Nibbles + nl
           e1 == Extension(nd, delta)
           e2 == Extension(nl, length)
           head == OptionHead(opts, k)
           written == WrittenOption(opts, k)
<1>1. /\ Plain \in Nat /\ Plain > 1 /\ Octet \in Nat /\ Octet > Plain + 3
      /\ Len(d.body) \in Nat /\ Nibbles = Plain + 3 /\ Nibbles \in Nat
  BY Widths DEF Datagram
<1>2. /\ opts \in Seq(Option) /\ opts[k].value \in Seq(Octets)
      /\ length \in 1 .. Octet + 1
  BY LegibleType
<1>3. delta \in 0 .. Octet - 1 + Plain /\ length \in 0 .. Octet - 1 + Plain
  BY <1>1, <1>2, ShortDelta
<1>4. /\ head \in Seq(Octets) /\ written \in Seq(Octets)
      /\ Len(written) = Len(head) + length
  BY <1>2, WrittenOptionType
<1> HIDE DEF delta, length
<1>5. nd \in 0 .. Nibbles - 1 /\ nl \in 0 .. Nibbles - 1 /\ nl # 0
  <2>1. nd \in 0 .. Plain + 1 /\ nl \in 0 .. Plain + 1
    BY <1>3, NibbleType
  <2>2. nl # 0
    BY <1>1, <1>2, <1>3, ShortField
  <2> HIDE DEF nd, nl
  <2> QED
    BY <1>1, <2>1, <2>2
<1>6. /\ Len(e1) = ExtensionLength(nd) /\ Len(e1) \in 0 .. 1 /\ e1 \in Seq(Octets)
      /\ Len(e2) = ExtensionLength(nl) /\ Len(e2) \in 0 .. 1 /\ e2 \in Seq(Octets)
  <2>1. nd \in 0 .. Plain + 1 /\ nl \in 0 .. Plain + 1 /\ delta \in Int /\ length \in Int
    BY <1>3, NibbleType
  <2>2. ExtensionLength(nd) \in 0 .. 1 /\ ExtensionLength(nl) \in 0 .. 1
    BY <1>3, ShortField
  <2>3. Len(e1) = ExtensionLength(nd) /\ e1 \in Seq(Octets)
    BY <2>1, ExtensionType
  <2>4. Len(e2) = ExtensionLength(nl) /\ e2 \in Seq(Octets)
    BY <2>1, ExtensionType
  <2> QED
    BY <2>2, <2>3, <2>4
<1>7. h \in Octets /\ h # 0 /\ h \div Nibbles = nd /\ h % Nibbles = nl
  <2>1. h \in Octets
    <3>1. nd \in 0 .. Plain + 1 /\ nl \in 0 .. Plain + 1
      BY <1>3, NibbleType
    <3> QED
      BY <3>1, HeadOctet
  <2>2. h \div Nibbles = nd /\ h % Nibbles = nl
    <3> HIDE DEF nd, nl
    <3> QED
      BY <1>5, HeadOctetHalves
  <2>3. h # 0
    <3> HIDE DEF nd, nl
    <3>1. nd * Nibbles >= 0
      BY <1>1, <1>5, Z3
    <3> QED
      BY <1>1, <1>5, <3>1
  <2> QED
    BY <2>1, <2>2, <2>3
<1>8. head = (<<h>> \o e1) \o e2 /\ written = head \o opts[k].value
  BY DEF WrittenOption, OptionHead, delta, length
<1>9. /\ \A i \in 1 .. Len(written) : d.body[p + i - 1] = written[i]
      /\ p + Len(written) <= Len(d.body) + 1
  BY DEF Lies
<1> DEFINE l1 == Len(e1)
           l2 == Len(e2)
<1> HIDE DEF nd, nl, h, e1, e2, head, written
<1> DEFINE start == <<h>> \o e1
<1>10. /\ start \in Seq(Octets) /\ Len(start) = 1 + l1 /\ start[1] = h
       /\ l1 = 1 => start[2] = e1[1]
  <2>1. <<h>> \in Seq(Octets) /\ Len(<<h>>) = 1 /\ <<h>>[1] = h
    BY <1>7
  <2>2. /\ start \in Seq(Octets) /\ Len(start) = 1 + l1
        /\ \A i \in 1 .. 1 + l1 : start[i] = IF i <= 1 THEN <<h>>[i] ELSE e1[i - 1]
    BY <1>6, <2>1, ConcatProperties
  <2>3. 1 \in 1 .. 1 + l1 /\ (l1 = 1 => 2 \in 1 .. 1 + l1)
    BY <1>6
  <2> HIDE DEF start
  <2> QED
    BY <2>1, <2>2, <2>3
<1> HIDE DEF start
<1>11. /\ Len(head) = 1 + l1 + l2 /\ head[1] = h
       /\ l1 = 1 => head[2] = e1[1]
       /\ l2 = 1 => head[2 + l1] = e2[1]
  <2>1. head = start \o e2
    BY <1>8 DEF start
  <2>2. /\ Len(head) = 1 + l1 + l2
        /\ \A i \in 1 .. 1 + l1 + l2 :
             head[i] = IF i <= 1 + l1 THEN start[i] ELSE e2[i - (1 + l1)]
    BY <1>6, <1>10, <2>1, ConcatProperties
  <2>3. /\ 1 \in 1 .. 1 + l1 + l2 /\ 1 <= 1 + l1
        /\ l1 = 1 => 2 \in 1 .. 1 + l1 + l2 /\ 2 <= 1 + l1
        /\ l2 = 1 => /\ 2 + l1 \in 1 .. 1 + l1 + l2 /\ ~(2 + l1 <= 1 + l1)
                     /\ (2 + l1) - (1 + l1) = 1
    BY <1>6
  <2> QED
    BY <1>10, <2>2, <2>3
<1>12. \A i \in 1 .. Len(head) : written[i] = head[i]
  <2>1. \A i \in 1 .. Len(head) + length : written[i] =
          IF i <= Len(head) THEN head[i] ELSE opts[k].value[i - Len(head)]
    BY <1>2, <1>4, <1>8, ConcatProperties DEF length
  <2> QED
    BY <1>2, <1>4, <2>1
<1>13. \A i \in 1 .. Len(head) : d.body[p + i - 1] = head[i]
  BY <1>2, <1>4, <1>9, <1>12
<1>14. /\ d.body[p] = h
       /\ l1 = 1 => d.body[p + 1] = e1[1]
       /\ l2 = 1 => d.body[p + l1 + 1] = e2[1]
  <2> HIDE DEF l1, l2
  <2>1. l1 \in 0 .. 1 /\ l2 \in 0 .. 1
    BY <1>6 DEF l1, l2
  <2>2. 1 \in 1 .. Len(head) /\ p + 1 - 1 = p
    BY <1>11, <2>1
  <2>3. l1 = 1 => 2 \in 1 .. Len(head) /\ p + 2 - 1 = p + 1
    BY <1>11, <2>1
  <2>4. l2 = 1 => 2 + l1 \in 1 .. Len(head) /\ p + (2 + l1) - 1 = p + l1 + 1
    BY <1>11, <2>1
  <2>5. d.body[p] = h
    BY <1>11, <1>13, <2>2
  <2>6. l1 = 1 => d.body[p + 1] = e1[1]
    BY <1>11, <1>13, <2>3
  <2>7. l2 = 1 => d.body[p + l1 + 1] = e2[1]
    BY <1>11, <1>13, <2>4
  <2> QED
    BY <2>5, <2>6, <2>7
<1>15. /\ p + l1 <= Len(d.body) /\ p + l1 + l2 <= Len(d.body) /\ p <= Len(d.body)
       /\ p + l1 \in Nat \ {0} /\ p + l1 + l2 + 1 + length <= Len(d.body) + 1
       /\ p + Len(head) = p + l1 + l2 + 1
       /\ p + Len(written) = p + l1 + l2 + 1 + length
  <2> DEFINE lh == Len(head)
             lw == Len(written)
             lb == Len(d.body)
  <2>1. lw = lh + length /\ length \in Nat \ {0} /\ lb \in Nat /\ p + lw <= lb + 1
    BY <1>1, <1>2, <1>4, <1>9
  <2>2. lh = 1 + l1 + l2 /\ l1 \in 0 .. 1 /\ l2 \in 0 .. 1
    BY <1>6, <1>11
  <2> HIDE DEF lh, lw, lb, l1, l2
  <2>3. /\ p + l1 <= lb /\ p + l1 + l2 <= lb /\ p <= lb
        /\ p + l1 \in Nat \ {0} /\ p + l1 + l2 + 1 + length <= lb + 1
        /\ p + lh = p + l1 + l2 + 1
        /\ p + lw = p + l1 + l2 + 1 + length
    BY <2>1, <2>2
  <2> QED
    BY <2>3 DEF lh, lw, lb
<1>16. OctetAt(d, past, p) = h
  BY <1>14, <1>15 DEF OctetAt
<1>17. Field(d, past, nd, p) = [ok |-> TRUE, value |-> delta, last |-> p + l1]
  <2>1. nd = Nibble(delta) /\ e1 = Extension(Nibble(delta), delta)
        /\ l1 = ExtensionLength(Nibble(delta))
    BY <1>6 DEF nd, e1
  <2> HIDE DEF l1
  <2> QED
    BY <1>3, <1>14, <1>15, <2>1, FieldReads
<1>18. Field(d, past, nl, p + l1) = [ok |-> TRUE, value |-> length, last |-> p + l1 + l2]
  <2>1. nl = Nibble(length) /\ e2 = Extension(Nibble(length), length)
        /\ l2 = ExtensionLength(Nibble(length))
    BY <1>6 DEF nl, e2
  <2> DEFINE q == p + l1
  <2>2. q \in Nat \ {0} /\ q + l2 <= Len(d.body) /\ (l2 = 1 => d.body[q + 1] = e2[1])
    BY <1>14, <1>15
  <2> HIDE DEF l2, q
  <2>3. Field(d, past, nl, q) = [ok |-> TRUE, value |-> length, last |-> q + l2]
    BY <1>3, <2>1, <2>2, FieldReads
  <2> QED
    BY <2>3 DEF q
<1> HIDE DEF l1, l2
<1>19. OptionAt(d, past, p) =
         [ok |-> TRUE, delta |-> delta, first |-> p + l1 + l2 + 1,
          next |-> p + l1 + l2 + 1 + length]
  <2> DEFINE f == Field(d, past, nd, p)
             g == Field(d, past, nl, p + l1)
             fits == f.ok /\ g.ok /\ g.last + 1 + g.value <= Len(d.body) + 1
  <2>1. f.ok = TRUE /\ f.value = delta /\ f.last = p + l1
    BY <1>17
  <2>2. g.ok = TRUE /\ g.value = length /\ g.last = p + l1 + l2
    BY <1>18
  <2>3. OptionAt(d, past, p) =
          [ok |-> fits, delta |-> f.value, first |-> g.last + 1,
           next |-> g.last + 1 + g.value]
    BY <1>7, <1>16, <2>1 DEF OptionAt
  <2> HIDE DEF f, g
  <2>4. fits = TRUE
    BY <1>15, <2>1, <2>2
  <2> HIDE DEF fits
  <2> QED
    BY <2>1, <2>2, <2>3, <2>4
<1>20. OctetAt(d, past, p) # PAYLOAD_MARKER
  BY <1>7, <1>16 DEF PAYLOAD_MARKER
<1> QED
  BY <1>15, <1>19, <1>20 DEF delta, head, written
LEMMA OptionReadReads ==
  ASSUME NEW d \in Datagram, NEW past \in Octets, NEW opts, Legible(opts),
         NEW k \in 1 .. Len(opts), NEW p \in Nat \ {0}, Lies(d, p, opts, k)
  PROVE  OptionRead(d, past, p, NumberBefore(opts, k)) = opts[k]
<1> DEFINE v == opts[k].value
           lh == Len(OptionHead(opts, k))
           lw == Len(WrittenOption(opts, k))
           lb == Len(d.body)
           o == OptionAt(d, past, p)
<1>1. /\ opts \in Seq(Option) /\ v \in Seq(Octets) /\ lb \in Nat
      /\ opts[k] = [number |-> opts[k].number, value |-> v]
  BY LegibleType DEF Datagram
<1>2. /\ lh \in Nat \ {0} /\ lw = lh + Len(v) /\ OptionHead(opts, k) \in Seq(Octets)
      /\ p + lw <= lb + 1
      /\ \A i \in 1 .. lw : d.body[p + i - 1] = WrittenOption(opts, k)[i]
  BY <1>1, WrittenOptionType DEF Lies
<1>3. o.delta = Delta(opts, k) /\ o.first = p + lh /\ o.next = p + lw
  BY OptionReads
<1>4. \A i \in 1 .. Len(v) : WrittenOption(opts, k)[lh + i] = v[i]
  <2>1. \A i \in 1 .. lh + Len(v) : WrittenOption(opts, k)[i] =
          IF i <= lh THEN OptionHead(opts, k)[i] ELSE v[i - lh]
    BY <1>1, <1>2, ConcatProperties DEF WrittenOption
  <2> HIDE DEF lh, v
  <2> TAKE i \in 1 .. Len(v)
  <2>2. Len(v) \in Nat
    BY <1>1
  <2>3. lh + i \in 1 .. lh + Len(v) /\ ~(lh + i <= lh) /\ (lh + i) - lh = i
    BY <1>2, <2>2
  <2> QED
    BY <2>1, <2>3
<1> HIDE DEF v, lh, lw, lb, o
<1>5. Len(v) \in Nat /\ o.next - o.first = Len(v)
  BY <1>1, <1>2, <1>3
<1>6. ASSUME NEW i \in 1 .. Len(v) PROVE OctetAt(d, past, o.first + i - 1) = v[i]
  <2>1. /\ o.first + i - 1 = p + (lh + i) - 1 /\ p + (lh + i) - 1 <= lb
        /\ lh + i \in 1 .. lw
    BY <1>1, <1>2, <1>3, <1>5
  <2>2. d.body[p + (lh + i) - 1] = v[i]
    BY <1>2, <1>4, <2>1
  <2> QED
    BY <2>1, <2>2 DEF OctetAt, lb
<1>7. [i \in 1 .. o.next - o.first |-> OctetAt(d, past, o.first + i - 1)] = v
  <2>1. v = [i \in 1 .. Len(v) |-> v[i]]
    BY <1>1
  <2>2. [i \in 1 .. Len(v) |-> OctetAt(d, past, o.first + i - 1)] = [i \in 1 .. Len(v) |-> v[i]]
    BY <1>6
  <2> QED
    BY <1>5, <2>1, <2>2
<1>8. OptionRead(d, past, p, NumberBefore(opts, k)) =
        [number |-> NumberAfter(NumberBefore(opts, k), o.delta),
         value |-> [i \in 1 .. o.next - o.first |-> OctetAt(d, past, o.first + i - 1)]]
  BY DEF OptionRead, o
<1>9. NumberAfter(NumberBefore(opts, k), o.delta) = opts[k].number
  BY <1>3, ShortDelta
<1> QED
  BY <1>1, <1>7, <1>8, <1>9

-----------------------------------------------------------------------------
(* Where the octets of an option lie in all that is written.                 *)
LEMMA UptoIsPrefix ==
  ASSUME NEW opts \in Seq(Option)
  PROVE  \A k \in 0 .. Len(opts) :
           \A j \in 1 .. Len(Upto(opts, k)) : WrittenOptions(opts)[j] = Upto(opts, k)[j]
<1> DEFINE n == Len(opts)
           w == WrittenOptions(opts)
           Prefix(k) == \A j \in 1 .. Len(Upto(opts, k)) : w[j] = Upto(opts, k)[j]
           S == {i \in Nat : i \in 0 .. n => Prefix(n - i)}
<1>1. n \in Nat
  OBVIOUS
<1>2. ASSUME NEW k \in 1 .. n, Prefix(k) PROVE Prefix(k - 1)
  <2> DEFINE u == Upto(opts, k - 1)
             e == WrittenOption(opts, k)
  <2>1. u \in Seq(Octets) /\ e \in Seq(Octets) /\ Upto(opts, k) = u \o e
    BY UptoNext, WrittenOptionType
  <2> HIDE DEF u, e
  <2>2. /\ Len(u \o e) = Len(u) + Len(e)
        /\ \A j \in 1 .. Len(u) + Len(e) : (u \o e)[j] = IF j <= Len(u) THEN u[j] ELSE e[j - Len(u)]
    BY <2>1, ConcatProperties
  <2>3. Len(u) \in Nat /\ Len(e) \in Nat
    BY <2>1
  <2>4. ASSUME NEW j \in 1 .. Len(u) PROVE w[j] = u[j]
    <3>1. j \in 1 .. Len(u) + Len(e) /\ j <= Len(u)
      BY <2>3
    <3>2. w[j] = (u \o e)[j]
      BY <1>2, <2>1, <2>2, <3>1
    <3> QED
      BY <2>2, <3>1, <3>2
  <2> QED
    BY <2>4 DEF u
<1>3. Prefix(n)
  BY UptoAll
<1> HIDE DEF n, Prefix
<1>4. 0 \in S
  <2>1. n - 0 = n
    BY <1>1
  <2> QED
    BY <1>3, <2>1
<1>5. ASSUME NEW i \in S PROVE i + 1 \in S
  <2>1. i \in Nat
    BY <1>5
  <2> SUFFICES ASSUME i + 1 \in 0 .. n PROVE Prefix(n - (i + 1))
    BY <2>1
  <2>2. n - i \in 1 .. n /\ (n - i) - 1 = n - (i + 1) /\ i \in 0 .. n
    BY <1>1, <2>1
  <2>3. Prefix((n - i) - 1)
    BY <1>2, <1>5, <2>2
  <2> QED
    BY <2>2, <2>3
<1> HIDE DEF S
<1>6. \A i \in Nat : i \in S
  <2>1. S \subseteq Nat
    BY DEF S
  <2> QED
    BY <1>4, <1>5, <2>1, Induction
<1>7. ASSUME NEW k \in 0 .. n PROVE Prefix(k)
  <2>1. n - k \in Nat /\ n - k \in 0 .. n /\ n - (n - k) = k
    BY <1>1
  <2>2. Prefix(n - (n - k))
    BY <1>6, <2>1 DEF S
  <2> QED
    BY <2>1, <2>2
<1> QED
  BY <1>7 DEF n, Prefix

(* The octet after the token and the options before k.                       *)
PlaceOf(token, opts, k) == Len(token) + Len(Upto(opts, k - 1)) + 1

LEMMA OptionsLie ==
  ASSUME NEW d \in Datagram, NEW token \in Seq(Octets), NEW opts \in Seq(Option),
         NEW payload \in Seq(Octets), d.body = WrittenBody(token, opts, payload),
         NEW k \in 1 .. Len(opts)
  PROVE  /\ PlaceOf(token, opts, k) \in Nat \ {0}
         /\ Lies(d, PlaceOf(token, opts, k), opts, k)
         /\ PlaceOf(token, opts, k) + Len(WrittenOption(opts, k)) =
              Len(token) + Len(Upto(opts, k)) + 1
<1> DEFINE w == WrittenOptions(opts)
           tail == IF payload = <<>> THEN <<>> ELSE <<PAYLOAD_MARKER>> \o payload
           u == Upto(opts, k - 1)
           e == WrittenOption(opts, k)
           lt == Len(token)
           head == token \o w
<1>1. k \in 0 .. Len(opts) /\ k - 1 \in 0 .. Len(opts) /\ Len(opts) \in 0 .. Len(opts)
  OBVIOUS
<1>2. w \in Seq(Octets) /\ u \in Seq(Octets) /\ e \in Seq(Octets) /\ Upto(opts, k) = u \o e
  BY <1>1, UptoType, UptoAll, UptoNext, WrittenOptionType
<1>3. tail \in Seq(Octets)
  <2>1. PAYLOAD_MARKER \in Octets
    BY Widths DEF PAYLOAD_MARKER, Octets
  <2>2. <<PAYLOAD_MARKER>> \o payload \in Seq(Octets)
    BY <2>1
  <2> QED
    BY <2>2
<1>4. d.body = head \o tail
  BY DEF WrittenBody
<1> HIDE DEF tail
<1>5. /\ head \in Seq(Octets) /\ Len(head) = lt + Len(w) /\ lt \in Nat /\ Len(w) \in Nat
      /\ \A j \in 1 .. lt + Len(w) : head[j] = IF j <= lt THEN token[j] ELSE w[j - lt]
  <2> HIDE DEF w
  <2> QED
    BY <1>2, ConcatProperties
<1> HIDE DEF head
<1>6. /\ Len(d.body) = Len(head) + Len(tail) /\ Len(tail) \in Nat
      /\ \A j \in 1 .. Len(head) + Len(tail) :
           d.body[j] = IF j <= Len(head) THEN head[j] ELSE tail[j - Len(head)]
  <2>1. head \in Seq(Octets)
    BY <1>5
  <2>2. /\ Len(head \o tail) = Len(head) + Len(tail)
        /\ \A j \in 1 .. Len(head) + Len(tail) :
             (head \o tail)[j] = IF j <= Len(head) THEN head[j] ELSE tail[j - Len(head)]
    BY <1>3, <2>1, ConcatProperties
  <2>3. Len(tail) \in Nat
    BY <1>3
  <2> QED
    BY <1>4, <2>2, <2>3
<1>7. /\ Len(u) \in Nat /\ Len(e) \in Nat /\ Len(Upto(opts, k)) = Len(u) + Len(e)
      /\ \A i \in 1 .. Len(u) + Len(e) :
           Upto(opts, k)[i] = IF i <= Len(u) THEN u[i] ELSE e[i - Len(u)]
  <2> HIDE DEF u, e
  <2> QED
    BY <1>2, ConcatProperties
<1>8. /\ Len(Upto(opts, k)) <= Len(w)
      /\ \A j \in 1 .. Len(Upto(opts, k)) : w[j] = Upto(opts, k)[j]
  BY <1>1, UptoMonotone, UptoIsPrefix
<1> HIDE DEF w, u, e, lt
<1>9. ASSUME NEW i \in 1 .. Len(e) PROVE d.body[lt + Len(u) + 1 + i - 1] = e[i]
  <2> DEFINE j == Len(u) + i
  <2>1. /\ j \in 1 .. Len(u) + Len(e) /\ ~(j <= Len(u)) /\ j - Len(u) = i
        /\ j \in 1 .. Len(w) /\ j \in 1 .. Len(Upto(opts, k))
        /\ lt + Len(u) + 1 + i - 1 = lt + j
    BY <1>5, <1>7, <1>8
  <2> HIDE DEF j
  <2>2. w[j] = e[i]
    BY <1>7, <1>8, <2>1
  <2>3. lt + j \in 1 .. lt + Len(w) /\ ~(lt + j <= lt) /\ (lt + j) - lt = j
    BY <1>5, <2>1
  <2>4. head[lt + j] = w[j]
    BY <1>5, <2>3
  <2>5. lt + j \in 1 .. Len(head) + Len(tail) /\ lt + j <= Len(head)
    BY <1>5, <1>6, <2>3
  <2>6. d.body[lt + j] = head[lt + j]
    BY <1>6, <2>5
  <2> QED
    BY <2>1, <2>2, <2>4, <2>6
<1>10. /\ lt + Len(u) + 1 + Len(e) <= Len(d.body) + 1
       /\ lt + Len(u) + 1 \in Nat \ {0}
       /\ lt + Len(u) + 1 + Len(e) = lt + Len(Upto(opts, k)) + 1
  BY <1>5, <1>6, <1>7, <1>8
<1> QED
  BY <1>9, <1>10 DEF Lies, PlaceOf, lt, u, e
(* What lies behind the options: nothing, or the marker and the payload.     *)
LEMMA PayloadLies ==
  ASSUME NEW d \in Datagram, NEW token \in Seq(Octets), NEW opts \in Seq(Option),
         NEW payload \in Seq(Octets), d.body = WrittenBody(token, opts, payload)
  PROVE  LET p == Len(token) + Len(WrittenOptions(opts)) + 1
         IN  /\ p \in Nat \ {0}
             /\ payload = <<>> => Len(d.body) = p - 1
             /\ payload # <<>> => /\ d.body[p] = PAYLOAD_MARKER
                                  /\ Len(d.body) = p + Len(payload)
                                  /\ SubSeq(d.body, p + 1, Len(d.body)) = payload
             /\ \A i \in 1 .. Len(token) : d.body[i] = token[i]
             /\ Len(token) <= Len(d.body)
<1> DEFINE w == WrittenOptions(opts)
           tail == IF payload = <<>> THEN <<>> ELSE <<PAYLOAD_MARKER>> \o payload
           lt == Len(token)
           lp == Len(payload)
           head == token \o w
           p == lt + Len(w) + 1
           b == d.body
<1>1. w \in Seq(Octets) /\ lt \in Nat /\ lp \in Nat /\ (lp = 0 <=> payload = <<>>)
  <2>1. Len(opts) \in 0 .. Len(opts)
    OBVIOUS
  <2> QED
    BY <2>1, UptoType, UptoAll
<1>2. /\ payload = <<>> => tail = <<>>
      /\ payload # <<>> => /\ tail \in Seq(Octets) /\ Len(tail) = 1 + lp
                           /\ tail[1] = PAYLOAD_MARKER
                           /\ \A i \in 1 .. lp : tail[1 + i] = payload[i]
  <2>1. PAYLOAD_MARKER \in Octets
    BY Widths DEF PAYLOAD_MARKER, Octets
  <2> DEFINE m == <<PAYLOAD_MARKER>>
  <2>2. m \in Seq(Octets) /\ Len(m) = 1 /\ m[1] = PAYLOAD_MARKER
    BY <2>1
  <2> HIDE DEF m
  <2>3. /\ m \o payload \in Seq(Octets) /\ Len(m \o payload) = 1 + lp
        /\ \A i \in 1 .. 1 + lp : (m \o payload)[i] = IF i <= 1 THEN m[i] ELSE payload[i - 1]
    <3>1. /\ m \o payload \in Seq(Octets) /\ Len(m \o payload) = Len(m) + Len(payload)
          /\ \A i \in 1 .. Len(m) + Len(payload) :
               (m \o payload)[i] = IF i <= Len(m) THEN m[i] ELSE payload[i - Len(m)]
      BY <2>2, ConcatProperties
    <3> QED
      BY <2>2, <3>1
  <2> HIDE DEF lp
  <2>4. (m \o payload)[1] = PAYLOAD_MARKER
    <3>1. 1 \in 1 .. 1 + lp
      BY <1>1
    <3> QED
      BY <2>2, <2>3, <3>1
  <2>5. \A i \in 1 .. lp : (m \o payload)[1 + i] = payload[i]
    <3> TAKE i \in 1 .. lp
    <3>1. 1 + i \in 1 .. 1 + lp /\ ~(1 + i <= 1) /\ (1 + i) - 1 = i
      BY <1>1
    <3> QED
      BY <2>3, <3>1
  <2> QED
    BY <2>3, <2>4, <2>5 DEF m
<1>3. tail \in Seq(Octets)
  <2>1. <<>> \in Seq(Octets)
    OBVIOUS
  <2> HIDE DEF tail
  <2> QED
    BY <1>2, <2>1
<1>4. b = head \o tail
  BY DEF WrittenBody
<1> HIDE DEF tail
<1>5. /\ head \in Seq(Octets) /\ Len(head) = lt + Len(w) /\ Len(w) \in Nat
      /\ \A j \in 1 .. lt + Len(w) : head[j] = IF j <= lt THEN token[j] ELSE w[j - lt]
  <2> HIDE DEF w
  <2> QED
    BY <1>1, ConcatProperties
<1> HIDE DEF head, b
<1>6. /\ Len(b) = Len(head) + Len(tail) /\ Len(tail) \in Nat
      /\ \A j \in 1 .. Len(head) + Len(tail) :
           b[j] = IF j <= Len(head) THEN head[j] ELSE tail[j - Len(head)]
      /\ b \in Seq(Octets)
  <2>1. /\ Len(head \o tail) = Len(head) + Len(tail)
        /\ \A j \in 1 .. Len(head) + Len(tail) :
             (head \o tail)[j] = IF j <= Len(head) THEN head[j] ELSE tail[j - Len(head)]
        /\ head \o tail \in Seq(Octets)
    BY <1>3, <1>5, ConcatProperties
  <2>2. Len(tail) \in Nat
    BY <1>3
  <2> QED
    BY <1>4, <2>1, <2>2
<1> HIDE DEF w, lt, lp
<1>7. \A i \in 1 .. lt : b[i] = token[i]
  <2> TAKE i \in 1 .. lt
  <2>1. i \in 1 .. lt + Len(w) /\ i \in 1 .. Len(head) + Len(tail) /\ i <= Len(head) /\ i <= lt
    BY <1>1, <1>5, <1>6
  <2> QED
    BY <1>5, <1>6, <2>1
<1>8. p \in Nat \ {0} /\ lt <= Len(b) /\ Len(head) = p - 1
  BY <1>1, <1>5, <1>6
<1>9. ASSUME payload = <<>> PROVE Len(b) = p - 1
  <2>1. Len(tail) = 0
    BY <1>2, <1>9
  <2> QED
    BY <1>5, <1>6, <1>8, <2>1
<1>10. ASSUME payload # <<>>
       PROVE  /\ b[p] = PAYLOAD_MARKER /\ Len(b) = p + lp
              /\ SubSeq(b, p + 1, Len(b)) = payload
  <2> HIDE DEF p
  <2>1. Len(tail) = 1 + lp /\ tail[1] = PAYLOAD_MARKER
        /\ \A i \in 1 .. lp : tail[1 + i] = payload[i]
    BY <1>2, <1>10
  <2>2. Len(b) = p + lp
    BY <1>1, <1>6, <1>8, <2>1
  <2>3. p \in 1 .. Len(head) + Len(tail) /\ ~(p <= Len(head)) /\ p - Len(head) = 1
    BY <1>1, <1>8, <2>1
  <2>4. b[p] = PAYLOAD_MARKER
    BY <1>6, <2>1, <2>3
  <2>5. \A i \in 1 .. lp : b[p + i] = payload[i]
    <3> TAKE i \in 1 .. lp
    <3>1. /\ p + i \in 1 .. Len(head) + Len(tail) /\ ~(p + i <= Len(head))
          /\ (p + i) - Len(head) = 1 + i
      BY <1>1, <1>8, <2>1
    <3> QED
      BY <1>6, <2>1, <3>1
  <2> DEFINE s == SubSeq(b, p + 1, Len(b))
  <2>6. /\ s \in Seq(Octets) /\ Len(s) = lp
        /\ \A i \in 1 .. lp : s[i] = b[p + i]
    <3>1. \A i \in p + 1 .. Len(b) : b[i] \in Octets
      BY <1>6, <1>8
    <3>2. p + 1 \in Int /\ Len(b) \in Int /\ Len(b) - (p + 1) + 1 = lp
      BY <1>1, <1>8, <2>2
    <3>3. /\ s \in Seq(Octets)
          /\ Len(s) = IF p + 1 <= Len(b) THEN Len(b) - (p + 1) + 1 ELSE 0
          /\ \A i \in 1 .. Len(b) - (p + 1) + 1 : s[i] = b[(p + 1) + i - 1]
      BY <3>1, <3>2, SubSeqProperties
    <3>4. p + 1 <= Len(b)
      BY <1>1, <1>8, <1>10, <2>2
    <3>5. \A i \in 1 .. lp : (p + 1) + i - 1 = p + i
      BY <1>1, <1>8
    <3> HIDE DEF s
    <3> QED
      BY <3>2, <3>3, <3>4, <3>5
  <2> HIDE DEF s
  <2>7. s = payload
    <3>1. Len(s) = Len(payload) /\ \A i \in 1 .. Len(payload) : s[i] = payload[i]
      BY <2>5, <2>6 DEF lp
    <3> QED
      BY <2>6, <3>1
  <2> QED
    BY <2>2, <2>4, <2>7 DEF s
<1> QED
  BY <1>7, <1>8, <1>9, <1>10 DEF w, lt, lp, b
(* Reading from the place of option k gives what is left of the list.        *)
LEMMA ReadsOnward ==
  ASSUME NEW d \in Datagram, NEW past \in Octets, NEW token \in Seq(Octets),
         NEW opts, Legible(opts), NEW payload \in Seq(Octets),
         d.body = WrittenBody(token, opts, payload)
  PROVE  \A k \in 1 .. Len(opts) + 1 :
           Reader(d, past)[<<PlaceOf(token, opts, k), NumberBefore(opts, k)>>] =
             [ok |-> TRUE, options |-> SubSeq(opts, k, Len(opts)),
              payloadOffset |-> Len(token) + Len(WrittenOptions(opts)) + 2]
<1> DEFINE n == Len(opts)
           at(k) == <<PlaceOf(token, opts, k), NumberBefore(opts, k)>>
           offset == Len(token) + Len(WrittenOptions(opts)) + 2
           result(k) == [ok |-> TRUE, options |-> SubSeq(opts, k, n), payloadOffset |-> offset]
           Reads(k) == Reader(d, past)[at(k)] = result(k)
           S == {i \in Nat : i \in 0 .. n => Reads(n + 1 - i)}
<1>1. opts \in Seq(Option) /\ n \in Nat
  BY LegibleType
<1>2. at(n + 1) \in Places /\ PlaceOf(token, opts, n + 1) = offset - 1
  <2>1. PlaceOf(token, opts, n + 1) = Len(token) + Len(WrittenOptions(opts)) + 1
    <3>1. (n + 1) - 1 = n
      BY <1>1
    <3> QED
      BY <1>1, <3>1, UptoAll DEF PlaceOf
  <2>2. Len(token) + Len(WrittenOptions(opts)) + 1 \in Nat \ {0}
    BY <1>1, PayloadLies
  <2>3. Len(token) \in Nat /\ Len(WrittenOptions(opts)) \in Nat
    <3>1. n \in 0 .. n
      BY <1>1
    <3> QED
      BY <1>1, <3>1, UptoType, UptoAll
  <2>4. NumberBefore(opts, n + 1) \in Nat
    <3>1. CASE n = 0
      BY <3>1 DEF NumberBefore
    <3>2. CASE n # 0
      <4>1. n \in 1 .. n /\ n + 1 # 1 /\ (n + 1) - 1 = n
        BY <1>1, <3>2
      <4>2. opts[n].number \in Nat
        <5>1. opts[n].number \in 0 .. Octet - 1
          BY <4>1, LegibleType
        <5> QED
          BY <5>1, Widths
      <4> QED
        BY <4>1, <4>2 DEF NumberBefore
    <3> QED
      BY <3>1, <3>2
  <2> QED
    BY <2>1, <2>2, <2>3, <2>4 DEF Places
<1>3. Reads(n + 1)
  <2> DEFINE p == PlaceOf(token, opts, n + 1)
  <2>1. Reader(d, past)[at(n + 1)] = ReadStep(d, past, Reader(d, past), at(n + 1))
    BY <1>2, ReaderUnfolds
  <2>2. at(n + 1)[1] = p
    OBVIOUS
  <2>3. Ends(d, past, p)
    <3> DEFINE q == Len(token) + Len(WrittenOptions(opts)) + 1
    <3>1. p = q
      <4>1. (n + 1) - 1 = n
        BY <1>1
      <4> QED
        BY <1>1, <4>1, UptoAll DEF PlaceOf
    <3>2. /\ q \in Nat \ {0}
          /\ payload = <<>> => Len(d.body) = q - 1
          /\ payload # <<>> => /\ d.body[q] = PAYLOAD_MARKER
                               /\ Len(d.body) = q + Len(payload)
      BY <1>1, PayloadLies
    <3> HIDE DEF p, q
    <3>3. CASE payload = <<>>
      BY <3>1, <3>2, <3>3 DEF Ends
    <3>4. CASE payload # <<>>
      <4>1. Len(payload) \in Nat
        OBVIOUS
      <4>2. q <= Len(d.body)
        BY <3>2, <3>4, <4>1
      <4> QED
        BY <3>1, <3>2, <3>4, <4>2 DEF Ends, OctetAt
    <3> QED
      BY <3>3, <3>4
  <2>4. SubSeq(opts, n + 1, n) = <<>>
    BY <1>1, SubSeqEmpty
  <2>5. p + 1 = offset
    <3>1. Len(token) + Len(WrittenOptions(opts)) + 1 \in Nat \ {0}
      BY <1>1, PayloadLies
    <3>2. n \in 0 .. n
      BY <1>1
    <3>3. Len(token) \in Nat /\ Len(WrittenOptions(opts)) \in Nat
      BY <1>1, <3>2, UptoType, UptoAll
    <3>4. p = offset - 1
      BY <1>2
    <3> HIDE DEF p
    <3> QED
      BY <3>3, <3>4
  <2>6. ReadStep(d, past, Reader(d, past), at(n + 1)) =
          [ok |-> TRUE, options |-> <<>>, payloadOffset |-> p + 1]
    <3> HIDE DEF at, p
    <3> QED
      BY <2>2, <2>3 DEF ReadStep
  <2> QED
    BY <2>1, <2>4, <2>5, <2>6
<1>4. ASSUME NEW k \in 1 .. n, Reads(k + 1) PROVE Reads(k)
  <2> DEFINE p == PlaceOf(token, opts, k)
             b == NumberBefore(opts, k)
             a == at(k)
             rest == SubSeq(opts, k + 1, n)
  <2>1. /\ p \in Nat \ {0} /\ Lies(d, p, opts, k)
        /\ p + Len(WrittenOption(opts, k)) = Len(token) + Len(Upto(opts, k)) + 1
    BY <1>1, OptionsLie
  <2>2. b \in Nat /\ NumberAfter(b, Delta(opts, k)) = opts[k].number
    BY ShortDelta, Widths
  <2>3. a \in Places /\ a[1] = p /\ a[2] = b
    BY <2>1, <2>2 DEF Places
  <2>4. /\ p <= Len(d.body) /\ OctetAt(d, past, p) # PAYLOAD_MARKER
        /\ OptionAt(d, past, p) =
              [ok |-> TRUE, delta |-> Delta(opts, k),
               first |-> p + Len(OptionHead(opts, k)),
               next |-> p + Len(WrittenOption(opts, k))]
    BY <2>1, OptionReads
  <2>5. OptionRead(d, past, p, b) = opts[k]
    BY <2>1, OptionReadReads
  <2>6. Onward(d, past, a) = at(k + 1)
    <3>1. Onward(d, past, a) = <<p + Len(WrittenOption(opts, k)), opts[k].number>>
      <4> HIDE DEF p, b, a
      <4> QED
        BY <2>3, <2>4, <2>5 DEF Onward
    <3>2. (k + 1) - 1 = k /\ k + 1 # 1
      BY <1>1
    <3>3. at(k + 1) = <<Len(token) + Len(Upto(opts, k)) + 1, opts[k].number>>
      BY <3>2 DEF PlaceOf, NumberBefore
    <3> QED
      BY <2>1, <3>1, <3>3
  <2>7. ~Ends(d, past, p)
    <3>1. Len(d.body) \in Nat
      BY DEF Datagram
    <3> HIDE DEF p
    <3> QED
      BY <2>1, <2>4, <3>1 DEF Ends
  <2>8. Reader(d, past)[a] = ReadStep(d, past, Reader(d, past), a)
    BY <2>3, ReaderUnfolds
  <2>9. Reader(d, past)[Onward(d, past, a)] = result(k + 1)
    BY <1>4, <2>6
  <2>10. ReadStep(d, past, Reader(d, past), a) =
           [result(k + 1) EXCEPT !.options = <<opts[k]>> \o @]
    <3>1. OptionAt(d, past, p).ok
      BY <2>4
    <3> HIDE DEF p, b, a, result
    <3> QED
      BY <2>3, <2>5, <2>7, <2>9, <3>1 DEF ReadStep
  <2>11. <<opts[k]>> \o rest = SubSeq(opts, k, n)
    <3>1. k \in 1 .. Len(opts) /\ n \in k .. Len(opts)
      BY <1>1
    <3> QED
      BY <1>1, <3>1, SubSeqRecursiveFirst
  <2>12. [result(k + 1) EXCEPT !.options = <<opts[k]>> \o @] = result(k)
    <3> DEFINE more == <<opts[k]>> \o rest
               yes == TRUE
               next == [ok |-> yes, options |-> rest, payloadOffset |-> offset]
    <3>1. result(k + 1) = next
      OBVIOUS
    <3>2. next.options = rest
      OBVIOUS
    <3>3. result(k) = [ok |-> TRUE, options |-> more, payloadOffset |-> offset]
      BY <2>11
    <3> HIDE DEF offset, rest, result
    <3>4. [next EXCEPT !.options = <<opts[k]>> \o @] = [next EXCEPT !.options = more]
      BY <3>2
    <3> HIDE DEF more, yes
    <3>5. [next EXCEPT !.options = more]
            = [ok |-> yes, options |-> more, payloadOffset |-> offset]
      OBVIOUS
    <3> HIDE DEF next
    <3> QED
      BY <3>1, <3>3, <3>4, <3>5 DEF yes
  <2> QED
    BY <2>8, <2>10, <2>12
<1> HIDE DEF n, Reads
<1>5. 0 \in S
  <2>1. n + 1 - 0 = n + 1
    BY <1>1
  <2> QED
    BY <1>3, <2>1
<1>6. ASSUME NEW i \in S PROVE i + 1 \in S
  <2>1. i \in Nat
    BY <1>6
  <2> SUFFICES ASSUME i + 1 \in 0 .. n PROVE Reads(n + 1 - (i + 1))
    BY <2>1
  <2>2. /\ n - i \in 1 .. n /\ i \in 0 .. n
        /\ n + 1 - (i + 1) = n - i /\ n + 1 - i = (n - i) + 1
    BY <1>1, <2>1
  <2>3. Reads((n - i) + 1)
    BY <1>6, <2>2
  <2> QED
    BY <1>4, <2>2, <2>3
<1> HIDE DEF S
<1>7. \A i \in Nat : i \in S
  <2>1. S \subseteq Nat
    BY DEF S
  <2> QED
    BY <1>5, <1>6, <2>1, Induction
<1>8. ASSUME NEW k \in 1 .. n + 1 PROVE Reads(k)
  <2>1. n + 1 - k \in Nat /\ n + 1 - k \in 0 .. n /\ n + 1 - (n + 1 - k) = k
    BY <1>1
  <2>2. Reads(n + 1 - (n + 1 - k))
    BY <1>7, <2>1 DEF S
  <2> QED
    BY <2>1, <2>2
<1> QED
  BY <1>8 DEF n, Reads
(* A message whose options are short and in order is read as it was written: *)
(* its options, where its payload begins, and the payload; and it has a      *)
(* payload to be read exactly if one was written.                            *)
THEOREM WrittenIsRead ==
  ASSUME NEW d \in Datagram, NEW past \in Octets, NEW token \in Seq(Octets),
         NEW opts, Legible(opts), NEW payload \in Seq(Octets),
         d.body = WrittenBody(token, opts, payload), d.tkl = Len(token)
  PROVE  /\ OptionsReadable(d, past)
         /\ ReadOptions(d, past).options = opts
         /\ PayloadReadable(d, past) <=> payload # <<>>
         /\ payload # <<>> => ReadPayload(d, past) = payload
<1> DEFINE p == Len(token) + Len(WrittenOptions(opts)) + 1
<1>1. opts \in Seq(Option) /\ Len(opts) \in Nat /\ Len(token) \in Nat
  BY LegibleType
<1>2. PlaceOf(token, opts, 1) = d.tkl + 1 /\ NumberBefore(opts, 1) = 0
  <2>1. Len(Upto(opts, 1 - 1)) = 0
    BY <1>1, UptoNone
  <2> QED
    BY <1>1, <2>1 DEF PlaceOf, NumberBefore
<1>3. SubSeq(opts, 1, Len(opts)) = opts
  BY <1>1
<1>4. /\ p \in Nat \ {0}
      /\ payload = <<>> => Len(d.body) = p - 1
      /\ payload # <<>> => /\ Len(d.body) = p + Len(payload)
                           /\ SubSeq(d.body, p + 1, Len(d.body)) = payload
  BY <1>1, PayloadLies
<1>5. p + 1 = Len(token) + Len(WrittenOptions(opts)) + 2
  <2>1. Len(opts) \in 0 .. Len(opts)
    BY <1>1
  <2>2. Len(WrittenOptions(opts)) \in Nat
    BY <1>1, <2>1, UptoType, UptoAll
  <2> QED
    BY <1>1, <2>2
<1>6. ReadOptions(d, past) = [ok |-> TRUE, options |-> opts, payloadOffset |-> p + 1]
  <2>1. 1 \in 1 .. Len(opts) + 1
    BY <1>1
  <2>2. Reader(d, past)[<<PlaceOf(token, opts, 1), NumberBefore(opts, 1)>>] =
          [ok |-> TRUE, options |-> SubSeq(opts, 1, Len(opts)),
           payloadOffset |-> Len(token) + Len(WrittenOptions(opts)) + 2]
    <3>1. \A k \in 1 .. Len(opts) + 1 :
             Reader(d, past)[<<PlaceOf(token, opts, k), NumberBefore(opts, k)>>] =
               [ok |-> TRUE, options |-> SubSeq(opts, k, Len(opts)),
                payloadOffset |-> Len(token) + Len(WrittenOptions(opts)) + 2]
      BY ReadsOnward
    <3> QED
      BY <2>1, <3>1
  <2> HIDE DEF p
  <2> QED
    BY <1>2, <1>3, <1>5, <2>2, ReadOptionsReader
<1> HIDE DEF p
<1>7. OptionsReadable(d, past) /\ ReadOptions(d, past).options = opts
  BY <1>6 DEF OptionsReadable
<1>8. PayloadReadable(d, past) <=> payload # <<>>
  <2>1. PayloadReadable(d, past) <=> p + 1 <= Len(d.body) + 1
    BY <1>6 DEF PayloadReadable
  <2>2. CASE payload = <<>>
    BY <1>4, <2>1, <2>2
  <2>3. CASE payload # <<>>
    <3>1. Len(payload) \in Nat
      OBVIOUS
    <3> QED
      BY <1>4, <2>1, <2>3, <3>1
  <2> QED
    BY <2>2, <2>3
<1>9. payload # <<>> => ReadPayload(d, past) = payload
  BY <1>4, <1>6 DEF ReadPayload
<1> QED
  BY <1>7, <1>8, <1>9
=============================================================================
