-------------------------- MODULE Blockwise_proofs --------------------------
(* What a block2 object and a server keep in step, for every file up to the  *)
(* limit of the two-octet form.                                              *)
EXTENDS Blockwise, BlockOption_proofs

LEMMA TypeInit == Init => TypeOK
<1>1. EmptyOption \in OptionValue
  BY DEF EmptyOption, OptionValue
<1>2. 0 \in 0 .. MaxNumber + 1
  BY MaxNumberType
<1>3. SUFFICES ASSUME Init PROVE TypeOK
  OBVIOUS
<1>4. /\ number = 0 /\ more = FALSE /\ size = 0 /\ option = EmptyOption
      /\ serverSize \in ServerSizes /\ taken = 0 /\ phase = "request"
  BY <1>3 DEF Init
<1>5. number \in 0 .. MaxNumber + 1 /\ option \in OptionValue
  BY <1>1, <1>2, <1>4
<1>6. size \in {0} \cup BlockSizes /\ taken \in Nat /\ more \in BOOLEAN
  BY <1>4
<1> QED
  BY <1>4, <1>5, <1>6 DEF TypeOK

LEMMA TypeStep ==
  ASSUME TypeOK, [Next]_vars
  PROVE  TypeOK'
<1>1. MaxNumber \in Nat /\ EmptyOption \in OptionValue
  BY MaxNumberType DEF EmptyOption, OptionValue
<1>2. CASE SetHeader
  <2>1. number \in Nat /\ MoreToAsk \in BOOLEAN
    BY <1>1 DEF TypeOK, MoreToAsk
  <2>2. SizeToAsk \in {0} \cup BlockSizes
    <3>1. SizeOptions[8] = BLOCK_MAX_SIZE
      BY DEF BLOCK_MAX_SIZE, SizeOptions
    <3>2. BLOCK_MAX_SIZE \in BlockSizes
      BY <3>1 DEF BlockSizes
    <3> QED
      BY <3>2 DEF TypeOK, SizeToAsk
  <2>3. option' \in OptionValue
    BY <1>1, <1>2, <2>1, EncodedOption DEF SetHeader
  <2> QED
    BY <1>2, <2>1, <2>2, <2>3 DEF SetHeader, TypeOK
<1>3. CASE Serve
  <2>1. NumberOf(option.digits) \in Nat
    BY <1>1, NumberRange DEF TypeOK, OptionValue
  <2>2. option' \in OptionValue
    <3> DEFINE n == NumberOf(option.digits)
    <3>1. option' = PeerEncode(n, n < LastBlock, serverSize)
      BY <1>3 DEF Serve
    <3>2. (n < LastBlock) \in BOOLEAN
      OBVIOUS
    <3> HIDE DEF n
    <3>3. n \in Nat
      BY <2>1 DEF n
    <3> QED
      BY <3>1, <3>2, <3>3, PeerOption
  <2> QED
    BY <1>3, <2>2 DEF Serve, TypeOK
<1>4. CASE GetHeader
  <2> PICK read \in {option, ParsedFirst(option)} :
        LET decoded == DecodeBlockOption(read)
        IN  /\ size' = decoded.size
            /\ more' = FALSE
            /\ number' = IF decoded.more THEN decoded.number + 1 ELSE decoded.number
            /\ phase' = IF decoded.more THEN "request" ELSE "done"
    BY <1>4 DEF GetHeader
  <2> DEFINE decoded == DecodeBlockOption(read)
  <2>1. read \in OptionValue
    BY ParsedFirstType DEF TypeOK
  <2>2. decoded.number \in 0 .. MaxNumber /\ decoded.size \in BlockSizes
    BY <2>1, DecodedType
  <2>3. /\ size' = decoded.size /\ more' = FALSE
        /\ number' \in {decoded.number, decoded.number + 1}
        /\ phase' \in {"request", "done"}
    OBVIOUS
  <2>4. taken' = taken + 1 /\ UNCHANGED <<option, serverSize>>
    BY <1>4 DEF GetHeader
  <2> HIDE DEF decoded
  <2>5. number' \in 0 .. MaxNumber + 1
    <3>1. \A n \in 0 .. MaxNumber : n \in 0 .. MaxNumber + 1 /\ n + 1 \in 0 .. MaxNumber + 1
      BY MaxNumberType
    <3> QED
      BY <2>2, <2>3, <3>1
  <2>6. size' \in {0} \cup BlockSizes /\ more' \in BOOLEAN
    BY <2>2, <2>3
  <2>7. taken' \in Nat /\ option' \in OptionValue /\ serverSize' \in ServerSizes
    BY <2>4 DEF TypeOK
  <2> QED
    BY <2>3, <2>5, <2>6, <2>7 DEF TypeOK
<1>5. CASE UNCHANGED vars
  BY <1>5 DEF vars, TypeOK
<1> QED
  BY <1>2, <1>3, <1>4, <1>5 DEF Next

(* Whatever the size of the file and the sizes the servers impose, number,   *)
(* size and option keep their types, also in the three-octet form.           *)
THEOREM BlockwiseTypeOK == Spec => []TypeOK
BY TypeInit, TypeStep, PTL DEF Spec

-----------------------------------------------------------------------------
(* What holds between the turns: before a request the client holds the number*)
(* of the next block and the server's size; a request carries that number;   *)
(* an answer carries it back, decodable, with the more bit of the file.      *)
Turns ==
  /\ number \in Nat /\ taken \in Nat
  /\ serverSize \in {16, 32, 64, 128, 256, 512, 1024, 2048}
  /\ phase = "request" =>
       number = taken /\ taken <= LastBlock /\ (taken > 0 => size = serverSize)
  /\ phase = "asked" =>
       /\ NumberOf(option.digits) = taken /\ taken <= LastBlock
       /\ taken > 0 => SizeOptions[option.szx + 1] = serverSize
  /\ phase = "answered" =>
       /\ NumberOf(option.digits) = taken /\ taken <= LastBlock
       /\ option.more = (taken < LastBlock)
       /\ SizeOptions[option.szx + 1] = serverSize
       /\ NumberOf(ParsedFirst(option).digits) = taken

LEMMA TurnsInit == Init => Turns
BY LastBlockAssumption, ServerSizesAssumption, SizesListed DEF Init, Turns

LEMMA TurnsStep ==
  ASSUME LastBlock < Nib * Nib * Nib, Turns, [Next]_vars
  PROVE  Turns'
<1>1. LastBlock \in Nat /\ MaxNumber \in Nat
  BY LastBlockAssumption, NibAssumption DEF MaxNumber
<1>2. \A n \in Nat : n <= LastBlock => n < Nib * Nib * Nib
  BY <1>1, NibAssumption
<1>3. CASE SetHeader
  <2>1. number \in Nat /\ number = taken /\ number <= LastBlock /\ phase = "request"
    BY <1>3 DEF SetHeader, Turns
  <2>2. number < Nib * Nib * Nib
    BY <1>2, <2>1
  <2>3. /\ taken' = taken /\ number' = number /\ serverSize' = serverSize
        /\ phase' \in {"asked", "failed"}
    BY <1>3 DEF SetHeader
  <2>4. CASE phase' = "asked"
    <3> DEFINE v == EncodeBlockOption(number, MoreToAsk, SizeToAsk)
    <3>1. option' = AddOption(v)
      BY <1>3, <2>4 DEF SetHeader
    <3>2. /\ option'.digits = <<0, 0, 0, 0>> \o Digits(number)
          /\ option'.szx = SizeToSizeoption(SizeToAsk)
      BY <3>1 DEF AddOption, EncodeBlockOption
    <3>3. NumberOf(option'.digits) = number
      BY <2>1, <2>2, <3>2, RoundTrip
    <3>4. taken > 0 => SizeOptions[option'.szx + 1] = serverSize
      <4> SUFFICES ASSUME taken > 0 PROVE SizeOptions[option'.szx + 1] = serverSize
        OBVIOUS
      <4>1. SizeToAsk = serverSize
        BY <2>1 DEF SizeToAsk, Turns
      <4> QED
        BY <3>2, <4>1, SizeTable DEF Turns
    <3> QED
      BY <2>1, <2>3, <2>4, <3>3, <3>4 DEF Turns
  <2>5. CASE phase' = "failed"
    BY <2>3, <2>5 DEF Turns
  <2> QED
    BY <2>3, <2>4, <2>5
<1>4. CASE Serve
  <2>1. /\ NumberOf(option.digits) = taken /\ taken \in Nat /\ taken <= LastBlock
        /\ serverSize \in {16, 32, 64, 128, 256, 512, 1024, 2048}
    BY <1>4 DEF Serve, Turns
  <2>2. /\ option' = PeerEncode(taken, taken < LastBlock, serverSize)
        /\ phase' = "answered" /\ taken' = taken /\ number' = number
        /\ serverSize' = serverSize
    BY <1>4, <2>1 DEF Serve
  <2>3. NumberOf(option'.digits) = taken /\ NumberOf(ParsedFirst(option').digits) = taken
    BY <1>2, <2>1, <2>2, RoundTrip
  <2>4. /\ option'.more = (taken < LastBlock)
        /\ option'.szx = SizeToSizeoption(serverSize)
    BY <2>2 DEF PeerEncode
  <2>5. SizeOptions[option'.szx + 1] = serverSize
    BY <2>1, <2>4, SizeTable
  <2> QED
    BY <2>1, <2>2, <2>3, <2>4, <2>5 DEF Turns
<1>5. CASE GetHeader
  <2>1. /\ NumberOf(option.digits) = taken /\ taken \in Nat /\ taken <= LastBlock
        /\ option.more = (taken < LastBlock)
        /\ SizeOptions[option.szx + 1] = serverSize
        /\ NumberOf(ParsedFirst(option).digits) = taken
    BY <1>5 DEF GetHeader, Turns
  <2> PICK read \in {option, ParsedFirst(option)} :
        LET decoded == DecodeBlockOption(read)
        IN  /\ size' = decoded.size
            /\ number' = IF decoded.more THEN decoded.number + 1 ELSE decoded.number
            /\ phase' = IF decoded.more THEN "request" ELSE "done"
    BY <1>5 DEF GetHeader
  <2> DEFINE decoded == DecodeBlockOption(read)
  <2>2. decoded.number = taken /\ decoded.more = option.more /\ decoded.size = serverSize
    <3>1. ParsedFirst(option).more = option.more /\ ParsedFirst(option).szx = option.szx
      BY DEF ParsedFirst
    <3> QED
      BY <2>1, <3>1 DEF DecodeBlockOption
  <2>3. /\ size' = decoded.size /\ taken' = taken + 1 /\ serverSize' = serverSize
        /\ decoded.more => number' = decoded.number + 1 /\ phase' = "request"
        /\ ~decoded.more => number' = decoded.number /\ phase' = "done"
    BY <1>5 DEF GetHeader
  <2> HIDE DEF decoded
  <2>4. CASE taken < LastBlock
    BY <1>1, <2>1, <2>2, <2>3, <2>4 DEF Turns
  <2>5. CASE ~(taken < LastBlock)
    <3>1. ~decoded.more
      BY <2>1, <2>2, <2>5
    <3> QED
      BY <1>1, <2>1, <2>2, <2>3, <3>1 DEF Turns
  <2> QED
    BY <2>4, <2>5
<1>6. CASE UNCHANGED vars
  BY <1>6 DEF vars, Turns
<1> QED
  BY <1>3, <1>4, <1>5, <1>6 DEF Next

(* A client and a server stay in step for every file whose last block is     *)
(* below the limit of the two-octet form: the block asked for is the one     *)
(* after those taken.                                                        *)
THEOREM StaysInStep ==
  ASSUME LastBlock < Nib * Nib * Nib
  PROVE  Spec => []InStep
<1>1. Turns => InStep
  BY DEF Turns, InStep
<1> QED
  BY <1>1, TurnsInit, TurnsStep, PTL DEF Spec

(* And it asks for every block after the first in the size the server chose. *)
THEOREM KeepsSize ==
  ASSUME LastBlock < Nib * Nib * Nib
  PROVE  Spec => []SizeKept
<1>1. Turns => SizeKept
  BY DEF Turns, SizeKept
<1> QED
  BY <1>1, TurnsInit, TurnsStep, PTL DEF Spec
=============================================================================
