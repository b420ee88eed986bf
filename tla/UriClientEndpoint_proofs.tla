----------------------- MODULE UriClientEndpoint_proofs -----------------------
(* The safety of the client endpoint, for every set of datagrams, every      *)
(* number of attempts and every width of message ids and block numbers.      *)
EXTENDS UriClientEndpoint, BlockOption_proofs, SequenceTheorems

(* While an answer is awaited the packet holds no payload and the request on *)
(* the wire is the one the endpoint would make from its members.             *)
Awaiting ==
  nextState = "RECEIVE_DATA_BLOCK" =>
    /\ payload = <<>>
    /\ request.mid = mid
    /\ request.block = BlockToAsk

(* So it is between an attempt and its repetition, where the message id may  *)
(* only have been replaced if it was 0.                                      *)
Repeating ==
  attempts > 0 =>
    /\ request.block = BlockToAsk
    /\ request.mid # 0 => mid = request.mid

IInv == TypeOK /\ ReceiveNeverBlocks /\ Awaiting /\ Repeating

-----------------------------------------------------------------------------
(* What find_options hands over has the option's type, too.                  *)
LEMMA FoundIsOption ==
  ASSUME NEW d \in Datagram, NEW option \in FoundOptions(d)
  PROVE  option \in OptionValue
<1>1. EmptyOption \in OptionValue
  BY DEF EmptyOption, OptionValue
<1>2. d.block \in OptionValue /\ d.found \in {"first", "later", "missing"}
  BY DEF Datagram
<1>3. ParsedFirst(d.block) \in OptionValue
  BY <1>2, ParsedFirstType
<1> QED
  BY <1>1, <1>2, <1>3, StaleAssumption DEF FoundOptions

(* The endpoint as its constructor leaves it; what the file holds is not the *)
(* constructor's.                                                            *)
Constructed ==
  /\ state = "IDLE" /\ nextState = "IDLE"
  /\ attempts = 0 /\ tv = 0 /\ mid = 0 /\ received = FALSE
  /\ error = "UNKNOWN"
  /\ number = 0 /\ more = FALSE /\ size = 0
  /\ tkl = 0 /\ payload = <<>>
  /\ request = [mid |-> 0, tkl |-> 0, block |-> EmptyOption]
  /\ inbox = <<>> /\ alive = TRUE

LEMMA ConstructedIInv ==
  Constructed /\ file \in Seq(Nat) /\ fileGood \in BOOLEAN => IInv
<1> SUFFICES ASSUME Constructed, file \in Seq(Nat), fileGood \in BOOLEAN PROVE IInv
  OBVIOUS
<1>1. TypeOK
  <2>1. EmptyOption \in OptionValue
    BY DEF EmptyOption, OptionValue
  <2>2. request \in Request
    BY <2>1, EndpointAssumption DEF Constructed, Request, TOKEN_MAX_LENGTH
  <2>3. received \in BOOLEAN /\ more \in BOOLEAN /\ alive \in BOOLEAN
    BY DEF Constructed
  <2>4. /\ attempts \in 0 .. MAX_ATTEMPTS /\ tv \in 0 .. 60 /\ mid \in 0 .. MidMod - 1
        /\ number \in 0 .. MaxNumber + 1 /\ size \in {0} \cup BlockSizes /\ tkl \in 0 .. 15
    BY MaxNumberType, EndpointAssumption DEF Constructed
  <2>5. payload \in Seq(Nat) /\ inbox \in Seq(Datagrams)
    BY DEF Constructed
  <2>6. state \in States /\ nextState \in States /\ error \in Errors
    BY DEF Constructed, States, Errors
  <2> QED
    BY <2>2, <2>3, <2>4, <2>5, <2>6 DEF TypeOK
<1>2. ReceiveNeverBlocks /\ Awaiting /\ Repeating
  BY DEF Constructed, ReceiveNeverBlocks, Awaiting, Repeating
<1> QED
  BY <1>1, <1>2 DEF IInv

LEMMA IInvInit == Init => IInv
<1> SUFFICES ASSUME Init PROVE IInv
  OBVIOUS
<1>1. Constructed
  BY DEF Init, Constructed
<1>2. file \in Seq(Nat)
  BY DEF Init
<1>3. fileGood \in BOOLEAN
  BY Zenon DEF Init
<1> QED
  BY <1>1, <1>2, <1>3, ConstructedIInv

-----------------------------------------------------------------------------
(* What no call of the application, no arrival, no wait in select and no     *)
(* state without work disturbs.                                              *)
LEMMA Undisturbed ==
  ASSUME IInv,
         state' \in States, nextState' \in States,
         received' => inbox' # <<>>, received' \in BOOLEAN, tv' \in 0 .. 60,
         inbox' \in Seq(Datagrams),
         nextState' = "RECEIVE_DATA_BLOCK" => nextState = "RECEIVE_DATA_BLOCK",
         UNCHANGED <<attempts, mid, error, number, more, size, tkl, payload,
                     file, fileGood, request, alive>>
  PROVE  IInv'
<1>1. TypeOK'
  BY DEF IInv, TypeOK
<1>2. BlockToAsk' = BlockToAsk
  BY DEF BlockToAsk, MoreToAsk, SizeToAsk
<1>3. ReceiveNeverBlocks' /\ Awaiting' /\ Repeating'
  BY <1>2 DEF IInv, ReceiveNeverBlocks, Awaiting, Repeating
<1> QED
  BY <1>1, <1>3 DEF IInv

LEMMA CallsKeepIInv ==
  ASSUME IInv, Start \/ Stop \/ SetReceived
  PROVE  IInv'
<1>1. CASE Start \/ Stop
  <2>1. state' \in States /\ nextState' \in States /\ nextState' # "RECEIVE_DATA_BLOCK"
    BY <1>1 DEF Start, Stop, IInv, TypeOK, States
  <2>2. UNCHANGED <<attempts, tv, mid, received, error, number, more, size, tkl, payload,
                    file, fileGood, request, inbox, alive>>
    BY <1>1 DEF Start, Stop, block, packet, download
  <2>3. /\ received' \in BOOLEAN /\ tv' \in 0 .. 60 /\ inbox' \in Seq(Datagrams)
        /\ received' => inbox' # <<>>
    BY <2>2 DEF IInv, TypeOK, ReceiveNeverBlocks
  <2> QED
    BY <2>1, <2>2, <2>3, Undisturbed
<1>2. CASE SetReceived
  BY <1>2, Undisturbed DEF SetReceived, block, packet, download, IInv, TypeOK
<1> QED
  BY <1>1, <1>2

LEMMA DeliverKeepsIInv ==
  ASSUME IInv, NEW d \in Datagrams, Deliver(d)
  PROVE  IInv'
<1>1. inbox' \in Seq(Datagrams) /\ inbox' # <<>>
  <2>1. inbox \in Seq(Datagrams) /\ inbox' = Append(inbox, d)
    BY DEF IInv, TypeOK, Deliver
  <2> QED
    BY <2>1
<1>2. /\ state' \in States /\ nextState' \in States /\ received' \in BOOLEAN
      /\ nextState' = nextState /\ tv' \in 0 .. 60
  BY DEF IInv, TypeOK, Deliver
<1>3. UNCHANGED <<attempts, mid, error, number, more, size, tkl, payload,
                  file, fileGood, request, alive>>
  BY DEF Deliver, block, packet, download
<1> QED
  BY <1>1, <1>2, <1>3, Undisturbed

(* The handlers of the idle, error and complete states.                      *)
LEMMA EndsKeepIInv ==
  ASSUME IInv, IdleHandler \/ ErrorHandler \/ CompleteHandler
  PROVE  IInv'
<1>1. state' \in States /\ nextState' = "IDLE" /\ "IDLE" \in States
  BY DEF IdleHandler, ErrorHandler, CompleteHandler, States
<1>2. UNCHANGED <<attempts, tv, mid, received, error, number, more, size, tkl, payload,
                  file, fileGood, request, inbox, alive>>
  BY DEF IdleHandler, ErrorHandler, CompleteHandler, block, packet, download
<1>3. /\ received' \in BOOLEAN /\ tv' \in 0 .. 60 /\ inbox' \in Seq(Datagrams)
      /\ received' => inbox' # <<>>
  BY <1>2 DEF IInv, TypeOK, ReceiveNeverBlocks
<1> QED
  BY <1>1, <1>2, <1>3, Undisturbed

-----------------------------------------------------------------------------
(* The handler that sends: set_header may start over, but asks for the block *)
(* it would have asked for before.                                           *)
LEMMA SendKeepsIInv ==
  ASSUME IInv, SendRequestHandler
  PROVE  IInv'
<1> USE DEF IInv
<1>1. Sending
  BY DEF SendRequestHandler, SendRefused, SendUnserialisable, SendFails, SendSucceeds,
         MakeRequest
<1>2. number \in Nat /\ number' = number /\ number' \in 0 .. MaxNumber + 1
  BY <1>1, MaxNumberType DEF Sending, TypeOK
<1>3. more' \in BOOLEAN /\ MoreToAsk \in BOOLEAN
  BY <1>1 DEF Sending, MoreToAsk
<1>4. size' \in {0} \cup BlockSizes
  <2>1. BLOCK_MAX_SIZE \in BlockSizes
    <3>1. SizeOptions[8] = BLOCK_MAX_SIZE
      BY DEF BLOCK_MAX_SIZE, SizeOptions
    <3> QED
      BY <3>1 DEF BlockSizes
  <2> QED
    BY <1>1, <2>1 DEF Sending, SizeToAsk, TypeOK
<1>5. BlockToAsk' = BlockToAsk
  <2>1. MoreToAsk' = MoreToAsk
    BY <1>1, <1>2 DEF Sending, MoreToAsk
  <2>2. SizeToAsk' = SizeToAsk
    BY <1>1, <1>2 DEF Sending, SizeToAsk
  <2> QED
    BY <1>2, <2>1, <2>2 DEF BlockToAsk
<1>6. BlockToAsk \in OptionValue
  BY <1>2, <1>3, EncodedOption DEF BlockToAsk
<1>7. /\ state' \in States /\ attempts' = attempts /\ received' = received
      /\ tkl' = tkl /\ file' = file /\ fileGood' = fileGood
      /\ inbox' = inbox /\ alive' = alive
  BY <1>1 DEF Sending, download, States
<1>8. CASE SendRefused
  <2>1. /\ request' = request /\ tv' = tv /\ nextState' = "ERROR" /\ mid' = mid
        /\ payload' = payload /\ error' \in Errors
    BY <1>8 DEF SendRefused, Fail, Errors
  <2>2. TypeOK'
    BY <1>2, <1>3, <1>4, <1>7, <2>1 DEF TypeOK, States
  <2> QED
    BY <1>5, <1>7, <2>1, <2>2 DEF ReceiveNeverBlocks, Awaiting, Repeating
<1>9. CASE MakeRequest
  <2>1. mid' \in 0 .. MidMod - 1 /\ (mid # 0 => mid' = mid) /\ payload' = <<>>
    BY <1>9, EndpointAssumption DEF MakeRequest, TypeOK
  <2>2. CASE SendSucceeds
    <3>1. /\ request' = [mid |-> mid', tkl |-> tkl, block |-> BlockToAsk]
          /\ tv' = 2 /\ nextState' = "RECEIVE_DATA_BLOCK" /\ error' = error
          /\ tkl <= TOKEN_MAX_LENGTH
      BY <2>2 DEF SendSucceeds, Serializes, TvSec
    <3>2. tkl \in 0 .. TOKEN_MAX_LENGTH
      BY <3>1 DEF TypeOK, TOKEN_MAX_LENGTH
    <3>3. request' \in Request /\ request'.mid = mid' /\ request'.block = BlockToAsk
      BY <1>6, <2>1, <3>1, <3>2 DEF Request
    <3>4. TypeOK'
      BY <1>2, <1>3, <1>4, <1>7, <2>1, <3>1, <3>3 DEF TypeOK, States
    <3> QED
      BY <1>5, <1>7, <2>1, <3>1, <3>3, <3>4 DEF ReceiveNeverBlocks, Awaiting, Repeating
  <2>3. CASE SendUnserialisable \/ SendFails
    <3>1. /\ request' = request /\ tv' = tv /\ nextState' = "ERROR" /\ error' \in Errors
      BY <2>3 DEF SendUnserialisable, SendFails, Fail, Errors
    <3>2. TypeOK'
      BY <1>2, <1>3, <1>4, <1>7, <2>1, <3>1 DEF TypeOK, States
    <3>3. Repeating'
      BY <1>5, <1>7, <2>1, <3>1 DEF Repeating
    <3> QED
      BY <1>7, <3>1, <3>2, <3>3 DEF ReceiveNeverBlocks, Awaiting
  <2> QED
    BY <2>2, <2>3, <1>9 DEF SendRequestHandler, SendRefused, MakeRequest
<1> QED
  BY <1>8, <1>9 DEF SendRequestHandler, SendUnserialisable, SendFails, SendSucceeds

-----------------------------------------------------------------------------
(* retry() leaves the endpoint with an attempt counted or an error.          *)
LEMMA Retried ==
  ASSUME IInv, Retry
  PROVE  /\ attempts' \in 0 .. MAX_ATTEMPTS
         /\ error' \in Errors
         /\ nextState' \in {"SEND_REQUEST", "ERROR"}
<1>1. attempts \in 0 .. MAX_ATTEMPTS /\ error \in Errors /\ MAX_ATTEMPTS \in Nat
  BY EndpointAssumption DEF IInv, TypeOK
<1> QED
  BY <1>1 DEF Retry, Fail, Errors

(* The timeout finds the request on the wire to be the one to repeat.        *)
LEMMA TimeoutKeepsIInv ==
  ASSUME IInv, ReceiveTimeout
  PROVE  IInv'
<1>1. Retry
  BY DEF ReceiveTimeout
<1>2. UNCHANGED <<tv, mid, received, number, more, size, tkl, payload, file, fileGood,
                  request, inbox, alive>>
  BY DEF ReceiveTimeout, block, packet, download
<1>3. state' \in States /\ nextState = "RECEIVE_DATA_BLOCK"
  BY DEF ReceiveTimeout, States
<1>4. TypeOK'
  BY <1>1, <1>2, <1>3, Retried DEF IInv, TypeOK, States
<1>5. BlockToAsk' = BlockToAsk
  BY <1>2 DEF BlockToAsk, MoreToAsk, SizeToAsk
<1>6. Awaiting' /\ Repeating'
  BY <1>1, <1>2, <1>3, <1>5, Retried DEF IInv, Awaiting, Repeating
<1>7. ReceiveNeverBlocks'
  BY <1>2 DEF IInv, ReceiveNeverBlocks
<1> QED
  BY <1>4, <1>6, <1>7 DEF IInv

(* What is common to the outcomes of the branch that has received.           *)
LEMMA ReceivingFacts ==
  ASSUME IInv, NEW d, Receiving(d)
  PROVE  /\ d \in Datagrams /\ d \in Datagram
         /\ nextState = "RECEIVE_DATA_BLOCK" /\ state' \in States
         /\ payload = <<>> /\ request' = request /\ request.mid = mid
         /\ request.block = BlockToAsk
         /\ received' \in BOOLEAN /\ inbox' \in Seq(Datagrams) /\ ReceiveNeverBlocks'
<1>1. inbox \in Seq(Datagrams) /\ inbox # <<>> /\ d = Head(inbox)
  BY DEF Receiving, IInv, TypeOK
<1>2. d \in Datagrams /\ Tail(inbox) \in Seq(Datagrams)
  BY <1>1
<1>3. d \in Datagram
  BY <1>2, DatagramsAssumption
<1>4. nextState = "RECEIVE_DATA_BLOCK" /\ state' \in States /\ request' = request
  BY DEF Receiving, States
<1>5. received' = FALSE /\ inbox' = Tail(inbox)
  BY DEF Receiving
<1> QED
  BY <1>2, <1>3, <1>4, <1>5 DEF IInv, Awaiting, ReceiveNeverBlocks

LEMMA ParsingFacts ==
  ASSUME IInv, NEW d, Parsing(d)
  PROVE  /\ tv' \in 0 .. 60 /\ tkl' \in 0 .. 15
         /\ ParseSucceeds(d) => payload' = <<d.data>> /\ d.data \in Nat
         /\ ~ParseSucceeds(d) => payload' = payload
         /\ payload' \in Seq(Nat)
<1>1. d \in Datagram /\ payload = <<>>
  BY ReceivingFacts DEF Parsing
<1>2. d.tkl \in 0 .. 15 /\ d.data \in Nat
  BY <1>1 DEF Datagram
<1>3. tv' \in 0 .. 60
  BY DEF Parsing, TvSec
<1>4. tkl' \in 0 .. 15
  BY <1>2 DEF Parsing, ParsedTkl, IInv, TypeOK
<1>5. payload' = IF ParseSucceeds(d) THEN <<d.data>> ELSE payload
  BY <1>1 DEF Parsing, ParsedPayload
<1> QED
  BY <1>1, <1>2, <1>3, <1>4, <1>5

(* A datagram that leaves block number and message id alone.                 *)
LEMMA NoChunkKeepsIInv ==
  ASSUME IInv, NEW d,
         ReceiveFails(d) \/ ReceiveAborts(d) \/ ReceiveUnparsed(d) \/ ReceiveUnknown(d)
           \/ ReceiveRefusal(d) \/ ReceiveUndecodable(d)
  PROVE  IInv'
<1>1. Receiving(d)
  BY DEF ReceiveFails, ReceiveAborts, ReceiveUnparsed, ReceiveUnknown, ReceiveRefusal,
         ReceiveUndecodable, Parsing
<1>2. UNCHANGED <<mid, number, more, size, file, fileGood>>
  BY DEF ReceiveFails, ReceiveAborts, ReceiveUnparsed, ReceiveUnknown, ReceiveRefusal,
         ReceiveUndecodable, block, download
<1>3. tv' \in 0 .. 60 /\ tkl' \in 0 .. 15 /\ payload' \in Seq(Nat)
  <2>1. CASE ReceiveFails(d)
    BY <2>1 DEF ReceiveFails, packet, IInv, TypeOK
  <2>2. CASE Parsing(d)
    BY <2>2, ParsingFacts
  <2> QED
    BY <2>1, <2>2 DEF ReceiveAborts, ReceiveUnparsed, ReceiveUnknown, ReceiveRefusal,
                      ReceiveUndecodable
<1>4. BlockToAsk' = BlockToAsk
  BY <1>2 DEF BlockToAsk, MoreToAsk, SizeToAsk
<1>5. alive' \in BOOLEAN
  BY DEF ReceiveFails, ReceiveAborts, ReceiveUnparsed, ReceiveUnknown, ReceiveRefusal,
         ReceiveUndecodable, IInv, TypeOK
<1>6. CASE ReceiveFails(d) \/ ReceiveUnparsed(d) \/ ReceiveRefusal(d) \/ ReceiveUndecodable(d)
  <2>1. nextState' = "ERROR" /\ error' \in Errors /\ attempts' = attempts
    BY <1>6 DEF ReceiveFails, ReceiveUnparsed, ReceiveRefusal, ReceiveUndecodable, Fail,
                Errors
  <2>2. TypeOK'
    BY <1>1, <1>2, <1>3, <1>5, <2>1, ReceivingFacts DEF IInv, TypeOK, States
  <2>3. Awaiting' /\ Repeating'
    BY <1>1, <1>2, <1>4, <2>1, ReceivingFacts DEF Awaiting, Repeating
  <2> QED
    BY <1>1, <2>2, <2>3, ReceivingFacts DEF IInv
<1>7. CASE ReceiveUnknown(d)
  <2>1. Retry
    BY <1>7 DEF ReceiveUnknown
  <2>2. TypeOK'
    BY <1>1, <1>2, <1>3, <1>5, <2>1, Retried, ReceivingFacts DEF IInv, TypeOK, States
  <2>3. Awaiting' /\ Repeating'
    BY <1>1, <1>2, <1>4, <2>1, Retried, ReceivingFacts DEF Awaiting, Repeating
  <2> QED
    BY <1>1, <2>2, <2>3, ReceivingFacts DEF IInv
<1>8. CASE ReceiveAborts(d)
  <2>1. nextState' = nextState /\ error' = error /\ attempts' = attempts
    BY <1>8 DEF ReceiveAborts
  <2>2. ~ParseSucceeds(d)
    BY <1>8 DEF ReceiveAborts, ParseAborts, ParseSucceeds
  <2>3. payload' = <<>>
    BY <1>1, <1>8, <2>2, ParsingFacts, ReceivingFacts DEF ReceiveAborts
  <2>4. TypeOK'
    BY <1>1, <1>2, <1>3, <1>5, <2>1, ReceivingFacts DEF IInv, TypeOK, States
  <2>5. Awaiting' /\ Repeating'
    BY <1>1, <1>2, <1>4, <2>1, <2>3, ReceivingFacts DEF Awaiting, Repeating
  <2> QED
    BY <1>1, <2>4, <2>5, ReceivingFacts DEF IInv
<1> QED
  BY <1>6, <1>7, <1>8

(* What a chunk does to the file, if the disk takes it.                      *)
LEMMA ChunkStored ==
  ASSUME IInv, NEW d, ReceiveChunk(d)
  PROVE  /\ \/ fileGood /\ fileGood' = fileGood /\ file' = Append(file, d.data)
            \/ "disk" \in Faults /\ fileGood' = FALSE /\ file' = file
         /\ file' \in Seq(Nat) /\ fileGood' \in BOOLEAN
<1>1. Parsing(d) /\ ParseSucceeds(d)
  BY DEF ReceiveChunk
<1>2. payload' = <<d.data>> /\ d.data \in Nat
  BY <1>1, ParsingFacts
<1>3. file \in Seq(Nat)
  BY DEF IInv, TypeOK
<1>4. Append(file, d.data) = file \o <<d.data>> /\ Append(file, d.data) \in Seq(Nat)
  BY <1>2, <1>3, AppendIsConcat, AppendProperties
<1>5. \/ fileGood /\ fileGood' = fileGood /\ file' = file \o payload'
      \/ "disk" \in Faults /\ fileGood' = FALSE /\ file' = file
  BY DEF ReceiveChunk, StoreChunk
<1>6. fileGood' \in BOOLEAN
  BY DEF ReceiveChunk, StoreChunk, IInv, TypeOK
<1> QED
  BY <1>2, <1>3, <1>4, <1>5, <1>6

(* The chunk ends the exchange: no attempt is counted, no answer awaited.    *)
LEMMA ChunkKeepsIInv ==
  ASSUME IInv, NEW d, ReceiveChunk(d)
  PROVE  IInv'
<1>1. Receiving(d) /\ Parsing(d) /\ d \in Datagram
  BY ReceivingFacts DEF ReceiveChunk, Parsing
<1>2. PICK option \in FoundOptions(d) :
        LET decoded == DecodeBlockOption(option)
        IN  /\ more' = FALSE
            /\ size' = decoded.size
            /\ number' = IF decoded.more THEN decoded.number + 1 ELSE decoded.number
            /\ mid' = IF decoded.more THEN (d.mid + 1) % MidMod ELSE mid
            /\ nextState' = IF decoded.more THEN "SEND_REQUEST" ELSE "COMPLETE"
  BY DEF ReceiveChunk, NextNumber, NextMid
<1> DEFINE decoded == DecodeBlockOption(option)
<1>3. /\ decoded.number \in 0 .. MaxNumber /\ decoded.more \in BOOLEAN
      /\ decoded.size \in BlockSizes
  BY <1>1, FoundIsOption, DecodedType
<1>4. more' \in BOOLEAN /\ size' \in {0} \cup BlockSizes
  BY <1>2, <1>3
<1>5. number' \in 0 .. MaxNumber + 1
  BY <1>2, <1>3, MaxNumberType
<1>6. mid' \in 0 .. MidMod - 1
  <2>1. d.mid \in Nat /\ MidMod \in Nat \ {0} /\ mid \in 0 .. MidMod - 1
    BY <1>1, EndpointAssumption DEF Datagram, IInv, TypeOK
  <2>2. ((d.mid + 1) % MidMod) \in 0 .. MidMod - 1
    BY <2>1
  <2> QED
    BY <1>2, <2>1, <2>2
<1>7. nextState' \in {"SEND_REQUEST", "COMPLETE"}
  BY <1>2
<1>8. attempts' = 0 /\ error' = error /\ alive' = alive
  BY DEF ReceiveChunk
<1>9. TypeOK'
  <2>1. /\ tv' \in 0 .. 60 /\ tkl' \in 0 .. 15 /\ payload' \in Seq(Nat)
        /\ state' \in States /\ request' = request
        /\ received' \in BOOLEAN /\ inbox' \in Seq(Datagrams)
    BY <1>1, ParsingFacts, ReceivingFacts
  <2>2. file' \in Seq(Nat) /\ fileGood' \in BOOLEAN
    BY ChunkStored
  <2> QED
    BY <1>4, <1>5, <1>6, <1>7, <1>8, <2>1, <2>2, EndpointAssumption DEF IInv, TypeOK, States
<1>10. Awaiting' /\ Repeating'
  BY <1>7, <1>8 DEF Awaiting, Repeating
<1> QED
  BY <1>1, <1>9, <1>10, ReceivingFacts DEF IInv

LEMMA NextKeepsIInv ==
  ASSUME IInv, [Next]_vars
  PROVE  IInv'
<1>1. CASE Start \/ Stop \/ SetReceived
  BY <1>1, CallsKeepIInv
<1>2. CASE \E d \in Datagrams : Deliver(d)
  BY <1>2, DeliverKeepsIInv
<1>3. CASE TransactionStep
  <2>1. CASE IdleHandler \/ ErrorHandler \/ CompleteHandler
    BY <2>1, EndsKeepIInv
  <2>2. CASE SendRequestHandler
    BY <2>2, SendKeepsIInv
  <2>3. CASE ReceiveTimeout
    BY <2>3, TimeoutKeepsIInv
  <2>4. CASE ReceiveDatagram(Head(inbox))
    BY <2>4, NoChunkKeepsIInv, ChunkKeepsIInv DEF ReceiveDatagram
  <2> QED
    BY <1>3, <2>1, <2>2, <2>3, <2>4 DEF TransactionStep, ReceiveDataBlockHandler
<1>4. CASE UNCHANGED vars
  BY <1>4, Undisturbed DEF vars, block, packet, download, IInv, TypeOK, ReceiveNeverBlocks
<1> QED
  BY <1>1, <1>2, <1>3, <1>4 DEF Next

LEMMA IInvHolds == Spec => []IInv
BY IInvInit, NextKeepsIInv, PTL DEF Spec

(* Whatever datagrams arrive, the members of the endpoint, of its packet and *)
(* of its block2 keep their types.                                           *)
THEOREM EndpointTypeOK == Spec => []TypeOK
<1>1. IInv => TypeOK
  BY DEF IInv
<1> QED
  BY <1>1, IInvHolds, PTL

(* The receive handler never calls recvfrom on an empty socket.              *)
THEOREM EndpointNeverBlocks == Spec => []ReceiveNeverBlocks
<1>1. IInv => ReceiveNeverBlocks
  BY DEF IInv
<1> QED
  BY <1>1, IInvHolds, PTL

-----------------------------------------------------------------------------
(* Only one of the steps writes to the file.                                 *)
LEMMA FileChanges ==
  ASSUME IInv, [Next]_vars, file' # file
  PROVE  ReceiveChunk(Head(inbox))
<1>1. CASE Start \/ Stop \/ SetReceived \/ UNCHANGED vars
  BY <1>1 DEF Start, Stop, SetReceived, vars, download
<1>2. CASE \E d \in Datagrams : Deliver(d)
  BY <1>2 DEF Deliver, download
<1>3. CASE TransactionStep
  <2>1. CASE IdleHandler \/ ErrorHandler \/ CompleteHandler
    BY <2>1 DEF IdleHandler, ErrorHandler, CompleteHandler, download
  <2>2. CASE SendRequestHandler
    BY <2>2 DEF SendRequestHandler, SendRefused, SendUnserialisable, SendFails,
                SendSucceeds, MakeRequest, Sending, download
  <2>3. CASE ReceiveTimeout
    BY <2>3 DEF ReceiveTimeout, download
  <2>4. CASE ReceiveDatagram(Head(inbox))
    BY <2>4 DEF ReceiveDatagram, ReceiveFails, ReceiveAborts, ReceiveUnparsed,
                ReceiveUnknown, ReceiveRefusal, ReceiveUndecodable, download
  <2> QED
    BY <1>3, <2>1, <2>2, <2>3, <2>4 DEF TransactionStep, ReceiveDataBlockHandler
<1> QED
  BY <1>1, <1>2, <1>3 DEF Next

(* Only one of them sends and goes on to wait.                               *)
LEMMA NextSends ==
  ASSUME [Next]_vars, Sends
  PROVE  SendSucceeds
<1>1. ~(UNCHANGED vars) /\ ~(\E d \in Datagrams : Deliver(d)) /\ ~Start /\ ~Stop /\ ~SetReceived
  BY DEF Sends, vars, Deliver, Start, Stop, SetReceived
<1>2. ~IdleHandler /\ ~ErrorHandler /\ ~CompleteHandler /\ ~ReceiveDataBlockHandler
  BY DEF Sends, IdleHandler, ErrorHandler, CompleteHandler, ReceiveDataBlockHandler,
         ReceiveTimeout, ReceiveDatagram, ReceiveFails, ReceiveAborts, ReceiveUnparsed,
         ReceiveUnknown, ReceiveRefusal, ReceiveUndecodable, ReceiveChunk, Parsing,
         Receiving
<1>3. SendRequestHandler
  BY <1>1, <1>2 DEF Next, TransactionStep
<1>4. ~SendRefused /\ ~SendUnserialisable /\ ~SendFails
  BY DEF Sends, SendRefused, SendUnserialisable, SendFails, Fail
<1> QED
  BY <1>3, <1>4 DEF SendRequestHandler

(* A chunk gets into the file only from an answer to the request last sent.  *)
THEOREM ChunksAnswer == Spec => ChunkAnswersLastRequest
<1>1. ASSUME IInv, [Next]_vars, file' # file
      PROVE  /\ Head(inbox).mid = request.mid
             /\ Head(inbox).type = "ACK" /\ Head(inbox).code = "CONTENT"
  <2>1. ReceiveChunk(Head(inbox))
    BY <1>1, FileChanges
  <2>2. Answers(Head(inbox)) /\ Head(inbox).code = "CONTENT" /\ request.mid = mid
    BY <1>1, <2>1, ReceivingFacts DEF ReceiveChunk, Parsing
  <2> QED
    BY <2>2 DEF Answers
<1> QED
  BY <1>1, IInvHolds, PTL DEF Spec, ChunkAnswersLastRequest

(* And it is the payload of that answer, with nothing left over from another.*)
THEOREM ChunksAreSingle == Spec => ChunkIsOnePayload
<1>1. ASSUME IInv, [Next]_vars, file' # file
      PROVE  file' = Append(file, Head(inbox).data)
  BY <1>1, FileChanges, ChunkStored
<1> QED
  BY <1>1, IInvHolds, PTL DEF Spec, ChunkIsOnePayload

(* A repeated request is the message it repeats.                             *)
THEOREM RepetitionsRepeat == Spec => RetransmissionRepeats
<1>1. ASSUME IInv, [Next]_vars, Sends, attempts > 0, request.mid # 0
      PROVE  request'.mid = request.mid /\ request'.block = request.block
  <2>1. SendSucceeds
    BY <1>1, NextSends
  <2>2. request' = [mid |-> mid', tkl |-> tkl, block |-> BlockToAsk]
    BY <2>1 DEF SendSucceeds
  <2>3. mid = request.mid /\ request.block = BlockToAsk
    BY <1>1 DEF IInv, Repeating
  <2>4. mid' = mid
    BY <1>1, <2>1, <2>3 DEF SendSucceeds, MakeRequest
  <2> QED
    BY <2>2, <2>3, <2>4
<1> QED
  BY <1>1, IInvHolds, PTL DEF Spec, RetransmissionRepeats
=============================================================================
