-------------------------- MODULE CoapClient_proofs --------------------------
(* The safety of the program around the endpoint, for every set of datagrams,*)
(* every number of attempts and whatever select returns.                     *)
EXTENDS CoapClient, UriClientEndpoint_proofs

(* The loop ends with the step that enters COMPLETE or ERROR: within it the  *)
(* endpoint is in neither, and start() has been called once, before it.      *)
Looping ==
  /\ pc = "start" => state = "IDLE" /\ nextState = "IDLE" /\ sends = 0
  /\ pc \in {"select", "step"} => state \notin {"COMPLETE", "ERROR"}

(* A token length the packet cannot be serialized with is followed by an     *)
(* error, and the error by the end of the program.                           *)
TokenFits ==
  /\ pc # "exit" /\ nextState # "ERROR" /\ alive => tkl <= TOKEN_MAX_LENGTH
  /\ error # "COAP_SERIALIZE"

(* Every request sent since the last chunk, but the first, was an attempt.   *)
SendsAreAttempts ==
  /\ sends \in 0 .. MAX_ATTEMPTS + 1
  /\ nextState = "SEND_REQUEST" => sends <= attempts
  /\ nextState = "RECEIVE_DATA_BLOCK" => sends <= attempts + 1

ClientInv ==
  /\ IInv
  /\ pc \in {"start", "select", "step", "exit"} /\ stdin \in BOOLEAN
  /\ Looping /\ TokenFits /\ SendsAreAttempts

(* The program before its loop, with an endpoint just constructed.           *)
Ready ==
  /\ Constructed /\ file \in Seq(Nat) /\ fileGood \in BOOLEAN
  /\ pc = "start" /\ sends = 0 /\ stdin \in BOOLEAN

LEMMA ReadyClientInv == Ready => ClientInv
<1> SUFFICES ASSUME Ready PROVE ClientInv
  OBVIOUS
<1> USE DEF Ready
<1>1. IInv
  BY ConstructedIInv
<1>2. state = "IDLE" /\ nextState = "IDLE" /\ tkl = 0 /\ error = "UNKNOWN"
  BY DEF Constructed
<1>3. Looping /\ TokenFits /\ SendsAreAttempts
  BY <1>2, EndpointAssumption DEF Looping, TokenFits, SendsAreAttempts, TOKEN_MAX_LENGTH
<1> QED
  BY <1>1, <1>3 DEF ClientInv

LEMMA ClientInvInit == ClientInit => ClientInv
<1> SUFFICES ASSUME ClientInit PROVE ClientInv
  OBVIOUS
<1>1. Constructed
  BY DEF ClientInit, Init, Constructed
<1>2. file \in Seq(Nat) /\ fileGood \in BOOLEAN
  BY IInvInit DEF ClientInit, IInv, TypeOK
<1>3. pc = "start" /\ sends = 0 /\ stdin \in BOOLEAN
  BY StdinAssumption DEF ClientInit
<1> QED
  BY <1>1, <1>2, <1>3, ReadyClientInv DEF Ready

-----------------------------------------------------------------------------
LEMMA StartKeepsClientInv ==
  ASSUME ClientInv, ClientStart
  PROVE  ClientInv'
<1>1. IInv'
  BY CallsKeepIInv DEF ClientInv, ClientStart
<1>2. /\ pc = "start" /\ pc' = "select" /\ stdin' = stdin /\ sends' = sends
      /\ state' = state /\ nextState' = "SEND_REQUEST"
      /\ UNCHANGED <<tkl, error, alive, attempts>>
  BY DEF ClientStart, Start, packet
<1>3. state = "IDLE" /\ nextState = "IDLE" /\ sends = 0 /\ attempts \in 0 .. MAX_ATTEMPTS
  BY <1>2 DEF ClientInv, Looping, IInv, TypeOK
<1>4. Looping'
  BY <1>2, <1>3 DEF Looping
<1>5. TokenFits'
  BY <1>2, <1>3 DEF TokenFits, ClientInv
<1>6. SendsAreAttempts'
  BY <1>2, <1>3, EndpointAssumption DEF SendsAreAttempts
<1> QED
  BY <1>1, <1>2, <1>4, <1>5, <1>6 DEF ClientInv

(* select changes the time left and, through set_received, the flag.         *)
LEMMA SelectKeepsClientInv ==
  ASSUME ClientInv, Select
  PROVE  ClientInv'
<1>1. Selecting /\ pc = "select"
  BY DEF Select, SelectStdin, SelectSocket, SelectTimeout, Selecting
<1>2. /\ UNCHANGED <<state, nextState, attempts, mid, error, number, more, size, tkl,
                     payload, file, fileGood, request, inbox, alive, stdin, sends>>
      /\ tv' \in TimeLeft
  BY <1>1 DEF Selecting, block, packet, download
<1>3. tv' \in 0 .. 60
  BY <1>2 DEF TimeLeft, ClientInv, IInv, TypeOK
<1>4. /\ received' \in BOOLEAN /\ (received' => inbox' # <<>>)
      /\ pc' \in {"select", "step"}
  <2>1. CASE SelectSocket
    BY <1>2, <2>1 DEF SelectSocket
  <2>2. CASE SelectStdin \/ SelectTimeout
    <3>1. received' = received /\ pc' \in {"select", "step"}
      BY <1>1, <2>2 DEF SelectStdin, SelectTimeout
    <3>2. received \in BOOLEAN /\ (received => inbox # <<>>)
      BY DEF ClientInv, IInv, TypeOK, ReceiveNeverBlocks
    <3> QED
      BY <1>2, <3>1, <3>2
  <2> QED
    BY <2>1, <2>2 DEF Select
<1>5. state' \in States /\ nextState' \in States /\ inbox' \in Seq(Datagrams)
  BY <1>2 DEF ClientInv, IInv, TypeOK
<1>6. IInv'
  BY <1>2, <1>3, <1>4, <1>5, Undisturbed DEF ClientInv
<1>7. Looping'
  BY <1>1, <1>2, <1>4 DEF ClientInv, Looping
<1>8. TokenFits'
  BY <1>1, <1>2, <1>4 DEF ClientInv, TokenFits
<1>9. SendsAreAttempts'
  BY <1>2 DEF ClientInv, SendsAreAttempts
<1> QED
  BY <1>2, <1>4, <1>6, <1>7, <1>8, <1>9 DEF ClientInv

(* Neither what is typed nor what arrives changes what the loop relies on.   *)
LEMMA ArrivalsKeepClientInv ==
  ASSUME ClientInv,
         Type \/ (\E d \in Datagrams : ClientDeliver(d)) \/ UNCHANGED clientVars
  PROVE  ClientInv'
<1>1. IInv'
  <2>1. CASE UNCHANGED vars
    BY <2>1, NextKeepsIInv DEF ClientInv
  <2>2. CASE \E d \in Datagrams : Deliver(d)
    BY <2>2, DeliverKeepsIInv DEF ClientInv
  <2> QED
    BY <2>1, <2>2 DEF Type, ClientDeliver, clientVars
<1>2. /\ UNCHANGED <<state, nextState, attempts, error, tkl, alive, pc, sends>>
      /\ stdin' \in BOOLEAN
  BY DEF Type, ClientDeliver, Deliver, clientVars, vars, packet, ClientInv
<1>3. Looping' /\ TokenFits' /\ SendsAreAttempts'
  BY <1>2 DEF ClientInv, Looping, TokenFits, SendsAreAttempts
<1> QED
  BY <1>1, <1>2, <1>3 DEF ClientInv

-----------------------------------------------------------------------------
(* The token length parse() leaves behind: where it is too long, an error    *)
(* follows.                                                                  *)
LEMMA StepKeepsToken ==
  ASSUME ClientInv, pc # "exit", TransactionStep
  PROVE  /\ state' \notin {"COMPLETE", "ERROR"} /\ nextState' # "ERROR" /\ alive' =>
              tkl' <= TOKEN_MAX_LENGTH
         /\ error' # "COAP_SERIALIZE"
<1>1. alive /\ (nextState # "ERROR" => tkl <= TOKEN_MAX_LENGTH) /\ error # "COAP_SERIALIZE"
  BY DEF ClientInv, TokenFits, TransactionStep
<1>2. CASE IdleHandler \/ ErrorHandler \/ CompleteHandler
  BY <1>1, <1>2 DEF IdleHandler, ErrorHandler, CompleteHandler, packet
<1>3. CASE SendRequestHandler
  <2>1. nextState = "SEND_REQUEST" /\ tkl' = tkl
    BY <1>3 DEF SendRequestHandler, SendRefused, SendUnserialisable, SendFails,
                SendSucceeds, MakeRequest, Sending
  <2>2. ~SendUnserialisable
    BY <1>1, <2>1 DEF SendUnserialisable, Serializes
  <2>3. error' # "COAP_SERIALIZE"
    BY <1>1, <1>3, <2>2 DEF SendRequestHandler, SendRefused, SendFails, SendSucceeds, Fail
  <2> QED
    BY <1>1, <2>1, <2>3
<1>4. CASE ReceiveTimeout
  <2>1. nextState = "RECEIVE_DATA_BLOCK" /\ tkl' = tkl
    BY <1>4 DEF ReceiveTimeout, packet
  <2>2. error' # "COAP_SERIALIZE"
    BY <1>1, <1>4 DEF ReceiveTimeout, Retry, Fail
  <2> QED
    BY <1>1, <2>1, <2>2
<1>5. CASE ReceiveDatagram(Head(inbox))
  <2> DEFINE d == Head(inbox)
  <2> HIDE DEF d
  <2>1. ReceiveDatagram(d)
    BY <1>5 DEF d
  <2>2. CASE ReceiveFails(d) \/ ReceiveUnparsed(d)
    BY <2>2 DEF ReceiveFails, ReceiveUnparsed, Fail
  <2>3. CASE ReceiveAborts(d)
    BY <1>1, <2>3 DEF ReceiveAborts
  <2>4. CASE ReceiveUnknown(d) \/ ReceiveRefusal(d) \/ ReceiveUndecodable(d) \/ ReceiveChunk(d)
    <3>1. Parsing(d) /\ ParseSucceeds(d)
      BY <2>4 DEF ReceiveUnknown, ReceiveRefusal, ReceiveUndecodable, ReceiveChunk
    <3>2. tkl' <= TOKEN_MAX_LENGTH
      BY <3>1 DEF Parsing, ParseSucceeds, ParsedTkl
    <3>3. error' # "COAP_SERIALIZE"
      BY <1>1, <2>4 DEF ReceiveUnknown, ReceiveRefusal, ReceiveUndecodable, ReceiveChunk,
                        Retry, Fail
    <3> QED
      BY <3>2, <3>3
  <2> QED
    BY <2>1, <2>2, <2>3, <2>4 DEF ReceiveDatagram
<1> QED
  BY <1>2, <1>3, <1>4, <1>5 DEF TransactionStep, ReceiveDataBlockHandler

(* What a step adds to the requests sent, and to the attempts.               *)
LEMMA StepKeepsSends ==
  ASSUME ClientInv, ClientStep
  PROVE  SendsAreAttempts'
<1>1. /\ sends \in 0 .. MAX_ATTEMPTS + 1 /\ attempts \in 0 .. MAX_ATTEMPTS
      /\ MAX_ATTEMPTS \in Nat
      /\ nextState = "SEND_REQUEST" => sends <= attempts
      /\ nextState = "RECEIVE_DATA_BLOCK" => sends <= attempts + 1
  BY EndpointAssumption DEF ClientInv, SendsAreAttempts, IInv, TypeOK
<1>2. CASE Sends
  <2>1. SendSucceeds
    BY <1>2, NextSends DEF ClientStep, Next
  <2>2. attempts' = attempts /\ sends' = sends + 1
    BY <1>2, <2>1 DEF ClientStep, SendSucceeds, MakeRequest, Sending
  <2> QED
    BY <1>1, <1>2, <2>2 DEF Sends, SendsAreAttempts
<1>3. CASE ~Sends /\ TakesChunk
  <2>1. sends' = 0 /\ attempts' = 0
    BY <1>3 DEF ClientStep, TakesChunk, ReceiveChunk
  <2> QED
    BY <1>1, <2>1 DEF SendsAreAttempts
<1>4. CASE ~Sends /\ ~TakesChunk
  <2>1. sends' = sends
    BY <1>4 DEF ClientStep
  <2>2. TransactionStep
    BY DEF ClientStep
  <2>3. CASE IdleHandler \/ ErrorHandler \/ CompleteHandler
    BY <1>1, <2>1, <2>3 DEF IdleHandler, ErrorHandler, CompleteHandler, SendsAreAttempts
  <2>4. CASE SendRequestHandler
    <3>1. nextState' = "ERROR"
      BY <1>4, <2>4 DEF SendRequestHandler, SendRefused, SendUnserialisable, SendFails,
                        SendSucceeds, MakeRequest, Sending, Sends, Fail
    <3> QED
      BY <1>1, <2>1, <3>1 DEF SendsAreAttempts
  <2>5. CASE ReceiveDataBlockHandler
    <3>1. nextState = "RECEIVE_DATA_BLOCK" /\ sends <= attempts + 1
      BY <1>1, <2>5 DEF ReceiveDataBlockHandler, ReceiveTimeout, ReceiveDatagram,
                        ReceiveFails, ReceiveAborts, ReceiveUnparsed, ReceiveUnknown,
                        ReceiveRefusal, ReceiveUndecodable, ReceiveChunk, Parsing, Receiving
    <3>2. \/ Retry
          \/ nextState' = "ERROR"
          \/ nextState' = nextState /\ attempts' = attempts
      BY <1>4, <2>5 DEF TakesChunk, ReceiveDataBlockHandler, ReceiveTimeout,
                        ReceiveDatagram, ReceiveFails, ReceiveAborts, ReceiveUnparsed,
                        ReceiveUnknown, ReceiveRefusal, ReceiveUndecodable, Fail
    <3>3. CASE Retry
      <4>1. \/ nextState' = "ERROR"
            \/ attempts' = attempts + 1 /\ nextState' = "SEND_REQUEST"
        BY <3>3 DEF Retry, Fail
      <4> QED
        BY <1>1, <2>1, <3>1, <4>1 DEF SendsAreAttempts
    <3> QED
      BY <1>1, <2>1, <3>1, <3>2, <3>3 DEF SendsAreAttempts
  <2> QED
    BY <2>2, <2>3, <2>4, <2>5 DEF TransactionStep
<1> QED
  BY <1>2, <1>3, <1>4

LEMMA StepKeepsClientInv ==
  ASSUME ClientInv, ClientStep
  PROVE  ClientInv'
<1>1. /\ pc = "step" /\ TransactionStep /\ stdin' = stdin
      /\ pc' = IF state' \in {"COMPLETE", "ERROR"} THEN "exit" ELSE "select"
  BY DEF ClientStep
<1>2. IInv'
  BY <1>1, NextKeepsIInv DEF ClientInv, Next
<1>3. Looping'
  BY <1>1 DEF Looping
<1>4. TokenFits'
  BY <1>1, StepKeepsToken DEF TokenFits
<1> QED
  BY <1>1, <1>2, <1>3, <1>4, StepKeepsSends DEF ClientInv

LEMMA NextKeepsClientInv ==
  ASSUME ClientInv, [ClientNext]_clientVars
  PROVE  ClientInv'
BY StartKeepsClientInv, SelectKeepsClientInv, StepKeepsClientInv, ArrivalsKeepClientInv
   DEF ClientNext, ClientProgram

LEMMA ClientInvHolds == ClientSpec => []ClientInv
BY ClientInvInit, NextKeepsClientInv, PTL DEF ClientSpec

-----------------------------------------------------------------------------
(* The program keeps the types of the endpoint, of its own position and of   *)
(* what it has seen of the terminal.                                         *)
THEOREM ClientTypes == ClientSpec => []ClientTypeOK
<1>1. ClientInv => ClientTypeOK
  BY DEF ClientInv, IInv, ClientTypeOK
<1> QED
  BY <1>1, ClientInvHolds, PTL

(* No datagram leaves a token length in the packet with which the program    *)
(* would try to send again.                                                  *)
THEOREM RequestsSerialise == ClientSpec => []AlwaysSerialisable
<1>1. ClientInv => AlwaysSerialisable
  BY DEF ClientInv, TokenFits, AlwaysSerialisable
<1> QED
  BY <1>1, ClientInvHolds, PTL

(* No traffic makes the program send more often for one block than it counts.*)
THEOREM SendsBounded == ClientSpec => []SendsAreBounded
<1>1. ClientInv => SendsAreBounded
  BY EndpointAssumption DEF ClientInv, SendsAreAttempts, SendsAreBounded
<1> QED
  BY <1>1, ClientInvHolds, PTL

(* The program, too, calls transaction_step only when it will not block: what*)
(* is typed, and how select leaves the flag, makes no difference to that.    *)
THEOREM ClientNeverBlocks == ClientSpec => []ReceiveNeverBlocks
<1>1. ClientInv => ReceiveNeverBlocks
  BY DEF ClientInv, IInv
<1> QED
  BY <1>1, ClientInvHolds, PTL
=============================================================================
