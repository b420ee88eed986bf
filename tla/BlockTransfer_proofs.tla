------------------------- MODULE BlockTransfer_proofs -------------------------
(* The safety of a whole download, for every file, every set of message ids  *)
(* and every behaviour of the network: what it writes is the remote file, in *)
(* order, and it implements FileDownload.                                    *)
EXTENDS BlockTransfer, CoapClient_proofs

(* Nothing in a transfer has a token, so that every answer on its way is one *)
(* the server gives, under some id, to who asks for some block.              *)
Answer(a) == \E m \in 0 .. MidMod - 1, n \in 0 .. MaxNumber : a = BlockAnswer(m, 0, n)

NoTokens ==
  /\ tkl = 0
  /\ \A r \in requests : r \in Request /\ r.tkl = 0
  /\ \A a \in answers \cup remembered : Answer(a)
  /\ \A i \in 1 .. Len(inbox) : Answer(inbox[i])

Appending == starts \in Nat /\ before \in 0 .. Len(file)

TransferInv == ClientInv /\ NoTokens /\ Appending

-----------------------------------------------------------------------------
(* The id of a request tells the block it asks for: ids and block numbers    *)
(* have advanced together since the first request. Under id 0 the endpoint   *)
(* draws another id for the same attempt, which only happens at block 0.     *)
Fits(m, n) ==
  /\ n \in 0 .. number
  /\ IF m = 0 THEN n = 0 ELSE m - n = mid - number

AllFit ==
  /\ \A r \in requests : Fits(r.mid, Asked(r))
  /\ \A a \in answers \cup remembered : Fits(a.mid, a.data)
  /\ \A i \in 1 .. Len(inbox) : Fits(inbox[i].mid, inbox[i].data)

(* The last block has been taken.                                            *)
Taken == nextState = "COMPLETE" \/ state = "COMPLETE"

(* The file holds the blocks below the number the endpoint is at, as far as  *)
(* the disk has taken them.                                                  *)
FileFits ==
  /\ number \in 0 .. LastBlock
  /\ Taken => number = LastBlock
  /\ Len(file) - before <= IF Taken THEN number + 1 ELSE number
  /\ fileGood => Len(file) - before = IF Taken THEN number + 1 ELSE number
  /\ "disk" \notin Faults => fileGood
  /\ \A i \in before + 1 .. Len(file) : file[i] = i - before - 1

OrderInv == TransferInv /\ AllFit /\ FileFits

(* The ids of one transfer do not come round to 0.                           *)
IdsDoNotWrap == number > 0 => mid # 0

(* They cannot where the id of the first request is none of the LastBlock    *)
(* highest: the ids of the other blocks are above it. Any id may be drawn;   *)
(* this is said of the ids that have been.                                   *)
DrawnLow == number = 0 => mid + LastBlock < MidMod

IdsAreCounted == number > 0 => number <= mid /\ mid - number + LastBlock < MidMod

-----------------------------------------------------------------------------
(* What a step of the endpoint does to the buffer and to the token length.   *)
LEMMA StepReads ==
  ASSUME IInv, TransactionStep
  PROVE  \/ inbox' = inbox /\ tkl' = tkl
         \/ /\ inbox # <<>> /\ inbox' = Tail(inbox)
            /\ tkl' \in {tkl, Head(inbox).tkl}
<1>1. CASE IdleHandler \/ ErrorHandler \/ CompleteHandler \/ ReceiveTimeout
  BY <1>1 DEF IdleHandler, ErrorHandler, CompleteHandler, ReceiveTimeout, packet
<1>2. CASE SendRequestHandler
  BY <1>2 DEF SendRequestHandler, SendRefused, SendUnserialisable, SendFails,
              SendSucceeds, MakeRequest, Sending
<1>3. CASE inbox # <<>> /\ ReceiveDatagram(Head(inbox))
  <2>1. Receiving(Head(inbox))
    BY <1>3 DEF ReceiveDatagram, ReceiveFails, ReceiveAborts, ReceiveUnparsed,
                ReceiveUnknown, ReceiveRefusal, ReceiveUndecodable, ReceiveChunk, Parsing
  <2>2. tkl' = tkl \/ Parsing(Head(inbox))
    BY <1>3 DEF ReceiveDatagram, ReceiveFails, ReceiveAborts, ReceiveUnparsed,
                ReceiveUnknown, ReceiveRefusal, ReceiveUndecodable, ReceiveChunk, packet
  <2>3. tkl' \in {tkl, Head(inbox).tkl}
    BY <2>2 DEF Parsing, ParsedTkl
  <2> QED
    BY <1>3, <2>1, <2>3 DEF Receiving
<1> QED
  BY <1>1, <1>2, <1>3 DEF TransactionStep, ReceiveDataBlockHandler

(* A step that takes no chunk changes neither the file nor the number, and   *)
(* replaces the message id only where it is 0.                               *)
LEMMA StepWithoutChunk ==
  ASSUME IInv, TransactionStep, ~ReceiveChunk(Head(inbox))
  PROVE  /\ number' = number /\ file' = file /\ fileGood' = fileGood
         /\ mid' = mid \/ (mid = 0 /\ mid' \in MessageIds)
         /\ nextState' # "COMPLETE"
         /\ state' = "COMPLETE" <=> nextState = "COMPLETE"
<1>1. CASE IdleHandler \/ ErrorHandler \/ CompleteHandler
  BY <1>1 DEF IdleHandler, ErrorHandler, CompleteHandler, block, download
<1>2. CASE SendRequestHandler
  BY <1>2 DEF SendRequestHandler, SendRefused, SendUnserialisable, SendFails,
              SendSucceeds, MakeRequest, Sending, download, Fail
<1>3. CASE ReceiveTimeout
  BY <1>3 DEF ReceiveTimeout, Retry, Fail, block, download
<1>4. CASE ReceiveDatagram(Head(inbox))
  BY <1>4 DEF ReceiveDatagram, ReceiveFails, ReceiveAborts, ReceiveUnparsed, Parsing,
              Receiving, ReceiveUnknown, ReceiveRefusal, ReceiveUndecodable, Retry, Fail,
              block, download
<1> QED
  BY <1>1, <1>2, <1>3, <1>4 DEF TransactionStep, ReceiveDataBlockHandler

(* The file grows by one chunk at a time or stays what it is.                *)
LEMMA StepAppends ==
  ASSUME IInv, TransactionStep
  PROVE  /\ file \in Seq(Nat)
         /\ file' \in Seq(Nat) /\ Len(file') >= Len(file)
<1>1. file \in Seq(Nat)
  BY DEF IInv, TypeOK
<1>2. CASE ReceiveChunk(Head(inbox))
  <2>1. file' \in Seq(Nat) /\ (file' = file \/ file' = Append(file, Head(inbox).data))
    BY <1>2, ChunkStored
  <2>2. Len(file') = Len(file) \/ Len(file') = Len(file) + 1
    BY <1>1, <2>1
  <2> QED
    BY <1>1, <2>1, <2>2
<1>3. CASE ~ReceiveChunk(Head(inbox))
  BY <1>1, <1>3, StepWithoutChunk
<1> QED
  BY <1>2, <1>3

(* A request handed to the network is made of the endpoint's members.        *)
LEMMA RequestSent ==
  ASSUME ClientInv, TransactionStep, Sends
  PROVE  /\ request' = [mid |-> mid', tkl |-> tkl, block |-> BlockToAsk]
         /\ number' = number /\ inbox' = inbox
         /\ ~ReceiveChunk(Head(inbox))
<1>1. SendSucceeds
  BY NextSends DEF Next
<1>2. ~ReceiveChunk(Head(inbox))
  BY DEF Sends, ReceiveChunk, Parsing, Receiving
<1> QED
  BY <1>1, <1>2 DEF SendSucceeds, MakeRequest, Sending
-----------------------------------------------------------------------------
(* The fields of an answer, and that the network may bring it.               *)
LEMMA AnswerFields ==
  ASSUME NEW a, Answer(a)
  PROVE  /\ a \in Datagrams /\ a.tkl = 0
         /\ a.mid \in 0 .. MidMod - 1 /\ a.data \in 0 .. MaxNumber
         /\ a = BlockAnswer(a.mid, 0, a.data)
<1>1. PICK m \in 0 .. MidMod - 1, n \in 0 .. MaxNumber : a = BlockAnswer(m, 0, n)
  BY DEF Answer
<1>2. a.tkl = 0 /\ a.mid = m /\ a.data = n
  BY <1>1 DEF BlockAnswer
<1> QED
  BY <1>1, <1>2, AnswersAssumption

(* Whatever a request asks for, the server has an answer of that kind.       *)
LEMMA ServerAnswerFields ==
  ASSUME NEW r \in Request, r.tkl = 0
  PROVE  /\ Answer(ServerAnswer(r))
         /\ ServerAnswer(r).mid = r.mid /\ ServerAnswer(r).data = Asked(r)
<1>1. r.mid \in 0 .. MidMod - 1 /\ r.block.digits \in Seq(Digit)
  BY DEF Request, OptionValue
<1>2. Asked(r) \in 0 .. MaxNumber
  BY <1>1, NumberRange DEF Asked
<1>3. ServerAnswer(r) = BlockAnswer(r.mid, 0, Asked(r))
  BY DEF ServerAnswer
<1> HIDE DEF Asked
<1> QED
  BY <1>1, <1>2, <1>3 DEF Answer, BlockAnswer

LEMMA TransferInvInit == TransferInit => TransferInv
<1> SUFFICES ASSUME TransferInit PROVE TransferInv
  OBVIOUS
<1>1. /\ ClientInv /\ requests = {} /\ answers = {} /\ remembered = {}
      /\ starts = 1 /\ before = 0
  BY ClientInvInit DEF TransferInit
<1>2. tkl = 0 /\ inbox = <<>> /\ file = <<>>
  BY DEF TransferInit, ClientInit, Init
<1>3. Len(inbox) = 0 /\ Len(file) = 0
  BY <1>2
<1> QED
  BY <1>1, <1>2, <1>3 DEF TransferInv, NoTokens, Appending

(* What the buffer holds is what it held, less its head.                     *)
LEMMA InboxRest ==
  ASSUME NEW S, inbox \in Seq(S),
         inbox' = inbox \/ (inbox # <<>> /\ inbox' = Tail(inbox)),
         NEW i \in 1 .. Len(inbox')
  PROVE  \E j \in 1 .. Len(inbox) : inbox'[i] = inbox[j]
<1>1. CASE inbox' = inbox
  BY <1>1
<1>2. CASE inbox # <<>> /\ inbox' = Tail(inbox)
  <2>1. i + 1 \in 1 .. Len(inbox) /\ inbox'[i] = inbox[i + 1]
    BY <1>2
  <2> QED
    BY <2>1
<1> QED
  BY <1>1, <1>2

LEMMA StepKeepsTransferInv ==
  ASSUME TransferInv, TransferStep
  PROVE  TransferInv'
<1>1. /\ IInv /\ ClientInv /\ TransactionStep /\ ClientStep
      /\ UNCHANGED <<answers, remembered, starts, before>>
      /\ requests' = IF Sends THEN requests \cup {request'} ELSE requests
  BY DEF TransferInv, TransferStep, ClientStep, network, runs, ClientInv
<1>2. ClientInv'
  BY <1>1, StepKeepsClientInv
<1>3. /\ tkl = 0 /\ inbox \in Seq(Datagrams)
      /\ \A i \in 1 .. Len(inbox) : Answer(inbox[i])
  BY <1>1 DEF TransferInv, NoTokens, IInv, TypeOK
<1>4. tkl' = 0
  <2>1. CASE inbox # <<>> /\ tkl' \in {tkl, Head(inbox).tkl}
    <3>1. Answer(Head(inbox))
      BY <1>3, <2>1
    <3> QED
      BY <1>3, <2>1, <3>1, AnswerFields
  <2> QED
    BY <1>1, <1>3, <2>1, StepReads
<1>5. \A i \in 1 .. Len(inbox') : Answer(inbox'[i])
  <2>1. inbox' = inbox \/ (inbox # <<>> /\ inbox' = Tail(inbox))
    BY <1>1, StepReads
  <2> QED
    BY <1>3, <2>1, InboxRest
<1>6. \A r \in requests' : r \in Request /\ r.tkl = 0
  <2>1. Sends => request'.tkl = 0
    BY <1>1, <1>3, RequestSent
  <2>2. request' \in Request
    BY <1>2 DEF ClientInv, IInv, TypeOK
  <2> QED
    BY <1>1, <2>1, <2>2 DEF TransferInv, NoTokens
<1>7. NoTokens'
  BY <1>1, <1>4, <1>5, <1>6 DEF TransferInv, NoTokens, Answer
<1>8. Appending'
  BY <1>1, StepAppends DEF TransferInv, Appending
<1> QED
  BY <1>2, <1>7, <1>8 DEF TransferInv

LEMMA ServeKeepsTransferInv ==
  ASSUME TransferInv, NEW r \in requests, Serve(r)
  PROVE  /\ TransferInv'
         /\ \A a \in answers' \cup remembered' :
              \/ a \in answers \cup remembered
              \/ a.mid = r.mid /\ a.data = Asked(r)
<1>1. ClientInv' /\ Appending'
  <2>1. UNCHANGED clientVars /\ UNCHANGED <<starts, before>>
    BY DEF Serve, runs
  <2> QED
    BY <2>1, NextKeepsClientInv
       DEF TransferInv, Appending, clientVars, vars, download
<1>2. PICK answer \in remembered \cup {ServerAnswer(r)} :
        /\ answers' = answers \cup {answer}
        /\ remembered' \subseteq remembered \cup {answer}
        /\ requests' \subseteq requests
  <2> DEFINE known == {a \in remembered : Remembers /\ a.mid = r.mid}
             answer == IF known = {} THEN ServerAnswer(r) ELSE CHOOSE a \in known : TRUE
  <2>1. answer \in remembered \cup {ServerAnswer(r)}
    OBVIOUS
  <2>2. /\ answers' = answers \cup {answer}
        /\ remembered' = IF Remembers THEN remembered \cup {answer} ELSE remembered
        /\ requests' = IF Reliable THEN requests \ {r} ELSE requests
    BY DEF Serve
  <2> HIDE DEF answer
  <2> QED
    BY <2>1, <2>2
<1>3. Answer(ServerAnswer(r)) /\ ServerAnswer(r).mid = r.mid /\ ServerAnswer(r).data = Asked(r)
  BY ServerAnswerFields DEF TransferInv, NoTokens
<1>4. tkl' = tkl /\ inbox' = inbox
  BY DEF Serve, clientVars, vars, packet
<1>5. \A a \in answers' \cup remembered' : Answer(a)
  BY <1>2, <1>3 DEF TransferInv, NoTokens
<1>6. NoTokens'
  BY <1>2, <1>4, <1>5 DEF TransferInv, NoTokens, Answer
<1> QED
  BY <1>1, <1>2, <1>3, <1>6 DEF TransferInv

LEMMA DeliverKeepsTransferInv ==
  ASSUME TransferInv, NEW a \in answers, TransferDeliver(a)
  PROVE  /\ TransferInv'
         /\ \A i \in 1 .. Len(inbox') :
              inbox'[i] = a \/ \E j \in 1 .. Len(inbox) : inbox'[i] = inbox[j]
<1>1. /\ Answer(a) /\ a \in Datagrams /\ ClientDeliver(a)
      /\ UNCHANGED <<requests, remembered, starts, before>> /\ answers' \subseteq answers
  BY AnswerFields DEF TransferInv, NoTokens, TransferDeliver, runs
<1>2. ClientInv'
  BY <1>1, ArrivalsKeepClientInv DEF TransferInv
<1>3. inbox' = Append(inbox, a) /\ tkl' = tkl /\ file' = file /\ inbox \in Seq(Datagrams)
  BY <1>1 DEF ClientDeliver, Deliver, packet, download, TransferInv, ClientInv, IInv, TypeOK
<1>4. \A i \in 1 .. Len(inbox') :
        inbox'[i] = a \/ \E j \in 1 .. Len(inbox) : inbox'[i] = inbox[j]
  BY <1>1, <1>3
<1>5. \A i \in 1 .. Len(inbox') : Answer(inbox'[i])
  BY <1>1, <1>4 DEF TransferInv, NoTokens
<1>6. NoTokens'
  BY <1>1, <1>3, <1>5 DEF TransferInv, NoTokens, Answer
<1>7. Appending'
  BY <1>1, <1>3 DEF TransferInv, Appending
<1> QED
  BY <1>2, <1>4, <1>6, <1>7 DEF TransferInv
(* A new process starts like the first one, behind what the file holds.      *)
LEMMA RestartFacts ==
  ASSUME TransferInv, Restart
  PROVE  /\ Ready' /\ before' = Len(file') /\ file' \in Seq(Nat)
         /\ requests' = {} /\ answers' = {} /\ remembered' = {} /\ inbox' = <<>>
         /\ number' = 0 /\ mid' = 0 /\ tkl' = 0 /\ nextState' = "IDLE"
         /\ state' = "IDLE" /\ starts' = starts + 1 /\ alive' = TRUE
         /\ "disk" \notin Faults => fileGood'
<1>1. file \in Seq(Nat) /\ before \in 0 .. Len(file)
  BY DEF TransferInv, ClientInv, IInv, TypeOK, Appending
<1>2. file' \in Seq(Nat)
  <2>1. \A n \in before .. Len(file) : SubSeq(file, 1, n) \in Seq(Nat)
    BY <1>1
  <2>2. file' \in {file} \/ file' \in {SubSeq(file, 1, n) : n \in before .. Len(file)}
    BY DEF Restart, FileFound
  <2> QED
    BY <1>1, <2>1, <2>2
<1>3. Constructed'
  BY DEF Restart, Constructed
<1>4. fileGood' \in BOOLEAN /\ ("disk" \notin Faults => fileGood')
  BY DEF Restart
<1>5. stdin' \in BOOLEAN
  BY DEF Restart, TransferInv, ClientInv
<1>6. pc' = "start" /\ sends' = 0
  BY DEF Restart
<1>7. Ready'
  BY <1>2, <1>3, <1>4, <1>5, <1>6 DEF Ready
<1> QED
  BY <1>2, <1>4, <1>7 DEF Restart

LEMMA RestartKeepsTransferInv ==
  ASSUME TransferInv, Restart
  PROVE  TransferInv'
<1>1. Ready' => ClientInv'
  BY ReadyClientInv, PTL
<1>2. ClientInv'
  BY <1>1, RestartFacts
<1>3. NoTokens'
  BY RestartFacts DEF NoTokens
<1>4. Appending'
  BY RestartFacts DEF Appending, TransferInv
<1> QED
  BY <1>2, <1>3, <1>4 DEF TransferInv

(* The steps that leave the members of endpoint, network and file alone.     *)
Idling ==
  \/ ClientStart /\ UNCHANGED <<network, runs>>
  \/ TransferSelect
  \/ Type /\ UNCHANGED <<network, runs>>
  \/ UNCHANGED transferVars

LEMMA IdlingFacts ==
  ASSUME Idling
  PROVE  /\ UNCHANGED <<requests, answers, remembered, starts, before, inbox, number, mid,
                       tkl, file, fileGood, state, alive, request>>
         /\ nextState' = nextState \/ (nextState' = "SEND_REQUEST" /\ pc = "start")
         /\ [ClientNext]_clientVars
<1>1. UNCHANGED <<requests, answers, remembered, starts, before>> /\ [ClientNext]_clientVars
  BY DEF Idling, TransferSelect, transferVars, network, runs, ClientNext, ClientProgram
<1>2. CASE ClientStart
  BY <1>1, <1>2 DEF ClientStart, Start, block, packet, download
<1>3. CASE Select
  BY <1>1, <1>3 DEF Select, SelectStdin, SelectSocket, SelectTimeout, Selecting,
                    block, packet, download
<1>4. CASE Type \/ UNCHANGED clientVars
  BY <1>1, <1>4 DEF Type, clientVars, vars, block, packet, download
<1> QED
  BY <1>2, <1>3, <1>4 DEF Idling, TransferSelect, transferVars

LEMMA IdlingKeepsTransferInv ==
  ASSUME TransferInv, Idling
  PROVE  TransferInv'
<1>1. ClientInv'
  BY IdlingFacts, NextKeepsClientInv DEF TransferInv
<1>2. NoTokens' /\ Appending'
  BY IdlingFacts DEF TransferInv, NoTokens, Appending, Answer
<1> QED
  BY <1>1, <1>2 DEF TransferInv

(* The steps of a transfer, as the proofs below take them apart.             *)
LEMMA StepsOfTransfer ==
  ASSUME [TransferNext]_transferVars
  PROVE  \/ Idling
         \/ TransferStep
         \/ \E r \in requests : Serve(r)
         \/ \E a \in answers : TransferDeliver(a)
         \/ Restart
BY DEF TransferNext, TransferProgram, Server, Network, Idling

LEMMA NextKeepsTransferInv ==
  ASSUME TransferInv, [TransferNext]_transferVars
  PROVE  TransferInv'
BY StepsOfTransfer, IdlingKeepsTransferInv, StepKeepsTransferInv, ServeKeepsTransferInv,
   DeliverKeepsTransferInv, RestartKeepsTransferInv

LEMMA TransferInvHolds == TransferSpec => []TransferInv
BY TransferInvInit, NextKeepsTransferInv, PTL DEF TransferSpec

(* Requests and answers, the runs of the program and what each finds of the  *)
(* file keep their types, for a file of any length and ids of any width.     *)
THEOREM TransferTypes == TransferSpec => []TransferTypeOK
<1>1. ASSUME TransferInv PROVE TransferTypeOK
  <2>1. ClientTypeOK
    BY <1>1 DEF TransferInv, ClientInv, IInv, ClientTypeOK
  <2>2. answers \subseteq Datagrams /\ remembered \subseteq Datagrams
    BY <1>1, AnswerFields DEF TransferInv, NoTokens
  <2> QED
    BY <1>1, <2>1, <2>2 DEF TransferInv, NoTokens, Appending, TransferTypeOK
<1> QED
  BY <1>1, TransferInvHolds, PTL
-----------------------------------------------------------------------------
(* A number of the file takes at most the two octets the codec gets right.   *)
FileIsSmall == LastBlock < Nib * Nib * Nib

(* The chunk the endpoint takes is the block it is at.                       *)
LEMMA ChunkIsNext ==
  ASSUME OrderInv, FileIsSmall, IdsDoNotWrap, ReceiveChunk(Head(inbox))
  PROVE  /\ number' = IF number < LastBlock THEN number + 1 ELSE number
         /\ mid' = IF number < LastBlock THEN (mid + 1) % MidMod ELSE mid
         /\ nextState' = IF number < LastBlock THEN "SEND_REQUEST" ELSE "COMPLETE"
         /\ state' = "RECEIVE_DATA_BLOCK" /\ alive' = alive
         /\ \/ fileGood /\ fileGood' = fileGood /\ file' = Append(file, number)
            \/ "disk" \in Faults /\ fileGood' = FALSE /\ file' = file
<1> DEFINE d == Head(inbox)
<1>1. /\ IInv /\ inbox \in Seq(Datagrams) /\ mid \in 0 .. MidMod - 1
      /\ number \in 0 .. LastBlock
  BY DEF OrderInv, TransferInv, ClientInv, IInv, TypeOK, FileFits
<1>2. inbox # <<>> /\ state' = "RECEIVE_DATA_BLOCK" /\ d.mid = mid /\ alive' = alive
  BY DEF ReceiveChunk, Parsing, Receiving, Answers
<1>3. Answer(d) /\ Fits(d.mid, d.data)
  BY <1>1, <1>2 DEF OrderInv, TransferInv, NoTokens, AllFit
<1>4. d = BlockAnswer(d.mid, 0, d.data)
  BY <1>3, AnswerFields
<1>5. d.data = number
  BY <1>1, <1>2, <1>3 DEF Fits, IdsDoNotWrap
<1>6. /\ d.block = PeerEncode(number, number < LastBlock, ServerSize)
      /\ d.found = "first"
  <2> HIDE DEF d
  <2> QED
    BY <1>4, <1>5 DEF BlockAnswer
<1> DEFINE option == ParsedFirst(d.block)
           decoded == DecodeBlockOption(option)
<1>7. FoundOptions(d) = {option}
  BY <1>6 DEF FoundOptions
<1>8. decoded.number = number /\ decoded.more = (number < LastBlock)
  <2>1. number \in Nat /\ number < Nib * Nib * Nib
    BY <1>1, NibAssumption, TransferAssumption DEF FileIsSmall
  <2>2. NumberOf(option.digits) = number
    BY <1>6, <2>1, RoundTrip
  <2>3. option.more = d.block.more
    BY DEF ParsedFirst
  <2>4. d.block.more = (number < LastBlock)
    BY <1>6 DEF PeerEncode
  <2> QED
    BY <2>2, <2>3, <2>4 DEF DecodeBlockOption
<1>9. /\ number' = IF decoded.more THEN decoded.number + 1 ELSE decoded.number
      /\ mid' = IF decoded.more THEN (d.mid + 1) % MidMod ELSE mid
      /\ nextState' = IF decoded.more THEN "SEND_REQUEST" ELSE "COMPLETE"
  BY <1>7 DEF ReceiveChunk, NextNumber, NextMid
<1>10. \/ fileGood /\ fileGood' = fileGood /\ file' = Append(file, number)
       \/ "disk" \in Faults /\ fileGood' = FALSE /\ file' = file
  BY <1>1, <1>5, ChunkStored
<1> HIDE DEF decoded, option
<1> QED
  BY <1>2, <1>8, <1>9, <1>10
(* Ids and numbers that advance together keep every pair that fitted.        *)
LEMMA FitsKept ==
  ASSUME number \in Nat, mid \in Nat, IdsDoNotWrap,
         \/ number' = number /\ mid' = mid
         \/ number' = number /\ mid = 0 /\ mid' \in Nat
         \/ number' = number + 1 /\ mid' = mid + 1,
         NEW m \in Nat, NEW n, Fits(m, n)
  PROVE  Fits(m, n)'
BY DEF Fits, IdsDoNotWrap

LEMMA OrderInvTypes ==
  ASSUME OrderInv
  PROVE  /\ number \in Nat /\ mid \in 0 .. MidMod - 1 /\ mid \in Nat /\ LastBlock \in Nat
         /\ number <= LastBlock /\ file \in Seq(Nat) /\ before \in 0 .. Len(file)
         /\ \A r \in requests : r.mid \in Nat
         /\ \A a \in answers \cup remembered : a.mid \in Nat
         /\ inbox \in Seq(Datagrams)
         /\ \A i \in 1 .. Len(inbox) : inbox[i].mid \in Nat
<1> USE DEF OrderInv, TransferInv
<1>1. LastBlock \in Nat /\ MidMod \in Nat
  BY TransferAssumption, EndpointAssumption, MaxNumberType
<1>2. /\ mid \in 0 .. MidMod - 1 /\ file \in Seq(Nat) /\ before \in 0 .. Len(file)
      /\ inbox \in Seq(Datagrams) /\ number \in 0 .. LastBlock
  BY DEF ClientInv, IInv, TypeOK, Appending, FileFits
<1>3. \A r \in requests : r.mid \in 0 .. MidMod - 1
  BY DEF NoTokens, Request
<1>4. /\ \A a \in answers \cup remembered : a.mid \in 0 .. MidMod - 1
      /\ \A i \in 1 .. Len(inbox) : inbox[i].mid \in 0 .. MidMod - 1
  BY AnswerFields DEF NoTokens
<1>5. \A k \in 0 .. MidMod - 1 : k \in Nat
  BY <1>1
<1> QED
  BY <1>1, <1>2, <1>3, <1>4, <1>5

(* Where the set of what may be under way only gets what fits, all fit.      *)
LEMMA StillFits ==
  ASSUME OrderInv, IdsDoNotWrap,
         \/ number' = number /\ mid' = mid
         \/ number' = number /\ mid = 0 /\ mid' \in Nat
         \/ number' = number + 1 /\ mid' = mid + 1,
         \A r \in requests' : r \in requests \/ Fits(r.mid, Asked(r))',
         UNCHANGED <<answers, remembered>>,
         inbox' = inbox \/ (inbox # <<>> /\ inbox' = Tail(inbox))
  PROVE  AllFit'
<1>1. \A m \in Nat : \A n : Fits(m, n) => Fits(m, n)'
  BY OrderInvTypes, FitsKept
<1>2. \A r \in requests' : Fits(r.mid, Asked(r))'
  BY <1>1, OrderInvTypes DEF OrderInv, AllFit
<1>3. \A a \in answers' \cup remembered' : Fits(a.mid, a.data)'
  BY <1>1, OrderInvTypes DEF OrderInv, AllFit
<1>4. (\A i \in 1 .. Len(inbox) : Fits(inbox[i].mid, inbox[i].data))'
  <2> DEFINE FitsNext(m, n) ==
               n \in 0 .. number' /\ IF m = 0 THEN n = 0 ELSE m - n = mid' - number'
  <2> SUFFICES ASSUME NEW i \in 1 .. Len(inbox')
               PROVE  FitsNext(inbox'[i].mid, inbox'[i].data)
    BY DEF Fits
  <2>1. inbox \in Seq(Datagrams)
    BY OrderInvTypes
  <2>2. PICK j \in 1 .. Len(inbox) : inbox'[i] = inbox[j]
    BY <2>1, InboxRest
  <2>3. inbox[j].mid \in Nat /\ Fits(inbox[j].mid, inbox[j].data)
    BY OrderInvTypes DEF OrderInv, AllFit
  <2>4. \A m \in Nat : \A n : Fits(m, n) => FitsNext(m, n)
    BY <1>1 DEF Fits
  <2> HIDE DEF FitsNext
  <2> QED
    BY <2>2, <2>3, <2>4
<1> QED
  BY <1>2, <1>3, <1>4 DEF AllFit
(* The chunk goes behind the ones before it, and id and number move on.      *)
LEMMA ChunkKeepsOrderInv ==
  ASSUME OrderInv, FileIsSmall, IdsDoNotWrap, IdsDoNotWrap', TransferStep,
         ReceiveChunk(Head(inbox))
  PROVE  AllFit' /\ FileFits'
<1>1. /\ number \in Nat /\ mid \in 0 .. MidMod - 1 /\ mid \in Nat /\ LastBlock \in Nat
      /\ number <= LastBlock /\ file \in Seq(Nat) /\ before \in 0 .. Len(file)
  BY OrderInvTypes
<1>2. /\ number' = IF number < LastBlock THEN number + 1 ELSE number
      /\ mid' = IF number < LastBlock THEN (mid + 1) % MidMod ELSE mid
      /\ nextState' = IF number < LastBlock THEN "SEND_REQUEST" ELSE "COMPLETE"
      /\ state' = "RECEIVE_DATA_BLOCK"
      /\ \/ fileGood /\ fileGood' = fileGood /\ file' = Append(file, number)
         \/ "disk" \in Faults /\ fileGood' = FALSE /\ file' = file
  BY ChunkIsNext
<1>3. /\ IInv /\ TransactionStep /\ pc = "step" /\ before' = before
      /\ UNCHANGED <<answers, remembered>>
      /\ requests' = IF Sends THEN requests \cup {request'} ELSE requests
  BY DEF OrderInv, TransferInv, ClientInv, TransferStep, ClientStep, runs
<1>4. nextState = "RECEIVE_DATA_BLOCK" /\ ~Sends
  BY DEF ReceiveChunk, Parsing, Receiving, Sends
<1>5. ~Taken
  BY <1>3, <1>4 DEF Taken, OrderInv, TransferInv, ClientInv, Looping
<1>6. number < LastBlock => number' = number + 1 /\ mid' = mid + 1
  <2> SUFFICES ASSUME number < LastBlock PROVE number' = number + 1 /\ mid' = mid + 1
    OBVIOUS
  <2>1. number' = number + 1 /\ mid' = (mid + 1) % MidMod /\ mid' # 0
    BY <1>1, <1>2 DEF IdsDoNotWrap
  <2>2. MidMod \in Nat \ {0}
    BY EndpointAssumption
  <2>3. mid + 1 < MidMod \/ mid + 1 = MidMod
    BY <1>1, <2>2
  <2>4. MidMod % MidMod = 0
    BY <2>2
  <2>5. mid + 1 < MidMod => (mid + 1) % MidMod = mid + 1
    BY <1>1, <2>2
  <2> QED
    BY <2>1, <2>3, <2>4, <2>5
<1>7. AllFit'
  <2>1. inbox' = inbox \/ (inbox # <<>> /\ inbox' = Tail(inbox))
    BY <1>3, StepReads
  <2>2. \/ number' = number /\ mid' = mid
        \/ number' = number + 1 /\ mid' = mid + 1
    BY <1>2, <1>6
  <2> QED
    BY <1>3, <1>4, <2>1, <2>2, StillFits
<1>8. FileFits'
  <2>1. /\ Len(file) - before <= number
        /\ fileGood => Len(file) - before = number
        /\ "disk" \notin Faults => fileGood
        /\ \A i \in before + 1 .. Len(file) : file[i] = i - before - 1
    BY <1>5 DEF OrderInv, FileFits
  <2>2. Taken' <=> ~(number < LastBlock)
    BY <1>2 DEF Taken
  <2>3. /\ number' \in 0 .. LastBlock /\ (Taken' => number' = LastBlock)
        /\ (IF Taken' THEN number' + 1 ELSE number') = number + 1
    BY <1>1, <1>2, <2>2
  <2>4. CASE fileGood /\ fileGood' = fileGood /\ file' = Append(file, number)
    <3>1. Len(file') = Len(file) + 1 /\ Len(file) \in Nat
      BY <1>1, <2>4
    <3>2. \A i \in before + 1 .. Len(file') : file'[i] = i - before - 1
      <4> SUFFICES ASSUME NEW i \in before + 1 .. Len(file')
                   PROVE  file'[i] = i - before - 1
        OBVIOUS
      <4>1. CASE i <= Len(file)
        <5>1. i \in before + 1 .. Len(file) /\ file'[i] = file[i]
          BY <1>1, <2>4, <3>1, <4>1
        <5> QED
          BY <2>1, <5>1
      <4>2. CASE i = Len(file) + 1
        <5>1. file'[i] = number
          BY <1>1, <2>4, <4>2
        <5>2. Len(file) - before = number
          BY <2>1, <2>4
        <5> QED
          BY <1>1, <3>1, <4>2, <5>1, <5>2
      <4> QED
        BY <1>1, <3>1, <4>1, <4>2
    <3>3. Len(file') - before' = number + 1
      <4>1. Len(file) - before = number
        BY <2>1, <2>4
      <4> QED
        BY <1>1, <1>3, <3>1, <4>1
    <3>4. "disk" \notin Faults => fileGood'
      BY <2>4
    <3>5. number + 1 <= number + 1
      BY <1>1
    <3> QED
      BY <1>3, <2>3, <3>2, <3>3, <3>4, <3>5 DEF FileFits
  <2>5. CASE "disk" \in Faults /\ fileGood' = FALSE /\ file' = file
    <3>1. Len(file) - before <= number + 1
      BY <1>1, <2>1
    <3> QED
      BY <1>3, <2>1, <2>3, <2>5, <3>1 DEF FileFits
  <2> QED
    BY <1>2, <2>4, <2>5
<1> QED
  BY <1>7, <1>8

(* Every other step of the program leaves the file and the number alone; a   *)
(* request it sends is one for that number under that id.                    *)
LEMMA OtherStepKeepsOrderInv ==
  ASSUME OrderInv, FileIsSmall, IdsDoNotWrap, TransferStep, ~ReceiveChunk(Head(inbox))
  PROVE  AllFit' /\ FileFits'
<1>1. /\ number \in Nat /\ mid \in Nat /\ LastBlock \in Nat /\ number <= LastBlock
  BY OrderInvTypes
<1>2. /\ IInv /\ ClientInv /\ TransactionStep /\ pc = "step" /\ before' = before
      /\ UNCHANGED <<answers, remembered>>
      /\ requests' = IF Sends THEN requests \cup {request'} ELSE requests
  BY DEF OrderInv, TransferInv, ClientInv, TransferStep, ClientStep, runs
<1>3. /\ number' = number /\ file' = file /\ fileGood' = fileGood
      /\ mid' = mid \/ (mid = 0 /\ mid' \in MessageIds)
      /\ nextState' # "COMPLETE" /\ (state' = "COMPLETE" <=> nextState = "COMPLETE")
  BY <1>2, StepWithoutChunk
<1>4. mid' = mid \/ (mid = 0 /\ mid' \in Nat)
  <2>1. MidMod \in Nat /\ MessageIds \subseteq 0 .. MidMod - 1
    BY EndpointAssumption
  <2>2. \A m \in MessageIds : m \in Nat
    BY <2>1
  <2> QED
    BY <1>3, <2>2
<1>5. inbox' = inbox \/ (inbox # <<>> /\ inbox' = Tail(inbox))
  BY <1>2, StepReads
<1>6. FileFits'
  <2>1. Taken' = Taken
    BY <1>2, <1>3 DEF Taken, OrderInv, TransferInv, ClientInv, Looping
  <2> QED
    BY <1>2, <1>3, <2>1 DEF OrderInv, FileFits
<1>7. AllFit'
  <2>1. \A r \in requests' : r \in requests \/ Fits(r.mid, Asked(r))'
    <3> SUFFICES ASSUME NEW r, Sends, r = request' PROVE Fits(r.mid, Asked(r))'
      BY <1>2
    <3>1. r = [mid |-> mid', tkl |-> tkl, block |-> BlockToAsk]
      BY <1>2, RequestSent
    <3>2. number < Nib * Nib * Nib
      BY <1>1, NibAssumption DEF FileIsSmall
    <3>3. Asked(r) = number
      <4>1. BlockToAsk.digits = <<0, 0, 0, 0>> \o Digits(number)
        BY DEF BlockToAsk, AddOption, EncodeBlockOption
      <4>2. NumberOf(<<0, 0, 0, 0>> \o Digits(number)) = number
        BY <1>1, <3>2, RoundTrip
      <4>3. r.block = BlockToAsk
        BY <3>1
      <4>4. Asked(r) = NumberOf(BlockToAsk.digits)
        BY <4>3, Zenon DEF Asked
      <4> QED
        BY <4>1, <4>2, <4>4, Zenon
    <3>4. mid' = 0 => number = 0
      BY <1>1, <1>4 DEF IdsDoNotWrap
    <3>5. r.mid = mid'
      BY <3>1
    <3> HIDE DEF Asked
    <3> QED
      BY <1>1, <1>3, <1>4, <3>3, <3>4, <3>5 DEF Fits
  <2>2. \/ number' = number /\ mid' = mid
        \/ number' = number /\ mid = 0 /\ mid' \in Nat
    BY <1>3, <1>4
  <2> QED
    BY <1>2, <1>5, <2>1, <2>2, StillFits
<1> QED
  BY <1>6, <1>7
LEMMA StepKeepsOrderInv ==
  ASSUME OrderInv, FileIsSmall, IdsDoNotWrap, IdsDoNotWrap', TransferStep
  PROVE  OrderInv'
BY StepKeepsTransferInv, ChunkKeepsOrderInv, OtherStepKeepsOrderInv DEF OrderInv

(* The server's answer to a request fits where the request does, and so does *)
(* the one it has given to that id before.                                   *)
LEMMA ServeKeepsOrderInv ==
  ASSUME OrderInv, IdsDoNotWrap, NEW r \in requests, Serve(r)
  PROVE  OrderInv'
<1>1. /\ TransferInv'
      /\ \A a \in answers' \cup remembered' :
           a \in answers \cup remembered \/ (a.mid = r.mid /\ a.data = Asked(r))
  BY ServeKeepsTransferInv DEF OrderInv
<1>2. /\ UNCHANGED <<number, mid, inbox, file, fileGood, nextState, state, before>>
      /\ requests' \subseteq requests
  BY DEF Serve, clientVars, vars, block, download, runs
<1>3. \A m, n : Fits(m, n)' = Fits(m, n)
  BY <1>2 DEF Fits
<1>4. Fits(r.mid, Asked(r))
  BY DEF OrderInv, AllFit
<1>5. AllFit'
  BY <1>1, <1>2, <1>3, <1>4 DEF OrderInv, AllFit
<1>6. FileFits'
  BY <1>2 DEF OrderInv, FileFits, Taken
<1> QED
  BY <1>1, <1>5, <1>6 DEF OrderInv

LEMMA DeliverKeepsOrderInv ==
  ASSUME OrderInv, IdsDoNotWrap, NEW a \in answers, TransferDeliver(a)
  PROVE  OrderInv'
<1>1. /\ TransferInv'
      /\ \A i \in 1 .. Len(inbox') :
           inbox'[i] = a \/ \E j \in 1 .. Len(inbox) : inbox'[i] = inbox[j]
  BY DeliverKeepsTransferInv DEF OrderInv
<1>2. /\ UNCHANGED <<number, mid, file, fileGood, nextState, state, before>>
      /\ requests' = requests /\ answers' \subseteq answers /\ remembered' = remembered
  BY DEF TransferDeliver, ClientDeliver, Deliver, block, download, runs
<1>3. \A m, n : Fits(m, n)' = Fits(m, n)
  BY <1>2 DEF Fits
<1>4. Fits(a.mid, a.data)
  BY DEF OrderInv, AllFit
<1>5. AllFit'
  BY <1>1, <1>2, <1>3, <1>4 DEF OrderInv, AllFit
<1>6. FileFits'
  BY <1>2 DEF OrderInv, FileFits, Taken
<1> QED
  BY <1>1, <1>5, <1>6 DEF OrderInv

LEMMA RestartKeepsOrderInv ==
  ASSUME OrderInv, Restart
  PROVE  OrderInv'
<1>1. TransferInv /\ TransferInv'
  BY RestartKeepsTransferInv DEF OrderInv
<1>2. /\ before' = Len(file') /\ file' \in Seq(Nat)
      /\ requests' = {} /\ answers' = {} /\ remembered' = {} /\ inbox' = <<>>
      /\ number' = 0 /\ mid' = 0 /\ nextState' = "IDLE" /\ state' = "IDLE"
      /\ "disk" \notin Faults => fileGood'
  BY <1>1, RestartFacts
<1>3. AllFit'
  BY <1>2 DEF AllFit
<1>4. Len(file') \in Nat /\ LastBlock \in Nat /\ ~Taken'
  BY <1>2, OrderInvTypes DEF Taken
<1>5. \A i \in before' + 1 .. Len(file') : FALSE
  BY <1>2, <1>4
<1>6. Len(file') - before' = 0
  BY <1>2, <1>4
<1>7. FileFits'
  BY <1>2, <1>4, <1>5, <1>6 DEF FileFits
<1> QED
  BY <1>1, <1>3, <1>7 DEF OrderInv

LEMMA IdlingKeepsOrderInv ==
  ASSUME OrderInv, Idling
  PROVE  OrderInv'
<1>1. TransferInv' /\ TransferInv
  BY IdlingKeepsTransferInv DEF OrderInv
<1>2. /\ UNCHANGED <<requests, answers, remembered, before, inbox, number, mid, file,
                     fileGood, state>>
      /\ nextState' = nextState \/ (nextState' = "SEND_REQUEST" /\ pc = "start")
  BY IdlingFacts
<1>3. Taken' = Taken
  BY <1>1, <1>2 DEF Taken, TransferInv, ClientInv, Looping
<1>4. AllFit'
  BY <1>2 DEF OrderInv, AllFit, Fits
<1>5. FileFits'
  BY <1>2, <1>3 DEF OrderInv, FileFits
<1> QED
  BY <1>1, <1>4, <1>5 DEF OrderInv

LEMMA OrderInvInit == TransferInit => OrderInv
<1> SUFFICES ASSUME TransferInit PROVE OrderInv
  OBVIOUS
<1>1. /\ requests = {} /\ answers = {} /\ remembered = {} /\ before = 0
      /\ inbox = <<>> /\ file = <<>> /\ number = 0 /\ nextState = "IDLE" /\ state = "IDLE"
      /\ "disk" \notin Faults => fileGood
  BY DEF TransferInit, ClientInit, Init
<1>2. LastBlock \in Nat
  BY TransferAssumption
<1>3. Len(file) = 0 /\ Len(inbox) = 0 /\ ~Taken
  BY <1>1 DEF Taken
<1>4. AllFit /\ FileFits
  BY <1>1, <1>2, <1>3 DEF AllFit, FileFits
<1> QED
  BY <1>4, TransferInvInit DEF OrderInv

LEMMA NextKeepsOrderInv ==
  ASSUME FileIsSmall, OrderInv, IdsDoNotWrap, IdsDoNotWrap', [TransferNext]_transferVars
  PROVE  OrderInv'
BY StepsOfTransfer, IdlingKeepsOrderInv, StepKeepsOrderInv, ServeKeepsOrderInv,
   DeliverKeepsOrderInv, RestartKeepsOrderInv

LEMMA OrderInvHolds ==
  ASSUME FileIsSmall
  PROVE  TransferSpec /\ []IdsDoNotWrap => []OrderInv
BY OrderInvInit, NextKeepsOrderInv, PTL DEF TransferSpec
-----------------------------------------------------------------------------
(* What this run of the program has written, chunk by chunk.                 *)
LEMMA DownloadedSeq ==
  ASSUME TransferInv
  PROVE  /\ Downloaded \in Seq(Nat) /\ Len(Downloaded) = Len(file) - before
         /\ \A i \in 1 .. Len(Downloaded) : Downloaded[i] = file[before + i]
<1>1. file \in Seq(Nat) /\ before \in 0 .. Len(file)
  BY DEF TransferInv, ClientInv, IInv, TypeOK, Appending
<1>2. Len(file) \in Nat /\ before \in Nat /\ before <= Len(file)
  BY <1>1
<1>3. before + 1 \in Int /\ Len(file) \in Int /\ \A i \in before + 1 .. Len(file) : file[i] \in Nat
  BY <1>1, <1>2
<1>4. /\ Downloaded \in Seq(Nat)
      /\ Len(Downloaded) = IF before + 1 <= Len(file) THEN Len(file) - (before + 1) + 1 ELSE 0
      /\ \A i \in 1 .. Len(file) - (before + 1) + 1 : Downloaded[i] = file[before + 1 + i - 1]
  BY <1>3, SubSeqProperties DEF Downloaded
<1>5. Len(Downloaded) = Len(file) - before
  BY <1>2, <1>4
<1>6. ASSUME NEW i \in 1 .. Len(Downloaded) PROVE Downloaded[i] = file[before + i]
  <2>1. i \in 1 .. Len(file) - (before + 1) + 1 /\ before + 1 + i - 1 = before + i
    BY <1>2, <1>5
  <2> QED
    BY <1>4, <2>1
<1> QED
  BY <1>4, <1>5, <1>6

LEMMA RemoteSeq ==
  /\ LastBlock \in Nat /\ Remote \in Seq(Nat) /\ Len(Remote) = LastBlock + 1
  /\ \A i \in 1 .. LastBlock + 1 : Remote[i] = i - 1
<1>1. LastBlock \in Nat
  BY TransferAssumption
<1>2. \A i \in 1 .. LastBlock + 1 : i - 1 \in Nat
  BY <1>1
<1>3. Remote \in [1 .. LastBlock + 1 -> Nat]
  BY <1>2 DEF Remote
<1> QED
  BY <1>1, <1>3 DEF Remote

(* It is what the endpoint's number says of the remote file.                 *)
LEMMA DownloadedFits ==
  ASSUME OrderInv
  PROVE  /\ Len(Downloaded) \in 0 .. LastBlock + 1
         /\ \A i \in 1 .. Len(Downloaded) : Downloaded[i] = i - 1
         /\ fileGood => Len(Downloaded) = IF Taken THEN LastBlock + 1 ELSE number
<1>1. /\ Len(Downloaded) = Len(file) - before
      /\ \A i \in 1 .. Len(Downloaded) : Downloaded[i] = file[before + i]
  BY DownloadedSeq DEF OrderInv
<1>2. /\ number \in 0 .. LastBlock /\ LastBlock \in Nat
      /\ Len(file) \in Nat /\ before \in Nat /\ before <= Len(file)
  BY OrderInvTypes DEF OrderInv, FileFits
<1>3. Taken => number = LastBlock
  BY DEF OrderInv, FileFits
<1>4. Len(Downloaded) <= LastBlock + 1
  <2>1. Len(file) - before <= number \/ Len(file) - before <= number + 1
    BY DEF OrderInv, FileFits
  <2> QED
    BY <1>1, <1>2, <2>1
<1>5. ASSUME NEW i \in 1 .. Len(Downloaded) PROVE Downloaded[i] = i - 1
  <2>1. before + i \in before + 1 .. Len(file) /\ (before + i) - before - 1 = i - 1
    BY <1>1, <1>2
  <2>2. file[before + i] = (before + i) - before - 1
    BY <2>1 DEF OrderInv, FileFits
  <2> QED
    BY <1>1, <2>1, <2>2
<1>6. fileGood => Len(Downloaded) = IF Taken THEN LastBlock + 1 ELSE number
  BY <1>1, <1>3 DEF OrderInv, FileFits
<1> QED
  BY <1>1, <1>2, <1>4, <1>5, <1>6

LEMMA OrderInvInOrder ==
  ASSUME OrderInv
  PROVE  InOrder
<1> DEFINE k == Len(Downloaded)
<1>1. Downloaded \in Seq(Nat) /\ k \in 0 .. LastBlock + 1 /\ LastBlock \in Nat
  BY DownloadedSeq, DownloadedFits, RemoteSeq DEF OrderInv
<1>2. \A i \in 1 .. k : Downloaded[i] = i - 1
  BY DownloadedFits
<1> HIDE DEF k
<1>3. \A i \in 1 .. k : Remote[i] = i - 1 /\ Remote[i] \in Nat
  BY <1>1, RemoteSeq
<1>4. /\ SubSeq(Remote, 1, k) \in Seq(Nat)
      /\ Len(SubSeq(Remote, 1, k)) = IF 1 <= k THEN k - 1 + 1 ELSE 0
      /\ \A i \in 1 .. k - 1 + 1 : SubSeq(Remote, 1, k)[i] = Remote[1 + i - 1]
  BY <1>1, <1>3, SubSeqProperties
<1>5. Len(SubSeq(Remote, 1, k)) = k
  BY <1>1, <1>4
<1>6. ASSUME NEW i \in 1 .. k PROVE SubSeq(Remote, 1, k)[i] = i - 1
  <2>1. i \in 1 .. k - 1 + 1 /\ 1 + i - 1 = i
    BY <1>1
  <2> QED
    BY <1>3, <1>4, <2>1
<1>7. Downloaded = SubSeq(Remote, 1, k)
  BY <1>1, <1>2, <1>4, <1>5, <1>6, SeqEqual DEF k
<1> QED
  BY <1>7 DEF InOrder, k

(* A file the disk has taken whole is the remote one.                        *)
LEMMA WholeWhenTaken ==
  ASSUME OrderInv, fileGood, Taken
  PROVE  Downloaded = Remote
<1>1. /\ Len(Downloaded) = LastBlock + 1 /\ Downloaded \in Seq(Nat)
      /\ \A i \in 1 .. Len(Downloaded) : Downloaded[i] = i - 1
  BY DownloadedSeq, DownloadedFits DEF OrderInv
<1>2. \A i \in 1 .. Len(Downloaded) : Downloaded[i] = Remote[i]
  BY <1>1, RemoteSeq
<1> QED
  BY <1>1, <1>2, RemoteSeq, SeqEqual

LEMMA OrderInvOneBlock ==
  ASSUME OrderInv
  PROVE  OneBlockPerMid
<1> SUFFICES ASSUME NEW r1 \in requests, NEW r2 \in requests, r1.mid = r2.mid
             PROVE  Asked(r1) = Asked(r2)
  BY DEF OneBlockPerMid
<1>1. Fits(r1.mid, Asked(r1)) /\ Fits(r2.mid, Asked(r2))
  BY DEF OrderInv, AllFit
<1>2. r1.mid \in Nat /\ mid \in Nat /\ number \in Nat
  BY OrderInvTypes
<1> HIDE DEF Asked
<1> QED
  BY <1>1, <1>2 DEF Fits
-----------------------------------------------------------------------------
(* The chunks a run writes are those of the remote file, from the first, in  *)
(* order and without gap, whatever network, server and disk do.              *)
THEOREM ChunksInOrder ==
  ASSUME FileIsSmall
  PROVE  TransferSpec /\ []IdsDoNotWrap => []InOrder
BY OrderInvInOrder, OrderInvHolds, PTL

(* No two requests under way ask for different blocks under one message id.  *)
THEOREM OneBlockEach ==
  ASSUME FileIsSmall
  PROVE  TransferSpec /\ []IdsDoNotWrap => []OneBlockPerMid
BY OrderInvOneBlock, OrderInvHolds, PTL

(* Where the disk takes what is written, "completed" is said of a whole file.*)
THEOREM CompletedIsWhole ==
  ASSUME FileIsSmall, "disk" \notin Faults
  PROVE  TransferSpec /\ []IdsDoNotWrap => []CompleteIsWhole
<1>1. ASSUME OrderInv PROVE CompleteIsWhole
  <2>1. fileGood
    BY <1>1 DEF OrderInv, FileFits
  <2>2. state = "COMPLETE" => Taken
    BY DEF Taken
  <2> QED
    BY <1>1, <2>1, <2>2, WholeWhenTaken DEF CompleteIsWhole
<1> QED
  BY <1>1, OrderInvHolds, PTL

-----------------------------------------------------------------------------
(* The steps of the program, as steps of FileDownload.                       *)
LEMMA ChunkIsFetch ==
  ASSUME FileIsSmall, "disk" \notin Faults, OrderInv, TransferInv', IdsDoNotWrap,
         TransferStep, ReceiveChunk(Head(inbox))
  PROVE  Download!Fetch
<1>1. /\ alive /\ pc = "step" /\ state \notin {"COMPLETE", "ERROR"} /\ before' = before
      /\ starts' = starts /\ nextState = "RECEIVE_DATA_BLOCK"
  BY DEF OrderInv, TransferInv, ClientInv, Looping, TransferStep, ClientStep,
         TransactionStep, runs, ReceiveChunk, Parsing, Receiving
<1>2. /\ state' = "RECEIVE_DATA_BLOCK" /\ alive' = alive
      /\ fileGood /\ file' = Append(file, number)
  BY ChunkIsNext
<1>3. Outcome = "running" /\ Outcome' = "running"
  BY <1>1, <1>2 DEF Outcome
<1>4. ~Taken
  BY <1>1 DEF Taken
<1>5. /\ Downloaded \in Seq(Nat) /\ Len(Downloaded) = number
      /\ Len(Downloaded) = Len(file) - before
      /\ \A i \in 1 .. Len(Downloaded) : Downloaded[i] = file[before + i]
  BY <1>2, <1>4, DownloadedSeq, DownloadedFits DEF OrderInv
<1>6. /\ Downloaded' \in Seq(Nat) /\ Len(Downloaded') = Len(file') - before'
      /\ \A i \in 1 .. Len(Downloaded') : Downloaded'[i] = file'[before' + i]
  <2>1. (/\ Downloaded \in Seq(Nat) /\ Len(Downloaded) = Len(file) - before
         /\ \A i \in 1 .. Len(Downloaded) : Downloaded[i] = file[before + i])'
    BY DownloadedSeq, PTL
  <2> QED
    BY <2>1
<1>7. /\ number \in Nat /\ number <= LastBlock /\ LastBlock \in Nat
      /\ file \in Seq(Nat) /\ before \in 0 .. Len(file)
  BY OrderInvTypes
<1>8. Len(Downloaded) < Len(Remote) /\ Remote[Len(Downloaded) + 1] = number
  BY <1>5, <1>7, RemoteSeq
<1>9. Downloaded' = Append(Downloaded, number)
  <2> DEFINE longer == Append(Downloaded, number)
  <2>1. /\ longer \in Seq(Nat) /\ Len(longer) = number + 1
        /\ \A i \in 1 .. number : longer[i] = Downloaded[i]
        /\ longer[number + 1] = number
    BY <1>5, <1>7, AppendProperties
  <2>2. Len(file') = Len(file) + 1 /\ Len(file) \in Nat /\ before \in Nat
    BY <1>2, <1>7
  <2>3. Len(Downloaded') = number + 1
    BY <1>1, <1>5, <1>6, <1>7, <2>2
  <2>4. ASSUME NEW i \in 1 .. number + 1 PROVE Downloaded'[i] = longer[i]
    <3>1. Downloaded'[i] = file'[before + i]
      BY <1>1, <1>6, <2>3, <2>4
    <3>2. CASE i <= number
      <4>1. before + i \in 1 .. Len(file)
        BY <1>5, <1>7, <2>2, <3>2
      <4>2. file'[before + i] = file[before + i]
        BY <1>2, <1>7, <4>1
      <4>3. i \in 1 .. number
        BY <3>2
      <4> QED
        BY <1>5, <2>1, <3>1, <4>2, <4>3
    <3>3. CASE i = number + 1
      <4>1. before + i = Len(file) + 1
        <5>1. number = Len(file) - before
          BY <1>5
        <5>2. number \in Nat /\ Len(file) \in Nat /\ before \in Nat
          BY <1>7, <2>2
        <5> QED
          BY <3>3, <5>1, <5>2
      <4>2. file'[before + i] = number
        BY <1>2, <1>7, <4>1
      <4> QED
        BY <2>1, <3>1, <3>3, <4>2
    <3>4. i <= number \/ i = number + 1
      <4>1. number \in Nat /\ i \in 1 .. number + 1
        BY <1>7, <2>4
      <4> QED
        BY <4>1
    <3> QED
      BY <3>2, <3>3, <3>4
  <2> HIDE DEF longer
  <2>5. Downloaded' = longer
    BY <1>6, <2>1, <2>3, <2>4, SeqEqual
  <2> QED
    BY <2>5 DEF longer
<1> QED
  BY <1>1, <1>3, <1>8, <1>9 DEF Download!Fetch
(* The other steps of the loop finish it, give it up or mean nothing to it.  *)
LEMMA OtherStepIsNone ==
  ASSUME "disk" \notin Faults, OrderInv, TransferStep, ~ReceiveChunk(Head(inbox))
  PROVE  Download!Finish \/ Download!GiveUp \/ UNCHANGED Download!downloadVars
<1>1. /\ IInv /\ TransactionStep /\ alive /\ state \notin {"COMPLETE", "ERROR"}
      /\ before' = before /\ starts' = starts
  BY DEF OrderInv, TransferInv, ClientInv, Looping, TransferStep, ClientStep,
         TransactionStep, runs
<1>2. file' = file /\ (state' = "COMPLETE" <=> nextState = "COMPLETE")
  BY <1>1, StepWithoutChunk
<1>3. Downloaded' = Downloaded
  BY <1>1, <1>2 DEF Downloaded
<1>4. Outcome = "running"
  BY <1>1 DEF Outcome
<1>5. CASE Outcome' = "failed"
  BY <1>1, <1>3, <1>4, <1>5 DEF Download!GiveUp
<1>6. CASE Outcome' = "complete"
  <2>1. state' = "COMPLETE"
    BY <1>6 DEF Outcome
  <2>2. Taken /\ fileGood
    BY <1>2, <2>1 DEF Taken, OrderInv, FileFits
  <2>3. Downloaded = Remote
    BY <2>2, WholeWhenTaken
  <2> QED
    BY <1>1, <1>3, <1>4, <1>6, <2>3 DEF Download!Finish
<1>7. CASE Outcome' = "running"
  BY <1>1, <1>3, <1>4, <1>7 DEF Download!downloadVars
<1>8. Outcome' \in {"failed", "complete", "running"}
  BY DEF Outcome
<1> QED
  BY <1>5, <1>6, <1>7, <1>8

LEMMA RestartIsStartAgain ==
  ASSUME TransferInv, Restart
  PROVE  Download!StartAgain
<1>1. /\ before' = Len(file') /\ file' \in Seq(Nat) /\ state' = "IDLE" /\ alive' = TRUE
      /\ starts' = starts + 1
  BY RestartFacts
<1>2. Len(file') < before' + 1 /\ before' + 1 \in Int /\ Len(file') \in Int
  BY <1>1
<1>3. SubSeq(file', before' + 1, Len(file')) = <<>>
  BY <1>2, SubSeqEmpty
<1>4. Downloaded' = <<>> /\ Outcome' = "running"
  BY <1>1, <1>3 DEF Downloaded, Outcome
<1> QED
  BY <1>1, <1>4 DEF Download!StartAgain

LEMMA OthersAreNone ==
  ASSUME Idling \/ (\E r \in requests : Serve(r)) \/ (\E a \in answers : TransferDeliver(a))
  PROVE  UNCHANGED Download!downloadVars
<1>1. UNCHANGED <<file, before, starts, state, alive>>
  <2>1. CASE Idling
    BY <2>1, IdlingFacts
  <2>2. CASE \E r \in requests : Serve(r)
    BY <2>2 DEF Serve, clientVars, vars, download, runs
  <2>3. CASE \E a \in answers : TransferDeliver(a)
    BY <2>3 DEF TransferDeliver, ClientDeliver, Deliver, download, runs
  <2> QED
    BY <2>1, <2>2, <2>3
<1> QED
  BY <1>1 DEF Download!downloadVars, Downloaded, Outcome

LEMMA InitIsDownloadInit == TransferInit => Download!DownloadInit
<1> SUFFICES ASSUME TransferInit PROVE Download!DownloadInit
  OBVIOUS
<1>1. file = <<>> /\ before = 0 /\ starts = 1 /\ alive = TRUE /\ state = "IDLE"
  BY DEF TransferInit, ClientInit, Init
<1>2. Len(file) = 0 /\ SubSeq(file, 1, 0) = <<>>
  BY <1>1, SubSeqEmpty
<1>3. Downloaded = <<>> /\ Outcome = "running"
  BY <1>1, <1>2 DEF Downloaded, Outcome
<1> QED
  BY <1>1, <1>3 DEF Download!DownloadInit

(* Where the disk takes what is written, the whole download, with its lost,  *)
(* late and repeated datagrams, failures and restarts, is one of the kind    *)
(* FileDownload describes.                                                   *)
THEOREM TransferImplementsDownload ==
  ASSUME FileIsSmall, "disk" \notin Faults
  PROVE  TransferSpec /\ []IdsDoNotWrap => ImplementsDownload
<1>1. ASSUME OrderInv, OrderInv', IdsDoNotWrap, [TransferNext]_transferVars
      PROVE  [Download!DownloadNext]_(Download!downloadVars)
  <2>1. CASE TransferStep
    BY <1>1, <2>1, ChunkIsFetch, OtherStepIsNone DEF Download!DownloadNext, OrderInv
  <2>2. CASE Restart
    BY <1>1, <2>2, RestartIsStartAgain DEF Download!DownloadNext, OrderInv
  <2>3. CASE Idling \/ (\E r \in requests : Serve(r)) \/ (\E a \in answers : TransferDeliver(a))
    BY <2>3, OthersAreNone
  <2> QED
    BY <1>1, <2>1, <2>2, <2>3, StepsOfTransfer
<1>2. TransferSpec /\ []IdsDoNotWrap =>
        Download!DownloadInit /\ [][Download!DownloadNext]_(Download!downloadVars)
  BY <1>1, InitIsDownloadInit, OrderInvHolds, PTL DEF TransferSpec
<1> QED
  BY <1>2 DEF ImplementsDownload, Download!DownloadSpec
-----------------------------------------------------------------------------
LEMMA CountedDoNotWrap == TransferInv /\ IdsAreCounted => IdsDoNotWrap
<1> SUFFICES ASSUME TransferInv, IdsAreCounted PROVE IdsDoNotWrap
  OBVIOUS
<1>1. number \in Nat
  BY MaxNumberType DEF TransferInv, ClientInv, IInv, TypeOK
<1> QED
  BY <1>1 DEF IdsAreCounted, IdsDoNotWrap

LEMMA StepKeepsCounted ==
  ASSUME FileIsSmall, DrawnLow, OrderInv, IdsAreCounted, TransferStep
  PROVE  IdsAreCounted'
<1>1. /\ number \in Nat /\ mid \in Nat /\ LastBlock \in Nat /\ number <= LastBlock
      /\ MidMod \in Nat
  BY OrderInvTypes, EndpointAssumption
<1>2. IInv /\ TransactionStep /\ IdsDoNotWrap
  BY <1>1, CountedDoNotWrap DEF OrderInv, TransferInv, ClientInv, TransferStep, ClientStep
<1>3. CASE ReceiveChunk(Head(inbox))
  <2>1. /\ number' = IF number < LastBlock THEN number + 1 ELSE number
        /\ mid' = IF number < LastBlock THEN (mid + 1) % MidMod ELSE mid
    BY <1>2, <1>3, ChunkIsNext
  <2>2. number < LastBlock =>
          mid + 1 < MidMod /\ number <= mid /\ mid - number + LastBlock < MidMod
    BY <1>1 DEF DrawnLow, IdsAreCounted
  <2>3. number < LastBlock => (mid + 1) % MidMod = mid + 1
    BY <1>1, <2>2
  <2> QED
    BY <1>1, <2>1, <2>2, <2>3 DEF IdsAreCounted
<1>4. CASE ~ReceiveChunk(Head(inbox))
  <2>1. number' = number /\ (mid' = mid \/ mid = 0)
    BY <1>2, <1>4, StepWithoutChunk
  <2> QED
    BY <1>1, <2>1 DEF IdsAreCounted
<1> QED
  BY <1>3, <1>4

LEMMA NextKeepsCounted ==
  ASSUME FileIsSmall, DrawnLow, OrderInv, IdsAreCounted, [TransferNext]_transferVars
  PROVE  IdsAreCounted'
<1>1. CASE TransferStep
  BY <1>1, StepKeepsCounted
<1>2. CASE Restart
  <2>1. number' = 0
    BY <1>2, RestartFacts DEF OrderInv
  <2> QED
    BY <2>1 DEF IdsAreCounted
<1>3. CASE Idling
  <2>1. UNCHANGED <<number, mid>>
    BY <1>3, IdlingFacts
  <2> QED
    BY <2>1 DEF IdsAreCounted
<1>4. CASE (\E r \in requests : Serve(r)) \/ (\E a \in answers : TransferDeliver(a))
  <2>1. UNCHANGED <<number, mid>>
    BY <1>4 DEF Serve, clientVars, vars, TransferDeliver, ClientDeliver, Deliver, block
  <2> QED
    BY <2>1 DEF IdsAreCounted
<1> QED
  BY <1>1, <1>2, <1>3, <1>4, StepsOfTransfer

(* The ids do not wrap in a transfer whose first id is not among the         *)
(* LastBlock highest, whichever ids the generator may draw: of the 65536 all *)
(* but as many as the file has blocks after the first.                       *)
THEOREM IdsStayApart ==
  ASSUME FileIsSmall
  PROVE  TransferSpec /\ []DrawnLow => []IdsDoNotWrap
<1>1. TransferInit => OrderInv /\ IdsAreCounted
  <2>1. TransferInit => IdsAreCounted
    BY DEF TransferInit, ClientInit, Init, IdsAreCounted
  <2> QED
    BY <2>1, OrderInvInit
<1>2. ASSUME DrawnLow, OrderInv, IdsAreCounted, [TransferNext]_transferVars
      PROVE  OrderInv' /\ IdsAreCounted'
  <2>1. IdsAreCounted'
    BY <1>2, NextKeepsCounted
  <2>2. TransferInv'
    BY <1>2, NextKeepsTransferInv DEF OrderInv
  <2>3. TransferInv' /\ IdsAreCounted' => IdsDoNotWrap'
    BY CountedDoNotWrap, PTL
  <2>4. IdsDoNotWrap /\ IdsDoNotWrap'
    BY <1>2, <2>1, <2>2, <2>3, CountedDoNotWrap DEF OrderInv
  <2> QED
    BY <1>2, <2>1, <2>4, NextKeepsOrderInv
<1>3. OrderInv /\ IdsAreCounted => IdsDoNotWrap
  BY CountedDoNotWrap DEF OrderInv
<1> QED
  BY <1>1, <1>2, <1>3, PTL DEF TransferSpec

(* All four together, said of what is drawn: where the first id is not among *)
(* the LastBlock highest and the disk takes what is written, a transfer      *)
(* writes the chunks in order, asks for one block under one id, says         *)
(* "completed" of a whole file only, and implements FileDownload.            *)
THEOREM DownloadIsRight ==
  ASSUME FileIsSmall, "disk" \notin Faults
  PROVE  TransferSpec /\ []DrawnLow =>
           []InOrder /\ []OneBlockPerMid /\ []CompleteIsWhole /\ ImplementsDownload
<1>1. /\ TransferSpec /\ []IdsDoNotWrap => []InOrder
      /\ TransferSpec /\ []IdsDoNotWrap => []OneBlockPerMid
      /\ TransferSpec /\ []IdsDoNotWrap => []CompleteIsWhole
      /\ TransferSpec /\ []IdsDoNotWrap => ImplementsDownload
  BY ChunksInOrder, OneBlockEach, CompletedIsWhole, TransferImplementsDownload
<1> QED
  BY <1>1, IdsStayApart

-----------------------------------------------------------------------------
(* With a reliable network and a server that answers, one datagram is under  *)
(* way while the endpoint waits, under the id it waits for, and none before  *)
(* it sends.                                                                 *)
OneUnderWay ==
  \/ /\ \E r \in requests : requests = {r} /\ r.mid = mid
     /\ answers = {} /\ inbox = <<>>
  \/ /\ \E a \in answers : answers = {a} /\ a.mid = mid
     /\ requests = {} /\ inbox = <<>>
  \/ /\ Len(inbox) = 1 /\ inbox[1].mid = mid
     /\ requests = {} /\ answers = {}

NoneUnderWay == requests = {} /\ answers = {} /\ inbox = <<>>

(* select, with the two seconds it is given, comes back with the answer.     *)
Prompt ==
  /\ attempts = 0
  /\ nextState = "RECEIVE_DATA_BLOCK" /\ alive => pc # "exit" /\ OneUnderWay
  /\ nextState \in {"IDLE", "SEND_REQUEST"} /\ pc # "exit" => NoneUnderWay
  /\ nextState = "RECEIVE_DATA_BLOCK" /\ pc = "select" /\ alive /\ ~stdin => tv > 0
  /\ nextState = "RECEIVE_DATA_BLOCK" /\ pc = "step" /\ alive => received
PromptInv == TransferInv /\ Prompt

LEMMA PromptInit == TransferInit => Prompt
<1> SUFFICES ASSUME TransferInit PROVE Prompt
  OBVIOUS
<1>1. /\ requests = {} /\ answers = {} /\ inbox = <<>> /\ attempts = 0
      /\ nextState = "IDLE" /\ pc = "start"
  BY DEF TransferInit, ClientInit, Init
<1> QED
  BY <1>1 DEF Prompt, NoneUnderWay

(* The request of a step that sends is the only datagram under way.          *)
LEMMA SendingIsPrompt ==
  ASSUME PromptInv, TransferStep, Sends
  PROVE  Prompt'
<1>1. /\ ClientInv /\ IInv /\ TransactionStep /\ pc = "step" /\ attempts = 0
      /\ alive /\ UNCHANGED <<answers, remembered>> /\ requests' = requests \cup {request'}
      /\ pc' = IF state' \in {"COMPLETE", "ERROR"} THEN "exit" ELSE "select"
  BY DEF PromptInv, Prompt, TransferInv, ClientInv, TransferStep, ClientStep, TransactionStep
<1>2. NoneUnderWay
  BY <1>1 DEF PromptInv, Prompt, Sends
<1>3. SendSucceeds
  BY <1>1, NextSends DEF Next
<1>4. /\ state' = "SEND_REQUEST" /\ nextState' = "RECEIVE_DATA_BLOCK" /\ tv' = 2
      /\ attempts' = attempts /\ inbox' = inbox /\ request'.mid = mid'
  BY <1>3 DEF SendSucceeds, MakeRequest, Sending, TvSec
<1>5. OneUnderWay'
  <2>1. requests' = {request'} /\ answers' = {} /\ inbox' = <<>>
    BY <1>1, <1>2, <1>4 DEF NoneUnderWay
  <2>2. \E r \in requests' : requests' = {r} /\ r.mid = mid'
    BY <1>4, <2>1
  <2> QED
    BY <2>1, <2>2 DEF OneUnderWay
<1>6. pc' = "select"
  BY <1>1, <1>4
<1> QED
  BY <1>1, <1>4, <1>5, <1>6 DEF Prompt

(* What a step receives is the answer awaited, so that nothing is tried      *)
(* again and nothing is left under way.                                      *)
LEMMA ReceivingIsPrompt ==
  ASSUME PromptInv, TransferStep, ReceiveDataBlockHandler
  PROVE  Prompt'
<1>1. /\ ClientInv /\ IInv /\ TransactionStep /\ pc = "step" /\ alive
      /\ ~Sends /\ UNCHANGED <<requests, answers>>
      /\ pc' = IF state' \in {"COMPLETE", "ERROR"} THEN "exit" ELSE "select"
  <2>1. ~Sends
    BY DEF Sends, ReceiveDataBlockHandler, ReceiveTimeout, ReceiveDatagram, ReceiveFails,
           ReceiveAborts, ReceiveUnparsed, ReceiveUnknown, ReceiveRefusal,
           ReceiveUndecodable, ReceiveChunk, Parsing, Receiving
  <2> QED
    BY <2>1 DEF PromptInv, TransferInv, ClientInv, TransferStep, ClientStep, TransactionStep
<1>2. nextState = "RECEIVE_DATA_BLOCK"
  BY DEF ReceiveDataBlockHandler, ReceiveTimeout, ReceiveDatagram, ReceiveFails,
         ReceiveAborts, ReceiveUnparsed, ReceiveUnknown, ReceiveRefusal,
         ReceiveUndecodable, ReceiveChunk, Parsing, Receiving
<1>3. received /\ OneUnderWay /\ attempts = 0 /\ inbox # <<>>
  BY <1>1, <1>2 DEF PromptInv, Prompt, IInv, ReceiveNeverBlocks
<1>4. /\ inbox \in Seq(Datagrams) /\ Len(inbox) = 1 /\ inbox[1].mid = mid
      /\ requests = {} /\ answers = {}
  BY <1>1, <1>3 DEF OneUnderWay, IInv, TypeOK
<1>5. Head(inbox) = inbox[1] /\ Tail(inbox) = <<>>
  <2>1. Tail(inbox) \in Seq(Datagrams) /\ Len(Tail(inbox)) = 0
    BY <1>3, <1>4, HeadTailProperties
  <2>2. Tail(inbox) = <<>>
    BY <2>1, EmptySeq
  <2> QED
    BY <1>4, <2>2
<1>6. Answers(Head(inbox))
  <2>1. Answer(inbox[1])
    BY <1>4 DEF PromptInv, TransferInv, NoTokens
  <2>2. inbox[1].type = "ACK"
    BY <2>1 DEF Answer, BlockAnswer
  <2> QED
    BY <1>4, <1>5, <2>2 DEF Answers
<1>7. /\ ReceiveDatagram(Head(inbox)) /\ ~ReceiveUnknown(Head(inbox))
  BY <1>3, <1>6 DEF ReceiveDataBlockHandler, ReceiveTimeout, ReceiveUnknown
<1>8. attempts' = 0
  BY <1>3, <1>7 DEF ReceiveDatagram, ReceiveFails, ReceiveAborts, ReceiveUnparsed,
                    ReceiveRefusal, ReceiveUndecodable, ReceiveChunk
<1>9. inbox' = <<>>
  BY <1>5, <1>7 DEF ReceiveDatagram, ReceiveFails, ReceiveAborts, ReceiveUnparsed,
                    ReceiveRefusal, ReceiveUndecodable, ReceiveChunk, Parsing, Receiving
<1>10. NoneUnderWay'
  BY <1>1, <1>4, <1>9 DEF NoneUnderWay
<1>11. nextState' # "RECEIVE_DATA_BLOCK" \/ ~alive'
  BY <1>7 DEF ReceiveDatagram, ReceiveFails, ReceiveAborts, ReceiveUnparsed,
              ReceiveRefusal, ReceiveUndecodable, ReceiveChunk, Fail
<1> QED
  BY <1>8, <1>10, <1>11 DEF Prompt

(* The other handlers neither wait nor send.                                 *)
LEMMA EndingIsPrompt ==
  ASSUME PromptInv, TransferStep, ~Sends, ~ReceiveDataBlockHandler
  PROVE  Prompt'
<1>1. /\ ClientInv /\ TransactionStep /\ attempts = 0 /\ pc = "step"
      /\ UNCHANGED <<requests, answers>>
      /\ pc' = IF state' \in {"COMPLETE", "ERROR"} THEN "exit" ELSE "select"
  BY DEF PromptInv, Prompt, TransferInv, TransferStep, ClientStep
<1>2. CASE SendRequestHandler
  <2>1. nextState' = "ERROR" /\ attempts' = attempts
    BY <1>2 DEF SendRequestHandler, SendRefused, SendUnserialisable, SendFails,
                SendSucceeds, MakeRequest, Sending, Sends, Fail
  <2> QED
    BY <1>1, <2>1 DEF Prompt
<1>3. CASE ErrorHandler \/ CompleteHandler
  <2>1. nextState' = "IDLE" /\ attempts' = attempts /\ pc' = "exit"
    BY <1>1, <1>3 DEF ErrorHandler, CompleteHandler
  <2> QED
    BY <1>1, <2>1 DEF Prompt
<1>4. CASE IdleHandler
  <2>1. /\ nextState' = "IDLE" /\ attempts' = attempts /\ inbox' = inbox
        /\ nextState = "IDLE"
    BY <1>4 DEF IdleHandler
  <2>2. NoneUnderWay'
    BY <1>1, <2>1 DEF PromptInv, Prompt, NoneUnderWay
  <2> QED
    BY <1>1, <2>1, <2>2 DEF Prompt
<1> QED
  BY <1>1, <1>2, <1>3, <1>4 DEF TransactionStep

(* select does not give up while the one datagram is under way.              *)
LEMMA SelectingIsPrompt ==
  ASSUME PromptInv, Reliable, TransferSelect
  PROVE  Prompt'
<1>1. /\ Select /\ UNCHANGED <<requests, answers>> /\ ClientInv
      /\ tv > 0 /\ inbox = <<>> => requests \cup answers = {}
  BY DEF TransferSelect, network, PromptInv, TransferInv
<1>2. /\ pc = "select" /\ alive
      /\ UNCHANGED <<nextState, attempts, mid, inbox, alive, stdin>>
      /\ tv' \in TimeLeft
  BY <1>1 DEF Select, SelectStdin, SelectSocket, SelectTimeout, Selecting
<1>3. CASE nextState # "RECEIVE_DATA_BLOCK"
  <2>1. pc' \in {"select", "step"}
    BY <1>1, <1>2 DEF Select, SelectStdin, SelectSocket, SelectTimeout
  <2>2. NoneUnderWay' = NoneUnderWay
    BY <1>1, <1>2 DEF NoneUnderWay
  <2> QED
    BY <1>2, <1>3, <2>1, <2>2 DEF PromptInv, Prompt
<1>4. CASE nextState = "RECEIVE_DATA_BLOCK"
  <2>1. OneUnderWay /\ OneUnderWay' = OneUnderWay /\ attempts = 0
    BY <1>1, <1>2, <1>4 DEF PromptInv, Prompt, OneUnderWay
  <2>2. CASE SelectStdin
    BY <1>2, <1>4, <2>1, <2>2 DEF Prompt, SelectStdin
  <2>3. CASE SelectSocket
    BY <1>2, <1>4, <2>1, <2>3 DEF Prompt, SelectSocket
  <2>4. ~SelectTimeout
    <3> SUFFICES ASSUME SelectTimeout PROVE FALSE
      OBVIOUS
    <3>1. inbox = <<>> /\ tv > 0
      BY <1>2, <1>4 DEF SelectTimeout, PromptInv, Prompt
    <3>2. requests = {} /\ answers = {} /\ Len(inbox) = 0
      BY <1>1, <3>1
    <3> QED
      BY <2>1, <3>2 DEF OneUnderWay
  <2> QED
    BY <1>1, <2>2, <2>3, <2>4 DEF Select
<1> QED
  BY <1>3, <1>4

LEMMA StartIsPrompt ==
  ASSUME PromptInv, ClientStart, UNCHANGED network
  PROVE  Prompt'
<1>1. /\ pc = "start" /\ nextState = "IDLE"
      /\ pc' = "select" /\ nextState' = "SEND_REQUEST"
      /\ UNCHANGED <<attempts, inbox, requests, answers>>
  BY DEF ClientStart, Start, PromptInv, TransferInv, ClientInv, Looping, network
<1>2. NoneUnderWay'
  BY <1>1 DEF PromptInv, Prompt, NoneUnderWay
<1> QED
  BY <1>1, <1>2 DEF PromptInv, Prompt

(* Server and network pass the one datagram on.                              *)
LEMMA ServingIsPrompt ==
  ASSUME PromptInv, Reliable, NEW r \in requests, Serve(r)
  PROVE  Prompt'
<1>1. /\ UNCHANGED <<attempts, nextState, alive, pc, stdin, tv, received, mid, inbox>>
      /\ requests' = requests \ {r}
  BY DEF Serve, clientVars, vars
<1>2. PICK answer : answer.mid = r.mid /\ answers' = answers \cup {answer}
  <2> DEFINE known == {a \in remembered : Remembers /\ a.mid = r.mid}
             answer == IF known = {} THEN ServerAnswer(r) ELSE CHOOSE a \in known : TRUE
  <2>1. ServerAnswer(r).mid = r.mid
    BY ServerAnswerFields DEF PromptInv, TransferInv, NoTokens
  <2>2. answer.mid = r.mid
    BY <2>1
  <2>3. answers' = answers \cup {answer}
    BY DEF Serve
  <2> QED
    BY <2>2, <2>3
<1>3. ~NoneUnderWay
  BY DEF NoneUnderWay
<1>4. ASSUME OneUnderWay PROVE OneUnderWay'
  <2>1. requests = {r} /\ r.mid = mid /\ answers = {} /\ inbox = <<>>
    BY <1>4 DEF OneUnderWay
  <2>2. requests' = {} /\ answers' = {answer} /\ inbox' = <<>> /\ answer.mid = mid'
    BY <1>1, <1>2, <2>1
  <2>3. \E a \in answers' : answers' = {a} /\ a.mid = mid'
    BY <2>2
  <2> QED
    BY <2>2, <2>3 DEF OneUnderWay
<1> QED
  BY <1>1, <1>3, <1>4 DEF PromptInv, Prompt

LEMMA DeliveringIsPrompt ==
  ASSUME PromptInv, Reliable, NEW a \in answers, TransferDeliver(a)
  PROVE  Prompt'
<1>1. /\ UNCHANGED <<attempts, nextState, alive, pc, stdin, tv, received, mid, requests>>
      /\ answers' = answers \ {a} /\ inbox' = Append(inbox, a)
  BY DEF TransferDeliver, ClientDeliver, Deliver
<1>2. ~NoneUnderWay
  BY DEF NoneUnderWay
<1>3. ASSUME OneUnderWay PROVE OneUnderWay'
  <2>1. answers = {a} /\ a.mid = mid /\ requests = {} /\ inbox = <<>>
    BY <1>3 DEF OneUnderWay
  <2>2. requests' = {} /\ answers' = {} /\ mid' = mid
    BY <1>1, <2>1
  <2>3. inbox' = <<a>>
    BY <1>1, <2>1
  <2>4. Len(inbox') = 1 /\ inbox'[1] = a
    BY <2>3
  <2> QED
    BY <2>1, <2>2, <2>4 DEF OneUnderWay
<1> QED
  BY <1>1, <1>2, <1>3 DEF PromptInv, Prompt

LEMMA OthersArePrompt ==
  ASSUME PromptInv, Restart \/ (Type /\ UNCHANGED <<network, runs>>) \/ UNCHANGED transferVars
  PROVE  Prompt'
<1>1. CASE Restart
  <2>1. /\ requests' = {} /\ answers' = {} /\ inbox' = <<>> /\ attempts' = 0
        /\ nextState' = "IDLE"
    BY <1>1 DEF Restart
  <2> QED
    BY <2>1 DEF Prompt, NoneUnderWay
<1>2. CASE (Type /\ UNCHANGED <<network, runs>>) \/ UNCHANGED transferVars
  <2>1. /\ UNCHANGED <<attempts, nextState, alive, pc, tv, received, mid, inbox, requests,
                       answers>>
        /\ ~stdin' => ~stdin
    BY <1>2 DEF Type, transferVars, clientVars, vars, network
  <2>2. OneUnderWay' = OneUnderWay /\ NoneUnderWay' = NoneUnderWay
    BY <2>1 DEF OneUnderWay, NoneUnderWay
  <2> QED
    BY <2>1, <2>2 DEF PromptInv, Prompt
<1> QED
  BY <1>1, <1>2

LEMMA NextKeepsPrompt ==
  ASSUME Reliable, PromptInv, [TransferNext]_transferVars
  PROVE  PromptInv'
<1>1. TransferInv'
  BY NextKeepsTransferInv DEF PromptInv
<1>2. ASSUME TransferStep PROVE Prompt'
  <2>1. CASE Sends
    BY <1>2, <2>1, SendingIsPrompt
  <2>2. CASE ReceiveDataBlockHandler
    BY <1>2, <2>2, ReceivingIsPrompt
  <2>3. CASE ~Sends /\ ~ReceiveDataBlockHandler
    BY <1>2, <2>3, EndingIsPrompt
  <2> QED
    BY <2>1, <2>2, <2>3
<1>3. Prompt'
  <2>1. CASE Idling
    <3>1. CASE ClientStart /\ UNCHANGED <<network, runs>>
      BY <3>1, StartIsPrompt
    <3>2. CASE TransferSelect
      BY <3>2, SelectingIsPrompt
    <3> QED
      BY <2>1, <3>1, <3>2, OthersArePrompt DEF Idling
  <2>2. CASE \E r \in requests : Serve(r)
    BY <2>2, ServingIsPrompt
  <2>3. CASE \E a \in answers : TransferDeliver(a)
    BY <2>3, DeliveringIsPrompt
  <2>4. CASE TransferStep
    BY <1>2, <2>4
  <2>5. CASE Restart
    BY <2>5, OthersArePrompt
  <2> QED
    BY <2>1, <2>2, <2>3, <2>4, <2>5, StepsOfTransfer
<1> QED
  BY <1>1, <1>3 DEF PromptInv

(* Under a reliable network nothing is sent twice: neither the time select   *)
(* takes off its timeval, nor what is typed, nor an answer that comes before *)
(* the program looks for it makes the client count an attempt.               *)
THEOREM NothingIsSentTwice ==
  ASSUME Reliable
  PROVE  TransferSpec => []NoNeedlessRetry
<1>1. TransferInit => PromptInv
  BY TransferInvInit, PromptInit DEF PromptInv
<1>2. PromptInv => NoNeedlessRetry
  BY DEF PromptInv, Prompt, NoNeedlessRetry
<1> QED
  BY <1>1, <1>2, NextKeepsPrompt, PTL DEF TransferSpec
=============================================================================
