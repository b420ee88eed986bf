---------------------------- MODULE BlockTransfer ----------------------------
(* A whole download: coap-client, a CoAP file server and the network between *)
(* them. The server and the network are not this repository's; they do what  *)
(* the README's quickstart needs of them.                                    *)
EXTENDS CoapClient

CONSTANTS
  LastBlock,    \* the number of the file's last block
  ServerSize,   \* the block size the server answers with
  Remembers,    \* the server repeats its answer to a message id it has seen
  PeerMarker,   \* the octet the server puts before a payload
  Reliable,     \* the network neither loses, repeats nor delays a datagram
  MaxStarts     \* bound: how often the program is started

ASSUME TransferAssumption ==
  /\ LastBlock \in 0 .. MaxNumber
  /\ ServerSize \in BlockSizes
  /\ Remembers \in BOOLEAN /\ Reliable \in BOOLEAN
  /\ PeerMarker \in 0 .. 255
  /\ MaxStarts \in Nat

VARIABLES
  requests,   \* requests the network may still bring to the server
  answers,    \* answers it may still bring to the client
  remembered, \* answers the server has given
  starts,     \* how often the program was started
  before      \* the length of the file when it was started last

network == <<requests, answers, remembered>>
runs == <<starts, before>>
transferVars == <<clientVars, network, runs>>

(* The remote file: chunk i is block i - 1.                                  *)
Remote == [i \in 1 .. LastBlock + 1 |-> i - 1]

(* What parse_options stops at: message_s() initialises its payloadMarker to *)
(* 0. To an options parser that knows no marker 0xFF is a reserved delta.    *)
PAYLOAD_MARKER == 0

Asked(r) == NumberOf(r.block.digits)

(* The answer, under message id m with token length t, to who asks for block *)
(* n: the block, or a refusal if there is none.                              *)
BlockAnswer(m, t, n) ==
  [form |-> IF n > LastBlock THEN "unmarked"
            ELSE IF PeerMarker = PAYLOAD_MARKER THEN "marked" ELSE "malformed",
   tkl |-> t, type |-> "ACK", mid |-> m,
   code |-> IF n > LastBlock THEN "OTHER" ELSE "CONTENT",
   found |-> "first",
   block |-> PeerEncode(n, n < LastBlock, ServerSize),
   data |-> n]

(* The network can bring whatever the server can answer.                     *)
ASSUME AnswersAssumption ==
  \A m \in 0 .. MidMod - 1, n \in 0 .. MaxNumber : BlockAnswer(m, 0, n) \in Datagrams

ServerAnswer(r) == BlockAnswer(r.mid, r.tkl, Asked(r))

TransferInit ==
  /\ ClientInit
  /\ requests = {} /\ answers = {} /\ remembered = {}
  /\ starts = 1 /\ before = 0

(* The client's step, with its request handed over to the network.           *)
TransferStep ==
  /\ ClientStep
  /\ requests' = IF Sends THEN requests \cup {request'} ELSE requests
  /\ UNCHANGED <<answers, remembered, runs>>

(* A reliable network answers within the two seconds select waits.           *)
TransferSelect ==
  /\ Select
  /\ Reliable /\ tv > 0 /\ inbox = <<>> => requests \cup answers = {}
  /\ UNCHANGED <<network, runs>>

(* The network: a set from which nothing is removed loses a datagram by never*)
(* delivering it, and may delay, reorder and repeat every other.             *)
Serve(r) ==
  LET known == {a \in remembered : Remembers /\ a.mid = r.mid}
      answer == IF known = {} THEN ServerAnswer(r) ELSE CHOOSE a \in known : TRUE
  IN  /\ r \in requests
      /\ requests' = IF Reliable THEN requests \ {r} ELSE requests
      /\ answers' = answers \cup {answer}
      /\ remembered' = IF Remembers THEN remembered \cup {answer} ELSE remembered
      /\ UNCHANGED <<clientVars, runs>>

TransferDeliver(a) ==
  /\ a \in answers
  /\ ClientDeliver(a)
  /\ answers' = IF Reliable THEN answers \ {a} ELSE answers
  /\ UNCHANGED <<requests, remembered, runs>>

(* The file a new process finds. Of a process that was killed, or ended by an*)
(* assertion, the chunks still in the stream's buffer are lost; one that has *)
(* come to its end has closed the file.                                      *)
FileFound ==
  IF pc = "exit" THEN {file}
  ELSE {SubSeq(file, 1, n) : n \in before .. Len(file)}

(* The program is started again, at any time. It keeps nothing but the file, *)
(* to which it appends; it has another port, so that no answer to the one    *)
(* before reaches it and the server takes it for another client.             *)
Restart ==
  /\ starts < MaxStarts
  /\ starts' = starts + 1
  /\ file' \in FileFound
  /\ before' = Len(file')
  /\ fileGood' \in BOOLEAN /\ ("disk" \notin Faults => fileGood')
  /\ pc' = "start" /\ sends' = 0
  /\ state' = "IDLE" /\ nextState' = "IDLE"
  /\ attempts' = 0 /\ tv' = 0 /\ mid' = 0 /\ received' = FALSE
  /\ error' = "UNKNOWN"
  /\ number' = 0 /\ more' = FALSE /\ size' = 0
  /\ tkl' = 0 /\ payload' = <<>>
  /\ request' = [mid |-> 0, tkl |-> 0, block |-> EmptyOption]
  /\ inbox' = <<>> /\ alive' = TRUE
  /\ requests' = {} /\ answers' = {} /\ remembered' = {}
  /\ UNCHANGED stdin

TransferProgram ==
  \/ ClientStart /\ UNCHANGED <<network, runs>>
  \/ TransferSelect
  \/ TransferStep

Server == \E r \in requests : Serve(r)
Network == \E a \in answers : TransferDeliver(a)

TransferNext ==
  \/ TransferProgram
  \/ Type /\ UNCHANGED <<network, runs>>
  \/ Server
  \/ Network
  \/ Restart

TransferSpec == TransferInit /\ [][TransferNext]_transferVars

(* The process runs; the server and a network that is reliable do their work.*)
FairTransferSpec ==
  /\ TransferSpec
  /\ WF_transferVars(TransferProgram)
  /\ WF_transferVars(Server)
  /\ WF_transferVars(Network)

-----------------------------------------------------------------------------
TransferTypeOK ==
  /\ ClientTypeOK
  /\ requests \subseteq Request
  /\ answers \subseteq Datagrams
  /\ remembered \subseteq Datagrams
  /\ starts \in Nat /\ before \in 0 .. Len(file)

(* What this run of the program has written.                                 *)
Downloaded == SubSeq(file, before + 1, Len(file))

(* The chunks it has written are those of the remote file, in order and      *)
(* without repetition or gap, whatever the network does to requests and      *)
(* answers, and wherever an earlier run has stopped.                         *)
InOrder == Downloaded = SubSeq(Remote, 1, Len(Downloaded))

(* The program says "Block-wise transfer completed" when it has written the  *)
(* whole file, behind what was in it before.                                 *)
CompleteIsWhole == state = "COMPLETE" => Downloaded = Remote

(* Two requests the network may still answer ask for one block if they carry *)
(* one message id: only then is "the id matches" reason to take an answer.   *)
OneBlockPerMid ==
  \A r1, r2 \in requests : r1.mid = r2.mid => Asked(r1) = Asked(r2)

(* The download is one in the sense of FileDownload.                         *)
Outcome ==
  CASE ~alive \/ state = "ERROR" -> "failed"
    [] alive /\ state = "COMPLETE" -> "complete"
    [] OTHER -> "running"

Download == INSTANCE FileDownload WITH
  got <- Downloaded, outcome <- Outcome, runs <- starts

ImplementsDownload == Download!DownloadSpec

(* With a server and a network that answer in time the file is downloaded by *)
(* the program that is not killed,                                           *)
Completes == <>[](state = "COMPLETE")

(* and no request is sent twice.                                             *)
NoNeedlessRetry == attempts = 0

(* Every answer of the server to a request for a block can be parsed.        *)
AnswersAreParsed == error # "RECEIVED_PACKET"
=============================================================================
