-------------------------- MODULE UriClientEndpoint --------------------------
(* The client endpoint that downloads a file block by block                  *)
(* (src/uriClientEndpoint.cc), with the parts of packet, block2 and          *)
(* clientConnection its handlers call, in the hands of an application that   *)
(* calls start, stop, set_received and transaction_step, and with whatever   *)
(* datagrams the network may bring it.                                       *)
EXTENDS BlockOption

CONSTANTS
  MAX_ATTEMPTS,  \* RECEIVE_MAX_ATTEMPTS: 4 in the code
  MidMod,        \* how many message ids there are: 65536 in the code
  MessageIds,    \* what generate_message_id may return
  Datagrams,     \* what the network may deliver
  Stale,         \* option values the memory past the options may hold
  Faults,        \* which of "send", "receive", "disk" may fail
  InboxMax,      \* bound: datagrams the socket's receive buffer holds
  MaxChunks      \* bound: datagrams delivered while the file is this long

ASSUME EndpointAssumption ==
  /\ MAX_ATTEMPTS \in Nat
  /\ MidMod \in Nat \ {0}
  /\ MessageIds \subseteq 0 .. MidMod - 1
  /\ Faults \subseteq {"send", "receive", "disk"}
  /\ InboxMax \in Nat /\ MaxChunks \in Nat

TOKEN_MAX_LENGTH == 8

(* A datagram is told apart by what parse() makes of its octets:             *)
(*   "empty"     it has none                                                 *)
(*   "short"     fewer than the header's four                                *)
(*   "malformed" another version, a cut token, or an option list that breaks *)
(*               off; the octet 0xFF is an option with a reserved delta      *)
(*   "unmarked"  well-formed options up to the end                           *)
(*   "marked"    well-formed options, the payload marker, the payload        *)
(* and then by the fields the endpoint looks at. "found" says where its      *)
(* BLOCK_2 option is: "first" of the options, "later", or "missing".         *)
Datagram ==
  [form : {"empty", "short", "malformed", "unmarked", "marked"},
   tkl : 0 .. 15, type : {"ACK", "OTHER"}, mid : 0 .. MidMod - 1,
   code : {"CONTENT", "NOT_FOUND", "OTHER"},
   found : {"first", "later", "missing"},
   block : OptionValue,
   data : Nat]

ASSUME DatagramsAssumption == Datagrams \subseteq Datagram
ASSUME StaleAssumption ==
  Stale \subseteq OptionValue

VARIABLES
  state, nextState,    \* _state, _next_state
  attempts,            \* _attempts
  tv,                  \* the seconds *_tv_secP holds
  mid,                 \* _mid
  received,            \* _received
  error,               \* the code in _error
  number, more, size,  \* the members of _block2
  tkl, payload,        \* the token length and the payload _pduP holds
  file, fileGood,      \* what was written to _downloaded_file; its goodbit
  request,             \* the request last handed to the socket
  inbox,               \* the socket's receive buffer
  alive                \* no assertion has ended the process

block == <<number, more, size>>
packet == <<tkl, payload>>
download == <<file, fileGood>>
vars == <<state, nextState, attempts, tv, mid, received, error, block, packet,
          download, request, inbox, alive>>

Init ==
  /\ state = "IDLE" /\ nextState = "IDLE"
  /\ attempts = 0 /\ tv = 0 /\ mid = 0 /\ received = FALSE
  /\ error = "UNKNOWN"
  /\ number = 0 /\ more = FALSE /\ size = 0
  /\ tkl = 0 /\ payload = <<>>
  /\ file = <<>> /\ fileGood \in BOOLEAN /\ ("disk" \notin Faults => fileGood)
  /\ request = [mid |-> 0, tkl |-> 0, block |-> EmptyOption]
  /\ inbox = <<>>
  /\ alive = TRUE

-----------------------------------------------------------------------------
(* start() and stop(), which the application may call between two steps.     *)
Start ==
  /\ alive
  /\ nextState' = "SEND_REQUEST"
  /\ UNCHANGED <<state, attempts, tv, mid, received, error, block, packet,
                 download, request, inbox, alive>>

Stop ==
  /\ alive
  /\ nextState' = "ERROR"
  /\ UNCHANGED <<state, attempts, tv, mid, received, error, block, packet,
                 download, request, inbox, alive>>

(* set_received(true): the application has seen the socket readable.         *)
SetReceived ==
  /\ alive
  /\ inbox # <<>>
  /\ received' = TRUE
  /\ UNCHANGED <<state, nextState, attempts, tv, mid, error, block, packet,
                 download, request, inbox, alive>>

(* Any datagram may reach the socket at any time, while there is room.       *)
Deliver(d) ==
  /\ alive
  /\ Len(inbox) < InboxMax
  /\ Len(file) + Len(inbox) < MaxChunks
  /\ inbox' = Append(inbox, d)
  /\ UNCHANGED <<state, nextState, attempts, tv, mid, received, error, block,
                 packet, download, request, alive>>

-----------------------------------------------------------------------------
(* As if set_tv_sec did not reach the caller's timeval.                      *)
TvSecLost(seconds) == 0

(* set_tv_sec                                                                *)
TvSec(seconds) == IF seconds > 60 THEN 60 ELSE seconds

(* As if a failure led straight back to IDLE.                                *)
FailUnseen(code) ==
  /\ error' = code
  /\ nextState' = "IDLE"

(* Every failure is kept in _error and announced by the state ERROR.         *)
Fail(code) ==
  /\ error' = code
  /\ nextState' = "ERROR"

IdleHandler ==
  /\ nextState = "IDLE"
  /\ state' = "IDLE" /\ nextState' = "IDLE"
  /\ UNCHANGED <<attempts, tv, mid, received, error, block, packet, download,
                 request, inbox, alive>>

(* block2::set_header starts over when the number is 0.                      *)
MoreToAsk == number # 0 /\ more
SizeToAsk == IF number = 0 THEN BLOCK_MAX_SIZE ELSE size

BlockToAsk == AddOption(EncodeBlockOption(number, MoreToAsk, SizeToAsk))

Sending ==
  /\ nextState = "SEND_REQUEST"
  /\ state' = "SEND_REQUEST"
  /\ more' = MoreToAsk /\ size' = SizeToAsk /\ number' = number
  /\ UNCHANGED <<attempts, received, tkl, download, inbox, alive>>

(* Too high a block number: set_header fails before anything else happens.   *)
SendRefused ==
  /\ Sending
  /\ ~Encodable(number, SizeToAsk)
  /\ Fail("CREATE_BLOCK_OPTION")
  /\ UNCHANGED <<tv, mid, payload, request>>

(* As if make_request left the payload alone when it is given none.          *)
MakeRequestPayloadKept ==
  /\ Sending
  /\ Encodable(number, SizeToAsk)
  /\ mid' \in IF mid = 0 THEN MessageIds ELSE {mid}
  /\ payload' = payload

(* As if every attempt generated a message id.                               *)
MakeRequestFreshId ==
  /\ Sending
  /\ Encodable(number, SizeToAsk)
  /\ mid' \in MessageIds
  /\ payload' = <<>>

(* make_request clears the payload of the packet last parsed, but leaves its *)
(* token length: the request has no token of its own.                        *)
MakeRequest ==
  /\ Sending
  /\ Encodable(number, SizeToAsk)
  /\ mid' \in IF mid = 0 THEN MessageIds ELSE {mid}
  /\ payload' = <<>>

(* serialize refuses a token of more than TOKEN_MAX_LENGTH octets. The only  *)
(* options of a request are the port, the segments of the path and BLOCK_2,  *)
(* none of them empty: its assertions on the length of the buffer, which it  *)
(* has measured itself, hold.                                                *)
Serializes == tkl <= TOKEN_MAX_LENGTH

SendUnserialisable ==
  /\ MakeRequest
  /\ ~Serializes
  /\ Fail("COAP_SERIALIZE")
  /\ UNCHANGED <<tv, request>>

SendFails ==
  /\ MakeRequest
  /\ Serializes
  /\ "send" \in Faults
  /\ Fail("COAP_SEND")
  /\ UNCHANGED <<tv, request>>

SendSucceeds ==
  /\ MakeRequest
  /\ Serializes
  /\ request' = [mid |-> mid', tkl |-> tkl, block |-> BlockToAsk]
  /\ tv' = TvSec(2)
  /\ nextState' = "RECEIVE_DATA_BLOCK"
  /\ UNCHANGED error

SendRequestHandler ==
  SendRefused \/ SendUnserialisable \/ SendFails \/ SendSucceeds

-----------------------------------------------------------------------------
(* As if retry() compared before it increments.                              *)
RetryOnceMore ==
  IF attempts > MAX_ATTEMPTS
    THEN attempts' = 0 /\ Fail("COAP_TIMEOUT")
    ELSE attempts' = attempts + 1 /\ nextState' = "SEND_REQUEST" /\ UNCHANGED error

(* retry(), in both places that call it.                                     *)
Retry ==
  IF attempts + 1 > MAX_ATTEMPTS
    THEN attempts' = 0 /\ Fail("COAP_TIMEOUT")
    ELSE /\ attempts' = attempts + 1
         /\ nextState' = "SEND_REQUEST"
         /\ UNCHANGED error

(* No datagram was seen before select came back.                             *)
ReceiveTimeout ==
  /\ nextState = "RECEIVE_DATA_BLOCK" /\ ~received
  /\ state' = "RECEIVE_DATA_BLOCK"
  /\ Retry
  /\ UNCHANGED <<tv, mid, received, block, packet, download, request, inbox, alive>>

(* As if set_received were the application's to clear.                       *)
ReceivingFlagKept(d) ==
  /\ nextState = "RECEIVE_DATA_BLOCK" /\ received
  /\ inbox # <<>> /\ d = Head(inbox)
  /\ state' = "RECEIVE_DATA_BLOCK"
  /\ received' = received
  /\ inbox' = Tail(inbox)
  /\ UNCHANGED request

(* clientConnection::receive takes a datagram from the socket. With nothing  *)
(* there recvfrom does not return.                                           *)
Receiving(d) ==
  /\ nextState = "RECEIVE_DATA_BLOCK" /\ received
  /\ inbox # <<>> /\ d = Head(inbox)
  /\ state' = "RECEIVE_DATA_BLOCK"
  /\ received' = FALSE
  /\ inbox' = Tail(inbox)
  /\ UNCHANGED request

(* recvfrom fails, with the datagram already dequeued.                       *)
ReceiveFails(d) ==
  /\ Receiving(d)
  /\ "receive" \in Faults
  /\ Fail("COAP_RECEIVE")
  /\ UNCHANGED <<attempts, tv, mid, block, packet, download, alive>>

(* What parse() does with a datagram: its assertions on the length, its      *)
(* error returns, and the token length it leaves behind in the packet.       *)
ParseAborts(d) == \/ d.form = "empty"
                  \/ d.form = "unmarked" /\ d.tkl <= TOKEN_MAX_LENGTH

(* As if parse_token did not limit the token's length.                       *)
ParseSucceedsAnyToken(d) == d.form = "marked"

ParseSucceeds(d) == d.form = "marked" /\ d.tkl <= TOKEN_MAX_LENGTH
ParsedTkl(d) == IF d.form \in {"empty", "short"} THEN tkl ELSE d.tkl

(* parse_payload appends to what the packet holds.                           *)
ParsedPayload(d) == IF ParseSucceeds(d) THEN Append(payload, d.data) ELSE payload

Parsing(d) ==
  /\ Receiving(d)
  /\ tv' = TvSec(0)
  /\ tkl' = ParsedTkl(d)
  /\ payload' = ParsedPayload(d)

ReceiveAborts(d) ==
  /\ Parsing(d)
  /\ ParseAborts(d)
  /\ alive' = FALSE
  /\ UNCHANGED <<nextState, attempts, mid, error, block, download>>

ReceiveUnparsed(d) ==
  /\ Parsing(d)
  /\ ~ParseAborts(d) /\ ~ParseSucceeds(d)
  /\ Fail("RECEIVED_PACKET")
  /\ UNCHANGED <<attempts, mid, block, download, alive>>

(* As if any acknowledgement were the awaited one.                           *)
AnswersAnyId(d) == d.type = "ACK"

(* The answer to the request carries its message id.                         *)
Answers(d) == d.type = "ACK" /\ d.mid = mid

(* As if a stray datagram were no attempt.                                   *)
ReceiveUnknownUncounted(d) ==
  /\ Parsing(d)
  /\ ParseSucceeds(d) /\ ~Answers(d)
  /\ nextState' = "SEND_REQUEST"
  /\ UNCHANGED <<attempts, error, mid, block, download, alive>>

ReceiveUnknown(d) ==
  /\ Parsing(d)
  /\ ParseSucceeds(d) /\ ~Answers(d)
  /\ Retry
  /\ UNCHANGED <<mid, block, download, alive>>

ReceiveRefusal(d) ==
  /\ Parsing(d)
  /\ ParseSucceeds(d) /\ Answers(d) /\ d.code # "CONTENT"
  /\ Fail(IF d.code = "NOT_FOUND" THEN "URI_NOT_FOUND" ELSE "SERVER_CODE")
  /\ UNCHANGED <<attempts, mid, block, download, alive>>

(* The option values find_options(BLOCK_2) may hand to decode_block_option.  *)
(* Its binary search also reads the element past the last option: where the  *)
(* option is missing it ends with nullptr or with what that memory holds.    *)
FoundOptions(d) ==
  CASE d.found = "first" -> {ParsedFirst(d.block)}
    [] d.found = "later" -> {d.block}
    [] d.found = "missing" -> Stale \cup {EmptyOption}

ReceiveUndecodable(d) ==
  /\ Parsing(d)
  /\ ParseSucceeds(d) /\ Answers(d) /\ d.code = "CONTENT"
  /\ \E option \in FoundOptions(d) : ~Decodable(option)
  /\ Fail("DECODE_BLOCK_OPTION")
  /\ UNCHANGED <<attempts, mid, block, download, alive>>

(* write() on the stream: nothing looks at its outcome, and after a failure  *)
(* every later write does nothing.                                           *)
StoreChunk ==
  \/ /\ fileGood
     /\ file' = file \o payload'
     /\ UNCHANGED fileGood
  \/ /\ "disk" \in Faults
     /\ fileGood' = FALSE
     /\ UNCHANGED file

(* As if the id and the number stayed what they were in the answer.          *)
NextMidSame(d) == d.mid
NextNumberSame(decoded) == decoded.number

(* The id and the number of the request for the next block.                  *)
NextMid(d) == (d.mid + 1) % MidMod
NextNumber(decoded) == decoded.number + 1

(* The chunk is stored and the endpoint turns to the next block, numbered    *)
(* from the answer, or to the end of the transfer.                           *)
ReceiveChunk(d) ==
  /\ Parsing(d)
  /\ ParseSucceeds(d) /\ Answers(d) /\ d.code = "CONTENT"
  /\ \E option \in FoundOptions(d) :
       LET decoded == DecodeBlockOption(option)
       IN  /\ Decodable(option)
           /\ more' = FALSE
           /\ size' = decoded.size
           /\ number' = IF decoded.more THEN NextNumber(decoded) ELSE decoded.number
           /\ mid' = IF decoded.more THEN NextMid(d) ELSE mid
           /\ nextState' = IF decoded.more THEN "SEND_REQUEST" ELSE "COMPLETE"
  /\ StoreChunk
  /\ attempts' = 0
  /\ UNCHANGED <<error, alive>>

ReceiveDatagram(d) ==
  \/ ReceiveFails(d) \/ ReceiveAborts(d) \/ ReceiveUnparsed(d) \/ ReceiveUnknown(d)
  \/ ReceiveRefusal(d) \/ ReceiveUndecodable(d) \/ ReceiveChunk(d)

ReceiveDataBlockHandler ==
  \/ ReceiveTimeout
  \/ inbox # <<>> /\ ReceiveDatagram(Head(inbox))

-----------------------------------------------------------------------------
ErrorHandler ==
  /\ nextState = "ERROR"
  /\ state' = "ERROR" /\ nextState' = "IDLE"
  /\ UNCHANGED <<attempts, tv, mid, received, error, block, packet, download,
                 request, inbox, alive>>

CompleteHandler ==
  /\ nextState = "COMPLETE"
  /\ state' = "COMPLETE" /\ nextState' = "IDLE"
  /\ UNCHANGED <<attempts, tv, mid, received, error, block, packet, download,
                 request, inbox, alive>>

TransactionStep ==
  /\ alive
  /\ \/ IdleHandler
     \/ SendRequestHandler
     \/ ReceiveDataBlockHandler
     \/ ErrorHandler
     \/ CompleteHandler

Next ==
  \/ Start \/ Stop \/ SetReceived
  \/ TransactionStep
  \/ \E d \in Datagrams : Deliver(d)

Spec == Init /\ [][Next]_vars

-----------------------------------------------------------------------------
States == {"IDLE", "SEND_REQUEST", "RECEIVE_DATA_BLOCK", "ERROR", "COMPLETE"}

Errors ==
  {"UNKNOWN", "CREATE_BLOCK_OPTION", "COAP_SERIALIZE", "COAP_SEND", "COAP_TIMEOUT",
   "COAP_RECEIVE", "RECEIVED_PACKET", "URI_NOT_FOUND", "SERVER_CODE",
   "DECODE_BLOCK_OPTION"}

Request ==
  [mid : 0 .. MidMod - 1, tkl : 0 .. TOKEN_MAX_LENGTH, block : OptionValue]

TypeOK ==
  /\ state \in States /\ nextState \in States
  /\ attempts \in 0 .. MAX_ATTEMPTS
  /\ tv \in 0 .. 60
  /\ mid \in 0 .. MidMod - 1
  /\ received \in BOOLEAN
  /\ error \in Errors
  /\ number \in 0 .. MaxNumber + 1
  /\ more \in BOOLEAN
  /\ size \in {0} \cup BlockSizes
  /\ tkl \in 0 .. 15
  /\ payload \in Seq(Nat)
  /\ file \in Seq(Nat) /\ fileGood \in BOOLEAN
  /\ request \in Request
  /\ inbox \in Seq(Datagrams)
  /\ alive \in BOOLEAN

(* transaction_step never blocks: the flag says "a datagram waits" only while*)
(* one does, however the calls of the application and the arrivals fall.     *)
ReceiveNeverBlocks == received => inbox # <<>>

(* A chunk enters the file only from an answer to the request last handed to *)
(* the socket, although datagrams are queued, late and of any kind.          *)
ChunkAnswersLastRequest ==
  [][file' # file => /\ Head(inbox).mid = request.mid
                     /\ Head(inbox).type = "ACK"
                     /\ Head(inbox).code = "CONTENT"]_vars

(* It is the payload of that one datagram: nothing a refused or unexpected   *)
(* answer has left in the packet gets into the file with it.                 *)
ChunkIsOnePayload ==
  [][file' # file => file' = Append(file, Head(inbox).data)]_vars

Sends == nextState = "SEND_REQUEST" /\ nextState' = "RECEIVE_DATA_BLOCK"

(* A request repeated after a timeout or a stray datagram has the same id and*)
(* asks for the same block. Its token length need not be the same: make_     *)
(* request leaves it what the datagram parsed last has made it. (Under id 0  *)
(* the endpoint cannot know that it has sent before.)                        *)
RetransmissionRepeats ==
  [][Sends /\ attempts > 0 /\ request.mid # 0 =>
       request'.mid = request.mid /\ request'.block = request.block]_vars
=============================================================================
