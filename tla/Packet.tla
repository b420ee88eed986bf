------------------------------- MODULE Packet -------------------------------
(* The one packet object of a program (src/src/packet.cc, src/include/       *)
(* packet.h), with every operation its callers have: options are added to it,*)
(* a request or an answer is made of it, it is serialized, cleared, parsed   *)
(* into and searched, in any order.                                          *)
EXTENDS PacketFormat, OptionList

CONSTANTS
  OPTION_MAX_NUMBER,  \* 60
  Options,            \* what add_option is called with
  TokenOctets,        \* the octets generate_token may draw
  Payloads,           \* what make_request and prepare_answer are given
  Arriving,           \* datagrams that reach a packet with nothing in it
  ArrivingLater,      \* datagrams that reach any packet
  Beyond,             \* what the memory around the options may hold
  BeyondOctets,       \* what the memory behind a datagram may hold
  MaxOptions,         \* bound: options added before the next clean_options
  MaxPayload          \* bound: the length up to which a payload grows

OPTION_MAX_LENGTH == Octet   \* 256

ASSUME PacketAssumption ==
  /\ OPTION_MAX_NUMBER \in 0 .. Octet - 1
  /\ \A o \in Options : /\ o \in Option /\ o.number <= OPTION_MAX_NUMBER
                        /\ Len(o.value) <= OPTION_MAX_LENGTH
  /\ TokenOctets \subseteq Octets /\ TokenOctets # {}
  /\ Payloads \subseteq Seq(Octets)
  /\ Arriving \subseteq Datagram /\ ArrivingLater \subseteq Datagram
  /\ Beyond \subseteq [before : Nat, behind : Seq(Nat) \ {<<>>}]
  /\ BeyondOctets \subseteq Octets
  /\ MaxOptions \in Nat /\ MaxPayload \in Nat

VARIABLES
  version, tokenLength, token,  \* the fields of the header; the token
  options,                      \* _message.options
  allocated,                    \* that vector has had an element
  bitmap,                       \* the numbers set in _option_bitmap
  payload,                      \* _message.payload
  alive,                        \* no assertion, no null pointer has ended it
  added                         \* options add_option has made (history)

header == <<version, tokenLength, token>>
list == <<options, allocated, bitmap, added>>
vars == <<header, list, payload, alive>>

NoToken == [i \in 1 .. TOKEN_MAX_LENGTH |-> 0]
TokenSent == SubSeq(token, 1, tokenLength)

Init ==
  /\ version = 0 /\ tokenLength = 0 /\ token = NoToken
  /\ options = <<>> /\ allocated = FALSE /\ bitmap = {} /\ added = <<>>
  /\ payload = <<>>
  /\ alive = TRUE

-----------------------------------------------------------------------------
(* The options are those add_option has made since clean_options.            *)
Composed == Len(added) = Len(options)

(* As if a new option were put in front and the bitmap kept by the caller.   *)
AddFirst(o) ==
  /\ options' \in Sortings(<<LeadingZero(o)>> \o options)
  /\ bitmap' = bitmap \cup {o.number}
  /\ added' = Append(added, LeadingZero(o))

(* push_back, std::sort over the whole list, and the bit.                    *)
PushAndSort(o) ==
  /\ options' \in Sortings(Append(options, LeadingZero(o)))
  /\ bitmap' = bitmap \cup {o.number}
  /\ added' = Append(added, LeadingZero(o))

(* add_option. Every caller starts with clean_options.                       *)
AddOption ==
  /\ alive /\ Composed /\ Len(options) < MaxOptions
  /\ \E o \in Options : PushAndSort(o)
  /\ allocated' = TRUE
  /\ UNCHANGED <<header, payload, alive>>

(* As if clean_options left the bitmap alone.                                *)
CleanListOnly ==
  /\ options' = <<>> /\ added' = <<>>
  /\ bitmap' = bitmap
  /\ UNCHANGED allocated

CleanList ==
  /\ options' = <<>> /\ added' = <<>>
  /\ bitmap' = {}
  /\ UNCHANGED allocated

CleanOptions ==
  /\ alive
  /\ CleanList
  /\ UNCHANGED <<header, payload, alive>>

(* clearInstance clears neither the options nor the bitmap.                  *)
ClearInstance ==
  /\ alive
  /\ version' = 0 /\ tokenLength' = 0 /\ token' = NoToken
  /\ payload' = <<>>
  /\ UNCHANGED <<list, alive>>

(* make_request, with generate_token for a token of at least one octet: with *)
(* a length of 0 the packet keeps the token length it has.                   *)
MakeRequest ==
  /\ alive
  /\ version' = COAP_VERSION
  /\ \/ UNCHANGED <<tokenLength, token>>
     \/ /\ tokenLength' \in 1 .. TOKEN_MAX_LENGTH
        /\ \E t \in [1 .. tokenLength' -> TokenOctets] :
             token' = [i \in DOMAIN token |-> IF i \in DOMAIN t THEN t[i] ELSE token[i]]
  /\ payload' \in Payloads
  /\ UNCHANGED <<list, alive>>

(* prepare_answer keeps the token of the request it answers.                 *)
PrepareAnswer ==
  /\ alive
  /\ version' = COAP_VERSION
  /\ payload' \in Payloads
  /\ UNCHANGED <<tokenLength, token, list, alive>>

(* serialize, first for the length and then into a buffer of that length.    *)
Serializes == tokenLength <= TOKEN_MAX_LENGTH

SerializeInside ==
  WritesInside(TokenSent, options, payload,
               MeasuredLength(TokenSent, options, payload))

SerializeAborts ==
  /\ alive /\ Serializes /\ ~SerializeInside
  /\ alive' = FALSE
  /\ UNCHANGED <<header, list, payload>>

(* find_options sorts before it searches. A vector that never had an element *)
(* has no memory: element 0, which it looks at, is at no address.            *)
Find ==
  /\ alive
  /\ alive' = allocated
  /\ options' \in Sortings(options)
  /\ UNCHANGED <<allocated, bitmap, added, header, payload>>

-----------------------------------------------------------------------------
(* The datagram the packet itself stands for, as it reaches another one.     *)
Own ==
  [version |-> version, tkl |-> tokenLength,
   body |-> WrittenBody(TokenSent, options, payload)]

(* Bound: the wide choice of datagrams is for a packet with nothing in it.   *)
Arrivals ==
  (IF version = 0 /\ options = <<>> /\ payload = <<>> THEN Arriving ELSE ArrivingLater)
    \cup IF Composed /\ Serializes THEN {Own} ELSE {}

(* The token parse_token leaves: zeros unless it can be read.                *)
ReadToken(d) ==
  [i \in 1 .. TOKEN_MAX_LENGTH |->
     IF TokenReadable(d) /\ i <= d.tkl THEN d.body[i] ELSE 0]

(* parse asserts that there is one octet. With fewer than four parse_header  *)
(* fails before it has changed anything.                                     *)
ParseEmpty ==
  /\ alive
  /\ alive' = FALSE
  /\ UNCHANGED <<header, list, payload>>

(* parse() in the order of its steps. What a step has set stays when a later *)
(* one fails.                                                                *)
Parsing(d) ==
  /\ alive
  /\ version' = d.version /\ tokenLength' = d.tkl

ParseHeaderFails(d) ==
  /\ Parsing(d)
  /\ ~HeaderReadable(d)
  /\ UNCHANGED <<token, list, payload, alive>>

ParseTokenFails(d) ==
  /\ Parsing(d)
  /\ HeaderReadable(d) /\ ~TokenReadable(d)
  /\ token' = ReadToken(d)
  /\ UNCHANGED <<list, payload, alive>>

(* parse_options, which cleans the options and the bitmap first.             *)
ParsingOptions(d, past) ==
  /\ Parsing(d)
  /\ HeaderReadable(d) /\ TokenReadable(d)
  /\ token' = ReadToken(d)
  /\ options' = ReadOptionList(d, past)
  /\ allocated' = (allocated \/ options' # <<>>)
  /\ bitmap' = {} /\ added' = <<>>

ParseOptionsFails(d, past) ==
  /\ ParsingOptions(d, past)
  /\ ~OptionsReadable(d, past)
  /\ UNCHANGED <<payload, alive>>

ParseAborts(d, past) ==
  /\ ParsingOptions(d, past)
  /\ OptionsReadable(d, past) /\ ~PayloadReadable(d, past)
  /\ alive' = FALSE
  /\ UNCHANGED payload

(* parse_payload appends to what the packet has.                             *)
ParseSucceeds(d, past) ==
  /\ ParsingOptions(d, past)
  /\ OptionsReadable(d, past) /\ PayloadReadable(d, past)
  /\ payload' = payload \o ReadPayload(d, past)
  /\ Len(payload') <= MaxPayload
  /\ UNCHANGED alive

Parse(d, past) ==
  \/ ParseHeaderFails(d)
  \/ ParseTokenFails(d)
  \/ ParseOptionsFails(d, past)
  \/ ParseAborts(d, past)
  \/ ParseSucceeds(d, past)

Next ==
  \/ AddOption \/ CleanOptions \/ ClearInstance
  \/ MakeRequest \/ PrepareAnswer \/ SerializeAborts \/ Find
  \/ ParseEmpty
  \/ \E d \in Arrivals, past \in BeyondOctets : Parse(d, past)

Spec == Init /\ [][Next]_vars

-----------------------------------------------------------------------------
TypeOK ==
  /\ version \in 0 .. 3 /\ tokenLength \in 0 .. Nibbles - 1
  /\ token \in [1 .. TOKEN_MAX_LENGTH -> Octets]
  /\ options \in Seq(Option) /\ added \in Seq(Option)
  /\ bitmap \subseteq 0 .. OPTION_MAX_NUMBER
  /\ payload \in Seq(Octets)
  /\ allocated \in BOOLEAN /\ alive \in BOOLEAN

(* A message made of added options can be read again: the same token, numbers*)
(* and values, the first value with one more zero in front, and the payload, *)
(* although a length of more than an octet is cut to one on the way and 0 is *)
(* the marker. But only a payload brings a marker: without one the reader's  *)
(* assertion fails.                                                          *)
WhatIsWrittenIsRead ==
  Composed /\ version = COAP_VERSION /\ Serializes =>
    \A past \in BeyondOctets :
      /\ TokenReadable(Own) /\ OptionsReadable(Own, past)
      /\ SubSeq(ReadToken(Own), 1, tokenLength) = TokenSent
      /\ ReadOptionList(Own, past) =
           IF options = <<>> THEN <<>>
           ELSE <<LeadingZero(Head(options))>> \o Tail(options)
      /\ PayloadReadable(Own, past) <=> payload # <<>>
      /\ payload # <<>> => ReadPayload(Own, past) = payload

(* The assertions on the buffer's length fail for nothing but a message with *)
(* neither an option nor a payload: what the first pass measures is what the *)
(* second one needs.                                                         *)
MeasuredIsEnough ==
  Composed /\ Serializes => (SerializeInside <=> options # <<>> \/ payload # <<>>)

(* Options with one number keep the order they were added in, as the segments*)
(* of a path must, as long as std::sort keeps the order of equals.           *)
PathKept ==
  Composed /\ Len(options) <= StableLimit => Regrouped(added, options)

(* The bitmap has the numbers of the added options and never one from before *)
(* clean_options, whatever was parsed, cleared or refused in between.        *)
BitmapIsOfOptions ==
  /\ bitmap \subseteq Numbers(options)
  /\ Composed => bitmap = Numbers(options)

(* Whatever lies around the options, find_options returns one of that number *)
(* if there is one. It counts all of them, and goes on to count what lies    *)
(* behind the list where the last option is one of them and the memory goes  *)
(* on with the same number: options of an earlier list, as many as there are.*)
(* It returns the element behind the last only for a number greater than any *)
(* in the list.                                                              *)
FindNeverMisses ==
  \A opts \in Sortings(options), beyond \in Beyond :
    \A n \in Numbers(options) \cup {beyond.before} \cup Range(beyond.behind) :
      LET found == FindOptions(opts, beyond, n)
          all == Cardinality({i \in DOMAIN opts : opts[i].number = n})
          stale == Cardinality({k \in DOMAIN beyond.behind :
                                  \A j \in 1 .. k : beyond.behind[j] = n})
      IN  IF n \in Numbers(opts)
            THEN /\ found.at \in 0 .. Len(opts) - 1
                 /\ opts[found.at + 1].number = n
                 /\ found.quantity = all + IF Last(opts).number = n THEN stale ELSE 0
            ELSE found.at # -1 => /\ found.at = Len(opts)
                                  /\ \A m \in Numbers(opts) : m < n

(* The octet behind a datagram, which the parser may look at, never matters. *)
PastEndIrrelevant ==
  \A d \in Arrivals, past1, past2 \in BeyondOctets :
    HeaderReadable(d) /\ TokenReadable(d) =>
      ReadOptions(d, past1) = ReadOptions(d, past2)
=============================================================================
