----------------------------- MODULE Blockwise -----------------------------
(* The block2 object of a client (src/blockwise.cc) during one block-wise    *)
(* download: set_header writes the number it holds into the request, a       *)
(* server answers the number it reads, get_header stores the number of the   *)
(* answer and the endpoint steps to the next one. block1 differs in nothing  *)
(* but the number of the option.                                             *)
EXTENDS BlockOption

CONSTANTS
  LastBlock,    \* the number of the file's last block
  ServerSizes   \* the block sizes a server may impose

ASSUME LastBlockAssumption == LastBlock \in 0 .. MaxNumber
ASSUME ServerSizesAssumption == ServerSizes \subseteq BlockSizes

VARIABLES
  number, more, size,  \* the members of blockwise a transfer uses
  option,              \* the block option of the packet last written
  serverSize,          \* the size the server answers with
  taken,               \* how many blocks the client has taken (history)
  phase                \* whose turn it is, or how the transfer ended

block == <<number, more, size>>
vars == <<number, more, size, option, serverSize, taken, phase>>

Init ==
  /\ number = 0 /\ more = FALSE /\ size = 0
  /\ option = EmptyOption
  /\ serverSize \in ServerSizes
  /\ taken = 0
  /\ phase = "request"

(* As if set_header started over for every block.                            *)
SizeStartedOver == BLOCK_MAX_SIZE

(* set_header starts over, with the default size, when the number is 0.      *)
MoreToAsk == number # 0 /\ more
SizeToAsk == IF number = 0 THEN BLOCK_MAX_SIZE ELSE size

(* block2::set_header: clean_options, then the option, if it can be encoded. *)
SetHeader ==
  LET encodable == Encodable(number, SizeToAsk)
  IN  /\ phase = "request"
      /\ more' = MoreToAsk /\ size' = SizeToAsk
      /\ option' = IF encodable
                     THEN AddOption(EncodeBlockOption(number, MoreToAsk, SizeToAsk))
                     ELSE EmptyOption
      /\ phase' = IF encodable THEN "asked" ELSE "failed"
      /\ UNCHANGED <<number, serverSize, taken>>

(* The server reads the option as a number in network byte order and answers *)
(* that block.                                                               *)
Serve ==
  /\ phase = "asked"
  /\ NumberOf(option.digits) <= LastBlock
  /\ option' = PeerEncode(NumberOf(option.digits),
                          NumberOf(option.digits) < LastBlock, serverSize)
  /\ phase' = "answered"
  /\ UNCHANGED <<number, more, size, serverSize, taken>>

(* block2::get_header, for an answer whose block option is the first one or  *)
(* follows another, and what the receive handler does with its result.       *)
GetHeader ==
  /\ phase = "answered"
  /\ \E read \in {option, ParsedFirst(option)} :
       LET decoded == DecodeBlockOption(read)
       IN  /\ Decodable(read)
           /\ size' = decoded.size
           /\ more' = FALSE
           /\ number' = IF decoded.more THEN decoded.number + 1 ELSE decoded.number
           /\ phase' = IF decoded.more THEN "request" ELSE "done"
  /\ taken' = taken + 1
  /\ UNCHANGED <<option, serverSize>>

Next == SetHeader \/ Serve \/ GetHeader

Spec == Init /\ [][Next]_vars

-----------------------------------------------------------------------------
TypeOK ==
  /\ number \in 0 .. MaxNumber + 1
  /\ more \in BOOLEAN
  /\ size \in {0} \cup BlockSizes
  /\ option \in OptionValue
  /\ serverSize \in ServerSizes
  /\ taken \in Nat
  /\ phase \in {"request", "asked", "answered", "done", "failed"}

(* The server reads the number of the block that follows those the client    *)
(* has taken: no octet order, width or carry between two blocks loses step.  *)
InStep ==
  phase = "asked" => NumberOf(option.digits) = taken

(* Once the server has imposed its size every later request asks for blocks  *)
(* of that size, so that number times size is the offset of the next byte.   *)
SizeKept ==
  phase = "asked" /\ taken > 0 => SizeOptions[option.szx + 1] = serverSize
=============================================================================
