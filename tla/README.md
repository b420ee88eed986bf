# A TLA+ model of lib-coap-cpp

lib-coap-cpp is a small CoAP library in C++ whose working part is a client that
downloads a file block by block (RFC 7959) over UDP: `coap-client`. The modules
here model that download from the command line to the last block: the arguments and
the addresses, the packet with its options and octets, the block option and its codec,
the endpoint's state machine, the program's loop around `select`, and the whole transfer
against a server over a network that loses, delays, reorders and repeats datagrams, with
the program killed and started again. TLC checks small instances; TLAPS proves every
invariant and action property of the passing runs, and that the transfer implements its
abstract specification, for every value of the constants. Liveness is left to TLC.

## 1. Inventory

| Component | Source | State it keeps | Operations | Modelled in |
|---|---|---|---|---|
| Block options | `src/src/blockwise.cc` | `_number`, `_more`, `_size` | `set_header`, `get_header`, `encode_block_option`, `decode_block_option` | `BlockOption`, `Blockwise` |
| Client endpoint | `src/src/uriClientEndpoint.cc` | `_state`, `_next_state`, `_attempts`, `_mid`, `_received`, `_error`, the file, the packet | `start`, `stop`, `set_received`, `transaction_step` and its five handlers | `UriClientEndpoint` |
| Client program | `src/examples/POSIX/coap-client/client.cc` | the settings; the `timeval` and descriptor set of `select` | `parse_arguments`, `main` and its loop | `ClientSetup`, `CoapClient` |
| UDP connection | `src/examples/POSIX/common/clientConnection.cc` | port, address, family, socket, buffer | constructors, `establish`, `hostname2IPAddress`, `send`, `receive` | `ClientSetup`; `send` and `receive` in `UriClientEndpoint` |
| Packet codec | `src/src/packet.cc` (parse, serialize, make_request) | version, token, payload; code, type and id | `parse`, `serialize`, `make_request`, `prepare_answer`, `clearInstance` | `PacketFormat`, `Packet`; code, type and id in `UriClientEndpoint` |
| Option list | `src/src/packet.cc` (add_option, find_options) | sorted vector of options, bitmap of the numbers added | `add_option`, `clean_options`, `find_options` | `OptionList`, `Packet` |
| Address syntax | `src/src/connection.cc` | none | `isIPv4Address`, `isIPv6Address`, `checkNumberSystem` | `Addresses` |
| URI | `src/src/uri.cc` | the segments of a path, as strings or as integers | `path_to_uri`, `uri_to_path` | `path_to_uri`, inside `ClientSetup` |
| Log, errors | `src/include/log.h`, `error.h` | a level; a code | output; `set_code` | the error codes only |
| Context, server endpoint, LwM2M, JSON-RPC | `src/src/context.cc`, `uriServerEndpoint.cc`, `lwm2m-core/` | - | declared, empty or stubs | not modelled |
| STM32 board support | `src/tests/STM32H747I-DISCO/` | hardware registers | bring-up | not modelled |

How they interact. `parse_arguments` leaves the settings in globals; `main` creates the connection and the endpoint, which takes the name of its file from the uri,
establishes the socket, calls `start()` once and then loops: `select` on standard input and the socket,
`set_received(true)` if the socket is readable, `transaction_step()`. A step runs
one handler, chosen by `_next_state`. The sending handler calls
`block2::set_header`, `packet::make_request`, `serialize` and `connection::send`;
the receiving handler calls `connection::receive`, `packet::parse`,
`find_options` and `block2::get_header`, and writes to the file. Both write the
`timeval` the next `select` will use through a pointer. Nothing runs in parallel inside the
process: the concurrency is between it, the network and the terminal.

What is hard here:

* **The network.** An answer can come late, twice, or to an earlier block; only
  type and message id tell it from the awaited one, and every stray triggers
  another request.
* **State left behind.** The packet object is used for requests and answers in
  turn. `parse` appends to its payload; `make_request` clears the payload but not
  the token length. `set_header` changes the members it encodes.
* **Time.** `select` counts the `timeval` down, the handlers set it to 2 and 0, and
  standard input shares the wait.
* **Limits.** The option has three forms with two octet orders; the message id
  wraps to 0, which means "none yet"; the number after 2^20 - 1 cannot be written.
* **Failure.** `send`, `recvfrom`, `write` and `inet_aton` can fail; the last two are not
  looked at. Some assertions of `parse` depend on what a peer sends.
* **The octets.** `serialize` measures in one pass and writes in another; `option_maker`
  and `option_parser` have each a flaw of their own in the long forms; an offset is
  compared one too late; the option search looks at elements outside the vector.
* **Restarts.** The file is opened for appending, and a killed process leaves a part of it.
* **Conversions.** A port is a `long`, an `unsigned int` and an `int` in turn; address
  notations are told apart by counting colons.

PROJECT.json lists each hazard at its line, with the properties that cover it.
What makes each component correct:

* *block option*: the number read is the number written, across both boundaries
  and with the zero octets that constructors put in front; the size of the server
  is kept;
* *endpoint*: never blocks in `recvfrom`; stores only what answers its last
  request, once; repeats a request under the same id and for the same block;
* *program*: bounded sending; ends with one of its messages, unless the peer sends chunks for ever;
* *packet*: what is written is read back; what is measured is enough; equal options (the
  segments of a path) keep their order; the search misses nothing whatever lies around the
  vector (it may count what lies behind it); octets behind a datagram do not matter;
* *setup*: the settings given last are used, no unusable port gets through and no number
  as another one, what is accepted as an address is one, and requests go to it;
* *transfer*: the local file grows by chunks of the remote one, in order, each once, and
  "completed" is said of the whole file only, in every run of the program.

## 2. Modules

```
BlockOption <- Blockwise
BlockOption <- UriClientEndpoint <- CoapClient <- BlockTransfer  (refines FileDownload)
PacketFormat, OptionList <- Packet
Addresses <- ClientSetup

BlockOption_proofs <- Blockwise_proofs
BlockOption_proofs <- UriClientEndpoint_proofs <- CoapClient_proofs <- BlockTransfer_proofs
PacketFormat_proofs <- Packet_proofs
ClientSetup_proofs
```

Each `M_proofs` extends `M` and, where an arrow says so, the proofs of the module below.

**BlockOption** has the codec, as operators. An octet is cut into halves, as
the code's shifts by 4 cut it; a half has `Nib` values, 16 in the code. With
`Nib = 16` the limits are 16, 4096 and 1048576; smaller values bring the limits
within reach of a transfer while everything else stays as it is. The
three-octet form starts with the low octet of the number
(`blockwise.cc:153`); `AddOption` and `ParsedFirst` put in front the zero octets
that `option_s()` leaves in a value. `PeerEncode` is the other end: network byte
order, shortest form.

**Blockwise** is one `block2` object and a server in turns: `SetHeader`, `Serve`
(external), `GetHeader`.

**PacketFormat** has the octets of a datagram behind its four header octets: writing
(`WrittenBody`), the length the first pass of `serialize` measures (`MeasuredLength`), the
assertions on the way (`WritesInside`) and reading (`ReadOptions`, `ReadPayload`), each as
its own translation, so that their agreement is a property and not a definition. Every
width follows from `Plain`: 13 gives the code's nibble of 16 values, octet of 256 and
offsets 13 and 269; 2 gives nibbles of 5 and octets of 25 values,
so that the longest value that `add_option` lets through, 25 octets and the zero in front, is
longer than an octet can say. Reading takes the octet that may lie behind the datagram as
an argument, `past`.

**OptionList** has `std::sort` (`Sortings`, all its outcomes: up to `StableLimit`
elements libstdc++ keeps the order of equals) and `find_options`: the binary search from 0
to `size()` and the count of equals, over a vector in memory (`beyond`) that has an arbitrary
element before it and any sequence of stale elements behind it, over which the count runs on.

**Packet** is the one packet object of a program under all its operations, in any order:
`AddOption`, `CleanOptions`, `ClearInstance`, `MakeRequest`, `PrepareAnswer`, `Find`, and
`Parse` with one action for each way out, in the order in which `parse` sets its members. `Own`
is the packet's own datagram as it reaches another packet of this library. `added` is a
history variable; `SerializeAborts`, `ParseAborts` and `ParseEmpty` are failed assertions.
The fields `code`, `type` and id are copied and compared with nothing here.

**Addresses** has the two recognisers over names made of five kinds of symbols, and the
notations they stand for. **ClientSetup** is `coap-client` up to its loop: one action for
each option of `getopt_long`, then the constructors of connection and endpoint with their
exceptions, then `establish`. What depends on memory that was never initialised is a
choice: the result of `checkNumberSystem` for an empty range, the name of the file for a
path without strings (`CreateEndpointUndefined`), the octets of an address that
`inet_aton` has refused (`destination = "undetermined"`). `inet_aton`, `getaddrinfo`,
`strtol` and `getopt_long` are external. `CoapClient` begins where `pc = "loop"`.

**UriClientEndpoint** is the endpoint. `Start`, `Stop`, `SetReceived` are the
calls of the application; `TransactionStep` is one `transaction_step`, the
disjunction of the handlers; `Deliver(d)` is the network. A handler that has
several ways out has one action for each, with everything the code has changed
by then: `SendRefused`, `SendUnserialisable`, `SendFails`, `SendSucceeds`;
`ReceiveTimeout`, `ReceiveFails`, `ReceiveAborts`, `ReceiveUnparsed`,
`ReceiveUnknown`, `ReceiveRefusal`, `ReceiveUndecodable`, `ReceiveChunk`. A
datagram is a record of what the handler can find out about it: how far `parse`
gets, token length, type, id, code, where its BLOCK_2 option is, and the value of the
option. Outcomes that depend on undefined behaviour are nondeterministic: for a
missing option `find_options` reads the element past the vector's end, so
the option found is none or one of `Stale`. A failed assertion clears `alive`, after which
the process does nothing. Of `request`, the last datagram sent, only the id, the
token length and the block option are kept: path and port never change.

**CoapClient** adds the loop: `pc`, standard input, and what `select` leaves in
`tv`. `sends` is a history variable. `SelectStdin`, `SelectSocket` and
`SelectTimeout` are the three ways through the body of the loop.

**FileDownload** is the abstract specification: a file grows by the next chunk,
or the download finishes with the whole file, or it gives up. **BlockTransfer** composes `CoapClient`
with a file server and a network, both external, and maps `file` and the end of
the program to it. An unreliable network is a set from which nothing is
removed: it may lose, delay, reorder and repeat at will. `Restart` starts the program again
after it has ended or been killed at any point: all that is kept is the file, of which a
killed process may have left any part of its own chunks (`FileFound`); a chunk of which
only some octets reached the disk is not distinguished from one that is missing. The new
socket has another port, so that the network is empty for it. `before` is the length the
file had then, and the properties are about what the present run has appended.

Operators whose comment begins "As if" are variants with a plausible bug. No
specification uses them; substituted for the operator they vary, each of them
makes a property fail.

## 3. Runs

| Run | Config | Result | What it shows |
|---|---|---|---|
| client_setup | `MCClientSetup.cfg` | pass | For command lines of up to two arguments of every kind and some 4850 names: name and file are those given last and the family is that of the name (`AsGiven`); the port is the one given last, within what the `unsigned int` can hold, and always in 1 .. `USHRT_MAX` (`PortIsUsable`); the recognisers agree with the notations up to named exceptions (`IPv4Agrees`, `IPv6Agrees`). |
| ipv6_destination | `MCClientSetup_ipv6.cfg` | violation | The requests to an IPv6 address go to an address that was never filled in. |
| packet | `MCPacket.cfg` | pass | In whatever order the packet is composed, cleared, parsed into, serialized and searched: what is written is read (`WhatIsWrittenIsRead`), what is measured is enough (`MeasuredIsEnough`), paths keep their order (`PathKept`), the bitmap has what was added since the last `clean_options` or `parse` and nothing that is not in the list (`BitmapIsOfOptions`), the search misses nothing and counts too much only of what lies next behind the list (`FindNeverMisses`), the octet behind the datagram does not matter (`PastEndIrrelevant`). |
| block_option | `Blockwise.cfg` | pass | With the code's own octets the client and a server stay in step (`InStep`) up to block 4095 and the server's size is kept (`SizeKept`). |
| block_number_4096 | `Blockwise_4096.cfg` | violation | The request for block 4096 is read as block 16. |
| uri_client_endpoint | `MCUriClientEndpoint.cfg` | pass | Under any order of application calls, arrivals and faults: never blocks, a chunk answers the last request and is one payload, a repetition has the same id and is for the same block (its token length may be that of a stray). |
| coap_client | `MCCoapClient.cfg` | pass | At most `MAX_ATTEMPTS + 1` requests per block whatever arrives; never an unserialisable request; the loop ends if standard input stays silent and chunks are not accepted for ever. |
| stdin_livelock | `MCCoapClient_stdin.cfg` | violation | With standard input readable the loop spins for ever. |
| block_transfer_unreliable | `MCBlockTransfer.cfg` | pass | Over the unreliable network: in order, whole when complete, one block per message id; implements `FileDownload`. |
| block_transfer_prompt | `MCBlockTransfer_prompt.cfg` | pass | With a prompt server the download completes and nothing is sent twice, although the program may be killed at any point and started again on the same file. |
| payload_marker | `MCBlockTransfer_marker.cfg` | violation | An answer with the marker 0xFF cannot be parsed. |
| unwritten_file | `MCBlockTransfer_disk.cfg` | violation | A refused write goes unnoticed and the transfer is reported as complete. |

The five violations are disagreements between the code and what its comments,
tests or README say:

1. `encode_block_option` writes the three-octet form (numbers from 4096) low octet
   first, although `packet.cc:491` wants network byte order.
2. The loop `continue`s when standard input is readable and nothing reads it;
   `README.md:137-138` promises one of two messages.
3. `message_s()` initialises the constant `payloadMarker` to 0, hiding the 0xFF of
   its declaration; `test_packet.cc:46` expects a packet with 0xFF to parse. The
   passing runs therefore talk to a peer whose marker is what the built code parses,
   so that they examine the rest of the protocol.
4. The outcome of `write` is ignored; the more bit alone decides on "completed".
5. `establish` converts an IPv6 address with `inet_aton`, which knows IPv4 only
   (`clientConnection.cc:71`); the usage text, `client.cc:48`, has `-6` set the server's address,
   `::1` by default.

The passing runs of packet and setup state what does hold around flaws that are in the
code and contradict no text of the repository. The longer extension is written with a
truncated value and in the other octet order than it is read, but no option that `add_option`
lets through needs it, and the length 257 it does let through survives the truncation;
a message without a payload aborts its reader; the search counts as many stale options as
lie behind the list; a "::" for one leading group is refused, and so is every notation that
ends in an IPv4 address (`::ffff:1.2.3.4`); "1.2.3." may or may not be an IPv4 address; the
port 4294972979 (2^32 + 5683) passes as 5683; a peer that repeats one block with the more bit
keeps the program going for ever. The properties name these exceptions, so
that a further one would show.

### Bounds and why they are enough

* `Nib = 16` in the block option runs: nothing is scaled, and every block up to the limit
  is walked through. `Nib = 2` elsewhere moves the limits to numbers 2, 8 and 32: the
  endpoint run contains an answer with the highest number, so that the
  next request is refused; the prompt run crosses the boundary of the two-octet form
  and ends at 7, the last block below the three-octet form.
* `MAX_ATTEMPTS` is 4, the code's value, in the client and prompt runs and 2 where more
  datagrams are in play; the cases (first, middle, last attempt) are the same.
* `MidMod`, `MessageIds`: few ids; the drawn id may be 0, and in the endpoint run
  ids wrap. In the transfer runs they do not wrap, as 65536 ids do not
  within one file of 4096 blocks; reuse after a wrap is a listed hazard.
* `InboxMax` 1 or 2 datagrams wait: two are needed for a stray in front of the
  answer. `MaxChunks` bounds the file; the transfer runs end before they reach it. In the client
  run a write may fail (`"disk"`), after which the file has stopped growing and answers are accepted
  without end: a peer that answers every id with the more bit and the number 0 (`Endless`) is
  in its datagrams, and its `MidMod = 4` ids come round.
* `MaxStarts = 2` in the prompt run: a run that finds what one before it has left, whole or
  in part, which is all a third one could find, only longer. 1 elsewhere. `MaxChunks = 17`
  is two whole files and one.
* `Plain = 2` and `TOKEN_MAX_LENGTH = 2` in the packet run: every branch of the
  reader, and every one of the writer that `add_option`'s options lead to, is reached by
  datagrams of up to seven octets or by an option of 25 (256 with 13). `OPTION_MAX_NUMBER = 24` is,
  like 60 in the code, below one octet and above the start of the first extension. The option values are empty, one octet and the longest allowed.
* `StableLimit = 2` for 16: lists of three options reach past it as lists of 17 would.
  `MaxOptions = 3`: `add_option` is tried after `clean_options` only, as in every caller.
* `Arriving`: all bodies of up to three octets of ten values, one for each kind of
  option header, for a packet with nothing in it; `ArrivingLater`: eight datagrams, one for
  each outcome, at any time. `MaxPayload = 1`: the payload grows once.
* `Beyond`: numbers below, in and above the list; one before the vector and up to three behind
  it, of one number or of several.
* `UshortMax = 3`, `UintMod = 16`: ports from -17 to 18 cross zero, the limit, the sign of an
  `int` and the width of an `unsigned int` on both sides.
* `tv` has whole seconds. The microseconds that `select` leaves and nothing resets may
  lengthen a wait by less than one; no property depends on it, for the handlers set two
  seconds before they wait.
* `Names`: every name of up to five symbols; every four dotted fields of up to four digits;
  up to nine groups, of one, four or five hexadecimal digits, on either side of a "::"; groups
  followed by an IPv4 address.
* `LastBlock = 2` over the unreliable network: a first, a middle and a last block, so that
  an answer can be one or two blocks late. 7 in the prompt run.
* `Datagrams`: one for each outcome of the receiving handler, and answers under every id.
* `Stale`: one option value, different from the awaited one.

`CHECK_DEADLOCK FALSE` everywhere: the program ends (an assertion, the end of the
loop, the bound on the file) and the remaining behaviour stutters.

### Fairness

`FairClientSpec`: weak fairness of `ClientProgram`, the process itself. A
process that can run is scheduled, `select` returns at the latest when the time
is over, and `transaction_step` has no wait of its own
(`ReceiveNeverBlocks`). Nothing is assumed of the network there: the loop ends
even in silence. `ReportsIfLeftAlone` has two premises, that nothing is typed and that chunks are
accepted finitely often (`<>[][~TakesChunk]_clientVars`). The second is not a promise of the code:
every chunk resets the attempts, and the number of the next block is taken from the answer, so
that without it TLC shows a peer that keeps the loop going for ever.
`FairTransferSpec` adds weak fairness of server and network; it is used in the prompt run only,
where the assumption is that they answer within the two seconds the code allows. `Restart`
is bounded by `MaxStarts` and has no fairness: nothing obliges anybody to start the program again,
and `Completes` speaks of the run that is not killed.
`Packet` and `ClientSetup` have safety properties only and no fairness.

## 4. Proofs

Every theorem is for all values of the constants that satisfy the assumptions of the
modules: at least two values a half octet (`NibAssumption`), at least two plain nibbles
(`FormatAssumption`), an `unsigned int` that holds more than twice the ports
(`SetupAssumption`), what `add_option` lets through (`PacketAssumption`), the types of bounds,
datagrams, stale memory and answers. TLC evaluates them in the runs.
A theorem of the table proves the property of a run, or is named in the text below it.

| Module | Theorem: property | Inductive invariant |
|---|---|---|
| `UriClientEndpoint_proofs` | `EndpointTypeOK`: `TypeOK`; `EndpointNeverBlocks`: `ReceiveNeverBlocks`; `ChunksAnswer`: `ChunkAnswersLastRequest`; `ChunksAreSingle`: `ChunkIsOnePayload`; `RepetitionsRepeat`: `RetransmissionRepeats` | `IInv` |
| `Blockwise_proofs` | `BlockwiseTypeOK`: `TypeOK`; `StaysInStep`: `InStep`; `KeepsSize`: `SizeKept` | `Turns` |
| `CoapClient_proofs` | `ClientTypes`: `ClientTypeOK`; `RequestsSerialise`: `AlwaysSerialisable`; `SendsBounded`: `SendsAreBounded`; `ClientNeverBlocks` | `ClientInv` |
| `BlockTransfer_proofs` | `TransferTypes`: `TransferTypeOK`; `ChunksInOrder`: `InOrder`; `OneBlockEach`: `OneBlockPerMid`; `CompletedIsWhole`: `CompleteIsWhole`; `TransferImplementsDownload`: `ImplementsDownload`; `DownloadIsRight`: these four; `NothingIsSentTwice`: `NoNeedlessRetry` | `TransferInv`, `OrderInv`, `PromptInv` |
| `ClientSetup_proofs` | `SetupTypeOK`: `TypeOK`; `PortsAreUsable`: `PortIsUsable`; `SettingsAreAsGiven`: `AsGiven`; `IPv4IsRecognised`: `IPv4Agrees`; `IPv6IsRecognised`: `IPv6Agrees` | `IInv`, `SetupInv` |
| `Packet_proofs` | `PacketTypes`: `TypeOK`; `BitmapFollows`: `BitmapIsOfOptions`; `MeasureIsEnough`: `MeasuredIsEnough`; `PastEndNeverMatters`: `PastEndIrrelevant`; `MessagesAreRead`: `WhatIsWrittenIsRead`; `PathsAreKept`: `PathKept`; `FindsWhatIsThere`: `FindNeverMisses` | `PacketInv` |

**Endpoint.** `TypeOK` is inductive only because an answer cannot carry a number above
`MaxNumber` (`NumberRange`, of `BlockOption_proofs`), so that the next one, at most one larger, is
refused by `set_header` and not incremented again. The action properties need to know what the
endpoint holds while it awaits an answer (`Awaiting`: the request last sent has the current id,
and the packet has no payload) and before it sends a request again (`Repeating`: number, size and
id are still those that made the request, which `set_header` must not disturb). The file's last
chunk, `stop` and `start` in between are the cases that shape these conjuncts.

**Block option.** `RoundTrip`, in `BlockOption_proofs`: for every number below `Nib^3` (4096)
writing and reading, zero octets included, give the number back, in both directions. That bound is
the code's: from there on it writes the wrong octet order. `Turns` says for each
turn of client and server which number and size the option holds. The arithmetic is in
`DivMod`, `Halves` and `Reading`.

**Program.** `ClientInv` adds three facts to the endpoint's `IInv`. `Looping`: the loop is left
in the round that reaches "COMPLETE" or "ERROR". `TokenFits`: a token length the packet
cannot be serialized with has come from a datagram that ends the program, so that no request
follows. `SendsAreAttempts`: of the requests for one block all but the first were
counted in `_attempts`.

**Transfer.** `TransferInv` is `ClientInv` and the types of what is under way (`NoTokens`: nobody
uses tokens; every datagram is an answer of the server). It is the inductive invariant of
`TransferTypes`. The order of the chunks needs more, `OrderInv`:
`AllFit`, that every id under way fits its block (number and id have advanced together
since the first request, so that the difference of two ids is that of their blocks), and
`FileFits`, that what the run has appended are the blocks up to the current one. Their hypotheses:

* `FileIsSmall`, `LastBlock < Nib^3`: the limit of the codec, again;
* `IdsDoNotWrap`, `number > 0 => mid # 0`, all along the behaviour: the id 0 means "none yet", and an
  endpoint that comes round to it draws a new one, after which an old answer may
  have its id. The program does not exclude it: it draws any of 65536 ids.
  `IdsStayApart` proves it of the behaviours in which the id of the first request is none of
  the `LastBlock` highest (`DrawnLow`), whichever of all ids may be drawn, and
  `DownloadIsRight` puts the two together. What happens to a file whose first id is one of
  those, at most 4095 of 65536, is open;
* `"disk" \notin Faults` for whole files and for the refinement: the code ignores a refused write
  (the run unwritten_file). Order and ids are proved for refused writes, too.

`TransferImplementsDownload` is the step simulation: `ReceiveChunk` is a fetch, the end of the program a
finish or a failure, `Restart` a restart of `FileDownload`, every other action a stutter.
`NothingIsSentTwice` is for a reliable network (`Reliable`): `Prompt` says that exactly one
request or its answer is under way while the endpoint awaits one, and that time is left.

**Setup.** That the port is in 1 .. `UshortMax` (`PortInReach`) is not inductive alone: `Positive`
adds that the setting is not 0 wherever the program has not failed, and `ToIntType` that the
conversion of a positive `unsigned int` to `int` gives no 0. `SetupInv` adds `Honours` (each
global is that of the last argument of its kind), `HandedOn` (connection and endpoint have what
the globals said) and `FamilyOfName`. That a number in `NotCut` comes through both conversions as
itself or is refused is `Conversions`.
The recognisers are compared with the notations for names of every length. For IPv4, both
sides come down to three places of dots (`Laid`). For IPv6, from left to right over the rounds
of the loop: `SeenTo` is what a round that succeeds has established of the rest of the
name, `FewLeft` what the rest may still hold of groups for it to succeed, and `ShortLeft` bounds the length
by the groups and double colons left, so that no notation is longer than the 39
symbols the code allows.

**Octets.** `MeasuredIsWritten` and `MeasuredFits`, in `PacketFormat_proofs`: the first pass of
`serialize` measures exactly what the second one writes, and the assertions hold in a buffer
of that length but for a message without options and payload. `WrittenIsRead`: for options in order
and no longer than `add_option` allows, the reader returns token, options and payload as written.

**Packet.** `PacketInv` is `TypeOK`, `BitmapIsOfOptions` and `InOrder`: the options of the packet
are sorted and short enough to be read back (`Legible`), which is what the theorems
about octets ask of a list. `PathKept` is inductive with it.
`FindsWhatIsThere` rests on the loop invariant of the binary search, `Brackets`:
left of the range numbers are smaller and right of it greater, wherever the
search looks beyond the vector. The count runs over the options of the number and over those that
lie next behind (`StaleBetween`).

How induction is done. The library's induction theorems take an operator as a parameter, which the
installed provers cannot instantiate. So each one is a lemma about sets, from
`NatLessThanWellFounded` and the existence of minimal elements: a set that has 0 and with n also
n + 1 is `Nat` (`NumberInduction`), and the same for places in a datagram (`PlaceInduction`), ranges of
the search (`RangeInduction`) and states of the address loop (`ScanInduction`). What is proved by induction is
stated as membership in a set. That a recursive function satisfies its equation
(`ScanUnfolds`, `FieldsUnfold`, `SearcherUnfolds`) is proved in the same way: there are functions that solve it
on ever larger parts of the domain, hence one on the whole.

Only model-checked: liveness (`ReportsIfLeftAlone`, `Completes`), which is beyond the prover, and the
five violations, which are counterexamples.

## 5. Not modelled, and why

* The big-endian branches of the codec: every target of the Makefile is little-endian.
* `decode_size_option` has no caller. `block1` differs from `block2` in the option number.
* The fields code, type and message id inside `Packet`: copied and compared with nothing
  there; `UriClientEndpoint` has them. The requests' constant options are left out of the transfer.
* In the endpoint and the transfer a packet always fits the buffer and its length is as
  measured; `MeasuredIsEnough` is about that, in `Packet`. That a path long enough to exceed
  `BUFFER_MAX_SIZE` is not refused (`uriClientEndpoint.cc:97`) is a listed hazard only.
* A second `start()` after a completed download (`uriClientEndpoint.cc:26`): `UriClientEndpoint`
  allows it at any time and its properties hold, but `coap-client` starts once, so the
  transfer has no promise to check.
* `uri_to_path` (needs a `uri_t`, which the program never makes), `is_option_set` (private, no
  caller), `fill_buffer` (no caller in the program).
* `inet_aton`, `getaddrinfo`, `strtol`, `getopt_long`: external, by their documented results.
* Context, server endpoint, LwM2M, JSON-RPC: empty or declared only. STM32: hardware.
* Log output and error texts: wording.

## 6. Plan

Done: the modules of section 2, the runs of section 3, the theorems of section 4.

Left, in this order:

1. An invariant for an id that does come round to 0 within a file: which part of `InOrder` survives.
2. `SendsBounded` and `SettingsAreAsGiven` over the setup and the loop together, as one specification.
3. The proofs about octets for option values as long as an octet of length
   can say, where today's bound is that of `add_option`.
