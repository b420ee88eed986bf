----------------------------- MODULE CoapClient -----------------------------
(* The program coap-client (src/examples/POSIX/coap-client/client.cc): the   *)
(* endpoint driven by a loop around select, which watches the socket and the *)
(* terminal. What happens between the return of select and the end of the    *)
(* step is atomic for the program but not for the network.                   *)
EXTENDS UriClientEndpoint

CONSTANT StdinUsed   \* whether something may be typed, or stdin be at its end

ASSUME StdinAssumption == StdinUsed \in BOOLEAN

VARIABLES
  pc,     \* where the program is: "start", "select", "step" or "exit"
  stdin,  \* descriptor 0 is readable
  sends   \* requests sent since the last chunk (history)

clientVars == <<vars, pc, stdin, sends>>

ClientInit ==
  /\ Init
  /\ pc = "start"
  /\ stdin \in {FALSE, StdinUsed}
  /\ sends = 0

(* ep.start(), once, before the loop.                                        *)
ClientStart ==
  /\ pc = "start"
  /\ Start
  /\ pc' = "select"
  /\ UNCHANGED <<stdin, sends>>

(* select comes back at once if a descriptor is readable, otherwise when the *)
(* time in tv is over; Linux leaves in tv what was left of it. A return value*)
(* of -1 changes nothing and the loop goes round. Only whole seconds are kept*)
(* here: the microseconds, which nothing resets, may lengthen a wait by less *)
(* than one.                                                                 *)
TimeLeft == IF stdin \/ inbox # <<>> THEN 0 .. tv ELSE {0}

Selecting ==
  /\ pc = "select" /\ alive
  /\ tv' \in TimeLeft
  /\ UNCHANGED <<state, nextState, attempts, mid, error, block, packet, download,
                 request, inbox, alive, stdin, sends>>

(* With stdin readable the loop goes round before it looks at the socket, and*)
(* nothing reads stdin.                                                      *)
SelectStdin ==
  /\ Selecting
  /\ stdin
  /\ UNCHANGED <<pc, received>>

(* set_received(true) when the socket is readable, then the step.            *)
SelectSocket ==
  /\ Selecting
  /\ ~stdin
  /\ inbox # <<>>
  /\ received' = TRUE
  /\ pc' = "step"

SelectTimeout ==
  /\ Selecting
  /\ ~stdin
  /\ inbox = <<>>
  /\ pc' = "step"
  /\ UNCHANGED received

Select == SelectStdin \/ SelectSocket \/ SelectTimeout

TakesChunk == inbox # <<>> /\ ReceiveChunk(Head(inbox))

(* ep.transaction_step(), and the condition of the loop.                     *)
ClientStep ==
  /\ pc = "step"
  /\ TransactionStep
  /\ pc' = IF state' \in {"COMPLETE", "ERROR"} THEN "exit" ELSE "select"
  /\ sends' = IF Sends THEN sends + 1 ELSE IF TakesChunk THEN 0 ELSE sends
  /\ UNCHANGED stdin

(* The environment: something is typed; a datagram arrives while the program *)
(* has its socket.                                                           *)
Type ==
  /\ StdinUsed /\ ~stdin
  /\ stdin' = TRUE
  /\ UNCHANGED <<vars, pc, sends>>

ClientDeliver(d) ==
  /\ pc # "exit"
  /\ Deliver(d)
  /\ UNCHANGED <<pc, stdin, sends>>

ClientProgram == ClientStart \/ Select \/ ClientStep

ClientNext == ClientProgram \/ Type \/ \E d \in Datagrams : ClientDeliver(d)

ClientSpec == ClientInit /\ [][ClientNext]_clientVars

(* A process that can run does run: select returns, the step follows it.     *)
FairClientSpec == ClientSpec /\ WF_clientVars(ClientProgram)

-----------------------------------------------------------------------------
ClientTypeOK ==
  /\ TypeOK
  /\ pc \in {"start", "select", "step", "exit"}
  /\ stdin \in BOOLEAN

(* The endpoint never reports that it cannot serialize a request: a token    *)
(* length serialize refuses was refused by parse_token, and an error ends the*)
(* program before it would be used again.                                    *)
AlwaysSerialisable == error # "COAP_SERIALIZE"

(* However many stray, late or duplicated datagrams arrive, each of which    *)
(* makes the client send again, it sends at most once and MAX_ATTEMPTS times *)
(* again for a block.                                                        *)
SendsAreBounded == sends <= MAX_ATTEMPTS + 1

(* The program ends with one of its two messages, or in a failed assertion.  *)
Reports == <>(pc = "exit" \/ ~alive)

(* It does, as long as stdin has nothing to read, unless chunks are accepted *)
(* for ever: neither strays nor refusals nor silence, nor a file that cannot *)
(* be written, keep the loop going. A peer that answers every id, always with*)
(* the more bit and with a number it has sent before, does: each such answer *)
(* sets the attempts back to 0, and nothing compares the numbers.            *)
ReportsIfLeftAlone ==
  [](~stdin) /\ <>[][~TakesChunk]_clientVars => Reports
=============================================================================
