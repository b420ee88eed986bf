----------------------------- MODULE ClientSetup -----------------------------
(* coap-client from its command line to its loop                             *)
(* (src/examples/POSIX/coap-client/client.cc): the arguments, the connection,*)
(* the endpoint with its uri and its file, and the socket. What follows is   *)
(* CoapClient's.                                                             *)
EXTENDS Addresses, SequencesExt

CONSTANTS
  UshortMax,     \* USHRT_MAX: 65535
  UintMod,       \* how many values an unsigned int has: 2^32
  CommandLines,  \* sequences of arguments
  Segments,      \* what strtok may find between the slashes of a path
  DigitLed,      \* those that start with an octet from 0x30 to 0x3F
  Resolutions    \* what getaddrinfo may find: the families of the addresses

(* An argument, with the value that belongs to its option.                   *)
Argument ==
  [opt : {"h", "?", "p", "c", "4", "6", "i", "f"},
   number : Int, host : Seq(Symbols), path : Seq(Segments)]

ASSUME SetupAssumption ==
  /\ UshortMax \in Nat \ {0} /\ UintMod \in Nat /\ UintMod > 2 * UshortMax + 1
  /\ CommandLines \subseteq Seq(Argument)
  /\ {"data", "example.bin"} \subseteq Segments /\ DigitLed \subseteq Segments
  /\ Resolutions \subseteq Seq({"IPv4", "IPv6"})

VARIABLES
  pc,         \* "start", "arguments", "connection", "endpoint", "establish",
              \* "loop", "failed", or "crashed" by undefined behaviour
  arguments, optind,  \* the command line; the next argument getopt_long returns
  ip_address, server_port, client_port,
  path,       \* downloaded_file_name, as the segments strtok finds in it
  port,       \* the connection's _port
  localFile,  \* the name of the file the endpoint opens
  useIPv6,    \* _use_IPv6
  address,    \* where _IPv6Address or _IPv4Address is from
  destination \* what the socket address of that family holds

settings == <<ip_address, server_port, client_port, path>>
remote == <<useIPv6, address, destination>>
vars == <<pc, arguments, optind, settings, port, localFile, remote>>

DefaultPort == 1   \* 5683 for the server, 56083 for the client
DefaultAddress == <<":", ":", "d">>
DefaultPath == <<"data", "example.bin">>

Init ==
  /\ pc = "start"
  /\ arguments \in CommandLines /\ optind = 1
  /\ ip_address = DefaultAddress
  /\ server_port = DefaultPort /\ client_port = DefaultPort
  /\ path = DefaultPath
  /\ port = 0 /\ localFile = ""
  /\ useIPv6 = FALSE /\ address = "none" /\ destination = "none"

-----------------------------------------------------------------------------
(* parse_arguments: without arguments it fails.                              *)
CheckArguments ==
  /\ pc = "start"
  /\ pc' = IF arguments = <<>> THEN "failed" ELSE "arguments"
  /\ UNCHANGED <<arguments, optind, settings, port, localFile, remote>>

Given(opts) ==
  /\ pc = "arguments" /\ optind <= Len(arguments)
  /\ arguments[optind].opt \in opts
  /\ optind' = optind + 1
  /\ UNCHANGED <<arguments, port, localFile, remote>>

(* -h, or an unknown option, or one without its value.                       *)
GivenHelp ==
  /\ Given({"h", "?"})
  /\ pc' = "failed"
  /\ UNCHANGED settings

(* As if only a negative number were cut.                                    *)
ToUnsignedRough(n) == IF n < 0 THEN UintMod + n ELSE n

(* (unsigned int)strtol(...): 0 for what is no number.                       *)
ToUnsigned(n) == n % UintMod

GivenServerPort ==
  /\ Given({"p"})
  /\ server_port' = ToUnsigned(arguments[optind].number)
  /\ pc' = IF server_port' = 0 THEN "failed" ELSE pc
  /\ UNCHANGED <<ip_address, client_port, path>>

(* -c: nothing reads the client's port.                                      *)
GivenClientPort ==
  /\ Given({"c"})
  /\ client_port' = ToUnsigned(arguments[optind].number)
  /\ pc' = IF client_port' = 0 THEN "failed" ELSE pc
  /\ UNCHANGED <<ip_address, server_port, path>>

(* As if the default gave way to the first address only.                     *)
GivenFirstAddress ==
  /\ Given({"4", "6"})
  /\ ip_address' = IF ip_address = DefaultAddress THEN arguments[optind].host
                   ELSE ip_address
  /\ UNCHANGED <<pc, server_port, client_port, path>>

(* -4 and -6 differ in use_ipv6, which nothing reads.                        *)
GivenAddress ==
  /\ Given({"4", "6"})
  /\ ip_address' = arguments[optind].host
  /\ UNCHANGED <<pc, server_port, client_port, path>>

GivenFile ==
  /\ Given({"f"})
  /\ path' = arguments[optind].path
  /\ UNCHANGED <<pc, ip_address, server_port, client_port>>

(* -i                                                                        *)
GivenInteractive ==
  /\ Given({"i"})
  /\ UNCHANGED <<pc, settings>>

ArgumentsDone ==
  /\ pc = "arguments" /\ optind > Len(arguments)
  /\ pc' = "connection"
  /\ UNCHANGED <<arguments, optind, settings, port, localFile, remote>>

ParseArguments ==
  \/ CheckArguments
  \/ GivenHelp \/ GivenServerPort \/ GivenClientPort \/ GivenAddress \/ GivenFile
  \/ GivenInteractive
  \/ ArgumentsDone

-----------------------------------------------------------------------------
(* As if the constructor looked for too large ports only.                    *)
NotTooLarge(p) == p <= UshortMax

PortInRange(p) == p >= 0 /\ p <= UshortMax

(* The constructor of connection takes an int. It throws a pointer, which    *)
(* main catches as an unknown exception.                                     *)
ToInt(n) == IF 2 * n < UintMod THEN n ELSE n - UintMod

Connect ==
  /\ pc = "connection"
  /\ port' = ToInt(server_port)
  /\ pc' = IF PortInRange(port') THEN "endpoint" ELSE "failed"
  /\ UNCHANGED <<arguments, optind, settings, localFile, remote>>

(* As if the type of a path were that of its last segment.                   *)
AsStringOfLast(segments) == IF Last(segments) \in DigitLed THEN <<>> ELSE segments

(* uri::path_to_uri: the first segment decides whether the segments go into  *)
(* asString or, as numbers, into asInteger.                                  *)
AsString(segments) == IF Head(segments) \in DigitLed THEN <<>> ELSE segments

EndpointThrows ==
  /\ pc = "endpoint" /\ path = <<>>
  /\ pc' = "failed"
  /\ UNCHANGED <<arguments, optind, settings, port, localFile, remote>>

(* The endpoint opens a file named like the last string of the uri.          *)
CreateEndpoint ==
  /\ pc = "endpoint" /\ path # <<>> /\ AsString(path) # <<>>
  /\ localFile' = Last(AsString(path))
  /\ pc' = "establish"
  /\ UNCHANGED <<arguments, optind, settings, port, remote>>

(* Without strings there is no last one, and the program reads it all the    *)
(* same: it ends there or goes on with whatever name that memory makes.      *)
CreateEndpointUndefined ==
  /\ pc = "endpoint" /\ path # <<>> /\ AsString(path) = <<>>
  /\ localFile' = "undefined"
  /\ pc' \in {"establish", "crashed"}
  /\ UNCHANGED <<arguments, optind, settings, port, remote>>

-----------------------------------------------------------------------------
(* hostname2IPAddress: an IPv6 address, or else an IPv4 one, or else a name  *)
(* to resolve, of whose addresses the last one is taken.                     *)
Name == ip_address

AddressFound(isIPv6, origin) ==
  /\ pc = "establish"
  /\ useIPv6' = isIPv6
  /\ address' = origin

NameIsIPv6 ==
  /\ Name # <<>> /\ IsIPv6Address(Name)
  /\ AddressFound(TRUE, "name")

NameIsIPv4 ==
  /\ Name # <<>> /\ ~IsIPv6Address(Name)
  /\ \E uninitialised \in BOOLEAN : IsIPv4Address(Name, uninitialised)
  /\ AddressFound(FALSE, "name")

ToResolve ==
  /\ Name # <<>> /\ ~IsIPv6Address(Name)
  /\ \E uninitialised \in BOOLEAN : ~IsIPv4Address(Name, uninitialised)

NameIsResolved ==
  /\ ToResolve
  /\ \E found \in Resolutions \ {<<>>} : AddressFound(Last(found) = "IPv6", "resolved")

(* inet_aton: whether it understands a name isIPv4Address has accepted. A    *)
(* field of several digits may be too large, or an octal number that is none.*)
InetAton ==
  IF address' = "resolved" THEN {TRUE}
  ELSE IF ~FourFields(Name, 1) THEN {FALSE}
  ELSE IF InRow(Name, Decimal, 2) = {} THEN {TRUE}
  ELSE BOOLEAN

(* establish() converts the address of either family with inet_aton, which   *)
(* knows IPv4 only: where it fails, and in an IPv6 socket address anyway, the*)
(* address is what the memory held when it was allocated.                    *)
FillAddress ==
  destination' \in {IF ok /\ ~useIPv6' THEN "address" ELSE "undetermined" :
                      ok \in InetAton}

(* The socket is of the family of the address.                               *)
Establish ==
  /\ NameIsIPv6 \/ NameIsIPv4 \/ NameIsResolved
  /\ FillAddress
  /\ pc' \in {"loop", "failed"}
  /\ UNCHANGED <<arguments, optind, settings, port, localFile>>

(* No name, or none that is known.                                           *)
EstablishFails ==
  /\ pc = "establish"
  /\ \/ Name = <<>>
     \/ ToResolve /\ <<>> \in Resolutions
  /\ pc' = "failed"
  /\ UNCHANGED <<arguments, optind, settings, port, localFile, remote>>

Next ==
  \/ ParseArguments
  \/ Connect
  \/ EndpointThrows \/ CreateEndpoint \/ CreateEndpointUndefined
  \/ Establish \/ EstablishFails

Spec == Init /\ [][Next]_vars

-----------------------------------------------------------------------------
TypeOK ==
  /\ pc \in {"start", "arguments", "connection", "endpoint", "establish", "loop",
             "failed", "crashed"}
  /\ optind \in 1 .. Len(arguments) + 1
  /\ ip_address \in Seq(Symbols)
  /\ server_port \in 0 .. UintMod - 1 /\ client_port \in 0 .. UintMod - 1
  /\ port \in -UintMod .. UintMod
  /\ path \in Seq(Segments)
  /\ localFile \in Segments \cup {"", "undefined"}
  /\ useIPv6 \in BOOLEAN
  /\ address \in {"none", "name", "resolved"}
  /\ destination \in {"none", "address", "undetermined"}

(* The last argument of a kind counts.                                       *)
LastGiven(opts) ==
  {arguments[i] : i \in {i \in 1 .. optind - 1 :
                            /\ arguments[i].opt \in opts
                            /\ \A j \in i + 1 .. optind - 1 : arguments[j].opt \notin opts}}

(* Whatever the order and number of the arguments: the name looked up is that*)
(* of the last -4 or -6, or the default; which of the two it was does not    *)
(* matter, the connection is of the family of the name; and the file is named*)
(* like the end of the last path (unless that starts with a digit). Where the*)
(* requests go is the subject of DestinationIsKnown, the port of PortIsUsable.*)
AsGiven ==
  pc = "loop" =>
    /\ LastGiven({"4", "6"}) = {} => ip_address = DefaultAddress
    /\ \A a \in LastGiven({"4", "6"}) :
         /\ ip_address = a.host
         /\ address = "name" => (useIPv6 <=> IsIPv6Address(a.host))
    /\ \A a \in LastGiven({"f"}) :
         localFile = Last(a.path) \/ Head(a.path) \in DigitLed

(* The numbers that come through the two conversions as themselves or not at *)
(* all: from - 2^32 + 65536 to 2^32. One further out is cut to another port, *)
(* 2^32 + 5683 to 5683, and nothing in the program notices.                  *)
NotCut == UshortMax + 1 - UintMod .. UintMod

(* The port the endpoint works with can be one, and is the one given last or *)
(* the default: no negative number, no 0 and none that is too large gets past*)
(* the two checks, of the unsigned and of the signed value, as long as it is *)
(* among NotCut.                                                             *)
PortIsUsable ==
  pc \in {"endpoint", "establish", "loop"} =>
    /\ port \in 1 .. UshortMax
    /\ LastGiven({"p"}) = {} => port = DefaultPort
    /\ \A a \in LastGiven({"p"}) : a.number \in NotCut => port = a.number

(* isIPv4Address accepts four fields of one to three digits and nothing else;*)
(* where it returns what was never initialised, a name whose first field is  *)
(* not empty but others are.                                                 *)
IPv4Agrees ==
  /\ IsIPv4Address(Name, FALSE) <=> FourFields(Name, 1)
  /\ IsIPv4Address(Name, TRUE) <=> FourFields(Name, 0)

(* Of the notations of RFC 4291 isIPv6Address refuses two kinds: one that    *)
(* ends in an IPv4 address, always, and one that leaves out a single group at*)
(* the start. Besides, it accepts nothing but groups of hexadecimal digits,  *)
(* not more than eight unless the name ends in "::".                         *)
IPv6Agrees ==
  /\ IsRFC4291(Name) => IsIPv6Address(Name) \/ EndsInIPv4(Name) \/ FirstLeftOut(Name)
  /\ IsIPv6Address(Name) =>
       /\ ~EndsInIPv4(Name)
       /\ HexGroups(Name)
       /\ Groups(Name) <= 8 \/ Len(Name) - 1 \in Doubles(Name)

(* The usage text has -6 set the address of the server: the requests go to   *)
(* the address given or resolved.                                            *)
DestinationIsKnown == pc = "loop" /\ useIPv6 => destination = "address"
=============================================================================
