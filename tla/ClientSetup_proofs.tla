------------------------- MODULE ClientSetup_proofs -------------------------
(* What the setup of coap-client guarantees for every command line and every *)
(* width of ports and unsigned integers, not only for those TLC enumerates.  *)
EXTENDS ClientSetup, FiniteSetTheorems, WellFoundedInduction, TLAPS

LEMMA ToUnsignedType ==
  ASSUME NEW n \in Int
  PROVE  ToUnsigned(n) \in 0 .. UintMod - 1
BY SetupAssumption DEF ToUnsigned

(* A positive unsigned int is not made 0 by the conversion to an int.        *)
LEMMA ToIntType ==
  ASSUME NEW n \in 0 .. UintMod - 1
  PROVE  /\ ToInt(n) \in -UintMod .. UintMod
         /\ n # 0 /\ PortInRange(ToInt(n)) => ToInt(n) \in 1 .. UshortMax
BY SetupAssumption DEF ToInt, PortInRange

LEMMA AsStringType ==
  ASSUME NEW p \in Seq(Segments), AsString(p) # <<>>
  PROVE  Last(AsString(p)) \in Segments
<1>1. AsString(p) = p
  BY DEF AsString
<1>2. Len(p) \in DOMAIN p
  BY <1>1
<1> QED
  BY <1>1, <1>2 DEF Last

(* What the arguments are never changes.                                     *)
GivenTypeOK == arguments \in CommandLines

(* From the first argument on both ports are positive, unless the program    *)
(* has failed.                                                               *)
Positive == pc \notin {"failed", "crashed"} => server_port # 0

(* What the constructor's test leaves of the port.                           *)
PortInReach == pc \in {"endpoint", "establish", "loop"} => port \in 1 .. UshortMax

IInv == TypeOK /\ GivenTypeOK /\ Positive /\ PortInReach

LEMMA ArgumentType ==
  ASSUME TypeOK, GivenTypeOK, optind <= Len(arguments)
  PROVE  /\ arguments[optind].number \in Int
         /\ arguments[optind].host \in Seq(Symbols)
         /\ arguments[optind].path \in Seq(Segments)
         /\ optind + 1 \in 1 .. Len(arguments) + 1
<1>1. arguments \in Seq(Argument) /\ optind \in 1 .. Len(arguments)
  <2>1. arguments \in Seq(Argument)
    BY SetupAssumption DEF GivenTypeOK
  <2>2. optind \in 1 .. Len(arguments) + 1
    BY DEF TypeOK
  <2> QED
    BY <2>1, <2>2
<1>2. arguments[optind] \in Argument /\ optind + 1 \in 1 .. Len(arguments) + 1
  BY <1>1
<1> QED
  BY <1>2 DEF Argument

LEMMA Initially == Init => IInv
<1> SUFFICES ASSUME Init PROVE IInv
  OBVIOUS
<1>1. /\ arguments \in CommandLines /\ optind = 1
      /\ ip_address = <<":", ":", "d">> /\ path = <<"data", "example.bin">>
      /\ server_port = 1 /\ client_port = 1 /\ port = 0
  BY DEF Init, DefaultPort, DefaultAddress, DefaultPath
<1>2. optind \in 1 .. Len(arguments) + 1
  <2>1. arguments \in Seq(Argument)
    BY <1>1, SetupAssumption
  <2> QED
    BY <1>1, <2>1
<1>3. ip_address \in Seq(Symbols)
  <2>1. ":" \in Symbols /\ "d" \in Symbols
    BY DEF Symbols
  <2> QED
    BY <1>1, <2>1
<1>4. path \in Seq(Segments)
  <2>1. "data" \in Segments /\ "example.bin" \in Segments
    BY SetupAssumption
  <2> QED
    BY <1>1, <2>1
<1>5. /\ server_port \in 0 .. UintMod - 1 /\ client_port \in 0 .. UintMod - 1
      /\ port \in -UintMod .. UintMod /\ server_port # 0
  BY <1>1, SetupAssumption
<1> QED
  BY <1>1, <1>2, <1>3, <1>4, <1>5
  DEF Init, IInv, TypeOK, GivenTypeOK, Positive, PortInReach

-----------------------------------------------------------------------------
LEMMA ArgumentsStep ==
  ASSUME IInv, ParseArguments
  PROVE  IInv'
<1> USE DEF IInv, settings, remote
<1>1. CASE CheckArguments
  BY <1>1 DEF CheckArguments, TypeOK, GivenTypeOK, Positive, PortInReach
<1>2. CASE ArgumentsDone
  BY <1>2 DEF ArgumentsDone, TypeOK, GivenTypeOK, Positive, PortInReach
<1>3. CASE GivenHelp
  BY <1>3, ArgumentType
  DEF GivenHelp, Given, TypeOK, GivenTypeOK, Positive, PortInReach
<1>4. CASE GivenServerPort
  <2>1. server_port' \in 0 .. UintMod - 1
    BY <1>4, ArgumentType, ToUnsignedType DEF GivenServerPort, Given
  <2> QED
    BY <1>4, <2>1, ArgumentType
    DEF GivenServerPort, Given, TypeOK, GivenTypeOK, Positive, PortInReach
<1>5. CASE GivenClientPort
  <2>1. client_port' \in 0 .. UintMod - 1
    BY <1>5, ArgumentType, ToUnsignedType DEF GivenClientPort, Given
  <2> QED
    BY <1>5, <2>1, ArgumentType
    DEF GivenClientPort, Given, TypeOK, GivenTypeOK, Positive, PortInReach
<1>6. CASE GivenAddress
  BY <1>6, ArgumentType
  DEF GivenAddress, Given, TypeOK, GivenTypeOK, Positive, PortInReach
<1>7. CASE GivenFile
  BY <1>7, ArgumentType
  DEF GivenFile, Given, TypeOK, GivenTypeOK, Positive, PortInReach
<1>8. CASE GivenInteractive
  BY <1>8, ArgumentType
  DEF GivenInteractive, Given, TypeOK, GivenTypeOK, Positive, PortInReach
<1> QED
  BY <1>1, <1>2, <1>3, <1>4, <1>5, <1>6, <1>7, <1>8 DEF ParseArguments

LEMMA ConnectStep ==
  ASSUME IInv, Connect
  PROVE  IInv'
<1> USE DEF IInv, settings, remote
<1>1. port' \in -UintMod .. UintMod /\ (PortInRange(port') => port' \in 1 .. UshortMax)
  BY ToIntType DEF Connect, TypeOK, Positive
<1> QED
  BY <1>1 DEF Connect, TypeOK, GivenTypeOK, Positive, PortInReach

LEMMA EndpointStep ==
  ASSUME IInv, EndpointThrows \/ CreateEndpoint \/ CreateEndpointUndefined
  PROVE  IInv'
<1> USE DEF IInv, settings, remote
<1>1. CASE EndpointThrows
  BY <1>1 DEF EndpointThrows, TypeOK, GivenTypeOK, Positive, PortInReach
<1>2. CASE CreateEndpoint
  <2>1. localFile' \in Segments
    BY <1>2, AsStringType DEF CreateEndpoint, TypeOK
  <2> QED
    BY <1>2, <2>1 DEF CreateEndpoint, TypeOK, GivenTypeOK, Positive, PortInReach
<1>3. CASE CreateEndpointUndefined
  BY <1>3 DEF CreateEndpointUndefined, TypeOK, GivenTypeOK, Positive, PortInReach
<1> QED
  BY <1>1, <1>2, <1>3

LEMMA EstablishStep ==
  ASSUME IInv, Establish \/ EstablishFails
  PROVE  IInv'
<1> USE DEF IInv, settings, remote
<1>1. CASE Establish
  <2>1. useIPv6' \in BOOLEAN /\ address' \in {"name", "resolved"} /\ pc = "establish"
    BY <1>1 DEF Establish, NameIsIPv6, NameIsIPv4, NameIsResolved, AddressFound
  <2>2. destination' \in {"address", "undetermined"}
    BY <1>1 DEF Establish, FillAddress
  <2> QED
    BY <1>1, <2>1, <2>2
    DEF Establish, TypeOK, GivenTypeOK, Positive, PortInReach
<1>2. CASE EstablishFails
  BY <1>2 DEF EstablishFails, TypeOK, GivenTypeOK, Positive, PortInReach
<1> QED
  BY <1>1, <1>2

LEMMA Stutters ==
  ASSUME IInv, UNCHANGED vars
  PROVE  IInv'
BY DEF IInv, vars, settings, remote, TypeOK, GivenTypeOK, Positive, PortInReach

LEMMA Inductive == IInv /\ [Next]_vars => IInv'
BY ArgumentsStep, ConnectStep, EndpointStep, EstablishStep, Stutters DEF Next

LEMMA Invariance == Spec => []IInv
BY Initially, Inductive, PTL DEF Spec

-----------------------------------------------------------------------------
(* parse_arguments, the constructors and establish keep every variable of    *)
(* its type, whatever the command line.                                      *)
THEOREM SetupTypeOK == Spec => []TypeOK
<1>1. IInv => TypeOK
  BY DEF IInv
<1> QED
  BY <1>1, Invariance, PTL

-----------------------------------------------------------------------------
(* The settings are those given last, or the default; the endpoint has been  *)
(* handed them: the port converted once more, and the end of the path; and   *)
(* the connection is of the family of the name.                              *)
Honours ==
  /\ LastGiven({"4", "6"}) = {} => ip_address = DefaultAddress
  /\ \A a \in LastGiven({"4", "6"}) : ip_address = a.host
  /\ LastGiven({"p"}) = {} => server_port = DefaultPort
  /\ \A a \in LastGiven({"p"}) : server_port = ToUnsigned(a.number)
  /\ \A a \in LastGiven({"f"}) : path = a.path

HandedOn ==
  /\ pc \in {"endpoint", "establish", "loop"} => port = ToInt(server_port)
  /\ pc \in {"establish", "loop"} =>
       localFile = Last(path) \/ Head(path) \in DigitLed

FamilyOfName ==
  pc = "loop" /\ address = "name" => (useIPv6 <=> IsIPv6Address(Name))

SetupInv == IInv /\ Honours /\ HandedOn /\ FamilyOfName

LEMMA ArgumentPlace ==
  ASSUME IInv
  PROVE  /\ arguments \in Seq(Argument) /\ Len(arguments) \in Nat
         /\ optind \in Nat /\ optind \in 1 .. Len(arguments) + 1
<1>1. arguments \in Seq(Argument)
  BY SetupAssumption DEF IInv, GivenTypeOK
<1>2. optind \in 1 .. Len(arguments) + 1
  BY DEF IInv, TypeOK
<1>3. Len(arguments) \in Nat
  BY <1>1
<1> QED
  BY <1>1, <1>2, <1>3

(* The argument getopt_long returns next is the last of its kind.            *)
LEMMA NextGiven ==
  ASSUME IInv, optind <= Len(arguments), optind' = optind + 1,
         UNCHANGED arguments, NEW opts
  PROVE  LastGiven(opts)' = IF arguments[optind].opt \in opts
                            THEN {arguments[optind]} ELSE LastGiven(opts)
<1>1. optind \in Nat /\ optind >= 1
  BY ArgumentPlace
<1>2. CASE arguments[optind].opt \in opts
  <2> DEFINE places == {i \in 1 .. optind :
                          /\ arguments[i].opt \in opts
                          /\ \A j \in i + 1 .. optind : arguments[j].opt \notin opts}
  <2>1. places = {optind}
    BY <1>1, <1>2
  <2>2. LastGiven(opts)' = {arguments[i] : i \in places}
    BY <1>1 DEF LastGiven
  <2> QED
    BY <1>2, <2>1, <2>2
<1>3. CASE arguments[optind].opt \notin opts
  <2> DEFINE places(n) == {i \in 1 .. n - 1 :
                             /\ arguments[i].opt \in opts
                             /\ \A j \in i + 1 .. n - 1 : arguments[j].opt \notin opts}
  <2>1. places(optind + 1) = places(optind)
    BY <1>1, <1>3
  <2>2. LastGiven(opts) = {arguments[i] : i \in places(optind)}
    BY DEF LastGiven
  <2>3. LastGiven(opts)' = {arguments[i] : i \in places(optind + 1)}
    BY DEF LastGiven
  <2> QED
    BY <1>3, <2>1, <2>2, <2>3
<1> QED
  BY <1>2, <1>3

LEMMA NothingGiven ==
  ASSUME UNCHANGED <<arguments, optind>>, NEW opts
  PROVE  LastGiven(opts)' = LastGiven(opts)
BY DEF LastGiven

LEMMA GivenKeepsHonours ==
  ASSUME SetupInv, NEW opts, Given(opts),
         ip_address' = IF opts = {"4", "6"} THEN arguments[optind].host ELSE ip_address,
         server_port' = IF opts = {"p"} THEN ToUnsigned(arguments[optind].number)
                        ELSE server_port,
         path' = IF opts = {"f"} THEN arguments[optind].path ELSE path,
         opts \in {{"h", "?"}, {"p"}, {"c"}, {"4", "6"}, {"f"}, {"i"}}
  PROVE  Honours'
<1> DEFINE a == arguments[optind]
<1>1. a.opt \in opts /\ IInv
  BY DEF Given, SetupInv
<1>2. \A o : LastGiven(o)' = IF a.opt \in o THEN {a} ELSE LastGiven(o)
  BY <1>1, NextGiven DEF Given
<1> HIDE DEF a
<1>3. /\ LastGiven({"4", "6"})' = {} => ip_address' = DefaultAddress
      /\ \A b \in LastGiven({"4", "6"})' : ip_address' = b.host
  BY <1>1, <1>2 DEF SetupInv, Honours, a
<1>4. /\ LastGiven({"p"})' = {} => server_port' = DefaultPort
      /\ \A b \in LastGiven({"p"})' : server_port' = ToUnsigned(b.number)
  BY <1>1, <1>2 DEF SetupInv, Honours, a
<1>5. \A b \in LastGiven({"f"})' : path' = b.path
  BY <1>1, <1>2 DEF SetupInv, Honours, a
<1> QED
  BY <1>3, <1>4, <1>5 DEF Honours

LEMMA ArgumentsKeepSetupInv ==
  ASSUME SetupInv, ParseArguments
  PROVE  SetupInv'
<1>1. IInv'
  BY ArgumentsStep DEF SetupInv
<1>2. pc' \notin {"endpoint", "establish", "loop"}
  BY DEF ParseArguments, CheckArguments, GivenHelp, GivenServerPort, GivenClientPort,
         GivenAddress, GivenFile, GivenInteractive, ArgumentsDone, Given
<1>3. Honours'
  <2>1. CASE CheckArguments \/ ArgumentsDone
    BY <2>1, NothingGiven
    DEF CheckArguments, ArgumentsDone, SetupInv, Honours, settings
  <2>2. CASE GivenHelp
    BY <2>2, GivenKeepsHonours DEF GivenHelp, settings
  <2>3. CASE GivenServerPort
    BY <2>3, GivenKeepsHonours DEF GivenServerPort
  <2>4. CASE GivenClientPort
    BY <2>4, GivenKeepsHonours DEF GivenClientPort
  <2>5. CASE GivenAddress
    BY <2>5, GivenKeepsHonours DEF GivenAddress
  <2>6. CASE GivenFile
    BY <2>6, GivenKeepsHonours DEF GivenFile
  <2>7. CASE GivenInteractive
    BY <2>7, GivenKeepsHonours DEF GivenInteractive, settings
  <2> QED
    BY <2>1, <2>2, <2>3, <2>4, <2>5, <2>6, <2>7 DEF ParseArguments
<1> QED
  BY <1>1, <1>2, <1>3 DEF SetupInv, HandedOn, FamilyOfName

LEMMA ConstructorsKeepSetupInv ==
  ASSUME SetupInv,
         Connect \/ EndpointThrows \/ CreateEndpoint \/ CreateEndpointUndefined
  PROVE  SetupInv'
<1> USE DEF settings, remote
<1>1. IInv'
  BY ConnectStep, EndpointStep DEF SetupInv
<1>2. Honours'
  BY NothingGiven
  DEF SetupInv, Honours, Connect, EndpointThrows, CreateEndpoint, CreateEndpointUndefined
<1>3. pc' # "loop"
  BY DEF Connect, EndpointThrows, CreateEndpoint, CreateEndpointUndefined
<1>4. HandedOn'
  <2>1. CASE Connect
    BY <2>1 DEF Connect, HandedOn
  <2>2. CASE EndpointThrows
    BY <2>2 DEF EndpointThrows, HandedOn
  <2>3. CASE CreateEndpoint
    <3>1. AsString(path) = path
      BY <2>3 DEF CreateEndpoint, AsString
    <3> QED
      BY <2>3, <3>1 DEF CreateEndpoint, HandedOn, SetupInv
  <2>4. CASE CreateEndpointUndefined
    <3>1. Head(path) \in DigitLed
      BY <2>4 DEF CreateEndpointUndefined, AsString
    <3> QED
      BY <2>4, <3>1 DEF CreateEndpointUndefined, HandedOn, SetupInv
  <2> QED
    BY <2>1, <2>2, <2>3, <2>4
<1> QED
  BY <1>1, <1>2, <1>3, <1>4 DEF SetupInv, FamilyOfName

LEMMA EstablishKeepsSetupInv ==
  ASSUME SetupInv, Establish \/ EstablishFails
  PROVE  SetupInv'
<1> USE DEF settings, remote
<1>1. IInv'
  BY EstablishStep DEF SetupInv
<1>2. /\ UNCHANGED <<arguments, optind, settings, port, localFile>>
      /\ pc = "establish" /\ pc' \in {"loop", "failed"}
  BY DEF Establish, EstablishFails, NameIsIPv6, NameIsIPv4, NameIsResolved, AddressFound
<1>3. Honours'
  BY <1>2, NothingGiven DEF SetupInv, Honours
<1>4. HandedOn'
  BY <1>2 DEF SetupInv, HandedOn
<1>5. FamilyOfName'
  <2> SUFFICES ASSUME Establish, address' = "name"
               PROVE  useIPv6' <=> IsIPv6Address(Name')
    BY DEF EstablishFails, FamilyOfName
  <2>1. Name' = Name
    BY <1>2 DEF Name
  <2>2. \/ useIPv6' = TRUE /\ IsIPv6Address(Name)
        \/ useIPv6' = FALSE /\ ~IsIPv6Address(Name)
    BY DEF Establish, NameIsIPv6, NameIsIPv4, NameIsResolved, AddressFound
  <2> QED
    BY <2>1, <2>2
<1> QED
  BY <1>1, <1>3, <1>4, <1>5 DEF SetupInv

LEMMA SetupInvInductive == SetupInv /\ [Next]_vars => SetupInv'
<1> SUFFICES ASSUME SetupInv, [Next]_vars PROVE SetupInv'
  OBVIOUS
<1>1. CASE UNCHANGED vars
  <2>1. IInv' /\ UNCHANGED <<arguments, optind>>
    BY <1>1, Stutters DEF SetupInv, vars
  <2>2. Honours'
    BY <1>1, <2>1, NothingGiven DEF SetupInv, Honours, vars, settings
  <2> QED
    BY <1>1, <2>1, <2>2 DEF SetupInv, HandedOn, FamilyOfName, Name, vars, settings, remote
<1> QED
  BY <1>1, ArgumentsKeepSetupInv, ConstructorsKeepSetupInv, EstablishKeepsSetupInv DEF Next

LEMMA SetupInvHolds == Spec => []SetupInv
<1>1. Init => SetupInv
  <2> SUFFICES ASSUME Init PROVE SetupInv
    OBVIOUS
  <2>1. optind = 1
    BY DEF Init
  <2>2. 1 .. optind - 1 = {}
    BY <2>1
  <2>3. \A opts : LastGiven(opts) = {}
    BY <2>2 DEF LastGiven
  <2> QED
    BY <2>3, Initially DEF Init, SetupInv, Honours, HandedOn, FamilyOfName
<1> QED
  BY <1>1, SetupInvInductive, PTL DEF Spec

-----------------------------------------------------------------------------
(* A number among NotCut comes out of the two conversions as itself, or the  *)
(* constructor or the test for 0 refuses what it has become.                 *)
LEMMA Conversions ==
  ASSUME NEW n \in NotCut, n \in Int, ToUnsigned(n) # 0, PortInRange(ToInt(ToUnsigned(n)))
  PROVE  ToInt(ToUnsigned(n)) = n
<1> DEFINE q == n \div UintMod
           r == n % UintMod
<1>1. /\ UshortMax \in Nat \ {0} /\ UintMod \in Nat /\ UintMod > 2 * UshortMax + 1
      /\ n >= UshortMax + 1 - UintMod /\ n <= UintMod
  BY SetupAssumption DEF NotCut
<1>2. q \in Int /\ r \in 0 .. UintMod - 1 /\ n = UintMod * q + r
  BY <1>1
<1>3. r # 0 /\ ToInt(r) >= 0 /\ ToInt(r) <= UshortMax
  BY DEF ToUnsigned, PortInRange
<1> HIDE DEF q, r
<1>4. r <= UshortMax /\ ToInt(r) = r
  BY <1>1, <1>2, <1>3 DEF ToInt
<1>5. q = 0
  <2>1. ASSUME q >= 1 PROVE FALSE
    <3>1. UintMod * q >= UintMod
      BY <1>1, <1>2, <2>1
    <3> HIDE DEF q
    <3> QED
      BY <1>1, <1>2, <1>3, <3>1
  <2>2. ASSUME q <= -1 PROVE FALSE
    <3>1. UintMod * q <= -UintMod
      BY <1>1, <1>2, <2>2
    <3> QED
      BY <1>1, <1>2, <1>4, <3>1
  <2> QED
    BY <1>2, <2>1, <2>2
<1>6. n = r
  BY <1>1, <1>2, <1>5
<1> QED
  BY <1>4, <1>6 DEF ToUnsigned, r

(* Of every command line and for all widths of ports and unsigned integers:  *)
(* the endpoint works with a port in 1 .. USHRT_MAX, which is the default if *)
(* no -p was given, and else the number given last, if that is among NotCut. *)
THEOREM PortsAreUsable == Spec => []PortIsUsable
<1>1. ASSUME SetupInv PROVE PortIsUsable
  <2> SUFFICES ASSUME pc \in {"endpoint", "establish", "loop"} PROVE PortIsUsable
    BY DEF PortIsUsable
  <2>1. port \in 1 .. UshortMax /\ port = ToInt(server_port) /\ server_port # 0
    BY <1>1 DEF SetupInv, IInv, PortInReach, HandedOn, Positive
  <2>2. PortInRange(port)
    BY <2>1, SetupAssumption DEF PortInRange
  <2>3. LastGiven({"p"}) = {} => port = DefaultPort
    <3>1. ToInt(DefaultPort) = DefaultPort
      BY SetupAssumption DEF ToInt, DefaultPort
    <3> QED
      BY <1>1, <2>1, <3>1 DEF SetupInv, Honours
  <2>4. ASSUME NEW a \in LastGiven({"p"}), a.number \in NotCut PROVE port = a.number
    <3>1. server_port = ToUnsigned(a.number)
      BY <1>1, <2>4 DEF SetupInv, Honours
    <3>2. a.number \in Int
      BY <2>4, SetupAssumption DEF NotCut
    <3> QED
      BY <2>1, <2>2, <2>4, <3>1, <3>2, Conversions
  <2> QED
    BY <2>1, <2>3, <2>4 DEF PortIsUsable
<1> QED
  BY <1>1, SetupInvHolds, PTL

(* Whatever the order and number of the arguments: the name looked up is that*)
(* of the last -4 or -6, or the default, the connection is of its family,    *)
(* and the file is named like the end of the last path.                      *)
THEOREM SettingsAreAsGiven == Spec => []AsGiven
<1>1. ASSUME SetupInv PROVE AsGiven
  <2> SUFFICES ASSUME pc = "loop" PROVE AsGiven
    BY DEF AsGiven
  <2>1. \A a \in LastGiven({"4", "6"}) :
          ip_address = a.host /\ (address = "name" => (useIPv6 <=> IsIPv6Address(a.host)))
    BY <1>1 DEF SetupInv, Honours, FamilyOfName, Name
  <2>2. \A a \in LastGiven({"f"}) : localFile = Last(a.path) \/ Head(a.path) \in DigitLed
    BY <1>1 DEF SetupInv, Honours, HandedOn
  <2> QED
    BY <1>1, <2>1, <2>2 DEF SetupInv, Honours, AsGiven
<1> QED
  BY <1>1, SetupInvHolds, PTL

-----------------------------------------------------------------------------
(* The recognisers of addresses, for names of every length.                  *)
LEMMA LeastNumber ==
  ASSUME NEW T, T \subseteq Nat, T # {}
  PROVE  \E x \in T : \A y \in T : x <= y
<1> DEFINE less == OpToRel(<, Nat)
<1>1. IsWellFoundedOn(less, Nat)
  BY NatLessThanWellFounded
<1>2. PICK x \in T : \A y \in T : <<y, x>> \notin less
  <2> HIDE DEF less
  <2> QED
    BY <1>1, WFMin
<1>3. \A y \in T : ~(y < x)
  BY <1>2 DEF OpToRel
<1> HIDE DEF less
<1> QED
  BY <1>2, <1>3

LEMMA FindFromFinds ==
  ASSUME NEW s \in Seq(Symbols), NEW symbol, NEW from \in Nat
  PROVE  LET p == FindFrom(s, symbol, from)
         IN  \/ p = 0 /\ \A i \in from .. Len(s) : s[i] # symbol
             \/ /\ p \in from .. Len(s) /\ s[p] = symbol
                /\ \A i \in from .. p - 1 : s[i] # symbol
<1> DEFINE p == FindFrom(s, symbol, from)
<1>1. Len(s) \in Nat
  OBVIOUS
<1>2. CASE \E i \in from .. Len(s) : s[i] = symbol
  <2> DEFINE T == {i \in from .. Len(s) : s[i] = symbol}
  <2>1. T \subseteq Nat /\ T # {}
    BY <1>1, <1>2
  <2>2. PICK x \in T : \A y \in T : x <= y
    <3> HIDE DEF T
    <3> QED
      BY <2>1, LeastNumber
  <2>3. \A j \in from .. x - 1 : s[j] # symbol
    <3> SUFFICES ASSUME NEW j \in from .. x - 1, s[j] = symbol PROVE FALSE
      OBVIOUS
    <3>1. j \in T
      BY <1>1, <2>2
    <3> QED
      BY <2>2, <3>1
  <2>4. \E i \in from .. Len(s) : s[i] = symbol /\ \A j \in from .. i - 1 : s[j] # symbol
    BY <2>2, <2>3
  <2> QED
    BY <1>2, <2>4 DEF FindFrom
<1>3. CASE ~(\E i \in from .. Len(s) : s[i] = symbol)
  BY <1>3 DEF FindFrom
<1> QED
  BY <1>2, <1>3

(* There is no other first place.                                            *)
LEMMA FindFromIs ==
  ASSUME NEW s \in Seq(Symbols), NEW symbol, NEW from \in Nat, from > 0,
         NEW q \in from .. Len(s), s[q] = symbol, \A i \in from .. q - 1 : s[i] # symbol
  PROVE  FindFrom(s, symbol, from) = q
<1> DEFINE p == FindFrom(s, symbol, from)
<1>1. \/ p = 0 /\ \A i \in from .. Len(s) : s[i] # symbol
      \/ /\ p \in from .. Len(s) /\ s[p] = symbol
         /\ \A i \in from .. p - 1 : s[i] # symbol
  BY FindFromFinds
<1> HIDE DEF p
<1>2. p \in from .. Len(s) /\ s[p] = symbol /\ \A i \in from .. p - 1 : s[i] # symbol
  BY <1>1
<1>3. ~(p < q) /\ ~(q < p)
  BY <1>2
<1>4. p = q
  BY <1>2, <1>3
<1> QED
  BY <1>4 DEF p

(* The loop of isIPv4Address, whose recursion has a solution: there are four *)
(* steps at most.                                                            *)
Dot(s, prev) == FindFrom(s, ".", prev)
IsDec(s, u, from, to) == CheckNumberSystem(s, from, to, Decimal, u)

FieldsStep(s, u, f, at) ==
  IF at[1] = 0
    THEN Len(s) - at[2] < 3 /\ Dot(s, at[2]) = 0 /\ IsDec(s, u, at[2], Len(s))
    ELSE /\ Dot(s, at[2]) \notin {0, 1}
         /\ Dot(s, at[2]) <= at[2] + 3
         /\ IsDec(s, u, at[2], Dot(s, at[2]) - 1)
         /\ f[<<at[1] - 1, Dot(s, at[2]) + 1>>]

FieldsOf(s, u) == CHOOSE f : f = [at \in (0 .. 3) \X Nat |-> FieldsStep(s, u, f, at)]

LEMMA IPv4Fields ==
  ASSUME NEW s, NEW u
  PROVE  IsIPv4Address(s, u) <=> Len(s) <= 15 /\ FieldsOf(s, u)[<<3, 1>>]
BY DEF IsIPv4Address, FieldsOf, FieldsStep, Dot, IsDec

LEMMA DotType ==
  ASSUME NEW s \in Seq(Symbols), NEW from \in Nat
  PROVE  Dot(s, from) \in Nat
<1> DEFINE p == FindFrom(s, ".", from)
<1>1. p = 0 \/ p \in from .. Len(s)
  BY FindFromFinds
<1>2. Len(s) \in Nat
  OBVIOUS
<1> HIDE DEF p
<1>3. p \in Nat
  BY <1>1, <1>2
<1> QED
  BY <1>3 DEF p, Dot

LEMMA FieldsUnfold ==
  ASSUME NEW s \in Seq(Symbols), NEW u \in BOOLEAN
  PROVE  FieldsOf(s, u) =
           [at \in (0 .. 3) \X Nat |-> FieldsStep(s, u, FieldsOf(s, u), at)]
<1> DEFINE Dom == (0 .. 3) \X Nat
           step(f, at) == FieldsStep(s, u, f, at)
           f0 == [at \in Dom |-> step(<<>>, at)]
           f1 == [at \in Dom |-> step(f0, at)]
           f2 == [at \in Dom |-> step(f1, at)]
           f3 == [at \in Dom |-> step(f2, at)]
           f4 == [at \in Dom |-> step(f3, at)]
<1>1. ASSUME NEW f, NEW g, NEW at \in Dom,
             at[1] # 0 => f[<<at[1] - 1, Dot(s, at[2]) + 1>>]
                            = g[<<at[1] - 1, Dot(s, at[2]) + 1>>]
      PROVE  step(f, at) = step(g, at)
  <2>1. CASE at[1] = 0
    BY <2>1 DEF FieldsStep
  <2>2. CASE at[1] # 0
    <3> DEFINE x == f[<<at[1] - 1, Dot(s, at[2]) + 1>>]
               y == g[<<at[1] - 1, Dot(s, at[2]) + 1>>]
               c == /\ Dot(s, at[2]) \notin {0, 1}
                    /\ Dot(s, at[2]) <= at[2] + 3
                    /\ IsDec(s, u, at[2], Dot(s, at[2]) - 1)
    <3>1. x = y
      BY <1>1, <2>2
    <3>2. step(f, at) = (c /\ x) /\ step(g, at) = (c /\ y)
      BY <2>2 DEF FieldsStep
    <3> HIDE DEF x, y, c, step
    <3> QED
      BY <3>1, <3>2
  <2> QED
    BY <2>1, <2>2
<1>2. ASSUME NEW at \in Dom, at[1] # 0
      PROVE  <<at[1] - 1, Dot(s, at[2]) + 1>> \in Dom
             /\ <<at[1] - 1, Dot(s, at[2]) + 1>>[1] = at[1] - 1
             /\ at[1] \in 1 .. 3
  <2>1. at[2] \in Nat /\ at[1] \in 1 .. 3
    BY <1>2
  <2> DEFINE e == Dot(s, at[2])
  <2>2. e \in Nat
    BY <2>1, DotType
  <2> HIDE DEF e
  <2>3. at[1] - 1 \in 0 .. 3 /\ e + 1 \in Nat
    BY <2>1, <2>2
  <2> QED
    BY <2>1, <2>3 DEF e
<1> HIDE DEF step
<1>3. ASSUME NEW at \in Dom, at[1] = 0 PROVE f0[at] = f1[at]
  <2>1. step(<<>>, at) = step(f0, at)
    BY <1>1, <1>3
  <2> QED
    BY <2>1
<1>4. ASSUME NEW at \in Dom, at[1] <= 1 PROVE f1[at] = f2[at]
  <2> HIDE DEF f0
  <2>1. at[1] # 0 => f0[<<at[1] - 1, Dot(s, at[2]) + 1>>]
                       = f1[<<at[1] - 1, Dot(s, at[2]) + 1>>]
    <3> HIDE DEF f1
    <3> QED
      BY <1>2, <1>3, <1>4
  <2>2. step(f0, at) = step(f1, at)
    <3> HIDE DEF f1, Dom
    <3> QED
      BY <1>1, <2>1
  <2> QED
    BY <2>2
<1>5. ASSUME NEW at \in Dom, at[1] <= 2 PROVE f2[at] = f3[at]
  <2> HIDE DEF f1
  <2>1. at[1] # 0 => f1[<<at[1] - 1, Dot(s, at[2]) + 1>>]
                       = f2[<<at[1] - 1, Dot(s, at[2]) + 1>>]
    <3> HIDE DEF f2
    <3> QED
      BY <1>2, <1>4, <1>5
  <2>2. step(f1, at) = step(f2, at)
    <3> HIDE DEF f2, Dom
    <3> QED
      BY <1>1, <2>1
  <2> QED
    BY <2>2
<1>6. ASSUME NEW at \in Dom PROVE f3[at] = f4[at]
  <2> HIDE DEF f2
  <2>1. at[1] # 0 => f2[<<at[1] - 1, Dot(s, at[2]) + 1>>]
                       = f3[<<at[1] - 1, Dot(s, at[2]) + 1>>]
    <3> HIDE DEF f3
    <3> QED
      BY <1>2, <1>5
  <2>2. step(f2, at) = step(f3, at)
    <3> HIDE DEF f3, Dom
    <3> QED
      BY <1>1, <2>1
  <2> QED
    BY <2>2
<1>7. f3 = f4
  <2> HIDE DEF f2
  <2>1. f3 = [at \in Dom |-> f3[at]] /\ f4 = [at \in Dom |-> f4[at]]
    OBVIOUS
  <2> HIDE DEF f3, f4
  <2> QED
    BY <1>6, <2>1
<1>8. \E f : f = [at \in Dom |-> step(f, at)]
  <2> HIDE DEF f3
  <2>1. f3 = [at \in Dom |-> step(f3, at)]
    BY <1>7
  <2> QED
    BY <2>1
<1> QED
  BY <1>8 DEF FieldsOf, step

(* An address of four fields: its dots are at p, q and r, all else are digits*)
(* and no field is longer than three; of the fields behind a dot one may be  *)
(* empty only if what was never initialised is taken for "true".             *)
Laid(s, u, p, q, r) ==
  /\ p \in 2 .. 4 /\ q \in p + 1 .. p + 4 /\ r \in q + 1 .. q + 4
  /\ Len(s) \in r .. r + 3
  /\ \A i \in 1 .. Len(s) : s[i] = IF i \in {p, q, r} THEN "." ELSE "d"
  /\ u \/ (q > p + 1 /\ r > q + 1 /\ Len(s) > r)

FieldEnds(s, u, from, p) ==
  /\ p = Dot(s, from) /\ p \notin {0, 1} /\ p <= from + 3
  /\ IsDec(s, u, from, p - 1)

LastEnds(s, u, from) ==
  Len(s) - from < 3 /\ Dot(s, from) = 0 /\ IsDec(s, u, from, Len(s))

LEMMA IPv4Unfolds ==
  ASSUME NEW s \in Seq(Symbols), NEW u \in BOOLEAN
  PROVE  IsIPv4Address(s, u) <=>
           /\ Len(s) <= 15
           /\ \E p, q, r \in Nat :
                /\ FieldEnds(s, u, 1, p) /\ FieldEnds(s, u, p + 1, q)
                /\ FieldEnds(s, u, q + 1, r) /\ LastEnds(s, u, r + 1)
<1> DEFINE f == FieldsOf(s, u)
           Dom == (0 .. 3) \X Nat
<1>1. \A at \in Dom : f[at] = FieldsStep(s, u, f, at)
  <2>1. f = [at \in Dom |-> FieldsStep(s, u, f, at)]
    BY FieldsUnfold
  <2> HIDE DEF f
  <2> QED
    BY <2>1
<1> HIDE DEF f
<1>2. ASSUME NEW k \in 1 .. 3, NEW from \in Nat
      PROVE  /\ f[<<k, from>>] = (FieldEnds(s, u, from, Dot(s, from)) /\ f[<<k - 1, Dot(s, from) + 1>>])
             /\ Dot(s, from) + 1 \in Nat
  <2> DEFINE at == <<k, from>>
  <2>1. at \in Dom /\ at[1] = k /\ at[2] = from /\ k # 0
    OBVIOUS
  <2>2. f[at] = FieldsStep(s, u, f, at)
    BY <1>1, <2>1
  <2> HIDE DEF at
  <2>3. f[at] = (FieldEnds(s, u, from, Dot(s, from)) /\ f[<<k - 1, Dot(s, from) + 1>>])
    BY <2>1, <2>2 DEF FieldsStep, FieldEnds
  <2>4. Dot(s, from) + 1 \in Nat
    <3>1. Dot(s, from) \in Nat
      BY DotType
    <3> QED
      BY <3>1
  <2> QED
    BY <2>3, <2>4 DEF at
<1>3. ASSUME NEW from \in Nat
      PROVE  f[<<0, from>>] = LastEnds(s, u, from)
  <2> DEFINE at == <<0, from>>
  <2>1. at \in Dom /\ at[1] = 0 /\ at[2] = from
    OBVIOUS
  <2>2. f[at] = FieldsStep(s, u, f, at)
    BY <1>1, <2>1
  <2> HIDE DEF at
  <2>3. f[at] = LastEnds(s, u, from)
    BY <2>1, <2>2 DEF FieldsStep, LastEnds
  <2> QED
    BY <2>3 DEF at
<1> DEFINE p == Dot(s, 1)
           q == Dot(s, p + 1)
           r == Dot(s, q + 1)
<1>4. p \in Nat /\ q \in Nat /\ r \in Nat
  <2>1. p \in Nat
    BY DotType
  <2>2. q \in Nat
    <3> HIDE DEF p
    <3> QED
      BY <2>1, DotType
  <2>3. r \in Nat
    <3> HIDE DEF q
    <3> QED
      BY <2>2, DotType
  <2> QED
    BY <2>1, <2>2, <2>3
<1>5. f[<<3, 1>>] = (FieldEnds(s, u, 1, p) /\ f[<<2, p + 1>>])
  <2>1. 3 - 1 = 2
    OBVIOUS
  <2> QED
    BY <1>2, <2>1
<1> HIDE DEF p
<1>6. f[<<2, p + 1>>] = (FieldEnds(s, u, p + 1, q) /\ f[<<1, q + 1>>])
  <2>1. 2 - 1 = 1 /\ p + 1 \in Nat
    BY <1>4
  <2> QED
    BY <1>2, <2>1
<1> HIDE DEF q
<1>7. f[<<1, q + 1>>] = (FieldEnds(s, u, q + 1, r) /\ f[<<0, r + 1>>])
  <2>1. 1 - 1 = 0 /\ q + 1 \in Nat
    BY <1>4
  <2> QED
    BY <1>2, <2>1
<1> HIDE DEF r
<1>8. f[<<0, r + 1>>] = LastEnds(s, u, r + 1)
  BY <1>3, <1>4
<1>9. f[<<3, 1>>] = (/\ FieldEnds(s, u, 1, p) /\ FieldEnds(s, u, p + 1, q)
                     /\ FieldEnds(s, u, q + 1, r) /\ LastEnds(s, u, r + 1))
  BY <1>5, <1>6, <1>7, <1>8
<1>10. ASSUME NEW x \in Nat, NEW y \in Nat, NEW z \in Nat,
              FieldEnds(s, u, 1, x), FieldEnds(s, u, x + 1, y),
              FieldEnds(s, u, y + 1, z), LastEnds(s, u, z + 1)
       PROVE  x = p /\ y = q /\ z = r
  BY <1>10 DEF FieldEnds, p, q, r
<1> QED
  BY <1>4, <1>9, <1>10, IPv4Fields DEF f

LEMMA FieldLies ==
  ASSUME NEW s \in Seq(Symbols), NEW u \in BOOLEAN,
         NEW from \in Nat, from > 0, NEW p \in Nat
  PROVE  FieldEnds(s, u, from, p) <=>
           /\ p \in from .. Len(s) /\ p > 1 /\ p <= from + 3 /\ s[p] = "."
           /\ \A i \in from .. p - 1 : s[i] = "d"
           /\ u \/ p > from
<1> DEFINE e == Dot(s, from)
           l == Len(s)
           digits == \A i \in from .. p - 1 : s[i] = "d"
<1>1. /\ l \in Nat
      /\ \/ e = 0 /\ \A i \in from .. l : s[i] # "."
         \/ e \in from .. l /\ s[e] = "." /\ \A i \in from .. e - 1 : s[i] # "."
  BY FindFromFinds DEF Dot
<1>2. ASSUME p \in from .. l, s[p] = ".", digits PROVE e = p
  <2>1. \A i \in from .. p - 1 : s[i] # "."
    BY <1>2
  <2> QED
    BY <1>2, <2>1, FindFromIs DEF Dot
<1>3. IsDec(s, u, from, p - 1) <=> digits /\ (u \/ p > from)
  <2>1. from > p - 1 <=> ~(p > from)
    OBVIOUS
  <2>2. from > p - 1 => digits
    OBVIOUS
  <2> QED
    BY <2>1, <2>2 DEF IsDec, CheckNumberSystem, Decimal
<1> HIDE DEF e, l, digits
<1>4. FieldEnds(s, u, from, p) <=>
        p = e /\ p \notin {0, 1} /\ p <= from + 3 /\ digits /\ (u \/ p > from)
  BY <1>3 DEF FieldEnds, e
<1>5. ASSUME p = e, p # 0 PROVE p \in from .. l /\ s[p] = "."
  BY <1>1, <1>5
<1>6. p \notin {0, 1} <=> p > 1
  OBVIOUS
<1>7. p > 1 => p # 0
  OBVIOUS
<1> QED
  BY <1>2, <1>4, <1>5, <1>6, <1>7 DEF l, digits

LEMMA LastLies ==
  ASSUME NEW s \in Seq(Symbols), NEW u \in BOOLEAN, NEW from \in Nat, from > 0
  PROVE  LastEnds(s, u, from) <=>
           /\ Len(s) < from + 3
           /\ \A i \in from .. Len(s) : s[i] = "d"
           /\ u \/ Len(s) >= from
<1> DEFINE e == Dot(s, from)
           l == Len(s)
           digits == \A i \in from .. l : s[i] = "d"
<1>1. /\ l \in Nat
      /\ \/ e = 0
         \/ e \in from .. l /\ s[e] = "."
  BY FindFromFinds DEF Dot
<1>2. IsDec(s, u, from, l) <=> digits /\ (u \/ l >= from)
  <2>1. from > l <=> ~(l >= from)
    BY <1>1
  <2>2. from > l => digits
    BY <1>1
  <2> QED
    BY <2>1, <2>2 DEF IsDec, CheckNumberSystem, Decimal
<1>3. digits => e = 0
  BY <1>1
<1>4. l - from < 3 <=> l < from + 3
  BY <1>1
<1> HIDE DEF e, l, digits
<1> QED
  BY <1>2, <1>3, <1>4 DEF LastEnds, e, l, digits

LEMMA RecognisedIsLaid ==
  ASSUME NEW s \in Seq(Symbols), NEW u \in BOOLEAN
  PROVE  IsIPv4Address(s, u) <=> \E p, q, r \in Nat : Laid(s, u, p, q, r)
<1> DEFINE l == Len(s)
<1>1. l \in Nat
  OBVIOUS
<1>2. ASSUME NEW p \in Nat, NEW q \in Nat, NEW r \in Nat
      PROVE  (/\ l <= 15
              /\ FieldEnds(s, u, 1, p) /\ FieldEnds(s, u, p + 1, q)
              /\ FieldEnds(s, u, q + 1, r) /\ LastEnds(s, u, r + 1))
               <=> Laid(s, u, p, q, r)
  <2>1. FieldEnds(s, u, 1, p) <=>
          /\ p \in 1 .. l /\ p > 1 /\ p <= 1 + 3 /\ s[p] = "."
          /\ \A i \in 1 .. p - 1 : s[i] = "d"
          /\ u \/ p > 1
    BY FieldLies
  <2>2. FieldEnds(s, u, p + 1, q) <=>
          /\ q \in p + 1 .. l /\ q > 1 /\ q <= (p + 1) + 3 /\ s[q] = "."
          /\ \A i \in p + 1 .. q - 1 : s[i] = "d"
          /\ u \/ q > p + 1
    <3>1. p + 1 \in Nat /\ p + 1 > 0
      OBVIOUS
    <3> QED
      BY <3>1, FieldLies
  <2>3. FieldEnds(s, u, q + 1, r) <=>
          /\ r \in q + 1 .. l /\ r > 1 /\ r <= (q + 1) + 3 /\ s[r] = "."
          /\ \A i \in q + 1 .. r - 1 : s[i] = "d"
          /\ u \/ r > q + 1
    <3>1. q + 1 \in Nat /\ q + 1 > 0
      OBVIOUS
    <3> QED
      BY <3>1, FieldLies
  <2>4. LastEnds(s, u, r + 1) <=>
          /\ l < (r + 1) + 3
          /\ \A i \in r + 1 .. l : s[i] = "d"
          /\ u \/ l >= r + 1
    <3>1. r + 1 \in Nat /\ r + 1 > 0
      OBVIOUS
    <3> QED
      BY <3>1, LastLies
  <2> DEFINE digits(from, to) == \A i \in from .. to : s[i] = "d"
             laid == \A i \in 1 .. l : s[i] = IF i \in {p, q, r} THEN "." ELSE "d"
  <2>5. ASSUME 1 < p, p < q, q < r, r <= l
        PROVE  laid <=> /\ s[p] = "." /\ s[q] = "." /\ s[r] = "."
                        /\ digits(1, p - 1) /\ digits(p + 1, q - 1)
                        /\ digits(q + 1, r - 1) /\ digits(r + 1, l)
    <3>1. ASSUME laid
          PROVE  /\ s[p] = "." /\ s[q] = "." /\ s[r] = "."
                 /\ digits(1, p - 1) /\ digits(p + 1, q - 1)
                 /\ digits(q + 1, r - 1) /\ digits(r + 1, l)
      <4>1. p \in 1 .. l /\ q \in 1 .. l /\ r \in 1 .. l
        BY <1>1, <2>5
      <4>2. s[p] = "." /\ s[q] = "." /\ s[r] = "."
        BY <3>1, <4>1
      <4>3. \A i \in 1 .. l : i \notin {p, q, r} => s[i] = "d"
        BY <3>1
      <4> QED
        BY <1>1, <2>5, <4>2, <4>3
    <3>2. ASSUME s[p] = ".", s[q] = ".", s[r] = ".",
                 digits(1, p - 1), digits(p + 1, q - 1),
                 digits(q + 1, r - 1), digits(r + 1, l),
                 NEW i \in 1 .. l
          PROVE  s[i] = IF i \in {p, q, r} THEN "." ELSE "d"
      <4>1. \/ i \in 1 .. p - 1 \/ i = p \/ i \in p + 1 .. q - 1 \/ i = q
            \/ i \in q + 1 .. r - 1 \/ i = r \/ i \in r + 1 .. l
        BY <1>1, <2>5
      <4>2. CASE i = p \/ i = q \/ i = r
        BY <3>2, <4>2
      <4>3. CASE i # p /\ i # q /\ i # r
        BY <3>2, <4>1, <4>3
      <4> QED
        BY <4>2, <4>3
    <3> QED
      BY <3>1, <3>2
  <2> HIDE DEF digits, laid, l
  <2>6. Laid(s, u, p, q, r) <=>
          /\ p \in 2 .. 4 /\ q \in p + 1 .. p + 4 /\ r \in q + 1 .. q + 4
          /\ l \in r .. r + 3 /\ laid
          /\ u \/ (q > p + 1 /\ r > q + 1 /\ l > r)
    BY DEF Laid, l, laid
  <2>7. FieldEnds(s, u, 1, p) <=>
          p \in 1 .. l /\ p > 1 /\ p <= 4 /\ s[p] = "." /\ digits(1, p - 1)
    BY <2>1 DEF digits
  <2>8. FieldEnds(s, u, p + 1, q) <=>
          /\ q \in p + 1 .. l /\ q > 1 /\ q <= p + 4 /\ s[q] = "." /\ digits(p + 1, q - 1)
          /\ u \/ q > p + 1
    <3>1. (p + 1) + 3 = p + 4
      OBVIOUS
    <3> QED
      BY <2>2, <3>1 DEF digits
  <2>9. FieldEnds(s, u, q + 1, r) <=>
          /\ r \in q + 1 .. l /\ r > 1 /\ r <= q + 4 /\ s[r] = "." /\ digits(q + 1, r - 1)
          /\ u \/ r > q + 1
    <3>1. (q + 1) + 3 = q + 4
      OBVIOUS
    <3> QED
      BY <2>3, <3>1 DEF digits
  <2>10. LastEnds(s, u, r + 1) <=>
           l < r + 4 /\ digits(r + 1, l) /\ (u \/ l >= r + 1)
    <3>1. (r + 1) + 3 = r + 4
      OBVIOUS
    <3> QED
      BY <2>4, <3>1 DEF digits
  <2>11. ASSUME l <= 15, FieldEnds(s, u, 1, p), FieldEnds(s, u, p + 1, q),
                FieldEnds(s, u, q + 1, r), LastEnds(s, u, r + 1)
         PROVE  Laid(s, u, p, q, r)
    <3>1. 1 < p /\ p < q /\ q < r /\ r <= l
      BY <1>1, <2>7, <2>8, <2>9, <2>11
    <3>2. laid
      BY <2>5, <2>7, <2>8, <2>9, <2>10, <2>11, <3>1
    <3>3. /\ p \in 2 .. 4 /\ q \in p + 1 .. p + 4 /\ r \in q + 1 .. q + 4
          /\ l \in r .. r + 3
          /\ u \/ (q > p + 1 /\ r > q + 1 /\ l > r)
      BY <1>1, <2>7, <2>8, <2>9, <2>10, <2>11, <3>1
    <3> QED
      BY <2>6, <3>2, <3>3
  <2>12. ASSUME Laid(s, u, p, q, r)
         PROVE  /\ l <= 15
                /\ FieldEnds(s, u, 1, p) /\ FieldEnds(s, u, p + 1, q)
                /\ FieldEnds(s, u, q + 1, r) /\ LastEnds(s, u, r + 1)
    <3>1. /\ p \in 2 .. 4 /\ q \in p + 1 .. p + 4 /\ r \in q + 1 .. q + 4
          /\ l \in r .. r + 3 /\ laid
          /\ u \/ (q > p + 1 /\ r > q + 1 /\ l > r)
      BY <2>6, <2>12
    <3>2. 1 < p /\ p < q /\ q < r /\ r <= l /\ l <= 15
      BY <1>1, <3>1
    <3>3. /\ s[p] = "." /\ s[q] = "." /\ s[r] = "."
          /\ digits(1, p - 1) /\ digits(p + 1, q - 1)
          /\ digits(q + 1, r - 1) /\ digits(r + 1, l)
      BY <2>5, <3>1, <3>2
    <3>4. /\ p \in 1 .. l /\ p <= 4 /\ q \in p + 1 .. l /\ q > 1 /\ q <= p + 4
          /\ r \in q + 1 .. l /\ r > 1 /\ r <= q + 4 /\ l < r + 4
          /\ l > r => l >= r + 1
      BY <1>1, <3>1, <3>2
    <3> QED
      BY <2>7, <2>8, <2>9, <2>10, <3>1, <3>2, <3>3, <3>4
  <2> QED
    BY <2>11, <2>12
<1> HIDE DEF l
<1> QED
  BY <1>2, IPv4Unfolds DEF l

(* Three numbers, in their order.                                            *)
LEMMA ThreeOf ==
  ASSUME NEW T, T \subseteq Nat, IsFiniteSet(T)
  PROVE  Cardinality(T) = 3 <=>
           \E p, q, r \in Nat : T = {p, q, r} /\ p < q /\ q < r
<1>1. ASSUME Cardinality(T) = 3
      PROVE  \E p, q, r \in Nat : T = {p, q, r} /\ p < q /\ q < r
  <2>1. T # {}
    BY <1>1, FS_EmptySet
  <2>2. PICK p \in T : \A y \in T : p <= y
    BY <2>1, LeastNumber
  <2> DEFINE U == T \ {p}
  <2>3. IsFiniteSet(U) /\ Cardinality(U) = 2
    <3>1. /\ IsFiniteSet(U)
          /\ Cardinality(U) = IF p \in T THEN Cardinality(T) - 1 ELSE Cardinality(T)
      BY FS_RemoveElement
    <3> HIDE DEF U
    <3> QED
      BY <1>1, <3>1
  <2>4. U # {}
    <3> HIDE DEF U
    <3> QED
      BY <2>3, FS_EmptySet
  <2>5. PICK q \in U : \A y \in U : q <= y
    <3>1. U \subseteq Nat
      OBVIOUS
    <3> HIDE DEF U
    <3> QED
      BY <2>4, <3>1, LeastNumber
  <2> DEFINE V == U \ {q}
  <2>6. IsFiniteSet(V) /\ Cardinality(V) = 1
    <3>1. /\ IsFiniteSet(V)
          /\ Cardinality(V) = IF q \in U THEN Cardinality(U) - 1 ELSE Cardinality(U)
      <4> HIDE DEF U
      <4> QED
        BY <2>3, FS_RemoveElement
    <3> HIDE DEF U, V
    <3> QED
      BY <2>3, <3>1
  <2>7. PICK r : V = {r}
    <3> HIDE DEF V
    <3> QED
      BY <2>6, FS_Singleton
  <2>8. r \in T /\ r # p /\ r # q /\ q # p /\ T = {p, q, r}
    BY <2>7
  <2>9. p < q /\ q < r
    BY <2>2, <2>5, <2>8
  <2> QED
    BY <2>8, <2>9
<1>2. ASSUME NEW p \in Nat, NEW q \in Nat, NEW r \in Nat, T = {p, q, r}, p < q, q < r
      PROVE  Cardinality(T) = 3
  <2>1. IsFiniteSet({p}) /\ Cardinality({p}) = 1
    BY FS_Singleton
  <2>2. q \notin {p} /\ r \notin {p} \cup {q} /\ T = ({p} \cup {q}) \cup {r}
    BY <1>2
  <2>3. IsFiniteSet({p} \cup {q}) /\ Cardinality({p} \cup {q}) = 2
    BY <2>1, <2>2, FS_AddElement
  <2> QED
    BY <2>2, <2>3, FS_AddElement
<1> QED
  BY <1>1, <1>2

LEMMA RowOf ==
  ASSUME NEW s \in Seq(Symbols), NEW X, NEW n \in Nat, n > 0
  PROVE  /\ InRow(s, X, n) \subseteq Nat /\ IsFiniteSet(InRow(s, X, n))
         /\ \A i \in Nat : i \in InRow(s, X, n) <=>
              /\ i > 0 /\ i + n <= Len(s) + 1
              /\ \A j \in i .. i + n - 1 : s[j] \in X
<1> DEFINE last == Len(s) - n + 1
           R == InRow(s, X, n)
<1>1. last \in Int /\ Len(s) \in Nat
  OBVIOUS
<1>2. ASSUME NEW i \in Nat
      PROVE  i \in 1 .. last <=> i > 0 /\ i + n <= Len(s) + 1
  BY <1>1
<1>3. R = {i \in 1 .. last : \A j \in i .. i + n - 1 : s[j] \in X}
  BY DEF InRow
<1> HIDE DEF last, R
<1>4. R \in SUBSET (1 .. last) /\ R \subseteq Nat
  BY <1>1, <1>3
<1>5. IsFiniteSet(1 .. last)
  <2>1. 1 \in Int
    OBVIOUS
  <2> QED
    BY <1>1, <2>1, FS_Interval
<1>6. IsFiniteSet(R)
  BY <1>4, <1>5, FS_Subset
<1>7. ASSUME NEW i \in Nat
      PROVE  i \in R <=> /\ i > 0 /\ i + n <= Len(s) + 1
                        /\ \A j \in i .. i + n - 1 : s[j] \in X
  BY <1>2, <1>3
<1> QED
  BY <1>4, <1>6, <1>7 DEF R

(* What FourFields says, with its three dots at p, q and r.                  *)
LEMMA NotationIsLaid ==
  ASSUME NEW s \in Seq(Symbols), NEW u \in BOOLEAN
  PROVE  FourFields(s, IF u THEN 0 ELSE 1) <=> \E p, q, r \in Nat : Laid(s, u, p, q, r)
<1> DEFINE l == Len(s)
           dots == InRow(s, {"."}, 1)
           rows == InRow(s, Decimal, 4)
           ends == dots \cup {0, l + 1}
           least == IF u THEN 0 ELSE 1
<1>1. l \in Nat /\ DOMAIN s = 1 .. l
  OBVIOUS
<1>2. /\ dots \subseteq Nat /\ IsFiniteSet(dots)
      /\ \A i \in Nat : i \in dots <=> i \in 1 .. l /\ s[i] = "."
  <2>1. /\ dots \subseteq Nat /\ IsFiniteSet(dots)
        /\ \A i \in Nat : i \in dots <=>
             /\ i > 0 /\ i + 1 <= l + 1
             /\ \A j \in i .. i + 1 - 1 : s[j] \in {"."}
    <3>1. 1 \in Nat /\ 1 > 0
      OBVIOUS
    <3> QED
      BY <3>1, RowOf
  <2>2. \A i \in Nat : i \in 1 .. l <=> i > 0 /\ i + 1 <= l + 1
    BY <1>1
  <2>3. ASSUME NEW i \in Nat PROVE i .. i + 1 - 1 = {i}
    OBVIOUS
  <2> HIDE DEF dots, l
  <2>4. ASSUME NEW i \in Nat PROVE i \in dots <=> i \in 1 .. l /\ s[i] = "."
    BY <2>1, <2>2, <2>3
  <2> QED
    BY <2>1, <2>4
<1>3. \A i \in Nat : i \in rows <=>
        i > 0 /\ i + 4 <= l + 1 /\ \A j \in i .. i + 3 : s[j] = "d"
  <2>1. \A i \in Nat : i \in rows <=>
          i > 0 /\ i + 4 <= l + 1 /\ \A j \in i .. i + 4 - 1 : s[j] \in Decimal
    <3>1. 4 \in Nat /\ 4 > 0
      OBVIOUS
    <3> QED
      BY <3>1, RowOf
  <2>2. \A i \in Nat : i + 4 - 1 = i + 3
    OBVIOUS
  <2> HIDE DEF rows, l
  <2> QED
    BY <2>1, <2>2 DEF Decimal
<1>4. rows \subseteq Nat
  <2>1. 4 \in Nat /\ 4 > 0
    OBVIOUS
  <2> QED
    BY <2>1, RowOf
<1>5. FourFields(s, least) <=>
        /\ \A i \in 1 .. l : s[i] = "d" \/ s[i] = "."
        /\ Cardinality(dots) = 3
        /\ rows = {}
        /\ \A i \in ends \ {0} : \E j \in ends :
             j < i /\ i - j > (IF j = 0 THEN 1 ELSE least) /\ ends \cap (j + 1 .. i - 1) = {}
  BY <1>1 DEF FourFields, Decimal
<1>6. least \in {0, 1} /\ (least = 0 <=> u)
  OBVIOUS
<1> HIDE DEF l, dots, rows, least
<1>7. ASSUME FourFields(s, least)
      PROVE  \E p, q, r \in Nat : Laid(s, u, p, q, r)
  <2>1. PICK p \in Nat, q \in Nat, r \in Nat : dots = {p, q, r} /\ p < q /\ q < r
    BY <1>2, <1>5, <1>7, ThreeOf
  <2>2. 0 < p /\ r <= l
    BY <1>1, <1>2, <2>1
  <2>3. \A i \in 1 .. l : s[i] = IF i \in {p, q, r} THEN "." ELSE "d"
    BY <1>2, <1>5, <1>7, <2>1
  <2> DEFINE z == l + 1
  <2>4. ends = {0, p, q, r, z} /\ z \in Nat /\ r < z
    BY <1>1, <2>1, <2>2
  <2> HIDE DEF z, ends
  <2>5. ASSUME NEW i \in {p, q, r, z}
        PROVE  \E j \in {0, p, q, r, z} :
                 /\ j < i /\ i - j > (IF j = 0 THEN 1 ELSE least)
                 /\ \A k \in {0, p, q, r, z} : ~(j < k /\ k < i)
    <3>1. i \in ends \ {0}
      BY <2>1, <2>2, <2>4
    <3>2. PICK j \in ends :
            j < i /\ i - j > (IF j = 0 THEN 1 ELSE least) /\ ends \cap (j + 1 .. i - 1) = {}
      BY <1>5, <1>7, <3>1 DEF ends
    <3>3. \A k \in {0, p, q, r, z} : ~(j < k /\ k < i)
      <4> SUFFICES ASSUME NEW k \in {0, p, q, r, z}, j < k, k < i PROVE FALSE
        OBVIOUS
      <4>1. k \in Nat /\ j \in Nat /\ i \in Nat
        BY <2>4
      <4>2. k \in j + 1 .. i - 1
        BY <4>1
      <4> QED
        BY <2>4, <3>2, <4>2
    <3>4. j \in {0, p, q, r, z}
      BY <2>4
    <3> QED
      BY <3>2, <3>3, <3>4
  <2>6. p > 1
    <3>1. PICK j \in {0, p, q, r, z} :
            j < p /\ p - j > (IF j = 0 THEN 1 ELSE least)
      BY <2>5
    <3>2. j = 0
      BY <2>1, <2>2, <2>4, <3>1
    <3> QED
      BY <3>1, <3>2
  <2>7. q - p > least
    <3>1. PICK j \in {0, p, q, r, z} :
            /\ j < q /\ q - j > (IF j = 0 THEN 1 ELSE least)
            /\ \A k \in {0, p, q, r, z} : ~(j < k /\ k < q)
      BY <2>5
    <3>2. j = p
      BY <2>1, <2>2, <2>4, <3>1
    <3> QED
      BY <2>2, <3>1, <3>2
  <2>8. r - q > least
    <3>1. PICK j \in {0, p, q, r, z} :
            /\ j < r /\ r - j > (IF j = 0 THEN 1 ELSE least)
            /\ \A k \in {0, p, q, r, z} : ~(j < k /\ k < r)
      BY <2>5
    <3>2. j = q
      BY <2>1, <2>2, <2>4, <3>1
    <3>3. j # 0
      BY <2>1, <2>2, <3>2
    <3> QED
      BY <3>1, <3>2, <3>3
  <2>9. z - r > least
    <3>1. PICK j \in {0, p, q, r, z} :
            /\ j < z /\ z - j > (IF j = 0 THEN 1 ELSE least)
            /\ \A k \in {0, p, q, r, z} : ~(j < k /\ k < z)
      BY <2>5
    <3>2. j = r
      BY <2>1, <2>2, <2>4, <3>1
    <3>3. j # 0
      BY <2>1, <2>2, <3>2
    <3> QED
      BY <3>1, <3>2, <3>3
  <2>10. ASSUME NEW i \in Nat, i > 0, i + 4 <= l + 1,
                \A k \in {p, q, r} : ~(i <= k /\ k <= i + 3)
         PROVE  FALSE
    <3>1. ASSUME NEW j \in i .. i + 3 PROVE s[j] = "d"
      <4>1. j \in 1 .. l /\ j \notin {p, q, r}
        BY <1>1, <2>10
      <4> QED
        BY <2>3, <4>1
    <3>2. i \in rows
      BY <1>3, <2>10, <3>1
    <3> QED
      BY <1>5, <1>7, <3>2
  <2>11. p <= 4
    <3> SUFFICES ASSUME p > 4 PROVE FALSE
      OBVIOUS
    <3>1. \A k \in {p, q, r} : ~(1 <= k /\ k <= 1 + 3)
      BY <2>1
    <3>2. 1 > 0 /\ 1 + 4 <= l + 1
      BY <1>1, <2>1, <2>2
    <3> QED
      BY <2>10, <3>1, <3>2
  <2>12. q <= p + 4
    <3> SUFFICES ASSUME q > p + 4 PROVE FALSE
      OBVIOUS
    <3>1. \A k \in {p, q, r} : ~(p + 1 <= k /\ k <= (p + 1) + 3)
      BY <2>1
    <3>2. p + 1 \in Nat /\ p + 1 > 0 /\ (p + 1) + 4 <= l + 1
      BY <1>1, <2>1, <2>2
    <3> QED
      BY <2>10, <3>1, <3>2
  <2>13. r <= q + 4
    <3> SUFFICES ASSUME r > q + 4 PROVE FALSE
      OBVIOUS
    <3>1. \A k \in {p, q, r} : ~(q + 1 <= k /\ k <= (q + 1) + 3)
      BY <2>1
    <3>2. q + 1 \in Nat /\ q + 1 > 0 /\ (q + 1) + 4 <= l + 1
      BY <1>1, <2>1, <2>2
    <3> QED
      BY <2>10, <3>1, <3>2
  <2>14. l <= r + 3
    <3> SUFFICES ASSUME l > r + 3 PROVE FALSE
      BY <1>1
    <3>1. \A k \in {p, q, r} : ~(r + 1 <= k /\ k <= (r + 1) + 3)
      BY <2>1
    <3>2. r + 1 \in Nat /\ r + 1 > 0 /\ (r + 1) + 4 <= l + 1
      BY <1>1, <2>1, <2>2
    <3> QED
      BY <2>10, <3>1, <3>2
  <2>15. /\ p \in 2 .. 4 /\ q \in p + 1 .. p + 4 /\ r \in q + 1 .. q + 4
         /\ l \in r .. r + 3
    BY <1>1, <2>1, <2>2, <2>6, <2>11, <2>12, <2>13, <2>14
  <2>16. ~u => q > p + 1 /\ r > q + 1 /\ l > r
    <3> SUFFICES ASSUME least = 1 PROVE q > p + 1 /\ r > q + 1 /\ l > r
      BY <1>6
    <3> QED
      BY <1>1, <2>7, <2>8, <2>9 DEF z
  <2> QED
    BY <2>3, <2>15, <2>16 DEF Laid, l
<1>8. ASSUME NEW p \in Nat, NEW q \in Nat, NEW r \in Nat, Laid(s, u, p, q, r)
      PROVE  FourFields(s, least)
  <2>1. /\ p \in 2 .. 4 /\ q \in p + 1 .. p + 4 /\ r \in q + 1 .. q + 4
        /\ l \in r .. r + 3
        /\ \A i \in 1 .. l : s[i] = IF i \in {p, q, r} THEN "." ELSE "d"
        /\ u \/ (q > p + 1 /\ r > q + 1 /\ l > r)
    BY <1>8 DEF Laid, l
  <2>2. 1 < p /\ p < q /\ q < r /\ r <= l
    BY <1>1, <2>1
  <2>3. \A i \in 1 .. l : s[i] = "d" \/ s[i] = "."
    BY <2>1
  <2>4. dots = {p, q, r}
    <3>1. ASSUME NEW i \in Nat PROVE i \in dots <=> i \in {p, q, r}
      <4>1. i \in {p, q, r} => i \in 1 .. l
        BY <1>1, <2>2
      <4>2. i \in 1 .. l => (s[i] = "." <=> i \in {p, q, r})
        BY <2>1
      <4> QED
        BY <1>2, <4>1, <4>2
    <3> QED
      BY <1>2, <3>1
  <2>5. Cardinality(dots) = 3
    BY <1>2, <2>2, <2>4, ThreeOf
  <2>6. rows = {}
    <3> SUFFICES ASSUME NEW i \in rows PROVE FALSE
      OBVIOUS
    <3>1. i \in Nat /\ i > 0 /\ i + 4 <= l + 1 /\ \A j \in i .. i + 3 : s[j] = "d"
      BY <1>3, <1>4
    <3>2. ASSUME NEW k \in {p, q, r} PROVE ~(i <= k /\ k <= i + 3)
      <4>1. k \in 1 .. l
        BY <1>1, <2>2
      <4>2. s[k] = "."
        BY <2>1, <4>1
      <4> QED
        BY <3>1, <4>1, <4>2
    <3> QED
      BY <1>1, <2>1, <2>2, <3>1, <3>2
  <2>7. ends = {0, p, q, r, l + 1}
    BY <2>4
  <2>8. ASSUME NEW i \in ends \ {0}
        PROVE  \E j \in ends :
                 /\ j < i /\ i - j > (IF j = 0 THEN 1 ELSE least)
                 /\ ends \cap (j + 1 .. i - 1) = {}
    <3>1. i \in {p, q, r, l + 1}
      BY <2>7
    <3> DEFINE j == IF i = p THEN 0 ELSE IF i = q THEN p ELSE IF i = r THEN q ELSE r
    <3>2. /\ j \in {0, p, q, r, l + 1} /\ j < i
          /\ i - j > (IF j = 0 THEN 1 ELSE least)
          /\ \A k \in {0, p, q, r, l + 1} : ~(j < k /\ k < i)
      <4>1. least = 1 => q > p + 1 /\ r > q + 1 /\ l > r
        BY <1>6, <2>1
      <4>2. CASE i = p
        BY <1>1, <2>2, <4>2
      <4>3. CASE i = q
        BY <1>1, <1>6, <2>2, <4>1, <4>3
      <4>4. CASE i = r
        BY <1>1, <1>6, <2>2, <4>1, <4>4
      <4>5. CASE i = l + 1
        BY <1>1, <1>6, <2>2, <4>1, <4>5
      <4> QED
        BY <3>1, <4>2, <4>3, <4>4, <4>5
    <3> HIDE DEF j
    <3>3. ends \cap (j + 1 .. i - 1) = {}
      <4> SUFFICES ASSUME NEW k \in ends, k \in j + 1 .. i - 1 PROVE FALSE
        OBVIOUS
      <4>1. j \in Nat /\ i \in Nat /\ k \in {0, p, q, r, l + 1}
        BY <1>1, <2>7, <3>1, <3>2
      <4>2. j < k /\ k < i
        BY <4>1
      <4> QED
        BY <3>2, <4>1, <4>2
    <3> HIDE DEF ends
    <3> QED
      BY <2>7, <3>2, <3>3
  <2> QED
    BY <1>5, <2>3, <2>5, <2>6, <2>8
<1> QED
  BY <1>7, <1>8 DEF least

(* isIPv4Address takes names of four fields of one to three digits and no    *)
(* others, of whatever length; and with what was never initialised taken for *)
(* "true" those whose later fields are empty, too.                           *)
THEOREM IPv4IsRecognised == Spec => []IPv4Agrees
<1>1. TypeOK => IPv4Agrees
  <2> SUFFICES ASSUME TypeOK PROVE IPv4Agrees
    OBVIOUS
  <2>1. Name \in Seq(Symbols)
    BY DEF TypeOK, Name
  <2>2. IsIPv4Address(Name, FALSE) <=> FourFields(Name, IF FALSE THEN 0 ELSE 1)
    BY <2>1, RecognisedIsLaid, NotationIsLaid
  <2>3. IsIPv4Address(Name, TRUE) <=> FourFields(Name, IF TRUE THEN 0 ELSE 1)
    BY <2>1, RecognisedIsLaid, NotationIsLaid
  <2> QED
    BY <2>2, <2>3 DEF IPv4Agrees
<1> QED
  BY <1>1, SetupTypeOK, PTL

-----------------------------------------------------------------------------
(* The loop of isIPv6Address. It ends, because the place it goes on from is  *)
(* behind the last colon it has found.                                       *)
Scans == Nat \X Nat \X Nat
Colon(s, prev) == FindFrom(s, ":", prev)
Group(s, from, to) == to - from < 4 /\ CheckNumberSystem(s, from, to, Hexadecimal, FALSE)

ScanStep(s, f, at) ==
  IF Colon(s, at[1]) = 0
    THEN RoomForColons(at[2], at[3]) /\ Group(s, at[1], Len(s))
  ELSE /\ Colon(s, at[1]) > at[1] => Group(s, at[1], Colon(s, at[1]) - 1)
       /\ IF Colon(s, at[1]) < Len(s) /\ s[Colon(s, at[1]) + 1] = ":"
            THEN \/ Colon(s, at[1]) + 1 = Len(s)
                 \/ f[<<Colon(s, at[1]) + 2, at[2], at[3] + 1>>]
            ELSE /\ Colon(s, at[1]) # Len(s)
                 /\ f[<<Colon(s, at[1]) + 1, at[2] + 1, at[3]>>]

Scan(s) == CHOOSE f : f = [at \in Scans |-> ScanStep(s, f, at)]

LEMMA IPv6Scans ==
  ASSUME NEW s
  PROVE  IsIPv6Address(s) <=> Len(s) <= 39 /\ (s = <<>> \/ Scan(s)[<<1, 0, 0>>])
BY DEF IsIPv6Address, Scan, ScanStep, Scans, Colon, Group

OnDouble(s, at) == <<Colon(s, at[1]) + 2, at[2], at[3] + 1>>
OnSingle(s, at) == <<Colon(s, at[1]) + 1, at[2] + 1, at[3]>>

LEMMA ScanGoesOn ==
  ASSUME NEW s \in Seq(Symbols), NEW at \in Scans, Colon(s, at[1]) # 0
  PROVE  /\ OnDouble(s, at) \in Scans /\ OnDouble(s, at)[1] > at[1]
         /\ OnSingle(s, at) \in Scans /\ OnSingle(s, at)[1] > at[1]
<1> DEFINE p == Colon(s, at[1])
<1>1. at[1] \in Nat /\ at[2] \in Nat /\ at[3] \in Nat
  BY DEF Scans
<1>2. p = 0 \/ p \in at[1] .. Len(s)
  BY <1>1, FindFromFinds DEF Colon
<1>3. p \in Nat /\ p >= at[1]
  <2> HIDE DEF p
  <2>1. p # 0
    BY DEF p
  <2> QED
    BY <1>1, <1>2, <2>1
<1> HIDE DEF p
<1>4. p + 2 \in Nat /\ p + 1 \in Nat /\ p + 2 > at[1] /\ p + 1 > at[1]
  BY <1>1, <1>3
<1>5. at[2] + 1 \in Nat /\ at[3] + 1 \in Nat
  BY <1>1
<1> QED
  BY <1>1, <1>4, <1>5 DEF OnDouble, OnSingle, p, Scans

LEMMA ScanStepIsLocal ==
  ASSUME NEW s, NEW f, NEW g, NEW at,
         Colon(s, at[1]) # 0 => /\ f[OnDouble(s, at)] = g[OnDouble(s, at)]
                                /\ f[OnSingle(s, at)] = g[OnSingle(s, at)]
  PROVE  ScanStep(s, f, at) = ScanStep(s, g, at)
<1> DEFINE p == Colon(s, at[1])
           x(h) == h[<<p + 2, at[2], at[3] + 1>>]
           y(h) == h[<<p + 1, at[2] + 1, at[3]>>]
           c == p > at[1] => Group(s, at[1], p - 1)
           dbl == p < Len(s) /\ s[p + 1] = ":"
<1>1. CASE p = 0
  BY <1>1 DEF ScanStep
<1>2. CASE p # 0
  <2>1. x(f) = x(g) /\ y(f) = y(g)
    BY <1>2 DEF OnDouble, OnSingle
  <2>2. \A h : ScanStep(s, h, at) =
                 (c /\ IF dbl THEN p + 1 = Len(s) \/ x(h) ELSE p # Len(s) /\ y(h))
    BY <1>2 DEF ScanStep
  <2> HIDE DEF p, c, dbl, x, y
  <2> QED
    BY <2>1, <2>2
<1> QED
  BY <1>1, <1>2

Onwards(s, k) == {at \in Scans : at[1] + k > Len(s)}

LEMMA OnwardsAll ==
  ASSUME NEW s \in Seq(Symbols)
  PROVE  Len(s) + 1 \in Nat /\ Onwards(s, Len(s) + 1) = Scans
<1>1. \A at \in Scans : at[1] + (Len(s) + 1) > Len(s)
  <2> TAKE at \in Scans
  <2>1. at[1] \in Nat /\ Len(s) \in Nat
    BY DEF Scans
  <2> QED
    BY <2>1
<1> QED
  BY <1>1 DEF Onwards

LEMMA OnwardsNext ==
  ASSUME NEW s \in Seq(Symbols), NEW k \in Nat, NEW at \in Onwards(s, k + 1),
         Colon(s, at[1]) # 0
  PROVE  OnDouble(s, at) \in Onwards(s, k) /\ OnSingle(s, at) \in Onwards(s, k)
<1>1. at \in Scans /\ at[1] + (k + 1) > Len(s) /\ at[1] \in Nat /\ Len(s) \in Nat
  BY DEF Onwards, Scans
<1>2. /\ OnDouble(s, at) \in Scans /\ OnDouble(s, at)[1] > at[1]
      /\ OnSingle(s, at) \in Scans /\ OnSingle(s, at)[1] > at[1]
  BY <1>1, ScanGoesOn
<1>3. \A to \in Scans : to[1] > at[1] => to[1] + k > Len(s)
  <2> TAKE to \in Scans
  <2>1. to[1] \in Nat
    BY DEF Scans
  <2> QED
    BY <1>1, <2>1
<1> QED
  BY <1>2, <1>3 DEF Onwards

LEMMA OnwardsNone ==
  ASSUME NEW s \in Seq(Symbols), NEW at \in Onwards(s, 0)
  PROVE  Colon(s, at[1]) = 0
<1>1. at[1] \in Nat /\ Len(s) \in Nat /\ at[1] > Len(s)
  BY DEF Onwards, Scans
<1>2. Colon(s, at[1]) = 0 \/ Colon(s, at[1]) \in at[1] .. Len(s)
  BY <1>1, FindFromFinds DEF Colon
<1> QED
  BY <1>1, <1>2

LEMMA NumberInduction ==
  ASSUME NEW S, S \subseteq Nat, 0 \in S, \A n \in S : n + 1 \in S
  PROVE  \A n \in Nat : n \in S
<1> SUFFICES ASSUME Nat \ S # {} PROVE FALSE
  OBVIOUS
<1>1. PICK x \in Nat \ S : \A y \in Nat \ S : x <= y
  BY LeastNumber
<1>2. x # 0 /\ x - 1 \in Nat
  BY <1>1
<1>3. x - 1 \in S
  BY <1>1, <1>2
<1> QED
  BY <1>1, <1>2, <1>3

LEMMA ScanInduction ==
  ASSUME NEW s \in Seq(Symbols), NEW X,
         \A at \in Scans :
           (Colon(s, at[1]) # 0 => OnDouble(s, at) \in X /\ OnSingle(s, at) \in X)
             => at \in X
  PROVE  \A at \in Scans : at \in X
<1> DEFINE S == {k \in Nat : Onwards(s, k) \subseteq X}
<1>1. 0 \in S
  <2>1. ASSUME NEW at \in Onwards(s, 0) PROVE at \in X
    BY OnwardsNone DEF Onwards
  <2> QED
    BY <2>1
<1>2. ASSUME NEW k \in S PROVE k + 1 \in S
  <2>1. k \in Nat /\ Onwards(s, k) \subseteq X
    BY <1>2
  <2>2. ASSUME NEW at \in Onwards(s, k + 1) PROVE at \in X
    <3>1. at \in Scans
      BY DEF Onwards
    <3>2. Colon(s, at[1]) # 0 => OnDouble(s, at) \in X /\ OnSingle(s, at) \in X
      BY <2>1, <2>2, OnwardsNext
    <3> QED
      BY <3>1, <3>2
  <2> QED
    BY <2>1, <2>2
<1> HIDE DEF S
<1>3. \A k \in Nat : k \in S
  <2>1. S \subseteq Nat
    BY DEF S
  <2> QED
    BY <1>1, <1>2, <2>1, NumberInduction
<1> QED
  BY <1>3, OnwardsAll DEF S

LEMMA ScanUnfolds ==
  ASSUME NEW s \in Seq(Symbols)
  PROVE  Scan(s) = [at \in Scans |-> ScanStep(s, Scan(s), at)]
<1> DEFINE Step(f, at) == ScanStep(s, f, at)
           Solves(f, k) == f = [at \in Onwards(s, k) |-> Step(f, at)]
           S == {k \in Nat : \E f : Solves(f, k)}
<1>1. 0 \in S
  <2> DEFINE f == [at \in Onwards(s, 0) |-> Step(<<>>, at)]
  <2>1. ASSUME NEW at \in Onwards(s, 0) PROVE Step(<<>>, at) = Step(f, at)
    <3>1. Colon(s, at[1]) = 0
      BY OnwardsNone
    <3> HIDE DEF f
    <3> QED
      BY <3>1, ScanStepIsLocal
  <2>2. Solves(f, 0)
    BY <2>1
  <2> QED
    BY <2>2
<1>2. ASSUME NEW k \in S PROVE k + 1 \in S
  <2>1. PICK f : Solves(f, k)
    BY <1>2
  <2> DEFINE g == [at \in Onwards(s, k + 1) |-> Step(f, at)]
  <2>2. ASSUME NEW at \in Onwards(s, k) PROVE f[at] = g[at]
    <3>1. at \in Onwards(s, k + 1)
      <4>1. at \in Scans /\ at[1] \in Nat /\ Len(s) \in Nat /\ at[1] + k > Len(s) /\ k \in Nat
        BY <1>2 DEF Onwards, Scans
      <4>2. at[1] + (k + 1) > Len(s)
        BY <4>1
      <4> QED
        BY <4>1, <4>2 DEF Onwards
    <3>2. f[at] = Step(f, at)
      BY <2>1
    <3> QED
      BY <3>1, <3>2
  <2>3. ASSUME NEW at \in Onwards(s, k + 1) PROVE Step(f, at) = Step(g, at)
    <3>1. CASE Colon(s, at[1]) = 0
      <4> HIDE DEF g
      <4> QED
        BY <3>1, ScanStepIsLocal
    <3>2. CASE Colon(s, at[1]) # 0
      <4>1. k \in Nat
        BY <1>2
      <4>2. OnDouble(s, at) \in Onwards(s, k) /\ OnSingle(s, at) \in Onwards(s, k)
        BY <3>2, <4>1, OnwardsNext
      <4> HIDE DEF g
      <4>3. /\ f[OnDouble(s, at)] = g[OnDouble(s, at)]
            /\ f[OnSingle(s, at)] = g[OnSingle(s, at)]
        BY <2>2, <4>2
      <4> QED
        BY <4>3, ScanStepIsLocal
    <3> QED
      BY <3>1, <3>2
  <2>4. Solves(g, k + 1)
    BY <2>3
  <2> HIDE DEF g, Solves
  <2>5. k + 1 \in Nat /\ \E h : Solves(h, k + 1)
    BY <1>2, <2>4
  <2> QED
    BY <2>5
<1> HIDE DEF S
<1>3. \A k \in Nat : k \in S
  <2>1. S \subseteq Nat
    BY DEF S
  <2> QED
    BY <1>1, <1>2, <2>1, NumberInduction
<1>4. \E f : Solves(f, Len(s) + 1)
  BY <1>3, OnwardsAll DEF S
<1>5. \E f : f = [at \in Scans |-> Step(f, at)]
  BY <1>4, OnwardsAll
<1> QED
  BY <1>5 DEF Scan

(* What is ahead of a place.                                                 *)
Ahead(S, p) == Cardinality({i \in S : i >= p})

LEMMA AheadCounts ==
  ASSUME NEW S, S \subseteq Nat, IsFiniteSet(S), NEW p \in Nat
  PROVE  /\ Ahead(S, p) \in Nat
         /\ p \in S => Ahead(S, p) = 1 + Ahead(S, p + 1)
         /\ p \notin S => Ahead(S, p) = Ahead(S, p + 1)
<1> DEFINE from(q) == {i \in S : i >= q}
<1>1. ASSUME NEW q PROVE IsFiniteSet(from(q)) /\ from(q) \subseteq S
  <2>1. from(q) \in SUBSET S
    OBVIOUS
  <2> HIDE DEF from
  <2> QED
    BY <2>1, FS_Subset
<1>2. p \in S => from(p) = from(p + 1) \cup {p} /\ p \notin from(p + 1)
  <2>1. \A i \in S : i >= p <=> i = p \/ i >= p + 1
    OBVIOUS
  <2>2. ~(p >= p + 1)
    OBVIOUS
  <2> QED
    BY <2>1, <2>2
<1>3. p \notin S => from(p) = from(p + 1)
  <2>1. p \notin S => \A i \in S : i >= p <=> i >= p + 1
    OBVIOUS
  <2> QED
    BY <2>1
<1>4. \A q : Ahead(S, q) = Cardinality(from(q))
  BY DEF Ahead
<1> HIDE DEF from
<1>5. \A q : Ahead(S, q) \in Nat
  BY <1>1, <1>4, FS_CardinalityType
<1>6. p \in S => Ahead(S, p) = Ahead(S, p + 1) + 1
  BY <1>1, <1>2, <1>4, FS_AddElement
<1> QED
  BY <1>3, <1>4, <1>5, <1>6

LEMMA NothingBetween ==
  ASSUME NEW S, S \subseteq Nat, NEW p \in Nat, NEW q \in Nat, p <= q,
         \A i \in S : ~(p <= i /\ i < q)
  PROVE  Ahead(S, p) = Ahead(S, q)
<1>1. \A i \in S : i >= p <=> i >= q
  OBVIOUS
<1>2. {i \in S : i >= p} = {i \in S : i >= q}
  BY <1>1
<1> QED
  BY <1>2 DEF Ahead

LEMMA NothingAhead ==
  ASSUME NEW S, S \subseteq Nat, NEW p \in Nat, \A i \in S : i < p
  PROVE  Ahead(S, p) = 0
<1>1. \A i \in S : ~(i >= p)
  OBVIOUS
<1>2. {i \in S : i >= p} = {}
  BY <1>1
<1> QED
  BY <1>2, FS_EmptySet DEF Ahead

LEMMA AllAhead ==
  ASSUME NEW S, S \subseteq Nat, \A i \in S : i > 0
  PROVE  Ahead(S, 1) = Cardinality(S)
<1>1. \A i \in S : i >= 1
  OBVIOUS
<1>2. {i \in S : i >= 1} = S
  BY <1>1
<1> QED
  BY <1>2 DEF Ahead

-----------------------------------------------------------------------------
(* Where the groups start.                                                   *)
Starts(s) ==
  {i \in InRow(s, Hexadecimal, 1) : i = 1 \/ s[i - 1] \notin Hexadecimal}

LEMMA StartOf ==
  ASSUME NEW s \in Seq(Symbols)
  PROVE  /\ Starts(s) \subseteq Nat /\ IsFiniteSet(Starts(s))
         /\ \A i \in Nat : i \in Starts(s) <=>
              /\ i > 0 /\ i <= Len(s) /\ s[i] \in Hexadecimal
              /\ i = 1 \/ s[i - 1] \notin Hexadecimal
         /\ Groups(s) = Ahead(Starts(s), 1)
<1> DEFINE row == InRow(s, Hexadecimal, 1)
           n == Len(s)
<1>1. row \subseteq Nat /\ IsFiniteSet(row)
  BY RowOf
<1>2. \A i \in Nat : i \in row <=> i > 0 /\ i + 1 <= n + 1 /\ \A j \in i .. i + 0 : s[j] \in Hexadecimal
  BY RowOf
<1>3. n \in Nat
  OBVIOUS
<1> HIDE DEF row, n
<1>4. \A i \in Nat : i \in row <=> i > 0 /\ i <= n /\ s[i] \in Hexadecimal
  BY <1>2, <1>3
<1>5. Starts(s) = {i \in row : i = 1 \/ s[i - 1] \notin Hexadecimal}
  BY DEF Starts, row
<1>6. Starts(s) \subseteq row
  BY <1>5
<1>7. Starts(s) \subseteq Nat /\ IsFiniteSet(Starts(s))
  BY <1>1, <1>6, FS_Subset
<1>8. \A i \in Nat : i \in Starts(s) <=>
              /\ i > 0 /\ i <= n /\ s[i] \in Hexadecimal
              /\ i = 1 \/ s[i - 1] \notin Hexadecimal
  BY <1>4, <1>5
<1>9. Groups(s) = Cardinality(Starts(s))
  BY DEF Groups, Starts
<1>10. Groups(s) = Ahead(Starts(s), 1)
  BY <1>7, <1>8, <1>9, AllAhead
<1> QED
  BY <1>7, <1>8, <1>10 DEF n

LEMMA DoubleOf ==
  ASSUME NEW s \in Seq(Symbols)
  PROVE  /\ Doubles(s) \subseteq Nat /\ IsFiniteSet(Doubles(s))
         /\ \A i \in Nat : i \in Doubles(s) <=>
              /\ i > 0 /\ i + 1 <= Len(s)
              /\ s[i] = ":" /\ s[i + 1] = ":"
         /\ Cardinality(Doubles(s)) = Ahead(Doubles(s), 1)
<1> DEFINE n == Len(s)
           D == Doubles(s)
<1>1. D \subseteq Nat /\ IsFiniteSet(D)
  BY RowOf DEF Doubles
<1>2. \A i \in Nat : i \in D <=> i > 0 /\ i + 2 <= n + 1 /\ \A j \in i .. i + 2 - 1 : s[j] \in {":"}
  BY RowOf DEF Doubles
<1>3. n \in Nat
  OBVIOUS
<1> HIDE DEF D, n
<1>4. \A i \in Nat : i \in D <=> i > 0 /\ i + 1 <= n /\ s[i] = ":" /\ s[i + 1] = ":"
  <2> TAKE i \in Nat
  <2>1. \A j \in i .. i + 2 - 1 : j = i \/ j = i + 1
    OBVIOUS
  <2>2. i \in i .. i + 2 - 1 /\ i + 1 \in i .. i + 2 - 1
    OBVIOUS
  <2>3. (\A j \in i .. i + 2 - 1 : s[j] \in {":"}) <=> s[i] = ":" /\ s[i + 1] = ":"
    BY <2>1, <2>2
  <2>4. i + 2 <= n + 1 <=> i + 1 <= n
    BY <1>3
  <2> QED
    BY <1>2, <2>3, <2>4
<1>5. Cardinality(D) = Ahead(D, 1)
  BY <1>1, <1>4, AllAhead
<1> QED
  BY <1>1, <1>4, <1>5 DEF D, n

(* Over hexadecimal digits and then none to the place c: one group at most.  *)
LEMMA GroupBetween ==
  ASSUME NEW s \in Seq(Symbols), NEW a \in Nat, NEW b \in Nat, NEW c \in Nat,
         1 <= a, a <= b, b <= c, c <= Len(s) + 1,
         \A i \in Nat : a <= i /\ i < b => s[i] \in Hexadecimal,
         \A i \in Nat : b <= i /\ i < c => s[i] \notin Hexadecimal
  PROVE  /\ Ahead(Starts(s), a) \in Nat /\ Ahead(Starts(s), c) \in Nat
         /\ Ahead(Starts(s), a) <= 1 + Ahead(Starts(s), c)
         /\ a = b => Ahead(Starts(s), a) = Ahead(Starts(s), c)
         /\ a < b /\ (a = 1 \/ s[a - 1] \notin Hexadecimal) =>
              Ahead(Starts(s), a) = 1 + Ahead(Starts(s), c)
<1> DEFINE S == Starts(s)
           n == Len(s)
           A(p) == Ahead(S, p)
<1>1. /\ S \subseteq Nat /\ IsFiniteSet(S)
      /\ \A i \in Nat : i \in S <=> /\ i > 0 /\ i <= n /\ s[i] \in Hexadecimal
                                    /\ i = 1 \/ s[i - 1] \notin Hexadecimal
  BY StartOf
<1>2. n \in Nat /\ c <= n + 1
  OBVIOUS
<1> HIDE DEF S, n
<1>3. /\ A(a) \in Nat /\ A(c) \in Nat /\ a + 1 \in Nat
      /\ a \in S => A(a) = 1 + A(a + 1)
      /\ a \notin S => A(a) = A(a + 1)
  <2>1. a + 1 \in Nat
    OBVIOUS
  <2>2. Ahead(S, c) \in Nat
    BY <1>1, AheadCounts
  <2>3. /\ Ahead(S, a) \in Nat
        /\ a \in S => Ahead(S, a) = 1 + Ahead(S, a + 1)
        /\ a \notin S => Ahead(S, a) = Ahead(S, a + 1)
    BY <1>1, AheadCounts
  <2> QED
    BY <2>1, <2>2, <2>3
<1>4. \A i \in S : ~(a + 1 <= i /\ i < c)
  <2> SUFFICES ASSUME NEW i \in S, a + 1 <= i, i < c PROVE FALSE
    OBVIOUS
  <2>1. /\ i \in Nat /\ s[i] \in Hexadecimal /\ i # 1
        /\ s[i - 1] \notin Hexadecimal /\ i - 1 \in Nat
    BY <1>1
  <2>2. i < b
    BY <2>1
  <2>3. s[i - 1] \in Hexadecimal
    BY <2>1, <2>2
  <2> QED
    BY <2>1, <2>3
<1>5. a < c => A(a + 1) = A(c)
  <2> SUFFICES ASSUME a < c PROVE Ahead(S, a + 1) = Ahead(S, c)
    OBVIOUS
  <2>1. a + 1 \in Nat /\ a + 1 <= c
    OBVIOUS
  <2> HIDE DEF A
  <2> QED
    BY <1>1, <1>4, <2>1, NothingBetween
<1>6. a = b /\ a < c => a \notin S
  BY <1>1
<1>7. a < b /\ (a = 1 \/ s[a - 1] \notin Hexadecimal) => a \in S /\ a < c
  BY <1>1, <1>2
<1>8. a < c \/ a = c
  OBVIOUS
<1> HIDE DEF A
<1>9. /\ A(a) <= 1 + A(c)
      /\ a = b => A(a) = A(c)
      /\ a < b /\ (a = 1 \/ s[a - 1] \notin Hexadecimal) => A(a) = 1 + A(c)
  BY <1>3, <1>5, <1>6, <1>7, <1>8
<1> QED
  BY <1>3, <1>9 DEF A, S

-----------------------------------------------------------------------------
(* A range of hexadecimal digits the loop takes, and the colon behind it.    *)
LEMMA GroupIs ==
  ASSUME NEW s, NEW from \in Nat, NEW to \in Int, Group(s, from, to)
  PROVE  to < from + 4 /\ from <= to
         /\ \A i \in Nat : from <= i /\ i <= to => s[i] \in Hexadecimal
<1>1. to - from < 4 /\ ~(from > to) /\ \A i \in from .. to : s[i] \in Hexadecimal
  BY DEF Group, CheckNumberSystem
<1>2. \A i \in Nat : from <= i /\ i <= to => i \in from .. to
  OBVIOUS
<1> QED
  BY <1>1, <1>2

LEMMA GroupOf ==
  ASSUME NEW s, NEW from \in Nat, NEW to \in Int, to < from + 4, from <= to,
         \A i \in Nat : from <= i /\ i <= to => s[i] \in Hexadecimal
  PROVE  Group(s, from, to)
<1>1. to - from < 4 /\ ~(from > to)
  OBVIOUS
<1>2. \A i \in from .. to : s[i] \in Hexadecimal
  OBVIOUS
<1> QED
  BY <1>1, <1>2 DEF Group, CheckNumberSystem

LEMMA ColonIs ==
  ASSUME NEW s \in Seq(Symbols), NEW from \in Nat
  PROVE  \/ /\ Colon(s, from) = 0
            /\ \A i \in Nat : from <= i /\ i <= Len(s) => s[i] # ":"
         \/ /\ Colon(s, from) \in Nat /\ from <= Colon(s, from) /\ Colon(s, from) <= Len(s)
            /\ s[Colon(s, from)] = ":"
            /\ \A i \in Nat : from <= i /\ i < Colon(s, from) => s[i] # ":"
<1> DEFINE p == Colon(s, from)
           n == Len(s)
<1>1. \/ p = 0 /\ \A i \in from .. n : s[i] # ":"
      \/ /\ p \in from .. n /\ s[p] = ":"
         /\ \A i \in from .. p - 1 : s[i] # ":"
  BY FindFromFinds DEF Colon
<1>2. n \in Nat
  OBVIOUS
<1> HIDE DEF p, n
<1>3. CASE p = 0 /\ \A i \in from .. n : s[i] # ":"
  BY <1>2, <1>3 DEF p, n
<1>4. CASE /\ p \in from .. n /\ s[p] = ":"
           /\ \A i \in from .. p - 1 : s[i] # ":"
  <2>1. p \in Nat /\ from <= p /\ p <= n
    BY <1>2, <1>4
  <2>2. \A i \in Nat : from <= i /\ i < p => s[i] # ":"
    BY <1>4, <2>1
  <2> QED
    BY <1>4, <2>1, <2>2 DEF p, n
<1> QED
  BY <1>1, <1>3, <1>4

(* What the loop has seen to of the rest of the name, if it takes it.        *)
SeenTo(s, at) ==
  /\ \A i \in Nat : at[1] <= i /\ i <= Len(s) => s[i] \in Hexadecimal \cup {":"}
  /\ \A i \in Nat : at[1] <= i /\ i + 4 <= Len(s) =>
       \E j \in Nat : i <= j /\ j <= i + 4 /\ s[j] \notin Hexadecimal
  /\ \/ Len(s) - 1 \in Doubles(s)
     \/ Ahead(Starts(s), at[1]) + at[2] + at[3] <= 8

(* One round of the loop: a group of b - a digits, and the colons to c.      *)
LEMMA OneRound ==
  ASSUME NEW s \in Seq(Symbols), NEW a \in Nat, NEW b \in Nat, NEW c \in Nat,
         1 <= a, a <= b, b <= a + 4, b < c, c <= Len(s) + 1,
         \A i \in Nat : a <= i /\ i < b => s[i] \in Hexadecimal,
         \A i \in Nat : b <= i /\ i < c => s[i] = ":",
         \A i \in Nat : c <= i /\ i <= Len(s) => s[i] \in Hexadecimal \cup {":"},
         \A i \in Nat : c <= i /\ i + 4 <= Len(s) =>
           \E j \in Nat : i <= j /\ j <= i + 4 /\ s[j] \notin Hexadecimal
  PROVE  /\ \A i \in Nat : a <= i /\ i <= Len(s) => s[i] \in Hexadecimal \cup {":"}
         /\ \A i \in Nat : a <= i /\ i + 4 <= Len(s) =>
              \E j \in Nat : i <= j /\ j <= i + 4 /\ s[j] \notin Hexadecimal
         /\ Ahead(Starts(s), a) \in Nat /\ Ahead(Starts(s), c) \in Nat
         /\ Ahead(Starts(s), a) <= 1 + Ahead(Starts(s), c)
<1> DEFINE n == Len(s)
<1>1. n \in Nat
  OBVIOUS
<1>2. ":" \notin Hexadecimal
  BY DEF Hexadecimal
<1>3. \A i \in Nat : a <= i /\ i <= n => s[i] \in Hexadecimal \cup {":"}
  <2> TAKE i \in Nat
  <2>1. i < b \/ (b <= i /\ i < c) \/ c <= i
    OBVIOUS
  <2> QED
    BY <2>1
<1>4. ASSUME NEW i \in Nat, a <= i, i + 4 <= n
      PROVE  \E j \in Nat : i <= j /\ j <= i + 4 /\ s[j] \notin Hexadecimal
  <2>1. CASE i <= b
    <3>1. b <= i + 4
      BY <1>4
    <3>2. s[b] = ":"
      OBVIOUS
    <3> QED
      BY <1>2, <2>1, <3>1, <3>2
  <2>2. CASE b < i /\ i < c
    <3>1. s[i] = ":" /\ i <= i + 4
      BY <2>2
    <3> QED
      BY <1>2, <3>1
  <2>3. CASE c <= i
    BY <1>4, <2>3
  <2> QED
    BY <2>1, <2>2, <2>3
<1>5. /\ Ahead(Starts(s), a) \in Nat /\ Ahead(Starts(s), c) \in Nat
      /\ Ahead(Starts(s), a) <= 1 + Ahead(Starts(s), c)
  <2>1. \A i \in Nat : b <= i /\ i < c => s[i] \notin Hexadecimal
    BY <1>2
  <2>2. b <= c
    OBVIOUS
  <2> QED
    BY <2>1, <2>2, GroupBetween
<1> QED
  BY <1>3, <1>4, <1>5

LEMMA RoomIs ==
  ASSUME NEW c \in Nat, NEW d \in Nat
  PROVE  RoomForColons(c, d) <=> (d = 0 /\ c <= 7) \/ (d = 1 /\ c <= 5)
<1> DEFINE room == IF d = 1 THEN 5 ELSE 7
<1>1. RoomForColons(c, d) <=> d <= 1 /\ c <= room
  BY DEF RoomForColons
<1>2. d = 1 => room = 5
  OBVIOUS
<1>3. d # 1 => room = 7
  OBVIOUS
<1> HIDE DEF room
<1> QED
  BY <1>1, <1>2, <1>3

LEMMA LastGroupSeenTo ==
  ASSUME NEW s \in Seq(Symbols), NEW at \in Scans, at[1] > 0,
         RoomForColons(at[2], at[3]), Group(s, at[1], Len(s))
  PROVE  SeenTo(s, at)
<1> DEFINE a == at[1]
           c == at[2]
           d == at[3]
           n == Len(s)
           G(i) == Ahead(Starts(s), i)
<1>1. a \in Nat /\ c \in Nat /\ d \in Nat /\ n \in Nat /\ n + 1 \in Nat
  BY DEF Scans
<1>2. n < a + 4 /\ a <= n /\ \A i \in Nat : a <= i /\ i <= n => s[i] \in Hexadecimal
  BY <1>1, GroupIs
<1>3. (d = 0 /\ c <= 7) \/ (d = 1 /\ c <= 5)
  BY <1>1, RoomIs
<1>4. G(n + 1) = 0
  <2>1. Starts(s) \subseteq Nat /\ \A i \in Nat : i \in Starts(s) => i <= Len(s)
    BY StartOf
  <2>2. \A i \in Starts(s) : i < n + 1
    BY <1>1, <2>1
  <2> QED
    BY <1>1, <2>1, <2>2, NothingAhead
<1>5. G(a) \in Nat /\ G(a) <= 1 + G(n + 1)
  <2> DEFINE e == n + 1
  <2>1. e \in Nat /\ 1 <= a /\ a <= e /\ e <= e /\ e <= Len(s) + 1
    BY <1>1, <1>2
  <2>2. \A i \in Nat : a <= i /\ i < e => s[i] \in Hexadecimal
    BY <1>1, <1>2
  <2>3. \A i \in Nat : e <= i /\ i < e => s[i] \notin Hexadecimal
    OBVIOUS
  <2> HIDE DEF e, n, a
  <2>4. /\ Ahead(Starts(s), a) \in Nat
        /\ Ahead(Starts(s), a) <= 1 + Ahead(Starts(s), e)
    BY <1>1, <2>1, <2>2, <2>3, GroupBetween
  <2> QED
    BY <2>4 DEF e
<1> HIDE DEF a, c, d, n, G
<1>6. G(a) + c + d <= 8
  BY <1>1, <1>3, <1>4, <1>5
<1>7. \A i \in Nat : a <= i => ~(i + 4 <= n)
  BY <1>1, <1>2
<1> QED
  BY <1>2, <1>6, <1>7 DEF SeenTo, a, c, d, n, G

LEMMA AcceptedIsSeenTo ==
  ASSUME NEW s \in Seq(Symbols)
  PROVE  \A at \in Scans : at[1] > 0 /\ Scan(s)[at] => SeenTo(s, at)
<1> DEFINE X == {at \in Scans : at[1] > 0 /\ Scan(s)[at] => SeenTo(s, at)}
<1>1. ASSUME NEW at \in Scans,
             Colon(s, at[1]) # 0 => OnDouble(s, at) \in X /\ OnSingle(s, at) \in X,
             at[1] > 0, Scan(s)[at]
      PROVE  SeenTo(s, at)
  <2> DEFINE a == at[1]
             c == at[2]
             d == at[3]
             n == Len(s)
             p == Colon(s, a)
             G(i) == Ahead(Starts(s), i)
             double == p < n /\ s[p + 1] = ":"
  <2>1. a \in Nat /\ c \in Nat /\ d \in Nat /\ n \in Nat /\ a >= 1
    BY <1>1 DEF Scans
  <2>2. ScanStep(s, Scan(s), at)
    BY <1>1, ScanUnfolds
  <2>3. CASE p = 0
    <3>1. RoomForColons(c, d) /\ Group(s, a, n)
      BY <2>2, <2>3 DEF ScanStep
    <3> QED
      BY <1>1, <3>1, LastGroupSeenTo
  <2>4. CASE p # 0
    <3>1. /\ p \in Nat /\ a <= p /\ p <= n /\ s[p] = ":"
      BY <2>1, <2>4, ColonIs
    <3>2. p > a => Group(s, a, p - 1)
      BY <2>2, <2>4 DEF ScanStep
    <3>3. p <= a + 4 /\ \A i \in Nat : a <= i /\ i < p => s[i] \in Hexadecimal
      <4> HIDE DEF p, a
      <4>1. CASE p > a
        <5>1. Group(s, a, p - 1) /\ p - 1 \in Int
          BY <3>1, <3>2, <4>1
        <5>2. p - 1 < a + 4 /\ \A i \in Nat : a <= i /\ i <= p - 1 => s[i] \in Hexadecimal
          BY <2>1, <5>1, GroupIs
        <5> QED
          BY <2>1, <3>1, <5>2
      <4>2. CASE p = a
        BY <2>1, <4>2
      <4> QED
        BY <2>1, <3>1, <4>1, <4>2
    <3>4. IF double THEN p + 1 = n \/ Scan(s)[OnDouble(s, at)]
                    ELSE p # n /\ Scan(s)[OnSingle(s, at)]
      BY <2>2, <2>4 DEF ScanStep, OnDouble, OnSingle
    <3>5. OnDouble(s, at) = <<p + 2, c, d + 1>> /\ OnSingle(s, at) = <<p + 1, c + 1, d>>
      BY DEF OnDouble, OnSingle
    <3>6. OnDouble(s, at) \in X /\ OnSingle(s, at) \in X
      BY <1>1, <2>4
    <3>7. CASE double /\ p + 1 = n
      <4>1. n - 1 \in Doubles(s)
        <5>1. p > 0 /\ p + 1 <= n /\ s[p] = ":" /\ s[p + 1] = ":" /\ p = n - 1
          <6> HIDE DEF p, n, a
          <6> QED
            BY <2>1, <3>1, <3>7
        <5>2. p \in Doubles(s)
          BY <3>1, <5>1, DoubleOf
        <5> QED
          BY <5>1, <5>2
      <4> DEFINE e == p + 2
      <4>2. /\ e \in Nat /\ p < e /\ e <= n + 1
            /\ \A i \in Nat : p <= i /\ i < e => s[i] = ":"
            /\ \A i \in Nat : ~(e <= i /\ i <= n)
            /\ \A i \in Nat : ~(e <= i /\ i + 4 <= n)
        <5> HIDE DEF p, n
        <5>1. \A i \in Nat : p <= i /\ i < p + 2 => i = p \/ i = p + 1
          BY <3>1
        <5> QED
          BY <2>1, <3>1, <3>7, <5>1
      <4> HIDE DEF p, n, e, a
      <4>3. /\ \A i \in Nat : a <= i /\ i <= Len(s) => s[i] \in Hexadecimal \cup {":"}
            /\ \A i \in Nat : a <= i /\ i + 4 <= Len(s) =>
                 \E j \in Nat : i <= j /\ j <= i + 4 /\ s[j] \notin Hexadecimal
        <5>1. /\ e <= Len(s) + 1
              /\ \A i \in Nat : ~(e <= i /\ i <= Len(s))
              /\ \A i \in Nat : ~(e <= i /\ i + 4 <= Len(s))
          BY <4>2 DEF n
        <5> QED
          BY <2>1, <3>1, <3>3, <4>2, <5>1, OneRound
      <4> QED
        BY <4>1, <4>3 DEF SeenTo, a, n
    <3>8. CASE double /\ p + 1 # n
      <4>1. /\ p + 2 \in Nat /\ p < p + 2 /\ p + 2 <= n + 1 /\ p + 2 > 0
            /\ \A i \in Nat : p <= i /\ i < p + 2 => s[i] = ":"
        <5> HIDE DEF p, n
        <5>1. \A i \in Nat : p <= i /\ i < p + 2 => i = p \/ i = p + 1
          BY <3>1
        <5> QED
          BY <2>1, <3>1, <3>8, <5>1
      <4>2. SeenTo(s, <<p + 2, c, d + 1>>)
        <5>1. Scan(s)[<<p + 2, c, d + 1>>]
          BY <3>4, <3>5, <3>8
        <5>2. <<p + 2, c, d + 1>> \in X
          BY <3>5, <3>6
        <5> HIDE DEF p
        <5> QED
          BY <4>1, <5>1, <5>2
      <4> DEFINE e == p + 2
      <4>3. /\ \A i \in Nat : e <= i /\ i <= Len(s) => s[i] \in Hexadecimal \cup {":"}
            /\ \A i \in Nat : e <= i /\ i + 4 <= Len(s) =>
                 \E j \in Nat : i <= j /\ j <= i + 4 /\ s[j] \notin Hexadecimal
            /\ Len(s) - 1 \in Doubles(s) \/ G(e) + c + (d + 1) <= 8
        <5> HIDE DEF p
        <5> QED
          BY <4>2 DEF SeenTo
      <4>4. /\ e \in Nat /\ p < e /\ e <= Len(s) + 1
            /\ \A i \in Nat : p <= i /\ i < e => s[i] = ":"
        BY <4>1
      <4> HIDE DEF p, e, a
      <4>5. /\ \A i \in Nat : a <= i /\ i <= Len(s) => s[i] \in Hexadecimal \cup {":"}
            /\ \A i \in Nat : a <= i /\ i + 4 <= Len(s) =>
                 \E j \in Nat : i <= j /\ j <= i + 4 /\ s[j] \notin Hexadecimal
            /\ G(a) \in Nat /\ G(e) \in Nat /\ G(a) <= 1 + G(e)
        BY <2>1, <3>1, <3>3, <4>3, <4>4, OneRound
      <4>6. G(e) + c + (d + 1) <= 8 => G(a) + c + d <= 8
        <5> HIDE DEF G, c, d
        <5> QED
          BY <2>1, <4>5
      <4> QED
        BY <4>3, <4>5, <4>6 DEF SeenTo, a
    <3>9. CASE ~double
      <4>1. p # n /\ Scan(s)[<<p + 1, c + 1, d>>]
        BY <3>4, <3>5, <3>9
      <4>2. /\ p + 1 \in Nat /\ p < p + 1 /\ p + 1 <= n + 1 /\ p + 1 > 0
            /\ \A i \in Nat : p <= i /\ i < p + 1 => s[i] = ":"
        <5> HIDE DEF p, n
        <5>1. \A i \in Nat : p <= i /\ i < p + 1 => i = p
          BY <3>1
        <5> QED
          BY <2>1, <3>1, <5>1
      <4>3. SeenTo(s, <<p + 1, c + 1, d>>)
        <5>1. <<p + 1, c + 1, d>> \in X
          BY <3>5, <3>6
        <5> HIDE DEF p
        <5> QED
          BY <4>1, <4>2, <5>1
      <4> DEFINE e == p + 1
      <4>4. /\ \A i \in Nat : e <= i /\ i <= Len(s) => s[i] \in Hexadecimal \cup {":"}
            /\ \A i \in Nat : e <= i /\ i + 4 <= Len(s) =>
                 \E j \in Nat : i <= j /\ j <= i + 4 /\ s[j] \notin Hexadecimal
            /\ Len(s) - 1 \in Doubles(s) \/ G(e) + (c + 1) + d <= 8
        <5> HIDE DEF p
        <5> QED
          BY <4>3 DEF SeenTo
      <4>5. /\ e \in Nat /\ p < e /\ e <= Len(s) + 1
            /\ \A i \in Nat : p <= i /\ i < e => s[i] = ":"
        BY <4>2
      <4> HIDE DEF p, e, a
      <4>6. /\ \A i \in Nat : a <= i /\ i <= Len(s) => s[i] \in Hexadecimal \cup {":"}
            /\ \A i \in Nat : a <= i /\ i + 4 <= Len(s) =>
                 \E j \in Nat : i <= j /\ j <= i + 4 /\ s[j] \notin Hexadecimal
            /\ G(a) \in Nat /\ G(e) \in Nat /\ G(a) <= 1 + G(e)
        BY <2>1, <3>1, <3>3, <4>4, <4>5, OneRound
      <4>7. G(e) + (c + 1) + d <= 8 => G(a) + c + d <= 8
        <5> HIDE DEF G, c, d
        <5> QED
          BY <2>1, <4>6
      <4> QED
        BY <4>4, <4>6, <4>7 DEF SeenTo, a
    <3> QED
      BY <3>7, <3>8, <3>9
  <2> QED
    BY <2>3, <2>4
<1>2. \A at \in Scans :
        (Colon(s, at[1]) # 0 => OnDouble(s, at) \in X /\ OnSingle(s, at) \in X)
          => at \in X
  BY <1>1
<1> HIDE DEF X
<1>3. \A at \in Scans : at \in X
  BY <1>2, ScanInduction
<1> QED
  BY <1>3 DEF X

(* A name that is in the notation but for the number of its groups.          *)
Clean(s) ==
  /\ \A i \in Nat : i > 0 /\ i <= Len(s) => s[i] \in Hexadecimal \cup {":"}
  /\ \A i \in Nat : i > 0 /\ i + 4 <= Len(s) =>
       \E j \in Nat : i <= j /\ j <= i + 4 /\ s[j] \notin Hexadecimal
  /\ \A i \in Nat : i > 0 /\ i + 2 <= Len(s) =>
       ~(s[i] = ":" /\ s[i + 1] = ":" /\ s[i + 2] = ":")
  /\ Len(s) > 0 /\ s[Len(s)] = ":" => Len(s) > 1 /\ s[Len(s) - 1] = ":"

Entry(s, p) ==
  p \in Nat /\ p > 0 /\ p <= Len(s) /\ s[p] \in Hexadecimal /\ (p = 1 \/ s[p - 1] = ":")

(* From the first digit of a group, to the next or to the end of the name.   *)
LEMMA LastGroup ==
  ASSUME NEW s \in Seq(Symbols), Clean(s), NEW p, Entry(s, p), Colon(s, p) = 0
  PROVE  /\ Len(s) < p + 4 /\ Group(s, p, Len(s))
         /\ Ahead(Starts(s), p) \in Nat /\ Ahead(Starts(s), p) >= 1
<1> DEFINE n == Len(s)
<1>1. n \in Nat /\ p \in Nat /\ p > 0 /\ p <= n
  BY DEF Entry
<1>2. \A i \in Nat : p <= i /\ i <= n => s[i] \in Hexadecimal
  <2>1. \A i \in Nat : p <= i /\ i <= n => s[i] # ":"
    BY <1>1, ColonIs
  <2>2. \A i \in Nat : i > 0 /\ i <= n => s[i] \in Hexadecimal \cup {":"}
    BY DEF Clean
  <2> HIDE DEF n
  <2> QED
    BY <1>1, <2>1, <2>2
<1>3. n < p + 4
  <2> SUFFICES ASSUME p + 4 <= n PROVE FALSE
    BY <1>1
  <2>1. PICK j \in Nat : p <= j /\ j <= p + 4 /\ s[j] \notin Hexadecimal
    BY <1>1 DEF Clean
  <2> HIDE DEF n
  <2> QED
    BY <1>1, <1>2, <2>1
<1>4. Group(s, p, n)
  <2> HIDE DEF n
  <2> QED
    BY <1>1, <1>2, <1>3, GroupOf
<1>5. p \in Starts(s)
  <2>1. s[p] \in Hexadecimal /\ (p = 1 \/ s[p - 1] \notin Hexadecimal)
    BY DEF Entry, Hexadecimal
  <2> QED
    BY <1>1, <2>1, StartOf
<1>6. Ahead(Starts(s), p) \in Nat /\ Ahead(Starts(s), p) >= 1
  <2>1. Starts(s) \subseteq Nat /\ IsFiniteSet(Starts(s)) /\ p + 1 \in Nat
    BY <1>1, StartOf
  <2>2. Ahead(Starts(s), p + 1) \in Nat
    BY <2>1, AheadCounts
  <2>3. Ahead(Starts(s), p) = 1 + Ahead(Starts(s), p + 1)
    BY <1>1, <1>5, <2>1, AheadCounts
  <2> QED
    BY <2>2, <2>3
<1> QED
  BY <1>3, <1>4, <1>6 DEF n

LEMMA GroupAndColon ==
  ASSUME NEW s \in Seq(Symbols), Clean(s), NEW p, Entry(s, p), Colon(s, p) # 0
  PROVE  /\ Colon(s, p) \in Nat /\ p < Colon(s, p) /\ Colon(s, p) <= Len(s)
         /\ s[Colon(s, p)] = ":"
         /\ Colon(s, p) <= p + 4 /\ Group(s, p, Colon(s, p) - 1)
         /\ \A i \in Nat : p <= i /\ i < Colon(s, p) => s[i] \in Hexadecimal
<1> DEFINE n == Len(s)
           b == Colon(s, p)
<1>1. n \in Nat /\ p \in Nat /\ p > 0 /\ p <= n /\ s[p] \in Hexadecimal
  BY DEF Entry
<1>2. /\ b \in Nat /\ p <= b /\ b <= n /\ s[b] = ":"
      /\ \A i \in Nat : p <= i /\ i < b => s[i] # ":"
  BY <1>1, ColonIs
<1>3. \A i \in Nat : i > 0 /\ i <= n => s[i] \in Hexadecimal \cup {":"}
  BY DEF Clean
<1>4. p + 4 <= n => \E j \in Nat : p <= j /\ j <= p + 4 /\ s[j] \notin Hexadecimal
  BY <1>1 DEF Clean
<1>5. ":" \notin Hexadecimal
  BY DEF Hexadecimal
<1> HIDE DEF n, b
<1>6. p < b
  BY <1>1, <1>2, <1>5
<1>7. \A i \in Nat : p <= i /\ i < b => s[i] \in Hexadecimal
  BY <1>1, <1>2, <1>3
<1>8. b <= p + 4
  <2> SUFFICES ASSUME b > p + 4 PROVE FALSE
    BY <1>1, <1>2
  <2>1. PICK j \in Nat : p <= j /\ j <= p + 4 /\ s[j] \notin Hexadecimal
    BY <1>1, <1>2, <1>4
  <2> QED
    BY <1>1, <1>2, <1>7, <2>1
<1>9. Group(s, p, b - 1)
  <2>1. b - 1 \in Int /\ b - 1 < p + 4 /\ p <= b - 1
    BY <1>1, <1>2, <1>6, <1>8
  <2>2. \A i \in Nat : p <= i /\ i <= b - 1 => s[i] \in Hexadecimal
    BY <1>1, <1>2, <1>7
  <2> HIDE DEF b
  <2> QED
    BY <1>1, <2>1, <2>2, GroupOf
<1> QED
  BY <1>2, <1>6, <1>7, <1>8, <1>9 DEF b, n

LEMMA NextGroup ==
  ASSUME NEW s \in Seq(Symbols), Clean(s), NEW p, Entry(s, p), NEW b, b = Colon(s, p),
         b # 0, ~(b < Len(s) /\ s[b + 1] = ":")
  PROVE  /\ b # Len(s) /\ Entry(s, b + 1)
         /\ Ahead(Starts(s), b + 1) \in Nat
         /\ Ahead(Starts(s), p) = 1 + Ahead(Starts(s), b + 1)
         /\ Ahead(Doubles(s), p) = Ahead(Doubles(s), b + 1)
<1> DEFINE n == Len(s)
           c == b + 1
<1>1. /\ b \in Nat /\ p < b /\ b <= n /\ s[b] = ":"
      /\ \A i \in Nat : p <= i /\ i < b => s[i] \in Hexadecimal
  BY GroupAndColon
<1>2. n \in Nat /\ p \in Nat /\ p > 0 /\ s[p] \in Hexadecimal /\ (p = 1 \/ s[p - 1] = ":")
  BY DEF Entry
<1>3. /\ \A i \in Nat : i > 0 /\ i <= n => s[i] \in Hexadecimal \cup {":"}
      /\ n > 0 /\ s[n] = ":" => n > 1 /\ s[n - 1] = ":"
  BY DEF Clean
<1>4. ":" \notin Hexadecimal
  BY DEF Hexadecimal
<1>5. b # n
  <2> HIDE DEF n
  <2> SUFFICES ASSUME b = n PROVE FALSE
    OBVIOUS
  <2>1. n - 1 \in Nat /\ p <= n - 1 /\ n - 1 < b
    BY <1>1, <1>2
  <2> QED
    BY <1>1, <1>2, <1>3, <1>4, <2>1
<1>6. c \in Nat /\ c > 0 /\ c <= n /\ s[c] \in Hexadecimal /\ s[c - 1] = ":"
  <2>1. c \in Nat /\ c > 0 /\ c <= n /\ b < n /\ c - 1 = b
    BY <1>1, <1>2, <1>5
  <2>2. s[c] # ":"
    BY <2>1
  <2> HIDE DEF c, n
  <2> QED
    BY <1>1, <1>3, <2>1, <2>2
<1>7. \A i \in Nat : b <= i /\ i < c => i = b
  BY <1>1
<1> HIDE DEF c
<1>8. Entry(s, c)
  BY <1>6 DEF Entry
<1>9. /\ Ahead(Starts(s), c) \in Nat
      /\ Ahead(Starts(s), p) = 1 + Ahead(Starts(s), c)
  <2>1. \A i \in Nat : b <= i /\ i < c => s[i] \notin Hexadecimal
    BY <1>1, <1>4, <1>7
  <2>2. 1 <= p /\ p <= b /\ b <= c /\ c <= Len(s) + 1
    BY <1>1, <1>2, <1>6 DEF c
  <2>3. p = 1 \/ s[p - 1] \notin Hexadecimal
    BY <1>2, <1>4
  <2>4. /\ p \in Nat /\ b \in Nat /\ c \in Nat /\ p < b
        /\ \A i \in Nat : p <= i /\ i < b => s[i] \in Hexadecimal
    BY <1>1, <1>2, <1>6
  <2> HIDE DEF n
  <2>5. /\ Ahead(Starts(s), p) \in Nat /\ Ahead(Starts(s), c) \in Nat
        /\ Ahead(Starts(s), p) <= 1 + Ahead(Starts(s), c)
        /\ p = b => Ahead(Starts(s), p) = Ahead(Starts(s), c)
        /\ p < b /\ (p = 1 \/ s[p - 1] \notin Hexadecimal) =>
              Ahead(Starts(s), p) = 1 + Ahead(Starts(s), c)
    BY ONLY <2>1, <2>2, <2>4, GroupBetween, s \in Seq(Symbols)
  <2> QED
    BY <2>3, <2>4, <2>5
<1>10. Ahead(Doubles(s), p) = Ahead(Doubles(s), c)
  <2>1. /\ Doubles(s) \subseteq Nat
        /\ \A i \in Nat : i \in Doubles(s) =>
             i > 0 /\ i + 1 <= Len(s) /\ s[i] = ":" /\ s[i + 1] = ":"
    BY DoubleOf
  <2>2. \A i \in Doubles(s) : ~(p <= i /\ i < c)
    <3> SUFFICES ASSUME NEW i \in Doubles(s), p <= i, i < c PROVE FALSE
      OBVIOUS
    <3>1. i \in Nat /\ i + 1 <= n /\ s[i] = ":" /\ s[i + 1] = ":"
      BY <2>1
    <3>2. i = b
      <4>1. i < b \/ b <= i
        BY <1>1, <3>1
      <4>2. ~(i < b)
        BY <1>1, <1>4, <3>1
      <4> QED
        BY <1>7, <3>1, <4>1, <4>2
    <3>3. b < n
      BY <1>1, <1>2, <1>5
    <3> QED
      BY <3>1, <3>2, <3>3
  <2>3. p <= c
    BY <1>1, <1>2 DEF c
  <2> QED
    BY <1>2, <1>6, <2>1, <2>2, <2>3, NothingBetween
<1> QED
  BY <1>5, <1>8, <1>9, <1>10 DEF c

LEMMA GroupBehindDouble ==
  ASSUME NEW s \in Seq(Symbols), Clean(s), NEW p, Entry(s, p), NEW b, b = Colon(s, p),
         b # 0, b < Len(s), s[b + 1] = ":"
  PROVE  /\ Ahead(Doubles(s), p) = 1 + Ahead(Doubles(s), b + 2)
         /\ Ahead(Starts(s), p) = 1 + Ahead(Starts(s), b + 2)
         /\ Ahead(Doubles(s), b + 2) \in Nat /\ Ahead(Starts(s), b + 2) \in Nat
         /\ b + 1 # Len(s) => Entry(s, b + 2)
<1> DEFINE n == Len(s)
           c == b + 2
<1>1. /\ b \in Nat /\ p < b /\ s[b] = ":"
      /\ \A i \in Nat : p <= i /\ i < b => s[i] \in Hexadecimal
  BY GroupAndColon
<1>2. n \in Nat /\ p \in Nat /\ p > 0 /\ s[p] \in Hexadecimal /\ (p = 1 \/ s[p - 1] = ":")
  BY DEF Entry
<1>3. /\ \A i \in Nat : i > 0 /\ i <= n => s[i] \in Hexadecimal \cup {":"}
      /\ \A i \in Nat : i > 0 /\ i + 2 <= n =>
           ~(s[i] = ":" /\ s[i + 1] = ":" /\ s[i + 2] = ":")
  BY DEF Clean
<1>4. ":" \notin Hexadecimal
  BY DEF Hexadecimal
<1>5. /\ c \in Nat /\ c > 0 /\ c <= n + 1 /\ c - 1 = b + 1 /\ p <= c /\ b <= c
      /\ \A i \in Nat : b <= i /\ i < c => i = b \/ i = b + 1
      /\ b > 0 /\ b + 1 <= n /\ b + 1 \in Nat
  BY <1>1, <1>2
<1>6. c <= n => s[c] # ":"
  BY <1>1, <1>3, <1>5
<1> HIDE DEF c
<1>7. b + 1 # n => Entry(s, c)
  <2> HIDE DEF n
  <2> SUFFICES ASSUME b + 1 # n PROVE Entry(s, c)
    OBVIOUS
  <2>1. c <= n
    BY <1>1, <1>2, <1>5
  <2>2. s[c] \in Hexadecimal
    BY <1>3, <1>5, <1>6, <2>1
  <2>3. s[c - 1] = ":"
    BY <1>5
  <2> QED
    BY <1>5, <2>1, <2>2, <2>3 DEF Entry, n
<1>8. /\ Ahead(Starts(s), c) \in Nat
      /\ Ahead(Starts(s), p) = 1 + Ahead(Starts(s), c)
  <2>1. \A i \in Nat : b <= i /\ i < c => s[i] \notin Hexadecimal
    BY <1>1, <1>4, <1>5
  <2>2. 1 <= p /\ p <= b /\ b <= c /\ c <= Len(s) + 1
    BY <1>1, <1>2, <1>5
  <2>3. p = 1 \/ s[p - 1] \notin Hexadecimal
    BY <1>2, <1>4
  <2>4. /\ p \in Nat /\ b \in Nat /\ c \in Nat /\ p < b
        /\ \A i \in Nat : p <= i /\ i < b => s[i] \in Hexadecimal
    BY <1>1, <1>2, <1>5
  <2> HIDE DEF n
  <2>5. /\ Ahead(Starts(s), p) \in Nat /\ Ahead(Starts(s), c) \in Nat
        /\ Ahead(Starts(s), p) <= 1 + Ahead(Starts(s), c)
        /\ p = b => Ahead(Starts(s), p) = Ahead(Starts(s), c)
        /\ p < b /\ (p = 1 \/ s[p - 1] \notin Hexadecimal) =>
              Ahead(Starts(s), p) = 1 + Ahead(Starts(s), c)
    BY ONLY <2>1, <2>2, <2>4, GroupBetween, s \in Seq(Symbols)
  <2> QED
    BY <2>3, <2>4, <2>5
<1>9. /\ Ahead(Doubles(s), c) \in Nat
      /\ Ahead(Doubles(s), p) = 1 + Ahead(Doubles(s), c)
  <2> DEFINE D == Doubles(s)
             b1 == b + 1
  <2>1. /\ D \subseteq Nat /\ IsFiniteSet(D)
        /\ \A i \in Nat : i \in D <=>
             i > 0 /\ i + 1 <= n /\ s[i] = ":" /\ s[i + 1] = ":"
    BY DoubleOf
  <2>2. b \in D
    BY <1>1, <1>5, <2>1
  <2>3. b1 \notin D
    <3>1. b1 \in D => c <= n /\ s[c] = ":"
      <4>1. b1 + 1 = c
        BY <1>1 DEF c
      <4> HIDE DEF n, D, b1
      <4> QED
        BY <1>5, <2>1, <4>1 DEF b1
    <3> QED
      BY <1>6, <3>1
  <2>4. \A i \in D : ~(p <= i /\ i < b)
    BY <1>1, <1>4, <2>1
  <2> HIDE DEF D, n
  <2>5. Ahead(D, p) = Ahead(D, b)
    <3>1. p <= b
      BY <1>1, <1>2
    <3> QED
      BY <1>1, <1>2, <2>1, <2>4, <3>1, NothingBetween
  <2>6. Ahead(D, b) = 1 + Ahead(D, b1)
    BY <1>1, <2>1, <2>2, AheadCounts
  <2>7. b1 \in Nat /\ b1 + 1 = c
    BY <1>1 DEF c
  <2> HIDE DEF b1
  <2>8. Ahead(D, b1) = Ahead(D, b1 + 1)
    BY <2>1, <2>3, <2>7, AheadCounts
  <2>9. Ahead(D, c) \in Nat
    BY <1>5, <2>1, AheadCounts
  <2> QED
    BY <2>5, <2>6, <2>7, <2>8, <2>9 DEF D
<1> QED
  BY <1>7, <1>8, <1>9 DEF c

(* What is left of a name with few enough groups is short, and is taken.     *)
FewLeft(s, at) ==
  /\ at[3] + Ahead(Doubles(s), at[1]) <= 1
  /\ Ahead(Starts(s), at[1]) + at[2] + 2 * at[3] + Ahead(Doubles(s), at[1]) <= 8

ShortLeft(s, p) ==
  Len(s) + 2 <= p + 5 * Ahead(Starts(s), p) + 2 * Ahead(Doubles(s), p)

LEMMA FewAreTaken ==
  ASSUME NEW s \in Seq(Symbols), Clean(s)
  PROVE  \A at \in Scans :
           Entry(s, at[1]) => ShortLeft(s, at[1]) /\ (FewLeft(s, at) => Scan(s)[at])
<1> DEFINE Taken(at) == ShortLeft(s, at[1]) /\ (FewLeft(s, at) => Scan(s)[at])
           X == {at \in Scans : Entry(s, at[1]) => Taken(at)}
<1>1. ASSUME NEW at \in Scans,
             Colon(s, at[1]) # 0 => OnDouble(s, at) \in X /\ OnSingle(s, at) \in X,
             Entry(s, at[1])
      PROVE  Taken(at)
  <2> DEFINE a == at[1]
             c == at[2]
             d == at[3]
             n == Len(s)
             p == Colon(s, a)
             G(i) == Ahead(Starts(s), i)
             E(i) == Ahead(Doubles(s), i)
  <2>1. a \in Nat /\ c \in Nat /\ d \in Nat /\ n \in Nat
    BY DEF Scans
  <2>2. Scan(s)[at] = ScanStep(s, Scan(s), at)
    BY <1>1, ScanUnfolds
  <2>3. E(a) \in Nat
    BY <2>1, DoubleOf, AheadCounts
  <2>4. FewLeft(s, at) <=> d + E(a) <= 1 /\ G(a) + c + 2 * d + E(a) <= 8
    BY DEF FewLeft
  <2>5. ShortLeft(s, a) <=> n + 2 <= a + 5 * G(a) + 2 * E(a)
    BY DEF ShortLeft
  <2>6. CASE p = 0
    <3>1. n < a + 4 /\ Group(s, a, n) /\ G(a) \in Nat /\ G(a) >= 1
      BY <1>1, <2>6, LastGroup
    <3>2. ScanStep(s, Scan(s), at) = (RoomForColons(c, d) /\ Group(s, a, n))
      BY <2>6 DEF ScanStep
    <3>3. RoomForColons(c, d) <=> (d = 0 /\ c <= 7) \/ (d = 1 /\ c <= 5)
      BY <2>1, RoomIs
    <3> HIDE DEF a, c, d, n, p, G, E
    <3>4. ShortLeft(s, a)
      BY <2>1, <2>3, <2>5, <3>1
    <3>5. FewLeft(s, at) => RoomForColons(c, d)
      BY <2>1, <2>3, <2>4, <3>1, <3>3
    <3> QED
      BY <2>2, <3>1, <3>2, <3>4, <3>5 DEF a
  <2>7. CASE p # 0 /\ ~(p < n /\ s[p + 1] = ":")
    <3> DEFINE e == p + 1
    <3>1. /\ p # n /\ Entry(s, e) /\ G(e) \in Nat /\ G(a) = 1 + G(e) /\ E(a) = E(e)
      <4> HIDE DEF p, a
      <4> QED
        BY <1>1, <2>7, NextGroup DEF p, a
    <3>2. p \in Nat /\ p <= a + 4 /\ Group(s, a, p - 1)
      BY <1>1, <2>7, GroupAndColon
    <3>3. OnSingle(s, at) = <<e, c + 1, d>> /\ OnSingle(s, at) \in X
      BY <1>1, <2>7 DEF OnSingle
    <3>4. ScanStep(s, Scan(s), at) = Scan(s)[<<e, c + 1, d>>]
      <4>1. ScanStep(s, Scan(s), at) =
              ((p > a => Group(s, a, p - 1)) /\ (p # n /\ Scan(s)[<<e, c + 1, d>>]))
        BY <2>7 DEF ScanStep
      <4>2. Scan(s)[<<e, c + 1, d>>] \in BOOLEAN
        <5>1. <<e, c + 1, d>> \in Scans
          BY <3>3
        <5>2. Scan(s)[<<e, c + 1, d>>] = ScanStep(s, Scan(s), <<e, c + 1, d>>)
          BY <5>1, ScanUnfolds
        <5>3. ScanStep(s, Scan(s), <<e, c + 1, d>>) \in BOOLEAN
          BY DEF ScanStep
        <5> QED
          BY <5>2, <5>3
      <4> QED
        BY <3>1, <3>2, <4>1, <4>2
    <3>5. Taken(<<e, c + 1, d>>)
      BY <3>1, <3>3
    <3>6. ShortLeft(s, e) /\ (FewLeft(s, <<e, c + 1, d>>) => Scan(s)[<<e, c + 1, d>>])
      <4> HIDE DEF e
      <4> QED
        BY <3>5
    <3>7. FewLeft(s, <<e, c + 1, d>>) <=> d + E(e) <= 1 /\ G(e) + (c + 1) + 2 * d + E(e) <= 8
      <4> HIDE DEF e
      <4> QED
        BY DEF FewLeft
    <3>8. ShortLeft(s, e) <=> n + 2 <= e + 5 * G(e) + 2 * E(e)
      BY DEF ShortLeft
    <3>9. e <= a + 5 /\ e \in Nat
      <4> HIDE DEF p
      <4> QED
        BY <2>1, <3>2
    <3> HIDE DEF e, a, c, d, n, p, G, E
    <3>10. ShortLeft(s, a)
      <4> DEFINE g == G(e)
                 k == E(e)
      <4>1. g \in Nat /\ k \in Nat /\ G(a) = 1 + g /\ E(a) = k /\ n + 2 <= e + 5 * g + 2 * k
        BY <2>3, <3>1, <3>6, <3>8
      <4> HIDE DEF g, k
      <4>2. n + 2 <= a + 5 * (1 + g) + 2 * k
        BY <2>1, <3>9, <4>1
      <4> QED
        BY <2>5, <4>1, <4>2
    <3>11. FewLeft(s, at) => FewLeft(s, <<e, c + 1, d>>)
      BY <2>1, <2>3, <2>4, <3>1, <3>7
    <3> QED
      BY <2>2, <3>4, <3>6, <3>10, <3>11 DEF a
  <2>8. CASE p # 0 /\ p < n /\ s[p + 1] = ":"
    <3> DEFINE e == p + 2
    <3>1. /\ G(e) \in Nat /\ E(e) \in Nat /\ G(a) = 1 + G(e) /\ E(a) = 1 + E(e)
          /\ p + 1 # n => Entry(s, e)
      <4> HIDE DEF p, a
      <4> QED
        BY <1>1, <2>8, GroupBehindDouble DEF p, a
    <3>2. p \in Nat /\ p <= a + 4 /\ Group(s, a, p - 1)
      BY <1>1, <2>8, GroupAndColon
    <3>3. OnDouble(s, at) = <<e, c, d + 1>> /\ OnDouble(s, at) \in X
      BY <1>1, <2>8 DEF OnDouble
    <3>4. ScanStep(s, Scan(s), at) = (p + 1 = n \/ Scan(s)[<<e, c, d + 1>>])
      <4>1. ScanStep(s, Scan(s), at) =
              ((p > a => Group(s, a, p - 1)) /\ (p + 1 = n \/ Scan(s)[<<e, c, d + 1>>]))
        BY <2>8 DEF ScanStep
      <4> QED
        BY <3>2, <4>1
    <3>5. e <= a + 6 /\ e \in Nat
      <4> HIDE DEF p
      <4> QED
        BY <2>1, <3>2
    <3>6. CASE p + 1 = n
      <4> HIDE DEF e, a, c, d, n, p, G, E
      <4>1. ShortLeft(s, a)
        BY <2>1, <2>3, <2>5, <3>1, <3>2, <3>6
      <4> QED
        BY <2>2, <3>4, <3>6, <4>1 DEF a
    <3>7. CASE p + 1 # n
      <4>1. Taken(<<e, c, d + 1>>)
        BY <3>1, <3>3, <3>7
      <4>2. ShortLeft(s, e) /\ (FewLeft(s, <<e, c, d + 1>>) => Scan(s)[<<e, c, d + 1>>])
        <5> HIDE DEF e
        <5> QED
          BY <4>1
      <4>3. FewLeft(s, <<e, c, d + 1>>) <=>
              d + 1 + E(e) <= 1 /\ G(e) + c + 2 * (d + 1) + E(e) <= 8
        <5> HIDE DEF e
        <5> QED
          BY DEF FewLeft
      <4>4. ShortLeft(s, e) <=> n + 2 <= e + 5 * G(e) + 2 * E(e)
        BY DEF ShortLeft
      <4> HIDE DEF e, a, c, d, n, p, G, E
      <4> DEFINE g == G(e)
                 k == E(e)
      <4>5. /\ g \in Nat /\ k \in Nat /\ G(a) = 1 + g /\ E(a) = 1 + k
            /\ n + 2 <= e + 5 * g + 2 * k
            /\ FewLeft(s, <<e, c, d + 1>>) <=>
                 d + 1 + k <= 1 /\ g + c + 2 * (d + 1) + k <= 8
        BY <3>1, <4>2, <4>3, <4>4
      <4> HIDE DEF g, k
      <4>6. n + 2 <= a + 5 * (1 + g) + 2 * (1 + k)
        BY <2>1, <3>5, <4>5
      <4>7. ShortLeft(s, a)
        BY <2>5, <4>5, <4>6
      <4>8. d + (1 + k) <= 1 /\ (1 + g) + c + 2 * d + (1 + k) <= 8 =>
              d + 1 + k <= 1 /\ g + c + 2 * (d + 1) + k <= 8
        BY <2>1, <4>5
      <4>9. FewLeft(s, at) => FewLeft(s, <<e, c, d + 1>>)
        BY <2>4, <4>5, <4>8
      <4> QED
        BY <2>2, <3>4, <4>2, <4>7, <4>9 DEF a
    <3> QED
      BY <3>6, <3>7
  <2> QED
    BY <2>6, <2>7, <2>8
<1> HIDE DEF Taken
<1>2. \A at \in Scans :
        (Colon(s, at[1]) # 0 => OnDouble(s, at) \in X /\ OnSingle(s, at) \in X)
          => at \in X
  BY <1>1
<1> HIDE DEF X
<1>3. \A at \in Scans : at \in X
  BY <1>2, ScanInduction
<1> QED
  BY <1>3 DEF X, Taken

LEMMA NotationIsClean ==
  ASSUME NEW s \in Seq(Symbols), GroupNotation(s)
  PROVE  Clean(s)
<1> DEFINE n == Len(s)
           D == Doubles(s)
<1>1. n \in Nat /\ DOMAIN s = 1 .. n
  OBVIOUS
<1>2. \A i \in Nat : i > 0 /\ i <= n => s[i] \in Hexadecimal \cup {":"}
  <2>1. \A i \in DOMAIN s : s[i] \in Hexadecimal \cup {":"}
    BY DEF GroupNotation, HexGroups
  <2> HIDE DEF n
  <2> QED
    BY <1>1, <2>1
<1>3. ASSUME NEW i \in Nat, i > 0, i + 4 <= n
      PROVE  \E j \in Nat : i <= j /\ j <= i + 4 /\ s[j] \notin Hexadecimal
  <2>1. i \notin InRow(s, Hexadecimal, 5)
    BY DEF GroupNotation, HexGroups
  <2>2. i \in InRow(s, Hexadecimal, 5) <=>
          i > 0 /\ i + 5 <= Len(s) + 1 /\ \A j \in i .. i + 5 - 1 : s[j] \in Hexadecimal
    BY RowOf
  <2>3. i + 5 <= Len(s) + 1
    BY <1>1, <1>3
  <2>4. PICK j \in i .. i + 5 - 1 : s[j] \notin Hexadecimal
    BY <1>3, <2>1, <2>2, <2>3
  <2>5. j \in Nat /\ i <= j /\ j <= i + 4
    OBVIOUS
  <2> QED
    BY <2>4, <2>5
<1>4. ASSUME NEW i \in Nat, i > 0, i + 2 <= n
      PROVE  ~(s[i] = ":" /\ s[i + 1] = ":" /\ s[i + 2] = ":")
  <2>1. i \notin InRow(s, {":"}, 3)
    BY DEF GroupNotation
  <2>2. i \in InRow(s, {":"}, 3) <=>
          i > 0 /\ i + 3 <= Len(s) + 1 /\ \A j \in i .. i + 3 - 1 : s[j] \in {":"}
    BY RowOf
  <2>3. i + 3 <= Len(s) + 1
    BY <1>1, <1>4
  <2>4. PICK j \in i .. i + 3 - 1 : s[j] # ":"
    BY <1>4, <2>1, <2>2, <2>3
  <2>5. j = i \/ j = i + 1 \/ j = i + 2
    OBVIOUS
  <2> QED
    BY <2>4, <2>5
<1>5. n > 0 /\ s[n] = ":" => n > 1 /\ s[n - 1] = ":"
  <2> SUFFICES ASSUME n > 0, s[n] = ":" PROVE n > 1 /\ s[n - 1] = ":"
    OBVIOUS
  <2>1. n - 1 \in D
    BY DEF GroupNotation
  <2>2. D \subseteq Nat /\ \A i \in Nat : i \in D => i > 0 /\ s[i] = ":"
    BY DoubleOf
  <2> HIDE DEF D, n
  <2>3. n - 1 > 0
    BY <1>1, <2>1, <2>2
  <2> QED
    BY <1>1, <2>1, <2>2, <2>3
<1> QED
  BY <1>2, <1>3, <1>4, <1>5 DEF Clean

LEMMA NotationIsTaken ==
  ASSUME NEW s \in Seq(Symbols), GroupNotation(s), ~(Groups(s) = 7 /\ 1 \in Doubles(s))
  PROVE  IsIPv6Address(s)
<1> DEFINE n == Len(s)
           D == Doubles(s)
           G(i) == Ahead(Starts(s), i)
           E(i) == Ahead(D, i)
<1>1. Clean(s)
  BY NotationIsClean
<1>2. n \in Nat /\ n > 0
  BY DEF GroupNotation
<1>3. /\ D \subseteq Nat /\ IsFiniteSet(D)
      /\ \A i \in Nat : i \in D <=>
           i > 0 /\ i + 1 <= n /\ s[i] = ":" /\ s[i + 1] = ":"
      /\ Cardinality(D) = E(1)
  BY DoubleOf
<1>4. /\ Starts(s) \subseteq Nat /\ IsFiniteSet(Starts(s)) /\ Groups(s) = G(1)
  BY StartOf
<1>5. (E(1) = 0 /\ G(1) = 8) \/ (E(1) = 1 /\ G(1) <= 7)
  <2>1. (D = {} /\ Groups(s) = 8) \/ (Cardinality(D) = 1 /\ Groups(s) <= 7)
    BY DEF GroupNotation
  <2>2. D = {} => Cardinality(D) = 0
    BY FS_EmptySet
  <2> QED
    BY <1>3, <1>4, <2>1, <2>2
<1>6. G(1) \in Nat
  BY <1>4, AheadCounts
<1>7. s[1] \in Hexadecimal \cup {":"}
  BY <1>1, <1>2 DEF Clean
<1>8. CASE s[1] \in Hexadecimal
  <2>1. Entry(s, 1) /\ <<1, 0, 0>> \in Scans
    BY <1>2, <1>8 DEF Entry, Scans
  <2>2. ShortLeft(s, 1) /\ (FewLeft(s, <<1, 0, 0>>) => Scan(s)[<<1, 0, 0>>])
    BY <1>1, <2>1, FewAreTaken
  <2>3. n + 2 <= 1 + 5 * G(1) + 2 * E(1)
    BY <2>2 DEF ShortLeft
  <2>4. FewLeft(s, <<1, 0, 0>>) <=> 0 + E(1) <= 1 /\ G(1) + 0 + 2 * 0 + E(1) <= 8
    BY DEF FewLeft
  <2> HIDE DEF n, D, G, E
  <2>5. n <= 39 /\ FewLeft(s, <<1, 0, 0>>)
    BY <1>2, <1>5, <1>6, <2>3, <2>4
  <2> QED
    BY <2>2, <2>5, IPv6Scans DEF n
<1>9. CASE s[1] = ":"
  <2>1. 1 \in D
    BY <1>9 DEF GroupNotation
  <2>2. n >= 2 /\ s[2] = ":"
    <3>1. 1 + 1 <= n /\ s[1 + 1] = ":"
      BY <1>3, <2>1
    <3> QED
      BY <1>2, <3>1
  <2>3. Colon(s, 1) = 1
    <3> DEFINE p == Colon(s, 1)
    <3>1. \/ /\ p = 0
             /\ \A i \in Nat : 1 <= i /\ i <= Len(s) => s[i] # ":"
          \/ /\ p \in Nat /\ 1 <= p
             /\ \A i \in Nat : 1 <= i /\ i < p => s[i] # ":"
      BY ColonIs
    <3> HIDE DEF p
    <3> QED
      BY <1>2, <1>9, <3>1 DEF p
  <2>4. Scan(s)[<<1, 0, 0>>] = (2 = n \/ Scan(s)[<<3, 0, 1>>])
    <3>1. <<1, 0, 0>> \in Scans
      BY DEF Scans
    <3>2. Scan(s)[<<1, 0, 0>>] = ScanStep(s, Scan(s), <<1, 0, 0>>)
      BY <3>1, ScanUnfolds
    <3> DEFINE at == <<1, 0, 0>>
               b == Colon(s, at[1])
    <3>3. b = 1 /\ b = at[1]
      BY <2>3
    <3>4. b < n /\ s[b + 1] = ":"
      <4>1. 1 < n /\ s[1 + 1] = ":"
        <5> HIDE DEF n
        <5> QED
          BY <1>2, <2>2
      <4> HIDE DEF b, n
      <4> QED
        BY <3>3, <4>1
    <3>5. ScanStep(s, Scan(s), at) =
            ((b > at[1] => Group(s, at[1], b - 1))
               /\ (b + 1 = n \/ Scan(s)[<<b + 2, at[2], at[3] + 1>>]))
      <4>1. b # 0
        BY <3>3
      <4> HIDE DEF at
      <4> QED
        BY <3>4, <4>1 DEF ScanStep
    <3>6. at[1] = 1 /\ at[2] = 0 /\ at[3] = 0 /\ ~(b > at[1])
      BY <3>3
    <3>7. <<b + 2, at[2], at[3] + 1>> = <<3, 0, 1>> /\ b + 1 = 2
      BY <3>3, <3>6
    <3> HIDE DEF at, b, n
    <3>8. ScanStep(s, Scan(s), at) = (2 = n \/ Scan(s)[<<3, 0, 1>>])
      BY <3>5, <3>6, <3>7
    <3> QED
      BY <3>2, <3>8 DEF at
  <2>5. CASE n = 2
    <3>1. n <= 39
      <4> HIDE DEF n
      <4> QED
        BY <2>5
    <3> HIDE DEF n
    <3>2. Scan(s)[<<1, 0, 0>>]
      BY <2>4, <2>5
    <3> QED
      BY <3>1, <3>2, IPv6Scans DEF n
  <2>6. CASE n # 2
    <3>1. n >= 3 /\ s[3] \in Hexadecimal
      <4>1. n >= 3
        <5> HIDE DEF n
        <5> QED
          BY <1>2, <2>2, <2>6
      <4>2. s[3] \in Hexadecimal \cup {":"}
        BY <1>1, <4>1 DEF Clean
      <4>3. ~(s[1] = ":" /\ s[1 + 1] = ":" /\ s[1 + 2] = ":")
        BY <1>1, <4>1 DEF Clean
      <4> QED
        BY <1>9, <2>2, <4>1, <4>2, <4>3
    <3>2. Entry(s, 3) /\ <<3, 0, 1>> \in Scans
      BY <2>2, <3>1 DEF Entry, Scans
    <3>3. ShortLeft(s, 3) /\ (FewLeft(s, <<3, 0, 1>>) => Scan(s)[<<3, 0, 1>>])
      BY <1>1, <3>2, FewAreTaken
    <3>4. n + 2 <= 3 + 5 * G(3) + 2 * E(3)
      BY <3>3 DEF ShortLeft
    <3>5. FewLeft(s, <<3, 0, 1>>) <=> 1 + E(3) <= 1 /\ G(3) + 0 + 2 * 1 + E(3) <= 8
      BY DEF FewLeft
    <3>6. G(3) = G(1)
      <4>1. \A i \in Nat : i \in Starts(s) => i > 0 /\ s[i] \in Hexadecimal
        BY StartOf
      <4>2. \A i \in Starts(s) : ~(1 <= i /\ i < 3)
        <5> SUFFICES ASSUME NEW i \in Starts(s), 1 <= i, i < 3 PROVE FALSE
          OBVIOUS
        <5>1. i \in Nat /\ s[i] \in Hexadecimal
          BY <1>4, <4>1
        <5>2. i = 1 \/ i = 2
          BY <5>1
        <5> QED
          BY <1>9, <2>2, <5>1, <5>2 DEF Hexadecimal
      <4> QED
        BY <1>4, <4>2, NothingBetween
    <3>7. E(1) = 1 + E(3) /\ E(3) \in Nat
      <4>1. 2 \notin D
        <5>1. s[2 + 1] # ":"
          BY <3>1 DEF Hexadecimal
        <5> HIDE DEF D
        <5> QED
          BY <1>3, <5>1
      <4> HIDE DEF D
      <4>2. Ahead(D, 1) = 1 + Ahead(D, 1 + 1)
        BY <1>3, <2>1, AheadCounts
      <4>3. Ahead(D, 2) = Ahead(D, 2 + 1)
        BY <1>3, <4>1, AheadCounts
      <4>4. Ahead(D, 3) \in Nat
        BY <1>3, AheadCounts
      <4> QED
        BY <4>2, <4>3, <4>4
    <3>8. G(1) # 7
      BY <1>4, <2>1
    <3> HIDE DEF n, D, G, E
    <3>9. n <= 39 /\ FewLeft(s, <<3, 0, 1>>)
      BY <1>2, <1>5, <1>6, <3>4, <3>5, <3>6, <3>7, <3>8
    <3> QED
      BY <2>4, <3>3, <3>9, IPv6Scans DEF n
  <2> QED
    BY <2>5, <2>6
<1> QED
  BY <1>7, <1>8, <1>9

LEMMA TakenIsGroups ==
  ASSUME NEW s \in Seq(Symbols), IsIPv6Address(s)
  PROVE  HexGroups(s) /\ (Groups(s) <= 8 \/ Len(s) - 1 \in Doubles(s))
<1> DEFINE n == Len(s)
           G(i) == Ahead(Starts(s), i)
<1>1. n \in Nat /\ DOMAIN s = 1 .. n
  OBVIOUS
<1>2. Starts(s) \subseteq Nat /\ IsFiniteSet(Starts(s)) /\ Groups(s) = G(1)
  BY StartOf
<1>3. G(1) \in Nat
  BY <1>2, AheadCounts
<1>4. CASE s = <<>>
  <2>1. n = 0
    BY <1>4
  <2>2. InRow(s, Hexadecimal, 5) = {}
    <3> SUFFICES ASSUME NEW i \in InRow(s, Hexadecimal, 5) PROVE FALSE
      OBVIOUS
    <3>1. i \in Nat /\ i > 0 /\ i + 5 <= Len(s) + 1
      BY RowOf
    <3> QED
      BY <2>1, <3>1
  <2>3. G(1) = 0
    <3>1. \A i \in Nat : i \in Starts(s) => i > 0 /\ i <= Len(s)
      BY StartOf
    <3>2. \A i \in Starts(s) : i < 1
      BY <1>2, <2>1, <3>1
    <3> QED
      BY <1>2, <3>2, NothingAhead
  <2>4. \A i \in DOMAIN s : FALSE
    BY <1>1, <2>1
  <2> QED
    BY <1>2, <2>2, <2>3, <2>4 DEF HexGroups
<1>5. CASE s # <<>>
  <2>1. SeenTo(s, <<1, 0, 0>>)
    <3>1. Scan(s)[<<1, 0, 0>>]
      BY <1>5, IPv6Scans
    <3>2. <<1, 0, 0>> \in Scans
      BY DEF Scans
    <3> QED
      BY <3>1, <3>2, AcceptedIsSeenTo
  <2>2. /\ \A i \in Nat : 1 <= i /\ i <= n => s[i] \in Hexadecimal \cup {":"}
        /\ \A i \in Nat : 1 <= i /\ i + 4 <= n =>
             \E j \in Nat : i <= j /\ j <= i + 4 /\ s[j] \notin Hexadecimal
        /\ n - 1 \in Doubles(s) \/ G(1) + 0 + 0 <= 8
    BY <2>1 DEF SeenTo
  <2>3. InRow(s, Hexadecimal, 5) = {}
    <3> SUFFICES ASSUME NEW i \in InRow(s, Hexadecimal, 5) PROVE FALSE
      OBVIOUS
    <3>1. /\ i \in Nat /\ i > 0 /\ i + 5 <= Len(s) + 1
          /\ \A j \in i .. i + 5 - 1 : s[j] \in Hexadecimal
      BY RowOf
    <3>2. 1 <= i /\ i + 4 <= n
      BY <1>1, <3>1
    <3>3. PICK j \in Nat : i <= j /\ j <= i + 4 /\ s[j] \notin Hexadecimal
      BY <2>2, <3>1, <3>2
    <3>4. j \in i .. i + 5 - 1
      BY <3>1, <3>3
    <3> QED
      BY <3>1, <3>3, <3>4
  <2>4. \A i \in DOMAIN s : s[i] \in Hexadecimal \cup {":"}
    <3> HIDE DEF n
    <3> QED
      BY <1>1, <2>2
  <2> HIDE DEF n, G
  <2>5. n - 1 \in Doubles(s) \/ G(1) <= 8
    BY <1>3, <2>2
  <2> QED
    BY <1>2, <2>3, <2>4, <2>5 DEF HexGroups, n
<1> QED
  BY <1>4, <1>5

(* The dot of an IPv4 address at the end is in no group.                     *)
LEMMA DotIsInNoGroup ==
  ASSUME NEW s \in Seq(Symbols), EndsInIPv4(s)
  PROVE  ~HexGroups(s)
<1>1. PICK k \in DOMAIN s : FourFields(SubSeq(s, k + 1, Len(s)), 1)
  BY DEF EndsInIPv4
<1> DEFINE t == SubSeq(s, k + 1, Len(s))
<1>2. /\ Len(t) = Len(s) - k /\ Len(t) \in Nat /\ k \in 1 .. Len(s)
      /\ \A i \in 1 .. Len(t) : t[i] = s[k + i]
  OBVIOUS
<1>3. Cardinality(InRow(t, {"."}, 1)) = 3
  BY <1>1 DEF FourFields
<1> HIDE DEF t
<1>4. PICK i \in 1 .. Len(t) - 1 + 1 : \A j \in i .. i + 1 - 1 : t[j] \in {"."}
  <2>1. InRow(t, {"."}, 1) # {}
    <3>1. Cardinality({}) = 0
      BY FS_EmptySet
    <3> SUFFICES ASSUME InRow(t, {"."}, 1) = {} PROVE FALSE
      OBVIOUS
    <3>2. Cardinality(InRow(t, {"."}, 1)) = 0
      BY <3>1
    <3> QED
      BY <1>3, <3>2
  <2> QED
    BY <2>1 DEF InRow
<1>5. k + i \in DOMAIN s /\ s[k + i] = "."
  <2>1. i \in 1 .. Len(t) /\ i \in i .. i + 1 - 1 /\ k + i \in 1 .. Len(s)
    BY <1>2
  <2>2. t[i] = "."
    BY <1>4, <2>1
  <2> QED
    BY <1>2, <2>1, <2>2
<1>6. "." \notin Hexadecimal \cup {":"}
  BY DEF Hexadecimal
<1> QED
  BY <1>5, <1>6 DEF HexGroups

(* For names of any length: of the notations of RFC 4291 isIPv6Address       *)
(* refuses those that end in an IPv4 address and, of the others, at most     *)
(* those that leave out one group at the start; and it takes nothing but     *)
(* groups of hexadecimal digits, no more than eight of them unless a double  *)
(* colon ends the name.                                                      *)
THEOREM IPv6IsRecognised == Spec => []IPv6Agrees
<1>1. TypeOK => IPv6Agrees
  <2> SUFFICES ASSUME TypeOK PROVE IPv6Agrees
    OBVIOUS
  <2>1. Name \in Seq(Symbols)
    BY DEF TypeOK, Name
  <2>2. IsRFC4291(Name) => IsIPv6Address(Name) \/ EndsInIPv4(Name) \/ FirstLeftOut(Name)
    BY <2>1, NotationIsTaken DEF IsRFC4291, FirstLeftOut
  <2>3. IsIPv6Address(Name) => /\ HexGroups(Name)
                               /\ Groups(Name) <= 8 \/ Len(Name) - 1 \in Doubles(Name)
    BY <2>1, TakenIsGroups
  <2>4. HexGroups(Name) => ~EndsInIPv4(Name)
    BY <2>1, DotIsInNoGroup
  <2> QED
    BY <2>2, <2>3, <2>4 DEF IPv6Agrees
<1> QED
  BY <1>1, SetupTypeOK, PTL
=============================================================================
