---------------------------- MODULE MCClientSetup ----------------------------
(* Small instances of ClientSetup: ports up to 3 in unsigned ints of four    *)
(* bits, command lines of every kind of argument, and many names.            *)
EXTENDS ClientSetup

Arg(o, n, host, segments) ==
  [opt |-> o, number |-> n, host |-> host, path |-> segments]
NoValue(o) == Arg(o, 0, <<>>, <<>>)
HostArg(o, host) == Arg(o, 0, host, <<>>)

Field(n, symbol) == [i \in 1 .. n |-> symbol]

Join(fields, separator) ==
  FlattenSeq([i \in DOMAIN fields |->
                IF i = Len(fields) THEN fields[i] ELSE fields[i] \o separator])

(* Four dotted fields of up to four digits, and five fields.                 *)
Dotted ==
  {Join([i \in 1 .. 4 |-> Field(f[i], "d")], <<".">>) : f \in [1 .. 4 -> 0 .. 4]}
  \cup {Join([i \in 1 .. 5 |-> Field(1, "d")], <<".">>)}

(* Up to nine groups on either side of a "::", or without one.               *)
Grouped(size) ==
  LET some(n) == Join([i \in 1 .. n |-> Field(size, "h")], <<":">>)
  IN  {some(n) : n \in 1 .. 9}
        \cup {some(m) \o <<":", ":">> \o some(n) : m \in 0 .. 8, n \in 0 .. 8}

IPv4Name == Join([i \in 1 .. 4 |-> <<"d">>], <<".">>)

(* Up to seven groups, with and without a "::", and an IPv4 address.         *)
GroupedAndDotted ==
  LET some(n) == FlattenSeq([i \in 1 .. n |-> <<"h", ":">>])
  IN  {some(n) \o IPv4Name : n \in 1 .. 7}
        \cup {some(m) \o <<":">> \o some(n) \o IPv4Name : m \in 1 .. 6, n \in 0 .. 6}
        \cup {<<":", ":">> \o some(n) \o IPv4Name : n \in 0 .. 6}

Names ==
  BoundedSeq(Symbols, 5) \cup Dotted \cup Grouped(1) \cup Grouped(4) \cup Grouped(5)
    \cup GroupedAndDotted

SomeArguments ==
  {NoValue(o) : o \in {"h", "?", "i"}}
  \cup {Arg("p", n, <<>>, <<>>) : n \in -17 .. 18}
  \cup {Arg("c", n, <<>>, <<>>) : n \in {0, 2}}
  \cup {HostArg("4", IPv4Name), HostArg("4", <<"x", "d">>), HostArg("4", <<"h", ":", ":">>)}
  \cup {HostArg("6", <<>>), HostArg("6", IPv4Name)}
  \cup {Arg("f", 0, <<>>, f) :
          f \in {<<>>, <<"7up">>, <<"7up", "x">>, <<"x", "7up">>, <<"x">>}}

AllCommandLines ==
  BoundedSeq(SomeArguments, 2) \cup {<<HostArg("6", n)>> : n \in Names}
  \cup {<<HostArg("4", IPv4Name), Arg("p", 2, <<>>, <<>>), HostArg("4", <<"x">>)>>}

(* coap-client -i, which takes the default address, and an address with -6.  *)
IPv6CommandLines ==
  {<<NoValue("i")>>, <<HostArg("6", <<"h", ":", ":", "d">>)>>}

AllResolutions == BoundedSeq({"IPv4", "IPv6"}, 2)
SomeDigitLed == {"7up"}
=============================================================================
