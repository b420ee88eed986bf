------------------------------ MODULE Addresses ------------------------------
(* Which host names connection takes for addresses (src/src/connection.cc).  *)
(* A name is a sequence of symbols: "d" is a decimal digit, "h" one of the   *)
(* letters a to f, "x" any other letter; "." and ":" are themselves.         *)
EXTENDS Integers, Sequences, FiniteSets

Symbols == {"d", "h", "x", ".", ":"}
Decimal == {"d"}
Hexadecimal == {"d", "h"}

(* std::string::find: the first place from there on, or 0.                   *)
FindFrom(s, symbol, from) ==
  IF \E i \in from .. Len(s) : s[i] = symbol
    THEN CHOOSE i \in from .. Len(s) :
           s[i] = symbol /\ \A j \in from .. i - 1 : s[j] # symbol
    ELSE 0

(* checkNumberSystem. Of an empty range it returns what "result" held before *)
(* anything was assigned to it.                                              *)
CheckNumberSystem(s, from, to, pattern, uninitialised) ==
  IF from > to THEN uninitialised ELSE \A i \in from .. to : s[i] \in pattern

(* As if a field had room for four digits.                                   *)
IsIPv4AddressWide(s, uninitialised) ==
  LET isDec(from, to) == CheckNumberSystem(s, from, to, Decimal, uninitialised)
      fields[at \in (0 .. 3) \X Nat] ==
        LET iterations == at[1]
            prev == at[2]
            position == FindFrom(s, ".", prev)
        IN  IF iterations = 0
              THEN Len(s) - prev < 3 /\ position = 0 /\ isDec(prev, Len(s))
              ELSE /\ position \notin {0, 1}
                   /\ position <= prev + 4
                   /\ isDec(prev, position - 1)
                   /\ fields[<<iterations - 1, position + 1>>]
  IN  Len(s) <= 15 /\ fields[<<3, 1>>]

(* isIPv4Address: three fields with a dot behind each, then a last one.      *)
IsIPv4Address(s, uninitialised) ==
  LET isDec(from, to) == CheckNumberSystem(s, from, to, Decimal, uninitialised)
      fields[at \in (0 .. 3) \X Nat] ==
        LET iterations == at[1]
            prev == at[2]
            position == FindFrom(s, ".", prev)
        IN  IF iterations = 0
              THEN Len(s) - prev < 3 /\ position = 0 /\ isDec(prev, Len(s))
              ELSE /\ position \notin {0, 1}
                   /\ position <= prev + 3
                   /\ isDec(prev, position - 1)
                   /\ fields[<<iterations - 1, position + 1>>]
  IN  Len(s) <= 15 /\ fields[<<3, 1>>]

(* As if a double colon counted as a colon too.                              *)
RoomForColonsFewer(colons, doubles) ==
  doubles <= 1 /\ colons + doubles <= IF doubles = 1 THEN 5 ELSE 7

(* How many colons there may be in front of the last group.                  *)
RoomForColons(colons, doubles) ==
  doubles <= 1 /\ colons <= IF doubles = 1 THEN 5 ELSE 7

(* isIPv6Address: group by group. A name that ends in a double colon is taken*)
(* without a look at the counts; the octet behind the last one is no colon.  *)
IsIPv6Address(s) ==
  LET group(from, to) ==
        to - from < 4 /\ CheckNumberSystem(s, from, to, Hexadecimal, FALSE)
      scan[at \in Nat \X Nat \X Nat] ==
        LET prev == at[1]
            colons == at[2]
            doubles == at[3]
            position == FindFrom(s, ":", prev)
        IN  IF position = 0
              THEN RoomForColons(colons, doubles) /\ group(prev, Len(s))
            ELSE /\ position > prev => group(prev, position - 1)
                 /\ IF position < Len(s) /\ s[position + 1] = ":"
                      THEN \/ position + 1 = Len(s)
                           \/ scan[<<position + 2, colons, doubles + 1>>]
                      ELSE /\ position # Len(s)
                           /\ scan[<<position + 1, colons + 1, doubles>>]
  IN  Len(s) <= 39 /\ (s = <<>> \/ scan[<<1, 0, 0>>])

-----------------------------------------------------------------------------
(* The notations themselves.                                                 *)
InRow(s, pattern, n) ==
  {i \in 1 .. Len(s) - n + 1 : \A j \in i .. i + n - 1 : s[j] \in pattern}

(* Four fields of one, or of at least "least", to three digits.              *)
FourFields(s, least) ==
  LET dots == InRow(s, {"."}, 1)
      ends == dots \cup {0, Len(s) + 1}
  IN  /\ \A i \in DOMAIN s : s[i] \in Decimal \cup {"."}
      /\ Cardinality(dots) = 3
      /\ InRow(s, Decimal, 4) = {}
      /\ \A i \in ends \ {0} : \E j \in ends :
           j < i /\ i - j > (IF j = 0 THEN 1 ELSE least) /\ ends \cap (j + 1 .. i - 1) = {}

(* RFC 4291, section 2.2: groups of up to four hexadecimal digits between    *)
(* colons, eight of them or fewer with one "::" for the rest; and the same   *)
(* with the dotted notation of an IPv4 address for the last two groups.      *)
Groups(s) ==
  Cardinality({i \in InRow(s, Hexadecimal, 1) : i = 1 \/ s[i - 1] \notin Hexadecimal})

Doubles(s) == InRow(s, {":"}, 2)

HexGroups(s) ==
  /\ \A i \in DOMAIN s : s[i] \in Hexadecimal \cup {":"}
  /\ InRow(s, Hexadecimal, 5) = {}

GroupNotation(s) ==
  /\ HexGroups(s)
  /\ InRow(s, {":"}, 3) = {}
  /\ s # <<>>
  /\ s[1] = ":" => 1 \in Doubles(s)
  /\ s[Len(s)] = ":" => Len(s) - 1 \in Doubles(s)
  /\ \/ Doubles(s) = {} /\ Groups(s) = 8
     \/ Cardinality(Doubles(s)) = 1 /\ Groups(s) <= 7

TwoGroups == <<"h", ":", "h">>

EndsInIPv4(s) ==
  \E k \in DOMAIN s :
    /\ s[k] = ":"
    /\ FourFields(SubSeq(s, k + 1, Len(s)), 1)
    /\ GroupNotation(SubSeq(s, 1, k) \o TwoGroups)

IsRFC4291(s) == GroupNotation(s) \/ EndsInIPv4(s)

(* One group, the first, left out by a "::".                                 *)
FirstLeftOut(s) == 1 \in Doubles(s) /\ Groups(s) = 7
=============================================================================
