----------------------------- MODULE OptionList -----------------------------
(* What packet does with its vector of options: std::sort by number, and the *)
(* binary search of find_options (src/src/packet.cc). An option is a record  *)
(* with a number and a value.                                                *)
EXTENDS Integers, SequencesExt

CONSTANT StableLimit   \* std::sort keeps the order of equals up to 16 elements

ASSUME StableAssumption == StableLimit \in Nat

Numbers(opts) == {opts[i].number : i \in DOMAIN opts}

(* The one list is the other one rearranged, but with the options of each    *)
(* number in the same order.                                                 *)
Regrouped(opts, others) ==
  \E p \in Bijection(DOMAIN opts, DOMAIN others) :
    /\ \A i \in DOMAIN opts : others[p[i]] = opts[i]
    /\ \A i, j \in DOMAIN opts :
         i < j /\ opts[i].number = opts[j].number => p[i] < p[j]

(* The order of two elements, equal ones by their places.                    *)
Before(opts, j, i) ==
  \/ opts[j].number < opts[i].number
  \/ opts[j].number = opts[i].number /\ j < i

StablySorted(opts) ==
  [k \in DOMAIN opts |->
     opts[CHOOSE i \in DOMAIN opts :
            Cardinality({j \in DOMAIN opts : Before(opts, j, i)}) = k - 1]]

(* The ways to permute equal options among themselves.                       *)
Shuffles(opts) ==
  {p \in Bijection(DOMAIN opts, DOMAIN opts) :
     \A i \in DOMAIN opts : opts[p[i]].number = opts[i].number}

(* The outcomes of std::sort: of a longer list, any order of the equals.     *)
Sortings(opts) ==
  LET sorted == StablySorted(opts)
  IN  IF Len(opts) <= StableLimit
        THEN {sorted}
        ELSE {[i \in DOMAIN opts |-> sorted[p[i]]] : p \in Shuffles(sorted)}

(* Element i of the vector, counted from 0. Before and behind it lies what   *)
(* the memory holds there, such as the options of an earlier list; where     *)
(* beyond.behind ends lies a number nobody asks for.                         *)
NumberAt(opts, beyond, i) ==
  CASE i = -1 -> beyond.before
    [] i \in 0 .. Len(opts) - 1 -> opts[i + 1].number
    [] i - Len(opts) + 1 \in DOMAIN beyond.behind -> beyond.behind[i - Len(opts) + 1]
    [] OTHER -> -1

(* What min and max of the search can be.                                    *)
Ranges(opts) == (0 .. Len(opts) + 1) \X (-1 .. Len(opts))

(* As if the search stopped when one element is left.                        *)
SearchTooShort(opts, beyond, number) ==
  LET probe[r \in Ranges(opts)] ==
        LET min == r[1]
            max == r[2]
            mid == (min + max) \div 2
        IN  IF min >= max THEN [at |-> -1, min |-> min]
            ELSE IF NumberAt(opts, beyond, mid) < number THEN probe[<<mid + 1, max>>]
            ELSE IF NumberAt(opts, beyond, mid) > number THEN probe[<<min, mid - 1>>]
            ELSE [at |-> mid, min |-> min]
  IN  probe[<<0, Len(opts)>>]

(* The binary search: where it stops, or -1. max starts at size(), one behind*)
(* the last element.                                                         *)
Search(opts, beyond, number) ==
  LET probe[r \in Ranges(opts)] ==
        LET min == r[1]
            max == r[2]
            mid == (min + max) \div 2
        IN  IF min > max THEN [at |-> -1, min |-> min]
            ELSE IF NumberAt(opts, beyond, mid) < number THEN probe[<<mid + 1, max>>]
            ELSE IF NumberAt(opts, beyond, mid) > number THEN probe[<<min, mid - 1>>]
            ELSE [at |-> mid, min |-> min]
  IN  probe[<<0, Len(opts)>>]

(* From the element the search stopped at, down to the first equal one but no*)
(* further than to min - 1, and up again while the number is equal, wherever *)
(* that ends.                                                                *)
Quantity(opts, beyond, number, stop) ==
  LET differs(i) == NumberAt(opts, beyond, i) # number
      below == {i \in stop.min - 1 .. stop.at - 1 : i = stop.min - 1 \/ differs(i)}
      start == Max(below) + 1
      end == Min({i \in start .. Len(opts) + Len(beyond.behind) : differs(i)})
  IN  end - start

(* find_options on the sorted list: the index of the option it returns, or -1*)
(* for nullptr, and *quantity.                                               *)
FindOptions(opts, beyond, number) ==
  LET stop == Search(opts, beyond, number)
  IN  [at |-> stop.at,
       quantity |-> IF stop.at = -1 THEN 0
                    ELSE Quantity(opts, beyond, number, stop)]
=============================================================================
