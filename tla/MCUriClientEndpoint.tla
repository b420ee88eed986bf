------------------------ MODULE MCUriClientEndpoint ------------------------
(* Small instances of UriClientEndpoint and of the modules that extend it.   *)
EXTENDS UriClientEndpoint

Option(n, m) == PeerEncode(n, m, 64)

AnAnswer(m, n, isMore) ==
  [form |-> "marked", tkl |-> 0, type |-> "ACK", mid |-> m, code |-> "CONTENT",
   found |-> "later", block |-> Option(n, isMore), data |-> n]

(* The first block and the last, under every message id, and the highest     *)
(* number an answer can carry, with an option that decodes or does not.      *)
Content ==
  {AnAnswer(m, n, n = 0) : m \in 0 .. MidMod - 1, n \in {0, 1}}
  \cup {[AnAnswer(2, MaxNumber, TRUE) EXCEPT !.found = f] : f \in {"later", "first"}}

(* Refusals, an answer without a block option, a message that is no ACK.     *)
Other ==
  {[AnAnswer(2, 0, TRUE) EXCEPT !.code = c] : c \in {"NOT_FOUND", "OTHER"}}
  \cup {[AnAnswer(2, 0, TRUE) EXCEPT !.found = "missing"],
        [AnAnswer(2, 0, TRUE) EXCEPT !.type = "OTHER", !.tkl = 8]}

(* What parse() does not take, with token lengths beyond the limit.          *)
Broken ==
  {[AnAnswer(2, 0, TRUE) EXCEPT !.form = f] : f \in {"empty", "short", "unmarked"}}
  \cup {[AnAnswer(2, 0, TRUE) EXCEPT !.form = f, !.tkl = 9] : f \in {"malformed", "marked"}}

AllDatagrams == Content \cup Other \cup Broken
StaleOptions == {Option(1, TRUE)}
=============================================================================
