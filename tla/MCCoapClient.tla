---------------------------- MODULE MCCoapClient ----------------------------
(* A small instance of CoapClient: up to two datagrams wait at a time, of a  *)
(* kind for each outcome of the receive handler.                             *)
EXTENDS CoapClient

Option(n, m) == PeerEncode(n, m, 64)

AnAnswer(m, n, isMore) ==
  [form |-> "marked", tkl |-> 0, type |-> "ACK", mid |-> m, code |-> "CONTENT",
   found |-> "later", block |-> Option(n, isMore), data |-> n]

(* A peer that answers every id with the same block and the more bit.        *)
Endless == {AnAnswer(m, 0, TRUE) : m \in 0 .. MidMod - 1}

AllDatagrams ==
  {AnAnswer(1, 0, TRUE), AnAnswer(2, 1, TRUE), AnAnswer(3, 2, FALSE)}
  \cup Endless
  \cup {[AnAnswer(1, 0, TRUE) EXCEPT !.tkl = 9],
        [AnAnswer(2, 0, TRUE) EXCEPT !.type = "OTHER", !.tkl = 8],
        [AnAnswer(2, 1, TRUE) EXCEPT !.code = "OTHER"],
        [AnAnswer(2, 1, TRUE) EXCEPT !.found = "missing"],
        [AnAnswer(2, 1, TRUE) EXCEPT !.form = "unmarked"]}
=============================================================================
