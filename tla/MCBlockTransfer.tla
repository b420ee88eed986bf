--------------------------- MODULE MCBlockTransfer ---------------------------
(* Small instances of BlockTransfer.                                         *)
EXTENDS BlockTransfer

(* Every answer the server can give.                                         *)
ServerAnswers ==
  {BlockAnswer(m, 0, n) : m \in 0 .. MidMod - 1, n \in 0 .. MaxNumber}
=============================================================================
