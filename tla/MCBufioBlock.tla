---------------------------- MODULE MCBufioBlock ----------------------------
(* Instances of BufioBlock for TLC.                                         *)
EXTENDS BufioBlock

MCByte == {0, 1}
FewOffsets == {0, 1}

\* Nothing, less than a buffer, a buffer, more than a buffer.
MCBlocks == {<<>>, <<1>>, <<0, 1>>, <<1, 0, 1>>}

OneSetvbuf == {<<FALSE, "LBF", 0>>}

=============================================================================
