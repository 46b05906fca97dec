----------------------------- MODULE MCFraming ------------------------------
(***************************************************************************)
(* Framing with bytes of four values and lengths of two bytes: a text of   *)
(* one byte, one that just fits the buffer, an empty file and a file of    *)
(* two bytes.                                                              *)
(***************************************************************************)
EXTENDS Framing

MCText == {<<1>>, <<2, 0, 1>>}
MCData == {<<>>, <<1, 2>>}
=============================================================================
