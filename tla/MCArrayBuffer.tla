----------------------------- MODULE MCArrayBuffer ----------------------------
(***************************************************************************)
(* A buffer of four bytes of two kinds: every split of every filling.      *)
(***************************************************************************)
EXTENDS ArrayBuffer

MCByte == {0, 1}
===============================================================================
