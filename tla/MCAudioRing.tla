------------------------------ MODULE MCAudioRing ------------------------------
(* Small instances of AudioRing.  Positions are counted modulo 16, frames  *)
(* have two bytes, and a behaviour sends enough for them to wrap around.   *)
EXTENDS AudioRing

(* Headers stating nothing, half a frame too much, a right capacity and a  *)
(* capacity larger than the file; the ones accepted divide 16.             *)
HeaderCapacities == {0, 3, 4, 8, 12}
=============================================================================
