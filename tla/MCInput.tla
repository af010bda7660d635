-------------------------------- MODULE MCInput --------------------------------
(* Small instances of Input.  The taps are about the latches only and need *)
(* no second place; a movement does.                                       *)
EXTENDS Input
=============================================================================
