------------------------------- MODULE MCControls ------------------------------
(* An instance of Controls: the shared ids of a map made for another       *)
(* engine, some of which are one button.                                   *)
EXTENDS Controls

SharedActions == {"confirm", "cancel", "menu", "history", "left", "quick_save"}
=============================================================================
