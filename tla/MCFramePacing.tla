----------------------------- MODULE MCFramePacing -----------------------------
(* A small instance of FramePacing.  A period is three ticks; a retro_run  *)
(* takes no tick, a little, or more than the loop may be behind.           *)
EXTENDS FramePacing

LongRuns == {0, 2, 12}
=============================================================================
