----------------------------- MODULE MCCoreSession -----------------------------
(* Small instances of CoreSession.  In TwoHeights the second size is twice *)
(* as high as the first, so the store scales up or down by which is first. *)
EXTENDS CoreSession, TLC

TwoHeights == {[w |-> 1, h |-> 1], [w |-> 1, h |-> 2]}
ThreeHeights == TwoHeights \union {[w |-> 1, h |-> 3]}

PluginSymmetry == Permutations(Plugins)
=============================================================================
