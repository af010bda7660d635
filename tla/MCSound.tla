-------------------------------- MODULE MCSound --------------------------------
(* Small instances of Sound: a ring slower, faster and as fast as the      *)
(* core, by ratios that leave a fraction to carry.                         *)
EXTENDS Sound

SomeRates == {[core |-> 3, ring |-> 2], [core |-> 2, ring |-> 5],
              [core |-> 1, ring |-> 1], [core |-> 5, ring |-> 2]}
SomeSamples == {-3, 4}
=============================================================================
