------------------------ MODULE MCEnergyDetector -------------------------
(* An instance of EnergyDetector: FFTs of two and three frequencies, two   *)
(* bands with a frequency in common, one that is empty, one by its center. *)
EXTENDS EnergyDetector

SomeBands == {[low |-> 0, high |-> 2], [low |-> 1, high |-> 1]}
SomeWidths == {[center |-> 4, width |-> 4]}
==========================================================================
