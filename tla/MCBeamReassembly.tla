------------------------- MODULE MCBeamReassembly ------------------------
(* Frames of one to three parts.                                            *)
EXTENDS BeamReassembly

Frames312 == <<3, 1, 2>>
Frames32 == <<3, 2>>
==========================================================================
