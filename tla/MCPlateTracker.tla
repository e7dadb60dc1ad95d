---------------------------- MODULE MCPlateTracker ---------------------------
(* Instances of PlateTracker for TLC.                                        *)
EXTENDS PlateTracker

MCCorner == {-1, 50, 200}
MCStray  == {-7, 60}

==============================================================================
