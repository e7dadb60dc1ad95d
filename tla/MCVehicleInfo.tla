---------------------------- MODULE MCVehicleInfo ----------------------------
(* Instances of VehicleInfo for TLC.                                         *)
EXTENDS VehicleInfo, TLC

PlateSymmetry == Permutations(Plate)

==============================================================================
