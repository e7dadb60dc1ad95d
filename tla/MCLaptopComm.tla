---------------------------- MODULE MCLaptopComm -----------------------------
(* Instances of LaptopComm for TLC.                                          *)
EXTENDS LaptopComm, TLC

PortSymmetry == Permutations(Port) \cup Permutations(Plate)

==============================================================================
