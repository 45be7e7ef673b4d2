------------------------------ MODULE MCNvFram ------------------------------
(* NvFram with two calibration tables beside the nominal one and one         *)
(* non-default value for the other records; at most MaxFaults faults may be  *)
(* outstanding, which is one more than the redundancy is meant to survive.   *)
EXTENDS NvFram

CONSTANTS a, b

MCInput == [data |-> {a, b}, cfg |-> {a}, net |-> {a}]
=============================================================================
