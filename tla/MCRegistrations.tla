--------------------------- MODULE MCRegistrations ---------------------------
(* Instances of Registrations for TLC: all requests are for one unit and      *)
(* resident type.                                                             *)
EXTENDS Registrations, TLC

MCSlotOf == [r \in RequestIds |-> CHOOSE s \in Slots : TRUE]
==============================================================================
