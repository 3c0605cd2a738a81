------------------------------ MODULE MCSessions ------------------------------
(* Instances of Sessions for TLC.                                             *)
EXTENDS Sessions, TLC
===============================================================================
