-------------------------- MODULE ApprovalJourney ---------------------------
(***************************************************************************)
(* What the workflow engine promises about every approval journey: its     *)
(* levels are passed one at a time and in order, it is completed by the    *)
(* last of them and by nothing else, a rejection at any level ends it, and *)
(* only a journey that still waits can be withdrawn (a new one supersedes  *)
(* it).  Who acts, when, and on which snapshot is left to WorkflowEngine,  *)
(* which implements this module.                                           *)
(***************************************************************************)
EXTENDS Integers

CONSTANTS Journeys, MaxLevels

VARIABLES
  phase,  \* phase[j]
  size,   \* size[j]: the number of levels of j, fixed when it starts
  passed  \* passed[j]: the levels behind j, approved or escalated

vars == <<phase, size, passed>>

Init ==
  /\ phase = [j \in Journeys |-> "none"]
  /\ size = [j \in Journeys |-> 0]
  /\ passed = [j \in Journeys |-> {}]

\* A submission starts j and withdraws journeys that still wait.
Start(j, withdrawn) ==
  /\ phase[j] = "none"
  /\ \A w \in withdrawn : phase[w] = "waiting"
  /\ phase' = [k \in Journeys |-> IF k = j THEN "waiting"
                                  ELSE IF k \in withdrawn THEN "cancelled"
                                  ELSE phase[k]]
  /\ \E n \in 1..MaxLevels : size' = [size EXCEPT ![j] = n]
  /\ UNCHANGED passed

\* Level l, the lowest one not behind j, is passed and is not the last.  The
\* sweep may still do that to a journey that was withdrawn under its feet.
Pass(j, l) ==
  /\ phase[j] \in {"waiting", "cancelled"}
  /\ passed[j] = 0..(l - 1) /\ l + 1 < size[j]
  /\ passed' = [passed EXCEPT ![j] = 0..l]
  /\ UNCHANGED <<phase, size>>

Complete(j) ==
  /\ phase[j] = "waiting"
  /\ passed[j] = 0..(size[j] - 2)
  /\ passed' = [passed EXCEPT ![j] = 0..(size[j] - 1)]
  /\ phase' = [phase EXCEPT ![j] = "completed"]
  /\ UNCHANGED size

Reject(j) ==
  /\ phase[j] = "waiting"
  /\ phase' = [phase EXCEPT ![j] = "rejected"]
  /\ UNCHANGED <<size, passed>>

Next ==
  \E j \in Journeys :
    \/ \E w \in SUBSET Journeys : Start(j, w)
    \/ \E l \in 0..(MaxLevels - 1) : Pass(j, l)
    \/ Complete(j)
    \/ Reject(j)

Spec == Init /\ [][Next]_vars
=============================================================================
