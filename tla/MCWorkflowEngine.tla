-------------------------- MODULE MCWorkflowEngine --------------------------
(* Small instances of WorkflowEngine for TLC. *)
EXTENDS WorkflowEngine

\* cat may make and check; sue is a supervisor and a system administrator.
MCRolesOf == [u \in Users |->
  CASE u = "bob" -> {"supervisor"}
    [] u = "cat" -> {"supervisor", "manager"}
    [] u = "sue" -> {"supervisor", "SUPER_ADMIN"}]

\* Version 1 escalates its first level and auto-approves its second; version 2
\* auto-approves its first and only notifies on its second.
MCLevelCount  == [d \in 1..MaxDef |-> 2]
MCLevelRole   == [d \in 1..MaxDef |->
                    [l \in 0..1 |-> IF l = 0 THEN "supervisor" ELSE "manager"]]
MCLevelBreach == [d \in 1..MaxDef |-> [l \in 0..1 |->
  CASE d = 1 /\ l = 0 -> "ESCALATE"
    [] d = 1 /\ l = 1 -> "AUTO_APPROVE"
    [] d = 2 /\ l = 0 -> "AUTO_APPROVE"
    [] OTHER          -> "NOTIFY"]]
=============================================================================
