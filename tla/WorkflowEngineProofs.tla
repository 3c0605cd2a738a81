------------------------ MODULE WorkflowEngineProofs ------------------------
(***************************************************************************)
(* Proofs about WorkflowEngine, for any number of tariffs, users, requests *)
(* and sweeps in flight, definitions, levels and instances.  The inductive *)
(* invariant is IInv: the two trails and OneOpenStep need to know that a   *)
(* row lock is exclusive and that what it protects still waits (Locks),    *)
(* that ids are handed out in order (Registry), and that a submit cancels  *)
(* only what exists (Snapshots).  IInv /\ Coupled is the inductive         *)
(* invariant of the runs in which no two requests edit one tariff at the   *)
(* same time; FourEyes, OneWaiting, VerdictReachesTariff and the           *)
(* refinement of ApprovalJourney follow from it.                           *)
(***************************************************************************)
EXTENDS WorkflowEngine, TLAPS

\* The part of IInv about the journeys themselves.
Trails == /\ Registry /\ LevelsInOrder
          /\ OneOpenStep /\ CompletedTrail /\ RejectedTrail

\* It depends on nothing but the instances and the states of their steps.
SameTrails ==
  /\ started' = started /\ wfi' = wfi
  /\ \A i \in Instances, l \in Levels : step'[i][l].state = step[i][l].state

-----------------------------------------------------------------------------
(* What the types say about requests in flight.                            *)

LEMMA EditFields ==
  ASSUME NEW x \in EditType, x.phase # "idle"
  PROVE  /\ x.phase \in {"read", "open"}
         /\ x.obj \in Tariffs /\ x.kind \in EditKinds /\ x.actor \in Users
         /\ x.row \in TariffRow
         /\ x.phase = "open" => /\ x.snap \in TariffRow
                                /\ x.waiting \in SUBSET Instances
                                /\ x.def \in 0..MaxDef
BY DEF EditType, Idle

LEMMA ReviewFields ==
  ASSUME NEW x \in ReviewType, x.phase # "idle"
  PROVE  /\ x.phase \in {"open", "locked"} /\ x.obj \in Tariffs
         /\ x.kind \in {"approve", "reject"} /\ x.actor \in Actors
         /\ x.inst \in 0..MaxInst /\ x.seenOpen \in SUBSET Levels
         /\ x.seenStatus \in TariffStatus
BY DEF ReviewType, Idle

LEMMA DefinitionSize ==
  ASSUME JourneyType, Registry, NEW i \in Instances, i <= started
  PROVE  /\ LevelCount[wfi[i].def] \in 1..MaxLevels
         /\ LevelsOf(i) \subseteq Levels
         /\ LevelCount[wfi[i].def] - 1 \in LevelsOf(i)
BY BoundAssumption, DefinitionAssumption DEF JourneyType, Registry, LevelsOf, Levels

-----------------------------------------------------------------------------
(* What the writes to a step row do to the table of steps.                 *)

StepTable == [Instances -> [Levels -> StepRow]]

LEMMA OpenStepRow == OpenStep \in StepRow /\ OpenStep.state = "OPEN"
BY DEF OpenStep, NoStep, StepRow, StepState, Actors

LEMMA ClosedRow ==
  ASSUME NEW r \in StepRow, NEW s \in StepState, NEW u \in Actors
  PROVE  /\ [r EXCEPT !.state = s, !.by = u] \in StepRow
         /\ [r EXCEPT !.state = s, !.by = u].state = s
BY DEF StepRow

LEMMA ClosedRows ==
  ASSUME JourneyType, NEW i \in Instances, NEW l \in Levels, NEW u \in Actors,
         NEW s \in StepState
  PROVE  /\ CloseStep(i, l, s, u) \in StepTable
         /\ \A j \in Instances, k \in Levels :
              CloseStep(i, l, s, u)[j][k].state =
                IF j = i /\ k = l THEN s ELSE step[j][k].state
<1> DEFINE row == [step[i][l] EXCEPT !.state = s, !.by = u]
<1>1. step \in StepTable /\ step[i] \in [Levels -> StepRow]
      /\ step[i][l] \in StepRow
  BY DEF JourneyType, StepTable
<1>2. row \in StepRow /\ row.state = s
  BY <1>1, ClosedRow
<1>3. CloseStep(i, l, s, u) = [step EXCEPT ![i] = [step[i] EXCEPT ![l] = row]]
  BY <1>1 DEF CloseStep, StepTable
<1> HIDE DEF row
<1> QED BY <1>1, <1>2, <1>3 DEF StepTable

LEMMA OpenedRows ==
  ASSUME NEW f \in StepTable, NEW i \in Instances, NEW l \in Levels
  PROVE  /\ [f EXCEPT ![i][l] = OpenStep] \in StepTable
         /\ \A j \in Instances, k \in Levels :
              [f EXCEPT ![i][l] = OpenStep][j][k].state =
                IF j = i /\ k = l THEN "OPEN" ELSE f[j][k].state
<1> HIDE DEF OpenStep
<1> QED BY OpenStepRow DEF StepTable

\* One level is closed and the next one opens.
LEMMA AdvancedRows ==
  ASSUME JourneyType, NEW i \in Instances, NEW l \in Levels, l + 1 \in Levels,
         NEW u \in Actors, NEW s \in {"APPROVED", "ESCALATED"}
  PROVE  /\ AdvanceStep(i, l, s, u) \in StepTable
         /\ \A j \in Instances, k \in Levels :
              AdvanceStep(i, l, s, u)[j][k].state = IF j = i /\ k = l THEN s
                                  ELSE IF j = i /\ k = l + 1 THEN "OPEN"
                                  ELSE step[j][k].state
<1> DEFINE c == CloseStep(i, l, s, u)
           o == [c EXCEPT ![i][l + 1] = OpenStep]
<1>1. s \in StepState /\ l # l + 1
  BY DEF StepState, Levels
<1>2. /\ c \in StepTable
      /\ \A j \in Instances, k \in Levels :
           c[j][k].state = IF j = i /\ k = l THEN s ELSE step[j][k].state
  BY <1>1, ClosedRows
<1>3. AdvanceStep(i, l, s, u) = o
  BY DEF AdvanceStep
<1> HIDE DEF c
<1>4. /\ o \in StepTable
      /\ \A j \in Instances, k \in Levels :
           o[j][k].state = IF j = i /\ k = l + 1 THEN "OPEN" ELSE c[j][k].state
  BY <1>2, OpenedRows
<1> HIDE DEF o
<1> QED BY <1>1, <1>2, <1>3, <1>4

-----------------------------------------------------------------------------
(* Trails: only a submit, a decision and an escalation can disturb them.   *)

LEMMA TrailsKept == ASSUME JourneyType, Trails, SameTrails PROVE Trails'
<1>1. Registry'
  BY DEF Trails, SameTrails, Registry, LevelsOf
<1>2. OneOpenStep'
  BY DEF Trails, SameTrails, OneOpenStep, LevelsOf, Waiting, Passed
<1>3. CompletedTrail'
  <2> SUFFICES ASSUME NEW i \in Instances, wfi[i].status = "COMPLETED"
               PROVE  /\ \A l \in LevelsOf(i) : Passed(i, l)'
                      /\ step'[i][LevelCount[wfi[i].def] - 1].state = "APPROVED"
    BY DEF SameTrails, CompletedTrail, LevelsOf
  <2>1. LevelsOf(i) \subseteq Levels /\ LevelCount[wfi[i].def] - 1 \in LevelsOf(i)
    BY DefinitionSize DEF Trails, Registry
  <2> QED BY <2>1 DEF Trails, SameTrails, CompletedTrail, Passed
<1>4. RejectedTrail'
  BY DEF Trails, SameTrails, RejectedTrail, LevelsOf, Passed
<1>5. LevelsInOrder'
  BY DEF Trails, SameTrails, LevelsInOrder, LevelsOf, Passed
<1> QED BY <1>1, <1>2, <1>3, <1>4, <1>5 DEF Trails

\* A submit: the new instance waits at its level 0, others may be cancelled.
LEMMA StartTrails ==
  ASSUME JourneyType, Trails, NEW t \in Tariffs, NEW u \in Users, NEW d \in Defs,
         NEW w \in SUBSET (1..started), StartInstance(t, u, d, w)
  PROVE  Trails'
<1> DEFINE new == started + 1
<1>1. new \in Instances /\ started \in Nat /\ 0 \in Levels
      /\ LevelCount[d] \in 1..MaxLevels
  BY BoundAssumption, DefinitionAssumption
     DEF StartInstance, JourneyType, Instances, Levels
<1>2. /\ started' = new
      /\ wfi'[new].status = "WAITING_FOR_APPROVAL"
      /\ wfi'[new].def = d /\ wfi'[new].level = 0
      /\ step'[new][0].state = "OPEN"
      /\ \A l \in Levels \ {0} : step'[new][l].state = "ABSENT"
  BY <1>1 DEF StartInstance, JourneyType, OpenStep, NoStep, Trails, Registry
<1>3. \A i \in Instances \ {new} :
        /\ wfi'[i].def = wfi[i].def /\ wfi'[i].level = wfi[i].level
        /\ \/ wfi'[i].status = wfi[i].status
           \/ i <= started /\ wfi'[i].status = "CANCELLED"
        /\ \A l \in Levels : step'[i][l] = step[i][l]
  BY <1>1 DEF StartInstance, JourneyType
<1>4. Registry'
  BY <1>1, <1>2, <1>3 DEF Trails, Registry, LevelsOf, Instances
<1>5. OneOpenStep'
  BY <1>1, <1>2, <1>3 DEF Trails, OneOpenStep, LevelsOf, Waiting, Passed, Levels
<1>6. CompletedTrail'
  <2> SUFFICES ASSUME NEW i \in Instances \ {new}, wfi[i].status = "COMPLETED"
               PROVE  /\ \A l \in LevelsOf(i) : Passed(i, l)'
                      /\ step'[i][LevelCount[wfi[i].def] - 1].state = "APPROVED"
    BY <1>2, <1>3 DEF CompletedTrail, LevelsOf
  <2>1. LevelsOf(i) \subseteq Levels /\ LevelCount[wfi[i].def] - 1 \in LevelsOf(i)
    BY DefinitionSize DEF Trails, Registry
  <2> QED BY <1>3, <2>1 DEF Trails, CompletedTrail, Passed
<1>7. RejectedTrail'
  BY <1>2, <1>3 DEF Trails, RejectedTrail, LevelsOf, Passed
<1>8. LevelsInOrder'
  <2> SUFFICES ASSUME NEW i \in Instances, i <= new
               PROVE  \E r \in LevelsOf(i)' : \A l \in Levels :
                        /\ l < r => Passed(i, l)'
                        /\ l = r => step'[i][l].state # "ABSENT"
                        /\ l > r => step'[i][l].state = "ABSENT"
    BY <1>2 DEF LevelsInOrder
  <2>1. CASE i = new
    <3>1. 0 \in LevelsOf(i)'
      BY <1>1, <1>2, <2>1 DEF LevelsOf
    <3> QED BY <1>2, <2>1, <3>1 DEF Levels
  <2>2. CASE i # new
    BY <1>1, <1>3, <2>2 DEF Trails, LevelsInOrder, LevelsOf, Passed, Instances
  <2> QED BY <2>1, <2>2
<1> QED BY <1>4, <1>5, <1>6, <1>7, <1>8 DEF Trails

\* What a decision or an escalation finds at the level it closes.
LEMMA OpenAtLevel ==
  ASSUME JourneyType, Trails, NEW i \in Instances, Waiting(i)
  PROVE  /\ i <= started
         /\ wfi[i].level \in LevelsOf(i) /\ wfi[i].level \in Levels
         /\ step[i][wfi[i].level].state = "OPEN"
         /\ LevelCount[wfi[i].def] \in 1..MaxLevels
<1>1. i <= started
  BY DEF Trails, Registry, Waiting
<1> QED BY <1>1, DefinitionSize DEF Trails, OneOpenStep, Levels

\* A level that is not the last is closed as passed and the next one opens; the
\* instance waits or was cancelled.
LEMMA AdvanceTrails ==
  ASSUME JourneyType, Trails, started' = started,
         NEW i \in Instances, NEW l \in Levels,
         step[i][l].state = "OPEN", Waiting(i) => l = wfi[i].level,
         l + 1 < LevelCount[wfi[i].def],
         NEW s \in {"APPROVED", "ESCALATED"}, NEW u \in Actors,
         wfi' = [wfi EXCEPT ![i].level = l + 1],
         step' = AdvanceStep(i, l, s, u)
  PROVE  Trails'
<1>1. i <= started /\ LevelCount[wfi[i].def] \in 1..MaxLevels /\ l + 1 \in Levels
      /\ l + 1 \in LevelsOf(i) /\ l \in LevelsOf(i) /\ l \in Nat
  <2>1. i <= started
    BY DEF Trails, Registry
  <2> QED BY <2>1, DefinitionSize, BoundAssumption DEF Trails, Levels, LevelsOf
<1>2. /\ \A j \in Instances : wfi'[j].status = wfi[j].status
                              /\ wfi'[j].def = wfi[j].def
      /\ \A j \in Instances \ {i} : wfi'[j].level = wfi[j].level
      /\ wfi'[i].level = l + 1
  BY <1>1 DEF JourneyType
<1>3. \A j \in Instances, k \in Levels :
        step'[j][k].state = IF j = i /\ k = l THEN s
                            ELSE IF j = i /\ k = l + 1 THEN "OPEN"
                            ELSE step[j][k].state
  BY <1>1, AdvancedRows
<1>4. Registry'
  BY <1>1, <1>2, <1>3 DEF Trails, Registry, LevelsOf
<1>5. OneOpenStep'
  BY <1>1, <1>2, <1>3 DEF Trails, OneOpenStep, LevelsOf, Waiting, Passed, Levels
<1>6. wfi[i].status # "COMPLETED" /\ wfi[i].status # "REJECTED"
  <2>1. CASE wfi[i].status = "COMPLETED"
    BY <1>1, <2>1 DEF Trails, CompletedTrail, Passed
  <2>2. CASE wfi[i].status = "REJECTED"
    <3>1. PICK r \in LevelsOf(i) : \A k \in Levels :
            /\ k < r => Passed(i, k)
            /\ k = r => step[i][k].state = "REJECTED"
            /\ k > r => step[i][k].state = "ABSENT"
      BY <2>2 DEF Trails, RejectedTrail
    <3>2. l < r \/ l = r \/ l > r
      BY <1>1 DEF LevelsOf
    <3> QED BY <3>1, <3>2 DEF Passed
  <2> QED BY <2>1, <2>2
<1>7. CompletedTrail'
  <2> SUFFICES ASSUME NEW j \in Instances \ {i}, wfi[j].status = "COMPLETED"
               PROVE  /\ \A k \in LevelsOf(j) : Passed(j, k)'
                      /\ step'[j][LevelCount[wfi[j].def] - 1].state = "APPROVED"
    BY <1>2, <1>6 DEF CompletedTrail, LevelsOf
  <2>1. LevelsOf(j) \subseteq Levels /\ LevelCount[wfi[j].def] - 1 \in LevelsOf(j)
    BY DefinitionSize DEF Trails, Registry
  <2> QED BY <1>3, <2>1 DEF Trails, CompletedTrail, Passed
<1>8. RejectedTrail'
  BY <1>2, <1>3, <1>6 DEF Trails, RejectedTrail, LevelsOf, Passed
<1>9. LevelsInOrder'
  <2> SUFFICES ASSUME NEW j \in Instances, j <= started
               PROVE  \E r \in LevelsOf(j) : \A k \in Levels :
                        /\ k < r => Passed(j, k)'
                        /\ k = r => step'[j][k].state # "ABSENT"
                        /\ k > r => step'[j][k].state = "ABSENT"
    BY <1>2 DEF LevelsInOrder, LevelsOf
  <2>1. CASE j = i
    <3>1. \A k \in Levels : k < l => Passed(i, k)
      BY <1>1 DEF Trails, LevelsInOrder, Passed, Levels, LevelsOf
    <3>2. \A k \in Levels : k > l => step[i][k].state = "ABSENT"
      BY <1>1 DEF Trails, LevelsInOrder, Passed, Levels, LevelsOf
    <3> QED BY <1>1, <1>3, <2>1, <3>1, <3>2 DEF Passed, Levels
  <2>2. CASE j # i
    BY <1>3, <2>2 DEF Trails, LevelsInOrder, Passed
  <2> QED BY <2>1, <2>2
<1> QED BY <1>4, <1>5, <1>7, <1>8, <1>9 DEF Trails

\* The verdict on a waiting instance: its current level is closed, it ends.
LEMMA VerdictTrails ==
  ASSUME JourneyType, Trails, started' = started,
         NEW i \in Instances, Waiting(i), NEW l \in Levels, l = wfi[i].level,
         NEW s \in {"APPROVED", "REJECTED"}, NEW v \in {"COMPLETED", "REJECTED"},
         s = "APPROVED" <=> v = "COMPLETED",
         v = "COMPLETED" => l >= LevelCount[wfi[i].def] - 1,
         \A j \in Instances :
           /\ wfi'[j].def = wfi[j].def
           /\ wfi'[j].status = IF j = i THEN v ELSE wfi[j].status
           /\ j # i => wfi'[j].level = wfi[j].level,
         \A j \in Instances, k \in Levels :
           step'[j][k].state = IF j = i /\ k = l THEN s ELSE step[j][k].state
  PROVE  Trails'
<1>1. /\ i <= started /\ l \in LevelsOf(i)
      /\ step[i][l].state = "OPEN" /\ LevelCount[wfi[i].def] \in 1..MaxLevels
      /\ \A k \in Levels : /\ k < l => Passed(i, k)
                           /\ k > l => step[i][k].state = "ABSENT"
  BY OpenAtLevel DEF Trails, OneOpenStep
<1>2. Registry'
  BY <1>1 DEF Trails, Registry, LevelsOf
<1>3. OneOpenStep'
  BY DEF Trails, OneOpenStep, LevelsOf, Waiting, Passed
<1>4. CompletedTrail'
  <2> SUFFICES ASSUME NEW j \in Instances, wfi'[j].status = "COMPLETED"
               PROVE  /\ \A k \in LevelsOf(j) : Passed(j, k)'
                      /\ step'[j][LevelCount[wfi[j].def] - 1].state = "APPROVED"
    BY DEF CompletedTrail, LevelsOf
  <2>1. CASE j = i
    <3>1. l = LevelCount[wfi[i].def] - 1 /\ s = "APPROVED" /\ LevelsOf(i) = 0..l
      BY <1>1, <2>1 DEF LevelsOf
    <3>2. \A k \in 0..l : k \in Levels /\ (k < l \/ k = l)
      BY <1>1, <3>1, BoundAssumption DEF Levels
    <3>3. \A k \in 0..l : Passed(i, k)'
      BY <1>1, <3>1, <3>2 DEF Passed
    <3> QED BY <1>1, <2>1, <3>1, <3>3
  <2>2. CASE j # i
    <3>1. wfi[j].status = "COMPLETED" /\ j <= started
      BY <2>2 DEF Trails, Registry
    <3>2. LevelsOf(j) \subseteq Levels /\ LevelCount[wfi[j].def] - 1 \in LevelsOf(j)
      BY <3>1, DefinitionSize DEF Trails
    <3> QED BY <2>2, <3>1, <3>2 DEF Trails, CompletedTrail, Passed
  <2> QED BY <2>1, <2>2
<1>5. RejectedTrail'
  <2> SUFFICES ASSUME NEW j \in Instances, wfi'[j].status = "REJECTED"
               PROVE  \E r \in LevelsOf(j) : \A k \in Levels :
                        /\ k < r => Passed(j, k)'
                        /\ k = r => step'[j][k].state = "REJECTED"
                        /\ k > r => step'[j][k].state = "ABSENT"
    BY DEF RejectedTrail, LevelsOf
  <2>1. CASE j = i
    BY <1>1, <2>1 DEF Passed, Levels, LevelsOf
  <2>2. CASE j # i
    BY <2>2 DEF Trails, RejectedTrail, LevelsOf, Passed
  <2> QED BY <2>1, <2>2
<1>6. LevelsInOrder'
  <2> SUFFICES ASSUME NEW j \in Instances, j <= started
               PROVE  \E r \in LevelsOf(j) : \A k \in Levels :
                        /\ k < r => Passed(j, k)'
                        /\ k = r => step'[j][k].state # "ABSENT"
                        /\ k > r => step'[j][k].state = "ABSENT"
    BY DEF LevelsInOrder, LevelsOf
  <2>1. CASE j = i
    BY <1>1, <2>1 DEF Passed, Levels
  <2>2. CASE j # i
    BY <2>2 DEF Trails, LevelsInOrder, Passed
  <2> QED BY <2>1, <2>2
<1> QED BY <1>2, <1>3, <1>4, <1>5, <1>6 DEF Trails

-----------------------------------------------------------------------------
(* The three actions that write instances and steps.                       *)

LEMMA StartJourney ==
  ASSUME JourneyType, NEW t \in Tariffs, NEW u \in Users, NEW d \in Defs,
         NEW w \in SUBSET Instances, StartInstance(t, u, d, w)
  PROVE  JourneyType'
<1>1. started' \in 0..MaxInst /\ started + 1 \in Instances /\ 0 \in Levels
  BY BoundAssumption DEF StartInstance, JourneyType, Instances, Levels
<1>2. wfi' \in [Instances -> InstanceRow]
  <2>1. [status |-> "WAITING_FOR_APPROVAL", obj |-> t, def |-> d, level |-> 0,
         submittedBy |-> u] \in InstanceRow
    BY <1>1 DEF InstanceRow, InstanceStatus, Actors, Defs
  <2>2. \A i \in Instances : [wfi[i] EXCEPT !.status = "CANCELLED"] \in InstanceRow
    BY DEF JourneyType, InstanceRow, InstanceStatus
  <2> QED BY <2>1, <2>2 DEF StartInstance, JourneyType
<1>3. step' \in [Instances -> [Levels -> StepRow]]
  BY <1>1, OpenStepRow DEF StartInstance, JourneyType
<1> QED BY <1>1, <1>2, <1>3 DEF JourneyType

LEMMA EndedRow ==
  ASSUME JourneyType, NEW i \in Instances, NEW v \in InstanceStatus,
         wfi' = [wfi EXCEPT ![i].status = v, ![i].level = -1]
  PROVE  /\ wfi' \in [Instances -> InstanceRow]
         /\ \A j \in Instances :
              /\ wfi'[j].def = wfi[j].def
              /\ wfi'[j].status = IF j = i THEN v ELSE wfi[j].status
              /\ j # i => wfi'[j].level = wfi[j].level
<1>1. wfi' = [wfi EXCEPT ![i] = [wfi[i] EXCEPT !.status = v, !.level = -1]]
  BY DEF JourneyType, InstanceRow
<1>2. [wfi[i] EXCEPT !.status = v, !.level = -1] \in InstanceRow
  BY DEF JourneyType, InstanceRow
<1> QED BY <1>1, <1>2 DEF JourneyType, InstanceRow

LEMMA MovedRow ==
  ASSUME JourneyType, NEW i \in Instances, NEW l \in Levels,
         wfi' = [wfi EXCEPT ![i].level = l]
  PROVE  wfi' \in [Instances -> InstanceRow]
BY DEF JourneyType, InstanceRow

LEMMA ReviewJourneys ==
  ASSUME IInv, NEW p \in Reviewers \cup Sweepers, ReviewCommits(p)
  PROVE  JourneyType' /\ Trails'
<1> DEFINE x == review[p]
           i == x.inst
           l == wfi[i].level
<1>1. /\ x.phase = "locked" /\ x.kind \in {"approve", "reject"}
      /\ x.actor \in Actors /\ i \in 0..MaxInst
      /\ started' = started
  BY ReviewFields DEF ReviewCommits, IInv, TypeOK
<1>2. JourneyType /\ Trails
  BY DEF IInv, TypeOK, Trails
<1>3. CASE UNCHANGED <<wfi, step>>
  <2>1. SameTrails
    BY <1>1, <1>3 DEF SameTrails
  <2> QED BY <1>1, <1>2, <1>3, <2>1, TrailsKept DEF JourneyType
<1>4. CASE ~UNCHANGED <<wfi, step>>
  <2>1. /\ i \in Instances /\ Waiting(i)
        /\ \/ x.kind = "approve" /\ RecordApproval(x)
           \/ x.kind = "reject" /\ RecordRejection(x)
    BY <1>1, <1>4, BoundAssumption
       DEF ReviewCommits, Approve, Reject, IInv, Locks, Instances
  <2>2. /\ l \in Levels /\ step[i][l].state = "OPEN" /\ l \in LevelsOf(i)
        /\ LevelCount[wfi[i].def] \in 1..MaxLevels
    BY <1>2, <2>1, OpenAtLevel
  <2>3. CASE x.kind = "approve" /\ RecordApproval(x) /\ ~IsFinalLevel(x)
    <3>1. /\ l + 1 < LevelCount[wfi[i].def] /\ l + 1 \in Levels
          /\ wfi' = [wfi EXCEPT ![i].level = l + 1]
          /\ step' = AdvanceStep(i, l, "APPROVED", x.actor)
      BY <2>2, <2>3, BoundAssumption DEF RecordApproval, IsFinalLevel, Levels
    <3>2. Trails'
      BY <1>1, <1>2, <2>1, <2>2, <3>1, AdvanceTrails
    <3>3. step' \in StepTable
      BY <1>1, <1>2, <2>1, <2>2, <3>1, AdvancedRows
    <3>4. JourneyType'
      BY <1>1, <1>2, <2>1, <3>1, <3>3, MovedRow DEF JourneyType, StepTable
    <3> QED BY <3>2, <3>4
  <2>4. CASE x.kind = "approve" /\ RecordApproval(x) /\ IsFinalLevel(x)
    <3>1. /\ l >= LevelCount[wfi[i].def] - 1
          /\ wfi' = [wfi EXCEPT ![i].status = "COMPLETED", ![i].level = -1]
          /\ step' = CloseStep(i, l, "APPROVED", x.actor)
      BY <2>1, <2>4, BoundAssumption DEF RecordApproval, IsFinalLevel, Instances
    <3>2. /\ wfi' \in [Instances -> InstanceRow]
          /\ \A j \in Instances :
               /\ wfi'[j].def = wfi[j].def
               /\ wfi'[j].status = IF j = i THEN "COMPLETED" ELSE wfi[j].status
               /\ j # i => wfi'[j].level = wfi[j].level
      BY <1>2, <2>1, <3>1, EndedRow DEF InstanceStatus
    <3>3. /\ step' \in StepTable
          /\ \A j \in Instances, k \in Levels :
               step'[j][k].state = IF j = i /\ k = l THEN "APPROVED"
                                   ELSE step[j][k].state
      <4>1. "APPROVED" \in StepState /\ "REJECTED" \in StepState
        BY DEF StepState
      <4>2. /\ i \in Instances /\ l \in Levels /\ x.actor \in Actors
            /\ step' = CloseStep(i, l, "APPROVED", x.actor)
        BY <1>1, <2>1, <2>2, <3>1
      <4> HIDE DEF x, i, l
      <4> QED BY <1>2, <4>1, <4>2, ClosedRows
    <3>4. Trails'
      <4>1. /\ l = wfi[i].level /\ l >= LevelCount[wfi[i].def] - 1
            /\ started' = started /\ i \in Instances /\ Waiting(i) /\ l \in Levels
        BY <1>1, <2>1, <2>2, <3>1
      <4> HIDE DEF x, i, l
      <4> QED BY <1>2, <3>2, <3>3, <4>1, VerdictTrails
    <3>5. JourneyType'
      BY <1>1, <1>2, <3>2, <3>3 DEF JourneyType, StepTable
    <3> QED BY <3>4, <3>5
  <2>5. CASE x.kind = "reject" /\ RecordRejection(x)
    <3>1. /\ wfi' = [wfi EXCEPT ![i].status = "REJECTED", ![i].level = -1]
          /\ step' = CloseStep(i, l, "REJECTED", x.actor)
      BY <2>5 DEF RecordRejection
    <3>2. /\ wfi' \in [Instances -> InstanceRow]
          /\ \A j \in Instances :
               /\ wfi'[j].def = wfi[j].def
               /\ wfi'[j].status = IF j = i THEN "REJECTED" ELSE wfi[j].status
               /\ j # i => wfi'[j].level = wfi[j].level
      BY <1>2, <2>1, <3>1, EndedRow DEF InstanceStatus
    <3>3. /\ step' \in StepTable
          /\ \A j \in Instances, k \in Levels :
               step'[j][k].state = IF j = i /\ k = l THEN "REJECTED"
                                   ELSE step[j][k].state
      <4>1. "APPROVED" \in StepState /\ "REJECTED" \in StepState
        BY DEF StepState
      <4>2. /\ i \in Instances /\ l \in Levels /\ x.actor \in Actors
            /\ step' = CloseStep(i, l, "REJECTED", x.actor)
        BY <1>1, <2>1, <2>2, <3>1
      <4> HIDE DEF x, i, l
      <4> QED BY <1>2, <4>1, <4>2, ClosedRows
    <3>4. Trails'
      BY <1>1, <1>2, <2>1, <2>2, <3>2, <3>3, VerdictTrails
    <3>5. JourneyType'
      BY <1>1, <1>2, <3>2, <3>3 DEF JourneyType, StepTable
    <3> QED BY <3>4, <3>5
  <2> QED BY <2>1, <2>3, <2>4, <2>5
<1> QED BY <1>3, <1>4

LEMMA EscalationJourneys ==
  ASSUME IInv, NEW s \in Sweepers, EscalationCommits(s)
  PROVE  JourneyType' /\ Trails'
<1> DEFINE i == sweep[s].inst
           l == sweep[s].level
<1>1. /\ JourneyType /\ Trails /\ started' = started
      /\ i \in Instances /\ l \in Levels
      /\ step[i][l].state = "OPEN" /\ l + 1 < LevelCount[wfi[i].def]
      /\ wfi' = [wfi EXCEPT ![i].level = l + 1]
      /\ step' = AdvanceStep(i, l, "ESCALATED", System)
  BY DEF EscalationCommits, IInv, TypeOK, SweepType, Trails, Locks
<1>2. Waiting(i) => l = wfi[i].level
  BY <1>1 DEF Trails, OneOpenStep, LevelsOf, Levels, Passed
<1>3. i <= started /\ l + 1 \in Levels
  <2>1. i <= started
    BY <1>1 DEF Trails, Registry
  <2> QED BY <1>1, <2>1, DefinitionSize, BoundAssumption DEF Trails, Levels
<1>4. System \in Actors
  BY DEF Actors
<1>5. Trails'
  BY <1>1, <1>2, <1>4, AdvanceTrails
<1>6. JourneyType'
  <2>1. step' \in StepTable
    BY <1>1, <1>3, <1>4, AdvancedRows
  <2>2. wfi' \in [Instances -> InstanceRow]
    BY <1>1, <1>3, MovedRow
  <2> QED BY <1>1, <2>1, <2>2 DEF JourneyType, StepTable
<1> QED BY <1>5, <1>6

LEMMA EditJourneys ==
  ASSUME IInv, NEW e \in Editors, EditCommits(e)
  PROVE  JourneyType' /\ Trails'
<1> DEFINE x == edit[e]
<1>1. /\ JourneyType /\ Trails /\ x.phase = "open"
      /\ x.obj \in Tariffs /\ x.actor \in Users /\ x.def \in 0..MaxDef
      /\ x.waiting \in SUBSET Instances /\ x.waiting \in SUBSET (1..started)
  BY EditFields DEF EditCommits, IInv, TypeOK, Trails, Snapshots
<1>2. CASE x.kind = "submit" /\ x.def # 0
  <2>1. StartInstance(x.obj, x.actor, x.def, x.waiting) /\ x.def \in Defs
    BY <1>1, <1>2, BoundAssumption DEF EditCommits, Defs
  <2> QED BY <1>1, <2>1, StartTrails, StartJourney
<1>3. CASE ~(x.kind = "submit" /\ x.def # 0)
  <2>1. UNCHANGED <<started, wfi, step>>
    BY <1>3 DEF EditCommits
  <2> QED BY <1>1, <2>1, TrailsKept DEF SameTrails, JourneyType
<1> QED BY <1>2, <1>3

-----------------------------------------------------------------------------
(* Every step keeps the journeys.                                          *)

LEMMA SameJourneys ==
  ASSUME JourneyType, Trails, UNCHANGED <<started, wfi, step>>
  PROVE  JourneyType' /\ Trails'
BY TrailsKept DEF SameTrails, JourneyType

\* Marking a step overdue or breached changes nobody's state.
LEMMA MarkedRow ==
  ASSUME JourneyType, Trails, NEW i \in Instances, NEW l \in Levels,
         UNCHANGED <<started, wfi>>,
         \/ step' = [step EXCEPT ![i][l].overdue = TRUE]
         \/ step' = [step EXCEPT ![i][l].breached = TRUE]
  PROVE  /\ JourneyType' /\ Trails'
         /\ \A j \in Instances, k \in Levels : step'[j][k].state = step[j][k].state
<1> DEFINE over == [step[i][l] EXCEPT !.overdue = TRUE]
           late == [step[i][l] EXCEPT !.breached = TRUE]
<1>1. step[i][l] \in StepRow
  BY DEF JourneyType
<1>2. /\ over \in StepRow /\ over.state = step[i][l].state
      /\ late \in StepRow /\ late.state = step[i][l].state
  BY <1>1 DEF StepRow
<1>3. \/ step' = [step EXCEPT ![i] = [step[i] EXCEPT ![l] = over]]
      \/ step' = [step EXCEPT ![i] = [step[i] EXCEPT ![l] = late]]
  BY DEF JourneyType
<1> HIDE DEF over, late
<1>4. JourneyType'
  BY <1>2, <1>3 DEF JourneyType
<1>5. \A j \in Instances, k \in Levels : step'[j][k].state = step[j][k].state
  BY <1>2, <1>3 DEF JourneyType
<1>6. Trails'
  BY <1>5, TrailsKept DEF SameTrails
<1> QED BY <1>4, <1>5, <1>6

\* The actions that write instances or steps.
LEMMA JourneyWriters ==
  ASSUME Next
  PROVE \/ \E i \in Instances, l \in Levels : DeadlinePasses(i, l)
        \/ \E e \in Editors : EditCommits(e)
        \/ \E p \in Reviewers \cup Sweepers : ReviewCommits(p)
        \/ \E s \in Sweepers : EscalationCommits(s)
        \/ \E s \in Sweepers, i \in Instances, l \in Levels : SweepFlags(s, i, l)
        \/ UNCHANGED <<started, wfi, step>>
BY DEF Next, PublishDefinition, EditReads, EditOpens, EditAborts, ReviewOpens,
       ReviewTransaction, ReviewLocks, ReviewAborts, SweepFinds, Dispatch,
       SweepNotifies, SweepAutoApproves, EscalationLocks, SweepAborts

LEMMA JourneysStep ==
  ASSUME IInv, Next PROVE JourneyType' /\ Trails'
<1>1. JourneyType /\ Trails
  BY DEF IInv, TypeOK, Trails
<1>2. CASE \E i \in Instances, l \in Levels : DeadlinePasses(i, l)
  BY <1>1, <1>2, MarkedRow DEF DeadlinePasses
<1>3. CASE \E e \in Editors : EditCommits(e)
  BY <1>3, EditJourneys
<1>4. CASE \E p \in Reviewers \cup Sweepers : ReviewCommits(p)
  BY <1>4, ReviewJourneys
<1>5. CASE \E s \in Sweepers : EscalationCommits(s)
  BY <1>5, EscalationJourneys
<1>6. CASE \E s \in Sweepers, i \in Instances, l \in Levels : SweepFlags(s, i, l)
  <2> SUFFICES ASSUME NEW s \in Sweepers, NEW i \in Instances, NEW l \in Levels,
                      SweepFlags(s, i, l)
               PROVE  JourneyType' /\ Trails'
    BY <1>6
  <2>1. /\ UNCHANGED <<started, wfi>>
        /\ step' = step \/ step' = [step EXCEPT ![i][l].breached = TRUE]
    BY DEF SweepFlags
  <2> QED BY <1>1, <2>1, MarkedRow, SameJourneys
<1>7. CASE UNCHANGED <<started, wfi, step>>
  BY <1>1, <1>7, SameJourneys
<1> QED BY <1>2, <1>3, <1>4, <1>5, <1>6, <1>7, JourneyWriters

-----------------------------------------------------------------------------
(* Every step keeps the types of the rest.                                 *)

LEMMA EditedRowType ==
  ASSUME TypeOK, NEW x \in EditType, x.phase = "open"
  PROVE  EditedRow(x) \in TariffRow
<1>1. /\ x.obj \in Tariffs /\ x.kind \in AllEdits /\ x.actor \in Users
      /\ x.row \in TariffRow /\ x.snap \in TariffRow
  BY EditFields, ActorAssumption
<1>2. tariff[x.obj] \in TariffRow
  BY <1>1 DEF TypeOK
<1>3. Target(x.kind, x.row.status) \in TariffStatus
  BY <1>1 DEF Target, AllEdits, TariffStatus, TariffRow
<1> HIDE DEF TariffStatus
<1> QED BY <1>1, <1>2, <1>3 DEF EditedRow, SavedColumn, TariffRow, Actors

LEMMA TariffWriters ==
  ASSUME Next
  PROVE \/ \E e \in Editors : EditCommits(e)
        \/ \E p \in Reviewers \cup Sweepers : ReviewCommits(p)
        \/ UNCHANGED tariff
BY DEF Next, PublishDefinition, DeadlinePasses, EditReads, EditOpens,
       EditAborts, ReviewOpens, ReviewTransaction, ReviewLocks, ReviewAborts,
       SweepFinds, SweepFlags, Dispatch, SweepNotifies, SweepAutoApproves,
       EscalationLocks, EscalationCommits, SweepAborts

LEMMA TariffStep ==
  ASSUME TypeOK, Next PROVE tariff' \in [Tariffs -> TariffRow]
<1>1. CASE \E e \in Editors : EditCommits(e)
  <2> SUFFICES ASSUME NEW e \in Editors, EditCommits(e)
               PROVE  tariff' \in [Tariffs -> TariffRow]
    BY <1>1
  <2>1. edit[e] \in EditType /\ edit[e].phase = "open"
    BY DEF EditCommits, TypeOK
  <2>2. EditedRow(edit[e]) \in TariffRow /\ tariff \in [Tariffs -> TariffRow]
    BY <2>1, EditedRowType DEF TypeOK
  <2> HIDE DEF TariffRow
  <2> QED BY <2>2 DEF EditCommits
<1>2. CASE \E p \in Reviewers \cup Sweepers : ReviewCommits(p)
  <2> SUFFICES ASSUME NEW p \in Reviewers \cup Sweepers, ReviewCommits(p)
               PROVE  tariff' \in [Tariffs -> TariffRow]
    BY <1>2
  <2> DEFINE x == review[p]
  <2>1. tariff \in [Tariffs -> TariffRow]
    BY DEF TypeOK
  <2>2. \/ tariff' = tariff
        \/ \E v \in TariffStatus : tariff' = [tariff EXCEPT ![x.obj].status =
              SavedColumn(v, x.seenStatus, @)]
    BY DEF ReviewCommits, Approve, Reject, TariffStatus
  <2>3. \A v \in TariffStatus : \A r \in TariffRow :
           [r EXCEPT !.status = SavedColumn(v, x.seenStatus, @)] \in TariffRow
    BY DEF SavedColumn, TariffRow
  <2>4. \A v \in TariffStatus : [tariff EXCEPT ![x.obj].status =
                                    SavedColumn(v, x.seenStatus, @)]
                                \in [Tariffs -> TariffRow]
    BY <2>1, <2>3
  <2> QED BY <2>1, <2>2, <2>4
<1>3. CASE UNCHANGED tariff
  BY <1>3 DEF TypeOK
<1> QED BY <1>1, <1>2, <1>3, TariffWriters

LEMMA EditWriters ==
  ASSUME Next
  PROVE \/ \E e \in Editors, t \in Tariffs, k \in EditKinds, u \in Users :
              EditReads(e, t, k, u)
        \/ \E e \in Editors : EditOpens(e)
        \/ \E e \in Editors : edit' = [edit EXCEPT ![e] = Idle]
        \/ UNCHANGED edit
BY DEF Next, PublishDefinition, DeadlinePasses, EditCommits, EditAborts,
       ReviewOpens, ReviewTransaction, ReviewLocks, ReviewCommits, ReviewAborts,
       SweepFinds, SweepFlags, Dispatch, SweepNotifies, SweepAutoApproves,
       EscalationLocks, EscalationCommits, SweepAborts

LEMMA EditStep ==
  ASSUME TypeOK, Next PROVE edit' \in [Editors -> EditType]
<1>1. edit \in [Editors -> EditType] /\ Idle \in EditType
  BY DEF TypeOK, EditType
<1>2. CASE \E e \in Editors, t \in Tariffs, k \in EditKinds, u \in Users :
             EditReads(e, t, k, u)
  <2> SUFFICES ASSUME NEW e \in Editors, NEW t \in Tariffs, NEW k \in EditKinds,
                      NEW u \in Users, EditReads(e, t, k, u)
               PROVE  edit' \in [Editors -> EditType]
    BY <1>2
  <2>1. tariff[t] \in TariffRow
    BY DEF TypeOK
  <2>2. [phase |-> "read", obj |-> t, kind |-> k, actor |-> u, row |-> tariff[t]]
          \in EditType
    BY <2>1 DEF EditType
  <2> HIDE DEF EditType
  <2> QED BY <1>1, <2>2 DEF EditReads
<1>3. CASE \E e \in Editors : EditOpens(e)
  <2> SUFFICES ASSUME NEW e \in Editors, EditOpens(e)
               PROVE  edit' \in [Editors -> EditType]
    BY <1>3
  <2> DEFINE x == edit[e]
             w == {i \in InstancesOf(x.obj) : Waiting(i)}
             opened == [phase |-> "open", obj |-> x.obj, kind |-> x.kind,
                        actor |-> x.actor, row |-> x.row,
                        snap |-> tariff[x.obj], waiting |-> w, def |-> published]
  <2>1. /\ x.obj \in Tariffs /\ x.kind \in EditKinds /\ x.actor \in Users
        /\ x.row \in TariffRow
    BY <1>1, EditFields DEF EditOpens
  <2>2. tariff[x.obj] \in TariffRow /\ published \in 0..MaxDef
    BY <2>1 DEF TypeOK
  <2>3. w \in SUBSET Instances
    BY BoundAssumption DEF TypeOK, JourneyType, InstancesOf, Instances
  <2>4. opened \in EditType
    BY <2>1, <2>2, <2>3 DEF EditType
  <2>5. edit' = [edit EXCEPT ![e] = opened]
    BY <1>1 DEF EditOpens
  <2> HIDE DEF opened
  <2> QED BY <1>1, <2>4, <2>5
<1>4. CASE \E e \in Editors : edit' = [edit EXCEPT ![e] = Idle]
  BY <1>1, <1>4
<1>5. CASE UNCHANGED edit
  BY <1>1, <1>5
<1> QED BY <1>2, <1>3, <1>4, <1>5, EditWriters

LEMMA SnapshotType ==
  ASSUME TypeOK, NEW t \in Tariffs, NEW i \in 0..started,
         NEW k \in {"approve", "reject"}, NEW u \in Actors
  PROVE  Snapshot(t, i, k, u) \in ReviewType
<1>1. i \in 0..MaxInst /\ OpenLevels(i) \in SUBSET Levels
  BY BoundAssumption DEF TypeOK, JourneyType, OpenLevels
<1>2. tariff[t].status \in TariffStatus
  BY DEF TypeOK, TariffRow
<1> HIDE DEF TariffStatus, Levels
<1> QED BY <1>1, <1>2 DEF Snapshot, ReviewType

LEMMA LockedType ==
  ASSUME NEW x \in ReviewType, x.phase = "open"
  PROVE  [x EXCEPT !.phase = "locked"] \in ReviewType
BY DEF ReviewType, Idle

LEMMA ReviewWriters ==
  ASSUME Next
  PROVE \/ \E p \in Reviewers, t \in Tariffs, k \in {"approve", "reject"},
              u \in Users : ReviewOpens(p, t, k, u)
        \/ \E s \in Sweepers : SweepAutoApproves(s)
        \/ \E p \in Reviewers \cup Sweepers : ReviewLocks(p)
        \/ \E p \in Reviewers \cup Sweepers : review' = [review EXCEPT ![p] = Idle]
        \/ UNCHANGED review
BY DEF Next, PublishDefinition, DeadlinePasses, EditReads, EditOpens,
       EditCommits, EditAborts, ReviewTransaction, ReviewCommits, ReviewAborts,
       SweepFinds, SweepFlags, Dispatch, SweepNotifies, EscalationLocks,
       EscalationCommits, SweepAborts

LEMMA ReviewStep ==
  ASSUME TypeOK, Next PROVE review' \in [Reviewers \cup Sweepers -> ReviewType]
<1>1. /\ review \in [Reviewers \cup Sweepers -> ReviewType] /\ Idle \in ReviewType
      /\ "approve" \in {"approve", "reject"} /\ System \in Actors
      /\ Users \subseteq Actors
  BY DEF TypeOK, ReviewType, Actors
<1>2. CASE \E p \in Reviewers, t \in Tariffs, k \in {"approve", "reject"},
             u \in Users : ReviewOpens(p, t, k, u)
  BY <1>1, <1>2, SnapshotType DEF ReviewOpens
<1>3. CASE \E s \in Sweepers : SweepAutoApproves(s)
  <2> SUFFICES ASSUME NEW s \in Sweepers, SweepAutoApproves(s)
               PROVE  review' \in [Reviewers \cup Sweepers -> ReviewType]
    BY <1>3
  <2>1. wfi[sweep[s].inst].obj \in Tariffs
    BY DEF TypeOK, JourneyType, InstanceRow, SweepType
  <2> QED BY <1>1, <2>1, SnapshotType DEF SweepAutoApproves
<1>4. CASE \E p \in Reviewers \cup Sweepers : ReviewLocks(p)
  BY <1>1, <1>4, LockedType DEF ReviewLocks
<1>5. CASE \E p \in Reviewers \cup Sweepers : review' = [review EXCEPT ![p] = Idle]
  BY <1>1, <1>5
<1>6. CASE UNCHANGED review
  BY <1>1, <1>6
<1> QED BY <1>2, <1>3, <1>4, <1>5, <1>6, ReviewWriters

LEMMA SweepFields ==
  ASSUME NEW x \in SweepType
  PROVE  /\ x.todo \in SUBSET (Instances \X Levels)
         /\ x.inst \in Instances /\ x.level \in Levels
         /\ 1 \in Instances /\ 0 \in Levels
BY BoundAssumption DEF SweepType, Instances, Levels

LEMMA SweepStep ==
  ASSUME TypeOK, Next PROVE sweep' \in [Sweepers -> SweepType]
<1>1. sweep \in [Sweepers -> SweepType]
  BY DEF TypeOK
<1>2. CASE \E s \in Sweepers : SweepFinds(s)
  <2>1. DueSteps \in SUBSET (Instances \X Levels)
    BY DEF DueSteps
  <2>2. \A x \in SweepType : [x EXCEPT !.todo = DueSteps] \in SweepType
    BY <2>1 DEF SweepType
  <2> QED BY <1>1, <1>2, <2>2 DEF SweepFinds
<1>3. CASE \E s \in Sweepers, i \in Instances, l \in Levels : SweepFlags(s, i, l)
  <2> SUFFICES ASSUME NEW s \in Sweepers, NEW i \in Instances, NEW l \in Levels,
                      SweepFlags(s, i, l)
               PROVE  sweep' \in [Sweepers -> SweepType]
    BY <1>3
  <2> DEFINE fresh == step[i][l].state = "OPEN" /\ ~step[i][l].breached
             next == [phase |-> IF fresh THEN "dispatch" ELSE "sweeping",
                      todo |-> sweep[s].todo \ {<<i, l>>},
                      inst |-> IF fresh THEN i ELSE 1,
                      level |-> IF fresh THEN l ELSE 0]
  <2>1. next \in SweepType
    BY <1>1, SweepFields DEF SweepType
  <2>2. sweep' = [sweep EXCEPT ![s] = next]
    BY <1>1 DEF SweepFlags
  <2> HIDE DEF next
  <2> QED BY <1>1, <2>1, <2>2
<1>4. \A s \in Sweepers :
        /\ NextDue(s) \in [Sweepers -> SweepType]
        /\ [NextDue(s) EXCEPT ![s].todo = {}] \in [Sweepers -> SweepType]
  <2> SUFFICES ASSUME NEW s \in Sweepers
               PROVE  /\ NextDue(s) \in [Sweepers -> SweepType]
                      /\ [NextDue(s) EXCEPT ![s].todo = {}]
                           \in [Sweepers -> SweepType]
    OBVIOUS
  <2> DEFINE next == [phase |-> "sweeping", todo |-> sweep[s].todo,
                      inst |-> 1, level |-> 0]
  <2>1. next \in SweepType /\ [next EXCEPT !.todo = {}] \in SweepType
    <3>1. sweep[s].todo \in SUBSET (Instances \X Levels)
          /\ 1 \in Instances /\ 0 \in Levels
      BY <1>1, SweepFields
    <3> QED BY <3>1 DEF SweepType
  <2>2. NextDue(s) = [sweep EXCEPT ![s] = next]
    BY <1>1 DEF NextDue
  <2> HIDE DEF next
  <2> QED BY <1>1, <2>1, <2>2
<1>5. CASE \E s \in Sweepers :
             \/ sweep' = NextDue(s)
             \/ sweep' = [NextDue(s) EXCEPT ![s].todo = {}]
  BY <1>4, <1>5
<1>6. CASE \E s \in Sweepers : sweep' = [sweep EXCEPT ![s].phase = "escalating"]
  <2>1. \A x \in SweepType : [x EXCEPT !.phase = "escalating"] \in SweepType
    BY DEF SweepType
  <2> QED BY <1>1, <1>6, <2>1
<1>7. CASE UNCHANGED sweep
  BY <1>1, <1>7
<1> QED
  BY <1>2, <1>3, <1>5, <1>6, <1>7
     DEF Next, PublishDefinition, DeadlinePasses, EditReads, EditOpens, EditCommits,
         EditAborts, ReviewOpens, ReviewTransaction, ReviewLocks, ReviewCommits,
         ReviewAborts, Dispatch, SweepNotifies, SweepAutoApproves, EscalationLocks,
         EscalationCommits, SweepAborts

LEMMA TypeStep == ASSUME IInv, Next PROVE TypeOK'
<1>1. UNCHANGED published \/ PublishDefinition
  BY ZenonT(60) DEF Next, DeadlinePasses, EditReads, EditOpens, EditCommits,
         EditAborts, ReviewOpens, ReviewTransaction, ReviewLocks, ReviewCommits,
         ReviewAborts, SweepFinds, SweepFlags, Dispatch, SweepNotifies,
         SweepAutoApproves, EscalationLocks, EscalationCommits, SweepAborts
<1>2. published' \in 0..MaxDef
  BY <1>1, BoundAssumption DEF IInv, TypeOK, PublishDefinition
<1> QED
  BY <1>2, JourneysStep, TariffStep, EditStep, ReviewStep, SweepStep
     DEF IInv, TypeOK

-----------------------------------------------------------------------------
(* Every step keeps the locks.                                             *)

\* It is enough that nobody new locks and that what is locked stays as it is.
LEMMA LocksKept ==
  ASSUME Locks,
         \A p \in Reviewers \cup Sweepers :
           review'[p].phase = "locked" => review'[p] = review[p],
         \A s \in Sweepers :
           sweep'[s].phase = "escalating" => sweep'[s] = sweep[s],
         \A p \in Reviewers \cup Sweepers :
           review'[p].phase = "locked" /\ review[p].inst # 0 =>
             wfi'[review[p].inst].status = wfi[review[p].inst].status,
         \A s \in Sweepers :
           sweep'[s].phase = "escalating" =>
             step'[sweep[s].inst][sweep[s].level].state =
               step[sweep[s].inst][sweep[s].level].state
  PROVE  Locks'
BY DEF Locks, Waiting

LEMMA LocksEdit ==
  ASSUME IInv, NEW e \in Editors, EditCommits(e) PROVE Locks'
<1> DEFINE new == started + 1
<1>1. UNCHANGED <<review, sweep>>
  BY DEF EditCommits
<1>2. CASE UNCHANGED <<wfi, step>>
  BY <1>1, <1>2, LocksKept DEF IInv
<1>3. CASE StartInstance(edit[e].obj, edit[e].actor, edit[e].def, edit[e].waiting)
  <2>1. /\ \A i \in Instances : ~Waiting(i) => \A p \in Reviewers \cup Sweepers :
             review[p].phase = "locked" => review[p].inst # i
        /\ new \in Instances /\ ~Waiting(new) /\ 0 \in Levels
        /\ \A l \in Levels : step[new][l].state = "ABSENT"
    BY <1>3, BoundAssumption
       DEF IInv, Locks, Registry, Waiting, StartInstance, TypeOK, JourneyType,
           Instances, Levels
  <2>2. ASSUME NEW p \in Reviewers \cup Sweepers, review[p].phase = "locked",
               review[p].inst # 0
        PROVE  wfi'[review[p].inst] = wfi[review[p].inst]
    <3>1. review[p].inst \in Instances
      BY <2>2, ReviewFields DEF IInv, TypeOK, Instances
    <3>2. review[p].inst # new /\ review[p].inst \notin edit[e].waiting
      BY <1>3, <2>1, <2>2 DEF StartInstance, InstanceLocked
    <3> QED BY <1>3, <3>1, <3>2 DEF StartInstance
  <2>3. ASSUME NEW s \in Sweepers, sweep[s].phase = "escalating"
        PROVE  step'[sweep[s].inst][sweep[s].level] =
                 step[sweep[s].inst][sweep[s].level]
    <3>1. /\ sweep[s].inst \in Instances /\ sweep[s].level \in Levels
          /\ step[sweep[s].inst][sweep[s].level].state = "OPEN"
      BY <2>3, SweepFields DEF IInv, TypeOK, Locks
    <3>2. sweep[s].inst # new
      BY <2>1, <3>1
    <3> QED BY <1>3, <3>1, <3>2 DEF StartInstance, IInv, TypeOK, JourneyType
  <2> QED BY <1>1, <2>2, <2>3, LocksKept DEF IInv
<1> QED BY <1>2, <1>3 DEF EditCommits

\* A reviewer commits: nobody else holds his instance, no sweep holds its step.
LEMMA LocksReview ==
  ASSUME IInv, NEW p \in Reviewers \cup Sweepers, ReviewCommits(p) PROVE Locks'
<1> DEFINE x == review[p]
           i == x.inst
           l == wfi[i].level
<1>1. /\ sweep' = sweep /\ x.phase = "locked" /\ x.inst \in 0..MaxInst
      /\ \A q \in Reviewers \cup Sweepers : review'[q].phase = "locked" =>
           q # p /\ review'[q] = review[q]
  BY ReviewFields DEF ReviewCommits, IInv, TypeOK, Idle
<1>2. CASE UNCHANGED <<wfi, step>>
  BY <1>1, <1>2, LocksKept DEF IInv
<1>3. CASE ~UNCHANGED <<wfi, step>>
  <2>1. /\ i \in Instances /\ Waiting(i) /\ ~StepLocked(i, l)
        /\ RecordApproval(x) \/ RecordRejection(x)
    BY <1>1, <1>3, BoundAssumption
       DEF ReviewCommits, Approve, Reject, IInv, Locks, Instances
  <2>2. JourneyType /\ Trails
    BY DEF IInv, TypeOK, Trails
  <2>3. l \in Levels /\ LevelCount[wfi[i].def] \in 1..MaxLevels
    BY <2>1, <2>2, OpenAtLevel
  <2>4. \A j \in Instances \ {i} : wfi'[j] = wfi[j] /\ step'[j] = step[j]
    BY <2>1, <2>2
       DEF RecordApproval, RecordRejection, CloseStep, AdvanceStep, JourneyType
  <2>5. ASSUME NEW q \in Reviewers \cup Sweepers, review'[q].phase = "locked",
               review[q].inst # 0
        PROVE  wfi'[review[q].inst].status = wfi[review[q].inst].status
    <3>1. review[q].inst # i
      BY <1>1, <2>1, <2>5 DEF IInv, Locks, Instances
    <3>2. review[q].inst \in Instances
      BY <1>1, <2>5, ReviewFields DEF IInv, TypeOK, Instances
    <3> QED BY <2>4, <3>1, <3>2
  <2>6. ASSUME NEW s \in Sweepers, sweep[s].phase = "escalating"
        PROVE  step'[sweep[s].inst][sweep[s].level] =
                 step[sweep[s].inst][sweep[s].level]
    <3> DEFINE j == sweep[s].inst
               k == sweep[s].level
    <3>1. j \in Instances /\ k \in Levels /\ step[j][k].state = "OPEN"
      BY <2>6, SweepFields DEF IInv, TypeOK, Locks
    <3>2. CASE j # i
      BY <2>4, <3>1, <3>2
    <3>3. CASE j = i
      \* the open step of a waiting instance is that of its level, which is free
      <4>1. k = l
        BY <2>1, <3>1, <3>3 DEF IInv, OneOpenStep, Passed, Levels, LevelsOf
      <4> QED BY <2>1, <2>6, <3>3, <4>1 DEF StepLocked
    <3> QED BY <3>2, <3>3
  <2> QED BY <1>1, <2>5, <2>6, LocksKept DEF IInv
<1> QED BY <1>2, <1>3

\* A sweep escalates: no other one holds this step; the instance goes on waiting.
LEMMA LocksEscalation ==
  ASSUME IInv, NEW s \in Sweepers, EscalationCommits(s) PROVE Locks'
<1> DEFINE i == sweep[s].inst
           l == sweep[s].level
<1>1. /\ i \in Instances /\ l \in Levels /\ step[i][l].state = "OPEN"
      /\ JourneyType /\ sweep \in [Sweepers -> SweepType]
  BY DEF EscalationCommits, IInv, TypeOK, SweepType, Locks
<1>2. /\ review' = review
      /\ \A j \in Instances : wfi'[j].status = wfi[j].status
  BY <1>1 DEF EscalationCommits, JourneyType
<1>3. \A z \in Sweepers : sweep'[z].phase = "escalating" =>
        z # s /\ sweep'[z] = sweep[z]
  BY <1>1 DEF EscalationCommits, NextDue
<1>4. \A j \in Instances, k \in Levels :
        step'[j][k].state = IF j = i /\ k = l THEN "ESCALATED"
                            ELSE IF j = i /\ k = l + 1 THEN "OPEN"
                            ELSE step[j][k].state
  <2>1. i <= started
    BY <1>1 DEF IInv, Registry
  <2>2. l + 1 \in Levels /\ System \in Actors
    BY <1>1, <2>1, DefinitionSize, BoundAssumption
       DEF EscalationCommits, IInv, Levels, Actors
  <2> QED BY <1>1, <2>2, AdvancedRows DEF EscalationCommits
<1>5. ASSUME NEW z \in Sweepers, sweep'[z].phase = "escalating"
      PROVE  step'[sweep[z].inst][sweep[z].level].state =
               step[sweep[z].inst][sweep[z].level].state
  <2>1. /\ sweep[z].inst \in Instances /\ sweep[z].level \in Levels
        /\ step[sweep[z].inst][sweep[z].level].state = "OPEN"
        /\ ~(sweep[z].inst = i /\ sweep[z].level = l)
    BY <1>1, <1>3, <1>5, SweepFields DEF EscalationCommits, IInv, Locks
  <2> QED BY <1>4, <2>1
<1>6. \A p \in Reviewers \cup Sweepers :
        review'[p].phase = "locked" /\ review[p].inst # 0 =>
          review[p].inst \in Instances
  BY <1>2, ReviewFields DEF IInv, TypeOK, Instances
<1> QED BY <1>2, <1>3, <1>5, <1>6, LocksKept DEF IInv

LEMMA LocksStep == ASSUME IInv, Next PROVE Locks'
<1>1. /\ review \in [Reviewers \cup Sweepers -> ReviewType]
      /\ sweep \in [Sweepers -> SweepType]
      /\ JourneyType /\ Trails /\ Locks /\ Idle.phase # "locked"
  BY DEF IInv, TypeOK, Trails, Idle
<1>2. CASE \E e \in Editors : EditCommits(e)
  BY <1>2, LocksEdit
<1>3. CASE \E p \in Reviewers \cup Sweepers : ReviewCommits(p)
  BY <1>3, LocksReview
<1>4. CASE \E s \in Sweepers : EscalationCommits(s)
  BY <1>4, LocksEscalation
<1>5. CASE \E p \in Reviewers \cup Sweepers : ReviewLocks(p)
  \* only a row that nobody holds is locked, and it is found waiting
  <2> SUFFICES ASSUME NEW p \in Reviewers \cup Sweepers, ReviewLocks(p)
               PROVE  Locks'
    BY <1>5
  <2>1. UNCHANGED <<wfi, step, sweep>>
    BY DEF ReviewLocks
  <2>2. \A q \in Reviewers \cup Sweepers : q # p => review'[q] = review[q]
    BY <1>1 DEF ReviewLocks
  <2>3. review'[p].phase = "locked" /\ review'[p].inst # 0 =>
          /\ review'[p].inst = review[p].inst
          /\ Waiting(review[p].inst) /\ ~InstanceLocked(review[p].inst)
    BY <1>1 DEF ReviewLocks, MayAct, Waiting
  <2> QED BY <1>1, <2>1, <2>2, <2>3 DEF Locks, InstanceLocked, Waiting
<1>6. CASE \E s \in Sweepers : EscalationLocks(s)
  <2> SUFFICES ASSUME NEW s \in Sweepers, EscalationLocks(s) PROVE Locks'
    BY <1>6
  <2>1. UNCHANGED <<wfi, step, review>>
    BY DEF EscalationLocks
  <2>2. \A z \in Sweepers : z # s => sweep'[z] = sweep[z]
    BY <1>1 DEF EscalationLocks, NextDue
  <2>3. sweep'[s].phase = "escalating" =>
          /\ sweep'[s].inst = sweep[s].inst /\ sweep'[s].level = sweep[s].level
          /\ step[sweep[s].inst][sweep[s].level].state = "OPEN"
          /\ ~StepLocked(sweep[s].inst, sweep[s].level)
    BY <1>1 DEF EscalationLocks, NextDue, SweepType
  <2> QED BY <1>1, <2>1, <2>2, <2>3 DEF Locks, StepLocked, Waiting
<1>7. CASE \/ \E i \in Instances, l \in Levels : DeadlinePasses(i, l)
           \/ \E s \in Sweepers, i \in Instances, l \in Levels : SweepFlags(s, i, l)
  <2>1. /\ UNCHANGED <<review, wfi>>
        /\ \A j \in Instances, k \in Levels : step'[j][k].state = step[j][k].state
    <3>1. CASE \E i \in Instances, l \in Levels : DeadlinePasses(i, l)
      BY <1>1, <3>1, MarkedRow DEF DeadlinePasses
    <3>2. ASSUME NEW s \in Sweepers, NEW i \in Instances, NEW l \in Levels,
                 SweepFlags(s, i, l)
          PROVE  /\ UNCHANGED <<review, wfi>>
                 /\ \A j \in Instances, k \in Levels :
                      step'[j][k].state = step[j][k].state
      <4>1. /\ UNCHANGED <<started, wfi, review>>
            /\ step' = step \/ step' = [step EXCEPT ![i][l].breached = TRUE]
        BY <3>2 DEF SweepFlags
      <4> QED BY <1>1, <4>1, MarkedRow
    <3> QED BY <1>7, <3>1, <3>2
  <2>2. \A z \in Sweepers : sweep'[z].phase = "escalating" => sweep'[z] = sweep[z]
    <3>1. CASE UNCHANGED sweep
      BY <3>1
    <3>2. CASE \E s \in Sweepers, i \in Instances, l \in Levels :
                 SweepFlags(s, i, l)
      BY <1>1, <3>2 DEF SweepFlags
    <3> QED BY <1>7, <3>1, <3>2 DEF DeadlinePasses
  <2> QED BY <1>1, <2>1, <2>2, LocksKept, SweepFields
<1>8. CASE /\ UNCHANGED <<wfi, step>>
           /\ \A p \in Reviewers \cup Sweepers :
                review'[p].phase = "locked" => review'[p] = review[p]
           /\ \A s \in Sweepers :
                sweep'[s].phase = "escalating" => sweep'[s] = sweep[s]
  BY <1>1, <1>8, LocksKept
<1> QED
  <2>1. CASE UNCHANGED <<wfi, step, review, sweep>>
    BY <1>8, <2>1
  <2>2. ASSUME NEW p \in Reviewers, NEW t \in Tariffs, NEW u \in Users,
               NEW k \in {"approve", "reject"}, ReviewOpens(p, t, k, u)
        PROVE  Locks'
    BY <1>1, <1>8, <2>2 DEF ReviewOpens, Snapshot
  <2>3. ASSUME NEW p \in Reviewers \cup Sweepers, ReviewAborts(p) PROVE Locks'
    BY <1>1, <1>8, <2>3 DEF ReviewAborts
  <2>4. ASSUME NEW s \in Sweepers, SweepFinds(s) PROVE Locks'
    BY <1>1, <1>8, <2>4 DEF SweepFinds
  <2>5. ASSUME NEW s \in Sweepers, SweepNotifies(s) PROVE Locks'
    BY <1>1, <1>8, <2>5 DEF SweepNotifies, NextDue
  <2>6. ASSUME NEW s \in Sweepers, SweepAutoApproves(s) PROVE Locks'
    BY <1>1, <1>8, <2>6 DEF SweepAutoApproves, NextDue, Snapshot
  <2>7. ASSUME NEW s \in Sweepers, SweepAborts(s) PROVE Locks'
    BY <1>1, <1>8, <2>7 DEF SweepAborts, NextDue
  <2> QED
    BY <1>2, <1>3, <1>4, <1>5, <1>6, <1>7, <2>1, <2>2, <2>3, <2>4, <2>5, <2>6, <2>7
       DEF Next, PublishDefinition, EditReads, EditOpens, EditAborts,
           ReviewTransaction, Dispatch

LEMMA SnapshotsStep == ASSUME IInv, Next PROVE Snapshots'
<1>1. started \in Nat /\ edit \in [Editors -> EditType] /\ Snapshots
  BY BoundAssumption DEF IInv, TypeOK, JourneyType
<1>2. started' = started \/ started' = started + 1
  BY JourneyWriters
     DEF DeadlinePasses, EditCommits, StartInstance, ReviewCommits, SweepFlags,
         EscalationCommits
<1>3. \A e \in Editors : edit'[e].phase = "open" =>
        edit'[e] = edit[e] \/ edit'[e].waiting \subseteq 1..started
  <2>1. CASE UNCHANGED edit
    BY <2>1
  <2>2. CASE \E e \in Editors : edit' = [edit EXCEPT ![e] = Idle]
    BY <1>1, <2>2 DEF Idle
  <2>3. CASE \E e \in Editors, t \in Tariffs, k \in EditKinds, u \in Users :
               EditReads(e, t, k, u)
    BY <1>1, <2>3 DEF EditReads
  <2>4. CASE \E e \in Editors : EditOpens(e)
    BY <1>1, <2>4 DEF EditOpens, InstancesOf
  <2> QED BY <2>1, <2>2, <2>3, <2>4, EditWriters
<1>4. 1..started \subseteq 1..started'
  BY <1>1, <1>2
<1> QED BY <1>1, <1>3, <1>4 DEF Snapshots

-----------------------------------------------------------------------------
(* Rows of steps only grow: closed ones are final, flags are not taken back. *)

StepGrows(i, l) ==
  \/ step'[i][l] = step[i][l]
  \/ step[i][l].state = "ABSENT"
  \/ /\ step[i][l].state = "OPEN" /\ step'[i][l].state # "ABSENT"
     /\ step[i][l].breached => step'[i][l].breached

LEMMA RowGrows ==
  ASSUME JourneyType, NEW i \in Instances, NEW l \in Levels, NEW r,
         step' = [step EXCEPT ![i][l] = r],
         \/ step[i][l].state = "ABSENT"
         \/ /\ step[i][l].state = "OPEN" /\ r.state # "ABSENT"
            /\ step[i][l].breached => r.breached
  PROVE  \A j \in Instances, k \in Levels : StepGrows(j, k)
BY DEF JourneyType, StepGrows

LEMMA CloseGrows ==
  ASSUME JourneyType, NEW i \in Instances, NEW l \in Levels, NEW s \in Closed,
         NEW u \in Actors, step[i][l].state = "OPEN", step' = CloseStep(i, l, s, u)
  PROVE  \A j \in Instances, k \in Levels : StepGrows(j, k)
<1> DEFINE r == [step[i][l] EXCEPT !.state = s, !.by = u]
<1>1. step[i][l] \in StepRow
  BY DEF JourneyType
<1>2. r.state # "ABSENT" /\ (step[i][l].breached => r.breached)
  BY <1>1 DEF StepRow, Closed
<1>3. step' = [step EXCEPT ![i][l] = r]
  BY DEF CloseStep, JourneyType
<1> HIDE DEF r
<1> QED BY <1>2, <1>3, RowGrows

LEMMA AdvanceGrows ==
  ASSUME JourneyType, NEW i \in Instances, NEW l \in Levels, l + 1 \in Levels,
         NEW s \in Closed, NEW u \in Actors,
         step[i][l].state = "OPEN", step[i][l + 1].state = "ABSENT",
         step' = AdvanceStep(i, l, s, u)
  PROVE  \A j \in Instances, k \in Levels : StepGrows(j, k)
<1> DEFINE r == [step[i][l] EXCEPT !.state = s, !.by = u]
           c == [step EXCEPT ![i][l] = r]
<1>1. step[i][l] \in StepRow /\ l # l + 1
  BY DEF JourneyType, Levels
<1>2. r.state # "ABSENT" /\ (step[i][l].breached => r.breached)
  BY <1>1 DEF StepRow, Closed
<1>3. step' = [c EXCEPT ![i][l + 1] = OpenStep]
  BY DEF AdvanceStep, CloseStep, JourneyType
<1> HIDE DEF r, OpenStep
<1>4. \A j \in Instances, k \in Levels :
        step'[j][k] = IF j = i /\ k = l THEN r
                      ELSE IF j = i /\ k = l + 1 THEN OpenStep ELSE step[j][k]
  BY <1>1, <1>3 DEF JourneyType
<1> HIDE DEF c
<1> QED BY <1>2, <1>4 DEF StepGrows

\* No row exists above an open one.
LEMMA AbsentAbove ==
  ASSUME JourneyType, Trails, NEW i \in Instances, NEW l \in Levels,
         step[i][l].state = "OPEN"
  PROVE  i <= started /\ \A k \in Levels : k > l => step[i][k].state = "ABSENT"
<1>1. i <= started
  BY DEF Trails, Registry
<1> QED BY <1>1 DEF Trails, LevelsInOrder, LevelsOf, Levels, Passed

LEMMA GrowthStep ==
  ASSUME IInv, Next PROVE \A i \in Instances, l \in Levels : StepGrows(i, l)
<1>1. JourneyType /\ Trails /\ Closed = {"APPROVED", "REJECTED", "ESCALATED"}
  BY DEF IInv, TypeOK, Trails, Closed
<1>2. ASSUME NEW i \in Instances, NEW l \in Levels, DeadlinePasses(i, l)
      PROVE  \A j \in Instances, k \in Levels : StepGrows(j, k)
  <2> DEFINE r == [step[i][l] EXCEPT !.overdue = TRUE]
  <2>1. step[i][l] \in StepRow /\ step[i][l].state = "OPEN"
        /\ step' = [step EXCEPT ![i][l] = r]
    BY <1>1, <1>2 DEF DeadlinePasses, JourneyType
  <2>2. r.state = step[i][l].state /\ r.breached = step[i][l].breached
    BY <2>1 DEF StepRow
  <2> HIDE DEF r
  <2> QED BY <1>1, <2>1, <2>2, RowGrows
<1>3. ASSUME NEW e \in Editors, EditCommits(e)
      PROVE  \A j \in Instances, k \in Levels : StepGrows(j, k)
  <2>1. CASE step' = step
    BY <2>1 DEF StepGrows
  <2>2. CASE /\ started < MaxInst
             /\ step' = [step EXCEPT ![started + 1][0] = OpenStep]
    <3>1. started + 1 \in Instances /\ 0 \in Levels /\ ~(started + 1 <= started)
      BY <1>1, <2>2, BoundAssumption DEF JourneyType, Instances, Levels
    <3>2. step[started + 1][0].state = "ABSENT"
      BY <1>1, <3>1 DEF Trails, Registry
    <3> QED BY <1>1, <2>2, <3>1, <3>2, RowGrows
  <2> QED BY <1>3, <2>1, <2>2 DEF EditCommits, StartInstance
<1>4. ASSUME NEW p \in Reviewers \cup Sweepers, ReviewCommits(p)
      PROVE  \A j \in Instances, k \in Levels : StepGrows(j, k)
  <2> DEFINE x == review[p]
             i == x.inst
             l == wfi[i].level
  <2>1. CASE step' = step
    BY <2>1 DEF StepGrows
  <2>2. CASE step' # step
    <3>1. /\ i \in Instances /\ Waiting(i) /\ x.actor \in Actors
          /\ \/ step' = CloseStep(i, l, "APPROVED", x.actor)
             \/ step' = CloseStep(i, l, "REJECTED", x.actor)
             \/ /\ ~IsFinalLevel(x)
                /\ step' = AdvanceStep(i, l, "APPROVED", x.actor)
      <4>1. /\ x.phase = "locked" /\ x.inst # 0
            /\ RecordApproval(x) \/ RecordRejection(x)
        BY <1>4, <2>2 DEF ReviewCommits, Approve, Reject
      <4>2. x \in ReviewType /\ x.phase # "idle" /\ Waiting(i)
        BY <4>1 DEF IInv, TypeOK, Locks
      <4>3. i \in Instances /\ x.actor \in Actors
        BY <4>1, <4>2, ReviewFields, BoundAssumption DEF Instances
      <4> QED BY <4>1, <4>2, <4>3 DEF RecordApproval, RecordRejection
    <3>2. /\ l \in Levels /\ step[i][l].state = "OPEN"
          /\ LevelCount[wfi[i].def] \in 1..MaxLevels
      BY <1>1, <3>1, OpenAtLevel
    <3>3. CASE ~IsFinalLevel(x) /\ step' = AdvanceStep(i, l, "APPROVED", x.actor)
      <4>1. l + 1 \in Levels
        BY <3>2, <3>3, BoundAssumption DEF IsFinalLevel, Levels
      <4>2. step[i][l + 1].state = "ABSENT"
        BY <1>1, <3>1, <3>2, <4>1, AbsentAbove DEF Levels
      <4> QED BY <1>1, <3>1, <3>2, <3>3, <4>1, <4>2, AdvanceGrows
    <3> QED BY <1>1, <3>1, <3>2, <3>3, CloseGrows
  <2> QED BY <2>1, <2>2
<1>5. ASSUME NEW s \in Sweepers, EscalationCommits(s)
      PROVE  \A j \in Instances, k \in Levels : StepGrows(j, k)
  <2> DEFINE i == sweep[s].inst
             l == sweep[s].level
  <2>1. /\ i \in Instances /\ l \in Levels /\ step[i][l].state = "OPEN"
        /\ l + 1 < LevelCount[wfi[i].def] /\ System \in Actors
        /\ step' = AdvanceStep(i, l, "ESCALATED", System)
    BY <1>5 DEF EscalationCommits, IInv, TypeOK, SweepType, Locks, Actors
  <2>2. i <= started /\ \A k \in Levels : k > l => step[i][k].state = "ABSENT"
    BY <1>1, <2>1, AbsentAbove
  <2>3. l + 1 \in Levels /\ l + 1 > l
    BY <1>1, <2>1, <2>2, DefinitionSize, BoundAssumption DEF Trails, Levels
  <2> QED BY <1>1, <2>1, <2>2, <2>3, AdvanceGrows
<1>6. ASSUME NEW s \in Sweepers, NEW i \in Instances, NEW l \in Levels,
             SweepFlags(s, i, l)
      PROVE  \A j \in Instances, k \in Levels : StepGrows(j, k)
  <2> DEFINE r == [step[i][l] EXCEPT !.breached = TRUE]
  <2>1. CASE step' = step
    BY <2>1 DEF StepGrows
  <2>2. CASE step' # step
    <3>1. /\ step[i][l] \in StepRow /\ step[i][l].state = "OPEN"
          /\ step' = [step EXCEPT ![i][l] = r]
      BY <1>1, <1>6, <2>2 DEF SweepFlags, JourneyType
    <3>2. r.state = step[i][l].state /\ r.breached
      BY <3>1 DEF StepRow
    <3> HIDE DEF r
    <3> QED BY <1>1, <3>1, <3>2, RowGrows
  <2> QED BY <2>1, <2>2
<1>7. CASE step' = step
  BY <1>7 DEF StepGrows
<1> QED BY <1>2, <1>3, <1>4, <1>5, <1>6, <1>7, JourneyWriters

\* Only a breach nobody has flagged is dispatched.
LEMMA FlagsStep == ASSUME IInv, Next PROVE Flags' /\ OneDispatcher'
<1>1. /\ sweep \in [Sweepers -> SweepType] /\ Flags /\ OneDispatcher
      /\ \A s \in Sweepers : sweep[s].inst \in Instances /\ sweep[s].level \in Levels
  BY SweepFields DEF IInv, TypeOK
<1>2. \A i \in Instances, l \in Levels :
        step[i][l].state # "ABSENT" /\ step[i][l].breached =>
          step'[i][l].state # "ABSENT" /\ step'[i][l].breached
  BY GrowthStep DEF StepGrows
<1>3. CASE \A s \in Sweepers : sweep'[s].phase # "sweeping" =>
             /\ sweep[s].phase # "sweeping"
             /\ sweep'[s].inst = sweep[s].inst /\ sweep'[s].level = sweep[s].level
  <2>1. Flags'
    BY <1>1, <1>2, <1>3 DEF Flags
  <2>2. OneDispatcher'
    BY <1>1, <1>3 DEF OneDispatcher
  <2> QED BY <2>1, <2>2
<1>4. ASSUME NEW s \in Sweepers, NEW i \in Instances, NEW l \in Levels,
             SweepFlags(s, i, l), sweep'[s].phase # "sweeping"
      PROVE  Flags' /\ OneDispatcher'
  <2> DEFINE fresh == step[i][l].state = "OPEN" /\ ~step[i][l].breached
  <2>1. fresh
    BY <1>1, <1>4 DEF SweepFlags
  <2>2. /\ sweep'[s].inst = i /\ sweep'[s].level = l
        /\ \A z \in Sweepers \ {s} : sweep'[z] = sweep[z]
        /\ step' = [step EXCEPT ![i][l].breached = TRUE]
    BY <1>1, <1>4, <2>1 DEF SweepFlags
  <2>3. step'[i][l].breached /\ step'[i][l].state = "OPEN"
    BY <2>1, <2>2 DEF IInv, TypeOK, JourneyType, StepRow
  <2>4. \A z \in Sweepers : sweep[z].phase # "sweeping" =>
          ~(sweep[z].inst = i /\ sweep[z].level = l)
    BY <1>1, <2>1 DEF Flags
  <2>5. Flags'
    BY <1>1, <1>2, <2>2, <2>3 DEF Flags
  <2>6. OneDispatcher'
    BY <1>1, <2>2, <2>4 DEF OneDispatcher
  <2> QED BY <2>5, <2>6
<1>5. ASSUME NEW s \in Sweepers, NEW i \in Instances, NEW l \in Levels,
             SweepFlags(s, i, l), sweep'[s].phase = "sweeping"
      PROVE  Flags' /\ OneDispatcher'
  <2>1. \A z \in Sweepers \ {s} : sweep'[z] = sweep[z]
    BY <1>1, <1>5 DEF SweepFlags
  <2> QED BY <1>3, <1>5, <2>1
<1>6. ASSUME NEW s \in Sweepers, Dispatch(s) PROVE Flags' /\ OneDispatcher'
  <2>1. /\ \A z \in Sweepers \ {s} : sweep'[z] = sweep[z]
        /\ \/ sweep'[s].phase = "sweeping"
           \/ /\ sweep[s].phase # "sweeping"
              /\ sweep'[s].inst = sweep[s].inst /\ sweep'[s].level = sweep[s].level
    <3>1. CASE sweep' = NextDue(s) \/ sweep' = [NextDue(s) EXCEPT ![s].todo = {}]
      BY <1>1, <3>1 DEF NextDue
    <3>2. CASE /\ sweep[s].phase # "sweeping"
               /\ sweep' = [sweep EXCEPT ![s].phase = "escalating"]
      BY <1>1, <3>2 DEF SweepType
    <3> QED
      BY <1>6, <3>1, <3>2
         DEF Dispatch, SweepNotifies, SweepAutoApproves, EscalationLocks,
             Dispatching, EscalationCommits, SweepAborts
  <2> QED BY <1>3, <2>1
<1>7. ASSUME NEW s \in Sweepers, SweepFinds(s) PROVE Flags' /\ OneDispatcher'
  BY <1>1, <1>3, <1>7 DEF SweepFinds
<1>8. CASE UNCHANGED sweep
  BY <1>3, <1>8
<1> QED
  BY <1>4, <1>5, <1>6, <1>7, <1>8
     DEF Next, PublishDefinition, DeadlinePasses, EditReads, EditOpens, EditCommits,
         EditAborts, ReviewOpens, ReviewTransaction, ReviewLocks, ReviewCommits,
         ReviewAborts

\* Who submitted what, under which definition, is fixed when an instance starts.
SameIdentity(i) ==
  /\ wfi'[i].obj = wfi[i].obj /\ wfi'[i].def = wfi[i].def
  /\ wfi'[i].submittedBy = wfi[i].submittedBy

LEMMA IdentityKept ==
  ASSUME JourneyType, NEW i, NEW v, NEW l,
         \/ wfi' = [wfi EXCEPT ![i].status = v, ![i].level = l]
         \/ wfi' = [wfi EXCEPT ![i].level = l]
  PROVE  \A j \in Instances : SameIdentity(j)
<1>1. \A j \in Instances :
        \/ wfi'[j] = wfi[j]
        \/ wfi'[j] = [[wfi[j] EXCEPT !.status = v] EXCEPT !.level = l]
        \/ wfi'[j] = [wfi[j] EXCEPT !.level = l]
  <2>1. CASE wfi' = [wfi EXCEPT ![i].status = v, ![i].level = l]
    BY <2>1 DEF JourneyType
  <2>2. CASE wfi' = [wfi EXCEPT ![i].level = l]
    BY <2>2 DEF JourneyType
  <2> QED BY <2>1, <2>2
<1>2. \A j \in Instances : wfi[j] \in InstanceRow
  BY DEF JourneyType
<1> QED BY <1>1, <1>2 DEF InstanceRow, SameIdentity

LEMMA HistoryStep == ASSUME IInv, Next PROVE KeepsHistory
<1>1. \A i \in Instances, l \in Levels : IsClosed(i, l) => step'[i][l] = step[i][l]
  BY GrowthStep DEF StepGrows, IsClosed, Closed
<1>2. JourneyType
  BY DEF IInv, TypeOK
<1> SUFFICES \A i \in Instances : i <= started => SameIdentity(i)
  BY <1>1 DEF KeepsHistory, SameIdentity
<1>3. CASE UNCHANGED wfi
  BY <1>3 DEF SameIdentity
<1>4. ASSUME NEW e \in Editors, NEW i \in Instances, i <= started,
             StartInstance(edit[e].obj, edit[e].actor, edit[e].def, edit[e].waiting)
      PROVE  SameIdentity(i)
  <2>1. i # started + 1 /\ wfi[i] \in InstanceRow
    BY <1>2, <1>4, BoundAssumption DEF JourneyType, Instances
  <2>2. wfi'[i] = wfi[i] \/ wfi'[i] = [wfi[i] EXCEPT !.status = "CANCELLED"]
    BY <1>4, <2>1 DEF StartInstance
  <2> QED BY <2>1, <2>2 DEF InstanceRow, SameIdentity
<1>5. ASSUME NEW p \in Reviewers \cup Sweepers, ReviewCommits(p)
      PROVE  \A i \in Instances : SameIdentity(i)
  <2>1. CASE UNCHANGED wfi
    BY <2>1 DEF SameIdentity
  <2>2. CASE RecordApproval(review[p]) \/ RecordRejection(review[p])
    BY <1>2, <2>2, IdentityKept DEF RecordApproval, RecordRejection
  <2> QED BY <1>5, <2>1, <2>2 DEF ReviewCommits, Approve, Reject
<1>6. ASSUME NEW s \in Sweepers, EscalationCommits(s)
      PROVE  \A i \in Instances : SameIdentity(i)
  BY <1>2, <1>6, IdentityKept DEF EscalationCommits
<1>7. \/ UNCHANGED wfi
      \/ \E e \in Editors : StartInstance(edit[e].obj, edit[e].actor, edit[e].def,
                                         edit[e].waiting)
      \/ \E p \in Reviewers \cup Sweepers : ReviewCommits(p)
      \/ \E s \in Sweepers : EscalationCommits(s)
  BY JourneyWriters DEF DeadlinePasses, EditCommits, SweepFlags
<1> QED BY <1>3, <1>4, <1>5, <1>6, <1>7

-----------------------------------------------------------------------------
(* The invariant and what it gives.                                        *)

LEMMA InitIInv == Init => IInv
<1> SUFFICES ASSUME Init PROVE IInv
  OBVIOUS
<1>1. NoStep \in StepRow /\ NoStep.state = "ABSENT"
  BY DEF NoStep, StepRow, StepState, Actors
<1>2. NoInstance \in InstanceRow /\ NoInstance.status = "NONE"
  BY ActorAssumption, BoundAssumption
     DEF NoInstance, InstanceRow, InstanceStatus, Actors
<1>3. /\ started = 0 /\ 1 \in Instances /\ 0 \in Levels /\ Idle.phase = "idle"
      /\ \A i \in Instances : wfi[i].status = "NONE" /\ ~(i <= started)
      /\ \A i \in Instances, l \in Levels : step[i][l].state = "ABSENT"
  BY <1>1, <1>2, BoundAssumption DEF Init, Instances, Levels, Idle
<1>4. JourneyType
  BY <1>1, <1>2, <1>3, BoundAssumption DEF Init, JourneyType
<1>5. /\ tariff \in [Tariffs -> TariffRow] /\ published \in 0..MaxDef
      /\ edit \in [Editors -> EditType]
      /\ review \in [Reviewers \cup Sweepers -> ReviewType]
  BY DEF Init, TariffRow, TariffStatus, Actors, EditType, ReviewType
<1>6. sweep \in [Sweepers -> SweepType]
  BY <1>3 DEF Init, SweepType
<1>7. Locks /\ Snapshots /\ Flags /\ OneDispatcher
  BY DEF Init, Locks, Snapshots, Flags, OneDispatcher, Idle
<1>8. Registry /\ LevelsInOrder /\ OneOpenStep /\ CompletedTrail /\ RejectedTrail
  BY <1>3 DEF Registry, LevelsInOrder, OneOpenStep, CompletedTrail, RejectedTrail,
              Waiting
<1> QED BY <1>4, <1>5, <1>6, <1>7, <1>8 DEF IInv, TypeOK

LEMMA NextIInv == IInv /\ [Next]_vars => IInv'
<1>1. ASSUME IInv, Next PROVE IInv'
  BY <1>1, TypeStep, JourneysStep, LocksStep, SnapshotsStep, FlagsStep
     DEF IInv, Trails
<1>2. ASSUME IInv, UNCHANGED vars PROVE IInv'
  <2>1. TypeOK'
    BY <1>2 DEF IInv, TypeOK, JourneyType, vars
  <2>2. Trails'
    BY <1>2, SameJourneys DEF IInv, Trails, TypeOK, vars
  <2>3. Locks' /\ Snapshots' /\ Flags' /\ OneDispatcher'
    BY <1>2 DEF IInv, Locks, Snapshots, Flags, OneDispatcher, Waiting, vars
  <2> QED BY <2>1, <2>2, <2>3 DEF IInv, Trails
<1> QED BY <1>1, <1>2

\* The inductive invariant of the engine holds, whatever requests and sweeps race.
THEOREM InductiveInvariant == Spec => []IInv
BY InitIInv, NextIInv, PTL DEF Spec

\* Every row and every request in flight keeps its type.
THEOREM TypeCorrect == Spec => []TypeOK
<1>1. IInv => TypeOK
  BY DEF IInv
<1> QED BY <1>1, InductiveInvariant, PTL

\* The steps of an instance fit its status: a waiting one has exactly one open step,
\* that of its level; a COMPLETED one passed all its levels, the last by approval; a
\* REJECTED one was rejected at one level, the last it reached.
THEOREM TrailFitsHolds == Spec => []TrailFits
<1>1. IInv => TrailFits
  BY DEF IInv, TrailFits
<1> QED BY <1>1, InductiveInvariant, PTL

\* Two runs of the sweep never work on the same breach.
THEOREM OneDispatcherHolds == Spec => []OneDispatcher
<1>1. IInv => OneDispatcher
  BY DEF IInv
<1> QED BY <1>1, InductiveInvariant, PTL

\* No step of the system rewrites a closed step or the identity of an instance.
THEOREM HistoryIsKept == Spec => HistoryKept
<1>1. IInv /\ [Next]_vars => [KeepsHistory]_vars
  BY HistoryStep
<1> QED BY <1>1, InductiveInvariant, PTL DEF Spec, HistoryKept

-----------------------------------------------------------------------------
(* No two edits of one tariff in flight: the coupling of tariffs, journeys *)
(* and requests.  An edited tariff is never PENDING, so no review moves it *)
(* and what the edit read still holds when it commits.                     *)

\* What the invariant says of a step row, whoever wrote it.
RowEyes(i, l) ==
  step[i][l].state \in {"APPROVED", "REJECTED"} /\ step[i][l].by # System =>
    /\ step[i][l].by # wfi[i].submittedBy
    /\ LevelRole[wfi[i].def][l] \in RolesOf[step[i][l].by]
    /\ SuperAdmin \notin RolesOf[step[i][l].by]

\* The rows of steps a transition may touch without looking at who decided: those
\* it leaves open, escalates or does not create.
LEMMA EyesKept ==
  ASSUME FourEyes,
         \A i \in Instances, l \in Levels :
           step'[i][l].state \in {"APPROVED", "REJECTED"} =>
             \/ RowEyes(i, l)'
             \/ /\ SameIdentity(i)
                /\ step'[i][l].state = step[i][l].state
                /\ step'[i][l].by = step[i][l].by
  PROVE  FourEyes'
BY DEF FourEyes, RowEyes, SameIdentity

\* A transition that leaves tariffs and instances alone, and of the steps only
\* changes the marks of the clock.
SameCore ==
  /\ UNCHANGED <<tariff, started, wfi>>
  /\ published' \in Nat /\ published <= published'
  /\ \A i \in Instances, l \in Levels :
       step'[i][l].state = step[i][l].state /\ step'[i][l].by = step[i][l].by

\* Requests that are fresh in the state they start or go on in.
AllFresh ==
  /\ edit' \in [Editors -> EditType]
  /\ \A e \in Editors : edit'[e].phase # "idle" => FreshEdit(edit'[e])
  /\ \A p \in Reviewers \cup Sweepers :
       review'[p].phase # "idle" => FreshReview(review'[p])

LEMMA EditsStayFresh ==
  ASSUME IInv, Coupled, Next, NEW e \in Editors, edit'[e].phase # "idle"
  PROVE  FreshEdit(edit'[e])
<1>1. /\ edit \in [Editors -> EditType] /\ EditsFresh /\ Idle.phase = "idle"
      /\ JourneyType /\ published \in Nat
  BY BoundAssumption DEF IInv, TypeOK, Coupled, Idle
<1>2. CASE UNCHANGED edit
  BY <1>1, <1>2 DEF EditsFresh
<1>3. CASE \E f \in Editors : edit' = [edit EXCEPT ![f] = Idle]
  BY <1>1, <1>3 DEF EditsFresh
<1>4. CASE \E f \in Editors, t \in Tariffs, k \in EditKinds, u \in Users :
             EditReads(f, t, k, u)
  <2> SUFFICES ASSUME NEW f \in Editors, NEW t \in Tariffs, NEW k \in EditKinds,
                      NEW u \in Users, EditReads(f, t, k, u)
               PROVE  FreshEdit(edit'[e])
    BY <1>4
  <2> DEFINE x == [phase |-> "read", obj |-> t, kind |-> k, actor |-> u,
                   row |-> tariff[t]]
  <2>1. edit' = [edit EXCEPT ![f] = x] /\ tariff[t].status \in Accepted(k)
    BY DEF EditReads
  <2>2. FreshEdit(x)
    BY <2>1 DEF FreshEdit
  <2> HIDE DEF x
  <2> QED BY <1>1, <2>1, <2>2 DEF EditsFresh
<1>5. CASE \E f \in Editors : EditOpens(f)
  <2> SUFFICES ASSUME NEW f \in Editors, EditOpens(f)
               PROVE  FreshEdit(edit'[e])
    BY <1>5
  <2> DEFINE r == edit[f]
             x == [phase |-> "open", obj |-> r.obj, kind |-> r.kind,
                   actor |-> r.actor, row |-> r.row, snap |-> tariff[r.obj],
                   waiting |-> {i \in InstancesOf(r.obj) : Waiting(i)},
                   def |-> published]
  <2>1. edit' = [edit EXCEPT ![f] = x] /\ r.phase = "read"
    BY <1>1 DEF EditOpens
  <2>2. r.row = tariff[r.obj] /\ r.row.status \in Accepted(r.kind)
    BY <1>1, <2>1 DEF EditsFresh, FreshEdit
  \* every instance is pinned to a published definition
  <2>3. published = 0 => InstancesOf(r.obj) = {}
    BY <1>1, BoundAssumption
       DEF IInv, Registry, Coupled, Pinned, InstancesOf, Defs, Instances, JourneyType
  <2>4. FreshEdit(x)
    BY <1>1, <2>2, <2>3 DEF FreshEdit
  <2> HIDE DEF x
  <2> QED BY <1>1, <2>1, <2>4 DEF EditsFresh
<1> QED BY <1>2, <1>3, <1>4, <1>5, EditWriters

LEMMA SnapshotFresh ==
  ASSUME IInv, NEW t \in Tariffs, NEW i \in 0..started, NEW k, NEW u, Newest(t, i)
  PROVE  FreshReview(Snapshot(t, i, k, u))
<1>1. i # 0 => i \in InstancesOf(t)
  BY DEF Newest
<1> QED BY <1>1 DEF FreshReview, Snapshot, InstancesOf

LEMMA ReviewsStayFresh ==
  ASSUME IInv, Coupled, Next, NEW p \in Reviewers \cup Sweepers,
         review'[p].phase # "idle"
  PROVE  FreshReview(review'[p])
<1>1. /\ review \in [Reviewers \cup Sweepers -> ReviewType] /\ ReviewsFresh
      /\ Idle.phase = "idle"
  BY DEF IInv, TypeOK, Coupled, Idle
<1>2. CASE UNCHANGED review
  BY <1>1, <1>2 DEF ReviewsFresh
<1>3. CASE \E q \in Reviewers \cup Sweepers : review' = [review EXCEPT ![q] = Idle]
  BY <1>1, <1>3 DEF ReviewsFresh
<1>4. CASE \E q \in Reviewers, t \in Tariffs, k \in {"approve", "reject"},
             u \in Users : ReviewOpens(q, t, k, u)
  BY <1>1, <1>4, SnapshotFresh DEF ReviewOpens, ReviewsFresh
<1>5. CASE \E s \in Sweepers : SweepAutoApproves(s)
  <2> SUFFICES ASSUME NEW s \in Sweepers, SweepAutoApproves(s)
               PROVE  FreshReview(review'[p])
    BY <1>5
  <2>1. wfi[sweep[s].inst].obj \in Tariffs
    BY DEF IInv, TypeOK, JourneyType, InstanceRow, SweepType
  <2> QED BY <1>1, <2>1, SnapshotFresh DEF SweepAutoApproves, ReviewsFresh
<1>6. CASE \E q \in Reviewers \cup Sweepers : ReviewLocks(q)
  <2> SUFFICES ASSUME NEW q \in Reviewers \cup Sweepers, ReviewLocks(q)
               PROVE  FreshReview(review'[p])
    BY <1>6
  <2> DEFINE x == review[q]
             y == [x EXCEPT !.phase = "locked"]
  <2>1. CASE p = q
    <3>1. /\ review'[p] = y /\ x.phase = "open"
          /\ x.inst = 0 \/ MayAct(x)
      BY <1>1, <2>1 DEF ReviewLocks
    <3>2. /\ y.inst = x.inst /\ y.obj = x.obj /\ y.actor = x.actor
          /\ y.seenStatus = x.seenStatus
      BY <1>1, <3>1 DEF ReviewType
    <3>3. FreshReview(x)
      BY <1>1, <3>1 DEF ReviewsFresh
    <3>4. x.inst # 0 => HasRole(y)
      BY <3>1, <3>2 DEF MayAct, HasRole
    <3> HIDE DEF y
    <3> QED BY <3>1, <3>2, <3>3, <3>4 DEF FreshReview
  <2>2. CASE p # q
    BY <1>1, <2>2 DEF ReviewLocks, ReviewsFresh
  <2> QED BY <2>1, <2>2
<1> QED BY <1>2, <1>3, <1>4, <1>5, <1>6, ReviewWriters

\* What only reads, waits or gives up keeps the coupling.
LEMMA QuietStep == ASSUME IInv, Coupled, SameCore, AllFresh PROVE Coupled'
<1>1. published \in Nat /\ published' \in Nat /\ started \in Nat
  BY BoundAssumption DEF IInv, TypeOK, JourneyType, SameCore
<1>2. EditsFresh'
  <2> SUFFICES ASSUME NEW e \in Editors, edit'[e].phase # "idle"
               PROVE  FreshEdit(edit[e])'
    BY DEF EditsFresh
  <2>1. FreshEdit(edit'[e])
    BY DEF AllFresh
  <2>2. edit'[e].phase = "open" => edit'[e].def \in Nat
    BY EditFields, BoundAssumption DEF AllFresh
  <2> QED BY <1>1, <2>1, <2>2 DEF FreshEdit, SameCore, InstancesOf, Waiting
<1>3. Pinned'
  <2> SUFFICES ASSUME NEW i \in 1..started PROVE wfi[i].def <= published'
    BY DEF Pinned, SameCore
  <2>1. wfi[i].def <= published /\ wfi[i].def \in Nat
    BY BoundAssumption
       DEF Coupled, Pinned, IInv, TypeOK, JourneyType, InstanceRow, Instances
  <2> QED BY <1>1, <2>1 DEF SameCore
<1>4. ReviewsFresh'
  BY DEF AllFresh, SameCore, ReviewsFresh, FreshReview, HasRole, Waiting
<1>5. SameSubmitter' /\ OneWaiting' /\ VerdictReachesTariff'
  BY DEF Coupled, SameCore, SameSubmitter, OneWaiting, VerdictReachesTariff,
         Waiting, Newest, InstancesOf
<1>6. FourEyes'
  BY EyesKept DEF Coupled, SameCore, SameIdentity
<1> QED BY <1>2, <1>3, <1>4, <1>5, <1>6 DEF Coupled

\* Rows of the actions that close a step, with who closed it.
LEMMA ClosedBy ==
  ASSUME JourneyType, NEW i \in Instances, NEW l \in Levels, NEW s, NEW u
  PROVE  \A j \in Instances, k \in Levels :
           LET r == CloseStep(i, l, s, u)[j][k] IN
           IF j = i /\ k = l THEN r.state = s /\ r.by = u ELSE r = step[j][k]
<1> DEFINE row == [step[i][l] EXCEPT !.state = s, !.by = u]
<1>1. step[i][l] \in StepRow
  BY DEF JourneyType
<1>2. row.state = s /\ row.by = u
  BY <1>1 DEF StepRow
<1>3. CloseStep(i, l, s, u) = [step EXCEPT ![i] = [step[i] EXCEPT ![l] = row]]
  BY DEF CloseStep, JourneyType
<1> HIDE DEF row
<1> QED BY <1>2, <1>3 DEF JourneyType

LEMMA AdvancedBy ==
  ASSUME JourneyType, NEW i \in Instances, NEW l \in Levels, l + 1 \in Levels,
         NEW s, NEW u
  PROVE  \A j \in Instances, k \in Levels :
           LET r == AdvanceStep(i, l, s, u)[j][k] IN
           IF j = i /\ k = l THEN r.state = s /\ r.by = u
           ELSE IF j = i /\ k = l + 1 THEN r = OpenStep ELSE r = step[j][k]
<1> DEFINE row == [step[i][l] EXCEPT !.state = s, !.by = u]
           c == [step EXCEPT ![i] = [step[i] EXCEPT ![l] = row]]
<1>1. step[i][l] \in StepRow
  BY DEF JourneyType
<1>2. row.state = s /\ row.by = u
  BY <1>1 DEF StepRow
<1>3. AdvanceStep(i, l, s, u) = [c EXCEPT ![i][l + 1] = OpenStep]
  BY DEF AdvanceStep, CloseStep, JourneyType
<1>4. l # l + 1
  BY BoundAssumption DEF Levels
<1> HIDE DEF row, OpenStep
<1> QED BY <1>2, <1>3, <1>4 DEF JourneyType

\* A maker's request that is alone writes the row its handler means to write.
LEMMA EditedFresh ==
  ASSUME NEW x, FreshEdit(x), x.phase = "open", tariff[x.obj] \in TariffRow
  PROVE  EditedRow(x) =
           [status |-> Target(x.kind, tariff[x.obj].status),
            submittedBy |-> IF x.kind = "submit" THEN x.actor
                            ELSE tariff[x.obj].submittedBy]
BY DEF FreshEdit, EditedRow, SavedColumn

\* The statuses a maker's request leaves behind: only submit asks for a review, an
\* approved tariff stays so, and only update leaves a rejected one rejected.
LEMMA EditedStatus ==
  ASSUME NEW k \in AllEdits, NEW v \in Accepted(k)
  PROVE  /\ v # "PENDING"
         /\ Target(k, v) = "PENDING" => k = "submit"
         /\ k = "submit" => v \notin Decided
         /\ v \in Decided => Target(k, v) \in Decided
         /\ v = "REJECTED" => k = "submit" \/ Target(k, v) = "REJECTED"
BY DEF AllEdits, Accepted, Target, Decided

\* While a tariff waits for its review nobody edits it.
LEMMA NoEditWhilePending ==
  ASSUME IInv, Coupled, NEW e \in Editors, edit[e].phase # "idle"
  PROVE  tariff[edit[e].obj].status # "PENDING"
<1>1. edit[e].kind \in AllEdits /\ FreshEdit(edit[e])
  BY EditFields, ActorAssumption DEF IInv, TypeOK, Coupled, EditsFresh
<1> QED BY <1>1, EditedStatus DEF FreshEdit

\* An edit commits: nobody else edits, and what it read still holds.
LEMMA EditCoupled ==
  ASSUME OneEditPerTariff, IInv, Coupled, NEW e \in Editors, EditCommits(e),
         NEW x, x = edit[e], NEW t, t = x.obj, NEW new, new = started + 1
  PROVE  Coupled'
<1>1. /\ x \in EditType /\ x.phase = "open" /\ t \in Tariffs
      /\ x.kind \in AllEdits /\ x.actor \in Users /\ x.def \in 0..MaxDef
  BY EditFields, ActorAssumption DEF EditCommits, IInv, TypeOK
<1>2. /\ x.waiting = {i \in InstancesOf(t) : Waiting(i)}
      /\ tariff[t].status \in Accepted(x.kind)
      /\ x.def <= published /\ (x.def = 0 => InstancesOf(t) = {})
  BY <1>1 DEF Coupled, EditsFresh, FreshEdit
<1>3. /\ tariff'[t].status = Target(x.kind, tariff[t].status)
      /\ tariff'[t].submittedBy = IF x.kind = "submit" THEN x.actor
                                  ELSE tariff[t].submittedBy
      /\ \A z \in Tariffs \ {t} : tariff'[z] = tariff[z]
      /\ UNCHANGED <<published, review, sweep>>
  <2>1. tariff \in [Tariffs -> TariffRow] /\ tariff[t] \in TariffRow
    BY <1>1 DEF IInv, TypeOK
  <2>2. FreshEdit(x)
    BY <1>1 DEF Coupled, EditsFresh
  <2>3. EditedRow(x) = [status |-> Target(x.kind, tariff[t].status),
                        submittedBy |-> IF x.kind = "submit" THEN x.actor
                                        ELSE tariff[t].submittedBy]
    BY <1>1, <2>1, <2>2, EditedFresh
  <2> QED BY <1>1, <2>1, <2>3 DEF EditCommits
<1>4. ASSUME NEW f \in Editors, edit'[f].phase # "idle"
      PROVE  /\ edit'[f] = edit[f] /\ edit[f].obj \in Tariffs \ {t}
             /\ FreshEdit(edit[f])
  <2>1. f # e /\ edit'[f] = edit[f]
    BY <1>4 DEF EditCommits, IInv, TypeOK, Idle
  <2>2. edit[f].obj # t
    BY <1>1, <1>4, <2>1 DEF OneEditPerTariff
  <2>3. edit[f].obj \in Tariffs /\ FreshEdit(edit[f])
    BY <1>4, <2>1, EditFields DEF IInv, TypeOK, Coupled, EditsFresh
  <2> QED BY <2>1, <2>2, <2>3
<1>5. /\ tariff[t].status # "PENDING"
      /\ tariff'[t].status = "PENDING" => x.kind = "submit"
      /\ x.kind = "submit" => tariff[t].status \notin Decided
      /\ tariff[t].status \in Decided => tariff'[t].status \in Decided
      /\ tariff[t].status = "REJECTED" =>
           x.kind = "submit" \/ tariff'[t].status = "REJECTED"
  BY <1>1, <1>2, <1>3, EditedStatus
<1>6. \A q \in Reviewers \cup Sweepers : review[q].phase # "idle" =>
        /\ review[q].obj \in Tariffs /\ review[q].inst \in 0..MaxInst
        /\ FreshReview(review[q])
  BY ReviewFields DEF IInv, TypeOK, Coupled, ReviewsFresh
<1>7. /\ JourneyType /\ Registry /\ started \in Nat /\ started \in 0..MaxInst
      /\ \A i \in Instances : wfi[i].status # "NONE" <=> i <= started
  BY BoundAssumption DEF IInv, TypeOK, JourneyType, Registry
<1>8. CASE x.kind = "submit" /\ x.def # 0
  <2>1. StartInstance(t, x.actor, x.def, x.waiting)
    BY <1>8 DEF EditCommits
  <2>2. /\ new \in Instances /\ started' = new /\ 0 \in Levels
        /\ wfi'[new].status = "WAITING_FOR_APPROVAL" /\ wfi'[new].obj = t
        /\ wfi'[new].def = x.def /\ wfi'[new].submittedBy = x.actor
        /\ wfi[new].status = "NONE"
    BY <1>7, <2>1, BoundAssumption DEF StartInstance, JourneyType, Instances, Levels
  <2>3. \A i \in Instances \ {new} :
          /\ SameIdentity(i)
          /\ IF i \in x.waiting THEN wfi'[i].status = "CANCELLED"
             ELSE wfi'[i] = wfi[i]
    BY <1>7, <2>1 DEF StartInstance, JourneyType, InstanceRow, SameIdentity
  <2>4. \A i \in Instances : Waiting(i)' =>
          i = new \/ (Waiting(i) /\ wfi[i].obj # t)
    BY <1>2, <1>7, <2>2, <2>3, BoundAssumption DEF Waiting, InstancesOf, Instances
  <2>5. \A z \in Tariffs \ {t} : InstancesOf(z)' = InstancesOf(z)
    <3>1. /\ 1..new = (1..started) \cup {new} /\ 1..started \subseteq Instances
          /\ new \notin 1..started
      BY <1>7, <2>2, BoundAssumption DEF Instances
    <3>2. \A i \in 1..started : wfi'[i].obj = wfi[i].obj
      BY <2>3, <3>1 DEF SameIdentity
    <3> QED BY <2>2, <3>1, <3>2 DEF InstancesOf
  <2>6. Pinned'
    BY <1>2, <1>3, <1>7, <2>2, <2>3, BoundAssumption
       DEF Coupled, Pinned, SameIdentity, Instances
  <2>7. ReviewsFresh'
    <3> SUFFICES ASSUME NEW q \in Reviewers \cup Sweepers,
                        NEW y, y = review[q], y.phase # "idle"
                 PROVE  FreshReview(y)'
      BY <1>3 DEF ReviewsFresh
    <3>1. /\ y.obj \in Tariffs /\ y.inst \in 0..MaxInst /\ FreshReview(y)
      BY <1>6
    <3>2. y.seenStatus \in Decided => tariff'[y.obj].status \in Decided
      BY <1>3, <1>5, <3>1 DEF FreshReview
    <3>3. ASSUME y.inst # 0
          PROVE  /\ y.inst <= started' /\ wfi'[y.inst].obj = y.obj
                 /\ Waiting(y.inst)' /\ y.seenStatus = "REJECTED" =>
                      tariff'[y.obj].status # "PENDING"
                 /\ y.phase = "locked" => HasRole(y)'
      <4>1. /\ y.inst \in Instances \ {new} /\ y.inst <= started
            /\ wfi[y.inst].obj = y.obj
        BY <1>7, <3>1, <3>3, BoundAssumption DEF FreshReview, Instances
      <4>2. y.inst <= started' /\ wfi'[y.inst].obj = y.obj
        BY <1>7, <2>2, <2>3, <4>1, BoundAssumption DEF SameIdentity, Instances
      <4>3. Waiting(y.inst)' /\ y.seenStatus = "REJECTED" =>
              tariff'[y.obj].status # "PENDING"
        BY <1>3, <2>4, <3>1, <3>3, <4>1 DEF FreshReview
      <4>4. ASSUME y.phase = "locked" PROVE HasRole(y)'
        <5>1. y.inst \notin x.waiting
          BY <2>1, <4>4 DEF StartInstance, InstanceLocked
        <5>2. wfi'[y.inst] = wfi[y.inst] /\ HasRole(y)
          BY <2>3, <3>1, <3>3, <4>1, <4>4, <5>1 DEF FreshReview
        <5> QED BY <3>1, <5>2 DEF HasRole
      <4> QED BY <4>2, <4>3, <4>4
    <3> QED BY <3>1, <3>2, <3>3 DEF FreshReview, HasRole
  <2>8. SameSubmitter'
    BY <1>3, <1>8, <2>2, <2>3, <2>4
       DEF Coupled, SameSubmitter, SameIdentity, JourneyType, IInv, TypeOK, InstanceRow
  <2>9. OneWaiting'
    <3> SUFFICES ASSUME NEW i \in Instances, Waiting(i)', NEW j \in Instances,
                        wfi'[j].status # "NONE", wfi'[j].obj = wfi'[i].obj
                 PROVE  j <= i
      BY DEF OneWaiting
    <3>1. j <= new
      BY <1>2, <1>7, <2>2, <2>3, BoundAssumption DEF Instances, InstancesOf
    <3>2. CASE i = new
      BY <3>1, <3>2
    <3>3. CASE i # new
      <4>1. Waiting(i) /\ wfi[i].obj # t /\ wfi'[i].obj = wfi[i].obj
        BY <2>3, <2>4, <3>3 DEF SameIdentity
      <4>2. j # new
        BY <2>2, <4>1
      <4>3. wfi[j].status # "NONE" /\ wfi[j].obj = wfi[i].obj
        BY <1>2, <1>7, <2>3, <4>1, <4>2 DEF SameIdentity, InstancesOf
      <4> QED BY <4>1, <4>3 DEF Coupled, OneWaiting
    <3> QED BY <3>2, <3>3
  <2>10. VerdictReachesTariff'
    <3> SUFFICES ASSUME NEW z \in Tariffs, NEW i \in Instances, Newest(z, i)'
                 PROVE  /\ wfi'[i].status = "COMPLETED" =>
                             tariff'[z].status \in
                               {"ACTIVE", "INACTIVE", "DEPRECATED", "EXPIRED"}
                        /\ wfi'[i].status = "REJECTED" =>
                             tariff'[z].status = "REJECTED"
                        /\ wfi'[i].status # "CANCELLED"
      BY DEF VerdictReachesTariff
    <3>1. CASE z = t
      <4>1. new \in InstancesOf(t)'
        BY <1>7, <2>2 DEF InstancesOf
      <4>2. i = new
        BY <1>7, <2>2, <3>1, <4>1 DEF Newest, InstancesOf
      <4> QED BY <2>2, <4>2
    <3>2. CASE z # t
      <4>1. Newest(z, i)
        BY <2>5, <3>2 DEF Newest
      <4>2. i # new /\ i \notin x.waiting
        BY <1>2, <1>7, <2>2, <3>2, <4>1 DEF Newest, InstancesOf, Instances
      <4> QED BY <1>3, <2>3, <3>2, <4>1, <4>2 DEF Coupled, VerdictReachesTariff
    <3> QED BY <3>1, <3>2
  <2>11. FourEyes'
    <3>1. \A i \in Instances \ {new}, l \in Levels : step'[i][l] = step[i][l]
      BY <1>7, <2>1, <2>2 DEF StartInstance, JourneyType
    <3>2. \A l \in Levels : step'[new][l].state \in {"OPEN", "ABSENT"}
      BY <1>7, <2>1, <2>2
         DEF StartInstance, JourneyType, Registry, OpenStep, NoStep
    <3> QED BY <2>3, <3>1, <3>2, EyesKept DEF Coupled
  <2>12. EditsFresh'
    <3>1. \A z \in Tariffs \ {t} : {i \in InstancesOf(z) : Waiting(i)}' =
                                   {i \in InstancesOf(z) : Waiting(i)}
      <4>1. \A z \in Tariffs \ {t} : \A i \in InstancesOf(z) :
              i \in Instances /\ i # new /\ i \notin x.waiting
        BY <1>2, <1>7, BoundAssumption DEF InstancesOf, Instances
      <4> QED BY <2>3, <2>5, <4>1 DEF Waiting
    <3> SUFFICES ASSUME NEW f \in Editors, NEW y, y = edit'[f], y.phase # "idle"
                 PROVE  FreshEdit(y)'
      BY DEF EditsFresh
    <3>2. y.obj \in Tariffs \ {t} /\ FreshEdit(y)
      BY <1>4
    <3> QED BY <1>3, <2>5, <3>1, <3>2 DEF FreshEdit
  <2> QED BY <2>6, <2>7, <2>8, <2>9, <2>10, <2>11, <2>12 DEF Coupled
<1>9. CASE ~(x.kind = "submit" /\ x.def # 0)
  <2>1. UNCHANGED <<started, wfi, step>>
    BY <1>9 DEF EditCommits
  \* the tariff can only have become PENDING without a journey to watch over it
  <2>2. x.kind = "submit" => \A i \in Instances : i <= started => wfi[i].obj # t
    BY <1>2, <1>9 DEF InstancesOf, Instances
  <2>3. ReviewsFresh'
    <3> SUFFICES ASSUME NEW q \in Reviewers \cup Sweepers,
                        NEW y, y = review[q], y.phase # "idle"
                 PROVE  FreshReview(y)'
      BY <1>3 DEF ReviewsFresh
    <3>1. /\ y.obj \in Tariffs /\ y.inst \in 0..MaxInst /\ FreshReview(y)
          /\ y.inst # 0 => y.inst \in Instances
      BY <1>6, BoundAssumption DEF Instances
    <3>2. y.seenStatus \in Decided => tariff'[y.obj].status \in Decided
      BY <1>3, <1>5, <3>1 DEF FreshReview
    <3>3. y.inst # 0 /\ Waiting(y.inst) /\ y.seenStatus = "REJECTED" =>
            tariff'[y.obj].status # "PENDING"
      BY <1>3, <1>5, <2>2, <3>1 DEF FreshReview
    <3> QED BY <2>1, <3>1, <3>2, <3>3 DEF FreshReview, HasRole, Waiting
  <2>4. SameSubmitter'
    <3> SUFFICES ASSUME NEW i \in Instances, Waiting(i),
                        tariff'[wfi[i].obj].status = "PENDING"
                 PROVE  tariff'[wfi[i].obj].submittedBy = wfi[i].submittedBy
      BY <2>1 DEF SameSubmitter, Waiting
    <3>1. i <= started /\ wfi[i].obj \in Tariffs
      BY <1>7 DEF Waiting, JourneyType, InstanceRow
    <3>2. wfi[i].obj # t
      BY <1>5, <2>2, <3>1
    <3> QED BY <1>3, <3>1, <3>2 DEF Coupled, SameSubmitter
  <2>5. VerdictReachesTariff'
    <3> SUFFICES ASSUME NEW z \in Tariffs, NEW i \in Instances, Newest(z, i)
                 PROVE  /\ wfi[i].status = "COMPLETED" =>
                             tariff'[z].status \in Decided
                        /\ wfi[i].status = "REJECTED" =>
                             tariff'[z].status = "REJECTED"
                        /\ wfi[i].status # "CANCELLED"
      BY <2>1 DEF VerdictReachesTariff, Newest, InstancesOf, Decided
    <3>1. /\ wfi[i].status = "COMPLETED" => tariff[z].status \in Decided
          /\ wfi[i].status = "REJECTED" => tariff[z].status = "REJECTED"
          /\ wfi[i].status # "CANCELLED"
      BY DEF Coupled, VerdictReachesTariff, Decided
    <3>2. i \in InstancesOf(z)
      BY DEF Newest, Instances
    <3> QED BY <1>3, <1>5, <2>2, <3>1, <3>2 DEF InstancesOf
  <2>6. Pinned' /\ OneWaiting'
    BY <1>3, <2>1 DEF Coupled, Pinned, OneWaiting, Waiting
  <2>7. FourEyes'
    BY <2>1, EyesKept DEF Coupled, SameIdentity
  <2>8. EditsFresh'
    <3> SUFFICES ASSUME NEW f \in Editors, NEW y, y = edit'[f], y.phase # "idle"
                 PROVE  FreshEdit(y)'
      BY DEF EditsFresh
    <3>1. y.obj \in Tariffs \ {t} /\ FreshEdit(y)
      BY <1>4
    <3> QED BY <1>3, <2>1, <3>1 DEF FreshEdit, InstancesOf, Waiting
  <2> QED BY <2>3, <2>4, <2>5, <2>6, <2>7, <2>8 DEF Coupled
<1> QED BY <1>8, <1>9

\* A decision or an escalation that ends no journey: tariffs stay, and an instance
\* that is locked afterwards is one that has not moved.
LEMMA LevelCoupled ==
  ASSUME IInv, Coupled, UNCHANGED <<tariff, published, started, edit>>,
         \A i \in Instances : SameIdentity(i) /\ wfi'[i].status = wfi[i].status,
         \A p \in Reviewers \cup Sweepers : review'[p].phase # "idle" =>
           /\ review'[p] = review[p]
           /\ review[p].phase = "locked" /\ review[p].inst # 0 =>
                wfi'[review[p].inst] = wfi[review[p].inst],
         FourEyes'
  PROVE  Coupled'
<1>1. /\ started \in Nat /\ 1..started \subseteq Instances
  BY BoundAssumption DEF IInv, TypeOK, JourneyType, Instances
<1>2. \A t \in Tariffs :
        /\ InstancesOf(t)' = InstancesOf(t)
        /\ {i \in InstancesOf(t) : Waiting(i)}' = {i \in InstancesOf(t) : Waiting(i)}
  BY <1>1 DEF InstancesOf, SameIdentity, Waiting
<1>3. EditsFresh'
  <2> SUFFICES ASSUME NEW e \in Editors, NEW x, x = edit[e], x.phase # "idle"
               PROVE  FreshEdit(x)'
    BY DEF EditsFresh
  <2>1. x.obj \in Tariffs /\ FreshEdit(x)
    BY EditFields DEF IInv, TypeOK, Coupled, EditsFresh
  <2> QED BY <1>2, <2>1 DEF FreshEdit
<1>4. ReviewsFresh'
  <2> SUFFICES ASSUME NEW p \in Reviewers \cup Sweepers,
                      NEW x, x = review'[p], x.phase # "idle"
               PROVE  FreshReview(x)'
    BY DEF ReviewsFresh
  <2>1. /\ x = review[p] /\ FreshReview(x)
        /\ x.inst # 0 => x.inst \in Instances
    BY ReviewFields, BoundAssumption
       DEF IInv, TypeOK, Coupled, ReviewsFresh, Instances
  <2> QED BY <2>1 DEF FreshReview, HasRole, Waiting, SameIdentity
<1>5. Pinned' /\ SameSubmitter' /\ OneWaiting'
  BY <1>1 DEF Coupled, Pinned, SameSubmitter, OneWaiting, Waiting, SameIdentity
<1>6. VerdictReachesTariff'
  BY <1>2 DEF Coupled, VerdictReachesTariff, Newest
<1> QED BY <1>3, <1>4, <1>5, <1>6 DEF Coupled

\* An escalation decides nothing, and waits for whoever holds the instance.
LEMMA EscalationCoupled ==
  ASSUME IInv, Coupled, NEW s \in Sweepers, EscalationCommits(s)
  PROVE  Coupled'
<1> DEFINE i == sweep[s].inst
           l == sweep[s].level
<1>1. /\ JourneyType /\ i \in Instances /\ l \in Levels
      /\ step[i][l].state = "OPEN" /\ i <= started
      /\ UNCHANGED <<tariff, published, started, edit, review>>
      /\ wfi' = [wfi EXCEPT ![i].level = l + 1]
      /\ step' = AdvanceStep(i, l, "ESCALATED", System)
      /\ l + 1 < LevelCount[wfi[i].def]
  BY DEF EscalationCommits, IInv, TypeOK, SweepType, Locks, Registry
<1>2. l + 1 \in Levels
  BY <1>1, DefinitionSize, BoundAssumption DEF IInv, Levels
<1>3. \A j \in Instances : /\ SameIdentity(j) /\ wfi'[j].status = wfi[j].status
                           /\ j # i => wfi'[j] = wfi[j]
  BY <1>1 DEF JourneyType, InstanceRow, SameIdentity
<1>4. \A p \in Reviewers \cup Sweepers : review'[p].phase # "idle" =>
        /\ review'[p] = review[p]
        /\ review[p].phase = "locked" /\ review[p].inst # 0 =>
             wfi'[review[p].inst] = wfi[review[p].inst]
  <2> SUFFICES ASSUME NEW p \in Reviewers \cup Sweepers,
                      review[p].phase = "locked", review[p].inst # 0
               PROVE  wfi'[review[p].inst] = wfi[review[p].inst]
    BY <1>1
  <2>1. review[p].inst \in Instances /\ review[p].inst # i
    BY ReviewFields, BoundAssumption
       DEF EscalationCommits, InstanceLocked, IInv, TypeOK, Instances
  <2> QED BY <1>3, <2>1
<1>5. FourEyes'
  <2>1. \A j \in Instances, k \in Levels :
          \/ step'[j][k] = step[j][k]
          \/ step'[j][k].state \in {"ESCALATED", "OPEN"}
    BY <1>1, <1>2, AdvancedBy, OpenStepRow
  <2> QED BY <1>3, <2>1, EyesKept DEF Coupled
<1> HIDE DEF i, l
<1> QED BY <1>1, <1>3, <1>4, <1>5, LevelCoupled

\* Who decides holds the role of the level and did not submit what he decides on.
LEMMA DeciderEyes ==
  ASSUME IInv, Coupled, NEW x, x.phase = "locked", x.inst # 0, x.obj \in Tariffs,
         FreshReview(x), Waiting(x.inst), x.inst \in Instances, DomainAccepts(x),
         x.actor # System
  PROVE  /\ x.actor # wfi[x.inst].submittedBy
         /\ LevelRole[wfi[x.inst].def][wfi[x.inst].level] \in RolesOf[x.actor]
         /\ SuperAdmin \notin RolesOf[x.actor]
<1>1. HasRole(x) /\ wfi[x.inst].obj = x.obj
  BY DEF FreshReview
<1>2. tariff[x.obj].submittedBy = wfi[x.inst].submittedBy
  BY <1>1 DEF Coupled, SameSubmitter, DomainAccepts
<1> QED BY <1>1, <1>2 DEF HasRole, DomainAccepts

\* A tariff leaves its review: nobody edits it, no review that saw it decided is in
\* flight, and the journey that comes out of it is its newest.
LEMMA VerdictCoupled ==
  ASSUME IInv, Coupled, UNCHANGED <<published, started, edit>>,
         NEW t \in Tariffs, tariff[t].status = "PENDING",
         \A z \in Tariffs : /\ tariff'[z].submittedBy = tariff[z].submittedBy
                            /\ z # t => tariff'[z] = tariff[z],
         \A i \in Instances :
           /\ SameIdentity(i) /\ (Waiting(i)' => Waiting(i))
           /\ wfi'[i].status = "NONE" <=> wfi[i].status = "NONE"
           /\ wfi[i].obj # t => wfi'[i].status = wfi[i].status,
         \A p \in Reviewers \cup Sweepers : review'[p].phase # "idle" =>
           /\ review'[p] = review[p]
           /\ review[p].phase = "locked" /\ review[p].inst # 0 =>
                wfi'[review[p].inst] = wfi[review[p].inst],
         \A i \in Instances : Newest(t, i) =>
           /\ wfi'[i].status = "COMPLETED" => tariff'[t].status = "ACTIVE"
           /\ wfi'[i].status = "REJECTED" => tariff'[t].status = "REJECTED"
           /\ wfi'[i].status # "CANCELLED",
         FourEyes'
  PROVE  Coupled'
<1>1. /\ started \in Nat /\ 1..started \subseteq Instances
      /\ wfi \in [Instances -> InstanceRow]
  BY BoundAssumption DEF IInv, TypeOK, JourneyType, Instances
<1>2. \A z \in Tariffs :
        /\ InstancesOf(z)' = InstancesOf(z)
        /\ z # t => {i \in InstancesOf(z) : Waiting(i)}' =
                     {i \in InstancesOf(z) : Waiting(i)}
  BY <1>1 DEF InstancesOf, SameIdentity, Waiting
<1>3. EditsFresh'
  <2> SUFFICES ASSUME NEW e \in Editors, NEW x, x = edit[e], x.phase # "idle"
               PROVE  FreshEdit(x)'
    BY DEF EditsFresh
  <2>1. x.obj \in Tariffs /\ FreshEdit(x) /\ x.obj # t
    BY EditFields, NoEditWhilePending DEF IInv, TypeOK, Coupled, EditsFresh
  <2> QED BY <1>2, <2>1 DEF FreshEdit
<1>4. ReviewsFresh'
  <2> SUFFICES ASSUME NEW p \in Reviewers \cup Sweepers,
                      NEW x, x = review'[p], x.phase # "idle"
               PROVE  FreshReview(x)'
    BY DEF ReviewsFresh
  <2>1. /\ x = review[p] /\ FreshReview(x) /\ x.obj \in Tariffs
        /\ x.inst # 0 => x.inst \in Instances
    BY ReviewFields, BoundAssumption
       DEF IInv, TypeOK, Coupled, ReviewsFresh, Instances
  <2>2. x.seenStatus \in Decided => x.obj # t
    BY <2>1 DEF FreshReview, Decided
  <2>3. x.inst # 0 /\ Waiting(x.inst) /\ x.seenStatus = "REJECTED" => x.obj # t
    BY <2>1 DEF FreshReview
  <2> QED BY <2>1, <2>2, <2>3 DEF FreshReview, HasRole, SameIdentity
<1>5. Pinned' /\ OneWaiting'
  BY <1>1 DEF Coupled, Pinned, OneWaiting, SameIdentity
<1>6. SameSubmitter'
  BY <1>1 DEF Coupled, SameSubmitter, SameIdentity, InstanceRow
<1>7. VerdictReachesTariff'
  <2> SUFFICES ASSUME NEW z \in Tariffs, NEW i \in Instances, Newest(z, i)'
               PROVE  /\ wfi'[i].status = "COMPLETED" =>
                           tariff'[z].status \in
                             {"ACTIVE", "INACTIVE", "DEPRECATED", "EXPIRED"}
                      /\ wfi'[i].status = "REJECTED" =>
                           tariff'[z].status = "REJECTED"
                      /\ wfi'[i].status # "CANCELLED"
    BY DEF VerdictReachesTariff
  <2>1. Newest(z, i)
    BY <1>2 DEF Newest
  <2>2. CASE z # t
    <3>1. wfi[i].obj = z
      BY <2>1 DEF Newest, InstancesOf, Instances
    <3> QED BY <2>1, <2>2, <3>1 DEF Coupled, VerdictReachesTariff
  <2> QED BY <2>1, <2>2
<1> QED BY <1>3, <1>4, <1>5, <1>6, <1>7 DEF Coupled

LEMMA ReviewCoupled ==
  ASSUME IInv, Coupled, NEW p \in Reviewers \cup Sweepers, ReviewCommits(p),
         NEW x, x = review[p], NEW t, t = x.obj, NEW i, i = x.inst,
         NEW l, l = wfi[i].level
  PROVE  Coupled'
<1>1. /\ x.phase = "locked" /\ x.kind \in {"approve", "reject"}
      /\ t \in Tariffs /\ x.actor \in Actors /\ i \in 0..MaxInst
      /\ FreshReview(x) /\ JourneyType /\ Trails
      /\ UNCHANGED <<published, started, edit, sweep>>
  BY ReviewFields
     DEF ReviewCommits, IInv, TypeOK, Coupled, ReviewsFresh, Trails
<1>2. \A q \in Reviewers \cup Sweepers : review'[q].phase # "idle" =>
        q # p /\ review'[q] = review[q]
  BY DEF ReviewCommits, IInv, TypeOK, Idle
<1>3. CASE UNCHANGED <<tariff, wfi, step>>
  <2>1. SameCore
    BY <1>1, <1>3, BoundAssumption DEF SameCore, IInv, TypeOK
  <2>2. AllFresh
    BY <1>1, <1>2 DEF AllFresh, Coupled, EditsFresh, ReviewsFresh, IInv, TypeOK
  <2> QED BY <2>1, <2>2, QuietStep
<1>4. CASE DomainAccepts(x)
  <2>1. tariff[t].status = "PENDING" /\ x.seenStatus \notin Decided
    BY <1>1, <1>4 DEF DomainAccepts, FreshReview, Decided
  <2>2. tariff \in [Tariffs -> TariffRow] /\ tariff[t] \in TariffRow
    BY <1>1 DEF IInv, TypeOK
  <2>3. \E v \in TariffStatus :
          /\ tariff' = [tariff EXCEPT ![t].status = v]
          /\ x.kind = "approve" => v = IF IsFinalLevel(x) THEN "ACTIVE" ELSE "PENDING"
          /\ x.kind = "reject" /\ x.seenStatus # "REJECTED" => v = "REJECTED"
    BY <1>1, <1>4, <2>1, <2>2
       DEF ReviewCommits, Approve, Reject, SavedColumn, Decided, TariffStatus
  <2>4. \A z \in Tariffs : /\ tariff'[z].submittedBy = tariff[z].submittedBy
                           /\ z # t => tariff'[z] = tariff[z]
    BY <2>2, <2>3 DEF TariffRow
  <2>5. /\ x.kind = "approve" => tariff'[t].status =
              IF IsFinalLevel(x) THEN "ACTIVE" ELSE "PENDING"
        /\ x.kind = "reject" /\ x.seenStatus # "REJECTED" =>
              tariff'[t].status = "REJECTED"
    BY <1>1, <2>2, <2>3 DEF TariffRow
  \* a tariff submitted while no definition was published: no journey to record
  <2>6. CASE i = 0
    <3>1. UNCHANGED <<wfi, step>>
      BY <1>4, <2>6 DEF ReviewCommits, Approve, Reject
    <3>2. \A j \in Instances : /\ SameIdentity(j) /\ (Waiting(j)' => Waiting(j))
                               /\ wfi'[j] = wfi[j]
      BY <3>1 DEF SameIdentity, Waiting
    <3>3. \A j \in Instances : Newest(t, j) =>
            wfi[j].status \notin {"COMPLETED", "REJECTED", "CANCELLED"}
      BY <1>1, <2>1 DEF Coupled, VerdictReachesTariff
    <3>4. FourEyes'
      BY <3>1, <3>2, EyesKept DEF Coupled
    <3>5. \A j \in Instances :
            /\ SameIdentity(j) /\ (Waiting(j)' => Waiting(j))
            /\ wfi'[j].status = "NONE" <=> wfi[j].status = "NONE"
            /\ wfi[j].obj # t => wfi'[j].status = wfi[j].status
      BY <3>2
    <3>6. \A q \in Reviewers \cup Sweepers : review'[q].phase # "idle" =>
            /\ review'[q] = review[q]
            /\ review[q].phase = "locked" /\ review[q].inst # 0 =>
                 wfi'[review[q].inst] = wfi[review[q].inst]
      BY <1>2, <3>1
    <3>7. \A j \in Instances : Newest(t, j) =>
            /\ wfi'[j].status = "COMPLETED" => tariff'[t].status = "ACTIVE"
            /\ wfi'[j].status = "REJECTED" => tariff'[t].status = "REJECTED"
            /\ wfi'[j].status # "CANCELLED"
      BY <3>2, <3>3
    <3> QED BY <1>1, <2>1, <2>4, <3>4, <3>5, <3>6, <3>7, VerdictCoupled
  <2>7. CASE i # 0
    <3>1. /\ i \in Instances /\ Waiting(i)
          /\ x.kind = "approve" => RecordApproval(x)
          /\ x.kind = "reject" => RecordRejection(x)
      BY <1>1, <1>4, <2>7, BoundAssumption
         DEF ReviewCommits, Approve, Reject, IInv, Locks, Instances
    <3>2. /\ l \in Levels /\ LevelCount[wfi[i].def] \in 1..MaxLevels
          /\ wfi[i].obj = t /\ x.seenStatus # "REJECTED"
      BY <1>1, <2>1, <2>7, <3>1, OpenAtLevel DEF FreshReview
    <3>3. x.actor # System =>
            /\ x.actor # wfi[i].submittedBy
            /\ LevelRole[wfi[i].def][l] \in RolesOf[x.actor]
            /\ SuperAdmin \notin RolesOf[x.actor]
      BY <1>1, <1>4, <2>7, <3>1, DeciderEyes
    \* whoever else holds an instance holds another one
    <3>4. \A q \in Reviewers \cup Sweepers :
            review'[q].phase = "locked" /\ review[q].inst # 0 =>
              review[q].inst \in Instances \ {i}
      BY <1>1, <1>2, <2>7, ReviewFields, BoundAssumption
         DEF IInv, Locks, TypeOK, Instances
    <3>5. CASE x.kind = "approve" /\ ~IsFinalLevel(x)
      <4>1. /\ wfi' = [wfi EXCEPT ![i].level = l + 1] /\ l + 1 \in Levels
            /\ step' = AdvanceStep(i, l, "APPROVED", x.actor)
        BY <2>7, <3>1, <3>2, <3>5, BoundAssumption
           DEF RecordApproval, IsFinalLevel, Levels
      <4>2. UNCHANGED tariff
        BY <2>1, <2>2, <2>3, <3>5 DEF TariffRow
      <4>3. \A j \in Instances : /\ SameIdentity(j) /\ wfi'[j].status = wfi[j].status
                                 /\ j # i => wfi'[j] = wfi[j]
        BY <1>1, <4>1 DEF JourneyType, InstanceRow, SameIdentity
      <4>4. FourEyes'
        <5>1. \A j \in Instances, k \in Levels :
                \/ step'[j][k] = step[j][k]
                \/ step'[j][k].state = "OPEN"
                \/ j = i /\ k = l /\ step'[j][k].by = x.actor
          BY <1>1, <3>1, <3>2, <4>1, AdvancedBy, OpenStepRow
        <5>2. RowEyes(i, l)' \/ step'[i][l].by # x.actor
          BY <3>1, <3>3, <4>3 DEF RowEyes, SameIdentity
        <5> QED BY <4>3, <5>1, <5>2, EyesKept DEF Coupled
      <4> QED BY <1>1, <1>2, <3>4, <4>2, <4>3, <4>4, LevelCoupled
    <3>6. CASE x.kind = "reject" \/ IsFinalLevel(x)
      <4>1. PICK v \in {"COMPLETED", "REJECTED"}, s \in {"APPROVED", "REJECTED"} :
              /\ wfi' = [wfi EXCEPT ![i].status = v, ![i].level = -1]
              /\ step' = CloseStep(i, l, s, x.actor)
              /\ v = "COMPLETED" => tariff'[t].status = "ACTIVE"
              /\ v = "REJECTED" => tariff'[t].status = "REJECTED"
        BY <1>1, <2>5, <3>1, <3>2, <3>6 DEF RecordApproval, RecordRejection
      <4>2. \A j \in Instances : SameIdentity(j)
        BY <1>1, <4>1, IdentityKept
      <4>3. \A j \in Instances : /\ j # i => wfi'[j] = wfi[j]
                                 /\ wfi'[i].status = v
        BY <1>1, <3>1, <4>1 DEF JourneyType, InstanceRow
      <4>4. \A j \in Instances :
              /\ SameIdentity(j) /\ (Waiting(j)' => Waiting(j))
              /\ wfi'[j].status = "NONE" <=> wfi[j].status = "NONE"
              /\ wfi[j].obj # t => wfi'[j].status = wfi[j].status
        BY <3>1, <3>2, <4>2, <4>3 DEF Waiting
      <4>5. \A j \in Instances : Newest(t, j) => j = i
        <5>1. i \in InstancesOf(t)
          BY <1>1, <3>1, <3>2, OpenAtLevel DEF InstancesOf, Instances
        <5> SUFFICES ASSUME NEW j \in Instances, Newest(t, j) PROVE j = i
          OBVIOUS
        <5>2. i <= j /\ wfi[j].obj = t /\ wfi[j].status # "NONE"
          BY <1>1, <5>1 DEF Newest, InstancesOf, Trails, Registry
        <5>3. j <= i
          BY <3>1, <3>2, <5>2 DEF Coupled, OneWaiting
        <5> QED BY <3>1, <5>2, <5>3 DEF Instances
      <4>6. FourEyes'
        <5>1. \A j \in Instances, k \in Levels :
                \/ step'[j][k] = step[j][k]
                \/ j = i /\ k = l /\ step'[j][k].by = x.actor
          BY <1>1, <3>1, <3>2, <4>1, ClosedBy
        <5>2. RowEyes(i, l)' \/ step'[i][l].by # x.actor
          BY <3>1, <3>3, <4>2 DEF RowEyes, SameIdentity
        <5> QED BY <4>2, <5>1, <5>2, EyesKept DEF Coupled
      <4>7. \A q \in Reviewers \cup Sweepers : review'[q].phase # "idle" =>
              /\ review'[q] = review[q]
              /\ review[q].phase = "locked" /\ review[q].inst # 0 =>
                   wfi'[review[q].inst] = wfi[review[q].inst]
        BY <1>2, <3>4, <4>3
      <4>8. \A j \in Instances : Newest(t, j) =>
              /\ wfi'[j].status = "COMPLETED" => tariff'[t].status = "ACTIVE"
              /\ wfi'[j].status = "REJECTED" => tariff'[t].status = "REJECTED"
              /\ wfi'[j].status # "CANCELLED"
        BY <4>1, <4>3, <4>5
      <4> QED BY <1>1, <2>1, <2>4, <4>4, <4>6, <4>7, <4>8, VerdictCoupled
    <3> QED BY <1>1, <3>5, <3>6
  <2> QED BY <2>6, <2>7
<1> QED BY <1>3, <1>4 DEF ReviewCommits

-----------------------------------------------------------------------------
LEMMA PublishedWriters == ASSUME Next PROVE UNCHANGED published \/ PublishDefinition
BY ZenonT(60) DEF Next, DeadlinePasses, EditReads, EditOpens, EditCommits,
       EditAborts, ReviewOpens, ReviewTransaction, ReviewLocks, ReviewCommits,
       ReviewAborts, SweepFinds, SweepFlags, Dispatch, SweepNotifies,
       SweepAutoApproves, EscalationLocks, EscalationCommits, SweepAborts

\* A step of the engine keeps the coupling.
LEMMA CoupledStep == ASSUME OneEditPerTariff, IInv, Coupled, Next PROVE Coupled'
<1>1. CASE \E e \in Editors : EditCommits(e)
  BY <1>1, EditCoupled
<1>2. CASE \E p \in Reviewers \cup Sweepers : ReviewCommits(p)
  BY <1>2, ReviewCoupled
<1>3. CASE \E s \in Sweepers : EscalationCommits(s)
  BY <1>3, EscalationCoupled
<1>4. CASE SameCore
  <2>1. AllFresh
    BY EditsStayFresh, ReviewsStayFresh, EditStep DEF AllFresh, IInv
  <2> QED BY <1>4, <2>1, QuietStep
<1>5. ASSUME ~\E e \in Editors : EditCommits(e),
             ~\E p \in Reviewers \cup Sweepers : ReviewCommits(p),
             ~\E s \in Sweepers : EscalationCommits(s)
      PROVE  SameCore
  <2>1. UNCHANGED tariff
    BY <1>5, TariffWriters
  <2>2. published \in Nat /\ published' \in Nat /\ published <= published'
    <3>1. UNCHANGED published \/ PublishDefinition
      BY PublishedWriters
    <3> QED BY <3>1, BoundAssumption DEF PublishDefinition, IInv, TypeOK
  <2>3. JourneyType
    BY DEF IInv, TypeOK
  <2>4. ASSUME NEW i \in Instances, NEW l \in Levels, DeadlinePasses(i, l)
        PROVE  SameCore
    <3>1. \A j \in Instances, k \in Levels :
            step'[j][k].state = step[j][k].state /\ step'[j][k].by = step[j][k].by
      BY <2>3, <2>4 DEF DeadlinePasses, JourneyType, StepRow
    <3> QED BY <2>1, <2>2, <2>4, <3>1 DEF SameCore, DeadlinePasses
  <2>5. ASSUME NEW s \in Sweepers, NEW i \in Instances, NEW l \in Levels,
               SweepFlags(s, i, l)
        PROVE  SameCore
    <3>1. step' = step \/ step' = [step EXCEPT ![i][l].breached = TRUE]
      BY <2>5 DEF SweepFlags
    <3>2. \A j \in Instances, k \in Levels :
            step'[j][k].state = step[j][k].state /\ step'[j][k].by = step[j][k].by
      BY <2>3, <3>1 DEF JourneyType, StepRow
    <3> QED BY <2>1, <2>2, <2>5, <3>2 DEF SameCore, SweepFlags
  <2>6. CASE UNCHANGED <<started, wfi, step>>
    BY <2>1, <2>2, <2>6 DEF SameCore
  <2> QED BY <1>5, <2>4, <2>5, <2>6, JourneyWriters
<1> QED BY <1>1, <1>2, <1>3, <1>4, <1>5

LEMMA InitCoupled == Init => Coupled
<1> SUFFICES ASSUME Init PROVE Coupled
  OBVIOUS
<1>1. /\ \A i \in Instances, l \in Levels : step[i][l].state = "ABSENT"
      /\ \A i \in Instances : wfi[i].status = "NONE"
      /\ started = 0 /\ \A t \in Tariffs : InstancesOf(t) = {}
  BY DEF Init, NoStep, NoInstance, InstancesOf
<1>2. FourEyes /\ OneWaiting /\ SameSubmitter
  BY <1>1 DEF FourEyes, OneWaiting, SameSubmitter, Waiting
<1>3. VerdictReachesTariff /\ Pinned
  BY <1>1 DEF VerdictReachesTariff, Newest, Pinned, Instances
<1>4. EditsFresh /\ ReviewsFresh
  BY DEF Init, EditsFresh, ReviewsFresh, Idle
<1> QED BY <1>2, <1>3, <1>4 DEF Coupled

LEMMA CoupledInvariant == Spec /\ []OneEditPerTariff => [](IInv /\ Coupled)
<1>1. IInv /\ Coupled /\ OneEditPerTariff /\ [Next]_vars => (IInv /\ Coupled)'
  <2>1. ASSUME IInv, Coupled, UNCHANGED vars PROVE Coupled'
    BY <2>1 DEF vars, Coupled, EditsFresh, FreshEdit, Pinned, ReviewsFresh,
         FreshReview, HasRole, SameSubmitter, OneWaiting, VerdictReachesTariff,
         FourEyes, Waiting, Newest, InstancesOf
  <2> QED BY <2>1, CoupledStep, NextIInv
<1>2. Init => IInv /\ Coupled
  BY InitIInv, InitCoupled
<1> QED BY <1>1, <1>2, PTL DEF Spec

\* While no two requests edit one tariff at a time, nobody decides on what he
\* submitted himself, without the role of the level, or as a SUPER_ADMIN.
THEOREM FourEyesHolds == Spec /\ []OneEditPerTariff => []FourEyes
<1>1. Coupled => FourEyes
  BY DEF Coupled
<1> QED BY <1>1, CoupledInvariant, PTL

\* Then at most one instance of a tariff waits, and it is the newest: the one that
\* approve and reject find.
THEOREM OneWaitingHolds == Spec /\ []OneEditPerTariff => []OneWaiting
<1>1. Coupled => OneWaiting
  BY DEF Coupled
<1> QED BY <1>1, CoupledInvariant, PTL

\* And the verdict of the newest journey is the verdict on the tariff.
THEOREM VerdictReaches == Spec /\ []OneEditPerTariff => []VerdictReachesTariff
<1>1. Coupled => VerdictReachesTariff
  BY DEF Coupled
<1> QED BY <1>1, CoupledInvariant, PTL

-----------------------------------------------------------------------------
(* The engine implements the journeys of ApprovalJourney.                  *)

Phase(i) == PhaseOf(wfi[i].status)

LEMMA PhaseNames ==
  /\ PhaseOf("NONE") = "none" /\ PhaseOf("WAITING_FOR_APPROVAL") = "waiting"
  /\ PhaseOf("COMPLETED") = "completed" /\ PhaseOf("REJECTED") = "rejected"
  /\ PhaseOf("CANCELLED") = "cancelled"
BY DEF PhaseOf

\* What the mapping makes of an instance that a step leaves where it was.
SameJourney(i) ==
  /\ Phase(i)' = Phase(i) /\ Size(i)' = Size(i)
  /\ PassedLevels(i)' = PassedLevels(i)

LEMMA MapsToStutter ==
  ASSUME \A i \in Instances : SameJourney(i) PROVE UNCHANGED Journey!vars
BY DEF SameJourney, Phase, Journey!vars

LEMMA MapsToStart ==
  ASSUME NEW j \in Instances, NEW w \in SUBSET Instances, Phase(j) = "none",
         \A k \in w : Phase(k) = "waiting",
         \A k \in Instances :
           /\ Phase(k)' = IF k = j THEN "waiting"
                          ELSE IF k \in w THEN "cancelled" ELSE Phase(k)
           /\ k # j => Size(k)' = Size(k)
           /\ PassedLevels(k)' = PassedLevels(k),
         Size(j)' \in 1..MaxLevels
  PROVE  Journey!Next
<1>1. Journey!Start(j, w)
  <2>1. [k \in Instances |-> Size(k)]' =
          [[k \in Instances |-> Size(k)] EXCEPT ![j] = Size(j)']
    OBVIOUS
  <2>2. \E n \in 1..MaxLevels : [k \in Instances |-> Size(k)]' =
          [[k \in Instances |-> Size(k)] EXCEPT ![j] = n]
    BY <2>1
  <2> QED BY <2>2 DEF Journey!Start, Phase
<1> QED BY <1>1 DEF Journey!Next

LEMMA MapsToPass ==
  ASSUME NEW j \in Instances, NEW l \in Levels,
         Phase(j) \in {"waiting", "cancelled"},
         PassedLevels(j) = 0..(l - 1), l + 1 < Size(j),
         \A k \in Instances :
           /\ Phase(k)' = Phase(k) /\ Size(k)' = Size(k)
           /\ PassedLevels(k)' = IF k = j THEN 0..l ELSE PassedLevels(k)
  PROVE  Journey!Next
<1>1. Journey!Pass(j, l)
  BY DEF Journey!Pass, Phase
<1> QED BY <1>1 DEF Journey!Next, Levels

LEMMA MapsToComplete ==
  ASSUME NEW j \in Instances, Phase(j) = "waiting",
         PassedLevels(j) = 0..(Size(j) - 2),
         \A k \in Instances :
           /\ Phase(k)' = IF k = j THEN "completed" ELSE Phase(k)
           /\ Size(k)' = Size(k)
           /\ PassedLevels(k)' = IF k = j THEN 0..(Size(j) - 1) ELSE PassedLevels(k)
  PROVE  Journey!Next
<1>1. Journey!Complete(j)
  BY DEF Journey!Complete, Phase
<1> QED BY <1>1 DEF Journey!Next

LEMMA MapsToReject ==
  ASSUME NEW j \in Instances, Phase(j) = "waiting",
         \A k \in Instances :
           /\ Phase(k)' = IF k = j THEN "rejected" ELSE Phase(k)
           /\ Size(k)' = Size(k) /\ PassedLevels(k)' = PassedLevels(k)
  PROVE  Journey!Next
<1>1. Journey!Reject(j)
  BY DEF Journey!Reject, Phase
<1> QED BY <1>1 DEF Journey!Next

LEMMA InitMaps == Init => Journey!Init
<1> SUFFICES ASSUME Init PROVE Journey!Init
  OBVIOUS
<1>1. \A i \in Instances : Phase(i) = "none" /\ Size(i) = 0 /\ PassedLevels(i) = {}
  BY PhaseNames DEF Init, NoInstance, NoStep, Phase, Size, PassedLevels, Passed
<1> QED BY <1>1 DEF Journey!Init, Phase

\* The levels behind an instance, seen from an open step.
LEMMA PassedBelow ==
  ASSUME IInv, NEW i \in Instances, NEW l \in Levels, step[i][l].state = "OPEN"
  PROVE  PassedLevels(i) = 0..(l - 1)
<1>1. i <= started
  BY DEF IInv, Registry
<1>2. \A k \in Levels : Passed(i, k) <=> k < l
  BY <1>1, BoundAssumption DEF IInv, LevelsInOrder, Passed, LevelsOf, Levels
<1> QED BY <1>2, BoundAssumption DEF PassedLevels, Levels

LEMMA StartMaps ==
  ASSUME IInv, Coupled, NEW e \in Editors, EditCommits(e)
  PROVE  [Journey!Next]_(Journey!vars)
<1>1. CASE UNCHANGED <<started, wfi, step>>
  BY <1>1, MapsToStutter DEF SameJourney, Phase, Size, PassedLevels, Passed
<1>2. CASE StartInstance(edit[e].obj, edit[e].actor, edit[e].def, edit[e].waiting)
           /\ edit[e].def # 0
  <2> SUFFICES ASSUME NEW x, x = edit[e], NEW new, new = started + 1,
                      StartInstance(x.obj, x.actor, x.def, x.waiting)
               PROVE  Journey!Next
    BY <1>2
  <2>1. /\ JourneyType /\ x.obj \in Tariffs /\ x.def \in Defs
        /\ x.waiting \in SUBSET Instances /\ \A i \in x.waiting : Waiting(i)
    BY <1>2, EditFields, BoundAssumption
       DEF EditCommits, IInv, TypeOK, Coupled, EditsFresh, FreshEdit, Defs
  <2>2. /\ new \in Instances /\ wfi[new].status = "NONE" /\ 0 \in Levels
        /\ \A l \in Levels : step[new][l].state = "ABSENT"
    BY <2>1, BoundAssumption
       DEF StartInstance, IInv, Registry, JourneyType, Instances, Levels
  <2>3. /\ wfi'[new].status = "WAITING_FOR_APPROVAL" /\ wfi'[new].def = x.def
        /\ \A k \in Instances \ {new} :
             IF k \in x.waiting
             THEN wfi'[k].status = "CANCELLED" /\ wfi'[k].def = wfi[k].def
             ELSE wfi'[k] = wfi[k]
    BY <2>1, <2>2 DEF StartInstance, JourneyType, InstanceRow
  <2>4. \A k \in Instances : PassedLevels(k)' = PassedLevels(k)
    <3>1. \A k \in Instances, l \in Levels :
            \/ step'[k][l] = step[k][l]
            \/ /\ k = new /\ step'[k][l].state = "OPEN"
               /\ step[k][l].state = "ABSENT"
      BY <2>1, <2>2, OpenStepRow DEF StartInstance, JourneyType
    <3> QED BY <3>1 DEF PassedLevels, Passed
  <2>5. Phase(new) = "none" /\ \A k \in x.waiting : Phase(k) = "waiting"
    BY <2>1, <2>2, PhaseNames DEF Phase, Waiting
  <2>6. \A k \in Instances :
          /\ Phase(k)' = IF k = new THEN "waiting"
                         ELSE IF k \in x.waiting THEN "cancelled" ELSE Phase(k)
          /\ k # new => Size(k)' = Size(k)
    BY <2>1, <2>2, <2>3, PhaseNames DEF Phase, Size
  <2>7. Size(new)' \in 1..MaxLevels
    BY <2>1, <2>3, DefinitionAssumption, BoundAssumption DEF Size, Defs
  <2> QED BY <2>1, <2>2, <2>4, <2>5, <2>6, <2>7, MapsToStart
<1> QED BY <1>1, <1>2 DEF EditCommits

\* Only a waiting instance, or one withdrawn, has an open step.
LEMMA OpenStatus ==
  ASSUME JourneyType, Trails, NEW i \in Instances, NEW l \in Levels,
         step[i][l].state = "OPEN"
  PROVE  wfi[i].status \in {"WAITING_FOR_APPROVAL", "CANCELLED"}
<1>1. wfi[i].status \in InstanceStatus /\ i <= started /\ wfi[i].status # "NONE"
  BY DEF JourneyType, InstanceRow, Trails, Registry
<1>2. CASE wfi[i].status = "COMPLETED"
  <2>1. l \in LevelsOf(i)
    BY <1>1 DEF Trails, Registry
  <2> QED BY <1>2, <2>1 DEF Trails, CompletedTrail, Passed
<1>3. CASE wfi[i].status = "REJECTED"
  <2>1. PICK r \in LevelsOf(i) : \A k \in Levels :
          /\ k < r => Passed(i, k)
          /\ k = r => step[i][k].state = "REJECTED"
          /\ k > r => step[i][k].state = "ABSENT"
    BY <1>3 DEF Trails, RejectedTrail
  <2>2. l < r \/ l = r \/ l > r
    BY <1>1, DefinitionSize DEF LevelsOf, Levels, Trails
  <2> QED BY <2>1, <2>2 DEF Passed
<1> QED BY <1>1, <1>2, <1>3 DEF InstanceStatus

\* Closing a level that is not the last, by a decision or by an escalation.
LEMMA AdvanceMaps ==
  ASSUME IInv, NEW i \in Instances, NEW l \in Levels, step[i][l].state = "OPEN",
         l + 1 < LevelCount[wfi[i].def],
         NEW s \in {"APPROVED", "ESCALATED"}, NEW u \in Actors,
         wfi' = [wfi EXCEPT ![i].level = l + 1],
         step' = AdvanceStep(i, l, s, u)
  PROVE  Journey!Next
<1>1. /\ JourneyType /\ Trails /\ i <= started /\ wfi[i].def \in Defs
      /\ wfi[i].status \in {"WAITING_FOR_APPROVAL", "CANCELLED"}
  BY OpenStatus DEF IInv, TypeOK, Trails, Registry
<1>2. l + 1 \in Levels /\ l \in Nat
  BY <1>1, DefinitionSize, BoundAssumption DEF Trails, Levels
<1>3. \A k \in Instances : /\ wfi'[k].status = wfi[k].status
                           /\ wfi'[k].def = wfi[k].def
  BY <1>1 DEF JourneyType, InstanceRow
<1>4. \A j \in Instances, k \in Levels :
        step'[j][k].state = IF j = i /\ k = l THEN s
                            ELSE IF j = i /\ k = l + 1 THEN "OPEN"
                            ELSE step[j][k].state
  BY <1>1, <1>2, AdvancedRows
<1>5. PassedLevels(i) = 0..(l - 1)
  BY PassedBelow
<1>6. step[i][l + 1].state = "ABSENT"
  BY <1>1, <1>2, AbsentAbove DEF Levels
<1>7. \A j \in Instances \ {i} : PassedLevels(j)' = PassedLevels(j)
  BY <1>4 DEF PassedLevels, Passed
<1>8. PassedLevels(i)' = PassedLevels(i) \cup {l}
  BY <1>2, <1>4, <1>6 DEF PassedLevels, Passed
<1>9. PassedLevels(i)' = 0..l
  BY <1>2, <1>5, <1>8
<1>10. l + 1 < Size(i) /\ Phase(i) \in {"waiting", "cancelled"}
  BY <1>1, PhaseNames, BoundAssumption DEF Size, Phase, Defs
<1>11. \A k \in Instances :
         /\ Phase(k)' = Phase(k) /\ Size(k)' = Size(k)
         /\ PassedLevels(k)' = IF k = i THEN 0..l ELSE PassedLevels(k)
  BY <1>3, <1>7, <1>9 DEF Phase, Size
<1> QED BY <1>5, <1>10, <1>11, MapsToPass

LEMMA ReviewMaps ==
  ASSUME IInv, NEW p \in Reviewers \cup Sweepers, ReviewCommits(p),
         NEW x, x = review[p], NEW i, i = x.inst, NEW l, l = wfi[i].level
  PROVE  [Journey!Next]_(Journey!vars)
<1>1. CASE UNCHANGED <<wfi, step>>
  BY <1>1, MapsToStutter DEF SameJourney, Phase, Size, PassedLevels, Passed
<1>2. CASE ~UNCHANGED <<wfi, step>>
  <2>1. /\ JourneyType /\ Trails /\ x.actor \in Actors
        /\ i \in Instances /\ Waiting(i)
        /\ RecordApproval(x) \/ RecordRejection(x)
    BY <1>2, ReviewFields, BoundAssumption
       DEF ReviewCommits, Approve, Reject, IInv, TypeOK, Locks, Trails, Instances
  <2>2. /\ l \in Levels /\ l \in LevelsOf(i) /\ step[i][l].state = "OPEN"
        /\ LevelCount[wfi[i].def] \in 1..MaxLevels /\ i <= started
        /\ wfi[i].def \in Defs /\ x.inst # 0
    BY <2>1, OpenAtLevel, BoundAssumption DEF Trails, Registry, Instances
  <2>3. PassedLevels(i) = 0..(l - 1) /\ Phase(i) = "waiting"
        /\ Size(i) = LevelCount[wfi[i].def] /\ l \in Nat
    BY <2>1, <2>2, PassedBelow, PhaseNames, BoundAssumption
       DEF Phase, Waiting, Size, Defs, Levels
  <2>4. CASE RecordApproval(x) /\ ~IsFinalLevel(x)
    <3>1. /\ l + 1 < LevelCount[wfi[i].def]
          /\ wfi' = [wfi EXCEPT ![i].level = l + 1]
          /\ step' = AdvanceStep(i, l, "APPROVED", x.actor)
      BY <2>2, <2>4 DEF RecordApproval, IsFinalLevel, Levels
    <3> QED BY <2>1, <2>2, <3>1, AdvanceMaps
  <2>5. CASE RecordApproval(x) /\ IsFinalLevel(x)
    <3>1. /\ wfi' = [wfi EXCEPT ![i].status = "COMPLETED", ![i].level = -1]
          /\ step' = CloseStep(i, l, "APPROVED", x.actor)
          /\ l = Size(i) - 1
      BY <2>2, <2>3, <2>5 DEF RecordApproval, IsFinalLevel, LevelsOf
    <3>2. \A j \in Instances : /\ wfi'[j].def = wfi[j].def
            /\ wfi'[j].status = IF j = i THEN "COMPLETED" ELSE wfi[j].status
      BY <2>1, <3>1, EndedRow DEF InstanceStatus
    <3>3. \A j \in Instances, k \in Levels :
            step'[j][k].state = IF j = i /\ k = l THEN "APPROVED"
                                ELSE step[j][k].state
      BY <2>1, <2>2, <3>1, ClosedRows DEF StepState
    <3>4. PassedLevels(i)' = PassedLevels(i) \cup {l}
      BY <2>1, <2>2, <3>3 DEF PassedLevels, Passed
    <3>5. PassedLevels(i)' = 0..(Size(i) - 1) /\ PassedLevels(i) = 0..(Size(i) - 2)
      <4>1. Size(i) \in Nat /\ Size(i) - 2 = l - 1
        BY <2>2, <2>3, <3>1, BoundAssumption
      <4>2. 0..l = (0..(l - 1)) \cup {l}
        BY <2>3
      <4> QED BY <2>3, <3>1, <3>4, <4>1, <4>2
    <3>6. \A j \in Instances :
            /\ Phase(j)' = IF j = i THEN "completed" ELSE Phase(j)
            /\ Size(j)' = Size(j)
            /\ PassedLevels(j)' =
                 IF j = i THEN 0..(Size(i) - 1) ELSE PassedLevels(j)
      BY <3>2, <3>3, <3>5, PhaseNames DEF Phase, Size, PassedLevels, Passed
    <3> QED BY <2>1, <2>3, <3>5, <3>6, MapsToComplete
  <2>6. CASE RecordRejection(x)
    <3>1. /\ wfi' = [wfi EXCEPT ![i].status = "REJECTED", ![i].level = -1]
          /\ step' = CloseStep(i, l, "REJECTED", x.actor)
      BY <2>6 DEF RecordRejection
    <3>2. \A j \in Instances : /\ wfi'[j].def = wfi[j].def
            /\ wfi'[j].status = IF j = i THEN "REJECTED" ELSE wfi[j].status
      BY <2>1, <3>1, EndedRow DEF InstanceStatus
    <3>3. \A j \in Instances, k \in Levels :
            step'[j][k].state = IF j = i /\ k = l THEN "REJECTED"
                                ELSE step[j][k].state
      BY <2>1, <2>2, <3>1, ClosedRows DEF StepState
    <3>4. \A j \in Instances :
            /\ Phase(j)' = IF j = i THEN "rejected" ELSE Phase(j)
            /\ Size(j)' = Size(j) /\ PassedLevels(j)' = PassedLevels(j)
      BY <2>2, <3>2, <3>3, PhaseNames DEF Phase, Size, PassedLevels, Passed
    <3> QED BY <2>1, <2>3, <3>4, MapsToReject
  <2> QED BY <2>1, <2>4, <2>5, <2>6
<1> QED BY <1>1, <1>2

LEMMA JourneyMaps ==
  ASSUME IInv, Coupled, Next PROVE [Journey!Next]_(Journey!vars)
<1>1. CASE \E e \in Editors : EditCommits(e)
  BY <1>1, StartMaps
<1>2. CASE \E p \in Reviewers \cup Sweepers : ReviewCommits(p)
  BY <1>2, ReviewMaps
<1>3. ASSUME NEW s \in Sweepers, EscalationCommits(s) PROVE Journey!Next
  <2> DEFINE i == sweep[s].inst
             l == sweep[s].level
  <2>1. /\ i \in Instances /\ l \in Levels /\ step[i][l].state = "OPEN"
        /\ l + 1 < LevelCount[wfi[i].def] /\ System \in Actors
        /\ wfi' = [wfi EXCEPT ![i].level = l + 1]
        /\ step' = AdvanceStep(i, l, "ESCALATED", System)
    BY <1>3 DEF EscalationCommits, IInv, TypeOK, SweepType, Locks, Actors
  <2> HIDE DEF i, l
  <2> QED BY <2>1, AdvanceMaps
<1>4. CASE /\ UNCHANGED wfi
           /\ \A i \in Instances, l \in Levels : step'[i][l].state = step[i][l].state
  BY <1>4, MapsToStutter DEF SameJourney, Phase, Size, PassedLevels, Passed
<1>5. JourneyType
  BY DEF IInv, TypeOK
<1>6. ASSUME NEW i \in Instances, NEW l \in Levels, DeadlinePasses(i, l)
      PROVE  UNCHANGED Journey!vars
  <2>1. /\ UNCHANGED wfi
        /\ \A j \in Instances, k \in Levels : step'[j][k].state = step[j][k].state
    BY <1>5, <1>6 DEF DeadlinePasses, JourneyType, StepRow
  <2> QED BY <1>4, <2>1, MapsToStutter
            DEF SameJourney, Phase, Size, PassedLevels, Passed
<1>7. ASSUME NEW s \in Sweepers, NEW i \in Instances, NEW l \in Levels,
             SweepFlags(s, i, l)
      PROVE  [Journey!Next]_(Journey!vars)
  <2>1. UNCHANGED wfi /\ (step' = step \/ step' = [step EXCEPT ![i][l].breached = TRUE])
    BY <1>7 DEF SweepFlags
  <2>2. \A j \in Instances, k \in Levels : step'[j][k].state = step[j][k].state
    BY <1>5, <2>1 DEF JourneyType, StepRow
  <2> QED BY <1>4, <2>1, <2>2
<1>8. CASE UNCHANGED <<started, wfi, step>>
  BY <1>4, <1>8
<1> QED BY <1>1, <1>2, <1>3, <1>6, <1>7, <1>8, JourneyWriters

\* While no two requests edit one tariff at a time, every step of the engine is a
\* step of one approval journey or leaves all of them alone: only journeys that
\* still wait are withdrawn, levels are passed one by one, and the last completes.
THEOREM EngineImplementsJourney == Spec /\ []OneEditPerTariff => ImplementsJourney
<1>1. IInv /\ Coupled /\ [Next]_vars => [Journey!Next]_(Journey!vars)
  <2>1. ASSUME UNCHANGED vars PROVE UNCHANGED Journey!vars
    BY <2>1, MapsToStutter DEF vars, SameJourney, Phase, Size, PassedLevels, Passed
  <2> QED BY <2>1, JourneyMaps
<1>2. Init => Journey!Init
  BY InitMaps
<1> QED BY <1>1, <1>2, CoupledInvariant, PTL DEF Spec, ImplementsJourney, Journey!Spec
=============================================================================
