---------------------------- MODULE MCPermissions ----------------------------
(* An instance of Permissions: SUPER_ADMIN and one business role, which holds  *)
(* the approve code twice, by a policy and by an inline policy, and is the     *)
(* approver of the one level of the one workflow type.                         *)
EXTENDS Permissions, TLC

MCInlineOf == [i \in Inlines |-> "finance"]
MCResourceOf == [c \in Codes |-> IF c = "approve" THEN "tariffs" ELSE "meters"]
MCApproveCodes == [t \in Types |-> {"approve"}]
MCSymmetry == Permutations(Changes)

Row(state, system, codes) == [state |-> state, system |-> system, codes |-> codes]

\* A database: the row of the system policy, and whether finance has been set up.
MCDatabase(named, done) ==
  [policy |-> [p \in Policies |-> CASE p = Named -> named
                                    [] p = "custom" -> Row("live", FALSE, {"approve"})
                                    [] OTHER -> Row("none", FALSE, {})],
   attached |-> (IF done THEN {<<"finance", "custom">>} ELSE {})
                \cup (IF named.state = "live" THEN {<<SuperAdmin, Named>>} ELSE {}),
   inline |-> [i \in Inlines |-> [live |-> done, codes |-> IF done THEN {"approve"} ELSE {}]],
   definition |-> [x \in Definitions |->
                     IF done /\ x = 1
                     THEN [active |-> TRUE, type |-> "TARIFF", roles |-> {"finance"}]
                     ELSE NoDefinition]]

\* A new installation, an old one whose system policy lists too little, one whose
\* system policy still lists an approval, and one where nobody can approve yet.
MCSeeds ==
  {MCDatabase(named, TRUE) :
     named \in {Row("none", FALSE, {}), Row("live", TRUE, {"view"}),
                Row("live", TRUE, {"view", "edit", "approve"})}}
  \cup {MCDatabase(Row("live", TRUE, {"view", "edit"}), FALSE)}
=============================================================================
