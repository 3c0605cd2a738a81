-------------------------- MODULE MCTariffVersions --------------------------
(* Small instances of TariffVersions for TLC. *)
EXTENDS TariffVersions

MCPropertyOf == [u \in Units |-> "p1"]
MCTypeOf == [p \in Properties |-> "residential"]

Keep == [type |-> None, app |-> None, from |-> None, to |-> None, on |-> None]
Estate == [Keep EXCEPT !.type = "residential", !.app = "GLOBAL", !.from = 1]
\* A tariff of the estate, one of the property, a later start, an earlier end.
MCForms == {Estate, [Keep EXCEPT !.app = "PROPERTY", !.on = {"p1"}],
            [Keep EXCEPT !.from = 2], [Keep EXCEPT !.to = 1]}

Global(status, from, to, parent) ==
  [status |-> status, type |-> "residential", app |-> "GLOBAL", from |-> from, to |-> to,
   on |-> {}, parent |-> parent]
Local(status, from, to, parent) ==
  [Global(status, from, to, parent) EXCEPT !.app = "PROPERTY", !.on = {"p1"}]
Table(r1, r2) == [v \in Versions |-> CASE v = "v1" -> r1 [] v = "v2" -> r2 [] OTHER -> None]
\* An open-ended tariff with a draft for its successor; one that ends, with its
\* successor active; one whose active successor is narrower; a tariff taken out of
\* use, and a draft in its place.
MCSeeds == {
  Table(Global("ACTIVE", 1, Never, None), Global("DRAFT", 2, Never, "v1")),
  Table(Global("ACTIVE", 1, 1, None), Global("ACTIVE", 2, Never, "v1")),
  Table(Global("ACTIVE", 1, Never, None), Local("ACTIVE", 1, Never, "v1")),
  Table(Global("INACTIVE", 1, Never, None), Global("DRAFT", 1, Never, None))}
MCSuccession == {Table(Global("ACTIVE", 1, Never, None), Global("DRAFT", 2, Never, "v1"))}
=============================================================================
