----------------------------- MODULE MCAccounts -----------------------------
EXTENDS Accounts, TLC

\* a and b are administrators, b is deactivated and has a second role; c is not
\* created yet.
MCSeed ==
  [a |-> [state |-> "live", active |-> TRUE, email |-> "ea"],
   b |-> [state |-> "live", active |-> FALSE, email |-> "eb"],
   c |-> NoRow]
MCSeedHeld == {<<"a", "SUPER_ADMIN">>, <<"b", "SUPER_ADMIN">>, <<"b", "clerk">>}
MCEdits ==
  {[active |-> "keep", email |-> "keep"], [active |-> "on", email |-> "keep"],
   [active |-> "off", email |-> "keep"], [active |-> "on", email |-> "eb"],
   [active |-> "keep", email |-> "ec"]}
MCSymmetry == Permutations(Requests)
=============================================================================
