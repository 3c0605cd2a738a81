---------------------------- MODULE MCBillingCycles ----------------------------
(* Instances of BillingCycles for TLC: short months and a few rules.           *)
EXTENDS BillingCycles, TLC

\* Months of 3, 2, 3 and 2 days.
MCFirstDay == <<1, 4, 6, 9, 11>>

\* A period within a month, and a full month from a day to the same day.
MCShortRules == {<<1, 2>>}
MCFullRules  == {<<1, 1>>}
===============================================================================
