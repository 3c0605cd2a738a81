------------------------------ MODULE MCMetering ------------------------------
EXTENDS Metering, TLC

CONSTANTS m1, m2, u1

\* Two months, of four and of three days.  Version 2 changes other terms than the
\* rule: taking over on day 2, 3 or 4 its first period reaches back.
MCFirstDay == <<1, 5, 8>>
MCRuleOf   == <<<<1, 3>>, <<1, 3>>>>

\* m2 is a spare: it can be mapped to u1 once m1 is not.
MCInstalled == (m1 :> u1) @@ (m2 :> NoUnit)
MCFiles  == {<<m1, 1>>, <<m1, 3>>, <<m1, 6>>, <<m1, 7>>, <<m2, 6>>}
MCSpoilt == {<<m1, 1>>}
MCDial   == [f \in MCFiles |-> IF f[1] = m1 THEN 2 + (f[2] * f[2]) \div 2 ELSE f[2]]

Steps == <<[min |-> 0, max |-> 2, rate |-> 1050],
           [min |-> 2, max |-> 5, rate |-> 2033],
           [min |-> 5, max |-> NoMax, rate |-> 3200]>>
MCTariffOf ==
  [u \in Units |->
     [rateType |-> "TIERED", flatRate |-> 0, tiers |-> Steps, fee |-> 25,
      vat |-> 500, taxed |-> {"billingServiceFee"}]]
===============================================================================
