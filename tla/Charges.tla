-------------------------------- MODULE Charges --------------------------------
(***************************************************************************)
(* What a consumption costs: the arithmetic of BillingManagementService    *)
(* and the check TariffService makes of a tariff's tiers.                  *)
(*                                                                         *)
(* Money is counted in hundredths and a rate in ten-thousandths of the     *)
(* currency, a percentage in hundredths, a consumption in whole kWh: exact *)
(* integers where the code has doubles that it rounds after each step.     *)
(***************************************************************************)
EXTENDS Integers, Sequences

CONSTANT NoMax   \* the null maxKwh of a tier that is open

ASSUME ChargesAssumption == NoMax \notin Nat

Tier   == [min: Nat, max: Nat \cup {NoMax}, rate: Nat]
Tariff == [rateType: {"FLAT", "TIERED"}, flatRate: Nat, tiers: Seq(Tier),
           fee: Nat, vat: Nat,
           taxed: SUBSET {"consumptionCharge", "billingServiceFee"}]

\* assertTiersValid, of tiers sorted by their minimum: only the last may be open
\* and none begins below the end of the one before it.  Gaps, a first tier above
\* 0, a closed last tier and a maximum below the minimum all pass.
TiersValid(tiers) ==
  /\ \A i \in 1..(Len(tiers) - 1) : tiers[i].max # NoMax
  /\ \A i \in 2..Len(tiers) : tiers[i].min >= tiers[i - 1].max

\* Math.round: halves go up, whatever the sign.
Round(x, unit) == (x + unit \div 2) \div unit

\* Mutant: a tier takes all the kWh up to its maximum.
UpToMax(tier, left) == IF tier.max = NoMax THEN left ELSE tier.max

\* The loop charges by the width of a tier, in the order of the tiers: the
\* position of a tier plays no part.
Width(tier, left) == IF tier.max = NoMax THEN left ELSE tier.max - tier.min

Band(tier, left) ==
  IF left <= 0 THEN 0
  ELSE IF left < Width(tier, left) THEN left ELSE Width(tier, left)

TierCharge(tiers, kwh) ==
  LET left[i \in 0..Len(tiers)] ==
        IF i = 0 THEN kwh ELSE left[i - 1] - Band(tiers[i], left[i - 1])
      charge[i \in 0..Len(tiers)] ==
        IF i = 0 THEN 0
        ELSE charge[i - 1] + Band(tiers[i], left[i - 1]) * tiers[i].rate
  IN  charge[Len(tiers)]

ConsumptionCharge(t, kwh) ==
  Round(IF t.rateType = "FLAT" THEN kwh * t.flatRate
        ELSE TierCharge(t.tiers, kwh), 100)

\* VAT is taken of the taxed fees only.
Vat(t, charge) ==
  LET Of(fee, amount) == IF fee \in t.taxed THEN amount ELSE 0
  IN  Round((Of("consumptionCharge", charge) + Of("billingServiceFee", t.fee))
              * t.vat, 10000)

calculateCharges(t, kwh) ==
  LET charge == ConsumptionCharge(t, kwh)
      vat    == Vat(t, charge)
  IN  [charge |-> charge, fee |-> t.fee, subtotal |-> charge + t.fee,
       vat |-> vat, due |-> charge + t.fee + vat]

\* validateReconciliation: there is a line for VAT only when VAT is positive.
Reconciles(calc) ==
  LET lines == calc.charge + calc.fee + (IF calc.vat > 0 THEN calc.vat ELSE 0)
  IN  lines - calc.due \in -1..1

-----------------------------------------------------------------------------
(* The reference: every kWh at the rate of the tier it falls in.           *)

\* The tiers leave no kWh without a rate.
Whole(tiers) ==
  /\ tiers # << >> /\ tiers[1].min = 0 /\ tiers[Len(tiers)].max = NoMax
  /\ \A i \in 2..Len(tiers) : tiers[i].min = tiers[i - 1].max
  /\ \A i \in 1..(Len(tiers) - 1) : tiers[i].min < tiers[i].max

RateOf(tiers, k) ==
  LET i == CHOOSE j \in DOMAIN tiers :
             tiers[j].min < k /\ (tiers[j].max = NoMax \/ k <= tiers[j].max)
  IN  tiers[i].rate

PriceByKwh(tiers, kwh) ==
  LET price[k \in 0..kwh] ==
        IF k = 0 THEN 0 ELSE price[k - 1] + RateOf(tiers, k)
  IN  price[kwh]
===============================================================================
