------------------------------- MODULE TaxEngine -------------------------------
(***************************************************************************)
(* What a quote amounts to (pricing/services/tax-engine, quote's delivery    *)
(* charge, the rule lookups of pricing.repository, shared/utils/money) and   *)
(* the rules an administrator configures (catalog.service).  Charges, limits *)
(* and the figures of a quote are whole paise.  A quantity times a rate per  *)
(* unit is finer than that, having the decimals of both: it is a number of   *)
(* Fine-ths of a paisa.  Between roundings amounts are numerators over the   *)
(* scale of their line, so nothing is lost, as with decimal.js.  A rule's    *)
(* code is its sequence number.                                              *)
(***************************************************************************)
EXTENDS Requests, Integers, FiniteSets, FiniteSetsExt, Functions

CONSTANTS
  Code,                \* codes, which are also the sequence numbers of tax rules
  State, Place,        \* what an address names: its state, and its city and pin code
  Percent, PerUnit,    \* rates a rule may have
  Charge, Threshold,   \* flat charges, and quantities or values of a rule's limits
  Litres, PerLitre,    \* quantities and rates per litre of the quotes examined
  Fine, Whole,         \* parts of a paisa in their product; a hundred in the unit of Percent
  MaxRules, MaxCharges \* bounds: rules configured in a run, and delivery rules among them

ASSUME Rates == Code \subseteq Nat /\ Percent \subseteq 0..Whole /\ PerUnit \subseteq Nat
ASSUME Scales == Fine \in Nat \ {0} /\ Whole \in Nat \ {0}
ASSUME Figures == Litres \cup PerLitre \cup Charge \cup Threshold \subseteq Nat

VARIABLES
  taxRules,        \* tax_rules by code
  deliveryRules    \* delivery_charge_rules; a set, priorities being distinct

taxation == <<taxRules, deliveryRules>>

TaxRule ==
  [appliesTo : {"FUEL", "DELIVERY"}, inclusive : BOOLEAN, state : State \cup {None},
   type : {"PERCENTAGE", "PER_UNIT"}, rate : Percent \cup PerUnit, active : BOOLEAN]

TaxRuleInput ==
  {r \in TaxRule : /\ r.active
                   /\ r.rate \in IF r.type = "PERCENTAGE" THEN Percent ELSE PerUnit}

DeliveryRuleOf(priorities) ==
  [pin : Place \cup {None}, city : Place \cup {None}, type : {"FLAT", "PER_KM"}, charge : Charge,
   minQuantity : Threshold \cup {0}, maxQuantity : Threshold \cup {None},
   minimum : Threshold \cup {None}, freeAbove : Threshold \cup {None}, priority : priorities]

DeliveryRule == DeliveryRuleOf(Nat)

DeliveryRuleInput ==
  {r \in DeliveryRuleOf({Cardinality(deliveryRules)}) : r.maxQuantity # None => r.minQuantity < r.maxQuantity}

\* An address's state is always given, and its filter replaces the one on the
\* rules' end: that a rule has lapsed is never seen here.
findActiveTaxRules(state) ==
  {c \in Code : taxRules[c] # None /\ taxRules[c].active /\ taxRules[c].state \in {None, state}}

\* Among the rules for the quantity: pin code first, then city, then the
\* unscoped rule; within them the priority.
findApplicableDeliveryRule(city, pin, litres) ==
  LET rules  == {r \in deliveryRules : /\ r.minQuantity <= litres
                                       /\ r.maxQuantity = None \/ r.maxQuantity >= litres}
      byPin  == {r \in rules : r.pin = pin}
      byCity == {r \in rules : r.pin = None /\ r.city = city}
      rest   == {r \in rules : r.pin = None /\ r.city = None}
      found  == IF byPin # {} THEN byPin ELSE IF byCity # {} THEN byCity ELSE rest
  IN IF found = {} THEN None ELSE CHOOSE r \in found : \A s \in found : r.priority <= s.priority

\* toDecimalPlaces(2, ROUND_HALF_UP): halves go away from zero.
roundMoney(n, scale) ==
  IF n >= 0 THEN (2 * n + scale) \div (2 * scale) ELSE -((2 * (-n) + scale) \div (2 * scale))

RateSum(rules) == SumFunction([c \in rules |-> taxRules[c].rate])

\* Mutant: the share inside an amount is taken where it is added to it.
percentWithin(n, percent) == (n * percent) \div (Whole + percent)

\* percentOf a numerator over a hundred.
percentOf(n, percent) == (n * percent) \div Whole

\* extractInclusiveTax and percentOf, over one scale for the line's amounts:
\* the first rule decides whether the tax is inside the amount, which like a
\* duty on the quantity is given in Fine-ths of a paisa.
computeLineTax(amount, litres, rules) ==
  LET perUnit   == {c \in rules : taxRules[c].type = "PER_UNIT"}
      percent   == rules \ perUnit
      combined  == RateSum(percent)
      inclusive == rules # {} /\ taxRules[Min(rules)].inclusive
      scale     == IF inclusive THEN Whole * (Whole + combined) ELSE Whole
      duty(c)   == litres * taxRules[c].rate * scale
      duties    == SumFunction([c \in perUnit |-> duty(c)])
      base      == IF inclusive THEN amount * Whole * Whole ELSE amount * scale + duties
      amounts   == [c \in rules |-> IF c \in perUnit THEN duty(c) ELSE percentOf(base, taxRules[c].rate)]
  IN [scale |-> scale * Fine, amounts |-> amounts,
      taxable |-> IF inclusive THEN base - duties ELSE amount * scale,
      tax |-> SumFunction(amounts)]

rulesFor(state, line) == {c \in findActiveTaxRules(state) : taxRules[c].appliesTo = line}

\* resolveDeliveryCharge: None when no rule covers the order or the rule refuses
\* it.  The fuel amount is the one not rounded yet.
resolveDeliveryCharge(rule, litres, fuelAmount) ==
  IF rule = None \/ rule.type # "FLAT" \/ (rule.minimum # None /\ litres < rule.minimum) THEN None
  ELSE IF rule.freeAbove # None /\ fuelAmount >= rule.freeAbove * Fine THEN 0 ELSE rule.charge

Line(kind, computed, taxable, total) ==
  [kind |-> kind, taxable |-> taxable, total |-> total,
   tax |-> roundMoney(computed.tax, computed.scale),
   components |-> [c \in DOMAIN computed.amounts |-> roundMoney(computed.amounts[c], computed.scale)]]

\* Fuel is sold at a rate with its tax inside; tax is added to the delivery.
calculateQuoteBreakdown(litres, perLitre, charge, state) ==
  LET fuelGross == litres * perLitre
      fuel      == computeLineTax(fuelGross, litres, rulesFor(state, "FUEL"))
      delivery  == computeLineTax(charge * Fine, litres, rulesFor(state, "DELIVERY"))
      fuelLine  == Line("FUEL", fuel, roundMoney(fuel.taxable, fuel.scale), roundMoney(fuelGross, Fine))
      deliveryLine == Line("DELIVERY", delivery, charge,
                           roundMoney(charge * delivery.scale + delivery.tax, delivery.scale))
  IN [fuel |-> fuelLine, delivery |-> deliveryLine, tax |-> fuelLine.tax + deliveryLine.tax,
      total |-> fuelLine.total + deliveryLine.total]

---------------------------------------------------------------------------
\* catalog.service.  A code is unique; what a rule taxes is never retargeted.
rulesConfigured == Cardinality({c \in Code : taxRules[c] # None}) + Cardinality(deliveryRules)

CreateTaxRule(c, input) ==
  /\ taxRules[c] = None /\ rulesConfigured < MaxRules
  /\ taxRules' = [taxRules EXCEPT ![c] = input]
  /\ UNCHANGED deliveryRules

UpdateTaxRule(c) ==
  /\ taxRules[c] # None
  /\ \/ taxRules' = [taxRules EXCEPT ![c].inclusive = ~@]
     \/ taxRules' = [taxRules EXCEPT ![c].active = ~@]
     \/ \E r \in IF taxRules[c].type = "PERCENTAGE" THEN Percent ELSE PerUnit :
          taxRules' = [taxRules EXCEPT ![c].rate = r]
     \/ \E s \in State \cup {None} : taxRules' = [taxRules EXCEPT ![c].state = s]
  /\ UNCHANGED deliveryRules

CreateDeliveryRule(input) ==
  /\ rulesConfigured < MaxRules /\ Cardinality(deliveryRules) < MaxCharges
  /\ deliveryRules' = deliveryRules \cup {input}
  /\ UNCHANGED taxRules

TaxNext ==
  \/ \E c \in Code : (\E input \in TaxRuleInput : CreateTaxRule(c, input)) \/ UpdateTaxRule(c)
  \/ \E input \in DeliveryRuleInput : CreateDeliveryRule(input)

TaxInit == taxRules = [c \in Code |-> None] /\ deliveryRules = {}

TaxSpec == TaxInit /\ [][TaxNext]_taxation

TaxTypeOK ==
  /\ taxRules \in [Code -> TaxRule \cup {None}]
  /\ \A r \in deliveryRules : r \in DeliveryRule

---------------------------------------------------------------------------
\* INV-09 for every quote the configured rules can produce, provided fuel rules
\* are inclusive and delivery rules exclusive: the total is the sum of the
\* lines, the fuel is the quantity at the published rate to the nearest paisa,
\* and the delivery is no less than the charge.  On each line the taxable value
\* and the tax make up the total to within a paisa, though all three may have
\* been rounded, and the taxes make up the tax to within one each.
Apart(a, b) == IF a > b THEN a - b ELSE b - a

LineBalances(line) == Apart(line.taxable + line.tax, line.total) <= 1

TaxSplits(line) ==
  Apart(SumFunction(line.components), line.tax) <= Cardinality(DOMAIN line.components)

InclusivityAsSold ==
  \A c \in Code : taxRules[c] # None => (taxRules[c].inclusive <=> taxRules[c].appliesTo = "FUEL")

QuoteBalances(quote, gross, charge) ==
  /\ LineBalances(quote.fuel) /\ TaxSplits(quote.fuel)
  /\ LineBalances(quote.delivery) /\ TaxSplits(quote.delivery)
  /\ 2 * Apart(quote.fuel.total * Fine, gross) <= Fine
  /\ quote.delivery.total >= charge
  /\ quote.total = quote.fuel.total + quote.delivery.total

BreakdownBalances ==
  InclusivityAsSold =>
    \A q \in Litres, p \in PerLitre, s \in State, city, pin \in Place :
      LET charge == resolveDeliveryCharge(findApplicableDeliveryRule(city, pin, q), q, q * p)
      IN charge # None => QuoteBalances(calculateQuoteBreakdown(q, p, charge, s), q * p, charge)
===============================================================================
