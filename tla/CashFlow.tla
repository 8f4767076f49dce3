------------------------------ MODULE CashFlow ------------------------------
(***************************************************************************)
(* From the rows of a proforma to the indicators of the report:            *)
(* net_operating_flows (core/casegrid/operating_lines.py) turns the sign   *)
(* of the costs, npv and bcr (core/cba/metrics.py) sum present values, and *)
(* the two payback periods and the count of sign changes are loops over    *)
(* the years, one step of the model per iteration.                         *)
(*                                                                         *)
(* A row maps some of the years to whole won, as CashFlowRow does: costs   *)
(* and benefits are both positive in a row, and a salvage value is a       *)
(* negative cost.  The discount rate is the fraction rate.num / rate.den.  *)
(* Divisions are exact where the code has floats; to_won rounds as the     *)
(* code does, halves away from zero.                                       *)
(***************************************************************************)
EXTENDS Integers, Sequences, FiniteSetsExt

CONSTANTS
  Investments,  \* initial outlays, in won
  BenefitRows,  \* sequences of benefit rows
  CostRows,     \* sequences of cost rows
  Rates         \* discount rates, records of num and den

VARIABLES
  inv, benefits, costs, rate,  \* what the indicators are computed from
  pc,          \* "net", "simple", "discounted", "signs" or "done"
  flows,       \* the rows with the sign of the costs turned
  year,        \* last year the running loop has counted; 0 at its start
  cum,         \* what the running loop has added up
  simple,      \* simple payback period, or Never
  discounted,  \* discounted payback period, or Never
  sign,        \* sign of the last year that was not 0
  changes      \* number of sign changes counted

input == <<inv, benefits, costs, rate>>
vars == <<input, pc, flows, year, cum, simple, discounted, sign, changes>>

-----------------------------------------------------------------------------
(***************************************************************************)
(* Amounts.                                                                *)
(***************************************************************************)
Sign(n) == IF n > 0 THEN 1 ELSE IF n < 0 THEN -1 ELSE 0

\* to_won(n / d): halves are rounded away from zero.
ToWon(n, d) == LET size == Sign(n) * n
               IN  Sign(n) * ((2 * size + d) \div (2 * d))

\* amount / (1 + rate) ** y, rounded.
Discounted(amount, y) == ToWon(amount * rate.den ^ y, (rate.den + rate.num) ^ y)

\* A sum over what the rows hold for the years up to y.
Entries(rows, y) == {e \in (1 .. Len(rows)) \X (1 .. y) : e[2] \in DOMAIN rows[e[1]]}
SumOver(rows, y, Amount(_, _)) ==
  MapThenSumSet(LAMBDA e : Amount(rows[e[1]][e[2]], e[2]), Entries(rows, y))

YearsOf(rows) == UNION {DOMAIN rows[i] : i \in 1 .. Len(rows)}
LastYear(rows) == Max(YearsOf(rows) \cup {0})

\* won_sum: every term is rounded before it is added.
PV(rows) == SumOver(rows, LastYear(rows), Discounted)

Npv(rows) == PV(rows) - inv
BcrNumerator == PV(benefits)
BcrDenominator == inv + PV(costs)

\* Variant: the benefits of the year alone, as where its rows are counted one
\* by one (_flatten).
InYearBenefitsOnly(rows, y) ==
  MapThenSumSet(LAMBDA i : rows[i][y],
                {i \in 1 .. Len(rows) : y \in DOMAIN rows[i] /\ rows[i][y] >= 0})

\* _by_year: what the rows of one year come to.
InYear(rows, y) ==
  MapThenSumSet(LAMBDA i : rows[i][y], {i \in 1 .. Len(rows) : y \in DOMAIN rows[i]})

YearsLeft == {y \in YearsOf(flows) : y > year}
This == Min(YearsLeft)

\* No payback within the years of the rows.
Never == [whole |-> -1, num |-> 0, den |-> 1]

\* Recovered within year y: whole years and the share of the last one.
Within(y, before, amount) ==
  IF amount = 0
  THEN [whole |-> y, num |-> 0, den |-> 1]
  ELSE [whole |-> y - 1, num |-> -before, den |-> amount]

-----------------------------------------------------------------------------
Init ==
  /\ inv \in Investments
  /\ benefits \in BenefitRows
  /\ costs \in CostRows
  /\ rate \in Rates
  /\ pc = "net"
  /\ flows = <<>>
  /\ year = 0 /\ cum = 0
  /\ simple = Never /\ discounted = Never
  /\ sign = 0 /\ changes = 0

StartLoop(loop) == pc' = loop /\ year' = 0 /\ cum' = -inv

\* Variant: the costs are passed on as they are.
NetUnsigned ==
  /\ pc = "net"
  /\ flows' = benefits \o costs
  /\ StartLoop("simple")
  /\ UNCHANGED <<input, simple, discounted, sign, changes>>

Net ==
  /\ pc = "net"
  /\ flows' = benefits \o [i \in 1 .. Len(costs) |-> [y \in DOMAIN costs[i] |-> -costs[i][y]]]
  /\ StartLoop("simple")
  /\ UNCHANGED <<input, simple, discounted, sign, changes>>

Add(loop, amount) ==
  /\ pc = loop /\ YearsLeft # {}
  /\ cum + amount < 0
  /\ cum' = cum + amount
  /\ year' = This
  /\ UNCHANGED <<input, pc, flows, simple, discounted, sign, changes>>

Recovers(loop, amount) == pc = loop /\ YearsLeft # {} /\ cum + amount >= 0
GivesUp(loop) == pc = loop /\ YearsLeft = {}

AddSimple == Add("simple", InYear(flows, This))

RecoverSimple ==
  /\ Recovers("simple", InYear(flows, This))
  /\ simple' = Within(This, cum, InYear(flows, This))
  /\ StartLoop("discounted")
  /\ UNCHANGED <<input, flows, discounted, sign, changes>>

GiveUpSimple ==
  /\ GivesUp("simple")
  /\ StartLoop("discounted")
  /\ UNCHANGED <<input, flows, simple, discounted, sign, changes>>

\* A year is summed first, then discounted and rounded once.
AddDiscounted == Add("discounted", Discounted(InYear(flows, This), This))

RecoverDiscounted ==
  LET amount == Discounted(InYear(flows, This), This)
  IN  /\ Recovers("discounted", amount)
      /\ discounted' = Within(This, cum, amount)
      /\ StartLoop("signs")
      /\ UNCHANGED <<input, flows, simple, sign, changes>>

GiveUpDiscounted ==
  /\ GivesUp("discounted")
  /\ StartLoop("signs")
  /\ UNCHANGED <<input, flows, simple, discounted, sign, changes>>

\* mirr_preferred_over_irr over the outlay and the years: zeros are passed
\* over.  The outlay is year 0; cum is not used.
SignedYears == {y \in YearsLeft : InYear(flows, y) # 0}
LastSign == IF year = 0 THEN Sign(-inv) ELSE sign

CountSign ==
  LET s == Sign(InYear(flows, Min(SignedYears)))
  IN  /\ pc = "signs" /\ SignedYears # {}
      /\ sign' = s
      /\ changes' = IF LastSign \in {0, s} THEN changes ELSE changes + 1
      /\ year' = Min(SignedYears)
      /\ UNCHANGED <<input, pc, flows, cum, simple, discounted>>

Finish ==
  /\ pc = "signs" /\ SignedYears = {}
  /\ pc' = "done"
  /\ UNCHANGED <<input, flows, year, cum, simple, discounted, sign, changes>>

Next ==
  \/ Net
  \/ AddSimple \/ RecoverSimple \/ GiveUpSimple
  \/ AddDiscounted \/ RecoverDiscounted \/ GiveUpDiscounted
  \/ CountSign \/ Finish

Spec == Init /\ [][Next]_vars

MirrPreferred == changes > 1

-----------------------------------------------------------------------------
Period == {Never} \cup [whole : Nat, num : Nat, den : Nat \ {0}]

\* A period that was found lies within its year: the share is at most 1.
TypeOK ==
  /\ pc \in {"net", "simple", "discounted", "signs", "done"}
  /\ year \in {0} \cup YearsOf(flows)
  /\ cum \in Int
  /\ simple \in Period /\ simple.num <= simple.den
  /\ discounted \in Period /\ discounted.num <= discounted.den
  /\ sign \in {-1, 0, 1}
  /\ changes \in 0 .. Cardinality(YearsOf(flows))

(***************************************************************************)
(* To the won, the net present value is the numerator of B/C less its      *)
(* denominator, though the two sum different rows (npv, bcr and            *)
(* net_operating_flows, which adds costs with the wrong sign when it fails *)
(* to turn them).                                                          *)
(***************************************************************************)
NpvIsBenefitsLessCosts ==
  pc = "done" => Npv(flows) = BcrNumerator - BcrDenominator

(***************************************************************************)
(* A payback period lies in the first year in which the rows of all years  *)
(* so far, summed in whatever order, have paid the outlay back, and there  *)
(* is none only when no year does (payback_simple, payback_discounted).    *)
(***************************************************************************)
Nominal(amount, y) == amount
PaidBack(y) == SumOver(flows, y, Nominal) >= inv

YearlyDiscounted(y) ==
  MapThenSumSet(LAMBDA z : Discounted(SumOver(flows, z, LAMBDA a, w : IF w = z THEN a ELSE 0), z),
                {z \in YearsOf(flows) : z <= y})

LiesInFirst(period, Paid(_)) ==
  LET paid == {y \in YearsOf(flows) : Paid(y)}
  IN  IF paid = {}
      THEN period = Never
      ELSE /\ period # Never
           /\ period.whole + (IF period.num = 0 /\ period.whole = Min(paid) THEN 0 ELSE 1)
                = Min(paid)

FirstRecovery ==
  pc = "done" =>
    /\ LiesInFirst(simple, PaidBack)
    /\ LiesInFirst(discounted, LAMBDA y : YearlyDiscounted(y) >= inv)

(***************************************************************************)
(* The two lines of the first section of the report, the sign of the net   *)
(* present value and the discounted payback, agree up to rounding: without *)
(* a payback there is no gain, and a payback of an unchanging flow is no   *)
(* loss (test_metrics.py:510-552).                                         *)
(***************************************************************************)
Uniform == \A y, z \in YearsOf(flows) : InYear(flows, y) = InYear(flows, z)
RoundingSlack == Cardinality(Entries(flows, LastYear(flows))) + Cardinality(YearsOf(flows))
NpvAgreesUpToRounding ==
  pc = "done" =>
    /\ discounted = Never => 2 * Npv(flows) < RoundingSlack
    /\ discounted # Never /\ Uniform => 2 * Npv(flows) >= -RoundingSlack

(***************************************************************************)
(* When the count of sign changes lets IRR stand (mirr_preferred_over_irr  *)
(* says no), the present value changes sign at most once over the rates    *)
(* that irr bisects: what it finds is the only one.                        *)
(***************************************************************************)
ScaledNpv(a) ==  \* the present value at 1 / (1 + r) = a / 4, times 4 ^ LastYear
  LET n == LastYear(flows)
  IN  SumOver(flows, n, LAMBDA amount, y : amount * a ^ y * 4 ^ (n - y)) - inv * 4 ^ n
Between(S, b) == (\E a \in S : a < b) /\ (\E c \in S : b < c)
IrrIsUnique ==
  pc = "done" /\ ~MirrPreferred =>
    LET gains == {a \in 1 .. 16 : ScaledNpv(a) > 0}
        losses == {a \in 1 .. 16 : ScaledNpv(a) < 0}
    IN  /\ \A b \in gains : ~Between(losses, b)
        /\ \A b \in losses : ~Between(gains, b)
=============================================================================
