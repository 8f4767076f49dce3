---------------------------- MODULE TariffBills ----------------------------
(***************************************************************************)
(* From a file of tariffs to the bills of a scenario                       *)
(* (core/regulation/tariff_loader.py, core/regulation/tariff.py): tables   *)
(* with periods of validity are loaded, the table of the day or the        *)
(* nearest one is chosen for every meter, and the bills before and after   *)
(* a measure are compared line by line.                                    *)
(*                                                                         *)
(* Days and kilowatt-hours are numbers, an open end is None; rates are in  *)
(* tenths of a won, None where the ledger has no such key; the rates of    *)
(* tax and fund are fractions.  A bill maps the keys of its lines to won:  *)
(* no key appears twice in one bill.                                       *)
(***************************************************************************)
EXTENDS Integers, Sequences, SequencesExt, FiniteSetsExt

CONSTANTS
  Catalogs,    \* files: kind of table to tables
  BillingDays, \* days a scenario may be billed for
  Scenarios,   \* meters before and after a measure
  Vat, Fund,   \* rates of value added tax and power industry fund
  None

VARIABLES
  given,  \* file, day, scenario
  at,     \* "file", "refused", "loaded", "billed", "failed"
  made    \* bills made, of the meters before and then of the meters after

billVars == <<given, at, made>>

Kinds == {"residential", "tou", "direct_trade"}
file == given.file
when == given.day
meters == given.before \o given.after
Less(a, b) == IF a < b THEN a ELSE b
More(a, b) == IF a < b THEN b ELSE a
TenthsToWon(n) == IF n >= 0 THEN (n + 5) \div 10 ELSE -((5 - n) \div 10)
FractionToWon(n, f) ==
  IF n >= 0 THEN (2 * n * f.num + f.den) \div (2 * f.den)
  ELSE -((f.den - 2 * n * f.num) \div (2 * f.den))

(***************************************************************************)
(* Loading: every kind is named, tables of one kind do not overlap.        *)
(***************************************************************************)
Before(a, b) == a = None \/ b = None \/ a <= b
Overlap(s, t) == Before(s.from, t.to) /\ Before(t.from, s.to)
Loadable ==
  /\ DOMAIN file = Kinds
  /\ \A k \in Kinds : \A i, j \in DOMAIN file[k] : i < j => ~Overlap(file[k][i], file[k][j])
  /\ \A t \in ToSet(file["residential"]) : t.blocks # <<>>
  /\ \A t \in ToSet(file["tou"]) : t.periods # <<>>

(***************************************************************************)
(* The table of a day: the one in force, else the one that ended last,     *)
(* else the one that begins first.                                         *)
(***************************************************************************)
InForce(t) == (t.from = None \/ t.from <= when) /\ (t.to = None \/ when <= t.to)
Ended(t) == t.to # None /\ t.to < when
Begins(t) == IF t.from = None THEN 0 ELSE t.from
Coming(t) == t.from # None /\ t.from > when
FirstOf(s, Test(_)) == s[CHOOSE i \in DOMAIN s : Test(s[i]) /\ \A j \in 1 .. i - 1 : ~Test(s[j])]
Answering(k) == \E t \in ToSet(file[k]) : InForce(t) \/ Ended(t) \/ Coming(t)
\* Variant: the nearest table, whether it has ended or is still to come.
SelectedNearest(k) ==
  LET Away(t) == CASE InForce(t) -> 0 [] Ended(t) -> when - t.to [] OTHER -> t.from - when
  IN  FirstOf(file[k], LAMBDA t : \A u \in ToSet(file[k]) : Away(t) <= Away(u))
Selected(k) ==
  LET tables == ToSet(file[k])
      valid == {t \in tables : InForce(t)}
      past == {t \in tables : Ended(t)}
      future == {t \in tables : Coming(t)}
  IN  IF valid # {} THEN FirstOf(file[k], LAMBDA t : t \in valid /\ \A u \in valid : Begins(u) <= Begins(t))
      ELSE IF past # {} THEN FirstOf(file[k], LAMBDA t : t \in past /\ \A u \in past : u.to <= t.to)
      ELSE FirstOf(file[k], LAMBDA t : t \in future /\ \A u \in future : t.from <= u.from)
Notice(k) ==
  IF InForce(Selected(k)) THEN None
  ELSE IF \E t \in ToSet(file[k]) : Ended(t) THEN "past" ELSE "future"

(***************************************************************************)
(* A bill of a dwelling: the basic charge of its block, every kilowatt-    *)
(* hour in the block it falls into, charges by usage, the discount.        *)
(***************************************************************************)
Upper(t, kwh, i) ==
  CASE i = 0 -> 0 [] t.blocks[i].upper = None -> kwh [] OTHER -> t.blocks[i].upper
LastBlock(t, kwh) ==
  LET holding == {i \in DOMAIN t.blocks : kwh <= Upper(t, kwh, i)}
  IN  IF holding = {} THEN Len(t.blocks) ELSE Min(holding)
\* Variant: what is above the block is not left to the next one.
TrancheWhole(t, kwh, i) == More(0, kwh - Upper(t, kwh, i - 1))
Tranche(t, kwh, i) == More(0, Less(kwh, Upper(t, kwh, i)) - Upper(t, kwh, i - 1))
Charged(t, kwh) == {i \in 1 .. LastBlock(t, kwh) : Tranche(t, kwh, i) > 0}
Energy(t, kwh) == TenthsToWon(MapThenSumSet(LAMBDA i : Tranche(t, kwh, i) * t.blocks[i].rate, Charged(t, kwh)))

Line(k, won) == [x \in {k} |-> won]
NoLine == [x \in {} |-> 0]
Join(f, g) == [x \in DOMAIN f \cup DOMAIN g |-> IF x \in DOMAIN f THEN f[x] ELSE g[x]]
Total(lines) == SumFunction(lines)
Optional(holds, line) == IF holds THEN line ELSE NoLine
Taxed(t, lines) ==
  IF ~t.taxed THEN lines
  ELSE Join(lines, [x \in {"vat", "fund"} |-> FractionToWon(Total(lines), IF x = "vat" THEN Vat ELSE Fund)])

ResidentialLines(t, kwh) ==
  Taxed(t,
    Join(Line("basic", t.blocks[LastBlock(t, kwh)].basic),
    Join(Line("energy", Energy(t, kwh)),
    Join(Optional(t.climate # None, Line("climate", TenthsToWon(kwh * t.climate))),
         Optional(t.discount # None /\ kwh <= t.discountMax, Line("discount", -t.discount))))))
ResidentialPriced(t, kwh) == \A i \in Charged(t, kwh) : t.blocks[i].rate # None

(***************************************************************************)
(* By time of use: the first period that holds the hour, charges and       *)
(* discounts added up by period and by rule before they are rounded.       *)
(***************************************************************************)
Matches(p, time) ==
  /\ time.month \in p.months /\ time.day \in p.days
  /\ IF p.start <= p.end THEN time.hour \in p.start .. p.end - 1
     ELSE time.hour >= p.start \/ time.hour < p.end
PeriodOf(t, time) == FirstOf(t.periods, LAMBDA p : Matches(p, time))
Covered(t, usages) == \A u \in ToSet(usages) : \E p \in ToSet(t.periods) : Matches(p, u.time)
Rated(t, usages) == \A u \in ToSet(usages) : PeriodOf(t, u.time).rate # None
Charge(t, u) == u.kwh * PeriodOf(t, u.time).rate
Applies(t, r, u) ==
  /\ r.periods = {} \/ PeriodOf(t, u.time).key \in r.periods
  /\ u.time.month \in r.months /\ u.time.day \in r.days
SumOver(usages, Test(_), Value(_)) ==
  MapThenSumSet(LAMBDA i : Value(usages[i]), {i \in DOMAIN usages : Test(usages[i])})
TouLines(t, usages) ==
  LET periods == {PeriodOf(t, u.time).key : u \in ToSet(usages)}
      rules == {r \in ToSet(t.discounts) : \E u \in ToSet(usages) : Applies(t, r, u)}
      Of(k) == SumOver(usages, LAMBDA u : PeriodOf(t, u.time).key = k, LAMBDA u : Charge(t, u))
      Off(r) == SumOver(usages, LAMBDA u : Applies(t, r, u), LAMBDA u : Charge(t, u) * r.tenths)
  IN  Taxed(t, Join([k \in periods |-> TenthsToWon(Of(k))],
                    [k \in {r.key : r \in rules} |->
                       -FractionToWon(Off(CHOOSE r \in rules : r.key = k), [num |-> 1, den |-> 100])]))
PriceSignal(t, time) == PeriodOf(t, time).rate

DirectLines(t, kwh) ==
  Taxed(t, Join(Line("trade_energy", TenthsToWon(kwh * t.rate)), Line("support_fee", TenthsToWon(kwh * t.fee))))

\* bill_residential, bill_tou, bill_direct_trade: what makes them raise.
Billable(m) ==
  /\ Answering(m.kind)
  /\ CASE m.kind = "residential" -> m.kwh >= 0 /\ ResidentialPriced(Selected(m.kind), m.kwh)
       [] m.kind = "tou" ->
            /\ \A u \in ToSet(m.usages) : u.kwh >= 0
            /\ Covered(Selected(m.kind), m.usages) /\ Rated(Selected(m.kind), m.usages)
       [] OTHER -> m.kwh >= 0 /\ Selected(m.kind).rate # None
Lines(m) ==
  CASE m.kind = "residential" -> ResidentialLines(Selected(m.kind), m.kwh)
    [] m.kind = "tou" -> TouLines(Selected(m.kind), m.usages)
    [] OTHER -> DirectLines(Selected(m.kind), m.kwh)

-----------------------------------------------------------------------------
Init ==
  /\ given \in {[file |-> c, day |-> d, before |-> s.before, after |-> s.after] :
                  c \in Catalogs, d \in BillingDays, s \in Scenarios}
  /\ at = "file" /\ made = <<>>

\* load_tariff_catalog
Load ==
  /\ at = "file"
  /\ at' = IF Loadable THEN "loaded" ELSE "refused"
  /\ UNCHANGED <<given, made>>

\* One turn of bill_scenario.
BillMeter ==
  /\ at = "loaded" /\ Len(made) < Len(meters)
  /\ LET m == meters[Len(made) + 1]
     IN  IF Billable(m)
         THEN /\ made' = Append(made, [lines |-> Lines(m), notice |-> Notice(m.kind)])
              /\ at' = IF Len(made) + 1 = Len(meters) THEN "billed" ELSE "loaded"
         ELSE at' = "failed" /\ UNCHANGED made
  /\ UNCHANGED given

Next == Load \/ BillMeter

\* trace_benefit_by_line, by meter; ScenarioBill.total and .notices.
Amount(bill, k) == IF k \in DOMAIN bill.lines THEN bill.lines[k] ELSE 0
Keys(bill) == DOMAIN bill.lines
Savings(b, r) == [k \in Keys(b) \cup Keys(r) |-> Amount(b, k) - Amount(r, k)]
ScenarioTotal(bills) == FoldLeft(LAMBDA sum, b : sum + Total(b.lines), 0, bills)
Notices(bills) == {b.notice : b \in ToSet(bills)} \ {None}

-----------------------------------------------------------------------------
(***************************************************************************)
(* The bills before and after add up: what is saved line by line is what   *)
(* the scenario saves, with bills of different lines too; in a table of    *)
(* rising blocks every kilowatt-hour is charged once, in the block it      *)
(* falls into; by time of use nothing is charged twice or left out.  And   *)
(* they are bills of the day: at most one table of a kind is in force, and *)
(* another one is used only with a notice in the bill, one to come only    *)
(* where none has ended - a bill is never settled by rates of the future   *)
(* while there are rates of the past (bill_scenario,                       *)
(* trace_benefit_by_line, _select_effective, _check_no_overlap).           *)
(***************************************************************************)
Halfway == Len(given.before)
Rising(t) ==
  \A i \in DOMAIN t.blocks :
    /\ (t.blocks[i].upper = None) <=> (i = Len(t.blocks))
    /\ i > 1 /\ i < Len(t.blocks) => t.blocks[i - 1].upper < t.blocks[i].upper
UnitByUnit(t, kwh) == TenthsToWon(MapThenSumSet(LAMBDA u : t.blocks[LastBlock(t, u)].rate, 1 .. kwh))
Apart(a, b) == IF a < b THEN b - a ELSE a - b

ChargedOnce(m, bill) ==
  LET t == Selected(m.kind)
  IN  CASE m.kind = "residential" -> Rising(t) => bill.lines["energy"] = UnitByUnit(t, m.kwh)
        [] m.kind = "tou" ->
             LET energy == {p.key : p \in ToSet(t.periods)} \cap Keys(bill)
             IN  Apart(10 * MapThenSumSet(LAMBDA k : bill.lines[k], energy),
                       SumOver(m.usages, LAMBDA u : TRUE, LAMBDA u : u.kwh * PriceSignal(t, u.time)))
                   <= 5 * Cardinality(energy)
        [] OTHER -> TRUE
OfItsDay(m, bill) ==
  LET tables == ToSet(file[m.kind])
      used == Selected(m.kind)
  IN  /\ Cardinality({t \in tables : InForce(t)}) <= 1
      /\ bill.notice = None <=> \E t \in tables : InForce(t)
      /\ bill.notice = "past" => Ended(used) /\ \A t \in tables : Ended(t) => t.to <= used.to
      /\ Coming(used) /\ ~Ended(used) => bill.notice = "future" /\ \A t \in tables : ~Ended(t)

BillsAddUp ==
  at = "billed" =>
    /\ \A i \in DOMAIN made : ChargedOnce(meters[i], made[i]) /\ OfItsDay(meters[i], made[i])
    /\ Halfway * 2 = Len(made) =>
         LET before == SubSeq(made, 1, Halfway)
             after == SubSeq(made, Halfway + 1, Len(made))
         IN  MapThenSumSet(LAMBDA i : Total(Savings(before[i], after[i])), 1 .. Halfway)
               = ScenarioTotal(before) - ScenarioTotal(after)
    /\ Notices(made) # {} <=> \E m \in ToSet(meters) : \A t \in ToSet(file[m.kind]) : ~InForce(t)
=============================================================================
