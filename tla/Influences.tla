----------------------------- MODULE Influences -----------------------------
(***************************************************************************)
(* What a report says of its inputs: how much each of them moves the       *)
(* conclusion and where it turns (core/report/case_influences.py,          *)
(* sensitivity.py), what several of them do together (combined.py), which  *)
(* capacity is best (capacity.py), and from which rate of support the      *)
(* project pays.  The levels come from the ledger and from what a scenario *)
(* overrides (core/casegrid/ledger_levels.py).                             *)
(*                                                                         *)
(* A value is a point of a grid whose step is half of the width at which   *)
(* the bisection ends.  The conclusion is what each input contributes at   *)
(* its value, and what the first two contribute jointly.                   *)
(***************************************************************************)
EXTENDS Integers, Sequences, FiniteSets, SequencesExt, FiniteSetsExt, Functions

CONSTANTS
  Reports,  \* what reports are made of, see Init
  Samples,  \* SAMPLES: capacities that are tried
  None      \* no override, no conclusion

VARIABLES
  report,   \* ledger, override, contributions, rate of support, what is blocked
  levels,   \* the level map: low, base and high of every variable
  npv,      \* the conclusion of the report's own case
  stage,    \* "case", "rank", "halve", "coupled", "done"
  i,        \* the variable that is looked at
  seg,      \* the part of its range in which the conclusion turns
  entries,  \* influences found so far, then in their order
  coupled,  \* level -> the interaction of the first two variables
  capacities  \* design variable -> its points

influenceVars == <<report, levels, npv, stage, i, seg, entries, coupled, capacities>>

Variables == 1 .. Len(report.ledger)
Design == {v \in Variables : report.ledger[v].design}
Bases == [v \in Variables |-> levels[v].base]
Sum(s) == FoldLeft(LAMBDA x, y : x + y, 0, s)

\* build_level_map: an override replaces the base and nothing else.
LevelMap(ledger, override) ==
  [v \in DOMAIN ledger |->
     IF override[v] = None THEN ledger[v] ELSE [ledger[v] EXCEPT !.base = override[v]]]

(***************************************************************************)
(* The conclusion: NPV with support.  The grant is rounded to the won      *)
(* (_scheme_for: no rate, no scheme).                                      *)
(***************************************************************************)
Outlay(rate) ==
  report.cost - (IF rate <= 0 THEN 0 ELSE (2 * report.cost * rate + 100) \div 200)
Conclusion(values, rate) ==
  Sum([v \in Variables |-> report.worth[v][values[v]]])
    + report.joint * values[1] * values[2] - Outlay(rate)

\* _Sweeper.conclusion_at_many: the case of the report with some inputs moved;
\* its level map is a copy.
ConclusionAtMany(moved) ==
  Conclusion([v \in Variables |-> IF v \in DOMAIN moved THEN moved[v] ELSE Bases[v]], report.rate)
ConclusionAt(v, value) == ConclusionAtMany([w \in {v} |-> value])
Positive(v, value) == ConclusionAt(v, value) >= 0

\* Variant: the sweep moves the level map of the report.
LevelsMoved(v) == [levels EXCEPT ![v].base = levels[v].high]
LevelsAfter(v) == levels

Init ==
  /\ report \in Reports
  /\ levels = LevelMap(report.ledger, report.override)
  /\ npv = 0 /\ stage = "case" /\ i = 1 /\ seg = <<>>
  /\ entries = <<>> /\ coupled = <<>> /\ capacities = <<>>

RunCase ==
  /\ stage = "case"
  /\ npv' = Conclusion(Bases, report.rate)
  /\ stage' = "rank"
  /\ UNCHANGED <<report, levels, i, seg, entries, coupled, capacities>>

\* One entry of _influences: by how much, and where the conclusion turns
\* (twice that point, for it is the middle of a segment).
Entry(v, turn) ==
  [variable |-> v, low |-> ConclusionAt(v, levels[v].low), high |-> ConclusionAt(v, levels[v].high),
   delta |-> Max({ConclusionAt(v, levels[v].low), ConclusionAt(v, levels[v].high)})
             - Min({ConclusionAt(v, levels[v].low), ConclusionAt(v, levels[v].high)}),
   flips |-> turn # None, turn |-> turn]
Unread(e) == e.delta = 0 /\ levels[e.variable].low # levels[e.variable].high

Enter(turn) ==
  /\ entries' = Append(entries, Entry(i, turn))
  /\ i' = i + 1 /\ seg' = <<>> /\ stage' = "rank"
  /\ levels' = LevelsAfter(i)

\* _find_flip_threshold: the lower part of the range first.
Halves(v) == <<<<levels[v].low, levels[v].base>>, <<levels[v].base, levels[v].high>>>>
Turning(v) == SelectSeq(Halves(v), LAMBDA h : Positive(v, h[1]) # Positive(v, h[2]))

Rank ==
  /\ stage = "rank" /\ i \in Variables
  /\ IF i \in Design THEN i' = i + 1 /\ UNCHANGED <<levels, stage, seg, entries>>
     ELSE IF Turning(i) = <<>> THEN Enter(None)
     ELSE seg' = Turning(i)[1] /\ stage' = "halve" /\ UNCHANGED <<levels, i, entries>>
  /\ UNCHANGED <<report, npv, coupled, capacities>>

Keep(lo, mid, hi) ==
  IF Positive(i, mid) = Positive(i, lo) THEN <<mid, hi>> ELSE <<lo, mid>>

Halve ==
  /\ stage = "halve"
  /\ LET lo == seg[1]
         hi == seg[2]
     IN  IF hi - lo < 2 THEN Enter(lo + hi)
         ELSE seg' = Keep(lo, (lo + hi) \div 2, hi) /\ UNCHANGED <<levels, stage, i, entries>>
  /\ UNCHANGED <<report, npv, coupled, capacities>>

\* What turns the conclusion comes first, then what moves it most; the order
\* of equal ones stays.
Before(e, f) == (e.flips /\ ~f.flips) \/ (e.flips = f.flips /\ e.delta > f.delta)
InOrder(seq) ==
  FoldLeft(LAMBDA sorted, e :
             LET k == SelectInSeq(sorted, LAMBDA f : Before(e, f))
             IN  IF k = 0 THEN Append(sorted, e) ELSE InsertAt(sorted, k, e),
           <<>>, seq)

\* _sweep_one, for a bundle of the first two variables: what both do together
\* beyond what each of them does.
Level(v, name) == IF name = "low" THEN levels[v].low ELSE levels[v].high
Interaction(name) ==
  LET single(v) == ConclusionAt(v, Level(v, name)) - npv
      together == ConclusionAtMany([v \in {1, 2} |-> Level(v, name)]) - npv
  IN  together - (single(1) + single(2))

Couple ==
  /\ stage = "rank" /\ i \notin Variables
  /\ entries' = InOrder(entries)
  /\ coupled' = [name \in {"low", "high"} |-> Interaction(name)]
  /\ stage' = "coupled"
  /\ UNCHANGED <<report, levels, npv, i, seg, capacities>>

\* build_capacity_review: a capacity that its resource refuses is told apart
\* from one whose computation failed.
Sample(v) ==
  [k \in 1 .. Samples |-> levels[v].low + (k - 1) * ((levels[v].high - levels[v].low) \div (Samples - 1))]
Point(v, value) ==
  [value |-> value,
   blocked |-> IF value \in report.refused THEN "design" ELSE IF value \in report.failing THEN "failure" ELSE "no",
   npv |-> IF value \in report.refused \cup report.failing THEN None ELSE ConclusionAt(v, value)]

ReviewCapacities ==
  /\ stage = "coupled"
  /\ capacities' = [v \in Design |-> [k \in 1 .. Samples |-> Point(v, Sample(v)[k])]]
  /\ stage' = "done"
  /\ UNCHANGED <<report, levels, npv, i, seg, entries, coupled>>

Next == RunCase \/ Rank \/ Halve \/ Couple \/ ReviewCapacities

-----------------------------------------------------------------------------
(***************************************************************************)
(* What the chapter on capacity says of the points.                        *)
(***************************************************************************)
Solved(v) == SelectSeq(capacities[v], LAMBDA p : p.blocked = "no")
Best(v) ==
  LET s == Solved(v)
  IN  CHOOSE k \in DOMAIN s :
        \A l \in DOMAIN s : s[l].npv < s[k].npv \/ (s[l].npv = s[k].npv /\ l >= k)
Flat == 1  \* _FLAT_WON
ShapeOf(v) ==
  LET s == Solved(v)
      k == Best(v)
  IN  IF Len(s) < 2 THEN "undecided"
      ELSE IF 1 < k /\ k < Len(s) /\ s[k].npv - s[k - 1].npv > Flat /\ s[k].npv - s[k + 1].npv > Flat
      THEN "interior"
      ELSE IF k = Len(s) THEN "increasing" ELSE "decreasing"
BindingConstraint(v) == \E k \in 1 .. Samples : capacities[v][k].blocked = "design"
Bounded(v) == ShapeOf(v) = "interior" \/ BindingConstraint(v)

\* break_even_subsidy_rate and residual_gap_at_full_support_won, the rate as
\* 100 * cost * (rate - break even): how far a rate is above the break even.
AboveBreakEven(rate) == (rate - report.rate) * report.cost + 100 * npv
GapAtFullSupport == 100 * npv + (100 - report.rate) * report.cost
SupportAloneCanFlip == AboveBreakEven(100) >= 0

-----------------------------------------------------------------------------
InfluencesTypeOK ==
  /\ stage \in {"case", "rank", "halve", "coupled", "done"}
  /\ i \in 1 .. Len(report.ledger) + 1
  /\ \A v \in Variables : levels[v] = LevelMap(report.ledger, report.override)[v]

(***************************************************************************)
(* The values at which a report says that its conclusion turns are where   *)
(* it turns: an input has one if the signs at its levels differ, it lies   *)
(* between those levels, and the conclusion has different signs on its two *)
(* sides (_find_flip_threshold: a threshold that has nothing to do with    *)
(* the computation must not be reported).  Below the break-even rate of    *)
(* support the project does not pay and above it it does, up to the won to *)
(* which a grant is rounded, whatever rate was run; and support alone is   *)
(* said to be enough only if all of it is (break_even_subsidy_rate,        *)
(* residual_gap_at_full_support_won).                                      *)
(***************************************************************************)
TurnsWhereReported ==
  stage = "done" =>
    /\ \A e \in ToSet(entries) :
         LET l == levels[e.variable]
             signs == {Positive(e.variable, x) : x \in {l.low, l.base, l.high}}
         IN  /\ e.flips <=> Cardinality(signs) = 2
             /\ e.flips =>
                  /\ 2 * Min({l.low, l.base, l.high}) <= e.turn
                  /\ e.turn <= 2 * Max({l.low, l.base, l.high})
                  /\ Positive(e.variable, e.turn \div 2) # Positive(e.variable, (e.turn + 1) \div 2)
    /\ \A rate \in 0 .. 100 :
         /\ AboveBreakEven(rate) >= 100 => Conclusion(Bases, rate) >= 0
         /\ AboveBreakEven(rate) <= -100 => Conclusion(Bases, rate) < 0
    /\ GapAtFullSupport >= 100 => SupportAloneCanFlip /\ Conclusion(Bases, 100) >= 0
    /\ GapAtFullSupport <= -100 => ~SupportAloneCanFlip /\ Conclusion(Bases, 100) < 0

(***************************************************************************)
(* A sweep moves what it says it moves and nothing else: around the case   *)
(* of the report, whichever variables were swept before; together two      *)
(* inputs do what they do alone and what they do jointly; and a capacity   *)
(* is called the best, and the range wide enough for it, only if nothing   *)
(* that was computed is better (_Sweeper, _sweep_one, _shape_of).          *)
(***************************************************************************)
SweepsMoveOneThing ==
  stage = "done" =>
    LET base == LevelMap(report.ledger, report.override)
        at(v, x) == [w \in Variables |-> IF w = v THEN x ELSE base[w].base]
    IN  /\ npv = Conclusion(at(1, base[1].base), report.rate)
        /\ {e.variable : e \in ToSet(entries)} = Variables \ Design
        /\ \A e \in ToSet(entries) :
             /\ e.low = Conclusion(at(e.variable, base[e.variable].low), report.rate)
             /\ e.high = Conclusion(at(e.variable, base[e.variable].high), report.rate)
        /\ \A k, l \in DOMAIN entries : k < l => ~Before(entries[l], entries[k])
        /\ \A name \in {"low", "high"} :
             coupled[name] = report.joint * (Level(1, name) - base[1].base) * (Level(2, name) - base[2].base)
        /\ \A v \in Design :
             /\ \A k \in 1 .. Samples :
                  capacities[v][k].value = base[v].base /\ capacities[v][k].blocked = "no" =>
                    capacities[v][k].npv = npv
             /\ ShapeOf(v) = "interior" =>
                  \A k \in {1, Len(Solved(v))} : Solved(v)[k].npv < Solved(v)[Best(v)].npv
=============================================================================
