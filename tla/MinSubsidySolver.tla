-------------------------- MODULE MinSubsidySolver --------------------------
(***************************************************************************)
(* The goal seek of core/incentive/solver.py: the least support at which a *)
(* metric reaches its target, for one goal, for several goals at once      *)
(* (solve_min_subsidy_rate_for_goals) and for every loan on offer          *)
(* (generate_iso_support_curve).                                           *)
(*                                                                         *)
(* Support is counted in units: 0 is none, Full is 100%, Tenth is the 10%  *)
(* of the shape check; halving rounds down to a unit, where the code       *)
(* halves a float.  A curve is what evaluate_func answers, a cost what the *)
(* government pays.                                                        *)
(***************************************************************************)
EXTENDS Integers, Sequences

CONSTANTS
  Full,       \* 100%
  Tenth,      \* 10%
  Precision,  \* the precision asked for
  Slack,      \* tolerance of the shape check (1e-6)
  Problems    \* what callers ask: a mode and a sequence of goals

Support == 0 .. Full
Curve == [Support -> Int]
Goal == [curve : Curve, cost : Curve, target : Int, type : {"NPV", "IRR", "PAYBACK"}]

ASSUME UnitsAssumption ==
  /\ Tenth \in Nat \ {0} /\ Full = 10 * Tenth
  /\ Precision \in 1 .. Full
  /\ Slack \in Nat
\* Several goals are at least one: an empty list is refused.
WellPosed(p) ==
  /\ p \in [mode : {"goals", "curve"}, goals : {p.goals}]
  /\ p.goals \in Seq(Goal)
  /\ p.mode = "goals" => p.goals # <<>>

ASSUME ProblemsAssumption == \A p \in Problems : WellPosed(p)

VARIABLES
  problem,  \* the problem being solved
  k,        \* the goal (or loan) it is at
  pc,       \* "ends", "shape", "bisect", "scan" or "done"
  i,        \* the loop counter of the shape check and of the scan
  low, high,  \* the bracket of the bisection
  found,    \* goals solved so far: [goal, rate] in order; the raw_points
  best,     \* best_rate
  binding,  \* the goal that determined best (0: none)
  least,    \* min_idx: the point with the least cost (0: none)
  outcome   \* [status, shortfall]

vars == <<problem, k, pc, i, low, high, found, best, binding, least, outcome>>

Goals == problem.goals
Current == Goals[k]

IsMet(g, x) ==
  IF g.type \in {"NPV", "IRR"} THEN g.curve[x] >= g.target ELSE g.curve[x] <= g.target

Shortfall(g) ==
  IF g.type \in {"NPV", "IRR"} THEN g.target - g.curve[Full] ELSE g.curve[Full] - g.target

\* The metric gets worse from one tenth to the next.
TurnsAt(g, n) ==
  IF g.type \in {"NPV", "IRR"}
  THEN g.curve[n * Tenth] > g.curve[(n + 1) * Tenth] + Slack
  ELSE g.curve[n * Tenth] < g.curve[(n + 1) * Tenth] - Slack

ScanSteps == Full \div Precision

Init ==
  /\ problem \in Problems
  /\ k = 1
  /\ pc = IF Len(problem.goals) = 0 THEN "done" ELSE "ends"
  /\ i = 0
  /\ low = 0
  /\ high = Full
  /\ found = <<>>
  /\ best = 0
  /\ binding = 0
  /\ least = 0
  /\ outcome = [status |-> IF Len(problem.goals) = 0 THEN "solved" ELSE "running",
                shortfall |-> 0]

-----------------------------------------------------------------------------
\* On to the next goal, or the end.
NextGoal ==
  IF k < Len(Goals)
  THEN /\ k' = k + 1
       /\ pc' = "ends"
       /\ UNCHANGED outcome
  ELSE /\ pc' = "done"
       /\ outcome' = [status |-> "solved", shortfall |-> 0]
       /\ UNCHANGED k

CostAt(n, rate) == Goals[n].cost[rate]

\* Variant: the mark is the number of the loan, not of its point.
CheapestByLoan(rate) ==
  least' = IF problem.mode = "curve" THEN k ELSE least

\* The new point is marked when its cost is below the least one so far.
Cheapest(rate) ==
  least' = IF /\ problem.mode = "curve"
              /\ least = 0 \/ CostAt(k, rate) < CostAt(found[least].goal, found[least].rate)
           THEN Len(found) + 1 ELSE least

\* Variant: the last goal binds.
LastBinds(rate) ==
  /\ best' = rate
  /\ binding' = k

\* The largest rate so far binds.
LargestBinds(rate) ==
  IF rate > best
  THEN best' = rate /\ binding' = k
  ELSE UNCHANGED <<best, binding>>

Found(rate) ==
  /\ found' = Append(found, [goal |-> k, rate |-> rate])
  /\ LargestBinds(rate)
  /\ Cheapest(rate)
  /\ NextGoal

\* Several goals fail with the first unreachable one; a loan is left out.
Unreachable ==
  /\ UNCHANGED <<found, least>>
  /\ IF problem.mode = "goals"
     THEN /\ pc' = "done"
          /\ outcome' = [status |-> "unreachable", shortfall |-> Shortfall(Current)]
          /\ best' = Full
          /\ binding' = k
          /\ UNCHANGED k
     ELSE NextGoal /\ UNCHANGED <<best, binding>>

\* Both ends are evaluated first.
CheckEnds ==
  /\ pc = "ends"
  /\ CASE IsMet(Current, 0) -> Found(0) /\ UNCHANGED i
       [] ~IsMet(Current, 0) /\ ~IsMet(Current, Full) -> Unreachable /\ UNCHANGED i
       [] OTHER -> /\ pc' = "shape"
                   /\ i' = 0
                   /\ UNCHANGED <<k, found, best, binding, least, outcome>>
  /\ UNCHANGED <<problem, low, high>>

\* Variant: any curve is bisected.
CheckShapeNever ==
  /\ pc = "shape"
  /\ pc' = "bisect" /\ low' = 0 /\ high' = Full
  /\ UNCHANGED <<problem, k, i, found, best, binding, least, outcome>>

\* Ten intervals; the first turn ends the check.
CheckShape ==
  /\ pc = "shape"
  /\ IF TurnsAt(Current, i)
     THEN pc' = "scan" /\ i' = 1 /\ UNCHANGED <<low, high>>
     ELSE IF i < 9
     THEN i' = i + 1 /\ UNCHANGED <<pc, low, high>>
     ELSE pc' = "bisect" /\ low' = 0 /\ high' = Full /\ UNCHANGED i
  /\ UNCHANGED <<problem, k, found, best, binding, least, outcome>>

Middle == (low + high) \div 2

\* Variant: goes on while the bracket is exactly as wide as the precision.
BisectTooFar ==
  /\ pc = "bisect"
  /\ IF high - low >= Precision
     THEN /\ IF IsMet(Current, Middle)
             THEN high' = Middle /\ UNCHANGED low
             ELSE low' = Middle /\ UNCHANGED high
          /\ UNCHANGED <<k, pc, found, best, binding, least, outcome>>
     ELSE Found(high) /\ UNCHANGED <<low, high>>
  /\ UNCHANGED <<problem, i>>

\* Variant: answers with the lower end of the bracket.
BisectLow ==
  /\ pc = "bisect"
  /\ IF high - low > Precision
     THEN /\ IF IsMet(Current, Middle)
             THEN high' = Middle /\ UNCHANGED low
             ELSE low' = Middle /\ UNCHANGED high
          /\ UNCHANGED <<k, pc, found, best, binding, least, outcome>>
     ELSE Found(low) /\ UNCHANGED <<low, high>>
  /\ UNCHANGED <<problem, i>>

\* Variant: content with twice the precision.
BisectCoarse ==
  /\ pc = "bisect"
  /\ IF high - low > 2 * Precision
     THEN /\ IF IsMet(Current, Middle)
             THEN high' = Middle /\ UNCHANGED low
             ELSE low' = Middle /\ UNCHANGED high
          /\ UNCHANGED <<k, pc, found, best, binding, least, outcome>>
     ELSE Found(high) /\ UNCHANGED <<low, high>>
  /\ UNCHANGED <<problem, i>>

Bisect ==
  /\ pc = "bisect"
  /\ IF high - low > Precision
     THEN /\ IF IsMet(Current, Middle)
             THEN high' = Middle /\ UNCHANGED low
             ELSE low' = Middle /\ UNCHANGED high
          /\ UNCHANGED <<k, pc, found, best, binding, least, outcome>>
     ELSE Found(high) /\ UNCHANGED <<low, high>>
  /\ UNCHANGED <<problem, i>>

\* Multiples of the precision from below; 100% when none of them meets it.
Scan ==
  /\ pc = "scan"
  /\ CASE i <= ScanSteps /\ IsMet(Current, i * Precision) ->
            Found(i * Precision) /\ UNCHANGED i
       [] i <= ScanSteps /\ ~IsMet(Current, i * Precision) ->
            i' = i + 1 /\ UNCHANGED <<k, pc, found, best, binding, least, outcome>>
       [] OTHER -> Found(Full) /\ UNCHANGED i
  /\ UNCHANGED <<problem, low, high>>

Next == CheckEnds \/ CheckShape \/ Bisect \/ Scan

Spec == Init /\ [][Next]_vars

\* A single thread runs the solver to its end.
FairSpec == Spec /\ WF_vars(Next)

-----------------------------------------------------------------------------
Point == [goal : 1 .. Len(Goals), rate : Support]

TypeOK ==
  /\ problem \in [mode : {"goals", "curve"}, goals : {problem.goals}]
  /\ problem.goals \in Seq(Goal)
  /\ k \in Nat \ {0} /\ (pc # "done" => k \in 1 .. Len(Goals))
  /\ pc \in {"ends", "shape", "bisect", "scan", "done"}
  /\ i \in Nat /\ (pc = "shape" => i \in 0 .. 9) /\ (pc = "scan" => i >= 1)
  /\ low \in Support /\ high \in Support
  /\ found \in Seq(Point)
  /\ best \in Support
  /\ binding \in 0 .. Len(Goals)
  /\ least \in 0 .. Len(found)
  /\ outcome \in [status : {"running", "solved", "unreachable"}, shortfall : Int]

(***************************************************************************)
(* Every support the solver answers with, for a goal or for a point of the *)
(* curve, really reaches the target, whatever the shape of the metric: the *)
(* bisection keeps an upper end that does, the scan falls back on 100%.    *)
(***************************************************************************)
AnswerMeets ==
  \A n \in DOMAIN found : IsMet(Goals[found[n].goal], found[n].rate)

Monotone(g) ==
  \A x, y \in Support : x <= y =>
    IF g.type \in {"NPV", "IRR"} THEN g.curve[x] <= g.curve[y] ELSE g.curve[x] >= g.curve[y]

(***************************************************************************)
(* On a metric that never gets worse with more support, no support that is *)
(* smaller by the precision would do: the answer is the least one, which   *)
(* is what the goal seek is for (FR-608-AC2).                              *)
(***************************************************************************)
LeastSupport ==
  \A n \in DOMAIN found :
    LET g == Goals[found[n].goal]
    IN  Monotone(g) => \A x \in Support : IsMet(g, x) => x > found[n].rate - Precision

FirstOnGrid ==
  \A n \in DOMAIN found :
    LET g == Goals[found[n].goal]
    IN  (\E t \in 0 .. 9 : TurnsAt(g, t)) =>
          \A m \in 1 .. ScanSteps : IsMet(g, m * Precision) => m * Precision >= found[n].rate

BindingGoalDecides ==
  problem.mode = "goals" /\ outcome.status = "solved"
  => /\ binding = 0 => best = 0
     /\ binding # 0 => \E n \in DOMAIN found : found[n] = [goal |-> binding, rate |-> best]
     /\ (\A g \in DOMAIN Goals : Monotone(Goals[g])) => \A g \in DOMAIN Goals : IsMet(Goals[g], best)

(***************************************************************************)
(* When one of the ten intervals shows a turn, the answer is the first     *)
(* multiple of the precision that reaches the target, so a dip behind it   *)
(* cannot hide it (FR-608-AC3).  The answer for several goals is the       *)
(* answer of the goal it names, and on metrics that never get worse all of *)
(* them are met there (solve_min_subsidy_rate_for_goals).                  *)
(***************************************************************************)
GoalsDecide == FirstOnGrid /\ BindingGoalDecides

\* The search ends: the bracket shrinks, the scan runs out.
Answers == <>(pc = "done")

(***************************************************************************)
(* solve_min_subsidy_rate_for_goals says that its answer, the largest of   *)
(* the goals' least supports, meets all of them, and that this holds with  *)
(* goals that are not monotone among them (solver.py:200-207).             *)
(***************************************************************************)
AllGoalsMet ==
  problem.mode = "goals" /\ outcome.status = "solved"
  => \A g \in DOMAIN Goals : IsMet(Goals[g], best)
=============================================================================
