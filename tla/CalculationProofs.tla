-------------------------- MODULE CalculationProofs --------------------------
(***************************************************************************)
(* The goal seek for every unit of support, every precision and every set  *)
(* of problems.  The invariant behind its theorems is the bracket: while a *)
(* goal is searched, 100% meets it and 0% does not, and the bisection      *)
(* keeps an upper end that meets it above a lower end that does not.       *)
(*                                                                         *)
(* Then replacements for every life, every number of parts and every       *)
(* horizon: the loop of replacement_schedule leaves no year without a unit *)
(* and never buys one while the one before it has life left.               *)
(*                                                                         *)
(* Then the ledger, for every setting of it and every scenario over it:    *)
(* what a report lists as changed is what changed its result.              *)
(***************************************************************************)
EXTENDS MinSubsidySolver, AssetLifecycle, MCCalculations, SumTheorems

Searching == pc \in {"shape", "bisect", "scan"}

Bracket ==
  /\ Searching => IsMet(Current, Full) /\ ~IsMet(Current, 0)
  /\ pc = "bisect" => low < high /\ IsMet(Current, high) /\ ~IsMet(Current, low)
  /\ pc = "scan" => \E t \in 0 .. 9 : TurnsAt(Current, t)

\* What is known about the answer of one goal.
GoodAnswer(g, rate) ==
  /\ IsMet(g, rate)
  /\ Monotone(g) => \A x \in Support : IsMet(g, x) => x > rate - Precision

AnswersGood == \A n \in DOMAIN found : GoodAnswer(Goals[found[n].goal], found[n].rate)

IInv == TypeOK /\ Bracket /\ AnswersGood

LEMMA UnitsAreNat ==
  /\ Full \in Nat /\ Tenth \in Nat /\ Tenth > 0 /\ Full = 10 * Tenth /\ Full > 0
  /\ Precision \in Nat /\ Precision > 0 /\ Precision <= Full /\ Slack \in Nat
  /\ 0 \in Support /\ Full \in Support
  BY UnitsAssumption DEF Support

LEMMA Halving ==
  ASSUME NEW a \in Nat, NEW b \in Nat, b - a > Precision
  PROVE  (a + b) \div 2 \in Nat /\ a < (a + b) \div 2 /\ (a + b) \div 2 < b
<1>1. b - a > 1
  BY UnitsAreNat
<1> DEFINE m == (a + b) \div 2
<1>2. m \in Int /\ 2 * m <= a + b /\ a + b < 2 * m + 2
  OBVIOUS
<1> HIDE DEF m
<1> QED BY <1>1, <1>2 DEF m

LEMMA Multiples ==
  ASSUME NEW n \in Nat, n >= 1, n <= ScanSteps
  PROVE  n * Precision \in Support
<1>1. ScanSteps \in Int /\ ScanSteps * Precision <= Full
  BY UnitsAreNat, Z3 DEF ScanSteps
<1>2. n * Precision \in Nat /\ n * Precision <= ScanSteps * Precision
  BY UnitsAreNat, <1>1, Z3
<1> QED BY <1>1, <1>2, UnitsAreNat DEF Support

(***************************************************************************)
(* On a monotone metric no interval turns, so the scan is for others.      *)
(***************************************************************************)
LEMMA MonotoneNeverTurns ==
  ASSUME NEW g \in Goal, Monotone(g), NEW t \in 0 .. 9
  PROVE  ~TurnsAt(g, t)
<1>1. t * Tenth \in Nat /\ (t + 1) * Tenth \in Nat
      /\ t * Tenth <= (t + 1) * Tenth /\ (t + 1) * Tenth <= Full
  <2>1. t \in {0, 1, 2, 3, 4, 5, 6, 7, 8, 9}
    OBVIOUS
  <2> QED BY <2>1, UnitsAreNat
<1>2. t * Tenth \in Support /\ (t + 1) * Tenth \in Support
  BY <1>1, UnitsAreNat DEF Support
<1>3. g.curve[t * Tenth] \in Int /\ g.curve[(t + 1) * Tenth] \in Int
  BY <1>2 DEF Goal, Curve
<1> QED BY <1>1, <1>2, <1>3, UnitsAreNat DEF Monotone, TurnsAt

(***************************************************************************)
(* On a monotone metric, below a support that does not do none does.       *)
(***************************************************************************)
LEMMA NoneBelow ==
  ASSUME NEW g \in Goal, Monotone(g), NEW a \in Support, ~IsMet(g, a),
         NEW x \in Support, IsMet(g, x)
  PROVE  x > a
<1>1. a \in Nat /\ x \in Nat /\ g.curve[a] \in Int /\ g.curve[x] \in Int /\ g.target \in Int
  BY UnitsAreNat DEF Goal, Curve, Support
<1>2. SUFFICES ASSUME x <= a PROVE FALSE
  BY <1>1
<1> QED BY <1>1, <1>2 DEF Monotone, IsMet
-----------------------------------------------------------------------------
LEMMA CurrentGoal ==
  ASSUME TypeOK, pc # "done"
  PROVE  Current \in Goal /\ k \in 1 .. Len(Goals) /\ Len(Goals) \in Nat /\ k \in Nat
  BY DEF TypeOK, Current, Goals

LEMMA Starts == Init => IInv
<1> SUFFICES ASSUME Init PROVE IInv
  OBVIOUS
<1> USE UnitsAreNat
<1>1. /\ problem \in [mode : {"goals", "curve"}, goals : {problem.goals}]
      /\ problem.goals \in Seq(Goal)
  <2>1. problem \in Problems
    BY DEF Init
  <2>2. WellPosed(problem)
    BY <2>1, ProblemsAssumption
  <2> QED BY <2>2 DEF WellPosed
<1>2. Len(problem.goals) \in Nat
  BY <1>1
<1>3. TypeOK
  BY <1>1, <1>2 DEF Init, TypeOK, Goals, Support
<1>4. Bracket
  BY DEF Init, Bracket, Searching
<1>5. AnswersGood
  BY DEF Init, AnswersGood
<1> QED BY <1>3, <1>4, <1>5 DEF IInv

(***************************************************************************)
(* A goal that was answered well leaves everything else in order.          *)
(***************************************************************************)
LEMMA FoundKeeps ==
  ASSUME IInv, pc # "done", NEW rate \in Support, GoodAnswer(Current, rate),
         Found(rate), problem' = problem, low' \in Support, high' \in Support, i' \in Nat
  PROVE  IInv'
<1>1. /\ k \in 1 .. Len(Goals) /\ Len(Goals) \in Nat /\ k \in Nat
      /\ Goals' = Goals /\ Point' = Point
  BY CurrentGoal DEF IInv, Goals, Point
<1>2. /\ pc' \in {"ends", "done"} /\ k' \in Nat \ {0}
      /\ pc' # "done" => k' \in 1 .. Len(Goals)
  BY <1>1 DEF Found, NextGoal
<1>3. outcome' \in [status : {"running", "solved", "unreachable"}, shortfall : Int]
  BY DEF Found, NextGoal, IInv, TypeOK
<1>4. best' \in Support /\ binding' \in 0 .. Len(Goals)
  BY <1>1 DEF Found, LargestBinds, IInv, TypeOK
<1> DEFINE new == [goal |-> k, rate |-> rate]
<1>5. new \in Point /\ found \in Seq(Point) /\ found' = Append(found, new)
  BY <1>1 DEF Found, Point, IInv, TypeOK
<1>6. /\ found' \in Seq(Point) /\ Len(found) \in Nat /\ Len(found') = Len(found) + 1
      /\ found'[Len(found) + 1] = new
      /\ \A n \in 1 .. Len(found) : found'[n] = found[n]
      /\ DOMAIN found = 1 .. Len(found) /\ DOMAIN found' = 1 .. Len(found) + 1
  BY <1>5
<1>7. least' \in 0 .. Len(found')
  <2>1. least \in 0 .. Len(found) /\ least' \in {least, Len(found) + 1}
    BY DEF Found, Cheapest, IInv, TypeOK
  <2> QED BY <2>1, <1>6
<1>8. /\ problem' \in [mode : {"goals", "curve"}, goals : {problem'.goals}]
      /\ problem'.goals \in Seq(Goal)
  BY DEF IInv, TypeOK
<1>9. TypeOK'
  BY <1>1, <1>2, <1>3, <1>4, <1>6, <1>7, <1>8 DEF TypeOK
<1>10. Bracket'
  BY <1>2 DEF Bracket, Searching
<1>11. AnswersGood'
  <2> SUFFICES ASSUME NEW n \in 1 .. Len(found) + 1
               PROVE  GoodAnswer(Goals[found'[n].goal], found'[n].rate)
    BY <1>1, <1>6 DEF AnswersGood
  <2>1. CASE n = Len(found) + 1
    BY <2>1, <1>6 DEF Current
  <2>2. CASE n # Len(found) + 1
    <3>1. n \in DOMAIN found /\ found'[n] = found[n]
      BY <2>2, <1>6
    <3> QED BY <3>1 DEF IInv, AnswersGood
  <2> QED BY <2>1, <2>2
<1> QED BY <1>9, <1>10, <1>11 DEF IInv

LEMMA GoodAtZero ==
  ASSUME TypeOK, pc # "done", IsMet(Current, 0)
  PROVE  GoodAnswer(Current, 0)
  BY UnitsAreNat DEF GoodAnswer, Support

LEMMA CheckEndsKeeps == IInv /\ CheckEnds => IInv'
<1> SUFFICES ASSUME IInv, CheckEnds PROVE IInv'
  OBVIOUS
<1>1. /\ pc = "ends" /\ Goals' = Goals /\ Point' = Point /\ problem' = problem
      /\ low' = low /\ high' = high /\ TypeOK
  BY DEF CheckEnds, IInv, Goals, Point
<1>2. CASE IsMet(Current, 0) /\ Found(0) /\ i' = i
  <2>1. GoodAnswer(Current, 0) /\ 0 \in Support
    BY <1>1, <1>2, GoodAtZero, UnitsAreNat
  <2> QED BY <1>1, <1>2, <2>1, FoundKeeps DEF TypeOK
<1>3. CASE ~IsMet(Current, 0) /\ ~IsMet(Current, Full) /\ Unreachable /\ i' = i
  <2>1. k \in 1 .. Len(Goals) /\ Len(Goals) \in Nat /\ Current \in Goal
    BY <1>1, CurrentGoal
  <2>2. Shortfall(Current) \in Int
    BY <2>1, UnitsAreNat DEF Shortfall, Goal, Curve
  <2>3. /\ pc' \in {"ends", "done"} /\ k' \in Nat \ {0}
        /\ pc' # "done" => k' \in 1 .. Len(Goals)
    BY <2>1, <1>3 DEF Unreachable, NextGoal
  <2>4. outcome' \in [status : {"running", "solved", "unreachable"}, shortfall : Int]
    BY <1>1, <1>3, <2>2 DEF Unreachable, NextGoal, TypeOK
  <2>5. best' \in Support /\ binding' \in 0 .. Len(Goals)
    BY <1>1, <1>3, <2>1, UnitsAreNat DEF Unreachable, TypeOK
  <2>6. TypeOK'
    BY <1>1, <1>3, <2>3, <2>4, <2>5 DEF TypeOK, Unreachable
  <2>7. Bracket'
    BY <2>3 DEF Bracket, Searching
  <2>8. AnswersGood'
    BY <1>1, <1>3 DEF AnswersGood, IInv, Unreachable
  <2> QED BY <2>6, <2>7, <2>8 DEF IInv
<1>4. CASE /\ ~IsMet(Current, 0) /\ IsMet(Current, Full)
           /\ pc' = "shape" /\ i' = 0
           /\ UNCHANGED <<k, found, best, binding, least, outcome>>
  <2>1. TypeOK'
    BY <1>1, <1>4 DEF TypeOK
  <2>2. Current' = Current
    BY <1>1, <1>4 DEF Current
  <2>3. Bracket'
    BY <1>4, <2>2 DEF Bracket, Searching, IsMet
  <2>4. AnswersGood'
    BY <1>1, <1>4 DEF AnswersGood, IInv
  <2> QED BY <2>1, <2>3, <2>4 DEF IInv
<1> QED BY <1>2, <1>3, <1>4 DEF CheckEnds

LEMMA CheckShapeKeeps == IInv /\ CheckShape => IInv'
<1> SUFFICES ASSUME IInv, CheckShape PROVE IInv'
  OBVIOUS
<1>1. /\ pc = "shape" /\ Goals' = Goals /\ Point' = Point /\ Current' = Current
      /\ problem' = problem /\ TypeOK /\ i \in 0 .. 9
      /\ IsMet(Current, Full) /\ ~IsMet(Current, 0)
  BY DEF CheckShape, IInv, Goals, Point, Current, TypeOK, Bracket, Searching
<1>2. AnswersGood'
  BY <1>1 DEF AnswersGood, IInv, CheckShape
<1>3. TypeOK'
  <2>1. UNCHANGED <<problem, k, found, best, binding, least, outcome>> /\ pc # "done"
    BY <1>1 DEF CheckShape
  <2>2. /\ pc' \in {"shape", "scan", "bisect"} /\ i' \in Nat
        /\ low' \in Support /\ high' \in Support
        /\ pc' = "shape" => i' \in 0 .. 9
        /\ pc' = "scan" => i' >= 1
    <3>0. low \in Support /\ high \in Support /\ 0 \in Support /\ Full \in Support
      BY <1>1, UnitsAreNat DEF TypeOK
    <3>1. CASE TurnsAt(Current, i)
      BY <1>1, <3>0, <3>1 DEF CheckShape
    <3>2. CASE ~TurnsAt(Current, i) /\ i < 9
      BY <1>1, <3>0, <3>2 DEF CheckShape
    <3>3. CASE ~TurnsAt(Current, i) /\ ~(i < 9)
      BY <1>1, <3>0, <3>3 DEF CheckShape
    <3> QED BY <3>1, <3>2, <3>3
  <2> QED BY <1>1, <2>1, <2>2 DEF TypeOK
<1>4. Bracket'
  <2>1. CASE TurnsAt(Current, i)
    BY <1>1, <2>1 DEF CheckShape, Bracket, Searching, IsMet, TurnsAt
  <2>2. CASE ~TurnsAt(Current, i)
    BY <1>1, <2>2, UnitsAreNat DEF CheckShape, Bracket, Searching, IsMet
  <2> QED BY <2>1, <2>2
<1> QED BY <1>2, <1>3, <1>4 DEF IInv

LEMMA BisectKeeps == IInv /\ Bisect => IInv'
<1> SUFFICES ASSUME IInv, Bisect PROVE IInv'
  OBVIOUS
<1>1. /\ pc = "bisect" /\ Goals' = Goals /\ Point' = Point /\ problem' = problem
      /\ i' = i /\ i \in Nat /\ TypeOK
      /\ IsMet(Current, Full) /\ ~IsMet(Current, 0)
      /\ low < high /\ IsMet(Current, high) /\ ~IsMet(Current, low)
      /\ low \in Support /\ high \in Support /\ low \in Nat /\ high \in Nat
      /\ high <= Full
  BY UnitsAreNat DEF Bisect, IInv, Goals, Point, Current, TypeOK, Bracket, Searching, Support
<1>2. CASE high - low > Precision
  <2>1. /\ Middle \in Nat /\ low < Middle /\ Middle < high
    BY <1>1, <1>2, Halving DEF Middle
  <2>2. Middle \in Support
    BY <1>1, <2>1, UnitsAreNat DEF Support
  <2>3. UNCHANGED <<k, pc, found, best, binding, least, outcome>>
    BY <1>2 DEF Bisect
  <2>4. Current' = Current
    BY <1>1, <2>3 DEF Current
  <2>5. AnswersGood'
    BY <1>1, <2>3 DEF AnswersGood, IInv
  <2>6. CASE IsMet(Current, Middle)
    <3>1. high' = Middle /\ low' = low
      BY <1>2, <2>6 DEF Bisect
    <3>2. TypeOK'
      BY <1>1, <2>2, <2>3, <3>1 DEF TypeOK
    <3>3. Bracket'
      BY <1>1, <2>1, <2>3, <2>4, <2>6, <3>1 DEF Bracket, Searching, IsMet
    <3> QED BY <2>5, <3>2, <3>3 DEF IInv
  <2>7. CASE ~IsMet(Current, Middle)
    <3>1. low' = Middle /\ high' = high
      BY <1>2, <2>7 DEF Bisect
    <3>2. TypeOK'
      BY <1>1, <2>2, <2>3, <3>1 DEF TypeOK
    <3>3. Bracket'
      BY <1>1, <2>1, <2>3, <2>4, <2>7, <3>1 DEF Bracket, Searching, IsMet
    <3> QED BY <2>5, <3>2, <3>3 DEF IInv
  <2> QED BY <2>6, <2>7
<1>3. CASE ~(high - low > Precision)
  <2>1. Found(high) /\ low' = low /\ high' = high
    BY <1>3 DEF Bisect
  <2>2. GoodAnswer(Current, high)
    <3> SUFFICES ASSUME Monotone(Current), NEW x \in Support, IsMet(Current, x)
                 PROVE  x > high - Precision
      BY <1>1 DEF GoodAnswer
    <3>1. x > low /\ x \in Nat
      BY <1>1, CurrentGoal, NoneBelow DEF Support
    <3> QED BY <1>1, <1>3, <3>1, UnitsAreNat
  <2> QED BY <1>1, <2>1, <2>2, FoundKeeps
<1> QED BY <1>2, <1>3

LEMMA ScanKeeps == IInv /\ Scan => IInv'
<1> SUFFICES ASSUME IInv, Scan PROVE IInv'
  OBVIOUS
<1>1. /\ pc = "scan" /\ Goals' = Goals /\ Point' = Point /\ problem' = problem
      /\ i \in Nat /\ i >= 1 /\ TypeOK /\ low' = low /\ high' = high
      /\ low \in Support /\ high \in Support
      /\ IsMet(Current, Full) /\ ~IsMet(Current, 0)
      /\ \E t \in 0 .. 9 : TurnsAt(Current, t)
  BY DEF Scan, IInv, Goals, Point, Current, TypeOK, Bracket, Searching
<1>2. ~Monotone(Current)
  BY <1>1, CurrentGoal, MonotoneNeverTurns
<1>3. CASE i <= ScanSteps /\ IsMet(Current, i * Precision)
  <2>1. Found(i * Precision) /\ i' = i
    BY <1>3 DEF Scan
  <2>2. GoodAnswer(Current, i * Precision) /\ i * Precision \in Support
    BY <1>1, <1>2, <1>3, Multiples DEF GoodAnswer
  <2> QED BY <1>1, <2>1, <2>2, FoundKeeps
<1>4. CASE i <= ScanSteps /\ ~IsMet(Current, i * Precision)
  <2>1. i' = i + 1 /\ UNCHANGED <<k, pc, found, best, binding, least, outcome>>
    BY <1>4 DEF Scan
  <2>2. Current' = Current
    BY <1>1, <2>1 DEF Current
  <2>3. TypeOK'
    BY <1>1, <2>1 DEF TypeOK
  <2>4. Bracket'
    BY <1>1, <2>1, <2>2 DEF Bracket, Searching, IsMet, TurnsAt
  <2>5. AnswersGood'
    BY <1>1, <2>1 DEF AnswersGood, IInv
  <2> QED BY <2>3, <2>4, <2>5 DEF IInv
<1>5. CASE ~(i <= ScanSteps)
  <2>1. Found(Full) /\ i' = i
    BY <1>5 DEF Scan
  <2>2. GoodAnswer(Current, Full) /\ Full \in Support
    BY <1>1, <1>2, UnitsAreNat DEF GoodAnswer
  <2> QED BY <1>1, <2>1, <2>2, FoundKeeps
<1> QED BY <1>3, <1>4, <1>5

LEMMA StepKeeps == IInv /\ [Next]_vars => IInv'
<1> SUFFICES ASSUME IInv, [Next]_vars PROVE IInv'
  OBVIOUS
<1>1. CASE UNCHANGED vars
  <2>1. TypeOK'
    BY <1>1 DEF vars, IInv, TypeOK, Goals, Point
  <2>2. Bracket'
    BY <1>1 DEF vars, IInv, Bracket, Searching, Current, Goals, IsMet, TurnsAt
  <2>3. AnswersGood'
    BY <1>1 DEF vars, IInv, AnswersGood, Goals
  <2> QED BY <2>1, <2>2, <2>3 DEF IInv
<1> QED BY <1>1, CheckEndsKeeps, CheckShapeKeeps, BisectKeeps, ScanKeeps DEF Next

LEMMA Inductive == Spec => []IInv
<1> QED BY Starts, StepKeeps, PTL DEF Spec

(***************************************************************************)
(* Whatever the shape of the metrics, every support the goal seek answers  *)
(* with reaches its target.                                                *)
(***************************************************************************)
THEOREM AnswersReachTheirTargets == Spec => []AnswerMeets
<1>1. IInv => AnswerMeets
  BY DEF IInv, AnswersGood, GoodAnswer, AnswerMeets
<1> QED BY <1>1, Inductive, PTL

(***************************************************************************)
(* On a metric that never gets worse with more support, no support smaller *)
(* by the precision reaches the target.                                    *)
(***************************************************************************)
THEOREM AnswersAreLeast == Spec => []LeastSupport
<1>1. IInv => LeastSupport
  BY DEF IInv, AnswersGood, GoodAnswer, LeastSupport
<1> QED BY <1>1, Inductive, PTL

\* Type correctness of the goal seek.
THEOREM SolverTypes == Spec => []TypeOK
<1>1. IInv => TypeOK
  BY DEF IInv
<1> QED BY <1>1, Inductive, PTL
-----------------------------------------------------------------------------
(***************************************************************************)
(* What the search has passed over so far: the intervals that do not turn, *)
(* and the multiples of the precision that do not do.                      *)
(***************************************************************************)
PassedOver ==
  /\ pc = "shape" => \A t \in 0 .. 9 : t < i => ~TurnsAt(Current, t)
  /\ pc = "bisect" => \A t \in 0 .. 9 : ~TurnsAt(Current, t)
  /\ pc = "scan" => \A m \in 1 .. ScanSteps : m < i => ~IsMet(Current, m * Precision)

Turns(g) == \E t \in 0 .. 9 : TurnsAt(g, t)

FirstFor(g, rate) ==
  Turns(g) => \A m \in 1 .. ScanSteps : IsMet(g, m * Precision) => m * Precision >= rate

AnswersFirst == \A n \in DOMAIN found : FirstFor(Goals[found[n].goal], found[n].rate)

(***************************************************************************)
(* best is the largest answer and binding its goal; of several goals each  *)
(* one that was passed has an answer.                                      *)
(***************************************************************************)
AnswerOf(n, g, rate) == n \in DOMAIN found /\ found[n] = [goal |-> g, rate |-> rate]

BestSoFar ==
  /\ \A n \in DOMAIN found : found[n].rate <= best
  /\ binding = 0 => best = 0
  /\ binding # 0 => \E n \in DOMAIN found : AnswerOf(n, binding, best)

EachAnswered ==
  \A g \in DOMAIN Goals : g < k \/ pc = "done" => \E n \in DOMAIN found : found[n].goal = g

DInv ==
  /\ IInv /\ PassedOver /\ AnswersFirst
  /\ outcome.status = "solved" => pc = "done"
  /\ outcome.status # "unreachable" => BestSoFar
  /\ problem.mode = "goals" /\ outcome.status # "unreachable" => EachAnswered
  /\ pc # "done" => outcome.status = "running"

LEMMA AnsweredRates ==
  ASSUME TypeOK, NEW n \in DOMAIN found
  PROVE  found[n].rate \in Support /\ found[n].rate \in Nat
<1>1. found[n] \in Point
  BY DEF TypeOK
<1>2. found[n].rate \in Support
  BY <1>1 DEF Point
<1> QED BY <1>2, UnitsAreNat DEF Support

LEMMA DecisionStarts == Init => DInv
<1> SUFFICES ASSUME Init PROVE DInv
  OBVIOUS
<1>1. found = <<>> /\ k = 1 /\ pc \in {"done", "ends"} /\ pc = "done" => Len(problem.goals) = 0
  BY DEF Init
<1>2. PassedOver /\ AnswersFirst /\ BestSoFar
  BY DEF Init, PassedOver, AnswersFirst, BestSoFar
<1>3. EachAnswered
  <2>1. problem.goals \in Seq(Goal)
    BY ProblemsAssumption DEF Init, WellPosed
  <2>2. ASSUME NEW g \in DOMAIN Goals PROVE ~(g < k) /\ pc # "done"
    BY <1>1, <2>1, <2>2 DEF Init, Goals
  <2> QED BY <2>2 DEF EachAnswered
<1> QED BY <1>2, <1>3, Starts DEF Init, DInv

(***************************************************************************)
(* An answer that is the first on its grid leaves the decision in order.   *)
(***************************************************************************)
LEMMA FoundDecides ==
  ASSUME DInv, IInv', pc # "done", NEW rate \in Support, FirstFor(Current, rate),
         Found(rate), problem' = problem
  PROVE  DInv'
<1>0. TypeOK /\ TypeOK'
  BY DEF DInv, IInv
<1>1. /\ k \in 1 .. Len(Goals) /\ Len(Goals) \in Nat /\ k \in Nat /\ Goals' = Goals
      /\ DOMAIN Goals = 1 .. Len(Goals)
  BY <1>0, CurrentGoal DEF Goals, TypeOK
<1> DEFINE new == [goal |-> k, rate |-> rate]
<1>2. /\ Len(found) \in Nat /\ found'[Len(found) + 1] = new
      /\ \A n \in 1 .. Len(found) : found'[n] = found[n]
      /\ DOMAIN found = 1 .. Len(found) /\ DOMAIN found' = 1 .. Len(found) + 1
  <2>1. new \in Point /\ found \in Seq(Point) /\ found' = Append(found, new)
    BY <1>0, <1>1 DEF Found, Point, TypeOK
  <2> QED BY <2>1
<1>3. \A n \in DOMAIN found' : n = Len(found) + 1 \/ n \in DOMAIN found
  BY <1>2
<1>4. new.goal = k /\ new.rate = rate
  OBVIOUS
<1> HIDE DEF new
<1>5. pc' \in {"ends", "done"}
  BY DEF Found, NextGoal
<1>6. PassedOver'
  BY <1>5 DEF PassedOver
<1>7. AnswersFirst'
  <2> SUFFICES ASSUME NEW n \in DOMAIN found'
               PROVE  FirstFor(Goals[found'[n].goal], found'[n].rate)
    BY <1>1 DEF AnswersFirst
  <2>1. CASE n = Len(found) + 1
    BY <2>1, <1>2, <1>4 DEF Current
  <2>2. CASE n \in DOMAIN found
    BY <2>2, <1>2 DEF DInv, AnswersFirst
  <2> QED BY <1>3, <2>1, <2>2
<1>8. outcome.status = "running"
  BY DEF DInv
<1>9. /\ pc' # "done" => outcome'.status = "running"
      /\ pc' = "done" => outcome'.status = "solved"
      /\ outcome'.status # "unreachable"
  BY <1>8 DEF Found, NextGoal
<1>10. BestSoFar'
  <2>1. BestSoFar /\ best \in Nat /\ rate \in Nat /\ best' \in Nat
    BY <1>0, <1>8, UnitsAreNat DEF DInv, TypeOK, Support
  <2>2. best' >= best /\ best' >= rate
    BY <2>1 DEF Found, LargestBinds
  <2>3. ASSUME NEW n \in DOMAIN found' PROVE found'[n].rate <= best'
    <3>1. CASE n = Len(found) + 1
      BY <3>1, <1>2, <1>4, <2>1, <2>2
    <3>2. CASE n \in DOMAIN found
      <4>1. found'[n] = found[n] /\ found[n].rate \in Nat /\ found[n].rate <= best
        BY <3>2, <1>0, <1>2, <2>1, AnsweredRates DEF BestSoFar
      <4> QED BY <4>1, <2>1, <2>2
    <3> QED BY <1>3, <3>1, <3>2
  <2>4. CASE rate > best
    <3>1. best' = rate /\ binding' = k
      BY <2>4 DEF Found, LargestBinds
    <3>2. PICK m \in DOMAIN found' : m = Len(found) + 1
      BY <1>2
    <3>3. AnswerOf(m, binding, best)'
      BY <3>1, <3>2, <1>2 DEF AnswerOf, new
    <3>4. \E n \in DOMAIN found' : AnswerOf(n, binding, best)'
      BY <3>2, <3>3
    <3> QED BY <1>1, <2>3, <3>1, <3>4 DEF BestSoFar
  <2>5. CASE ~(rate > best)
    <3>1. best' = best /\ binding' = binding
      BY <2>5 DEF Found, LargestBinds
    <3>2. ASSUME NEW n \in DOMAIN found, AnswerOf(n, binding, best)
          PROVE  AnswerOf(n, binding, best)' /\ n \in DOMAIN found'
      BY <3>1, <3>2, <1>2 DEF AnswerOf
    <3> QED BY <2>1, <2>3, <3>1, <3>2 DEF BestSoFar
  <2> QED BY <2>4, <2>5
<1>11. ASSUME problem.mode = "goals" PROVE EachAnswered'
  <2> SUFFICES ASSUME NEW g \in DOMAIN Goals, g < k' \/ pc' = "done"
               PROVE  \E n \in DOMAIN found' : found'[n].goal = g
    BY <1>1 DEF EachAnswered
  <2>1. g < k \/ g = k
    BY <1>1 DEF Found, NextGoal
  <2>2. CASE g < k
    <3>1. PICK n \in DOMAIN found : found[n].goal = g
      BY <1>8, <1>11, <2>2 DEF DInv, EachAnswered
    <3> QED BY <3>1, <1>2
  <2>3. CASE g = k
    BY <2>3, <1>2, <1>4
  <2> QED BY <2>1, <2>2, <2>3
<1> QED BY <1>6, <1>7, <1>9, <1>10, <1>11 DEF DInv

\* A step that answers nothing and stays with its goal.
LEMMA SearchDecides ==
  ASSUME DInv, IInv', pc # "done", pc' # "done", PassedOver',
         UNCHANGED <<problem, k, found, best, binding, outcome>>
  PROVE  DInv'
<1>1. Goals' = Goals
  BY DEF Goals
<1>2. AnswersFirst' /\ (BestSoFar => BestSoFar') /\ (EachAnswered => EachAnswered')
  BY <1>1 DEF DInv, AnswersFirst, BestSoFar, EachAnswered, AnswerOf
<1> QED BY <1>2 DEF DInv

LEMMA CheckEndsDecides == DInv /\ CheckEnds => DInv'
<1> SUFFICES ASSUME DInv, CheckEnds PROVE DInv'
  OBVIOUS
<1>1. IInv' /\ pc = "ends" /\ problem' = problem /\ Goals' = Goals /\ TypeOK
  BY CheckEndsKeeps DEF DInv, CheckEnds, Goals, IInv
<1>2. CASE Found(0)
  <2>1. \A m \in 1 .. ScanSteps : m * Precision >= 0
    BY UnitsAreNat, Multiples DEF Support
  <2>2. FirstFor(Current, 0) /\ 0 \in Support
    BY <2>1, UnitsAreNat DEF FirstFor
  <2> QED BY <1>1, <1>2, <2>2, FoundDecides
<1>3. CASE Unreachable
  <2>1. /\ k \in 1 .. Len(Goals) /\ Len(Goals) \in Nat /\ found' = found
        /\ pc' \in {"ends", "done"} /\ outcome.status = "running"
    BY <1>1, <1>3, CurrentGoal DEF Unreachable, NextGoal, DInv
  <2>2. PassedOver' /\ AnswersFirst'
    BY <1>1, <2>1 DEF PassedOver, AnswersFirst, DInv
  <2>3. CASE problem.mode = "goals"
    BY <1>1, <1>3, <2>2, <2>3 DEF Unreachable, DInv
  <2>4. CASE problem.mode # "goals"
    <3>1. NextGoal /\ best' = best /\ binding' = binding /\ problem'.mode # "goals"
      BY <1>1, <1>3, <2>4 DEF Unreachable
    <3>2. BestSoFar'
      BY <2>1, <3>1 DEF DInv, BestSoFar, AnswerOf
    <3>3. /\ pc' # "done" => outcome'.status = "running"
          /\ pc' = "done" => outcome'.status = "solved"
      BY <2>1, <3>1 DEF NextGoal
    <3> QED BY <1>1, <2>2, <3>1, <3>2, <3>3 DEF DInv
  <2> QED BY <2>3, <2>4
<1>4. CASE /\ pc' = "shape" /\ i' = 0
           /\ UNCHANGED <<k, found, best, binding, least, outcome>>
  <2>1. PassedOver'
    BY <1>4 DEF PassedOver
  <2> QED BY <1>1, <1>4, <2>1, SearchDecides
<1> QED BY <1>2, <1>3, <1>4 DEF CheckEnds

LEMMA CheckShapeDecides == DInv /\ CheckShape => DInv'
<1> SUFFICES ASSUME DInv, CheckShape PROVE DInv'
  OBVIOUS
<1>1. /\ IInv' /\ pc = "shape" /\ pc' # "done" /\ i \in 0 .. 9 /\ Current' = Current
      /\ UNCHANGED <<problem, k, found, best, binding, outcome>>
  BY CheckShapeKeeps DEF DInv, CheckShape, Current, Goals, IInv, TypeOK
<1>2. \A t \in 0 .. 9 : t < i => ~TurnsAt(Current, t)
  BY <1>1 DEF DInv, PassedOver
<1>3. PassedOver'
  <2>1. CASE TurnsAt(Current, i)
    <3>1. pc' = "scan" /\ i' = 1
      BY <2>1 DEF CheckShape
    <3>2. \A m \in 1 .. ScanSteps : ~(m < 1)
      OBVIOUS
    <3> QED BY <3>1, <3>2 DEF PassedOver
  <2>2. CASE ~TurnsAt(Current, i)
    <3>1. \A t \in 0 .. 9 : t < i + 1 => ~TurnsAt(Current, t)
      BY <1>1, <1>2, <2>2
    <3>2. CASE i < 9
      <4>1. pc' = "shape" /\ i' = i + 1
        BY <2>2, <3>2, <1>1 DEF CheckShape
      <4>2. \A t \in 0 .. 9 : TurnsAt(Current, t)' <=> TurnsAt(Current, t)
        BY <1>1 DEF TurnsAt
      <4> QED BY <4>1, <4>2, <3>1 DEF PassedOver
    <3>3. CASE ~(i < 9)
      <4>1. pc' = "bisect"
        BY <2>2, <3>3, <1>1 DEF CheckShape
      <4>2. \A t \in 0 .. 9 : TurnsAt(Current, t)' <=> TurnsAt(Current, t)
        BY <1>1 DEF TurnsAt
      <4>3. \A t \in 0 .. 9 : t < i + 1
        BY <1>1, <3>3
      <4> QED BY <4>1, <4>2, <4>3, <3>1 DEF PassedOver
    <3> QED BY <3>2, <3>3
  <2> QED BY <2>1, <2>2
<1> QED BY <1>1, <1>3, SearchDecides

LEMMA BisectDecides == DInv /\ Bisect => DInv'
<1> SUFFICES ASSUME DInv, Bisect PROVE DInv'
  OBVIOUS
<1>1. /\ IInv' /\ pc = "bisect" /\ problem' = problem /\ high \in Support
      /\ \A t \in 0 .. 9 : ~TurnsAt(Current, t)
  BY BisectKeeps DEF DInv, Bisect, IInv, TypeOK, PassedOver
<1>2. CASE high - low > Precision
  <2>1. UNCHANGED <<k, pc, found, best, binding, outcome>>
    BY <1>2 DEF Bisect
  <2>2. Current' = Current
    BY <1>1, <2>1 DEF Current, Goals
  <2>3. PassedOver'
    BY <1>1, <2>1, <2>2 DEF PassedOver, TurnsAt
  <2> QED BY <1>1, <2>1, <2>3, SearchDecides
<1>3. CASE ~(high - low > Precision)
  <2>1. Found(high) /\ FirstFor(Current, high)
    BY <1>1, <1>3 DEF Bisect, FirstFor, Turns
  <2> QED BY <1>1, <2>1, FoundDecides
<1> QED BY <1>2, <1>3

\* Multiples of the precision are in the order of their numbers.
LEMMA MultiplesOrdered ==
  ASSUME NEW m \in Nat, NEW n \in Nat, m >= n
  PROVE  m * Precision >= n * Precision
  BY UnitsAreNat, Z3

LEMMA ScanDecides == DInv /\ Scan => DInv'
<1> SUFFICES ASSUME DInv, Scan PROVE DInv'
  OBVIOUS
<1>1. /\ IInv' /\ pc = "scan" /\ problem' = problem /\ i \in Nat /\ i >= 1
      /\ \A m \in 1 .. ScanSteps : m < i => ~IsMet(Current, m * Precision)
  BY ScanKeeps DEF DInv, Scan, IInv, TypeOK, PassedOver
<1>2. CASE i <= ScanSteps /\ IsMet(Current, i * Precision)
  <2>1. Found(i * Precision)
    BY <1>2 DEF Scan
  <2>2. ASSUME NEW m \in 1 .. ScanSteps, IsMet(Current, m * Precision)
        PROVE  m * Precision >= i * Precision
    <3>1. m >= i /\ m \in Nat
      BY <1>1, <2>2
    <3> QED BY <1>1, <3>1, MultiplesOrdered
  <2>3. FirstFor(Current, i * Precision) /\ i * Precision \in Support
    BY <1>1, <1>2, <2>2, Multiples DEF FirstFor
  <2> QED BY <1>1, <2>1, <2>3, FoundDecides
<1>3. CASE i <= ScanSteps /\ ~IsMet(Current, i * Precision)
  <2>1. i' = i + 1 /\ UNCHANGED <<k, pc, found, best, binding, outcome>>
    BY <1>3 DEF Scan
  <2>2. Current' = Current
    BY <1>1, <2>1 DEF Current, Goals
  <2>3. \A m \in 1 .. ScanSteps : m < i + 1 => ~IsMet(Current, m * Precision)
    BY <1>1, <1>3
  <2>4. PassedOver'
    BY <1>1, <2>1, <2>2, <2>3 DEF PassedOver, IsMet
  <2> QED BY <1>1, <2>1, <2>4, SearchDecides
<1>4. CASE ~(i <= ScanSteps)
  <2>1. Found(Full)
    BY <1>4 DEF Scan
  <2>2. ASSUME NEW m \in 1 .. ScanSteps PROVE m < i
    <3>1. ScanSteps \in Int
      BY UnitsAreNat, Z3 DEF ScanSteps
    <3> QED BY <1>1, <1>4, <3>1
  <2>3. FirstFor(Current, Full) /\ Full \in Support
    BY <1>1, <2>2, UnitsAreNat DEF FirstFor
  <2> QED BY <1>1, <2>1, <2>3, FoundDecides
<1> QED BY <1>2, <1>3, <1>4

LEMMA StepDecides == DInv /\ [Next]_vars => DInv'
<1> SUFFICES ASSUME DInv, [Next]_vars PROVE DInv'
  OBVIOUS
<1>1. CASE UNCHANGED vars
  <2>1. IInv'
    BY <1>1, StepKeeps DEF DInv
  <2>2. Goals' = Goals /\ Current' = Current
    BY <1>1 DEF vars, Goals, Current
  <2>3. PassedOver' /\ AnswersFirst'
    BY <1>1, <2>2 DEF vars, DInv, PassedOver, AnswersFirst, TurnsAt, IsMet
  <2>4. (BestSoFar => BestSoFar') /\ (EachAnswered => EachAnswered')
    BY <1>1, <2>2 DEF vars, BestSoFar, EachAnswered, AnswerOf
  <2> QED BY <1>1, <2>1, <2>3, <2>4 DEF DInv, vars
<1> QED BY <1>1, CheckEndsDecides, CheckShapeDecides, BisectDecides, ScanDecides DEF Next

LEMMA DecisionInductive == Spec => []DInv
<1> QED BY DecisionStarts, StepDecides, PTL DEF Spec

LEMMA FirstGrid == DInv => FirstOnGrid
  BY DEF DInv, AnswersFirst, FirstFor, Turns, FirstOnGrid

LEMMA Decides == DInv => BindingGoalDecides
<1> SUFFICES ASSUME DInv, problem.mode = "goals", outcome.status = "solved"
             PROVE  /\ binding = 0 => best = 0
                    /\ binding # 0 =>
                         \E n \in DOMAIN found : found[n] = [goal |-> binding, rate |-> best]
                    /\ (\A g \in DOMAIN Goals : Monotone(Goals[g])) =>
                         \A g \in DOMAIN Goals : IsMet(Goals[g], best)
  BY DEF BindingGoalDecides
<1>1. BestSoFar /\ EachAnswered /\ pc = "done" /\ TypeOK
  BY DEF DInv, IInv
<1>2. ASSUME NEW g \in DOMAIN Goals, Monotone(Goals[g])
      PROVE  IsMet(Goals[g], best)
  <2>1. PICK n \in DOMAIN found : found[n].goal = g
    BY <1>1 DEF EachAnswered
  <2>2. IsMet(Goals[g], found[n].rate) /\ found[n].rate <= best
    BY <1>1, <2>1 DEF DInv, IInv, AnswersGood, GoodAnswer, BestSoFar
  <2>3. found[n].rate \in Support /\ best \in Support /\ Goals[g] \in Goal
    BY <1>1, AnsweredRates DEF TypeOK, Goals
  <2>4. /\ Goals[g].curve[found[n].rate] \in Int /\ Goals[g].curve[best] \in Int
        /\ Goals[g].target \in Int
    BY <2>3 DEF Goal, Curve
  <2> QED BY <1>2, <2>2, <2>3, <2>4 DEF Monotone, IsMet
<1> QED BY <1>1, <1>2 DEF BestSoFar, AnswerOf

(***************************************************************************)
(* For every precision and every set of problems, a metric that turns is   *)
(* answered with the first multiple of the precision that does, and of     *)
(* several goals the one that needs most decides (GoalsDecide).            *)
(***************************************************************************)
THEOREM NeediestGoalDecides == Spec => []GoalsDecide
<1>1. DInv => GoalsDecide
  BY FirstGrid, Decides DEF GoalsDecide
<1> QED BY <1>1, DecisionInductive, PTL

-----------------------------------------------------------------------------
(***************************************************************************)
(* The units of part p, the first one included, follow each other without  *)
(* a gap and without an overlap up to the year before next.                *)
(***************************************************************************)
Units(p) == bought[p] \cup {1}
ChainTo(p, next) ==
  /\ next \in Nat
  /\ \A b \in Units(p) : b \in Nat /\ b + res.life[p] <= next
  /\ \A y \in 1 .. next - 1 : \E b \in Units(p) : Serves(p, b, y)
  /\ \A b, c \in Units(p) : b < c => b + res.life[p] <= c

LoopType ==
  /\ res \in Resources /\ res.life \in Seq(Nat \ {0})
  /\ horizon \in Nat \ {0}
  /\ stage \in {"part", "buy", "done"}
  /\ part \in Nat \ {0}
  /\ bought \in [Parts(res) -> SUBSET Nat]

\* A part that is still to come has bought nothing.
ToCome(p) == p > part \/ (p = part /\ stage = "part")

(***************************************************************************)
(* The inductive invariant: the part in the loop forms a chain up to its   *)
(* next purchase, a part behind it a chain beyond the horizon.             *)
(***************************************************************************)
LoopInv ==
  /\ LoopType
  /\ \A p \in Parts(res) : ToCome(p) => bought[p] = {}
  /\ stage = "buy" => ~res.retire /\ part \in Parts(res) /\ ChainTo(part, year)
  /\ ~res.retire =>
       \A p \in Parts(res) :
         p < part /\ BoughtAgain(res, p) => \E n \in Nat : n > horizon /\ ChainTo(p, n)
  /\ stage = "done" => res.retire \/ part > Len(res.life)

-----------------------------------------------------------------------------
\* The purchase that is due extends the chain by one life (replacement_schedule).
LEMMA BuyExtends ==
  ASSUME LoopType, part \in Parts(res), ChainTo(part, year), Buy
  PROVE  ChainTo(part, year)'
<1> DEFINE n == res.life[part]
<1>1. n \in Nat \ {0} /\ res' = res /\ part' = part
  BY DEF LoopType, Parts, Buy
<1>2. year \in Nat /\ year' = year + n /\ year' \in Nat
  BY <1>1 DEF ChainTo, Buy
<1>3. Units(part)' = Units(part) \cup {year}
  BY <1>1 DEF LoopType, Units, Buy
<1>4. \A b \in Units(part)' : b \in Nat /\ b + n <= year'
  BY <1>1, <1>2, <1>3 DEF ChainTo
<1>5. \A y \in 1 .. year' - 1 : \E b \in Units(part)' : b <= y /\ y < b + n
  <2> SUFFICES ASSUME NEW y \in 1 .. year' - 1
               PROVE  \E b \in Units(part)' : b <= y /\ y < b + n
    OBVIOUS
  <2>1. CASE y < year
    <3>1. y \in 1 .. year - 1
      BY <2>1, <1>2
    <3>2. PICK b \in Units(part) : Serves(part, b, y)
      BY <3>1 DEF ChainTo
    <3> QED
      BY <3>2, <1>3 DEF Serves
  <2>2. CASE ~(y < year)
    BY <2>2, <1>1, <1>2, <1>3
  <2> QED
    BY <2>1, <2>2
<1>6. \A b, c \in Units(part)' : b < c => b + n <= c
  <2> SUFFICES ASSUME NEW b \in Units(part)', NEW c \in Units(part)', b < c
               PROVE  b + n <= c
    OBVIOUS
  <2>1. CASE b \in Units(part) /\ c \in Units(part)
    BY <2>1 DEF ChainTo
  <2>2. CASE c = year /\ b \in Units(part)
    BY <2>2 DEF ChainTo
  <2>3. CASE b = year /\ c \in Units(part)
    BY <2>3, <1>1, <1>2 DEF ChainTo
  <2> QED
    BY <2>1, <2>2, <2>3, <1>2, <1>3
<1> QED
  BY <1>1, <1>2, <1>4, <1>5, <1>6 DEF ChainTo, Serves, Units

\* A step that keeps the resource and the units of a part keeps its chain.
LEMMA ChainKept ==
  ASSUME NEW p, NEW n, ChainTo(p, n), res' = res, bought'[p] = bought[p]
  PROVE  ChainTo(p, n)'
BY DEF ChainTo, Units, Serves

-----------------------------------------------------------------------------
LEMMA LoopInvInit == ASSUME LifeInit PROVE LoopInv
BY LifecycleAssumption DEF WellMade, LifeInit, LoopInv, LoopType, Parts, ToCome

LEMMA NextLoopInv == ASSUME LoopInv, [LifeNext]_lifeVars PROVE LoopInv'
<1> USE DEF LoopInv
<1>1. CASE Retire
  BY <1>1 DEF Retire, LoopType, ToCome, Parts
<1>2. CASE SkipPart
  <2>1. LoopType' /\ stage' = "part" /\ res' = res /\ bought' = bought /\ horizon' = horizon /\ part' = part + 1
    BY <1>2 DEF SkipPart, LoopType, Parts
  <2>2. ASSUME NEW p \in Parts(res), ToCome(p)' PROVE bought[p] = {}
    BY <2>1, <2>2, <1>2 DEF ToCome, SkipPart, LoopType, Parts
  <2>3. ASSUME ~res.retire, NEW p \in Parts(res), p < part + 1, BoughtAgain(res, p)
        PROVE  \E n \in Nat : n > horizon /\ ChainTo(p, n)'
    <3>1. p < part
      BY <2>3, <1>2 DEF SkipPart, LoopType, Parts
    <3>2. PICK n \in Nat : n > horizon /\ ChainTo(p, n)
      BY <3>1, <2>3
    <3> QED
      BY <3>2, <2>1, ChainKept
  <2> QED
    BY <2>1, <2>2, <2>3 DEF Parts
<1>3. CASE EnterPart
  <2>1. LoopType' /\ stage' = "buy" /\ res' = res /\ bought' = bought /\ horizon' = horizon /\ part' = part
    BY <1>3 DEF EnterPart, LoopType, Parts
  <2>2. part \in Parts(res) /\ ~res.retire /\ bought[part] = {} /\ year' = res.life[part] + 1
    BY <1>3 DEF EnterPart, ToCome, LoopType, Parts
  <2>3. res.life[part] \in Nat \ {0}
    BY <2>2 DEF LoopType, Parts
  <2>4. ChainTo(part, year)'
    BY <2>1, <2>2, <2>3 DEF ChainTo, Units, Serves
  <2>5. ASSUME NEW p \in Parts(res), ToCome(p)' PROVE bought[p] = {}
    BY <2>1, <2>5 DEF ToCome
  <2>6. ASSUME NEW p \in Parts(res), p < part, BoughtAgain(res, p)
        PROVE  \E n \in Nat : n > horizon /\ ChainTo(p, n)'
    <3>1. PICK n \in Nat : n > horizon /\ ChainTo(p, n)
      BY <2>2, <2>6
    <3> QED
      BY <3>1, <2>1, ChainKept
  <2> QED
    BY <2>1, <2>2, <2>4, <2>5, <2>6 DEF Parts
<1>4. CASE Buy
  <2>1. /\ stage = "buy" /\ stage' = "buy" /\ res' = res /\ horizon' = horizon /\ part' = part
        /\ part \in Parts(res) /\ ~res.retire /\ ChainTo(part, year)
    BY <1>4 DEF Buy
  <2>2. bought' = [bought EXCEPT ![part] = @ \cup {year}] /\ year \in Nat
    BY <1>4, <2>1 DEF Buy, ChainTo
  <2>3. LoopType'
    BY <2>1, <2>2 DEF LoopType, Parts
  <2>4. ChainTo(part, year)'
    BY <1>4, <2>1, BuyExtends
  <2>5. \A p \in Parts(res) : p # part => bought'[p] = bought[p]
    BY <2>2 DEF LoopType
  <2>6. ASSUME NEW p \in Parts(res), ToCome(p)' PROVE bought'[p] = {}
    BY <2>1, <2>5, <2>6 DEF ToCome, LoopType, Parts
  <2>7. ASSUME NEW p \in Parts(res), p < part, BoughtAgain(res, p)
        PROVE  \E n \in Nat : n > horizon /\ ChainTo(p, n)'
    <3>1. PICK n \in Nat : n > horizon /\ ChainTo(p, n)
      BY <2>1, <2>7
    <3>2. p # part
      BY <2>7 DEF LoopType, Parts
    <3> QED
      BY <3>1, <3>2, <2>1, <2>5, ChainKept
  <2> QED
    BY <2>1, <2>3, <2>4, <2>6, <2>7 DEF Parts
<1>5. CASE LeavePart
  <2>1. LoopType' /\ stage' = "part" /\ res' = res /\ bought' = bought /\ horizon' = horizon /\ part' = part + 1
    BY <1>5 DEF LeavePart, LoopType, Parts
  <2>2. ~res.retire /\ part \in Parts(res) /\ ChainTo(part, year) /\ year > horizon
    BY <1>5 DEF LeavePart
  <2>3. ASSUME NEW p \in Parts(res), ToCome(p)' PROVE bought[p] = {}
    BY <2>1, <2>3 DEF ToCome, LoopType, Parts
  <2>4. ASSUME NEW p \in Parts(res), p < part + 1, BoughtAgain(res, p)
        PROVE  \E n \in Nat : n > horizon /\ ChainTo(p, n)'
    <3>1. CASE p = part
      BY <3>1, <2>1, <2>2, ChainKept DEF ChainTo
    <3>2. CASE p < part
      <4>1. PICK n \in Nat : n > horizon /\ ChainTo(p, n)
        BY <3>2, <2>2, <2>4
      <4> QED
        BY <4>1, <2>1, ChainKept
    <3> QED
      BY <3>1, <3>2, <2>4 DEF LoopType, Parts
  <2> QED
    BY <2>1, <2>3, <2>4 DEF Parts
<1>6. CASE Finish
  <2>1. LoopType' /\ stage' = "done" /\ res' = res /\ bought' = bought /\ horizon' = horizon /\ part' = part
    BY <1>6 DEF Finish, LoopType, Parts
  <2>2. ASSUME ~res.retire, NEW p \in Parts(res), p < part, BoughtAgain(res, p)
        PROVE  \E n \in Nat : n > horizon /\ ChainTo(p, n)'
    <3>1. PICK n \in Nat : n > horizon /\ ChainTo(p, n)
      BY <2>2
    <3> QED
      BY <3>1, <2>1, ChainKept
  <2> QED
    BY <2>1, <2>2, <1>6 DEF Finish, ToCome, Parts, LoopType
<1>7. CASE UNCHANGED lifeVars
  BY <1>7 DEF lifeVars, LoopType, ToCome, ChainTo, Units, Serves, Parts
<1> QED
  BY <1>1, <1>2, <1>3, <1>4, <1>5, <1>6, <1>7 DEF LifeNext

\* Two units of a chain that serve the same year are the same unit.
LEMMA ChainServes ==
  ASSUME LoopInv PROVE EveryYearServed
<1> SUFFICES ASSUME stage = "done", ~res.retire, NEW p \in Parts(res), BoughtAgain(res, p),
                    NEW y \in 1 .. horizon
             PROVE  /\ \E b \in bought[p] \cup {1} : Serves(p, b, y)
                    /\ \A b, c \in bought[p] \cup {1} :
                         Serves(p, b, y) /\ Serves(p, c, y) => b = c
  BY DEF EveryYearServed
<1>1. PICK n \in Nat : n > horizon /\ ChainTo(p, n)
  BY DEF LoopInv, LoopType, Parts
<1>2. y \in 1 .. n - 1
  BY <1>1 DEF LoopInv, LoopType
<1>3. \E b \in bought[p] \cup {1} : Serves(p, b, y)
  BY <1>1, <1>2 DEF ChainTo, Units
<1>4. ASSUME NEW b \in bought[p] \cup {1}, NEW c \in bought[p] \cup {1},
             Serves(p, b, y), Serves(p, c, y)
      PROVE  b = c
  <2>1. b \in Nat /\ c \in Nat
    BY <1>1 DEF ChainTo, Units
  <2>2. res.life[p] \in Nat
    BY DEF LoopInv, LoopType, Parts
  <2>3. (b < c => b + res.life[p] <= c) /\ (c < b => c + res.life[p] <= b)
    BY <1>1 DEF ChainTo, Units
  <2> QED
    BY <1>4, <2>1, <2>2, <2>3 DEF Serves
<1> QED
  BY <1>3, <1>4

(***************************************************************************)
(* For all lives, parts and horizons, a resource that is replaced has      *)
(* exactly one unit of each part in service in every year                  *)
(* (replacement_schedule of every class).                                  *)
(***************************************************************************)
THEOREM ServedThroughout == LifeSpec => []EveryYearServed
<1>1. LifeInit => LoopInv
  BY LoopInvInit
<1>2. LoopInv /\ [LifeNext]_lifeVars => LoopInv'
  BY NextLoopInv
<1>3. LoopInv => EveryYearServed
  BY ChainServes
<1> QED
  BY <1>1, <1>2, <1>3, PTL DEF LifeSpec
-----------------------------------------------------------------------------
(***************************************************************************)
(* EV, Load, ThermalLoad and CommonAsset never look at the purchases: they *)
(* rely on every unit of a part standing on the cycle of its life.         *)
(***************************************************************************)
OnCycle(n, y) == \E times \in Nat : y = 1 + times * n

Cycles ==
  /\ \A p \in Parts(res) : res.retire \/ ~BoughtAgain(res, p) => bought[p] = {}
  /\ \A p \in Parts(res) : \A b \in bought[p] : OnCycle(res.life[p], b)
  /\ stage = "buy" =>
       /\ BoughtAgain(res, part)
       /\ year >= 2
       /\ OnCycle(res.life[part], year)

SalvageInv == LoopInv /\ LifeTypeOK /\ Cycles

LEMMA Dividing ==
  ASSUME NEW a \in Nat, NEW n \in Nat, n > 0, NEW times \in Nat, times * n <= a, a < times * n + n
  PROVE  a \div n = times /\ a % n = a - times * n
  BY Z3

LEMMA CycleGoesOn ==
  ASSUME NEW n \in Nat, NEW y, OnCycle(n, y)
  PROVE  OnCycle(n, y + n)
<1>1. PICK times \in Nat : y = 1 + times * n
  BY DEF OnCycle
<1>2. y + n = 1 + (times + 1) * n /\ times + 1 \in Nat
  BY <1>1, Z3
<1> QED BY <1>2 DEF OnCycle

LEMMA CycleStarts ==
  ASSUME NEW n \in Nat
  PROVE  OnCycle(n, 1) /\ OnCycle(n, n + 1)
<1>1. 1 = 1 + 0 * n /\ n + 1 = 1 + 1 * n
  OBVIOUS
<1> QED BY <1>1 DEF OnCycle

LEMMA SalvageInvInit == ASSUME LifeInit PROVE SalvageInv
<1>1. res.life \in Seq(Nat \ {0}) /\ Len(res.life) \in Nat
  BY LifecycleAssumption DEF LifeInit, WellMade
<1>2. LifeTypeOK /\ Cycles
  BY <1>1 DEF LifeInit, LifeTypeOK, Cycles, Parts
<1> QED BY <1>2, LoopInvInit DEF SalvageInv

LEMMA NextSalvageInv == ASSUME SalvageInv, [LifeNext]_lifeVars PROVE SalvageInv'
<1>0. LoopInv' /\ LoopInv /\ LifeTypeOK /\ Cycles
  BY NextLoopInv DEF SalvageInv
<1>1. /\ res.life \in Seq(Nat \ {0}) /\ Len(res.life) \in Nat /\ part \in Nat \ {0}
      /\ res' = res /\ horizon' = horizon /\ horizon \in Nat
  BY <1>0 DEF LoopInv, LoopType, LifeNext, lifeVars, Retire, SkipPart, EnterPart, Buy,
              LeavePart, Finish
<1>2. CASE bought' = bought /\ stage' # "buy" /\ year' = year /\ part' \in 1 .. Len(res.life) + 1
  BY <1>0, <1>1, <1>2 DEF SalvageInv, LifeTypeOK, Cycles, LoopInv, LoopType
<1>3. CASE EnterPart
  <2>1. /\ part \in Parts(res) /\ part' = part /\ bought' = bought /\ BoughtAgain(res, part)
        /\ year' = res.life[part] + 1 /\ stage' = "buy"
    BY <1>3 DEF EnterPart
  <2>2. res.life[part] \in Nat \ {0}
    BY <1>1, <2>1 DEF Parts
  <2>3. OnCycle(res.life[part], year') /\ year' >= 2 /\ year' \in Nat
    BY <2>1, <2>2, CycleStarts
  <2>4. LifeTypeOK'
    BY <1>0, <1>1, <2>1, <2>3 DEF LifeTypeOK, Parts
  <2>5. Cycles'
    BY <1>0, <1>1, <2>1, <2>3 DEF Cycles
  <2> QED BY <1>0, <2>4, <2>5 DEF SalvageInv
<1>4. CASE Buy
  <2>1. /\ stage = "buy" /\ stage' = "buy" /\ part' = part /\ year <= horizon
        /\ bought' = [bought EXCEPT ![part] = @ \cup {year}] /\ year' = year + res.life[part]
    BY <1>4 DEF Buy
  <2>2. /\ part \in Parts(res) /\ ~res.retire /\ BoughtAgain(res, part)
        /\ year >= 2 /\ year \in Nat /\ OnCycle(res.life[part], year)
    BY <1>0, <2>1 DEF LoopInv, Cycles, LifeTypeOK
  <2>3. res.life[part] \in Nat \ {0}
    BY <1>1, <2>2 DEF Parts
  <2>4. OnCycle(res.life[part], year') /\ year' >= 2 /\ year' \in Nat
    BY <2>1, <2>2, <2>3, CycleGoesOn
  <2>5. /\ bought'[part] = bought[part] \cup {year}
        /\ \A p \in Parts(res) : p # part => bought'[p] = bought[p]
        /\ year \in 2 .. horizon
    BY <1>0, <1>1, <2>1, <2>2 DEF LifeTypeOK
  <2>6. bought' \in [Parts(res) -> SUBSET (2 .. horizon)]
    BY <1>0, <2>1, <2>2, <2>5 DEF LifeTypeOK
  <2>7. LifeTypeOK'
    BY <1>0, <1>1, <2>1, <2>4, <2>6 DEF LifeTypeOK
  <2>8. Cycles'
    BY <1>0, <1>1, <2>1, <2>2, <2>4, <2>5 DEF Cycles
  <2> QED BY <1>0, <2>7, <2>8 DEF SalvageInv
<1>5. CASE UNCHANGED lifeVars
  BY <1>0, <1>1, <1>5 DEF lifeVars, SalvageInv, LifeTypeOK, Cycles
<1>6. CASE Retire \/ SkipPart \/ LeavePart \/ Finish
  <2>1. bought' = bought /\ stage' # "buy" /\ year' = year
    BY <1>6 DEF Retire, SkipPart, LeavePart, Finish
  <2>2. part' \in 1 .. Len(res.life) + 1
    BY <1>0, <1>1, <1>6 DEF Retire, SkipPart, LeavePart, Finish, LifeTypeOK, LoopInv, Parts
  <2> QED BY <1>2, <2>1, <2>2
<1> QED BY <1>3, <1>4, <1>5, <1>6 DEF LifeNext
-----------------------------------------------------------------------------
LEMMA GreatestIs ==
  ASSUME NEW S, NEW m \in S, S \subseteq Int, \A x \in S : x <= m
  PROVE  Greatest(S) = m
<1>1. \A y \in S : m >= y
  OBVIOUS
<1>2. Greatest(S) \in S /\ \A y \in S : Greatest(S) >= y
  BY <1>1 DEF Greatest
<1>3. Greatest(S) >= m /\ Greatest(S) <= m /\ Greatest(S) \in Int /\ m \in Int
  BY <1>2
<1> QED BY <1>3

(***************************************************************************)
(* When the loop is done at most one unit has life left at the end of the  *)
(* analysis: the last one.  It is b, on the cycle of its part.             *)
(***************************************************************************)
InPlace(p, b) ==
  /\ b \in Units(p) /\ b \in 1 .. horizon /\ horizon < b + res.life[p]
  /\ \A c \in Units(p) : c # b => c < b /\ c + res.life[p] <= horizon
  /\ OnCycle(res.life[p], b)

Worth(p) == {Price(res, p, b) * LeftOf(p, b) : b \in Purchases(res, p)}

LEMMA Done ==
  ASSUME SalvageInv, stage = "done", NEW p \in Parts(res)
  PROVE  /\ WellMade(res) /\ FactorLaws(res, horizon)
         /\ horizon \in Nat \ {0} /\ res.life[p] \in Nat \ {0}
         /\ res.first[p] \in Nat /\ res.again[p] \in Nat
         /\ Units(p) \subseteq 1 .. horizon
<1>1. res \in Resources /\ horizon \in Horizons /\ bought[p] \subseteq 2 .. horizon
  BY DEF SalvageInv, LifeTypeOK
<1>2. WellMade(res) /\ FactorLaws(res, horizon) /\ horizon \in Nat \ {0}
  BY <1>1, LifecycleAssumption
<1>3. Units(p) \subseteq 1 .. horizon
  BY <1>1, <1>2 DEF Units
<1>4. res.life \in Seq(Nat \ {0}) /\ res.first \in [Parts(res) -> Nat]
      /\ res.again \in [Parts(res) -> Nat]
  BY <1>2 DEF WellMade
<1> QED BY <1>2, <1>3, <1>4 DEF Parts

LEMMA PricesAreWon ==
  ASSUME SalvageInv, stage = "done", NEW p \in Parts(res), NEW b \in Units(p)
  PROVE  Price(res, p, b) \in Nat /\ LeftOf(p, b) \in Nat
<1>1. b \in 1 .. horizon /\ Factor(res, b) \in Nat /\ res.again[p] \in Nat /\ res.first[p] \in Nat
  BY Done DEF FactorLaws
<1>2. Price(res, p, b) \in Nat
  BY <1>1, Z3 DEF Price
<1>3. LeftOf(p, b) \in Nat
  BY <1>1, Done DEF LeftOf, AtLeastZero
<1> QED BY <1>2, <1>3

LEMMA OneInPlace ==
  ASSUME SalvageInv, stage = "done", ~res.retire, NEW p \in Parts(res), BoughtAgain(res, p)
  PROVE  \E b \in Units(p) : InPlace(p, b)
<1>1. PICK n \in Nat : n > horizon /\ ChainTo(p, n)
  BY DEF SalvageInv, LoopInv, LoopType, Parts
<1>2. horizon \in Nat \ {0} /\ res.life[p] \in Nat \ {0} /\ Units(p) \subseteq 1 .. horizon
  BY Done
<1>3. horizon \in 1 .. n - 1
  BY <1>1, <1>2
<1>4. PICK b \in Units(p) : Serves(p, b, horizon)
  BY <1>1, <1>3 DEF ChainTo
<1>5. \A c \in Units(p) : c # b => c < b /\ c + res.life[p] <= horizon
  BY <1>1, <1>2, <1>4 DEF ChainTo, Serves
<1>6. OnCycle(res.life[p], b)
  BY <1>2, CycleStarts DEF SalvageInv, Cycles, Units
<1> QED BY <1>2, <1>4, <1>5, <1>6 DEF InPlace, Serves

(***************************************************************************)
(* What is left of the unit in place is all that is left.                  *)
(***************************************************************************)
LEMMA WorthOfLast ==
  ASSUME SalvageInv, stage = "done", NEW p \in Parts(res), NEW b \in Purchases(res, p),
         b \in Units(p), Purchases(res, p) \subseteq Units(p),
         \A c \in Purchases(res, p) : c # b => LeftOf(p, c) = 0
  PROVE  Greatest(Worth(p)) = Price(res, p, b) * LeftOf(p, b)
<1>1. \A c \in Purchases(res, p) : Price(res, p, c) \in Nat /\ LeftOf(p, c) \in Nat
  BY PricesAreWon
<1> DEFINE w(c) == Price(res, p, c) * LeftOf(p, c)
<1>2. w(b) \in Nat
  BY <1>1, Z3
<1>3. ASSUME NEW c \in Purchases(res, p) PROVE w(c) \in Int /\ w(c) <= w(b)
  <2>1. CASE c = b
    BY <1>2, <2>1
  <2>2. CASE c # b
    BY <1>1, <1>2, <2>2, Z3
  <2> QED BY <2>1, <2>2
<1>4. Worth(p) = {w(c) : c \in Purchases(res, p)}
  BY DEF Worth
<1> HIDE DEF w
<1>5. w(b) \in Worth(p) /\ Worth(p) \subseteq Int /\ \A x \in Worth(p) : x <= w(b)
  BY <1>3, <1>4
<1>6. Greatest(Worth(p)) = w(b)
  BY <1>5, GreatestIs
<1> QED BY <1>6 DEF w

Right(p) ==
  Salvage(res, p).won = IF Purchases(res, p) = {} THEN 0 ELSE Greatest(Worth(p))

\* A share of a price: its amount.
LEMMA ShareWon == ASSUME NEW a, NEW b, NEW c PROVE Share(a, b, c).won = a * b
  BY DEF Share

\* PV, ESS and HeatPump, retiring or not (salvage_value over _acquisitions).
LEMMA PurchasesRight ==
  ASSUME SalvageInv, stage = "done", NEW p \in Parts(res), LooksAtPurchases(res)
  PROVE  Right(p)
<1>1. Salvage(res, p) = SalvageOfPurchases(res, p)
  BY DEF Salvage, LooksAtPurchases
<1>2. CASE Purchases(res, p) = {}
  <2>1. SalvageOfPurchases(res, p) = Share(0, 0, res.life[p])
    BY <1>2 DEF SalvageOfPurchases
  <2> QED BY <1>1, <1>2, <2>1, ShareWon DEF Right
<1>3. CASE Purchases(res, p) # {}
  <2>1. /\ Purchases(res, p) \subseteq Units(p) /\ Units(p) \subseteq 1 .. horizon
        /\ horizon \in Nat /\ res.life[p] \in Nat
    BY Done DEF Purchases, Units
  <2>2. PICK b \in Purchases(res, p) :
          \A c \in Purchases(res, p) : c # b => c < b /\ LeftOf(p, c) = 0
    <3>1. CASE ~res.retire /\ BoughtAgain(res, p)
      <4>1. PICK b \in Units(p) : InPlace(p, b)
        BY <3>1, OneInPlace
      <4>2. \A c \in Units(p) : c # b => c < b /\ c + res.life[p] <= horizon
        BY <4>1 DEF InPlace
      <4>3. \A c \in Units(p) : c # b => LeftOf(p, c) = 0
        BY <2>1, <4>2 DEF LeftOf, AtLeastZero
      <4>4. b \in Purchases(res, p)
        <5>1. bought[p] \subseteq 2 .. horizon
          BY DEF SalvageInv, LifeTypeOK
        <5>2. CASE b \in bought[p]
          BY <5>2 DEF Purchases
        <5>3. CASE b = 1
          <6>1. PICK c \in Purchases(res, p) : TRUE
            BY <1>3
          <6>2. c \in Units(p) /\ c \in 1 .. horizon
            BY <2>1
          <6> QED BY <4>2, <5>3, <6>1, <6>2
        <5> QED BY <5>2, <5>3 DEF Units
      <4> QED BY <2>1, <4>2, <4>3, <4>4
    <3>2. CASE res.retire \/ ~BoughtAgain(res, p)
      <4>1. bought[p] = {}
        BY <3>2 DEF SalvageInv, Cycles
      <4>2. \A b, c \in Purchases(res, p) : b = c
        BY <4>1 DEF Purchases
      <4> QED BY <1>3, <4>2
    <3> QED BY <3>1, <3>2
  <2>3. Greatest(Purchases(res, p)) = b
    BY <2>1, <2>2, GreatestIs
  <2>4. SalvageOfPurchases(res, p)
          = Share(Price(res, p, b), AtLeastZero(res.life[p] - (horizon - b + 1)), res.life[p])
    BY <1>3, <2>3 DEF SalvageOfPurchases
  <2>5. res.life[p] - (horizon - b + 1) = b + res.life[p] - 1 - horizon
    BY <2>1
  <2>6. Salvage(res, p).won = Price(res, p, b) * LeftOf(p, b)
    BY <1>1, <2>4, <2>5, ShareWon DEF LeftOf
  <2>7. Greatest(Worth(p)) = Price(res, p, b) * LeftOf(p, b)
    BY <2>1, <2>2, WorthOfLast
  <2> QED BY <1>3, <2>6, <2>7 DEF Right
<1> QED BY <1>2, <1>3

\* The year of the unit in place, from the life of its part.
LEMMA YearOfLast ==
  ASSUME SalvageInv, stage = "done", NEW p \in Parts(res), NEW b, InPlace(p, b)
  PROVE  /\ (horizon - 1) % res.life[p] = horizon - b
         /\ ((horizon - 1) \div res.life[p]) * res.life[p] = b - 1
         /\ res.life[p] * ((horizon - 1) \div res.life[p]) = b - 1
<1> DEFINE n == res.life[p]
           a == horizon - 1
<1>1. horizon \in Nat \ {0} /\ n \in Nat /\ n > 0 /\ b \in 1 .. horizon /\ horizon < b + n
  BY Done DEF InPlace
<1>2. PICK times \in Nat : b = 1 + times * n
  BY DEF InPlace, OnCycle
<1>3. a \in Nat
  BY <1>1
<1> HIDE DEF n
<1>4. times * n \in Nat
  BY <1>1, Z3
<1>5. times * n <= a /\ a < times * n + n
  BY <1>1, <1>2, <1>4
<1> HIDE DEF a
<1>6. a \div n = times /\ a % n = a - times * n
  BY <1>1, <1>3, <1>5, Dividing
<1>7. times * n = b - 1 /\ n * times = times * n
  BY <1>1, <1>2, <1>4, Z3
<1> USE DEF a
<1>8. a - times * n = horizon - b
  BY <1>1, <1>7
<1> QED BY <1>6, <1>7, <1>8 DEF n

\* A part that is bought again and looks at its life only.
LEMMA CyclesRight ==
  ASSUME SalvageInv, stage = "done", NEW p \in Parts(res), ~LooksAtPurchases(res),
         ~res.retire, BoughtAgain(res, p)
  PROVE  Right(p)
<1>1. PICK b \in Units(p) : InPlace(p, b)
  BY OneInPlace
<1>2. /\ horizon \in Nat \ {0} /\ res.life[p] \in Nat \ {0} /\ b \in 1 .. horizon
      /\ Units(p) \subseteq 1 .. horizon /\ WellMade(res) /\ FactorLaws(res, horizon)
      /\ res.first[p] \in Nat /\ res.again[p] \in Nat
  BY <1>1, Done DEF InPlace
<1>3. Purchases(res, p) = Units(p)
  BY DEF Purchases, Units, CountsFirst
<1>4. \A c \in Units(p) : c # b => LeftOf(p, c) = 0
  BY <1>1, <1>2 DEF InPlace, LeftOf, AtLeastZero
<1>5. Greatest(Worth(p)) = Price(res, p, b) * LeftOf(p, b)
  BY <1>3, <1>4, WorthOfLast
<1>6. /\ (horizon - 1) % res.life[p] = horizon - b
      /\ ((horizon - 1) \div res.life[p]) * res.life[p] = b - 1
      /\ res.life[p] * ((horizon - 1) \div res.life[p]) = b - 1
  BY <1>1, YearOfLast
<1>7. LeftOf(p, b) = b + res.life[p] - 1 - horizon /\ LeftOf(p, b) >= 0
  BY <1>1, <1>2 DEF InPlace, LeftOf, AtLeastZero
<1>8. Factor(res, b) \in Nat /\ Factor(res, 1) = 1 /\ (res.rate = 0 => Factor(res, b) = 1)
  BY <1>2 DEF FactorLaws
<1>9. Salvage(res, p).won = Price(res, p, b) * LeftOf(p, b)
  <2>1. CASE res.kind \in {"Load", "ThermalLoad"}
    <3> DEFINE age == (horizon - 1) % res.life[p]
    <3>1. age = horizon - b /\ horizon - age = b
      BY <1>2, <1>6
    <3>2. res.life[p] - age - 1 = LeftOf(p, b)
      BY <1>2, <1>7, <3>1
    <3>3. Salvage(res, p) = SalvageOfLoad(res, p)
      BY <2>1 DEF Salvage, LooksAtPurchases
    <3> HIDE DEF age
    <3>4. SalvageOfLoad(res, p)
            = Share(res.first[p] * Factor(res, b), LeftOf(p, b), res.life[p])
      BY <3>1, <3>2 DEF SalvageOfLoad, age
    <3>5. res.first[p] * Factor(res, b) = Price(res, p, b)
      BY <1>2, <1>8, <2>1 DEF Price, WellMade
    <3> QED BY <3>3, <3>4, <3>5, ShareWon
  <2>2. CASE res.kind = "EV"
    <3> DEFINE install == ((horizon - 1) \div res.life[p]) * res.life[p] + 1
               remaining == res.life[p] - (horizon - install + 1)
    <3>1. install = b /\ remaining = LeftOf(p, b)
      BY <1>2, <1>6, <1>7
    <3>2. Salvage(res, p) = SalvageOfEV(res, p)
      BY <2>2 DEF Salvage, LooksAtPurchases
    <3>3. SalvageOfEV(res, p)
            = IF remaining <= 0 THEN Share(0, 0, res.life[p])
              ELSE Share(IF install = 1 THEN res.first[p] ELSE res.again[p] * Factor(res, install),
                         remaining, res.life[p])
      BY DEF SalvageOfEV
    <3> HIDE DEF install, remaining
    <3>4. CASE remaining <= 0
      <4>1. LeftOf(p, b) = 0 /\ Price(res, p, b) \in Nat
        BY <1>2, <1>7, <3>1, <3>4, PricesAreWon
      <4> QED BY <3>2, <3>3, <3>4, <4>1, ShareWon
    <3>5. CASE ~(remaining <= 0)
      <4>1. SalvageOfEV(res, p) = Share(Price(res, p, b), LeftOf(p, b), res.life[p])
        BY <3>1, <3>3, <3>5 DEF Price
      <4> QED BY <3>2, <4>1, ShareWon
    <3> QED BY <3>4, <3>5
  <2>3. CASE res.kind = "CommonAsset"
    <3> DEFINE installed == 1 + res.life[p] * ((horizon - 1) \div res.life[p])
    <3>1. installed = b
      BY <1>2, <1>6
    <3>2. Salvage(res, p) = SalvageOfCommon(res, p)
      BY <2>3 DEF Salvage, LooksAtPurchases
    <3>3. SalvageOfCommon(res, p)
            = Share(IF installed = 1 THEN res.first[p] ELSE res.again[p],
                    AtLeastZero(res.life[p] - (horizon - installed + 1)), res.life[p])
      BY DEF SalvageOfCommon
    <3> HIDE DEF installed
    <3>4. res.life[p] - (horizon - b + 1) = b + res.life[p] - 1 - horizon
      BY <1>2
    <3>5. AtLeastZero(res.life[p] - (horizon - installed + 1)) = LeftOf(p, b)
      BY <3>1, <3>4 DEF LeftOf
    <3>6. (IF installed = 1 THEN res.first[p] ELSE res.again[p]) = Price(res, p, b)
      BY <1>2, <1>8, <2>3, <3>1 DEF Price, WellMade
    <3> QED BY <3>2, <3>3, <3>5, <3>6, ShareWon
  <2> QED BY <1>2, <2>1, <2>2, <2>3 DEF WellMade
<1> QED BY <1>3, <1>5, <1>9 DEF Right

\* A part that costs nothing the next time: its first unit, while it lasts.
LEMMA FreePartRight ==
  ASSUME SalvageInv, stage = "done", NEW p \in Parts(res), ~LooksAtPurchases(res),
         ~BoughtAgain(res, p)
  PROVE  Right(p)
<1>1. /\ horizon \in Nat \ {0} /\ res.life[p] \in Nat \ {0}
      /\ WellMade(res) /\ FactorLaws(res, horizon)
      /\ res.first[p] \in Nat /\ res.again[p] = 0 /\ res.kind # "EV"
  BY Done DEF BoughtAgain
<1>2. Purchases(res, p) = {1} /\ Units(p) = {1}
  BY DEF SalvageInv, Cycles, Purchases, Units, CountsFirst
<1>3. Greatest(Worth(p)) = Price(res, p, 1) * LeftOf(p, 1)
  BY <1>2, WorthOfLast
<1>4. Price(res, p, 1) = res.first[p]
  BY DEF Price
<1> DEFINE a == horizon - 1
           n == res.life[p]
<1>5. a \in Nat /\ n \in Nat /\ n > 0
  BY <1>1
<1>6. Salvage(res, p).won = res.first[p] * LeftOf(p, 1)
  <2>1. CASE res.kind \in {"Load", "ThermalLoad"}
    <3> DEFINE age == a % n
    <3>1. Salvage(res, p) = Share(res.first[p] * Factor(res, horizon - age), n - age - 1, n)
      BY <2>1 DEF Salvage, LooksAtPurchases, SalvageOfLoad
    <3> HIDE DEF a, n
    <3>2. age \in Nat /\ age <= a
      BY <1>5, Z3
    <3> USE DEF a
    <3>3. Factor(res, horizon - age) \in Nat
      BY <1>1, <3>2 DEF FactorLaws
    <3>4. res.first[p] = 0
      BY <1>1, <2>1 DEF WellMade
    <3>5. LeftOf(p, 1) \in Nat
      BY <1>2, PricesAreWon
    <3> HIDE DEF age
    <3> QED BY <1>5, <3>1, <3>2, <3>3, <3>4, <3>5, ShareWon
  <2>2. CASE res.kind = "CommonAsset"
    <3> DEFINE q == a \div n
               installed == 1 + n * q
    <3>1. Salvage(res, p) = Share(IF installed = 1 THEN res.first[p] ELSE res.again[p],
                                  AtLeastZero(n - (horizon - installed + 1)), n)
      BY <2>2 DEF Salvage, LooksAtPurchases, SalvageOfCommon
    <3>2. CASE a < n
      <4>1. q = 0
        BY <1>5, <3>2, Z3
      <4> HIDE DEF q
      <4>2. installed = 1 /\ n - (horizon - 1 + 1) = 1 + n - 1 - horizon
        BY <1>1, <1>5, <4>1
      <4> HIDE DEF installed
      <4> QED BY <3>1, <4>2, ShareWon DEF LeftOf
    <3>3. CASE ~(a < n)
      <4> HIDE DEF a, n
      <4>1. q >= 1 /\ n * q >= n /\ n * q <= a /\ n * q \in Nat
        BY <1>5, <3>3, Z3
      <4> HIDE DEF q
      <4>2. installed # 1 /\ installed \in Nat
        BY <1>5, <4>1
      <4> HIDE DEF installed
      <4>3. AtLeastZero(n - (horizon - installed + 1)) \in Nat
        BY <1>1, <1>5, <4>2 DEF AtLeastZero
      <4>4. LeftOf(p, 1) = 0
        BY <1>1, <1>5, <3>3 DEF LeftOf, AtLeastZero, a, n
      <4> QED BY <1>1, <3>1, <4>2, <4>3, <4>4, ShareWon
    <3> QED BY <3>2, <3>3
  <2> QED BY <1>1, <2>1, <2>2 DEF WellMade, LooksAtPurchases
<1> QED BY <1>2, <1>3, <1>4, <1>6 DEF Right

(***************************************************************************)
(* What is left of a part at the end of the analysis is what is left of    *)
(* the unit that was paid for, for every life, price and horizon, as long  *)
(* as what retires is a PV, an ESS or a heat pump.  The other classes      *)
(* ignore retirement in salvage_value (lifecycle_retire shows what they    *)
(* answer then), so they are assumed not to retire.                        *)
(***************************************************************************)
THEOREM SalvageIsOfThePaid ==
  ASSUME \A r \in Resources : r.retire => LooksAtPurchases(r)
  PROVE  LifeSpec => []SalvageOfWhatWasBought
<1>1. LifeInit => SalvageInv
  BY SalvageInvInit
<1>2. SalvageInv /\ [LifeNext]_lifeVars => SalvageInv'
  BY NextSalvageInv
<1>3. SalvageInv => SalvageOfWhatWasBought
  <2> SUFFICES ASSUME SalvageInv, stage = "done", NEW p \in Parts(res)
               PROVE  Right(p)
    BY DEF SalvageOfWhatWasBought, Right, Worth
  <2>1. res.retire => LooksAtPurchases(res)
    BY DEF SalvageInv, LifeTypeOK
  <2> QED BY <2>1, PurchasesRight, CyclesRight, FreePartRight
<1> QED BY <1>1, <1>2, <1>3, PTL DEF LifeSpec

\* Years bought lie within the analysis, and every variable keeps its type.
THEOREM LifecycleTypes == LifeSpec => []LifeTypeOK
<1>1. SalvageInv => LifeTypeOK
  BY DEF SalvageInv
<1> QED BY <1>1, SalvageInvInit, NextSalvageInv, PTL DEF LifeSpec

-----------------------------------------------------------------------------
(***************************************************************************)
(* A ledger, for everything a user lays over it.  The invariant follows    *)
(* one run: what it opens is the ledger of that day with the rows of the   *)
(* scenario over it, what it computes with is read from that, and what it  *)
(* has read is settled before the appendix reads every key.                *)
(***************************************************************************)
\* What is laid over the ledger that a run opens, and what the run reads by itself.
Base == Ledgers!LoadFromYaml(given.later)
Opened == Ledgers!ApplyScenarioOverrides(Base, made)
Numbers == Ledgers!Outcome(Opened, given.later)
ReadByRun == (DirectKeys \cap DOMAIN Opened.items) \cup BackedKeys

LedgerInv ==
  running = "ledger" =>
    /\ given \in Settings
    /\ mark = "saved" /\ given.form # None => Ledgers!Resolves(made, Ledgers!LoadFromYaml(given.now).items)
    /\ mark = "refused" => given.form = None \/ given.later # given.now
    /\ mark \in {"opened", "computed", "printed"} /\ made # None => Ledgers!Resolves(made, Base.items)
    /\ mark = "opened" => held = Opened
    /\ mark \in {"computed", "printed"} =>
         Ledgers!LevelsBuild(given.later, Opened.overrides) /\ Ledgers!Scalars(Opened)
    /\ mark = "computed" => held = Ledgers!AfterGet(Opened, DirectKeys) /\ shown = <<Numbers>>
    /\ mark = "printed" =>
         shown = <<Numbers, Ledgers!Appendix(Opened), Ledgers!OverrideRows(Opened, ReadByRun)>>

\* While a ledger is used nothing else moves.
LEMMA LedgerSteps ==
  ASSUME [CalculationsNext]_calculationVars, running = "ledger" \/ running' = "ledger"
  PROVE  running = "ledger" /\ (Ledgers!Next \/ UNCHANGED <<given, made, mark, held, shown>>)
  BY DEF CalculationsNext, calculationVars, ApplyDuty, ShareAssets, ListBenefits, ComposeBounds, OverrideLedger,
         UseSeries, StoreSeries, SpreadShapes, ComposeModel

\* The values and the reasons that rows lay over the items of a ledger.
LaidOn(items, rows) == Ledgers!SetOf(items, Ledgers!ValuesOf(rows), Ledgers!ReasonsOf(rows))

\* Nothing is laid over a ledger before.
LEMMA LaidOver ==
  ASSUME NEW file, NEW rows
  PROVE  Ledgers!WithRows(Ledgers!LoadFromYaml(file), rows) = LaidOn(Ledgers!LoadFromYaml(file).items, rows)
<1> DEFINE p == Ledgers!LoadFromYaml(file)
           v == Ledgers!ValuesOf(rows)
           w == Ledgers!ReasonsOf(rows)
<1>1. p.overrides = <<>> /\ p.reasons = <<>>
  BY DEF Ledgers!LoadFromYaml, Ledgers!SetOf
<1>2. \A f : Ledgers!Over([key \in DOMAIN f |-> f[key]], <<>>) = [key \in DOMAIN f |-> f[key]]
  BY DEF Ledgers!Over
<1>3. v = [key \in DOMAIN v |-> v[key]] /\ w = [key \in DOMAIN w |-> w[key]]
  BY DEF Ledgers!ValuesOf, Ledgers!ReasonsOf
<1>4. Ledgers!Over(v, <<>>) = v /\ Ledgers!Over(w, <<>>) = w
  <2> HIDE DEF v, w
  <2> QED BY <1>2, <1>3
<1>5. Ledgers!WithRows(p, rows) = Ledgers!SetOf(p.items, v, w)
  <2> HIDE DEF p
  <2> QED BY <1>1, <1>4 DEF Ledgers!WithRows, Ledgers!Override, v, w
<1> QED BY <1>5 DEF LaidOn

\* A set of items with what is laid over it.
LEMMA LaidIs ==
  ASSUME NEW items, NEW rows
  PROVE  /\ LaidOn(items, rows).items = items
         /\ LaidOn(items, rows).overrides = Ledgers!ValuesOf(rows)
         /\ LaidOn(items, rows).reasons = Ledgers!ReasonsOf(rows)
         /\ LaidOn(items, rows).read = {}
  BY DEF LaidOn, Ledgers!SetOf

\* ItsRows that name every key once: what is laid over a key is what its row says.
OncePerKey(rows) == \A r, s \in rows : r.key = s.key => r = s
LEMMA RowsSay ==
  ASSUME NEW rows, OncePerKey(rows)
  PROVE  /\ DOMAIN Ledgers!ValuesOf(rows) = {r.key : r \in rows}
         /\ \A r \in rows : Ledgers!ValuesOf(rows)[r.key] = r.value
         /\ DOMAIN Ledgers!ReasonsOf(rows) = {r.key : r \in {x \in rows : x.reason # None}}
         /\ \A r \in rows : IF r.reason # None
                            THEN r.key \in DOMAIN Ledgers!ReasonsOf(rows) /\ Ledgers!ReasonsOf(rows)[r.key] = r.reason
                            ELSE r.key \notin DOMAIN Ledgers!ReasonsOf(rows)
<1>1. /\ DOMAIN Ledgers!ValuesOf(rows) = {r.key : r \in rows}
      /\ DOMAIN Ledgers!ReasonsOf(rows) = {r.key : r \in {x \in rows : x.reason # None}}
  BY DEF Ledgers!ValuesOf, Ledgers!ReasonsOf, Ledgers!Reasoned
<1>2. ASSUME NEW r \in rows
      PROVE  Ledgers!ValuesOf(rows)[r.key] = r.value
  <2>1. (CHOOSE x \in rows : x.key = r.key) = r
    BY DEF OncePerKey
  <2> QED BY <2>1 DEF Ledgers!ValuesOf
<1>3. ASSUME NEW r \in rows, r.reason # None
      PROVE  r.key \in DOMAIN Ledgers!ReasonsOf(rows) /\ Ledgers!ReasonsOf(rows)[r.key] = r.reason
  <2> DEFINE S == Ledgers!Reasoned(rows)
  <2>1. r \in S /\ \A x \in S : x.key = r.key => x = r
    BY <1>3 DEF OncePerKey, Ledgers!Reasoned
  <2>2. (CHOOSE x \in S : x.key = r.key) = r
    <3> HIDE DEF S
    <3> QED BY <2>1
  <2> QED BY <2>1, <2>2 DEF Ledgers!ReasonsOf
<1>4. ASSUME NEW r \in rows, r.reason = None
      PROVE  r.key \notin DOMAIN Ledgers!ReasonsOf(rows)
  BY <1>1, <1>4 DEF OncePerKey
<1> QED BY <1>1, <1>2, <1>3, <1>4

\* ItsRows that a ledger resolves name every key once, and only keys of the ledger.
LEMMA ResolvedRows ==
  ASSUME NEW raw, NEW items, Ledgers!Resolves(raw, items)
  PROVE  LET rows == Ledgers!Range(raw.rows)
         IN  OncePerKey(rows) /\ {r.key : r \in rows} \subseteq DOMAIN items
<1>1. \A r \in Ledgers!Range(raw.rows) : \E n \in DOMAIN raw.rows : r = raw.rows[n]
  BY DEF Ledgers!Range
<1>2. \A n, j \in DOMAIN raw.rows : raw.rows[j].key = raw.rows[n].key => j = n
  BY DEF Ledgers!Resolves
<1>3. \A n \in DOMAIN raw.rows : raw.rows[n].key \in DOMAIN items
  BY DEF Ledgers!Resolves
<1> QED BY <1>1, <1>2, <1>3 DEF OncePerKey

\* What a run opens, for the rows of its scenario.
ItsRows == IF made = None THEN {} ELSE Ledgers!Range(made.rows)
LEMMA OpenedIs ==
  ASSUME made # None => Ledgers!Resolves(made, Base.items)
  PROVE  /\ Opened = LaidOn(Base.items, ItsRows)
         /\ OncePerKey(ItsRows) /\ {r.key : r \in ItsRows} \subseteq DOMAIN Base.items
<1>1. CASE made # None
  <2>1. Opened = Ledgers!WithRows(Base, Ledgers!Range(made.rows))
    BY <1>1 DEF Opened, Ledgers!ApplyScenarioOverrides
  <2> QED BY <1>1, <2>1, LaidOver, ResolvedRows DEF Base, ItsRows
<1>2. CASE made = None
  <2>1. Opened = Base /\ ItsRows = {} /\ OncePerKey(ItsRows)
    BY <1>2 DEF Opened, Ledgers!ApplyScenarioOverrides, ItsRows, OncePerKey
  <2>2. Ledgers!ValuesOf({}) = <<>> /\ Ledgers!ReasonsOf({}) = <<>>
    BY DEF Ledgers!ValuesOf, Ledgers!ReasonsOf, Ledgers!Reasoned
  <2>3. Base = LaidOn(Base.items, {})
    BY <2>2 DEF Base, LaidOn, Ledgers!LoadFromYaml, Ledgers!SetOf
  <2> QED BY <2>1, <2>3
<1> QED BY <1>1, <1>2

\* A key whose last item has levels has the same item on the tracks that are not
\* blocked.
LEMMA LevelsAreOfTheItem ==
  ASSUME NEW file, Ledgers!IsLedgerFile(file), NEW key \in DOMAIN Ledgers!Indexed(file),
         Ledgers!Indexed(file)[key].base # None
  PROVE  /\ key \in DOMAIN Ledgers!LoadFromYaml(file).items
         /\ Ledgers!LoadFromYaml(file).items[key].value.n = Ledgers!Indexed(file)[key].base
<1> DEFINE D == DOMAIN file.items
           T == Ledgers!Tracked(file)
           I == {n \in D : file.items[n].key = key}
           J == {n \in T : file.items[n].key = key}
           m == Ledgers!Max(I)
           item == file.items[m]
<1>1. D = 1 .. Len(file.items) /\ Len(file.items) \in Nat
  BY DEF Ledgers!IsLedgerFile
<1>2. I # {} /\ I \subseteq D
  BY DEF Ledgers!Indexed, Ledgers!ByKey
<1>3. m \in I /\ \A n \in I : m >= n
  <2>1. PICK x \in I : \A n \in I : x >= n
    <3>1. IsFiniteSet(D) /\ \A n \in D : n \in Int
      BY <1>1, FS_Interval
    <3> HIDE DEF I, D
    <3>2. IsFiniteSet(I) /\ \A n \in I : n \in Int
      BY <1>2, <3>1, FS_Subset
    <3> QED BY <1>2, <3>2, FiniteExtremes
  <2>2. m = CHOOSE y \in I : \A n \in I : y >= n
    BY Zenon DEF Ledgers!Max
  <2> HIDE DEF I, m
  <2> QED BY <2>1, <2>2
<1>4. Ledgers!Indexed(file)[key] = item
  BY DEF Ledgers!Indexed, Ledgers!ByKey
<1>5. item \in Ledgers!Range(file.items)
  BY <1>3 DEF Ledgers!Range
<1>6. ~item.blocked /\ item.base = item.value.n
  BY <1>4, <1>5 DEF Ledgers!IsLedgerFile
<1>7. m \in J /\ J \subseteq I
  BY <1>3, <1>6 DEF Ledgers!Tracked
<1>8. Ledgers!Max(J) = m
  <2>1. Ledgers!Max(J) = CHOOSE x \in J : \A n \in J : x >= n
    BY Zenon DEF Ledgers!Max
  <2>2. \A x \in J : x \in Int
    BY <1>1, <1>2, <1>7
  <2> HIDE DEF J, I, m
  <2> QED BY <1>3, <1>7, <2>1, <2>2
<1>9. Ledgers!LoadFromYaml(file).items = Ledgers!ByKey(file, T)
  BY DEF Ledgers!LoadFromYaml, Ledgers!SetOf
<1>10. key \in {file.items[n].key : n \in T}
  BY <1>7
<1>11. Ledgers!ByKey(file, T)[key] = item
  BY <1>8, <1>10 DEF Ledgers!ByKey
<1> QED BY <1>4, <1>6, <1>9, <1>10, <1>11 DEF Ledgers!ByKey

\* What a report lists of what is laid over a set of items: every row once.
KeysOf(rows) == {r.key : r \in rows}
ListsRows(listed, items, rows, read) ==
  /\ DOMAIN listed = KeysOf(rows)
  /\ \A r \in rows : /\ listed[r.key].override = r.value /\ listed[r.key].reason = r.reason
                    /\ listed[r.key].base = items[r.key].value
                    /\ listed[r.key].read = (r.key \in read)
LEMMA RowsAreListed ==
  ASSUME NEW items, NEW rows, OncePerKey(rows), KeysOf(rows) \subseteq DOMAIN items, NEW read
  PROVE  ListsRows(Ledgers!OverrideRows(LaidOn(items, rows), read), items, rows, read)
<1> USE DEF KeysOf
<1> DEFINE p == LaidOn(items, rows)
           listed == Ledgers!OverrideRows(p, read)
           changed == Ledgers!OverriddenItems(p)
<1>1. p.items = items /\ p.overrides = Ledgers!ValuesOf(rows) /\ p.reasons = Ledgers!ReasonsOf(rows)
  BY LaidIs
<1> HIDE DEF p
<1>2. DOMAIN p.overrides = {r.key : r \in rows}
  BY <1>1, RowsSay
<1>3. \A r \in rows : p.overrides[r.key] = r.value
  <2>1. \A r \in rows : Ledgers!ValuesOf(rows)[r.key] = r.value
    BY Zenon, RowsSay
  <2> QED BY <1>1, <2>1
<1>4. \A r \in rows : (IF r.key \in DOMAIN p.reasons THEN p.reasons[r.key] ELSE None) = r.reason
  <2>1. \A r \in rows : IF r.reason # None
                         THEN r.key \in DOMAIN p.reasons /\ p.reasons[r.key] = r.reason
                         ELSE r.key \notin DOMAIN p.reasons
    <3>1. \A r \in rows : IF r.reason # None
                           THEN /\ r.key \in DOMAIN Ledgers!ReasonsOf(rows)
                                /\ Ledgers!ReasonsOf(rows)[r.key] = r.reason
                           ELSE r.key \notin DOMAIN Ledgers!ReasonsOf(rows)
      BY Zenon, RowsSay
    <3> QED BY <1>1, <3>1
  <2> QED BY <2>1
<1>5. DOMAIN changed = {r.key : r \in rows}
  BY <1>1, <1>2 DEF Ledgers!OverriddenItems
<1>6. \A r \in rows : changed[r.key].reason = r.reason
  BY <1>1, <1>2, <1>4 DEF Ledgers!OverriddenItems
<1>7. DOMAIN listed = {r.key : r \in rows}
  BY <1>5 DEF Ledgers!OverrideRows
<1>8. ASSUME NEW r \in rows
      PROVE  /\ listed[r.key].override = r.value /\ listed[r.key].reason = r.reason
             /\ listed[r.key].base = items[r.key].value
             /\ listed[r.key].read = (r.key \in read)
  <2>1. r.key \in DOMAIN changed
    BY <1>5
  <2>2. listed[r.key] = [base |-> p.items[r.key].value, override |-> p.overrides[r.key],
                         reason |-> changed[r.key].reason, read |-> r.key \in read]
    BY <2>1 DEF Ledgers!OverrideRows
  <2> QED BY <1>1, <1>3, <1>6, <2>2
<1> QED BY <1>7, <1>8 DEF p, ListsRows

\* The value of a key is what was laid over it.
LEMMA LaidCounts ==
  ASSUME NEW items, NEW rows, OncePerKey(rows), NEW file, NEW r \in rows,
         r.key \in DirectKeys \cup BackedKeys
  PROVE  Ledgers!Outcome(LaidOn(items, rows), file)[r.key] = r.value.n
<1> DEFINE p == LaidOn(items, rows)
<1>0. p.overrides = Ledgers!ValuesOf(rows)
  BY LaidIs
<1> HIDE DEF p
<1>1. r.key \in DOMAIN p.overrides /\ p.overrides[r.key] = r.value
  <2>1. /\ DOMAIN Ledgers!ValuesOf(rows) = {x.key : x \in rows}
        /\ \A x \in rows : Ledgers!ValuesOf(rows)[x.key] = x.value
    BY Zenon, RowsSay
  <2> QED BY <1>0, <2>1
<1>2. Ledgers!Effective(p, r.key) = r.value /\ Ledgers!Level(file, p.overrides, r.key) = r.value.n
  BY <1>1 DEF Ledgers!Effective, Ledgers!Level
<1> QED BY <1>2 DEF Ledgers!Outcome, p

\* A row of a key that a run reads nowhere can be left out.
LEMMA UnreadCountsNothing ==
  ASSUME NEW items, NEW rows, OncePerKey(rows), NEW file, NEW key, key \notin DirectKeys \cup BackedKeys
  PROVE  LET others == {r \in rows : r.key # key}
         IN  Ledgers!Outcome(LaidOn(items, others), file) = Ledgers!Outcome(LaidOn(items, rows), file)
<1> DEFINE others == {r \in rows : r.key # key}
           p == LaidOn(items, rows)
           q == LaidOn(items, others)
<1>1. OncePerKey(others)
  BY DEF OncePerKey
<1>2. /\ p.items = items /\ q.items = items
      /\ p.overrides = Ledgers!ValuesOf(rows) /\ q.overrides = Ledgers!ValuesOf(others)
  BY LaidIs
<1> HIDE DEF p, q
<1>3. DOMAIN q.overrides = {r.key : r \in others} /\ DOMAIN p.overrides = {r.key : r \in rows}
  BY <1>1, <1>2, RowsSay
<1>4. /\ \A r \in others : q.overrides[r.key] = r.value
      /\ \A r \in rows : p.overrides[r.key] = r.value
  <2>1. \A r \in rows : Ledgers!ValuesOf(rows)[r.key] = r.value
    BY Zenon, RowsSay
  <2>2. \A r \in others : Ledgers!ValuesOf(others)[r.key] = r.value
    <3> HIDE DEF others
    <3> QED BY Zenon, <1>1, RowsSay
  <2> QED BY <1>2, <2>1, <2>2
<1>5. ASSUME NEW j, j # key
      PROVE  /\ (j \in DOMAIN p.overrides) = (j \in DOMAIN q.overrides)
             /\ j \in DOMAIN p.overrides => p.overrides[j] = q.overrides[j]
  <2>1. CASE \E r \in rows : r.key = j
    <3>1. PICK r \in rows : r.key = j
      BY <2>1
    <3>2. r \in others
      BY <1>5, <3>1
    <3> HIDE DEF others
    <3> QED BY <1>3, <1>4, <3>1, <3>2
  <2>2. CASE ~\E r \in rows : r.key = j
    BY <1>3, <2>2
  <2> QED BY <2>1, <2>2
<1> HIDE DEF others
<1>6. ASSUME NEW j \in DirectKeys \cup BackedKeys
      PROVE  /\ Ledgers!Effective(p, j) = Ledgers!Effective(q, j)
             /\ Ledgers!Level(file, p.overrides, j) = Ledgers!Level(file, q.overrides, j)
  BY <1>2, <1>5 DEF Ledgers!Effective, Ledgers!Level
<1>7. Ledgers!Outcome(q, file) = Ledgers!Outcome(p, file)
  BY <1>6 DEF Ledgers!Outcome
<1> QED BY <1>7 DEF p, q, others

\* Without a row, a run that can be computed reads what the items say.
LEMMA ItemsCount ==
  ASSUME NEW file, Ledgers!IsLedgerFile(file), NEW overrides,
         Ledgers!LevelsBuild(file, overrides), NEW key \in BackedKeys
  PROVE  /\ key \in DOMAIN Ledgers!LoadFromYaml(file).items
         /\ Ledgers!Indexed(file)[key].base = Ledgers!LoadFromYaml(file).items[key].value.n
  BY LevelsAreOfTheItem DEF Ledgers!LevelsBuild

\* What a run computed with is what its appendix shows.
LEMMA AppendixShowsNumbers ==
  ASSUME NEW file, Ledgers!IsLedgerFile(file), NEW rows, OncePerKey(rows),
         {r.key : r \in rows} \subseteq DOMAIN Ledgers!LoadFromYaml(file).items,
         NEW p, p = LaidOn(Ledgers!LoadFromYaml(file).items, rows),
         Ledgers!LevelsBuild(file, p.overrides), Ledgers!Scalars(p),
         NEW key \in DirectKeys \cup BackedKeys
  PROVE  Ledgers!Appendix(p)[key].n = Ledgers!Outcome(p, file)[key]
<1>1. p.items = Ledgers!LoadFromYaml(file).items /\ p.overrides = Ledgers!ValuesOf(rows)
  BY LaidIs
<1>2. DOMAIN p.overrides \subseteq DOMAIN p.items
  <2>1. DOMAIN p.overrides = {r.key : r \in rows}
    BY <1>1, RowsSay
  <2> QED BY <1>1, <2>1
<1>3. CASE key \in DirectKeys
  <2>1. key \in DOMAIN p.items
    BY <1>3 DEF Ledgers!Scalars
  <2> QED BY <1>3, <2>1 DEF Ledgers!Appendix, Ledgers!Outcome
<1>4. CASE key \notin DirectKeys
  <2>1. key \in DOMAIN p.items /\ Ledgers!Indexed(file)[key].base = p.items[key].value.n
    BY <1>1, <1>4, ItemsCount
  <2>2. Ledgers!Level(file, p.overrides, key) = Ledgers!Effective(p, key).n
    BY <2>1 DEF Ledgers!Level, Ledgers!Effective
  <2> QED BY <1>4, <2>1, <2>2 DEF Ledgers!Appendix, Ledgers!Outcome
<1> QED BY <1>3, <1>4

\* Two ledgers that agree in every item give a run that lays nothing over them the
\* same numbers.
LEMMA SameItemsSameNumbers ==
  ASSUME NEW f, NEW g, Ledgers!IsLedgerFile(f), Ledgers!IsLedgerFile(g), NEW over,
         Ledgers!LevelsBuild(f, over), Ledgers!LevelsBuild(g, <<>>), Ledgers!Scalars(Ledgers!LoadFromYaml(g)),
         Ledgers!Diff(Ledgers!LoadFromYaml(f), Ledgers!LoadFromYaml(g)) = [added |-> {}, gone |-> {}, changed |-> {}]
  PROVE  Ledgers!Outcome(Ledgers!LoadFromYaml(f), f) = Ledgers!Outcome(Ledgers!LoadFromYaml(g), g)
<1> DEFINE p == Ledgers!LoadFromYaml(f)
           q == Ledgers!LoadFromYaml(g)
<1>1. p.overrides = <<>> /\ q.overrides = <<>>
  BY DEF Ledgers!LoadFromYaml, Ledgers!SetOf
<1>2. \A key \in BackedKeys : /\ key \in DOMAIN p.items /\ Ledgers!Indexed(f)[key].base = p.items[key].value.n
                            /\ key \in DOMAIN q.items /\ Ledgers!Indexed(g)[key].base = q.items[key].value.n
  <2> HIDE DEF p, q
  <2> QED BY ItemsCount DEF p, q
<1>3. Ledgers!Diff(p, q).added = {} /\ Ledgers!Diff(p, q).gone = {} /\ Ledgers!Diff(p, q).changed = {}
  OBVIOUS
<1>4. Ledgers!Scalars(q)
  OBVIOUS
<1> HIDE DEF p, q
<1>5. DOMAIN p.items = DOMAIN q.items
  BY <1>3 DEF Ledgers!Diff
<1>6. \A key \in DOMAIN p.items : p.items[key].value = q.items[key].value
  BY <1>3, <1>5 DEF Ledgers!Diff
<1>7. DirectKeys \subseteq DOMAIN q.items
  BY <1>4 DEF Ledgers!Scalars
<1>8. ASSUME NEW key \in DirectKeys
      PROVE  Ledgers!Effective(p, key) = Ledgers!Effective(q, key)
  BY <1>1, <1>5, <1>6, <1>7 DEF Ledgers!Effective
<1>9. ASSUME NEW key \in BackedKeys
      PROVE  Ledgers!Level(f, p.overrides, key) = Ledgers!Level(g, q.overrides, key)
  BY <1>1, <1>2, <1>6 DEF Ledgers!Level
<1>10. Ledgers!Outcome(p, f) = Ledgers!Outcome(q, g)
  BY <1>8, <1>9 DEF Ledgers!Outcome
<1> QED BY <1>10 DEF p, q

\* While nobody has computed anything, there is nothing to show.
LEMMA LedgerStarts == CalculationsInit => LedgerInv
<1> SUFFICES ASSUME CalculationsInit, running = "ledger" PROVE LedgerInv
  BY DEF LedgerInv
<1>1. Ledgers!Init
  BY DEF CalculationsInit, RegulationInit, CommuneInit, BenefitsInit, BoundsInit, LedgerInit,
         SeriesInit, FilesInit, ShapesInit, ComposerInit
<1> QED BY <1>1 DEF Ledgers!Init, LedgerInv

\* What is saved can be opened under the ledger it was saved under.
LEMMA SaveKeeps ==
  ASSUME LedgerInv, running = "ledger", running' = "ledger", Ledgers!Save
  PROVE  LedgerInv'
<1>1. given' = given /\ mark' \in {"saved", "rejected"} /\ given \in Settings
  BY DEF Ledgers!Save, LedgerInv
<1>2. ASSUME mark' = "saved", given.form # None
      PROVE  Ledgers!Resolves(made', Ledgers!LoadFromYaml(given.now).items)
  BY <1>2 DEF Ledgers!Save
<1> QED BY <1>1, <1>2 DEF LedgerInv

LEMMA OpenKeeps ==
  ASSUME LedgerInv, running = "ledger", running' = "ledger", Ledgers!Open
  PROVE  LedgerInv'
<1>1. given' = given /\ made' = made /\ mark' \in {"failed", "refused", "opened"} /\ given \in Settings /\ mark = "saved"
  BY DEF Ledgers!Open, LedgerInv
<1>2. Base' = Base
  BY <1>1 DEF Base
<1>3. ASSUME mark' = "opened"
      PROVE  held' = Opened' /\ (made # None => Ledgers!Resolves(made, Base.items))
  BY <1>1, <1>3 DEF Ledgers!Open, Opened, Base
<1>4. ASSUME mark' = "refused", given.form # None
      PROVE  given.later # given.now
  <2>1. ~Ledgers!Resolves(made, Ledgers!LoadFromYaml(given.later).items)
    BY <1>4 DEF Ledgers!Open
  <2>2. Ledgers!Resolves(made, Ledgers!LoadFromYaml(given.now).items)
    BY <1>1, <1>4 DEF LedgerInv
  <2> QED BY <2>1, <2>2
<1> QED BY <1>1, <1>2, <1>3, <1>4 DEF LedgerInv

LEMMA ComputeKeeps ==
  ASSUME LedgerInv, running = "ledger", running' = "ledger", Ledgers!Compute
  PROVE  LedgerInv'
<1>1. /\ given' = given /\ made' = made /\ mark' \in {"failed", "computed"} /\ given \in Settings
      /\ held = Opened /\ (made # None => Ledgers!Resolves(made, Base.items))
  BY DEF Ledgers!Compute, LedgerInv
<1>2. Base' = Base /\ Opened' = Opened /\ Numbers' = Numbers
  BY <1>1 DEF Base, Opened, Numbers
<1>3. ASSUME mark' = "computed"
      PROVE  /\ Ledgers!LevelsBuild(given.later, Opened.overrides) /\ Ledgers!Scalars(Opened)
             /\ held' = Ledgers!AfterGet(Opened, DirectKeys) /\ shown' = <<Numbers>>
  BY <1>1, <1>3 DEF Ledgers!Compute, Numbers
<1> QED BY <1>1, <1>2, <1>3 DEF LedgerInv

\* What was read is settled before the appendix reads every key.
LEMMA ReportKeeps ==
  ASSUME LedgerInv, running = "ledger", running' = "ledger", Ledgers!Report
  PROVE  LedgerInv'
<1>1. /\ given' = given /\ made' = made /\ mark' = "printed" /\ given \in Settings
      /\ held = Ledgers!AfterGet(Opened, DirectKeys) /\ shown = <<Numbers>>
      /\ (made # None => Ledgers!Resolves(made, Base.items))
      /\ Ledgers!LevelsBuild(given.later, Opened.overrides) /\ Ledgers!Scalars(Opened)
  BY DEF Ledgers!Report, LedgerInv
<1>2. Base' = Base /\ Opened' = Opened /\ Numbers' = Numbers /\ ReadByRun' = ReadByRun
  BY <1>1 DEF Base, Opened, Numbers, ReadByRun
<1>3. Opened = LaidOn(Base.items, ItsRows)
  BY <1>1, OpenedIs
<1>4. /\ held.items = Opened.items /\ held.overrides = Opened.overrides
      /\ held.reasons = Opened.reasons /\ Ledgers!ReadKeys(held) = ReadByRun
  <2>1. Opened.read = {}
    BY <1>3, LaidIs
  <2>2. Opened = [items |-> Opened.items, overrides |-> Opened.overrides, reasons |-> Opened.reasons, read |-> {}]
    BY <1>3 DEF LaidOn, Ledgers!SetOf
  <2> DEFINE o == Opened
             n == Opened.items
             v == Opened.overrides
             w == Opened.reasons
  <2>3. o = [items |-> n, overrides |-> v, reasons |-> w, read |-> {}] /\ held = Ledgers!AfterGet(o, DirectKeys)
    BY <1>1, <2>2
  <2> HIDE DEF o, n, v, w
  <2>4. held.items = n /\ held.overrides = v /\ held.reasons = w /\ held.read = DirectKeys \cap DOMAIN n
    BY <2>3 DEF Ledgers!AfterGet
  <2> QED BY <2>4 DEF o, n, v, w, Ledgers!ReadKeys, ReadByRun
<1>5. Ledgers!Appendix(held) = Ledgers!Appendix(Opened)
  BY <1>4 DEF Ledgers!Appendix, Ledgers!Effective
<1>6. Ledgers!OverrideRows(held, ReadByRun) = Ledgers!OverrideRows(Opened, ReadByRun)
  BY <1>4 DEF Ledgers!OverrideRows, Ledgers!OverriddenItems
<1>7. shown' = <<Numbers, Ledgers!Appendix(Opened), Ledgers!OverrideRows(Opened, ReadByRun)>>
  <2>1. shown' = shown \o <<Ledgers!Appendix(held), Ledgers!OverrideRows(held, Ledgers!ReadKeys(held))>>
    BY DEF Ledgers!Report
  <2>2. shown' = shown \o <<Ledgers!Appendix(Opened), Ledgers!OverrideRows(Opened, ReadByRun)>>
    BY <1>4, <1>5, <1>6, <2>1
  <2> DEFINE a == Numbers
             b == Ledgers!Appendix(Opened)
             c == Ledgers!OverrideRows(Opened, ReadByRun)
  <2>3. shown' = <<a>> \o <<b, c>>
    BY <1>1, <2>2
  <2> HIDE DEF a, b, c
  <2>4. <<a>> \o <<b, c>> = <<a, b, c>>
    <3>1. <<a>> \in Seq({a, b, c}) /\ <<b, c>> \in Seq({a, b, c})
      OBVIOUS
    <3> DEFINE s == <<a>> \o <<b, c>>
    <3>2. s \in Seq({a, b, c}) /\ Len(s) = 3
      BY <3>1
    <3>3. s[1] = a /\ s[2] = b /\ s[3] = c
      BY <3>1
    <3> HIDE DEF s
    <3>4. s = <<a, b, c>>
      BY <3>2, <3>3
    <3> QED BY <3>4 DEF s
  <2> QED BY <2>3, <2>4 DEF a, b, c
<1> QED BY <1>1, <1>2, <1>7 DEF LedgerInv

LEMMA LedgerKeeps == LedgerInv /\ [CalculationsNext]_calculationVars => LedgerInv'
<1> SUFFICES ASSUME LedgerInv, [CalculationsNext]_calculationVars, running' = "ledger"
             PROVE  LedgerInv'
  BY DEF LedgerInv
<1>1. running = "ledger" /\ (Ledgers!Next \/ UNCHANGED <<given, made, mark, held, shown>>)
  BY LedgerSteps
<1>2. CASE UNCHANGED <<given, made, mark, held, shown>>
  BY <1>1, <1>2 DEF LedgerInv, Base, Opened, Numbers, ReadByRun
<1>3. CASE Ledgers!Next
  BY <1>1, <1>3, SaveKeeps, OpenKeeps, ComputeKeeps, ReportKeeps DEF Ledgers!Next
<1> QED BY <1>1, <1>2, <1>3

\* What the invariant says of a report that was printed.
LEMMA LedgerSuffices == LedgerInv => ChangesAreThoseUsed
<1> SUFFICES ASSUME LedgerInv, running = "ledger" PROVE Ledgers!ChangesAreThoseUsed
  BY DEF ChangesAreThoseUsed
<1>1. given \in Settings /\ Ledgers!IsLedgerFile(given.now) /\ Ledgers!IsLedgerFile(given.later)
  BY SettingsAssumption DEF LedgerInv
<1>2. mark = "refused" => given.form = None \/ given.later # given.now
  BY DEF LedgerInv
<1>3. ASSUME mark = "printed"
      PROVE  /\ Ledgers!ListedOnce /\ Ledgers!UnreadIsUnused /\ Ledgers!ReadIsUsed
             /\ \A key \in DOMAIN shown[1] : shown[2][key].n = shown[1][key]
             /\ Ledgers!SilentChanges
  <2> DEFINE p == Opened
             listed == Ledgers!OverrideRows(p, ReadByRun)
             items == Base.items
  <2>1. /\ made # None => Ledgers!Resolves(made, Base.items)
        /\ Ledgers!LevelsBuild(given.later, p.overrides) /\ Ledgers!Scalars(p)
        /\ shown = <<Numbers, Ledgers!Appendix(p), listed>>
    BY <1>3 DEF LedgerInv
  <2>2. p = LaidOn(items, ItsRows) /\ OncePerKey(ItsRows) /\ {r.key : r \in ItsRows} \subseteq DOMAIN items
    BY <2>1, OpenedIs
  <2>3. shown[1] = Numbers /\ shown[2] = Ledgers!Appendix(p) /\ shown[3] = listed
    BY <2>1
  <2>4. ItsRows = Ledgers!RowsOfScenario
    BY DEF ItsRows, Ledgers!RowsOfScenario
  <2>5. Numbers = Ledgers!Outcome(p, given.later) /\ DOMAIN Numbers = DirectKeys \cup BackedKeys
    BY DEF Numbers, Ledgers!Outcome
  <2>6. items = Ledgers!LoadFromYaml(given.later).items /\ p.items = items
    BY <2>2, LaidIs DEF Base
  <2>7. ListsRows(listed, items, ItsRows, ReadByRun)
    <3>1. KeysOf(ItsRows) \subseteq DOMAIN items
      BY <2>2 DEF KeysOf
    <3>2. ListsRows(Ledgers!OverrideRows(LaidOn(items, ItsRows), ReadByRun), items, ItsRows, ReadByRun)
      <4> HIDE DEF items
      <4> QED BY <2>2, <3>1, RowsAreListed
    <3> QED BY <2>2, <3>2
  <2> HIDE DEF p, listed, items
  <2>8. Ledgers!ListedOnce
    BY <2>3, <2>4, <2>6, <2>7 DEF Ledgers!ListedOnce, ListsRows, KeysOf
  <2>9. Ledgers!UnreadIsUnused
    <3> SUFFICES ASSUME NEW key \in DOMAIN listed, ~listed[key].read
                 PROVE  LET others == {r \in ItsRows : r.key # key}
                        IN  Ledgers!Outcome(Ledgers!WithRows(Ledgers!LoadFromYaml(given.later), others), given.later)
                              = Numbers
      BY <2>3, <2>4 DEF Ledgers!UnreadIsUnused
    <3>1. key \in DOMAIN items /\ key \notin ReadByRun
      BY <2>2, <2>7 DEF ListsRows, KeysOf
    <3>2. key \notin DirectKeys \cup BackedKeys
      BY <2>6, <3>1 DEF ReadByRun, p
    <3> DEFINE others == {r \in ItsRows : r.key # key}
    <3>3. Ledgers!WithRows(Ledgers!LoadFromYaml(given.later), others) = LaidOn(items, others)
      <4> HIDE DEF others
      <4> QED BY <2>6, LaidOver
    <3>4. Ledgers!Outcome(LaidOn(items, others), given.later) = Ledgers!Outcome(LaidOn(items, ItsRows), given.later)
      BY <2>2, <3>2, UnreadCountsNothing
    <3> HIDE DEF others
    <3>5. Ledgers!Outcome(Ledgers!WithRows(Ledgers!LoadFromYaml(given.later), others), given.later) = Numbers
      BY <2>2, <2>5, <3>3, <3>4
    <3> QED BY <3>5 DEF others
  <2>10. Ledgers!ReadIsUsed
    <3> SUFFICES ASSUME NEW key \in DOMAIN listed, listed[key].read
                 PROVE  key \in DOMAIN Numbers /\ Numbers[key] = listed[key].override.n
      BY <2>3 DEF Ledgers!ReadIsUsed
    <3>1. PICK r \in ItsRows : r.key = key
      BY <2>7 DEF ListsRows, KeysOf
    <3>2. key \in DirectKeys \cup BackedKeys /\ listed[key].override = r.value
      BY <2>7, <3>1 DEF ReadByRun, ListsRows
    <3>3. Ledgers!Outcome(LaidOn(items, ItsRows), given.later)[r.key] = r.value.n
      BY <2>2, <3>1, <3>2, LaidCounts
    <3> QED BY <2>2, <2>5, <3>1, <3>2, <3>3
  <2>11. ASSUME NEW key \in DOMAIN Numbers PROVE Ledgers!Appendix(p)[key].n = Numbers[key]
    BY <1>1, <2>1, <2>2, <2>5, <2>6, AppendixShowsNumbers
  <2>12. Ledgers!SilentChanges
    BY <1>1, <2>1, SameItemsSameNumbers DEF Ledgers!SilentChanges
  <2> QED BY <2>3, <2>8, <2>9, <2>10, <2>11, <2>12
<1> QED BY <1>2, <1>3 DEF Ledgers!ChangesAreThoseUsed

\* What a report lists as changed is what changed its result, for every ledger and
\* everything a user lays over it.
THEOREM ChangesStayThoseUsed == CalculationsSpec => []ChangesAreThoseUsed
<1>1. CalculationsInit => LedgerInv
  BY LedgerStarts
<1>2. LedgerInv /\ [CalculationsNext]_calculationVars => LedgerInv'
  BY LedgerKeeps
<1>3. LedgerInv => ChangesAreThoseUsed
  BY LedgerSuffices
<1> QED BY <1>1, <1>2, <1>3, PTL DEF CalculationsSpec
=============================================================================
