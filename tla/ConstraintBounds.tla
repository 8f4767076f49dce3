-------------------------- MODULE ConstraintBounds --------------------------
(***************************************************************************)
(* What benefits demand of resources (core/constraint/registry.py): the    *)
(* bounds that were declared for one target are composed to the tightest   *)
(* of every step, with those who set it, and where the lower exceeds the   *)
(* upper a conflict is reported.                                           *)
(***************************************************************************)
EXTENDS Integers, Sequences, SequencesExt, FiniteSets

CONSTANTS
  DeclarationLists,  \* sequences of declarations: source, target, kind, values by step
  Unbounded,         \* infinite values: no bound in that step
  None

VARIABLES
  given,  \* the declarations, as they were registered
  at,     \* "given", "refused" or "composed"
  made    \* the conflicts

boundVars == <<given, at, made>>

Targets == {given[d].target : d \in DOMAIN given}
Declarations == [source : STRING, target : STRING, kind : {"min", "max"}, values : Seq(Int)]
Against(d, target, kind) == d.target = target /\ d.kind = kind
\* _step_count: all series of one target have one length.
Lengths(target) == {Len(d.values) : d \in {e \in Range(given) : e.target = target}}
OneLength == \A t \in Targets : Cardinality(Lengths(t)) = 1
StepCount(target) == CHOOSE n \in Lengths(target) : TRUE

(***************************************************************************)
(* One declaration after the other, of those for the target: a tighter     *)
(* bound displaces the one it finds, an equal one joins it, an infinite    *)
(* one is none.                                                            *)
(***************************************************************************)
Free == [value |-> None, by |-> <<>>]
Tighter(kind, v, w) == IF kind = "min" THEN v > w ELSE v < w
Tighten(bound, decl, step) ==
  LET v == decl.values[step] IN
  IF v \in Unbounded THEN bound
  ELSE IF bound.value = None THEN [value |-> v, by |-> <<decl.source>>]
  ELSE IF Tighter(decl.kind, v, bound.value) THEN [value |-> v, by |-> <<decl.source>>]
  ELSE IF v = bound.value THEN [bound EXCEPT !.by = Append(bound.by, decl.source)]
  ELSE bound
Bound(decls, target, kind, step) ==
  FoldLeft(LAMBDA b, d : IF Against(d, target, kind) THEN Tighten(b, d, step) ELSE b, Free, decls)

ConflictAt(target, step) ==
  [target |-> target, step |-> step,
   min |-> Bound(given, target, "min", step), max |-> Bound(given, target, "max", step)]
DetectConflicts ==
  {c \in UNION {{ConflictAt(t, i) : i \in 1 .. StepCount(t)} : t \in Targets} :
     c.min.value # None /\ c.max.value # None /\ c.min.value > c.max.value}

-----------------------------------------------------------------------------
Init == given \in DeclarationLists /\ at = "given" /\ made = {}
RefuseLengths == at = "given" /\ ~OneLength /\ at' = "refused" /\ UNCHANGED <<given, made>>
Compose == at = "given" /\ OneLength /\ made' = DetectConflicts /\ at' = "composed" /\ UNCHANGED given
Next == RefuseLengths \/ Compose

-----------------------------------------------------------------------------
(***************************************************************************)
(* A conflict is reported for the steps in which no value meets all that   *)
(* is demanded, and for no other, in whatever order the demands came; it   *)
(* names on each side all those, and only those, whom nobody else on that  *)
(* side surpasses (compose, detect_conflicts).                             *)
(***************************************************************************)
Demands(target, kind, step) ==
  {[source |-> d.source, value |-> d.values[step]] :
     d \in {e \in Range(given) : Against(e, target, kind) /\ e.values[step] \notin Unbounded}}
Met(v, target, step) ==
  /\ \A d \in Demands(target, "min", step) : v >= d.value
  /\ \A d \in Demands(target, "max", step) : v <= d.value
Impossible(target, step) ==
  ~\E v \in {d.value : d \in Demands(target, "min", step) \cup Demands(target, "max", step)} \cup {0} :
     Met(v, target, step)
Named(by, kind, demands) ==
  Range(by) = {d.source : d \in {e \in demands : \A f \in demands : ~Tighter(kind, f.value, e.value)}}
ConflictsAreReal ==
  at = "composed" =>
    /\ {<<c.target, c.step>> : c \in made}
         = UNION {{<<t, i>> : i \in {j \in 1 .. StepCount(t) : Impossible(t, j)}} : t \in Targets}
    /\ \A c \in made : \A kind \in {"min", "max"} :
         Named(c[kind].by, kind, Demands(c.target, kind, c.step))
=============================================================================
