--------------------------- MODULE TimeSeriesData ---------------------------
(***************************************************************************)
(* A time series from its upload to its use (core/assumption/timeseries,   *)
(* timeseries_validation, timeseries_estimate and timeseries_registry): an *)
(* upload is checked and its gaps are filled one after the other, from     *)
(* values that may have been filled themselves; the series is registered   *)
(* under an id, which scenarios share.                                     *)
(*                                                                         *)
(* Values are such multiples that what is computed is whole.               *)
(***************************************************************************)
EXTENDS Integers, Sequences, SequencesExt, FiniteSetsExt, Functions

CONSTANTS
  Uploads,    \* file, columns, values with gaps, policy, window; or a year of months
  Ids,        \* of data sets
  Users,      \* scenarios that share them, or instances that use one
  Months,     \* days of the months
  DayHours,   \* hours of a day
  None

VARIABLES
  given,    \* the upload
  at,       \* "sent", "filling", "filled", "refused"
  made,     \* the values
  library   \* data sets, who refers to them, what an instance uses; what a scenario saw

seriesVars == <<given, at, made, library>>

Sum(s) == SumFunction(s)
Present(s) == {i \in DOMAIN s : s[i] # None}
Gaps(s) == DOMAIN s \ Present(s)

(***************************************************************************)
(* What is uploaded: between two neighbouring values of a series that is   *)
(* interpolated, and in every hour of an estimate, numbers are whole.      *)
(***************************************************************************)
Neighbours(s, i, j) == i \in Present(s) /\ j \in Present(s) /\ i < j /\ \A k \in i + 1 .. j - 1 : s[k] = None
IsUpload(u) ==
  \/ /\ u.kind = "csv" /\ u.values \in Seq(Int \cup {None}) /\ u.window \in Int \cup {None}
     /\ u.policy = "interpolate" =>
          \A i, j \in DOMAIN u.values : Neighbours(u.values, i, j) => (u.values[j] - u.values[i]) % (j - i) = 0
  \/ /\ u.kind = "monthly" /\ u.months \in Seq(Int) /\ u.weights \in Seq(Int)
     /\ \A m \in DOMAIN u.months \cap DOMAIN Months, h \in DOMAIN u.weights :
          (u.months[m] * u.weights[h]) % (10 * Months[m]) = 0

(***************************************************************************)
(* validate_csv_upload and the schema.                                     *)
(***************************************************************************)
Uploadable == given.mime = "csv" /\ given.size <= given.limits.size /\ given.lines <= given.limits.lines
SchemaFits == given.columns = "timestamp, value" /\ Len(given.values) = given.rows
Acceptable ==
  /\ Uploadable /\ SchemaFits
  /\ given.policy = "error" => Gaps(given.values) = {}
  /\ given.policy = "interpolate" /\ Gaps(given.values) # {} => Present(given.values) # {}
  /\ given.policy = "prior_month_mean" => given.window # None /\ given.window > 0
  /\ given.policy \in {"error", "interpolate", "prior_month_mean"}

(***************************************************************************)
(* The value of a gap: between the nearest values on both sides, that of   *)
(* one side at an end; or the mean of the values in the window before it.  *)
(***************************************************************************)
Left(s, i) == {j \in Present(s) : j < i}
Right(s, i) == {j \in Present(s) : j > i}
Interpolated(s, i) ==
  IF Left(s, i) = {} THEN s[Min(Right(s, i))]
  ELSE IF Right(s, i) = {} THEN s[Max(Left(s, i))]
  ELSE LET l == Max(Left(s, i))
           r == Min(Right(s, i))
       IN  s[l] + ((s[r] - s[l]) * (i - l)) \div (r - l)
Window(s, i) == {j \in Left(s, i) : j >= i - given.window}
PriorMean(s, i) ==
  IF Window(s, i) = {} THEN 0
  ELSE SumFunctionOnSet(s, Window(s, i)) \div Cardinality(Window(s, i))
FillGap(s, i) == IF given.policy = "interpolate" THEN Interpolated(s, i) ELSE PriorMean(s, i)

\* estimate_from_monthly_usage: every day of a month alike, by the weights of the day.
WeightsWhole == Len(given.months) = Len(Months) /\ Len(given.weights) = DayHours /\ Sum(given.weights) = 10
DayOf(m) == [h \in 1 .. DayHours |-> (given.months[m] * given.weights[h]) \div (10 * Months[m])]
Hourly == FlattenSeq([m \in DOMAIN Months |-> FlattenSeq([d \in 1 .. Months[m] |-> DayOf(m)])])
-----------------------------------------------------------------------------
Init ==
  /\ given \in Uploads
  /\ at = "sent" /\ made = <<>>
  /\ library = [sets |-> <<>>, refs |-> [d \in Ids |-> {}], uses |-> [u \in Users |-> None],
                saw |-> [d \in Ids |-> [u \in Users |-> None]]]

Validate ==
  /\ at = "sent" /\ given.kind = "csv"
  /\ IF Acceptable THEN made' = given.values /\ at' = "filling" ELSE at' = "refused" /\ UNCHANGED made
  /\ UNCHANGED <<given, library>>

\* _apply_missing_policy: from the first gap to the last.
Fill ==
  /\ at = "filling"
  /\ IF Gaps(made) = {} THEN at' = "filled" /\ UNCHANGED made
     ELSE made' = [made EXCEPT ![Min(Gaps(made))] = FillGap(made, Min(Gaps(made)))] /\ UNCHANGED at
  /\ UNCHANGED <<given, library>>

Estimate ==
  /\ at = "sent" /\ given.kind = "monthly"
  /\ IF WeightsWhole THEN made' = Hourly /\ at' = "filled" ELSE at' = "refused" /\ UNCHANGED made
  /\ UNCHANGED <<given, library>>

Registered == DOMAIN library.sets
\* Variant: what is registered again replaces what was there.
RegisterAnew(d, data) ==
  library' = [library EXCEPT !.sets = [e \in Registered \cup {d} |-> IF e = d THEN data ELSE @[e]]]
Register(d, data) ==
  library' = [library EXCEPT !.sets = IF d \in Registered THEN @
                                      ELSE [e \in Registered \cup {d} |-> IF e = d THEN data ELSE @[e]]]
Bind(d, u) ==
  /\ d \in Registered
  /\ library' = [library EXCEPT !.refs[d] = @ \cup {u},
                                !.saw[d][u] = IF u \in library.refs[d] THEN @ ELSE library.sets[d]]
Unbind(d, u) == library' = [library EXCEPT !.refs[d] = @ \ {u}, !.saw[d][u] = None]
Delete(d) ==
  /\ library.refs[d] = {}
  /\ library' = [library EXCEPT !.sets = [e \in Registered \ {d} |-> @[e]]]
\* TimeSeriesBinding: an instance holds the data set itself.
Swap(u, d) == d \in Registered /\ library' = [library EXCEPT !.uses[u] = library.sets[d]]

Share ==
  /\ at = "filled" /\ given.shared
  /\ \E d \in Ids :
       \/ \E data \in {made, SubSeq(made, 1, 1)} : Register(d, data)
       \/ \E u \in Users : Bind(d, u) \/ Unbind(d, u) \/ Swap(u, d)
       \/ Delete(d)
  /\ UNCHANGED <<given, at, made>>

Next == Validate \/ Fill \/ Estimate \/ Share

-----------------------------------------------------------------------------
(***************************************************************************)
(* What was measured stays as it was, and what is filled in follows from   *)
(* it alone: a gap that is interpolated lies on the line between the       *)
(* measured values around it although its neighbours were filled before    *)
(* it, at an end it is the nearest of them, and a mean of the window never *)
(* leaves their range (a gap with nothing before it in its window is 0).   *)
(* A year estimated from its months has their sums.  A data set a scenario *)
(* refers to is there and is the one it referred to first, whoever         *)
(* registers, unbinds or deletes in between (_apply_missing_policy,        *)
(* estimate_from_monthly_usage, TimeSeriesDatasetRegistry).                *)
(***************************************************************************)
OnTheLine(i) ==
  LET l == Left(given.values, i)
      r == Right(given.values, i)
  IN  IF l = {} THEN made[i] = given.values[Min(r)]
      ELSE IF r = {} THEN made[i] = given.values[Max(l)]
      ELSE (made[i] - given.values[Max(l)]) * (Min(r) - Max(l))
             = (given.values[Min(r)] - given.values[Max(l)]) * (i - Max(l))
InRange(i) ==
  LET before == {0} \cup {given.values[j] : j \in Left(given.values, i)}
  IN  Min(before) <= made[i] /\ made[i] <= Max(before)
FilledFromMeasured ==
  given.kind = "csv" =>
    /\ Len(made) = given.rows
    /\ \A i \in Present(given.values) : made[i] = given.values[i]
    /\ \A i \in Gaps(given.values) : IF given.policy = "interpolate" THEN OnTheLine(i) ELSE InRange(i)
MonthsKept ==
  given.kind = "monthly" =>
    \A m \in DOMAIN Months :
      LET from == DayHours * Sum(SubSeq(Months, 1, m - 1))
      IN  Sum(SubSeq(made, from + 1, from + DayHours * Months[m])) = given.months[m]
ReferredIsKept ==
  \A d \in Ids : \A u \in library.refs[d] : d \in Registered /\ library.sets[d] = library.saw[d][u]
SeriesAreKept == at = "filled" => FilledFromMeasured /\ MonthsKept /\ ReferredIsKept
=============================================================================
