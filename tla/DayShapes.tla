------------------------------ MODULE DayShapes ------------------------------
(***************************************************************************)
(* The shapes of a day: weights of the hours, all year round or season by  *)
(* season, and the total of a year spread over its days                    *)
(* (src/core/casegrid/profiles.py). Shares are in tenths, energies in      *)
(* units of one kWh by Grain that every quotient below divides.            *)
(***************************************************************************)
EXTENDS Integers, FiniteSets, SequencesExt

CONSTANTS
  ShapeFiles,  \* pairs of shapes as they are written, a total, the days of the year
  Tenths,      \* a share of everything
  Grain,       \* parts of a kWh times share: divided by days times weights
  None         \* not given

VARIABLES given, made, at

shapeVars == <<given, made, at>>

Total(s) == SumFunction(s)

-----------------------------------------------------------------------------
\* Weights that can be normalised: some, none below zero, not all zero.
Normalisable(w) == w # <<>> /\ (\A j \in DOMAIN w : w[j] >= 0) /\ Total(w) > 0

\* A shape is written with weights or with seasons, not with both.
BySeason(item) ==
  IF item.seasons = None
  THEN <<[name |-> "year round", days |-> None, share |-> Tenths, weights |-> item.weights]>>
  ELSE item.seasons
Written(item) ==
  /\ item # None /\ (item.seasons = None) # (item.weights = None)
  /\ \A s \in Range(BySeason(item)) : Normalisable(s.weights)

\* Seasons have equally many steps, days if there are several, and shares of
\* nothing or more that are everything together.
Consistent(seasons) ==
  /\ Cardinality({Len(s.weights) : s \in Range(seasons)}) = 1
  /\ Len(seasons) > 1 => \A s \in Range(seasons) : s.days # None
  /\ \A s \in Range(seasons) : s.days # None => s.days > 0
  /\ \A s \in Range(seasons) : s.share >= 0
  /\ Total([p \in DOMAIN seasons |-> seasons[p].share]) = Tenths

Steps(seasons) == Len(seasons[1].weights)
CalendarOf(seasons) == [p \in DOMAIN seasons |-> <<seasons[p].name, seasons[p].days>>]
Agree(load, generation) == Steps(load) = Steps(generation) /\ CalendarOf(load) = CalendarOf(generation)

LoadsTogether(file) ==
  /\ Written(file.load) /\ Written(file.generation)
  /\ Consistent(BySeason(file.load)) /\ Consistent(BySeason(file.generation))
  /\ Agree(BySeason(file.load), BySeason(file.generation))

-----------------------------------------------------------------------------
\* What one step of a day of a season gets, if the season's share is spread over so
\* many days.
PerStep(total, s, days, j) == (total * s.share * Grain * s.weights[j]) \div (days * Total(s.weights))

\* A file has numbers where numbers are asked for, in units that its quotients leave
\* no rest of.
NoRest(s, total, days) ==
  \A j \in DOMAIN s.weights : (total * s.share * Grain * s.weights[j]) % (days * Total(s.weights)) = 0
IsSeason(s, total, days) ==
  /\ s.weights \in Seq(Int) /\ s.share \in Int /\ NoRest(s, total, days)
  /\ s.days # None => s.days \in Int /\ (s.days > 0 => NoRest(s, total, s.days))
IsShapeFile(file) ==
  /\ file.total \in Int /\ file.days \in Nat \ {0}
  /\ \A item \in {file.load, file.generation} : Written(item) =>
       /\ BySeason(item) \in Seq(Range(BySeason(item)))
       /\ \A s \in Range(BySeason(item)) : IsSeason(s, file.total, file.days)

\* The days of every season; one season without days has all of them.
CalendarDays(seasons, days) ==
  IF Len(seasons) = 1 /\ seasons[1].days = None THEN <<days>>
  ELSE LET assigned == [p \in DOMAIN seasons |-> seasons[p].days]
       IN  IF Total(assigned) = days THEN assigned ELSE None

RepresentativeDay(seasons, total, days) ==
  [j \in 1 .. Steps(seasons) |-> Total([p \in DOMAIN seasons |-> PerStep(total, seasons[p], days, j)])]
SpreadOverRepresentativeDay(seasons, total, days) ==
  FlattenSeq([d \in 1 .. days |-> RepresentativeDay(seasons, total, days)])

SeasonSpread(s, total, days) ==
  FlattenSeq([d \in 1 .. days |-> [j \in DOMAIN s.weights |-> PerStep(total, s, days, j)]])
\* Variant: the share of a season is spread as if it were a share of every day.
SpreadEvenly(seasons, total, days) ==
  LET calendar == CalendarDays(seasons, days)
  IN  IF calendar = None THEN None
      ELSE FlattenSeq([p \in DOMAIN seasons |->
             FlattenSeq([d \in 1 .. calendar[p] |->
               [j \in DOMAIN seasons[p].weights |-> PerStep(total, seasons[p], days, j)]])])
Spread(seasons, total, days) ==
  LET calendar == CalendarDays(seasons, days)
  IN  IF calendar = None THEN None
      ELSE FlattenSeq([p \in DOMAIN seasons |-> SeasonSpread(seasons[p], total, calendar[p])])
SpreadOf(seasons, total, days) ==
  [seasons |-> seasons, day |-> RepresentativeDay(seasons, total, days),
   repeated |-> SpreadOverRepresentativeDay(seasons, total, days), year |-> Spread(seasons, total, days)]

-----------------------------------------------------------------------------
Init == given \in ShapeFiles /\ made = <<>> /\ at = "file"

RefuseShapes ==
  /\ at = "file" /\ ~LoadsTogether(given)
  /\ at' = "refused" /\ UNCHANGED <<given, made>>

LoadDailyShapes ==
  /\ at = "file" /\ LoadsTogether(given)
  /\ made' = [load |-> BySeason(given.load), generation |-> BySeason(given.generation)]
  /\ at' = "shapes" /\ UNCHANGED given

SpreadTotals ==
  /\ at = "shapes"
  /\ made' = [w \in {"load", "generation"} |-> SpreadOf(made[w], given.total, given.days)]
  /\ at' = "spread" /\ UNCHANGED given

Next == RefuseShapes \/ LoadDailyShapes \/ SpreadTotals

-----------------------------------------------------------------------------
\* What one step of the day gets over the whole year.
AtStep(s, steps, j) == Total([d \in 1 .. Len(s) \div steps |-> s[(d - 1) * steps + j]])
HasShare(m, p, total, days) ==
  LET calendar == CalendarDays(m.seasons, days)
      before == Steps(m.seasons) * Total(SubSeq(calendar, 1, p - 1))
  IN  Total(SubSeq(m.year, before + 1, before + Steps(m.seasons) * calendar[p])) = total * m.seasons[p].share * Grain
Kept(m, total, days) ==
  LET steps == Steps(m.seasons) whole == total * Tenths * Grain
  IN  /\ Total(m.repeated) = whole
      /\ m.year # None =>
           /\ Total(m.year) = whole /\ Len(m.year) = Len(m.repeated)
           /\ \A j \in 1 .. steps : AtStep(m.year, steps, j) = AtStep(m.repeated, steps, j)
           /\ \A p \in DOMAIN m.seasons : HasShare(m, p, total, days)

\* Both ways to spread a total over a year keep it, step of the day by step of the
\* day, whatever the seasons; a season gets its share; and what load and
\* generation get in one place of the year is of one step and one season
\* (spread, spread_over_representative_day, load_daily_shapes).
TotalsAreKept ==
  at = "spread" =>
    /\ (made["load"].year = None) = (made["generation"].year = None)
    /\ made["load"].year # None => Len(made["load"].year) = Len(made["generation"].year)
    /\ \A w \in {"load", "generation"} : Kept(made[w], given.total, given.days)
=============================================================================
