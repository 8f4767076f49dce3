--------------------------- MODULE BenefitReport ---------------------------
(***************************************************************************)
(* The table of benefits of a report (core/valuestream/report.py): the     *)
(* exclusion table is loaded and cut to the institutional profile, streams *)
(* that exclude each other are refused, and every stream gets a line in    *)
(* one of four columns.                                                    *)
(***************************************************************************)
EXTENDS ValueStreams

CONSTANT Tables  \* what a report is made from, see Init

VARIABLES
  given,   \* the table, the profile, the streams and what is fed in
  report,  \* the lines of every column, stream numbers in their order
  mark     \* where the report is

reportVars == <<given, report, mark>>

Columns == {"accounted", "excluded", "increment_only", "unmonetized_zero"}
Rules == RulesForProfile(given.rules, given.profile)

\* A table to read, and streams in their order.
IsTable(t) == t.streams \in Seq(ValueStream)

Init ==
  /\ given \in Tables
  /\ report = [c \in Columns |-> <<>>]
  /\ mark = "load"

\* load_exclusion_rules, assert_activation_allowed, assert_no_exclusions.
Load ==
  /\ mark = "load"
  /\ mark' = IF Loadable(given.rules) /\ NoExclusions(given.streams, Rules) THEN "lines" ELSE "refused"
  /\ UNCHANGED <<given, report>>

Written == SumFunction([c \in Columns |-> Len(report[c])])

\* build_report takes the streams in their order.
AddLine ==
  /\ mark = "lines"
  /\ IF Written < Len(given.streams)
     THEN LET i == Written + 1
          IN  /\ report' = [report EXCEPT ![ColumnOf(given.streams[i], given.streams, Rules, given.exported)] =
                              Append(@, i)]
              /\ UNCHANGED mark
     ELSE mark' = "done" /\ UNCHANGED report
  /\ UNCHANGED given

Next == Load \/ AddLine

Value(i) == AnnualValue(given.streams[i], given.exported)
TotalAccounted == FoldLeft(LAMBDA x, i : x + Value(i), 0, report.accounted)

-----------------------------------------------------------------------------
TypeOK ==
  /\ mark \in {"load", "lines", "done", "refused"}
  /\ \A c \in Columns : ToSet(report[c]) \subseteq DOMAIN given.streams

(***************************************************************************)
(* Nothing is counted twice: whatever the order of the table and of the    *)
(* streams, two lines that are accounted are not a pair of the table that  *)
(* is set aside, and what is only an increment is not accounted next to    *)
(* what it is an increment of; and every stream has one line               *)
(* (collect_exclusions, assert_no_exclusions, build_report).               *)
(***************************************************************************)
NothingCountedTwice ==
  mark = "done" =>
    /\ Written = Len(given.streams)
    /\ \A r \in ToSet(given.rules), i \in ToSet(report.accounted), j \in DOMAIN given.streams :
         LET s == given.streams[i]
             t == given.streams[j]
             conflict ==
               /\ r.profile \in {None, given.profile}
               /\ r.structure = None \/ \E k \in DOMAIN given.streams :
                    given.streams[k].enabled /\ given.streams[k].structure = r.structure
               /\ s.enabled /\ t.enabled
               /\ r.type \in {"A", "E"} => s.quantity = None \/ t.quantity = None \/ s.quantity = t.quantity
         IN  /\ conflict /\ r.type # "B" /\ {r.a, r.b} = {s.tag, t.tag} => j \notin ToSet(report.accounted)
             /\ conflict /\ r.type = "B" => ~(s.tag = r.a /\ t.tag = r.b)
=============================================================================
