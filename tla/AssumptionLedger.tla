-------------------------- MODULE AssumptionLedger --------------------------
(***************************************************************************)
(* The ledger of assumptions and what a user lays over it                  *)
(* (core/assumption/provider.py, core/assumption/scenario_overrides.py,    *)
(* core/contracts/assumptions.py, core/casegrid/ledger_levels.py): the     *)
(* settings form is saved under the ledger of that day and run under that  *)
(* of another (app/routers/ui_scenarios.py, app/services/ui_run.py); the   *)
(* report lists what was changed and whether this run read it              *)
(* (core/report/case_report.py).                                           *)
(*                                                                         *)
(* A value is [kind, n] with n in tenths; the n of a text names the text.  *)
(* The JSON and YAML a setting travels through keep the kind and the       *)
(* number of a scalar.                                                     *)
(***************************************************************************)
EXTENDS Integers, Sequences, SequencesExt, FiniteSetsExt, Functions

CONSTANTS
  Settings,  \* ledger when the form is sent, ledger when it is run, what was submitted
  Direct,    \* keys a run reads from the provider
  Backed,    \* keys a run reads as levels of a case variable
  HorizonKey,    \* the key of the horizon, one of Direct
  None

VARIABLES
  given,     \* the ledgers and the submission
  at,        \* "sent", "saved", "rejected", "opened", "refused", "failed", "computed", "printed"
  made,      \* the rows that were saved
  provider,  \* the assumption set of the run: items, overrides, reasons, keys read
  printed    \* numbers the run used, then rows of the report

ledgerVars == <<given, at, made, provider, printed>>

(***************************************************************************)
(* Loading.  A file has the basis of its prices and a sequence of items;   *)
(* what is blocked is skipped, of two items with one key the last counts,  *)
(* a unit must not name a basis and a source needs its terms of use.       *)
(***************************************************************************)
BasisDeclaredOnce(items) == \A k \in DOMAIN items : items[k].unit # "basis"
Cited(item) == item.source # "without terms"
Tracked(file) == {i \in DOMAIN file.items : ~file.items[i].blocked}
ByKey(file, those) ==
  [k \in {file.items[i].key : i \in those} |->
     file.items[Max({i \in those : file.items[i].key = k})]]
Loads(file) ==
  /\ file.basis \in {"real", "nominal"}
  /\ \A i \in Tracked(file) : Cited(file.items[i])
  /\ BasisDeclaredOnce(ByKey(file, Tracked(file)))
\* A file that passes the repository's check: what is blocked has no levels, and
\* the base of the levels is the value (scripts/check_assumptions.py).
IsLedgerFile(file) ==
  /\ file.items \in Seq(Range(file.items))
  /\ \A item \in Range(file.items) : item.base # None => ~item.blocked /\ item.base = item.value.n
SetOf(items, overrides, reasons) ==
  [items |-> items, overrides |-> overrides, reasons |-> reasons, read |-> {}]
LoadFromYaml(file) == SetOf(ByKey(file, Tracked(file)), <<>>, <<>>)

Effective(p, key) == IF key \in DOMAIN p.overrides THEN p.overrides[key] ELSE p.items[key].value
\* get: what is found is remembered as read.
AfterGet(p, keys) == [p EXCEPT !.read = @ \cup (keys \cap DOMAIN p.items)]
Over(new, old) == [k \in DOMAIN new \cup DOMAIN old |-> IF k \in DOMAIN new THEN new[k] ELSE old[k]]
\* override: a new set, which has read nothing.
Override(p, overrides, reasons) == SetOf(p.items, Over(overrides, p.overrides), Over(reasons, p.reasons))
OverriddenItems(p) ==
  [k \in DOMAIN p.overrides \cap DOMAIN p.items |->
     [base |-> p.items[k].value, override |-> p.overrides[k],
      reason |-> IF k \in DOMAIN p.reasons THEN p.reasons[k] ELSE None]]
Diff(p, q) ==
  [added |-> DOMAIN p.items \ DOMAIN q.items, gone |-> DOMAIN q.items \ DOMAIN p.items,
   changed |-> {k \in DOMAIN p.items \cap DOMAIN q.items : p.items[k].value # q.items[k].value}]

(***************************************************************************)
(* The rows of a scenario: each names a key of the ledger once, with a     *)
(* value of the kind the ledger has.                                       *)
(***************************************************************************)
Kind(v) == IF v.kind \in {"int", "float"} THEN "number" ELSE v.kind
RowReadable(row) ==
  /\ row.field \in {"known"} /\ row.key # None
  /\ row.value # None /\ Kind(row.value) \in {"number", "text"}
  /\ row.reason # "no text"
KindKept(row, items) == Kind(row.value) = Kind(items[row.key].value)
Resolves(raw, items) ==
  /\ raw.shape = "list"
  /\ \A i \in DOMAIN raw.rows :
       /\ RowReadable(raw.rows[i])
       /\ \A j \in DOMAIN raw.rows : raw.rows[j].key = raw.rows[i].key => j = i
       /\ raw.rows[i].key \in DOMAIN items
       /\ KindKept(raw.rows[i], items)
ValuesOf(rows) == [k \in {r.key : r \in rows} |-> (CHOOSE r \in rows : r.key = k).value]
Reasoned(rows) == {r \in rows : r.reason # None}
ReasonsOf(rows) ==
  [k \in {r.key : r \in Reasoned(rows)} |-> (CHOOSE r \in Reasoned(rows) : r.key = k).reason]
WithRows(p, rows) == Override(p, ValuesOf(rows), ReasonsOf(rows))
ApplyScenarioOverrides(p, raw) == IF raw = None THEN p ELSE WithRows(p, Range(raw.rows))

(***************************************************************************)
(* The form: a cell that is empty leaves the ledger's value; what is typed *)
(* is read as the ledger has it, and a key nobody knows stays a text.      *)
(***************************************************************************)
Readable(cell, items, key) ==
  \/ key \notin DOMAIN items
  \/ items[key].value.kind = "text"
  \/ items[key].value.kind = "int" /\ cell.as = "int"
  \/ items[key].value.kind = "float" /\ cell.as \in {"int", "float"}
ValueOf(cell, items, key) ==
  [kind |-> IF key \in DOMAIN items THEN items[key].value.kind ELSE "text", n |-> cell.n]
Filled(mine) == {k \in DOMAIN mine : mine[k].as # "empty"}
RowOf(form, items, key) ==
  [field |-> "known", key |-> key, value |-> ValueOf(form.mine[key], items, key),
   reason |-> IF key \in DOMAIN form.reasons THEN form.reasons[key] ELSE None]
SubmittedRows(form, items) ==
  LET ordered == SetToSeq(Filled(form.mine) \cap DOMAIN items) \o SetToSeq(Filled(form.mine) \ DOMAIN items)
  IN  [shape |-> "list", rows |-> [i \in DOMAIN ordered |-> RowOf(form, items, ordered[i])]]

(***************************************************************************)
(* A run.  Case variables take their base from the file, from its last     *)
(* item of the key whatever its track, or from the override.               *)
(***************************************************************************)
Indexed(file) == ByKey(file, DOMAIN file.items)
LevelsBuild(file, overrides) ==
  \A k \in Backed : /\ k \in DOMAIN Indexed(file) /\ Indexed(file)[k].base # None
                    /\ k \in DOMAIN overrides => Kind(overrides[k]) = "number"
Level(file, overrides, k) == IF k \in DOMAIN overrides THEN overrides[k].n ELSE Indexed(file)[k].base
AnalysisYears(p) == Effective(p, HorizonKey).n
YearsValid(p) == Effective(p, HorizonKey).kind # "text" /\ AnalysisYears(p) % 10 = 0 /\ AnalysisYears(p) >= 10
Scalars(p) == \A k \in Direct : k \in DOMAIN p.items /\ Kind(Effective(p, k)) = "number"
Outcome(p, file) ==
  [k \in Direct \cup Backed |-> IF k \in Direct THEN Effective(p, k).n ELSE Level(file, p.overrides, k)]
ReadKeys(p) == p.read \cup Backed
OverrideRows(p, read) ==
  [k \in DOMAIN OverriddenItems(p) |->
     [base |-> p.items[k].value, override |-> p.overrides[k],
      reason |-> OverriddenItems(p)[k].reason, read |-> k \in read]]
Appendix(p) == [k \in DOMAIN p.items |-> Effective(p, k)]
-----------------------------------------------------------------------------
Init ==
  /\ given \in Settings
  /\ at = "sent" /\ made = None
  /\ provider = SetOf(<<>>, <<>>, <<>>) /\ printed = <<>>

\* save_settings_form, or a definition written through the API, which is kept as it is
Save ==
  /\ at = "sent" /\ Loads(given.now)
  /\ LET items == LoadFromYaml(given.now).items
         rows == IF given.form = None THEN given.written ELSE SubmittedRows(given.form, items)
     IN  IF given.form = None
            \/ /\ \A k \in Filled(given.form.mine) : Readable(given.form.mine[k], items, k)
               /\ Resolves(rows, items)
         THEN made' = rows /\ at' = "saved"
         ELSE at' = "rejected" /\ UNCHANGED made
  /\ UNCHANGED <<given, provider, printed>>

\* build_case_report: the ledger of now, and the scenario over it
Open ==
  /\ at = "saved"
  /\ IF ~Loads(given.later) THEN at' = "failed" /\ UNCHANGED provider
     ELSE LET p == LoadFromYaml(given.later)
          IN  IF made # None /\ ~Resolves(made, p.items) THEN at' = "refused" /\ UNCHANGED provider
              ELSE provider' = ApplyScenarioOverrides(p, made) /\ at' = "opened"
  /\ UNCHANGED <<given, made, printed>>

Compute ==
  /\ at = "opened"
  /\ IF LevelsBuild(given.later, provider.overrides) /\ Scalars(provider) /\ YearsValid(provider)
     THEN /\ provider' = AfterGet(provider, Direct)
          /\ printed' = <<Outcome(provider, given.later)>> /\ at' = "computed"
     ELSE at' = "failed" /\ UNCHANGED <<provider, printed>>
  /\ UNCHANGED <<given, made>>

\* Variant: the keys that were read are settled after the appendix.
ReportLate ==
  /\ at = "computed"
  /\ provider' = AfterGet(provider, DOMAIN provider.items)
  /\ printed' = printed \o <<Appendix(provider), OverrideRows(provider', ReadKeys(provider'))>>
  /\ at' = "printed"
  /\ UNCHANGED <<given, made>>

\* The keys that were read are settled before the appendix reads every key.
Report ==
  /\ at = "computed"
  /\ LET read == ReadKeys(provider)
     IN  printed' = printed \o <<Appendix(provider), OverrideRows(provider, read)>>
  /\ provider' = AfterGet(provider, DOMAIN provider.items)
  /\ at' = "printed"
  /\ UNCHANGED <<given, made>>

Next == Save \/ Open \/ Compute \/ Report

-----------------------------------------------------------------------------
(***************************************************************************)
(* What a report lists as changed is what changed the result.  Every       *)
(* override of the scenario is listed once, with the value it had in the   *)
(* ledger of the run and the reason written for it; one that is marked as  *)
(* not read could be left out and the run would compute the same; and      *)
(* every number the run computed with is the one its appendix shows, also  *)
(* where it came from the levels of a case variable and not from the       *)
(* provider.  A form that was saved runs unless the ledger has changed     *)
(* since; and a change of the ledger that the comparison of the two does   *)
(* not name changes no number of an unedited run (overridden_items,        *)
(* keys_read, build_level_map, _appendix, save_settings_form, diff).       *)
(***************************************************************************)
RowsOfScenario == IF made = None THEN {} ELSE Range(made.rows)
ListedOnce ==
  LET rows == printed[3]
  IN  /\ DOMAIN rows = {r.key : r \in RowsOfScenario}
      /\ \A r \in RowsOfScenario :
           /\ rows[r.key].override = r.value /\ rows[r.key].reason = r.reason
           /\ rows[r.key].base = LoadFromYaml(given.later).items[r.key].value
UnreadIsUnused ==
  \A k \in DOMAIN printed[3] : ~printed[3][k].read =>
    LET others == {r \in RowsOfScenario : r.key # k}
    IN  Outcome(WithRows(LoadFromYaml(given.later), others), given.later) = printed[1]
ReadIsUsed ==
  \A k \in DOMAIN printed[3] : printed[3][k].read =>
    k \in DOMAIN printed[1] /\ printed[1][k] = printed[3][k].override.n
SilentChanges ==
  LET now == LoadFromYaml(given.now)
      later == LoadFromYaml(given.later)
  IN  Diff(later, now) = [added |-> {}, gone |-> {}, changed |-> {}] /\ LevelsBuild(given.now, <<>>) /\ Scalars(now) =>
        Outcome(later, given.later) = Outcome(now, given.now)
ChangesAreThoseUsed ==
  /\ at = "printed" =>
       /\ ListedOnce /\ UnreadIsUnused /\ ReadIsUsed
       /\ \A k \in DOMAIN printed[1] : printed[2][k].n = printed[1][k]
       /\ SilentChanges
  /\ at = "refused" => given.form = None \/ given.later # given.now
=============================================================================
