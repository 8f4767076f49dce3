-------------------------- MODULE RegulationRules --------------------------
(***************************************************************************)
(* What is computed from a regulation profile: the item of a key on a day, *)
(* the list of items and the differences a change of profile would make    *)
(* (core/regulation/profile.py), and what a community owes under the duty  *)
(* to supply itself (core/regulation/compliance.py).                       *)
(*                                                                         *)
(* An entry is a key, a value, and the first and last day it is valid,     *)
(* None where that is open.  Ratios are in hundredths, rates in tenths of  *)
(* a won, energy is counted such that ratios of it are whole.              *)
(***************************************************************************)
EXTENDS Integers, Sequences, SequencesExt, FiniteSetsExt

CONSTANTS
  Profiles,     \* pairs of sequences of entries: the current and the proposed one
  Communities,  \* consumption, procurement in the zone, import, year of operation
  RuleDays,     \* days the profile is asked about
  None

VARIABLES
  given,  \* the two profiles, a community, a day
  at,     \* "asked", "previewed", "assessed", "failed"
  made    \* differences, then what is owed as well

ruleVars == <<given, at, made>>

\* Values are numbers or missing, so is the first and the last day of an entry.
IsProfile(p) ==
  p \in Seq([key : STRING, value : Int \cup {None}, from : Nat \cup {None}, to : Nat \cup {None}])
IsCommunity(c) ==
  c \in [consumed : Int, procured : Int, supplied : Int, imported : Int, year : Int]

who == given.community
Less(a, b) == IF a < b THEN a ELSE b
More(a, b) == IF a < b THEN b ELSE a
TenthsToWon(n) == (n + 5) \div 10

(***************************************************************************)
(* The entry of a key: among those valid on the day the one valid from the *)
(* latest day, the first of several.                                       *)
(***************************************************************************)
AppliesOn(e, day) == (e.from = None \/ e.from <= day) /\ (e.to = None \/ day <= e.to)
From(e) == IF e.from = None THEN 0 ELSE e.from
Candidates(p, key, day) == {i \in DOMAIN p : p[i].key = key /\ AppliesOn(p[i], day)}
Has(p, key, day) == Candidates(p, key, day) # {}
Get(p, key, day) ==
  p[CHOOSE i \in Candidates(p, key, day) :
      \A j \in Candidates(p, key, day) : From(p[j]) < From(p[i]) \/ (From(p[j]) = From(p[i]) /\ i <= j)]

\* items: one pass over the entries; a later one replaces what is selected only
\* if it is valid from a later day.
Later(e, f) == From(e) > From(f)
\* Variant: of two entries the last one listed is selected.
SelectLast(selected, e) ==
  [k \in DOMAIN selected \cup {e.key} |-> IF k = e.key THEN e ELSE selected[k]]
Select(selected, e) ==
  IF e.key \in DOMAIN selected /\ ~Later(e, selected[e.key]) THEN selected
  ELSE [k \in DOMAIN selected \cup {e.key} |-> IF k = e.key THEN e ELSE selected[k]]
Items(p, day) ==
  FoldLeft(LAMBDA selected, e : IF AppliesOn(e, day) THEN Select(selected, e) ELSE selected, [k \in {} |-> None], p)

\* diff_profiles and the relative change of the highlights, a fraction.
Numeric(v) == v # None
ItemOf(items, k) == IF k \in DOMAIN items THEN items[k] ELSE None
Kind(before, after) ==
  CASE before = None -> "added" [] after = None -> "removed" [] OTHER -> "modified"
Relative(before, after) ==
  IF before = None \/ after = None THEN None
  ELSE IF ~Numeric(before.value) \/ ~Numeric(after.value) \/ before.value = 0 THEN None
  ELSE [num |-> after.value - before.value, den |-> before.value]
Differences ==
  LET left == Items(given.current, given.day)
      right == Items(given.proposed, given.day)
      keys == {k \in DOMAIN left \cup DOMAIN right : ItemOf(left, k) # ItemOf(right, k)}
  IN  [k \in keys |-> [kind |-> Kind(ItemOf(left, k), ItemOf(right, k)),
                       change |-> Relative(ItemOf(left, k), ItemOf(right, k))]]

(***************************************************************************)
(* The duty to supply a share of the consumption from within the zone.     *)
(***************************************************************************)
Number(p, k) == Get(p, k, given.day).value
Numbered(p, k) == Has(p, k, given.day) /\ Numeric(Number(p, k))
Ratio(p, k) == Numbered(p, k) /\ Number(p, k) \in 0 .. 100
Required(p) == (who.consumed * Number(p, "required")) \div 100
External == More(who.consumed - who.procured, 0)
AllowedExternal(p) == who.consumed - Required(p)
ExcessExternal(p) == More(External - AllowedExternal(p), 0)
Shortfall(p) == More(Required(p) - who.procured, 0)
Exempt(p) == who.year <= Number(p, "exemption")
Assessable(p) ==
  /\ who.consumed > 0 /\ who.procured >= 0 /\ who.year >= 1
  /\ Ratio(p, "required") /\ Numbered(p, "exemption")
  /\ ~Exempt(p) => Numbered(p, "allowed") /\ Numbered(p, "excess")
NoCharge == [allowed |-> 0, excess |-> 0]
Duty(p) ==
  [short |-> Shortfall(p), over |-> ExcessExternal(p), exempt |-> Exempt(p),
   warning |-> ~Exempt(p) /\ ExcessExternal(p) > 0,
   charge |-> IF Exempt(p) THEN NoCharge
              ELSE [allowed |-> TenthsToWon(Less(External, AllowedExternal(p)) * Number(p, "allowed")),
                    excess |-> TenthsToWon(ExcessExternal(p) * Number(p, "excess"))]]
Alert(d) == [triggered |-> d.warning, short |-> d.short, cost |-> d.charge.excess]

\* assess_self_sufficiency, in hundredths of the consumption, on either basis.
Sufficiency(basis) ==
  IF basis = "self_supply" THEN 100 * who.supplied ELSE 100 * (who.consumed - who.imported)
Insufficient(p, basis) == Sufficiency(basis) < Number(p, "sufficient") * who.consumed

-----------------------------------------------------------------------------
Init ==
  /\ given \in {[current |-> p[1], proposed |-> p[2], community |-> c, day |-> d] :
                  p \in Profiles, c \in Communities, d \in RuleDays}
  /\ at = "asked" /\ made = <<>>

\* preview_profile_switch
Preview ==
  /\ at = "asked"
  /\ made' = <<Differences>> /\ at' = "previewed"
  /\ UNCHANGED given

\* assess_supply_duty and assess_self_sufficiency, under either profile
Assess ==
  /\ at = "previewed"
  /\ IF \A p \in {given.current, given.proposed} : Assessable(p) /\ Ratio(p, "sufficient")
     THEN /\ made' = Append(made, [p \in {given.current, given.proposed} |-> Duty(p)])
          /\ at' = "assessed"
     ELSE at' = "failed" /\ UNCHANGED made
  /\ UNCHANGED given

Next == Preview \/ Assess

-----------------------------------------------------------------------------
(***************************************************************************)
(* The list of a profile, the preview of a change and the calculation see  *)
(* the same items: what is listed for a day is what is looked up that day, *)
(* whatever the order of the entries and with periods that overlap; and a  *)
(* change the preview does not name changes nothing that is owed.  What is *)
(* owed is owed for what is missing: the energy charged as excess is the   *)
(* shortfall, what is charged adds up to what came from outside, an exempt *)
(* community is charged and warned of nothing, and on both bases a         *)
(* community that supplies or buys everything it consumes is judged alike  *)
(* (items, get, diff_profiles, assess_supply_duty, supply_duty_alert,      *)
(* assess_self_sufficiency).                                               *)
(***************************************************************************)
Looks == {"required", "exemption", "allowed", "excess", "sufficient"}
ListedAsLookedUp(p) ==
  /\ DOMAIN Items(p, given.day) = {k \in {e.key : e \in ToSet(p)} : Has(p, k, given.day)}
  /\ \A k \in DOMAIN Items(p, given.day) : Items(p, given.day)[k] = Get(p, k, given.day)
ChargedForMissing(p, d) ==
  /\ d.over = d.short
  /\ Less(External, AllowedExternal(p)) + d.over = External
  /\ d.exempt => d.charge = NoCharge /\ ~Alert(d).triggered /\ Alert(d).cost = 0
  /\ Alert(d).cost > 0 => Alert(d).triggered
  /\ ~d.exempt => (Alert(d).triggered <=> who.procured < Required(p))
  /\ who.supplied + who.imported = who.consumed => (Insufficient(p, "self_supply") <=> Insufficient(p, "grid_burden"))
DutyFollowsProfile ==
  at \in {"previewed", "assessed", "failed"} =>
    /\ ListedAsLookedUp(given.current) /\ ListedAsLookedUp(given.proposed)
    /\ at = "assessed" =>
         LET before == made[2][given.current]
             after == made[2][given.proposed]
         IN  /\ ChargedForMissing(given.current, before) /\ ChargedForMissing(given.proposed, after)
             /\ before # after => DOMAIN made[1] \cap (Looks \ {"sufficient"}) # {}
             /\ \A k \in DOMAIN made[1] : made[1][k].change # None /\ made[1][k].change.num = 0
                                          => Get(given.current, k, given.day).value = Get(given.proposed, k, given.day).value
=============================================================================
