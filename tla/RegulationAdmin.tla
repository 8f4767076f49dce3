-------------------------- MODULE RegulationAdmin --------------------------
(***************************************************************************)
(* Administration of regulation profiles (app/routers/regulation.py,       *)
(* app/services/regulation_admin.py, core/regulation/profile.py).  One     *)
(* service object holds, per name, the current profile and its history;    *)
(* handlers run in a pool of threads and take no lock, so that others run  *)
(* between any two reads and writes of the two dictionaries.               *)
(*                                                                         *)
(* An item is a key, the year it is valid from and a value; a profile      *)
(* holds a set of them (their order only decides between items of one key  *)
(* and one year).                                                          *)
(***************************************************************************)
EXTENDS Integers, Sequences, SequencesExt

CONSTANTS
  Handlers,   \* threads of the pool
  Names,      \* of profiles
  Versions,   \* versions, chosen by the callers
  Items,      \* [key, from, value]
  MaxCalls    \* bound on the number of requests

VARIABLES
  profiles,   \* name to current profile
  histories,  \* name to the sequence of its profiles
  at,         \* where the handler of each thread is
  asks,       \* its request, until it has a draft
  draft,      \* the profile it publishes
  past,       \* the history it read
  calls,      \* requests made
  published,  \* history: per name, the profiles that became current, in order
  raced       \* history: names of which two handlers published at a time

vars == <<profiles, histories, at, asks, draft, past, calls, published, raced>>

Profile == [name : Names, version : Versions, entries : SUBSET Items]
NoProfile == [name |-> "", version |-> "", entries |-> {}]
AnyItem == CHOOSE i \in Items : TRUE
Asks ==
  [op : {"create"}, source : {""}, name : Names, version : Versions, item : {AnyItem}, admin : BOOLEAN]
    \cup [op : {"clone"}, source : Names, name : Names, version : Versions, item : {AnyItem}, admin : {TRUE}]
    \cup [op : {"upsert"}, source : {""}, name : Names, version : Versions, item : Items, admin : {TRUE}]

AnyAsk == CHOOSE a \in Asks : TRUE

Init ==
  /\ profiles = [n \in Names |-> NoProfile]
  /\ histories = [n \in Names |-> <<>>]
  /\ at = [h \in Handlers |-> "idle"]
  /\ asks = [h \in Handlers |-> AnyAsk]
  /\ draft = [h \in Handlers |-> NoProfile]
  /\ past = [h \in Handlers |-> <<>>]
  /\ calls = 0
  /\ published = [n \in Names |-> <<>>]
  /\ raced = {}

-----------------------------------------------------------------------------
\* RegulationProfileDraft.upsert: every item of the key goes, whichever year
\* it is valid from.
Upserted(entries, item) == {e \in entries : e.key # item.key} \cup {item}

Begin(h, a) ==
  /\ at[h] = "idle"
  /\ calls < MaxCalls
  /\ calls' = calls + 1
  /\ asks' = [asks EXCEPT ![h] = a]
  /\ at' = [at EXCEPT ![h] = "require"]
  /\ UNCHANGED <<profiles, histories, draft, past, published, raced>>

\* assert_can_edit_regulation_profile and _require, then the draft: refused
\* (403), not found (404), a clone under its own name (400), or to publish.
Require(h) ==
  /\ at[h] = "require"
  /\ LET a == asks[h]
         source == IF a.op = "clone" THEN a.source ELSE a.name
         entries == profiles[source].entries
         holds ==
           /\ a.admin
           /\ a.op # "create" => profiles[source] # NoProfile
           /\ a.op = "clone" => a.name # a.source
     IN  \/ /\ ~holds
            /\ at' = [at EXCEPT ![h] = "idle"]
            /\ UNCHANGED draft
         \/ /\ holds
            /\ at' = [at EXCEPT ![h] = "publish"]
            /\ draft' = [draft EXCEPT ![h] =
                 [name |-> a.name, version |-> a.version,
                  entries |-> CASE a.op = "create" -> {}
                                [] a.op = "clone"  -> entries
                                [] a.op = "upsert" -> Upserted(entries, a.item)]]
  /\ asks' = [asks EXCEPT ![h] = AnyAsk]
  /\ UNCHANGED <<profiles, histories, past, calls, published, raced>>

Publishing(n) == {h \in Handlers : at[h] \in {"history", "record"} /\ draft[h].name = n}

\* The first line of _publish that writes: whatever was current is replaced.
Publish(h) ==
  /\ at[h] = "publish"
  /\ LET n == draft[h].name
     IN  /\ profiles' = [profiles EXCEPT ![n] = draft[h]]
         /\ published' = [published EXCEPT ![n] = Append(@, draft[h])]
         /\ raced' = IF Publishing(n) = {} THEN raced ELSE raced \cup {n}
  /\ at' = [at EXCEPT ![h] = "history"]
  /\ UNCHANGED <<histories, asks, draft, past, calls>>

\* history(name), then record: the history read, with the profile at its end,
\* replaces whatever is the history by then.
ReadHistory(h) ==
  /\ at[h] = "history"
  /\ past' = [past EXCEPT ![h] = histories[draft[h].name]]
  /\ at' = [at EXCEPT ![h] = "record"]
  /\ UNCHANGED <<profiles, histories, asks, draft, calls, published, raced>>

\* Variant: a version that is already there is replaced in its place.
RecordInPlace(h) ==
  /\ at[h] = "record"
  /\ histories' = [histories EXCEPT ![draft[h].name] =
       Append(SelectSeq(past[h], LAMBDA p : p.version # draft[h].version), draft[h])]
  /\ at' = [at EXCEPT ![h] = "idle"]
  /\ draft' = [draft EXCEPT ![h] = NoProfile]
  /\ past' = [past EXCEPT ![h] = <<>>]
  /\ UNCHANGED <<profiles, asks, calls, published, raced>>

Record(h) ==
  /\ at[h] = "record"
  /\ histories' = [histories EXCEPT ![draft[h].name] = Append(past[h], draft[h])]
  /\ at' = [at EXCEPT ![h] = "idle"]
  /\ draft' = [draft EXCEPT ![h] = NoProfile]
  /\ past' = [past EXCEPT ![h] = <<>>]
  /\ UNCHANGED <<profiles, asks, calls, published, raced>>

Next ==
  \E h \in Handlers :
    \/ \E a \in Asks : Begin(h, a)
    \/ Require(h) \/ Publish(h) \/ ReadHistory(h) \/ Record(h)

Spec == Init /\ [][Next]_vars

-----------------------------------------------------------------------------
\* Every variable has its type.
TypeOK ==
  /\ \A n \in Names :
       /\ profiles[n] \in Profile \cup {NoProfile}
       /\ histories[n] \in Seq(Profile) /\ published[n] \in Seq(Profile)
  /\ at \in [Handlers -> {"idle", "require", "publish", "history", "record"}]
  /\ asks \in [Handlers -> Asks]
  /\ \A h \in Handlers : draft[h] = NoProfile \/ draft[h] \in Profile
  /\ \A h \in Handlers : past[h] \in Seq(Profile)
  /\ calls \in 0 .. MaxCalls /\ raced \subseteq Names

(***************************************************************************)
(* The history of a name is every profile that was ever current, in order, *)
(* and its last one is current (_publish, ProfileHistory: no version that  *)
(* has passed is lost), unless two handlers published under the name at a  *)
(* time.  Requests for other names, clones from this one included, do it   *)
(* no harm.                                                                *)
(***************************************************************************)
HistoryIsWhole ==
  \A n \in Names \ raced :
    Publishing(n) = {} =>
      /\ histories[n] = published[n]
      /\ profiles[n] = IF histories[n] = <<>> THEN NoProfile ELSE Last(histories[n])

=============================================================================
