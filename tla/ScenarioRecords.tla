-------------------------- MODULE ScenarioRecords --------------------------
(***************************************************************************)
(* What one call of the ScenarioStore protocol (app/services/              *)
(* scenario_store.py) does to the stored state.  Every operator is a       *)
(* function of the state, the request and the two clock readings the code  *)
(* takes: request.now, read when save, restore_version or purge_expired    *)
(* is entered, and clock, read inside the mutation by                      *)
(* ScenarioRecord.soft_delete and ScenarioRecord.restore.                  *)
(*                                                                         *)
(* The name, description, tags and definition_json of a scenario always    *)
(* travel together and are one Body.                                       *)
(***************************************************************************)
EXTENDS Integers, Sequences, FiniteSets

CONSTANTS
  Bodies,     \* what a user can save
  Owners,     \* accounts
  Retention   \* SOFT_DELETE_RETENTION_DAYS, in clock ticks

ASSUME RetentionAssumption == Retention \in Nat

\* deleted_at = None
NotDeleted == -1

Record == [id : Nat \ {0}, body : Bodies, owner : Owners, version : Nat,
           created : Nat, updated : Nat, deleted : Nat \cup {NotDeleted}]

Operations == {"save", "load", "list_active", "list_versions",
               "restore_version", "soft_delete", "restore", "purge_expired"}

\* id = 0 asks save for a new scenario.
Request == [op : Operations, id : Nat, body : Bodies, owner : Owners,
            version : Nat, now : Nat]

\* Variant: ids counted from zero.
EmptyStateFromZero == [next_id |-> 0,
                       records |-> [i \in {} |-> i],
                       history |-> [i \in {} |-> i]]

EmptyState == [next_id |-> 1,
               records |-> [i \in {} |-> i],
               history |-> [i \in {} |-> i]]

Put(f, k, v) == [i \in DOMAIN f \cup {k} |-> IF i = k THEN v ELSE f[i]]
Without(f, K) == [i \in DOMAIN f \ K |-> f[i]]

(***************************************************************************)
(* An outcome is what the mutation leaves in the state and what the call   *)
(* answers: the records it returns (as a set: list_versions is ordered by  *)
(* version), or "missing" for the KeyError, which leaves the state alone.  *)
(***************************************************************************)
Done(st, value) == [status |-> "ok", value |-> value, state |-> st]
Missing(st) == [status |-> "missing", value |-> {}, state |-> st]

HistoryOf(st, id) == IF id \in DOMAIN st.history THEN st.history[id] ELSE <<>>

\* A record becomes the current one and, when it is a new version, the last
\* entry of its history.
SetCurrent(st, rec) ==
  [next_id |-> st.next_id,
   records |-> Put(st.records, rec.id, rec),
   history |-> st.history]
AppendVersion(st, rec) ==
  [next_id |-> st.next_id,
   records |-> Put(st.records, rec.id, rec),
   history |-> Put(st.history, rec.id, Append(HistoryOf(st, rec.id), rec))]

FirstVersion(st, req) ==
  [id |-> st.next_id, body |-> req.body, owner |-> req.owner, version |-> 1,
   created |-> req.now, updated |-> req.now, deleted |-> NotDeleted]

SaveNew(st, req) ==
  LET rec == FirstVersion(st, req)
  IN  Done([next_id |-> st.next_id + 1,
            records |-> Put(st.records, rec.id, rec),
            history |-> Put(st.history, rec.id, <<rec>>)], {rec})

\* dataclasses.replace(rec, ...): identity, owner and creation time stay.
Revised(rec, body, version, now, deleted) ==
  [id |-> rec.id, body |-> body, owner |-> rec.owner, version |-> version,
   created |-> rec.created, updated |-> now, deleted |-> deleted]

\* Variant: the new version is not filed in the history.
SaveExistingUnfiled(st, req) ==
  LET old == st.records[req.id]
      rec == Revised(old, req.body, old.version + 1, req.now, old.deleted)
  IN  Done(SetCurrent(st, rec), {rec})

\* Owner, creation time and deletion mark of the stored record win.
SaveExisting(st, req) ==
  LET old == st.records[req.id]
      rec == Revised(old, req.body, old.version + 1, req.now, old.deleted)
  IN  Done(AppendVersion(st, rec), {rec})

\* Variant: the restored version is numbered after its target, not after the
\* current version.
RestoreVersionRenumbered(st, req) ==
  LET h == st.history[req.id]
      k == CHOOSE i \in DOMAIN h : h[i].version = req.version
      rec == Revised(h[k], h[k].body, h[k].version + 1, req.now, NotDeleted)
  IN  Done(AppendVersion(st, rec), {rec})

\* The first entry of the history with that version becomes a new version.
RestoreVersion(st, req) ==
  LET h == st.history[req.id]
      k == CHOOSE i \in DOMAIN h :
             /\ h[i].version = req.version
             /\ \A j \in DOMAIN h : h[j].version = req.version => i <= j
      rec == Revised(h[k], h[k].body, st.records[req.id].version + 1, req.now,
                     NotDeleted)
  IN  Done(AppendVersion(st, rec), {rec})

\* ScenarioRecord.soft_delete: only the first deletion is dated.
SoftDelete(st, req, clock) ==
  LET old == st.records[req.id]
      rec == IF old.deleted # NotDeleted
             THEN old
             ELSE Revised(old, old.body, old.version, clock, clock)
  IN  Done(SetCurrent(st, rec), {})

Restore(st, req, clock) ==
  LET old == st.records[req.id]
      rec == Revised(old, old.body, old.version, clock, NotDeleted)
  IN  Done(SetCurrent(st, rec), {rec})

Expired(st, now) ==
  {i \in DOMAIN st.records : /\ st.records[i].deleted # NotDeleted
                             /\ st.records[i].deleted < now - Retention}

\* Variant: next_id is recomputed from what is left.
PurgeExpiredTidy(st, req) ==
  LET gone == Expired(st, req.now)
      left == Without(st.records, gone)
  IN  Done([next_id |-> IF DOMAIN left = {} THEN 1
                        ELSE 1 + CHOOSE i \in DOMAIN left : \A j \in DOMAIN left : j <= i,
            records |-> left,
            history |-> Without(st.history, gone)],
           {st.records[i] : i \in gone})

PurgeExpired(st, req) ==
  LET gone == Expired(st, req.now)
  IN  Done([next_id |-> st.next_id,
            records |-> Without(st.records, gone),
            history |-> Without(st.history, gone)],
           {st.records[i] : i \in gone})

Load(st, req) ==
  Done(st, {st.records[i] : i \in DOMAIN st.records \cap {req.id}})
ListActive(st, req) ==
  Done(st, {rec \in {st.records[i] : i \in DOMAIN st.records} :
              rec.owner = req.owner /\ rec.deleted = NotDeleted})
ListVersions(st, req) ==
  LET h == HistoryOf(st, req.id) IN Done(st, {h[k] : k \in DOMAIN h})

Known(st, id) == id \in DOMAIN st.records
HasVersion(st, id, version) ==
  \E k \in DOMAIN HistoryOf(st, id) : HistoryOf(st, id)[k].version = version

Outcome(st, req, clock) ==
  CASE req.op = "load" -> Load(st, req)
    [] req.op = "list_active" -> ListActive(st, req)
    [] req.op = "list_versions" -> ListVersions(st, req)
    [] req.op = "purge_expired" -> PurgeExpired(st, req)
    [] req.op = "save" /\ req.id = 0 -> SaveNew(st, req)
    [] OTHER ->
         IF \/ ~Known(st, req.id)
            \/ req.op = "restore_version" /\ ~HasVersion(st, req.id, req.version)
         THEN Missing(st)
         ELSE CASE req.op = "save" -> SaveExisting(st, req)
                [] req.op = "restore_version" -> RestoreVersion(st, req)
                [] req.op = "soft_delete" -> SoftDelete(st, req, clock)
                [] req.op = "restore" -> Restore(st, req, clock)

(***************************************************************************)
(* A sound state: ids are below next_id, a record sits under its own id,   *)
(* its history is versions 1..n without a hole, ends at the current        *)
(* version, and owner and creation time never changed on the way.          *)
(***************************************************************************)
IdsBelowNext(st) ==
  \A i \in DOMAIN st.records : i < st.next_id /\ st.records[i].id < st.next_id

RecordSound(st, i) ==
  /\ st.records[i].id = i
  /\ st.history[i] # <<>>
  /\ st.records[i].version = Len(st.history[i])
  /\ \A k \in 1 .. Len(st.history[i]) :
       /\ st.history[i][k].id = i
       /\ st.history[i][k].version = k
       /\ st.history[i][k].owner = st.records[i].owner
       /\ st.history[i][k].created = st.records[i].created

LineageSound(st) ==
  /\ DOMAIN st.history = DOMAIN st.records
  /\ \A i \in DOMAIN st.records : RecordSound(st, i)

Sound(st) == IdsBelowNext(st) /\ LineageSound(st)

\* Version v is filed.
InHistory(st, v) ==
  /\ v.id \in DOMAIN st.history
  /\ \E k \in DOMAIN st.history[v.id] : v = st.history[v.id][k]

\* From one state to a later one: ids are issued upwards only, and a scenario
\* keeps its owner.
IssuesOnwards(old, new) ==
  /\ old.next_id <= new.next_id
  /\ \A i \in DOMAIN new.records \ DOMAIN old.records : i >= old.next_id
  /\ \A i \in DOMAIN new.records \cap DOMAIN old.records :
       new.records[i].owner = old.records[i].owner

StateType(st) ==
  /\ st = [next_id |-> st.next_id, records |-> st.records, history |-> st.history]
  /\ st.next_id \in Nat \ {0}
  /\ DOMAIN st.records \subseteq Nat \ {0}
  /\ st.records \in [DOMAIN st.records -> Record]
  /\ DOMAIN st.history \subseteq Nat \ {0}
  /\ st.history \in [DOMAIN st.history -> Seq(Record)]
=============================================================================
