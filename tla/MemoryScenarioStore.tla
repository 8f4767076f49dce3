------------------------ MODULE MemoryScenarioStore ------------------------
(***************************************************************************)
(* InMemoryScenarioStore (app/services/scenario_store.py) side by side     *)
(* with the JSON file store, given the same calls at the same times.       *)
(* build_scenario_store picks one or the other by whether a directory is   *)
(* configured, so a caller should not be able to tell them apart.          *)
(*                                                                         *)
(* The in-memory store keeps objects, and the current record of a scenario *)
(* is the same object as the last entry of its history: heap maps object   *)
(* numbers to their contents, records and history hold object numbers.     *)
(***************************************************************************)
EXTENDS ScenarioRecords

CONSTANTS
  Requests,   \* requests of the one caller
  MaxClock,   \* bound on the clock
  MaxCalls    \* bound on the number of calls

VARIABLES
  mem,        \* the in-memory store
  disk,       \* the state of the file store
  clock,      \* wall clock
  calls,      \* number of calls made
  replies     \* what each store answered to the last call

vars == <<mem, disk, clock, calls, replies>>

EmptyMemory == [next_id |-> 1, heap |-> <<>>,
                records |-> [i \in {} |-> i], history |-> [i \in {} |-> i]]

\* The object a reference points to.
Deref(m, ref) == m.heap[ref]
Current(m, id) == Deref(m, m.records[id])
Versions(m, id) ==
  IF id \in DOMAIN m.history
  THEN [k \in DOMAIN m.history[id] |-> Deref(m, m.history[id][k])]
  ELSE <<>>

\* A new object becomes the current record and the last entry of the history.
MemAppend(m, rec, earlier) ==
  LET ref == Len(m.heap) + 1
  IN  [m EXCEPT !.heap = Append(m.heap, rec),
                !.records = Put(m.records, rec.id, ref),
                !.history = Put(m.history, rec.id, Append(earlier, ref))]

MemSaveNew(m, req) ==
  LET rec == [id |-> m.next_id, body |-> req.body, owner |-> req.owner,
              version |-> 1, created |-> req.now, updated |-> req.now,
              deleted |-> NotDeleted]
  IN  Done([MemAppend(m, rec, <<>>) EXCEPT !.next_id = m.next_id + 1], {rec})

MemSaveExisting(m, req) ==
  LET old == Current(m, req.id)
      rec == Revised(old, req.body, old.version + 1, req.now, old.deleted)
  IN  Done(MemAppend(m, rec, m.history[req.id]), {rec})

MemRestoreVersion(m, req) ==
  LET h == Versions(m, req.id)
      k == CHOOSE i \in DOMAIN h :
             /\ h[i].version = req.version
             /\ \A j \in DOMAIN h : h[j].version = req.version => i <= j
      rec == Revised(h[k], h[k].body, Current(m, req.id).version + 1, req.now,
                     NotDeleted)
  IN  Done(MemAppend(m, rec, m.history[req.id]), {rec})

\* Variant: the time of the first deletion is lost.
MemSoftDeleteAgain(m, req, now) ==
  LET old == Current(m, req.id)
  IN  Done([m EXCEPT !.heap[m.records[req.id]] =
                       Revised(old, old.body, old.version, now, now)], {})

\* The object itself is changed, and with it the history entry it is.
MemSoftDelete(m, req, now) ==
  LET old == Current(m, req.id)
  IN  Done(IF old.deleted # NotDeleted
           THEN m
           ELSE [m EXCEPT !.heap[m.records[req.id]] =
                            Revised(old, old.body, old.version, now, now)], {})

MemRestore(m, req, now) ==
  LET old == Current(m, req.id)
      rec == Revised(old, old.body, old.version, now, NotDeleted)
  IN  Done([m EXCEPT !.heap[m.records[req.id]] = rec], {rec})

MemPurgeExpired(m, req) ==
  LET gone == {i \in DOMAIN m.records :
                 /\ Current(m, i).deleted # NotDeleted
                 /\ Current(m, i).deleted < req.now - Retention}
  IN  Done([m EXCEPT !.records = Without(m.records, gone),
                     !.history = Without(m.history, gone)],
           {Current(m, i) : i \in gone})

MemListActive(m, req) ==
  Done(m, {rec \in {Current(m, i) : i \in DOMAIN m.records} :
             rec.owner = req.owner /\ rec.deleted = NotDeleted})

MemOutcome(m, req, now) ==
  CASE req.op = "load" ->
         Done(m, {Current(m, i) : i \in DOMAIN m.records \cap {req.id}})
    [] req.op = "list_active" -> MemListActive(m, req)
    [] req.op = "list_versions" ->
         Done(m, {Versions(m, req.id)[k] : k \in DOMAIN Versions(m, req.id)})
    [] req.op = "purge_expired" -> MemPurgeExpired(m, req)
    [] req.op = "save" /\ req.id = 0 -> MemSaveNew(m, req)
    [] OTHER ->
         IF \/ req.id \notin DOMAIN m.records
            \/ /\ req.op = "restore_version"
               /\ \A k \in DOMAIN Versions(m, req.id) :
                    Versions(m, req.id)[k].version # req.version
         THEN Missing(m)
         ELSE CASE req.op = "save" -> MemSaveExisting(m, req)
                [] req.op = "restore_version" -> MemRestoreVersion(m, req)
                [] req.op = "soft_delete" -> MemSoftDelete(m, req, now)
                [] req.op = "restore" -> MemRestore(m, req, now)

-----------------------------------------------------------------------------
NoReply == [status |-> "none", value |-> {}]
ReplyOf(o) == [status |-> o.status, value |-> o.value]

Init ==
  /\ mem = EmptyMemory
  /\ disk = EmptyState
  /\ clock = 0
  /\ calls = 0
  /\ replies = [mem |-> NoReply, disk |-> NoReply, op |-> "load"]

\* The same call to both stores.
Call(r) ==
  LET req == [r EXCEPT !.now = clock]
      m == MemOutcome(mem, req, clock)
      d == Outcome(disk, req, clock)
  IN  /\ calls < MaxCalls
      /\ calls' = calls + 1
      /\ mem' = m.state
      /\ disk' = d.state
      /\ replies' = [mem |-> ReplyOf(m), disk |-> ReplyOf(d), op |-> req.op]
      /\ UNCHANGED clock

Tick ==
  /\ clock < MaxClock
  /\ clock' = clock + 1
  /\ UNCHANGED <<mem, disk, calls, replies>>

Next == (\E r \in Requests : Call(r)) \/ Tick

Spec == Init /\ [][Next]_vars

-----------------------------------------------------------------------------
TypeOK ==
  /\ StateType(disk)
  /\ mem.next_id \in Nat \ {0}
  /\ mem.heap \in Seq(Record)
  /\ \A i \in DOMAIN mem.records : mem.records[i] \in DOMAIN mem.heap
  /\ \A i \in DOMAIN mem.history : mem.history[i] \in Seq(DOMAIN mem.heap)
  /\ {clock, calls} \subseteq Nat

(***************************************************************************)
(* The file store's docstring says that it keeps the rules of the          *)
(* in-memory store, for otherwise moving the storage would change the      *)
(* behaviour (scenario_store_file.py:249-253).  They agree on everything   *)
(* but the dates of a history entry: in memory a deletion changes the      *)
(* object that is also the last entry of the history.  It never reaches an *)
(* older version, an id, an owner or a body in either of them.             *)
(***************************************************************************)
Undated(v) == Revised(v, v.body, v.version, 0, NotDeleted)

SameUpToHistoryDates ==
  IF replies.op = "list_versions"
  THEN /\ replies.mem.status = replies.disk.status
       /\ {Undated(v) : v \in replies.mem.value} = {Undated(v) : v \in replies.disk.value}
  ELSE replies.mem = replies.disk
=============================================================================
