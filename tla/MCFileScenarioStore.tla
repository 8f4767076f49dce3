------------------------ MODULE MCFileScenarioStore ------------------------
(***************************************************************************)
(* A small instance of FileScenarioStore: two processes, two users, two    *)
(* bodies, retention of zero ticks (a deletion is purged once the clock    *)
(* has moved on).  Every race is in it; a history variable tells whether   *)
(* the gap before a rename was intruded upon, and what the store promises  *)
(* only with that gap kept is stated for the time before.                  *)
(***************************************************************************)
EXTENDS FileScenarioStore, TLC

CONSTANTS p1, p2, b1, b2, o1, o2

Ask(op, id, body, owner, version) ==
  [op |-> op, id |-> id, body |-> body, owner |-> owner, version |-> version, now |-> 0]

Create == {Ask("save", 0, b1, o1, 1), Ask("save", 0, b2, o2, 1)}
\* The caller of an update names another owner: the stored one must win.
Edit == {Ask("save", 1, b2, o2, 1)}
Rollback == {Ask("restore_version", 1, b1, o1, 1)}
Delete == {Ask("soft_delete", 1, b1, o1, 1)}
Undelete == {Ask("restore", 1, b1, o1, 1)}
Purge == {Ask("purge_expired", 0, b1, o1, 1)}
Reads == {Ask("load", 1, b1, o1, 1), Ask("list_active", 0, b1, o1, 1),
          Ask("list_versions", 1, b1, o1, 1)}

MCProcesses == {p1, p2}
MCBodies == {b1, b2}
MCOwners == {o1, o2}

AllRequests ==
  Create \cup Edit \cup Rollback \cup Delete \cup Undelete \cup Purge
    \cup Reads
\* What is asked where processes die, files are edited and gaps intruded upon.
FewRequests == {Ask("save", 0, b1, o1, 1)} \cup Edit \cup Rollback \cup Delete \cup Purge

-----------------------------------------------------------------------------
VARIABLE intruded  \* history: a rename or an edit fell into another's gap

watch == <<vars, intruded>>

WatchedInit == Init /\ intruded = FALSE
WatchedNext == Next /\ intruded' = (intruded \/ ~KeepsGap)
WatchedSpec == WatchedInit /\ [][WatchedNext]_watch

(***************************************************************************)
(* The docstring's promise (scenario_store_file.py:65, 464) as far as the  *)
(* code can keep it: until another rename or an edit falls into the gap    *)
(* before a rename, no version whose save returned is missing from the     *)
(* history, unless its scenario was purged.                                *)
(***************************************************************************)
AckedVersionsStay == ~intruded => NoAckedVersionLost

(***************************************************************************)
(* An id is issued once: with the gap kept, next_id never goes back except *)
(* by an edit, so a purged scenario does not come back under the same id   *)
(* with another owner.                                                     *)
(***************************************************************************)
IdsNeverReissued ==
  [][~intruded' /\ edits' = edits
     => IssuesOnwards(file.state, file'.state)]_watch

(***************************************************************************)
(* With the gap kept the file is an atomic store: every call takes effect  *)
(* once, on the latest state, with the answer of that state; a retry never *)
(* applies a mutation twice, a refused call or a crash leaves no trace.    *)
(* Only an edit by hand is no step of the protocol.                        *)
(***************************************************************************)
ImplementsProtocol ==
  /\ Protocol!Init
  /\ [][~intruded' /\ edits' = edits => UNCHANGED Protocol!vars \/ Protocol!Next]_watch

-----------------------------------------------------------------------------
VARIABLE offered  \* the requests of this execution

Disturbed == intruded \/ crashes + edits > 0

\* Bounds: a process dies or the file is edited, not both; with all requests on
\* offer the execution ends at a disturbance.
Bounded ==
  /\ crashes' + edits' <= 1
  /\ offered = AllRequests => ~Disturbed'
  /\ \A p \in Processes :
       pc[p] = "idle" /\ pc'[p] # "idle" => [req'[p] EXCEPT !.now = 0] \in offered

BoundedInit == WatchedInit /\ offered \in {FewRequests, AllRequests}
BoundedNext == WatchedNext /\ UNCHANGED offered /\ Bounded
BoundedSpec == BoundedInit /\ [][BoundedNext]_<<watch, offered>>

Symmetry == Permutations(MCProcesses)
=============================================================================
