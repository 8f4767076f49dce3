------------------------- MODULE MCScenarioRequests -------------------------
(***************************************************************************)
(* Two components that serve scenarios, checked in one run: the routes in  *)
(* front of a store, and the in-memory store beside the file store.  They  *)
(* share nothing, so the initial state says which one is running and the   *)
(* variables of the other stay as they are.  Two requests are in flight,   *)
(* of the demo user of the screens and of another one.  A start finds      *)
(* nothing, or a scenario of the demo user that chose settings record 2,   *)
(* with a deletion that is ready to be purged.                             *)
(***************************************************************************)
EXTENDS ScenarioRouter, TLC

CONSTANTS
  c1, c2, demo, other,
  StoreRequests,  \* requests of the one caller of both stores
  MaxStoreClock,  \* bound on the clock of that part
  MaxStoreCalls   \* bound on its calls

ASSUME StoreRequestsAssumption == StoreRequests \subseteq Request

VARIABLES
  part,                                \* "routes" or "stores"
  mem, disk, storeClock, storeCalls, replies  \* MemoryScenarioStore

Stores == INSTANCE MemoryScenarioStore
            WITH Requests <- StoreRequests, MaxClock <- MaxStoreClock,
                 MaxCalls <- MaxStoreCalls, clock <- storeClock, calls <- storeCalls

stores == <<mem, disk, storeClock, storeCalls, replies>>

RequestsInit ==
  /\ part \in {"routes", "stores"}
  /\ part = "stores" => store = EmptyState
  /\ Init
  /\ Stores!Init

RequestsNext ==
  \/ part = "routes" /\ Next /\ UNCHANGED <<part, stores>>
  \/ part = "stores" /\ Stores!Next /\ UNCHANGED <<part, vars>>

RequestsSpec == RequestsInit /\ [][RequestsNext]_<<part, vars, stores>>

-----------------------------------------------------------------------------
Plain == [kind |-> "scenario", settings |-> 0]
Chosen == [kind |-> "scenario", settings |-> 2]
Overrides == [kind |-> "settings", settings |-> 0]

MCClients == {c1, c2}
MCOwners == {demo, other}
MCBodies == {Plain, Chosen, Overrides}

Saved(st, body, owner) ==
  SaveNew(st, [op |-> "save", id |-> 0, body |-> body, owner |-> owner,
               version |-> 1, now |-> 0]).state
Two == Saved(Saved(EmptyState, Chosen, demo), Overrides, demo)
Three == SoftDelete(Saved(Two, Plain, other),
                    [op |-> "soft_delete", id |-> Two.next_id, body |-> Plain,
                     owner |-> other, version |-> 1, now |-> 0], 0).state
MCStores == {EmptyState, Three}

Ask(door, user, id, body) ==
  [door |-> door, user |-> user, id |-> id, body |-> body, version |-> 1]

Writes ==
  {Ask("create", other, 0, Plain), Ask("update", demo, 1, Plain),
   Ask("update", demo, 2, Plain),
   Ask("update", other, 1, Plain), Ask("update", other, 3, Plain),
   Ask("restore_version", demo, 1, Plain), Ask("restore_version", demo, 3, Plain),
   Ask("delete", demo, 1, Plain), Ask("delete", other, 3, Plain),
   Ask("restore", other, 3, Plain), Ask("purge", demo, 0, Plain)}
Screens ==
  {Ask("ui_list", demo, 0, Plain), Ask("ui_run", demo, 1, Plain),
   Ask("ui_delete", demo, 2, Plain)}
Reads == {Ask("get", other, 1, Plain), Ask("get", demo, 1, Plain),
          Ask("versions", other, 3, Plain)}

AllRequests == Writes \cup Screens \cup Reads
Symmetry == Permutations(MCClients)

\* Every operation on the first two scenarios, by two users with two bodies.
Call(op, id, body, owner, version) ==
  [op |-> op, id |-> id, body |-> body, owner |-> owner, version |-> version, now |-> 0]
AllStoreRequests ==
  {Call("save", 0, Plain, demo, 1), Call("save", 1, Chosen, other, 1),
   Call("save", 2, Chosen, other, 1),
   Call("load", 1, Plain, demo, 1), Call("list_active", 0, Plain, demo, 1),
   Call("list_versions", 1, Plain, demo, 1), Call("restore_version", 1, Plain, demo, 1),
   Call("restore_version", 1, Plain, demo, 2), Call("soft_delete", 1, Plain, demo, 1),
   Call("soft_delete", 2, Plain, demo, 1), Call("restore", 1, Plain, demo, 1),
   Call("purge_expired", 0, Plain, demo, 1)}

\* The two stores answer alike, but for the dates of a history
\* (InMemoryScenarioStore, JsonFileScenarioStore).
SameUpToHistoryDates == Stores!SameUpToHistoryDates
=============================================================================
