--------------------------- MODULE ScenarioRouter ---------------------------
(***************************************************************************)
(* The doors to the scenario store: the JSON routes of                     *)
(* app/routers/scenarios.py and the screens of app/routers/ui_scenarios.py *)
(* that read or change a stored scenario.  A route checks first and acts   *)
(* later, in separate calls of the store, and the routes run in a thread   *)
(* pool: between two calls of one request the others do what they like.    *)
(*                                                                         *)
(* Each call of the store is one step here, a refused one included: that   *)
(* is what ScenarioStore promises.  InMemoryScenarioStore has no lock, and *)
(* its methods run in several statements (scenario_store.py:92-110,        *)
(* 128-146): what two threads inside them do to each other is not here.    *)
(* A body is the definition of a saved scenario: its kind and the settings *)
(* record it chose (0: none).                                              *)
(***************************************************************************)
EXTENDS ScenarioRecords

CONSTANTS
  Clients,        \* requests in flight at the same time
  Requests,       \* what they ask for
  InitialStores,  \* what a start may find stored
  MaxClock,       \* bound on the clock
  MaxCalls        \* bound on the number of requests

Kinds == {"scenario", "settings"}
Doors == {"create", "get", "update", "versions", "restore_version", "delete",
          "restore", "purge", "ui_list", "ui_run", "ui_delete"}
DoorRequest == [door : Doors, user : Owners, id : Nat, body : Bodies, version : Nat]

ASSUME BodiesAssumption == Bodies \subseteq [kind : Kinds, settings : Nat]
ASSUME DoorRequestsAssumption == Requests # {} /\ Requests \subseteq DoorRequest
ASSUME StoresAssumption ==
  \A st \in InitialStores : StateType(st) /\ Sound(st)
ASSUME CapsAssumption == {MaxClock, MaxCalls} \subseteq Nat

VARIABLES
  store,    \* the stored state
  clock,    \* wall clock
  step,     \* where each request is in its handler
  req,      \* the request
  held,     \* the records it has read so far
  pending,  \* ids of a list screen still to be opened
  answer,   \* its answer
  calls,    \* requests made so far
  removed   \* history: ids deleted or purged since the request was received

session == <<step, req, held, pending, answer>>
vars == <<store, clock, session, calls, removed>>

NoAnswer == [status |-> "none", value |-> {}]
Answer(status, value) == [status |-> status, value |-> value]
AnyRequest == CHOOSE r \in Requests : TRUE

Init ==
  /\ store \in InitialStores
  /\ clock = 0
  /\ step = [c \in Clients |-> "idle"]
  /\ req = [c \in Clients |-> AnyRequest]
  /\ held = [c \in Clients |-> {}]
  /\ pending = [c \in Clients |-> {}]
  /\ answer = [c \in Clients |-> NoAnswer]
  /\ calls = 0
  /\ removed = [c \in Clients |-> {}]

-----------------------------------------------------------------------------
\* The routes that answer for active scenarios only, and those that also see
\* deleted ones.
ActiveOnly == {"get", "update", "ui_list", "ui_run", "ui_delete"}

\* _load_or_404 finds nothing.
Absent(id, activeOnly) ==
  \/ id \notin DOMAIN store.records
  \/ activeOnly /\ store.records[id].deleted # NotDeleted

\* Variant: a known scenario is enough.
MayTouchAnyone(rec, user) == TRUE

\* can_access_scenario; the routes pass no valid share token.
MayTouch(rec, user) == rec.owner = user

\* The call of the store behind a route.
StoreOp(door) ==
  CASE door \in {"create", "update"} -> "save"
    [] door = "versions" -> "list_versions"
    [] door = "restore_version" -> "restore_version"
    [] door \in {"delete", "ui_delete"} -> "soft_delete"
    [] door = "restore" -> "restore"
    [] door = "purge" -> "purge_expired"
    [] door = "ui_list" -> "list_active"
    [] OTHER -> "load"

StoreRequest(r) ==
  [op |-> StoreOp(r.door), id |-> IF r.door = "create" THEN 0 ELSE r.id,
   body |-> r.body, owner |-> r.user, version |-> r.version, now |-> clock]

FirstStep(door) ==
  CASE door \in {"create", "purge"} -> "act"
    [] door = "ui_list" -> "list"
    [] door = "ui_delete" -> "name"
    [] OTHER -> "load"

Reply(c, status, value) ==
  /\ step' = [step EXCEPT ![c] = "answered"]
  /\ answer' = [answer EXCEPT ![c] = Answer(status, value)]

Receive(c, r) ==
  /\ step[c] \in {"idle", "answered"}
  /\ calls < MaxCalls
  /\ calls' = calls + 1
  /\ step' = [step EXCEPT ![c] = FirstStep(r.door)]
  /\ req' = [req EXCEPT ![c] = r]
  /\ held' = [held EXCEPT ![c] = {}]
  /\ pending' = [pending EXCEPT ![c] = {}]
  /\ answer' = [answer EXCEPT ![c] = NoAnswer]
  /\ removed' = [removed EXCEPT ![c] = {}]
  /\ UNCHANGED <<store, clock>>

\* Look up one record and check that the user may touch it: what every route
\* with a scenario in its path begins with.
Refusal(c, id, activeOnly) ==
  IF Absent(id, activeOnly) THEN "404"
  ELSE IF ~MayTouch(store.records[id], req[c].user) THEN "403"
  ELSE "none"

\* delete_scenario_form reads the name of the active scenario first.
ReadName(c) ==
  /\ step[c] = "name"
  /\ IF Refusal(c, req[c].id, TRUE) # "none"
     THEN Reply(c, "404", {})
     ELSE /\ step' = [step EXCEPT ![c] = "load"]
          /\ UNCHANGED answer
  /\ UNCHANGED <<store, clock, req, held, pending, calls, removed>>

\* delete_scenario, called by the form after ReadName, sees deleted ones too.
SeesActiveOnly(door) == door \in ActiveOnly \ {"ui_delete"}

LoadAndCheck(c) ==
  /\ step[c] = "load"
  /\ LET r == req[c]
         refusal == Refusal(c, r.id, SeesActiveOnly(r.door))
         rec == store.records[r.id]
         screen == r.door = "ui_run"
     IN  IF refusal # "none"
         THEN Reply(c, IF screen THEN "400" ELSE refusal, {}) /\ UNCHANGED held
         ELSE /\ held' = [held EXCEPT ![c] = {rec}]
              /\ CASE r.door = "get" -> Reply(c, "ok", {rec})
                   [] screen /\ rec.body.settings = 0 -> Reply(c, "ok", {rec})
                   [] screen /\ rec.body.settings # 0 ->
                        /\ step' = [step EXCEPT ![c] = "settings"]
                        /\ UNCHANGED answer
                   [] OTHER -> /\ step' = [step EXCEPT ![c] = "act"]
                               /\ UNCHANGED answer
  /\ UNCHANGED <<store, clock, req, pending, calls, removed>>

\* _overrides_for: the settings the scenario chose, read after it.
ReadSettings(c) ==
  /\ step[c] = "settings"
  /\ \E scenario \in held[c] :
       LET id == scenario.body.settings
       IN  IF Refusal(c, id, TRUE) # "none"
           THEN Reply(c, "400", {}) /\ UNCHANGED held
           ELSE /\ held' = [held EXCEPT ![c] = @ \cup {store.records[id]}]
                /\ Reply(c, "ok", held[c] \cup {store.records[id]})
  /\ UNCHANGED <<store, clock, req, pending, calls, removed>>

\* ids that the step takes out of the active ones.
TakenOut(before, after) ==
  {i \in DOMAIN before.records :
     /\ before.records[i].deleted = NotDeleted
     /\ i \notin DOMAIN after.records \/ after.records[i].deleted # NotDeleted}

\* A KeyError of the store is a 404, except that update_scenario lets it
\* through as a server error.
Act(c) ==
  /\ step[c] = "act"
  /\ LET o == Outcome(store, StoreRequest(req[c]), clock)
     IN  /\ store' = o.state
         /\ removed' = [d \in Clients |-> removed[d] \cup TakenOut(store, o.state)]
         /\ Reply(c, CASE o.status = "ok" -> "ok"
                       [] req[c].door = "update" -> "500"
                       [] OTHER -> "404", o.value)
  /\ UNCHANGED <<clock, req, held, pending, calls>>

\* The store found its file changed twice and gave up.
ActRefused(c) ==
  /\ step[c] = "act"
  /\ req[c].door # "versions"
  /\ Reply(c, IF req[c].door = "ui_delete" THEN "404" ELSE "500", {})
  /\ UNCHANGED <<store, clock, req, held, pending, calls, removed>>

\* _listed: the active records of the user, then each one opened by its id.
List(c) ==
  /\ step[c] = "list"
  /\ LET rows == Outcome(store, StoreRequest(req[c]), clock).value
     IN  pending' = [pending EXCEPT ![c] = {rec.id : rec \in rows}]
  /\ step' = [step EXCEPT ![c] = "open"]
  /\ UNCHANGED <<store, clock, req, held, answer, calls, removed>>

OpenNext(c) ==
  /\ step[c] = "open"
  /\ \E id \in pending[c] :
       /\ \A other \in pending[c] : id <= other
       /\ IF Refusal(c, id, TRUE) # "none"
          THEN Reply(c, Refusal(c, id, TRUE), {}) /\ UNCHANGED <<held, pending>>
          ELSE /\ held' = [held EXCEPT ![c] = @ \cup {store.records[id]}]
               /\ pending' = [pending EXCEPT ![c] = @ \ {id}]
               /\ UNCHANGED <<step, answer>>
  /\ UNCHANGED <<store, clock, req, calls, removed>>

ShowList(c) ==
  /\ step[c] = "open"
  /\ pending[c] = {}
  /\ Reply(c, "ok", held[c])
  /\ UNCHANGED <<store, clock, req, held, pending, calls, removed>>

Tick ==
  /\ clock < MaxClock
  /\ clock' = clock + 1
  /\ UNCHANGED <<store, session, calls, removed>>

Serve(c) ==
  \/ ReadName(c)
  \/ LoadAndCheck(c)
  \/ ReadSettings(c)
  \/ Act(c)
  \/ ActRefused(c)
  \/ List(c)
  \/ OpenNext(c)
  \/ ShowList(c)

Next ==
  \/ \E c \in Clients : Serve(c) \/ \E r \in Requests : Receive(c, r)
  \/ Tick

Spec == Init /\ [][Next]_vars

-----------------------------------------------------------------------------
Steps == {"idle", "name", "load", "settings", "act", "list", "open", "answered"}
Statuses == {"none", "ok", "400", "403", "404", "500"}

TypeOK ==
  /\ StateType(store) /\ Sound(store)
  /\ clock \in Nat
  /\ step \in [Clients -> Steps]
  /\ req \in [Clients -> Requests]
  /\ held \in [Clients -> SUBSET Record]
  /\ pending \in [Clients -> SUBSET Nat]
  /\ answer \in [Clients -> [status : Statuses, value : SUBSET Record]]
  /\ calls \in Nat
  /\ removed \in [Clients -> SUBSET Nat]

(***************************************************************************)
(* Nobody but its owner changes a stored scenario, whatever happens        *)
(* between the check and the act: owners never change and ids are never    *)
(* given out again, so the checked record and the changed one belong to    *)
(* the same user (scenarios.py:57-77).  Purging is the exception the code  *)
(* leaves open.                                                            *)
(***************************************************************************)
ChangedBy(c, i) ==
  /\ step[c] = "act" /\ step'[c] = "answered"
  /\ i \in DOMAIN store'.records => req[c].user = store.records[i].owner
  /\ i \notin DOMAIN store'.records => req[c].door = "purge"

OnlyOwnerTouches ==
  [][\A i \in DOMAIN store.records :
       (i \in DOMAIN store'.records => store'.records[i] # store.records[i])
       => \E c \in Clients : ChangedBy(c, i)]_vars

(***************************************************************************)
(* What a request has read stays the scenario it is: while others save,    *)
(* delete, purge and create, the id a request checked either names the     *)
(* same scenario (owner and creation time), in the same or a later         *)
(* version, or nothing at all; and the second call of a list screen finds  *)
(* what the first one named, unless somebody took it away in between       *)
(* (ui_scenarios.py:226-248).  And what a route, a screen or a run answers *)
(* with belongs to the user it answers; a purge answers with a number only.*)
(***************************************************************************)
HeldStaysItself ==
  \A c \in Clients :
    /\ req[c].door # "purge" => \A rec \in answer[c].value : rec.owner = req[c].user
    /\ \A rec \in held[c] :
         rec.id \in DOMAIN store.records
         => LET now == store.records[rec.id]
            IN  /\ now.owner = rec.owner
                /\ now.created = rec.created
                /\ now.version >= rec.version
    /\ req[c].door = "ui_list" /\ answer[c].status = "404"
       => pending[c] \cap removed[c] # {}

(***************************************************************************)
(* _load_or_404 says of the update route that it sees active scenarios     *)
(* only and answers for others as if they did not exist (scenarios.py:83). *)
(***************************************************************************)
UpdateAnswersOnlyActive ==
  \A c \in Clients :
    req[c].door = "update" /\ answer[c].status = "ok"
    => \A rec \in answer[c].value : rec.deleted = NotDeleted
=============================================================================
