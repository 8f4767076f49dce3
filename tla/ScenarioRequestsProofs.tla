----------------------- MODULE ScenarioRequestsProofs -----------------------
(***************************************************************************)
(* Two components that serve scenarios.  Who touches what through the      *)
(* doors of the store, for any number of requests that interleave between  *)
(* their check and their act, any stores to start from and any clock:      *)
(* OnlyOwnerTouches and HeldStaysItself.  And what the in-memory store     *)
(* answers beside the file store: SameUpToHistoryDates.                    *)
(***************************************************************************)
EXTENDS MCScenarioRequests, ScenarioRecordsProofs

-----------------------------------------------------------------------------
(***************************************************************************)
(* Neither property is inductive.  What makes them hold is what a request  *)
(* may rely on between two of its calls: the id it checked was issued, so  *)
(* that no new scenario gets it, and stays with its user (Allowed); so do  *)
(* the records it holds (HeldIsTheirs); what it listed is still there, or  *)
(* was removed since it came in (ListedOrGone).                            *)
(***************************************************************************)
Scripted(c) ==
  /\ req[c].door = "ui_list" => step[c] \in {"idle", "list", "open", "answered"}
  /\ step[c] = "list" => req[c].door = "ui_list"
  /\ step[c] # "answered" => answer[c] = NoAnswer

Allowed(c) ==
  step[c] = "act" /\ req[c].door \notin {"create", "purge"} =>
    /\ req[c].id < store.next_id
    /\ req[c].id \in DOMAIN store.records => store.records[req[c].id].owner = req[c].user

HeldIsTheirs(c) ==
  \A rec \in held[c] :
    /\ rec.owner = req[c].user
    /\ rec.id < store.next_id
    /\ rec.id \in DOMAIN store.records => SameScenario(rec, store.records[rec.id])

ListedOrGone(c) ==
  step[c] = "open" =>
    \A id \in pending[c] \ removed[c] :
      /\ id \in DOMAIN store.records
      /\ store.records[id].deleted = NotDeleted
      /\ store.records[id].owner = req[c].user

AnsweredTheirs(c) ==
  req[c].door # "purge" => \A rec \in answer[c].value : rec.owner = req[c].user

MissedForARemoval(c) ==
  req[c].door = "ui_list" /\ answer[c].status = "404" => pending[c] \cap removed[c] # {}

ClientOK(c) ==
  /\ Scripted(c) /\ Allowed(c) /\ HeldIsTheirs(c)
  /\ ListedOrGone(c) /\ AnsweredTheirs(c) /\ MissedForARemoval(c)

IInv == TypeOK /\ \A c \in Clients : ClientOK(c)

USE DoorRequestsAssumption, StoresAssumption, CapsAssumption

-----------------------------------------------------------------------------
(***************************************************************************)
(* The store moves on: ids are issued upwards, a scenario stays the one it *)
(* is, and what goes out of the active ones is noted for every request.    *)
(***************************************************************************)
StoreMovesOn ==
  /\ store.next_id <= store'.next_id
  /\ \A i \in DOMAIN store'.records \ DOMAIN store.records : i >= store.next_id
  /\ \A i \in DOMAIN store'.records \cap DOMAIN store.records :
       SameScenario(store.records[i], store'.records[i])

Notes(c) == removed'[c] = removed[c] \cup TakenOut(store, store')

SameSession(c) ==
  /\ step'[c] = step[c] /\ req'[c] = req[c] /\ held'[c] = held[c]
  /\ pending'[c] = pending[c] /\ answer'[c] = answer[c]

LEMMA StoreRests ==
  ASSUME TypeOK, store' = store
  PROVE  StoreMovesOn /\ TakenOut(store, store') = {}
<1>1. \A i \in DOMAIN store.records : store.records[i].version \in Nat /\ store.next_id \in Nat
  BY DEF TypeOK, StateType, Record
<1>2. store.next_id \in Nat
  BY DEF TypeOK, StateType
<1>3. TakenOut(store, store) = {}
  BY DEF TakenOut
<1> QED BY <1>1, <1>2, <1>3 DEF StoreMovesOn, SameScenario

\* Facts about a sound store that every proof below needs.
LEMMA StoreFacts ==
  ASSUME TypeOK
  PROVE  /\ store.next_id \in Nat
         /\ \A i \in DOMAIN store.records :
              /\ i \in Nat /\ i # 0 /\ i < store.next_id
              /\ store.records[i] \in Record /\ store.records[i].id = i
              /\ store.records[i].version \in Nat
  BY DEF TypeOK, StateType, Sound, LineageSound, IdsBelowNext, RecordSound, Record

(***************************************************************************)
(* What a request relies on survives the steps of the others.              *)
(***************************************************************************)
LEMMA OthersDisturbNothing ==
  ASSUME TypeOK, NEW c \in Clients, ClientOK(c), StateType(store'),
         StoreMovesOn, Notes(c), SameSession(c)
  PROVE  ClientOK(c)'
<1>0. /\ store.next_id \in Nat /\ store'.next_id \in Nat
      /\ DOMAIN store.records \subseteq Nat
      /\ \A i \in DOMAIN store.records : store.records[i].version \in Nat
      /\ \A i \in DOMAIN store'.records : store'.records[i].version \in Nat
  BY StoreFacts DEF StateType, Record
<1>1. Scripted(c)'
  BY DEF ClientOK, Scripted, SameSession
<1>2. Allowed(c)'
  <2> SUFFICES ASSUME step[c] = "act", req[c].door \notin {"create", "purge"}
               PROVE  /\ req[c].id < store'.next_id
                      /\ req[c].id \in DOMAIN store'.records
                         => store'.records[req[c].id].owner = req[c].user
    BY DEF Allowed, SameSession
  <2>1. /\ req[c].id \in Nat /\ req[c].id < store.next_id
        /\ req[c].id \in DOMAIN store.records => store.records[req[c].id].owner = req[c].user
    BY DEF ClientOK, Allowed, TypeOK, DoorRequest
  <2>2. req[c].id \in DOMAIN store'.records => req[c].id \in DOMAIN store.records
    BY <1>0, <2>1 DEF StoreMovesOn
  <2> QED BY <1>0, <2>1, <2>2 DEF StoreMovesOn, SameScenario
<1>3. HeldIsTheirs(c)'
  <2> SUFFICES ASSUME NEW rec \in held[c]
               PROVE  /\ rec.owner = req[c].user
                      /\ rec.id < store'.next_id
                      /\ rec.id \in DOMAIN store'.records
                         => SameScenario(rec, store'.records[rec.id])
    BY DEF HeldIsTheirs, SameScenario, SameSession
  <2>1. /\ rec.id \in Nat /\ rec.version \in Nat
        /\ rec.owner = req[c].user /\ rec.id < store.next_id
        /\ rec.id \in DOMAIN store.records => SameScenario(rec, store.records[rec.id])
    BY DEF ClientOK, HeldIsTheirs, TypeOK, Record
  <2>2. rec.id \in DOMAIN store'.records => rec.id \in DOMAIN store.records
    BY <1>0, <2>1 DEF StoreMovesOn
  <2> QED BY <1>0, <2>1, <2>2 DEF StoreMovesOn, SameScenario
<1>4. ListedOrGone(c)'
  <2> SUFFICES ASSUME step[c] = "open", NEW id \in pending[c] \ removed'[c]
               PROVE  /\ id \in DOMAIN store'.records
                      /\ store'.records[id].deleted = NotDeleted
                      /\ store'.records[id].owner = req[c].user
    BY DEF ListedOrGone, SameSession
  <2>1. /\ id \notin removed[c] /\ id \notin TakenOut(store, store')
    BY DEF Notes
  <2>2. /\ id \in DOMAIN store.records
        /\ store.records[id].deleted = NotDeleted
        /\ store.records[id].owner = req[c].user
    BY <2>1 DEF ClientOK, ListedOrGone
  <2> QED BY <2>1, <2>2 DEF TakenOut, StoreMovesOn, SameScenario
<1>5. AnsweredTheirs(c)'
  BY DEF ClientOK, AnsweredTheirs, SameSession
<1>6. MissedForARemoval(c)'
  BY DEF ClientOK, MissedForARemoval, SameSession, Notes
<1> QED BY <1>1, <1>2, <1>3, <1>4, <1>5, <1>6 DEF ClientOK

-----------------------------------------------------------------------------
(***************************************************************************)
(* What the refusals of a look-up leave: a record that is the user's.      *)
(***************************************************************************)
LEMMA Looked ==
  ASSUME TypeOK, NEW c \in Clients, NEW id \in Nat, NEW activeOnly \in BOOLEAN
  PROVE  /\ Refusal(c, id, activeOnly) \in {"404", "403", "none"}
         /\ Refusal(c, id, activeOnly) = "none" =>
              /\ id \in DOMAIN store.records /\ store.records[id] \in Record
              /\ store.records[id].owner = req[c].user
              /\ store.records[id].id = id
              /\ store.records[id].id < store.next_id
              /\ SameScenario(store.records[id], store.records[id])
         /\ (Refusal(c, id, activeOnly) = "none" /\ activeOnly) =>
              store.records[id].deleted = NotDeleted
         /\ Refusal(c, id, TRUE) = "404" <=> Absent(id, TRUE)
<1>1. Refusal(c, id, activeOnly) = "none"
      => id \in DOMAIN store.records /\ store.records[id].owner = req[c].user
  BY DEF Refusal, Absent, MayTouch
<1>2. id \in DOMAIN store.records =>
        /\ store.records[id] \in Record /\ store.records[id].id = id
        /\ store.records[id].id < store.next_id
        /\ SameScenario(store.records[id], store.records[id])
  BY StoreFacts DEF SameScenario
<1> QED BY <1>1, <1>2 DEF Refusal, Absent

LEMMA InitIInv == Init => IInv
<1> SUFFICES ASSUME Init PROVE IInv
  OBVIOUS
<1>1. AnyRequest \in Requests
  BY DEF AnyRequest
<1>2. TypeOK
  BY <1>1 DEF Init, TypeOK, Steps, Statuses, NoAnswer
<1>3. ASSUME NEW c \in Clients PROVE ClientOK(c)
  BY DEF Init, ClientOK, Scripted, Allowed, HeldIsTheirs, ListedOrGone,
         AnsweredTheirs, MissedForARemoval, NoAnswer
<1> QED BY <1>2, <1>3 DEF IInv

(***************************************************************************)
(* A step of request c that leaves the store alone: the others keep what   *)
(* they rely on, so types and c itself are all there is to prove.          *)
(***************************************************************************)
Quiet(c) ==
  /\ store' = store
  /\ \A d \in Clients : d # c => SameSession(d) /\ removed'[d] = removed[d]

LEMMA QuietStep ==
  ASSUME IInv, NEW c \in Clients, Quiet(c), TypeOK', ClientOK(c)'
  PROVE  IInv'
<1>1. ASSUME NEW d \in Clients, d # c PROVE ClientOK(d)'
  <2>1. StateType(store') /\ ClientOK(d)
    BY DEF IInv, TypeOK
  <2>2. StoreMovesOn /\ Notes(d)
    BY <1>1, StoreRests DEF Quiet, IInv, Notes
  <2> QED BY <1>1, <2>1, <2>2, OthersDisturbNothing DEF Quiet, IInv
<1> QED BY <1>1 DEF IInv

LEMMA ReceiveIInv ==
  ASSUME IInv, NEW c \in Clients, NEW r \in Requests, Receive(c, r)
  PROVE  IInv'
<1>1. /\ Quiet(c)
      /\ step'[c] = FirstStep(r.door) /\ req'[c] = r
      /\ held'[c] = {} /\ pending'[c] = {} /\ answer'[c] = NoAnswer
  BY DEF Receive, Quiet, SameSession, IInv, TypeOK
<1>2. TypeOK'
  <2>1. FirstStep(r.door) \in Steps
    BY DEF FirstStep, Steps
  <2>2. NoAnswer \in [status : Statuses, value : SUBSET Record]
    BY DEF NoAnswer, Statuses
  <2> QED BY <2>1, <2>2 DEF IInv, TypeOK, Receive
<1>3. ClientOK(c)'
  BY <1>1 DEF ClientOK, Scripted, Allowed, HeldIsTheirs, ListedOrGone,
              AnsweredTheirs, MissedForARemoval, NoAnswer, FirstStep
<1> QED BY <1>1, <1>2, <1>3, QuietStep

LEMMA ReplyType ==
  ASSUME TypeOK, NEW c \in Clients, NEW status \in Statuses, NEW value \in SUBSET Record,
         Reply(c, status, value)
  PROVE  /\ step' \in [Clients -> Steps]
         /\ answer' \in [Clients -> [status : Statuses, value : SUBSET Record]]
         /\ step'[c] = "answered"
         /\ answer'[c].status = status /\ answer'[c].value = value
         /\ \A d \in Clients : d # c => step'[d] = step[d] /\ answer'[d] = answer[d]
<1>1. Answer(status, value) \in [status : Statuses, value : SUBSET Record]
  BY DEF Answer
<1>2. "answered" \in Steps
  BY DEF Steps
<1> QED BY <1>1, <1>2 DEF Reply, TypeOK, Answer

LEMMA ReadNameIInv ==
  ASSUME IInv, NEW c \in Clients, ReadName(c)
  PROVE  IInv'
<1>1. /\ step[c] = "name" /\ UNCHANGED <<store, clock, req, held, pending, calls, removed>>
  BY DEF ReadName
<1>2. CASE Refusal(c, req[c].id, TRUE) # "none"
  <2>1. Reply(c, "404", {})
    BY <1>2 DEF ReadName
  <2>2. "404" \in Statuses /\ {} \in SUBSET Record
    BY DEF Statuses
  <2>3. TypeOK' /\ Quiet(c)
    BY <1>1, <2>1, <2>2, ReplyType DEF IInv, TypeOK, Quiet, SameSession
  <2>4. ClientOK(c)'
    BY <1>1, <2>1, <2>2, ReplyType
    DEF IInv, ClientOK, Scripted, Allowed, HeldIsTheirs, ListedOrGone,
        AnsweredTheirs, MissedForARemoval
  <2> QED BY <2>3, <2>4, QuietStep
<1>3. CASE Refusal(c, req[c].id, TRUE) = "none"
  <2>1. step' = [step EXCEPT ![c] = "load"] /\ UNCHANGED answer
    BY <1>3 DEF ReadName
  <2>2. TypeOK' /\ Quiet(c) /\ step'[c] = "load"
    BY <1>1, <2>1 DEF IInv, TypeOK, Quiet, SameSession, Steps
  <2>3. ClientOK(c)'
    BY <1>1, <2>1, <2>2
    DEF IInv, ClientOK, Scripted, Allowed, HeldIsTheirs, ListedOrGone,
        AnsweredTheirs, MissedForARemoval
  <2> QED BY <2>2, <2>3, QuietStep
<1> QED BY <1>2, <1>3

LEMMA LoadAndCheckIInv ==
  ASSUME IInv, NEW c \in Clients, LoadAndCheck(c)
  PROVE  IInv'
<1> DEFINE id == req[c].id
           door == req[c].door
           rec == store.records[id]
           refusal == Refusal(c, id, SeesActiveOnly(door))
<1>1. /\ step[c] = "load" /\ UNCHANGED <<store, clock, req, pending, calls, removed>>
  BY DEF LoadAndCheck
<1>2. /\ id \in Nat /\ door \in Doors /\ SeesActiveOnly(door) \in BOOLEAN
      /\ door # "ui_list"
  BY <1>1 DEF IInv, TypeOK, DoorRequest, ClientOK, Scripted, SeesActiveOnly
<1>3. /\ refusal \in {"404", "403", "none"}
      /\ refusal = "none" =>
           /\ id \in DOMAIN store.records /\ rec \in Record
           /\ rec.owner = req[c].user /\ rec.id = id /\ rec.id < store.next_id
           /\ SameScenario(rec, rec)
  BY <1>2, Looked DEF IInv
<1>4. CASE refusal # "none"
  <2>1. /\ Reply(c, IF door = "ui_run" THEN "400" ELSE refusal, {}) /\ UNCHANGED held
    BY <1>4 DEF LoadAndCheck
  <2>2. PICK status \in Statuses : Reply(c, status, {})
    BY <1>3, <1>4, <2>1 DEF Statuses
  <2>3. TypeOK' /\ Quiet(c)
    BY <1>1, <2>1, <2>2, ReplyType DEF IInv, TypeOK, Quiet, SameSession
  <2>4. ClientOK(c)'
    BY <1>1, <1>2, <2>1, <2>2, ReplyType
    DEF IInv, ClientOK, Scripted, Allowed, HeldIsTheirs, ListedOrGone,
        AnsweredTheirs, MissedForARemoval
  <2> QED BY <2>3, <2>4, QuietStep
<1>5. CASE refusal = "none"
  <2>1. /\ held' = [held EXCEPT ![c] = {rec}]
        /\ \/ Reply(c, "ok", {rec})
           \/ step' = [step EXCEPT ![c] = "settings"] /\ UNCHANGED answer
           \/ step' = [step EXCEPT ![c] = "act"] /\ UNCHANGED answer
    BY <1>5 DEF LoadAndCheck
  <2> HIDE DEF rec, refusal
  <2>2. /\ held' \in [Clients -> SUBSET Record] /\ held'[c] = {rec}
        /\ \A d \in Clients : d # c => held'[d] = held[d]
    BY <1>3, <1>5, <2>1 DEF IInv, TypeOK
  <2>3. HeldIsTheirs(c)'
    BY <1>1, <1>3, <1>5, <2>2 DEF HeldIsTheirs, rec
  <2>4. CASE Reply(c, "ok", {rec})
    <3>1. "ok" \in Statuses /\ {rec} \in SUBSET Record
      BY <1>3, <1>5 DEF Statuses
    <3>2. TypeOK' /\ Quiet(c)
      BY <1>1, <2>2, <2>4, <3>1, ReplyType DEF IInv, TypeOK, Quiet, SameSession
    <3>3. ClientOK(c)'
      BY <1>1, <1>2, <1>3, <1>5, <2>3, <2>4, <3>1, ReplyType
      DEF IInv, ClientOK, Scripted, Allowed, ListedOrGone, AnsweredTheirs, MissedForARemoval
    <3> QED BY <3>2, <3>3, QuietStep
  <2>5. CASE /\ step' \in {[step EXCEPT ![c] = "settings"], [step EXCEPT ![c] = "act"]}
             /\ UNCHANGED answer
    <3>1. TypeOK' /\ Quiet(c) /\ step'[c] \in {"settings", "act"}
      BY <1>1, <2>2, <2>5 DEF IInv, TypeOK, Quiet, SameSession, Steps
    <3>2. ClientOK(c)'
      BY <1>1, <1>2, <1>3, <1>5, <2>3, <2>5, <3>1
      DEF IInv, ClientOK, Scripted, Allowed, ListedOrGone, AnsweredTheirs, MissedForARemoval, rec
    <3> QED BY <3>1, <3>2, QuietStep
  <2> QED BY <2>1, <2>4, <2>5
<1> QED BY <1>4, <1>5

LEMMA ReadSettingsIInv ==
  ASSUME IInv, NEW c \in Clients, ReadSettings(c)
  PROVE  IInv'
<1>1. /\ step[c] = "settings" /\ UNCHANGED <<store, clock, req, pending, calls, removed>>
      /\ req[c].door # "ui_list"
  BY DEF ReadSettings, IInv, ClientOK, Scripted
<1>2. PICK scenario \in held[c] :
        LET id == scenario.body.settings
        IN  IF Refusal(c, id, TRUE) # "none"
            THEN Reply(c, "400", {}) /\ UNCHANGED held
            ELSE /\ held' = [held EXCEPT ![c] = @ \cup {store.records[id]}]
                 /\ Reply(c, "ok", held[c] \cup {store.records[id]})
  BY DEF ReadSettings
<1> DEFINE id == scenario.body.settings
           rec == store.records[id]
<1>3. id \in Nat
  <2>1. scenario \in Record
    BY DEF IInv, TypeOK
  <2>2. scenario.body \in [kind : Kinds, settings : Nat]
    BY <2>1, BodiesAssumption DEF Record
  <2> QED BY <2>2
<1>4. CASE Refusal(c, id, TRUE) # "none"
  <2>1. Reply(c, "400", {}) /\ UNCHANGED held
    BY <1>2, <1>4
  <2>2. "400" \in Statuses /\ {} \in SUBSET Record
    BY DEF Statuses
  <2>3. TypeOK' /\ Quiet(c)
    BY <1>1, <2>1, <2>2, ReplyType DEF IInv, TypeOK, Quiet, SameSession
  <2>4. ClientOK(c)'
    BY <1>1, <2>1, <2>2, ReplyType
    DEF IInv, ClientOK, Scripted, Allowed, HeldIsTheirs, ListedOrGone,
        AnsweredTheirs, MissedForARemoval
  <2> QED BY <2>3, <2>4, QuietStep
<1>5. CASE Refusal(c, id, TRUE) = "none"
  <2>1. /\ held' = [held EXCEPT ![c] = held[c] \cup {rec}]
        /\ Reply(c, "ok", held[c] \cup {rec})
    BY <1>2, <1>5
  <2>2. /\ id \in DOMAIN store.records /\ rec \in Record
        /\ rec.owner = req[c].user /\ rec.id = id /\ rec.id < store.next_id
        /\ SameScenario(rec, rec)
    BY <1>3, <1>5, Looked DEF IInv
  <2> HIDE DEF id
  <2>3. /\ held' \in [Clients -> SUBSET Record] /\ held'[c] = held[c] \cup {rec}
        /\ \A d \in Clients : d # c => held'[d] = held[d]
        /\ held[c] \cup {rec} \in SUBSET Record /\ "ok" \in Statuses
    BY <2>1, <2>2 DEF IInv, TypeOK, Statuses
  <2>4. TypeOK' /\ Quiet(c)
    BY <1>1, <2>1, <2>3, ReplyType DEF IInv, TypeOK, Quiet, SameSession
  <2>5. HeldIsTheirs(c)'
    BY <1>1, <2>2, <2>3 DEF IInv, ClientOK, HeldIsTheirs
  <2>6. AnsweredTheirs(c)'
    BY <1>1, <2>1, <2>2, <2>3, ReplyType DEF IInv, ClientOK, AnsweredTheirs, HeldIsTheirs
  <2>7. ClientOK(c)'
    BY <1>1, <2>1, <2>3, <2>5, <2>6, ReplyType
    DEF IInv, ClientOK, Scripted, Allowed, ListedOrGone, MissedForARemoval
  <2> QED BY <2>4, <2>7, QuietStep
<1> QED BY <1>4, <1>5

LEMMA ActRefusedIInv ==
  ASSUME IInv, NEW c \in Clients, ActRefused(c)
  PROVE  IInv'
<1>1. /\ step[c] = "act" /\ UNCHANGED <<store, clock, req, held, pending, calls, removed>>
      /\ req[c].door # "ui_list"
      /\ Reply(c, IF req[c].door = "ui_delete" THEN "404" ELSE "500", {})
  BY DEF ActRefused, IInv, ClientOK, Scripted
<1>2. PICK status \in Statuses : Reply(c, status, {})
  BY <1>1 DEF Statuses
<1>3. TypeOK' /\ Quiet(c)
  BY <1>1, <1>2, ReplyType DEF IInv, TypeOK, Quiet, SameSession
<1>4. ClientOK(c)'
  BY <1>1, <1>2, ReplyType
  DEF IInv, ClientOK, Scripted, Allowed, HeldIsTheirs, ListedOrGone,
      AnsweredTheirs, MissedForARemoval
<1> QED BY <1>3, <1>4, QuietStep

LEMMA StoreRequestType ==
  ASSUME TypeOK, NEW c \in Clients
  PROVE  /\ StoreRequest(req[c]) \in Request
         /\ StoreRequest(req[c]).op = StoreOp(req[c].door)
         /\ StoreRequest(req[c]).owner = req[c].user
         /\ StoreRequest(req[c]).id = IF req[c].door = "create" THEN 0 ELSE req[c].id
         /\ req[c].door # "purge" <=> StoreOp(req[c].door) # "purge_expired"
<1>1. req[c] \in DoorRequest
  BY DEF TypeOK
<1>2. StoreOp(req[c].door) \in Operations
  BY DEF StoreOp, Operations
<1>3. /\ req[c].id \in Nat /\ req[c].body \in Bodies /\ req[c].user \in Owners
      /\ req[c].version \in Nat /\ clock \in Nat /\ req[c].door \in Doors
  BY <1>1 DEF DoorRequest, TypeOK
<1>4. req[c].door # "purge" <=> StoreOp(req[c].door) # "purge_expired"
  BY <1>3 DEF StoreOp, Doors
<1> QED BY <1>2, <1>3, <1>4 DEF StoreRequest, Request

\* What Act does to the store is one call of it.
LEMMA ActMovesOn ==
  ASSUME IInv, NEW c \in Clients, Act(c)
  PROVE  /\ StateType(store') /\ Sound(store') /\ StoreMovesOn
         /\ \A d \in Clients : Notes(d)
         /\ \A i \in DOMAIN store.records :
              \/ /\ i \in DOMAIN store'.records
                 /\ store'.records[i] # store.records[i] =>
                      i = StoreRequest(req[c]).id /\ req[c].door # "purge"
              \/ i \notin DOMAIN store'.records /\ req[c].door = "purge"
<1> DEFINE o == Outcome(store, StoreRequest(req[c]), clock)
<1>1. /\ StateType(store) /\ Sound(store) /\ StoreRequest(req[c]) \in Request /\ clock \in Nat
  BY StoreRequestType DEF IInv, TypeOK
<1>2. store' = o.state
  BY DEF Act
<1>3. StateType(store') /\ Sound(store')
  BY <1>1, <1>2, OutcomeSound
<1>4. IssuesOnwards(store, store')
  BY <1>1, <1>2, OutcomeIssuesOnwards
<1>5. \A i \in DOMAIN store.records :
        \/ /\ i \in DOMAIN store'.records
           /\ SameScenario(store.records[i], store'.records[i])
           /\ store'.records[i] # store.records[i] =>
                /\ i = StoreRequest(req[c]).id
                /\ StoreRequest(req[c]).op # "purge_expired"
        \/ i \notin DOMAIN store'.records /\ StoreRequest(req[c]).op = "purge_expired"
  BY <1>1, <1>2, OutcomeTouches
<1>6. StoreMovesOn
  BY <1>4, <1>5 DEF StoreMovesOn, IssuesOnwards
<1>7. \A d \in Clients : Notes(d)
  BY <1>2 DEF Act, Notes
<1> QED BY <1>3, <1>5, <1>6, <1>7, StoreRequestType DEF IInv

LEMMA ActIInv ==
  ASSUME IInv, NEW c \in Clients, Act(c)
  PROVE  IInv'
<1> DEFINE r == StoreRequest(req[c])
           o == Outcome(store, r, clock)
<1>1. /\ step[c] = "act" /\ UNCHANGED <<clock, req, held, pending, calls>>
      /\ req[c].door # "ui_list"
      /\ Reply(c, CASE o.status = "ok" -> "ok"
                    [] req[c].door = "update" -> "500"
                    [] OTHER -> "404", o.value)
      /\ removed' = [d \in Clients |-> removed[d] \cup TakenOut(store, store')]
  BY DEF Act, IInv, ClientOK, Scripted
<1>2. /\ StateType(store) /\ Sound(store) /\ r \in Request /\ clock \in Nat
      /\ StateType(store') /\ Sound(store') /\ StoreMovesOn
      /\ \A d \in Clients : Notes(d)
  BY ActMovesOn, StoreRequestType DEF IInv, TypeOK
<1>3. o.value \in SUBSET Record
  BY <1>2, OutcomeSound
<1>4. req[c].door # "purge" => \A rec \in o.value : rec.owner = req[c].user
  <2> SUFFICES ASSUME req[c].door # "purge", NEW rec \in o.value
               PROVE  rec.owner = req[c].user
    OBVIOUS
  <2>1. r.op # "purge_expired" /\ r.owner = req[c].user
        /\ r.id = IF req[c].door = "create" THEN 0 ELSE req[c].id
    BY StoreRequestType DEF IInv
  <2>2. Known(store, r.id) => store.records[r.id].owner = r.owner
    <3>1. 0 \notin DOMAIN store.records
      BY StoreFacts DEF IInv
    <3> QED BY <1>1, <2>1, <3>1 DEF Known, IInv, ClientOK, Allowed
  <2> QED BY <1>2, <2>1, <2>2, OutcomeAnswersOwner
<1> HIDE DEF o, r
<1>5. PICK status \in Statuses : Reply(c, status, o.value)
  BY <1>1 DEF Statuses
<1>6. /\ \A d \in Clients : d # c => SameSession(d)
      /\ step'[c] = "answered" /\ answer'[c].value = o.value
      /\ step' \in [Clients -> Steps]
      /\ answer' \in [Clients -> [status : Statuses, value : SUBSET Record]]
  BY <1>1, <1>3, <1>5, ReplyType DEF IInv, SameSession
<1>7. TypeOK'
  <2>1. TakenOut(store, store') \subseteq Nat
    BY StoreFacts DEF TakenOut, IInv
  <2>2. removed' \in [Clients -> SUBSET Nat]
    BY <1>1, <2>1 DEF IInv, TypeOK
  <2> QED BY <1>1, <1>2, <1>6, <2>2 DEF IInv, TypeOK
<1>8. ASSUME NEW d \in Clients, d # c PROVE ClientOK(d)'
  BY <1>2, <1>6, <1>8, OthersDisturbNothing DEF IInv
<1>9. ClientOK(c)'
  <2>1. HeldIsTheirs(c)'
    <3> SUFFICES ASSUME NEW rec \in held[c]
                 PROVE  /\ rec.owner = req[c].user
                        /\ rec.id < store'.next_id
                        /\ rec.id \in DOMAIN store'.records
                           => SameScenario(rec, store'.records[rec.id])
      BY <1>1 DEF HeldIsTheirs, SameScenario
    <3>1. /\ rec.id \in Nat /\ rec.version \in Nat
          /\ rec.owner = req[c].user /\ rec.id < store.next_id
          /\ rec.id \in DOMAIN store.records => SameScenario(rec, store.records[rec.id])
      BY DEF IInv, ClientOK, HeldIsTheirs, TypeOK, Record
    <3>2. /\ store.next_id \in Nat /\ store'.next_id \in Nat
          /\ DOMAIN store.records \subseteq Nat
          /\ \A i \in DOMAIN store.records : store.records[i].version \in Nat
          /\ \A i \in DOMAIN store'.records : store'.records[i].version \in Nat
      BY <1>2, StoreFacts DEF IInv, StateType, Record
    <3>3. rec.id \in DOMAIN store'.records => rec.id \in DOMAIN store.records
      BY <1>2, <3>1, <3>2 DEF StoreMovesOn
    <3> QED BY <1>2, <3>1, <3>2, <3>3 DEF StoreMovesOn, SameScenario
  <2>2. AnsweredTheirs(c)'
    BY <1>1, <1>4, <1>6 DEF AnsweredTheirs
  <2> QED BY <1>1, <1>6, <2>1, <2>2
          DEF ClientOK, Scripted, Allowed, ListedOrGone, MissedForARemoval
<1> QED BY <1>7, <1>8, <1>9 DEF IInv

LEMMA ListIInv ==
  ASSUME IInv, NEW c \in Clients, List(c)
  PROVE  IInv'
<1> DEFINE r == StoreRequest(req[c])
           rows == Outcome(store, r, clock).value
<1>1. /\ step[c] = "list" /\ UNCHANGED <<store, clock, req, held, answer, calls, removed>>
      /\ pending' = [pending EXCEPT ![c] = {rec.id : rec \in rows}]
      /\ step' = [step EXCEPT ![c] = "open"]
      /\ req[c].door = "ui_list"
  BY DEF List, IInv, ClientOK, Scripted
<1>2. /\ StateType(store) /\ Sound(store) /\ r \in Request
      /\ r.op = "list_active" /\ r.owner = req[c].user
  BY <1>1, StoreRequestType DEF IInv, TypeOK, StoreOp
<1>3. \A rec \in rows :
        /\ rec.id \in DOMAIN store.records /\ store.records[rec.id] = rec
        /\ rec.owner = req[c].user /\ rec.deleted = NotDeleted
  BY <1>2, ListActiveAnswer
<1> HIDE DEF rows
<1>4. /\ pending'[c] = {rec.id : rec \in rows} /\ pending' \in [Clients -> SUBSET Nat]
      /\ \A d \in Clients : d # c => pending'[d] = pending[d]
  BY <1>1, <1>3, StoreFacts DEF IInv, TypeOK
<1>5. TypeOK' /\ Quiet(c) /\ step'[c] = "open"
  BY <1>1, <1>4 DEF IInv, TypeOK, Quiet, SameSession, Steps
<1>6. ListedOrGone(c)'
  BY <1>1, <1>3, <1>4 DEF ListedOrGone
<1>7. answer[c].status # "404"
  BY <1>1 DEF IInv, ClientOK, Scripted, NoAnswer
<1>8. ClientOK(c)'
  BY <1>1, <1>5, <1>6, <1>7
  DEF IInv, ClientOK, Scripted, Allowed, HeldIsTheirs, AnsweredTheirs, MissedForARemoval
<1> QED BY <1>5, <1>8, QuietStep

LEMMA OpenNextIInv ==
  ASSUME IInv, NEW c \in Clients, OpenNext(c)
  PROVE  IInv'
<1>1. /\ step[c] = "open" /\ UNCHANGED <<store, clock, req, calls, removed>>
  BY DEF OpenNext
<1>2. PICK id \in pending[c] :
        IF Refusal(c, id, TRUE) # "none"
        THEN Reply(c, Refusal(c, id, TRUE), {}) /\ UNCHANGED <<held, pending>>
        ELSE /\ held' = [held EXCEPT ![c] = @ \cup {store.records[id]}]
             /\ pending' = [pending EXCEPT ![c] = @ \ {id}]
             /\ UNCHANGED <<step, answer>>
  BY DEF OpenNext
<1>3. id \in Nat
  BY DEF IInv, TypeOK
<1> DEFINE rec == store.records[id]
<1>4. CASE Refusal(c, id, TRUE) # "none"
  <2>1. /\ Reply(c, Refusal(c, id, TRUE), {}) /\ UNCHANGED <<held, pending>>
    BY <1>2, <1>4
  <2>2. id \in removed[c]
    BY <1>1, <1>4 DEF IInv, ClientOK, ListedOrGone, Refusal, Absent, MayTouch
  <2>3. PICK status \in Statuses : Reply(c, status, {})
    BY <1>3, <1>4, <2>1, Looked DEF IInv, Statuses
  <2>4. TypeOK' /\ Quiet(c)
    BY <1>1, <2>1, <2>3, ReplyType DEF IInv, TypeOK, Quiet, SameSession
  <2>5. ClientOK(c)'
    BY <1>1, <2>1, <2>2, <2>3, ReplyType
    DEF IInv, ClientOK, Scripted, Allowed, HeldIsTheirs, ListedOrGone,
        AnsweredTheirs, MissedForARemoval
  <2> QED BY <2>4, <2>5, QuietStep
<1>5. CASE Refusal(c, id, TRUE) = "none"
  <2>1. /\ held' = [held EXCEPT ![c] = held[c] \cup {rec}]
        /\ pending' = [pending EXCEPT ![c] = pending[c] \ {id}]
        /\ UNCHANGED <<step, answer>>
    BY <1>2, <1>5
  <2>2. /\ id \in DOMAIN store.records /\ rec \in Record
        /\ rec.owner = req[c].user /\ rec.id = id /\ rec.id < store.next_id
        /\ SameScenario(rec, rec)
    BY <1>3, <1>5, Looked DEF IInv
  <2>3. /\ held' \in [Clients -> SUBSET Record] /\ held'[c] = held[c] \cup {rec}
        /\ pending' \in [Clients -> SUBSET Nat] /\ pending'[c] = pending[c] \ {id}
    BY <2>1, <2>2 DEF IInv, TypeOK
  <2>4. TypeOK' /\ Quiet(c)
    BY <1>1, <2>1, <2>3 DEF IInv, TypeOK, Quiet, SameSession
  <2>5. HeldIsTheirs(c)'
    BY <1>1, <2>2, <2>3 DEF IInv, ClientOK, HeldIsTheirs
  <2>6. answer[c].status # "404"
    BY <1>1 DEF IInv, ClientOK, Scripted, NoAnswer
  <2>7. ClientOK(c)'
    BY <1>1, <2>1, <2>3, <2>5, <2>6
    DEF IInv, ClientOK, Scripted, Allowed, ListedOrGone, AnsweredTheirs, MissedForARemoval
  <2> QED BY <2>4, <2>7, QuietStep
<1> QED BY <1>4, <1>5

LEMMA ShowListIInv ==
  ASSUME IInv, NEW c \in Clients, ShowList(c)
  PROVE  IInv'
<1>1. /\ step[c] = "open" /\ UNCHANGED <<store, clock, req, held, pending, calls, removed>>
      /\ Reply(c, "ok", held[c])
  BY DEF ShowList
<1>2. "ok" \in Statuses /\ held[c] \in SUBSET Record
  BY DEF IInv, TypeOK, Statuses
<1>3. TypeOK' /\ Quiet(c)
  BY <1>1, <1>2, ReplyType DEF IInv, TypeOK, Quiet, SameSession
<1>4. ClientOK(c)'
  BY <1>1, <1>2, ReplyType
  DEF IInv, ClientOK, Scripted, Allowed, HeldIsTheirs, ListedOrGone,
      AnsweredTheirs, MissedForARemoval
<1> QED BY <1>3, <1>4, QuietStep

LEMMA NextIInv == IInv /\ [Next]_vars => IInv'
<1> SUFFICES ASSUME IInv, [Next]_vars PROVE IInv'
  OBVIOUS
<1>1. ASSUME NEW c \in Clients, Serve(c) PROVE IInv'
  BY <1>1, ReadNameIInv, LoadAndCheckIInv, ReadSettingsIInv, ActIInv, ActRefusedIInv,
     ListIInv, OpenNextIInv, ShowListIInv DEF Serve
<1>2. ASSUME NEW c \in Clients, NEW r \in Requests, Receive(c, r) PROVE IInv'
  BY <1>2, ReceiveIInv
<1>3. CASE Tick \/ UNCHANGED vars
  <2>1. /\ store' = store /\ removed' = removed
        /\ \A d \in Clients : SameSession(d)
        /\ TypeOK'
    BY <1>3 DEF Tick, vars, session, SameSession, IInv, TypeOK
  <2>2. ASSUME NEW d \in Clients PROVE ClientOK(d)'
    BY <2>1, StoreRests, OthersDisturbNothing DEF IInv, TypeOK, Notes
  <2> QED BY <2>1, <2>2 DEF IInv
<1> QED BY <1>1, <1>2, <1>3 DEF Next

\* The invariant of the requests holds throughout.
THEOREM Invariance == Spec => []IInv
  BY InitIInv, NextIInv, PTL DEF Spec

\* Every variable keeps its type, and the store stays sound (TypeOK).
THEOREM TypeCorrect == Spec => []TypeOK
  BY Invariance, PTL DEF IInv

(***************************************************************************)
(* What a request has read stays the scenario it is, it is answered with   *)
(* what belongs to its user, and a list screen misses a scenario only when *)
(* somebody took it away (HeldStaysItself): for any number of requests.    *)
(***************************************************************************)
THEOREM ReadingsStay == Spec => []HeldStaysItself
<1>1. IInv => HeldStaysItself
  BY DEF IInv, ClientOK, HeldIsTheirs, AnsweredTheirs, MissedForARemoval,
         HeldStaysItself, SameScenario
<1> QED BY <1>1, Invariance, PTL

\* The routes beside the in-memory store are the routes alone: what holds of
\* them holds of the composition.
LEMMA RoutesAreRoutes == RequestsSpec => Spec
<1>1. RequestsInit => Init
  BY DEF RequestsInit
<1>2. [RequestsNext]_<<part, vars, stores>> => [Next]_vars
  BY DEF RequestsNext
<1> QED BY <1>1, <1>2, PTL DEF RequestsSpec, Spec

\* Only Act changes the store.
LEMMA ActChanges ==
  ASSUME [Next]_vars
  PROVE  store' = store \/ \E c \in Clients : Act(c)
  BY DEF Next, Serve, vars, Receive, ReadName, LoadAndCheck, ReadSettings, ActRefused,
         List, OpenNext, ShowList, Tick

(***************************************************************************)
(* Nobody but its owner changes a scenario, although the check and the     *)
(* change are two calls of the store (OnlyOwnerTouches): what was checked  *)
(* keeps its owner, and its id goes to no other scenario.                  *)
(***************************************************************************)
THEOREM OwnersOnly == Spec => OnlyOwnerTouches
<1> DEFINE Touched(i) ==
             (i \in DOMAIN store'.records => store'.records[i] # store.records[i])
             => \E c \in Clients : ChangedBy(c, i)
<1>1. ASSUME IInv, Next, NEW i \in DOMAIN store.records
      PROVE  Touched(i)
  <2>1. CASE store' = store
    BY <1>1, <2>1
  <2>2. ASSUME NEW c \in Clients, Act(c)
        PROVE  Touched(i)
    <3> SUFFICES ASSUME i \in DOMAIN store'.records => store'.records[i] # store.records[i]
                 PROVE  ChangedBy(c, i)
      OBVIOUS
    <3>1. \/ /\ i \in DOMAIN store'.records
             /\ i = StoreRequest(req[c]).id /\ req[c].door # "purge"
          \/ i \notin DOMAIN store'.records /\ req[c].door = "purge"
      BY <1>1, <2>2, ActMovesOn
    <3>2. step[c] = "act" /\ step'[c] = "answered"
      BY <1>1, <2>2 DEF Act, Reply, IInv, TypeOK
    <3>3. i # 0
      BY <1>1, StoreFacts DEF IInv
    <3>4. CASE /\ i \in DOMAIN store'.records
               /\ i = StoreRequest(req[c]).id /\ req[c].door # "purge"
      <4>1. i = req[c].id /\ req[c].door # "create"
        BY <1>1, <3>3, <3>4, StoreRequestType DEF IInv
      <4> QED BY <1>1, <3>2, <3>4, <4>1 DEF ChangedBy, IInv, ClientOK, Allowed
    <3> QED BY <3>1, <3>2, <3>4 DEF ChangedBy
  <2> QED BY <1>1, <2>1, <2>2, ActChanges
<1>2. IInv /\ [Next]_vars => [\A i \in DOMAIN store.records : Touched(i)]_vars
  BY <1>1
<1> QED BY <1>2, Invariance, PTL DEF Spec, OnlyOwnerTouches

-----------------------------------------------------------------------------
(***************************************************************************)
(* The in-memory store beside the file store, on the same calls.  Records  *)
(* and histories share objects there, so a deletion dates the last entry   *)
(* of the history too: the two never agree on the dates of entries, and    *)
(* everything else is shown to agree for Outcome as a whole.               *)
(***************************************************************************)
LEMMA SameRecords ==
  /\ Stores!Record = Record /\ Stores!Request = Request /\ Stores!EmptyState = EmptyState
  /\ \A st, ask, time : Stores!Outcome(st, ask, time) = Outcome(st, ask, time)
<1>1. Stores!Record = Record /\ Stores!Request = Request /\ Stores!EmptyState = EmptyState
  BY DEF Stores!Record, Record, Stores!Request, Request, Stores!EmptyState, EmptyState,
     Stores!Operations, Operations, Stores!NotDeleted, NotDeleted
<1>2. ASSUME NEW st, NEW ask, NEW time
      PROVE Stores!Outcome(st, ask, time) = Outcome(st, ask, time)
  BY Zenon DEF Stores!Outcome, Outcome, Stores!Load, Load, Stores!ListActive, ListActive, Stores!ListVersions, ListVersions,
    Stores!HistoryOf, HistoryOf, Stores!PurgeExpired, PurgeExpired, Stores!Expired, Expired, Stores!SaveNew, SaveNew,
    Stores!SaveExisting, SaveExisting, Stores!RestoreVersion, RestoreVersion, Stores!SoftDelete, SoftDelete,
    Stores!Restore, Restore, Stores!Missing, Missing, Stores!Done, Done, Stores!Known, Known, Stores!HasVersion, HasVersion,
    Stores!Put, Put, Stores!Without, Without, Stores!SetCurrent, SetCurrent, Stores!AppendVersion, AppendVersion,
    Stores!FirstVersion, FirstVersion, Stores!Revised, Revised, Stores!NotDeleted, NotDeleted
<1> QED BY <1>1, <1>2

\* The same entry but for its dates.
Alike(v, w) == Stores!Undated(v) = Stores!Undated(w)

LEMMA AlikeFields ==
  ASSUME NEW v, NEW w, Alike(v, w)
  PROVE  v.id = w.id /\ v.body = w.body /\ v.owner = w.owner /\ v.version = w.version
           /\ v.created = w.created
  BY DEF Alike, Stores!Undated, Stores!Revised

LEMMA RedatedIsAlike ==
  ASSUME NEW v, NEW w, Alike(v, w), NEW now, NEW deleted
  PROVE  Alike(Stores!Revised(v, v.body, v.version, now, deleted), w)
  BY DEF Alike, Stores!Undated, Stores!Revised

(***************************************************************************)
(* The objects of the in-memory store mirror the file: every record is the *)
(* content of its object, which is that of no other record, and the        *)
(* entries of a history are alike.                                         *)
(***************************************************************************)
Mirrors(m, st) ==
  /\ m = [next_id |-> st.next_id, heap |-> m.heap, records |-> m.records, history |-> m.history]
  /\ m.heap \in Seq(Record)
  /\ m.records \in [DOMAIN st.records -> 1 .. Len(m.heap)]
  /\ m.history \in [DOMAIN st.records -> Seq(1 .. Len(m.heap))]
  /\ \A i \in DOMAIN st.records :
       /\ m.heap[m.records[i]] = st.records[i]
       /\ \A j \in DOMAIN st.records : m.records[i] = m.records[j] => i = j
       /\ Len(m.history[i]) = Len(st.history[i])
       /\ \A k \in 1 .. Len(st.history[i]) : Alike(m.heap[m.history[i][k]], st.history[i][k])

\* The parts of Mirrors.
LEMMA MirrorsMeans ==
  ASSUME NEW m, NEW st, Mirrors(m, st)
  PROVE  /\ m = [next_id |-> st.next_id, heap |-> m.heap, records |-> m.records, history |-> m.history]
         /\ m.heap \in Seq(Record) /\ Len(m.heap) \in Nat
         /\ DOMAIN m.records = DOMAIN st.records /\ DOMAIN m.history = DOMAIN st.records
         /\ \A i \in DOMAIN st.records : m.records[i] \in 1 .. Len(m.heap) /\ m.heap[m.records[i]] = st.records[i]
         /\ \A i, j \in DOMAIN st.records : m.records[i] = m.records[j] => i = j
         /\ \A i \in DOMAIN st.records :
              m.history[i] \in Seq(1 .. Len(m.heap)) /\ Len(m.history[i]) = Len(st.history[i])
         /\ \A i \in DOMAIN st.records : \A k \in 1 .. Len(st.history[i]) :
              m.history[i][k] \in 1 .. Len(m.heap) /\ Alike(m.heap[m.history[i][k]], st.history[i][k])
<1>1. \A i \in DOMAIN st.records : m.history[i] \in Seq(1 .. Len(m.heap))
  BY DEF Mirrors
<1>2. \A i \in DOMAIN st.records : Len(m.history[i]) = Len(st.history[i])
  BY DEF Mirrors
<1>3. \A i \in DOMAIN st.records : \A k \in 1 .. Len(st.history[i]) :
        m.history[i][k] \in 1 .. Len(m.heap)
  BY <1>1, <1>2, SMTT(30)
<1> QED BY <1>1, <1>2, <1>3, SMTT(30) DEF Mirrors

Numbered(m, id) == [m EXCEPT !.next_id = id]

\* The fields of the memory when a new object is filed.
LEMMA MemAppendFields ==
  ASSUME NEW m, NEW id,
         m = [next_id |-> id, heap |-> m.heap, records |-> m.records, history |-> m.history],
         NEW rec, NEW earlier, NEW a2
  PROVE  /\ Numbered(Stores!MemAppend(m, rec, earlier), a2)
              = [next_id |-> a2, heap |-> Append(m.heap, rec),
                 records |-> Stores!Put(m.records, rec.id, Len(m.heap) + 1),
                 history |-> Stores!Put(m.history, rec.id, Append(earlier, Len(m.heap) + 1))]
         /\ Stores!MemAppend(m, rec, earlier).next_id = id
         /\ a2 = id => Numbered(Stores!MemAppend(m, rec, earlier), a2)
                        = Stores!MemAppend(m, rec, earlier)
<1> DEFINE a == id
           b == m.heap
           c == m.records
           d == m.history
<1> DEFINE b2 == Append(b, rec)
           copy2 == Stores!Put(c, rec.id, Len(b) + 1)
           d2 == Stores!Put(d, rec.id, Append(earlier, Len(b) + 1))
<1>0. Stores!MemAppend(m, rec, earlier) = [m EXCEPT !.heap = b2, !.records = copy2, !.history = d2]
  BY DEF Stores!MemAppend
<1> HIDE DEF b2, copy2, d2
<1>a. m = [next_id |-> a, heap |-> b, records |-> c, history |-> d]
  OBVIOUS
<1> HIDE DEF a, b, c, d
<1> DEFINE m1 == [m EXCEPT !.heap = b2]
           m2 == [m1 EXCEPT !.records = copy2]
           m3 == [m2 EXCEPT !.history = d2]
           m4 == Numbered(m3, a2)
<1>1. m3 = [m EXCEPT !.heap = b2, !.records = copy2, !.history = d2]
  OBVIOUS
<1>2. m1 = [next_id |-> a, heap |-> b2, records |-> c, history |-> d]
  BY <1>a
<1> HIDE DEF m1
<1>3. m2 = [next_id |-> a, heap |-> b2, records |-> copy2, history |-> d]
  BY <1>2
<1> HIDE DEF m2
<1>4. m3 = [next_id |-> a, heap |-> b2, records |-> copy2, history |-> d2]
  BY <1>3
<1> HIDE DEF m3
<1>6. Stores!MemAppend(m, rec, earlier) = m3
  BY <1>0, <1>1 DEF m3, m2, m1
<1>7. m3.next_id = a /\ (a2 = a => m4 = m3)
  BY <1>4 DEF Numbered
<1>5. m4 = [next_id |-> a2, heap |-> b2, records |-> copy2, history |-> d2]
  BY <1>4 DEF Numbered
<1> HIDE DEF m4
<1>8. Numbered(Stores!MemAppend(m, rec, earlier), a2) = m4
  BY <1>6 DEF m4
<1> QED BY <1>5, <1>6, <1>7, <1>8 DEF a, b, c, d, b2, copy2, d2

\* What Append leaves alone.
LEMMA AppendAt ==
  ASSUME NEW S, NEW s \in Seq(S), NEW x
  PROVE  /\ Len(Append(s, x)) = Len(s) + 1 /\ Append(s, x)[Len(s) + 1] = x
         /\ \A k \in 1 .. Len(s) : Append(s, x)[k] = s[k] /\ s[k] \in S
  OBVIOUS

\* A new object is filed in the memory as a new version is in the file.
LEMMA AppendMirrors ==
  ASSUME NEW m, NEW st, Mirrors(m, st), NEW new, NEW rec \in Record,
         NEW earlier \in Seq(1 .. Len(m.heap)), NEW filed \in Seq(Record),
         Len(earlier) = Len(filed),
         \A k \in 1 .. Len(filed) : Alike(m.heap[earlier[k]], filed[k]),
         DOMAIN new.records = DOMAIN st.records \cup {rec.id},
         new.records[rec.id] = rec,
         \A j \in DOMAIN st.records \ {rec.id} : new.records[j] = st.records[j],
         new.history[rec.id] = Append(filed, rec),
         \A j \in DOMAIN st.records \ {rec.id} : new.history[j] = st.history[j]
  PROVE  /\ Mirrors(Numbered(Stores!MemAppend(m, rec, earlier), new.next_id), new)
         /\ new.next_id = st.next_id => Mirrors(Stores!MemAppend(m, rec, earlier), new)
<1> DEFINE ref == Len(m.heap) + 1
           heap == Append(m.heap, rec)
           records == Stores!Put(m.records, rec.id, ref)
           history == Stores!Put(m.history, rec.id, Append(earlier, ref))
           m2 == [next_id |-> new.next_id, heap |-> heap, records |-> records, history |-> history]
<1>1. /\ Numbered(Stores!MemAppend(m, rec, earlier), new.next_id) = m2
      /\ new.next_id = st.next_id => Stores!MemAppend(m, rec, earlier) = m2
  <2>1. m = [next_id |-> st.next_id, heap |-> m.heap, records |-> m.records, history |-> m.history]
    BY MirrorsMeans
  <2>2. /\ Numbered(Stores!MemAppend(m, rec, earlier), new.next_id) = m2
        /\ new.next_id = st.next_id
           => Numbered(Stores!MemAppend(m, rec, earlier), new.next_id)
                = Stores!MemAppend(m, rec, earlier)
    <3> DEFINE id == st.next_id
               a2 == new.next_id
    <3>1. m = [next_id |-> id, heap |-> m.heap, records |-> m.records, history |-> m.history]
      BY <2>1
    <3> HIDE DEF id, a2
    <3>2. /\ Numbered(Stores!MemAppend(m, rec, earlier), a2)
              = [next_id |-> a2, heap |-> Append(m.heap, rec),
                 records |-> Stores!Put(m.records, rec.id, Len(m.heap) + 1),
                 history |-> Stores!Put(m.history, rec.id, Append(earlier, Len(m.heap) + 1))]
          /\ a2 = id => Numbered(Stores!MemAppend(m, rec, earlier), a2)
                        = Stores!MemAppend(m, rec, earlier)
      BY ONLY <3>1, MemAppendFields
    <3> QED BY <3>2 DEF id, a2
  <2> HIDE DEF m2
  <2> QED BY <2>2
<1>2. /\ heap \in Seq(Record) /\ Len(heap) = ref /\ heap[ref] = rec /\ Len(m.heap) \in Nat
      /\ \A r \in 1 .. Len(m.heap) : heap[r] = m.heap[r]
  BY DEF Mirrors
<1>3. /\ records \in [DOMAIN new.records -> 1 .. Len(heap)]
      /\ records[rec.id] = ref
      /\ \A j \in DOMAIN st.records \ {rec.id} : records[j] = m.records[j] /\ m.records[j] \in 1 .. Len(m.heap)
  <2>1. /\ m.records \in [DOMAIN st.records -> 1 .. Len(m.heap)] /\ DOMAIN m.records = DOMAIN st.records
    BY DEF Mirrors
  <2>2. records = [j \in DOMAIN m.records \cup {rec.id} |-> IF j = rec.id THEN ref ELSE m.records[j]]
    BY DEF Stores!Put
  <2> HIDE DEF records
  <2> QED BY <1>2, <2>1, <2>2
<1>4. /\ history \in [DOMAIN new.records -> Seq(1 .. Len(heap))]
      /\ history[rec.id] = Append(earlier, ref)
      /\ \A j \in DOMAIN st.records \ {rec.id} : history[j] = m.history[j]
  <2>1. m.history \in [DOMAIN st.records -> Seq(1 .. Len(m.heap))] /\ DOMAIN m.history = DOMAIN st.records
    BY DEF Mirrors
  <2>2. history = [j \in DOMAIN m.history \cup {rec.id} |-> IF j = rec.id THEN Append(earlier, ref) ELSE m.history[j]]
    BY DEF Stores!Put
  <2>3. Append(earlier, ref) \in Seq(1 .. Len(heap))
    BY <1>2
  <2>4. \A j \in DOMAIN st.records : m.history[j] \in Seq(1 .. Len(heap))
    BY <1>2, <2>1
  <2> HIDE DEF history
  <2> QED BY <2>1, <2>2, <2>3, <2>4
<1> HIDE DEF heap, records, history
<1>5. ASSUME NEW j \in DOMAIN new.records
      PROVE  /\ heap[records[j]] = new.records[j]
             /\ \A l \in DOMAIN new.records : records[j] = records[l] => j = l
  <2>1. \A l \in DOMAIN st.records \ {rec.id} : records[l] # ref
    BY <1>2, <1>3
  <2>2. \A l, n \in DOMAIN st.records \ {rec.id} : records[l] = records[n] => l = n
    BY <1>3 DEF Mirrors
  <2>3. \A l \in DOMAIN st.records \ {rec.id} : heap[records[l]] = new.records[l]
    <3> SUFFICES ASSUME NEW l \in DOMAIN st.records \ {rec.id} PROVE heap[records[l]] = new.records[l]
      OBVIOUS
    <3>1. m.heap[m.records[l]] = st.records[l]
      BY MirrorsMeans
    <3> QED BY <1>2, <1>3, <3>1, SMTT(30)
  <2> QED BY <1>2, <1>3, <2>1, <2>2, <2>3
<1>6. Len(history[rec.id]) = Len(new.history[rec.id])
      /\ \A k \in 1 .. Len(new.history[rec.id]) :
           Alike(heap[history[rec.id][k]], new.history[rec.id][k])
  <2>1. Len(new.history[rec.id]) = Len(filed) + 1 /\ Len(filed) \in Nat
    BY <1>4
  <2>2. Len(history[rec.id]) = Len(filed) + 1
    BY <1>4
  <2>3. history[rec.id][Len(filed) + 1] = ref /\ new.history[rec.id][Len(filed) + 1] = rec
    BY <1>4, <2>1, <2>2
  <2>4. \A k \in 1 .. Len(filed) : history[rec.id][k] = earlier[k] /\ new.history[rec.id][k] = filed[k]
          /\ earlier[k] \in 1 .. Len(m.heap)
    <3>1. \A k \in 1 .. Len(earlier) : Append(earlier, ref)[k] = earlier[k] /\ earlier[k] \in 1 .. Len(m.heap)
      BY AppendAt
    <3>2. \A k \in 1 .. Len(filed) : Append(filed, rec)[k] = filed[k]
      BY AppendAt
    <3> QED BY <1>4, <3>1, <3>2
  <2>5. Alike(rec, rec)
    BY DEF Alike
  <2>6. \A k \in 1 .. Len(filed) : Alike(heap[history[rec.id][k]], new.history[rec.id][k])
    <3> SUFFICES ASSUME NEW k \in 1 .. Len(filed)
                 PROVE  Alike(heap[history[rec.id][k]], new.history[rec.id][k])
      OBVIOUS
    <3>1. heap[earlier[k]] = m.heap[earlier[k]]
      BY <1>2, <2>4
    <3> QED BY <2>4, <3>1
  <2>7. \A k \in 1 .. Len(filed) + 1 : k \in 1 .. Len(filed) \/ k = Len(filed) + 1
    BY <2>1
  <2>8. Alike(heap[history[rec.id][Len(filed) + 1]], new.history[rec.id][Len(filed) + 1])
    BY <1>2, <2>3, <2>5
  <2>9. \A k \in 1 .. Len(filed) + 1 : Alike(heap[history[rec.id][k]], new.history[rec.id][k])
    BY <2>6, <2>7, <2>8
  <2> QED BY <2>1, <2>2, <2>9
<1>7. ASSUME NEW j \in DOMAIN st.records \ {rec.id}
      PROVE  /\ Len(history[j]) = Len(new.history[j])
             /\ \A k \in 1 .. Len(new.history[j]) : Alike(heap[history[j][k]], new.history[j][k])
  <2>1. history[j] = m.history[j] /\ new.history[j] = st.history[j] /\ m.history[j] \in Seq(1 .. Len(m.heap))
    BY <1>4 DEF Mirrors
  <2>2. Len(m.history[j]) = Len(st.history[j])
    BY DEF Mirrors
  <2>3. \A k \in 1 .. Len(st.history[j]) :
          m.history[j][k] \in 1 .. Len(m.heap) /\ Alike(m.heap[m.history[j][k]], st.history[j][k])
    BY MirrorsMeans
  <2>4. \A k \in 1 .. Len(st.history[j]) : heap[m.history[j][k]] = m.heap[m.history[j][k]]
    BY <1>2, <2>3
  <2> QED BY <2>1, <2>2, <2>3, <2>4
<1>8. Mirrors(m2, new)
  BY <1>2, <1>3, <1>4, <1>5, <1>6, <1>7 DEF Mirrors
<1> QED BY <1>1, <1>8

\* A dated object stays an entry like the one in the file.
LEMMA MarkMirrors ==
  ASSUME NEW m, NEW st, Mirrors(m, st), NEW new, NEW i \in DOMAIN st.records,
         NEW rec \in Record, Alike(rec, st.records[i]),
         new.next_id = st.next_id,
         DOMAIN new.records = DOMAIN st.records,
         new.records[i] = rec,
         \A j \in DOMAIN st.records \ {i} : new.records[j] = st.records[j],
         new.history = st.history
  PROVE  Mirrors([m EXCEPT !.heap[m.records[i]] = rec], new)
<1> DEFINE ref == m.records[i]
           heap == [m.heap EXCEPT ![ref] = rec]
           m2 == [next_id |-> st.next_id, heap |-> heap, records |-> m.records, history |-> m.history]
<1>1. [m EXCEPT !.heap[m.records[i]] = rec] = m2
  <2>1. m = [next_id |-> st.next_id, heap |-> m.heap, records |-> m.records, history |-> m.history]
    BY MirrorsMeans
  <2>2. [m EXCEPT !.heap[m.records[i]] = rec] = [m EXCEPT !.heap = heap]
    BY <2>1
  <2> HIDE DEF heap
  <2> QED BY <2>1, <2>2
<1>2. /\ heap \in Seq(Record) /\ Len(heap) = Len(m.heap) /\ heap[ref] = rec /\ ref \in 1 .. Len(m.heap)
      /\ \A r \in 1 .. Len(m.heap) : r # ref => heap[r] = m.heap[r]
  BY DEF Mirrors
<1>3. m.heap[ref] = st.records[i]
  BY DEF Mirrors
<1>4. ASSUME NEW v, NEW r \in 1 .. Len(m.heap), Alike(m.heap[r], v)
      PROVE  Alike(heap[r], v)
  <2> HIDE DEF heap
  <2> QED BY <1>2, <1>3, <1>4 DEF Alike
<1> HIDE DEF heap
<1>5. ASSUME NEW j \in DOMAIN st.records
      PROVE  heap[m.records[j]] = new.records[j]
  <2>1. m.records[j] \in 1 .. Len(m.heap) /\ m.heap[m.records[j]] = st.records[j]
    BY DEF Mirrors
  <2>2. j # i => m.records[j] # ref
    BY DEF Mirrors
  <2> QED BY <1>2, <2>1, <2>2
<1>6. ASSUME NEW j \in DOMAIN st.records, NEW k \in 1 .. Len(new.history[j])
      PROVE  Alike(heap[m.history[j][k]], new.history[j][k])
  <2> HIDE DEF m2
  <2>1. k \in 1 .. Len(st.history[j]) /\ j \in DOMAIN st.records
    BY <1>6
  <2>2. m.history[j][k] \in 1 .. Len(m.heap) /\ Alike(m.heap[m.history[j][k]], st.history[j][k])
    BY <2>1, MirrorsMeans
  <2> QED BY <1>4, <2>2
<1>7. Mirrors(m2, new)
  BY <1>2, <1>5, <1>6 DEF Mirrors
<1> QED BY <1>1, <1>7

\* The operators of both stores that are the same.
LEMMA SameOperators ==
  /\ Stores!NotDeleted = NotDeleted
  /\ \A st : Stores!Missing(st) = Missing(st)
  /\ \A st, value : Stores!Done(st, value) = Done(st, value)
  /\ \A rec, body, version, now, deleted :
       Stores!Revised(rec, body, version, now, deleted) = Revised(rec, body, version, now, deleted)
  BY DEF Stores!NotDeleted, NotDeleted, Stores!Missing, Missing, Stores!Done, Done,
     Stores!Revised, Revised

\* Both stores answer a request alike and mirror each other afterwards.
AnswersAlike(a, b, op) ==
  /\ Mirrors(a.state, b.state)
  /\ a.status = b.status
  /\ IF op = "list_versions"
     THEN {Stores!Undated(v) : v \in a.value} = {Stores!Undated(v) : v \in b.value}
     ELSE a.value = b.value

LEMMA DoneAlike ==
  ASSUME NEW m, NEW st, Mirrors(m, st), NEW value, NEW op
  PROVE  AnswersAlike(Done(m, value), Done(st, value), op)
           /\ AnswersAlike(Missing(m), Missing(st), op)
  BY DEF AnswersAlike, Done, Missing

LEMMA SaveNewAlike ==
  ASSUME NEW m, NEW st, Mirrors(m, st), StateType(st), Sound(st), NEW ask \in Request
  PROVE  AnswersAlike(Stores!MemSaveNew(m, ask), SaveNew(st, ask), "save")
<1> DEFINE rec == FirstVersion(st, ask)
           new == SaveNew(st, ask).state
<1>1. m.next_id = st.next_id
  BY DEF Mirrors
<1>2. Stores!MemSaveNew(m, ask) = Done(Numbered(Stores!MemAppend(m, rec, <<>>), st.next_id + 1), {rec})
  BY <1>1, SameOperators DEF Stores!MemSaveNew, FirstVersion, Numbered
<1> DEFINE i == st.next_id
<1>3. /\ rec \in Record /\ rec.id = i
      /\ SaveNew(st, ask).value = {rec} /\ SaveNew(st, ask).status = "ok"
      /\ new = [next_id |-> i + 1, records |-> new.records, history |-> new.history]
      /\ DOMAIN new.records = DOMAIN st.records \cup {i}
      /\ new.records[i] = rec
      /\ \A j \in DOMAIN st.records : j # i => new.records[j] = st.records[j]
      /\ new.history[i] = <<rec>>
      /\ \A j \in DOMAIN st.history : j # i => new.history[j] = st.history[j]
  BY SaveNewState, ZenonT(30)
<1>4. DOMAIN st.history = DOMAIN st.records
  BY DEF Sound, LineageSound
<1>5. new.next_id = st.next_id + 1
  BY <1>3
<1> DEFINE none == <<>>
<1> HIDE DEF rec, new
<1>6. /\ none \in Seq(1 .. Len(m.heap)) /\ none \in Seq(Record) /\ Len(none) = Len(none)
      /\ \A k \in 1 .. Len(none) : Alike(m.heap[none[k]], none[k])
      /\ <<rec>> = Append(none, rec)
  OBVIOUS
<1> HIDE DEF none
<1>7. /\ DOMAIN new.records = DOMAIN st.records \cup {rec.id}
      /\ new.records[rec.id] = rec
      /\ \A j \in DOMAIN st.records \ {rec.id} : new.records[j] = st.records[j]
      /\ new.history[rec.id] = Append(none, rec)
      /\ \A j \in DOMAIN st.records \ {rec.id} : new.history[j] = st.history[j]
  BY <1>3, <1>4, <1>6
<1>8. rec \in Record
  BY <1>3
<1>9. Mirrors(Numbered(Stores!MemAppend(m, rec, none), new.next_id), new)
  BY ONLY Mirrors(m, st), <1>6, <1>7, <1>8, AppendMirrors
<1>10. Mirrors(Numbered(Stores!MemAppend(m, rec, <<>>), st.next_id + 1), new)
  BY <1>5, <1>9 DEF none
<1> QED BY <1>2, <1>3, <1>10 DEF AnswersAlike, Done, new

LEMMA VersionAlike ==
  ASSUME NEW m, NEW st, Mirrors(m, st), StateType(st), Sound(st),
         NEW i \in DOMAIN st.records, NEW rec \in Record, rec.id = i
  PROVE  AnswersAlike(Done(Stores!MemAppend(m, rec, m.history[i]), {rec}),
                      Done(AppendVersion(st, rec), {rec}), "save")
<1> DEFINE new == AppendVersion(st, rec)
           h == st.history[i]
<1>1. /\ new = [next_id |-> st.next_id, records |-> new.records, history |-> new.history]
      /\ DOMAIN new.records = DOMAIN st.records
      /\ new.records[i] = rec
      /\ \A j \in DOMAIN st.records : j # i => new.records[j] = st.records[j]
      /\ new.history[i] = Append(h, rec)
      /\ \A j \in DOMAIN st.history : j # i => new.history[j] = st.history[j]
      /\ h \in Seq(Record)
  BY AppendVersionState
<1>2. DOMAIN st.history = DOMAIN st.records
  BY DEF Sound, LineageSound
<1>3. new.next_id = st.next_id
  BY <1>1
<1> HIDE DEF new
<1>4. /\ m.history[i] \in Seq(1 .. Len(m.heap)) /\ Len(m.history[i]) = Len(h)
      /\ \A k \in 1 .. Len(h) : Alike(m.heap[m.history[i][k]], h[k])
  BY MirrorsMeans
<1> DEFINE earlier == m.history[i]
<1> HIDE DEF h, earlier
<1>5. /\ DOMAIN new.records = DOMAIN st.records \cup {rec.id}
      /\ new.records[rec.id] = rec
      /\ \A j \in DOMAIN st.records \ {rec.id} : new.records[j] = st.records[j]
      /\ new.history[rec.id] = Append(h, rec)
      /\ \A j \in DOMAIN st.records \ {rec.id} : new.history[j] = st.history[j]
  BY <1>1, <1>2
<1>6. /\ earlier \in Seq(1 .. Len(m.heap)) /\ h \in Seq(Record) /\ Len(earlier) = Len(h)
      /\ \A k \in 1 .. Len(h) : Alike(m.heap[earlier[k]], h[k])
      /\ rec \in Record
  BY <1>1, <1>4 DEF earlier
<1>7. new.next_id = st.next_id => Mirrors(Stores!MemAppend(m, rec, earlier), new)
  BY ONLY Mirrors(m, st), <1>5, <1>6, AppendMirrors
<1>8. Mirrors(Stores!MemAppend(m, rec, m.history[i]), new)
  BY <1>3, <1>7 DEF earlier
<1> QED BY <1>8 DEF AnswersAlike, Done, new

LEMMA SaveExistingAlike ==
  ASSUME NEW m, NEW st, Mirrors(m, st), StateType(st), Sound(st), NEW ask \in Request,
         ask.id \in DOMAIN st.records
  PROVE  AnswersAlike(Stores!MemSaveExisting(m, ask), SaveExisting(st, ask), "save")
<1> DEFINE old == st.records[ask.id]
           rec == Revised(old, ask.body, old.version + 1, ask.now, old.deleted)
<1>1. Stores!Current(m, ask.id) = old
  BY MirrorsMeans DEF Stores!Current, Stores!Deref
<1>2. /\ Stores!MemSaveExisting(m, ask) = Done(Stores!MemAppend(m, rec, m.history[ask.id]), {rec})
      /\ SaveExisting(st, ask) = Done(AppendVersion(st, rec), {rec})
  BY <1>1, SameOperators DEF Stores!MemSaveExisting, SaveExisting
<1> HIDE DEF rec
<1>3. rec \in Record /\ rec.id = ask.id
  BY <1>2, SaveExistingAppends DEF VersionAdded, SameLineage, Done
<1> QED BY <1>2, <1>3, VersionAlike

LEMMA RestoreVersionAlike ==
  ASSUME NEW m, NEW st, Mirrors(m, st), StateType(st), Sound(st), NEW ask \in Request,
         ask.id \in DOMAIN st.records, HasVersion(st, ask.id, ask.version)
  PROVE  AnswersAlike(Stores!MemRestoreVersion(m, ask), RestoreVersion(st, ask), "save")
<1> DEFINE h == st.history[ask.id]
           g == Stores!Versions(m, ask.id)
           n == ask.version
           rec == Revised(h[n], h[n].body, st.records[ask.id].version + 1, ask.now, NotDeleted)
<1>1. /\ ask.id \in DOMAIN st.history /\ h \in Seq(Record) /\ DOMAIN h = 1 .. Len(h)
      /\ \A k \in DOMAIN h : h[k].version = k
  <2>1. ask.id \in DOMAIN st.history /\ RecordSound(st, ask.id)
    BY DEF Sound, LineageSound
  <2>2. h \in Seq(Record)
    BY <2>1 DEF StateType
  <2>3. DOMAIN h = 1 .. Len(h)
    BY <2>2
  <2> QED BY <2>1, <2>2, <2>3 DEF RecordSound
<1>2. n \in DOMAIN h
  BY <1>1 DEF HasVersion, HistoryOf
<1>3. DOMAIN g = DOMAIN h /\ \A k \in DOMAIN h : Alike(g[k], h[k])
  <2>1. g = [k \in DOMAIN m.history[ask.id] |-> m.heap[m.history[ask.id][k]]]
    BY MirrorsMeans DEF Stores!Versions, Stores!Deref
  <2>2. DOMAIN m.history[ask.id] = DOMAIN h
    BY <1>1, MirrorsMeans
  <2>3. \A k \in DOMAIN h : Alike(m.heap[m.history[ask.id][k]], h[k])
    BY <1>1, MirrorsMeans
  <2> HIDE DEF g, h
  <2> QED BY <2>1, <2>2, <2>3
<1>4. \A k \in DOMAIN h : g[k].version = k /\ g[k].body = h[k].body /\ g[k].id = h[k].id
        /\ g[k].owner = h[k].owner /\ g[k].created = h[k].created
  BY <1>1, <1>3, AlikeFields
<1>5. n = CHOOSE i \in DOMAIN h : h[i].version = n /\ \A j \in DOMAIN h : h[j].version = n => i <= j
  <2>1. \A i \in DOMAIN h : h[i].version = n /\ (\A j \in DOMAIN h : h[j].version = n => i <= j) <=> i = n
    BY <1>1, <1>2
  <2> QED BY <1>2, <2>1
<1>6. n = CHOOSE i \in DOMAIN g : g[i].version = n /\ \A j \in DOMAIN g : g[j].version = n => i <= j
  <2>1. \A i \in DOMAIN g : g[i].version = n /\ (\A j \in DOMAIN g : g[j].version = n => i <= j) <=> i = n
    BY <1>1, <1>2, <1>3, <1>4
  <2> QED BY <1>2, <1>3, <2>1
<1>7. RestoreVersion(st, ask) = Done(AppendVersion(st, rec), {rec})
  BY <1>5 DEF RestoreVersion
<1>8. Stores!Current(m, ask.id) = st.records[ask.id]
  BY MirrorsMeans DEF Stores!Current, Stores!Deref
<1>9. Revised(g[n], g[n].body, st.records[ask.id].version + 1, ask.now, NotDeleted) = rec
  BY <1>2, <1>4 DEF Revised
<1>10. Stores!MemRestoreVersion(m, ask) = Done(Stores!MemAppend(m, rec, m.history[ask.id]), {rec})
  <2> HIDE DEF g, rec
  <2>1. Stores!MemRestoreVersion(m, ask) =
          LET k == CHOOSE i \in DOMAIN g :
                     g[i].version = n /\ \A j \in DOMAIN g : g[j].version = n => i <= j
              r == Revised(g[k], g[k].body, st.records[ask.id].version + 1, ask.now, NotDeleted)
          IN  Done(Stores!MemAppend(m, r, m.history[ask.id]), {r})
    BY <1>8, SameOperators DEF Stores!MemRestoreVersion, g
  <2> QED BY <1>6, <1>9, <2>1
<1> HIDE DEF rec
<1>11. rec \in Record /\ rec.id = ask.id
  BY <1>7, RestoreVersionAppends DEF VersionAdded, SameLineage, Done
<1> QED BY <1>7, <1>10, <1>11, VersionAlike

\* A mark on a record changes the object and the file alike.
LEMMA SetCurrentMirrors ==
  ASSUME NEW m, NEW st, Mirrors(m, st), StateType(st), NEW i \in DOMAIN st.records,
         NEW rec \in Record, rec.id = i, Alike(rec, st.records[i])
  PROVE  Mirrors([m EXCEPT !.heap[m.records[i]] = rec], SetCurrent(st, rec))
<1> DEFINE new == SetCurrent(st, rec)
<1>1. /\ new.next_id = st.next_id /\ new.history = st.history
      /\ new.records = Put(st.records, i, rec)
  BY DEF SetCurrent
<1>2. /\ DOMAIN new.records = DOMAIN st.records
      /\ new.records[i] = rec
      /\ \A j \in DOMAIN st.records \ {i} : new.records[j] = st.records[j]
  BY <1>1 DEF Put
<1> HIDE DEF new
<1>3. Mirrors([m EXCEPT !.heap[m.records[i]] = rec], new)
  BY <1>1, <1>2, MarkMirrors
<1> QED BY <1>3 DEF new

\* Setting the record that is there changes nothing.
LEMMA SetCurrentSame ==
  ASSUME NEW st, StateType(st), NEW i \in DOMAIN st.records, st.records[i].id = i
  PROVE  SetCurrent(st, st.records[i]) = st
<1>1. st.records \in [DOMAIN st.records -> Record]
  BY DEF StateType
<1>2. Put(st.records, i, st.records[i]) = st.records
  BY <1>1 DEF Put
<1>3. st = [next_id |-> st.next_id, records |-> st.records, history |-> st.history]
  BY DEF StateType
<1> QED BY <1>2, <1>3 DEF SetCurrent

LEMMA CurrentIsRecord ==
  ASSUME NEW m, NEW st, Mirrors(m, st), NEW i \in DOMAIN st.records
  PROVE  Stores!Current(m, i) = st.records[i]
  BY MirrorsMeans DEF Stores!Current, Stores!Deref

LEMMA MarksAlike ==
  ASSUME NEW m, NEW st, Mirrors(m, st), StateType(st), Sound(st), NEW ask \in Request,
         ask.id \in DOMAIN st.records, NEW now \in Nat
  PROVE  /\ AnswersAlike(Stores!MemSoftDelete(m, ask, now), SoftDelete(st, ask, now), "save")
         /\ AnswersAlike(Stores!MemRestore(m, ask, now), Restore(st, ask, now), "save")
<1> DEFINE old == st.records[ask.id]
           dated == Revised(old, old.body, old.version, now, now)
           back == Revised(old, old.body, old.version, now, NotDeleted)
<1>1. Stores!Current(m, ask.id) = old
  BY CurrentIsRecord
<1>2. old \in Record /\ old.id = ask.id
  BY DEF StateType, Sound, LineageSound, RecordSound
<1>3. Alike(dated, old) /\ Alike(back, old)
  <2>1. Alike(old, old)
    BY DEF Alike
  <2>2. /\ Alike(Stores!Revised(old, old.body, old.version, now, now), old)
        /\ Alike(Stores!Revised(old, old.body, old.version, now, NotDeleted), old)
    BY <2>1, RedatedIsAlike
  <2> QED BY <2>2, SameOperators
<1>4. /\ dated \in Record /\ dated.id = ask.id /\ back \in Record /\ back.id = ask.id
  BY <1>2 DEF Revised, Record, NotDeleted
<1>5. Stores!MemRestore(m, ask, now) = Done([m EXCEPT !.heap[m.records[ask.id]] = back], {back})
  BY <1>1, SameOperators DEF Stores!MemRestore
<1>6. Stores!MemSoftDelete(m, ask, now)
        = Done(IF old.deleted # NotDeleted THEN m
               ELSE [m EXCEPT !.heap[m.records[ask.id]] = dated], {})
  BY <1>1, SameOperators DEF Stores!MemSoftDelete
<1>7. /\ Restore(st, ask, now) = Done(SetCurrent(st, back), {back})
      /\ SoftDelete(st, ask, now)
           = Done(SetCurrent(st, IF old.deleted # NotDeleted THEN old ELSE dated), {})
  BY DEF Restore, SoftDelete
<1> HIDE DEF dated, back
<1>8. /\ Mirrors([m EXCEPT !.heap[m.records[ask.id]] = dated], SetCurrent(st, dated))
      /\ Mirrors([m EXCEPT !.heap[m.records[ask.id]] = back], SetCurrent(st, back))
  BY <1>3, <1>4, SetCurrentMirrors
<1>9. SetCurrent(st, old) = st
  BY <1>2, SetCurrentSame
<1>10. AnswersAlike(Stores!MemRestore(m, ask, now), Restore(st, ask, now), "save")
  BY <1>5, <1>7, <1>8 DEF AnswersAlike, Done
<1>11. AnswersAlike(Stores!MemSoftDelete(m, ask, now), SoftDelete(st, ask, now), "save")
  BY <1>6, <1>7, <1>8, <1>9 DEF AnswersAlike, Done
<1> QED BY <1>10, <1>11

\* What is expired is the same, and forgotten in both.
LEMMA PurgeAlike ==
  ASSUME NEW m, NEW st, Mirrors(m, st), StateType(st), Sound(st), NEW ask \in Request
  PROVE  AnswersAlike(Stores!MemPurgeExpired(m, ask), PurgeExpired(st, ask), "save")
<1> DEFINE gone == Expired(st, ask.now)
           records == Without(m.records, gone)
           history == Without(m.history, gone)
           new == [next_id |-> st.next_id, records |-> Without(st.records, gone),
                   history |-> Without(st.history, gone)]
           m2 == [next_id |-> st.next_id, heap |-> m.heap, records |-> records, history |-> history]
<1>1. DOMAIN m.records = DOMAIN st.records /\ DOMAIN m.history = DOMAIN st.records
      /\ \A i \in DOMAIN st.records : Stores!Current(m, i) = st.records[i]
  BY MirrorsMeans, CurrentIsRecord
<1>2. gone = {i \in DOMAIN m.records : /\ Stores!Current(m, i).deleted # NotDeleted
                                       /\ Stores!Current(m, i).deleted < ask.now - Retention}
  BY <1>1 DEF Expired
<1>3. {Stores!Current(m, i) : i \in gone} = {st.records[i] : i \in gone}
  BY <1>1 DEF Expired
<1>4. gone \subseteq DOMAIN st.records
  BY DEF Expired
<1>5. PurgeExpired(st, ask) = Done(new, {st.records[i] : i \in gone})
  BY DEF PurgeExpired
<1>6. [m EXCEPT !.records = records, !.history = history] = m2
  <2>1. m = [next_id |-> st.next_id, heap |-> m.heap, records |-> m.records, history |-> m.history]
    BY MirrorsMeans
  <2> DEFINE a == st.next_id
             b == m.heap
             c == m.records
             d == m.history
             m1 == [m EXCEPT !.records = records]
             m3 == [m1 EXCEPT !.history = history]
  <2>2. m = [next_id |-> a, heap |-> b, records |-> c, history |-> d]
    BY <2>1
  <2> HIDE DEF records, history, a, b, c, d
  <2>3. m3 = [m EXCEPT !.records = records, !.history = history]
    OBVIOUS
  <2>4. m1 = [next_id |-> a, heap |-> b, records |-> records, history |-> d]
    BY <2>2
  <2> HIDE DEF m1
  <2>5. m3 = [next_id |-> a, heap |-> b, records |-> records, history |-> history]
    BY <2>4
  <2> HIDE DEF m3
  <2>6. m3 = m2
    BY <2>5 DEF a, b
  <2> QED BY <2>3, <2>6
<1>7. Stores!MemPurgeExpired(m, ask) = Done(m2, {st.records[i] : i \in gone})
  <2>1. \A f, K : Stores!Without(f, K) = Without(f, K)
    BY DEF Stores!Without, Without
  <2>2. Stores!MemPurgeExpired(m, ask)
          = LET g == {i \in DOMAIN m.records : /\ Stores!Current(m, i).deleted # NotDeleted
                                                /\ Stores!Current(m, i).deleted < ask.now - Retention}
            IN Done([m EXCEPT !.records = Without(m.records, g), !.history = Without(m.history, g)],
                    {Stores!Current(m, i) : i \in g})
    BY <2>1, SameOperators DEF Stores!MemPurgeExpired
  <2> HIDE DEF gone, m2
  <2> QED BY <1>2, <1>3, <1>6, <2>2
<1> HIDE DEF gone
<1>8. /\ DOMAIN new.records = DOMAIN st.records \ gone
      /\ \A i \in DOMAIN st.records \ gone :
           /\ new.records[i] = st.records[i] /\ new.history[i] = st.history[i]
           /\ records[i] = m.records[i] /\ history[i] = m.history[i]
  <2>1. DOMAIN st.history = DOMAIN st.records
    BY DEF Sound, LineageSound
  <2> QED BY <1>1, <2>1 DEF Without
<1>9. /\ records \in [DOMAIN new.records -> 1 .. Len(m.heap)]
      /\ history \in [DOMAIN new.records -> Seq(1 .. Len(m.heap))]
  <2>1. \A i \in DOMAIN st.records : m.records[i] \in 1 .. Len(m.heap) /\ m.history[i] \in Seq(1 .. Len(m.heap))
    BY MirrorsMeans
  <2> QED BY <1>1, <1>8, <2>1 DEF Without
<1>10. new.next_id = st.next_id
  OBVIOUS
<1> HIDE DEF new, records, history
<1>11. m2 = [next_id |-> new.next_id, heap |-> m2.heap, records |-> m2.records, history |-> m2.history]
       /\ m2.heap = m.heap /\ m2.records = records /\ m2.history = history
  BY <1>10
<1> HIDE DEF m2
<1>12. ASSUME NEW i \in DOMAIN new.records
       PROVE  /\ m2.heap[m2.records[i]] = new.records[i]
              /\ \A j \in DOMAIN new.records : m2.records[i] = m2.records[j] => i = j
              /\ Len(m2.history[i]) = Len(new.history[i])
              /\ \A k \in 1 .. Len(new.history[i]) : Alike(m2.heap[m2.history[i][k]], new.history[i][k])
  <2>1. /\ m2.heap[m2.records[i]] = new.records[i]
        /\ m2.history[i] = m.history[i] /\ new.history[i] = st.history[i]
        /\ i \in DOMAIN st.records
    <3>1. m.heap[m.records[i]] = st.records[i]
      BY <1>8, MirrorsMeans
    <3> QED BY <1>8, <1>11, <3>1
  <2>2. \A j \in DOMAIN new.records : m2.records[i] = m2.records[j] => i = j
    <3>1. \A j \in DOMAIN st.records : m.records[i] = m.records[j] => i = j
      BY <2>1, MirrorsMeans
    <3> QED BY <1>8, <1>11, <3>1
  <2>3. Len(m.history[i]) = Len(st.history[i])
    BY <2>1, MirrorsMeans
  <2>4. \A k \in 1 .. Len(st.history[i]) : Alike(m.heap[m.history[i][k]], st.history[i][k])
    BY <2>1, MirrorsMeans
  <2> QED BY <1>11, <2>1, <2>2, <2>3, <2>4
<1>13. Mirrors(m2, new)
  <2>1. m2.heap \in Seq(Record)
    BY <1>11, MirrorsMeans
  <2> QED BY <1>9, <1>11, <1>12, <2>1 DEF Mirrors
<1> QED BY <1>5, <1>7, <1>13 DEF AnswersAlike, Done

\* The history of a scenario is the one in the file, but for its dates.
LEMMA VersionsAlike ==
  ASSUME NEW m, NEW st, Mirrors(m, st), StateType(st), Sound(st), NEW id
  PROVE  /\ DOMAIN Stores!Versions(m, id) = DOMAIN HistoryOf(st, id)
         /\ \A k \in DOMAIN HistoryOf(st, id) :
              Alike(Stores!Versions(m, id)[k], HistoryOf(st, id)[k])
<1>1. DOMAIN m.history = DOMAIN st.records /\ DOMAIN st.history = DOMAIN st.records
  BY MirrorsMeans DEF Sound, LineageSound
<1>2. CASE id \notin DOMAIN st.records
  BY <1>1, <1>2 DEF Stores!Versions, HistoryOf
<1>3. CASE id \in DOMAIN st.records
  <2> DEFINE h == st.history[id]
             g == m.history[id]
  <2>1. HistoryOf(st, id) = h
        /\ Stores!Versions(m, id) = [k \in DOMAIN g |-> m.heap[g[k]]]
    BY <1>1, <1>3 DEF HistoryOf, Stores!Versions, Stores!Deref
  <2>2. h \in Seq(Record)
    BY <1>1, <1>3 DEF StateType
  <2>3. g \in Seq(1 .. Len(m.heap)) /\ Len(g) = Len(h)
        /\ \A k \in 1 .. Len(h) : Alike(m.heap[g[k]], h[k])
    BY <1>3, MirrorsMeans
  <2>4. DOMAIN h = 1 .. Len(h) /\ DOMAIN g = 1 .. Len(h)
    BY <2>2, <2>3
  <2> HIDE DEF h, g
  <2> QED BY <2>1, <2>3, <2>4
<1> QED BY <1>2, <1>3

LEMMA ReadsAlike ==
  ASSUME NEW m, NEW st, Mirrors(m, st), StateType(st), Sound(st), NEW ask
  PROVE  /\ AnswersAlike(Done(m, {Stores!Current(m, i) : i \in DOMAIN m.records \cap {ask.id}}),
                         Load(st, ask), "load")
         /\ AnswersAlike(Stores!MemListActive(m, ask), ListActive(st, ask), "list_active")
         /\ AnswersAlike(Done(m, {Stores!Versions(m, ask.id)[k] : k \in DOMAIN Stores!Versions(m, ask.id)}),
                         ListVersions(st, ask), "list_versions")
<1>1. DOMAIN m.records = DOMAIN st.records
      /\ \A i \in DOMAIN st.records : Stores!Current(m, i) = st.records[i]
  BY MirrorsMeans, CurrentIsRecord
<1>2. {Stores!Current(m, i) : i \in DOMAIN m.records \cap {ask.id}}
        = {st.records[i] : i \in DOMAIN st.records \cap {ask.id}}
      /\ {Stores!Current(m, i) : i \in DOMAIN m.records} = {st.records[i] : i \in DOMAIN st.records}
  BY <1>1
<1>3. AnswersAlike(Done(m, {Stores!Current(m, i) : i \in DOMAIN m.records \cap {ask.id}}),
                   Load(st, ask), "load")
  BY <1>2 DEF AnswersAlike, Load, Done
<1>4. Stores!MemListActive(m, ask)
        = Done(m, {rec \in {st.records[i] : i \in DOMAIN st.records} :
                     rec.owner = ask.owner /\ rec.deleted = NotDeleted})
  BY <1>2, SameOperators DEF Stores!MemListActive
<1>5. AnswersAlike(Stores!MemListActive(m, ask), ListActive(st, ask), "list_active")
  BY <1>4 DEF AnswersAlike, ListActive, Done
<1> DEFINE h == HistoryOf(st, ask.id)
           g == Stores!Versions(m, ask.id)
           a == {g[k] : k \in DOMAIN g}
           b == {h[k] : k \in DOMAIN h}
<1>6. DOMAIN g = DOMAIN h /\ \A k \in DOMAIN h : Stores!Undated(g[k]) = Stores!Undated(h[k])
  BY VersionsAlike DEF Alike
<1>7. {Stores!Undated(v) : v \in a} = {Stores!Undated(v) : v \in b}
  <2> HIDE DEF g, h
  <2> QED BY <1>6
<1>8. ListVersions(st, ask) = Done(st, b)
  BY DEF ListVersions
<1> HIDE DEF a, b
<1>9. AnswersAlike(Done(m, a), ListVersions(st, ask), "list_versions")
  BY <1>7, <1>8 DEF AnswersAlike, Done
<1> QED BY <1>3, <1>5, <1>9 DEF a

(***************************************************************************)
(* One request, given to both stores at one time: they answer alike and    *)
(* mirror each other afterwards.                                           *)
(***************************************************************************)
LEMMA CallAlike ==
  ASSUME NEW m, NEW st, Mirrors(m, st), StateType(st), Sound(st), NEW ask \in Request,
         NEW now \in Nat
  PROVE  AnswersAlike(Stores!MemOutcome(m, ask, now), Outcome(st, ask, now), ask.op)
<1> DEFINE om == Stores!MemOutcome(m, ask, now)
           o == Outcome(st, ask, now)
           refused == \/ ~Known(st, ask.id)
                      \/ ask.op = "restore_version" /\ ~HasVersion(st, ask.id, ask.version)
           unknown == \/ ask.id \notin DOMAIN m.records
                      \/ /\ ask.op = "restore_version"
                         /\ \A k \in DOMAIN Stores!Versions(m, ask.id) :
                              Stores!Versions(m, ask.id)[k].version # ask.version
<1>0. ask.op \in Operations
  BY DEF Request
<1>1. unknown <=> refused
  <2>1. DOMAIN m.records = DOMAIN st.records
    BY MirrorsMeans
  <2>2. \A k \in DOMAIN HistoryOf(st, ask.id) :
          Stores!Versions(m, ask.id)[k].version = HistoryOf(st, ask.id)[k].version
    BY VersionsAlike, AlikeFields
  <2> QED BY <2>1, <2>2, VersionsAlike DEF Known, HasVersion
<1>2. Stores!Missing(m) = Missing(m)
  BY SameOperators
<1>3. \/ /\ ask.op = "load"
         /\ om = Stores!Done(m, {Stores!Current(m, i) : i \in DOMAIN m.records \cap {ask.id}})
         /\ o = Load(st, ask)
      \/ ask.op = "list_active" /\ om = Stores!MemListActive(m, ask) /\ o = ListActive(st, ask)
      \/ /\ ask.op = "list_versions"
         /\ om = Stores!Done(m, {Stores!Versions(m, ask.id)[k] : k \in DOMAIN Stores!Versions(m, ask.id)})
         /\ o = ListVersions(st, ask)
      \/ ask.op = "purge_expired" /\ om = Stores!MemPurgeExpired(m, ask) /\ o = PurgeExpired(st, ask)
      \/ ask.op = "save" /\ om = Stores!MemSaveNew(m, ask) /\ o = SaveNew(st, ask)
      \/ om = Missing(m) /\ o = Missing(st)
      \/ ask.op = "save" /\ ~refused /\ om = Stores!MemSaveExisting(m, ask) /\ o = SaveExisting(st, ask)
      \/ /\ ask.op = "restore_version" /\ ~refused
         /\ om = Stores!MemRestoreVersion(m, ask) /\ o = RestoreVersion(st, ask)
      \/ /\ ask.op = "soft_delete" /\ ~refused
         /\ om = Stores!MemSoftDelete(m, ask, now) /\ o = SoftDelete(st, ask, now)
      \/ /\ ask.op = "restore" /\ ~refused
         /\ om = Stores!MemRestore(m, ask, now) /\ o = Restore(st, ask, now)
  <2>1. CASE ask.op \in {"load", "list_active", "list_versions", "purge_expired"}
    BY <2>1 DEF Stores!MemOutcome, Outcome
  <2>2. CASE ask.op = "save" /\ ask.id = 0
    BY <2>2 DEF Stores!MemOutcome, Outcome
  <2>3. CASE ask.op \in {"save", "restore_version", "soft_delete", "restore"}
             /\ ~(ask.op = "save" /\ ask.id = 0)
    <3>1. CASE refused
      BY <1>1, <1>2, <2>3, <3>1 DEF Stores!MemOutcome, Outcome
    <3>2. CASE ~refused
      BY <1>1, <2>3, <3>2 DEF Stores!MemOutcome, Outcome
    <3> QED BY <3>1, <3>2
  <2> QED BY <1>0, <2>1, <2>2, <2>3 DEF Operations
<1>4. \A value : Stores!Done(m, value) = Done(m, value)
  BY SameOperators
<1>5. ~refused => /\ ask.id \in DOMAIN st.records
                  /\ ask.op = "restore_version" => HasVersion(st, ask.id, ask.version)
  BY DEF Known
<1>6. \A a, b, op : op # "list_versions" /\ AnswersAlike(a, b, "save") => AnswersAlike(a, b, op)
  BY DEF AnswersAlike
<1>7. AnswersAlike(Missing(m), Missing(st), ask.op)
  BY DoneAlike
<1>8. /\ AnswersAlike(Done(m, {Stores!Current(m, i) : i \in DOMAIN m.records \cap {ask.id}}),
                      Load(st, ask), "load")
      /\ AnswersAlike(Stores!MemListActive(m, ask), ListActive(st, ask), "list_active")
      /\ AnswersAlike(Done(m, {Stores!Versions(m, ask.id)[k] : k \in DOMAIN Stores!Versions(m, ask.id)}),
                      ListVersions(st, ask), "list_versions")
      /\ AnswersAlike(Stores!MemPurgeExpired(m, ask), PurgeExpired(st, ask), "save")
      /\ AnswersAlike(Stores!MemSaveNew(m, ask), SaveNew(st, ask), "save")
  BY ReadsAlike, PurgeAlike, SaveNewAlike
<1>9. ~refused =>
        /\ AnswersAlike(Stores!MemSaveExisting(m, ask), SaveExisting(st, ask), "save")
        /\ ask.op = "restore_version" =>
             AnswersAlike(Stores!MemRestoreVersion(m, ask), RestoreVersion(st, ask), "save")
        /\ AnswersAlike(Stores!MemSoftDelete(m, ask, now), SoftDelete(st, ask, now), "save")
        /\ AnswersAlike(Stores!MemRestore(m, ask, now), Restore(st, ask, now), "save")
  BY <1>5, SaveExistingAlike, RestoreVersionAlike, MarksAlike
<1> HIDE DEF om, o, refused
<1>10. \/ AnswersAlike(om, o, ask.op)
       \/ ask.op # "list_versions" /\ AnswersAlike(om, o, "save")
  BY <1>3, <1>4, <1>7, <1>8, <1>9
<1>13. AnswersAlike(om, o, ask.op)
  BY <1>6, <1>10
<1> QED BY <1>13 DEF om, o

-----------------------------------------------------------------------------
StoresAlike ==
  /\ Mirrors(mem, disk)
  /\ StateType(disk)
  /\ Sound(disk)
  /\ storeClock \in Nat
  /\ SameUpToHistoryDates

LEMMA StoresAlikeInit == RequestsInit => StoresAlike
<1> SUFFICES ASSUME RequestsInit PROVE StoresAlike
  OBVIOUS
<1>1. /\ mem = Stores!EmptyMemory /\ disk = EmptyState /\ storeClock = 0
      /\ replies = [mem |-> Stores!NoReply, disk |-> Stores!NoReply, op |-> "load"]
  BY SameRecords DEF RequestsInit, Stores!Init
<1>2. Mirrors(Stores!EmptyMemory, EmptyState)
  BY DEF Mirrors, Stores!EmptyMemory, EmptyState
<1>3. replies.mem = replies.disk /\ replies.op = "load"
  BY <1>1
<1> QED BY <1>1, <1>2, <1>3, EmptyStateSound
      DEF StoresAlike, SameUpToHistoryDates, Stores!SameUpToHistoryDates

LEMMA StoresAlikeStep ==
  ASSUME StoresAlike, [RequestsNext]_<<part, vars, stores>>
  PROVE  StoresAlike'
<1>1. CASE UNCHANGED stores
  BY <1>1 DEF StoresAlike, stores, Mirrors, SameUpToHistoryDates, Stores!SameUpToHistoryDates
<1>2. CASE Stores!Tick
  BY <1>2 DEF Stores!Tick, StoresAlike, SameUpToHistoryDates, Stores!SameUpToHistoryDates
<1>3. ASSUME NEW r \in StoreRequests, Stores!Call(r) PROVE StoresAlike'
  <2> DEFINE q == [r EXCEPT !.now = storeClock]
             om == Stores!MemOutcome(mem, q, storeClock)
             o == Outcome(disk, q, storeClock)
  <2>1. storeClock \in Nat /\ Mirrors(mem, disk) /\ StateType(disk) /\ Sound(disk)
    BY DEF StoresAlike
  <2>2. q \in Request
    BY <2>1, StoreRequestsAssumption DEF Request
  <2>3. Stores!Outcome(disk, q, storeClock) = o
    BY SameRecords
  <2>4. /\ mem' = om.state /\ disk' = o.state /\ storeClock' = storeClock
        /\ replies' = [mem |-> Stores!ReplyOf(om), disk |-> Stores!ReplyOf(o), op |-> q.op]
    <3> HIDE DEF q, o
    <3> QED BY <1>3, <2>3 DEF Stores!Call, q
  <2> HIDE DEF q
  <2>5. AnswersAlike(om, o, q.op)
    BY <2>1, <2>2, CallAlike
  <2>6. StateType(o.state) /\ Sound(o.state)
    BY <2>1, <2>2, OutcomeSound
  <2> HIDE DEF om, o
  <2>7. SameUpToHistoryDates'
    BY <2>4, <2>5 DEF SameUpToHistoryDates, Stores!SameUpToHistoryDates, AnswersAlike, Stores!ReplyOf
  <2>8. Mirrors(mem', disk')
    BY <2>4, <2>5 DEF AnswersAlike
  <2> QED BY <2>1, <2>4, <2>6, <2>7, <2>8 DEF StoresAlike
<1> QED BY <1>1, <1>2, <1>3 DEF RequestsNext, Stores!Next

(***************************************************************************)
(* For any requests of the protocol, in any order and at any times, the    *)
(* in-memory store answers what the file store answers, but for the dates  *)
(* of a history (scenario_store_file.py:249-253).                          *)
(***************************************************************************)
THEOREM StoresAgree == RequestsSpec => []SameUpToHistoryDates
<1>1. RequestsInit => StoresAlike
  BY StoresAlikeInit
<1>2. StoresAlike /\ [RequestsNext]_<<part, vars, stores>> => StoresAlike'
  BY StoresAlikeStep
<1>3. StoresAlike => SameUpToHistoryDates
  BY DEF StoresAlike
<1> QED BY <1>1, <1>2, <1>3, PTL DEF RequestsSpec
=============================================================================
