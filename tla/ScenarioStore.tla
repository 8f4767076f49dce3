--------------------------- MODULE ScenarioStore ---------------------------
(***************************************************************************)
(* What a store behind the ScenarioStore protocol promises its callers     *)
(* (app/services/scenario_store.py): every call takes effect at one        *)
(* instant between its start and its answer, entirely or not at all.  A    *)
(* call may be refused, and then it has no effect; a caller that dies      *)
(* before its answer does not know which of the two happened.  The time a  *)
(* deletion or restoration is dated with is one the clock showed during    *)
(* the call.                                                               *)
(***************************************************************************)
EXTENDS ScenarioRecords

CONSTANTS
  Processes,   \* web workers and threads that share the store
  Requests,    \* the requests they make (now is filled in at the call)
  MaxClock,    \* bound on the clock
  MaxCalls     \* bound on the number of calls

VARIABLES
  store,     \* the state all processes share
  clock,     \* wall clock
  call,      \* call[p]: the call p is making
  calls      \* number of calls made

vars == <<store, clock, call, calls>>

Answer == [status : {"none", "ok", "missing", "refused"}, value : SUBSET Record]
NoAnswer == [status |-> "none", value |-> {}]
Refused == [status |-> "refused", value |-> {}]

AnyRequest == CHOOSE r \in Requests : TRUE
Idle == [busy |-> FALSE, req |-> AnyRequest, answer |-> NoAnswer]
Pending(p) == call[p].busy /\ call[p].answer = NoAnswer

Init ==
  /\ store = EmptyState
  /\ clock = 0
  /\ call = [p \in Processes |-> Idle]
  /\ calls = 0

Call(p, r) ==
  /\ ~call[p].busy
  /\ calls < MaxCalls
  /\ calls' = calls + 1
  /\ call' = [call EXCEPT ![p] = [busy |-> TRUE, answer |-> NoAnswer,
                                  req |-> [r EXCEPT !.now = clock]]]
  /\ UNCHANGED <<store, clock>>

TakeEffect(p) ==
  /\ Pending(p)
  /\ \E now \in call[p].req.now .. clock :
       LET o == Outcome(store, call[p].req, now)
       IN  /\ store' = o.state
           /\ call' = [call EXCEPT ![p].answer = [status |-> o.status,
                                                  value |-> o.value]]
  /\ UNCHANGED <<clock, calls>>

Refuse(p) ==
  /\ Pending(p)
  /\ call' = [call EXCEPT ![p].answer = Refused]
  /\ UNCHANGED <<store, clock, calls>>

Return(p) ==
  /\ call[p].busy
  /\ call[p].answer # NoAnswer
  /\ call' = [call EXCEPT ![p] = Idle]
  /\ UNCHANGED <<store, clock, calls>>

Crash(p) ==
  /\ call[p].busy
  /\ call' = [call EXCEPT ![p] = Idle]
  /\ UNCHANGED <<store, clock, calls>>

Tick ==
  /\ clock < MaxClock
  /\ clock' = clock + 1
  /\ UNCHANGED <<store, call, calls>>

Next ==
  \/ \E p \in Processes :
       \/ \E r \in Requests : Call(p, r)
       \/ TakeEffect(p)
       \/ Refuse(p)
       \/ Return(p)
       \/ Crash(p)
  \/ Tick

Spec == Init /\ [][Next]_vars
=============================================================================
