---------------------------- MODULE CaseGridRun ----------------------------
(***************************************************************************)
(* What run_cases (core/casegrid/execution.py) promises its caller, in one *)
(* thread or in many: progress counts up to the number of cases, and the   *)
(* call ends once, with the results of all of them in the order of their   *)
(* indices, or with the reason why there are none.                         *)
(***************************************************************************)
EXTENDS Sequences, Integers

VARIABLES
  ordered,    \* the cases, by index
  permitted,  \* not too many of them, or confirmed by the user
  stop,       \* the caller asked to stop
  broken,     \* a case raised, or a worker process died
  reported,   \* completed cases, as last reported
  ending      \* [kind, results]

Running == [kind |-> "running", results |-> <<>>]
EndWith(kind) == [kind |-> kind, results |-> <<>>]

Init ==
  /\ stop = FALSE /\ broken = FALSE
  /\ reported = 0
  /\ ending = Running

StopOrBreak ==
  /\ stop => stop'
  /\ broken => broken'
  /\ UNCHANGED <<ordered, permitted, reported, ending>>

Report ==
  /\ ending = Running /\ permitted
  /\ reported < Len(ordered)
  /\ reported' = reported + 1
  /\ UNCHANGED <<ordered, permitted, stop, broken, ending>>

End ==
  /\ ending = Running
  /\ \/ ~permitted /\ reported = 0 /\ ending' = EndWith("refused")
     \/ permitted /\ stop /\ ending' = EndWith("cancelled")
     \/ permitted /\ broken' /\ ending' = EndWith("failed")
     \/ /\ permitted /\ reported = Len(ordered)
        /\ ending' = [kind |-> "results", results |-> ordered]
  /\ broken => broken'
  /\ UNCHANGED <<ordered, permitted, stop, reported>>

Next == StopOrBreak \/ Report \/ End

Spec == Init /\ [][Next]_<<ordered, permitted, stop, broken, reported, ending>>
=============================================================================
