------------------------- MODULE CaseGridExecution -------------------------
(***************************************************************************)
(* run_cases and its sequential and parallel halves                        *)
(* (core/casegrid/execution.py).  A result is known by its case.           *)
(*                                                                         *)
(* The pool is concurrent.futures: cases wait in a queue and are run by    *)
(* Workers processes; as_completed hands out the futures in batches of     *)
(* those that ended since it last looked; a worker process that dies       *)
(* breaks every case that has not ended; leaving the with block waits for  *)
(* everything that was submitted.                                          *)
(***************************************************************************)
EXTENDS Integers, Sequences, FiniteSets, SequencesExt

CONSTANTS
  Inputs,     \* the sequences of cases (their indices) run_cases is called with
  Workers,    \* processes of the pool
  Threshold,  \* more cases than this must be confirmed by the user
  MaxDeaths   \* bound on the worker processes that die

VARIABLES
  input,      \* the cases as given
  bad,        \* those whose runner raises
  parallel,   \* the two flags of the call
  confirmed,
  pc,         \* where the call is
  ordered,    \* the cases, sorted by index
  queue,      \* submitted, not begun
  work,       \* per case: "none", "queued", "running", or how it ended
  batch,      \* the ended futures as_completed is handing out
  taken,      \* the futures it has put in a batch so far
  results,    \* collected so far, in this order
  reported,   \* completed cases, as last reported
  stop,       \* stop_requested() is true from now on
  ending,     \* how the call will end: "none" while it is not known
  deaths      \* worker processes that died

call == <<input, bad, parallel, confirmed>>
pool == <<queue, work, deaths>>
caller == <<pc, ordered, batch, taken, results, reported, ending>>
vars == <<call, pool, caller, stop>>

Cases == ToSet(input)
InState(s) == {c \in Cases : work[c] = s}
Ended == InState("done") \cup InState("failed") \cup InState("broken")

\* sorted by case_index, which no two cases share.
ByIndex(s) ==
  CHOOSE t \in [1 .. Len(s) -> ToSet(s)] :
    \A i, j \in 1 .. Len(s) : i < j => t[i] < t[j]

Init ==
  /\ input \in Inputs
  /\ bad \in SUBSET ToSet(input)
  /\ parallel \in BOOLEAN /\ confirmed \in BOOLEAN
  /\ pc = "begin"
  /\ ordered = <<>> /\ queue = <<>> /\ results = <<>>
  /\ work = [c \in ToSet(input) |-> "none"]
  /\ batch = {} /\ taken = {}
  /\ reported = 0 /\ deaths = 0
  /\ stop = FALSE
  /\ ending = "none"

-----------------------------------------------------------------------------
\* The caller of run_cases wants it to stop.
RequestStop ==
  /\ pc # "end" /\ ~stop
  /\ stop' = TRUE
  /\ UNCHANGED <<call, pool, caller>>

\* Variant: the number of cases is looked at in the sequential half only.
BeginUnchecked ==
  /\ pc = "begin"
  /\ ordered' = ByIndex(input)
  /\ IF Len(input) > Threshold /\ ~confirmed /\ ~parallel
     THEN ending' = "refused" /\ pc' = "end"
     ELSE pc' = (IF parallel THEN "submit" ELSE "next") /\ UNCHANGED ending
  /\ UNCHANGED <<call, pool, batch, taken, results, reported, stop>>

\* run_cases: too many cases without confirmation are refused (DV-10); the
\* others are sorted and run.
Begin ==
  /\ pc = "begin"
  /\ ordered' = ByIndex(input)
  /\ IF Len(input) > Threshold /\ ~confirmed
     THEN ending' = "refused" /\ pc' = "end"
     ELSE pc' = (IF parallel THEN "submit" ELSE "next") /\ UNCHANGED ending
  /\ UNCHANGED <<call, pool, batch, taken, results, reported, stop>>

End(how) == ending' = how /\ pc' = IF parallel THEN "exit" ELSE "end"

-----------------------------------------------------------------------------
\* _run_cases_sequential.
RunNext ==
  /\ pc = "next"
  /\ \/ /\ Len(results) = Len(ordered)
        /\ End("results")
        /\ UNCHANGED work
     \/ /\ Len(results) < Len(ordered)
        /\ stop
        /\ End("cancelled")
        /\ UNCHANGED work
     \/ /\ Len(results) < Len(ordered)
        /\ ~stop
        /\ work' = [work EXCEPT ![ordered[Len(results) + 1]] = "running"]
        /\ pc' = "running"
        /\ UNCHANGED ending
  /\ UNCHANGED <<call, queue, deaths, ordered, batch, taken, results, reported, stop>>

Collect(c) ==
  /\ results' = Append(results, c)
  /\ reported' = Len(results) + 1

\* The runner returns or raises; _emit_progress after it returned.
RunnerReturns ==
  /\ pc = "running"
  /\ LET c == ordered[Len(results) + 1]
     IN  \/ /\ c \in bad
            /\ work' = [work EXCEPT ![c] = "failed"]
            /\ End("failed")
            /\ UNCHANGED <<results, reported>>
         \/ /\ c \notin bad
            /\ work' = [work EXCEPT ![c] = "done"]
            /\ Collect(c)
            /\ pc' = "next"
            /\ UNCHANGED ending
  /\ UNCHANGED <<call, queue, deaths, ordered, batch, taken, stop>>

-----------------------------------------------------------------------------
\* _run_cases_parallel submits case after case, then starts as_completed.  A
\* pool that lost a process refuses what is submitted.
Submit ==
  /\ pc = "submit"
  /\ LET n == Cardinality(Cases \ InState("none"))
     IN  \/ /\ n = Len(ordered)
            /\ pc' = "collect" /\ batch' = Ended /\ taken' = Ended
            /\ UNCHANGED <<queue, work, ending>>
         \/ /\ n < Len(ordered) /\ ~stop /\ deaths = 0
            /\ queue' = Append(queue, ordered[n + 1])
            /\ work' = [work EXCEPT ![ordered[n + 1]] = "queued"]
            /\ UNCHANGED <<pc, batch, taken, ending>>
         \/ /\ n < Len(ordered) /\ (stop \/ deaths > 0)
            /\ End(IF stop THEN "cancelled" ELSE "failed")
            /\ UNCHANGED <<queue, work, batch, taken>>
  /\ UNCHANGED <<call, deaths, ordered, results, reported, stop>>

\* as_completed hands out the futures that ended since the last batch.
NextBatch ==
  /\ pc = "collect"
  /\ batch = {}
  /\ Ended \ taken # {}
  /\ batch' = Ended \ taken
  /\ taken' = Ended
  /\ UNCHANGED <<call, pool, pc, ordered, results, reported, stop, ending>>

\* Variant: a failed case is waited for again.
TakeResultAgain ==
  /\ pc = "collect"
  /\ \E c \in batch :
       \/ /\ stop
          /\ End("cancelled")
          /\ UNCHANGED <<batch, results, reported>>
       \/ /\ ~stop /\ work[c] = "done"
          /\ Collect(c)
          /\ batch' = batch \ {c}
          /\ UNCHANGED <<pc, ending>>
  /\ UNCHANGED <<call, pool, ordered, taken, stop>>

\* The loop over as_completed: future.result() raises what the case raised.
TakeResult ==
  /\ pc = "collect"
  /\ \E c \in batch :
       \/ /\ stop
          /\ End("cancelled")
          /\ UNCHANGED <<batch, results, reported>>
       \/ /\ ~stop /\ work[c] # "done"
          /\ End("failed")
          /\ UNCHANGED <<batch, results, reported>>
       \/ /\ ~stop /\ work[c] = "done"
          /\ Collect(c)
          /\ batch' = batch \ {c}
          /\ UNCHANGED <<pc, ending>>
  /\ UNCHANGED <<call, pool, ordered, taken, stop>>

\* Every future was handed out and none raised.
AllTaken ==
  /\ pc = "collect"
  /\ batch = {} /\ taken = Cases
  /\ End("results")
  /\ UNCHANGED <<call, pool, ordered, batch, taken, results, reported, stop>>

\* Variant: the results stay in the order in which they were collected.
ExitUnsorted ==
  /\ pc = "exit"
  /\ InState("queued") \cup InState("running") = {}
  /\ pc' = "end"
  /\ UNCHANGED <<call, pool, ordered, batch, taken, results, reported, stop, ending>>

\* The end of the with block waits for all that was submitted; the results are
\* sorted by case_index.
Exit ==
  /\ pc = "exit"
  /\ InState("queued") \cup InState("running") = {}
  /\ pc' = "end"
  /\ results' = ByIndex(results)
  /\ UNCHANGED <<call, pool, ordered, batch, taken, reported, stop, ending>>

-----------------------------------------------------------------------------
StartCase ==
  /\ parallel /\ queue # <<>>
  /\ Cardinality(InState("running")) < Workers
  /\ work' = [work EXCEPT ![Head(queue)] = "running"]
  /\ queue' = Tail(queue)
  /\ UNCHANGED <<call, deaths, caller, stop>>

FinishCase ==
  /\ parallel
  /\ \E c \in InState("running") :
       work' = [work EXCEPT ![c] = IF c \in bad THEN "failed" ELSE "done"]
  /\ UNCHANGED <<call, queue, deaths, caller, stop>>

WorkerDies ==
  /\ parallel /\ deaths < MaxDeaths
  /\ pc \in {"submit", "collect", "exit"}
  /\ deaths' = deaths + 1
  /\ work' = [c \in Cases |-> IF work[c] \in {"queued", "running"} THEN "broken" ELSE work[c]]
  /\ queue' = <<>>
  /\ UNCHANGED <<call, caller, stop>>

Main ==
  \/ Begin \/ RunNext \/ RunnerReturns
  \/ Submit \/ NextBatch \/ TakeResult \/ AllTaken \/ Exit

Pool == StartCase \/ FinishCase

Next == Main \/ Pool \/ RequestStop \/ WorkerDies

\* The call runs on, the pool runs what it was given, every runner returns.
Spec == Init /\ [][Next]_vars /\ WF_vars(Main) /\ WF_vars(Pool)

-----------------------------------------------------------------------------
\* Every variable has its type; the pool never runs more than its workers.
TypeOK ==
  /\ bad \subseteq Cases
  /\ pc \in {"begin", "next", "running", "submit", "collect", "exit", "end"}
  /\ work \in [Cases -> {"none", "queued", "running", "done", "failed", "broken"}]
  /\ batch \subseteq taken /\ taken \subseteq Ended
  /\ ToSet(queue) = InState("queued")
  /\ Cardinality(InState("running")) <= Workers
  /\ ToSet(results) \subseteq InState("done") /\ IsInjective(results)
  /\ reported \in 0 .. Len(input)
  /\ deaths \in 0 .. MaxDeaths
  /\ ending \in {"none", "results", "cancelled", "failed", "refused"}

(***************************************************************************)
(* A call that returns has one result per case, in the order of their      *)
(* indices, whatever the order the cases were given in, begun in or ended  *)
(* in: the parallel half cannot be told from the sequential one.           *)
(***************************************************************************)
ResultsInOrder ==
  pc = "end" /\ ending = "results"
  => /\ ToSet(results) = Cases /\ Len(results) = Cardinality(Cases)
     /\ \A i, j \in 1 .. Len(results) : i < j => results[i] < results[j]

\* When the call has ended, cancelled and failed ones included, no case of it
\* is running or begins (the with block of _run_cases_parallel).
NothingRunsOn ==
  [][pc = "end" => InState("queued") \cup InState("running") = {} /\ work' = work]_vars

\* Every call ends, also when a case raises, a worker dies or the caller stops.
CallEnds == <>(pc = "end")

(***************************************************************************)
(* The caller sees progress and, at the end, one outcome.                  *)
(***************************************************************************)
Contract == INSTANCE CaseGridRun WITH
  ordered <- ByIndex(input),
  permitted <- Len(input) <= Threshold \/ confirmed,
  broken <- deaths > 0 \/ InState("failed") # {},
  ending <- IF pc # "end" THEN [kind |-> "running", results |-> <<>>]
            ELSE [kind |-> ending,
                  results |-> IF ending = "results" THEN results ELSE <<>>]

\* The code keeps the contract of CaseGridRun.
KeepsContract == Contract!Spec
=============================================================================
