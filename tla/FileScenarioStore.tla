------------------------- MODULE FileScenarioStore -------------------------
(***************************************************************************)
(* JsonFileScenarioStore (app/services/scenario_store_file.py): one JSON   *)
(* file shared by every web worker, no lock.  _update reads the file,      *)
(* applies the mutation to the copy, fingerprints the file again and, when *)
(* nothing changed, writes a file beside it and renames it into place; it  *)
(* starts over once and then gives up.                                     *)
(*                                                                         *)
(* A fingerprint is (mtime, hash of the bytes): two system calls, so two   *)
(* steps.  It is modelled by the file record itself, its mtime taken at    *)
(* the stat and the rest at the read_bytes before it.  mtime is the clock, *)
(* which need not move between two writes (a coarse file time).            *)
(***************************************************************************)
EXTENDS ScenarioRecords

CONSTANTS
  Processes,   \* web workers and threads
  Requests,    \* the requests they make
  MaxClock,    \* bound on the clock
  MaxCalls,    \* bound on the number of calls
  MaxCrashes,  \* bound on the number of processes that die in a call
  MaxEdits     \* bound on the number of edits by hand

ASSUME RequestsAssumption == Requests # {} /\ Requests \subseteq Request
ASSUME BoundsAssumption == {MaxClock, MaxCalls, MaxCrashes, MaxEdits} \subseteq Nat

VARIABLES
  file,      \* scenarios.json
  clock,     \* wall clock
  pc,        \* where each process is in its call
  req,       \* the request it serves
  before,    \* the fingerprint _read_with_fingerprint returned
  seen,      \* the fingerprint _fingerprint is taking
  plan,      \* what the mutation made of the copy, and its answer
  attempts,  \* attempts_left
  staged,    \* the process's file beside scenarios.json
  litter,    \* number of such files nobody will remove
  answer,    \* what the call will return
  calls, crashes, edits,  \* bounded counters
  acked,     \* history: versions whose save returned
  purged,    \* history: ids a purge removed from the file
  others     \* history: replacements and edits by others since the call began

progress == <<pc, req, before, seen, plan, attempts, answer>>
disk == <<file, staged, litter>>
ghosts == <<acked, purged, others>>
vars == <<progress, disk, clock, calls, crashes, edits, ghosts>>

NoFile == [exists |-> FALSE, mtime |-> 0, shaped |-> TRUE, state |-> EmptyState]

\* mkstemp made the file, nothing is written yet.
HalfWritten == [exists |-> TRUE, mtime |-> 0, shaped |-> FALSE, state |-> EmptyState]

NoPlan == Missing(EmptyState)
NoAnswer == [status |-> "none", value |-> {}]
Failure(status) == [status |-> status, value |-> {}]

AnyRequest == CHOOSE r \in Requests : TRUE

Init ==
  /\ file = NoFile
  /\ clock = 0
  /\ pc = [p \in Processes |-> "idle"]
  /\ req = [p \in Processes |-> AnyRequest]
  /\ before = [p \in Processes |-> NoFile]
  /\ seen = [p \in Processes |-> NoFile]
  /\ plan = [p \in Processes |-> NoPlan]
  /\ attempts = [p \in Processes |-> 0]
  /\ staged = [p \in Processes |-> NoFile]
  /\ litter = 0
  /\ answer = [p \in Processes |-> NoAnswer]
  /\ calls = 0 /\ crashes = 0 /\ edits = 0
  /\ acked = {}
  /\ purged = {}
  /\ others = [p \in Processes |-> 0]

-----------------------------------------------------------------------------
\* Variant: next_id is believed as it stands in the file.
ParsesAnyNextId(f) == f.shaped

(***************************************************************************)
(* _parse: the bytes are JSON with the three sections (shaped), and        *)
(* next_id is above every id in use (_checked_next_id).                    *)
(***************************************************************************)
Parses(f) == f.shaped /\ IdsBelowNext(f.state)

\* A protocol method is entered; it notes the time before _update.
Call(p, r) ==
  /\ pc[p] = "idle"
  /\ calls < MaxCalls
  /\ calls' = calls + 1
  /\ pc' = [pc EXCEPT ![p] = "read"]
  /\ req' = [req EXCEPT ![p] = [r EXCEPT !.now = clock]]
  /\ attempts' = [attempts EXCEPT ![p] = 2]
  /\ others' = [others EXCEPT ![p] = 0]
  /\ UNCHANGED <<before, seen, plan, answer, disk, clock, crashes, edits,
                 acked, purged>>

\* _update returns a or raises; its local variables are gone.
Answer(p, a) ==
  /\ pc' = [pc EXCEPT ![p] = "return"]
  /\ answer' = [answer EXCEPT ![p] = a]
  /\ before' = [before EXCEPT ![p] = NoFile]
  /\ seen' = [seen EXCEPT ![p] = NoFile]
  /\ plan' = [plan EXCEPT ![p] = NoPlan]
  /\ attempts' = [attempts EXCEPT ![p] = 0]

(***************************************************************************)
(* read_bytes, and what parsing and mutating the bytes will lead to: a     *)
(* file that does not parse and a mutation that raises or changes nothing  *)
(* end the call, anything else goes on to be written.                      *)
(***************************************************************************)
ReadBytes(p) ==
  /\ pc[p] = "read"
  /\ LET o == Outcome(file.state, req[p], clock)
     IN  \/ /\ ~Parses(file)
            /\ Answer(p, Failure("rejected"))
         \/ /\ Parses(file)
            /\ o.state = file.state
            /\ Answer(p, [status |-> o.status, value |-> o.value])
         \/ /\ Parses(file)
            /\ o.state # file.state
            /\ before' = [before EXCEPT ![p] = file]
            /\ plan' = [plan EXCEPT ![p] = o]
            /\ pc' = [pc EXCEPT ![p] = IF file.exists THEN "stat" ELSE "check"]
            /\ UNCHANGED <<answer, seen, attempts>>
  /\ UNCHANGED <<req, disk, clock, calls, crashes, edits, ghosts>>

\* Variant: the fingerprint is taken apart from the read.
ReadStatSeparately(p) ==
  /\ pc[p] = "stat"
  /\ before' = [before EXCEPT ![p] = file]
  /\ pc' = [pc EXCEPT ![p] = "check"]
  /\ UNCHANGED <<req, seen, plan, attempts, answer, disk, clock, calls, crashes,
                 edits, ghosts>>

\* The stat that completes the fingerprint of the read.
ReadStat(p) ==
  /\ pc[p] = "stat"
  /\ before' = [before EXCEPT ![p].mtime = file.mtime]
  /\ pc' = [pc EXCEPT ![p] = "check"]
  /\ UNCHANGED <<req, seen, plan, attempts, answer, disk, clock, calls, crashes,
                 edits, ghosts>>

\* Variant: the first difference is already the last.
CompareOnce(p, now) ==
  \/ /\ now = before[p]
     /\ pc' = [pc EXCEPT ![p] = "stage"]
     /\ seen' = [seen EXCEPT ![p] = NoFile]
     /\ UNCHANGED <<before, plan, attempts, answer>>
  \/ /\ now # before[p]
     /\ Answer(p, Failure("conflict"))

\* Variant: the fingerprint is the file time alone.
CompareTimes(p, now) ==
  \/ /\ now.exists = before[p].exists
     /\ now.mtime = before[p].mtime
     /\ pc' = [pc EXCEPT ![p] = "stage"]
     /\ seen' = [seen EXCEPT ![p] = NoFile]
     /\ UNCHANGED <<before, plan, attempts, answer>>
  \/ /\ now.exists # before[p].exists \/ now.mtime # before[p].mtime
     /\ Answer(p, Failure("conflict"))

\* The two fingerprints agree, or a second attempt is left, or none is.
Compare(p, now) ==
  \/ /\ now = before[p]
     /\ pc' = [pc EXCEPT ![p] = "stage"]
     /\ seen' = [seen EXCEPT ![p] = NoFile]
     /\ UNCHANGED <<before, plan, attempts, answer>>
  \/ /\ now # before[p]
     /\ attempts[p] > 1
     /\ attempts' = [attempts EXCEPT ![p] = attempts[p] - 1]
     /\ pc' = [pc EXCEPT ![p] = "read"]
     /\ seen' = [seen EXCEPT ![p] = NoFile]
     /\ UNCHANGED <<before, plan, answer>>
  \/ /\ now # before[p]
     /\ attempts[p] = 1
     /\ Answer(p, Failure("conflict"))

\* _fingerprint finds no file, or reads its bytes and has the stat to come.
CheckBytes(p) ==
  /\ pc[p] = "check"
  /\ \/ /\ ~file.exists
        /\ Compare(p, file)
     \/ /\ file.exists
        /\ seen' = [seen EXCEPT ![p] = file]
        /\ pc' = [pc EXCEPT ![p] = "checkstat"]
        /\ UNCHANGED <<before, plan, attempts, answer>>
  /\ UNCHANGED <<req, disk, clock, calls, crashes, edits, ghosts>>

CheckStat(p) ==
  /\ pc[p] = "checkstat"
  /\ Compare(p, [seen[p] EXCEPT !.mtime = file.mtime])
  /\ UNCHANGED <<req, disk, clock, calls, crashes, edits, ghosts>>

\* _open_staging: a name of its own for every call.
OpenStaging(p) ==
  /\ pc[p] = "stage"
  /\ staged' = [staged EXCEPT ![p] = HalfWritten]
  /\ pc' = [pc EXCEPT ![p] = "write"]
  /\ UNCHANGED <<req, before, seen, plan, attempts, answer, file, litter, clock,
                 calls, crashes, edits, ghosts>>

WriteStaging(p) ==
  /\ pc[p] = "write"
  /\ staged' = [staged EXCEPT ![p] = [exists |-> TRUE, mtime |-> clock,
                                      shaped |-> TRUE, state |-> plan[p].state]]
  /\ pc' = [pc EXCEPT ![p] = "replace"]
  /\ UNCHANGED <<req, before, seen, plan, attempts, answer, file, litter, clock,
                 calls, crashes, edits, ghosts>>

\* staging.replace(path): the file beside becomes the file, in one step.
Replace(p) ==
  /\ pc[p] = "replace"
  /\ file' = staged[p]
  /\ staged' = [staged EXCEPT ![p] = NoFile]
  /\ Answer(p, [status |-> plan[p].status, value |-> plan[p].value])
  /\ others' = [q \in Processes |-> IF q = p \/ pc[q] = "idle" THEN others[q]
                                                             ELSE others[q] + 1]
  /\ purged' = IF req[p].op = "purge_expired"
               THEN purged \cup {r.id : r \in plan[p].value}
               ELSE purged
  /\ UNCHANGED <<req, litter, clock, calls, crashes, edits, acked>>

\* The disk refuses mkstemp, the write or the rename: what was opened is
\* unlinked and the exception goes to the caller.
WriteFails(p) ==
  /\ pc[p] \in {"stage", "write", "replace"}
  /\ staged' = [staged EXCEPT ![p] = NoFile]
  /\ Answer(p, Failure("failed"))
  /\ UNCHANGED <<req, file, litter, clock, calls, crashes, edits, ghosts>>

\* The answer reaches the caller.
Return(p) ==
  /\ pc[p] = "return"
  /\ pc' = [pc EXCEPT ![p] = "idle"]
  /\ answer' = [answer EXCEPT ![p] = NoAnswer]
  /\ acked' = IF req[p].op \in {"save", "restore_version"}
              THEN acked \cup answer[p].value
              ELSE acked
  /\ req' = [req EXCEPT ![p] = AnyRequest]
  /\ others' = [others EXCEPT ![p] = 0]
  /\ UNCHANGED <<before, seen, plan, attempts, disk, clock, calls, crashes, edits,
                 purged>>

\* The process dies in the call.  Nothing of it is left but what it staged.
Crash(p) ==
  /\ pc[p] # "idle"
  /\ crashes < MaxCrashes
  /\ crashes' = crashes + 1
  /\ pc' = [pc EXCEPT ![p] = "idle"]
  /\ answer' = [answer EXCEPT ![p] = NoAnswer]
  /\ before' = [before EXCEPT ![p] = NoFile]
  /\ seen' = [seen EXCEPT ![p] = NoFile]
  /\ plan' = [plan EXCEPT ![p] = NoPlan]
  /\ attempts' = [attempts EXCEPT ![p] = 0]
  /\ litter' = IF staged[p].exists THEN litter + 1 ELSE litter
  /\ staged' = [staged EXCEPT ![p] = NoFile]
  /\ req' = [req EXCEPT ![p] = AnyRequest]
  /\ others' = [others EXCEPT ![p] = 0]
  /\ UNCHANGED <<file, clock, calls, edits, acked, purged>>

(***************************************************************************)
(* The environment: somebody edits scenarios.json or puts back an old      *)
(* copy.  The file no longer has its shape, or next_id is some other       *)
(* value.                                                                  *)
(***************************************************************************)
EditByHand ==
  /\ edits < MaxEdits
  /\ file.exists
  /\ edits' = edits + 1
  /\ \/ file' = [file EXCEPT !.shaped = FALSE, !.mtime = clock]
     \/ \E n \in 1 .. file.state.next_id - 1 :
          file' = [file EXCEPT !.state.next_id = n, !.mtime = clock]
  /\ others' = [q \in Processes |-> IF pc[q] = "idle" THEN others[q] ELSE others[q] + 1]
  /\ UNCHANGED <<progress, staged, litter, clock, calls, crashes, acked, purged>>

Tick ==
  /\ clock < MaxClock
  /\ clock' = clock + 1
  /\ UNCHANGED <<progress, disk, calls, crashes, edits, ghosts>>

\* One step of the call process p is in.
Step(p) ==
  \/ ReadBytes(p)
  \/ ReadStat(p)
  \/ CheckBytes(p)
  \/ CheckStat(p)
  \/ OpenStaging(p)
  \/ WriteStaging(p)
  \/ Replace(p)
  \/ Return(p)

Next ==
  \/ \E p \in Processes :
       \/ \E r \in Requests : Call(p, r)
       \/ Step(p)
       \/ WriteFails(p)
       \/ Crash(p)
  \/ EditByHand
  \/ Tick

Spec == Init /\ [][Next]_vars

-----------------------------------------------------------------------------
(***************************************************************************)
(* Fairness: a call that was entered keeps running (its thread is          *)
(* scheduled).  Nothing obliges anyone to call, to fail or to crash.       *)
(***************************************************************************)
FairSpec == Spec /\ \A p \in Processes : WF_vars(Step(p))

(***************************************************************************)
(* The gap the module's docstring admits: from the second read of the      *)
(* bytes to the rename nothing keeps the others out.  A step keeps the gap *)
(* when it is not a rename by another process, nor an edit, that falls     *)
(* into one.                                                               *)
(***************************************************************************)
InGap(p) == pc[p] \in {"checkstat", "stage", "write", "replace"}
KeepsGap == file' # file =>
              \A p \in Processes : InGap(p) => staged[p].exists /\ ~staged'[p].exists

-----------------------------------------------------------------------------
PCs == {"idle", "read", "stat", "check", "checkstat", "stage", "write",
        "replace", "return"}
Statuses == {"none", "ok", "missing", "rejected", "conflict", "failed"}

FileType(f) ==
  /\ f = [exists |-> f.exists, mtime |-> f.mtime, shaped |-> f.shaped,
          state |-> f.state]
  /\ f.exists \in BOOLEAN
  /\ f.mtime \in Nat
  /\ f.shaped \in BOOLEAN
  /\ StateType(f.state)

PlanType(o) ==
  /\ o = [status |-> o.status, value |-> o.value, state |-> o.state]
  /\ o.status \in {"ok", "missing"}
  /\ o.value \subseteq Record
  /\ StateType(o.state)

\* Every variable has its type.
TypeOK ==
  /\ FileType(file)
  /\ clock \in Nat
  /\ pc \in [Processes -> PCs]
  /\ req \in [Processes -> Request]
  /\ attempts \in [Processes -> 0 .. 2]
  /\ answer \in [Processes -> [status : Statuses, value : SUBSET Record]]
  /\ before = [p \in Processes |-> before[p]]
  /\ seen = [p \in Processes |-> seen[p]]
  /\ staged = [p \in Processes |-> staged[p]]
  /\ plan = [p \in Processes |-> plan[p]]
  /\ \A p \in Processes : /\ FileType(before[p])
                          /\ FileType(seen[p])
                          /\ FileType(staged[p])
                          /\ PlanType(plan[p])
  /\ {litter, calls, crashes, edits} \subseteq Nat
  /\ acked \subseteq Record
  /\ purged \subseteq Nat \ {0}
  /\ others \in [Processes -> Nat]

(***************************************************************************)
(* Whatever the writers, crashes and disk failures, races in the gap       *)
(* included, the records and the history in the file belong together       *)
(* (LineageSound), and as long as nobody edited the file it is whole and   *)
(* next_id is above every id in use.  This is what _write's "beside, then  *)
(* replace" and the re-applied mutation are for.                           *)
(***************************************************************************)
FileSound ==
  /\ LineageSound(file.state)
  /\ edits = 0 => Parses(file)

(***************************************************************************)
(* "Changed twice" is said only to a call during which the file really was *)
(* replaced or edited twice: coarse file times and the gap between reading *)
(* the bytes and the stat never refuse a call for nothing.                 *)
(***************************************************************************)
ConflictMeansTwoOthers ==
  \A p \in Processes : answer[p].status = "conflict" => others[p] >= 2

(***************************************************************************)
(* The docstring's promise (scenario_store_file.py:65, 464): no version    *)
(* whose save returned is ever missing from the history, unless its        *)
(* scenario was purged.                                                    *)
(***************************************************************************)
NoAckedVersionLost ==
  \A v \in acked : v.id \in purged \/ InHistory(file.state, v)

(***************************************************************************)
(* A call that is about to replace the file has read one that parses, and  *)
(* found it unchanged since: a file that somebody damaged, or whose        *)
(* next_id would issue an id that is taken, is neither repaired on the     *)
(* quiet nor used (scenario_store_file.py:53, 375).                        *)
(***************************************************************************)
WritesFollowAcceptedReads ==
  \A p \in Processes :
    pc[p] \in {"stage", "write", "replace"}
    => before[p].shaped /\ IdsBelowNext(before[p].state)

\* Every call that was entered is answered, or its process dies.
CallsAreAnswered ==
  \A p \in Processes : pc[p] # "idle" ~> pc[p] = "idle"

(***************************************************************************)
(* The store a caller sees.                                                *)
(***************************************************************************)
AbstractStatus(s) == IF s \in {"rejected", "conflict", "failed"} THEN "refused" ELSE s
CallOf(p) ==
  IF pc[p] = "idle"
  THEN [busy |-> FALSE, req |-> AnyRequest, answer |-> NoAnswer]
  ELSE [busy |-> TRUE, req |-> req[p],
        answer |-> [status |-> AbstractStatus(answer[p].status),
                    value |-> answer[p].value]]
AbstractCall == [p \in Processes |-> CallOf(p)]

Protocol == INSTANCE ScenarioStore WITH store <- file.state, call <- AbstractCall
=============================================================================
