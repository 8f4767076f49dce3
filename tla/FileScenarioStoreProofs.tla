---------------------- MODULE FileScenarioStoreProofs ----------------------
(***************************************************************************)
(* The file store, for any number of processes, calls and crashes.  With   *)
(* every race in the gap: types, FileSound, WritesFollowAcceptedReads and  *)
(* ConflictMeansTwoOthers.  As long as the gap was kept (WatchedSpec):     *)
(* AckedVersionsStay, IdsNeverReissued and the refinement of the           *)
(* ScenarioStore protocol.                                                 *)
(***************************************************************************)
EXTENDS MCFileScenarioStore, ScenarioRecordsProofs

(***************************************************************************)
(* FileSound is not inductive: the file becomes what some process staged,  *)
(* and that is what the process planned.  Both are sound as well.          *)
(***************************************************************************)
PlansSound == \A p \in Processes : Sound(plan[p].state)
StagedSound ==
  \A p \in Processes :
    /\ staged[p].exists => Sound(staged[p].state)
    /\ pc[p] = "replace" => staged[p].exists /\ staged[p].shaped
IInv == TypeOK /\ FileSound /\ PlansSound /\ StagedSound

USE RequestsAssumption, BoundsAssumption

LEMMA AnyRequestType == AnyRequest \in Request
  BY DEF AnyRequest

LEMMA NoFileType == FileType(NoFile) /\ Parses(NoFile) /\ FileType(HalfWritten)
                    /\ ~NoFile.exists /\ Sound(HalfWritten.state)
  BY EmptyStateSound DEF FileType, NoFile, HalfWritten, Parses, Sound

LEMMA NoPlanType == PlanType(NoPlan) /\ Sound(NoPlan.state)
  BY EmptyStateSound DEF PlanType, NoPlan, Missing

LEMMA InitIInv == Init => IInv
<1> SUFFICES ASSUME Init PROVE IInv
  OBVIOUS
<1>1. TypeOK
  BY AnyRequestType, NoFileType, NoPlanType
  DEF Init, TypeOK, PCs, Statuses, NoAnswer
<1>2. FileSound
  BY NoFileType, EmptyStateSound DEF Init, FileSound, NoFile, Sound
<1>3. PlansSound /\ StagedSound
  BY NoFileType, NoPlanType DEF Init, PlansSound, StagedSound
<1> QED BY <1>1, <1>2, <1>3 DEF IInv

LEMMA CallIInv ==
  ASSUME IInv, NEW p \in Processes, NEW r \in Requests, Call(p, r)
  PROVE  IInv'
<1>1. [r EXCEPT !.now = clock] \in Request
  BY DEF IInv, TypeOK, Request
<1>2. TypeOK'
  BY <1>1 DEF IInv, TypeOK, Call, PCs, disk
<1>3. FileSound' /\ PlansSound' /\ StagedSound'
  BY DEF IInv, TypeOK, Call, disk, FileSound, PlansSound, StagedSound, Parses
<1> QED BY <1>2, <1>3 DEF IInv

\* _update ends: its locals are cleared, which disturbs nothing.
LEMMA AnswerLocals ==
  ASSUME IInv, NEW p \in Processes,
         NEW a \in [status : Statuses, value : SUBSET Record],
         Answer(p, a)
  PROVE  /\ pc' \in [Processes -> PCs]
         /\ pc'[p] = "return"
         /\ \A q \in Processes \ {p} : pc'[q] = pc[q]
         /\ answer' \in [Processes -> [status : Statuses, value : SUBSET Record]]
         /\ attempts' \in [Processes -> 0 .. 2]
         /\ before' = [q \in Processes |-> before'[q]]
         /\ seen' = [q \in Processes |-> seen'[q]]
         /\ plan' = [q \in Processes |-> plan'[q]]
         /\ \A q \in Processes :
              FileType(before'[q]) /\ FileType(seen'[q]) /\ PlanType(plan'[q])
         /\ PlansSound'
<1>1. TypeOK /\ PlansSound
  BY DEF IInv
<1>2. /\ pc' = [pc EXCEPT ![p] = "return"]
      /\ answer' = [answer EXCEPT ![p] = a]
      /\ before' = [before EXCEPT ![p] = NoFile]
      /\ seen' = [seen EXCEPT ![p] = NoFile]
      /\ plan' = [plan EXCEPT ![p] = NoPlan]
      /\ attempts' = [attempts EXCEPT ![p] = 0]
  BY DEF Answer
<1>3. /\ pc' \in [Processes -> PCs]
      /\ pc'[p] = "return"
      /\ \A q \in Processes \ {p} : pc'[q] = pc[q]
      /\ answer' \in [Processes -> [status : Statuses, value : SUBSET Record]]
      /\ attempts' \in [Processes -> 0 .. 2]
  BY <1>1, <1>2 DEF TypeOK, PCs
<1>4. /\ before' = [q \in Processes |-> IF q = p THEN NoFile ELSE before[q]]
      /\ seen' = [q \in Processes |-> IF q = p THEN NoFile ELSE seen[q]]
      /\ plan' = [q \in Processes |-> IF q = p THEN NoPlan ELSE plan[q]]
  BY <1>1, <1>2, Zenon DEF TypeOK
<1>5. \A q \in Processes : FileType(before[q]) /\ FileType(seen[q]) /\ PlanType(plan[q])
  BY <1>1 DEF TypeOK
<1>6. PlansSound'
  BY <1>1, <1>4, NoPlanType DEF PlansSound
<1> QED BY <1>3, <1>4, <1>5, <1>6, NoFileType, NoPlanType

LEMMA ReadBytesIInv ==
  ASSUME IInv, NEW p \in Processes, ReadBytes(p)
  PROVE  IInv'
<1> DEFINE o == Outcome(file.state, req[p], clock)
<1>1. UNCHANGED <<req, disk, clock, calls, crashes, edits, ghosts>>
  BY DEF ReadBytes
<1>2. Parses(file) => Sound(file.state)
  BY DEF IInv, FileSound, Sound, Parses
<1>3. Parses(file) => /\ StateType(o.state) /\ Sound(o.state)
                      /\ o.value \subseteq Record
                      /\ o.status \in {"ok", "missing"}
  <2>1. StateType(file.state) /\ req[p] \in Request /\ clock \in Nat
    BY DEF IInv, TypeOK, FileType
  <2> QED BY <1>2, <2>1, OutcomeSound
<1>4. ASSUME NEW a \in [status : Statuses, value : SUBSET Record], Answer(p, a)
      PROVE  IInv'
  BY <1>1, <1>4, AnswerLocals
  DEF IInv, TypeOK, FileSound, PlansSound, StagedSound, Parses, disk, ghosts
<1>5. CASE ~Parses(file) /\ Answer(p, Failure("rejected"))
  <2>1. Failure("rejected") \in [status : Statuses, value : SUBSET Record]
    BY DEF Failure, Statuses
  <2> QED BY <1>4, <1>5, <2>1
<1>6. CASE Parses(file) /\ Answer(p, [status |-> o.status, value |-> o.value])
  <2>1. [status |-> o.status, value |-> o.value] \in [status : Statuses, value : SUBSET Record]
    BY <1>3, <1>6 DEF Statuses
  <2> QED BY <1>4, <1>6, <2>1
<1>7. CASE /\ Parses(file)
           /\ before' = [before EXCEPT ![p] = file]
           /\ plan' = [plan EXCEPT ![p] = o]
           /\ pc' = [pc EXCEPT ![p] = IF file.exists THEN "stat" ELSE "check"]
           /\ UNCHANGED <<answer, seen, attempts>>
  <2>1. PlanType(o) /\ Sound(o.state)
    <3>1. req[p] \in Request
      BY DEF IInv, TypeOK
    <3>2. o = [status |-> o.status, value |-> o.value, state |-> o.state]
      BY <3>1, OutcomeShape
    <3> HIDE DEF o
    <3> QED BY <1>3, <1>7, <3>2 DEF PlanType
  <2> HIDE DEF o
  <2>2. TypeOK'
    BY <1>1, <1>7, <2>1 DEF IInv, TypeOK, PCs, disk, ghosts
  <2>3. FileSound' /\ PlansSound' /\ StagedSound'
    BY <1>1, <1>7, <2>1
    DEF IInv, TypeOK, FileSound, PlansSound, StagedSound, Parses, disk
  <2> QED BY <2>2, <2>3 DEF IInv
<1> QED BY <1>5, <1>6, <1>7 DEF ReadBytes

LEMMA ReadStatIInv ==
  ASSUME IInv, NEW p \in Processes, ReadStat(p)
  PROVE  IInv'
<1>1. FileType([before[p] EXCEPT !.mtime = file.mtime])
  <2> DEFINE b == before[p]
  <2>1. FileType(b) /\ file.mtime \in Nat
    BY DEF IInv, TypeOK, FileType
  <2> HIDE DEF b
  <2>2. [b EXCEPT !.mtime = file.mtime] =
          [exists |-> b.exists, mtime |-> file.mtime, shaped |-> b.shaped, state |-> b.state]
    BY <2>1 DEF FileType
  <2>3. FileType([b EXCEPT !.mtime = file.mtime])
    BY <2>1, <2>2 DEF FileType
  <2> QED BY <2>3 DEF b
<1>2. TypeOK'
  BY <1>1 DEF IInv, TypeOK, ReadStat, PCs, disk, ghosts
<1>3. FileSound' /\ PlansSound' /\ StagedSound'
  BY DEF IInv, TypeOK, ReadStat, disk, FileSound, PlansSound, StagedSound, Parses
<1> QED BY <1>2, <1>3 DEF IInv

LEMMA CompareIInv ==
  ASSUME IInv, NEW p \in Processes, NEW now, Compare(p, now),
         UNCHANGED <<req, disk, clock, calls, crashes, edits, ghosts>>
  PROVE  IInv'
<1>1. CASE Answer(p, Failure("conflict"))
  <2>1. Failure("conflict") \in [status : Statuses, value : SUBSET Record]
    BY DEF Failure, Statuses
  <2> QED
    BY <1>1, <2>1, AnswerLocals
    DEF IInv, TypeOK, FileSound, PlansSound, StagedSound, Parses, disk, ghosts
<1>2. CASE /\ pc' \in {[pc EXCEPT ![p] = "stage"], [pc EXCEPT ![p] = "read"]}
           /\ seen' = [seen EXCEPT ![p] = NoFile]
           /\ attempts' \in {attempts, [attempts EXCEPT ![p] = attempts[p] - 1]}
           /\ attempts' # attempts => attempts[p] > 1
           /\ UNCHANGED <<before, plan, answer>>
  <2>1. attempts' \in [Processes -> 0 .. 2]
    BY <1>2 DEF IInv, TypeOK
  <2>2. TypeOK'
    BY <1>2, <2>1, NoFileType DEF IInv, TypeOK, PCs, disk, ghosts
  <2>3. FileSound' /\ PlansSound' /\ StagedSound'
    BY <1>2 DEF IInv, TypeOK, disk, FileSound, PlansSound, StagedSound, Parses
  <2> QED BY <2>2, <2>3 DEF IInv
<1> QED BY <1>1, <1>2 DEF Compare

LEMMA CheckBytesIInv ==
  ASSUME IInv, NEW p \in Processes, CheckBytes(p)
  PROVE  IInv'
<1>1. CASE Compare(p, file)
  BY <1>1, CompareIInv DEF CheckBytes
<1>2. CASE /\ seen' = [seen EXCEPT ![p] = file]
           /\ pc' = [pc EXCEPT ![p] = "checkstat"]
           /\ UNCHANGED <<before, plan, attempts, answer>>
  <2>1. TypeOK'
    BY <1>2 DEF IInv, TypeOK, CheckBytes, PCs, disk, ghosts
  <2>2. FileSound' /\ PlansSound' /\ StagedSound'
    BY <1>2 DEF IInv, TypeOK, CheckBytes, disk, FileSound, PlansSound, StagedSound, Parses
  <2> QED BY <2>1, <2>2 DEF IInv
<1> QED BY <1>1, <1>2 DEF CheckBytes

LEMMA OpenStagingIInv ==
  ASSUME IInv, NEW p \in Processes, OpenStaging(p)
  PROVE  IInv'
<1>1. TypeOK'
  BY NoFileType DEF IInv, TypeOK, OpenStaging, PCs, ghosts
<1>2. FileSound' /\ PlansSound' /\ StagedSound'
  BY NoFileType
  DEF IInv, TypeOK, OpenStaging, FileSound, PlansSound, StagedSound, Parses
<1> QED BY <1>1, <1>2 DEF IInv

LEMMA WriteStagingIInv ==
  ASSUME IInv, NEW p \in Processes, WriteStaging(p)
  PROVE  IInv'
<1> DEFINE f == [exists |-> TRUE, mtime |-> clock, shaped |-> TRUE, state |-> plan[p].state]
<1>1. FileType(f) /\ f.exists /\ f.shaped /\ Sound(f.state)
  BY DEF IInv, TypeOK, FileType, PlanType, PlansSound
<1>2. staged' = [staged EXCEPT ![p] = f]
  BY DEF WriteStaging
<1> HIDE DEF f
<1>3. TypeOK'
  BY <1>1, <1>2 DEF IInv, TypeOK, WriteStaging, PCs, ghosts
<1>4. FileSound' /\ PlansSound' /\ StagedSound'
  BY <1>1, <1>2
  DEF IInv, TypeOK, WriteStaging, FileSound, PlansSound, StagedSound, Parses
<1> QED BY <1>3, <1>4 DEF IInv

\* The rename puts a sound file in place whatever was there before.
LEMMA ReplaceIInv ==
  ASSUME IInv, NEW p \in Processes, Replace(p)
  PROVE  IInv'
<1> DEFINE a == [status |-> plan[p].status, value |-> plan[p].value]
<1>1. a \in [status : Statuses, value : SUBSET Record]
  BY DEF IInv, TypeOK, PlanType, Statuses
<1>2. /\ Answer(p, a) /\ file' = staged[p] /\ pc[p] = "replace"
      /\ staged' = [staged EXCEPT ![p] = NoFile]
      /\ others' = [q \in Processes |-> IF q = p \/ pc[q] = "idle" THEN others[q] ELSE others[q] + 1]
      /\ UNCHANGED <<req, litter, clock, calls, crashes, edits, acked>>
  BY DEF Replace
<1>3. staged[p].shaped /\ Sound(staged[p].state)
  BY <1>2 DEF IInv, StagedSound
<1>4. purged' \subseteq Nat \ {0}
  <2>1. \A r \in plan[p].value : r.id \in Nat \ {0}
    BY DEF IInv, TypeOK, PlanType, Record
  <2>2. purged \subseteq Nat \ {0}
    BY DEF IInv, TypeOK
  <2> QED BY <2>1, <2>2 DEF Replace
<1> HIDE DEF a
<1>5. TypeOK'
  <2>1. others' \in [Processes -> Nat]
    BY <1>2 DEF IInv, TypeOK
  <2> QED BY <1>1, <1>2, <1>4, <2>1, AnswerLocals, NoFileType DEF IInv, TypeOK
<1>6. FileSound'
  BY <1>2, <1>3 DEF FileSound, Sound, Parses
<1>7. PlansSound' /\ StagedSound'
  <2>1. PlansSound' /\ pc'[p] = "return" /\ \A q \in Processes \ {p} : pc'[q] = pc[q]
    BY <1>1, <1>2, AnswerLocals
  <2>2. staged'[p] = NoFile /\ \A q \in Processes \ {p} : staged'[q] = staged[q]
    BY <1>2 DEF IInv, TypeOK
  <2> QED BY <2>1, <2>2, NoFileType DEF IInv, StagedSound
<1> QED BY <1>5, <1>6, <1>7 DEF IInv

LEMMA WriteFailsIInv ==
  ASSUME IInv, NEW p \in Processes, WriteFails(p)
  PROVE  IInv'
<1>1. Failure("failed") \in [status : Statuses, value : SUBSET Record]
  BY DEF Failure, Statuses
<1>2. /\ Answer(p, Failure("failed"))
      /\ staged' = [staged EXCEPT ![p] = NoFile]
      /\ UNCHANGED <<req, file, litter, clock, calls, crashes, edits, ghosts>>
  BY DEF WriteFails
<1>3. TypeOK'
  BY <1>1, <1>2, AnswerLocals, NoFileType DEF IInv, TypeOK, ghosts
<1>4. FileSound'
  BY <1>2 DEF IInv, FileSound, Parses
<1>5. PlansSound' /\ StagedSound'
  <2>1. PlansSound' /\ pc'[p] = "return" /\ \A q \in Processes \ {p} : pc'[q] = pc[q]
    BY <1>1, <1>2, AnswerLocals
  <2>2. staged'[p] = NoFile /\ \A q \in Processes \ {p} : staged'[q] = staged[q]
    BY <1>2 DEF IInv, TypeOK
  <2> QED BY <2>1, <2>2, NoFileType DEF IInv, StagedSound
<1> QED BY <1>3, <1>4, <1>5 DEF IInv

LEMMA ReturnIInv ==
  ASSUME IInv, NEW p \in Processes, Return(p)
  PROVE  IInv'
<1>1. acked' \subseteq Record
  BY DEF IInv, TypeOK, Return
<1>2. TypeOK'
  BY <1>1, AnyRequestType DEF IInv, TypeOK, Return, PCs, Statuses, NoAnswer, disk
<1>3. FileSound' /\ PlansSound' /\ StagedSound'
  BY DEF IInv, TypeOK, Return, disk, FileSound, PlansSound, StagedSound, Parses
<1> QED BY <1>2, <1>3 DEF IInv

LEMMA CrashIInv ==
  ASSUME IInv, NEW p \in Processes, Crash(p)
  PROVE  IInv'
<1>1. TypeOK'
  <2>1. /\ before' = [q \in Processes |-> IF q = p THEN NoFile ELSE before[q]]
        /\ seen' = [q \in Processes |-> IF q = p THEN NoFile ELSE seen[q]]
        /\ plan' = [q \in Processes |-> IF q = p THEN NoPlan ELSE plan[q]]
        /\ staged' = [q \in Processes |-> IF q = p THEN NoFile ELSE staged[q]]
    BY Zenon DEF IInv, TypeOK, Crash
  <2>2. \A q \in Processes : /\ FileType(before'[q]) /\ FileType(seen'[q])
                             /\ FileType(staged'[q]) /\ PlanType(plan'[q])
    BY <2>1, NoFileType, NoPlanType DEF IInv, TypeOK
  <2>3. /\ pc' \in [Processes -> PCs]
        /\ answer' \in [Processes -> [status : Statuses, value : SUBSET Record]]
        /\ attempts' \in [Processes -> 0 .. 2]
        /\ litter' \in Nat /\ crashes' \in Nat
        /\ req' \in [Processes -> Request] /\ others' \in [Processes -> Nat]
    BY AnyRequestType DEF IInv, TypeOK, Crash, PCs, Statuses, NoAnswer
  <2>4. UNCHANGED <<file, clock, calls, edits, acked, purged>>
    BY DEF Crash
  <2> QED BY <2>1, <2>2, <2>3, <2>4 DEF IInv, TypeOK
<1>2. FileSound' /\ PlansSound' /\ StagedSound'
  BY NoFileType, NoPlanType
  DEF IInv, TypeOK, Crash, FileSound, PlansSound, StagedSound, Parses
<1> QED BY <1>1, <1>2 DEF IInv

\* An edit by hand may break the shape or next_id, not the lineage.
LEMMA EditByHandIInv ==
  ASSUME IInv, EditByHand
  PROVE  IInv'
<1>1. FileType(file) /\ LineageSound(file.state) /\ clock \in Nat /\ edits \in Nat
  BY DEF IInv, TypeOK, FileSound
<1>2. FileType(file') /\ LineageSound(file'.state)
  <2>1. CASE file' = [file EXCEPT !.shaped = FALSE, !.mtime = clock]
    BY <1>1, <2>1 DEF FileType
  <2>2. ASSUME NEW n \in 1 .. file.state.next_id - 1,
               file' = [file EXCEPT !.state.next_id = n, !.mtime = clock]
        PROVE  FileType(file') /\ LineageSound(file'.state)
    <3>1. /\ file'.state = [next_id |-> n, records |-> file.state.records,
                            history |-> file.state.history]
          /\ file' = [exists |-> file.exists, mtime |-> clock, shaped |-> file.shaped,
                      state |-> file'.state]
      BY <1>1, <2>2 DEF FileType, StateType
    <3>2. StateType(file'.state)
      BY <1>1, <3>1 DEF FileType, StateType
    <3>3. LineageSound(file'.state)
      BY <1>1, <3>1 DEF LineageSound, RecordSound
    <3> QED BY <1>1, <3>1, <3>2, <3>3 DEF FileType
  <2> QED BY <2>1, <2>2 DEF EditByHand
<1>3. /\ edits' = edits + 1
      /\ others' = [q \in Processes |-> IF pc[q] = "idle" THEN others[q] ELSE others[q] + 1]
      /\ UNCHANGED <<progress, staged, litter, clock, calls, crashes, acked, purged>>
  BY DEF EditByHand
<1>4. TypeOK'
  BY <1>1, <1>2, <1>3 DEF IInv, TypeOK, progress
<1>5. FileSound' /\ PlansSound' /\ StagedSound'
  BY <1>1, <1>2, <1>3 DEF IInv, FileSound, PlansSound, StagedSound, progress
<1> QED BY <1>4, <1>5 DEF IInv

LEMMA NextIInv == IInv /\ [Next]_vars => IInv'
<1> SUFFICES ASSUME IInv, [Next]_vars PROVE IInv'
  OBVIOUS
<1>1. CASE Tick
  BY <1>1 DEF IInv, TypeOK, Tick, progress, disk, ghosts, FileSound, PlansSound,
              StagedSound, Parses
<1>2. CASE UNCHANGED vars
  BY <1>2 DEF IInv, TypeOK, vars, progress, disk, ghosts, FileSound, PlansSound,
              StagedSound, Parses
<1>3. CASE EditByHand
  BY <1>3, EditByHandIInv
<1>4. ASSUME NEW p \in Processes, NEW r \in Requests, Call(p, r)
      PROVE  IInv'
  BY <1>4, CallIInv
<1>5. ASSUME NEW p \in Processes, Step(p)
      PROVE  IInv'
  <2>1. CASE CheckStat(p)
    BY <2>1, CompareIInv DEF CheckStat
  <2> QED
    BY <1>5, <2>1, ReadBytesIInv, ReadStatIInv, CheckBytesIInv, OpenStagingIInv,
       WriteStagingIInv, ReplaceIInv, ReturnIInv
    DEF Step
<1>6. ASSUME NEW p \in Processes, WriteFails(p) \/ Crash(p)
      PROVE  IInv'
  BY <1>6, WriteFailsIInv, CrashIInv
<1> QED BY <1>1, <1>2, <1>3, <1>4, <1>5, <1>6 DEF Next

\* The invariant of the store holds throughout, races and crashes included.
THEOREM Invariance == Spec => []IInv
  BY InitIInv, NextIInv, PTL DEF Spec

\* Every variable keeps its type (TypeOK) in every execution.
THEOREM TypeCorrect == Spec => []TypeOK
  BY Invariance, PTL DEF IInv

(***************************************************************************)
(* The file never leaves soundness (FileSound): half-written, torn and     *)
(* mixed-up files are impossible for any number of racing processes.       *)
(***************************************************************************)
THEOREM FileStaysSound == Spec => []FileSound
  BY Invariance, PTL DEF IInv

-----------------------------------------------------------------------------
(***************************************************************************)
(* What a call in progress can rely on, races included: the bytes it read  *)
(* were accepted and are what its plan was made from (Planned), it answers *)
(* once (Answered), and every difference its two comparisons can have met  *)
(* was made by somebody else after it started (Counted).                   *)
(***************************************************************************)
Writing == {"stat", "check", "checkstat", "stage", "write", "replace"}

Planned(p) ==
  /\ pc[p] \in Writing =>
       /\ before[p].shaped
       /\ Sound(before[p].state)
       /\ \E now \in req[p].now .. clock :
            plan[p] = Outcome(before[p].state, req[p], now)
  /\ pc[p] = "replace" => staged[p].state = plan[p].state

Answered(p) ==
  /\ pc[p] # "idle" => req[p].now <= clock
  /\ pc[p] = "return" => answer[p].status # "none"
  /\ pc[p] # "return" => answer[p] = NoAnswer

Counted(p) ==
  /\ pc[p] \in {"read", "stat", "check", "checkstat"} =>
       attempts[p] \in 1 .. 2 /\ others[p] >= 2 - attempts[p]
  /\ pc[p] \in {"stat", "check", "checkstat"} =>
       \/ others[p] >= 3 - attempts[p]
       \/ before[p] = file /\ (pc[p] = "checkstat" => seen[p] = file)
  /\ answer[p].status = "conflict" => others[p] >= 2

RInv == IInv /\ \A p \in Processes : Planned(p) /\ Answered(p) /\ Counted(p)

\* No local variable of q's call changes.
Unmoved(q) ==
  UNCHANGED <<pc[q], req[q], before[q], seen[q], plan[q], attempts[q],
              answer[q], staged[q]>>
\* Only p's call moves.
OnlyMoves(p) == \A q \in Processes \ {p} : Unmoved(q)

\* The steps of one process.
Moves(p) ==
  \/ \E r \in Requests : Call(p, r)
  \/ Step(p)
  \/ WriteFails(p)
  \/ Crash(p)

LEMMA InitRInv == Init => RInv
<1> SUFFICES ASSUME Init PROVE RInv
  OBVIOUS
<1>1. \A p \in Processes : /\ pc[p] = "idle"
                           /\ answer[p] = NoAnswer
  BY DEF Init
<1>2. \A p \in Processes : Planned(p) /\ Answered(p) /\ Counted(p)
  BY <1>1 DEF Planned, Answered, Counted, Writing, NoAnswer
<1> QED BY <1>2, InitIInv DEF RInv

LEMMA MovesAlone ==
  ASSUME IInv, NEW p \in Processes, Moves(p)
  PROVE  OnlyMoves(p) /\ clock' = clock
<1> USE DEF OnlyMoves, Unmoved
<1>0. TypeOK
  BY DEF IInv
<1>1. CASE \E r \in Requests : Call(p, r)
  BY <1>0, <1>1 DEF TypeOK, Call, disk
<1>2. CASE ReadBytes(p)
  BY <1>0, <1>2 DEF TypeOK, ReadBytes, Answer, disk
<1>3. CASE ReadStat(p)
  BY <1>0, <1>3 DEF TypeOK, ReadStat, disk
<1>4. CASE CheckBytes(p) \/ CheckStat(p)
  BY <1>0, <1>4 DEF TypeOK, CheckBytes, CheckStat, Compare, Answer, disk
<1>5. CASE OpenStaging(p) \/ WriteStaging(p)
  BY <1>0, <1>5 DEF TypeOK, OpenStaging, WriteStaging
<1>6. CASE Replace(p)
  BY <1>0, <1>6 DEF TypeOK, Replace, Answer
<1>7. CASE WriteFails(p)
  BY <1>0, <1>7 DEF TypeOK, WriteFails, Answer
<1>8. CASE Return(p)
  BY <1>0, <1>8 DEF TypeOK, Return, disk
<1>9. CASE Crash(p)
  BY <1>0, <1>9 DEF TypeOK, Crash
<1> QED BY <1>1, <1>2, <1>3, <1>4, <1>5, <1>6, <1>7, <1>8, <1>9 DEF Moves, Step

\* A call that does not move keeps what it relies on: the others change at
\* most the file, and then its count.
LEMMA UnmovedKeeps ==
  ASSUME IInv, NEW q \in Processes, Unmoved(q), clock' \in {clock, clock + 1},
         \/ file' = file /\ others'[q] = others[q]
         \/ others'[q] = others[q] + 1
         \/ pc[q] = "idle" /\ others'[q] = others[q]
  PROVE  /\ Planned(q) => Planned(q)'
         /\ Answered(q) => Answered(q)'
         /\ Counted(q) => Counted(q)'
<1>1. /\ req[q].now \in Nat /\ clock \in Nat /\ others[q] \in Nat /\ attempts[q] \in 0 .. 2
  BY DEF IInv, TypeOK, Request
<1>2. Planned(q) => Planned(q)'
  <2>1. req[q].now .. clock \subseteq req[q]'.now .. clock'
    BY <1>1 DEF Unmoved
  <2> QED BY <2>1 DEF Planned, Unmoved
<1>3. Answered(q) => Answered(q)'
  BY <1>1 DEF Answered, Unmoved
<1>4. Counted(q) => Counted(q)'
  BY <1>1 DEF Counted, Unmoved
<1> QED BY <1>2, <1>3, <1>4

LEMMA MovesRInv ==
  ASSUME RInv, NEW p \in Processes, Moves(p), IInv',
         \/ file' = file /\ others' = others
         \/ others' = [q \in Processes |-> IF q = p \/ pc[q] = "idle" THEN others[q] ELSE others[q] + 1]
         \/ file' = file /\ others' = [others EXCEPT ![p] = 0],
         Planned(p)', Answered(p)', Counted(p)'
  PROVE  RInv'
<1>1. IInv /\ OnlyMoves(p) /\ clock' = clock
  BY MovesAlone DEF RInv
<1>2. ASSUME NEW q \in Processes, q # p
      PROVE  Planned(q)' /\ Answered(q)' /\ Counted(q)'
  <2>1. \/ file' = file /\ others'[q] = others[q]
        \/ others'[q] = others[q] + 1
        \/ pc[q] = "idle" /\ others'[q] = others[q]
    BY <1>2 DEF RInv, IInv, TypeOK
  <2>2. Unmoved(q)
    BY <1>1, <1>2 DEF OnlyMoves
  <2> QED BY <1>1, <2>1, <2>2, UnmovedKeeps DEF RInv
<1> QED BY <1>2 DEF RInv

LEMMA NextRInv == RInv /\ [Next]_vars => RInv'
<1> SUFFICES ASSUME RInv, [Next]_vars PROVE RInv'
  OBVIOUS
<1>0. IInv /\ TypeOK /\ IInv' /\ TypeOK'
  BY NextIInv DEF RInv, IInv
<1>1. CASE Tick \/ UNCHANGED vars
  <2>1. \A q \in Processes : Unmoved(q) /\ file' = file /\ others'[q] = others[q]
    BY <1>1 DEF Tick, vars, progress, disk, ghosts, Unmoved
  <2>2. clock' \in {clock, clock + 1}
    BY <1>1 DEF Tick, vars
  <2> QED BY <1>0, <2>1, <2>2, UnmovedKeeps DEF RInv
<1>2. CASE EditByHand
  <2>1. \A q \in Processes :
          Unmoved(q) /\ \/ others'[q] = others[q] + 1
                        \/ pc[q] = "idle" /\ others'[q] = others[q]
    BY <1>2 DEF EditByHand, progress, Unmoved
  <2>2. clock' = clock
    BY <1>2 DEF EditByHand
  <2> QED BY <1>0, <2>1, <2>2, UnmovedKeeps DEF RInv
<1>3. ASSUME NEW p \in Processes, Moves(p)
      PROVE  RInv'
  <2>0. /\ Planned(p) /\ Answered(p) /\ Counted(p)
        /\ req[p] \in Request /\ req[p].now \in Nat /\ clock \in Nat
        /\ others[p] \in Nat /\ attempts[p] \in 0 .. 2
    BY <1>0 DEF RInv, TypeOK, Request
  <2>a. ASSUME NEW a, Answer(p, a), a.status # "none", clock' = clock,
               req' = req, others'[p] = others[p],
               a.status = "conflict" => others[p] >= 2,
               pc[p] # "idle"
        PROVE  Planned(p)' /\ Answered(p)' /\ Counted(p)'
    <3>1. pc'[p] = "return" /\ answer'[p] = a
      BY <1>0, <2>a DEF Answer, TypeOK
    <3> QED BY <2>0, <2>a, <3>1 DEF Planned, Answered, Counted, Writing
  <2>1. CASE \E r \in Requests : Call(p, r)
    <3>1. PICK r \in Requests : Call(p, r)
      BY <2>1
    <3>2. /\ pc[p] = "idle" /\ pc'[p] = "read" /\ req'[p] = [r EXCEPT !.now = clock]
          /\ attempts'[p] = 2 /\ others'[p] = 0 /\ answer' = answer /\ clock' = clock
          /\ file' = file /\ others' = [others EXCEPT ![p] = 0]
      BY <1>0, <3>1 DEF Call, TypeOK, disk
    <3>3. req'[p].now = clock
      BY <3>2 DEF Request
    <3>4. answer'[p] = NoAnswer
      BY <2>0, <3>2 DEF Answered
    <3>5. Planned(p)' /\ Answered(p)' /\ Counted(p)'
      BY <2>0, <3>2, <3>3, <3>4 DEF Planned, Answered, Counted, Writing, NoAnswer
    <3> QED BY <1>0, <1>3, <3>2, <3>5, MovesRInv
  <2>2. CASE ReadBytes(p)
    <3> DEFINE o == Outcome(file.state, req[p], clock)
    <3>1. /\ pc[p] = "read" /\ clock' = clock /\ req' = req /\ file' = file
          /\ others' = others
      BY <2>2 DEF ReadBytes, disk, ghosts
    <3>2. CASE Answer(p, Failure("rejected"))
      BY <2>a, <3>1, <3>2, <1>0, <1>3, MovesRInv DEF Failure
    <3>3. CASE Parses(file) /\ Answer(p, [status |-> o.status, value |-> o.value])
      <4>1. o.status \in {"ok", "missing"}
        <5>1. StateType(file.state) /\ Sound(file.state)
          BY <1>0, <3>3 DEF TypeOK, FileType, IInv, FileSound, Parses, Sound
        <5> QED BY <2>0, <5>1, OutcomeSound
      <4> HIDE DEF o
      <4> QED BY <2>a, <3>1, <3>3, <4>1, <1>0, <1>3, MovesRInv
    <3>4. CASE /\ Parses(file)
               /\ before' = [before EXCEPT ![p] = file]
               /\ plan' = [plan EXCEPT ![p] = o]
               /\ pc' = [pc EXCEPT ![p] = IF file.exists THEN "stat" ELSE "check"]
               /\ UNCHANGED <<answer, seen, attempts>>
      <4> HIDE DEF o
      <4>1. /\ before'[p] = file /\ plan'[p] = o /\ pc'[p] \in {"stat", "check"}
            /\ answer' = answer /\ attempts' = attempts
        BY <1>0, <3>4 DEF TypeOK
      <4>2. file.shaped /\ Sound(file.state)
        BY <1>0, <3>4 DEF IInv, FileSound, Parses, Sound
      <4>3. clock \in req[p].now .. clock
        BY <2>0, <3>1 DEF Answered
      <4>4. Planned(p)'
        BY <3>1, <4>1, <4>2, <4>3 DEF Planned, o
      <4>5. Answered(p)'
        BY <2>0, <3>1, <4>1 DEF Answered
      <4>6. Counted(p)'
        BY <2>0, <3>1, <4>1 DEF Counted
      <4> QED BY <1>0, <1>3, <3>1, <4>4, <4>5, <4>6, MovesRInv
    <3> QED BY <2>2, <3>2, <3>3, <3>4 DEF ReadBytes
  <2>3. CASE ReadStat(p)
    <3> DEFINE b == before[p]
    <3>1. /\ pc[p] = "stat" /\ pc'[p] = "check"
          /\ before'[p] = [b EXCEPT !.mtime = file.mtime]
          /\ UNCHANGED <<req, plan, attempts, answer, file, clock, others>>
      BY <1>0, <2>3 DEF TypeOK, ReadStat, disk, ghosts
    <3>2. FileType(b) /\ FileType(file)
      BY <1>0 DEF TypeOK
    <3> HIDE DEF b
    <3>3. [b EXCEPT !.mtime = file.mtime].shaped = b.shaped
          /\ [b EXCEPT !.mtime = file.mtime].state = b.state
          /\ b = file => [b EXCEPT !.mtime = file.mtime] = file
      BY <3>2 DEF FileType
    <3>4. Planned(p)'
      BY <2>0, <3>1, <3>3 DEF Planned, Writing, b
    <3>5. Answered(p)' /\ Counted(p)'
      BY <2>0, <3>1, <3>3 DEF Answered, Counted, b
    <3> QED BY <1>0, <1>3, <3>1, <3>4, <3>5, MovesRInv
  <2>4. ASSUME NEW now, Compare(p, now), pc[p] \in {"check", "checkstat"},
               UNCHANGED <<req, disk, clock, ghosts>>,
               now # before[p] => others[p] >= 3 - attempts[p]
        PROVE  RInv'
    <3>1. file' = file /\ others' = others /\ clock' = clock /\ req' = req
      BY <2>4 DEF disk, ghosts
    <3>2. CASE now = before[p] /\ pc' = [pc EXCEPT ![p] = "stage"]
               /\ UNCHANGED <<before, plan, answer>>
      <4>1. pc'[p] = "stage"
        BY <1>0, <3>2 DEF TypeOK
      <4> QED BY <1>0, <1>3, <2>0, <2>4, <3>1, <3>2, <4>1, MovesRInv
              DEF Planned, Answered, Counted, Writing
    <3>3. CASE /\ now # before[p] /\ attempts[p] > 1
               /\ attempts' = [attempts EXCEPT ![p] = attempts[p] - 1]
               /\ pc' = [pc EXCEPT ![p] = "read"]
               /\ UNCHANGED <<before, plan, answer>>
      <4>1. pc'[p] = "read" /\ attempts'[p] = 1 /\ attempts[p] = 2
        BY <1>0, <2>0, <3>3 DEF TypeOK
      <4>2. Planned(p)' /\ Answered(p)'
        BY <2>0, <2>4, <3>1, <3>3, <4>1 DEF Planned, Answered, Writing
      <4>3. Counted(p)'
        BY <2>0, <2>4, <3>1, <3>3, <4>1 DEF Counted
      <4> QED BY <1>0, <1>3, <3>1, <4>2, <4>3, MovesRInv
    <3>4. CASE now # before[p] /\ attempts[p] = 1 /\ Answer(p, Failure("conflict"))
      BY <2>a, <2>0, <2>4, <3>1, <3>4, <1>0, <1>3, MovesRInv DEF Failure
    <3> QED BY <2>4, <3>2, <3>3, <3>4 DEF Compare
  <2>5. CASE CheckBytes(p)
    <3>1. pc[p] = "check" /\ UNCHANGED <<req, disk, clock, ghosts>>
      BY <2>5 DEF CheckBytes
    <3>2. CASE Compare(p, file)
      BY <2>0, <2>4, <3>1, <3>2 DEF Counted
    <3>3. CASE /\ seen' = [seen EXCEPT ![p] = file]
               /\ pc' = [pc EXCEPT ![p] = "checkstat"]
               /\ UNCHANGED <<before, plan, attempts, answer>>
      <4>1. /\ pc'[p] = "checkstat" /\ seen'[p] = file
            /\ file' = file /\ others' = others /\ staged' = staged
        BY <1>0, <3>1, <3>3 DEF TypeOK, disk, ghosts
      <4>2. Planned(p)' /\ Answered(p)' /\ Counted(p)'
        BY <2>0, <3>1, <3>3, <4>1 DEF Planned, Answered, Counted, Writing
      <4> QED BY <1>0, <1>3, <4>1, <4>2, MovesRInv
    <3> QED BY <2>5, <3>2, <3>3 DEF CheckBytes
  <2>6. CASE CheckStat(p)
    <3> DEFINE now == [seen[p] EXCEPT !.mtime = file.mtime]
    <3>1. pc[p] = "checkstat" /\ UNCHANGED <<req, disk, clock, ghosts>> /\ Compare(p, now)
      BY <2>6 DEF CheckStat
    <3>2. seen[p] = file => now = file
      BY <1>0 DEF TypeOK, FileType
    <3>3. now # before[p] => others[p] >= 3 - attempts[p]
      BY <2>0, <3>1, <3>2 DEF Counted
    <3> HIDE DEF now
    <3> QED BY <2>4, <3>1, <3>3
  <2>7. CASE OpenStaging(p)
    <3>1. /\ pc[p] = "stage" /\ pc'[p] = "write"
          /\ UNCHANGED <<req, before, plan, answer, file, clock, others>>
      BY <1>0, <2>7 DEF TypeOK, OpenStaging, ghosts
    <3>2. Planned(p)' /\ Answered(p)' /\ Counted(p)'
      BY <2>0, <3>1 DEF Planned, Answered, Counted, Writing
    <3> QED BY <1>0, <1>3, <3>1, <3>2, MovesRInv
  <2>8. CASE WriteStaging(p)
    <3>1. /\ pc[p] = "write" /\ pc'[p] = "replace"
          /\ staged'[p].state = plan[p].state
          /\ UNCHANGED <<req, before, plan, answer, file, clock, others>>
      BY <1>0, <2>8 DEF TypeOK, WriteStaging, ghosts
    <3>2. Planned(p)' /\ Answered(p)' /\ Counted(p)'
      BY <2>0, <3>1 DEF Planned, Answered, Counted, Writing
    <3> QED BY <1>0, <1>3, <3>1, <3>2, MovesRInv
  <2>9. CASE Replace(p)
    <3> DEFINE a == [status |-> plan[p].status, value |-> plan[p].value]
    <3>1. /\ Answer(p, a) /\ clock' = clock /\ req' = req /\ pc[p] # "idle"
          /\ others' = [q \in Processes |-> IF q = p \/ pc[q] = "idle" THEN others[q] ELSE others[q] + 1]
      BY <2>9 DEF Replace
    <3>2. others'[p] = others[p] /\ a.status \in {"ok", "missing"}
      BY <1>0, <3>1 DEF TypeOK, PlanType
    <3> HIDE DEF a
    <3>3. Planned(p)' /\ Answered(p)' /\ Counted(p)'
      BY <2>a, <3>1, <3>2
    <3> QED BY <1>0, <1>3, <3>1, <3>3, MovesRInv
  <2>10. CASE WriteFails(p)
    BY <2>a, <2>10, <1>0, <1>3, MovesRInv DEF WriteFails, Failure, ghosts
  <2>11. CASE Return(p) \/ Crash(p)
    <3>1. /\ pc'[p] = "idle" /\ answer'[p] = NoAnswer
          /\ UNCHANGED <<clock, file>> /\ others' = [others EXCEPT ![p] = 0]
      BY <1>0, <2>11 DEF TypeOK, Return, Crash, disk
    <3>2. Planned(p)' /\ Answered(p)' /\ Counted(p)'
      BY <3>1 DEF Planned, Answered, Counted, Writing, NoAnswer
    <3> QED BY <1>0, <1>3, <3>1, <3>2, MovesRInv
  <2> QED BY <1>3, <2>1, <2>2, <2>3, <2>5, <2>6, <2>7, <2>8, <2>9, <2>10, <2>11
          DEF Moves, Step
<1> QED BY <1>1, <1>2, <1>3 DEF Next, Moves

\* The invariant of what a race may lose holds throughout.
THEOREM RaceInvariance == Spec => []RInv
  BY InitRInv, NextRInv, PTL DEF Spec

(***************************************************************************)
(* A damaged file, or one whose next_id would issue a taken id, is never   *)
(* what a write is based on (WritesFollowAcceptedReads).                   *)
(***************************************************************************)
THEOREM DamageIsNotUsed == Spec => []WritesFollowAcceptedReads
<1>1. RInv => WritesFollowAcceptedReads
  BY DEF RInv, Planned, Writing, WritesFollowAcceptedReads, Sound
<1> QED BY <1>1, RaceInvariance, PTL

(***************************************************************************)
(* A call refused for "changed twice" was overtaken twice                  *)
(* (ConflictMeansTwoOthers), whatever the file times show.                 *)
(***************************************************************************)
THEOREM NoRefusalForNothing == Spec => []ConflictMeansTwoOthers
<1>1. RInv => ConflictMeansTwoOthers
  BY DEF RInv, Counted, ConflictMeansTwoOthers
<1> QED BY <1>1, RaceInvariance, PTL

-----------------------------------------------------------------------------
(***************************************************************************)
(* With the gap kept the second comparison still holds at the rename: the  *)
(* file a call replaces is the one its plan was made from.                 *)
(***************************************************************************)
KeepingNext == Next /\ KeepsGap
GapHeld(p) ==
  /\ pc[p] = "checkstat" => seen[p] = file
  /\ pc[p] \in {"stage", "write", "replace"} => before[p] = file
GInv == RInv /\ \A p \in Processes : GapHeld(p)

LEMMA InitGInv == Init => GInv
  BY InitRInv DEF Init, GInv, GapHeld

LEMMA MovesGapHeld ==
  ASSUME GInv, NEW p \in Processes, Moves(p)
  PROVE  GapHeld(p)'
<1>0. TypeOK /\ GapHeld(p)
  BY DEF GInv, RInv, IInv
<1>1. CASE pc'[p] \in {"idle", "read", "stat", "check", "return"}
  BY <1>1 DEF GapHeld
<1>2. ASSUME NEW now, Compare(p, now), file' = file, now = file
      PROVE  GapHeld(p)'
  <2>1. CASE pc' = [pc EXCEPT ![p] = "stage"] /\ now = before[p] /\ before' = before
    <3>1. pc'[p] = "stage"
      BY <1>0, <2>1 DEF TypeOK
    <3> QED BY <1>2, <2>1, <3>1 DEF GapHeld
  <2>2. CASE pc' = [pc EXCEPT ![p] = "read"] \/ pc' = [pc EXCEPT ![p] = "return"]
    <3>1. pc'[p] \in {"read", "return"}
      BY <1>0, <2>2 DEF TypeOK
    <3> QED BY <1>1, <3>1
  <2> QED BY <1>2, <2>1, <2>2 DEF Compare, Answer
<1>3. CASE CheckBytes(p)
  <2>1. file' = file
    BY <1>3 DEF CheckBytes, disk
  <2>2. CASE Compare(p, file)
    BY <1>2, <2>1, <2>2
  <2>3. CASE seen' = [seen EXCEPT ![p] = file] /\ pc' = [pc EXCEPT ![p] = "checkstat"]
    <3>1. pc'[p] = "checkstat" /\ seen'[p] = file
      BY <1>0, <2>3 DEF TypeOK
    <3> QED BY <2>1, <3>1 DEF GapHeld
  <2> QED BY <1>3, <2>2, <2>3 DEF CheckBytes
<1>4. CASE CheckStat(p)
  <2>1. file' = file /\ pc[p] = "checkstat"
    BY <1>4 DEF CheckStat, disk
  <2>2. [seen[p] EXCEPT !.mtime = file.mtime] = file
    BY <1>0, <2>1 DEF GapHeld, TypeOK, FileType
  <2>3. Compare(p, [seen[p] EXCEPT !.mtime = file.mtime])
    BY <1>4 DEF CheckStat
  <2> QED BY <1>2, <2>1, <2>2, <2>3
<1>5. CASE OpenStaging(p) \/ WriteStaging(p)
  <2>1. /\ pc[p] \in {"stage", "write"} /\ pc'[p] \in {"write", "replace"}
        /\ before' = before /\ file' = file
    BY <1>0, <1>5 DEF TypeOK, OpenStaging, WriteStaging
  <2> QED BY <1>0, <2>1 DEF GapHeld
<1>6. CASE pc'[p] \notin {"checkstat", "stage", "write", "replace"}
  BY <1>6 DEF GapHeld
<1>7. CASE \E r \in Requests : Call(p, r)
  BY <1>0, <1>6, <1>7 DEF TypeOK, Call
<1>8. CASE ReadBytes(p) \/ ReadStat(p)
  <2>1. pc'[p] \in {"return", "stat", "check"}
    BY <1>0, <1>8 DEF TypeOK, ReadBytes, ReadStat, Answer
  <2> QED BY <1>1, <2>1
<1>9. CASE Replace(p) \/ WriteFails(p) \/ Return(p) \/ Crash(p)
  <2>1. pc'[p] \in {"return", "idle"}
    BY <1>0, <1>9 DEF TypeOK, Replace, WriteFails, Return, Crash, Answer
  <2> QED BY <1>1, <2>1
<1> QED BY <1>3, <1>4, <1>5, <1>7, <1>8, <1>9 DEF Moves, Step

LEMMA NextGInv == GInv /\ [KeepingNext]_vars => GInv'
<1> SUFFICES ASSUME GInv, [KeepingNext]_vars PROVE GInv'
  OBVIOUS
<1>0. IInv /\ RInv'
  BY NextRInv DEF GInv, RInv, KeepingNext
<1>1. ASSUME NEW q \in Processes, Unmoved(q)
      PROVE  GapHeld(q)'
  <2>1. CASE InGap(q)
    <3>1. file' = file
      BY <1>1, <2>1 DEF KeepingNext, KeepsGap, Unmoved, vars, disk
    <3> QED BY <1>1, <3>1 DEF GInv, GapHeld, Unmoved
  <2>2. CASE ~InGap(q)
    BY <1>1, <2>2 DEF InGap, GapHeld, Unmoved
  <2> QED BY <2>1, <2>2
<1>2. CASE Tick \/ EditByHand \/ UNCHANGED vars
  <2>1. \A q \in Processes : Unmoved(q)
    BY <1>2 DEF Tick, EditByHand, vars, progress, disk, Unmoved
  <2> QED BY <1>0, <1>1, <2>1 DEF GInv
<1>3. ASSUME NEW p \in Processes, Moves(p)
      PROVE  GInv'
  <2>1. OnlyMoves(p) /\ GapHeld(p)'
    BY <1>0, <1>3, MovesAlone, MovesGapHeld
  <2> QED BY <1>0, <1>1, <2>1 DEF GInv, OnlyMoves
<1> QED BY <1>2, <1>3 DEF KeepingNext, Next, Moves

\* The steps that change the file.
LEMMA FileChanges ==
  ASSUME [Next]_vars
  PROVE  file' = file \/ EditByHand \/ \E p \in Processes : Replace(p)
<1>1. CASE Tick \/ UNCHANGED vars
  BY <1>1 DEF Tick, vars, disk
<1>2. ASSUME NEW p \in Processes, Moves(p), ~Replace(p)
      PROVE  file' = file
  BY <1>2 DEF Moves, Step, Call, ReadBytes, ReadStat, CheckBytes, CheckStat,
              OpenStaging, WriteStaging, WriteFails, Return, Crash, disk
<1> QED BY <1>1, <1>2 DEF Next, Moves

(***************************************************************************)
(* The rename is the instant the call takes effect: on the latest state,   *)
(* with the answer of that state.                                          *)
(***************************************************************************)
LEMMA ReplaceTakesEffect ==
  ASSUME GInv, NEW p \in Processes, Replace(p)
  PROVE  /\ StateType(file.state) /\ Sound(file.state) /\ req[p] \in Request
         /\ \E now \in req[p].now .. clock :
              /\ now \in Nat
              /\ plan[p] = Outcome(file.state, req[p], now)
              /\ file'.state = Outcome(file.state, req[p], now).state
              /\ answer'[p] = [status |-> Outcome(file.state, req[p], now).status,
                               value |-> Outcome(file.state, req[p], now).value]
<1>1. /\ TypeOK /\ Planned(p) /\ GapHeld(p)
      /\ pc[p] = "replace" /\ file' = staged[p]
      /\ answer' = [answer EXCEPT ![p] = [status |-> plan[p].status, value |-> plan[p].value]]
  BY DEF GInv, RInv, IInv, Replace, Answer
<1>2. before[p] = file /\ Sound(file.state) /\ staged[p].state = plan[p].state
  BY <1>1 DEF Planned, GapHeld, Writing
<1>3. PICK now \in req[p].now .. clock : plan[p] = Outcome(before[p].state, req[p], now)
  BY <1>1 DEF Planned, Writing
<1>4. StateType(file.state) /\ req[p] \in Request /\ now \in Nat
  <2>1. req[p].now \in Nat /\ clock \in Nat
    BY <1>1 DEF TypeOK, Request
  <2> QED BY <1>1, <2>1 DEF TypeOK, FileType
<1>5. answer'[p] = [status |-> plan[p].status, value |-> plan[p].value]
  BY <1>1 DEF TypeOK
<1> QED BY <1>1, <1>2, <1>3, <1>4, <1>5

(***************************************************************************)
(* NoAckedVersionLost is not inductive: what a save is about to            *)
(* acknowledge must be filed already (Acknowledgeable).                    *)
(***************************************************************************)
Safe(v) == v.id \in purged \/ InHistory(file.state, v)
Acknowledgeable ==
  \A p \in Processes :
    pc[p] = "return" /\ req[p].op \in {"save", "restore_version"} =>
      \A v \in answer[p].value : Safe(v)
SafeInv == NoAckedVersionLost /\ Acknowledgeable

LEMMA SafeStaysSafe ==
  ASSUME GInv, [Next]_vars, NEW v, Safe(v)
  PROVE  Safe(v)'
<1>1. v.id \in purged => v.id \in purged'
  BY DEF Next, Step, vars, ghosts, Call, ReadBytes, ReadStat, CheckBytes, CheckStat,
         OpenStaging, WriteStaging, WriteFails, Return, Crash, Replace, Tick, EditByHand
<1>2. CASE v.id \in purged
  BY <1>1, <1>2 DEF Safe
<1>3. CASE InHistory(file.state, v) /\ file' = file
  BY <1>3 DEF Safe
<1>4. CASE InHistory(file.state, v) /\ EditByHand
  <2>1. file'.state.history = file.state.history
    <3>1. FileType(file)
      BY DEF GInv, RInv, IInv, TypeOK
    <3> QED BY <1>4, <3>1 DEF EditByHand, FileType, StateType
  <2> QED BY <1>4, <2>1 DEF Safe, InHistory
<1>5. ASSUME NEW p \in Processes, Replace(p), InHistory(file.state, v)
      PROVE  Safe(v)'
  <2>1. PICK now \in req[p].now .. clock :
          /\ now \in Nat
          /\ plan[p] = Outcome(file.state, req[p], now)
          /\ file'.state = Outcome(file.state, req[p], now).state
    BY <1>5, ReplaceTakesEffect
  <2>2. \/ InHistory(file'.state, v)
        \/ req[p].op = "purge_expired" /\ v.id \in {r.id : r \in plan[p].value}
    <3>1. StateType(file.state) /\ Sound(file.state) /\ req[p] \in Request
      BY <1>5, ReplaceTakesEffect
    <3> QED BY <1>5, <2>1, <3>1, OutcomeKeepsHistory
  <2> QED BY <1>5, <2>2 DEF Safe, Replace
<1> QED BY <1>2, <1>3, <1>4, <1>5, FileChanges DEF Safe

LEMMA NextSafeInv == GInv /\ SafeInv /\ [Next]_vars => SafeInv'
<1> SUFFICES ASSUME GInv, SafeInv, [Next]_vars PROVE SafeInv'
  OBVIOUS
<1>0. TypeOK /\ IInv
  BY DEF GInv, RInv, IInv
<1>1. \A v : Safe(v) => Safe(v)'
  BY SafeStaysSafe
<1>2. \A v \in acked' : Safe(v)
  <2>1. CASE acked' = acked
    BY <2>1 DEF SafeInv, NoAckedVersionLost, Safe
  <2>2. ASSUME NEW p \in Processes, Return(p)
        PROVE  \A v \in acked' : Safe(v)
    BY <2>2 DEF SafeInv, NoAckedVersionLost, Acknowledgeable, Safe, Return
  <2>3. acked' = acked \/ \E p \in Processes : Return(p)
    BY DEF Next, Step, vars, ghosts, Call, ReadBytes, ReadStat, CheckBytes, CheckStat,
           OpenStaging, WriteStaging, WriteFails, Return, Crash, Replace, Tick, EditByHand
  <2> QED BY <2>1, <2>2, <2>3
<1>3. NoAckedVersionLost'
  BY <1>1, <1>2 DEF NoAckedVersionLost, Safe
<1>4. ASSUME NEW q \in Processes, Unmoved(q), NEW v \in answer'[q].value,
             pc'[q] = "return", req'[q].op \in {"save", "restore_version"}
      PROVE  Safe(v)'
  BY <1>1, <1>4 DEF SafeInv, Acknowledgeable, Unmoved
<1>5. ASSUME NEW p \in Processes, Moves(p), NEW v \in answer'[p].value,
             pc'[p] = "return", req'[p].op \in {"save", "restore_version"}
      PROVE  Safe(v)'
  <2>1. ASSUME NEW s, Answer(p, Failure(s)) PROVE FALSE
    <3>1. answer'[p] = [status |-> s, value |-> {}]
      BY <1>0, <2>1 DEF TypeOK, Answer, Failure
    <3> QED BY <1>5, <3>1
  <2>2. CASE ReadBytes(p)
    <3> DEFINE o == Outcome(file.state, req[p], clock)
    <3>1. /\ Parses(file) /\ o.state = file.state
          /\ answer' = [answer EXCEPT ![p] = [status |-> o.status, value |-> o.value]]
      <4>1. pc' # [pc EXCEPT ![p] = IF file.exists THEN "stat" ELSE "check"]
        BY <1>0, <1>5 DEF TypeOK
      <4> QED BY <2>1, <2>2, <4>1 DEF ReadBytes, Answer
    <3>2. v \in o.value /\ req' = req /\ file' = file
      BY <1>0, <1>5, <2>2, <3>1 DEF TypeOK, ReadBytes, disk
    <3>3. StateType(file.state) /\ Sound(file.state) /\ req[p] \in Request /\ clock \in Nat
      BY <1>0, <3>1 DEF TypeOK, FileType, IInv, FileSound, Parses, Sound
    <3>4. InHistory(o.state, v)
      BY <1>5, <3>2, <3>3, OutcomeFilesAnswer
    <3> HIDE DEF o
    <3> QED BY <3>1, <3>2, <3>4 DEF Safe
  <2>3. CASE Replace(p)
    <3>1. PICK now \in req[p].now .. clock :
            /\ now \in Nat
            /\ file'.state = Outcome(file.state, req[p], now).state
            /\ answer'[p] = [status |-> Outcome(file.state, req[p], now).status,
                             value |-> Outcome(file.state, req[p], now).value]
      BY <2>3, ReplaceTakesEffect
    <3>2. StateType(file.state) /\ Sound(file.state) /\ req[p] \in Request
      BY <2>3, ReplaceTakesEffect
    <3>3. v \in Outcome(file.state, req[p], now).value
      BY <1>5, <3>1
    <3>4. req[p].op \in {"save", "restore_version"}
      BY <1>5, <2>3 DEF Replace
    <3> QED BY <3>1, <3>2, <3>3, <3>4, OutcomeFilesAnswer DEF Safe
  <2>4. CASE CheckBytes(p) \/ CheckStat(p)
    <3>1. \E now : Compare(p, now)
      <4>1. pc' # [pc EXCEPT ![p] = "checkstat"]
        BY <1>0, <1>5 DEF TypeOK
      <4> QED BY <2>4, <4>1 DEF CheckBytes, CheckStat
    <3>2. pc' \notin {[pc EXCEPT ![p] = "stage"], [pc EXCEPT ![p] = "read"]}
      BY <1>0, <1>5 DEF TypeOK
    <3> QED BY <2>1, <3>1, <3>2 DEF Compare
  <2>5. CASE WriteFails(p)
    BY <2>1, <2>5 DEF WriteFails
  <2>6. CASE \/ \E r \in Requests : Call(p, r)
             \/ ReadStat(p) \/ OpenStaging(p) \/ WriteStaging(p) \/ Return(p) \/ Crash(p)
    <3>1. pc'[p] # "return"
      BY <1>0, <2>6 DEF TypeOK, Call, ReadStat, OpenStaging, WriteStaging, Return, Crash
    <3> QED BY <1>5, <3>1
  <2> QED BY <1>5, <2>2, <2>3, <2>4, <2>5, <2>6 DEF Moves, Step
<1>6. Acknowledgeable'
  <2>1. ASSUME NEW p \in Processes, Moves(p) PROVE Acknowledgeable'
    <3>1. OnlyMoves(p)
      BY <1>0, <2>1, MovesAlone
    <3> QED BY <1>4, <1>5, <2>1, <3>1 DEF Acknowledgeable, OnlyMoves
  <2>2. CASE Tick \/ EditByHand \/ UNCHANGED vars
    <3>1. \A q \in Processes : Unmoved(q)
      BY <2>2 DEF Tick, EditByHand, vars, progress, disk, Unmoved
    <3> QED BY <1>4, <3>1 DEF Acknowledgeable
  <2> QED BY <2>1, <2>2 DEF Next, Moves
<1> QED BY <1>3, <1>6 DEF SafeInv

(***************************************************************************)
(* The watched store is the store: the history variable takes no step      *)
(* away and adds none, so the theorems about Spec are about it as well.    *)
(***************************************************************************)
THEOREM WatchedIsStore == WatchedSpec => Spec
<1>1. WatchedInit => Init
  BY DEF WatchedInit
<1>2. [WatchedNext]_watch => [Next]_vars
  BY DEF WatchedNext, watch
<1> QED BY <1>1, <1>2, PTL DEF WatchedSpec, Spec

(***************************************************************************)
(* What holds until somebody intrudes.                                     *)
(***************************************************************************)
KeptInv == intruded \in BOOLEAN /\ (~intruded => GInv /\ SafeInv)

\* A step after which nobody has intruded is one that keeps the gap.
LEMMA KeptStep ==
  ASSUME KeptInv, [WatchedNext]_watch, ~intruded'
  PROVE  GInv /\ SafeInv /\ [KeepingNext]_vars
  BY DEF KeptInv, WatchedNext, watch, KeepingNext

LEMMA NextKeptInv == KeptInv /\ [WatchedNext]_watch => KeptInv'
<1> SUFFICES ASSUME KeptInv, [WatchedNext]_watch PROVE KeptInv'
  OBVIOUS
<1>1. intruded' \in BOOLEAN
  BY DEF KeptInv, WatchedNext, watch
<1>2. ASSUME ~intruded'
      PROVE  GInv' /\ SafeInv'
  <2>1. GInv /\ SafeInv /\ [KeepingNext]_vars
    BY <1>2, KeptStep
  <2>2. [Next]_vars
    BY <2>1 DEF KeepingNext
  <2> QED BY <2>1, <2>2, NextGInv, NextSafeInv
<1> QED BY <1>1, <1>2 DEF KeptInv

\* The invariant of the gap holds until somebody intrudes.
THEOREM GapInvariance == WatchedSpec => []KeptInv
<1>1. WatchedInit => KeptInv
  BY InitGInv
  DEF WatchedInit, KeptInv, Init, SafeInv, NoAckedVersionLost, Acknowledgeable
<1> QED BY <1>1, NextKeptInv, PTL DEF WatchedSpec

(***************************************************************************)
(* No acknowledged version is lost (AckedVersionsStay) as long as no       *)
(* rename of another process and no edit fell into the gap, for any number *)
(* of processes, calls, crashes and disk failures, and even when the file  *)
(* is edited between calls.                                                *)
(***************************************************************************)
THEOREM AcknowledgedIsKept == WatchedSpec => []AckedVersionsStay
<1>1. KeptInv => AckedVersionsStay
  BY DEF KeptInv, SafeInv, AckedVersionsStay
<1> QED BY <1>1, GapInvariance, PTL

LEMMA NoEditByHand ==
  ASSUME TypeOK, edits' = edits
  PROVE  ~EditByHand
<1>1. edits \in Nat
  BY DEF TypeOK
<1>2. EditByHand => edits' = edits + 1
  BY DEF EditByHand
<1> QED BY <1>1, <1>2

(***************************************************************************)
(* Except by an edit, ids are issued upwards only, across purges, races,   *)
(* crashes and retries (IdsNeverReissued).                                 *)
(***************************************************************************)
THEOREM IdsIssuedOnce == WatchedSpec => IdsNeverReissued
<1> DEFINE Onwards == ~intruded' /\ edits' = edits => IssuesOnwards(file.state, file'.state)
<1>1. KeptInv /\ [WatchedNext]_watch => [Onwards]_watch
  <2> SUFFICES ASSUME KeptInv, [WatchedNext]_watch, ~intruded', edits' = edits
               PROVE  IssuesOnwards(file.state, file'.state)
    OBVIOUS
  <2>1. GInv /\ [Next]_vars
    BY KeptStep DEF KeepingNext
  <2>2. CASE file' = file
    <3>1. file.state.next_id \in Nat
      BY <2>1 DEF GInv, RInv, IInv, TypeOK, FileType, StateType
    <3> QED BY <2>2, <3>1 DEF IssuesOnwards
  <2>3. ~EditByHand
    BY <2>1, NoEditByHand DEF GInv, RInv, IInv
  <2>4. ASSUME NEW p \in Processes, Replace(p)
        PROVE  IssuesOnwards(file.state, file'.state)
    <3>1. PICK now \in req[p].now .. clock :
            now \in Nat /\ file'.state = Outcome(file.state, req[p], now).state
      BY <2>1, <2>4, ReplaceTakesEffect
    <3>2. StateType(file.state) /\ Sound(file.state) /\ req[p] \in Request
      BY <2>1, <2>4, ReplaceTakesEffect
    <3> QED BY <3>1, <3>2, OutcomeIssuesOnwards
  <2> QED BY <2>1, <2>2, <2>3, <2>4, FileChanges
<1> QED BY <1>1, GapInvariance, PTL DEF WatchedSpec, IdsNeverReissued

-----------------------------------------------------------------------------
(***************************************************************************)
(* The refinement: the rename, or the read of a call that changes nothing, *)
(* is TakeEffect; every other step is a step of the caller or a stutter.   *)
(***************************************************************************)
LEMMA SameOutcome ==
  ASSUME NEW st, NEW r, NEW now
  PROVE  Protocol!Outcome(st, r, now) = Outcome(st, r, now)
  BY Zenon DEF Protocol!Outcome, Outcome, Protocol!Load, Load, Protocol!ListActive, ListActive,
     Protocol!ListVersions, ListVersions, Protocol!PurgeExpired, PurgeExpired,
     Protocol!SaveNew, SaveNew, Protocol!SaveExisting, SaveExisting,
     Protocol!RestoreVersion, RestoreVersion, Protocol!SoftDelete, SoftDelete,
     Protocol!Restore, Restore, Protocol!Missing, Missing, Protocol!Done, Done,
     Protocol!Known, Known, Protocol!HasVersion, HasVersion,
     Protocol!HistoryOf, HistoryOf, Protocol!SetCurrent, SetCurrent,
     Protocol!AppendVersion, AppendVersion, Protocol!Put, Put, Protocol!Without, Without,
     Protocol!Revised, Revised, Protocol!Expired, Expired, Protocol!NotDeleted, NotDeleted,
     Protocol!FirstVersion, FirstVersion

LEMMA CallMoves ==
  ASSUME NEW p \in Processes, OnlyMoves(p)
  PROVE  AbstractCall' = [AbstractCall EXCEPT ![p] = CallOf(p)']
<1>1. \A q \in Processes \ {p} : CallOf(q)' = CallOf(q)
  BY DEF OnlyMoves, Unmoved, CallOf, NoAnswer
<1> QED BY <1>1 DEF AbstractCall

LEMMA CallStays ==
  ASSUME \A p \in Processes : CallOf(p)' = CallOf(p)
  PROVE  AbstractCall' = AbstractCall
  BY DEF AbstractCall

\* What the caller of p sees while its call is under way.
LEMMA CallUnderWay ==
  ASSUME RInv, NEW p \in Processes, pc[p] # "idle", pc[p] # "return"
  PROVE  /\ AbstractCall[p] = [busy |-> TRUE, req |-> req[p], answer |-> NoAnswer]
         /\ CallOf(p) = AbstractCall[p]
         /\ Protocol!Pending(p)
<1>1. answer[p] = NoAnswer
  BY DEF RInv, Answered
<1>2. CallOf(p) = [busy |-> TRUE, req |-> req[p], answer |-> NoAnswer]
  BY <1>1 DEF CallOf, NoAnswer, AbstractStatus
<1>3. AbstractCall[p] = CallOf(p)
  BY DEF AbstractCall
<1> QED BY <1>2, <1>3 DEF Protocol!Pending, Protocol!NoAnswer, NoAnswer

LEMMA SetAnswer ==
  ASSUME NEW r, NEW n, NEW a, NEW c, c = [busy |-> TRUE, req |-> r, answer |-> n]
  PROVE  [c EXCEPT !.answer = a] = [busy |-> TRUE, req |-> r, answer |-> a]
<1> DEFINE d == [c EXCEPT !.answer = a]
<1>1. DOMAIN d = {"busy", "req", "answer"}
  OBVIOUS
<1>2. d.busy = TRUE /\ d.req = r /\ d.answer = a
  OBVIOUS
<1>3. d = [i \in DOMAIN d |-> d[i]]
  OBVIOUS
<1> HIDE DEF d
<1>4. d = [busy |-> TRUE, req |-> r, answer |-> a]
  BY <1>1, <1>2, <1>3
<1> QED BY <1>4 DEF d

LEMMA EffectRefined ==
  ASSUME RInv, NEW p \in Processes, OnlyMoves(p), pc[p] # "idle", pc[p] # "return",
         NEW now \in req[p].now .. clock,
         LET o == Outcome(file.state, req[p], now)
         IN  /\ file'.state = o.state
             /\ o.status \in {"ok", "missing"}
             /\ pc'[p] = "return"
             /\ answer'[p] = [status |-> o.status, value |-> o.value],
         UNCHANGED <<req, clock, calls>>
  PROVE  Protocol!TakeEffect(p)
<1> DEFINE o == Outcome(file.state, req[p], now)
           a == [status |-> o.status, value |-> o.value]
<1>1. o.status \in {"ok", "missing"} /\ pc'[p] = "return" /\ answer'[p] = a
      /\ file'.state = o.state
  OBVIOUS
<1>2. CallOf(p)' = [busy |-> TRUE, req |-> req[p], answer |-> a]
  <2>1. a.status = o.status /\ a.value = o.value
    OBVIOUS
  <2>2. AbstractStatus(o.status) = o.status
    BY <1>1 DEF AbstractStatus
  <2> HIDE DEF o
  <2> QED BY <1>1, <2>1, <2>2 DEF CallOf
<1>3. AbstractCall' = [AbstractCall EXCEPT ![p].answer = a]
  <2> HIDE DEF a
  <2>1. /\ AbstractCall' = [AbstractCall EXCEPT ![p] = CallOf(p)']
        /\ AbstractCall[p] = [busy |-> TRUE, req |-> req[p], answer |-> NoAnswer]
    BY CallMoves, CallUnderWay
  <2>2. CallOf(p)' = [AbstractCall[p] EXCEPT !.answer = a]
    <3> DEFINE c == AbstractCall[p]
    <3>1. c = [busy |-> TRUE, req |-> req[p], answer |-> NoAnswer]
      BY <2>1
    <3> HIDE DEF c
    <3>2. [c EXCEPT !.answer = a] = [busy |-> TRUE, req |-> req[p], answer |-> a]
      BY <3>1, SetAnswer
    <3> USE DEF c
    <3> QED BY <1>2, <3>2, Zenon
  <2> QED BY <2>1, <2>2
<1>4. AbstractCall[p].req = req[p] /\ Protocol!Pending(p)
  <2>1. AbstractCall[p] = [busy |-> TRUE, req |-> req[p], answer |-> NoAnswer]
    BY CallUnderWay
  <2>2. AbstractCall[p].req = req[p]
    BY <2>1
  <2> QED BY <2>2, CallUnderWay
<1>5. Protocol!Outcome(file.state, req[p], now) = o
  BY SameOutcome
<1> HIDE DEF o
<1> QED BY <1>1, <1>3, <1>4, <1>5 DEF Protocol!TakeEffect

LEMMA RefusalRefined ==
  ASSUME RInv, NEW p \in Processes, OnlyMoves(p), pc[p] # "idle", pc[p] # "return",
         NEW s \in {"rejected", "conflict", "failed"},
         Answer(p, Failure(s)),
         UNCHANGED <<req, file, clock, calls>>
  PROVE  Protocol!Refuse(p)
<1>1. pc'[p] = "return" /\ answer'[p] = [status |-> s, value |-> {}]
  BY DEF Answer, Failure, RInv, IInv, TypeOK
<1>2. CallOf(p)' = [busy |-> TRUE, req |-> req[p],
                    answer |-> [status |-> "refused", value |-> {}]]
  <2>1. answer'[p].status = s /\ answer'[p].value = {}
    BY <1>1
  <2>2. AbstractStatus(s) = "refused"
    BY DEF AbstractStatus
  <2> QED BY <1>1, <2>1, <2>2 DEF CallOf
<1>3. AbstractCall' = [AbstractCall EXCEPT ![p].answer = Protocol!Refused]
  <2>1. /\ AbstractCall' = [AbstractCall EXCEPT ![p] = CallOf(p)']
        /\ AbstractCall[p] = [busy |-> TRUE, req |-> req[p], answer |-> NoAnswer]
    BY CallMoves, CallUnderWay
  <2>2. CallOf(p)' = [AbstractCall[p] EXCEPT !.answer = Protocol!Refused]
    <3> DEFINE c == AbstractCall[p]
               a == [status |-> "refused", value |-> {}]
    <3>1. c = [busy |-> TRUE, req |-> req[p], answer |-> NoAnswer]
      BY <2>1
    <3> HIDE DEF c, a
    <3>2. [c EXCEPT !.answer = a] = [busy |-> TRUE, req |-> req[p], answer |-> a]
      BY <3>1, SetAnswer
    <3> USE DEF c, a
    <3> QED BY <1>2, <3>2, Zenon DEF Protocol!Refused
  <2> QED BY <2>1, <2>2
<1> QED BY <1>3, CallUnderWay DEF Protocol!Refuse

\* A step inside the call.
LEMMA InnerStepRefined ==
  ASSUME RInv, RInv', NEW p \in Processes, OnlyMoves(p),
         pc[p] \notin {"idle", "return"}, pc'[p] \notin {"idle", "return"},
         UNCHANGED <<req, file, clock, calls>>
  PROVE  UNCHANGED Protocol!vars
<1>1. answer[p] = NoAnswer /\ answer'[p] = NoAnswer
  BY DEF RInv, Answered
<1>2. CallOf(p)' = CallOf(p)
  BY <1>1 DEF CallOf
<1>3. AbstractCall' = AbstractCall
  BY <1>2, CallStays DEF OnlyMoves, Unmoved, CallOf
<1> QED BY <1>3 DEF Protocol!vars

LEMMA StepRefined ==
  ASSUME GInv, GInv', NEW p \in Processes, Moves(p)
  PROVE  [Protocol!Next]_(Protocol!vars)
<1>0. /\ RInv /\ RInv' /\ IInv /\ TypeOK /\ OnlyMoves(p)
      /\ Planned(p) /\ Answered(p)
  BY MovesAlone DEF GInv, RInv, IInv
<1>1. CASE \E r \in Requests : Call(p, r)
  <2>1. PICK r \in Requests : Call(p, r)
    BY <1>1
  <2>2. /\ pc[p] = "idle" /\ pc'[p] = "read" /\ req'[p] = [r EXCEPT !.now = clock]
        /\ answer'[p] = answer[p] /\ file' = file /\ clock' = clock
        /\ calls < MaxCalls /\ calls' = calls + 1
    BY <1>0, <2>1 DEF Call, TypeOK, disk
  <2>3. answer'[p] = NoAnswer
    BY <1>0, <2>2 DEF Answered
  <2>4. CallOf(p)' = [busy |-> TRUE, answer |-> NoAnswer, req |-> [r EXCEPT !.now = clock]]
    BY <2>2, <2>3 DEF CallOf, NoAnswer, AbstractStatus
  <2>5. ~AbstractCall[p].busy
    BY <2>2 DEF AbstractCall, CallOf
  <2>6. Protocol!Call(p, r)
    BY <1>0, <2>2, <2>4, <2>5, CallMoves DEF Protocol!Call, Protocol!NoAnswer, NoAnswer
  <2> QED BY <2>6 DEF Protocol!Next
<1>2. CASE ReadBytes(p)
  <2>1. pc[p] = "read" /\ UNCHANGED <<req, file, clock, calls>>
    BY <1>2 DEF ReadBytes, disk
  <2>2. CASE Answer(p, Failure("rejected"))
    BY <1>0, <2>1, <2>2, RefusalRefined DEF Protocol!Next
  <2>3. CASE LET o == Outcome(file.state, req[p], clock)
             IN  /\ Parses(file)
                 /\ o.state = file.state
                 /\ Answer(p, [status |-> o.status, value |-> o.value])
    <3> DEFINE o == Outcome(file.state, req[p], clock)
    <3>1. o.status \in {"ok", "missing"}
      <4>1. /\ StateType(file.state) /\ Sound(file.state)
            /\ req[p] \in Request /\ clock \in Nat
        BY <1>0, <2>3 DEF TypeOK, FileType, IInv, FileSound, Parses, Sound
      <4> QED BY <4>1, OutcomeSound
    <3>2. clock \in req[p].now .. clock
      BY <1>0, <2>1 DEF Answered, TypeOK, Request
    <3> HIDE DEF o
    <3>3. pc'[p] = "return" /\ answer'[p] = [status |-> o.status, value |-> o.value]
          /\ o.state = file.state
      BY <1>0, <2>3 DEF Answer, TypeOK, o
    <3>4. Protocol!TakeEffect(p)
      BY <1>0, <2>1, <3>1, <3>2, <3>3, EffectRefined DEF o
    <3> QED BY <3>4 DEF Protocol!Next
  <2>4. CASE pc' = [pc EXCEPT ![p] = IF file.exists THEN "stat" ELSE "check"]
    <3>1. pc'[p] \in {"stat", "check"}
      BY <1>0, <2>4 DEF TypeOK
    <3> QED BY <1>0, <2>1, <3>1, InnerStepRefined
  <2> QED BY <1>2, <2>2, <2>3, <2>4 DEF ReadBytes
<1>3. CASE ReadStat(p) \/ OpenStaging(p) \/ WriteStaging(p)
  <2>1. /\ pc[p] \in {"stat", "stage", "write"} /\ pc'[p] \in {"check", "write", "replace"}
        /\ UNCHANGED <<req, file, clock, calls>>
    BY <1>0, <1>3 DEF TypeOK, ReadStat, OpenStaging, WriteStaging, disk
  <2> QED BY <1>0, <2>1, InnerStepRefined
<1>4. ASSUME NEW now, Compare(p, now), pc[p] \in {"check", "checkstat"},
             UNCHANGED <<req, file, clock, calls>>
      PROVE  [Protocol!Next]_(Protocol!vars)
  <2>1. CASE pc' = [pc EXCEPT ![p] = "stage"] \/ pc' = [pc EXCEPT ![p] = "read"]
    <3>1. pc'[p] \in {"stage", "read"}
      BY <1>0, <2>1 DEF TypeOK
    <3> QED BY <1>0, <1>4, <3>1, InnerStepRefined
  <2>2. CASE Answer(p, Failure("conflict"))
    BY <1>0, <1>4, <2>2, RefusalRefined DEF Protocol!Next
  <2> QED BY <1>4, <2>1, <2>2 DEF Compare
<1>5. CASE CheckBytes(p)
  <2>1. pc[p] = "check" /\ UNCHANGED <<req, file, clock, calls>>
    BY <1>5 DEF CheckBytes, disk
  <2>2. CASE pc' = [pc EXCEPT ![p] = "checkstat"]
    <3>1. pc'[p] = "checkstat"
      BY <1>0, <2>2 DEF TypeOK
    <3> QED BY <1>0, <2>1, <3>1, InnerStepRefined
  <2> QED BY <1>4, <1>5, <2>1, <2>2 DEF CheckBytes
<1>6. CASE CheckStat(p)
  BY <1>4, <1>6 DEF CheckStat, disk
<1>7. CASE Replace(p)
  <2>1. pc[p] = "replace" /\ UNCHANGED <<req, clock, calls>> /\ pc'[p] = "return"
    BY <1>0, <1>7 DEF Replace, Answer, TypeOK
  <2>2. PICK now \in req[p].now .. clock :
          /\ now \in Nat
          /\ file'.state = Outcome(file.state, req[p], now).state
          /\ answer'[p] = [status |-> Outcome(file.state, req[p], now).status,
                           value |-> Outcome(file.state, req[p], now).value]
    BY <1>7, ReplaceTakesEffect
  <2>3. StateType(file.state) /\ Sound(file.state) /\ req[p] \in Request
    BY <1>7, ReplaceTakesEffect
  <2>4. Outcome(file.state, req[p], now).status \in {"ok", "missing"}
    BY <2>2, <2>3, OutcomeSound
  <2>5. Protocol!TakeEffect(p)
    BY <1>0, <2>1, <2>2, <2>4, EffectRefined
  <2> QED BY <2>5 DEF Protocol!Next
<1>8. CASE WriteFails(p)
  <2>1. pc[p] \in {"stage", "write", "replace"} /\ UNCHANGED <<req, file, clock, calls>>
        /\ Answer(p, Failure("failed"))
    BY <1>8 DEF WriteFails
  <2>2. Protocol!Refuse(p)
    BY <1>0, <2>1, RefusalRefined
  <2> QED BY <2>2 DEF Protocol!Next
<1>9. CASE Return(p) \/ Crash(p)
  <2>1. /\ pc[p] # "idle" /\ pc'[p] = "idle"
        /\ UNCHANGED <<file, clock, calls>>
    BY <1>0, <1>9 DEF TypeOK, Return, Crash, disk
  <2>2. CallOf(p)' = [busy |-> FALSE, req |-> AnyRequest, answer |-> NoAnswer]
    BY <2>1 DEF CallOf, AnyRequest, NoAnswer
  <2>3. AbstractCall[p].busy
    BY <2>1 DEF AbstractCall, CallOf
  <2>4. Protocol!Crash(p)
    BY <1>0, <2>1, <2>2, <2>3, CallMoves
    DEF Protocol!Crash, Protocol!Idle, Protocol!AnyRequest, Protocol!NoAnswer,
        AnyRequest, NoAnswer
  <2> QED BY <2>4 DEF Protocol!Next
<1> QED BY <1>1, <1>2, <1>3, <1>5, <1>6, <1>7, <1>8, <1>9 DEF Moves, Step

LEMMA InitRefined == Init => Protocol!Init
  BY DEF Init, Protocol!Init, NoFile, EmptyState, Protocol!EmptyState, AbstractCall,
         CallOf, Protocol!Idle, AnyRequest, Protocol!AnyRequest, NoAnswer,
         Protocol!NoAnswer

LEMMA NextRefined ==
  ASSUME GInv, GInv', [Next]_vars, edits' = edits
  PROVE  [Protocol!Next]_(Protocol!vars)
<1>1. ~EditByHand
  BY NoEditByHand DEF GInv, RInv, IInv
<1>2. CASE Tick
  <2>1. AbstractCall' = AbstractCall
    BY <1>2, CallStays DEF Tick, progress, CallOf
  <2>2. Protocol!Tick
    BY <1>2, <2>1 DEF Tick, Protocol!Tick, disk
  <2> QED BY <2>2 DEF Protocol!Next
<1>3. CASE UNCHANGED vars
  <2>1. AbstractCall' = AbstractCall
    BY <1>3, CallStays DEF vars, progress, CallOf
  <2> QED BY <1>3, <2>1 DEF Protocol!vars, vars, disk
<1>4. ASSUME NEW p \in Processes, Moves(p)
      PROVE  [Protocol!Next]_(Protocol!vars)
  BY <1>4, StepRefined
<1> QED BY <1>1, <1>2, <1>3, <1>4 DEF Next, Moves

(***************************************************************************)
(* With the gap kept the file is an atomic store (ImplementsProtocol), for *)
(* any number of processes and calls, with crashes and disk failures, and  *)
(* between edits by hand.                                                  *)
(***************************************************************************)
THEOREM FileIsAtomic == WatchedSpec => ImplementsProtocol
<1> DEFINE Refined ==
      ~intruded' /\ edits' = edits => UNCHANGED Protocol!vars \/ Protocol!Next
<1>1. WatchedInit => Protocol!Init
  BY InitRefined DEF WatchedInit
<1>2. KeptInv /\ KeptInv' /\ [WatchedNext]_watch => [Refined]_watch
  <2> SUFFICES ASSUME KeptInv, KeptInv', [WatchedNext]_watch, ~intruded', edits' = edits
               PROVE  UNCHANGED Protocol!vars \/ Protocol!Next
    OBVIOUS
  <2>1. GInv /\ [Next]_vars
    BY KeptStep DEF KeepingNext
  <2>2. GInv'
    BY DEF KeptInv
  <2> QED BY <2>1, <2>2, NextRefined
<1> QED BY <1>1, <1>2, GapInvariance, PTL DEF WatchedSpec, ImplementsProtocol
=============================================================================
