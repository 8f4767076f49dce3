----------------------------- MODULE MCPlatform -----------------------------
(***************************************************************************)
(* What the calculations and the screens stand on, checked in one run: the *)
(* two components that copy the database file, the accounts and the        *)
(* regulation profiles, the execution of many cases, and the end of the    *)
(* calls of the file store.  They share nothing, so the initial state says *)
(* which one is running and the variables of the others stay as they are,  *)
(* at one arbitrary input.                                                 *)
(***************************************************************************)
EXTENDS Integers, Sequences

CONSTANTS
  MaxCommits,  \* bound on the number of transactions
  MaxKills,    \* bound on the number of times the container is killed
  MaxBackups,  \* bound on backups and restores
  Inputs, Workers, Threshold, MaxDeaths,  \* CaseGridExecution
  Threads,                                \* AccountRequests, RegulationAdmin
  Emails, Passwords,                      \* AccountRequests
  Names, Versions, Items,                 \* RegulationAdmin
  Processes, Bodies, Owners, Retention, StoreRequests, MaxClock, MaxCrashes,  \* FileScenarioStore
  MaxCalls                                \* bound on the number of requests

VARIABLES
  part,                                   \* the component that is running
  db, replica, tmp, pc, kills, owed,      \* ContainerStorage
  live, backup, engine, copies, promised, \* BackupFiles
  commits,                                \* transactions committed so far
  input, bad, parallel, confirmed, call, ordered, queue, work, batch, taken,
  results, reported, stop, ending, deaths, \* CaseGridExecution
  at, asks, calls,                        \* AccountRequests, RegulationAdmin
  users, committed, row, reply, granted, undone,       \* AccountRequests
  profiles, histories, draft, past, published, raced,  \* RegulationAdmin
  file, clock, where, req, before, seen, plan, attempts, staged, litter,
  answer, crashes, edits, acked, purged, others        \* FileScenarioStore

Container == INSTANCE ContainerStorage WITH KillsDuringPull <- FALSE
Backup == INSTANCE BackupFiles WITH Reuse <- FALSE
Grid == INSTANCE CaseGridExecution WITH pc <- call
Accounts == INSTANCE AccountRequests
Profiles == INSTANCE RegulationAdmin WITH Handlers <- Threads
Store == INSTANCE FileScenarioStore WITH Requests <- StoreRequests, MaxEdits <- 0, pc <- where

ASSUME CasesAssumption ==
  /\ Threshold \in Nat
  /\ \A s \in Inputs : s \in Seq(Nat) /\ Grid!IsInjective(s)

container == <<db, replica, tmp, pc, kills, owed>>
files == <<live, backup, engine, copies, promised>>
grid ==
  <<input, bad, parallel, confirmed, call, ordered, queue, work, batch, taken,
    results, reported, stop, ending, deaths>>
requests == <<at, asks, calls>>
accounts == <<users, committed, row, reply, granted, undone>>
book == <<profiles, histories, draft, past, published, raced>>
services == <<requests, accounts, book>>
store ==
  <<file, clock, where, req, before, seen, plan, attempts, staged, litter, answer, crashes,
    edits, acked, purged, others>>
vars == <<part, commits, container, files, grid, services, store>>

Init ==
  /\ part \in {"container", "backup", "cases", "accounts", "profiles", "store"}
  /\ part # "cases" => input = <<>> /\ bad = {} /\ parallel = FALSE /\ confirmed = FALSE
  /\ Container!Init
  /\ Backup!Init
  /\ Grid!Init
  /\ Store!Init
  /\ IF part = "profiles"
     THEN Profiles!Init
            /\ users = Accounts!NoUsers /\ committed = users
            /\ row = [t \in Threads |-> 0] /\ reply = [t \in Threads |-> "none"]
            /\ granted = {} /\ undone = {}
     ELSE Accounts!Init /\ profiles = [n \in Names |-> Profiles!NoProfile]
            /\ histories = [n \in Names |-> <<>>] /\ published = histories
            /\ draft = [h \in Threads |-> Profiles!NoProfile]
            /\ past = [h \in Threads |-> <<>>] /\ raced = {}

Next ==
  \/ part = "container" /\ Container!Next /\ UNCHANGED <<part, files, grid, services, store>>
  \/ part = "backup" /\ Backup!Next /\ UNCHANGED <<part, container, grid, services, store>>
  \/ part = "cases" /\ Grid!Next /\ UNCHANGED <<part, commits, container, files, services, store>>
  \/ part = "accounts" /\ Accounts!Next /\ UNCHANGED <<part, commits, container, files, grid, book, store>>
  \/ part = "profiles" /\ Profiles!Next /\ UNCHANGED <<part, commits, container, files, grid, accounts, store>>
  \/ part = "store" /\ Store!Next /\ UNCHANGED <<part, commits, container, files, grid, at, asks, accounts, book>>

\* A container that was killed is started again (ContainerStorage!FairSpec);
\* the call and the pool run on (CaseGridExecution!Spec), and so does a call
\* of the store (FileScenarioStore!FairSpec).
Spec ==
  /\ Init
  /\ [][Next]_vars
  /\ WF_vars(part = "container" /\ Container!OwnStep /\ UNCHANGED <<part, files, grid, services, store>>)
  /\ WF_vars(part = "cases" /\ Grid!Main /\ UNCHANGED <<part, commits, container, files, services, store>>)
  /\ \A p \in Processes :
       WF_vars(part = "store" /\ Store!Step(p)
                 /\ UNCHANGED <<part, commits, container, files, grid, at, asks, accounts, book>>)
  /\ WF_vars(part = "cases" /\ Grid!Pool /\ UNCHANGED <<part, commits, container, files, services, store>>)

\* Up to four cases given in some order; four are one more than the threshold.
SomeInputs == {<<>>, <<1>>, <<3, 1, 2>>, <<2, 4, 1, 3>>}

\* An item that is valid from two years.
SomeItems == {[key |-> "k", from |-> 1, value |-> 0], [key |-> "k", from |-> 2, value |-> 0]}

\* Two processes, one of which may die, create a scenario and save it again.
Ask(op, id, body, owner) ==
  [op |-> op, id |-> id, body |-> body, owner |-> owner, version |-> 1, now |-> 0]
SomeStoreRequests ==
  {Ask("save", 0, "b", "o"), Ask("save", 1, "c", "p")}

-----------------------------------------------------------------------------
\* Every variable of each component has its type.
TypeOK ==
  /\ Container!TypeOK /\ Backup!TypeOK /\ Grid!TypeOK
  /\ IF part = "profiles" THEN Profiles!TypeOK ELSE Accounts!TypeOK

\* Operation without loss of data, as long as no kill hits the restore
\* (ContainerStorage; infra/freetier.py:3-4).
NoDataLost == Container!NoDataLost

\* A backup to a fresh path carries every transaction, and a restore to an empty
\* disk brings back what was backed up (take_backup, restore_from_backup).
CopiesAreWhole == []Backup!BackupIsSource /\ Backup!RestoredIsBackup

\* A granted account is missing only if another request ended in the middle of
\* its sign-up (signup, get_db).
LostOnlyToAnotherEnd == part = "accounts" => Accounts!LostOnlyToAnotherEnd

\* The history of a name is every profile that was current, unless two handlers
\* published it at a time (_publish).
HistoryIsWhole == part = "profiles" => Profiles!HistoryIsWhole

\* The caller sees progress and one outcome, the results of all cases by their
\* index or the reason why there are none (run_cases, CaseGridRun), and no case
\* runs after its call has ended (_run_cases_parallel).
KeepsContract == Grid!KeepsContract /\ Grid!NothingRunsOn

\* However often it is killed, the container comes up again
\* (restore_on_startup); every call over cases ends (run_cases), and so does
\* every call of the file store unless its process dies (_update).
Progresses ==
  /\ part = "store" => Store!CallsAreAnswered
  /\ part = "container" => Container!ComesUp
  /\ part = "cases" => Grid!CallEnds
=============================================================================
