-------------------------- MODULE ContainerStorage --------------------------
(***************************************************************************)
(* The database of a free-tier container (infra/freetier.py): the start-up *)
(* hook restores it from the replica when the disk came back empty, and    *)
(* replicate_now copies it to the replica.  The container may be killed at *)
(* any point and may come back with or without its disk.  The replica is   *)
(* FilesystemReplica; its directory survives.                              *)
(*                                                                         *)
(* A database is the set of transactions committed to it.  A file that is  *)
(* being copied is first empty, which SQLite opens as an empty database,   *)
(* then part of a database, then whole.                                    *)
(***************************************************************************)
EXTENDS Integers

CONSTANTS
  MaxCommits,      \* bound on the number of transactions
  MaxKills,        \* bound on the number of times the container is killed
  KillsDuringPull  \* whether a kill may hit the restore

VARIABLES
  db,       \* the database file
  replica,  \* the replica file
  tmp,      \* the file a push writes beside the replica
  pc,       \* where the container is
  commits,  \* transactions committed so far
  kills,    \* times the container was killed
  owed      \* history: transactions that must be there: all of them, except
            \* those not yet pushed when the disk was lost

vars == <<db, replica, tmp, pc, commits, kills, owed>>

NoFile == [kind |-> "none", data |-> {}]
Part == [kind |-> "part", data |-> {}]
Whole(data) == [kind |-> "whole", data |-> data]

Init ==
  /\ db = NoFile /\ replica = NoFile /\ tmp = NoFile
  /\ pc = "down"
  /\ commits = 0 /\ kills = 0
  /\ owed = {}

-----------------------------------------------------------------------------
\* Variant: the replica always wins over the local file.
RestoreAlways ==
  /\ pc = "down"
  /\ IF replica.kind = "none"
     THEN pc' = "up" /\ db' = IF db.kind = "none" THEN Whole({}) ELSE db
     ELSE pc' = "pulling" /\ db' = Whole({})
  /\ UNCHANGED <<replica, tmp, commits, kills, owed>>

\* restore_on_startup: a local file is authoritative; without one the replica
\* is pulled; without a replica the application starts with an empty database.
\* The pull opens its target for writing first.
RestoreOnStartup ==
  /\ pc = "down"
  /\ CASE db.kind # "none" -> pc' = "up" /\ UNCHANGED db
       [] db.kind = "none" /\ replica.kind = "none" -> pc' = "up" /\ db' = Whole({})
       [] OTHER -> pc' = "pulling" /\ db' = Whole({})
  /\ UNCHANGED <<replica, tmp, commits, kills, owed>>

PullHalf ==
  /\ pc = "pulling"
  /\ pc' = "pulled half"
  /\ db' = Part
  /\ UNCHANGED <<replica, tmp, commits, kills, owed>>

PullRest ==
  /\ pc = "pulled half"
  /\ pc' = "up"
  /\ db' = replica
  /\ UNCHANGED <<replica, tmp, commits, kills, owed>>

\* A transaction of the application; a damaged database takes none.
Commit ==
  /\ pc = "up"
  /\ commits < MaxCommits
  /\ db.kind = "whole"
  /\ commits' = commits + 1
  /\ db' = Whole(db.data \cup {commits + 1})
  /\ owed' = owed \cup {commits + 1}
  /\ UNCHANGED <<replica, tmp, pc, kills>>

\* FilesystemReplica.push: copied beside the replica, then renamed over it.
Push ==
  /\ pc = "up"
  /\ pc' = "pushing"
  /\ tmp' = Part
  /\ UNCHANGED <<db, replica, commits, kills, owed>>

PushCopied ==
  /\ pc = "pushing"
  /\ pc' = "pushed"
  /\ tmp' = db
  /\ UNCHANGED <<db, replica, commits, kills, owed>>

PushReplace ==
  /\ pc = "pushed"
  /\ pc' = "up"
  /\ replica' = tmp
  /\ tmp' = NoFile
  /\ UNCHANGED <<db, commits, kills, owed>>

\* The container is stopped; its disk is kept or gone.
Kill ==
  /\ kills < MaxKills
  /\ pc # "down"
  /\ KillsDuringPull \/ pc \notin {"pulling", "pulled half"}
  /\ kills' = kills + 1
  /\ pc' = "down"
  /\ \/ UNCHANGED <<db, owed>>
     \/ db' = NoFile /\ owed' = owed \cap replica.data
  /\ UNCHANGED <<replica, tmp, commits>>

Next ==
  \/ RestoreOnStartup \/ PullHalf \/ PullRest
  \/ Commit
  \/ Push \/ PushCopied \/ PushReplace
  \/ Kill

Spec == Init /\ [][Next]_vars

\* The container is started again and runs its start-up hook, and a push that
\* it began, to the end.
OwnStep == RestoreOnStartup \/ PullHalf \/ PullRest \/ PushCopied \/ PushReplace
FairSpec == Spec /\ WF_vars(OwnStep)

-----------------------------------------------------------------------------
File == [kind : {"none", "part", "whole"}, data : SUBSET (1 .. MaxCommits)]

TypeOK ==
  /\ db \in File /\ replica \in File /\ tmp \in File
  /\ pc \in {"down", "pulling", "pulled half", "up", "pushing", "pushed"}
  /\ commits \in 0 .. MaxCommits /\ kills \in 0 .. MaxKills
  /\ owed \subseteq 1 .. commits

(***************************************************************************)
(* Operation without loss of data on a disk that does not last: whenever   *)
(* the application is up, every transaction is in its database, except     *)
(* those that were not yet replicated when a disk was lost (freetier.py:   *)
(* 3-4; the docstring accepts that exception as the recovery point).       *)
(***************************************************************************)
NoDataLost == pc \in {"up", "pushing", "pushed"} => db.kind = "whole" /\ owed \subseteq db.data

\* However often it is killed, the container comes up again.
ComesUp == []<>(pc = "up")
=============================================================================
