----------------------------- MODULE BackupFiles -----------------------------
(***************************************************************************)
(* take_backup and restore_from_backup (infra/backup.py): a SQLite         *)
(* database in WAL mode is the main file and the files beside it, copied   *)
(* one after the other while the engine is stopped.                        *)
(*                                                                         *)
(* The main file holds the transactions that were checkpointed.  A -wal    *)
(* file remembers the main file it extends and what the database contains  *)
(* with it; -shm is its index and goes with it.  A -wal next to any other  *)
(* main file makes nonsense of the database.                               *)
(***************************************************************************)
EXTENDS Integers

CONSTANTS
  MaxCommits,  \* bound on the number of transactions
  MaxBackups,  \* bound on backups and restores
  Reuse        \* whether a backup or a restore may go to a path in use

VARIABLES
  live,      \* the database: [main, wal]
  backup,    \* the backup path: [main, wal]
  engine,    \* "running", "stopped", or copying: "backing up", "restoring"
  commits,   \* transactions committed so far
  copies,    \* backups and restores made so far
  promised   \* history: what the backup should contain

vars == <<live, backup, engine, commits, copies, promised>>

\* The content that no sequence of transactions leaves.
Nonsense == {0}
NoMain == [present |-> FALSE, data |-> {}]
Main(data) == [present |-> TRUE, data |-> data]
NoWal == [present |-> FALSE, base |-> {}, data |-> {}]
Wal(base, data) == [present |-> TRUE, base |-> base, data |-> data]

Content(files) ==
  IF ~files.wal.present THEN files.main.data
  ELSE IF files.wal.base = files.main.data THEN files.wal.data
  ELSE Nonsense

Init ==
  /\ live = [main |-> Main({}), wal |-> NoWal]
  /\ backup = [main |-> NoMain, wal |-> NoWal]
  /\ engine = "running"
  /\ commits = 0 /\ copies = 0
  /\ promised = {}

-----------------------------------------------------------------------------
Commit ==
  /\ engine = "running" /\ live.main.present
  /\ Content(live) # Nonsense
  /\ commits < MaxCommits
  /\ commits' = commits + 1
  /\ live' = [live EXCEPT !.wal = Wal(live.main.data, Content(live) \cup {commits + 1})]
  /\ UNCHANGED <<backup, engine, copies, promised>>

\* SQLite moves the log into the main file and starts a new one, or removes it
\* when the last connection is closed.
Checkpoint ==
  /\ engine = "running" /\ live.wal.present
  /\ live' = [main |-> Main(Content(live)), wal |-> NoWal]
  /\ UNCHANGED <<backup, engine, commits, copies, promised>>

StopOrStart ==
  /\ engine \in {"running", "stopped"}
  /\ engine' = IF engine = "running" THEN "stopped" ELSE "running"
  /\ UNCHANGED <<live, backup, commits, copies, promised>>

\* The disk of a stopped container is gone, log and all.
LoseDisk ==
  /\ engine = "stopped"
  /\ live' = [main |-> NoMain, wal |-> NoWal]
  /\ UNCHANGED <<backup, engine, commits, copies, promised>>

\* take_backup copies the main file first ...
TakeBackup ==
  /\ engine = "stopped" /\ live.main.present
  /\ copies < MaxBackups
  /\ Reuse \/ ~backup.main.present
  /\ copies' = copies + 1
  /\ engine' = "backing up"
  /\ backup' = [backup EXCEPT !.main = live.main]
  /\ promised' = Content(live)
  /\ UNCHANGED <<live, commits>>

\* Variant: the main file is all there is.
CopyMainOnly ==
  /\ engine = "backing up"
  /\ engine' = "stopped"
  /\ UNCHANGED <<live, backup, commits, copies, promised>>

\* ... then the files beside it, those that there are.
CopySideFiles ==
  /\ engine = "backing up"
  /\ engine' = "stopped"
  /\ backup' = IF live.wal.present THEN [backup EXCEPT !.wal = live.wal] ELSE backup
  /\ UNCHANGED <<live, commits, copies, promised>>

\* restore_from_backup; a missing backup is refused.
Restore ==
  /\ engine = "stopped" /\ backup.main.present
  /\ copies < MaxBackups
  /\ Reuse \/ ~live.main.present
  /\ copies' = copies + 1
  /\ engine' = "restoring"
  /\ live' = [live EXCEPT !.main = backup.main]
  /\ UNCHANGED <<backup, commits, promised>>

\* Variant: the side files of the backup are left behind.
RestoreMainOnly ==
  /\ engine = "restoring"
  /\ engine' = "stopped"
  /\ UNCHANGED <<live, backup, commits, copies, promised>>

RestoreSideFiles ==
  /\ engine = "restoring"
  /\ engine' = "stopped"
  /\ live' = IF backup.wal.present THEN [live EXCEPT !.wal = backup.wal] ELSE live
  /\ UNCHANGED <<backup, commits, copies, promised>>

Next ==
  \/ Commit \/ Checkpoint \/ StopOrStart \/ LoseDisk
  \/ TakeBackup \/ CopySideFiles
  \/ Restore \/ RestoreSideFiles

Spec == Init /\ [][Next]_vars

-----------------------------------------------------------------------------
Files ==
  [main : [present : BOOLEAN, data : SUBSET (0 .. MaxCommits)],
   wal : [present : BOOLEAN, base : SUBSET (0 .. MaxCommits), data : SUBSET (0 .. MaxCommits)]]

TypeOK ==
  /\ live \in Files /\ backup \in Files
  /\ engine \in {"running", "stopped", "backing up", "restoring"}
  /\ commits \in 0 .. MaxCommits /\ copies \in 0 .. MaxBackups
  /\ promised \subseteq 0 .. commits

\* A finished backup contains every transaction of the database it was taken
\* from, those that only the -wal holds included (backup.py:27-31).
BackupIsSource ==
  backup.main.present /\ engine # "backing up" => Content(backup) = promised

(***************************************************************************)
(* A finished restore leaves the database the backup was taken from        *)
(* (backup.py:75-84: a restore is checked, never quietly something else).  *)
(***************************************************************************)
RestoredIsBackup ==
  [][engine = "restoring" /\ engine' = "stopped" => Content(live') = promised]_vars
=============================================================================
