--------------------------- MODULE PlatformProofs ---------------------------
(***************************************************************************)
(* What the platform promises, for any number of transactions, kills,      *)
(* backups, handlers, requests, cases and worker processes: the data of    *)
(* the container, the copies of the database file, the accounts, the       *)
(* history of the regulation profiles and the contract of a run of cases.  *)
(***************************************************************************)
EXTENDS MCPlatform, FiniteSetTheorems, TLAPS

(***************************************************************************)
(* Every step of the platform is a step of the component that runs; the    *)
(* others stay as they are.                                                *)
(***************************************************************************)
LEMMA OneRuns ==
  ASSUME [Next]_vars
  PROVE  /\ [part = "container" /\ Container!Next]_container
         /\ [part = "backup" /\ Backup!Next]_files
         /\ [part = "accounts" /\ Accounts!Next]_accounts
         /\ [part = "profiles" /\ Profiles!Next]_book
  BY DEF Next, vars, container, files, grid, requests, accounts, book, services, store

-----------------------------------------------------------------------------
(***************************************************************************)
(* ContainerStorage: NoDataLost is not inductive.  What is owed must be    *)
(* where the next start will find it: in the database while it is there,   *)
(* in the replica once the disk is lost or while it is pulled, and in the  *)
(* copy that is about to replace the replica.                              *)
(***************************************************************************)
ContainerInv ==
  /\ replica.kind = "whole" \/ replica = Container!NoFile
  /\ pc = "down" =>
       \/ db.kind = "whole" /\ owed \subseteq db.data
       \/ db.kind = "none" /\ owed \subseteq replica.data
  /\ pc \in {"pulling", "pulled half"} => replica.kind = "whole" /\ owed \subseteq replica.data
  /\ pc \in {"up", "pushing", "pushed"} => db.kind = "whole" /\ owed \subseteq db.data
  /\ pc = "pushed" => tmp = db
  /\ pc \in {"down", "pulling", "pulled half", "up", "pushing", "pushed"}

LEMMA ContainerInvInit == Init => ContainerInv
  BY DEF Init, Container!Init, ContainerInv, Container!NoFile

LEMMA ContainerInvNext == ContainerInv /\ [Next]_vars => ContainerInv'
<1> SUFFICES ASSUME ContainerInv, [Next]_vars PROVE ContainerInv'
  OBVIOUS
<1>1. CASE UNCHANGED container
  BY <1>1 DEF container, ContainerInv
<1>2. CASE Container!RestoreOnStartup
  <2>1. UNCHANGED <<replica, tmp, owed>> /\ pc = "down"
    BY <1>2 DEF Container!RestoreOnStartup
  <2>2. CASE db.kind # "none"
    BY <1>2, <2>1, <2>2 DEF Container!RestoreOnStartup, ContainerInv
  <2>3. CASE db.kind = "none" /\ replica.kind = "none"
    BY <1>2, <2>1, <2>3 DEF Container!RestoreOnStartup, ContainerInv, Container!Whole, Container!NoFile
  <2>4. CASE db.kind = "none" /\ replica.kind # "none"
    BY <1>2, <2>1, <2>4 DEF Container!RestoreOnStartup, ContainerInv, Container!Whole, Container!NoFile
  <2> QED BY <2>2, <2>3, <2>4
<1>3. CASE Container!PullHalf \/ Container!PullRest
  BY <1>3 DEF Container!PullHalf, Container!PullRest, ContainerInv
<1>4. CASE Container!Commit
  BY <1>4 DEF Container!Commit, ContainerInv, Container!Whole
<1>5. CASE Container!Push \/ Container!PushCopied \/ Container!PushReplace
  BY <1>5 DEF Container!Push, Container!PushCopied, Container!PushReplace, ContainerInv
<1>6. CASE Container!Kill
  <2>1. pc \in {"up", "pushing", "pushed"} /\ pc' = "down" /\ replica' = replica
    BY <1>6 DEF Container!Kill, ContainerInv
  <2>2. CASE db' = db /\ owed' = owed
    BY <2>1, <2>2 DEF ContainerInv
  <2>3. CASE db' = Container!NoFile /\ owed' = owed \cap replica.data
    <3>1. db'.kind = "none" /\ owed' \subseteq replica'.data
      BY <2>1, <2>3 DEF Container!NoFile
    <3> QED BY <2>1, <3>1 DEF ContainerInv, Container!NoFile
  <2> QED BY <1>6, <2>2, <2>3 DEF Container!Kill
<1> QED BY OneRuns, <1>1, <1>2, <1>3, <1>4, <1>5, <1>6 DEF Container!Next

(***************************************************************************)
(* Operation without loss of data on a disk that does not last (freetier): *)
(* for any number of transactions and kills outside the restore.           *)
(***************************************************************************)
THEOREM ContainerKeepsData == Spec => []NoDataLost
<1>1. ContainerInv => NoDataLost
  BY DEF ContainerInv, NoDataLost, Container!NoDataLost
<1> QED BY <1>1, ContainerInvInit, ContainerInvNext, PTL DEF Spec

-----------------------------------------------------------------------------
(***************************************************************************)
(* BackupFiles: while a copy is under way its source does not change; what *)
(* is not there has no -wal, so that a restore to an empty disk finds none *)
(* of another database.                                                    *)
(***************************************************************************)
BackupInv ==
  /\ engine \in {"running", "stopped", "backing up", "restoring"}
  /\ live = [main |-> live.main, wal |-> live.wal]
  /\ backup = [main |-> backup.main, wal |-> backup.wal]
  /\ ~live.main.present => ~live.wal.present
  /\ ~backup.main.present => ~backup.wal.present
  /\ engine = "backing up" =>
       /\ backup.main = live.main /\ ~backup.wal.present
       /\ backup.main.present /\ Backup!Content(live) = promised
  /\ backup.main.present /\ engine # "backing up" => Backup!Content(backup) = promised
  /\ engine = "restoring" =>
       backup.main.present /\ live.main = backup.main /\ ~live.wal.present

LEMMA BackupInvInit == Init => BackupInv
  BY DEF Init, Backup!Init, BackupInv, Backup!Main, Backup!NoMain, Backup!NoWal

LEMMA BackupInvNext == BackupInv /\ [Next]_vars => BackupInv'
<1> SUFFICES ASSUME BackupInv, [Next]_vars PROVE BackupInv'
  OBVIOUS
<1> USE DEF BackupInv, Backup!Content, Backup!Main, Backup!NoMain, Backup!Wal, Backup!NoWal
<1>1. CASE UNCHANGED files
  BY <1>1 DEF files
<1>2. CASE Backup!Commit
  BY <1>2 DEF Backup!Commit
<1>3. CASE Backup!Checkpoint
  BY <1>3 DEF Backup!Checkpoint
<1>4. CASE Backup!StopOrStart
  BY <1>4 DEF Backup!StopOrStart
<1>5. CASE Backup!LoseDisk
  BY <1>5 DEF Backup!LoseDisk
<1>6. CASE Backup!TakeBackup
  BY <1>6 DEF Backup!TakeBackup
<1>7. CASE Backup!CopySideFiles
  BY <1>7 DEF Backup!CopySideFiles
<1>8. CASE Backup!Restore
  BY <1>8 DEF Backup!Restore
<1>9. CASE Backup!RestoreSideFiles
  BY <1>9 DEF Backup!RestoreSideFiles
<1> QED BY OneRuns, <1>1, <1>2, <1>3, <1>4, <1>5, <1>6, <1>7, <1>8, <1>9 DEF Backup!Next

(***************************************************************************)
(* A backup to a fresh path carries every transaction, those that only the *)
(* -wal holds included, and a restore to an empty disk brings back what    *)
(* was backed up (take_backup, restore_from_backup).                       *)
(***************************************************************************)
THEOREM CopiesCarryAll == Spec => CopiesAreWhole
<1>1. BackupInv => Backup!BackupIsSource
  BY DEF BackupInv, Backup!BackupIsSource
<1>2. BackupInv /\ [Next]_vars =>
        [engine = "restoring" /\ engine' = "stopped" => Backup!Content(live') = promised]_(Backup!vars)
  <2> SUFFICES ASSUME BackupInv, [Next]_vars, engine = "restoring", engine' = "stopped"
               PROVE  Backup!Content(live') = promised \/ UNCHANGED Backup!vars
    OBVIOUS
  <2>1. CASE UNCHANGED files
    BY <2>1 DEF files
  <2>2. CASE Backup!Next
    BY <2>2 DEF Backup!Next, Backup!Commit, Backup!Checkpoint, Backup!StopOrStart, Backup!LoseDisk,
         Backup!TakeBackup, Backup!CopySideFiles, Backup!Restore, Backup!RestoreSideFiles,
         BackupInv, Backup!Content
  <2> QED BY <2>1, <2>2, OneRuns
<1> QED BY <1>1, <1>2, BackupInvInit, BackupInvNext, PTL
        DEF Spec, CopiesAreWhole, Backup!RestoredIsBackup

-----------------------------------------------------------------------------
(***************************************************************************)
(* The handlers of AccountRequests and of RegulationAdmin run in one pool  *)
(* of threads, each component alone.                                       *)
(***************************************************************************)
LEMMA OneServes ==
  ASSUME [Next]_vars
  PROVE  /\ part' = part
         /\ part = "accounts" => [Accounts!Next]_<<requests, accounts>>
         /\ part = "profiles" => [Profiles!Next]_<<requests, book>>
  BY DEF Next, vars, container, files, grid, requests, accounts, book, services, store

(***************************************************************************)
(* AccountRequests: ids are given in order, an id that is committed keeps  *)
(* its address, and an address that is to be granted is in the table of    *)
(* its stage, or was rolled back by the end of another request.            *)
(***************************************************************************)
Table(t) ==
  \E n \in Nat : t = [i \in 1 .. n |-> [email |-> t[i].email, password |-> t[i].password]]

TablesOK ==
  /\ Table(users) /\ Table(committed)
  /\ DOMAIN committed \subseteq DOMAIN users
  /\ \A i \in DOMAIN committed : users[i].email = committed[i].email

SignupsOK ==
  /\ at \in [Threads -> {"idle", "select", "flush", "commit", "close"}]
  /\ asks = [t \in Threads |-> asks[t]]
  /\ reply = [t \in Threads |-> reply[t]]
  /\ \A t \in Threads : asks[t].op = "signup" =>
       /\ at[t] = "commit" => asks[t].email \in Accounts!Addresses(users) \cup undone
       /\ at[t] = "close" /\ reply[t] = "ok" =>
            asks[t].email \in Accounts!Addresses(committed) \cup undone
  /\ Accounts!LostOnlyToAnotherEnd

AccountsInv == part = "accounts" => TablesOK /\ SignupsOK

LEMMA AccountsInvInit == Init => AccountsInv
<1> SUFFICES ASSUME Accounts!Init PROVE TablesOK /\ SignupsOK
  BY DEF Init, AccountsInv
<1>1. Table(users) /\ Table(committed)
  <2>1. users = [i \in 1 .. 0 |-> [email |-> users[i].email, password |-> users[i].password]]
    BY DEF Accounts!Init, Accounts!NoUsers
  <2> QED BY <2>1 DEF Table, Accounts!Init
<1>2. TablesOK
  BY <1>1 DEF Accounts!Init, Accounts!NoUsers, TablesOK
<1>3. SignupsOK
  BY DEF Accounts!Init, SignupsOK, Accounts!LostOnlyToAnotherEnd
<1> QED BY <1>2, <1>3

\* Addresses that are committed are in the table of the connection.
LEMMA CommittedIsSeen ==
  ASSUME TablesOK
  PROVE  Accounts!Addresses(committed) \subseteq Accounts!Addresses(users)
  BY DEF TablesOK, Accounts!Addresses

\* SQLite's next id.
LEMMA NextIdIsNew ==
  ASSUME NEW n \in Nat, Table(users), DOMAIN users = 1 .. n
  PROVE  Accounts!NextId = n + 1
<1>1. CASE n = 0
  <2>1. users = Accounts!NoUsers
    BY <1>1 DEF Table, Accounts!NoUsers
  <2> QED BY <1>1, <2>1 DEF Accounts!NextId
<1>2. CASE n # 0
  <2>1. users # Accounts!NoUsers
    BY <1>2 DEF Accounts!NoUsers
  <2>2. n \in 1 .. n /\ \A y \in 1 .. n : n >= y
    BY <1>2
  <2>3. Accounts!Max(1 .. n) = n
    BY <2>2 DEF Accounts!Max
  <2> QED BY <2>1, <2>3 DEF Accounts!NextId
<1> QED BY <1>1, <1>2

\* The INSERT of a sign-up adds its address; the UPDATE of a password keeps all.
LEMMA FlushKeeps ==
  ASSUME TablesOK, NEW t \in Threads, Accounts!Flush(t),
         at \in [Threads -> {"idle", "select", "flush", "commit", "close"}]
  PROVE  /\ TablesOK'
         /\ Accounts!Addresses(users) \subseteq Accounts!Addresses(users')
         /\ at'[t] = "commit" /\ asks[t].op = "signup" =>
              asks[t].email \in Accounts!Addresses(users')
<1>0. committed' = committed /\ (Table(committed) => Table(committed)') /\ DOMAIN committed \subseteq DOMAIN users
  BY DEF Accounts!Flush, TablesOK
<1>1. CASE UNCHANGED users /\ at'[t] = "close"
  BY <1>1 DEF Accounts!Flush, TablesOK, Table
<1>2. CASE asks[t].op = "signup" /\ users' = [i \in DOMAIN users \cup {Accounts!NextId} |->
             IF i = Accounts!NextId THEN [email |-> asks[t].email, password |-> asks[t].password]
             ELSE users[i]]
  <2>1. PICK n \in Nat : users = [i \in 1 .. n |-> [email |-> users[i].email, password |-> users[i].password]]
    BY DEF TablesOK, Table
  <2>2. Accounts!NextId = n + 1
    BY <2>1, NextIdIsNew DEF TablesOK
  <2>3. DOMAIN users' = 1 .. n + 1 /\ DOMAIN users = 1 .. n
    BY <1>2, <2>1, <2>2
  <2>4. \A i \in 1 .. n : users'[i] = users[i]
    BY <1>2, <2>2, <2>3
  <2>5. users'[n + 1] = [email |-> asks[t].email, password |-> asks[t].password]
    BY <1>2, <2>2, <2>3
  <2>6. Table(users)'
    <3>1. users' = [i \in 1 .. n + 1 |-> [email |-> users'[i].email, password |-> users'[i].password]]
      BY <1>2, <2>1, <2>2, <2>3, <2>4, <2>5
    <3> QED BY <3>1 DEF Table
  <2>7. TablesOK'
    BY <1>0, <2>3, <2>4, <2>6 DEF TablesOK
  <2> QED BY <2>3, <2>4, <2>5, <2>7 DEF Accounts!Addresses
<1>3. CASE asks[t].op = "reset" /\ row[t] \in DOMAIN users /\ users' = [users EXCEPT ![row[t]].password = asks[t].new]
  <2>1. PICK n \in Nat : users = [i \in 1 .. n |-> [email |-> users[i].email, password |-> users[i].password]]
    BY DEF TablesOK, Table
  <2>2. DOMAIN users' = 1 .. n /\ DOMAIN users = 1 .. n
    BY <1>3, <2>1
  <2>3. \A i \in 1 .. n : users'[i].email = users[i].email
    BY <1>3, <2>1
  <2>4. \A i \in 1 .. n : users'[i] = [email |-> users'[i].email, password |-> users'[i].password]
    BY <1>3, <2>1
  <2>5. Table(users)'
    <3>1. users' = [i \in 1 .. n |-> [email |-> users'[i].email, password |-> users'[i].password]]
      BY <1>3, <2>2, <2>4
    <3> QED BY <3>1 DEF Table
  <2>6. TablesOK'
    BY <1>0, <2>2, <2>3, <2>5 DEF TablesOK
  <2> QED BY <1>3, <2>2, <2>3, <2>6 DEF Accounts!Addresses
<1> QED BY <1>1, <1>2, <1>3 DEF Accounts!Flush, Accounts!Answer

LEMMA AccountsInvNext == AccountsInv /\ [Next]_vars => AccountsInv'
<1> SUFFICES ASSUME TablesOK, SignupsOK, [Accounts!Next]_<<requests, accounts>>
             PROVE  TablesOK' /\ SignupsOK'
  BY OneServes DEF AccountsInv
<1>1. CASE UNCHANGED <<requests, accounts>>
  <2>1. TablesOK'
    BY <1>1 DEF accounts, TablesOK
  <2>2. SignupsOK'
    BY <1>1 DEF requests, accounts, SignupsOK, Accounts!LostOnlyToAnotherEnd
  <2> QED BY <2>1, <2>2
<1>2. ASSUME NEW t \in Threads, NEW a \in Accounts!Asks, Accounts!Begin(t, a)
      PROVE  TablesOK' /\ SignupsOK'
  <2>1. UNCHANGED <<users, committed, reply, granted, undone>>
    BY <1>2 DEF Accounts!Begin
  <2>2. TablesOK'
    BY <2>1 DEF TablesOK
  <2>3. SignupsOK'
    BY <1>2, <2>1 DEF Accounts!Begin, SignupsOK, Accounts!LostOnlyToAnotherEnd
  <2> QED BY <2>2, <2>3
<1>3. ASSUME NEW t \in Threads, Accounts!Select(t)
      PROVE  TablesOK' /\ SignupsOK'
  <2>1. UNCHANGED <<users, committed, asks, granted, undone>>
    BY <1>3 DEF Accounts!Select
  <2>2. TablesOK'
    BY <2>1 DEF TablesOK
  <2>3. \/ /\ at' = [at EXCEPT ![t] = "close"]
           /\ \E r : reply' = [reply EXCEPT ![t] = r] /\ (asks[t].op = "signup" => r = "taken")
        \/ at' = [at EXCEPT ![t] = "flush"] /\ reply' = reply
    BY <1>3 DEF Accounts!Select, Accounts!Answer
  <2>4. SignupsOK'
    BY <2>1, <2>3 DEF SignupsOK, Accounts!LostOnlyToAnotherEnd
  <2> QED BY <2>2, <2>4
<1>4. ASSUME NEW t \in Threads, Accounts!Flush(t)
      PROVE  TablesOK' /\ SignupsOK'
  <2>1. /\ TablesOK'
        /\ Accounts!Addresses(users) \subseteq Accounts!Addresses(users')
        /\ at'[t] = "commit" /\ asks[t].op = "signup" =>
             asks[t].email \in Accounts!Addresses(users')
    BY <1>4, FlushKeeps DEF SignupsOK
  <2>2. /\ UNCHANGED <<committed, asks, granted, undone>>
        /\ \/ at' = [at EXCEPT ![t] = "commit"] /\ reply' = reply
           \/ at' = [at EXCEPT ![t] = "close"] /\ reply' = [reply EXCEPT ![t] = "error"]
    BY <1>4 DEF Accounts!Flush, Accounts!Answer
  <2>3. SignupsOK'
    BY <2>1, <2>2 DEF SignupsOK, Accounts!LostOnlyToAnotherEnd
  <2> QED BY <2>1, <2>3
<1>5. ASSUME NEW t \in Threads, Accounts!Commit(t)
      PROVE  TablesOK' /\ SignupsOK'
  <2>1. TablesOK'
    BY <1>5 DEF Accounts!Commit, TablesOK, Table
  <2>2. Accounts!Addresses(committed) \subseteq Accounts!Addresses(users)
    BY CommittedIsSeen
  <2>3. SignupsOK'
    BY <1>5, <2>2 DEF SignupsOK, Accounts!Commit, Accounts!Answer, Accounts!LostOnlyToAnotherEnd
  <2> QED BY <2>1, <2>3
<1>6. ASSUME NEW t \in Threads, Accounts!Close(t)
      PROVE  TablesOK' /\ SignupsOK'
  <2>1. TablesOK'
    BY <1>6 DEF Accounts!Close, TablesOK, Table
  <2>2. undone \subseteq undone' /\ users' = committed /\ committed' = committed
    BY <1>6 DEF Accounts!Close
  <2>3. \A o \in Threads \ {t} :
          at[o] = "commit" /\ asks[o].op = "signup" =>
            asks[o].email \in Accounts!Addresses(users') \cup undone'
    <3> SUFFICES ASSUME NEW o \in Threads \ {t}, at[o] = "commit", asks[o].op = "signup",
                        asks[o].email \notin undone
                 PROVE  asks[o].email \in Accounts!Addresses(users') \cup undone'
      BY <2>2
    <3>1. PICK j \in DOMAIN users : users[j].email = asks[o].email
      BY DEF SignupsOK, Accounts!Addresses
    <3>2. CASE j \in DOMAIN committed
      BY <2>2, <3>1, <3>2 DEF TablesOK, Accounts!Addresses
    <3>3. CASE j \notin DOMAIN committed
      BY <1>6, <3>1, <3>3 DEF Accounts!Close
    <3> QED BY <3>2, <3>3
  <2>4. SignupsOK'
    <3>1. \A o \in Threads \ {t} : at'[o] = at[o] /\ asks'[o] = asks[o] /\ reply'[o] = reply[o]
      BY <1>6 DEF Accounts!Close, SignupsOK
    <3>2. at'[t] = "idle"
      BY <1>6 DEF Accounts!Close, SignupsOK
    <3>3. /\ at' \in [Threads -> {"idle", "select", "flush", "commit", "close"}]
          /\ asks' = [o \in Threads |-> asks'[o]]
          /\ reply' = [o \in Threads |-> reply'[o]]
      BY <1>6 DEF Accounts!Close, SignupsOK
    <3>4. granted' \subseteq Accounts!Addresses(committed) \cup undone'
      BY <1>6, <2>2 DEF Accounts!Close, SignupsOK, Accounts!LostOnlyToAnotherEnd
    <3> QED BY <2>2, <2>3, <3>1, <3>2, <3>3, <3>4 DEF SignupsOK, Accounts!LostOnlyToAnotherEnd
  <2> QED BY <2>1, <2>4
<1> QED BY <1>1, <1>2, <1>3, <1>4, <1>5, <1>6 DEF Accounts!Next

(***************************************************************************)
(* A granted account is missing only if another request ended between the  *)
(* INSERT of its sign-up and the COMMIT (signup, get_db): whatever the     *)
(* handlers do, duplicates and changes of password lose none.              *)
(***************************************************************************)
THEOREM AccountsLost == Spec => []LostOnlyToAnotherEnd
<1>1. AccountsInv => LostOnlyToAnotherEnd
  BY DEF AccountsInv, SignupsOK, LostOnlyToAnotherEnd
<1> QED BY <1>1, AccountsInvInit, AccountsInvNext, PTL DEF Spec

-----------------------------------------------------------------------------
(***************************************************************************)
(* RegulationAdmin: HistoryIsWhole is about names nobody is publishing.    *)
(* While one handler is, and it is the only one, the history lacks its     *)
(* profile and nothing else, and what the handler read is the history.     *)
(***************************************************************************)
Book == [Names -> Seq(Profiles!Profile)]

BookOK ==
  /\ profiles \in [Names -> Profiles!Profile \cup {Profiles!NoProfile}]
  /\ histories \in Book /\ published \in Book
  /\ at \in [Threads -> {"idle", "require", "publish", "history", "record"}]
  /\ draft \in [Threads -> Profiles!Profile \cup {Profiles!NoProfile}]
  /\ past \in [Threads -> Seq(Profiles!Profile)]
  /\ asks = [h \in Threads |-> asks[h]]
  /\ \A h \in Threads :
       /\ at[h] = "require" => asks[h] \in Profiles!Asks
       /\ at[h] \in {"publish", "history", "record"} => draft[h] \in Profiles!Profile

Alone(n) ==
  /\ \A h, g \in Profiles!Publishing(n) : h = g
  /\ \A h \in Profiles!Publishing(n) :
       /\ published[n] = Append(histories[n], draft[h])
       /\ profiles[n] = draft[h]
       /\ at[h] = "record" => past[h] = histories[n]
  /\ Profiles!Publishing(n) = {} =>
       /\ histories[n] = published[n]
       /\ profiles[n] = IF histories[n] = <<>> THEN Profiles!NoProfile
                        ELSE Profiles!Last(histories[n])

ProfilesInv == part = "profiles" => BookOK /\ \A n \in Names \ raced : Alone(n)

LEMMA ProfilesInvInit == Init => ProfilesInv
<1> SUFFICES ASSUME Profiles!Init PROVE BookOK /\ \A n \in Names \ raced : Alone(n)
  BY DEF Init, ProfilesInv
<1>1. BookOK
  BY DEF Profiles!Init, BookOK, Book
<1>2. \A n \in Names : Alone(n)
  BY DEF Profiles!Init, Alone, Profiles!Publishing
<1> QED BY <1>1, <1>2

\* The draft of a request is a profile under a name of the request.
LEMMA DraftIsProfile ==
  ASSUME BookOK, NEW h \in Threads, Profiles!Require(h)
  PROVE  \/ at' = [at EXCEPT ![h] = "idle"] /\ draft' = draft
         \/ /\ at' = [at EXCEPT ![h] = "publish"]
            /\ \E p \in Profiles!Profile : draft' = [draft EXCEPT ![h] = p]
<1> DEFINE a == asks[h]
           source == IF a.op = "clone" THEN a.source ELSE a.name
           entries == profiles[source].entries
           new == CASE a.op = "create" -> {}
                    [] a.op = "clone"  -> entries
                    [] a.op = "upsert" -> Profiles!Upserted(entries, a.item)
           holds == /\ a.admin
                    /\ a.op # "create" => profiles[source] # Profiles!NoProfile
                    /\ a.op = "clone" => a.name # a.source
<1>1. a \in Profiles!Asks
  BY DEF BookOK, Profiles!Require
<1>2. a.name \in Names /\ a.version \in Versions /\ a.op \in {"create", "clone", "upsert"}
  BY <1>1 DEF Profiles!Asks
<1>3. (a.op = "clone" => a.source \in Names) /\ (a.op = "upsert" => a.item \in Items)
  BY <1>1 DEF Profiles!Asks
<1>4. source \in Names
  BY <1>2, <1>3
<1>5. ASSUME holds PROVE new \subseteq Items
  <2>1. CASE a.op = "create"
    BY <2>1
  <2>2. CASE a.op # "create"
    <3>1. entries \subseteq Items
      BY <1>4, <1>5, <2>2 DEF BookOK, Profiles!Profile
    <3>2. CASE a.op = "clone"
      BY <3>1, <3>2
    <3>3. CASE a.op = "upsert"
      BY <1>3, <3>1, <3>3 DEF Profiles!Upserted
    <3> QED BY <1>2, <2>2, <3>2, <3>3
  <2> QED BY <2>1, <2>2
<1> DEFINE made == [name |-> a.name, version |-> a.version, entries |-> new]
<1>6. holds => made \in Profiles!Profile
  BY <1>2, <1>5 DEF Profiles!Profile
<1>7. \/ at' = [at EXCEPT ![h] = "idle"] /\ draft' = draft
      \/ holds /\ at' = [at EXCEPT ![h] = "publish"] /\ draft' = [draft EXCEPT ![h] = made]
  BY DEF Profiles!Require
<1> QED BY <1>6, <1>7

LEMMA ProfilesInvNext == ProfilesInv /\ [Next]_vars => ProfilesInv'
<1> SUFFICES ASSUME BookOK, \A n \in Names \ raced : Alone(n), [Profiles!Next]_<<requests, book>>
             PROVE  BookOK' /\ \A n \in Names \ raced' : Alone(n)'
  BY OneServes DEF ProfilesInv
<1>1. CASE UNCHANGED <<requests, book>>
  BY <1>1 DEF requests, book, BookOK, Book, Alone, Profiles!Publishing
<1>2. ASSUME NEW h \in Threads, NEW a \in Profiles!Asks, Profiles!Begin(h, a)
      PROVE  BookOK' /\ \A n \in Names \ raced' : Alone(n)'
  <2>1. BookOK'
    BY <1>2 DEF Profiles!Begin, BookOK, Book
  <2>2. \A n \in Names : Profiles!Publishing(n)' = Profiles!Publishing(n)
    BY <1>2 DEF Profiles!Begin, BookOK, Profiles!Publishing
  <2>3. \A n \in Names \ raced' : Alone(n)'
    BY <1>2, <2>2 DEF Profiles!Begin, BookOK, Alone, Profiles!Publishing
  <2> QED BY <2>1, <2>3
<1>3. ASSUME NEW h \in Threads, Profiles!Require(h)
      PROVE  BookOK' /\ \A n \in Names \ raced' : Alone(n)'
  <2>1. /\ UNCHANGED <<profiles, histories, past, calls, published, raced>>
        /\ at[h] = "require" /\ asks' = [asks EXCEPT ![h] = Profiles!AnyAsk]
    BY <1>3 DEF Profiles!Require
  <2>2. \/ at' = [at EXCEPT ![h] = "idle"] /\ draft' = draft
        \/ /\ at' = [at EXCEPT ![h] = "publish"]
           /\ \E p \in Profiles!Profile : draft' = [draft EXCEPT ![h] = p]
    BY <1>3, DraftIsProfile
  <2>3. BookOK'
    BY <2>1, <2>2 DEF BookOK, Book
  <2>4. /\ at'[h] \notin {"history", "record"} /\ at[h] \notin {"history", "record"}
        /\ \A g \in Threads \ {h} : at'[g] = at[g] /\ draft'[g] = draft[g]
    BY <2>1, <2>2 DEF BookOK
  <2>5. \A n \in Names : Profiles!Publishing(n)' = Profiles!Publishing(n)
    BY <2>4 DEF Profiles!Publishing
  <2>6. \A n \in Names \ raced' : Alone(n)'
    BY <2>1, <2>4, <2>5 DEF Alone, Profiles!Publishing
  <2> QED BY <2>3, <2>6
<1>4. ASSUME NEW h \in Threads, Profiles!Publish(h)
      PROVE  BookOK' /\ \A n \in Names \ raced' : Alone(n)'
  <2> DEFINE n == draft[h].name
  <2>1. /\ at[h] = "publish" /\ at' = [at EXCEPT ![h] = "history"]
        /\ profiles' = [profiles EXCEPT ![n] = draft[h]]
        /\ published' = [published EXCEPT ![n] = Append(@, draft[h])]
        /\ raced' = IF Profiles!Publishing(n) = {} THEN raced ELSE raced \cup {n}
        /\ UNCHANGED <<histories, asks, draft, past, calls>>
    BY <1>4 DEF Profiles!Publish
  <2>2. draft[h] \in Profiles!Profile /\ n \in Names
    BY <2>1 DEF BookOK, Profiles!Profile
  <2>3. BookOK'
    <3>1. published' \in Book
      BY <2>1, <2>2 DEF BookOK, Book
    <3> QED BY <2>1, <2>2, <3>1 DEF BookOK
  <2>4. Profiles!Publishing(n)' = Profiles!Publishing(n) \cup {h}
    BY <2>1 DEF BookOK, Profiles!Publishing
  <2>5. \A m \in Names \ {n} : Profiles!Publishing(m)' = Profiles!Publishing(m)
    BY <2>1 DEF BookOK, Profiles!Publishing
  <2>6. ASSUME NEW m \in Names \ raced', m # n PROVE Alone(m)'
    <3>1. Alone(m)
      BY <2>1, <2>6
    <3>2. h \notin Profiles!Publishing(m)
      BY <2>1 DEF Profiles!Publishing
    <3>3. profiles'[m] = profiles[m] /\ published'[m] = published[m] /\ histories' = histories
      BY <2>1, <2>6 DEF BookOK, Book
    <3>4. \A g \in Profiles!Publishing(m) : at'[g] = at[g] /\ draft' = draft /\ past' = past
      BY <2>1, <3>2 DEF BookOK, Profiles!Publishing
    <3> QED BY <2>5, <2>6, <3>1, <3>3, <3>4 DEF Alone
  <2>7. ASSUME n \notin raced' PROVE Alone(n)'
    <3>1. Profiles!Publishing(n) = {} /\ Alone(n)
      BY <2>1, <2>2, <2>7
    <3>2. published'[n] = Append(histories[n], draft[h]) /\ profiles'[n] = draft[h]
      BY <2>1, <2>2, <3>1 DEF Alone, BookOK, Book
    <3>3. at'[h] # "record" /\ Profiles!Publishing(n)' = {h} /\ draft' = draft /\ histories' = histories
      BY <2>1, <2>4, <3>1 DEF BookOK
    <3>4. n' = n
      BY <2>1
    <3> QED BY <3>2, <3>3, <3>4 DEF Alone
  <2>8. n' = n
    BY <2>1
  <2> QED BY <2>3, <2>6, <2>7, <2>8
<1>5. ASSUME NEW h \in Threads, Profiles!ReadHistory(h)
      PROVE  BookOK' /\ \A n \in Names \ raced' : Alone(n)'
  <2>1. /\ at[h] = "history" /\ at' = [at EXCEPT ![h] = "record"]
        /\ past' = [past EXCEPT ![h] = histories[draft[h].name]]
        /\ UNCHANGED <<profiles, histories, asks, draft, calls, published, raced>>
    BY <1>5 DEF Profiles!ReadHistory
  <2>2. draft[h].name \in Names
    BY <2>1 DEF BookOK, Profiles!Profile
  <2>3. BookOK'
    BY <2>1, <2>2 DEF BookOK, Book
  <2>4. \A n \in Names : Profiles!Publishing(n)' = Profiles!Publishing(n)
    BY <2>1 DEF BookOK, Profiles!Publishing
  <2>5. ASSUME NEW n \in Names \ raced' PROVE Alone(n)'
    <3>1. Alone(n)
      BY <2>1
    <3>2. \A g \in Profiles!Publishing(n) :
            at'[g] = "record" => past'[g] = histories[n]
      BY <2>1, <3>1 DEF Alone, BookOK, Profiles!Publishing
    <3> QED BY <2>1, <2>4, <3>1, <3>2 DEF Alone
  <2> QED BY <2>3, <2>5
<1>6. ASSUME NEW h \in Threads, Profiles!Record(h)
      PROVE  BookOK' /\ \A n \in Names \ raced' : Alone(n)'
  <2> DEFINE n == draft[h].name
  <2>1. /\ at[h] = "record" /\ at' = [at EXCEPT ![h] = "idle"]
        /\ histories' = [histories EXCEPT ![n] = Append(past[h], draft[h])]
        /\ draft' = [draft EXCEPT ![h] = Profiles!NoProfile]
        /\ past' = [past EXCEPT ![h] = <<>>]
        /\ UNCHANGED <<profiles, asks, calls, published, raced>>
    BY <1>6 DEF Profiles!Record
  <2>2. draft[h] \in Profiles!Profile /\ n \in Names /\ past[h] \in Seq(Profiles!Profile)
    BY <2>1 DEF BookOK, Profiles!Profile
  <2>3. BookOK'
    <3>1. histories' \in Book
      BY <2>1, <2>2 DEF BookOK, Book
    <3>2. draft' \in [Threads -> Profiles!Profile \cup {Profiles!NoProfile}]
      BY <2>1 DEF BookOK
    <3>3. past' \in [Threads -> Seq(Profiles!Profile)]
      BY <2>1 DEF BookOK
    <3> QED BY <2>1, <3>1, <3>2, <3>3 DEF BookOK
  <2>4. \A m \in Names : Profiles!Publishing(m)' = Profiles!Publishing(m) \ {h}
    BY <2>1 DEF BookOK, Profiles!Publishing
  <2>5. ASSUME NEW m \in Names \ raced', m # n PROVE Alone(m)'
    <3>1. Alone(m)
      BY <2>1
    <3>2. h \notin Profiles!Publishing(m)
      BY <2>5 DEF Profiles!Publishing
    <3>3. histories'[m] = histories[m] /\ profiles' = profiles /\ published' = published
      BY <2>1, <2>5 DEF BookOK, Book
    <3>4. \A g \in Profiles!Publishing(m) : at'[g] = at[g] /\ draft'[g] = draft[g] /\ past'[g] = past[g]
      BY <2>1, <3>2 DEF BookOK, Profiles!Publishing
    <3> QED BY <2>4, <2>5, <3>1, <3>2, <3>3, <3>4 DEF Alone
  <2>6. ASSUME n \notin raced' PROVE \A m \in {n} : Alone(m)'
    <3> SUFFICES ASSUME NEW m, m = n PROVE Alone(m)'
      OBVIOUS
    <3>1. Alone(m) /\ h \in Profiles!Publishing(m)
      BY <2>1, <2>2, <2>6 DEF Profiles!Publishing
    <3>2. Profiles!Publishing(m)' = {}
      BY <2>2, <2>4, <3>1 DEF Alone
    <3>3. /\ published[m] = Append(histories[m], draft[h])
          /\ profiles[m] = draft[h] /\ past[h] = histories[m]
      BY <2>1, <3>1 DEF Alone
    <3>4. histories'[m] = Append(past[h], draft[h])
      BY <2>1, <2>2 DEF BookOK, Book
    <3>5. histories'[m] # <<>> /\ Profiles!Last(histories'[m]) = draft[h]
      BY <2>2, <3>4 DEF Profiles!Last
    <3> QED BY <2>1, <3>2, <3>3, <3>4, <3>5 DEF Alone
  <2> QED BY <2>3, <2>5, <2>6
<1> QED BY <1>1, <1>2, <1>3, <1>4, <1>5, <1>6 DEF Profiles!Next

(***************************************************************************)
(* No version of a profile that was current is missing from the history of *)
(* its name, and its last one is current, unless two handlers published    *)
(* the name at a time (_publish, ProfileHistory), for any handlers, names  *)
(* and requests.                                                           *)
(***************************************************************************)
THEOREM HistoryKept == Spec => []HistoryIsWhole
<1>1. ProfilesInv => HistoryIsWhole
  BY DEF ProfilesInv, Alone, HistoryIsWhole, Profiles!HistoryIsWhole
<1> QED BY <1>1, ProfilesInvInit, ProfilesInvNext, PTL DEF Spec
-----------------------------------------------------------------------------
(***************************************************************************)
(* CaseGridExecution: sorting by index is a choice, so the first lemmas    *)
(* show that there is exactly one way to sort.  The rank of a case is the  *)
(* number of cases below it; a sequence that increases has every case at   *)
(* its rank, and the ranks give one that increases.                        *)
(***************************************************************************)
\* The members of S below x.
Below(S, x) == {y \in S : y < x}

LEMMA BelowGrows ==
  ASSUME NEW S, IsFiniteSet(S), S \subseteq Nat, NEW x \in S, NEW y \in S, x < y
  PROVE  /\ Cardinality(Below(S, x)) \in Nat /\ Cardinality(Below(S, y)) \in Nat
         /\ Cardinality(Below(S, x)) < Cardinality(Below(S, y))
<1> DEFINE A == Below(S, x)
           B == Below(S, y)
<1>1. A \subseteq S /\ B \subseteq S /\ x \notin A /\ A \cup {x} \subseteq B
  <2>1. \A z \in S : z \in Nat
    OBVIOUS
  <2>2. x \in Nat /\ y \in Nat
    OBVIOUS
  <2>3. \A z \in Nat : z < x => z < y
    BY <2>2
  <2>4. A \subseteq S /\ B \subseteq S /\ A \subseteq Nat
    BY <2>1 DEF Below
  <2>5. x \notin A
    BY <2>2 DEF Below
  <2>6. x \in B
    BY DEF Below
  <2>7. ASSUME NEW z \in A PROVE z \in B
    <3>1. z \in Nat /\ z \in S /\ z < x
      BY <2>1 DEF Below
    <3>2. z < y
      BY <2>3, <3>1
    <3> QED BY <3>1, <3>2 DEF Below
  <2> QED BY <2>4, <2>5, <2>6, <2>7
<1> HIDE DEF A, B
<1>2. IsFiniteSet(A) /\ IsFiniteSet(B)
  BY <1>1, FS_Subset
<1>3. Cardinality(A) \in Nat /\ Cardinality(B) \in Nat
  BY <1>2, FS_CardinalityType
<1>4. Cardinality(A \cup {x}) = Cardinality(A) + 1
  BY <1>1, <1>2, FS_AddElement
<1>5. Cardinality(A \cup {x}) <= Cardinality(B)
  BY <1>1, <1>2, FS_Subset
<1> QED BY <1>3, <1>4, <1>5 DEF A, B

LEMMA BelowRange ==
  ASSUME NEW S, IsFiniteSet(S), S \subseteq Nat, NEW x \in S
  PROVE  Cardinality(Below(S, x)) \in 0 .. Cardinality(S) - 1
<1> DEFINE A == Below(S, x)
<1>1. A \subseteq S /\ x \notin A
  BY DEF Below
<1> HIDE DEF A
<1>2. IsFiniteSet(A) /\ Cardinality(A) <= Cardinality(S) /\ Cardinality(A) # Cardinality(S)
  BY <1>1, FS_Subset
<1>3. Cardinality(A) \in Nat /\ Cardinality(S) \in Nat
  BY <1>2, FS_CardinalityType
<1> QED BY <1>2, <1>3 DEF A

\* n numbers in increasing order.
Increasing(t, n, S) ==
  t \in [1 .. n -> S] /\ \A i, j \in 1 .. n : i < j => t[i] < t[j]

\* Each member of S is listed once.
ListsOnce(t, n, S) ==
  /\ \A k, l \in 1 .. n : t[k] = t[l] => k = l
  /\ \A x \in S : \E k \in 1 .. n : t[k] = x

\* An increasing list of as many numbers as S has lists each of them once.
LEMMA IncreasingListsAll ==
  ASSUME NEW n \in Nat, NEW S, S \subseteq Nat, IsFiniteSet(S), Cardinality(S) = n,
         NEW t, Increasing(t, n, S)
  PROVE  ListsOnce(t, n, S)
<1>1. \A k, l \in 1 .. n : t[k] = t[l] => k = l
  <2>1. \A k \in 1 .. n : t[k] \in Nat
    BY DEF Increasing
  <2>2. ASSUME NEW k \in 1 .. n, NEW l \in 1 .. n, t[k] = t[l] PROVE k = l
    <3>1. ~(t[k] < t[l]) /\ ~(t[l] < t[k])
      BY <2>1, <2>2
    <3> QED BY <3>1 DEF Increasing
  <2> QED BY <2>2
<1>2. t \in Injection(1 .. n, S)
  BY <1>1 DEF Injection, IsInjective, Increasing
<1>3. IsFiniteSet(1 .. n) /\ Cardinality(1 .. n) = n
  BY FS_Interval
<1>4. t \in Surjection(1 .. n, S)
  BY <1>2, <1>3, FS_Injection
<1> QED BY <1>1, <1>4 DEF Surjection, ListsOnce

\* In an increasing list of all members of S, i - 1 of them are below the i-th.
LEMMA IncreasingRanks ==
  ASSUME NEW n \in Nat, NEW S, S \subseteq Nat, IsFiniteSet(S), Cardinality(S) = n,
         NEW t, Increasing(t, n, S), NEW i \in 1 .. n
  PROVE  Cardinality(Below(S, t[i])) = i - 1
<1>1. /\ \A k, l \in 1 .. n : t[k] = t[l] => k = l
      /\ \A x \in S : \E k \in 1 .. n : t[k] = x
  <2>1. ListsOnce(t, n, S)
    BY IncreasingListsAll
  <2> QED BY <2>1 DEF ListsOnce
<1> DEFINE B == Below(S, t[i])
           f == [k \in 1 .. i - 1 |-> t[k]]
<1>5. f \in Bijection(1 .. i - 1, B)
  <2>1. f \in [1 .. i - 1 -> B]
    BY DEF Below, Increasing
  <2>2. \A k, l \in 1 .. i - 1 : f[k] = f[l] => k = l
    BY <1>1
  <2>3. ASSUME NEW y \in B PROVE \E k \in 1 .. i - 1 : f[k] = y
    <3>1. PICK k \in 1 .. n : t[k] = y
      BY <1>1 DEF Below
    <3>2. t[k] < t[i] /\ t[k] \in Nat /\ t[i] \in Nat
      BY <3>1 DEF Below, Increasing
    <3>3. ~(i <= k)
      BY <3>2 DEF Increasing
    <3>4. k \in 1 .. i - 1
      BY <3>3
    <3> QED BY <3>1, <3>4
  <2> QED BY <2>1, <2>2, <2>3 DEF Bijection, Injection, IsInjective, Surjection
<1>6. ExistsBijection(1 .. i - 1, B) /\ i - 1 \in Nat
  BY <1>5 DEF ExistsBijection
<1> QED BY <1>6, FS_CountingElements

LEMMA IncreasingOnce ==
  ASSUME NEW n \in Nat, NEW S, S \subseteq Nat, IsFiniteSet(S), Cardinality(S) = n,
         NEW t, Increasing(t, n, S), NEW u, Increasing(u, n, S)
  PROVE  t = u
<1>1. ASSUME NEW i \in 1 .. n PROVE t[i] = u[i]
  <2>1. Cardinality(Below(S, t[i])) = i - 1 /\ Cardinality(Below(S, u[i])) = i - 1
    BY IncreasingRanks, ZenonT(30)
  <2>2. t[i] \in S /\ u[i] \in S /\ t[i] \in Nat /\ u[i] \in Nat
    BY DEF Increasing
  <2>3. \A x, y \in S : x < y => Cardinality(Below(S, x)) < Cardinality(Below(S, y))
    BY BelowGrows
  <2>4. ~(t[i] < u[i]) /\ ~(u[i] < t[i])
    <3> DEFINE x == t[i]
               y == u[i]
    <3>1. x \in S /\ y \in S /\ Cardinality(Below(S, x)) = i - 1 /\ Cardinality(Below(S, y)) = i - 1
      BY <2>1, <2>2
    <3> HIDE DEF x, y
    <3>2. ~(x < y) /\ ~(y < x)
      <4>1. x < y => i - 1 < i - 1
        BY <2>3, <3>1
      <4>2. y < x => i - 1 < i - 1
        BY <2>3, <3>1
      <4> QED BY <4>1, <4>2
    <3> QED BY <3>2 DEF x, y
  <2> QED BY <2>2, <2>4
<1> QED BY <1>1 DEF Increasing

LEMMA IncreasingExists ==
  ASSUME NEW n \in Nat, NEW S, S \subseteq Nat, IsFiniteSet(S), Cardinality(S) = n
  PROVE  \E t : Increasing(t, n, S)
<1> DEFINE R == [x \in S |-> Cardinality(Below(S, x))]
           t == [i \in 1 .. n |-> CHOOSE x \in S : R[x] = i - 1]
<1>1. R \in Injection(S, 0 .. n - 1)
  <2>1. R \in [S -> 0 .. n - 1]
    BY BelowRange
  <2>2. ASSUME NEW x \in S, NEW y \in S, R[x] = R[y] PROVE x = y
    <3>0. Cardinality(Below(S, x)) = Cardinality(Below(S, y)) /\ Cardinality(Below(S, x)) \in Nat
      <4>1. Cardinality(Below(S, x)) = Cardinality(Below(S, y))
        BY <2>2
      <4>2. Cardinality(Below(S, x)) \in 0 .. n - 1
        BY BelowRange
      <4> QED BY <4>1, <4>2
    <3>1. x < y => Cardinality(Below(S, x)) < Cardinality(Below(S, y))
      BY BelowGrows
    <3>2. y < x => Cardinality(Below(S, y)) < Cardinality(Below(S, x))
      BY BelowGrows
    <3>3. x \in Nat /\ y \in Nat
      OBVIOUS
    <3> QED BY <3>0, <3>1, <3>2, <3>3
  <2> HIDE DEF R
  <2> QED BY <2>1, <2>2 DEF Injection, IsInjective
<1>2. IsFiniteSet(0 .. n - 1) /\ Cardinality(0 .. n - 1) = n
  <2> DEFINE b == n - 1
  <2>1. 0 \in Int /\ b \in Int /\ (IF 0 > b THEN 0 ELSE b - 0 + 1) = n
    OBVIOUS
  <2> HIDE DEF b
  <2>2. IsFiniteSet(0 .. b) /\ Cardinality(0 .. b) = IF 0 > b THEN 0 ELSE b - 0 + 1
    BY <2>1, FS_Interval
  <2>3. IsFiniteSet(0 .. b) /\ Cardinality(0 .. b) = n
    BY <2>1, <2>2
  <2> QED BY <2>3 DEF b
<1>3. R \in Surjection(S, 0 .. n - 1)
  BY <1>1, <1>2, FS_Injection
<1>4. \A i \in 1 .. n : t[i] \in S /\ R[t[i]] = i - 1
  <2> SUFFICES ASSUME NEW i \in 1 .. n PROVE t[i] \in S /\ R[t[i]] = i - 1
    OBVIOUS
  <2>1. i - 1 \in 0 .. n - 1
    OBVIOUS
  <2>2. \E x \in S : R[x] = i - 1
    BY <1>3, <2>1 DEF Surjection
  <2> QED BY <2>2
<1>5. ASSUME NEW i \in 1 .. n, NEW j \in 1 .. n, i < j PROVE t[i] < t[j]
  <2>1. R[t[i]] = i - 1 /\ R[t[j]] = j - 1 /\ t[i] \in S /\ t[j] \in S
    BY <1>4
  <2> HIDE DEF t
  <2>2. ~(t[j] < t[i])
    <3>1. t[j] < t[i] => Cardinality(Below(S, t[j])) < Cardinality(Below(S, t[i]))
      BY <2>1, BelowGrows
    <3> QED BY <1>5, <2>1, <3>1
  <2>3. t[j] # t[i]
    BY <1>5, <2>1
  <2>4. t[i] \in Nat /\ t[j] \in Nat
    BY <2>1
  <2> QED BY <2>2, <2>3, <2>4
<1>6. t \in [1 .. n -> S]
  BY <1>4
<1> HIDE DEF t
<1>7. Increasing(t, n, S)
  BY <1>5, <1>6 DEF Increasing
<1> QED BY <1>7

\* The cases of a call: numbers, no two the same.
LEMMA CaseCount ==
  ASSUME NEW s \in Seq(Nat), Grid!IsInjective(s)
  PROVE  /\ Grid!ToSet(s) \subseteq Nat /\ IsFiniteSet(Grid!ToSet(s))
         /\ Cardinality(Grid!ToSet(s)) = Len(s)
<1>1. Grid!ToSet(s) \subseteq Nat
  BY DEF Grid!ToSet
<1>2. s \in Bijection(1 .. Len(s), Grid!ToSet(s))
  BY DEF Grid!ToSet, Grid!IsInjective, Bijection, Injection, IsInjective, Surjection
<1>3. ExistsBijection(1 .. Len(s), Grid!ToSet(s)) /\ Len(s) \in Nat
  BY <1>2 DEF ExistsBijection
<1>4. IsFiniteSet(1 .. Len(s))
  BY <1>3, FS_Interval
<1> QED BY <1>1, <1>3, <1>4, FS_CountingElements, FS_Bijection

(***************************************************************************)
(* Sorting: what ByIndex chooses exists, and is the same for any two       *)
(* orders of the same cases.                                               *)
(***************************************************************************)
LEMMA Sorted ==
  ASSUME NEW s \in Seq(Nat), Grid!IsInjective(s)
  PROVE  /\ Increasing(Grid!ByIndex(s), Len(s), Grid!ToSet(s))
         /\ Grid!ByIndex(s) \in Seq(Nat) /\ Len(Grid!ByIndex(s)) = Len(s)
<1> DEFINE n == Len(s)
           S == Grid!ToSet(s)
           P(t) == \A i, j \in 1 .. n : i < j => t[i] < t[j]
<1>1. n \in Nat /\ S \subseteq Nat /\ IsFiniteSet(S) /\ Cardinality(S) = n
  BY CaseCount
<1>2. Grid!ByIndex(s) = CHOOSE t \in [1 .. n -> S] : P(t)
  BY DEF Grid!ByIndex
<1> HIDE DEF n, S
<1>3. \E t \in [1 .. n -> S] : P(t)
  BY <1>1, IncreasingExists DEF Increasing
<1> HIDE DEF P
<1>4. Grid!ByIndex(s) \in [1 .. n -> S] /\ P(Grid!ByIndex(s))
  BY <1>2, <1>3
<1>5. Grid!ByIndex(s) \in Seq(Nat) /\ Len(Grid!ByIndex(s)) = n
  <2> DEFINE t == Grid!ByIndex(s)
  <2>1. t \in [1 .. n -> Nat]
    BY <1>1, <1>4
  <2> HIDE DEF t
  <2>2. t \in Seq(Nat) /\ DOMAIN t = 1 .. n
    BY <1>1, <2>1
  <2>3. Len(t) = n
    BY <1>1, <2>2
  <2> QED BY <2>2, <2>3 DEF t
<1> QED BY <1>4, <1>5 DEF Increasing, P, n, S

LEMMA SortedOnce ==
  ASSUME NEW s \in Seq(Nat), Grid!IsInjective(s), NEW r \in Seq(Nat), Grid!IsInjective(r),
         Grid!ToSet(r) = Grid!ToSet(s)
  PROVE  Len(r) = Len(s) /\ Grid!ByIndex(r) = Grid!ByIndex(s)
<1>1. /\ Len(s) \in Nat /\ Len(r) = Len(s)
      /\ Grid!ToSet(s) \subseteq Nat /\ IsFiniteSet(Grid!ToSet(s)) /\ Cardinality(Grid!ToSet(s)) = Len(s)
  BY CaseCount
<1>2. /\ Increasing(Grid!ByIndex(s), Len(s), Grid!ToSet(s))
      /\ Increasing(Grid!ByIndex(r), Len(s), Grid!ToSet(s))
  BY <1>1, Sorted
<1> QED BY <1>1, <1>2, IncreasingOnce

\* The cases of the call in progress.
Count == Len(input)
InOrder == Grid!ByIndex(input)

LEMMA OrderFacts ==
  ASSUME input \in Seq(Nat), Grid!IsInjective(input)
  PROVE  /\ Count \in Nat /\ Grid!Cases \subseteq Nat /\ IsFiniteSet(Grid!Cases)
         /\ Cardinality(Grid!Cases) = Count
         /\ InOrder \in Seq(Nat) /\ Len(InOrder) = Count
         /\ \A k \in 1 .. Count : InOrder[k] \in Grid!Cases
         /\ \A k, l \in 1 .. Count : InOrder[k] = InOrder[l] => k = l
         /\ \A c \in Grid!Cases : \E k \in 1 .. Count : InOrder[k] = c
<1>1. /\ Count \in Nat /\ Grid!Cases \subseteq Nat /\ IsFiniteSet(Grid!Cases)
      /\ Cardinality(Grid!Cases) = Count
  BY CaseCount DEF Count, Grid!Cases
<1>2. /\ Increasing(InOrder, Count, Grid!Cases)
      /\ InOrder \in Seq(Nat) /\ Len(InOrder) = Count
  BY Sorted DEF Count, Grid!Cases, InOrder
<1>3. /\ \A k, l \in 1 .. Count : InOrder[k] = InOrder[l] => k = l
      /\ \A c \in Grid!Cases : \E k \in 1 .. Count : InOrder[k] = c
  <2> DEFINE n == Count
             S == Grid!Cases
             t == InOrder
  <2>1. n \in Nat /\ S \subseteq Nat /\ IsFiniteSet(S) /\ Cardinality(S) = n /\ Increasing(t, n, S)
    BY <1>1, <1>2
  <2> HIDE DEF n, S, t
  <2>2. ListsOnce(t, n, S)
    BY <2>1, IncreasingListsAll
  <2> QED BY <2>2 DEF ListsOnce, n, S, t
<1> QED BY <1>1, <1>2, <1>3 DEF Increasing

Begun == {"queued", "running"}
Over == {"done", "failed", "broken"}
Permitted == Len(input) <= Threshold \/ confirmed
Broken == deaths > 0 \/ Grid!InState("failed") # {}

CallOK ==
  /\ input \in Seq(Nat) /\ Grid!IsInjective(input)
  /\ work \in [Grid!Cases -> {"none"} \cup Begun \cup Over]
  /\ deaths \in Nat /\ \A c \in Grid!Cases : work[c] = "broken" => deaths > 0
  /\ call \in {"begin", "next", "running", "submit", "collect", "exit", "end"}
  /\ results \in Seq(Grid!Cases) /\ reported = Len(results)
  /\ call = "begin" => results = <<>> /\ \A c \in Grid!Cases : work[c] = "none"
  /\ call # "begin" => ordered = InOrder
  /\ call \in {"exit", "end"} <=> ending # "none"

EndingOK ==
  /\ ending \in {"none", "results", "cancelled", "failed", "refused"}
  /\ ending = "refused" => call = "end" /\ ~Permitted /\ results = <<>>
  /\ call # "begin" /\ ending # "refused" => Permitted
  /\ ending = "cancelled" => stop
  /\ ending = "failed" => Broken
  /\ ending = "results" => Len(results) = Count /\ Grid!ToSet(results) = Grid!Cases
  /\ ending = "results" /\ call = "end" => results = InOrder
  /\ call = "end" => \A c \in Grid!Cases : work[c] \notin Begun

SequentialOK ==
  ~parallel =>
    /\ call \in {"begin", "next", "running", "end"}
    /\ Len(results) <= Count /\ \A k \in 1 .. Len(results) : results[k] = InOrder[k]
    /\ call = "running" => Len(results) < Count
    /\ \A c \in Grid!Cases :
         /\ work[c] # "queued"
         /\ work[c] = "running" => call = "running" /\ c = InOrder[Len(results) + 1]
         /\ work[c] = "failed" => call = "end"

ParallelOK ==
  parallel =>
    /\ call \in {"begin", "submit", "collect", "exit", "end"}
    /\ queue \in Seq(Grid!Cases) /\ Grid!IsInjective(queue)
    /\ \A k \in 1 .. Len(queue) : work[queue[k]] = "queued"
    /\ Grid!IsInjective(results)
    /\ batch \subseteq Grid!Cases /\ batch \cap Grid!ToSet(results) = {}
    /\ taken \subseteq Grid!Ended
    /\ call \in {"begin", "submit"} => results = <<>> /\ batch = {} /\ taken = {}
    /\ call = "submit" =>
         \E m \in 0 .. Count : \A k \in 1 .. Count : work[InOrder[k]] = "none" <=> k > m
    /\ call = "collect" => batch \cup Grid!ToSet(results) = taken

GridInv == CallOK /\ EndingOK /\ SequentialOK /\ ParallelOK

\* A failed case stays failed.
FailedStay == \A c \in Grid!Cases : work[c] = "failed" => work'[c] = "failed"

LEMMA GridInvInit == Init => GridInv
<1> SUFFICES ASSUME Init PROVE GridInv
  OBVIOUS
<1>1. /\ input \in Seq(Nat) /\ Grid!IsInjective(input)
      /\ call = "begin" /\ ordered = <<>> /\ queue = <<>> /\ results = <<>>
      /\ work = [c \in Grid!Cases |-> "none"] /\ batch = {} /\ taken = {}
      /\ reported = 0 /\ deaths = 0 /\ stop = FALSE /\ ending = "none"
  BY CasesAssumption DEF Init, Grid!Init, Grid!Cases
<1>2. CallOK
  BY <1>1 DEF CallOK
<1>3. EndingOK
  BY <1>1 DEF EndingOK
<1>4. Grid!ToSet(<<>>) = {} /\ Grid!IsInjective(<<>>)
  BY DEF Grid!ToSet, Grid!IsInjective
<1>5. SequentialOK /\ ParallelOK
  <2>1. Count \in Nat
    BY <1>1 DEF Count
  <2> QED BY <1>1, <1>4, <2>1 DEF SequentialOK, ParallelOK
<1> QED BY <1>2, <1>3, <1>5 DEF GridInv

-----------------------------------------------------------------------------
LEMMA CardinalityIsCardinality == \A S : Grid!Cardinality(S) = Cardinality(S)
  BY Zenon DEF Grid!Cardinality, Cardinality

LEMMA BeginKeeps == GridInv /\ Grid!Begin => GridInv'
<1> SUFFICES ASSUME GridInv, Grid!Begin PROVE GridInv'
  OBVIOUS
<1> USE DEF GridInv
<1>1. /\ call = "begin" /\ ordered' = InOrder /\ results = <<>>
      /\ UNCHANGED <<input, bad, parallel, confirmed, queue, work, deaths, batch, taken, results, reported, stop>>
      /\ InOrder' = InOrder /\ Count' = Count /\ Grid!Cases' = Grid!Cases /\ Permitted' = Permitted
      /\ \A c \in Grid!Cases : work[c] = "none"
  BY DEF Grid!Begin, Grid!call, Grid!pool, CallOK, InOrder, Count, Grid!Cases, Permitted
<1>2. \/ ~Permitted /\ ending' = "refused" /\ call' = "end"
      \/ /\ Permitted /\ ending' = ending /\ ending = "none"
         /\ call' = IF parallel THEN "submit" ELSE "next"
  BY <1>1, OrderFacts, CasesAssumption DEF Grid!Begin, Permitted, CallOK, Count
<1>3. CallOK'
  BY <1>1, <1>2 DEF CallOK
<1>4. EndingOK'
  BY <1>1, <1>2 DEF EndingOK, Begun
<1>5. SequentialOK'
  BY <1>1, <1>2 DEF SequentialOK
<1>6. ParallelOK'
  <2>1. Count \in Nat /\ \A k \in 1 .. Count : InOrder[k] \in Grid!Cases
    BY OrderFacts DEF CallOK
  <2>2. \A k \in 1 .. Count : work[InOrder[k]] = "none" <=> k > 0
    BY <1>1, <2>1
  <2>3. 0 \in 0 .. Count
    BY <2>1
  <2>4. Grid!Ended' = Grid!Ended /\ Grid!ToSet(results)' = Grid!ToSet(results)
    BY <1>1 DEF Grid!Ended, Grid!InState
  <2> QED BY <1>1, <1>2, <2>1, <2>2, <2>3, <2>4 DEF ParallelOK
<1> QED BY <1>3, <1>4, <1>5, <1>6

LEMMA RunNextKeeps == GridInv /\ Grid!RunNext => GridInv' /\ FailedStay
<1> SUFFICES ASSUME GridInv, Grid!RunNext PROVE GridInv' /\ FailedStay
  OBVIOUS
<1> USE DEF GridInv
<1>1. /\ call = "next" /\ ~parallel /\ ordered = InOrder /\ ending = "none"
      /\ UNCHANGED <<input, bad, parallel, confirmed, queue, deaths, ordered, batch, taken, results, reported, stop>>
      /\ InOrder' = InOrder /\ Count' = Count /\ Grid!Cases' = Grid!Cases /\ Permitted' = Permitted
  BY DEF Grid!RunNext, Grid!call, CallOK, ParallelOK, InOrder, Count, Grid!Cases, Permitted
<1>2. /\ Count \in Nat /\ Len(InOrder) = Count
      /\ \A k \in 1 .. Count : InOrder[k] \in Grid!Cases
      /\ \A k, l \in 1 .. Count : InOrder[k] = InOrder[l] => k = l
      /\ \A c \in Grid!Cases : \E k \in 1 .. Count : InOrder[k] = c
      /\ Len(results) \in Nat
  BY OrderFacts DEF CallOK
<1>3. \A c \in Grid!Cases : work[c] \notin Begun
  BY <1>1 DEF SequentialOK, CallOK, Begun
<1> DEFINE next == InOrder[Len(results) + 1]
<1>4. \/ /\ Len(results) = Count /\ ending' = "results" /\ call' = "end" /\ work' = work
      \/ /\ stop /\ ending' = "cancelled" /\ call' = "end" /\ work' = work
      \/ /\ Len(results) < Count /\ ending' = "none" /\ call' = "running"
         /\ work' = [work EXCEPT ![next] = "running"]
  BY <1>1, <1>2 DEF Grid!RunNext, Grid!End
<1>5. Len(results) < Count => next \in Grid!Cases
  BY <1>2
<1> HIDE DEF next
<1>6. CallOK'
  BY <1>1, <1>4, <1>5 DEF CallOK, Begun
<1>7. EndingOK'
  <2>1. Len(results) = Count => results = InOrder /\ Grid!ToSet(results) = Grid!Cases
    <3> SUFFICES ASSUME Len(results) = Count PROVE results = InOrder /\ Grid!ToSet(results) = Grid!Cases
      OBVIOUS
    <3>1. \A k \in 1 .. Count : results[k] = InOrder[k]
      BY <1>1 DEF SequentialOK
    <3>2. results \in Seq(Nat) /\ InOrder \in Seq(Nat)
      BY OrderFacts DEF CallOK
    <3>3. results = InOrder
      BY <1>2, <3>1, <3>2
    <3>4. Grid!ToSet(InOrder) = Grid!Cases
      BY <1>2, <3>2 DEF Grid!ToSet
    <3> QED BY <3>3, <3>4
  <2>2. Grid!ToSet(results)' = Grid!ToSet(results)
    BY <1>1
  <2> QED BY <1>1, <1>3, <1>4, <2>1, <2>2 DEF EndingOK
<1>8. SequentialOK'
  <2>1. ASSUME NEW c \in Grid!Cases
        PROVE  /\ work'[c] # "queued" /\ work'[c] # "failed"
               /\ work'[c] = "running" => call' = "running" /\ c = next
    <3>1. work[c] # "queued" /\ work[c] # "running" /\ work[c] # "failed"
      BY <1>1, <1>3 DEF Begun, SequentialOK
    <3> QED BY <1>4, <1>5, <3>1 DEF CallOK
  <2> QED BY <1>1, <1>2, <1>4, <2>1 DEF SequentialOK, next
<1>9. ParallelOK'
  BY <1>1 DEF ParallelOK
<1>10. FailedStay
  BY <1>1 DEF FailedStay, SequentialOK
<1> QED BY <1>6, <1>7, <1>8, <1>9, <1>10

LEMMA RunnerKeeps == GridInv /\ Grid!RunnerReturns => GridInv' /\ FailedStay
<1> SUFFICES ASSUME GridInv, Grid!RunnerReturns PROVE GridInv' /\ FailedStay
  OBVIOUS
<1> USE DEF GridInv
<1>1. /\ call = "running" /\ ~parallel /\ ordered = InOrder /\ ending = "none"
      /\ UNCHANGED <<input, bad, parallel, confirmed, queue, deaths, ordered, batch, taken, stop>>
      /\ InOrder' = InOrder /\ Count' = Count /\ Grid!Cases' = Grid!Cases /\ Permitted' = Permitted
  BY DEF Grid!RunnerReturns, Grid!call, CallOK, ParallelOK, InOrder, Count, Grid!Cases, Permitted
<1>2. /\ Count \in Nat /\ Len(InOrder) = Count
      /\ \A k \in 1 .. Count : InOrder[k] \in Grid!Cases
      /\ Len(results) \in Nat /\ Len(results) < Count
  BY <1>1, OrderFacts DEF CallOK, SequentialOK
<1> DEFINE next == InOrder[Len(results) + 1]
<1>3. /\ next \in Grid!Cases
      /\ \A c \in Grid!Cases : work[c] # "queued" /\ (work[c] = "running" => c = next)
  BY <1>1, <1>2 DEF SequentialOK
<1>4. \/ /\ work' = [work EXCEPT ![next] = "failed"] /\ ending' = "failed" /\ call' = "end"
         /\ UNCHANGED <<results, reported>>
      \/ /\ work' = [work EXCEPT ![next] = "done"] /\ results' = Append(results, next)
         /\ reported' = Len(results) + 1 /\ call' = "next" /\ ending' = ending
  BY <1>1 DEF Grid!RunnerReturns, Grid!End, Grid!Collect
<1>0. \A k \in 1 .. Len(results) + 1 : k \in 1 .. Len(results) \/ k = Len(results) + 1
  BY <1>2
<1>5. Append(results, next) \in Seq(Grid!Cases) /\ Len(Append(results, next)) = Len(results) + 1
      /\ \A k \in 1 .. Len(results) + 1 : Append(results, next)[k] = InOrder[k]
  <2>1. results \in Seq(Grid!Cases) /\ \A k \in 1 .. Len(results) : results[k] = InOrder[k]
    BY <1>1 DEF CallOK, SequentialOK
  <2> HIDE DEF next
  <2>2. /\ Append(results, next) \in Seq(Grid!Cases) /\ Len(Append(results, next)) = Len(results) + 1
        /\ Append(results, next)[Len(results) + 1] = next
        /\ \A k \in 1 .. Len(results) : Append(results, next)[k] = results[k]
    BY <1>3, <2>1
  <2> QED BY <1>0, <2>1, <2>2 DEF next
<1> HIDE DEF next
<1>6. \A c \in Grid!Cases : work'[c] \notin Begun
  BY <1>3, <1>4 DEF CallOK, Begun
<1>7. CallOK'
  BY <1>1, <1>3, <1>4, <1>5 DEF CallOK, Over
<1>8. EndingOK'
  <2>1. ending' = "failed" => Broken'
    BY <1>1, <1>3, <1>4 DEF Broken, Grid!InState, CallOK
  <2> QED BY <1>1, <1>4, <1>6, <2>1 DEF EndingOK, CallOK
<1>9. SequentialOK'
  <2>1. \A c \in Grid!Cases : work'[c] = "failed" => call' = "end"
    BY <1>1, <1>3, <1>4 DEF CallOK, SequentialOK
  <2> QED BY <1>1, <1>2, <1>4, <1>5, <1>6, <2>1 DEF SequentialOK, Begun
<1>10. ParallelOK'
  BY <1>1 DEF ParallelOK
<1>11. FailedStay
  BY <1>1 DEF FailedStay, SequentialOK
<1> QED BY <1>7, <1>8, <1>9, <1>10, <1>11

LEMMA SubmitKeeps == GridInv /\ Grid!Submit => GridInv' /\ FailedStay
<1> SUFFICES ASSUME GridInv, Grid!Submit PROVE GridInv' /\ FailedStay
  OBVIOUS
<1> USE DEF GridInv
<1>1. /\ call = "submit" /\ parallel /\ ordered = InOrder /\ ending = "none"
      /\ results = <<>> /\ batch = {} /\ taken = {}
      /\ UNCHANGED <<input, bad, parallel, confirmed, deaths, ordered, results, reported, stop>>
      /\ InOrder' = InOrder /\ Count' = Count /\ Grid!Cases' = Grid!Cases /\ Permitted' = Permitted
      /\ Grid!ToSet(results)' = Grid!ToSet(results)
  BY DEF Grid!Submit, Grid!call, CallOK, SequentialOK, ParallelOK, InOrder, Count, Grid!Cases, Permitted
<1>2. /\ Count \in Nat /\ Len(InOrder) = Count
      /\ \A k \in 1 .. Count : InOrder[k] \in Grid!Cases
      /\ \A k, l \in 1 .. Count : InOrder[k] = InOrder[l] => k = l
      /\ \A c \in Grid!Cases : \E k \in 1 .. Count : InOrder[k] = c
  BY OrderFacts DEF CallOK
<1>3. PICK m \in 0 .. Count : \A k \in 1 .. Count : work[InOrder[k]] = "none" <=> k > m
  BY <1>1 DEF ParallelOK
\* As many cases are submitted as the first that is not says.
<1>4. Grid!Cardinality(Grid!Cases \ Grid!InState("none")) = m
  <2> DEFINE T == Grid!Cases \ Grid!InState("none")
             f == [k \in 1 .. m |-> InOrder[k]]
  <2>0. \A k \in 1 .. m : k \in 1 .. Count
    BY <1>2
  <2>1. \A k \in 1 .. m : InOrder[k] \in T
    <3> SUFFICES ASSUME NEW k \in 1 .. m PROVE InOrder[k] \in T
      OBVIOUS
    <3>1. k \in 1 .. Count /\ ~(k > m)
      BY <2>0
    <3>2. InOrder[k] \in Grid!Cases /\ work[InOrder[k]] # "none"
      BY <1>2, <1>3, <3>1
    <3> QED BY <3>2 DEF Grid!InState
  <2>2. ASSUME NEW c \in T PROVE \E k \in 1 .. m : f[k] = c
    <3>1. c \in Grid!Cases /\ work[c] # "none"
      BY DEF Grid!InState
    <3>2. PICK k \in 1 .. Count : InOrder[k] = c
      BY <1>2, <3>1
    <3>3. ~(k > m)
      BY <1>3, <3>1, <3>2
    <3>4. k \in 1 .. m
      BY <3>3
    <3> QED BY <3>2, <3>4
  <2> HIDE DEF T
  <2>3. f \in [1 .. m -> T]
    BY <2>1
  <2>4. \A k, l \in 1 .. m : f[k] = f[l] => k = l
    BY <1>2, <2>0
  <2> HIDE DEF f
  <2>5. f \in Bijection(1 .. m, T)
    BY <2>2, <2>3, <2>4 DEF Bijection, Injection, IsInjective, Surjection
  <2>6. ExistsBijection(1 .. m, T) /\ m \in Nat
    BY <2>5 DEF ExistsBijection
  <2>7. Cardinality(T) = m
    BY <2>6, FS_CountingElements
  <2> QED BY <2>7, CardinalityIsCardinality DEF T
<1> DEFINE next == InOrder[m + 1]
<1>5. \/ /\ call' = "collect" /\ batch' = Grid!Ended /\ taken' = Grid!Ended
         /\ UNCHANGED <<queue, work, ending>>
      \/ /\ m < Count /\ queue' = Append(queue, next) /\ work' = [work EXCEPT ![next] = "queued"]
         /\ UNCHANGED <<call, batch, taken, ending>>
      \/ /\ ending' = IF stop THEN "cancelled" ELSE "failed"
         /\ stop \/ deaths > 0
         /\ call' = "exit"
         /\ UNCHANGED <<queue, work, batch, taken>>
  BY <1>1, <1>2, <1>4 DEF Grid!Submit, Grid!End
<1>6. m < Count => next \in Grid!Cases /\ work[next] = "none" /\ m + 1 \in 1 .. Count
  <2> SUFFICES ASSUME m < Count PROVE next \in Grid!Cases /\ work[next] = "none" /\ m + 1 \in 1 .. Count
    OBVIOUS
  <2>1. m + 1 \in 1 .. Count /\ m + 1 > m
    BY <1>2
  <2> QED BY <1>2, <1>3, <2>1
<1> HIDE DEF next
<1>7. CallOK'
  BY <1>1, <1>5, <1>6 DEF CallOK, Begun
<1>8. EndingOK'
  <2>1. deaths > 0 => Broken'
    BY <1>1 DEF Broken
  <2> QED BY <1>1, <1>5, <2>1 DEF EndingOK, CallOK
<1>9. SequentialOK'
  BY <1>1 DEF SequentialOK
<1>10. ParallelOK'
  <2>1. Grid!Ended' \in SUBSET Grid!Cases /\ Grid!Ended \subseteq Grid!Cases /\ Grid!ToSet(results) = {}
    BY <1>1 DEF Grid!Ended, Grid!InState, Grid!ToSet
  <2>2. CASE /\ call' = "collect" /\ batch' = Grid!Ended /\ taken' = Grid!Ended
             /\ UNCHANGED <<queue, work, ending>>
    <3>1. Grid!Ended' = Grid!Ended
      BY <1>1, <2>2 DEF Grid!Ended, Grid!InState
    <3> QED BY <1>1, <2>1, <2>2, <3>1 DEF ParallelOK
  <2>3. CASE /\ call' = "exit" /\ UNCHANGED <<queue, work, batch, taken>>
    <3>1. Grid!Ended' = Grid!Ended
      BY <1>1, <2>3 DEF Grid!Ended, Grid!InState
    <3> QED BY <1>1, <2>3, <3>1 DEF ParallelOK
  <2>4. CASE /\ m < Count /\ queue' = Append(queue, next) /\ work' = [work EXCEPT ![next] = "queued"]
             /\ UNCHANGED <<call, batch, taken, ending>>
    <3>1. /\ queue \in Seq(Grid!Cases) /\ \A k \in 1 .. Len(queue) : work[queue[k]] = "queued"
          /\ \A k, l \in 1 .. Len(queue) : queue[k] = queue[l] => k = l
      BY <1>1 DEF ParallelOK, Grid!IsInjective
    <3>2. /\ queue' \in Seq(Grid!Cases) /\ Len(queue') = Len(queue) + 1 /\ queue'[Len(queue) + 1] = next
          /\ \A k \in 1 .. Len(queue) : queue'[k] = queue[k] /\ queue[k] \in Grid!Cases
          /\ Len(queue) \in Nat /\ DOMAIN queue' = 1 .. Len(queue) + 1
      BY <1>6, <2>4, <3>1
    <3>3. \A k \in 1 .. Len(queue) : queue[k] # next
      BY <1>6, <2>4, <3>1
    <3>4. \A k \in 1 .. Len(queue) + 1 : k \in 1 .. Len(queue) \/ k = Len(queue) + 1
      BY <3>2
    <3>5. Grid!IsInjective(queue')
      BY <3>1, <3>2, <3>3, <3>4 DEF Grid!IsInjective
    <3>6. \A c \in Grid!Cases : work'[c] = IF c = next THEN "queued" ELSE work[c]
      BY <2>4 DEF CallOK
    <3>7. \A k \in 1 .. Len(queue') : work'[queue'[k]] = "queued"
      BY <1>6, <2>4, <3>1, <3>2, <3>3, <3>4, <3>6
    <3>8. m + 1 \in 0 .. Count /\ \A k \in 1 .. Count : work'[InOrder[k]] = "none" <=> k > m + 1
      <4>1. m + 1 \in 0 .. Count /\ m + 1 \in 1 .. Count
        BY <1>2, <2>4
      <4> SUFFICES ASSUME NEW k \in 1 .. Count PROVE work'[InOrder[k]] = "none" <=> k > m + 1
        BY <4>1
      <4>2. CASE k = m + 1
        BY <1>2, <3>6, <4>2 DEF next
      <4>3. CASE k # m + 1
        <5>1. InOrder[k] # next
          BY <1>2, <4>1, <4>3 DEF next
        <5>2. k > m + 1 <=> k > m
          BY <4>3
        <5> QED BY <1>2, <1>3, <3>6, <5>1, <5>2
      <4> QED BY <4>2, <4>3
    <3>9. /\ call' = "submit" /\ results' = <<>> /\ batch' = {} /\ taken' = {} /\ parallel'
          /\ Grid!IsInjective(results')
      BY <1>1, <2>4 DEF Grid!IsInjective
    <3>10. \E n \in 0 .. Count' : \A k \in 1 .. Count' : work'[InOrder'[k]] = "none" <=> k > n
      BY <1>1, <3>8
    <3>11. queue' \in Seq(Grid!Cases')
      BY <1>1, <3>2
    <3> HIDE DEF GridInv
    <3> QED BY <3>5, <3>7, <3>9, <3>10, <3>11 DEF ParallelOK
  <2> QED BY <1>5, <2>2, <2>3, <2>4
<1>11. FailedStay
  BY <1>5, <1>6 DEF FailedStay, CallOK
<1> QED BY <1>7, <1>8, <1>9, <1>10, <1>11

LEMMA NextBatchKeeps == GridInv /\ Grid!NextBatch => GridInv'
<1> SUFFICES ASSUME GridInv, Grid!NextBatch PROVE GridInv'
  OBVIOUS
<1> USE DEF GridInv
<1>1. /\ call = "collect" /\ parallel /\ batch = {} /\ batch' = Grid!Ended \ taken /\ taken' = Grid!Ended
      /\ UNCHANGED <<input, bad, parallel, confirmed, call, queue, work, deaths, ordered, results, reported, stop, ending>>
      /\ InOrder' = InOrder /\ Count' = Count /\ Grid!Cases' = Grid!Cases /\ Permitted' = Permitted
      /\ Grid!ToSet(results)' = Grid!ToSet(results) /\ Broken' = Broken
      /\ Grid!Ended' = Grid!Ended /\ Grid!Ended \subseteq Grid!Cases
  BY DEF Grid!NextBatch, Grid!call, Grid!pool, CallOK, SequentialOK, ParallelOK, InOrder, Count,
     Grid!Cases, Permitted, Broken, Grid!Ended, Grid!InState
<1>2. CallOK'
  BY <1>1 DEF CallOK
<1>3. EndingOK'
  BY <1>1 DEF EndingOK
<1>4. SequentialOK'
  BY <1>1 DEF SequentialOK
<1>5. ParallelOK'
  BY <1>1 DEF ParallelOK
<1> QED BY <1>2, <1>3, <1>4, <1>5

\* No call collects more results than it has cases.
LEMMA CollectedAtMost ==
  ASSUME CallOK, NEW r \in Seq(Grid!Cases), Grid!IsInjective(r)
  PROVE  /\ Len(r) \in Nat /\ Len(r) <= Count /\ r \in Seq(Nat)
         /\ Grid!ToSet(r) \subseteq Grid!Cases
         /\ Grid!ToSet(r) = Grid!Cases => Len(r) = Count
<1>1. /\ Count \in Nat /\ Grid!Cases \subseteq Nat /\ IsFiniteSet(Grid!Cases)
      /\ Cardinality(Grid!Cases) = Count
  BY OrderFacts DEF CallOK
<1>2. r \in Seq(Nat)
  <2>1. Grid!Cases \subseteq Nat
    BY <1>1
  <2>2. r \in Seq(Grid!Cases)
    OBVIOUS
  <2> DEFINE S == Grid!Cases
  <2> HIDE DEF S
  <2>3. r \in Seq(S) /\ S \subseteq Nat
    BY <2>1, <2>2 DEF S
  <2>4. Len(r) \in Nat /\ r \in [1 .. Len(r) -> S]
    BY <2>3
  <2>5. r \in [1 .. Len(r) -> Nat]
    BY <2>3, <2>4
  <2> QED BY <2>4, <2>5
<1>3. Grid!ToSet(r) \subseteq Grid!Cases
  BY DEF Grid!ToSet
<1>4. Cardinality(Grid!ToSet(r)) = Len(r) /\ Len(r) \in Nat
  BY <1>2, CaseCount
<1>5. Cardinality(Grid!ToSet(r)) <= Cardinality(Grid!Cases)
  BY <1>1, <1>3, FS_Subset
<1> QED BY <1>1, <1>2, <1>3, <1>4, <1>5

\* One more result of a case whose future was handed out.
LEMMA CollectOne ==
  ASSUME GridInv, parallel, call = "collect", NEW c \in batch
  PROVE  LET r == Append(results, c)
         IN  /\ r \in Seq(Grid!Cases) /\ Grid!IsInjective(r) /\ Len(r) = Len(results) + 1
             /\ Grid!ToSet(r) = Grid!ToSet(results) \cup {c}
             /\ Len(results) + 1 <= Count
<1> DEFINE r == Append(results, c)
<1>1. /\ results \in Seq(Grid!Cases) /\ c \in Grid!Cases /\ c \notin Grid!ToSet(results)
      /\ \A k, l \in 1 .. Len(results) : results[k] = results[l] => k = l
  BY DEF GridInv, CallOK, ParallelOK, Grid!IsInjective
<1>2. /\ r \in Seq(Grid!Cases) /\ Len(r) = Len(results) + 1 /\ r[Len(results) + 1] = c
      /\ \A k \in 1 .. Len(results) : r[k] = results[k]
      /\ Len(results) \in Nat /\ DOMAIN r = 1 .. Len(results) + 1 /\ DOMAIN results = 1 .. Len(results)
  BY <1>1
<1>3. \A k \in 1 .. Len(results) : results[k] # c
  BY <1>1, <1>2 DEF Grid!ToSet
<1>4. \A k \in 1 .. Len(results) + 1 : k \in 1 .. Len(results) \/ k = Len(results) + 1
  BY <1>2
<1> HIDE DEF r
<1>5. Grid!IsInjective(r)
  BY <1>1, <1>2, <1>3, <1>4 DEF Grid!IsInjective
<1>6. Grid!ToSet(r) = Grid!ToSet(results) \cup {c}
  <2>1. Grid!ToSet(r) \subseteq Grid!ToSet(results) \cup {c}
    BY <1>2, <1>4 DEF Grid!ToSet
  <2>2. \A k \in 1 .. Len(results) : k \in 1 .. Len(results) + 1
    BY <1>2
  <2>3. Len(results) + 1 \in 1 .. Len(results) + 1
    BY <1>2
  <2>4. c \in Grid!ToSet(r)
    BY <1>2, <2>3 DEF Grid!ToSet
  <2>5. Grid!ToSet(results) \subseteq Grid!ToSet(r)
    BY <1>2, <2>2 DEF Grid!ToSet
  <2> QED BY <2>1, <2>4, <2>5
<1>7. Len(r) <= Count
  BY <1>2, <1>5, CollectedAtMost DEF GridInv
<1> QED BY <1>2, <1>5, <1>6, <1>7 DEF r

LEMMA TakeResultKeeps == GridInv /\ Grid!TakeResult => GridInv'
<1> SUFFICES ASSUME GridInv, Grid!TakeResult PROVE GridInv'
  OBVIOUS
<1>1. /\ call = "collect" /\ parallel /\ ending = "none" /\ ordered = InOrder
      /\ UNCHANGED <<input, bad, parallel, confirmed, queue, work, deaths, ordered, taken, stop>>
      /\ InOrder' = InOrder /\ Count' = Count /\ Grid!Cases' = Grid!Cases /\ Permitted' = Permitted
      /\ Broken' = Broken /\ Grid!Ended' = Grid!Ended /\ Grid!Ended \subseteq Grid!Cases
  BY DEF Grid!TakeResult, Grid!call, Grid!pool, GridInv, CallOK, SequentialOK, ParallelOK, InOrder, Count,
     Grid!Cases, Permitted, Broken, Grid!Ended, Grid!InState
<1>2. PICK c \in batch :
        \/ /\ stop /\ ending' = "cancelled" /\ call' = "exit"
           /\ UNCHANGED <<batch, results, reported>>
        \/ /\ work[c] # "done" /\ ending' = "failed" /\ call' = "exit"
           /\ UNCHANGED <<batch, results, reported>>
        \/ /\ work[c] = "done" /\ results' = Append(results, c) /\ reported' = Len(results) + 1
           /\ batch' = batch \ {c} /\ UNCHANGED <<call, ending>>
  BY <1>1 DEF Grid!TakeResult, Grid!End, Grid!Collect
<1>3. CASE UNCHANGED <<batch, results, reported>>
  <2>1. call' = "exit" /\ ending' \in {"cancelled", "failed"} /\ (ending' = "cancelled" => stop)
    BY <1>1, <1>2, <1>3
  <2>2. ending' = "failed" => Broken
    <3> SUFFICES ASSUME ending' = "failed" PROVE Broken
      OBVIOUS
    <3>1. work[c] # "done" /\ c \in Grid!Ended
      BY <1>1, <1>2 DEF GridInv, ParallelOK
    <3>2. c \in Grid!Cases /\ work[c] \in {"failed", "broken"}
      BY <3>1 DEF Grid!Ended, Grid!InState
    <3>3. CASE work[c] = "failed"
      BY <3>2, <3>3 DEF Broken, Grid!InState
    <3>4. CASE work[c] = "broken"
      BY <3>2, <3>4 DEF Broken, GridInv, CallOK
    <3> QED BY <3>2, <3>3, <3>4
  <2>3. CallOK'
    BY <1>1, <1>3, <2>1 DEF GridInv, CallOK
  <2>4. EndingOK'
    BY <1>1, <1>3, <2>1, <2>2 DEF GridInv, EndingOK
  <2>5. SequentialOK'
    BY <1>1 DEF SequentialOK
  <2>6. ParallelOK'
    BY <1>1, <1>3, <2>1 DEF GridInv, ParallelOK, Grid!ToSet
  <2> QED BY <2>3, <2>4, <2>5, <2>6 DEF GridInv
<1>4. CASE /\ results' = Append(results, c) /\ reported' = Len(results) + 1
           /\ batch' = batch \ {c} /\ UNCHANGED <<call, ending>>
  <2> DEFINE r == Append(results, c)
  <2>1. /\ r \in Seq(Grid!Cases) /\ Grid!IsInjective(r) /\ Len(r) = Len(results) + 1
        /\ Grid!ToSet(r) = Grid!ToSet(results) \cup {c}
    BY <1>1, CollectOne
  <2>2. results' = r
    BY <1>4
  <2> HIDE DEF r
  <2>3. CallOK'
    BY <1>1, <1>4, <2>1, <2>2 DEF GridInv, CallOK
  <2>4. EndingOK'
    BY <1>1, <1>4 DEF GridInv, EndingOK
  <2>5. SequentialOK'
    BY <1>1 DEF SequentialOK
  <2>6. ParallelOK'
    BY <1>1, <1>4, <2>1, <2>2 DEF GridInv, ParallelOK
  <2> QED BY <2>3, <2>4, <2>5, <2>6 DEF GridInv
<1> QED BY <1>2, <1>3, <1>4

LEMMA AllTakenKeeps == GridInv /\ Grid!AllTaken => GridInv'
<1> SUFFICES ASSUME GridInv, Grid!AllTaken PROVE GridInv'
  OBVIOUS
<1>1. /\ call = "collect" /\ parallel /\ ending = "none" /\ batch = {} /\ taken = Grid!Cases
      /\ ending' = "results" /\ call' = "exit"
      /\ UNCHANGED <<input, bad, parallel, confirmed, queue, work, deaths, ordered, batch, taken, results, reported, stop>>
      /\ InOrder' = InOrder /\ Count' = Count /\ Grid!Cases' = Grid!Cases /\ Permitted' = Permitted
      /\ Grid!Ended' = Grid!Ended /\ Grid!ToSet(results)' = Grid!ToSet(results)
  BY DEF Grid!AllTaken, Grid!End, Grid!call, Grid!pool, GridInv, CallOK, SequentialOK, ParallelOK, InOrder, Count,
     Grid!Cases, Permitted, Grid!Ended, Grid!InState
<1>2. Grid!ToSet(results) = Grid!Cases
  BY <1>1 DEF GridInv, ParallelOK
<1>3. Len(results) = Count
  BY <1>1, <1>2, CollectedAtMost DEF GridInv, CallOK, ParallelOK
<1>4. CallOK'
  BY <1>1 DEF GridInv, CallOK
<1>5. EndingOK'
  BY <1>1, <1>2, <1>3 DEF GridInv, EndingOK
<1>6. SequentialOK'
  BY <1>1 DEF SequentialOK
<1>7. ParallelOK'
  BY <1>1 DEF GridInv, ParallelOK
<1> QED BY <1>4, <1>5, <1>6, <1>7 DEF GridInv

LEMMA ExitKeeps == GridInv /\ Grid!Exit => GridInv'
<1> SUFFICES ASSUME GridInv, Grid!Exit PROVE GridInv'
  OBVIOUS
<1>1. /\ call = "exit" /\ parallel /\ ending # "none" /\ call' = "end"
      /\ results' = Grid!ByIndex(results)
      /\ Grid!InState("queued") \cup Grid!InState("running") = {}
      /\ UNCHANGED <<input, bad, parallel, confirmed, queue, work, deaths, ordered, batch, taken, reported, stop, ending>>
      /\ InOrder' = InOrder /\ Count' = Count /\ Grid!Cases' = Grid!Cases /\ Permitted' = Permitted
      /\ Broken' = Broken /\ Grid!Ended' = Grid!Ended
  BY DEF Grid!Exit, Grid!call, Grid!pool, GridInv, CallOK, SequentialOK, ParallelOK, InOrder, Count,
     Grid!Cases, Permitted, Broken, Grid!Ended, Grid!InState
<1>2. results \in Seq(Nat) /\ Grid!IsInjective(results) /\ Grid!ToSet(results) \subseteq Grid!Cases
  BY <1>1, CollectedAtMost DEF GridInv, CallOK, ParallelOK
<1> DEFINE r == Grid!ByIndex(results)
           n == Len(results)
           S == Grid!ToSet(results)
<1>3. /\ Increasing(r, n, S) /\ Len(r) = n /\ n \in Nat
      /\ S \subseteq Nat /\ IsFiniteSet(S) /\ Cardinality(S) = n
  BY <1>2, Sorted, CaseCount
<1>4. ListsOnce(r, n, S)
  <2> HIDE DEF r, n, S
  <2> QED BY <1>3, IncreasingListsAll
<1>5. r \in [1 .. n -> S] /\ S \subseteq Grid!Cases /\ n \in Nat
  BY <1>2, <1>3 DEF Increasing
<1>6. r \in Seq(Grid!Cases) /\ Grid!IsInjective(r) /\ Grid!ToSet(r) = S
  <2> HIDE DEF r, n, S
  <2>1. r \in [1 .. n -> Grid!Cases] /\ DOMAIN r = 1 .. n
    BY <1>5
  <2>2. r \in Seq(Grid!Cases)
    BY <1>5, <2>1
  <2>3. Grid!ToSet(r) = S
    BY <1>4, <1>5, <2>1 DEF Grid!ToSet, ListsOnce
  <2> QED BY <1>4, <2>1, <2>2, <2>3 DEF Grid!IsInjective, ListsOnce
<1>7. ending = "results" => r = InOrder /\ n = Count /\ S = Grid!Cases
  <2> SUFFICES ASSUME ending = "results" PROVE r = InOrder /\ n = Count /\ S = Grid!Cases
    OBVIOUS
  <2>1. n = Count /\ S = Grid!Cases
    BY DEF GridInv, EndingOK
  <2>2. input \in Seq(Nat) /\ Grid!IsInjective(input) /\ Grid!ToSet(results) = Grid!ToSet(input)
    BY <2>1 DEF GridInv, CallOK, Grid!Cases
  <2>3. r = InOrder
    BY <1>2, <2>2, SortedOnce DEF InOrder
  <2> QED BY <2>1, <2>3
<1>8. results' = r /\ reported = n
  BY <1>1 DEF GridInv, CallOK
<1> HIDE DEF r, n, S
<1>9. CallOK'
  BY <1>1, <1>3, <1>6, <1>8 DEF GridInv, CallOK
<1>10. EndingOK'
  <2>1. ending # "refused"
    BY <1>1 DEF GridInv, EndingOK
  <2>2. \A c \in Grid!Cases : work[c] \notin Begun
    BY <1>1 DEF Grid!InState, Begun
  <2> QED BY <1>1, <1>3, <1>6, <1>7, <1>8, <2>1, <2>2 DEF GridInv, EndingOK
<1>11. SequentialOK'
  BY <1>1 DEF SequentialOK
<1>12. ParallelOK'
  <2>1. batch \cap S = {}
    BY <1>1 DEF GridInv, ParallelOK, S
  <2> QED BY <1>1, <1>6, <1>8, <2>1 DEF GridInv, ParallelOK
<1> QED BY <1>9, <1>10, <1>11, <1>12 DEF GridInv

\* The steps of the pool and the wish to stop leave the caller alone.
PoolOnly ==
  /\ UNCHANGED <<input, bad, parallel, confirmed, call, ordered, batch, taken, results, reported, ending>>
  /\ InOrder' = InOrder /\ Count' = Count /\ Grid!Cases' = Grid!Cases /\ Permitted' = Permitted
  /\ Grid!ToSet(results)' = Grid!ToSet(results)

LEMMA PoolAlone ==
  ASSUME UNCHANGED Grid!call, UNCHANGED Grid!caller
  PROVE  PoolOnly
  BY DEF Grid!call, Grid!caller, PoolOnly, InOrder, Count, Grid!Cases, Permitted

\* What has ended stays as it ended; what has not begun is not begun.
EndedStay ==
  \A c \in Grid!Cases :
    /\ work[c] \in Over => work'[c] = work[c]
    /\ work[c] = "none" <=> work'[c] = "none"

LEMMA EndedStayEnded ==
  ASSUME PoolOnly, EndedStay, deaths \in Nat, deaths' \in Nat, deaths' >= deaths, Broken
  PROVE  Broken'
  BY DEF PoolOnly, EndedStay, Broken, Grid!InState, Over

LEMMA StartCaseKeeps == GridInv /\ Grid!StartCase => GridInv' /\ EndedStay
<1> SUFFICES ASSUME GridInv, Grid!StartCase PROVE GridInv' /\ EndedStay
  OBVIOUS
<1>1. /\ PoolOnly /\ parallel /\ deaths' = deaths /\ stop' = stop
      /\ queue # <<>> /\ work' = [work EXCEPT ![Head(queue)] = "running"] /\ queue' = Tail(queue)
  BY PoolAlone DEF Grid!StartCase
<1>2. /\ queue \in Seq(Grid!Cases) /\ \A k \in 1 .. Len(queue) : work[queue[k]] = "queued"
      /\ \A k, l \in 1 .. Len(queue) : queue[k] = queue[l] => k = l
  BY <1>1 DEF GridInv, ParallelOK, Grid!IsInjective
<1> DEFINE next == Head(queue)
<1>3. /\ next \in Grid!Cases /\ next = queue[1] /\ 1 \in 1 .. Len(queue)
      /\ queue' \in Seq(Grid!Cases) /\ Len(queue') = Len(queue) - 1 /\ DOMAIN queue' = 1 .. Len(queue')
      /\ Len(queue) \in Nat
      /\ \A k \in 1 .. Len(queue') : queue'[k] = queue[k + 1] /\ k + 1 \in 1 .. Len(queue)
  BY <1>1, <1>2
<1> HIDE DEF next
<1>4. work[next] = "queued" /\ \A c \in Grid!Cases : work'[c] = IF c = next THEN "running" ELSE work[c]
  BY <1>1, <1>2, <1>3 DEF GridInv, CallOK, next
<1>5. EndedStay
  BY <1>4 DEF EndedStay, Over
<1>6. CallOK'
  <2>1. \A c \in Grid!Cases : work'[c] \in {"none"} \cup Begun \cup Over
    BY <1>4 DEF GridInv, CallOK, Begun
  <2>2. work' \in [Grid!Cases -> {"none"} \cup Begun \cup Over]
    BY <1>1, <2>1 DEF GridInv, CallOK
  <2>3. call # "begin"
    BY <1>3, <1>4 DEF GridInv, CallOK
  <2> QED BY <1>1, <1>4, <2>2, <2>3 DEF GridInv, CallOK, PoolOnly
<1>7. EndingOK'
  <2>1. Broken => Broken'
    BY <1>1, <1>5, EndedStayEnded DEF GridInv, CallOK
  <2>2. call # "end"
    BY <1>3, <1>4 DEF GridInv, EndingOK, Begun
  <2> QED BY <1>1, <2>1, <2>2 DEF GridInv, EndingOK, PoolOnly
<1>8. SequentialOK'
  BY <1>1 DEF SequentialOK, PoolOnly
<1>9. ParallelOK'
  <2>1. Grid!IsInjective(queue')
    <3> SUFFICES ASSUME NEW k \in 1 .. Len(queue'), NEW l \in 1 .. Len(queue'), queue'[k] = queue'[l]
                 PROVE  k = l
      BY <1>3 DEF Grid!IsInjective
    <3>1. k + 1 = l + 1
      BY <1>2, <1>3
    <3> QED BY <1>3, <3>1
  <2>2. \A k \in 1 .. Len(queue') : work'[queue'[k]] = "queued"
    <3> SUFFICES ASSUME NEW k \in 1 .. Len(queue') PROVE work'[queue'[k]] = "queued"
      OBVIOUS
    <3>1. queue'[k] = queue[k + 1] /\ k + 1 \in 1 .. Len(queue) /\ k + 1 # 1
      BY <1>3
    <3>2. queue[k + 1] # next /\ queue[k + 1] \in Grid!Cases /\ work[queue[k + 1]] = "queued"
      BY <1>2, <1>3, <3>1
    <3> QED BY <1>4, <3>1, <3>2
  <2>3. Grid!Ended \subseteq Grid!Ended'
    BY <1>1, <1>5 DEF PoolOnly, EndedStay, Grid!Ended, Grid!InState, Over
  <2>4. ASSUME call = "submit"
        PROVE  \E m \in 0 .. Count : \A k \in 1 .. Count : work'[InOrder[k]] = "none" <=> k > m
    <3>1. PICK m \in 0 .. Count : \A k \in 1 .. Count : work[InOrder[k]] = "none" <=> k > m
      BY <1>1, <2>4 DEF GridInv, ParallelOK
    <3>2. \A k \in 1 .. Count : InOrder[k] \in Grid!Cases
      BY OrderFacts DEF GridInv, CallOK
    <3> QED BY <1>5, <3>1, <3>2 DEF EndedStay
  <2>5. Grid!IsInjective(results)' /\ queue' \in Seq(Grid!Cases)'
    BY <1>1, <1>3 DEF GridInv, ParallelOK, PoolOnly, Grid!IsInjective
  <2> QED BY <1>1, <2>1, <2>2, <2>3, <2>4, <2>5 DEF GridInv, ParallelOK, PoolOnly
<1> QED BY <1>5, <1>6, <1>7, <1>8, <1>9 DEF GridInv

\* A step that takes cases out of what runs, and forgets the queue or leaves it.
LEMMA PoolEndsCases ==
  ASSUME GridInv, PoolOnly, parallel, EndedStay, stop' = stop,
         deaths' \in Nat, deaths' >= deaths,
         work' \in [Grid!Cases -> {"none"} \cup Begun \cup Over],
         \A c \in Grid!Cases : work[c] # "queued" /\ work'[c] # work[c] => work'[c] \in Over,
         \A c \in Grid!Cases : work'[c] # work[c] => work[c] \in Begun,
         \A c \in Grid!Cases : work'[c] \in Begun => work[c] \in Begun,
         \A c \in Grid!Cases : work'[c] = "broken" => deaths' > 0,
         \/ queue' = <<>>
         \/ queue' = queue /\ \A c \in Grid!Cases : work[c] = "queued" => work'[c] = "queued"
  PROVE  GridInv'
<1>1. CallOK'
  <2>1. call = "begin" => \A c \in Grid!Cases : work'[c] = "none"
    BY DEF GridInv, CallOK, EndedStay
  <2> QED BY <2>1 DEF GridInv, CallOK, PoolOnly
<1>2. EndingOK'
  <2>1. Broken => Broken'
    BY EndedStayEnded DEF GridInv, CallOK
  <2>2. call = "end" => \A c \in Grid!Cases : work'[c] \notin Begun
    BY DEF GridInv, EndingOK
  <2> QED BY <2>1, <2>2 DEF GridInv, EndingOK, PoolOnly
<1>3. SequentialOK'
  BY DEF SequentialOK, PoolOnly
<1>4. ParallelOK'
  <2>1. /\ queue' \in Seq(Grid!Cases) /\ Grid!IsInjective(queue')
        /\ \A k \in 1 .. Len(queue') : work'[queue'[k]] = "queued"
    <3>1. CASE queue' = <<>>
      BY <3>1 DEF Grid!IsInjective
    <3>2. CASE queue' = queue /\ \A c \in Grid!Cases : work[c] = "queued" => work'[c] = "queued"
      <4>1. \A k \in 1 .. Len(queue) : queue[k] \in Grid!Cases /\ work[queue[k]] = "queued"
        BY DEF GridInv, ParallelOK
      <4>2. \A k \in 1 .. Len(queue) : work'[queue[k]] = "queued"
        BY <3>2, <4>1
      <4>3. queue \in Seq(Grid!Cases) /\ Grid!IsInjective(queue)
        BY DEF GridInv, ParallelOK
      <4> QED BY <3>2, <4>2, <4>3
    <3> QED BY <3>1, <3>2
  <2>2. Grid!Ended \subseteq Grid!Ended'
    BY DEF PoolOnly, EndedStay, Grid!Ended, Grid!InState, Over
  <2>3. ASSUME call = "submit"
        PROVE  \E m \in 0 .. Count : \A k \in 1 .. Count : work'[InOrder[k]] = "none" <=> k > m
    <3>1. PICK m \in 0 .. Count : \A k \in 1 .. Count : work[InOrder[k]] = "none" <=> k > m
      BY <2>3 DEF GridInv, ParallelOK
    <3>2. \A k \in 1 .. Count : InOrder[k] \in Grid!Cases
      BY OrderFacts DEF GridInv, CallOK
    <3> QED BY <3>1, <3>2 DEF EndedStay
  <2>4. Grid!IsInjective(results)' /\ queue' \in Seq(Grid!Cases)'
    BY <2>1 DEF GridInv, ParallelOK, PoolOnly, Grid!IsInjective
  <2> QED BY <2>1, <2>2, <2>3, <2>4 DEF GridInv, ParallelOK, PoolOnly
<1> QED BY <1>1, <1>2, <1>3, <1>4 DEF GridInv

LEMMA FinishCaseKeeps == GridInv /\ Grid!FinishCase => GridInv' /\ EndedStay
<1> SUFFICES ASSUME GridInv, Grid!FinishCase PROVE GridInv' /\ EndedStay
  OBVIOUS
<1>1. PICK c \in Grid!InState("running") :
        work' = [work EXCEPT ![c] = IF c \in bad THEN "failed" ELSE "done"]
  BY DEF Grid!FinishCase
<1>2. PoolOnly /\ parallel /\ deaths' = deaths /\ stop' = stop /\ queue' = queue
  BY PoolAlone DEF Grid!FinishCase
<1>3. c \in Grid!Cases /\ work[c] = "running"
  BY DEF Grid!InState
<1>4. /\ work \in [Grid!Cases -> {"none"} \cup Begun \cup Over] /\ deaths \in Nat
      /\ \A d \in Grid!Cases : work[d] = "broken" => deaths > 0
  BY DEF GridInv, CallOK
<1>5. /\ work' \in [Grid!Cases -> {"none"} \cup Begun \cup Over]
      /\ work'[c] \in {"failed", "done"}
      /\ \A d \in Grid!Cases : d # c => work'[d] = work[d]
  BY <1>1, <1>3, <1>4 DEF Over
<1>6. EndedStay
  BY <1>3, <1>5 DEF EndedStay, Over
<1>7. GridInv'
  BY <1>2, <1>3, <1>4, <1>5, <1>6, PoolEndsCases DEF Begun, Over
<1> QED BY <1>6, <1>7

LEMMA WorkerDiesKeeps == GridInv /\ Grid!WorkerDies => GridInv' /\ EndedStay
<1> SUFFICES ASSUME GridInv, Grid!WorkerDies PROVE GridInv' /\ EndedStay
  OBVIOUS
<1>1. /\ PoolOnly /\ parallel /\ deaths' = deaths + 1 /\ stop' = stop /\ queue' = <<>>
      /\ work' = [c \in Grid!Cases |-> IF work[c] \in {"queued", "running"} THEN "broken" ELSE work[c]]
  BY PoolAlone DEF Grid!WorkerDies
<1>2. work \in [Grid!Cases -> {"none"} \cup Begun \cup Over] /\ deaths \in Nat
  BY DEF GridInv, CallOK
<1>3. /\ work' \in [Grid!Cases -> {"none"} \cup Begun \cup Over]
      /\ \A c \in Grid!Cases : IF work[c] \in Begun THEN work'[c] = "broken" ELSE work'[c] = work[c]
      /\ deaths' > 0 /\ deaths' \in Nat /\ deaths' >= deaths
  BY <1>1, <1>2 DEF Begun, Over
<1>4. EndedStay
  BY <1>3 DEF EndedStay, Over, Begun
<1>5. GridInv'
  BY <1>1, <1>3, <1>4, PoolEndsCases DEF Begun, Over
<1> QED BY <1>4, <1>5

LEMMA StopKeeps == GridInv /\ Grid!RequestStop => GridInv'
<1> SUFFICES ASSUME GridInv, Grid!RequestStop PROVE GridInv'
  OBVIOUS
<1>1. PoolOnly /\ UNCHANGED <<queue, work, deaths>> /\ stop'
  BY PoolAlone DEF Grid!RequestStop, Grid!pool
<1>2. CallOK' /\ SequentialOK'
  BY <1>1 DEF GridInv, CallOK, SequentialOK, PoolOnly
<1>3. EndingOK'
  <2>1. Broken' = Broken
    BY <1>1 DEF Broken, Grid!InState, PoolOnly
  <2> QED BY <1>1, <2>1 DEF GridInv, EndingOK, PoolOnly
<1>4. ParallelOK'
  <2>1. Grid!Ended' = Grid!Ended /\ Grid!IsInjective(results)' = Grid!IsInjective(results)
        /\ Grid!IsInjective(queue)' = Grid!IsInjective(queue)
    BY <1>1 DEF Grid!Ended, Grid!InState, PoolOnly, Grid!IsInjective
  <2> QED BY <1>1, <2>1 DEF GridInv, ParallelOK, PoolOnly
<1> QED BY <1>2, <1>3, <1>4 DEF GridInv

LEMMA GridRuns == [Next]_vars => [part = "cases" /\ Grid!Next]_grid
  BY DEF Next, vars, container, files, grid, requests, accounts, book, services, store

LEMMA GridRests ==
  ASSUME GridInv, UNCHANGED grid
  PROVE  GridInv'
<1>1. UNCHANGED <<input, bad, parallel, confirmed, call, ordered, queue, work, batch, taken, results,
                  reported, stop, ending, deaths>>
  BY DEF grid
<1>2. /\ InOrder' = InOrder /\ Count' = Count /\ Grid!Cases' = Grid!Cases /\ Permitted' = Permitted
      /\ Grid!ToSet(results)' = Grid!ToSet(results) /\ Broken' = Broken /\ Grid!Ended' = Grid!Ended
  BY <1>1 DEF InOrder, Count, Grid!Cases, Permitted, Broken, Grid!Ended, Grid!InState
<1> QED BY <1>1, <1>2 DEF GridInv, CallOK, EndingOK, SequentialOK, ParallelOK

LEMMA GridInvNext == GridInv /\ [Next]_vars => GridInv'
<1> SUFFICES ASSUME GridInv, [Next]_vars PROVE GridInv'
  OBVIOUS
<1> QED BY GridRuns, GridRests, BeginKeeps, RunNextKeeps, RunnerKeeps, SubmitKeeps, NextBatchKeeps,
        TakeResultKeeps, AllTakenKeeps, ExitKeeps, StartCaseKeeps, FinishCaseKeeps, WorkerDiesKeeps,
        StopKeeps DEF Grid!Next, Grid!Main, Grid!Pool

-----------------------------------------------------------------------------
\* What the contract of CaseGridRun sees of the call's ending.
Ending ==
  IF call # "end" THEN [kind |-> "running", results |-> <<>>]
  ELSE [kind |-> ending, results |-> IF ending = "results" THEN results ELSE <<>>]

\* A step of the contract: a wish to stop or a failure, a report of progress,
\* or the end.
ContractStep ==
  \/ /\ stop => stop'
     /\ Broken => Broken'
     /\ InOrder' = InOrder /\ Permitted' = Permitted /\ reported' = reported /\ Ending' = Ending
  \/ /\ call # "end" /\ Permitted
     /\ reported < Len(InOrder) /\ reported' = reported + 1
     /\ InOrder' = InOrder /\ Permitted' = Permitted /\ stop' = stop /\ Broken' = Broken
     /\ Ending' = Ending
  \/ /\ call # "end"
     /\ \/ ~Permitted /\ reported = 0 /\ Ending' = [kind |-> "refused", results |-> <<>>]
        \/ Permitted /\ stop /\ Ending' = [kind |-> "cancelled", results |-> <<>>]
        \/ Permitted /\ Broken' /\ Ending' = [kind |-> "failed", results |-> <<>>]
        \/ /\ Permitted /\ reported = Len(InOrder)
           /\ Ending' = [kind |-> "results", results |-> InOrder]
     /\ Broken => Broken'
     /\ InOrder' = InOrder /\ Permitted' = Permitted /\ stop' = stop /\ reported' = reported

LEMMA NoEndingYet ==
  ASSUME call # "end", call' # "end"
  PROVE  Ending' = Ending
  BY DEF Ending

\* What an ending step shows is what the invariant says of the ending.
LEMMA EndingShown ==
  ASSUME GridInv, GridInv', call # "end", call' = "end", UNCHANGED <<reported, stop>>,
         InOrder' = InOrder, Permitted' = Permitted, Broken => Broken'
  PROVE  ContractStep
<1>1. /\ ending' \in {"results", "cancelled", "failed", "refused"}
      /\ ending' = "refused" => ~Permitted /\ results' = <<>>
      /\ ending' # "refused" => Permitted
      /\ ending' = "cancelled" => stop
      /\ ending' = "failed" => Broken'
      /\ ending' = "results" => results' = InOrder
      /\ reported = Len(results')
  BY DEF GridInv, CallOK, EndingOK
<1>2. Ending' = [kind |-> ending', results |-> IF ending' = "results" THEN results' ELSE <<>>]
  BY DEF Ending
<1>3. Len(<<>>) = 0
  OBVIOUS
<1> QED BY <1>1, <1>2, <1>3 DEF ContractStep

\* A step that neither reports nor ends.
LEMMA NothingShown ==
  ASSUME UNCHANGED reported, stop => stop', Broken => Broken', InOrder' = InOrder, Permitted' = Permitted,
         \/ call # "end" /\ call' # "end"
         \/ UNCHANGED <<call, ending, results>>
  PROVE  ContractStep
  BY DEF ContractStep, Ending

LEMMA ProgressShown ==
  ASSUME GridInv, call \in {"running", "collect"}, call' # "end",
         reported' = reported + 1, Len(results) < Count, stop' = stop,
         Broken' = Broken, InOrder' = InOrder, Permitted' = Permitted
  PROVE  ContractStep
<1>1. Len(InOrder) = Count
  BY OrderFacts DEF GridInv, CallOK
<1>2. reported < Len(InOrder) /\ Permitted
  BY <1>1 DEF GridInv, CallOK, EndingOK
<1> QED BY <1>2, NoEndingYet DEF ContractStep

LEMMA FailedStayBroken ==
  ASSUME FailedStay, Grid!Cases' = Grid!Cases, deaths' = deaths
  PROVE  Broken => Broken'
  BY DEF FailedStay, Broken, Grid!InState

LEMMA MainShown ==
  ASSUME GridInv, GridInv', Grid!Main
  PROVE  ContractStep
<1>1. /\ UNCHANGED <<input, stop, deaths>> /\ InOrder' = InOrder /\ Permitted' = Permitted
      /\ Grid!Cases' = Grid!Cases
  BY DEF Grid!Main, Grid!Begin, Grid!RunNext, Grid!RunnerReturns, Grid!Submit, Grid!NextBatch,
     Grid!TakeResult, Grid!AllTaken, Grid!Exit, Grid!call, Grid!pool, InOrder, Permitted, Grid!Cases
<1>2. FailedStay
  <2>1. CASE work' = work
    BY <2>1 DEF FailedStay
  <2>2. Grid!Begin \/ Grid!NextBatch \/ Grid!TakeResult \/ Grid!AllTaken \/ Grid!Exit => work' = work
    BY DEF Grid!Begin, Grid!NextBatch, Grid!TakeResult, Grid!AllTaken, Grid!Exit, Grid!pool
  <2> QED BY <2>1, <2>2, RunNextKeeps, RunnerKeeps, SubmitKeeps DEF Grid!Main
<1>3. Broken => Broken'
  BY <1>1, <1>2, FailedStayBroken
<1>4. CASE UNCHANGED reported
  <2>1. call # "end"
    BY DEF Grid!Main, Grid!Begin, Grid!RunNext, Grid!RunnerReturns, Grid!Submit, Grid!NextBatch,
       Grid!TakeResult, Grid!AllTaken, Grid!Exit
  <2> QED BY <1>1, <1>3, <1>4, <2>1, EndingShown, NothingShown
<1>5. CASE reported' # reported
  <2>1. Grid!RunnerReturns \/ Grid!TakeResult
    BY <1>5 DEF Grid!Main, Grid!Begin, Grid!RunNext, Grid!Submit, Grid!NextBatch, Grid!AllTaken, Grid!Exit
  <2>2. CASE Grid!RunnerReturns
    <3> DEFINE next == ordered[Len(results) + 1]
    <3>1. /\ call = "running" /\ call' = "next" /\ reported' = Len(results) + 1
          /\ work' = [work EXCEPT ![next] = "done"]
      BY <1>5, <2>2 DEF Grid!RunnerReturns, Grid!Collect
    <3>2. ~parallel /\ Len(results) < Count /\ reported = Len(results)
      BY <3>1 DEF GridInv, SequentialOK, ParallelOK, CallOK
    <3>3. Broken' = Broken
      <4> HIDE DEF next
      <4>1. \A c \in Grid!Cases : work[c] # "failed" /\ work'[c] # "failed"
        BY <3>1, <3>2 DEF GridInv, SequentialOK, CallOK
      <4> QED BY <1>1, <4>1 DEF Broken, Grid!InState
    <3> QED BY <1>1, <3>1, <3>2, <3>3, ProgressShown
  <2>3. CASE Grid!TakeResult
    <3>1. /\ call = "collect" /\ UNCHANGED <<call, work>> /\ reported' = Len(results) + 1
          /\ \E c \in batch : TRUE
      BY <1>5, <2>3 DEF Grid!TakeResult, Grid!Collect, Grid!pool
    <3>2. parallel /\ reported = Len(results) /\ Len(results) \in Nat
      BY <3>1 DEF GridInv, SequentialOK, CallOK
    <3>3. Len(results) + 1 <= Count /\ Count \in Nat
      <4>1. Count \in Nat
        BY OrderFacts DEF GridInv, CallOK
      <4> QED BY <3>1, <3>2, <4>1, CollectOne
    <3>4. Broken' = Broken
      BY <1>1, <3>1 DEF Broken, Grid!InState
    <3>5. Len(results) < Count
      BY <3>2, <3>3
    <3> QED BY <1>1, <3>1, <3>2, <3>4, <3>5, ProgressShown
  <2> QED BY <2>1, <2>2, <2>3
<1> QED BY <1>4, <1>5

LEMMA PoolShown ==
  ASSUME GridInv, Grid!Pool \/ Grid!WorkerDies
  PROVE  ContractStep
<1>1. PoolOnly /\ stop' = stop /\ (deaths' = deaths \/ deaths' = deaths + 1)
  BY PoolAlone DEF Grid!Pool, Grid!WorkerDies, Grid!StartCase, Grid!FinishCase
<1>2. EndedStay
  BY StartCaseKeeps, FinishCaseKeeps, WorkerDiesKeeps DEF Grid!Pool
<1>3. deaths \in Nat /\ deaths' \in Nat /\ deaths' >= deaths
  BY <1>1 DEF GridInv, CallOK
<1>4. Broken => Broken'
  BY <1>1, <1>2, <1>3, EndedStayEnded
<1> QED BY <1>1, <1>4, NothingShown DEF PoolOnly

LEMMA StopShown ==
  ASSUME GridInv, Grid!RequestStop
  PROVE  ContractStep
<1>1. PoolOnly /\ UNCHANGED <<queue, work, deaths>> /\ stop'
  BY PoolAlone DEF Grid!RequestStop, Grid!pool
<1>2. Broken' = Broken
  BY <1>1 DEF Broken, Grid!InState, PoolOnly
<1> QED BY <1>1, <1>2, NothingShown DEF PoolOnly

LEMMA ContractKept ==
  ASSUME GridInv, GridInv', [Next]_vars
  PROVE  ContractStep
<1>1. CASE UNCHANGED grid
  <2>1. UNCHANGED <<reported, stop, call, ending, results>>
    BY <1>1 DEF grid
  <2>2. InOrder' = InOrder /\ Permitted' = Permitted /\ Broken' = Broken
    BY <1>1 DEF grid, InOrder, Permitted, Broken, Grid!InState, Grid!Cases
  <2> QED BY <2>1, <2>2, NothingShown
<1> QED BY <1>1, GridRuns, MainShown, PoolShown, StopShown DEF Grid!Next

\* Nothing begins or ends once the call has ended.
LEMMA EndIsQuiet ==
  ASSUME GridInv, [Next]_vars, call = "end"
  PROVE  Grid!InState("queued") \cup Grid!InState("running") = {} /\ work' = work
<1>1. Grid!InState("queued") \cup Grid!InState("running") = {}
  BY DEF GridInv, EndingOK, Begun, Grid!InState
<1>2. CASE UNCHANGED grid
  BY <1>1, <1>2 DEF grid
<1>3. CASE Grid!Main \/ Grid!WorkerDies \/ Grid!RequestStop
  BY <1>3 DEF Grid!Main, Grid!Begin, Grid!RunNext, Grid!RunnerReturns, Grid!Submit, Grid!NextBatch,
     Grid!TakeResult, Grid!AllTaken, Grid!Exit, Grid!WorkerDies, Grid!RequestStop
<1>4. CASE Grid!FinishCase
  BY <1>1, <1>4 DEF Grid!FinishCase
<1>5. CASE Grid!StartCase
  <2>1. parallel /\ queue # <<>>
    BY <1>5 DEF Grid!StartCase
  <2>2. queue \in Seq(Grid!Cases) /\ \A k \in 1 .. Len(queue) : work[queue[k]] = "queued"
    BY <2>1 DEF GridInv, ParallelOK
  <2>3. queue[1] \in Grid!Cases /\ work[queue[1]] = "queued"
    BY <2>1, <2>2
  <2> QED BY <1>1, <2>3 DEF Grid!InState
<1> QED BY <1>1, <1>2, <1>3, <1>4, <1>5, GridRuns DEF Grid!Next, Grid!Pool

(***************************************************************************)
(* The two halves of run_cases, with any number of cases, worker processes *)
(* and their deaths, keep the contract of CaseGridRun: progress counts up  *)
(* and the call ends once, with all results by their index or the reason   *)
(* why there are none; and no case runs on behind an ended call.           *)
(***************************************************************************)
THEOREM CasesKeepTheContract == Spec => KeepsContract
<1>1. Init => Grid!Contract!Init
  BY DEF Init, Grid!Init, Grid!Contract!Init, Grid!Contract!Running, Grid!InState, Grid!Cases
<1>2. GridInv /\ GridInv' /\ [Next]_vars =>
        [Grid!Contract!Next]_<<InOrder, Permitted, stop, Broken, reported, Ending>>
  <2> SUFFICES ASSUME GridInv, GridInv', [Next]_vars
               PROVE  [Grid!Contract!Next]_<<InOrder, Permitted, stop, Broken, reported, Ending>>
    OBVIOUS
  <2>1. ContractStep
    BY ContractKept
  <2> QED BY <2>1 DEF ContractStep, Grid!Contract!Next, Grid!Contract!StopOrBreak,
        Grid!Contract!Report, Grid!Contract!End, Grid!Contract!EndWith, Grid!Contract!Running,
        InOrder, Permitted, Broken, Ending
<1>3. GridInv /\ [Next]_vars =>
        [call = "end" => Grid!InState("queued") \cup Grid!InState("running") = {} /\ work' = work]_(Grid!vars)
  BY EndIsQuiet
<1> QED BY <1>1, <1>2, <1>3, GridInvInit, GridInvNext, PTL
        DEF Spec, KeepsContract, Grid!KeepsContract, Grid!NothingRunsOn, Grid!Contract!Spec,
            InOrder, Permitted, Broken, Ending
=============================================================================
