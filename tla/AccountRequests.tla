-------------------------- MODULE AccountRequests --------------------------
(***************************************************************************)
(* Sign-up, login and change of password (app/routers/auth.py) over the    *)
(* one database connection of the process (app/deps.py).                   *)
(*                                                                         *)
(* FastAPI runs the handlers in a pool of threads, and get_db gives every  *)
(* request a session of its own; but StaticPool gives all sessions the     *)
(* same connection, and a connection has one transaction.  So a session    *)
(* that commits commits what the others have written, and one that ends    *)
(* rolls it back.                                                          *)
(*                                                                         *)
(* A password stands for its hash: the hash of a password is taken to      *)
(* verify that password and no other.                                      *)
(***************************************************************************)
EXTENDS Integers, FiniteSets, FiniteSetsExt

CONSTANTS
  Threads,    \* of the pool that runs the handlers
  Emails,
  Passwords,
  MaxCalls    \* bound on the number of requests

VARIABLES
  users,      \* the table as the connection sees it: ids to rows
  committed,  \* the table as it was last committed
  at,         \* where the request of each thread is
  asks,       \* the request
  row,        \* the id of the row it loaded; 0: none
  reply,      \* what it will answer
  calls,      \* requests made
  granted,    \* history: addresses whose sign-up was answered with success
  undone      \* history: addresses whose new row another request rolled back

vars == <<users, committed, at, asks, row, reply, calls, granted, undone>>

Row == [email : Emails, password : Passwords]
Ask == [op : {"signup", "login", "reset"}, email : Emails, password : Passwords,
        new : Passwords]
\* Only a change of password has a new one.
Asks == {a \in Ask : a.op # "reset" => a.new = a.password}
AnyAsk == CHOOSE a \in Asks : TRUE
NoUsers == [i \in {} |-> 0]

Init ==
  /\ users = NoUsers /\ committed = NoUsers
  /\ at = [t \in Threads |-> "idle"]
  /\ asks = [t \in Threads |-> AnyAsk]
  /\ row = [t \in Threads |-> 0]
  /\ reply = [t \in Threads |-> "none"]
  /\ calls = 0
  /\ granted = {} /\ undone = {}

-----------------------------------------------------------------------------
Begin(t, a) ==
  /\ at[t] = "idle"
  /\ calls < MaxCalls
  /\ calls' = calls + 1
  /\ asks' = [asks EXCEPT ![t] = a]
  /\ at' = [at EXCEPT ![t] = "select"]
  /\ UNCHANGED <<users, committed, row, reply, granted, undone>>

\* The handler is done and answers r.
Answer(t, r) ==
  /\ reply' = [reply EXCEPT ![t] = r]
  /\ at' = [at EXCEPT ![t] = "close"]

RowsOf(email) == {i \in DOMAIN users : users[i].email = email}

\* db.scalar(select(User)), and what each handler does with the row: the
\* hashing and verifying take long, and others run meanwhile.
Select(t) ==
  /\ at[t] = "select"
  /\ LET found == RowsOf(asks[t].email)
         knows == \E i \in found : users[i].password = asks[t].password
     IN  /\ row' = [row EXCEPT ![t] = IF found = {} THEN 0 ELSE CHOOSE i \in found : TRUE]
         /\ \/ asks[t].op = "signup" /\ found # {} /\ Answer(t, "taken")
            \/ asks[t].op = "login" /\ Answer(t, IF knows THEN "ok" ELSE "failure")
            \/ asks[t].op = "reset" /\ ~knows /\ Answer(t, "failure")
            \/ /\ \/ asks[t].op = "signup" /\ found = {}
                  \/ asks[t].op = "reset" /\ knows
               /\ at' = [at EXCEPT ![t] = "flush"]
               /\ UNCHANGED reply
  /\ UNCHANGED <<users, committed, asks, calls, granted, undone>>

\* SQLite gives a new row the id after the largest one.
NextId == IF users = NoUsers THEN 1 ELSE Max(DOMAIN users) + 1

\* db.commit() flushes first: the INSERT of a sign-up, refused by the unique
\* address, or the UPDATE of the row with the id that was loaded, an error if
\* there is none.
Flush(t) ==
  /\ at[t] = "flush"
  /\ \/ /\ asks[t].op = "signup" /\ RowsOf(asks[t].email) # {}
        /\ Answer(t, "error")
        /\ UNCHANGED users
     \/ /\ asks[t].op = "signup" /\ RowsOf(asks[t].email) = {}
        /\ users' = [i \in DOMAIN users \cup {NextId} |->
             IF i = NextId THEN [email |-> asks[t].email, password |-> asks[t].password]
             ELSE users[i]]
        /\ at' = [at EXCEPT ![t] = "commit"]
        /\ UNCHANGED reply
     \/ /\ asks[t].op = "reset" /\ row[t] \notin DOMAIN users
        /\ Answer(t, "error")
        /\ UNCHANGED users
     \/ /\ asks[t].op = "reset" /\ row[t] \in DOMAIN users
        /\ users' = [users EXCEPT ![row[t]].password = asks[t].new]
        /\ at' = [at EXCEPT ![t] = "commit"]
        /\ UNCHANGED reply
  /\ UNCHANGED <<committed, asks, row, calls, granted, undone>>

\* Variant: the answer is given before the COMMIT.
CommitNothing(t) ==
  /\ at[t] = "commit"
  /\ Answer(t, "ok")
  /\ UNCHANGED <<users, committed, asks, row, calls, granted, undone>>

\* The COMMIT, of all that the connection has written.
Commit(t) ==
  /\ at[t] = "commit"
  /\ committed' = users
  /\ Answer(t, "ok")
  /\ UNCHANGED <<users, asks, row, calls, granted, undone>>

\* The session lets go of the connection, at the end of its commit or in
\* get_db, and the pool rolls back what is not committed.  The answer is sent.
Close(t) ==
  /\ at[t] = "close"
  /\ users' = committed
  /\ undone' = undone \cup
       {users[i].email : i \in {j \in DOMAIN users \ DOMAIN committed :
          \E o \in Threads \ {t} :
             at[o] = "commit" /\ asks[o].op = "signup" /\ asks[o].email = users[j].email}}
  /\ granted' = IF asks[t].op = "signup" /\ reply[t] = "ok"
                THEN granted \cup {asks[t].email} ELSE granted
  /\ at' = [at EXCEPT ![t] = "idle"]
  /\ reply' = [reply EXCEPT ![t] = "none"]
  /\ row' = [row EXCEPT ![t] = 0]
  /\ asks' = [asks EXCEPT ![t] = AnyAsk]
  /\ UNCHANGED <<committed, calls>>

Next ==
  \E t \in Threads :
    \/ \E a \in Asks : Begin(t, a)
    \/ Select(t) \/ Flush(t) \/ Commit(t) \/ Close(t)

Spec == Init /\ [][Next]_vars

-----------------------------------------------------------------------------
Addresses(table) == {table[i].email : i \in DOMAIN table}

\* Every variable has its type, and an address has one row.
TypeOK ==
  /\ \A table \in {users, committed} :
       /\ DOMAIN table \subseteq 1 .. MaxCalls
       /\ \A i \in DOMAIN table : table[i] \in Row
       /\ Cardinality(Addresses(table)) = Cardinality(DOMAIN table)
  /\ at \in [Threads -> {"idle", "select", "flush", "commit", "close"}]
  /\ asks \in [Threads -> Asks]
  /\ row \in [Threads -> 0 .. MaxCalls]
  /\ reply \in [Threads -> {"none", "ok", "failure", "taken", "error"}]
  /\ calls \in 0 .. MaxCalls
  /\ granted \subseteq Emails /\ undone \subseteq Emails

(***************************************************************************)
(* A sign-up that was answered with success is in the database, so that    *)
(* the login that follows it succeeds (test_auth.py:162-192).              *)
(***************************************************************************)
SignedUpMeansKept == granted \subseteq Addresses(committed)

(***************************************************************************)
(* An account that was granted is missing only if another request ended    *)
(* between the INSERT of its sign-up and the COMMIT: the sign-up itself,   *)
(* its duplicates and changes of password never lose one (signup, get_db). *)
(***************************************************************************)
LostOnlyToAnotherEnd == granted \subseteq Addresses(committed) \cup undone
=============================================================================
