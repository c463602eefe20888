---------------------------- MODULE AccountBook ----------------------------
(***************************************************************************)
(* What the account service promises to its callers and to the mail,       *)
(* without workers, locks, contexts or a database: an account is created   *)
(* once and deleted once, it is watched from the answer to its creation    *)
(* until somebody asks for its deletion or the process stops, its mail     *)
(* goes with it, and an answer says what happened.                         *)
(***************************************************************************)
CONSTANTS Accounts, Clients

VARIABLES
    running,           \* the process
    life, watched,     \* accounts: unused, kept or deleted; those that are watched
    lost,              \* accounts that a failure of the database left unwatched
    mail, files,       \* accounts that have emails, that have files
    job, about         \* clients: how far their request is, or its answer, and its account

requests == <<job, about>>
accounts == <<life, watched, lost, mail, files>>

Init ==
    /\ running = "serving"
    /\ life = [a \in Accounts |-> "unused"] /\ watched = {} /\ lost = {}
    /\ mail = {} /\ files = {}
    /\ job = [c \in Clients |-> "none"] /\ about \in [Clients -> Accounts]

Answers == {"none", "ok", "error", "notFound"}

Turn(c, from, to) == job[c] = from /\ job' = [job EXCEPT ![c] = to] /\ UNCHANGED about

\* A new request, at any time; one account is created once.
Ask(c) ==
    /\ job[c] \in Answers
    /\ \E what \in {"create", "delete", "sync"} : job' = [job EXCEPT ![c] = what]
    /\ \E a \in Accounts : about' = [about EXCEPT ![c] = a]
    /\ IF job'[c] = "create"
       THEN /\ life[about'[c]] = "unused"
            /\ \A d \in Clients : ~(job[d] = "create" /\ about[d] = about'[c])
       ELSE life[about'[c]] # "unused"
    /\ UNCHANGED <<running, accounts>>

Create(c) ==
    /\ Turn(c, "create", "created") /\ running # "stopped"
    /\ life[about[c]] = "unused" /\ life' = [life EXCEPT ![about[c]] = "kept"]
    /\ UNCHANGED <<running, watched, lost, mail, files>>

\* The creation is answered: the account is watched.
Watch(c) ==
    /\ Turn(c, "created", "ok")
    /\ watched' = watched \cup {about[c]}
    /\ UNCHANGED <<running, life, lost, mail, files>>

\* A deletion goes on when nobody watches the account; a creation that is not
\* answered yet may start to watch it after that, and only that.
Unwatched(c) ==
    /\ Turn(c, "delete", "unwatched") /\ about[c] \notin watched
    /\ UNCHANGED <<running, accounts>>

\* The account and its mail go together.
Delete(c) ==
    /\ Turn(c, "unwatched", "deleted") /\ running # "stopped"
    /\ life[about[c]] = "kept" /\ life' = [life EXCEPT ![about[c]] = "deleted"]
    /\ mail' = mail \ {about[c]}
    /\ UNCHANGED <<running, watched, lost, files>>

DeletedBefore(c) ==
    /\ Turn(c, "unwatched", "notFound") /\ life[about[c]] = "deleted"
    /\ UNCHANGED <<running, accounts>>

\* The deletion is answered: no files are left.
Purge(c) ==
    /\ Turn(c, "deleted", "ok")
    /\ files' = files \ {about[c]}
    /\ UNCHANGED <<running, life, watched, lost, mail>>

\* An error: a creation did nothing, a deletion may have left files.
Fail(c) ==
    /\ job[c] \in {"create", "unwatched", "deleted", "sync"}
    /\ job' = [job EXCEPT ![c] = "error"]
    /\ UNCHANGED <<running, accounts, about>>

\* A synchronisation of a watched account is complete.
Synchronised(c) ==
    /\ Turn(c, "sync", "ok") /\ about[c] \in watched
    /\ UNCHANGED <<running, accounts>>

\* Nobody watches an account any more for one of three reasons: its deletion
\* was asked for, it is gone, or the process stops.  One caller may be told.
Release(a) ==
    /\ a \in watched /\ watched' = watched \ {a}
    /\ \/ \E c \in Clients : job[c] = "delete" /\ about[c] = a
       \/ life[a] = "deleted"
       \/ running # "serving"
    /\ \/ UNCHANGED requests
       \/ \E c \in Clients : about[c] = a /\ Turn(c, "sync", "error")
    /\ UNCHANGED <<running, life, lost, mail, files>>

\* Or for a fourth: the database failed, until the process is started again.
Lose(a) ==
    /\ a \in watched /\ watched' = watched \ {a} /\ lost' = lost \cup {a}
    /\ UNCHANGED <<running, life, mail, files, requests>>

\* Mail arrives for accounts that are kept and watched.
Write(a) ==
    /\ a \in watched /\ files' = files \cup {a}
    /\ UNCHANGED <<running, life, watched, lost, mail, requests>>

Store(a) ==
    /\ a \in watched /\ life[a] = "kept" /\ running # "stopped" /\ mail' = mail \cup {a}
    /\ UNCHANGED <<running, life, watched, lost, files, requests>>

\* The process stops when nobody watches any account.  (A creation that it has not
\* answered by then may still start to watch one.)
Stop ==
    /\ \/ running = "serving" /\ running' = "stopping"
       \/ running = "stopping" /\ watched = {} /\ running' = "ending"
       \/ running = "ending" /\ running' = "stopped"
    /\ UNCHANGED <<accounts, requests>>

\* The process ends, also by a crash, and starts: every account is watched.
Restart ==
    /\ running' = "serving"
    /\ watched' = {a \in Accounts : life[a] = "kept"} /\ lost' = {}
    /\ job' = [c \in Clients |-> IF job[c] \in Answers THEN job[c] ELSE "error"]
    /\ UNCHANGED <<life, mail, files, about>>

\* A step that neither a caller nor the mail can tell (most are: TLC tries it first).
Unseen == UNCHANGED <<running, accounts, requests>>

Next ==
    \/ Unseen
    \/ \E c \in Clients :
          \/ Ask(c) \/ Create(c) \/ Watch(c) \/ Unwatched(c) \/ Delete(c) \/ DeletedBefore(c)
          \/ Purge(c) \/ Fail(c) \/ Synchronised(c)
    \/ \E a \in Accounts : Release(a) \/ Lose(a) \/ Write(a) \/ Store(a)
    \/ Stop \/ Restart

Spec == Init /\ [][Next]_<<running, accounts, requests>>
=============================================================================
