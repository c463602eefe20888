------------------------------ MODULE Monitors ------------------------------
(***************************************************************************)
(* The monitors of all accounts: imapmon.Manager with its map of workers,  *)
(* the account service that creates, deletes and synchronises accounts     *)
(* from concurrent API handlers, and the start and shutdown of the process *)
(* (internal/imapmon/manager.go, internal/accounts/service.go, main.go).   *)
(*                                                                         *)
(* Account ids are random and StartAccount is called once for an id in the *)
(* life of a process, so a worker is named by its account.  What a worker  *)
(* does on its connection is the module Mailbox; here a synchronisation    *)
(* writes attachment files and then saves emails.  m.mu protects single    *)
(* lookups and updates of the map, which are single steps.                 *)
(***************************************************************************)
EXTENDS Naturals, FiniteSets

CONSTANTS
    Accounts,     \* ids that may be created
    Clients,      \* concurrent API calls
    NoClient,     \* no call
    MaxBoots      \* bound: times the process is started

ASSUME ClientAssumption == NoClient \notin Clients
ASSUME BootAssumption == MaxBoots \in Nat \ {0}

VARIABLES
    phase, boots,                   \* main
    interrupted, accepting,         \* the signal context is done; calls may still begin
    worker, cancelled, serving,     \* m.workers: state, ctx, the sync request served
    pc, target,                     \* API calls: step, account
    rows, status, emails, files,    \* accounts, monitor_status, accounts with emails, with files
    raced, abandoned, lost, late    \* history, for the properties

process == <<phase, boots, interrupted, accepting>>
monitor == <<worker, cancelled, serving>>
calls == <<pc, target>>
disk == <<rows, status, emails, files>>
history == <<raced, abandoned, lost, late>>
vars == <<process, monitor, calls, disk, history>>

Running == {"loading", "syncing", "saving", "idle", "waiting"}
InMap == Running \cup {"leaving"}

Init ==
    /\ phase = "serving" /\ boots = 1 /\ interrupted = FALSE /\ accepting = TRUE
    /\ worker = [a \in Accounts |-> "none"]
    /\ cancelled = [a \in Accounts |-> FALSE]
    /\ serving = [a \in Accounts |-> NoClient]
    /\ pc = [c \in Clients |-> "none"] /\ target \in [Clients -> Accounts]
    /\ rows = {} /\ status = [a \in Accounts |-> "none"]
    /\ emails = {} /\ files = {}
    /\ raced = {} /\ abandoned = {} /\ lost = {} /\ late = {}

\* Mutant of Cancelled: the worker's ctx has no parent.
CancelledAlone(a) == cancelled[a]

\* The worker's ctx is a child of the signal context: StopAccount and Close cancel
\* it alone, a signal or stop all of them, those not started yet too.
Cancelled(a) == cancelled[a] \/ interrupted

StoreOpen == phase # "closed"

-----------------------------------------------------------------------------
(* API calls.  A call is at one step, and ends with its outcome.  Its caller *)
(* may leave at any time: the context is done where the call next looks at   *)
(* it, which is in a database call, or while it offers or awaits.            *)

Idle(c) == pc[c] \in {"none", "ok", "error", "notFound"}
At(c, label, a) == pc[c] = label /\ target[c] = a
Step(c, label) == pc' = [pc EXCEPT ![c] = label] /\ UNCHANGED target

\* A handler runs its next step on account a from here.  (Only Shutdown ends that: a
\* server whose listener has failed still reads requests from open connections.)
Begin(c, label, a) ==
    /\ accepting /\ Idle(c)
    /\ pc' = [pc EXCEPT ![c] = label]
    /\ target' = [target EXCEPT ![c] = a]
    /\ UNCHANGED <<process, monitor, disk, history>>

\* Create draws an id nobody has used, after the connection test succeeded.
CreateBegin(c, a) ==
    /\ status[a] = "none" /\ \A d \in Clients : ~At(d, "insert", a)
    /\ Begin(c, "insert", a)

\* repo.CreateAccount
CreateInsert(c) ==
    LET a == target[c] IN
    /\ pc[c] = "insert" /\ StoreOpen
    /\ rows' = rows \cup {a} /\ status' = [status EXCEPT ![a] = "starting"]
    /\ Step(c, "start")
    /\ UNCHANGED <<process, monitor, emails, files, history>>

CreateFails(c) ==
    /\ pc[c] = "insert"
    /\ Step(c, "error")
    /\ UNCHANGED <<process, monitor, disk, history>>

\* Deletions of a that have already passed StopAccount.
PastStop(a) == \E d \in Clients : At(d, "deleteRow", a) \/ At(d, "removeDir", a)

\* monitor.StartAccount
StartAccount(a) ==
    worker' = IF worker[a] \in InMap THEN worker ELSE [worker EXCEPT ![a] = "loading"]

CreateStart(c) ==
    LET a == target[c] IN
    /\ pc[c] = "start"
    /\ StartAccount(a)
    /\ raced' = IF a \notin rows \/ PastStop(a) THEN raced \cup {a} ELSE raced
    /\ late' = IF phase \in {"waiting", "ending"} /\ ~interrupted THEN late \cup {a} ELSE late
    /\ Step(c, "ok")
    /\ UNCHANGED <<process, cancelled, serving, disk, abandoned, lost>>

\* Delete of an account that GET /accounts lists, or listed before.
DeleteBegin(c, a) == status[a] # "none" /\ Begin(c, "stop", a)

\* Mutants of StopLookup: no wait for done; no cancel.
StopWithoutWait(c) ==
    /\ pc[c] = "stop"
    /\ cancelled' = [cancelled EXCEPT ![target[c]] = worker[target[c]] \in InMap]
    /\ Step(c, "deleteRow")
    /\ UNCHANGED <<process, worker, serving, disk, history>>

StopWithoutCancel(c) ==
    /\ pc[c] = "stop"
    /\ Step(c, IF worker[target[c]] \in InMap THEN "stopWait" ELSE "deleteRow")
    /\ UNCHANGED <<process, monitor, disk, history>>

\* monitor.StopAccount: look the worker up, cancel it, then wait for done.  (One step:
\* a worker that goes on in between is as if it was looked up later, and one that
\* leaves as if it was cancelled on its way out.)
StopLookup(c) ==
    LET a == target[c] IN
    /\ pc[c] = "stop"
    /\ IF worker[a] \in InMap
       THEN cancelled' = [cancelled EXCEPT ![a] = TRUE] /\ Step(c, "stopWait")
       ELSE UNCHANGED cancelled /\ Step(c, "deleteRow")
    /\ UNCHANGED <<process, worker, serving, disk, history>>

StopWait(c) ==
    /\ pc[c] = "stopWait" /\ worker[target[c]] = "done"
    /\ Step(c, "deleteRow")
    /\ UNCHANGED <<process, monitor, disk, history>>

\* repo.DeleteAccount, with the cascade to emails and attachments.
DeleteRow(c) ==
    LET a == target[c] IN
    /\ pc[c] = "deleteRow" /\ StoreOpen
    /\ rows' = rows \ {a} /\ emails' = emails \ {a}
    /\ Step(c, IF a \in rows THEN "removeDir" ELSE "notFound")
    /\ UNCHANGED <<process, monitor, status, files, history>>

DeleteRowFails(c) ==
    /\ pc[c] = "deleteRow"
    /\ Step(c, "error")
    /\ abandoned' = abandoned \cup {target[c]}
    /\ UNCHANGED <<process, monitor, disk, raced, lost, late>>

\* os.RemoveAll of the account's attachments.
RemoveDir(c) ==
    /\ pc[c] = "removeDir"
    /\ files' = files \ {target[c]}
    /\ Step(c, "ok")
    /\ UNCHANGED <<process, monitor, rows, status, emails, history>>

RemoveDirFails(c) ==
    /\ pc[c] = "removeDir"
    /\ Step(c, "error")
    /\ abandoned' = abandoned \cup {target[c]}
    /\ UNCHANGED <<process, monitor, disk, raced, lost, late>>

\* Manager.Sync
SyncBegin(c, a) == status[a] # "none" /\ Begin(c, "lookup", a)

SyncLookup(c) ==
    /\ pc[c] = "lookup"
    /\ Step(c, IF worker[target[c]] \in InMap THEN "offer" ELSE "error")
    /\ UNCHANGED <<process, monitor, disk, history>>

\* ctx.Done while offering the request or waiting for its result.  (No caller
\* need ever leave, so this is no part of CallStep.)
SyncGone(c) ==
    /\ pc[c] \in {"offer", "await"}
    /\ Step(c, "error")
    /\ UNCHANGED <<process, monitor, disk, history>>

-----------------------------------------------------------------------------
(* Workers. *)

Become(a, state) == worker' = [worker EXCEPT ![a] = state]

\* The buffered result of the request being served; its caller may have left.
Reply(a, outcome) ==
    /\ serving' = [serving EXCEPT ![a] = NoClient]
    /\ pc' = [c \in Clients |->
                 IF c = serving[a] /\ At(c, "await", a) THEN outcome ELSE pc[c]]
    /\ UNCHANGED target

\* UpdateMonitorState with the worker's ctx: lost when the ctx is done or the
\* row is deleted.
ShowIf(cond, a, text) ==
    status' = IF cond /\ a \in rows THEN [status EXCEPT ![a] = text] ELSE status
Show(a, text) == ShowIf(~Cancelled(a), a, text)

\* AccountSecret, which fails without a row or with a cancelled ctx.
Load(a) ==
    /\ worker[a] = "loading"
    /\ IF Cancelled(a) \/ a \notin rows
       THEN Become(a, "leaving") /\ UNCHANGED status
       ELSE Become(a, "syncing") /\ Show(a, "connecting")
    /\ UNCHANGED <<process, cancelled, serving, calls, rows, emails, files, history>>

\* The database fails when run asks for the account: run returns, and nothing
\* starts this worker again until the process restarts.
LoadFails(a) ==
    /\ worker[a] = "loading" /\ ~Cancelled(a) /\ a \in rows
    /\ Become(a, "leaving") /\ lost' = lost \cup {a}
    /\ UNCHANGED <<process, cancelled, serving, calls, disk, raced, abandoned, late>>

\* Mutants of Disconnected: a status clients do not know; run returns instead of
\* connecting again.
DisconnectedAsError(a) ==
    /\ Become(a, IF Cancelled(a) THEN "leaving" ELSE "waiting")
    /\ ShowIf(~Cancelled(a), a, "error")
    /\ Reply(a, "error")

DisconnectedForGood(a) ==
    /\ Become(a, "leaving")
    /\ ShowIf(~Cancelled(a), a, "reconnecting")
    /\ Reply(a, "error")

\* connected returns: run leaves when its ctx is done, else records the error
\* and waits.
Disconnected(a) ==
    /\ Become(a, IF Cancelled(a) THEN "leaving" ELSE "waiting")
    /\ ShowIf(~Cancelled(a), a, "reconnecting")
    /\ Reply(a, "error")

\* Nothing to store, or everything stored: sync returns nil.
SyncEnd(a) ==
    /\ worker[a] = "syncing"
    /\ Become(a, "idle") /\ Show(a, "idle") /\ Reply(a, "ok")
    /\ UNCHANGED <<process, cancelled, rows, emails, files, history>>

\* mailparse.Parse writes attachments, whether or not the ctx is done.
Download(a) ==
    /\ worker[a] = "syncing"
    /\ Become(a, "saving") /\ files' = files \cup {a}
    /\ UNCHANGED <<process, cancelled, serving, calls, rows, status, emails, history>>

\* SaveEmail: the foreign key refuses an email without an account.
SaveEmail(a) ==
    /\ worker[a] = "saving" /\ a \in rows /\ StoreOpen
    /\ Become(a, "syncing") /\ emails' = emails \cup {a}
    /\ UNCHANGED <<process, cancelled, serving, calls, rows, status, files, history>>

\* No account, a ctx that is done, or a database that fails or is closed.
SaveFails(a) ==
    /\ worker[a] = "saving"
    /\ Disconnected(a)
    /\ UNCHANGED <<process, cancelled, rows, emails, files, history>>

\* The connection fails, or the closed ctx closes it.
Disconnect(a) ==
    /\ worker[a] \in {"syncing", "idle"}
    /\ Disconnected(a)
    /\ UNCHANGED <<process, cancelled, rows, emails, files, history>>

\* IDLE ends with a notification.
Wake(a) ==
    /\ worker[a] = "idle"
    /\ Become(a, "syncing") /\ Show(a, "syncing")
    /\ UNCHANGED <<process, cancelled, serving, calls, rows, emails, files, history>>

\* IDLE ends with a request: the channel is unbuffered.
Take(a, c) ==
    /\ worker[a] = "idle" /\ At(c, "offer", a)
    /\ Become(a, "syncing") /\ Show(a, "syncing")
    /\ serving' = [serving EXCEPT ![a] = c]
    /\ Step(c, "await")
    /\ UNCHANGED <<process, cancelled, rows, emails, files, history>>

\* The backoff: ctx done, timer, or a request, which is refused.
Backoff(a) ==
    /\ worker[a] = "waiting"
    /\ Become(a, IF Cancelled(a) THEN "leaving" ELSE "loading")
    /\ UNCHANGED <<process, cancelled, serving, calls, disk, history>>

Refuse(a, c) ==
    /\ worker[a] = "waiting" /\ At(c, "offer", a)
    /\ Become(a, "loading") /\ Step(c, "error")
    /\ UNCHANGED <<process, cancelled, serving, disk, history>>

\* The deferred calls: delete from the map, then close(done) and wg.Done.
Forget(a) ==
    /\ worker[a] = "leaving" /\ Become(a, "removed")
    /\ UNCHANGED <<process, cancelled, serving, calls, disk, history>>

Done(a) ==
    /\ worker[a] = "removed" /\ Become(a, "done")
    /\ UNCHANGED <<process, cancelled, serving, calls, disk, history>>

-----------------------------------------------------------------------------
(* main.go: run.  It leaves its select after a signal or when ListenAndServe *)
(* fails; then its deferred calls are Manager.Close, stop and Store.Close.  *)

\* SIGTERM ends the signal context; Shutdown stops accepting calls.
Signal ==
    /\ phase = "serving" /\ phase' = "draining"
    /\ interrupted' = TRUE /\ accepting' = FALSE
    /\ UNCHANGED <<boots, monitor, calls, disk, history>>

Move(from, to) ==
    /\ phase = from /\ phase' = to
    /\ UNCHANGED <<boots, accepting, calls, disk, history>>

\* Shutdown returns when every call has returned, or after ShutdownWait.
Drained ==
    /\ Move("draining", "returning") /\ \A c \in Clients : Idle(c)
    /\ UNCHANGED <<interrupted, monitor>>

ShutdownTimeout ==
    /\ Move("draining", "returning") /\ \E c \in Clients : ~Idle(c)
    /\ UNCHANGED <<interrupted, monitor>>

\* ListenAndServe returns an error: no signal, no Shutdown, no call drained.
ServeFails == Move("serving", "returning") /\ UNCHANGED <<interrupted, monitor>>

\* A signal while run returns after that: nobody waits for it, but it is the
\* workers' context.
Interrupt ==
    /\ phase \in {"returning", "waiting", "ending"} /\ ~interrupted
    /\ interrupted' = TRUE
    /\ UNCHANGED <<phase, boots, accepting, monitor, calls, disk, history>>

\* Manager.Close: cancel the workers in the map, under m.mu.
CancelWorkers ==
    /\ Move("returning", "waiting")
    /\ cancelled' = [a \in Accounts |-> cancelled[a] \/ worker[a] \in InMap]
    /\ UNCHANGED <<interrupted, worker, serving>>

\* Mutant of WaitEnds: Close does not wait for the workers.
WaitSkipped == Move("waiting", "ending") /\ UNCHANGED <<interrupted, monitor>>

\* wg.Wait: for workers in the map at that time, later ones too.
WaitEnds ==
    /\ Move("waiting", "ending") /\ \A a \in Accounts : worker[a] \in {"none", "done"}
    /\ UNCHANGED <<interrupted, monitor>>

\* stop, which ends the signal context, and Store.Close.
CloseStore == Move("ending", "closed") /\ interrupted' = TRUE /\ UNCHANGED monitor

\* The process ends, after Close or killed at any time, and is started again:
\* Manager.Start starts a worker for every account before calls are served.
Boot ==
    /\ boots < MaxBoots /\ boots' = boots + 1
    /\ phase' = "serving" /\ interrupted' = FALSE /\ accepting' = TRUE
    /\ worker' = [a \in Accounts |-> IF a \in rows THEN "loading" ELSE "none"]
    /\ cancelled' = [a \in Accounts |-> FALSE]
    /\ serving' = [a \in Accounts |-> NoClient]
    /\ pc' = [c \in Clients |-> IF Idle(c) THEN pc[c] ELSE "error"]
    /\ abandoned' = {} /\ lost' = {} /\ late' = {}
    /\ UNCHANGED <<target, disk, raced>>

-----------------------------------------------------------------------------
CallBegin(c) ==
    \E a \in Accounts : CreateBegin(c, a) \/ DeleteBegin(c, a) \/ SyncBegin(c, a)

CallStep(c) ==
    \/ CreateInsert(c) \/ CreateFails(c) \/ CreateStart(c)
    \/ StopLookup(c) \/ StopWait(c) \/ DeleteRow(c) \/ DeleteRowFails(c)
    \/ RemoveDir(c) \/ RemoveDirFails(c)
    \/ SyncLookup(c)

WorkerStep(a) ==
    \/ Load(a) \/ SyncEnd(a) \/ Download(a) \/ SaveEmail(a) \/ SaveFails(a)
    \/ Disconnect(a) \/ Wake(a) \/ Backoff(a) \/ Forget(a) \/ Done(a)
    \/ \E c \in Clients : Take(a, c) \/ Refuse(a, c)

CloseDown == Drained \/ ShutdownTimeout \/ CancelWorkers \/ WaitEnds \/ CloseStore
Main == Signal \/ ServeFails \/ Interrupt \/ CloseDown \/ Boot

Next ==
    \/ \E c \in Clients : CallBegin(c) \/ CallStep(c) \/ SyncGone(c)
    \/ \E a \in Accounts : WorkerStep(a) \/ LoadFails(a)
    \/ Main

Spec == Init /\ [][Next]_vars

\* Goroutines are scheduled; once closeOnCancel has closed its connection, a
\* synchronisation or IDLE fails; the timer of Shutdown fires.
FairSpec ==
    /\ Spec
    /\ \A c \in Clients : WF_vars(CallStep(c))
    /\ \A a \in Accounts : WF_vars(WorkerStep(a)) /\ SF_vars(Cancelled(a) /\ Disconnect(a))
    /\ WF_vars(CloseDown)

\* A synchronisation handles finitely many messages, and a worker that comes to its
\* select again and again takes a request offered all the time.
AttentiveSpec ==
    /\ FairSpec
    /\ \A a \in Accounts : SF_vars(SyncEnd(a))
    /\ \A a \in Accounts, c \in Clients : SF_vars(Take(a, c) \/ Refuse(a, c))

-----------------------------------------------------------------------------
(* Properties. *)

\* The type of every variable.
TypeOK ==
    /\ phase \in {"serving", "draining", "returning", "waiting", "ending", "closed"}
    /\ boots \in 1 .. MaxBoots /\ interrupted \in BOOLEAN /\ accepting \in BOOLEAN
    /\ worker \in [Accounts -> InMap \cup {"none", "removed", "done"}]
    /\ cancelled \in [Accounts -> BOOLEAN]
    /\ serving \in [Accounts -> Clients \cup {NoClient}]
    /\ pc \in [Clients -> {"none", "insert", "start", "stop", "stopWait", "deleteRow",
                           "removeDir", "lookup", "offer", "await", "ok", "error", "notFound"}]
    /\ target \in [Clients -> Accounts]
    /\ rows \subseteq Accounts /\ emails \subseteq Accounts /\ files \subseteq Accounts
    /\ status \in [Accounts -> {"none", "starting", "connecting", "syncing", "idle", "reconnecting"}]
    /\ raced \subseteq Accounts /\ abandoned \subseteq Accounts
    /\ lost \subseteq Accounts /\ late \subseteq Accounts

\* Once a deletion has passed StopAccount, no worker of that account can write:
\* the wait for done comes before the row and the files go, unless the creation
\* of the same account had not reached StartAccount yet.
StoppedBeforeDeleted ==
    \A a \in Accounts : PastStop(a) /\ a \notin raced => worker[a] \notin Running

\* No email outlives its account, whatever a worker still in flight saves.
NoGhostMail == emails \subseteq rows

\* A deleted account leaves files behind only while its deletion still has to
\* remove them, when that failed or the process ended before it, or when the
\* account was created and deleted at the same time.
NoFilesWithoutAccount ==
    \A a \in files \ rows :
        a \in raced \cup abandoned \/ boots > 1 \/ \E c \in Clients : At(c, "removeDir", a)

\* Both: what a deletion leaves behind.  (The exemption of an account that is
\* created and deleted at the same time is real: its worker, started after the
\* files were removed, writes others.)
NothingLeft == NoGhostMail /\ NoFilesWithoutAccount

\* While the process serves, every account has a worker, except while it is
\* being created or deleted, after a deletion that failed, and after a failure of
\* the database when its worker loaded it.
Monitored ==
    phase = "serving" =>
        \A a \in rows :
            \/ worker[a] \in Running
            \/ a \in abandoned \cup lost
            \/ \E c \in Clients : \/ At(c, "start", a) \/ At(c, "stopWait", a)
                                  \/ At(c, "deleteRow", a)

\* After the database was closed no worker uses it, however run returned and not
\* even one started by a call that outlived Shutdown; with one exception, which is
\* real: the server failed, no Shutdown was called, and a creation started the worker
\* behind the loop of Manager.Close, which is all that cancels workers there.
StoreOutlivesWorkers ==
    ~StoreOpen =>
        \A a \in Accounts :
            worker[a] \in Running \ {"loading"} => a \in late /\ accepting

\* A worker serves at most one request, of a caller that asked for its account,
\* and a caller that still waits for a result is served by that worker.
ServedByWorker ==
    \A c \in Clients :
        pc[c] = "await" =>
            serving[target[c]] = c /\ worker[target[c]] \in {"syncing", "saving"}

\* A deletion waits for a worker that has been told, or has already left the map:
\* it never waits for one that goes on (StopAccount: cancel, then done).
WaitsForCancelled ==
    \A c \in Clients :
        pc[c] = "stopWait" =>
            \/ worker[target[c]] \in {"removed", "done"}
            \/ worker[target[c]] \in InMap /\ cancelled[target[c]]

\* After a signal the process closes: no worker, call or request, not even one
\* nobody will answer, holds it up for ever.  After a failure of the server too, except
\* for a worker that was started behind Close's loop and that nothing has cancelled.
ShutdownEnds ==
    phase # "serving" ~>
        \/ phase \in {"closed", "serving"}
        \/ \E a \in late : worker[a] \in Running /\ ~Cancelled(a)

\* A deletion returns: StopAccount does not wait for ever.
DeleteReturns ==
    \A c \in Clients :
        pc[c] \in {"stop", "stopWait"} ~> pc[c] \notin {"stop", "stopWait"}

\* openapi.yaml:228, "Monitor is reconnecting or unavailable": a sync request
\* to a monitor that cannot serve it is refused; its caller is not left waiting.
SyncAnswered ==
    \A c \in Clients : pc[c] = "offer" ~> (pc[c] # "offer" \/ phase # "serving")

-----------------------------------------------------------------------------
(* The promise that this module keeps (AccountBook). *)

Life ==
    [a \in Accounts |->
        IF status[a] = "none" THEN "unused" ELSE IF a \in rows THEN "kept" ELSE "deleted"]
Watched == {a \in Accounts : worker[a] \in Running}

\* How far a call is, without the steps its caller cannot tell apart.
Stage ==
    [insert |-> "create", start |-> "created",
     stop |-> "delete", stopWait |-> "delete", deleteRow |-> "unwatched", removeDir |-> "deleted",
     lookup |-> "sync", offer |-> "sync", await |-> "sync",
     none |-> "none", ok |-> "ok", error |-> "error", notFound |-> "notFound"]
Job == [c \in Clients |-> Stage[pc[c]]]
RunningAs ==
    IF phase \in {"draining", "returning", "waiting"} THEN "stopping"
    ELSE IF phase = "closed" THEN "stopped" ELSE phase

Book == INSTANCE AccountBook
    WITH running <- RunningAs, life <- Life, watched <- Watched, mail <- emails,
         job <- Job, about <- target

\* Whatever the handlers, the workers and the shutdown do at the same time, callers
\* see accounts created once and deleted once, with their mail; an account is
\* watched until there is a reason, and an answer is true (service.go, manager.go).
ImplementsBook == Book!Spec
=============================================================================
