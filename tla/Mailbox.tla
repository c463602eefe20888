------------------------------ MODULE Mailbox ------------------------------
(***************************************************************************)
(* One mailbox of paperwing: the goroutine that owns the IMAP connection   *)
(* of one account (internal/imapmon/manager.go: run, connected, sync,      *)
(* fetchOne), the account's row, emails and attachment files that outlive  *)
(* the process, the IMAP server at the other end (external), and one API   *)
(* client that asks for an immediate synchronisation.                      *)
(*                                                                         *)
(* A message is a pair <<uidvalidity, uid>>.  Every step of the worker is  *)
(* one IMAP command, one transaction or one file operation, so a lost      *)
(* connection, an I/O error or a crash can fall between any two of them.   *)
(* Locals of a function that has returned are reset to a fixed value.      *)
(***************************************************************************)
EXTENDS Naturals, FiniteSets

CONSTANTS
    MaxUid,      \* bound: UIDs the server hands out under one UIDVALIDITY
    MaxEpoch,    \* bound: UIDVALIDITY values the server goes through
    BatchSize,   \* fetchBatchSize: messages between two checkpoints
    Poison,      \* UIDs whose message mailparse.Parse rejects
    MaxCrashes,  \* bound: times the process is killed and started again
    MaxDrops,    \* bound: connections that fail or break
    MaxFaults    \* bound: database or disk operations that fail

ASSUME BoundsAssumption ==
    /\ MaxUid \in Nat /\ MaxEpoch \in Nat \ {0}
    /\ MaxCrashes \in Nat /\ MaxDrops \in Nat /\ MaxFaults \in Nat
ASSUME BatchAssumption == BatchSize \in Nat \ {0}
ASSUME PoisonAssumption == Poison \subseteq Nat

Uids == 1 .. MaxUid
Epochs == 1 .. MaxEpoch
Messages == Epochs \X Uids

VARIABLES
    validity, mail, uidNext,           \* server: UIDVALIDITY, live UIDs, UIDNEXT
    up, seen, notify,                  \* session: open, last announced UID, notify channel
    pc, selected, account, todo, batch, lastUID, response,   \* the worker
    row, emails, files, temps,         \* durable: accounts row, emails, attachments, .message-*
    request, asked,                    \* client of POST /accounts/{id}/sync
    crashes, drops, faults

server == <<validity, mail, uidNext>>
session == <<up, seen, notify>>
locals == <<selected, account, todo, batch, lastUID>>
disk == <<row, emails, files, temps>>
client == <<request, asked>>
budget == <<crashes, drops, faults>>
vars == <<server, session, pc, locals, response, disk, client, budget>>

NoAccount == [uidValidity |-> 0, lastUID |-> 0]

Init ==
    /\ validity = 1 /\ mail = {} /\ uidNext = 1
    /\ up = FALSE /\ seen = 0 /\ notify = FALSE
    /\ pc = "loading" /\ response = FALSE
    /\ selected = 0 /\ account = NoAccount /\ todo = {} /\ batch = 0 /\ lastUID = 0
    /\ row = [uidValidity |-> 0, lastUID |-> 0, status |-> "starting"]
    /\ emails = {} /\ files = [m \in Messages |-> "none"] /\ temps = 0
    /\ request = "none" /\ asked = {}
    /\ crashes = 0 /\ drops = 0 /\ faults = 0

-----------------------------------------------------------------------------
(* The IMAP server. *)

\* A message arrives and takes the next UID.
Deliver ==
    /\ uidNext <= MaxUid
    /\ mail' = mail \cup {uidNext} /\ uidNext' = uidNext + 1
    /\ UNCHANGED <<validity, session, pc, locals, response, disk, client, budget>>

\* Another client of the mailbox removes a message.
Expunge(u) ==
    /\ u \in mail
    /\ mail' = mail \ {u}
    /\ UNCHANGED <<validity, uidNext, session, pc, locals, response, disk, client, budget>>

\* The mailbox is recreated with n messages renumbered; its sessions end.
Recreate(n) ==
    /\ validity < MaxEpoch
    /\ validity' = validity + 1 /\ mail' = 1 .. n /\ uidNext' = n + 1
    /\ up' = FALSE
    /\ UNCHANGED <<seen, notify, pc, locals, response, disk, client, budget>>

\* The server tells the session about new mail; the handler's send to the
\* one-place notify channel is dropped when a notification is pending.
Announce ==
    /\ up /\ seen < uidNext - 1
    /\ seen' = uidNext - 1 /\ notify' = TRUE
    /\ UNCHANGED <<server, up, pc, locals, response, disk, client, budget>>

\* The connection breaks.
Drop ==
    /\ up /\ drops < MaxDrops
    /\ up' = FALSE /\ drops' = drops + 1
    /\ UNCHANGED <<server, seen, notify, pc, locals, response, disk, client, crashes, faults>>

-----------------------------------------------------------------------------
(* The client of the sync endpoint. *)

\* Messages the server has announced, or will announce on the next SELECT.
Announced == {u \in mail : up => u <= seen}

\* Manager.Sync: without a worker the call fails at once.
Ask ==
    /\ request \notin {"waiting", "taken"}
    /\ IF pc = "dead"
       THEN request' = "error" /\ asked' = {}
       ELSE request' = "waiting" /\ asked' = {validity} \X Announced
    /\ UNCHANGED <<server, session, pc, locals, response, disk, budget>>

\* The caller's context ends before the answer.
GiveUp ==
    /\ request \in {"waiting", "taken"}
    /\ request' = "none" /\ asked' = {}
    /\ UNCHANGED <<server, session, pc, locals, response, disk, budget>>

\* result is a channel of capacity one: the worker never waits to answer, and
\* nobody reads the answer of a caller that has left.
Answer(outcome) ==
    /\ request' = IF response /\ request = "taken" THEN outcome ELSE request
    /\ response' = FALSE

-----------------------------------------------------------------------------
(* The worker. *)

Goto(label) == pc' = label

\* Mutant of Disconnect: the request that was being served is not answered.
DisconnectSilently ==
    /\ Goto("waiting")
    /\ up' = FALSE /\ seen' = 0 /\ notify' = FALSE
    /\ row' = [row EXCEPT !.status = "reconnecting"]
    /\ selected' = 0 /\ account' = NoAccount /\ todo' = {} /\ batch' = 0 /\ lastUID' = 0
    /\ response' = FALSE /\ UNCHANGED <<request, asked>>

\* connected returns an error: its deferred calls close the client, a sync
\* request in progress gets the error, and run records the state and waits.
Disconnect ==
    /\ Goto("waiting")
    /\ up' = FALSE /\ seen' = 0 /\ notify' = FALSE
    /\ row' = [row EXCEPT !.status = "reconnecting"]
    /\ selected' = 0 /\ account' = NoAccount /\ todo' = {} /\ batch' = 0 /\ lastUID' = 0
    /\ Answer("error")
    /\ UNCHANGED asked

Faulty == faults < MaxFaults /\ faults' = faults + 1

\* A step whose IMAP command, transaction or file operation fails.
Fails == Disconnect /\ UNCHANGED <<emails, files, temps>>

Load ==
    /\ pc = "loading"
    /\ account' = [uidValidity |-> row.uidValidity, lastUID |-> row.lastUID]
    /\ row' = [row EXCEPT !.status = "connecting"]
    /\ Goto("connecting")
    /\ UNCHANGED <<server, session, selected, todo, batch, lastUID, response,
                   emails, files, temps, client, budget>>

\* AccountSecret fails (the row cannot be read or decrypted): run returns and
\* nothing starts this worker again until the process restarts.
LoadFails ==
    /\ pc = "loading" /\ Faulty
    /\ Goto("dead")
    /\ UNCHANGED <<server, session, locals, response, disk, client, crashes, drops>>

\* Dial, LOGIN, the IDLE capability and SELECT INBOX, once per connection.
Connect ==
    /\ pc = "connecting"
    /\ up' = TRUE /\ selected' = validity /\ seen' = uidNext - 1 /\ notify' = FALSE
    /\ row' = [row EXCEPT !.status = "syncing"]
    /\ Goto("validating")
    /\ UNCHANGED <<server, account, todo, batch, lastUID, response,
                   emails, files, temps, client, budget>>

ConnectFails ==
    /\ pc = "connecting" /\ drops < MaxDrops
    /\ drops' = drops + 1
    /\ Fails
    /\ UNCHANGED <<server, crashes, faults>>

\* Mutant of Validate: the old mark survives the change.
ValidateKeepsMark ==
    /\ pc = "validating"
    /\ IF account.uidValidity = selected
       THEN Goto("searching") /\ UNCHANGED <<row, emails>>
       ELSE row' = [row EXCEPT !.uidValidity = selected] /\ emails' = {} /\ Goto("wiping")
    /\ UNCHANGED <<server, session, locals, response, files, temps, client, budget>>

\* ResetUIDValidity: one transaction.
Validate ==
    /\ pc = "validating"
    /\ IF account.uidValidity = selected
       THEN Goto("searching") /\ UNCHANGED <<row, emails>>
       ELSE /\ row' = [row EXCEPT !.uidValidity = selected, !.lastUID = 0]
            /\ emails' = {}
            /\ Goto("wiping")
    /\ UNCHANGED <<server, session, locals, response, files, temps, client, budget>>

ValidateFails ==
    /\ pc = "validating" /\ account.uidValidity # selected
    /\ Faulty /\ Fails
    /\ UNCHANGED <<server, crashes, drops>>

\* Mutant of Survivors: the directory is not removed.
NothingRemoved(kept) == files

\* os.RemoveAll of the account's directory.  A failure is only logged, and
\* leaves what was not removed yet.
Survivors(kept) == [m \in Messages |-> IF m \in kept THEN files[m] ELSE "none"]

\* Mutant of Wipe: account.LastUID = 0 is missing.
WipeKeepsMark ==
    /\ pc = "wiping"
    /\ files' = Survivors({})
    /\ account' = [account EXCEPT !.uidValidity = selected]
    /\ Goto("searching")
    /\ UNCHANGED <<server, session, selected, todo, batch, lastUID, response,
                   row, emails, temps, client, budget>>

Wipe ==
    /\ pc = "wiping"
    /\ \/ files' = Survivors({}) /\ UNCHANGED faults
       \/ Faulty /\ \E kept \in SUBSET {m \in Messages : files[m] # "none"} :
                        files' = Survivors(kept)
    /\ account' = [uidValidity |-> selected, lastUID |-> 0]
    /\ Goto("searching")
    /\ UNCHANGED <<server, session, selected, todo, batch, lastUID, response,
                   row, emails, temps, client, crashes, drops>>

\* UID SEARCH UID lastUID+1:*.  The asterisk is the highest UID of the
\* mailbox, so with nothing newer the range still holds that one message.
Found ==
    LET visible == {u \in mail : u <= seen}
        newer == {u \in visible : u > account.lastUID}
    IN IF newer # {} THEN newer ELSE {u \in visible : \A v \in visible : v <= u}

Search ==
    /\ pc = "searching" /\ up
    /\ todo' = Found /\ lastUID' = account.lastUID /\ batch' = 0
    /\ Goto(IF Found = {} THEN "completing" ELSE "fetching")
    /\ UNCHANGED <<server, session, selected, account, response, disk, client, budget>>

\* UIDs are fetched in ascending order.
IsNext(u) == u \in todo /\ \A v \in todo : u <= v
Msg(u) == <<account.uidValidity, u>>

\* FETCH, streamed into a temporary file.
Fetch ==
    /\ pc = "fetching" /\ up
    /\ \E u \in mail : IsNext(u)
    /\ temps' = temps + 1
    /\ Goto("parsing")
    /\ UNCHANGED <<server, session, locals, response, row, emails, files, client, budget>>

\* "disappeared before fetch"
FetchVanished ==
    /\ pc = "fetching" /\ up
    /\ \E u \in todo : IsNext(u) /\ u \notin mail
    /\ Fails
    /\ UNCHANGED <<server, budget>>

\* The temporary file cannot be created or written; it is removed.
FetchFails ==
    /\ pc = "fetching" /\ Faulty /\ Fails
    /\ UNCHANGED <<server, crashes, drops>>

\* saveAttachment opens the attachment's file with O_TRUNC, whether or not a
\* stored email already refers to it.
Parse ==
    /\ pc = "parsing"
    /\ \E u \in todo \ Poison : IsNext(u) /\ files' = [files EXCEPT ![Msg(u)] = "torn"]
    /\ Goto("writing")
    /\ UNCHANGED <<server, session, locals, response, row, emails, temps, client, budget>>

\* Parse rejects the message, perhaps after it wrote an attachment.
ParseFails ==
    /\ pc = "parsing"
    /\ \E u \in todo \cap Poison :
          /\ IsNext(u)
          /\ \E left \in {files[Msg(u)], "whole"} : files' = [files EXCEPT ![Msg(u)] = left]
    /\ temps' = temps - 1
    /\ Disconnect
    /\ UNCHANGED <<server, emails, budget>>

\* Mutant of Write: the end of the attachment is not written.
WriteShort ==
    /\ pc = "writing" /\ \E u \in todo : IsNext(u)
    /\ Goto("saving")
    /\ UNCHANGED <<server, session, locals, response, disk, client, budget>>

Write ==
    /\ pc = "writing"
    /\ \E u \in todo : IsNext(u) /\ files' = [files EXCEPT ![Msg(u)] = "whole"]
    /\ Goto("saving")
    /\ UNCHANGED <<server, session, locals, response, row, emails, temps, client, budget>>

\* The copy fails: the attachment's file is removed.
WriteFails ==
    /\ pc = "writing" /\ Faulty
    /\ \E u \in todo : IsNext(u) /\ files' = [files EXCEPT ![Msg(u)] = "none"]
    /\ temps' = temps - 1
    /\ Disconnect
    /\ UNCHANGED <<server, emails, crashes, drops>>

\* SaveEmail: INSERT OR IGNORE, and the attachments' rows with it.
Save ==
    /\ pc = "saving"
    /\ \E u \in todo :
          /\ IsNext(u)
          /\ emails' = emails \cup {Msg(u)}
          /\ todo' = todo \ {u}
          /\ lastUID' = IF u > lastUID THEN u ELSE lastUID
          /\ Goto(IF batch + 1 = BatchSize \/ todo = {u} THEN "completing" ELSE "fetching")
    /\ temps' = temps - 1 /\ batch' = batch + 1
    /\ UNCHANGED <<server, session, selected, account, response, row, files, client, budget>>

SaveFails ==
    /\ pc = "saving" /\ Faulty
    /\ temps' = temps - 1
    /\ Disconnect
    /\ UNCHANGED <<server, emails, files, crashes, drops>>

\* Mutants of Complete: the mark is one too high; the rest of the search is
\* forgotten after the first batch.
CompleteTooFar ==
    /\ pc = "completing"
    /\ row' = [row EXCEPT !.uidValidity = account.uidValidity, !.lastUID = lastUID + 1]
    /\ account' = [account EXCEPT !.lastUID = lastUID + 1]
    /\ batch' = 0
    /\ Goto(IF todo = {} THEN "answering" ELSE "fetching")
    /\ UNCHANGED <<server, session, selected, todo, lastUID, response,
                   emails, files, temps, client, budget>>

CompleteOnce ==
    /\ pc = "completing"
    /\ row' = [row EXCEPT !.uidValidity = account.uidValidity, !.lastUID = lastUID]
    /\ account' = [account EXCEPT !.lastUID = lastUID]
    /\ batch' = 0 /\ todo' = {}
    /\ Goto("answering")
    /\ UNCHANGED <<server, session, selected, lastUID, response,
                   emails, files, temps, client, budget>>

\* CompleteSync: the checkpoint after every batch.
Complete ==
    /\ pc = "completing"
    /\ row' = [row EXCEPT !.uidValidity = account.uidValidity, !.lastUID = lastUID]
    /\ account' = [account EXCEPT !.lastUID = lastUID]
    /\ batch' = 0
    /\ Goto(IF todo = {} THEN "answering" ELSE "fetching")
    /\ UNCHANGED <<server, session, selected, todo, lastUID, response,
                   emails, files, temps, client, budget>>

CompleteFails ==
    /\ pc = "completing" /\ Faulty /\ Fails
    /\ UNCHANGED <<server, crashes, drops>>

\* sync returned nil: the request that caused it is answered.
SyncDone ==
    /\ pc = "answering"
    /\ Answer("ok") /\ UNCHANGED asked
    /\ row' = [row EXCEPT !.status = "idle"]
    /\ Goto("idleStart")
    /\ UNCHANGED <<server, session, locals, emails, files, temps, budget>>

\* Mutant of IdleStart: a pending notification is drained before IDLE.
IdleStartDrains ==
    /\ pc = "idleStart" /\ up
    /\ notify' = FALSE /\ Goto("idling")
    /\ UNCHANGED <<server, up, seen, locals, response, disk, client, budget>>

IdleStart ==
    /\ pc = "idleStart" /\ up
    /\ Goto("idling")
    /\ UNCHANGED <<server, session, locals, response, disk, client, budget>>

\* The select of connected: a notification, or a request.
WakeOnNotify ==
    /\ pc = "idling" /\ notify
    /\ notify' = FALSE
    /\ Goto("idleStop")
    /\ UNCHANGED <<server, up, seen, locals, response, disk, client, budget>>

WakeOnRequest ==
    /\ pc = "idling" /\ request = "waiting"
    /\ request' = "taken" /\ response' = TRUE
    /\ Goto("idleStop")
    /\ UNCHANGED <<server, session, locals, disk, asked, budget>>

IdleStop ==
    /\ pc = "idleStop" /\ up
    /\ row' = [row EXCEPT !.status = "syncing"]
    /\ Goto("searching")
    /\ UNCHANGED <<server, session, locals, response, emails, files, temps, client, budget>>

\* A command on a broken connection returns an error.
ConnectionLost ==
    /\ pc \in {"searching", "fetching", "idleStart", "idling", "idleStop"} /\ ~up
    /\ Fails
    /\ UNCHANGED <<server, budget>>

\* The backoff timer fires, or a request cuts the wait short and is refused.
Retry ==
    /\ pc = "waiting"
    /\ Goto("loading")
    /\ UNCHANGED <<server, session, locals, response, disk, client, budget>>

Refuse ==
    /\ pc = "waiting" /\ request = "waiting"
    /\ request' = "error"
    /\ Goto("loading")
    /\ UNCHANGED <<server, session, locals, response, disk, asked, budget>>

\* The process dies and main starts it again (Manager.Start).  What is on disk
\* stays, a directory being removed keeps the files not reached yet, and the
\* client's call fails.
Crash ==
    /\ crashes < MaxCrashes /\ crashes' = crashes + 1
    /\ Goto("loading")
    /\ up' = FALSE /\ seen' = 0 /\ notify' = FALSE /\ response' = FALSE
    /\ selected' = 0 /\ account' = NoAccount /\ todo' = {} /\ batch' = 0 /\ lastUID' = 0
    /\ \/ UNCHANGED files
       \/ pc = "wiping" /\ \E kept \in SUBSET {m \in Messages : files[m] # "none"} :
                               files' = Survivors(kept)
    /\ request' = "none" /\ asked' = {}
    /\ UNCHANGED <<server, row, emails, temps, drops, faults>>

-----------------------------------------------------------------------------
ServerStep ==
    \/ Deliver
    \/ \E u \in Uids : Expunge(u)
    \/ \E n \in 0 .. MaxUid : Recreate(n)
    \/ Announce
    \/ Drop

ClientStep == Ask \/ GiveUp

WorkerStep ==
    \/ Load \/ Connect \/ Validate \/ Wipe \/ Search \/ Fetch \/ FetchVanished
    \/ Parse \/ ParseFails \/ Write \/ Save \/ Complete \/ SyncDone
    \/ IdleStart \/ WakeOnNotify \/ WakeOnRequest \/ IdleStop \/ ConnectionLost
    \/ Retry \/ Refuse

Failure ==
    \/ LoadFails \/ ConnectFails \/ ValidateFails \/ FetchFails \/ WriteFails
    \/ SaveFails \/ CompleteFails \/ Crash

Next == ServerStep \/ ClientStep \/ WorkerStep \/ Failure

Spec == Init /\ [][Next]_vars

\* The runtime schedules the goroutine and fires its timers, commands return,
\* and an IMAP server tells an open session about new mail.
FairSpec == Spec /\ WF_vars(WorkerStep) /\ WF_vars(Announce)
-----------------------------------------------------------------------------
(* Properties. *)

Labels == {"loading", "connecting", "validating", "wiping", "searching", "fetching",
           "parsing", "writing", "saving", "completing", "answering", "idleStart",
           "idling", "idleStop", "waiting", "dead"}

Statuses == {"starting", "connecting", "syncing", "idle", "reconnecting"}
Marks == [uidValidity : 0 .. MaxEpoch, lastUID : 0 .. MaxUid]
Rows == [uidValidity : 0 .. MaxEpoch, lastUID : 0 .. MaxUid, status : Statuses]

\* The type of every variable: a worker's marks are UIDs, the files of every
\* message are absent, half written or whole.
TypeOK ==
    /\ validity \in Epochs /\ mail \subseteq Uids /\ uidNext \in 1 .. MaxUid + 1
    /\ up \in BOOLEAN /\ seen \in 0 .. MaxUid /\ notify \in BOOLEAN
    /\ pc \in Labels /\ response \in BOOLEAN
    /\ selected \in 0 .. MaxEpoch
    /\ account \in Marks
    /\ todo \subseteq Uids /\ batch \in 0 .. BatchSize /\ lastUID \in 0 .. MaxUid
    /\ row \in Rows /\ emails \subseteq Messages
    /\ files \in [Messages -> {"none", "torn", "whole"}] /\ temps \in Nat
    /\ request \in {"none", "waiting", "taken", "ok", "error"} /\ asked \subseteq Messages
    /\ crashes \in Nat /\ drops \in Nat /\ faults \in Nat

\* No message is skipped: the mark that decides what the next search asks for
\* (accounts.last_uid) never passes a message the server still has and the
\* database does not, whatever was expunged, renumbered, dropped or crashed.
NoSkip ==
    row.uidValidity = validity =>
        \A u \in mail : u <= row.lastUID => <<validity, u>> \in emails

\* Emails of two UIDVALIDITY values are never stored together: a UID names one
\* message (ResetUIDValidity commits before anything of the new value is saved).
OneEpoch == \A m \in emails : m[1] = row.uidValidity

\* While the worker sits in IDLE on an open connection, every announced message
\* is stored or a notification is pending: one that arrives during a sync or
\* between two IDLE commands is never forgotten by the one-place channel.
NoLostWakeup ==
    pc = "idling" /\ up =>
        notify \/ \A u \in mail : u <= seen => <<validity, u>> \in emails

\* As long as nothing crashed and no disk operation failed, the attachments of
\* a stored email are whole, except while its file is being written again.
StoredWhole ==
    \A m \in emails :
        \/ files[m] = "whole"
        \/ crashes + faults > 0
        \/ pc = "writing" /\ IsNext(m[2])

\* Every attachment file belongs to a stored email, or to the message being
\* saved, or is about to be removed after a change of UIDVALIDITY; only a crash,
\* a failed disk or database operation or a rejected message leaves others.
NoOrphans ==
    \A m \in Messages \ emails :
        files[m] # "none" =>
            \/ pc \in {"writing", "saving"} /\ m = Msg(m[2]) /\ IsNext(m[2])
            \/ pc = "wiping"
            \/ crashes + faults > 0
            \/ m[2] \in Poison

\* Downloads leave at most one temporary file per crash behind (the deferred
\* os.Remove of fetchOne covers every return).
TempsBounded ==
    temps <= crashes + (IF pc \in {"parsing", "writing", "saving"} THEN 1 ELSE 0)

\* Both: what a download leaves behind has a cause.
NoLeftovers == NoOrphans /\ TempsBounded

\* Under one UIDVALIDITY the mark only grows and no stored email is lost; a
\* change of UIDVALIDITY only moves on to a newer one.
NothingForgotten ==
    [][IF row'.uidValidity = row.uidValidity
       THEN row'.lastUID >= row.lastUID /\ emails \subseteq emails'
       ELSE row'.uidValidity > row.uidValidity]_<<row, emails>>

\* A sync request answered with success has stored every message that the
\* server had announced when it was asked and still has.
SyncMeansStored ==
    [][request' = "ok" /\ request # "ok" =>
           \A m \in asked : m[1] = validity /\ m[2] \in mail => m \in emails]_vars

\* A message that reaches the mailbox is eventually stored, unless it is
\* expunged or the mailbox is recreated first.
Replicated ==
    \A e \in Epochs, u \in Uids :
        (validity = e /\ u \in mail) ~>
            (<<e, u>> \in emails \/ validity # e \/ u \notin mail)

\* The worker answers every sync request it was sent.
RequestsAnswered == (request \in {"waiting", "taken"}) ~> (request \notin {"waiting", "taken"})

\* README.md:6-8, "exposes received mail through one API": a well-formed message
\* is eventually stored, whatever else the mailbox holds.
SoundMailExposed ==
    \A u \in Uids \ Poison :
        (validity = 1 /\ u \in mail) ~> (<<1, u>> \in emails \/ validity # 1 \/ u \notin mail)

\* openapi.yaml:287, the download of an attachment returns "Attachment bytes":
\* the file of a stored email that is being written again, or was cut short, is
\* eventually whole, whether or not the message is still on the server.
AttachmentsServed ==
    \A m \in Messages :
        (m \in emails /\ files[m] # "whole") ~> (m \in emails => files[m] = "whole")

\* What a replica of the mailbox promises, and the mapping under which the
\* worker keeps it: the account's row and emails are the replica.
Replica == INSTANCE MailReplica WITH
               epoch <- row.uidValidity, mark <- row.lastUID, kept <- emails

ImplementsReplica == Replica!Spec
=============================================================================
