--------------------------- MODULE MailboxProofs ---------------------------
(***************************************************************************)
(* Proofs about Mailbox, for any number of messages, UIDVALIDITY values,   *)
(* batch size, crashes, broken connections and failures.                   *)
(***************************************************************************)
EXTENDS Mailbox, TLAPS

Handling == {"parsing", "writing", "saving"}           \* one message downloaded
Fetching == {"fetching"} \cup Handling                 \* messages left to fetch
Syncing == Fetching \cup {"completing"}
Resting == {"answering", "idleStart", "idling"}        \* nothing left to fetch
Selected == {"searching", "idleStop"} \cup Syncing \cup Resting
Online == {"validating", "wiping"} \cup Selected

Stored(u) == <<validity, u>> \in emails

\* Counters and the temporary file.
CountInv ==
    /\ pc \in Fetching => batch < BatchSize /\ todo # {}
    /\ pc \in Handling => temps > 0

\* The session's view of the mailbox.
SessionInv ==
    /\ up => pc \in Online /\ selected = validity
    /\ pc \in Online => selected \in Epochs /\ selected <= validity
    /\ pc \in Online /\ selected = validity => seen < uidNext

\* Which UIDVALIDITY the worker, the row and the emails belong to.
EpochInv ==
    /\ row.uidValidity <= validity
    /\ row.uidValidity = validity => row.lastUID < uidNext
    /\ pc \in {"connecting", "validating"} =>
           account.uidValidity = row.uidValidity /\ account.lastUID = row.lastUID
    /\ pc \in {"validating", "wiping"} => row.uidValidity <= selected
    /\ pc = "wiping" => row.uidValidity = selected /\ row.lastUID = 0
    /\ pc \in Selected => /\ account.uidValidity = selected /\ row.uidValidity = selected
                          /\ account.lastUID = row.lastUID

\* What a synchronisation has stored and what it still has to fetch: nothing
\* live is missing up to lastUID, nor up to a message to be fetched unless it is
\* to be fetched as well.
BatchInv ==
    pc \in Syncing =>
        /\ row.lastUID <= lastUID
        /\ selected = validity =>
              /\ lastUID < uidNext
              /\ \A t \in todo : t < uidNext
              /\ \A u \in mail : u <= lastUID => Stored(u)
              /\ \A u \in mail, t \in todo : u <= t => Stored(u) \/ u \in todo

\* Announced mail is stored, about to be fetched, or notified.
WakeInv ==
    selected = validity =>
        /\ pc \in Syncing => \A u \in mail : u <= seen => Stored(u) \/ notify \/ u \in todo
        /\ pc \in Resting => \A u \in mail : u <= seen => Stored(u) \/ notify

\* What a request asked for is in sight of the session that serves it, then
\* stored or about to be fetched.
AskedInv ==
    /\ \A u \in mail : u < uidNext
    /\ \A m \in asked : m[1] <= validity /\ (m[1] = validity => m[2] < uidNext)
    /\ request = "waiting" /\ up => \A m \in asked : m[1] = validity => m[2] <= seen
    /\ response /\ request = "taken" =>
          /\ pc \in {"idleStop", "searching", "answering"} \cup Syncing
          /\ (pc = "idleStop" /\ up) \/ pc = "searching" =>
                \A m \in asked : m[1] <= selected /\ (m[1] = validity => m[2] <= seen)
          /\ pc \in Syncing =>
                \A m \in asked : /\ m[1] <= selected
                                 /\ m[1] = validity /\ m[2] \in mail => m \in emails \/ m[2] \in todo
          /\ pc = "answering" =>
                \A m \in asked : m[1] = validity /\ m[2] \in mail => m \in emails

\* The attachment written for the message at hand.
FileInv ==
    /\ pc = "wiping" => emails = {}
    /\ pc = "saving" => \A u \in todo : IsNext(u) => files[Msg(u)] = "whole"

Safe ==
    /\ NoSkip /\ OneEpoch
    /\ CountInv /\ SessionInv /\ EpochInv /\ BatchInv /\ WakeInv
    /\ AskedInv /\ FileInv /\ TempsBounded /\ StoredWhole /\ NoOrphans
Inv == TypeOK /\ Safe

-----------------------------------------------------------------------------
(* Types. *)

\* The fields of the worker's mark and of the account's row.
LEMMA Fields ==
  ASSUME TypeOK
  PROVE  /\ account.uidValidity \in 0 .. MaxEpoch /\ account.lastUID \in 0 .. MaxUid
         /\ row.uidValidity \in 0 .. MaxEpoch /\ row.lastUID \in 0 .. MaxUid
  BY DEF TypeOK, Rows, Marks

\* Records stay of their type when a field changes.
LEMMA StatusType ==
  ASSUME NEW r \in Rows, NEW s \in Statuses
  PROVE  [r EXCEPT !.status = s] \in Rows
  BY DEF Rows

LEMMA RowType ==
  ASSUME NEW r \in Rows, NEW e \in 0 .. MaxEpoch, NEW u \in 0 .. MaxUid
  PROVE  [r EXCEPT !.uidValidity = e, !.lastUID = u] \in Rows
  BY DEF Rows

LEMMA MarkType ==
  ASSUME NEW e \in 0 .. MaxEpoch, NEW u \in 0 .. MaxUid
  PROVE  /\ [uidValidity |-> e, lastUID |-> u] \in Marks
         /\ \A a \in Marks : [a EXCEPT !.lastUID = u] \in Marks
  BY DEF Marks

LEMMA NoAccountType == NoAccount \in Marks
  BY BoundsAssumption DEF NoAccount, Marks

\* What Load reads and writes.
LEMMA LoadedType ==
  ASSUME TypeOK
  PROVE  /\ [uidValidity |-> row.uidValidity, lastUID |-> row.lastUID] \in Marks
         /\ [row EXCEPT !.status = "connecting"] \in Rows
  BY DEF TypeOK, Rows, Marks, Statuses

\* Every error return of connected leaves well-typed values.
LEMMA DisconnectType ==
  ASSUME TypeOK, Disconnect
  PROVE  /\ pc' \in Labels /\ up' \in BOOLEAN /\ seen' \in 0 .. MaxUid /\ notify' \in BOOLEAN
         /\ row' \in Rows /\ response' \in BOOLEAN
         /\ selected' \in 0 .. MaxEpoch /\ account' \in Marks /\ todo' \subseteq Uids
         /\ batch' \in 0 .. BatchSize /\ lastUID' \in 0 .. MaxUid
         /\ request' \in {"none", "waiting", "taken", "ok", "error"} /\ asked' \subseteq Messages
<1>1. row' \in Rows
  BY StatusType DEF Disconnect, TypeOK, Statuses
<1>2. account' \in Marks
  BY NoAccountType DEF Disconnect
<1>3. up' \in BOOLEAN /\ notify' \in BOOLEAN /\ response' \in BOOLEAN
  BY DEF Disconnect, Answer
<1>4. request' \in {"none", "waiting", "taken", "ok", "error"} /\ asked' \subseteq Messages
  BY DEF Disconnect, Answer, TypeOK
<1>5. seen' \in 0 .. MaxUid /\ selected' \in 0 .. MaxEpoch /\ batch' \in 0 .. BatchSize
  BY BoundsAssumption, BatchAssumption DEF Disconnect
<1> QED
  BY <1>1, <1>2, <1>3, <1>4, <1>5 DEF Disconnect, Goto, Labels

\* A step keeps the types; a temporary file that is removed was there.
LEMMA TypeStep ==
  ASSUME Inv, Next PROVE TypeOK'
<1> USE BoundsAssumption, BatchAssumption, Fields
<1> USE DEF Inv, Safe, TypeOK, CountInv, SessionInv, EpochInv, Statuses,
        Uids, Epochs, Messages, Labels, Handling, Fetching, Syncing, Resting, Selected, Online,
        server, session, locals, disk, client, budget, Goto, Answer, Faulty, Msg, IsNext
<1>1. CASE Deliver
  BY <1>1 DEF Deliver
<1>2. CASE \E u \in Uids : Expunge(u)
  BY <1>2 DEF Expunge
<1>3. CASE \E n \in 0 .. MaxUid : Recreate(n)
  <2>1. PICK n \in 0 .. MaxUid : Recreate(n)
    BY <1>3
  <2>2. up' \in BOOLEAN
    BY <2>1 DEF Recreate
  <2>3. validity' \in Epochs /\ mail' \subseteq Uids /\ uidNext' \in 1 .. MaxUid + 1
    BY <2>1 DEF Recreate
  <2> QED
    BY <2>1, <2>2, <2>3 DEF Recreate
<1>4. CASE Announce
  BY <1>4 DEF Announce
<1>5. CASE Drop
  <2>1. up' \in BOOLEAN
    BY <1>5 DEF Drop
  <2>2. drops' \in Nat
    BY <1>5 DEF Drop
  <2> QED
    BY <1>5, <2>1, <2>2 DEF Drop
<1>6. CASE Ask
  <2>1. Announced \subseteq Uids
    BY DEF Announced
  <2>2. {validity} \X Announced \subseteq Messages
    BY <2>1 DEF Messages
  <2>3. asked' \subseteq Messages
    BY <1>6, <2>2 DEF Ask
  <2>4. request' \in {"none", "waiting", "taken", "ok", "error"}
    BY <1>6 DEF Ask
  <2> QED
    BY <1>6, <2>3, <2>4 DEF Ask
<1>7. CASE GiveUp
  BY <1>7 DEF GiveUp
<1>8. CASE Load
  BY <1>8, LoadedType DEF Load
<1>9. CASE LoadFails
  BY <1>9 DEF LoadFails
<1>10. CASE Connect
  <2>1. up' \in BOOLEAN
    BY <1>10 DEF Connect
  <2>2. row' \in Rows
    BY <1>10, StatusType DEF Connect
  <2>3. selected' \in 0 .. MaxEpoch /\ seen' \in 0 .. MaxUid
    BY <1>10 DEF Connect
  <2> QED
    BY <1>10, <2>1, <2>2, <2>3 DEF Connect
<1>11. CASE ConnectFails
  BY <1>11, DisconnectType DEF ConnectFails, Fails
<1>12. CASE Validate
  <2>0. row \in Rows /\ selected \in 0 .. MaxEpoch /\ 0 \in 0 .. MaxUid
    OBVIOUS
  <2>1. [row EXCEPT !.uidValidity = selected, !.lastUID = 0] \in Rows
    BY <2>0, RowType, Zenon
  <2>2. row' \in Rows
    BY <1>12, <2>1 DEF Validate
  <2>3. emails' \subseteq Messages
    BY <1>12 DEF Validate
  <2> QED
    BY <1>12, <2>2, <2>3 DEF Validate
<1>13. CASE ValidateFails
  BY <1>13, DisconnectType DEF ValidateFails, Fails
<1>14. CASE Wipe
  <2>1. files' \in [Messages -> {"none", "torn", "whole"}]
    BY <1>14 DEF Wipe, Survivors
  <2>2. account' \in Marks
    BY <1>14, MarkType DEF Wipe
  <2>3. faults' \in Nat
    BY <1>14 DEF Wipe
  <2> QED
    BY <1>14, <2>1, <2>2, <2>3 DEF Wipe
<1>15. CASE Search
  <2>1. todo' \subseteq Uids
    BY <1>15 DEF Search, Found
  <2>2. lastUID' \in 0 .. MaxUid /\ batch' \in 0 .. BatchSize
    BY <1>15 DEF Search
  <2>3. pc' \in Labels
    BY <1>15 DEF Search
  <2> QED
    BY <1>15, <2>1, <2>2, <2>3 DEF Search
<1>16. CASE Fetch
  BY <1>16 DEF Fetch
<1>17. CASE FetchVanished
  BY <1>17, DisconnectType DEF FetchVanished, Fails
<1>18. CASE FetchFails
  BY <1>18, DisconnectType DEF FetchFails, Fails
<1>19. CASE Parse
  BY <1>19 DEF Parse
<1>20. CASE ParseFails
  BY <1>20, DisconnectType DEF ParseFails, Fails
<1>21. CASE Write
  BY <1>21 DEF Write
<1>22. CASE WriteFails
  BY <1>22, DisconnectType DEF WriteFails, Fails
<1>23. CASE Save
  BY <1>23 DEF Save
<1>24. CASE SaveFails
  BY <1>24, DisconnectType DEF SaveFails, Fails
<1>25. CASE Complete
  <2>1. row' \in Rows
    BY <1>25, RowType DEF Complete
  <2>2. account' \in Marks
    BY <1>25, MarkType DEF Complete
  <2>3. batch' \in 0 .. BatchSize
    BY <1>25 DEF Complete
  <2> QED
    BY <1>25, <2>1, <2>2, <2>3 DEF Complete
<1>26. CASE CompleteFails
  BY <1>26, DisconnectType DEF CompleteFails, Fails
<1>27. CASE SyncDone
  BY <1>27, StatusType DEF SyncDone
<1>28. CASE IdleStart
  BY <1>28 DEF IdleStart
<1>29. CASE WakeOnNotify
  BY <1>29 DEF WakeOnNotify
<1>30. CASE WakeOnRequest
  BY <1>30 DEF WakeOnRequest
<1>31. CASE IdleStop
  BY <1>31, StatusType DEF IdleStop
<1>32. CASE ConnectionLost
  BY <1>32, DisconnectType DEF ConnectionLost, Fails
<1>33. CASE Retry
  BY <1>33 DEF Retry
<1>34. CASE Refuse
  BY <1>34 DEF Refuse
<1>35. CASE Crash
  <2>1. files' \in [Messages -> {"none", "torn", "whole"}]
    BY <1>35 DEF Crash, Survivors
  <2>2. up' \in BOOLEAN /\ notify' \in BOOLEAN /\ response' \in BOOLEAN
    BY <1>35 DEF Crash
  <2>3. account' \in Marks
    BY <1>35, NoAccountType DEF Crash
  <2>4. crashes' \in Nat
    BY <1>35 DEF Crash
  <2> QED
    BY <1>35, <2>1, <2>2, <2>3, <2>4 DEF Crash
<1> QED
  BY <1>1, <1>2, <1>3, <1>4, <1>5, <1>6, <1>7, <1>8, <1>9, <1>10, <1>11, <1>12, <1>13,
     <1>14, <1>15, <1>16, <1>17, <1>18, <1>19, <1>20, <1>21, <1>22, <1>23, <1>24, <1>25,
     <1>26, <1>27, <1>28, <1>29, <1>30, <1>31, <1>32, <1>33, <1>34, <1>35
  DEF Next, ServerStep, ClientStep, WorkerStep, Failure
-----------------------------------------------------------------------------
\* A step keeps the other conjuncts of the invariant, one action at a time.
LEMMA SafeStep ==
  ASSUME Inv, Next PROVE Safe'
<1> USE BoundsAssumption, BatchAssumption
<1> USE DEF Inv, Safe, TypeOK, NoSkip, OneEpoch, CountInv, SessionInv, EpochInv, BatchInv, WakeInv,
        AskedInv, FileInv, TempsBounded, StoredWhole, NoOrphans, Survivors, Announced, Rows, Marks, Statuses,
        Uids, Epochs, Messages, Labels, Handling, Fetching, Syncing, Resting, Selected, Online, Stored,
        server, session, locals, disk, client, budget, Goto, Answer, Disconnect, Faulty, NoAccount, Msg, IsNext, Found
<1>1. CASE Deliver
  BY <1>1 DEF Deliver
<1>2. CASE \E u \in Uids : Expunge(u)
  BY <1>2 DEF Expunge
<1>3. CASE \E n \in 0 .. MaxUid : Recreate(n)
  BY <1>3 DEF Recreate
<1>4. CASE Announce
  BY <1>4 DEF Announce
<1>5. CASE Drop
  BY <1>5 DEF Drop
<1>6. CASE Ask
  <2>1. \A m \in asked' : m[1] = validity /\ m[2] \in mail /\ (up => m[2] <= seen)
    BY <1>6 DEF Ask
  <2>2. request' # "taken"
    BY <1>6 DEF Ask
  <2>3. \A m \in asked' : m[2] < uidNext
    BY <2>1
  <2>4. UNCHANGED <<validity, mail, uidNext, up, seen, pc, selected, response, todo, emails>>
    BY <1>6 DEF Ask
  <2>5. AskedInv'
    BY <2>1, <2>2, <2>3, <2>4
  <2> QED
    BY <1>6, <2>5 DEF Ask
<1>7. CASE GiveUp
  BY <1>7 DEF GiveUp
<1>8. CASE Load
  BY <1>8 DEF Load
<1>9. CASE LoadFails
  BY <1>9 DEF LoadFails
<1>10. CASE Connect
  BY <1>10 DEF Connect
<1>11. CASE ConnectFails
  BY <1>11 DEF ConnectFails, Fails
<1>12. CASE Validate
  <2>1. CASE account.uidValidity = selected
    BY <1>12, <2>1 DEF Validate
  <2>2. CASE account.uidValidity # selected
    <3>1. row' = [row EXCEPT !.uidValidity = selected, !.lastUID = 0]
      BY <1>12, <2>2 DEF Validate
    <3>2. emails' = {}
      BY <1>12, <2>2 DEF Validate
    <3>3. row'.uidValidity = selected /\ row'.lastUID = 0
      BY <3>1 DEF Rows
    <3>4. NoSkip'
      BY <1>12, <2>2, <3>3, <3>2 DEF Validate
    <3>5. OneEpoch'
      BY <1>12, <2>2, <3>3, <3>2 DEF Validate
    <3>6. CountInv'
      BY <1>12, <2>2, <3>3, <3>2 DEF Validate
    <3>7. SessionInv'
      BY <1>12, <2>2, <3>3, <3>2 DEF Validate
    <3>8. EpochInv'
      BY <1>12, <2>2, <3>3, <3>2 DEF Validate
    <3>9. BatchInv'
      BY <1>12, <2>2, <3>3, <3>2 DEF Validate
    <3>10. WakeInv'
      BY <1>12, <2>2, <3>3, <3>2 DEF Validate
    <3>11. AskedInv'
      BY <1>12, <2>2, <3>3, <3>2 DEF Validate
    <3>12. FileInv'
      BY <1>12, <2>2, <3>3, <3>2 DEF Validate
    <3>13. TempsBounded'
      BY <1>12, <2>2, <3>3, <3>2 DEF Validate
    <3>14. StoredWhole'
      BY <1>12, <2>2, <3>3, <3>2 DEF Validate
    <3>15. NoOrphans'
      BY <1>12, <2>2, <3>3, <3>2 DEF Validate
    <3> QED
      BY <3>4, <3>5, <3>6, <3>7, <3>8, <3>9, <3>10, <3>11, <3>12, <3>13, <3>14, <3>15
  <2> QED
    BY <2>1, <2>2
<1>13. CASE ValidateFails
  BY <1>13 DEF ValidateFails, Fails
<1>14. CASE Wipe
  BY <1>14 DEF Wipe
<1>15. CASE Search
  BY <1>15 DEF Search
<1>16. CASE Fetch
  BY <1>16 DEF Fetch
<1>17. CASE FetchVanished
  BY <1>17 DEF FetchVanished, Fails
<1>18. CASE FetchFails
  BY <1>18 DEF FetchFails, Fails
<1>19. CASE Parse
  BY <1>19 DEF Parse
<1>20. CASE ParseFails
  BY <1>20 DEF ParseFails, Fails
<1>21. CASE Write
  BY <1>21 DEF Write
<1>22. CASE WriteFails
  BY <1>22 DEF WriteFails, Fails
<1>23. CASE Save
  BY <1>23 DEF Save
<1>24. CASE SaveFails
  BY <1>24 DEF SaveFails, Fails
<1>25. CASE Complete
  BY <1>25 DEF Complete
<1>26. CASE CompleteFails
  BY <1>26 DEF CompleteFails, Fails
<1>27. CASE SyncDone
  BY <1>27 DEF SyncDone
<1>28. CASE IdleStart
  BY <1>28 DEF IdleStart
<1>29. CASE WakeOnNotify
  BY <1>29 DEF WakeOnNotify
<1>30. CASE WakeOnRequest
  BY <1>30 DEF WakeOnRequest
<1>31. CASE IdleStop
  BY <1>31 DEF IdleStop
<1>32. CASE ConnectionLost
  BY <1>32 DEF ConnectionLost, Fails
<1>33. CASE Retry
  BY <1>33 DEF Retry
<1>34. CASE Refuse
  BY <1>34 DEF Refuse
<1>35. CASE Crash
  BY <1>35 DEF Crash
<1> QED
  BY <1>1, <1>2, <1>3, <1>4, <1>5, <1>6, <1>7, <1>8, <1>9, <1>10, <1>11, <1>12, <1>13,
     <1>14, <1>15, <1>16, <1>17, <1>18, <1>19, <1>20, <1>21, <1>22, <1>23, <1>24, <1>25,
     <1>26, <1>27, <1>28, <1>29, <1>30, <1>31, <1>32, <1>33, <1>34, <1>35
  DEF Next, ServerStep, ClientStep, WorkerStep, Failure

-----------------------------------------------------------------------------
\* The first start of an account with nothing stored.
LEMMA InitInv ==
  Init => Inv
<1> SUFFICES ASSUME Init PROVE Inv
  OBVIOUS
<1> USE BoundsAssumption, BatchAssumption DEF Init
<1>1. TypeOK
  <2>1. row \in Rows
    BY DEF Rows, Statuses
  <2>2. up \in BOOLEAN /\ notify \in BOOLEAN /\ response \in BOOLEAN
    OBVIOUS
  <2> QED
    BY <2>1, <2>2, NoAccountType DEF TypeOK, Epochs, Uids, Messages, Labels
<1>2. NoSkip /\ OneEpoch /\ CountInv /\ SessionInv /\ EpochInv /\ BatchInv /\ WakeInv
  BY DEF NoSkip, OneEpoch, CountInv, SessionInv, EpochInv, BatchInv, WakeInv,
         Handling, Fetching, Syncing, Resting, Selected, Online, NoAccount
<1>3. AskedInv /\ FileInv /\ TempsBounded /\ StoredWhole /\ NoOrphans
  BY DEF AskedInv, FileInv, TempsBounded, StoredWhole, NoOrphans, Syncing, Fetching, Handling
<1> QED
  BY <1>1, <1>2, <1>3 DEF Inv, Safe

\* Steps and stutters together.
LEMMA InvStep ==
  Inv /\ [Next]_vars => Inv'
<1> SUFFICES ASSUME Inv, [Next]_vars PROVE Inv'
  OBVIOUS
<1>1. CASE Next
  BY <1>1, TypeStep, SafeStep DEF Inv
<1>2. CASE UNCHANGED vars
  BY <1>2 DEF vars, server, session, locals, disk, client, budget, Inv, Safe, TypeOK,
     NoSkip, OneEpoch, CountInv, SessionInv, EpochInv, BatchInv, WakeInv, AskedInv, FileInv,
     TempsBounded, StoredWhole, NoOrphans, Stored, IsNext, Msg
<1> QED
  BY <1>1, <1>2

\* The inductive invariant holds in every state of the worker, its session, the
\* database and the files (manager.go: run, connected, sync, fetchOne).
THEOREM Invariance ==
  Spec => []Inv
  BY InitInv, InvStep, PTL DEF Spec

\* The variables keep their types, so marks are UIDs and a row shows one of the
\* documented states.
THEOREM TypeCorrect ==
  Spec => []TypeOK
<1>1. Inv => TypeOK
  BY DEF Inv
<1> QED
  BY Invariance, <1>1, PTL

\* The mark written by CompleteSync never passes a message that the server has
\* and the database does not.
THEOREM NothingSkipped ==
  Spec => []NoSkip
<1>1. Inv => NoSkip
  BY DEF Inv, Safe
<1> QED
  BY Invariance, <1>1, PTL

\* ResetUIDValidity and SaveEmail never keep emails of two UIDVALIDITY values.
THEOREM NothingMixed ==
  Spec => []OneEpoch
<1>1. Inv => OneEpoch
  BY DEF Inv, Safe
<1> QED
  BY Invariance, <1>1, PTL

\* In IDLE, announced mail is stored or a notification is pending (the notify
\* channel of connected).
THEOREM WakeupsKept ==
  Spec => []NoLostWakeup
<1>1. Inv => NoLostWakeup
  BY DEF Inv, Safe, TypeOK, SessionInv, WakeInv, NoLostWakeup, Resting, Stored
<1> QED
  BY Invariance, <1>1, PTL

\* Without crashes and failures the attachments of stored emails are whole,
\* except the one being written again (saveAttachment, SaveEmail).
THEOREM WholeFiles ==
  Spec => []StoredWhole
<1>1. Inv => StoredWhole
  BY DEF Inv, Safe
<1> QED
  BY Invariance, <1>1, PTL

\* Files without an email come from crashes, failures and rejected messages
\* only (the order of Parse, SaveEmail, ResetUIDValidity and os.RemoveAll).
THEOREM NoOrphanFiles ==
  Spec => []NoOrphans
<1>1. Inv => NoOrphans
  BY DEF Inv, Safe
<1> QED
  BY Invariance, <1>1, PTL

\* A temporary file is left only by a crash (the deferred removal of fetchOne).
THEOREM OneTempPerCrash ==
  Spec => []TempsBounded
<1>1. Inv => TempsBounded
  BY DEF Inv, Safe
<1> QED
  BY Invariance, <1>1, PTL

\* Temporary and attachment files that belong to no email have a cause: fetchOne
\* cleans up after itself on every return.
THEOREM NothingLeftOver ==
  Spec => []NoLeftovers
<1>1. Inv => NoLeftovers
  BY DEF Inv, Safe, NoLeftovers
<1> QED
  BY Invariance, <1>1, PTL

-----------------------------------------------------------------------------
(* Action properties. *)

\* Only Validate, Save and Complete change the mark or the emails.
LEMMA ForgetStep ==
  ASSUME Inv, Next
  PROVE  IF row'.uidValidity = row.uidValidity
         THEN row'.lastUID >= row.lastUID /\ emails \subseteq emails'
         ELSE row'.uidValidity > row.uidValidity
<1> USE DEF Inv, Safe, TypeOK, Rows, Marks, Statuses, EpochInv, SessionInv, BatchInv,
        Selected, Online, Syncing, Fetching, Handling, Resting, disk
<1>1. CASE Validate
  <2>1. CASE account.uidValidity = selected
    BY <1>1, <2>1 DEF Validate
  <2>2. CASE account.uidValidity # selected
    <3>1. row' = [row EXCEPT !.uidValidity = selected, !.lastUID = 0]
      BY <1>1, <2>2 DEF Validate
    <3>2. row'.uidValidity = selected
      BY <3>1
    <3>3. row.uidValidity = account.uidValidity /\ row.uidValidity <= selected
      BY <1>1 DEF Validate
    <3> QED
      BY <2>2, <3>2, <3>3
  <2> QED
    BY <2>1, <2>2
<1>2. CASE Complete
  BY <1>2 DEF Complete
<1>3. CASE Save
  BY <1>3 DEF Save
<1>4. CASE row'.uidValidity = row.uidValidity /\ row'.lastUID = row.lastUID /\ emails' = emails
  BY <1>4
<1>5. CASE Load \/ Connect \/ SyncDone \/ IdleStop
  BY <1>5, <1>4 DEF Load, Connect, SyncDone, IdleStop
<1>6. CASE Disconnect /\ emails' = emails
  BY <1>6, <1>4 DEF Disconnect
<1>7. CASE ConnectFails \/ ValidateFails \/ FetchVanished \/ FetchFails \/ ParseFails
           \/ WriteFails \/ SaveFails \/ CompleteFails \/ ConnectionLost
  BY <1>7, <1>6 DEF ConnectFails, ValidateFails, FetchVanished, FetchFails, ParseFails,
     WriteFails, SaveFails, CompleteFails, ConnectionLost, Fails
<1>8. CASE row' = row /\ emails' = emails
  BY <1>8
<1>9. CASE ServerStep
  BY <1>9, <1>8 DEF ServerStep, Deliver, Expunge, Recreate, Announce, Drop
<1>10. CASE ClientStep
  BY <1>10, <1>8 DEF ClientStep, Ask, GiveUp
<1>11. CASE LoadFails \/ Wipe \/ Search \/ Fetch \/ Parse \/ Write \/ IdleStart
            \/ WakeOnNotify \/ WakeOnRequest \/ Retry \/ Refuse \/ Crash
  BY <1>11, <1>8 DEF LoadFails, Wipe, Search, Fetch, Parse, Write, IdleStart,
     WakeOnNotify, WakeOnRequest, Retry, Refuse, Crash
<1> QED
  BY <1>1, <1>2, <1>3, <1>5, <1>7, <1>9, <1>10, <1>11 DEF Next, WorkerStep, Failure

\* Under one UIDVALIDITY the mark only grows and stored emails stay, and a
\* change of UIDVALIDITY moves on to a newer one.
THEOREM NeverForgotten ==
  Spec => NothingForgotten
<1>1. Inv /\ [Next]_vars =>
        [IF row'.uidValidity = row.uidValidity
         THEN row'.lastUID >= row.lastUID /\ emails \subseteq emails'
         ELSE row'.uidValidity > row.uidValidity]_<<row, emails>>
  BY ForgetStep DEF vars, disk
<1> QED
  BY Invariance, <1>1, PTL DEF Spec, NothingForgotten

\* Success is answered by SyncDone only, when all that was asked for is stored.
LEMMA AnswerStep ==
  ASSUME Inv, Next, request' = "ok", request # "ok"
  PROVE  \A m \in asked : m[1] = validity /\ m[2] \in mail => m \in emails
<1>1. SyncDone
  BY DEF Next, ServerStep, ClientStep, WorkerStep, Failure, client,
     Deliver, Expunge, Recreate, Announce, Drop, Ask, GiveUp, Load, LoadFails, Connect,
     ConnectFails, Validate, ValidateFails, Wipe, Search, Fetch, FetchVanished, FetchFails,
     Parse, ParseFails, Write, WriteFails, Save, SaveFails, Complete, CompleteFails,
     IdleStart, WakeOnNotify, WakeOnRequest, IdleStop, ConnectionLost, Retry, Refuse, Crash,
     Fails, Disconnect, Answer
<1>2. response /\ request = "taken" /\ pc = "answering"
  BY <1>1 DEF SyncDone, Answer
<1> QED
  BY <1>2 DEF Inv, Safe, AskedInv

\* POST /accounts/{id}/sync answers success only when everything announced at
\* the time of the request is stored.
THEOREM AnswersHonest ==
  Spec => SyncMeansStored
<1>1. Inv /\ [Next]_vars =>
        [request' = "ok" /\ request # "ok" =>
           \A m \in asked : m[1] = validity /\ m[2] \in mail => m \in emails]_vars
  BY AnswerStep
<1> QED
  BY Invariance, <1>1, PTL DEF Spec, SyncMeansStored

-----------------------------------------------------------------------------
(* Requests. *)

\* A request that was taken is in the worker's hands, which hold one at a time,
\* from the end of IDLE to the answer.
HeldInv ==
    /\ request = "taken" => response
    /\ response => pc \in {"idleStop", "searching", "answering"} \cup Syncing

LEMMA HeldStep ==
  ASSUME TypeOK, HeldInv, [Next]_vars
  PROVE  HeldInv'
<1> USE DEF HeldInv, TypeOK, Syncing, Fetching, Handling, Goto, locals, client, Answer
<1>1. CASE ServerStep
  BY <1>1 DEF ServerStep, Deliver, Expunge, Recreate, Announce, Drop
<1>2. CASE ClientStep
  BY <1>2 DEF ClientStep, Ask, GiveUp
<1>3. CASE Load \/ Connect \/ Validate \/ Wipe \/ Search \/ Fetch \/ FetchVanished
  BY <1>3 DEF Load, Connect, Validate, Wipe, Search, Fetch, FetchVanished, Fails, Disconnect
<1>4. CASE Parse \/ ParseFails \/ Write \/ Save \/ Complete \/ SyncDone
  BY <1>4 DEF Parse, ParseFails, Write, Save, Complete, SyncDone, Fails, Disconnect
<1>5. CASE IdleStart \/ WakeOnNotify \/ WakeOnRequest \/ IdleStop \/ ConnectionLost \/ Retry \/ Refuse
  BY <1>5 DEF IdleStart, WakeOnNotify, WakeOnRequest, IdleStop, ConnectionLost, Retry, Refuse,
     Fails, Disconnect
<1>6. CASE Failure
  BY <1>6 DEF Failure, LoadFails, ConnectFails, ValidateFails, FetchFails, WriteFails,
     SaveFails, CompleteFails, Crash, Fails, Disconnect
<1>7. CASE UNCHANGED vars
  BY <1>7 DEF vars
<1> QED
  BY <1>1, <1>2, <1>3, <1>4, <1>5, <1>6, <1>7 DEF Next, WorkerStep

\* Whatever fails or is lost, a worker that took a request remembers it until it
\* answers, and takes no other meanwhile (manager.go: connected, whose deferred
\* call answers on every error return).
THEOREM RequestHeld ==
  Spec => []HeldInv
<1>1. Init => HeldInv
  BY DEF Init, HeldInv
<1>2. Inv => TypeOK
  BY DEF Inv
<1> QED
  BY Invariance, HeldStep, <1>1, <1>2, PTL DEF Spec

-----------------------------------------------------------------------------
(* Refinement. *)

\* Every step is a step of the replica, or changes none of its variables.
LEMMA ReplicaStep ==
  ASSUME Inv, Next
  PROVE  Replica!Next \/ UNCHANGED <<Replica!mailbox, Replica!replica>>
<1> USE DEF Inv, Safe, TypeOK, Rows, Marks, Statuses, SessionInv, EpochInv, BatchInv, AskedInv,
        Selected, Online, Syncing, Fetching, Handling, Resting, server, disk, Stored,
        Replica!mailbox, Replica!replica
<1>1. CASE Deliver
  <2>1. Replica!Arrive
    BY <1>1 DEF Deliver, Replica!Arrive, Uids
  <2> QED
    BY <2>1 DEF Replica!Next
<1>2. CASE \E u \in Uids : Expunge(u)
  <2>1. Replica!Leave
    BY <1>2 DEF Expunge, Replica!Leave
  <2> QED
    BY <2>1 DEF Replica!Next
<1>3. CASE \E n \in 0 .. MaxUid : Recreate(n)
  <2>1. Replica!Renumber
    BY <1>3 DEF Recreate, Replica!Renumber, Epochs
  <2> QED
    BY <2>1 DEF Replica!Next
<1>4. CASE Validate
  <2>1. CASE account.uidValidity = selected
    BY <1>4, <2>1 DEF Validate
  <2>2. CASE account.uidValidity # selected
    <3>1. row' = [row EXCEPT !.uidValidity = selected, !.lastUID = 0] /\ emails' = {}
      BY <1>4, <2>2 DEF Validate
    <3>2. row'.uidValidity = selected /\ row'.lastUID = 0
      BY <3>1
    <3>3. row.uidValidity < selected /\ selected <= validity
      BY <1>4, <2>2 DEF Validate, Epochs
    <3>4. Replica!Adopt
      BY <1>4, <3>1, <3>2, <3>3 DEF Validate, Replica!Adopt
    <3> QED
      BY <3>4 DEF Replica!Next
  <2> QED
    BY <2>1, <2>2
<1>5. CASE Save
  <2>1. Replica!Keep
    BY <1>5 DEF Save, Msg, Replica!Keep
  <2> QED
    BY <2>1 DEF Replica!Next
<1>6. CASE Complete
  <2>1. row'.uidValidity = row.uidValidity /\ row'.lastUID = lastUID
    BY <1>6 DEF Complete
  <2>2. row.lastUID <= lastUID
    BY <1>6 DEF Complete
  <2>3. row.uidValidity = validity => \A u \in mail : u <= lastUID => <<row.uidValidity, u>> \in emails
    BY <1>6 DEF Complete
  <2>4. CASE row.lastUID = lastUID
    BY <1>6, <2>1, <2>4 DEF Complete
  <2>5. CASE row.lastUID < lastUID
    <3>1. Replica!Advance
      BY <1>6, <2>1, <2>3, <2>5 DEF Complete, Replica!Advance
    <3> QED
      BY <3>1 DEF Replica!Next
  <2> QED
    BY <2>2, <2>4, <2>5, Fields
<1>7. CASE /\ validity' = validity /\ mail' = mail /\ emails' = emails
           /\ row'.uidValidity = row.uidValidity /\ row'.lastUID = row.lastUID
  BY <1>7
<1>8. CASE Load \/ Connect \/ SyncDone \/ IdleStop
  BY <1>8, <1>7 DEF Load, Connect, SyncDone, IdleStop
<1>9. CASE Disconnect /\ UNCHANGED <<validity, mail, emails>>
  BY <1>9, <1>7 DEF Disconnect
<1>10. CASE ConnectFails \/ ValidateFails \/ FetchVanished \/ FetchFails \/ ParseFails
           \/ WriteFails \/ SaveFails \/ CompleteFails \/ ConnectionLost
  BY <1>10, <1>9 DEF ConnectFails, ValidateFails, FetchVanished, FetchFails, ParseFails,
     WriteFails, SaveFails, CompleteFails, ConnectionLost, Fails
<1>11. CASE UNCHANGED <<validity, mail, row, emails>>
  BY <1>11
<1>12. CASE Announce \/ Drop \/ ClientStep
  BY <1>12, <1>11 DEF Announce, Drop, ClientStep, Ask, GiveUp
<1>13. CASE LoadFails \/ Wipe \/ Search \/ Fetch \/ Parse \/ Write \/ IdleStart
            \/ WakeOnNotify \/ WakeOnRequest \/ Retry \/ Refuse \/ Crash
  BY <1>13, <1>11 DEF LoadFails, Wipe, Search, Fetch, Parse, Write, IdleStart,
     WakeOnNotify, WakeOnRequest, Retry, Refuse, Crash
<1> QED
  BY <1>1, <1>2, <1>3, <1>4, <1>5, <1>6, <1>8, <1>10, <1>12, <1>13
  DEF Next, ServerStep, WorkerStep, Failure

\* The synchronisation of manager.go implements the replica of MailReplica.
THEOREM Implementation ==
  Spec => ImplementsReplica
<1>1. Init => Replica!Init
  BY DEF Init, Replica!Init
<1>2. Inv /\ [Next]_vars => [Replica!Next]_<<Replica!mailbox, Replica!replica>>
  BY ReplicaStep DEF vars, server, disk, Replica!mailbox, Replica!replica
<1> QED
  BY Invariance, <1>1, <1>2, PTL DEF Spec, ImplementsReplica, Replica!Spec
=============================================================================
