--------------------------- MODULE MonitorsProofs ---------------------------
(***************************************************************************)
(* Proofs about Monitors, for any number of accounts, API calls and        *)
(* starts of the process.                                                  *)
(***************************************************************************)
EXTENDS Monitors, TLAPS

\* The labels of a call.
Labels == {"none", "insert", "start", "stop", "stopWait", "deleteRow", "removeDir", "lookup",
           "offer", "await", "ok", "error", "notFound"}

\* An id nobody has used has neither a row nor a worker.
FreshInv ==
    \A a \in Accounts :
        status[a] = "none" => a \notin rows /\ worker[a] = "none" /\ ~cancelled[a]

Creating(c, a) == At(c, "insert", a) \/ At(c, "start", a)

\* One call creates an account, and its worker is the first one.
CreateInv ==
    \A a \in Accounts, c \in Clients :
        /\ At(c, "insert", a) => status[a] = "none"
        /\ At(c, "start", a) => status[a] # "none" /\ worker[a] = "none"
        /\ \A d \in Clients : Creating(c, a) /\ Creating(d, a) => c = d

\* A worker without a row was started by a creation that lost a race.
OrphanInv ==
    \A a \in Accounts : worker[a] \in Running /\ a \notin rows => a \in raced

\* While the process serves, a worker whose account is kept was cancelled by a
\* deletion under way, or by one that failed.
CancelInv ==
    \A a \in rows :
        cancelled[a] /\ phase = "serving" =>
            a \in abandoned \/ \E c \in Clients : At(c, "stopWait", a) \/ At(c, "deleteRow", a)

\* The context of the workers and the exits of main: once Manager.Close has waited,
\* a worker that is not late is at most loading, with a context that is done.
StoreInv ==
    /\ phase = "serving" => late = {} /\ ~interrupted
    /\ phase = "closed" \/ ~accepting => interrupted
    /\ late # {} => accepting
    /\ phase \in {"ending", "closed"} =>
          \A a \in Accounts \ late :
              /\ worker[a] \notin Running \ {"loading"}
              /\ worker[a] = "loading" => interrupted

\* The inductive invariant.
Inv ==
    /\ TypeOK
    /\ FreshInv /\ CreateInv /\ OrphanInv /\ CancelInv
    /\ StoppedBeforeDeleted /\ NoGhostMail /\ NoFilesWithoutAccount
    /\ Monitored /\ StoreInv /\ ServedByWorker

\* The initial state satisfies Inv.
LEMMA InitInv == Init => Inv
<1> USE DEF Init
<1>1. ASSUME Init PROVE TypeOK
  <2>1. boots \in 1 .. MaxBoots  BY <1>1, BootAssumption
  <2>2. worker \in [Accounts -> InMap \cup {"none", "removed", "done"}]  BY <1>1
  <2>3. status \in [Accounts -> {"none", "starting", "connecting", "syncing", "idle", "reconnecting"}]
    BY <1>1
  <2>4. pc \in [Clients -> Labels]  BY <1>1 DEF Labels
  <2> QED  BY <1>1, <2>1, <2>2, <2>3, <2>4 DEF TypeOK, Labels
<1>2. Init => FreshInv /\ CreateInv /\ OrphanInv /\ CancelInv /\ StoreInv
  BY DEF FreshInv, CreateInv, Creating, OrphanInv, CancelInv, StoreInv, At, Running
<1>3. Init => StoppedBeforeDeleted /\ NoGhostMail /\ NoFilesWithoutAccount
  BY DEF StoppedBeforeDeleted, NoGhostMail, NoFilesWithoutAccount, At, PastStop
<1>4. Init => Monitored /\ ServedByWorker
  BY DEF Monitored, ServedByWorker
<1> QED  BY <1>1, <1>2, <1>3, <1>4 DEF Inv

\* Every step keeps Inv.
LEMMA StepInv == Inv /\ [Next]_vars => Inv'
<1> SUFFICES ASSUME Inv, [Next]_vars PROVE Inv'
  OBVIOUS
<1> USE ClientAssumption, BootAssumption DEF Inv, Running, InMap, At
<1>1. ASSUME NEW c \in Clients, CreateInsert(c) PROVE Inv'
  <2> USE <1>1 DEF CreateInsert, Step, StoreOpen, process, monitor, calls, disk, history
  <2>1. TypeOK'  BY DEF TypeOK
  <2>2. FreshInv'  BY DEF TypeOK, FreshInv, CreateInv, Creating
  <2>3. CreateInv'  BY DEF TypeOK, FreshInv, CreateInv, Creating
  <2>4. OrphanInv'  BY DEF TypeOK, FreshInv, OrphanInv, StoppedBeforeDeleted, PastStop
  <2>5. CancelInv'  BY DEF TypeOK, FreshInv, CreateInv, CancelInv, Creating
  <2>6. StoppedBeforeDeleted'  BY DEF TypeOK, StoppedBeforeDeleted, PastStop
  <2>7. NoGhostMail'  BY DEF TypeOK, NoGhostMail
  <2>8. NoFilesWithoutAccount'  BY DEF TypeOK, OrphanInv, NoFilesWithoutAccount
  <2>9. Monitored'  BY DEF TypeOK, FreshInv, CreateInv, CancelInv, StoreInv, Monitored, Creating
  <2>10. StoreInv'  BY DEF TypeOK, StoreInv
  <2>11. ServedByWorker'  BY DEF TypeOK, ServedByWorker
  <2> QED  BY <2>1, <2>2, <2>3, <2>4, <2>5, <2>6, <2>7, <2>8, <2>9, <2>10, <2>11
<1>2. ASSUME NEW c \in Clients, CreateFails(c) PROVE Inv'
  <2> USE <1>2 DEF CreateFails, Step, process, monitor, calls, disk, history
  <2>1. TypeOK'  BY DEF TypeOK
  <2>2. FreshInv'  BY DEF TypeOK, FreshInv, CreateInv, Creating
  <2>3. CreateInv'  BY DEF TypeOK, FreshInv, CreateInv, Creating
  <2>4. OrphanInv'  BY DEF TypeOK, FreshInv, OrphanInv, StoppedBeforeDeleted, PastStop
  <2>5. CancelInv'  BY DEF TypeOK, FreshInv, CreateInv, CancelInv, Creating
  <2>6. StoppedBeforeDeleted'  BY DEF TypeOK, StoppedBeforeDeleted, PastStop
  <2>7. NoGhostMail'  BY DEF TypeOK, NoGhostMail
  <2>8. NoFilesWithoutAccount'  BY DEF TypeOK, OrphanInv, NoFilesWithoutAccount
  <2>9. Monitored'  BY DEF TypeOK, FreshInv, CreateInv, CancelInv, StoreInv, Monitored, Creating
  <2>10. StoreInv'  BY DEF TypeOK, StoreInv
  <2>11. ServedByWorker'  BY DEF TypeOK, ServedByWorker
  <2> QED  BY <2>1, <2>2, <2>3, <2>4, <2>5, <2>6, <2>7, <2>8, <2>9, <2>10, <2>11
<1>3. ASSUME NEW c \in Clients, CreateStart(c) PROVE Inv'
  <2> USE <1>3 DEF CreateStart, Step, StartAccount, PastStop, process, monitor, calls, disk, history
  <2>1. TypeOK'  BY DEF TypeOK
  <2>2. FreshInv'  BY DEF TypeOK, FreshInv, CreateInv, Creating
  <2>3. CreateInv'  BY DEF TypeOK, FreshInv, CreateInv, Creating
  <2>4. OrphanInv'  BY DEF TypeOK, FreshInv, OrphanInv, StoppedBeforeDeleted, PastStop
  <2>5. CancelInv'  BY DEF TypeOK, FreshInv, CreateInv, CancelInv, Creating
  <2>6. StoppedBeforeDeleted'  BY DEF TypeOK, StoppedBeforeDeleted, PastStop
  <2>7. NoGhostMail'  BY DEF TypeOK, NoGhostMail
  <2>8. NoFilesWithoutAccount'  BY DEF TypeOK, OrphanInv, NoFilesWithoutAccount
  <2>9. Monitored'  BY DEF TypeOK, FreshInv, CreateInv, CancelInv, StoreInv, Monitored, Creating
  <2>10. StoreInv'  BY DEF TypeOK, StoreInv
  <2>11. ServedByWorker'  BY DEF TypeOK, ServedByWorker
  <2> QED  BY <2>1, <2>2, <2>3, <2>4, <2>5, <2>6, <2>7, <2>8, <2>9, <2>10, <2>11
<1>4. ASSUME NEW c \in Clients, StopLookup(c) PROVE Inv'
  <2> USE <1>4 DEF StopLookup, Step, process, monitor, calls, disk, history
  <2>1. TypeOK'  BY DEF TypeOK
  <2>2. FreshInv'  BY DEF TypeOK, FreshInv, CreateInv, Creating
  <2>3. CreateInv'  BY DEF TypeOK, FreshInv, CreateInv, Creating
  <2>4. OrphanInv'  BY DEF TypeOK, FreshInv, OrphanInv, StoppedBeforeDeleted, PastStop
  <2>5. CancelInv'  BY DEF TypeOK, FreshInv, CreateInv, CancelInv, Creating
  <2>6. StoppedBeforeDeleted'  BY DEF TypeOK, StoppedBeforeDeleted, PastStop
  <2>7. NoGhostMail'  BY DEF TypeOK, NoGhostMail
  <2>8. NoFilesWithoutAccount'  BY DEF TypeOK, OrphanInv, NoFilesWithoutAccount
  <2>9. Monitored'  BY DEF TypeOK, FreshInv, CreateInv, CancelInv, StoreInv, Monitored, Creating
  <2>10. StoreInv'  BY DEF TypeOK, StoreInv
  <2>11. ServedByWorker'  BY DEF TypeOK, ServedByWorker
  <2> QED  BY <2>1, <2>2, <2>3, <2>4, <2>5, <2>6, <2>7, <2>8, <2>9, <2>10, <2>11
<1>5. ASSUME NEW c \in Clients, StopWait(c) PROVE Inv'
  <2> USE <1>5 DEF StopWait, Step, process, monitor, calls, disk, history
  <2>1. TypeOK'  BY DEF TypeOK
  <2>2. FreshInv'  BY DEF TypeOK, FreshInv, CreateInv, Creating
  <2>3. CreateInv'  BY DEF TypeOK, FreshInv, CreateInv, Creating
  <2>4. OrphanInv'  BY DEF TypeOK, FreshInv, OrphanInv, StoppedBeforeDeleted, PastStop
  <2>5. CancelInv'  BY DEF TypeOK, FreshInv, CreateInv, CancelInv, Creating
  <2>6. StoppedBeforeDeleted'  BY DEF TypeOK, StoppedBeforeDeleted, PastStop
  <2>7. NoGhostMail'  BY DEF TypeOK, NoGhostMail
  <2>8. NoFilesWithoutAccount'  BY DEF TypeOK, OrphanInv, NoFilesWithoutAccount
  <2>9. Monitored'  BY DEF TypeOK, FreshInv, CreateInv, CancelInv, StoreInv, Monitored, Creating
  <2>10. StoreInv'  BY DEF TypeOK, StoreInv
  <2>11. ServedByWorker'  BY DEF TypeOK, ServedByWorker
  <2> QED  BY <2>1, <2>2, <2>3, <2>4, <2>5, <2>6, <2>7, <2>8, <2>9, <2>10, <2>11
<1>6. ASSUME NEW c \in Clients, DeleteRow(c) PROVE Inv'
  <2> USE <1>6 DEF DeleteRow, Step, StoreOpen, process, monitor, calls, disk, history
  <2>1. TypeOK'  BY DEF TypeOK
  <2>2. FreshInv'  BY DEF TypeOK, FreshInv, CreateInv, Creating
  <2>3. CreateInv'  BY DEF TypeOK, FreshInv, CreateInv, Creating
  <2>4. OrphanInv'  BY DEF TypeOK, FreshInv, OrphanInv, StoppedBeforeDeleted, PastStop
  <2>5. CancelInv'  BY DEF TypeOK, FreshInv, CreateInv, CancelInv, Creating
  <2>6. StoppedBeforeDeleted'  BY DEF TypeOK, StoppedBeforeDeleted, PastStop
  <2>7. NoGhostMail'  BY DEF TypeOK, NoGhostMail
  <2>8. NoFilesWithoutAccount'  BY DEF TypeOK, OrphanInv, NoFilesWithoutAccount
  <2>9. Monitored'  BY DEF TypeOK, FreshInv, CreateInv, CancelInv, StoreInv, Monitored, Creating
  <2>10. StoreInv'  BY DEF TypeOK, StoreInv
  <2>11. ServedByWorker'  BY DEF TypeOK, ServedByWorker
  <2> QED  BY <2>1, <2>2, <2>3, <2>4, <2>5, <2>6, <2>7, <2>8, <2>9, <2>10, <2>11
<1>7. ASSUME NEW c \in Clients, DeleteRowFails(c) PROVE Inv'
  <2> USE <1>7 DEF DeleteRowFails, Step, StoreOpen, process, monitor, calls, disk, history
  <2>1. TypeOK'  BY DEF TypeOK
  <2>2. FreshInv'  BY DEF TypeOK, FreshInv, CreateInv, Creating
  <2>3. CreateInv'  BY DEF TypeOK, FreshInv, CreateInv, Creating
  <2>4. OrphanInv'  BY DEF TypeOK, FreshInv, OrphanInv, StoppedBeforeDeleted, PastStop
  <2>5. CancelInv'  BY DEF TypeOK, FreshInv, CreateInv, CancelInv, Creating
  <2>6. StoppedBeforeDeleted'  BY DEF TypeOK, StoppedBeforeDeleted, PastStop
  <2>7. NoGhostMail'  BY DEF TypeOK, NoGhostMail
  <2>8. NoFilesWithoutAccount'  BY DEF TypeOK, OrphanInv, NoFilesWithoutAccount
  <2>9. Monitored'  BY DEF TypeOK, FreshInv, CreateInv, CancelInv, StoreInv, Monitored, Creating
  <2>10. StoreInv'  BY DEF TypeOK, StoreInv
  <2>11. ServedByWorker'  BY DEF TypeOK, ServedByWorker
  <2> QED  BY <2>1, <2>2, <2>3, <2>4, <2>5, <2>6, <2>7, <2>8, <2>9, <2>10, <2>11
<1>8. ASSUME NEW c \in Clients, RemoveDir(c) PROVE Inv'
  <2> USE <1>8 DEF RemoveDir, Step, process, monitor, calls, disk, history
  <2>1. TypeOK'  BY DEF TypeOK
  <2>2. FreshInv'  BY DEF TypeOK, FreshInv, CreateInv, Creating
  <2>3. CreateInv'  BY DEF TypeOK, FreshInv, CreateInv, Creating
  <2>4. OrphanInv'  BY DEF TypeOK, FreshInv, OrphanInv, StoppedBeforeDeleted, PastStop
  <2>5. CancelInv'  BY DEF TypeOK, FreshInv, CreateInv, CancelInv, Creating
  <2>6. StoppedBeforeDeleted'  BY DEF TypeOK, StoppedBeforeDeleted, PastStop
  <2>7. NoGhostMail'  BY DEF TypeOK, NoGhostMail
  <2>8. NoFilesWithoutAccount'  BY DEF TypeOK, OrphanInv, NoFilesWithoutAccount
  <2>9. Monitored'  BY DEF TypeOK, FreshInv, CreateInv, CancelInv, StoreInv, Monitored, Creating
  <2>10. StoreInv'  BY DEF TypeOK, StoreInv
  <2>11. ServedByWorker'  BY DEF TypeOK, ServedByWorker
  <2> QED  BY <2>1, <2>2, <2>3, <2>4, <2>5, <2>6, <2>7, <2>8, <2>9, <2>10, <2>11
<1>9. ASSUME NEW c \in Clients, RemoveDirFails(c) PROVE Inv'
  <2> USE <1>9 DEF RemoveDirFails, Step, process, monitor, calls, disk, history
  <2>1. TypeOK'  BY DEF TypeOK
  <2>2. FreshInv'  BY DEF TypeOK, FreshInv, CreateInv, Creating
  <2>3. CreateInv'  BY DEF TypeOK, FreshInv, CreateInv, Creating
  <2>4. OrphanInv'  BY DEF TypeOK, FreshInv, OrphanInv, StoppedBeforeDeleted, PastStop
  <2>5. CancelInv'  BY DEF TypeOK, FreshInv, CreateInv, CancelInv, Creating
  <2>6. StoppedBeforeDeleted'  BY DEF TypeOK, StoppedBeforeDeleted, PastStop
  <2>7. NoGhostMail'  BY DEF TypeOK, NoGhostMail
  <2>8. NoFilesWithoutAccount'  BY DEF TypeOK, OrphanInv, NoFilesWithoutAccount
  <2>9. Monitored'  BY DEF TypeOK, FreshInv, CreateInv, CancelInv, StoreInv, Monitored, Creating
  <2>10. StoreInv'  BY DEF TypeOK, StoreInv
  <2>11. ServedByWorker'  BY DEF TypeOK, ServedByWorker
  <2> QED  BY <2>1, <2>2, <2>3, <2>4, <2>5, <2>6, <2>7, <2>8, <2>9, <2>10, <2>11
<1>10. ASSUME NEW c \in Clients, SyncLookup(c) PROVE Inv'
  <2> USE <1>10 DEF SyncLookup, Step, process, monitor, calls, disk, history
  <2>1. TypeOK'  BY DEF TypeOK
  <2>2. FreshInv'  BY DEF TypeOK, FreshInv, CreateInv, Creating
  <2>3. CreateInv'  BY DEF TypeOK, FreshInv, CreateInv, Creating
  <2>4. OrphanInv'  BY DEF TypeOK, FreshInv, OrphanInv, StoppedBeforeDeleted, PastStop
  <2>5. CancelInv'  BY DEF TypeOK, FreshInv, CreateInv, CancelInv, Creating
  <2>6. StoppedBeforeDeleted'  BY DEF TypeOK, StoppedBeforeDeleted, PastStop
  <2>7. NoGhostMail'  BY DEF TypeOK, NoGhostMail
  <2>8. NoFilesWithoutAccount'  BY DEF TypeOK, OrphanInv, NoFilesWithoutAccount
  <2>9. Monitored'  BY DEF TypeOK, FreshInv, CreateInv, CancelInv, StoreInv, Monitored, Creating
  <2>10. StoreInv'  BY DEF TypeOK, StoreInv
  <2>11. ServedByWorker'  BY DEF TypeOK, ServedByWorker
  <2> QED  BY <2>1, <2>2, <2>3, <2>4, <2>5, <2>6, <2>7, <2>8, <2>9, <2>10, <2>11
<1>11. ASSUME NEW c \in Clients, SyncGone(c) PROVE Inv'
  <2> USE <1>11 DEF SyncGone, Step, process, monitor, calls, disk, history
  <2>1. TypeOK'  BY DEF TypeOK
  <2>2. FreshInv'  BY DEF TypeOK, FreshInv, CreateInv, Creating
  <2>3. CreateInv'  BY DEF TypeOK, FreshInv, CreateInv, Creating
  <2>4. OrphanInv'  BY DEF TypeOK, FreshInv, OrphanInv, StoppedBeforeDeleted, PastStop
  <2>5. CancelInv'  BY DEF TypeOK, FreshInv, CreateInv, CancelInv, Creating
  <2>6. StoppedBeforeDeleted'  BY DEF TypeOK, StoppedBeforeDeleted, PastStop
  <2>7. NoGhostMail'  BY DEF TypeOK, NoGhostMail
  <2>8. NoFilesWithoutAccount'  BY DEF TypeOK, OrphanInv, NoFilesWithoutAccount
  <2>9. Monitored'  BY DEF TypeOK, FreshInv, CreateInv, CancelInv, StoreInv, Monitored, Creating
  <2>10. StoreInv'  BY DEF TypeOK, StoreInv
  <2>11. ServedByWorker'  BY DEF TypeOK, ServedByWorker
  <2> QED  BY <2>1, <2>2, <2>3, <2>4, <2>5, <2>6, <2>7, <2>8, <2>9, <2>10, <2>11
<1>12. ASSUME NEW a \in Accounts, LoadFails(a) PROVE Inv'
  <2> USE <1>12 DEF LoadFails, Become, Cancelled, process, monitor, calls, disk, history
  <2>1. TypeOK'  BY DEF TypeOK
  <2>2. FreshInv'  BY DEF TypeOK, FreshInv, CreateInv, Creating
  <2>3. CreateInv'  BY DEF TypeOK, FreshInv, CreateInv, Creating
  <2>4. OrphanInv'  BY DEF TypeOK, FreshInv, OrphanInv, StoppedBeforeDeleted, PastStop
  <2>5. CancelInv'  BY DEF TypeOK, FreshInv, CreateInv, CancelInv, Creating
  <2>6. StoppedBeforeDeleted'  BY DEF TypeOK, StoppedBeforeDeleted, PastStop
  <2>7. NoGhostMail'  BY DEF TypeOK, NoGhostMail
  <2>8. NoFilesWithoutAccount'  BY DEF TypeOK, OrphanInv, NoFilesWithoutAccount
  <2>9. Monitored'  BY DEF TypeOK, FreshInv, CreateInv, CancelInv, StoreInv, Monitored, Creating
  <2>10. StoreInv'  BY DEF TypeOK, StoreInv
  <2>11. ServedByWorker'  BY DEF TypeOK, ServedByWorker
  <2> QED  BY <2>1, <2>2, <2>3, <2>4, <2>5, <2>6, <2>7, <2>8, <2>9, <2>10, <2>11
<1>13. ASSUME NEW c \in Clients, NEW a \in Accounts, CreateBegin(c, a) PROVE Inv'
  <2> USE <1>13 DEF CreateBegin, Begin, Idle, process, monitor, calls, disk, history
  <2>1. TypeOK'  BY DEF TypeOK
  <2>2. FreshInv'  BY DEF TypeOK, FreshInv, CreateInv, Creating
  <2>3. CreateInv'  BY DEF TypeOK, FreshInv, CreateInv, Creating
  <2>4. OrphanInv'  BY DEF TypeOK, FreshInv, OrphanInv, StoppedBeforeDeleted, PastStop
  <2>5. CancelInv'  BY DEF TypeOK, FreshInv, CreateInv, CancelInv, Creating
  <2>6. StoppedBeforeDeleted'  BY DEF TypeOK, StoppedBeforeDeleted, PastStop
  <2>7. NoGhostMail'  BY DEF TypeOK, NoGhostMail
  <2>8. NoFilesWithoutAccount'  BY DEF TypeOK, OrphanInv, NoFilesWithoutAccount
  <2>9. Monitored'  BY DEF TypeOK, FreshInv, CreateInv, CancelInv, StoreInv, Monitored, Creating
  <2>10. StoreInv'  BY DEF TypeOK, StoreInv
  <2>11. ServedByWorker'  BY DEF TypeOK, ServedByWorker
  <2> QED  BY <2>1, <2>2, <2>3, <2>4, <2>5, <2>6, <2>7, <2>8, <2>9, <2>10, <2>11
<1>14. ASSUME NEW c \in Clients, NEW a \in Accounts, DeleteBegin(c, a) PROVE Inv'
  <2> USE <1>14 DEF DeleteBegin, Begin, Idle, process, monitor, calls, disk, history
  <2>1. TypeOK'  BY DEF TypeOK
  <2>2. FreshInv'  BY DEF TypeOK, FreshInv, CreateInv, Creating
  <2>3. CreateInv'  BY DEF TypeOK, FreshInv, CreateInv, Creating
  <2>4. OrphanInv'  BY DEF TypeOK, FreshInv, OrphanInv, StoppedBeforeDeleted, PastStop
  <2>5. CancelInv'  BY DEF TypeOK, FreshInv, CreateInv, CancelInv, Creating
  <2>6. StoppedBeforeDeleted'  BY DEF TypeOK, StoppedBeforeDeleted, PastStop
  <2>7. NoGhostMail'  BY DEF TypeOK, NoGhostMail
  <2>8. NoFilesWithoutAccount'  BY DEF TypeOK, OrphanInv, NoFilesWithoutAccount
  <2>9. Monitored'  BY DEF TypeOK, FreshInv, CreateInv, CancelInv, StoreInv, Monitored, Creating
  <2>10. StoreInv'  BY DEF TypeOK, StoreInv
  <2>11. ServedByWorker'  BY DEF TypeOK, ServedByWorker
  <2> QED  BY <2>1, <2>2, <2>3, <2>4, <2>5, <2>6, <2>7, <2>8, <2>9, <2>10, <2>11
<1>15. ASSUME NEW c \in Clients, NEW a \in Accounts, SyncBegin(c, a) PROVE Inv'
  <2> USE <1>15 DEF SyncBegin, Begin, Idle, process, monitor, calls, disk, history
  <2>1. TypeOK'  BY DEF TypeOK
  <2>2. FreshInv'  BY DEF TypeOK, FreshInv, CreateInv, Creating
  <2>3. CreateInv'  BY DEF TypeOK, FreshInv, CreateInv, Creating
  <2>4. OrphanInv'  BY DEF TypeOK, FreshInv, OrphanInv, StoppedBeforeDeleted, PastStop
  <2>5. CancelInv'  BY DEF TypeOK, FreshInv, CreateInv, CancelInv, Creating
  <2>6. StoppedBeforeDeleted'  BY DEF TypeOK, StoppedBeforeDeleted, PastStop
  <2>7. NoGhostMail'  BY DEF TypeOK, NoGhostMail
  <2>8. NoFilesWithoutAccount'  BY DEF TypeOK, OrphanInv, NoFilesWithoutAccount
  <2>9. Monitored'  BY DEF TypeOK, FreshInv, CreateInv, CancelInv, StoreInv, Monitored, Creating
  <2>10. StoreInv'  BY DEF TypeOK, StoreInv
  <2>11. ServedByWorker'  BY DEF TypeOK, ServedByWorker
  <2> QED  BY <2>1, <2>2, <2>3, <2>4, <2>5, <2>6, <2>7, <2>8, <2>9, <2>10, <2>11
<1>16. ASSUME NEW a \in Accounts, Load(a) PROVE Inv'
  <2> USE <1>16 DEF Load, Become, Show, ShowIf, Cancelled, process, monitor, calls, disk, history
  <2>1. TypeOK'  BY DEF TypeOK
  <2>2. FreshInv'  BY DEF TypeOK, FreshInv, CreateInv, Creating
  <2>3. CreateInv'  BY DEF TypeOK, FreshInv, CreateInv, Creating
  <2>4. OrphanInv'  BY DEF TypeOK, FreshInv, OrphanInv, StoppedBeforeDeleted, PastStop
  <2>5. CancelInv'  BY DEF TypeOK, FreshInv, CreateInv, CancelInv, Creating
  <2>6. StoppedBeforeDeleted'  BY DEF TypeOK, StoppedBeforeDeleted, PastStop
  <2>7. NoGhostMail'  BY DEF TypeOK, NoGhostMail
  <2>8. NoFilesWithoutAccount'  BY DEF TypeOK, OrphanInv, NoFilesWithoutAccount
  <2>9. Monitored'  BY DEF TypeOK, FreshInv, CreateInv, CancelInv, StoreInv, Monitored, Creating
  <2>10. StoreInv'  BY DEF TypeOK, StoreInv
  <2>11. ServedByWorker'  BY DEF TypeOK, ServedByWorker
  <2> QED  BY <2>1, <2>2, <2>3, <2>4, <2>5, <2>6, <2>7, <2>8, <2>9, <2>10, <2>11
<1>17. ASSUME NEW a \in Accounts, SyncEnd(a) PROVE Inv'
  <2> USE <1>17 DEF SyncEnd, Become, Show, ShowIf, Cancelled, Reply, process, monitor, calls, disk, history
  <2>1. TypeOK'  BY DEF TypeOK
  <2>2. FreshInv'  BY DEF TypeOK, FreshInv, CreateInv, Creating
  <2>3. CreateInv'  BY DEF TypeOK, FreshInv, CreateInv, Creating
  <2>4. OrphanInv'  BY DEF TypeOK, FreshInv, OrphanInv, StoppedBeforeDeleted, PastStop
  <2>5. CancelInv'  BY DEF TypeOK, FreshInv, CreateInv, CancelInv, Creating
  <2>6. StoppedBeforeDeleted'  BY DEF TypeOK, StoppedBeforeDeleted, PastStop
  <2>7. NoGhostMail'  BY DEF TypeOK, NoGhostMail
  <2>8. NoFilesWithoutAccount'  BY DEF TypeOK, OrphanInv, NoFilesWithoutAccount
  <2>9. Monitored'  BY DEF TypeOK, FreshInv, CreateInv, CancelInv, StoreInv, Monitored, Creating
  <2>10. StoreInv'  BY DEF TypeOK, StoreInv
  <2>11. ServedByWorker'  BY DEF TypeOK, ServedByWorker
  <2> QED  BY <2>1, <2>2, <2>3, <2>4, <2>5, <2>6, <2>7, <2>8, <2>9, <2>10, <2>11
<1>18. ASSUME NEW a \in Accounts, Download(a) PROVE Inv'
  <2> USE <1>18 DEF Download, Become, process, monitor, calls, disk, history
  <2>1. TypeOK'  BY DEF TypeOK
  <2>2. FreshInv'  BY DEF TypeOK, FreshInv, CreateInv, Creating
  <2>3. CreateInv'  BY DEF TypeOK, FreshInv, CreateInv, Creating
  <2>4. OrphanInv'  BY DEF TypeOK, FreshInv, OrphanInv, StoppedBeforeDeleted, PastStop
  <2>5. CancelInv'  BY DEF TypeOK, FreshInv, CreateInv, CancelInv, Creating
  <2>6. StoppedBeforeDeleted'  BY DEF TypeOK, StoppedBeforeDeleted, PastStop
  <2>7. NoGhostMail'  BY DEF TypeOK, NoGhostMail
  <2>8. NoFilesWithoutAccount'  BY DEF TypeOK, OrphanInv, NoFilesWithoutAccount
  <2>9. Monitored'  BY DEF TypeOK, FreshInv, CreateInv, CancelInv, StoreInv, Monitored, Creating
  <2>10. StoreInv'  BY DEF TypeOK, StoreInv
  <2>11. ServedByWorker'  BY DEF TypeOK, ServedByWorker
  <2> QED  BY <2>1, <2>2, <2>3, <2>4, <2>5, <2>6, <2>7, <2>8, <2>9, <2>10, <2>11
<1>19. ASSUME NEW a \in Accounts, SaveEmail(a) PROVE Inv'
  <2> USE <1>19 DEF SaveEmail, Become, process, monitor, calls, disk, history
  <2>1. TypeOK'  BY DEF TypeOK
  <2>2. FreshInv'  BY DEF TypeOK, FreshInv, CreateInv, Creating
  <2>3. CreateInv'  BY DEF TypeOK, FreshInv, CreateInv, Creating
  <2>4. OrphanInv'  BY DEF TypeOK, FreshInv, OrphanInv, StoppedBeforeDeleted, PastStop
  <2>5. CancelInv'  BY DEF TypeOK, FreshInv, CreateInv, CancelInv, Creating
  <2>6. StoppedBeforeDeleted'  BY DEF TypeOK, StoppedBeforeDeleted, PastStop
  <2>7. NoGhostMail'  BY DEF TypeOK, NoGhostMail
  <2>8. NoFilesWithoutAccount'  BY DEF TypeOK, OrphanInv, NoFilesWithoutAccount
  <2>9. Monitored'  BY DEF TypeOK, FreshInv, CreateInv, CancelInv, StoreInv, Monitored, Creating
  <2>10. StoreInv'  BY DEF TypeOK, StoreInv
  <2>11. ServedByWorker'  BY DEF TypeOK, ServedByWorker
  <2> QED  BY <2>1, <2>2, <2>3, <2>4, <2>5, <2>6, <2>7, <2>8, <2>9, <2>10, <2>11
<1>20. ASSUME NEW a \in Accounts, SaveFails(a) PROVE Inv'
  <2> USE <1>20 DEF SaveFails, Disconnected, Become, ShowIf, Cancelled, Reply, process, monitor, calls, disk, history
  <2>1. TypeOK'  BY DEF TypeOK
  <2>2. FreshInv'  BY DEF TypeOK, FreshInv, CreateInv, Creating
  <2>3. CreateInv'  BY DEF TypeOK, FreshInv, CreateInv, Creating
  <2>4. OrphanInv'  BY DEF TypeOK, FreshInv, OrphanInv, StoppedBeforeDeleted, PastStop
  <2>5. CancelInv'  BY DEF TypeOK, FreshInv, CreateInv, CancelInv, Creating
  <2>6. StoppedBeforeDeleted'  BY DEF TypeOK, StoppedBeforeDeleted, PastStop
  <2>7. NoGhostMail'  BY DEF TypeOK, NoGhostMail
  <2>8. NoFilesWithoutAccount'  BY DEF TypeOK, OrphanInv, NoFilesWithoutAccount
  <2>9. Monitored'  BY DEF TypeOK, FreshInv, CreateInv, CancelInv, StoreInv, Monitored, Creating
  <2>10. StoreInv'  BY DEF TypeOK, StoreInv
  <2>11. ServedByWorker'  BY DEF TypeOK, ServedByWorker
  <2> QED  BY <2>1, <2>2, <2>3, <2>4, <2>5, <2>6, <2>7, <2>8, <2>9, <2>10, <2>11
<1>21. ASSUME NEW a \in Accounts, Disconnect(a) PROVE Inv'
  <2> USE <1>21 DEF Disconnect, Disconnected, Become, ShowIf, Cancelled, Reply, process, monitor, calls, disk, history
  <2>1. TypeOK'  BY DEF TypeOK
  <2>2. FreshInv'  BY DEF TypeOK, FreshInv, CreateInv, Creating
  <2>3. CreateInv'  BY DEF TypeOK, FreshInv, CreateInv, Creating
  <2>4. OrphanInv'  BY DEF TypeOK, FreshInv, OrphanInv, StoppedBeforeDeleted, PastStop
  <2>5. CancelInv'  BY DEF TypeOK, FreshInv, CreateInv, CancelInv, Creating
  <2>6. StoppedBeforeDeleted'  BY DEF TypeOK, StoppedBeforeDeleted, PastStop
  <2>7. NoGhostMail'  BY DEF TypeOK, NoGhostMail
  <2>8. NoFilesWithoutAccount'  BY DEF TypeOK, OrphanInv, NoFilesWithoutAccount
  <2>9. Monitored'  BY DEF TypeOK, FreshInv, CreateInv, CancelInv, StoreInv, Monitored, Creating
  <2>10. StoreInv'  BY DEF TypeOK, StoreInv
  <2>11. ServedByWorker'  BY DEF TypeOK, ServedByWorker
  <2> QED  BY <2>1, <2>2, <2>3, <2>4, <2>5, <2>6, <2>7, <2>8, <2>9, <2>10, <2>11
<1>22. ASSUME NEW a \in Accounts, Wake(a) PROVE Inv'
  <2> USE <1>22 DEF Wake, Become, Show, ShowIf, Cancelled, process, monitor, calls, disk, history
  <2>1. TypeOK'  BY DEF TypeOK
  <2>2. FreshInv'  BY DEF TypeOK, FreshInv, CreateInv, Creating
  <2>3. CreateInv'  BY DEF TypeOK, FreshInv, CreateInv, Creating
  <2>4. OrphanInv'  BY DEF TypeOK, FreshInv, OrphanInv, StoppedBeforeDeleted, PastStop
  <2>5. CancelInv'  BY DEF TypeOK, FreshInv, CreateInv, CancelInv, Creating
  <2>6. StoppedBeforeDeleted'  BY DEF TypeOK, StoppedBeforeDeleted, PastStop
  <2>7. NoGhostMail'  BY DEF TypeOK, NoGhostMail
  <2>8. NoFilesWithoutAccount'  BY DEF TypeOK, OrphanInv, NoFilesWithoutAccount
  <2>9. Monitored'  BY DEF TypeOK, FreshInv, CreateInv, CancelInv, StoreInv, Monitored, Creating
  <2>10. StoreInv'  BY DEF TypeOK, StoreInv
  <2>11. ServedByWorker'  BY DEF TypeOK, ServedByWorker
  <2> QED  BY <2>1, <2>2, <2>3, <2>4, <2>5, <2>6, <2>7, <2>8, <2>9, <2>10, <2>11
<1>23. ASSUME NEW a \in Accounts, Backoff(a) PROVE Inv'
  <2> USE <1>23 DEF Backoff, Become, Cancelled, process, monitor, calls, disk, history
  <2>1. TypeOK'  BY DEF TypeOK
  <2>2. FreshInv'  BY DEF TypeOK, FreshInv, CreateInv, Creating
  <2>3. CreateInv'  BY DEF TypeOK, FreshInv, CreateInv, Creating
  <2>4. OrphanInv'  BY DEF TypeOK, FreshInv, OrphanInv, StoppedBeforeDeleted, PastStop
  <2>5. CancelInv'  BY DEF TypeOK, FreshInv, CreateInv, CancelInv, Creating
  <2>6. StoppedBeforeDeleted'  BY DEF TypeOK, StoppedBeforeDeleted, PastStop
  <2>7. NoGhostMail'  BY DEF TypeOK, NoGhostMail
  <2>8. NoFilesWithoutAccount'  BY DEF TypeOK, OrphanInv, NoFilesWithoutAccount
  <2>9. Monitored'  BY DEF TypeOK, FreshInv, CreateInv, CancelInv, StoreInv, Monitored, Creating
  <2>10. StoreInv'  BY DEF TypeOK, StoreInv
  <2>11. ServedByWorker'  BY DEF TypeOK, ServedByWorker
  <2> QED  BY <2>1, <2>2, <2>3, <2>4, <2>5, <2>6, <2>7, <2>8, <2>9, <2>10, <2>11
<1>24. ASSUME NEW a \in Accounts, Forget(a) PROVE Inv'
  <2> USE <1>24 DEF Forget, Become, process, monitor, calls, disk, history
  <2>1. TypeOK'  BY DEF TypeOK
  <2>2. FreshInv'  BY DEF TypeOK, FreshInv, CreateInv, Creating
  <2>3. CreateInv'  BY DEF TypeOK, FreshInv, CreateInv, Creating
  <2>4. OrphanInv'  BY DEF TypeOK, FreshInv, OrphanInv, StoppedBeforeDeleted, PastStop
  <2>5. CancelInv'  BY DEF TypeOK, FreshInv, CreateInv, CancelInv, Creating
  <2>6. StoppedBeforeDeleted'  BY DEF TypeOK, StoppedBeforeDeleted, PastStop
  <2>7. NoGhostMail'  BY DEF TypeOK, NoGhostMail
  <2>8. NoFilesWithoutAccount'  BY DEF TypeOK, OrphanInv, NoFilesWithoutAccount
  <2>9. Monitored'  BY DEF TypeOK, FreshInv, CreateInv, CancelInv, StoreInv, Monitored, Creating
  <2>10. StoreInv'  BY DEF TypeOK, StoreInv
  <2>11. ServedByWorker'  BY DEF TypeOK, ServedByWorker
  <2> QED  BY <2>1, <2>2, <2>3, <2>4, <2>5, <2>6, <2>7, <2>8, <2>9, <2>10, <2>11
<1>25. ASSUME NEW a \in Accounts, Done(a) PROVE Inv'
  <2> USE <1>25 DEF Done, Become, process, monitor, calls, disk, history
  <2>1. TypeOK'  BY DEF TypeOK
  <2>2. FreshInv'  BY DEF TypeOK, FreshInv, CreateInv, Creating
  <2>3. CreateInv'  BY DEF TypeOK, FreshInv, CreateInv, Creating
  <2>4. OrphanInv'  BY DEF TypeOK, FreshInv, OrphanInv, StoppedBeforeDeleted, PastStop
  <2>5. CancelInv'  BY DEF TypeOK, FreshInv, CreateInv, CancelInv, Creating
  <2>6. StoppedBeforeDeleted'  BY DEF TypeOK, StoppedBeforeDeleted, PastStop
  <2>7. NoGhostMail'  BY DEF TypeOK, NoGhostMail
  <2>8. NoFilesWithoutAccount'  BY DEF TypeOK, OrphanInv, NoFilesWithoutAccount
  <2>9. Monitored'  BY DEF TypeOK, FreshInv, CreateInv, CancelInv, StoreInv, Monitored, Creating
  <2>10. StoreInv'  BY DEF TypeOK, StoreInv
  <2>11. ServedByWorker'  BY DEF TypeOK, ServedByWorker
  <2> QED  BY <2>1, <2>2, <2>3, <2>4, <2>5, <2>6, <2>7, <2>8, <2>9, <2>10, <2>11
<1>26. ASSUME NEW a \in Accounts, NEW c \in Clients, Take(a, c) PROVE Inv'
  <2> USE <1>26 DEF Take, Become, Show, ShowIf, Cancelled, Step, process, monitor, calls, disk, history
  <2>1. TypeOK'  BY DEF TypeOK
  <2>2. FreshInv'  BY DEF TypeOK, FreshInv, CreateInv, Creating
  <2>3. CreateInv'  BY DEF TypeOK, FreshInv, CreateInv, Creating
  <2>4. OrphanInv'  BY DEF TypeOK, FreshInv, OrphanInv, StoppedBeforeDeleted, PastStop
  <2>5. CancelInv'  BY DEF TypeOK, FreshInv, CreateInv, CancelInv, Creating
  <2>6. StoppedBeforeDeleted'  BY DEF TypeOK, StoppedBeforeDeleted, PastStop
  <2>7. NoGhostMail'  BY DEF TypeOK, NoGhostMail
  <2>8. NoFilesWithoutAccount'  BY DEF TypeOK, OrphanInv, NoFilesWithoutAccount
  <2>9. Monitored'  BY DEF TypeOK, FreshInv, CreateInv, CancelInv, StoreInv, Monitored, Creating
  <2>10. StoreInv'  BY DEF TypeOK, StoreInv
  <2>11. ServedByWorker'  BY DEF TypeOK, ServedByWorker
  <2> QED  BY <2>1, <2>2, <2>3, <2>4, <2>5, <2>6, <2>7, <2>8, <2>9, <2>10, <2>11
<1>27. ASSUME NEW a \in Accounts, NEW c \in Clients, Refuse(a, c) PROVE Inv'
  <2> USE <1>27 DEF Refuse, Become, Step, process, monitor, calls, disk, history
  <2>1. TypeOK'  BY DEF TypeOK
  <2>2. FreshInv'  BY DEF TypeOK, FreshInv, CreateInv, Creating
  <2>3. CreateInv'  BY DEF TypeOK, FreshInv, CreateInv, Creating
  <2>4. OrphanInv'  BY DEF TypeOK, FreshInv, OrphanInv, StoppedBeforeDeleted, PastStop
  <2>5. CancelInv'  BY DEF TypeOK, FreshInv, CreateInv, CancelInv, Creating
  <2>6. StoppedBeforeDeleted'  BY DEF TypeOK, StoppedBeforeDeleted, PastStop
  <2>7. NoGhostMail'  BY DEF TypeOK, NoGhostMail
  <2>8. NoFilesWithoutAccount'  BY DEF TypeOK, OrphanInv, NoFilesWithoutAccount
  <2>9. Monitored'  BY DEF TypeOK, FreshInv, CreateInv, CancelInv, StoreInv, Monitored, Creating
  <2>10. StoreInv'  BY DEF TypeOK, StoreInv
  <2>11. ServedByWorker'  BY DEF TypeOK, ServedByWorker
  <2> QED  BY <2>1, <2>2, <2>3, <2>4, <2>5, <2>6, <2>7, <2>8, <2>9, <2>10, <2>11
<1>28. ASSUME Signal PROVE Inv'
  <2> USE <1>28 DEF Signal, process, monitor, calls, disk, history
  <2>1. TypeOK'  BY DEF TypeOK
  <2>2. FreshInv'  BY DEF TypeOK, FreshInv, CreateInv, Creating
  <2>3. CreateInv'  BY DEF TypeOK, FreshInv, CreateInv, Creating
  <2>4. OrphanInv'  BY DEF TypeOK, FreshInv, OrphanInv, StoppedBeforeDeleted, PastStop
  <2>5. CancelInv'  BY DEF TypeOK, FreshInv, CreateInv, CancelInv, Creating
  <2>6. StoppedBeforeDeleted'  BY DEF TypeOK, StoppedBeforeDeleted, PastStop
  <2>7. NoGhostMail'  BY DEF TypeOK, NoGhostMail
  <2>8. NoFilesWithoutAccount'  BY DEF TypeOK, OrphanInv, NoFilesWithoutAccount
  <2>9. Monitored'  BY DEF TypeOK, FreshInv, CreateInv, CancelInv, StoreInv, Monitored, Creating
  <2>10. StoreInv'  BY DEF TypeOK, StoreInv
  <2>11. ServedByWorker'  BY DEF TypeOK, ServedByWorker
  <2> QED  BY <2>1, <2>2, <2>3, <2>4, <2>5, <2>6, <2>7, <2>8, <2>9, <2>10, <2>11
<1>29. ASSUME Drained PROVE Inv'
  <2> USE <1>29 DEF Drained, Move, process, monitor, calls, disk, history
  <2>1. TypeOK'  BY DEF TypeOK
  <2>2. FreshInv'  BY DEF TypeOK, FreshInv, CreateInv, Creating
  <2>3. CreateInv'  BY DEF TypeOK, FreshInv, CreateInv, Creating
  <2>4. OrphanInv'  BY DEF TypeOK, FreshInv, OrphanInv, StoppedBeforeDeleted, PastStop
  <2>5. CancelInv'  BY DEF TypeOK, FreshInv, CreateInv, CancelInv, Creating
  <2>6. StoppedBeforeDeleted'  BY DEF TypeOK, StoppedBeforeDeleted, PastStop
  <2>7. NoGhostMail'  BY DEF TypeOK, NoGhostMail
  <2>8. NoFilesWithoutAccount'  BY DEF TypeOK, OrphanInv, NoFilesWithoutAccount
  <2>9. Monitored'  BY DEF TypeOK, FreshInv, CreateInv, CancelInv, StoreInv, Monitored, Creating
  <2>10. StoreInv'  BY DEF TypeOK, StoreInv
  <2>11. ServedByWorker'  BY DEF TypeOK, ServedByWorker
  <2> QED  BY <2>1, <2>2, <2>3, <2>4, <2>5, <2>6, <2>7, <2>8, <2>9, <2>10, <2>11
<1>30. ASSUME ShutdownTimeout PROVE Inv'
  <2> USE <1>30 DEF ShutdownTimeout, Move, process, monitor, calls, disk, history
  <2>1. TypeOK'  BY DEF TypeOK
  <2>2. FreshInv'  BY DEF TypeOK, FreshInv, CreateInv, Creating
  <2>3. CreateInv'  BY DEF TypeOK, FreshInv, CreateInv, Creating
  <2>4. OrphanInv'  BY DEF TypeOK, FreshInv, OrphanInv, StoppedBeforeDeleted, PastStop
  <2>5. CancelInv'  BY DEF TypeOK, FreshInv, CreateInv, CancelInv, Creating
  <2>6. StoppedBeforeDeleted'  BY DEF TypeOK, StoppedBeforeDeleted, PastStop
  <2>7. NoGhostMail'  BY DEF TypeOK, NoGhostMail
  <2>8. NoFilesWithoutAccount'  BY DEF TypeOK, OrphanInv, NoFilesWithoutAccount
  <2>9. Monitored'  BY DEF TypeOK, FreshInv, CreateInv, CancelInv, StoreInv, Monitored, Creating
  <2>10. StoreInv'  BY DEF TypeOK, StoreInv
  <2>11. ServedByWorker'  BY DEF TypeOK, ServedByWorker
  <2> QED  BY <2>1, <2>2, <2>3, <2>4, <2>5, <2>6, <2>7, <2>8, <2>9, <2>10, <2>11
<1>31. ASSUME ServeFails PROVE Inv'
  <2> USE <1>31 DEF ServeFails, Move, process, monitor, calls, disk, history
  <2>1. TypeOK'  BY DEF TypeOK
  <2>2. FreshInv'  BY DEF TypeOK, FreshInv, CreateInv, Creating
  <2>3. CreateInv'  BY DEF TypeOK, FreshInv, CreateInv, Creating
  <2>4. OrphanInv'  BY DEF TypeOK, FreshInv, OrphanInv, StoppedBeforeDeleted, PastStop
  <2>5. CancelInv'  BY DEF TypeOK, FreshInv, CreateInv, CancelInv, Creating
  <2>6. StoppedBeforeDeleted'  BY DEF TypeOK, StoppedBeforeDeleted, PastStop
  <2>7. NoGhostMail'  BY DEF TypeOK, NoGhostMail
  <2>8. NoFilesWithoutAccount'  BY DEF TypeOK, OrphanInv, NoFilesWithoutAccount
  <2>9. Monitored'  BY DEF TypeOK, FreshInv, CreateInv, CancelInv, StoreInv, Monitored, Creating
  <2>10. StoreInv'  BY DEF TypeOK, StoreInv
  <2>11. ServedByWorker'  BY DEF TypeOK, ServedByWorker
  <2> QED  BY <2>1, <2>2, <2>3, <2>4, <2>5, <2>6, <2>7, <2>8, <2>9, <2>10, <2>11
<1>32. ASSUME Interrupt PROVE Inv'
  <2> USE <1>32 DEF Interrupt, process, monitor, calls, disk, history
  <2>1. TypeOK'  BY DEF TypeOK
  <2>2. FreshInv'  BY DEF TypeOK, FreshInv, CreateInv, Creating
  <2>3. CreateInv'  BY DEF TypeOK, FreshInv, CreateInv, Creating
  <2>4. OrphanInv'  BY DEF TypeOK, FreshInv, OrphanInv, StoppedBeforeDeleted, PastStop
  <2>5. CancelInv'  BY DEF TypeOK, FreshInv, CreateInv, CancelInv, Creating
  <2>6. StoppedBeforeDeleted'  BY DEF TypeOK, StoppedBeforeDeleted, PastStop
  <2>7. NoGhostMail'  BY DEF TypeOK, NoGhostMail
  <2>8. NoFilesWithoutAccount'  BY DEF TypeOK, OrphanInv, NoFilesWithoutAccount
  <2>9. Monitored'  BY DEF TypeOK, FreshInv, CreateInv, CancelInv, StoreInv, Monitored, Creating
  <2>10. StoreInv'  BY DEF TypeOK, StoreInv
  <2>11. ServedByWorker'  BY DEF TypeOK, ServedByWorker
  <2> QED  BY <2>1, <2>2, <2>3, <2>4, <2>5, <2>6, <2>7, <2>8, <2>9, <2>10, <2>11
<1>33. ASSUME CancelWorkers PROVE Inv'
  <2> USE <1>33 DEF CancelWorkers, Move, process, monitor, calls, disk, history
  <2>1. TypeOK'  BY DEF TypeOK
  <2>2. FreshInv'  BY DEF TypeOK, FreshInv, CreateInv, Creating
  <2>3. CreateInv'  BY DEF TypeOK, FreshInv, CreateInv, Creating
  <2>4. OrphanInv'  BY DEF TypeOK, FreshInv, OrphanInv, StoppedBeforeDeleted, PastStop
  <2>5. CancelInv'  BY DEF TypeOK, FreshInv, CreateInv, CancelInv, Creating
  <2>6. StoppedBeforeDeleted'  BY DEF TypeOK, StoppedBeforeDeleted, PastStop
  <2>7. NoGhostMail'  BY DEF TypeOK, NoGhostMail
  <2>8. NoFilesWithoutAccount'  BY DEF TypeOK, OrphanInv, NoFilesWithoutAccount
  <2>9. Monitored'  BY DEF TypeOK, FreshInv, CreateInv, CancelInv, StoreInv, Monitored, Creating
  <2>10. StoreInv'  BY DEF TypeOK, StoreInv
  <2>11. ServedByWorker'  BY DEF TypeOK, ServedByWorker
  <2> QED  BY <2>1, <2>2, <2>3, <2>4, <2>5, <2>6, <2>7, <2>8, <2>9, <2>10, <2>11
<1>34. ASSUME WaitEnds PROVE Inv'
  <2> USE <1>34 DEF WaitEnds, Move, process, monitor, calls, disk, history
  <2>1. TypeOK'  BY DEF TypeOK
  <2>2. FreshInv'  BY DEF TypeOK, FreshInv, CreateInv, Creating
  <2>3. CreateInv'  BY DEF TypeOK, FreshInv, CreateInv, Creating
  <2>4. OrphanInv'  BY DEF TypeOK, FreshInv, OrphanInv, StoppedBeforeDeleted, PastStop
  <2>5. CancelInv'  BY DEF TypeOK, FreshInv, CreateInv, CancelInv, Creating
  <2>6. StoppedBeforeDeleted'  BY DEF TypeOK, StoppedBeforeDeleted, PastStop
  <2>7. NoGhostMail'  BY DEF TypeOK, NoGhostMail
  <2>8. NoFilesWithoutAccount'  BY DEF TypeOK, OrphanInv, NoFilesWithoutAccount
  <2>9. Monitored'  BY DEF TypeOK, FreshInv, CreateInv, CancelInv, StoreInv, Monitored, Creating
  <2>10. StoreInv'  BY DEF TypeOK, StoreInv
  <2>11. ServedByWorker'  BY DEF TypeOK, ServedByWorker
  <2> QED  BY <2>1, <2>2, <2>3, <2>4, <2>5, <2>6, <2>7, <2>8, <2>9, <2>10, <2>11
<1>35. ASSUME CloseStore PROVE Inv'
  <2> USE <1>35 DEF CloseStore, Move, process, monitor, calls, disk, history
  <2>1. TypeOK'  BY DEF TypeOK
  <2>2. FreshInv'  BY DEF TypeOK, FreshInv, CreateInv, Creating
  <2>3. CreateInv'  BY DEF TypeOK, FreshInv, CreateInv, Creating
  <2>4. OrphanInv'  BY DEF TypeOK, FreshInv, OrphanInv, StoppedBeforeDeleted, PastStop
  <2>5. CancelInv'  BY DEF TypeOK, FreshInv, CreateInv, CancelInv, Creating
  <2>6. StoppedBeforeDeleted'  BY DEF TypeOK, StoppedBeforeDeleted, PastStop
  <2>7. NoGhostMail'  BY DEF TypeOK, NoGhostMail
  <2>8. NoFilesWithoutAccount'  BY DEF TypeOK, OrphanInv, NoFilesWithoutAccount
  <2>9. Monitored'  BY DEF TypeOK, FreshInv, CreateInv, CancelInv, StoreInv, Monitored, Creating
  <2>10. StoreInv'  BY DEF TypeOK, StoreInv
  <2>11. ServedByWorker'  BY DEF TypeOK, ServedByWorker
  <2> QED  BY <2>1, <2>2, <2>3, <2>4, <2>5, <2>6, <2>7, <2>8, <2>9, <2>10, <2>11
<1>36. ASSUME Boot PROVE Inv'
  <2> USE <1>36 DEF Boot, Idle, process, monitor, calls, disk, history
  <2>1. TypeOK'
    <3>1. boots' \in 1 .. MaxBoots  BY DEF TypeOK
    <3>2. worker' \in [Accounts -> InMap \cup {"none", "removed", "done"}]  BY DEF TypeOK
    <3> QED  BY <3>1, <3>2 DEF TypeOK
  <2>2. FreshInv'  BY DEF TypeOK, FreshInv, CreateInv, Creating
  <2>3. CreateInv'  BY DEF TypeOK, FreshInv, CreateInv, Creating
  <2>4. OrphanInv'  BY DEF TypeOK, FreshInv, OrphanInv, StoppedBeforeDeleted, PastStop
  <2>5. CancelInv'  BY DEF TypeOK, FreshInv, CreateInv, CancelInv, Creating
  <2>6. StoppedBeforeDeleted'  BY DEF TypeOK, StoppedBeforeDeleted, PastStop
  <2>7. NoGhostMail'  BY DEF TypeOK, NoGhostMail
  <2>8. NoFilesWithoutAccount'  BY DEF TypeOK, OrphanInv, NoFilesWithoutAccount
  <2>9. Monitored'  BY DEF TypeOK, FreshInv, CreateInv, CancelInv, StoreInv, Monitored, Creating
  <2>10. StoreInv'  BY DEF TypeOK, StoreInv
  <2>11. ServedByWorker'  BY DEF TypeOK, ServedByWorker
  <2> QED  BY <2>1, <2>2, <2>3, <2>4, <2>5, <2>6, <2>7, <2>8, <2>9, <2>10, <2>11
<1>37. ASSUME UNCHANGED vars PROVE Inv'
  BY <1>37 DEF vars, process, monitor, calls, disk, history, TypeOK, FreshInv, CreateInv, Creating,
      OrphanInv, CancelInv, PastStop, StoppedBeforeDeleted, NoGhostMail, NoFilesWithoutAccount,
      Monitored, StoreInv, ServedByWorker
<1> QED
  BY <1>1, <1>2, <1>3, <1>4, <1>5, <1>6, <1>7, <1>8, <1>9, <1>10, <1>11,
     <1>12, <1>13, <1>14, <1>15, <1>16, <1>17, <1>18, <1>19, <1>20, <1>21, <1>22,
     <1>23, <1>24, <1>25, <1>26, <1>27, <1>28, <1>29, <1>30, <1>31, <1>32, <1>33,
     <1>34, <1>35, <1>36, <1>37
  DEF Next, CallBegin, CallStep, WorkerStep, Main, CloseDown

LEMMA Invariance == Spec => []Inv
<1>1. Init => Inv
  BY InitInv
<1>2. Inv /\ [Next]_vars => Inv'
  BY StepInv
<1> QED
  BY <1>1, <1>2, PTL DEF Spec

\* Every variable keeps its type.
THEOREM TypeCorrect == Spec => []TypeOK
  BY Invariance, PTL DEF Inv

\* A deletion removes rows and files only after the account's worker has ended
\* (StopAccount), unless the account was being created at the same time.
THEOREM StoppedFirst == Spec => []StoppedBeforeDeleted
  BY Invariance, PTL DEF Inv

\* A deletion leaves no mail, and no files but for the causes that
\* NoFilesWithoutAccount names (service.go: Delete).
THEOREM DeletionComplete == Spec => []NothingLeft
  BY Invariance, PTL DEF Inv, NothingLeft

\* While the process serves, an account that is neither being created nor
\* deleted has a worker (manager.go: run returns only when it is cancelled).
THEOREM EveryAccountMonitored == Spec => []Monitored
  BY Invariance, PTL DEF Inv

\* After the database was closed no worker that has come past loading runs, unless
\* it was started behind Close's loop after the server, not a signal, ended the
\* process (main.go: the deferred calls; manager.go: Close).
THEOREM WorkersEndFirst == Spec => []StoreOutlivesWorkers
<1>1. Inv => StoreOutlivesWorkers
  BY DEF Inv, StoreInv, StoreOutlivesWorkers, StoreOpen
<1> QED
  BY Invariance, <1>1, PTL

\* A caller that waits for a result is the one its account's worker serves
\* (manager.go: Sync, connected).
THEOREM WaitingIsServed == Spec => []ServedByWorker
  BY Invariance, PTL DEF Inv

-----------------------------------------------------------------------------
(* The handlers, workers and the shutdown implement AccountBook. *)

\* A call about an account that exists or existed names one that was created.
CallInv ==
    \A c \in Clients :
        pc[c] \in {"stop", "stopWait", "deleteRow", "removeDir"} => status[target[c]] # "none"

\* While the process serves, a worker that was cancelled and has not left the map is
\* waited for; a deletion waits for no other; only a worker is cancelled.
DoomInv ==
    /\ WaitsForCancelled
    /\ \A a \in Accounts :
          /\ cancelled[a] /\ worker[a] \in InMap =>
                phase # "serving" \/ \E c \in Clients : At(c, "stopWait", a)
          /\ worker[a] = "none" => ~cancelled[a]

\* Every step keeps both.
LEMMA StepCalls == Inv /\ CallInv /\ DoomInv /\ [Next]_vars => CallInv' /\ DoomInv'
<1> SUFFICES ASSUME Inv, CallInv, DoomInv, [Next]_vars PROVE CallInv' /\ DoomInv'
  OBVIOUS
<1> USE DEF Inv, TypeOK, Running, InMap, At, WaitsForCancelled
<1>1. ASSUME NEW c \in Clients, NEW a \in Accounts, NEW label, Begin(c, label, a),
             label # "stopWait", label \in {"stop"} => status[a] # "none",
             label \notin {"deleteRow", "removeDir"}
      PROVE  CallInv' /\ DoomInv'
  <2> USE <1>1 DEF Begin, Idle, process, monitor, disk, history
  <2>1. CallInv'  BY DEF CallInv
  <2>2. DoomInv'  BY DEF DoomInv
  <2> QED  BY <2>1, <2>2
<1>2. ASSUME NEW c \in Clients, SyncGone(c) PROVE CallInv' /\ DoomInv'
  BY <1>2 DEF SyncGone, Step, CallInv, DoomInv, process, monitor, disk, history
<1>3. ASSUME NEW c \in Clients, CallStep(c) PROVE CallInv' /\ DoomInv'
  <2> USE DEF Step, process, monitor, disk, history
  <2>1. CASE CreateInsert(c)
    BY <2>1 DEF CreateInsert, CallInv, DoomInv
  <2>2. CASE CreateFails(c)
    BY <2>2 DEF CreateFails, CallInv, DoomInv
  <2>3. CASE CreateStart(c)
    <3>1. worker[target[c]] = "none" /\ ~cancelled[target[c]]
      BY <2>3 DEF CreateStart, CreateInv, DoomInv
    <3>2. CallInv'
      BY <2>3 DEF CreateStart, CallInv
    <3>3. DoomInv'
      BY <2>3, <3>1 DEF CreateStart, StartAccount, DoomInv
    <3> QED  BY <3>2, <3>3
  <2>4. CASE StopLookup(c)
    BY <2>4 DEF StopLookup, CallInv, DoomInv
  <2>5. CASE StopWait(c)
    BY <2>5 DEF StopWait, CallInv, DoomInv
  <2>6. CASE DeleteRow(c)
    BY <2>6 DEF DeleteRow, CallInv, DoomInv
  <2>7. CASE DeleteRowFails(c)
    BY <2>7 DEF DeleteRowFails, CallInv, DoomInv
  <2>8. CASE RemoveDir(c)
    BY <2>8 DEF RemoveDir, CallInv, DoomInv
  <2>9. CASE RemoveDirFails(c)
    BY <2>9 DEF RemoveDirFails, CallInv, DoomInv
  <2>10. CASE SyncLookup(c)
    BY <2>10 DEF SyncLookup, CallInv, DoomInv
  <2> QED
    BY <1>3, <2>1, <2>2, <2>3, <2>4, <2>5, <2>6, <2>7, <2>8, <2>9, <2>10 DEF CallStep
<1>4. ASSUME NEW a \in Accounts, WorkerStep(a) PROVE CallInv' /\ DoomInv'
  <2> USE DEF Become, Show, ShowIf, Cancelled, Disconnected, Reply, Step,
          process, monitor, calls, disk, history
  <2>1. CASE Load(a)
    BY <2>1 DEF Load, CallInv, DoomInv
  <2>2. CASE SyncEnd(a)
    BY <2>2 DEF SyncEnd, CallInv, DoomInv
  <2>3. CASE Download(a)
    BY <2>3 DEF Download, CallInv, DoomInv
  <2>4. CASE SaveEmail(a)
    BY <2>4 DEF SaveEmail, CallInv, DoomInv
  <2>5. CASE SaveFails(a)
    BY <2>5 DEF SaveFails, CallInv, DoomInv
  <2>6. CASE Disconnect(a)
    BY <2>6 DEF Disconnect, CallInv, DoomInv
  <2>7. CASE Wake(a)
    BY <2>7 DEF Wake, CallInv, DoomInv
  <2>8. CASE Backoff(a)
    BY <2>8 DEF Backoff, CallInv, DoomInv
  <2>9. CASE Forget(a)
    BY <2>9 DEF Forget, CallInv, DoomInv
  <2>10. CASE Done(a)
    BY <2>10 DEF Done, CallInv, DoomInv
  <2>11. ASSUME NEW c \in Clients, Take(a, c) PROVE CallInv' /\ DoomInv'
    BY <2>11 DEF Take, CallInv, DoomInv
  <2>12. ASSUME NEW c \in Clients, Refuse(a, c) PROVE CallInv' /\ DoomInv'
    BY <2>12 DEF Refuse, CallInv, DoomInv
  <2> QED
    BY <1>4, <2>1, <2>2, <2>3, <2>4, <2>5, <2>6, <2>7, <2>8, <2>9, <2>10, <2>11, <2>12
    DEF WorkerStep
<1>5. CASE Signal \/ ServeFails \/ Interrupt \/ CloseDown
  <2> USE DEF Move, CallInv, DoomInv, monitor, calls, disk, history
  <2>1. CASE Signal \/ ServeFails \/ Interrupt
    BY <2>1 DEF Signal, ServeFails, Interrupt
  <2>2. CASE CancelWorkers
    BY <2>2 DEF CancelWorkers
  <2>3. CASE Drained \/ ShutdownTimeout \/ WaitEnds \/ CloseStore
    BY <2>3 DEF Drained, ShutdownTimeout, WaitEnds, CloseStore
  <2> QED  BY <1>5, <2>1, <2>2, <2>3 DEF CloseDown
<1>6. CASE Boot
  BY <1>6 DEF Boot, Idle, CallInv, DoomInv, disk
<1>7. CASE UNCHANGED vars
  BY <1>7 DEF vars, CallInv, DoomInv, process, monitor, calls, disk, history
<1>8. ASSUME NEW c \in Clients, CallBegin(c) PROVE CallInv' /\ DoomInv'
  BY <1>1, <1>8 DEF CallBegin, CreateBegin, DeleteBegin, SyncBegin
<1>9. ASSUME NEW a \in Accounts, LoadFails(a) PROVE CallInv' /\ DoomInv'
  BY <1>9
  DEF LoadFails, Become, Cancelled, CallInv, DoomInv, process, calls, disk
<1> QED
  BY <1>2, <1>3, <1>4, <1>5, <1>6, <1>7, <1>8, <1>9 DEF Next, Main

\* A deletion never waits for a worker that goes on (manager.go: StopAccount
\* cancels the one it found, and nothing starts it again).
THEOREM DeletionIsHeard == Spec => []WaitsForCancelled
<1>1. Init => CallInv /\ DoomInv
  BY DEF Init, CallInv, DoomInv, WaitsForCancelled, InMap, Running
<1> QED
  BY Invariance, StepCalls, <1>1, PTL DEF Spec, DoomInv

\* What each label is in the book, and back.
LEMMA StageFacts ==
  /\ Stage["insert"] = "create" /\ Stage["start"] = "created"
  /\ Stage["stop"] = "delete" /\ Stage["stopWait"] = "delete"
  /\ Stage["deleteRow"] = "unwatched" /\ Stage["removeDir"] = "deleted"
  /\ Stage["lookup"] = "sync" /\ Stage["offer"] = "sync" /\ Stage["await"] = "sync"
  /\ Stage["none"] = "none" /\ Stage["ok"] = "ok"
  /\ Stage["error"] = "error" /\ Stage["notFound"] = "notFound"
  /\ \A l \in Labels : (Stage[l] = "create") <=> (l = "insert")
  /\ \A l \in Labels :
        (Stage[l] \in Book!Answers) <=> (l \in {"none", "ok", "error", "notFound"})
  BY DEF Stage, Labels, Book!Answers

\* A call that goes on does so in the book.
LEMMA JobStep ==
  ASSUME Inv, NEW c \in Clients, NEW label, pc' = [pc EXCEPT ![c] = label]
  PROVE  Job' = [Job EXCEPT ![c] = Stage[label]]
  BY DEF Inv, TypeOK, Job

\* A reply ends the call that is served, if its caller still waits.
LEMMA ReplyStep ==
  ASSUME Inv, NEW a \in Accounts, NEW outcome, Reply(a, outcome)
  PROVE  /\ target' = target
         /\ \/ Job' = Job
            \/ \E c \in Clients :
                  Job[c] = "sync" /\ target[c] = a /\ Job' = [Job EXCEPT ![c] = Stage[outcome]]
<1> USE DEF Inv, TypeOK, At
<1>1. target' = target
  BY DEF Reply
<1>2. CASE \E c \in Clients : c = serving[a] /\ At(c, "await", a)
  <2>1. PICK c \in Clients : c = serving[a] /\ At(c, "await", a)
    BY <1>2
  <2>2. pc' = [pc EXCEPT ![c] = outcome]
    BY <2>1 DEF Reply
  <2>3. Job' = [Job EXCEPT ![c] = Stage[outcome]]
    BY <2>2, JobStep
  <2>4. Job[c] = "sync"
    BY <2>1, StageFacts DEF Job
  <2> QED  BY <1>1, <2>1, <2>3, <2>4
<1>3. CASE ~ \E c \in Clients : c = serving[a] /\ At(c, "await", a)
  <2>1. pc' = pc
    BY <1>3 DEF Reply
  <2> QED  BY <1>1, <2>1 DEF Job
<1> QED  BY <1>2, <1>3

\* The state of the book.
Page == <<RunningAs, <<Life, Watched, lost, emails, files>>, <<Job, target>>>>

\* Every step of a call is a step of the book, or none.
LEMMA CallBook ==
  ASSUME Inv, CallInv, NEW c \in Clients, CallStep(c) \/ SyncGone(c)
  PROVE  Book!Next
<1> USE DEF Inv, TypeOK
<1>1. target[c] \in Accounts
  OBVIOUS
<1>2. RunningAs' = RunningAs
  BY DEF CallStep, CreateInsert, CreateFails, CreateStart, StopLookup, StopWait, DeleteRow,
     DeleteRowFails, RemoveDir, RemoveDirFails, SyncLookup, SyncGone, process, RunningAs
<1>3. worker' = worker => Watched' = Watched
  BY DEF Watched
<1>4. rows' = rows /\ status' = status => Life' = Life
  BY DEF Life
<1>5. RunningAs # "stopped" <=> StoreOpen
  BY DEF RunningAs, StoreOpen
<1>6. ASSUME NEW label, Step(c, label)
      PROVE  Job' = [Job EXCEPT ![c] = Stage[label]] /\ target' = target
  BY <1>6, JobStep DEF Step
<1> HIDE DEF RunningAs
<1> USE DEF process, monitor, disk, history, Book!Turn, Book!accounts
<1>7. CASE CreateInsert(c)
  <2> DEFINE a == target[c]
  <2>1. Job[c] = "create" /\ Job' = [Job EXCEPT ![c] = "created"]
    BY <1>6, <1>7, StageFacts DEF CreateInsert, Job
  <2>2. Life[a] = "unused" /\ Life' = [Life EXCEPT ![a] = "kept"]
    BY <1>1, <1>7 DEF CreateInsert, Life, CreateInv, At
  <2>3. Book!Create(c)
    BY <1>2, <1>3, <1>5, <1>7, <2>1, <2>2 DEF CreateInsert, Step, Book!Create
  <2> QED  BY <2>3 DEF Book!Next
<1>8. CASE CreateStart(c)
  <2> DEFINE a == target[c]
  <2>1. Job[c] = "created" /\ Job' = [Job EXCEPT ![c] = "ok"]
    BY <1>6, <1>8, StageFacts DEF CreateStart, Job
  <2>2. Watched' = Watched \cup {a}
    <3>1. worker[a] = "none"
      BY <1>1, <1>8 DEF CreateStart, CreateInv, At
    <3>2. worker' = [worker EXCEPT ![a] = "loading"]
      BY <1>8, <3>1 DEF CreateStart, StartAccount, Running, InMap
    <3> QED  BY <1>1, <3>2 DEF Watched, Running
  <2>3. Book!Watch(c)
    BY <1>2, <1>4, <1>8, <2>1, <2>2 DEF CreateStart, Step, Book!Watch
  <2> QED  BY <2>3 DEF Book!Next
<1>9. CASE StopLookup(c)
  <2>1. CASE worker[target[c]] \in InMap
    <3>1. Job[c] = "delete" /\ Job' = [Job EXCEPT ![c] = "delete"]
      BY <1>6, <1>9, <2>1, StageFacts DEF StopLookup, Job
    <3>2. Job' = Job
      BY <3>1 DEF Job
    <3>3. Book!Unseen
      BY <1>2, <1>3, <1>4, <1>9, <3>2 DEF StopLookup, Step, Book!Unseen, Book!requests
    <3> QED  BY <3>3 DEF Book!Next
  <2>2. CASE worker[target[c]] \notin InMap
    <3>1. Job[c] = "delete" /\ Job' = [Job EXCEPT ![c] = "unwatched"]
      BY <1>6, <1>9, <2>2, StageFacts DEF StopLookup, Job
    <3>2. Book!Unwatched(c)
      BY <1>2, <1>3, <1>4, <1>9, <2>2, <3>1
      DEF StopLookup, Step, Watched, InMap, Book!Unwatched
    <3> QED  BY <3>2 DEF Book!Next
  <2> QED  BY <2>1, <2>2
<1>10. CASE StopWait(c)
  <2>1. Job[c] = "delete" /\ Job' = [Job EXCEPT ![c] = "unwatched"]
    BY <1>6, <1>10, StageFacts DEF StopWait, Job
  <2>2. target[c] \notin Watched
    BY <1>10 DEF StopWait, Watched, Running
  <2>3. Book!Unwatched(c)
    BY <1>2, <1>3, <1>4, <1>10, <2>1, <2>2 DEF StopWait, Step, Book!Unwatched
  <2> QED  BY <2>3 DEF Book!Next
<1>11. CASE DeleteRow(c)
  <2> DEFINE a == target[c]
  <2>0. Job[c] = "unwatched" /\ status[a] # "none"
    BY <1>11, StageFacts DEF DeleteRow, Job, CallInv
  <2>1. CASE a \in rows
    <3>1. Job' = [Job EXCEPT ![c] = "deleted"]
      BY <1>6, <1>11, <2>1, StageFacts DEF DeleteRow
    <3>2. Life[a] = "kept" /\ Life' = [Life EXCEPT ![a] = "deleted"]
      BY <1>1, <1>11, <2>0, <2>1 DEF DeleteRow, Life
    <3>3. Book!Delete(c)
      BY <1>2, <1>3, <1>5, <1>11, <2>0, <3>1, <3>2 DEF DeleteRow, Step, Book!Delete
    <3> QED  BY <3>3 DEF Book!Next
  <2>2. CASE a \notin rows
    <3>1. Job' = [Job EXCEPT ![c] = "notFound"]
      BY <1>6, <1>11, <2>2, StageFacts DEF DeleteRow
    <3>2. Life[a] = "deleted" /\ Life' = Life
      BY <1>1, <1>11, <2>0, <2>2 DEF DeleteRow, Life
    <3>3. emails' = emails
      BY <1>11, <2>2 DEF DeleteRow, NoGhostMail
    <3>4. Book!DeletedBefore(c)
      BY <1>2, <1>3, <1>11, <2>0, <3>1, <3>2, <3>3 DEF DeleteRow, Step, Book!DeletedBefore
    <3> QED  BY <3>4 DEF Book!Next
  <2> QED  BY <2>1, <2>2
<1>12. CASE RemoveDir(c)
  <2>1. Job[c] = "deleted" /\ Job' = [Job EXCEPT ![c] = "ok"]
    BY <1>6, <1>12, StageFacts DEF RemoveDir, Job
  <2>2. Book!Purge(c)
    BY <1>2, <1>3, <1>4, <1>12, <2>1 DEF RemoveDir, Step, Book!Purge
  <2> QED  BY <2>2 DEF Book!Next
<1>13. ASSUME Step(c, "error"), UNCHANGED <<monitor, disk, lost>>,
              pc[c] \in {"insert", "deleteRow", "removeDir", "lookup", "offer", "await"}
       PROVE  Book!Next
  <2>1. Job[c] \in {"create", "unwatched", "deleted", "sync"}
    BY <1>13, StageFacts DEF Job
  <2>2. Job' = [Job EXCEPT ![c] = "error"]
    BY <1>6, <1>13, StageFacts
  <2>3. Book!Fail(c)
    BY <1>2, <1>3, <1>4, <1>13, <2>1, <2>2 DEF Step, Book!Fail
  <2> QED  BY <2>3 DEF Book!Next
<1>14. CASE CreateFails(c) \/ DeleteRowFails(c) \/ RemoveDirFails(c) \/ SyncGone(c)
  BY <1>13, <1>14 DEF CreateFails, DeleteRowFails, RemoveDirFails, SyncGone
<1>15. CASE SyncLookup(c)
  <2>1. CASE worker[target[c]] \in InMap
    <3>1. Job[c] = "sync" /\ Job' = [Job EXCEPT ![c] = "sync"]
      BY <1>6, <1>15, <2>1, StageFacts DEF SyncLookup, Job
    <3>2. Job' = Job
      BY <3>1 DEF Job
    <3>3. Book!Unseen
      BY <1>2, <1>3, <1>4, <1>15, <3>2 DEF SyncLookup, Step, Book!Unseen, Book!requests
    <3> QED  BY <3>3 DEF Book!Next
  <2>2. CASE worker[target[c]] \notin InMap
    BY <1>13, <1>15, <2>2 DEF SyncLookup
  <2> QED  BY <2>1, <2>2
<1> QED
  BY <1>7, <1>8, <1>9, <1>10, <1>11, <1>12, <1>14, <1>15 DEF CallStep

\* Every step of a worker is a step of the book, or none.
LEMMA WorkerBook ==
  ASSUME Inv, CallInv, DoomInv, NEW a \in Accounts, WorkerStep(a) \/ LoadFails(a)
  PROVE  Book!Next
<1> USE DEF Inv, TypeOK, Become
<1>1. RunningAs' = RunningAs
  BY DEF WorkerStep, Load, SyncEnd, Download, SaveEmail, SaveFails, Disconnect, Wake, Take,
     Backoff, Refuse, Forget, Done, LoadFails, process, RunningAs
<1>2. ASSUME NEW text, text # "none", NEW cond, ShowIf(cond, a, text), rows' = rows
      PROVE  Life' = Life
  BY <1>2 DEF ShowIf, Life, FreshInv
<1>3. rows' = rows /\ status' = status => Life' = Life
  BY DEF Life
<1>4. ASSUME NEW state \in Running, worker[a] \in Running, Become(a, state)
      PROVE  Watched' = Watched
  BY <1>4 DEF Watched, Running
<1>5. ASSUME NEW state, state \notin Running, worker[a] \in Running, Become(a, state)
      PROVE  a \in Watched /\ Watched' = Watched \ {a}
  BY <1>5 DEF Watched
<1>6. calls' = calls => Job' = Job /\ target' = target
  BY DEF calls, Job
<1>7. ASSUME Cancelled(a), worker[a] \in Running
      PROVE  (\E c \in Clients : Job[c] = "delete" /\ target[c] = a) \/ RunningAs # "serving"
  <2>1. CASE cancelled[a] /\ phase = "serving"
    <3>1. PICK c \in Clients : At(c, "stopWait", a)
      BY <1>7, <2>1 DEF DoomInv, InMap
    <3>2. Job[c] = "delete"
      BY <3>1, StageFacts DEF At, Job
    <3> QED  BY <3>1, <3>2 DEF At
  <2>2. CASE phase # "serving"
    BY <2>2 DEF RunningAs
  <2> QED  BY <1>7, <2>1, <2>2 DEF Cancelled, StoreInv
<1> HIDE DEF RunningAs
<1> USE DEF process, disk, history, Book!Turn, Book!accounts, Book!requests
<1>8. CASE Load(a)
  <2>1. CASE Cancelled(a) \/ a \notin rows
    <3>1. a \in Watched /\ Watched' = Watched \ {a}
      BY <1>5, <1>8, <2>1 DEF Load, Running
    <3>2. a \notin rows => Life[a] = "deleted"
      BY <1>8 DEF Load, Life, FreshInv
    <3>3. Book!Release(a)
      BY <1>1, <1>3, <1>6, <1>7, <1>8, <2>1, <3>1, <3>2 DEF Load, Running, Book!Release
    <3> QED  BY <3>3 DEF Book!Next
  <2>2. CASE ~(Cancelled(a) \/ a \notin rows)
    <3>1. Watched' = Watched
      BY <1>4, <1>8, <2>2 DEF Load, Running
    <3>2. Life' = Life
      BY <1>2, <1>8, <2>2 DEF Load, Show
    <3>3. Book!Unseen
      BY <1>1, <1>6, <1>8, <3>1, <3>2 DEF Load, Book!Unseen
    <3> QED  BY <3>3 DEF Book!Next
  <2> QED  BY <2>1, <2>2
<1>9. CASE SyncEnd(a)
  <2>1. Watched' = Watched /\ a \in Watched
    BY <1>4, <1>9 DEF SyncEnd, Running, Watched
  <2>2. Life' = Life
    BY <1>2, <1>9 DEF SyncEnd, Show
  <2>3. target' = target
    BY <1>9, ReplyStep DEF SyncEnd
  <2>4. CASE Job' = Job
    <3>1. Book!Unseen
      BY <1>1, <1>9, <2>1, <2>2, <2>3, <2>4 DEF SyncEnd, Book!Unseen
    <3> QED  BY <3>1 DEF Book!Next
  <2>5. ASSUME NEW c \in Clients, Job[c] = "sync", target[c] = a,
               Job' = [Job EXCEPT ![c] = Stage["ok"]]
        PROVE  Book!Next
    <3>1. Book!Synchronised(c)
      BY <1>1, <1>9, <2>1, <2>2, <2>3, <2>5, StageFacts DEF SyncEnd, Book!Synchronised
    <3> QED  BY <3>1 DEF Book!Next
  <2> QED  BY <1>9, <2>4, <2>5, ReplyStep DEF SyncEnd
<1>10. CASE Download(a)
  <2>1. Watched' = Watched /\ a \in Watched
    BY <1>4, <1>10 DEF Download, Running, Watched
  <2>2. Book!Write(a)
    BY <1>1, <1>3, <1>6, <1>10, <2>1 DEF Download, Book!Write
  <2> QED  BY <2>2 DEF Book!Next
<1>11. CASE SaveEmail(a)
  <2>1. Watched' = Watched /\ a \in Watched
    BY <1>4, <1>11 DEF SaveEmail, Running, Watched
  <2>2. Life[a] = "kept"
    BY <1>11 DEF SaveEmail, Life, FreshInv
  <2>3. RunningAs # "stopped"
    BY <1>11 DEF SaveEmail, StoreOpen, RunningAs
  <2>4. Book!Store(a)
    BY <1>1, <1>3, <1>6, <1>11, <2>1, <2>2, <2>3 DEF SaveEmail, Book!Store
  <2> QED  BY <2>4 DEF Book!Next
<1>12. ASSUME Disconnected(a), worker[a] \in Running, UNCHANGED <<process, rows, emails, files, lost>>
       PROVE  Book!Next
  <2>1. target' = target /\ Life' = Life
    BY <1>2, <1>12, ReplyStep DEF Disconnected
  <2>2. CASE Cancelled(a)
    <3>1. a \in Watched /\ Watched' = Watched \ {a}
      BY <1>5, <1>12, <2>2 DEF Disconnected, Running
    <3>2. \/ Job' = Job
          \/ \E c \in Clients :
                Job[c] = "sync" /\ target[c] = a /\ Job' = [Job EXCEPT ![c] = "error"]
      BY <1>12, ReplyStep, StageFacts DEF Disconnected
    <3>3. Book!Release(a)
      BY <1>1, <1>7, <1>12, <2>1, <2>2, <3>1, <3>2 DEF Book!Release
    <3> QED  BY <3>3 DEF Book!Next
  <2>3. CASE ~Cancelled(a)
    <3>1. Watched' = Watched
      BY <1>4, <1>12, <2>3 DEF Disconnected, Running
    <3>2. CASE Job' = Job
      <4>1. Book!Unseen
        BY <1>1, <1>12, <2>1, <3>1, <3>2 DEF Book!Unseen
      <4> QED  BY <4>1 DEF Book!Next
    <3>3. ASSUME NEW c \in Clients, Job[c] = "sync", Job' = [Job EXCEPT ![c] = Stage["error"]]
          PROVE  Book!Next
      <4>1. Book!Fail(c)
        BY <1>1, <1>12, <2>1, <3>1, <3>3, StageFacts DEF Book!Fail
      <4> QED  BY <4>1 DEF Book!Next
    <3> QED  BY <1>12, <3>2, <3>3, ReplyStep DEF Disconnected
  <2> QED  BY <2>2, <2>3
<1>13. CASE SaveFails(a) \/ Disconnect(a)
  BY <1>12, <1>13 DEF SaveFails, Disconnect, Running
<1>14. CASE Wake(a)
  <2>1. Watched' = Watched
    BY <1>4, <1>14 DEF Wake, Running
  <2>2. Life' = Life
    BY <1>2, <1>14 DEF Wake, Show
  <2>3. Book!Unseen
    BY <1>1, <1>6, <1>14, <2>1, <2>2 DEF Wake, Book!Unseen
  <2> QED  BY <2>3 DEF Book!Next
<1>15. CASE Backoff(a)
  <2>1. CASE Cancelled(a)
    <3>1. a \in Watched /\ Watched' = Watched \ {a}
      BY <1>5, <1>15, <2>1 DEF Backoff, Running
    <3>2. Book!Release(a)
      BY <1>1, <1>3, <1>6, <1>7, <1>15, <2>1, <3>1 DEF Backoff, Running, Book!Release
    <3> QED  BY <3>2 DEF Book!Next
  <2>2. CASE ~Cancelled(a)
    <3>1. Watched' = Watched
      BY <1>4, <1>15, <2>2 DEF Backoff, Running
    <3>2. Book!Unseen
      BY <1>1, <1>3, <1>6, <1>15, <3>1 DEF Backoff, Book!Unseen
    <3> QED  BY <3>2 DEF Book!Next
  <2> QED  BY <2>1, <2>2
<1>16. ASSUME NEW c \in Clients, Take(a, c) PROVE Book!Next
  <2>1. Watched' = Watched
    BY <1>4, <1>16 DEF Take, Running
  <2>2. Life' = Life
    BY <1>2, <1>16 DEF Take, Show
  <2>3. Job' = Job
    BY <1>16, StageFacts DEF Take, At, Step, Job
  <2>4. Book!Unseen
    BY <1>1, <1>16, <2>1, <2>2, <2>3 DEF Take, Step, Book!Unseen
  <2> QED  BY <2>4 DEF Book!Next
<1>17. ASSUME NEW c \in Clients, Refuse(a, c) PROVE Book!Next
  <2>1. Watched' = Watched
    BY <1>4, <1>17 DEF Refuse, Running
  <2>2. Job[c] = "sync" /\ Job' = [Job EXCEPT ![c] = "error"]
    <3>1. Job[c] = "sync"
      BY <1>17, StageFacts DEF Refuse, At, Job
    <3>2. Job' = [Job EXCEPT ![c] = Stage["error"]]
      BY <1>17, JobStep DEF Refuse, Step
    <3> QED  BY <3>1, <3>2, StageFacts
  <2>3. Book!Fail(c)
    BY <1>1, <1>3, <1>17, <2>1, <2>2 DEF Refuse, Step, Book!Fail
  <2> QED  BY <2>3 DEF Book!Next
<1>18. CASE Forget(a) \/ Done(a)
  <2>1. Watched' = Watched
    BY <1>18 DEF Forget, Done, Watched, Running
  <2>2. Book!Unseen
    BY <1>1, <1>3, <1>6, <1>18, <2>1 DEF Forget, Done, Book!Unseen
  <2> QED  BY <2>2 DEF Book!Next
<1>19. CASE LoadFails(a)
  <2>1. a \in Watched /\ Watched' = Watched \ {a}
    BY <1>5, <1>19 DEF LoadFails, Running
  <2>2. Book!Lose(a)
    BY <1>1, <1>3, <1>6, <1>19, <2>1 DEF LoadFails, Book!Lose
  <2> QED  BY <2>2 DEF Book!Next
<1> QED
  BY <1>8, <1>9, <1>10, <1>11, <1>13, <1>14, <1>15, <1>16, <1>17, <1>18, <1>19 DEF WorkerStep

\* A new call, and every step of the process, is a step of the book, or none.
LEMMA ProcessBook ==
  ASSUME Inv, Main \/ \E c \in Clients : CallBegin(c)
  PROVE  Book!Next
<1> USE DEF Inv, TypeOK, Book!accounts, Book!requests
<1>1. ASSUME NEW c \in Clients, NEW a \in Accounts, NEW label, Begin(c, label, a),
             \/ /\ label = "insert" /\ status[a] = "none"
                /\ \A d \in Clients : ~At(d, "insert", a)
             \/ label \in {"stop", "lookup"} /\ status[a] # "none"
      PROVE  Book!Next
  <2>1. RunningAs' = RunningAs
    BY <1>1 DEF Begin, process, RunningAs
  <2>2. UNCHANGED <<Life, Watched, lost, emails, files>>
    BY <1>1 DEF Begin, monitor, disk, history, Life, Watched
  <2>3. Job' = [Job EXCEPT ![c] = Stage[label]] /\ target' = [target EXCEPT ![c] = a]
    BY <1>1, JobStep DEF Begin
  <2>4. Job[c] \in Book!Answers
    BY <1>1, StageFacts DEF Begin, Idle, Labels, Job
  <2>5. Stage[label] \in {"create", "delete", "sync"}
        /\ (Stage[label] = "create" <=> label = "insert")
    BY <1>1, StageFacts
  <2>6. (Stage[label] = "create" => Life[a] = "unused") /\ (Stage[label] # "create" => Life[a] # "unused")
    BY <1>1, <2>5 DEF Life
  <2>7. \A d \in Clients : label = "insert" => ~(Job[d] = "create" /\ target[d] = a)
    BY <1>1, StageFacts DEF At, Job, Labels
  <2>8. Job'[c] = Stage[label] /\ target'[c] = a
    BY <2>3 DEF Job
  <2>9. Book!Ask(c)
    BY <2>1, <2>2, <2>3, <2>4, <2>5, <2>6, <2>7, <2>8 DEF Book!Ask
  <2> QED  BY <2>9 DEF Book!Next
<1>2. ASSUME NEW c \in Clients, CallBegin(c) PROVE Book!Next
  BY <1>1, <1>2 DEF CallBegin, CreateBegin, DeleteBegin, SyncBegin
<1>3. CASE Signal \/ ServeFails \/ Interrupt \/ CloseDown
  <2> USE DEF Move
  <2>1. UNCHANGED <<Life, Watched, lost, emails, files, Job, target>>
    <3>1. UNCHANGED <<worker, calls, disk, lost>>
      BY <1>3 DEF Signal, ServeFails, Interrupt, CloseDown, Drained, ShutdownTimeout, CancelWorkers,
         WaitEnds, CloseStore, monitor, history
    <3> QED  BY <3>1 DEF calls, disk, Life, Watched, Job
  <2>2. CASE Signal \/ ServeFails
    <3>1. RunningAs = "serving" /\ RunningAs' = "stopping"
      BY <2>2 DEF Signal, ServeFails, RunningAs
    <3>2. Book!Stop
      BY <2>1, <3>1 DEF Book!Stop
    <3> QED  BY <3>2 DEF Book!Next
  <2>3. CASE Interrupt \/ Drained \/ ShutdownTimeout \/ CancelWorkers
    <3>1. RunningAs' = RunningAs
      BY <2>3 DEF Interrupt, Drained, ShutdownTimeout, CancelWorkers, RunningAs
    <3>2. Book!Unseen
      BY <2>1, <3>1 DEF Book!Unseen
    <3> QED  BY <3>2 DEF Book!Next
  <2>4. CASE WaitEnds
    <3>1. RunningAs = "stopping" /\ RunningAs' = "ending"
      BY <2>4 DEF WaitEnds, RunningAs
    <3>2. Watched = {}
      BY <2>4 DEF WaitEnds, Watched, Running
    <3>3. Book!Stop
      BY <2>1, <3>1, <3>2 DEF Book!Stop
    <3> QED  BY <3>3 DEF Book!Next
  <2>5. CASE CloseStore
    <3>1. RunningAs = "ending" /\ RunningAs' = "stopped"
      BY <2>5 DEF CloseStore, RunningAs
    <3>2. Book!Stop
      BY <2>1, <3>1 DEF Book!Stop
    <3> QED  BY <3>2 DEF Book!Next
  <2> QED  BY <1>3, <2>2, <2>3, <2>4, <2>5 DEF CloseDown
<1>4. CASE Boot
  <2>1. RunningAs' = "serving"
    BY <1>4 DEF Boot, RunningAs
  <2>2. Watched' = {a \in Accounts : Life[a] = "kept"}
    BY <1>4 DEF Boot, Watched, Running, Life, FreshInv
  <2>3. Life' = Life
    BY <1>4 DEF Boot, disk, Life
  <2>4. Job' = [c \in Clients |-> IF Job[c] \in Book!Answers THEN Job[c] ELSE "error"]
    BY <1>4, StageFacts DEF Boot, Idle, Labels, Job
  <2>5. Book!Restart
    BY <1>4, <2>1, <2>2, <2>3, <2>4 DEF Boot, disk, Book!Restart
  <2> QED  BY <2>5 DEF Book!Next
<1> QED
  BY <1>2, <1>3, <1>4 DEF Main

\* The manager, the account service and main implement AccountBook: an account is
\* created once and deleted once, its mail goes with it, nobody stops watching it
\* without a reason, a deletion goes on only when nobody watches, and every answer
\* says what happened.
THEOREM KeepsTheBook == Spec => ImplementsBook
<1>1. Init => CallInv /\ DoomInv
  BY DEF Init, CallInv, DoomInv, WaitsForCancelled, InMap, Running
<1>2. Init => Book!Init
  BY StageFacts DEF Init, Book!Init, RunningAs, Life, Watched, Job, Running
<1>3. Inv /\ CallInv /\ DoomInv /\ [Next]_vars => [Book!Next]_Page
  <2> SUFFICES ASSUME Inv, CallInv, DoomInv, [Next]_vars PROVE Book!Next \/ UNCHANGED Page
    OBVIOUS
  <2>1. CASE UNCHANGED vars
    BY <2>1
    DEF vars, process, monitor, calls, disk, history, Page, RunningAs, Life, Watched, Job
  <2> QED
    BY <2>1, CallBook, WorkerBook, ProcessBook DEF Next
<1> QED
  BY Invariance, StepCalls, <1>1, <1>2, <1>3, PTL
  DEF Spec, ImplementsBook, Book!Spec, Book!accounts, Book!requests, Page
=============================================================================
