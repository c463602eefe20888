--------------------------- MODULE KeyFileProofs ---------------------------
(***************************************************************************)
(* Proofs about KeyFile, for any number of processes, keys and failures.   *)
(***************************************************************************)
EXTENDS KeyFile, TLAPS

Labels == {"start", "generate", "write", "link", "readWinner", "unlink",
           "loaded", "created", "ended"}

\* What is known at each step of LoadOrCreateKey: the key that is about to be
\* linked is complete in its temporary file, the key of a process that linked or
\* read the file is the content of the file, and sealed passwords used that one.
Inv ==
    /\ TypeOK
    /\ \A p \in Processes :
          /\ pc[p] \in {"write", "link"} => key[p] \in Keys
          /\ pc[p] = "link" => temp[p] = "full"
          /\ pc[p] \in {"unlink", "loaded", "created"} => path \in Keys /\ key[p] = path
    /\ \A k \in sealed : k = path /\ k \in Keys

\* The type invariant holds initially, and every step preserves the invariant.
LEMMA InitInv == Init => Inv
  BY DEF Init, Inv, TypeOK

\* One process takes a step.
LEMMA StepInv ==
  ASSUME Inv, NEW p \in Processes, Step(p)
  PROVE  Inv'
<1> USE KeyAssumption DEF Goto, Hold, PutTemp
<1> USE DEF Inv, TypeOK
<1>1. CASE Read(p)
  BY <1>1 DEF Read
<1>2. CASE Generate(p)
  BY <1>2 DEF Generate
<1>3. CASE Write(p)
  BY <1>3 DEF Write
<1>4. CASE Link(p)
  BY <1>4 DEF Link, Content
<1>5. CASE ReadWinner(p)
  BY <1>5 DEF ReadWinner
<1>6. CASE Unlink(p)
  BY <1>6 DEF Unlink
<1>7. CASE Refuse(p)
  BY <1>7 DEF Refuse
<1>8. CASE Fail(p)
  BY <1>8, FaultAssumption DEF Fail, Faulty
<1>9. CASE Kill(p)
  BY <1>9, FaultAssumption DEF Kill, Faulty
<1>10. CASE Restart(p)
  BY <1>10 DEF Restart
<1>11. CASE Seal(p)
  BY <1>11 DEF Seal
<1> QED
  BY <1>1, <1>2, <1>3, <1>4, <1>5, <1>6, <1>7, <1>8, <1>9, <1>10, <1>11, Step(p) DEF Step

\* The inductive invariant holds in every run.
LEMMA Invariance == Spec => []Inv
<1>1. Inv /\ [Next]_vars => Inv'
  <2> SUFFICES ASSUME Inv, [Next]_vars PROVE Inv'
    OBVIOUS
  <2>1. CASE Next
    BY <2>1, StepInv DEF Next
  <2>2. CASE UNCHANGED vars
    BY <2>2 DEF vars, Inv, TypeOK
  <2> QED
    BY <2>1, <2>2
<1> QED
  BY InitInv, <1>1, PTL DEF Spec

\* The variables keep their types in every run of LoadOrCreateKey.
THEOREM TypeCorrect == Spec => []TypeOK
<1>1. Inv => TypeOK
  BY DEF Inv
<1> QED
  BY Invariance, <1>1, PTL

\* Processes that started work with the key in the file, however many race,
\* fail or are killed.
THEOREM KeyAgreement == Spec => []Agreement
<1>1. Inv => Agreement
  BY DEF Inv, Agreement
<1> QED
  BY Invariance, <1>1, PTL

\* Stored passwords can be decrypted with the key in the file for ever.
THEOREM PasswordsDecryptable == Spec => []Decryptable
<1>1. Inv => Decryptable
  BY DEF Inv, Decryptable
<1> QED
  BY Invariance, <1>1, PTL

\* No step of any process replaces or removes the file of the key.
THEOREM KeyIsForever == Spec => KeyForever
<1>1. ASSUME Next PROVE path # NoKey => path' = path
  BY <1>1 DEF Next, Step, Read, Generate, Write, Link, ReadWinner, Unlink, Refuse, Fail,
              Kill, Restart, Seal
<1>2. [Next]_vars => [path # NoKey => path' = path]_path
  BY <1>1 DEF vars
<1> QED
  BY <1>2, PTL DEF Spec, KeyForever

-----------------------------------------------------------------------------
\* The key of a process that started, as KeyChoice sees it.
Holds == [p \in Processes |-> IF pc[p] \in {"loaded", "created"} THEN key[p] ELSE NoKey]
Chosen == IF path \in Keys THEN path ELSE NoKey

\* Temporary files that stay behind are at most one for each failed removal or
\* killed process, however often processes start (LoadOrCreateKey: the deferred
\* removal).
THEOREM LeftoversFew == Spec => []LeftoversBounded
<1>1. Init => LeftoversBounded
  BY DEF Init, LeftoversBounded
<1>2. Inv /\ LeftoversBounded /\ [Next]_vars => LeftoversBounded'
  <2> SUFFICES ASSUME Inv, LeftoversBounded, [Next]_vars PROVE LeftoversBounded'
    OBVIOUS
  <2>1. leftover \in Nat /\ faults \in Nat
    BY DEF Inv, TypeOK
  <2>2. ASSUME NEW p \in Processes, Fail(p) \/ Kill(p) PROVE LeftoversBounded'
    <3>1. leftover' \in {leftover, leftover + 1} /\ faults' = faults + 1
      BY <2>1, <2>2 DEF Fail, Kill, Faulty
    <3> QED
      BY <2>1, <3>1 DEF LeftoversBounded
  <2>3. ASSUME NEW p \in Processes, ~(Fail(p) \/ Kill(p)), Step(p) PROVE UNCHANGED <<leftover, faults>>
    BY <2>3 DEF Step, Read, Generate, Write, Link, ReadWinner, Unlink, Refuse, Restart, Seal
  <2>4. UNCHANGED <<leftover, faults>> => LeftoversBounded'
    BY DEF LeftoversBounded
  <2> QED
    BY <2>2, <2>3, <2>4 DEF Next, vars
<1> QED
  BY <1>1, <1>2, Invariance, PTL DEF Spec

\* Every step chooses a key, hands it to a process, takes it away, or stutters.
LEMMA StepChoice ==
  ASSUME Inv, NEW p \in Processes, Step(p)
  PROVE  Choice!Next \/ UNCHANGED <<Chosen, Holds>>
<1> USE KeyAssumption DEF Goto, Hold, PutTemp, Chosen, Holds
<1> USE DEF Inv, TypeOK
<1>1. CASE Read(p)
  <2>1. CASE path \in Keys
    <3>1. Choice!Learn(p)
      BY <1>1, <2>1 DEF Read, Choice!Learn
    <3> QED
      BY <3>1 DEF Choice!Next
  <2>2. CASE path = NoKey
    BY <1>1, <2>2 DEF Read
  <2> QED
    BY <1>1, <2>1, <2>2 DEF Read
<1>2. CASE Generate(p)
  BY <1>2 DEF Generate
<1>3. CASE Write(p)
  BY <1>3 DEF Write
<1>4. CASE Link(p)
  <2>1. CASE path = NoKey
    <3>1. path' = key[p] /\ key[p] \in Keys
      BY <1>4, <2>1 DEF Link, Content
    <3>2. Choice!Choose(key[p])
      BY <1>4, <2>1, <3>1 DEF Link, Choice!Choose
    <3> QED
      BY <3>1, <3>2 DEF Choice!Next
  <2>2. CASE path # NoKey
    BY <1>4, <2>2 DEF Link
  <2> QED
    BY <2>1, <2>2
<1>5. CASE ReadWinner(p)
  <2>1. Choice!Learn(p)
    BY <1>5 DEF ReadWinner, Choice!Learn
  <2> QED
    BY <2>1 DEF Choice!Next
<1>6. CASE Unlink(p)
  <2>1. Choice!Learn(p)
    BY <1>6 DEF Unlink, Choice!Learn
  <2> QED
    BY <2>1 DEF Choice!Next
<1>7. CASE Refuse(p)
  BY <1>7 DEF Refuse
<1>8. CASE Fail(p)
  BY <1>8 DEF Fail
<1>9. CASE Kill(p)
  <2>1. Choice!Forget(p)
    BY <1>9 DEF Kill, Choice!Forget
  <2> QED
    BY <2>1 DEF Choice!Next
<1>10. CASE Restart(p)
  BY <1>10 DEF Restart
<1>11. CASE Seal(p)
  BY <1>11 DEF Seal
<1> QED
  BY <1>1, <1>2, <1>3, <1>4, <1>5, <1>6, <1>7, <1>8, <1>9, <1>10, <1>11, Step(p) DEF Step

\* LoadOrCreateKey implements the choice of one key.
THEOREM Implementation == Spec => ImplementsChoice
<1>1. Init => Choice!Init
  BY KeyAssumption DEF Init, Choice!Init
<1>2. Inv /\ [Next]_vars => [Choice!Next]_<<Chosen, Holds>>
  <2> SUFFICES ASSUME Inv, [Next]_vars PROVE Choice!Next \/ UNCHANGED <<Chosen, Holds>>
    OBVIOUS
  <2>1. CASE Next
    BY <2>1, StepChoice DEF Next
  <2>2. CASE UNCHANGED vars
    BY <2>2 DEF vars, Chosen, Holds
  <2> QED
    BY <2>1, <2>2
<1> QED
  BY Invariance, <1>1, <1>2, PTL DEF Spec, ImplementsChoice, Choice!Spec, Chosen, Holds
=============================================================================
