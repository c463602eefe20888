---------------------------- MODULE AccessProofs ----------------------------
(***************************************************************************)
(* Proofs about Access, for any number of handlers, tokens and instants.   *)
(***************************************************************************)
EXTENDS Access, TLAPS

\* Steps at which a handler holds a token that no client has yet.
Fresh == {"setup", "save", "prune", "create"}

\* The token a handler holds is new to everybody, or was given to a client; the
\* clock has not gone back since the handler read it.
TokenInv ==
    \A h \in Handlers :
        /\ at[h] <= now
        /\ pc[h] \in Fresh => secret[h] \in drawn \ given
        /\ pc[h] \in {"session", "bearer"} => secret[h] \in given
        /\ pc[h] = "session" => target[h] \in given \cup {NoSecret}
        /\ pc[h] = "revoke" => target[h] \in given

\* Two handlers never drew the same token.
DistinctInv ==
    \A h, g \in Handlers :
        h # g /\ pc[h] \in Fresh /\ pc[g] \in Fresh => secret[h] # secret[g]

\* A session that is saved but not yet returned is pruned only when it has expired.
SavedInv ==
    \A h \in Handlers :
        pc[h] = "prune" => secret[h] \in rows \/ ~Unexpired(secret[h], now)

\* Why a stale request is refused: what ended its token lasts.
StaleInv ==
    \A h \in stale :
        /\ pc[h] \in {"session", "bearer"}
        /\ secret[h] \in closed \/ ~Unexpired(secret[h], at[h])

\* The inductive invariant.
Inv ==
    /\ TypeOK
    /\ TokenInv /\ DistinctInv /\ SavedInv /\ StaleInv
    /\ ClosedForGood /\ KeptUntilEnd

\* The initial state satisfies Inv.
LEMMA InitInv == Init => Inv
  BY MarkerAssumption, TimeAssumption
  DEF Init, Inv, TypeOK, TokenInv, DistinctInv, SavedInv, StaleInv, ClosedForGood,
      KeptUntilEnd, Fresh

\* Every step keeps Inv.
LEMMA StepInv == Inv /\ [Next]_vars => Inv'
<1> SUFFICES ASSUME Inv, [Next]_vars PROVE Inv'
  OBVIOUS
<1> USE MarkerAssumption, TimeAssumption DEF Inv, Fresh, Unexpired
<1>1. ASSUME NEW h \in Handlers, SetupBegin(h) PROVE Inv'
  <2> USE <1>1 DEF SetupBegin, Idle, Step, Clock, Draw, tables, history
  <2>1. TypeOK'
    BY DEF TypeOK
  <2>2. TokenInv'
    BY DEF TypeOK, TokenInv
  <2>3. DistinctInv'
    BY DEF TypeOK, TokenInv, DistinctInv
  <2>4. SavedInv'
    BY DEF SavedInv
  <2>5. StaleInv'
    BY DEF StaleInv
  <2>6. ClosedForGood'
    BY DEF ClosedForGood
  <2>7. KeptUntilEnd'
    BY DEF KeptUntilEnd
  <2> QED
    BY <2>1, <2>2, <2>3, <2>4, <2>5, <2>6, <2>7
<1>2. ASSUME NEW h \in Handlers, Setup(h) PROVE Inv'
  <2> USE <1>2 DEF Setup, Step, Finish, Insert, Give, tables
  <2>1. TypeOK'
    BY DEF TypeOK, TokenInv
  <2>2. TokenInv'
    BY DEF TypeOK, TokenInv, DistinctInv
  <2>3. DistinctInv'
    BY DEF TypeOK, DistinctInv
  <2>4. SavedInv'
    BY DEF TypeOK, TokenInv, SavedInv
  <2>5. StaleInv'
    BY DEF TypeOK, TokenInv, StaleInv
  <2>6. ClosedForGood'
    BY DEF TypeOK, TokenInv, ClosedForGood
  <2>7. KeptUntilEnd'
    BY DEF TypeOK, KeptUntilEnd
  <2> QED
    BY <2>1, <2>2, <2>3, <2>4, <2>5, <2>6, <2>7
<1>3. ASSUME NEW h \in Handlers, LoginBegin(h) PROVE Inv'
  <2> USE <1>3 DEF LoginBegin, Idle, Step, tables, locals, history
  <2>1. TypeOK'
    BY DEF TypeOK
  <2>2. TokenInv'
    BY DEF TokenInv
  <2>3. DistinctInv'
    BY DEF DistinctInv
  <2>4. SavedInv'
    BY DEF SavedInv
  <2>5. StaleInv'
    BY DEF StaleInv
  <2>6. ClosedForGood'
    BY DEF ClosedForGood
  <2>7. KeptUntilEnd'
    BY DEF KeptUntilEnd
  <2> QED
    BY <2>1, <2>2, <2>3, <2>4, <2>5, <2>6, <2>7
<1>4. ASSUME NEW h \in Handlers, LoginDraw(h) PROVE Inv'
  <2> USE <1>4 DEF LoginDraw, Step, Clock, Draw, tables, history
  <2>1. TypeOK'
    BY DEF TypeOK
  <2>2. TokenInv'
    BY DEF TypeOK, TokenInv
  <2>3. DistinctInv'
    BY DEF TypeOK, TokenInv, DistinctInv
  <2>4. SavedInv'
    BY DEF SavedInv
  <2>5. StaleInv'
    BY DEF StaleInv
  <2>6. ClosedForGood'
    BY DEF ClosedForGood
  <2>7. KeptUntilEnd'
    BY DEF KeptUntilEnd
  <2> QED
    BY <2>1, <2>2, <2>3, <2>4, <2>5, <2>6, <2>7
<1>5. ASSUME NEW h \in Handlers, LoginSave(h) PROVE Inv'
  <2> USE <1>5 DEF LoginSave, Step, Insert, locals, history
  <2>1. TypeOK'
    BY DEF TypeOK, TokenInv
  <2>2. TokenInv'
    BY DEF TokenInv
  <2>3. DistinctInv'
    BY DEF DistinctInv
  <2>4. SavedInv'
    BY DEF SavedInv
  <2>5. StaleInv'
    BY DEF TypeOK, TokenInv, StaleInv
  <2>6. ClosedForGood'
    BY DEF TypeOK, TokenInv, ClosedForGood
  <2>7. KeptUntilEnd'
    BY DEF KeptUntilEnd
  <2> QED
    BY <2>1, <2>2, <2>3, <2>4, <2>5, <2>6, <2>7
<1>6. ASSUME NEW h \in Handlers, Prune(h) PROVE Inv'
  <2> USE <1>6 DEF Prune, Step, Finish, Give
  <2>1. TypeOK'
    BY DEF TypeOK, TokenInv
  <2>2. TokenInv'
    BY DEF TypeOK, TokenInv, DistinctInv
  <2>3. DistinctInv'
    BY DEF TypeOK, DistinctInv
  <2>4. SavedInv'
    BY DEF TypeOK, TokenInv, SavedInv
  <2>5. StaleInv'
    BY DEF StaleInv
  <2>6. ClosedForGood'
    BY DEF ClosedForGood
  <2>7. KeptUntilEnd'
    BY DEF TypeOK, TokenInv, SavedInv, KeptUntilEnd
  <2> QED
    BY <2>1, <2>2, <2>3, <2>4, <2>5, <2>6, <2>7
<1>7. ASSUME NEW h \in Handlers, NEW s \in Secrets, Logout(h, s) PROVE Inv'
  <2> USE <1>7 DEF Logout, Idle, Step, Finish
  <2>1. TypeOK'
    BY DEF TypeOK
  <2>2. TokenInv'
    BY DEF TypeOK, TokenInv
  <2>3. DistinctInv'
    BY DEF DistinctInv
  <2>4. SavedInv'
    BY DEF TypeOK, TokenInv, SavedInv
  <2>5. StaleInv'
    BY DEF StaleInv
  <2>6. ClosedForGood'
    BY DEF ClosedForGood
  <2>7. KeptUntilEnd'
    BY DEF KeptUntilEnd
  <2> QED
    BY <2>1, <2>2, <2>3, <2>4, <2>5, <2>6, <2>7
<1>8. ASSUME NEW h \in Handlers, NEW s \in Secrets,
             NEW t \in Secrets \cup {NoSecret}, SessionBegin(h, s, t)
        PROVE Inv'
  <2> USE <1>8 DEF SessionBegin, Idle, Step, Clock, Present, tables
  <2>1. TypeOK'
    BY DEF TypeOK
  <2>2. TokenInv'
    BY DEF TypeOK, TokenInv
  <2>3. DistinctInv'
    BY DEF DistinctInv
  <2>4. SavedInv'
    BY DEF SavedInv
  <2>5. StaleInv'
    BY DEF TypeOK, StaleInv
  <2>6. ClosedForGood'
    BY DEF ClosedForGood
  <2>7. KeptUntilEnd'
    BY DEF KeptUntilEnd
  <2> QED
    BY <2>1, <2>2, <2>3, <2>4, <2>5, <2>6, <2>7
<1>9. ASSUME NEW h \in Handlers, SessionCheck(h) PROVE Inv'
  <2> USE <1>9 DEF SessionCheck, Step, Finish, tables, locals
  <2>1. TypeOK'
    BY DEF TypeOK
  <2>2. TokenInv'
    BY DEF TypeOK, TokenInv
  <2>3. DistinctInv'
    BY DEF TypeOK, DistinctInv
  <2>4. SavedInv'
    BY DEF TypeOK, SavedInv
  <2>5. StaleInv'
    BY DEF TypeOK, StaleInv, ClosedForGood
  <2>6. ClosedForGood'
    BY DEF ClosedForGood
  <2>7. KeptUntilEnd'
    BY DEF KeptUntilEnd
  <2> QED
    BY <2>1, <2>2, <2>3, <2>4, <2>5, <2>6, <2>7
<1>10. ASSUME NEW h \in Handlers, CreateDraw(h) PROVE Inv'
  <2> USE <1>10 DEF CreateDraw, Step, Clock, Draw, tables, history
  <2>1. TypeOK'
    BY DEF TypeOK
  <2>2. TokenInv'
    BY DEF TypeOK, TokenInv
  <2>3. DistinctInv'
    BY DEF TypeOK, TokenInv, DistinctInv
  <2>4. SavedInv'
    BY DEF SavedInv
  <2>5. StaleInv'
    BY DEF StaleInv
  <2>6. ClosedForGood'
    BY DEF ClosedForGood
  <2>7. KeptUntilEnd'
    BY DEF KeptUntilEnd
  <2> QED
    BY <2>1, <2>2, <2>3, <2>4, <2>5, <2>6, <2>7
<1>11. ASSUME NEW h \in Handlers, CreateSave(h) PROVE Inv'
  <2> USE <1>11 DEF CreateSave, Step, Finish, Insert, Give
  <2>1. TypeOK'
    BY DEF TypeOK, TokenInv
  <2>2. TokenInv'
    BY DEF TypeOK, TokenInv, DistinctInv
  <2>3. DistinctInv'
    BY DEF TypeOK, DistinctInv
  <2>4. SavedInv'
    BY DEF TypeOK, TokenInv, SavedInv
  <2>5. StaleInv'
    BY DEF TypeOK, TokenInv, StaleInv
  <2>6. ClosedForGood'
    BY DEF TypeOK, TokenInv, ClosedForGood
  <2>7. KeptUntilEnd'
    BY DEF TypeOK, KeptUntilEnd
  <2> QED
    BY <2>1, <2>2, <2>3, <2>4, <2>5, <2>6, <2>7
<1>12. ASSUME NEW h \in Handlers, Revoke(h) PROVE Inv'
  <2> USE <1>12 DEF Revoke, Step, Finish
  <2>1. TypeOK'
    BY DEF TypeOK, TokenInv
  <2>2. TokenInv'
    BY DEF TypeOK, TokenInv
  <2>3. DistinctInv'
    BY DEF DistinctInv
  <2>4. SavedInv'
    BY DEF TypeOK, TokenInv, SavedInv
  <2>5. StaleInv'
    BY DEF StaleInv
  <2>6. ClosedForGood'
    BY DEF ClosedForGood
  <2>7. KeptUntilEnd'
    BY DEF KeptUntilEnd
  <2> QED
    BY <2>1, <2>2, <2>3, <2>4, <2>5, <2>6, <2>7
<1>13. ASSUME NEW h \in Handlers, NEW s \in Secrets, BearerBegin(h, s) PROVE Inv'
  <2> USE <1>13 DEF BearerBegin, Idle, Step, Clock, Present, tables
  <2>1. TypeOK'
    BY DEF TypeOK
  <2>2. TokenInv'
    BY DEF TypeOK, TokenInv
  <2>3. DistinctInv'
    BY DEF DistinctInv
  <2>4. SavedInv'
    BY DEF SavedInv
  <2>5. StaleInv'
    BY DEF TypeOK, StaleInv
  <2>6. ClosedForGood'
    BY DEF ClosedForGood
  <2>7. KeptUntilEnd'
    BY DEF KeptUntilEnd
  <2> QED
    BY <2>1, <2>2, <2>3, <2>4, <2>5, <2>6, <2>7
<1>14. ASSUME NEW h \in Handlers, BearerLookup(h) PROVE Inv'
  <2> USE <1>14 DEF BearerLookup, Step, Finish, tables, locals
  <2>1. TypeOK'
    BY DEF TypeOK
  <2>2. TokenInv'
    BY DEF TypeOK, TokenInv
  <2>3. DistinctInv'
    BY DEF TypeOK, DistinctInv
  <2>4. SavedInv'
    BY DEF TypeOK, SavedInv
  <2>5. StaleInv'
    BY DEF TypeOK, StaleInv, ClosedForGood
  <2>6. ClosedForGood'
    BY DEF ClosedForGood
  <2>7. KeptUntilEnd'
    BY DEF KeptUntilEnd
  <2> QED
    BY <2>1, <2>2, <2>3, <2>4, <2>5, <2>6, <2>7
<1>15. ASSUME NEW h \in Handlers, Touch(h) PROVE Inv'
  <2> USE <1>15 DEF Touch, Step, Finish
  <2>1. TypeOK'
    BY DEF TypeOK
  <2>2. TokenInv'
    BY DEF TypeOK, TokenInv
  <2>3. DistinctInv'
    BY DEF DistinctInv
  <2>4. SavedInv'
    BY DEF SavedInv
  <2>5. StaleInv'
    BY DEF StaleInv
  <2>6. ClosedForGood'
    BY DEF ClosedForGood
  <2>7. KeptUntilEnd'
    BY DEF KeptUntilEnd
  <2> QED
    BY <2>1, <2>2, <2>3, <2>4, <2>5, <2>6, <2>7
<1>16. ASSUME NEW h \in Handlers, Fail(h) PROVE Inv'
  <2> USE <1>16 DEF Fail, Step, Finish, tables
  <2>1. TypeOK'
    BY DEF TypeOK
  <2>2. TokenInv'
    BY DEF TypeOK, TokenInv
  <2>3. DistinctInv'
    BY DEF TypeOK, DistinctInv
  <2>4. SavedInv'
    BY DEF SavedInv
  <2>5. StaleInv'
    BY DEF StaleInv
  <2>6. ClosedForGood'
    BY DEF ClosedForGood
  <2>7. KeptUntilEnd'
    BY DEF KeptUntilEnd
  <2> QED
    BY <2>1, <2>2, <2>3, <2>4, <2>5, <2>6, <2>7
<1>17. ASSUME Tick PROVE Inv'
  <2> USE <1>17 DEF Tick, tables, locals, history
  <2>1. TypeOK'
    BY DEF TypeOK
  <2>2. TokenInv'
    BY DEF TypeOK, TokenInv
  <2>3. DistinctInv'
    BY DEF DistinctInv
  <2>4. SavedInv'
    BY DEF TypeOK, TokenInv, SavedInv
  <2>5. StaleInv'
    BY DEF StaleInv
  <2>6. ClosedForGood'
    BY DEF ClosedForGood
  <2>7. KeptUntilEnd'
    BY DEF TypeOK, KeptUntilEnd
  <2> QED
    BY <2>1, <2>2, <2>3, <2>4, <2>5, <2>6, <2>7
<1>18. ASSUME Restart PROVE Inv'
  <2> USE <1>18 DEF Restart, Idle, tables
  <2>1. TypeOK'
    BY DEF TypeOK
  <2>2. TokenInv'
    BY DEF TypeOK, TokenInv
  <2>3. DistinctInv'
    BY DEF DistinctInv
  <2>4. SavedInv'
    BY DEF SavedInv
  <2>5. StaleInv'
    BY DEF StaleInv
  <2>6. ClosedForGood'
    BY DEF ClosedForGood
  <2>7. KeptUntilEnd'
    BY DEF KeptUntilEnd
  <2> QED
    BY <2>1, <2>2, <2>3, <2>4, <2>5, <2>6, <2>7
<1>19. ASSUME UNCHANGED vars PROVE Inv'
  <2> USE <1>19 DEF vars, tables, locals, history
  <2>1. TypeOK'
    BY DEF TypeOK
  <2>2. TokenInv'
    BY DEF TokenInv
  <2>3. DistinctInv'
    BY DEF DistinctInv
  <2>4. SavedInv'
    BY DEF SavedInv
  <2>5. StaleInv'
    BY DEF StaleInv
  <2>6. ClosedForGood'
    BY DEF ClosedForGood
  <2>7. KeptUntilEnd'
    BY DEF KeptUntilEnd
  <2> QED
    BY <2>1, <2>2, <2>3, <2>4, <2>5, <2>6, <2>7
<1> QED
  BY <1>1, <1>2, <1>3, <1>4, <1>5, <1>6, <1>7, <1>8, <1>9, <1>10,
     <1>11, <1>12, <1>13, <1>14, <1>15, <1>16, <1>17, <1>18, <1>19
     DEF Next, Handle

\* Inv holds in every reachable state.
THEOREM Invariance == Spec => []Inv
  BY InitInv, StepInv, PTL DEF Spec

\* Every variable keeps its type, for any number of handlers and tokens: a row
\* belongs to a token that was drawn, and only such a token is given out.
THEOREM TypeCorrect == Spec => []TypeOK
  BY Invariance, PTL DEF Inv

\* A session that was logged out or a token that was revoked has no row again
\* (Logout, DeleteAPIToken), whatever requests were under way.
THEOREM EndedForGood == Spec => []ClosedForGood
  BY Invariance, PTL DEF Inv

\* A request that arrives with a token past its end gets no further than the
\* lookup (AuthSessionValid, APITokenByHash).
THEOREM PastIsRefused == Spec => []PastRefused
<1>1. Inv => PastRefused
  BY DEF Inv, StaleInv, PastRefused
<1> QED
  BY <1>1, Invariance, PTL

\* What a client was given lasts until it is ended or expires, though logins
\* prune sessions with clock readings of their own (DeleteExpiredAuthSessions).
THEOREM GivenIsKept == Spec => []KeptUntilEnd
  BY Invariance, PTL DEF Inv

\* There is one administrator for good (SetupAuth): only a setup writes
\* auth_user, in a transaction that finds it empty.
THEOREM AdministratorForGood == Spec => OneAdministrator
<1>1. [Next]_vars => [user # Nobody => user' = user]_user
  <2> SUFFICES ASSUME [Next]_vars, user # Nobody PROVE user' = user
    OBVIOUS
  <2> USE DEF vars, Present
  <2>1. ASSUME NEW h \in Handlers, Handle(h) PROVE user' = user
    BY <2>1
    DEF Handle, SetupBegin, Setup, LoginBegin, LoginDraw, LoginSave, Prune, Logout,
        BearerBegin, SessionBegin, SessionCheck, CreateDraw, CreateSave, Revoke,
        BearerLookup, Touch, Fail
  <2> QED
    BY <2>1 DEF Next, Tick, Restart
<1> QED
  BY <1>1, PTL DEF Spec, OneAdministrator

\* A refusal has a cause (requireSession, requireScope): a token that was given
\* to a client and has no row was ended by somebody or has expired.
THEOREM RefusalHasCause == Spec => RefusedForCause
<1> DEFINE Cause(h) == secret[h] \in closed \/ ~Unexpired(secret[h], now)
<1>1. ASSUME Inv, NEW h \in Handlers, pc[h] \in {"session", "bearer"},
             ~(secret[h] \in rows /\ Unexpired(secret[h], at[h]))
      PROVE  Cause(h)
  BY <1>1, TimeAssumption DEF Inv, TypeOK, TokenInv, KeptUntilEnd, Unexpired
<1>2. ASSUME Inv, [Next]_vars, NEW h \in Handlers,
             pc'[h] = "refused", pc[h] # "refused"
      PROVE  Cause(h)
  <2>1. PICK g \in Handlers : Handle(g)
    BY <1>2 DEF Next, vars, Tick, Restart, Inv, TypeOK
  <2>2. CASE SessionCheck(g)
    BY <1>1, <1>2, <2>2 DEF SessionCheck, Step, Finish, Inv, TypeOK
  <2>3. CASE BearerLookup(g)
    BY <1>1, <1>2, <2>3 DEF BearerLookup, Step, Finish, Inv, TypeOK
  <2>4. CASE ~SessionCheck(g) /\ ~BearerLookup(g)
    BY <1>2, <2>1, <2>4
    DEF Handle, SetupBegin, Setup, LoginBegin, LoginDraw, LoginSave, Prune, Logout,
        BearerBegin, SessionBegin, CreateDraw, CreateSave, Revoke, Touch, Fail,
        Present, Give, Step, Finish, Inv, TypeOK
  <2> QED
    BY <2>2, <2>3, <2>4
<1>3. Inv /\ [Next]_vars =>
        [\A h \in Handlers :
            pc'[h] = "refused" /\ pc[h] # "refused" =>
                secret[h] \in closed \/ ~Unexpired(secret[h], now)]_vars
  BY <1>2
<1> QED
  BY <1>3, Invariance, PTL DEF Spec, RefusedForCause

-----------------------------------------------------------------------------
(* The handlers implement the ledger of Admission. *)

\* A token keeps the kind and the end it was handed out with, and a request is
\* looked up in the table of the kind of token that it presents.
KindInv ==
    /\ \A s \in given : kind[s] # "none"
    /\ \A h \in Handlers :
          /\ pc[h] = "prune" =>
                kind[secret[h]] = "session" /\ expires[secret[h]] <= now + Life
          /\ pc[h] = "session" => kind[secret[h]] = "session"
          /\ pc[h] = "bearer" => kind[secret[h]] # "session"
          /\ pc[h] \in {"session", "revoke"} /\ target[h] # NoSecret =>
                kind[target[h]] # "session"

\* Every step keeps KindInv.
LEMMA StepKind == Inv /\ KindInv /\ [Next]_vars => KindInv'
<1> SUFFICES ASSUME Inv, KindInv, [Next]_vars PROVE KindInv'
  OBVIOUS
<1> USE MarkerAssumption, TimeAssumption DEF Inv, Fresh, TypeOK, TokenInv, KindInv
<1>1. ASSUME NEW h \in Handlers, SetupBegin(h) PROVE KindInv'
  BY <1>1 DEF SetupBegin, Idle, Step, Clock, Draw, tables, history
<1>2. ASSUME NEW h \in Handlers, Setup(h) PROVE KindInv'
  BY <1>2 DEF Setup, Step, Finish, Insert, Give, tables, DistinctInv
<1>3. ASSUME NEW h \in Handlers, LoginBegin(h) PROVE KindInv'
  BY <1>3 DEF LoginBegin, Idle, Step, tables, locals, history
<1>4. ASSUME NEW h \in Handlers, LoginDraw(h) PROVE KindInv'
  BY <1>4 DEF LoginDraw, Step, Clock, Draw, tables, history
<1>5. ASSUME NEW h \in Handlers, LoginSave(h) PROVE KindInv'
  BY <1>5 DEF LoginSave, Step, Insert, locals, history, DistinctInv
<1>6. ASSUME NEW h \in Handlers, Prune(h) PROVE KindInv'
  BY <1>6 DEF Prune, Step, Finish, Give
<1>7. ASSUME NEW h \in Handlers, NEW s \in Secrets, Logout(h, s) PROVE KindInv'
  BY <1>7 DEF Logout, Idle, Step, Finish
<1>8. ASSUME NEW h \in Handlers, NEW s \in Secrets,
             NEW t \in Secrets \cup {NoSecret}, SessionBegin(h, s, t)
      PROVE  KindInv'
  BY <1>8 DEF SessionBegin, Idle, Step, Clock, Present, tables
<1>9. ASSUME NEW h \in Handlers, SessionCheck(h) PROVE KindInv'
  BY <1>9 DEF SessionCheck, Step, Finish, tables, locals
<1>10. ASSUME NEW h \in Handlers, CreateDraw(h) PROVE KindInv'
  BY <1>10 DEF CreateDraw, Step, Clock, Draw, tables, history
<1>11. ASSUME NEW h \in Handlers, CreateSave(h) PROVE KindInv'
  BY <1>11 DEF CreateSave, Step, Finish, Insert, Give, DistinctInv
<1>12. ASSUME NEW h \in Handlers, Revoke(h) PROVE KindInv'
  BY <1>12 DEF Revoke, Step, Finish
<1>13. ASSUME NEW h \in Handlers, NEW s \in Secrets, BearerBegin(h, s) PROVE KindInv'
  BY <1>13 DEF BearerBegin, Idle, Step, Clock, Present, tables
<1>14. ASSUME NEW h \in Handlers, BearerLookup(h) PROVE KindInv'
  BY <1>14 DEF BearerLookup, Step, Finish, tables, locals
<1>15. ASSUME NEW h \in Handlers, Touch(h) PROVE KindInv'
  BY <1>15 DEF Touch, Step, Finish
<1>16. ASSUME NEW h \in Handlers, Fail(h) PROVE KindInv'
  BY <1>16 DEF Fail, Step, Finish, tables
<1>17. CASE Tick
  BY <1>17 DEF Tick, tables, locals, history
<1>18. CASE Restart
  BY <1>18 DEF Restart, Idle, tables
<1>19. CASE UNCHANGED vars
  BY <1>19 DEF vars, tables, locals, history
<1> QED
  BY <1>1, <1>2, <1>3, <1>4, <1>5, <1>6, <1>7, <1>8, <1>9, <1>10,
     <1>11, <1>12, <1>13, <1>14, <1>15, <1>16, <1>17, <1>18, <1>19
     DEF Next, Handle

\* The handlers' part of the ledger.
Clients == <<Asking, stale, Verdict>>

\* A handler that answers, with whatever outcome, does so in the ledger.
LEMMA Answers ==
  ASSUME Inv, NEW h \in Handlers, NEW outcome \in {"idle", "refused"}, Finish(h, outcome)
  PROVE  Ledger!Answer(h, IF outcome = "refused" THEN "refused" ELSE "none")
<1> USE DEF Inv, TypeOK, Finish, Step
<1>1. Asking' = [Asking EXCEPT ![h] = NoSecret]
  BY DEF Asking
<1>2. Verdict' = [Verdict EXCEPT ![h] = IF outcome = "refused" THEN "refused" ELSE "none"]
  BY DEF Verdict
<1> QED
  BY <1>1, <1>2 DEF Ledger!Answer

\* A handler that goes on with what it was let in for changes nothing there.
LEMMA SameStage ==
  ASSUME Inv, NEW h \in Handlers, NEW label, Step(h, label), stale' = stale,
         \/ pc[h] \in {"verified", "save"} /\ label \in {"save", "prune"}
         \/ pc[h] = "admitted" /\ label = "create",
         \A g \in Handlers \ {h} : secret'[g] = secret[g]
  PROVE  UNCHANGED Clients
<1> USE DEF Inv, TypeOK, Step
<1>1. Asking' = Asking
  BY DEF Asking
<1>2. Verdict' = Verdict
  BY DEF Verdict
<1> QED
  BY <1>1, <1>2 DEF Clients

\* A token that a handler saves before anybody has it changes no token of a client.
LEMMA Unseen ==
  ASSUME Inv, NEW s \in Secrets \ given, NEW what, NEW end, Insert(s, what, end),
         given' = given, now' = now
  PROVE  UNCHANGED <<Sort, Until, Open>>
<1> USE DEF Inv, TypeOK, Insert
<1>1. Sort' = Sort
  BY DEF Sort
<1>2. Until' = Until
  BY DEF Until
<1>3. Open' = Open
  BY DEF Open, Unexpired
<1> QED
  BY <1>1, <1>2, <1>3

\* A token is granted when a client is given it, together with its row.
LEMMA Granted ==
  ASSUME Inv, NEW s \in Secrets \ given, NEW what \in {"session", "expiring", "forever"},
         NEW end \in 0 .. now + Life,
         Insert(s, what, end), given' = given \cup {s}, now' = now
  PROVE  Ledger!Grant(s, what)
<1> USE DEF Inv, TypeOK, Insert
<1>1. Sort[s] = "none" /\ Sort' = [Sort EXCEPT ![s] = what]
  BY DEF Sort
<1>2. Until' = [Until EXCEPT ![s] = end]
  BY DEF Until
<1>3. Open' = IF what = "forever" \/ end > now THEN Open \cup {s} ELSE Open
  BY DEF Open, Unexpired
<1> QED
  BY <1>1, <1>2, <1>3 DEF Ledger!Grant

\* The state of the ledger.
Books == <<now, user, <<Sort, Until, Open>>, Clients>>

\* Every step of a handler is a step of the ledger, or none.
LEMMA StepLedger ==
  ASSUME Inv, KindInv, NEW h \in Handlers, Handle(h)
  PROVE  Ledger!Next \/ UNCHANGED Books
<1> USE MarkerAssumption, TimeAssumption DEF Inv, TypeOK
<1> DEFINE Same == UNCHANGED <<Sort, Until, Open>>
<1> DEFINE Quiet == UNCHANGED Clients
<1>0. rows' = rows /\ kind' = kind /\ expires' = expires /\ given' = given /\ now' = now
        => Same
  BY DEF Sort, Until, Open, Unexpired
<1>1. CASE SetupBegin(h)
  <2>1. CASE pc[h] = "refused"
    <3>1. Asking' = [Asking EXCEPT ![h] = NoSecret]
      BY <1>1 DEF SetupBegin, Step, Draw, Idle, Asking
    <3>2. Verdict' = [Verdict EXCEPT ![h] = "none"]
      BY <1>1 DEF SetupBegin, Step, Idle, Verdict
    <3>3. h \notin stale
      BY <2>1 DEF StaleInv
    <3>4. Ledger!Settle(h)
      BY <1>0, <1>1, <3>1, <3>2, <3>3
      DEF SetupBegin, tables, history, Ledger!Settle, Ledger!Answer, Ledger!tokens
    <3> QED
      BY <3>4 DEF Ledger!Next
  <2>2. CASE pc[h] = "idle"
    <3>1. Asking' = Asking
      BY <1>1, <2>2 DEF SetupBegin, Step, Draw, Asking
    <3>2. Verdict' = Verdict
      BY <1>1, <2>2 DEF SetupBegin, Step, Verdict
    <3> QED
      BY <1>0, <1>1, <3>1, <3>2 DEF SetupBegin, tables, history, Books, Clients
  <2> QED
    BY <1>1, <2>1, <2>2 DEF SetupBegin, Idle
<1>2. CASE Setup(h)
  <2>1. Finish(h, "idle") /\ Ledger!Answer(h, "none")
    BY <1>2, Answers DEF Setup, Give
  <2>2. CASE user = Nobody
    <3>1. secret[h] \in Secrets \ given /\ at[h] + Life \in 0 .. now + Life
      BY <1>2 DEF Setup, TokenInv, Fresh
    <3>2. Ledger!Grant(secret[h], "session")
      BY <1>2, <2>2, <3>1, Granted DEF Setup, Give
    <3>3. Ledger!Appoint(h, secret[h])
      BY <1>2, <2>1, <2>2, <3>2 DEF Setup, Ledger!Appoint
    <3> QED
      BY <3>1, <3>3 DEF Ledger!Next
  <2>3. CASE user # Nobody
    <3>1. Ledger!Settle(h)
      BY <1>0, <1>2, <2>1, <2>3 DEF Setup, tables, Ledger!Settle, Ledger!tokens
    <3> QED
      BY <3>1 DEF Ledger!Next
  <2> QED
    BY <2>2, <2>3
<1>3. CASE LoginBegin(h)
  <2>1. Asking[h] = NoSecret /\ Asking' = [Asking EXCEPT ![h] = NoSecret]
    BY <1>3 DEF LoginBegin, Idle, Step, locals, Asking
  <2>2. Verdict' = [Verdict EXCEPT ![h] = "password"]
    BY <1>3 DEF LoginBegin, Step, Verdict
  <2>3. h \notin stale
    BY <1>3 DEF LoginBegin, Idle, StaleInv
  <2>4. Ledger!Enter(h)
    BY <1>0, <1>3, <2>1, <2>2, <2>3
    DEF LoginBegin, tables, history, Ledger!Enter, Ledger!Answer, Ledger!tokens
  <2> QED
    BY <2>4 DEF Ledger!Next
<1>4. CASE LoginDraw(h)
  BY <1>0, <1>4, SameStage DEF LoginDraw, Draw, tables, history, Books
<1>5. CASE LoginSave(h)
  <2>1. secret[h] \in Secrets \ given
    BY <1>5 DEF LoginSave, TokenInv, Fresh
  <2>2. Same
    BY <1>5, <2>1, Unseen DEF LoginSave, history
  <2>3. Quiet
    BY <1>5, SameStage DEF LoginSave, locals, history
  <2> QED
    BY <1>5, <2>2, <2>3 DEF LoginSave, Books
<1>6. CASE Prune(h)
  <2> DEFINE s == secret[h]
  <2>1. s \in Secrets \ given /\ expires[s] \in 0 .. now + Life /\ kind[s] = "session"
    BY <1>6 DEF Prune, TokenInv, Fresh, KindInv
  <2>2. Sort[s] = "none" /\ Sort' = [Sort EXCEPT ![s] = "session"]
    <3>1. given' = given \cup {s} /\ kind' = kind
      BY <1>6 DEF Prune, Give
    <3> HIDE DEF s
    <3> QED
      BY <2>1, <3>1 DEF Sort
  <2>3. Until' = [Until EXCEPT ![s] = expires[s]]
    BY <1>6, <2>1 DEF Prune, Give, Until
  <2>4. Open' = IF expires[s] > now THEN Open \cup {s} ELSE Open
    BY <1>6, <2>1 DEF Prune, Give, Open, Unexpired, TokenInv, SavedInv
  <2>5. Ledger!Grant(s, "session")
    BY <1>6, <2>1, <2>2, <2>3, <2>4 DEF Ledger!Grant
  <2>6. Ledger!Answer(h, "none")
    BY <1>6, Answers DEF Prune, Give
  <2>7. Verdict[h] = "password"
    BY <1>6 DEF Prune, Verdict
  <2>8. Ledger!Issue(h, s)
    BY <1>6, <2>5, <2>6, <2>7 DEF Prune, Ledger!Issue
  <2> QED
    BY <2>1, <2>8 DEF Ledger!Next
<1>7. ASSUME NEW s \in Secrets, Logout(h, s) PROVE Ledger!Next
  <2>1. Ledger!Answer(h, "none")
    BY <1>7, Answers DEF Logout
  <2>2. Sort[s] = "session" /\ Sort' = Sort
    BY <1>7 DEF Logout, Sort
  <2>3. Until' = Until
    BY <1>7 DEF Logout, Until
  <2>4. Open' = Open \ {s}
    BY <1>7 DEF Logout, Open, Unexpired
  <2>5. Asking[h] = NoSecret
    BY <1>7 DEF Logout, Idle, Asking
  <2>6. Ledger!End(h, s)
    BY <1>7, <2>1, <2>2, <2>3, <2>4, <2>5 DEF Logout, Ledger!End
  <2> QED
    BY <2>6 DEF Ledger!Next
<1>8. ASSUME NEW s \in Secrets, NEW t \in Secrets \cup {NoSecret},
             NEW label \in {"session", "bearer"}, Present(h, label, s, t)
      PROVE  Ledger!Next
  <2>1. Asking[h] = NoSecret /\ Asking' = [Asking EXCEPT ![h] = s]
    BY <1>8 DEF Present, Idle, Step, Asking
  <2>2. Verdict' = [Verdict EXCEPT ![h] = "none"]
    BY <1>8 DEF Present, Step, Verdict
  <2>3. Sort[s] # "none"
    BY <1>8 DEF Present, Sort, KindInv
  <2>4. stale' = IF s \in Open THEN stale ELSE stale \cup {h}
    BY <1>8 DEF Present, Open, ClosedForGood, KeptUntilEnd, Unexpired
  <2>5. Ledger!Ask(h, s)
    BY <1>0, <1>8, <2>1, <2>2, <2>3, <2>4 DEF Present, tables, Ledger!Ask, Ledger!tokens
  <2> QED
    BY <2>5 DEF Ledger!Next
<1>9. ASSUME NEW label \in {"admitted", "revoke", "touch"}, Step(h, label),
             UNCHANGED <<now, user, tables, locals, given, stale>>,
             pc[h] \in {"session", "bearer"}, pc[h] = "bearer" <=> label = "touch",
             secret[h] \in rows, Unexpired(secret[h], at[h])
      PROVE  Ledger!Next
  <2>1. secret[h] \in given /\ Asking[h] = secret[h] /\ Asking[h] # NoSecret
    BY <1>9 DEF TokenInv, Asking
  <2>2. h \notin stale
    BY <1>9, <2>1 DEF StaleInv, ClosedForGood
  <2>3. Sort[secret[h]] = kind[secret[h]] /\ Until[secret[h]] = expires[secret[h]]
    BY <2>1 DEF Sort, Until
  <2>4. secret[h] \in Open \/ (Sort[secret[h]] # "forever" /\ Until[secret[h]] <= now)
    BY <1>9, <2>1, <2>3 DEF Open, Unexpired
  <2>5. Asking' = [Asking EXCEPT ![h] = NoSecret]
    BY <1>9 DEF Step, locals, Asking
  <2>6. Verdict' = [Verdict EXCEPT ![h] = IF label = "touch" THEN "token" ELSE "session"]
    BY <1>9 DEF Step, Verdict
  <2>7. Sort[secret[h]] = "session" <=> label # "touch"
    BY <1>9, <2>3 DEF KindInv
  <2> DEFINE verdict == IF Sort[Asking[h]] = "session" THEN "session" ELSE "token"
  <2>8. Ledger!Answer(h, verdict)
    <3>1. verdict = IF label = "touch" THEN "token" ELSE "session"
      BY <2>1, <2>7
    <3>2. stale' = stale \ {h}
      BY <1>9, <2>2
    <3> HIDE DEF verdict
    <3> QED
      BY <2>5, <2>6, <3>1, <3>2 DEF Ledger!Answer
  <2>9. Ledger!Admit(h)
    BY <1>0, <1>9, <2>1, <2>2, <2>4, <2>8 DEF tables, Ledger!Admit, Ledger!tokens
  <2> QED
    BY <2>9 DEF Ledger!Next
<1>10. ASSUME Finish(h, "refused"), UNCHANGED <<now, user, tables, given>>,
              pc[h] \in {"session", "bearer"},
              ~(secret[h] \in rows /\ Unexpired(secret[h], at[h]))
       PROVE  Ledger!Next
  <2>1. Asking[h] = secret[h] /\ Asking[h] # NoSecret
    BY <1>10 DEF TokenInv, Asking
  <2>2. secret[h] \notin Open
    BY <1>10 DEF Open, Unexpired, TokenInv
  <2>3. Ledger!Answer(h, "refused")
    BY <1>10, Answers
  <2>4. Ledger!Refuse(h)
    BY <1>0, <1>10, <2>1, <2>2, <2>3 DEF tables, Ledger!Refuse, Ledger!tokens
  <2> QED
    BY <2>4 DEF Ledger!Next
<1>11. CASE SessionCheck(h)
  BY <1>9, <1>10, <1>11 DEF SessionCheck
<1>12. CASE BearerLookup(h)
  BY <1>9, <1>10, <1>12 DEF BearerLookup
<1>13. CASE CreateDraw(h)
  BY <1>0, <1>13, SameStage DEF CreateDraw, Draw, tables, history, Books
<1>14. CASE CreateSave(h)
  <2>1. secret[h] \in Secrets \ given /\ at[h] \in 0 .. now + Life
        /\ at[h] + Life \in 0 .. now + Life
    BY <1>14 DEF CreateSave, TokenInv, Fresh
  <2>2. Ledger!Grant(secret[h], "expiring") \/ Ledger!Grant(secret[h], "forever")
    BY <1>14, <2>1, Granted DEF CreateSave, Give
  <2>3. Verdict[h] = "session" /\ Ledger!Answer(h, "none")
    BY <1>14, Answers DEF CreateSave, Give, Verdict
  <2>4. Ledger!Issue(h, secret[h])
    BY <1>14, <2>2, <2>3 DEF CreateSave, Ledger!Issue
  <2> QED
    BY <2>1, <2>4 DEF Ledger!Next
<1>15. CASE Revoke(h)
  <2> DEFINE s == target[h]
  <2>1. s \in given /\ Verdict[h] = "session" /\ Ledger!Answer(h, "none")
    BY <1>15, Answers DEF Revoke, TokenInv, Verdict
  <2>2. Sort[s] \in {"expiring", "forever"} /\ Sort' = Sort
    BY <1>15, <2>1 DEF Revoke, Sort, KindInv
  <2>3. Until' = Until
    BY <1>15 DEF Revoke, Until
  <2>4. Open' = Open \ {s}
    BY <1>15 DEF Revoke, Open, Unexpired
  <2>5. Ledger!End(h, s)
    BY <1>15, <2>1, <2>2, <2>3, <2>4 DEF Revoke, Ledger!End
  <2> QED
    BY <2>1, <2>5 DEF Ledger!Next
<1>16. CASE Touch(h) \/ Fail(h)
  <2>1. Ledger!Answer(h, "none")
    BY <1>16, Answers DEF Touch, Fail
  <2>2. Ledger!Settle(h)
    BY <1>0, <1>16, <2>1 DEF Touch, Fail, tables, Ledger!Settle, Ledger!tokens
  <2> QED
    BY <2>2 DEF Ledger!Next
<1> QED
  BY <1>1, <1>2, <1>3, <1>4, <1>5, <1>6, <1>7, <1>8, <1>11, <1>12, <1>13, <1>14, <1>15, <1>16
  DEF Handle, SessionBegin, BearerBegin

\* The handlers of internal/auth and their store implement Admission: one
\* administrator, tokens open until their end, only the password or an open
\* session issues or revokes, and a verdict for every request that its token bears out.
THEOREM Admits == Spec => ImplementsAdmission
<1> USE MarkerAssumption, TimeAssumption
<1>1. Init => Ledger!Init
  BY DEF Init, Ledger!Init, Sort, Until, Open, Asking, Verdict
<1>2. Init => KindInv
  BY DEF Init, KindInv
<1>3. Inv /\ KindInv /\ [Next]_vars => [Ledger!Next]_Books
  <2> SUFFICES ASSUME Inv, KindInv, [Next]_vars PROVE Ledger!Next \/ UNCHANGED Books
    OBVIOUS
  <2>1. CASE Tick
    <3>1. Sort' = Sort /\ Until' = Until /\ UNCHANGED Clients
      BY <2>1 DEF Tick, tables, locals, history, Sort, Until, Clients, Asking, Verdict
    <3>2. Open' = {s \in Open : Sort[s] = "forever" \/ Until[s] > now + 1}
      BY <2>1 DEF Tick, tables, history, Inv, TypeOK, Sort, Until, Open, Unexpired
    <3>3. Ledger!Pass
      BY <2>1, <3>1, <3>2 DEF Tick, Ledger!Pass, Ledger!clients, Clients
    <3> QED
      BY <3>3 DEF Ledger!Next
  <2>2. CASE Restart
    <3>1. UNCHANGED <<Sort, Until, Open>>
      BY <2>2 DEF Restart, tables, Sort, Until, Open, Unexpired
    <3>2. Asking' = [h \in Handlers |-> NoSecret]
      BY <2>2 DEF Restart, Asking
    <3>3. Verdict' = [h \in Handlers |-> "none"]
      BY <2>2 DEF Restart, Verdict
    <3>4. Ledger!Clear
      BY <2>2, <3>1, <3>2, <3>3 DEF Restart, Ledger!Clear, Ledger!tokens
    <3> QED
      BY <3>4 DEF Ledger!Next
  <2>3. CASE \E h \in Handlers : Handle(h)
    BY <2>3, StepLedger
  <2>4. CASE UNCHANGED vars
    BY <2>4 DEF vars, tables, locals, history, Books, Clients, Sort, Until, Open, Unexpired,
       Asking, Verdict
  <2> QED
    BY <2>1, <2>2, <2>3, <2>4 DEF Next
<1> QED
  BY Invariance, StepKind, <1>1, <1>2, <1>3, PTL
  DEF Spec, ImplementsAdmission, Ledger!Spec, Ledger!tokens, Ledger!clients, Books, Clients
=============================================================================
