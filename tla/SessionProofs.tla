---------------------------- MODULE SessionProofs ----------------------------
(***************************************************************************)
(* Proofs about Session, for any number of tabs, sessions and clicks and   *)
(* any limit of the throttle.                                              *)
(***************************************************************************)
EXTENDS Session, FiniteSetTheorems, TLAPS

\* A question that was answered with "no session" named one that had ended, and
\* sessions are never handed out again.
RefusedOnce ==
    \A r \in reqs :
        r.step = "answered" /\ ((r.kind = "status" /\ r.result # "app") \/ (r.kind = "data" /\ r.result = "refused"))
            => r.cookie \notin valid

\* The answer to a question names a screen; passwords are looked at for logins.
Answers ==
    \A r \in reqs :
        /\ r.step = "answered" /\ r.kind = "status" => r.result \in {"app", "login", "setup"}
        /\ r.step = "verifying" => r.kind = "login"

\* The wrong passwords of an unblocked address are counted.
Counted ==
    /\ IsFiniteSet(Verifying)
    /\ wrong + Cardinality(Verifying) <= (Limit - 1) + peak
    /\ ~blocked => wrong <= Limit - 1
    /\ ~blocked /\ ~old => wrong <= failures
    /\ old => wrong = 0
    /\ peak \in Nat

\* The inductive invariant.
Inv == TypeOK /\ Awaited /\ Answers /\ RefusedOnce /\ Counted

\* The initial state satisfies Inv.
LEMMA InitInv == Init => Inv
<1> SUFFICES ASSUME Init PROVE Inv
  OBVIOUS
<1> USE TabsAssumption, BoundsAssumption
<1>1. /\ drawn \in 0 .. MaxSessions /\ valid \subseteq 1 .. drawn /\ jar = drawn
      /\ failures = 0 /\ ~blocked /\ ~old /\ wrong = 0 /\ peak = 0
      /\ clicks = 0 /\ lost = 0 /\ reqs = {Request(t, "status", FALSE, 0) : t \in Tabs}
      /\ configured \in BOOLEAN /\ blocked \in BOOLEAN /\ old \in BOOLEAN
      /\ screen = [t \in Tabs |-> "connecting"] /\ loading = [t \in Tabs |-> FALSE]
  <2>1. (drawn = 0 /\ valid = {}) \/ (drawn = 1 /\ valid \in {{}, {1}})
    BY DEF Init
  <2>2. drawn \in {0, 1} /\ \A n \in valid : n = 1 /\ drawn = 1
    BY <2>1
  <2>3. drawn \in 0 .. MaxSessions /\ valid \subseteq 1 .. drawn
    BY <2>2
  <2> QED
    BY <2>3 DEF Init
<1>2. ASSUME NEW t \in Tabs
      PROVE  LET r == Request(t, "status", FALSE, 0)
             IN r \in Requests /\ r.tab = t /\ r.kind = "status" /\ r.step = "sent"
  BY <1>1 DEF Request, Requests
<1>3. \A t \in Tabs : Request(t, "status", FALSE, 0) \in reqs
  BY <1>1
<1>4. \A r \in reqs : \E t \in Tabs : r = Request(t, "status", FALSE, 0)
  BY <1>1
<1>5. \A r \in reqs : r \in Requests /\ r.kind = "status" /\ r.step = "sent"
  <2> SUFFICES ASSUME NEW r \in reqs PROVE r \in Requests /\ r.kind = "status" /\ r.step = "sent"
    OBVIOUS
  <2>1. PICK t \in Tabs : r = Request(t, "status", FALSE, 0)
    BY <1>4
  <2> QED
    BY <1>2, <2>1
<1>6. TypeOK
  <2>1. screen \in [Tabs -> Screens] /\ loading \in [Tabs -> BOOLEAN]
    BY <1>1 DEF Screens
  <2>2. reqs \subseteq Requests
    BY <1>5
  <2>3. jar \in 0 .. drawn /\ clicks \in 0 .. MaxClicks /\ lost \in 0 .. MaxLost
    BY <1>1
  <2> QED
    BY <1>1, <2>1, <2>2, <2>3 DEF TypeOK
<1>7. Awaited
  BY <1>1, <1>2, <1>3, <1>5 DEF Awaited, Of, Entry
<1>8. Answers /\ RefusedOnce /\ Verifying = {}
  BY <1>5 DEF Answers, RefusedOnce, Verifying
<1>9. Counted
  BY <1>1, <1>8, FS_EmptySet DEF Counted
<1> QED
  BY <1>6, <1>7, <1>8, <1>9 DEF Inv

-----------------------------------------------------------------------------
(* What happens to the requests: one is answered, removed or added.          *)

Growing == drawn' \in 0 .. MaxSessions /\ drawn' >= drawn

LEMMA OldRequests ==
    ASSUME TypeOK, Growing
    PROVE  reqs \subseteq Requests'
<1>1. 0 .. drawn \subseteq 0 .. drawn'
  BY DEF Growing, TypeOK
<1> QED
  BY <1>1 DEF TypeOK, Requests

\* The answer to a request takes its place, unless nobody waits for it.
LEMMA AnswerRequest ==
    ASSUME TypeOK, Awaited, Growing, NEW r \in reqs,
           NEW result \in {"ok", "refused", "setup", "login", "app"}, NEW new \in 0 .. drawn',
           Answer(r, result, new), UNCHANGED shown
    PROVE  /\ reqs' \subseteq Requests' /\ Awaited'
           /\ Verifying' = Verifying \ {r}
           /\ \A q \in reqs' : q \in reqs \/ (q.kind = r.kind /\ q.cookie = r.cookie /\ q.result = result /\ q.step = "answered")
<1> DEFINE q == [r EXCEPT !.step = "answered", !.result = result, !.new = new]
<1>1. /\ q \in Requests' /\ q.tab = r.tab /\ q.kind = r.kind /\ q.cookie = r.cookie
      /\ q.step = "answered" /\ q.result = result
  <2>1. r \in Requests'
    BY OldRequests
  <2>2. /\ q.tab = r.tab /\ q.kind = r.kind /\ q.cookie = r.cookie
        /\ q.step = "answered" /\ q.result = result
    BY <2>1 DEF Requests
  <2>3. q \in Requests'
    BY <2>1 DEF Requests
  <2> QED
    BY <2>2, <2>3
<1>2. reqs' = (reqs \ {r}) \cup {q} \/ (reqs' = reqs \ {r} /\ r.tab = NoTab)
  BY DEF Answer
<1> HIDE DEF q
<1>3. reqs' \subseteq Requests'
  BY <1>1, <1>2, OldRequests
<1>4. Awaited'
  <2> SUFFICES ASSUME NEW t \in Tabs
               PROVE  /\ screen[t] = "connecting" => Of(t, {"status"})' # {}
                      /\ loading[t] => \E p \in reqs' : Of(t, Entry)' = {p}
                      /\ ~loading[t] => Of(t, Entry)' = {}
    BY DEF Awaited, shown
  <2>1. t # NoTab
    BY TabsAssumption
  <2>2. \A kinds : Of(t, kinds)' = IF r \in Of(t, kinds) THEN (Of(t, kinds) \ {r}) \cup {q} ELSE Of(t, kinds)
    BY <1>1, <1>2, <2>1 DEF Of
  <2>3. \A kinds : r \in Of(t, kinds) => q \in Of(t, kinds)' /\ q \in reqs'
    BY <1>1, <1>2, <2>1 DEF Of
  <2>4. \A kinds : Of(t, kinds) \ {r} \subseteq reqs'
    BY <1>2 DEF Of
  <2> QED
    BY <2>2, <2>3, <2>4 DEF Awaited
<1>5. Verifying' = Verifying \ {r}
  BY <1>1, <1>2 DEF Verifying
<1>6. \A p \in reqs' : p \in reqs \/ (p.kind = r.kind /\ p.cookie = r.cookie /\ p.result = result /\ p.step = "answered")
  BY <1>1, <1>2
<1> QED
  BY <1>3, <1>4, <1>5, <1>6

\* A request that is over, answered or lost.
LEMMA RemoveRequest ==
    ASSUME TypeOK, NEW r \in reqs, reqs' = reqs \ {r}, UNCHANGED drawn
    PROVE  /\ reqs' \subseteq Requests' /\ Verifying' = Verifying \ {r}
           /\ \A t, kinds : Of(t, kinds)' = Of(t, kinds) \ {r}
  BY DEF TypeOK, Verifying, Of, Requests

\* A request that is sent.
LEMMA SendRequest ==
    ASSUME TypeOK, UNCHANGED drawn, NEW t \in Tabs, NEW kind \in {"status", "setup", "login", "logout", "data"},
           NEW good \in BOOLEAN, NEW at \in 0 .. MaxClicks, Send(t, kind, good, at)
    PROVE  /\ reqs' \subseteq Requests' /\ Verifying' = Verifying
           /\ \E q \in reqs' : /\ q.tab = t /\ q.kind = kind /\ q.step = "sent" /\ q.cookie = jar
                               /\ reqs' = reqs \cup {q}
<1> DEFINE q == Request(t, kind, good, at)
<1>1. /\ q \in Requests' /\ q.tab = t /\ q.kind = kind /\ q.step = "sent" /\ q.cookie = jar
  BY DEF Request, Requests, TypeOK
<1>2. reqs' = reqs \cup {q}
  BY DEF Send
<1> HIDE DEF q
<1>3. reqs' \subseteq Requests'
  BY <1>1, <1>2 DEF TypeOK, Requests
<1>4. Verifying' = Verifying
  BY <1>1, <1>2 DEF Verifying
<1> QED
  BY <1>1, <1>2, <1>3, <1>4

\* Requests that go away are looked at no longer.
LEMMA CountedKeeps ==
    ASSUME TypeOK, Counted, UNCHANGED throttle, NEW r, Verifying' \in {Verifying, Verifying \ {r}}
    PROVE  Counted'
<1>1. IsFiniteSet(Verifying) /\ Verifying' \in SUBSET Verifying
  BY DEF Counted
<1>2. IsFiniteSet(Verifying') /\ Cardinality(Verifying') <= Cardinality(Verifying)
  BY <1>1, FS_Subset
<1>3. Cardinality(Verifying) \in Nat /\ Cardinality(Verifying') \in Nat
  BY <1>1, <1>2, FS_CardinalityType
<1> QED
  BY <1>2, <1>3, BoundsAssumption DEF Counted, throttle, TypeOK

\* A refusal stays right: the session it was about cannot come back.
LEMMA RefusalsKept ==
    ASSUME TypeOK, Answers, RefusedOnce, NEW r \in reqs, NEW result, valid' \subseteq valid \cup {drawn + 1},
           \A q \in reqs' : q \in reqs \/ (q.kind = r.kind /\ q.cookie = r.cookie /\ q.result = result /\ q.step = "answered"),
           r.kind = "status" => result \in {"app", "login", "setup"} /\ (result # "app" => r.cookie \notin valid'),
           r.kind = "data" /\ result = "refused" => r.cookie \notin valid'
    PROVE  Answers' /\ RefusedOnce'
<1>1. \A q \in reqs : q.cookie # drawn + 1
  <2> SUFFICES ASSUME NEW q \in reqs PROVE q.cookie # drawn + 1
    OBVIOUS
  <2>1. q \in Requests /\ drawn \in Nat
    BY DEF TypeOK
  <2>2. q.cookie \in 0 .. drawn
    BY <2>1 DEF Requests
  <2> QED
    BY <2>1, <2>2
<1> QED
  BY <1>1 DEF Answers, RefusedOnce

-----------------------------------------------------------------------------
(* Every step keeps Inv.                                                     *)

LEMMA ServeInv ==
    ASSUME Inv, NEW r \in reqs, Serve(r)
    PROVE  Inv'
<1> USE BoundsAssumption DEF Inv
<1>1. ASSUME Growing, NEW result \in {"ok", "refused", "setup", "login", "app"}, NEW new \in 0 .. drawn',
             Answer(r, result, new), UNCHANGED <<jar, screen, loading, clicks, lost>>,
             valid' \subseteq valid \cup {drawn + 1}, valid' \subseteq 1 .. drawn', configured' \in BOOLEAN,
             r.kind = "status" => result \in {"app", "login", "setup"} /\ (result # "app" => r.cookie \notin valid'),
             r.kind = "data" /\ result = "refused" => r.cookie \notin valid',
             failures' \in Nat, wrong' \in Nat, blocked' \in BOOLEAN, old' \in BOOLEAN
      PROVE  TypeOK' /\ Awaited' /\ Answers' /\ RefusedOnce' /\ Verifying' = Verifying \ {r}
  <2>1. /\ reqs' \subseteq Requests' /\ Awaited' /\ Verifying' = Verifying \ {r}
        /\ \A q \in reqs' : q \in reqs \/ (q.kind = r.kind /\ q.cookie = r.cookie /\ q.result = result /\ q.step = "answered")
    BY <1>1, AnswerRequest DEF shown
  <2>2. TypeOK'
    BY <1>1, <2>1 DEF TypeOK, Growing
  <2>3. Answers' /\ RefusedOnce'
    BY <1>1, <2>1, RefusalsKept
  <2> QED
    BY <2>1, <2>2, <2>3
<1>2. UNCHANGED <<jar, screen, loading, clicks, lost>>
  BY DEF Serve, shown
<1>3. CASE ServeStatus(r)
  <2> DEFINE result == IF r.cookie \in valid THEN "app" ELSE IF configured THEN "login" ELSE "setup"
  <2>1. /\ Growing /\ Answer(r, result, 0) /\ 0 \in 0 .. drawn' /\ UNCHANGED throttle
        /\ valid' = valid /\ valid' \subseteq 1 .. drawn' /\ configured' \in BOOLEAN /\ r.kind = "status"
        /\ failures' \in Nat /\ wrong' \in Nat /\ blocked' \in BOOLEAN /\ old' \in BOOLEAN
    BY <1>3 DEF ServeStatus, auth, throttle, Growing, TypeOK
  <2>2. result \in {"setup", "login", "app"} /\ (result # "app" => r.cookie \notin valid)
    OBVIOUS
  <2> HIDE DEF result
  <2>3. TypeOK' /\ Awaited' /\ Answers' /\ RefusedOnce' /\ Verifying' = Verifying \ {r}
    BY <1>1, <1>2, <2>1, <2>2
  <2> QED
    BY <2>1, <2>3, CountedKeeps
<1>4. CASE ServeSetup(r)
  <2>1. /\ Growing /\ UNCHANGED throttle /\ valid' \subseteq valid \cup {drawn + 1}
        /\ valid' \subseteq 1 .. drawn' /\ configured' \in BOOLEAN /\ r.kind = "setup"
        /\ failures' \in Nat /\ wrong' \in Nat /\ blocked' \in BOOLEAN /\ old' \in BOOLEAN
        /\ drawn + 1 \in 0 .. drawn' \/ configured
    <3>1. \/ UNCHANGED <<configured, valid, drawn>> /\ configured
          \/ /\ drawn < MaxSessions /\ drawn' = drawn + 1 /\ valid' = valid \cup {drawn + 1} /\ configured'
      BY <1>4 DEF ServeSetup, NewSession, auth
    <3>2. UNCHANGED throttle /\ r.kind = "setup" /\ configured' \in BOOLEAN
      BY <1>4, <3>1 DEF ServeSetup, NewSession, auth, TypeOK
    <3>3. Growing /\ 1 .. drawn \subseteq 1 .. drawn' /\ (drawn' = drawn \/ drawn + 1 \in 1 .. drawn')
      BY <3>1 DEF Growing, TypeOK
    <3>4. valid' \subseteq valid \cup {drawn + 1} /\ valid' \subseteq 1 .. drawn'
      <4>1. valid \subseteq 1 .. drawn /\ drawn # drawn + 1
        BY DEF TypeOK
      <4>2. CASE valid' = valid
        BY <3>3, <4>1, <4>2
      <4>3. CASE drawn' = drawn + 1 /\ valid' = valid \cup {drawn + 1}
        BY <3>3, <4>1, <4>3
      <4> QED
        BY <3>1, <4>2, <4>3
    <3> QED
      BY <3>1, <3>2, <3>3, <3>4 DEF throttle, TypeOK
  <2>2. (Answer(r, "refused", 0) /\ 0 \in 0 .. drawn') \/ (Answer(r, "ok", drawn + 1) /\ drawn + 1 \in 0 .. drawn')
    BY <1>4, <2>1 DEF ServeSetup, NewSession, Growing, TypeOK
  <2>3. TypeOK' /\ Awaited' /\ Answers' /\ RefusedOnce' /\ Verifying' = Verifying \ {r}
    BY <1>1, <1>2, <2>1, <2>2
  <2> QED
    BY <2>1, <2>3, CountedKeeps
<1>5. CASE LoginCheck(r) /\ blocked
  <2>1. /\ Growing /\ Answer(r, "refused", 0) /\ 0 \in 0 .. drawn' /\ UNCHANGED throttle
        /\ valid' = valid /\ valid' \subseteq 1 .. drawn' /\ configured' \in BOOLEAN /\ r.kind = "login"
        /\ failures' \in Nat /\ wrong' \in Nat /\ blocked' \in BOOLEAN /\ old' \in BOOLEAN
    BY <1>5 DEF LoginCheck, auth, throttle, Growing, TypeOK
  <2>2. TypeOK' /\ Awaited' /\ Answers' /\ RefusedOnce' /\ Verifying' = Verifying \ {r}
    BY <1>1, <1>2, <2>1
  <2> QED
    BY <2>1, <2>2, CountedKeeps
<1>6. CASE LoginCheck(r) /\ ~blocked
  <2> DEFINE q == [r EXCEPT !.step = "verifying"]
             n == Cardinality(Verifying) + 1
  <2>1. /\ UNCHANGED <<auth, blocked, wrong>> /\ reqs' = (reqs \ {r}) \cup {q} /\ r.step = "sent" /\ r.kind = "login"
        /\ failures' = (IF old THEN 0 ELSE failures) /\ old' = FALSE
        /\ peak' = IF n > peak THEN n ELSE peak
    BY <1>6 DEF LoginCheck
  <2>2. r \in Requests /\ q \in Requests /\ q.tab = r.tab /\ q.kind = r.kind /\ q.cookie = r.cookie /\ q.step = "verifying"
    BY DEF TypeOK, Requests
  <2> HIDE DEF q
  <2>3. TypeOK'
    BY <1>2, <2>1, <2>2 DEF TypeOK, auth, Requests
  <2>4. Awaited'
    <3>1. \A t, kinds : Of(t, kinds)' = IF r \in Of(t, kinds) THEN (Of(t, kinds) \ {r}) \cup {q} ELSE Of(t, kinds)
      BY <2>1, <2>2 DEF Of
    <3>2. q \in reqs' /\ \A t, kinds : Of(t, kinds) \ {r} \subseteq reqs'
      BY <2>1 DEF Of
    <3> QED
      BY <1>2, <3>1, <3>2 DEF Awaited
  <2>5. Answers' /\ RefusedOnce'
    BY <2>1, <2>2 DEF Answers, RefusedOnce, auth
  <2>6. IsFiniteSet(Verifying) /\ Verifying' = Verifying \cup {q}
    BY <2>1, <2>2 DEF Verifying, Counted
  <2>7. IsFiniteSet(Verifying') /\ Cardinality(Verifying') \in {n, n - 1} /\ n - 1 \in Nat /\ n \in Nat
    BY <2>6, FS_AddElement, FS_CardinalityType
  <2> HIDE DEF n
  <2>8. Counted'
    <3> DEFINE v == Cardinality(Verifying')
    <3>1. /\ v \in {n, n - 1} /\ n \in Nat /\ peak \in Nat /\ peak' \in Nat /\ peak' >= n
          /\ wrong \in Nat /\ wrong' = wrong /\ wrong <= Limit - 1
      BY <1>6, <2>1, <2>7 DEF Counted, TypeOK
    <3>2. wrong' + v <= (Limit - 1) + peak'
      BY <3>1
    <3>3. wrong' <= failures' /\ ~old' /\ wrong' <= Limit - 1
      BY <1>6, <2>1, <3>1 DEF Counted, TypeOK
    <3> QED
      BY <2>7, <3>1, <3>2, <3>3 DEF Counted
  <2> QED
    BY <2>3, <2>4, <2>5, <2>8
<1>7. CASE LoginFails(r)
  <2>1. /\ Growing /\ Answer(r, "refused", 0) /\ 0 \in 0 .. drawn' /\ r \in Verifying
        /\ valid' = valid /\ valid' \subseteq 1 .. drawn' /\ configured' \in BOOLEAN /\ r.kind = "login"
        /\ failures' \in Nat /\ wrong' \in Nat /\ blocked' \in BOOLEAN /\ old' \in BOOLEAN
    <3>1. UNCHANGED <<configured, valid, drawn>> /\ r.kind = "login" /\ r.step = "verifying" /\ Answer(r, "refused", 0)
      BY <1>7 DEF LoginFails, auth
    <3>2. blocked' \in BOOLEAN /\ old' \in BOOLEAN
      BY <1>7, Zenon DEF LoginFails
    <3>3. failures' \in Nat /\ wrong' \in Nat
      BY <1>7 DEF LoginFails, TypeOK
    <3> QED
      BY <3>1, <3>2, <3>3 DEF Growing, TypeOK, Verifying
  <2>2. TypeOK' /\ Awaited' /\ Answers' /\ RefusedOnce' /\ Verifying' = Verifying \ {r}
    BY <1>1, <1>2, <2>1
  <2>3. /\ IsFiniteSet(Verifying') /\ Cardinality(Verifying') = Cardinality(Verifying) - 1
        /\ Cardinality(Verifying) \in Nat
    BY <2>1, <2>2, FS_RemoveElement, FS_CardinalityType DEF Counted
  <2>4. Counted'
    <3>1. wrong' = wrong + 1 /\ peak' = peak /\ wrong \in Nat /\ peak \in Nat /\ failures \in Nat
      BY <1>7 DEF LoginFails, Counted, TypeOK
    <3>2. wrong' + Cardinality(Verifying') <= (Limit - 1) + peak'
      BY <2>3, <3>1 DEF Counted
    <3>3. failures' = (IF old THEN 1 ELSE failures + 1) /\ ~old' /\ (~blocked' => ~(failures' >= Limit) /\ (old \/ ~blocked))
      BY <1>7, Zenon DEF LoginFails
    <3>4. ~blocked' => wrong' <= failures'
      BY <3>1, <3>3 DEF Counted
    <3>5. ~blocked' => wrong' <= Limit - 1
      BY <3>1, <3>3, <3>4
    <3> QED
      BY <2>3, <3>1, <3>2, <3>3, <3>4, <3>5 DEF Counted
  <2> QED
    BY <2>2, <2>4
<1>8. CASE LoginSucceeds(r)
  <2>1. /\ Growing /\ Answer(r, "ok", drawn + 1) /\ drawn + 1 \in 0 .. drawn' /\ r \in Verifying
        /\ valid' \subseteq valid \cup {drawn + 1} /\ valid' \subseteq 1 .. drawn' /\ configured' \in BOOLEAN
        /\ r.kind = "login" /\ failures' \in Nat /\ wrong' \in Nat /\ blocked' \in BOOLEAN /\ old' \in BOOLEAN
    <3>1. /\ drawn < MaxSessions /\ drawn' = drawn + 1 /\ valid' = valid \cup {drawn + 1} /\ UNCHANGED configured
          /\ r.kind = "login" /\ r.step = "verifying" /\ Answer(r, "ok", drawn + 1)
          /\ failures' = 0 /\ wrong' = 0 /\ blocked' = FALSE /\ old' = FALSE
      BY <1>8 DEF LoginSucceeds, NewSession, Respite
    <3>2. Growing /\ valid' \subseteq 1 .. drawn' /\ drawn + 1 \in 0 .. drawn'
      BY <3>1 DEF Growing, TypeOK
    <3> QED
      BY <3>1, <3>2 DEF TypeOK, Verifying
  <2>2. TypeOK' /\ Awaited' /\ Answers' /\ RefusedOnce' /\ Verifying' = Verifying \ {r}
    BY <1>1, <1>2, <2>1
  <2>3. /\ IsFiniteSet(Verifying') /\ Cardinality(Verifying') = Cardinality(Verifying) - 1
        /\ Cardinality(Verifying') \in Nat
    BY <2>1, <2>2, FS_RemoveElement, FS_CardinalityType DEF Counted
  <2>4. Counted'
    BY <1>8, <2>3 DEF LoginSucceeds, Respite, Counted
  <2> QED
    BY <2>2, <2>4
<1>9. CASE ServeLogout(r)
  <2>1. /\ Growing /\ Answer(r, "ok", 0) /\ 0 \in 0 .. drawn' /\ UNCHANGED throttle
        /\ valid' \subseteq valid /\ valid' \subseteq 1 .. drawn' /\ configured' \in BOOLEAN /\ r.kind = "logout"
        /\ failures' \in Nat /\ wrong' \in Nat /\ blocked' \in BOOLEAN /\ old' \in BOOLEAN
    <3>1. UNCHANGED <<configured, drawn, throttle>> /\ valid' = valid \ {r.cookie} /\ r.kind = "logout" /\ Answer(r, "ok", 0)
      BY <1>9 DEF ServeLogout
    <3>2. UNCHANGED throttle /\ failures' \in Nat /\ wrong' \in Nat /\ blocked' \in BOOLEAN /\ old' \in BOOLEAN
      BY <3>1 DEF throttle, TypeOK
    <3>3. Growing /\ 0 \in 0 .. drawn'
      BY <3>1 DEF Growing, TypeOK
    <3>4. valid' \subseteq valid /\ valid' \subseteq 1 .. drawn' /\ configured' \in BOOLEAN
      BY <3>1 DEF TypeOK
    <3> QED
      BY <3>1, <3>2, <3>3, <3>4
  <2>2. TypeOK' /\ Awaited' /\ Answers' /\ RefusedOnce' /\ Verifying' = Verifying \ {r}
    BY <1>1, <1>2, <2>1
  <2> QED
    BY <2>1, <2>2, CountedKeeps
<1>10. CASE ServeData(r)
  <2> DEFINE result == IF r.cookie \in valid THEN "ok" ELSE "refused"
  <2>1. /\ Growing /\ Answer(r, result, 0) /\ 0 \in 0 .. drawn' /\ UNCHANGED throttle
        /\ valid' = valid /\ valid' \subseteq 1 .. drawn' /\ configured' \in BOOLEAN /\ r.kind = "data"
        /\ failures' \in Nat /\ wrong' \in Nat /\ blocked' \in BOOLEAN /\ old' \in BOOLEAN
    BY <1>10 DEF ServeData, auth, throttle, Growing, TypeOK
  <2>2. result \in {"ok", "refused"} /\ (result = "refused" => r.cookie \notin valid)
    OBVIOUS
  <2> HIDE DEF result
  <2>3. TypeOK' /\ Awaited' /\ Answers' /\ RefusedOnce' /\ Verifying' = Verifying \ {r}
    BY <1>1, <1>2, <2>1, <2>2
  <2> QED
    BY <2>1, <2>3, CountedKeeps
<1> QED
  BY <1>3, <1>4, <1>5, <1>6, <1>7, <1>8, <1>9, <1>10 DEF Serve

\* An answer that arrives, or a request that fails.
LEMMA RemovalInv ==
    ASSUME Inv, NEW r \in reqs, Arrive(r) \/ Lost(r)
    PROVE  Inv'
<1> USE DEF Inv
<1>1. reqs' = reqs \ {r} /\ UNCHANGED <<auth, throttle, clicks>> /\ lost' \in 0 .. MaxLost
  BY BoundsAssumption DEF Arrive, StatusArrives, EntryArrives, LogoutArrives, DataArrives, Take, Lost, TypeOK
<1>2. /\ reqs' \subseteq Requests' /\ Verifying' = Verifying \ {r}
      /\ \A t, kinds : Of(t, kinds)' = Of(t, kinds) \ {r}
  BY <1>1, RemoveRequest DEF auth
<1>3. \A t, kinds : r \notin Of(t, kinds) => Of(t, kinds)' = Of(t, kinds)
  BY <1>2
<1>4. \A t, kinds : r \in Of(t, kinds) <=> r.tab = t /\ r.kind \in kinds
  BY DEF Of
<1>5. Counted' /\ Answers' /\ RefusedOnce'
  BY <1>1, <1>2, CountedKeeps DEF Answers, RefusedOnce, auth
<1>6. r \in Requests /\ r.tab # NoTab => r.tab \in Tabs
  BY DEF TypeOK, Requests
<1>7. Arrive(r) => r.step = "answered"
  BY DEF Arrive, StatusArrives, EntryArrives, LogoutArrives, DataArrives, Take
<1>8. TypeOK'
  <2>1. jar' \in 0 .. drawn
    BY <1>6 DEF Arrive, StatusArrives, EntryArrives, LogoutArrives, DataArrives, Take, Lost, TypeOK, Requests
  <2>2. loading' \in [Tabs -> BOOLEAN]
    BY DEF Arrive, StatusArrives, EntryArrives, LogoutArrives, DataArrives, Lost, TypeOK
  <2>3. screen' \in [Tabs -> Screens]
    BY DEF Arrive, StatusArrives, EntryArrives, LogoutArrives, DataArrives, Take, Show, Lost, TypeOK, Answers, Screens
  <2> QED
    BY <1>1, <1>2, <2>1, <2>2, <2>3 DEF TypeOK, auth, throttle
<1>9. Awaited'
  <2> SUFFICES ASSUME NEW t \in Tabs
               PROVE  /\ screen'[t] = "connecting" => Of(t, {"status"})' # {}
                      /\ loading'[t] => \E p \in reqs' : Of(t, Entry)' = {p}
                      /\ ~loading'[t] => Of(t, Entry)' = {}
    BY DEF Awaited
  <2>1. t # NoTab
    BY TabsAssumption
  <2>2. CASE r.tab # t
    <3>1. Of(t, {"status"})' = Of(t, {"status"}) /\ Of(t, Entry)' = Of(t, Entry)
      BY <1>3, <1>4, <2>2
    <3>2. screen'[t] = screen[t] /\ loading'[t] = loading[t]
      BY <2>2 DEF Arrive, StatusArrives, EntryArrives, LogoutArrives, DataArrives, Show, Lost, TypeOK
    <3> QED
      BY <1>1, <2>2, <3>1, <3>2 DEF Awaited, Of
  <2>3. CASE r.tab = t /\ r.kind \in Entry
    <3>1. Of(t, {"status"})' = Of(t, {"status"}) /\ r \in Of(t, Entry)
      BY <1>3, <1>4, <2>3 DEF Entry
    <3>2. Of(t, Entry)' = {}
      BY <1>2, <3>1 DEF Awaited, TypeOK
    <3>3. ~loading'[t] /\ (screen'[t] = "connecting" => screen[t] = "connecting")
      BY <2>1, <2>3 DEF Arrive, StatusArrives, EntryArrives, LogoutArrives, DataArrives, Show, Lost, TypeOK, Entry
    <3> QED
      BY <3>1, <3>2, <3>3 DEF Awaited
  <2>4. CASE r.tab = t /\ r.kind \notin Entry
    <3>1. Of(t, Entry)' = Of(t, Entry)
      BY <1>3, <1>4, <2>4
    <3>2. loading'[t] = loading[t]
      BY <2>4 DEF Arrive, StatusArrives, EntryArrives, LogoutArrives, DataArrives, Lost
    <3>3. screen'[t] = "connecting" => screen[t] = "connecting" /\ r.kind # "status"
      BY <2>1, <2>4 DEF Arrive, StatusArrives, EntryArrives, LogoutArrives, DataArrives, Take, Show, Lost, TypeOK, Answers, Entry
    <3>4. r.kind # "status" => Of(t, {"status"})' = Of(t, {"status"})
      BY <1>3, <1>4
    <3> QED
      BY <1>1, <3>1, <3>2, <3>3, <3>4, <2>4 DEF Awaited, Of
  <2> QED
    BY <2>2, <2>3, <2>4
<1> QED
  BY <1>5, <1>8, <1>9

\* The passing of time on the server.
LEMMA TimeInv ==
    ASSUME Inv, Expire \/ BlockEnds \/ WindowEnds
    PROVE  Inv'
<1> USE BoundsAssumption DEF Inv
<1>1. UNCHANGED <<drawn, configured, jar, screen, loading, reqs, clicks, lost>> /\ valid' \subseteq valid
  BY DEF Expire, BlockEnds, WindowEnds, auth, shown
<1>2. Verifying' = Verifying /\ Requests' = Requests
  BY <1>1 DEF Verifying, Requests
<1>3. TypeOK'
  <2>1. failures' \in Nat /\ wrong' \in Nat /\ blocked' \in BOOLEAN /\ old' \in BOOLEAN
    <3>1. CASE Expire
      BY <3>1 DEF Expire, throttle, TypeOK
    <3>2. CASE BlockEnds
      BY <3>2 DEF BlockEnds, Respite, TypeOK
    <3>3. CASE WindowEnds
      BY <3>3 DEF WindowEnds, Respite, TypeOK
    <3> QED
      BY <3>1, <3>2, <3>3
  <2> QED
    BY <1>1, <1>2, <2>1 DEF TypeOK
<1>4. Awaited' /\ Answers' /\ RefusedOnce'
  BY <1>1 DEF Awaited, Of, Answers, RefusedOnce
<1>5. Cardinality(Verifying) \in Nat
  BY FS_CardinalityType DEF Counted
<1>6. Counted'
  BY <1>2, <1>5 DEF Expire, BlockEnds, WindowEnds, throttle, Respite, Counted, TypeOK
<1> QED
  BY <1>3, <1>4, <1>6

\* What the user and the timer send.
LEMMA SendInv ==
    ASSUME Inv, NEW t \in Tabs,
           Reconnect(t) \/ SignOut(t) \/ Poll(t) \/ \E good \in BOOLEAN : Submit(t, good)
    PROVE  Inv'
<1> USE DEF Inv
<1> DEFINE Sent(kind, good, at) ==
             /\ Send(t, kind, good, at)
             /\ \/ kind = "status" /\ screen' = [screen EXCEPT ![t] = "connecting"] /\ UNCHANGED loading
                \/ kind \in Entry /\ ~loading[t] /\ loading' = [loading EXCEPT ![t] = TRUE] /\ UNCHANGED screen
                \/ kind \in {"logout", "data"} /\ UNCHANGED <<screen, loading>>
<1>1. /\ UNCHANGED <<auth, throttle, jar, lost>> /\ clicks' \in 0 .. MaxClicks
      /\ clicks \in 0 .. MaxClicks /\ 0 \in 0 .. MaxClicks
  <2>1. clicks \in 0 .. MaxClicks /\ 0 \in 0 .. MaxClicks
    BY BoundsAssumption DEF TypeOK
  <2>2. clicks' = clicks \/ (clicks < MaxClicks /\ clicks' = clicks + 1)
    BY DEF Reconnect, SignOut, Poll, Submit, Click
  <2>3. UNCHANGED <<auth, throttle, jar, lost>>
    BY DEF Reconnect, SignOut, Poll, Submit
  <2> QED
    BY <2>1, <2>2, <2>3, BoundsAssumption
<1>2. \E kind \in {"status", "setup", "login", "logout", "data"}, good \in BOOLEAN, at \in 0 .. MaxClicks :
        Sent(kind, good, at)
  <2>1. CASE Reconnect(t)
    <3>1. Sent("status", FALSE, 0)
      BY <2>1 DEF Reconnect, Show
    <3> QED
      BY <1>1, <3>1
  <2>2. CASE SignOut(t)
    <3>1. Sent("logout", FALSE, clicks')
      BY <2>2 DEF SignOut, shown
    <3> QED
      BY <1>1, <3>1
  <2>3. CASE Poll(t)
    <3>1. Sent("data", FALSE, 0)
      BY <2>3 DEF Poll, shown
    <3> QED
      BY <1>1, <3>1
  <2>4. ASSUME NEW good \in BOOLEAN, Submit(t, good)
        PROVE  \E kind \in {"status", "setup", "login", "logout", "data"}, g \in BOOLEAN, at \in 0 .. MaxClicks :
                 Sent(kind, g, at)
    <3>1. Sent(screen[t], good, 0) /\ screen[t] \in {"setup", "login"}
      BY <2>4 DEF Submit, Entry
    <3> QED
      BY <1>1, <3>1
  <2> HIDE DEF Sent
  <2> QED
    BY <2>1, <2>2, <2>3, <2>4
<1>3. PICK kind \in {"status", "setup", "login", "logout", "data"}, good \in BOOLEAN, at \in 0 .. MaxClicks :
        Sent(kind, good, at)
  BY <1>2
<1>4. /\ reqs' \subseteq Requests' /\ Verifying' = Verifying
      /\ \E q \in reqs' : /\ q.tab = t /\ q.kind = kind /\ q.step = "sent" /\ q.cookie = jar
                          /\ reqs' = reqs \cup {q}
  BY <1>1, <1>3, SendRequest DEF auth
<1>5. PICK q \in reqs' : /\ q.tab = t /\ q.kind = kind /\ q.step = "sent" /\ q.cookie = jar
                         /\ reqs' = reqs \cup {q}
  BY <1>4
<1>6. TypeOK'
  BY <1>1, <1>3, <1>4 DEF TypeOK, auth, throttle, shown, Screens
<1>7. Counted' /\ Answers' /\ RefusedOnce'
  BY <1>1, <1>4, <1>5, CountedKeeps DEF Answers, RefusedOnce, auth
<1>8. \A u, kinds : Of(u, kinds)' = IF u = t /\ kind \in kinds THEN Of(u, kinds) \cup {q} ELSE Of(u, kinds)
  BY <1>5 DEF Of
<1>9. Awaited'
  BY <1>3, <1>5, <1>8 DEF Awaited, Entry, shown, TypeOK
<1> QED
  BY <1>6, <1>7, <1>9

\* A tab that is loaded again forgets what it asked for.
LEMMA ReloadInv ==
    ASSUME Inv, NEW t \in Tabs, Reload(t)
    PROVE  Inv' /\ Cardinality(Verifying') \in 0 .. Cardinality(Verifying)
<1> USE DEF Inv
<1> DEFINE Kept(r) == [r EXCEPT !.tab = NoTab, !.at = clicks']
           left == {r \in Of(t, Entry \cup {"logout"}) : r.step # "answered"}
           q == Request(t, "status", FALSE, 0)
<1>1. /\ UNCHANGED <<auth, throttle, jar, lost>> /\ clicks' \in 0 .. MaxClicks
      /\ screen' = [screen EXCEPT ![t] = "connecting"] /\ loading' = [loading EXCEPT ![t] = FALSE]
      /\ reqs' = {r \in reqs : r.tab # t} \cup {q} \cup {Kept(r) : r \in left}
  <2>1. reqs' = {r \in reqs : r.tab # t} \cup {q} \cup {Kept(r) : r \in left}
    BY Zenon DEF Reload
  <2>2. clicks \in 0 .. MaxClicks /\ clicks < MaxClicks /\ clicks' = clicks + 1
    BY DEF Reload, Click, TypeOK
  <2>3. clicks' \in 0 .. MaxClicks
    BY <2>2, BoundsAssumption
  <2> HIDE DEF Kept, q, left
  <2> QED
    BY <2>1, <2>3 DEF Reload, Show
<1>2. q \in Requests /\ q.tab = t /\ q.kind = "status" /\ q.step = "sent"
  BY BoundsAssumption DEF Request, Requests, TypeOK
<1>3. ASSUME NEW r \in left
      PROVE  /\ Kept(r) \in Requests /\ Kept(r).tab = NoTab /\ Kept(r).kind = r.kind
             /\ Kept(r).step = r.step /\ r \in reqs /\ r.tab = t /\ r.kind \in Entry \cup {"logout"}
             /\ r.step # "answered"
  BY <1>1 DEF Of, TypeOK, Requests
<1> HIDE DEF Kept, q, left
<1>4. /\ \A r \in reqs' : r \in Requests
      /\ \A r \in reqs' : r \in reqs \/ r.step # "answered"
      /\ \A r \in reqs' : r.step = "verifying" => r.kind = "login"
  BY <1>1, <1>2, <1>3 DEF TypeOK, Answers
<1>5. TypeOK'
  <2>1. Requests' = Requests
    BY <1>1 DEF Requests, auth
  <2> QED
    BY <1>1, <1>4, <2>1 DEF TypeOK, auth, throttle, Screens
<1>6. Answers' /\ RefusedOnce'
  BY <1>1, <1>4 DEF Answers, RefusedOnce, auth
<1>7. Awaited'
  <2> SUFFICES ASSUME NEW u \in Tabs
               PROVE  /\ screen'[u] = "connecting" => Of(u, {"status"})' # {}
                      /\ loading'[u] => \E p \in reqs' : Of(u, Entry)' = {p}
                      /\ ~loading'[u] => Of(u, Entry)' = {}
    BY DEF Awaited
  <2>1. u # NoTab
    BY TabsAssumption
  <2>2. CASE u = t
    BY <1>1, <1>2, <1>3, <2>1, <2>2 DEF Of, Entry, TypeOK
  <2>3. CASE u # t
    <3>1. \A kinds : Of(u, kinds)' = Of(u, kinds)
      BY <1>1, <1>2, <1>3, <2>1, <2>3 DEF Of
    <3>2. Of(u, Entry) \subseteq reqs'
      BY <1>1, <2>3 DEF Of
    <3> QED
      BY <1>1, <2>3, <3>1, <3>2 DEF Awaited, TypeOK
  <2> QED
    BY <2>2, <2>3
<1>8. /\ IsFiniteSet(Verifying')
      /\ Cardinality(Verifying') \in Nat /\ Cardinality(Verifying) \in Nat
      /\ Cardinality(Verifying') <= Cardinality(Verifying)
  <2>1. CASE \A r \in left : r.step # "verifying"
    <3>1. Verifying' \in SUBSET Verifying
      BY <1>1, <1>2, <1>3, <2>1 DEF Verifying
    <3>2. IsFiniteSet(Verifying') /\ Cardinality(Verifying') <= Cardinality(Verifying)
      BY <3>1, FS_Subset DEF Counted
    <3> QED
      BY <3>2, FS_CardinalityType DEF Counted
  <2>2. CASE \E r \in left : r.step = "verifying"
    <3>0. PICK r \in left : r.step = "verifying"
      BY <2>2
    <3>1. r \in Verifying
      BY <1>3, <3>0 DEF Verifying
    <3>2. \A p \in left : p.step = "verifying" => p = r
      <4>1. \A p \in left : p.step = "verifying" => p \in Of(t, Entry)
        BY <1>3 DEF Answers, Of, Entry
      <4> QED
        BY <3>0, <4>1 DEF Awaited, TypeOK
    <3>3. Verifying' \in SUBSET ((Verifying \ {r}) \cup {Kept(r)})
      BY <1>1, <1>2, <1>3, <3>1, <3>2 DEF Verifying
    <3>4. /\ IsFiniteSet(Verifying \ {r}) /\ Cardinality(Verifying \ {r}) = Cardinality(Verifying) - 1
          /\ Cardinality(Verifying) \in Nat
      BY <3>1, FS_RemoveElement, FS_CardinalityType DEF Counted
    <3>5. /\ IsFiniteSet((Verifying \ {r}) \cup {Kept(r)})
          /\ Cardinality((Verifying \ {r}) \cup {Kept(r)}) <= Cardinality(Verifying)
      BY <3>4, FS_AddElement
    <3>6. IsFiniteSet(Verifying') /\ Cardinality(Verifying') <= Cardinality((Verifying \ {r}) \cup {Kept(r)})
      BY <3>3, <3>5, FS_Subset
    <3>7. Cardinality(Verifying') \in Nat /\ Cardinality((Verifying \ {r}) \cup {Kept(r)}) \in Nat
      BY <3>5, <3>6, FS_CardinalityType
    <3> QED
      BY <3>4, <3>5, <3>6, <3>7
  <2> QED
    BY <2>1, <2>2
<1>9. Counted'
  BY <1>1, <1>8, BoundsAssumption DEF Counted, TypeOK, throttle
<1>10. Cardinality(Verifying') \in 0 .. Cardinality(Verifying)
  BY <1>8
<1> QED
  BY <1>5, <1>6, <1>7, <1>9, <1>10

-----------------------------------------------------------------------------
LEMMA StepInv == Inv /\ [Next]_vars => Inv'
<1> SUFFICES ASSUME Inv, [Next]_vars PROVE Inv'
  OBVIOUS
<1>1. ASSUME NEW r \in reqs, Serve(r) \/ Arrive(r) \/ Lost(r) PROVE Inv'
  BY <1>1, ServeInv, RemovalInv
<1>2. CASE Expire \/ BlockEnds \/ WindowEnds
  BY <1>2, TimeInv
<1>3. ASSUME NEW t \in Tabs, Reconnect(t) \/ SignOut(t) \/ Poll(t) \/ \E good \in BOOLEAN : Submit(t, good)
      PROVE  Inv'
  BY <1>3, SendInv
<1>4. ASSUME NEW t \in Tabs, Reload(t) PROVE Inv'
  BY <1>4, ReloadInv
<1>5. CASE UNCHANGED vars
  <2>1. UNCHANGED <<configured, valid, drawn, failures, blocked, old, wrong, peak, jar, screen, loading, reqs, clicks, lost>>
    BY <1>5 DEF vars, auth, throttle, shown
  <2>2. Verifying' = Verifying /\ Requests' = Requests /\ \A t, kinds : Of(t, kinds)' = Of(t, kinds)
    BY <2>1 DEF Verifying, Requests, Of
  <2>3. TypeOK' /\ Awaited'
    BY <2>1, <2>2 DEF Inv, TypeOK, Awaited
  <2>4. Answers' /\ RefusedOnce' /\ Counted'
    BY <2>1, <2>2 DEF Inv, Answers, RefusedOnce, Counted
  <2> QED
    BY <2>3, <2>4 DEF Inv
<1> QED
  BY <1>1, <1>2, <1>3, <1>4, <1>5 DEF Next

LEMMA Invariance == Spec => []Inv
<1>1. Init => Inv
  BY InitInv
<1>2. Inv /\ [Next]_vars => Inv'
  BY StepInv
<1> QED
  BY <1>1, <1>2, PTL DEF Spec

\* Every variable keeps its type.
THEOREM TypeCorrect == Spec => []TypeOK
  BY Invariance, PTL DEF Inv

\* No tab waits for an answer that cannot come, and a form is busy exactly while
\* its one attempt is under way (AuthRoot.tsx, AuthScreen.tsx).
THEOREM FormsAwaited == Spec => []Awaited
  BY Invariance, PTL DEF Inv

\* Guessing in parallel gains an address no more wrong passwords than were let
\* in together (httpapi/auth.go: loginAllowed, recordLoginFailure).
THEOREM Throttled == Spec => []GuessesBounded
<1>1. Inv => GuessesBounded
  <2>1. Counted => Cardinality(Verifying) \in Nat
    BY FS_CardinalityType DEF Counted
  <2> QED
    BY <2>1, BoundsAssumption DEF Inv, Counted, GuessesBounded, TypeOK
<1> QED
  BY <1>1, Invariance, PTL

\* A tab leaves the app only when the browser's session is over, or by the
\* answer to a request of an earlier one (AuthRoot.tsx).
THEOREM SignedIn == Spec => SignedInStays
<1> DEFINE Stays == \A t \in Tabs :
             screen[t] = "app" /\ screen'[t] = "login" =>
                 jar' \notin valid \/ \E r \in reqs \ reqs' : r.tab = t /\ r.cookie # jar
<1>1. Inv /\ [Next]_vars => [Stays]_vars
  <2> SUFFICES ASSUME Inv, Next, NEW t \in Tabs, screen[t] = "app", screen'[t] = "login"
               PROVE  jar' \notin valid \/ \E r \in reqs \ reqs' : r.tab = t /\ r.cookie # jar
    OBVIOUS
  <2> USE DEF Inv
  <2>1. PICK r \in reqs : Arrive(r)
    <3>1. ASSUME NEW r \in reqs, Serve(r) PROVE FALSE
      BY <3>1 DEF Serve, shown
    <3>2. ASSUME NEW r \in reqs, Lost(r) PROVE FALSE
      BY <3>2 DEF Lost, TypeOK
    <3>3. CASE Expire \/ BlockEnds \/ WindowEnds
      BY <3>3 DEF Expire, BlockEnds, WindowEnds, shown
    <3>4. ASSUME NEW u \in Tabs,
                 Reconnect(u) \/ SignOut(u) \/ Poll(u) \/ Reload(u) \/ \E good \in BOOLEAN : Submit(u, good)
          PROVE  FALSE
      BY <3>4 DEF Reconnect, SignOut, Poll, Reload, Submit, Show, shown, TypeOK
    <3> QED
      BY <3>1, <3>2, <3>3, <3>4 DEF Next
  <2>2. r \in reqs \ reqs' /\ r.step = "answered" /\ r \in Requests
    BY <2>1 DEF Arrive, StatusArrives, EntryArrives, LogoutArrives, DataArrives, Take, TypeOK
  <2>3. r.tab = t /\ r.kind \in {"status", "logout", "data"}
    BY <2>1 DEF Arrive, StatusArrives, EntryArrives, LogoutArrives, DataArrives, Show, TypeOK
  <2>4. CASE r.kind = "logout"
    <3>1. jar' = 0 /\ 0 \notin valid
      BY <2>1, <2>4 DEF Arrive, StatusArrives, EntryArrives, LogoutArrives, DataArrives, Entry, TypeOK
    <3> QED
      BY <3>1
  <2>5. CASE r.kind \in {"status", "data"}
    <3>1. jar' = jar /\ r.cookie \notin valid
      BY <2>1, <2>2, <2>3, <2>5
      DEF Arrive, StatusArrives, EntryArrives, LogoutArrives, DataArrives, Show, Entry, TypeOK, RefusedOnce
    <3> QED
      BY <2>2, <2>3, <3>1
  <2> QED
    BY <2>3, <2>4, <2>5
<1> QED
  BY <1>1, Invariance, PTL DEF Spec, SignedInStays

-----------------------------------------------------------------------------
(* Refinement of Door. *)

\* How many passwords are looked at once a request was answered or is gone.
LEMMA LookedAt ==
    ASSUME Counted, NEW r, Verifying' = Verifying \ {r}
    PROVE  /\ Cardinality(Verifying') \in 0 .. Cardinality(Verifying)
           /\ r \in Verifying => /\ Cardinality(Verifying) > 0
                                 /\ Cardinality(Verifying') = Cardinality(Verifying) - 1
           /\ r \notin Verifying => Cardinality(Verifying') = Cardinality(Verifying)
<1>1. IsFiniteSet(Verifying) /\ Cardinality(Verifying) \in Nat
  BY FS_CardinalityType DEF Counted
<1>2. CASE r \in Verifying
  <2>1. /\ Cardinality(Verifying') = Cardinality(Verifying) - 1
        /\ IsFiniteSet(Verifying')
    BY <1>1, <1>2, FS_RemoveElement
  <2>2. Cardinality(Verifying') \in Nat
    BY <2>1, FS_CardinalityType
  <2> QED
    BY <1>1, <1>2, <2>1, <2>2
<1>3. CASE r \notin Verifying
  <2>1. Verifying' = Verifying
    BY <1>3
  <2>2. Cardinality(Verifying') = Cardinality(Verifying)
    BY <2>1
  <2>3. Cardinality(Verifying') \in 0 .. Cardinality(Verifying)
    BY <1>1, <2>2
  <2> QED
    BY <1>3, <2>2, <2>3, Zenon
<1> QED
  BY <1>2, <1>3

\* What the server does with a request.
LEMMA ServeDoor ==
    ASSUME Inv, NEW r \in reqs, Serve(r)
    PROVE  House!Next \/ UNCHANGED House!state
<1> USE BoundsAssumption DEF Inv
<1>1. ASSUME NEW result, NEW new, Answer(r, result, new)
      PROVE  Verifying' = Verifying \ {r}
  <2> DEFINE q == [r EXCEPT !.step = "answered", !.result = result, !.new = new]
  <2>1. q.step = "answered"
    BY DEF TypeOK, Requests
  <2>2. reqs' = (reqs \ {r}) \cup {q} \/ reqs' = reqs \ {r}
    BY <1>1 DEF Answer
  <2> HIDE DEF q
  <2> QED
    BY <2>1, <2>2 DEF Verifying
<1>2. ASSUME r.step = "sent", NEW result, NEW new, Answer(r, result, new)
      PROVE  Cardinality(Verifying') = Cardinality(Verifying)
  <2>1. r \notin Verifying
    BY <1>2 DEF Verifying
  <2> QED
    BY <1>1, <1>2, <2>1, LookedAt
<1>3. ASSUME r.step = "verifying", NEW result, NEW new, Answer(r, result, new)
      PROVE  Cardinality(Verifying) > 0 /\ Cardinality(Verifying') = Cardinality(Verifying) - 1
  <2>1. r \in Verifying
    BY <1>3 DEF Verifying
  <2> QED
    BY <1>1, <1>3, <2>1, LookedAt
<1>4. CASE ServeStatus(r) \/ ServeData(r)
  <2>1. UNCHANGED <<auth, throttle>> /\ Cardinality(Verifying') = Cardinality(Verifying)
    BY <1>2, <1>4 DEF ServeStatus, ServeData
  <2> QED
    BY <2>1 DEF auth, throttle, House!state
<1>5. CASE ServeSetup(r)
  <2>1. UNCHANGED wrong /\ Cardinality(Verifying') = Cardinality(Verifying)
    BY <1>2, <1>5 DEF ServeSetup, NewSession, throttle
  <2>2. CASE configured
    BY <1>5, <2>1, <2>2 DEF ServeSetup, auth, House!state
  <2>3. CASE ~configured
    <3>1. House!SetUp
      BY <1>5, <2>1, <2>3 DEF ServeSetup, NewSession, House!SetUp, House!Give
    <3> QED
      BY <3>1 DEF House!Next
  <2> QED
    BY <2>2, <2>3
<1>6. CASE LoginCheck(r) /\ blocked
  <2>1. UNCHANGED <<auth, wrong>> /\ Cardinality(Verifying') = Cardinality(Verifying)
    BY <1>2, <1>6 DEF LoginCheck
  <2> QED
    BY <2>1 DEF auth, House!state
<1>7. CASE LoginCheck(r) /\ ~blocked
  <2> DEFINE q == [r EXCEPT !.step = "verifying"]
  <2>1. /\ UNCHANGED <<auth, wrong>> /\ wrong < Limit
        /\ reqs' = (reqs \ {r}) \cup {q} /\ r.step = "sent" /\ q.step = "verifying"
    <3>1. wrong \in Nat /\ wrong <= Limit - 1
      BY <1>7 DEF Counted, TypeOK
    <3>2. q.step = "verifying"
      BY DEF TypeOK, Requests
    <3> QED
      BY <1>7, <3>1, <3>2 DEF LoginCheck
  <2> HIDE DEF q
  <2>2. IsFiniteSet(Verifying) /\ Verifying' = Verifying \cup {q}
    BY <2>1 DEF Verifying, Counted
  <2>3. \/ Cardinality(Verifying') = Cardinality(Verifying)
        \/ Cardinality(Verifying') = Cardinality(Verifying) + 1
    BY <2>2, FS_AddElement
  <2>4. CASE Cardinality(Verifying') = Cardinality(Verifying)
    BY <2>1, <2>4 DEF auth, House!state
  <2>5. CASE Cardinality(Verifying') = Cardinality(Verifying) + 1
    BY <2>1, <2>5 DEF auth, House!Next, House!Enter, House!sessions
  <2> QED
    BY <2>3, <2>4, <2>5
<1>8. CASE LoginFails(r)
  <2>1. /\ UNCHANGED auth /\ wrong' = wrong + 1
        /\ Cardinality(Verifying) > 0 /\ Cardinality(Verifying') = Cardinality(Verifying) - 1
    BY <1>3, <1>8 DEF LoginFails
  <2>2. House!TurnAway
    BY <2>1 DEF auth, House!TurnAway, House!sessions
  <2> QED
    BY <2>2 DEF House!Next
<1>9. CASE LoginSucceeds(r)
  <2>1. Cardinality(Verifying) > 0 /\ Cardinality(Verifying') = Cardinality(Verifying) - 1
    BY <1>3, <1>9 DEF LoginSucceeds, NewSession
  <2>2. House!Admit
    BY <1>9, <2>1 DEF LoginSucceeds, NewSession, Respite, House!Admit, House!Give
  <2> QED
    BY <2>2 DEF House!Next
<1>10. CASE ServeLogout(r)
  <2>1. /\ UNCHANGED <<configured, drawn, wrong>> /\ valid' = valid \ {r.cookie}
        /\ Cardinality(Verifying') = Cardinality(Verifying)
    BY <1>2, <1>10 DEF ServeLogout, throttle
  <2>2. CASE r.cookie \in valid
    BY <2>1, <2>2 DEF House!Next, House!End
  <2>3. CASE r.cookie \notin valid
    <3>1. valid' = valid
      BY <2>1, <2>3
    <3> QED
      BY <2>1, <3>1 DEF House!state
  <2> QED
    BY <2>2, <2>3
<1> QED
  BY <1>4, <1>5, <1>6, <1>7, <1>8, <1>9, <1>10 DEF Serve

\* Everything else: answers and lost requests, time, users.
LEMMA OtherDoor ==
    ASSUME Inv, Next, ~\E r \in reqs : Serve(r)
    PROVE  House!Next \/ UNCHANGED House!state
<1> USE DEF Inv
<1>1. ASSUME UNCHANGED <<auth, wrong>>, Cardinality(Verifying') \in 0 .. Cardinality(Verifying)
      PROVE  House!Next
  BY <1>1 DEF auth, House!Next, House!Abandon, House!sessions
<1>2. Cardinality(Verifying) \in 0 .. Cardinality(Verifying)
  BY FS_CardinalityType DEF Counted
<1>3. ASSUME NEW r \in reqs, Arrive(r) \/ Lost(r) PROVE House!Next
  <2>1. reqs' = reqs \ {r} /\ UNCHANGED <<auth, throttle>>
    BY <1>3 DEF Arrive, StatusArrives, EntryArrives, LogoutArrives, DataArrives, Take, Lost
  <2>2. Verifying' = Verifying \ {r}
    BY <2>1 DEF Verifying
  <2> QED
    BY <1>1, <2>1, <2>2, LookedAt DEF throttle
<1>4. CASE Expire
  <2>1. PICK s \in valid : valid' = valid \ {s}
    BY <1>4 DEF Expire
  <2>2. House!End(s)
    BY <1>4, <2>1 DEF Expire, throttle, Verifying, House!End
  <2> QED
    BY <2>2 DEF House!Next
<1>5. CASE BlockEnds \/ WindowEnds
  <2>1. House!Respite
    BY <1>5 DEF BlockEnds, WindowEnds, Respite, auth, Verifying, House!Respite, House!sessions
  <2> QED
    BY <2>1 DEF House!Next
<1>6. ASSUME NEW t \in Tabs, Reconnect(t) \/ SignOut(t) \/ Poll(t) \/ \E good \in BOOLEAN : Submit(t, good)
      PROVE  House!Next
  <2>1. /\ UNCHANGED <<auth, throttle>>
        /\ \E kind, good, at : Send(t, kind, good, at)
    BY <1>6 DEF Reconnect, SignOut, Poll, Submit
  <2>2. PICK kind, good, at : Send(t, kind, good, at)
    BY <2>1
  <2>3. Verifying' = Verifying
    <3>1. Request(t, kind, good, at).step = "sent"
      BY DEF Request
    <3> QED
      BY <2>2, <3>1 DEF Send, Verifying
  <2> QED
    BY <1>1, <1>2, <2>1, <2>3 DEF throttle
<1>7. ASSUME NEW t \in Tabs, Reload(t) PROVE House!Next
  <2>1. Cardinality(Verifying') \in 0 .. Cardinality(Verifying)
    BY <1>7, ReloadInv
  <2>2. UNCHANGED <<auth, throttle>>
    BY <1>7 DEF Reload
  <2> QED
    BY <1>1, <2>1, <2>2 DEF throttle
<1> QED
  BY <1>3, <1>4, <1>5, <1>6, <1>7 DEF Next

\* The handlers and the throttle implement Door: no order of checks, failures,
\* successes and lost connections lets in a guess after Limit wrong ones, and
\* sessions are fresh and end for good (httpapi/auth.go).
THEOREM KeepsTheDoor == Spec => ImplementsDoor
<1>1. Init => House!Init
  <2> SUFFICES ASSUME Init PROVE House!Init
    OBVIOUS
  <2>1. Verifying = {}
    BY DEF Init, Request, Verifying
  <2>2. Cardinality(Verifying) = 0
    BY <2>1, FS_EmptySet
  <2>3. drawn \in {0, 1} /\ (drawn = 1 => configured) /\ \A s \in valid : s = 1 /\ drawn = 1
    BY DEF Init
  <2>4. valid \subseteq 1 .. drawn
    BY <2>3
  <2> QED
    BY <2>2, <2>3, <2>4 DEF Init, House!Init
<1>2. Inv /\ [Next]_vars => [House!Next]_(House!state)
  <2>1. ASSUME Inv, Next PROVE House!Next \/ UNCHANGED House!state
    BY <2>1, ServeDoor, OtherDoor
  <2>2. ASSUME UNCHANGED vars PROVE UNCHANGED House!state
    BY <2>2 DEF vars, auth, throttle, Verifying, House!state
  <2> QED
    BY <2>1, <2>2
<1> QED
  BY Invariance, <1>1, <1>2, PTL DEF Spec, ImplementsDoor, House!Spec
=============================================================================
