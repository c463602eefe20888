---------------------------- MODULE WindowsProofs ----------------------------
(***************************************************************************)
(* Proofs about Windows, for any number of clicks, tokens, accounts, lost  *)
(* requests and any values of the form.                                    *)
(***************************************************************************)
EXTENDS Windows, TLAPS

\* Unless windows were stacked, the one that is open has locked the page and
\* saw it free before.
LockInv ==
    ~stacked =>
        /\ \A v, w \in open : v = w
        /\ \A w \in open : ~previous[w]
        /\ locked <=> open # {}

LEMMA RenderLock ==
    ASSUME ModalTypeOK, LockInv, NEW after \in SUBSET Windows, Render(after)
    PROVE  open' \subseteq Windows /\ locked' \in BOOLEAN /\ previous' \in [Windows -> BOOLEAN]
           /\ stacked' \in BOOLEAN /\ LockInv'
<1>1. open' \subseteq Windows
  BY DEF Render
<1>2. locked' \in BOOLEAN /\ stacked' \in BOOLEAN
  BY Zenon DEF Render
<1>3. previous' \in [Windows -> BOOLEAN]
  BY Zenon DEF Render
<1>4. ASSUME ~stacked' PROVE LockInv'
  <2>1. ~stacked /\ \A v, w \in after : v = w
    BY <1>4, Zenon DEF Render
  <2>2. ~CleanedUp
    <3>1. CASE open = {}
      BY <2>1, <3>1 DEF LockInv, CleanedUp
    <3>2. CASE open # {}
      BY <2>1, <3>2, Zenon DEF LockInv, CleanedUp
    <3> QED
      BY <3>1, <3>2
  <2>3. \A w \in after : ~previous'[w]
    <3> SUFFICES ASSUME NEW w \in after, previous'[w] PROVE FALSE
      OBVIOUS
    <3>1. previous'[w] = (w \in after /\ (CleanedUp \/ \E v \in after : Rank[v] < Rank[w]))
      BY Zenon DEF Render
    <3>2. PICK v \in after : Rank[v] < Rank[w]
      BY <2>2, <3>1, Zenon
    <3>3. v = w /\ Rank[w] \in Nat
      BY <2>1 DEF Rank, Windows
    <3> QED
      BY <3>2, <3>3
  <2>4. locked' <=> after # {}
    BY <2>2, Zenon DEF Render
  <2>5. open' = after
    BY DEF Render
  <2> QED
    BY <2>1, <2>3, <2>4, <2>5, Zenon DEF LockInv
<1>5. LockInv'
  BY <1>4, Zenon DEF LockInv
<1> QED
  BY <1>1, <1>2, <1>3, <1>5

-----------------------------------------------------------------------------
(* The window of tokens.                                                     *)

\* Ids are drawn once: a token that was revoked stays revoked, and a new one is
\* not in the list more often than an answer brought it.
CallInv ==
    \A c \in calls :
        /\ c.kind = "create" /\ c.step = "ok" => c.id \in 1 .. drawn /\ listed[c.id] <= 1
        /\ c.kind = "revoke" => c.id \in 1 .. drawn /\ (c.step = "ok" => c.id \notin live)

ListedInv ==
    /\ \A i \in Ids : i > drawn => listed[i] = 0
    /\ issued \in 0 .. drawn /\ confirmRevokeID \in 0 .. drawn /\ revokingID \in 0 .. drawn

TokenInv == TokenTypeOK /\ TokensAwaited /\ CallInv /\ ListedInv

Calls ==
    [kind : {"list", "create", "revoke"}, id : 0 .. drawn, seen : 0 .. drawn,
     at : 0 .. MaxClicks, step : {"sent", "ok", "refused"}, got : SUBSET (1 .. drawn)]

\* A request that is sent.
LEMMA CallSent ==
    ASSUME TokenInv, clicks' \in 0 .. MaxClicks, NEW kind \in {"list", "create", "revoke"}, NEW id \in 0 .. drawn,
           calls' = calls \cup {Call(kind, id)}, UNCHANGED drawn
    PROVE  /\ calls' \subseteq Calls'
           /\ \E c \in calls' : /\ calls' = calls \cup {c} /\ c.kind = kind /\ c.id = id /\ c.step = "sent"
<1> DEFINE c == Call(kind, id)
<1>1. c \in Calls /\ c.kind = kind /\ c.id = id /\ c.step = "sent"
  BY DEF Call, Calls, TokenInv, ListedInv
<1>2. calls \subseteq Calls /\ Calls' = Calls
  BY DEF TokenInv, TokenTypeOK, Calls
<1> HIDE DEF c
<1>3. calls' = calls \cup {c}
  BY DEF c
<1> QED
  BY <1>1, <1>2, <1>3

LEMMA CreateInv ==
    ASSUME TokenInv, clicks \in 0 .. MaxClicks, Create
    PROVE  TokenInv'
<1>1. /\ clicks' \in 0 .. MaxClicks /\ creating' = TRUE /\ calls' = calls \cup {Call("create", 0)} /\ ~creating
      /\ UNCHANGED <<live, drawn, listed, loading, revokingID, confirmRevokeID, issued, failed>>
  BY ClicksAssumption DEF Create, Click
<1>2. doubt' \in BOOLEAN
  BY Zenon DEF Create
<1>3. 0 \in 0 .. drawn
  BY TokensAssumption DEF TokenInv, TokenTypeOK
<1>4. calls' \subseteq Calls' /\ \E c \in calls' : /\ calls' = calls \cup {c} /\ c.kind = "create" /\ c.id = 0 /\ c.step = "sent"
  BY <1>1, <1>3, CallSent
<1>5. PICK c \in calls' : /\ calls' = calls \cup {c} /\ c.kind = "create" /\ c.id = 0 /\ c.step = "sent"
  BY <1>4
<1>6. TokenTypeOK'
  BY <1>1, <1>2, <1>4 DEF TokenInv, TokenTypeOK, Calls
<1>7. TokensAwaited'
  BY <1>1, <1>5 DEF TokenInv, TokensAwaited, Calling
<1>8. CallInv' /\ ListedInv'
  BY <1>1, <1>5 DEF TokenInv, CallInv, ListedInv
<1> QED
  BY <1>6, <1>7, <1>8 DEF TokenInv

LEMMA AskRevokeInv ==
    ASSUME TokenInv, clicks \in 0 .. MaxClicks, NEW i \in Ids \cup {0}, AskRevoke(i)
    PROVE  TokenInv'
<1>1. /\ confirmRevokeID' = i
      /\ UNCHANGED <<live, drawn, listed, loading, creating, revokingID, issued, calls, failed, doubt>>
  BY DEF AskRevoke
<1>2. i \in 0 .. drawn
  BY TokensAssumption DEF AskRevoke, Rows, Ids, TokenInv, TokenTypeOK, ListedInv
<1> QED
  BY <1>1, <1>2 DEF TokenInv, TokenTypeOK, TokensAwaited, Calling, CallInv, ListedInv

LEMMA RevokeInv ==
    ASSUME TokenInv, clicks \in 0 .. MaxClicks, NEW i \in Ids \cup {0}, Revoke(i)
    PROVE  TokenInv'
<1>1. /\ clicks' \in 0 .. MaxClicks /\ revokingID' = i /\ calls' = calls \cup {Call("revoke", i)}
      /\ UNCHANGED <<live, drawn, listed, loading, creating, confirmRevokeID, issued, failed>>
  BY ClicksAssumption DEF Revoke, Click
<1>2. doubt' \in BOOLEAN
  BY Zenon DEF Revoke
<1>3. i \in 1 .. drawn /\ i \in 0 .. drawn /\ i \in Ids
  BY TokensAssumption DEF Revoke, Rows, Ids, TokenInv, TokenTypeOK, ListedInv
<1>4. calls' \subseteq Calls' /\ \E c \in calls' : /\ calls' = calls \cup {c} /\ c.kind = "revoke" /\ c.id = i /\ c.step = "sent"
  BY <1>1, <1>3, CallSent
<1>5. PICK c \in calls' : /\ calls' = calls \cup {c} /\ c.kind = "revoke" /\ c.id = i /\ c.step = "sent"
  BY <1>4
<1>6. TokenTypeOK'
  BY <1>1, <1>2, <1>3, <1>4 DEF TokenInv, TokenTypeOK, Calls
<1>7. TokensAwaited'
  BY <1>1, <1>5 DEF TokenInv, TokensAwaited, Calling
<1>8. CallInv' /\ ListedInv'
  BY <1>1, <1>3, <1>5 DEF TokenInv, CallInv, ListedInv
<1> QED
  BY <1>6, <1>7, <1>8 DEF TokenInv

\* What opening and closing windows does to it.
LEMMA EffectInv ==
    ASSUME TokenInv, clicks' \in 0 .. MaxClicks, NEW after, TokenEffect(after)
    PROVE  TokenInv'
<1>1. CASE "tokens" \in open \ after
  <2>1. /\ issued' = 0 /\ confirmRevokeID' = 0
        /\ UNCHANGED <<live, drawn, listed, loading, creating, revokingID, calls, failed, doubt>>
    BY <1>1 DEF TokenEffect
  <2> QED
    BY <2>1, TokensAssumption DEF TokenInv, TokenTypeOK, TokensAwaited, Calling, CallInv, ListedInv
<1>2. CASE "tokens" \in after \ open
  <2>1. /\ loading' = TRUE /\ calls' = calls \cup {Call("list", 0)}
        /\ UNCHANGED <<live, drawn, listed, creating, revokingID, confirmRevokeID, issued, failed>>
    BY <1>2 DEF TokenEffect
  <2>2. doubt' \in BOOLEAN
    BY <1>2, Zenon DEF TokenEffect
  <2>3. 0 \in 0 .. drawn
    BY TokensAssumption DEF TokenInv, TokenTypeOK
  <2>4. calls' \subseteq Calls' /\ \E c \in calls' : /\ calls' = calls \cup {c} /\ c.kind = "list" /\ c.id = 0 /\ c.step = "sent"
    BY <2>1, <2>3, CallSent
  <2>5. PICK c \in calls' : /\ calls' = calls \cup {c} /\ c.kind = "list" /\ c.id = 0 /\ c.step = "sent"
    BY <2>4
  <2>6. TokenTypeOK'
    BY <2>1, <2>2, <2>4 DEF TokenInv, TokenTypeOK, Calls
  <2>7. TokensAwaited'
    BY <2>1, <2>5 DEF TokenInv, TokensAwaited, Calling
  <2>8. CallInv' /\ ListedInv'
    BY <2>1, <2>5 DEF TokenInv, CallInv, ListedInv
  <2> QED
    BY <2>6, <2>7, <2>8 DEF TokenInv
<1>3. CASE UNCHANGED tokenVars
  BY <1>3 DEF tokenVars, TokenInv, TokenTypeOK, TokensAwaited, Calling, CallInv, ListedInv
<1> QED
  BY <1>1, <1>2, <1>3 DEF TokenEffect

\* The server acts on a request.
LEMMA TokenServeInv ==
    ASSUME TokenInv, NEW c \in calls, TokenServe(c)
    PROVE  TokenInv'
<1>1. /\ UNCHANGED <<listed, loading, creating, revokingID, confirmRevokeID, issued, failed, doubt>>
      /\ ServeList(c) \/ ServeCreate(c) \/ ServeRevoke(c)
  BY DEF TokenServe
<1>2. c \in Calls /\ drawn \in 0 .. MaxTokens /\ live \subseteq 1 .. drawn
  BY DEF TokenInv, TokenTypeOK, Calls
<1>3. PICK d : /\ calls' = (calls \ {c}) \cup {d} /\ d.kind = c.kind /\ d \in Calls'
               /\ \/ UNCHANGED <<live, drawn>> /\ d.kind = "list" /\ d.id = c.id
                  \/ /\ drawn' = drawn + 1 /\ drawn < MaxTokens /\ live' = live \cup {drawn'}
                     /\ d.kind = "create" /\ d.id = drawn'
                  \/ /\ UNCHANGED drawn /\ live' = live \ {c.id} /\ d.kind = "revoke" /\ d.id = c.id
  <2>1. CASE ServeList(c)
    <3> DEFINE d == [c EXCEPT !.step = "ok", !.got = live]
    <3>1. calls' = (calls \ {c}) \cup {d} /\ UNCHANGED <<live, drawn>> /\ c.kind = "list"
      BY <2>1 DEF ServeList, Replace
    <3>2. Calls' = Calls
      BY <3>1 DEF Calls
    <3>3. d \in Calls /\ d.kind = c.kind /\ d.id = c.id
      BY <1>2 DEF Calls
    <3> HIDE DEF d
    <3> QED
      BY <3>1, <3>2, <3>3
  <2>2. CASE ServeCreate(c)
    <3> DEFINE d == [c EXCEPT !.step = "ok", !.id = drawn']
    <3>1. /\ calls' = (calls \ {c}) \cup {d} /\ c.kind = "create"
          /\ drawn' = drawn + 1 /\ drawn < MaxTokens /\ live' = live \cup {drawn'}
      BY <2>2 DEF ServeCreate, Replace
    <3>2. 0 .. drawn \subseteq 0 .. drawn' /\ 1 .. drawn \subseteq 1 .. drawn' /\ drawn' \in 0 .. drawn'
      BY <1>2, <3>1, TokensAssumption
    <3>3. c \in Calls'
      BY <1>2, <3>2 DEF Calls
    <3>4. d \in Calls' /\ d.kind = c.kind /\ d.id = drawn'
      BY <3>2, <3>3 DEF Calls
    <3> HIDE DEF d
    <3> QED
      BY <3>1, <3>4
  <2>3. CASE ServeRevoke(c)
    <3> DEFINE d == [c EXCEPT !.step = IF c.id \in live THEN "ok" ELSE "refused"]
    <3>1. calls' = (calls \ {c}) \cup {d} /\ UNCHANGED drawn /\ c.kind = "revoke" /\ live' = live \ {c.id}
      BY <2>3 DEF ServeRevoke, Replace
    <3>2. Calls' = Calls
      BY <3>1 DEF Calls
    <3>3. d \in Calls /\ d.kind = c.kind /\ d.id = c.id
      BY <1>2 DEF Calls
    <3> HIDE DEF d
    <3> QED
      BY <3>1, <3>2, <3>3
  <2> QED
    BY <1>1, <2>1, <2>2, <2>3
<1>4. drawn' \in 0 .. MaxTokens /\ live' \subseteq 1 .. drawn' /\ drawn' >= drawn /\ calls' \subseteq Calls'
  <2>1. drawn' \in 0 .. MaxTokens /\ drawn' >= drawn
    BY <1>2, <1>3, TokensAssumption
  <2>2. 0 .. drawn \subseteq 0 .. drawn' /\ 1 .. drawn \subseteq 1 .. drawn'
    BY <1>2, <2>1
  <2>3. live' \subseteq 1 .. drawn'
    <3>1. drawn \in Nat /\ live \subseteq 1 .. drawn'
      BY <1>2, <2>2
    <3>2. drawn' = drawn + 1 => drawn' \in 1 .. drawn'
      BY <3>1
    <3>3. live' \subseteq live \/ (drawn' = drawn + 1 /\ live' = live \cup {drawn'})
      BY <1>3
    <3> QED
      BY <3>1, <3>2, <3>3
  <2>4. calls \subseteq Calls'
    BY <2>2 DEF TokenInv, TokenTypeOK, Calls
  <2> QED
    BY <1>3, <2>1, <2>3, <2>4
<1>5. TokenTypeOK'
  BY <1>1, <1>4 DEF TokenInv, TokenTypeOK, Calls
<1>6. TokensAwaited'
  <2>1. \A kind : Calling(kind)' = IF c \in Calling(kind) THEN (Calling(kind) \ {c}) \cup {d} ELSE Calling(kind)
    BY <1>3 DEF Calling
  <2>2. (\E b \in Calling("revoke") : b.id = revokingID) => \E b \in Calling("revoke")' : b.id = revokingID
    BY <1>3 DEF Calling
  <2> QED
    BY <1>1, <1>3, <2>1, <2>2 DEF TokenInv, TokensAwaited
<1>7. ListedInv'
  BY <1>1, <1>2, <1>4 DEF TokenInv, ListedInv, Ids
<1>8. CallInv'
  <2> SUFFICES ASSUME NEW b \in calls'
               PROVE  /\ b.kind = "create" /\ b.step = "ok" => b.id \in 1 .. drawn' /\ listed'[b.id] <= 1
                      /\ b.kind = "revoke" => b.id \in 1 .. drawn' /\ (b.step = "ok" => b.id \notin live')
    BY DEF CallInv
  <2>1. 1 .. drawn \subseteq 1 .. drawn' /\ drawn \in Nat
    BY <1>2, <1>4
  <2>2. CASE b \in calls
    <3>1. b.kind = "revoke" => b.id # drawn + 1
      BY <2>1, <2>2 DEF TokenInv, CallInv
    <3> QED
      BY <1>1, <1>3, <2>1, <2>2, <3>1 DEF TokenInv, CallInv
  <2>3. CASE b = d
    <3>1. CASE d.kind = "create"
      <4>1. drawn' = drawn + 1 /\ d.id = drawn + 1 /\ d.id \in Ids /\ d.id > drawn /\ d.id \in 1 .. drawn'
        BY <1>2, <1>3, <3>1, TokensAssumption DEF Ids
      <4>2. listed[d.id] = 0
        BY <4>1 DEF TokenInv, ListedInv
      <4> QED
        BY <1>1, <2>3, <3>1, <4>1, <4>2
    <3>2. CASE d.kind = "revoke"
      BY <1>3, <2>3, <3>2 DEF TokenInv, CallInv
    <3> QED
      BY <1>3, <2>3, <3>1, <3>2
  <2> QED
    BY <1>3, <2>2, <2>3
<1> QED
  BY <1>5, <1>6, <1>7, <1>8 DEF TokenInv

\* A request is answered or lost.
LEMMA TokenArriveInv ==
    ASSUME TokenInv, NEW c \in calls,
           ListArrives(c) \/ CreateArrives(c) \/ RevokeArrives(c) \/ RevokeRefused(c) \/ TokenLost(c)
    PROVE  TokenInv'
<1>1. calls' = calls \ {c} /\ UNCHANGED <<live, drawn>> /\ c \in Calls
  BY DEF ListArrives, CreateArrives, RevokeArrives, RevokeRefused, TokenLost, Taken, TokenInv, TokenTypeOK, Calls
<1>2. failed' \in 0 .. MaxLost /\ doubt' \in BOOLEAN /\ 1 .. drawn \subseteq Ids
  <2>1. 1 .. drawn \subseteq Ids
    BY TokensAssumption DEF TokenInv, TokenTypeOK, Ids
  <2>2. CASE Taken(c)
    BY <2>1, <2>2 DEF Taken, TokenInv, TokenTypeOK
  <2>3. CASE TokenLost(c)
    BY <2>1, <2>3, TokensAssumption DEF TokenLost, TokenInv, TokenTypeOK
  <2> QED
    BY <2>2, <2>3 DEF ListArrives, CreateArrives, RevokeArrives, RevokeRefused
<1>3. \A kind : Calling(kind)' = Calling(kind) \ {c}
  BY <1>1 DEF Calling
<1>4. c \in Calling(c.kind) /\ \A kind : kind # c.kind => Calling(kind)' = Calling(kind)
  BY <1>3 DEF Calling
<1>5. CASE ListArrives(c)
  <2>1. /\ c.kind = "list" /\ loading' = FALSE /\ UNCHANGED <<creating, revokingID, confirmRevokeID, issued>>
        /\ listed' = [i \in Ids |-> IF i \in c.got THEN 1 ELSE 0]
    BY <1>5 DEF ListArrives
  <2>2. listed' \in [Ids -> 0 .. 2] /\ \A i \in Ids : listed'[i] <= 1 /\ (i > drawn => listed'[i] = 0)
    <3>1. \A i \in Ids : listed'[i] \in {0, 1} /\ (i \notin c.got => listed'[i] = 0)
      BY <2>1
    <3>2. c.got \subseteq 1 .. drawn /\ drawn \in Nat
      BY <1>1 DEF Calls, TokenInv, TokenTypeOK
    <3> QED
      BY <2>1, <3>1, <3>2 DEF Ids
  <2>3. TokenTypeOK'
    BY <1>1, <1>2, <2>1, <2>2 DEF TokenInv, TokenTypeOK
  <2>4. TokensAwaited'
    BY <1>1, <1>4, <2>1 DEF TokenInv, TokensAwaited, Calling
  <2>5. CallInv' /\ ListedInv'
    BY <1>1, <1>2, <2>1, <2>2 DEF TokenInv, CallInv, ListedInv
  <2> QED
    BY <2>3, <2>4, <2>5 DEF TokenInv
<1>6. CASE CreateArrives(c)
  <2>1. /\ c.kind = "create" /\ c.step = "ok" /\ creating' = FALSE /\ UNCHANGED <<loading, revokingID, confirmRevokeID>>
        /\ issued' = c.id /\ listed' = [listed EXCEPT ![c.id] = @ + 1]
    BY <1>6 DEF CreateArrives
  <2>2. c.id \in 1 .. drawn /\ c.id \in 0 .. drawn /\ c.id \in Ids /\ listed[c.id] \in 0 .. 1
    <3>1. c.id \in 1 .. drawn /\ listed[c.id] <= 1 /\ drawn \in Nat
      BY <2>1 DEF TokenInv, CallInv, TokenTypeOK
    <3>2. c.id \in Ids /\ c.id \in 0 .. drawn
      BY <1>2, <3>1
    <3> QED
      BY <3>1, <3>2 DEF TokenInv, TokenTypeOK
  <2>3. listed' \in [Ids -> 0 .. 2] /\ \A i \in Ids : i > drawn => listed'[i] = 0
    BY <2>1, <2>2 DEF TokenInv, TokenTypeOK, ListedInv
  <2>4. TokenTypeOK'
    BY <1>1, <1>2, <2>1, <2>2, <2>3 DEF TokenInv, TokenTypeOK
  <2>5. Calling("create")' = {}
    BY <1>3, <1>4, <2>1 DEF TokenInv, TokensAwaited, TokenTypeOK
  <2>6. TokensAwaited'
    BY <1>1, <1>4, <2>1, <2>5 DEF TokenInv, TokensAwaited
  <2>7. CallInv'
    BY <1>1, <2>1, <2>5 DEF TokenInv, CallInv, Calling
  <2>8. ListedInv'
    BY <1>1, <2>1, <2>2, <2>3 DEF TokenInv, ListedInv
  <2> QED
    BY <2>4, <2>6, <2>7, <2>8 DEF TokenInv
<1>7. CASE RevokeArrives(c)
  <2>1. /\ c.kind = "revoke" /\ UNCHANGED <<loading, creating>> /\ confirmRevokeID' = 0 /\ revokingID' = 0
        /\ issued' \in {0, issued} /\ listed' = [listed EXCEPT ![c.id] = 0]
    BY <1>7 DEF RevokeArrives
  <2>2. /\ listed' \in [Ids -> 0 .. 2]
        /\ \A i \in Ids : listed'[i] <= listed[i] /\ (i > drawn => listed'[i] = 0)
    <3>1. c.id \in Ids
      BY <1>2, <2>1 DEF TokenInv, CallInv
    <3>2. \A i \in Ids : listed'[i] \in {0, listed[i]} /\ listed[i] \in 0 .. 2
      BY <2>1, <3>1 DEF TokenInv, TokenTypeOK
    <3>3. listed' \in [Ids -> 0 .. 2]
      BY <2>1, <3>1 DEF TokenInv, TokenTypeOK
    <3>4. \A i \in Ids : listed'[i] <= listed[i] /\ (i > drawn => listed'[i] = 0)
      BY <3>2 DEF TokenInv, ListedInv
    <3> QED
      BY <3>3, <3>4
  <2>3. TokenTypeOK'
    BY <1>1, <1>2, <2>1, <2>2 DEF TokenInv, TokenTypeOK
  <2>4. TokensAwaited'
    BY <1>1, <1>4, <2>1 DEF TokenInv, TokensAwaited, Calling
  <2>5. CallInv'
    <3> SUFFICES ASSUME NEW b \in calls', b.kind = "create", b.step = "ok" PROVE listed'[b.id] <= 1
      BY <1>1 DEF TokenInv, CallInv
    <3>1. b.id \in Ids /\ listed[b.id] <= 1
      BY <1>1, <1>2 DEF TokenInv, CallInv
    <3> QED
      BY <2>2, <3>1 DEF TokenInv, TokenTypeOK
  <2>6. ListedInv'
    BY <1>1, <2>1, <2>2, TokensAssumption DEF TokenInv, TokenTypeOK, ListedInv
  <2> QED
    BY <2>3, <2>4, <2>5, <2>6 DEF TokenInv
<1>8. CASE RevokeRefused(c) \/ TokenLost(c)
  <2>1. Settle(c) /\ UNCHANGED <<listed, confirmRevokeID, issued>>
    BY <1>8 DEF RevokeRefused, TokenLost
  <2>2. /\ loading' \in BOOLEAN /\ creating' \in BOOLEAN
        /\ (loading' => loading /\ c.kind # "list") /\ (loading /\ c.kind # "list" => loading')
        /\ (creating' => creating /\ c.kind # "create") /\ (creating /\ c.kind # "create" => creating')
    BY <2>1, Zenon DEF Settle
  <2>3. revokingID' = IF c.kind = "revoke" THEN 0 ELSE revokingID
    BY <2>1 DEF Settle
  <2>4. 0 \in 0 .. drawn
    BY TokensAssumption DEF TokenInv, TokenTypeOK
  <2>5. TokenTypeOK'
    BY <1>1, <1>2, <2>1, <2>2, <2>3 DEF TokenInv, TokenTypeOK
  <2>6. TokensAwaited'
    <3>1. c.kind = "create" => Calling("create")' = {}
      BY <1>3, <1>4 DEF TokenInv, TokensAwaited
    <3>2. c.kind # "create" => Calling("create")' = Calling("create") /\ Calling("create") \subseteq calls'
      BY <1>1, <1>4 DEF Calling
    <3> QED
      BY <1>4, <2>2, <2>3, <3>1, <3>2 DEF TokenInv, TokensAwaited
  <2>7. CallInv' /\ ListedInv'
    BY <1>1, <2>1, <2>3, <2>4 DEF TokenInv, CallInv, ListedInv
  <2> QED
    BY <2>5, <2>6, <2>7 DEF TokenInv
<1> QED
  BY <1>5, <1>6, <1>7, <1>8

-----------------------------------------------------------------------------
(* The windows of accounts.                                                  *)

AccountInv == AccountTypeOK /\ ManagerAwaited /\ FormHonest

\* The clicks in them and the answers to their requests.
LEMMA AccountStepInv ==
    ASSUME AccountInv, clicks \in 0 .. MaxClicks, UNCHANGED open, AccountClick \/ AccountStep
    PROVE  AccountInv'
<1> USE AccountsAssumption, ValuesAssumption, ClicksAssumption DEF AccountInv
<1>1. ASSUME NEW v \in Values, SetField(v) PROVE AccountInv'
  <2>1. /\ account' = v /\ status' = "idle" /\ UNCHANGED <<asks, passed, busyID, confirmDeleteID, jobs, accounts, made>>
        /\ "form" \in open
    BY <1>1 DEF SetField, managerVars
  <2>2. edited' \in BOOLEAN /\ (~edited' => asks = {})
    BY <1>1, Zenon DEF SetField
  <2>3. AccountTypeOK' /\ ManagerAwaited'
    BY <2>1, <2>2 DEF AccountTypeOK, ManagerAwaited
  <2>4. FormHonest'
    BY <2>1, <2>2 DEF FormHonest, Waiting
  <2> QED
    BY <2>3, <2>4
<1>2. CASE HandleTest \/ HandleSubmit
  <2>1. PICK kind \in {"test", "create"}, waiting \in {"testing", "saving"} : Ask(kind, waiting)
    BY <1>2 DEF HandleTest, HandleSubmit
  <2> DEFINE a == [kind |-> kind, account |-> account, at |-> clicks']
  <2>2. /\ status' = waiting /\ UNCHANGED <<account, passed, edited, busyID, confirmDeleteID, jobs, accounts, made>>
        /\ asks' = asks \cup {a} /\ ~Waiting /\ clicks' \in 0 .. MaxClicks /\ account \in Values
    BY <2>1 DEF Ask, Click, managerVars, AccountTypeOK
  <2>3. a \in [kind : {"test", "create"}, account : Values, at : 0 .. MaxClicks] /\ a.account = account
    BY <2>2
  <2> HIDE DEF a
  <2>4. AccountTypeOK' /\ ManagerAwaited'
    BY <2>2, <2>3 DEF AccountTypeOK, ManagerAwaited
  <2>5. FormHonest'
    BY <2>2, <2>3 DEF FormHonest, Waiting
  <2> QED
    BY <2>4, <2>5
<1>3. ASSUME NEW a \in asks, NEW ok \in BOOLEAN, TestArrives(a, ok) PROVE AccountInv'
  <2>1. /\ asks' = asks \ {a} /\ status' \in {"tested", "idle"} /\ UNCHANGED <<account, edited, busyID, confirmDeleteID, jobs, accounts, made>>
        /\ passed' \in {passed, passed \cup {a.account}} /\ (status' = "tested" => a.account \in passed')
    BY <1>3 DEF TestArrives, managerVars
  <2>2. a.account \in Values
    BY DEF AccountTypeOK
  <2>3. AccountTypeOK' /\ ManagerAwaited'
    BY <2>1, <2>2 DEF AccountTypeOK, ManagerAwaited
  <2>4. FormHonest'
    BY <2>1 DEF FormHonest, Waiting
  <2> QED
    BY <2>3, <2>4
<1>4. ASSUME NEW a \in asks, CreateFails(a) PROVE AccountInv'
  <2>1. asks' = asks \ {a} /\ status' = "idle" /\ UNCHANGED <<account, passed, edited, busyID, confirmDeleteID, jobs, accounts, made>>
    BY <1>4 DEF CreateFails, managerVars
  <2>2. AccountTypeOK' /\ ManagerAwaited'
    BY <2>1 DEF AccountTypeOK, ManagerAwaited
  <2>3. FormHonest'
    BY <2>1 DEF FormHonest, Waiting
  <2> QED
    BY <2>2, <2>3
<1>5. ASSUME NEW id \in AccountIds, NEW action \in {"sync", "delete"}, Run(id, action) PROVE AccountInv'
  <2> DEFINE j == [id |-> id, action |-> action, at |-> clicks']
  <2>1. /\ busyID' = id /\ busyID = 0 /\ jobs' = jobs \cup {j} /\ clicks' \in 0 .. MaxClicks /\ id \in accounts
        /\ UNCHANGED <<confirmDeleteID, account, status, asks, passed, edited, accounts, made>>
    BY <1>5 DEF Run, Listed, Click, formVars
  <2>2. id \in 1 .. made /\ id \in 0 .. made /\ id # 0
    BY <2>1 DEF AccountTypeOK
  <2>3. j \in [id : 1 .. made, action : {"sync", "delete"}, at : 0 .. MaxClicks] /\ j.id = id
    BY <2>1, <2>2
  <2> HIDE DEF j
  <2>4. AccountTypeOK' /\ ManagerAwaited'
    BY <2>1, <2>2, <2>3 DEF AccountTypeOK, ManagerAwaited
  <2>5. FormHonest'
    BY <2>1 DEF FormHonest, Waiting
  <2> QED
    BY <2>4, <2>5
<1>6. ASSUME NEW id \in AccountIds, AskDelete(id) PROVE AccountInv'
  <2>1. /\ confirmDeleteID' \in {0} \cup accounts
        /\ UNCHANGED <<busyID, jobs, account, status, asks, passed, edited, accounts, made>>
    BY <1>6 DEF AskDelete, Listed, formVars
  <2>2. AccountTypeOK' /\ ManagerAwaited'
    BY <2>1 DEF AccountTypeOK, ManagerAwaited
  <2>3. FormHonest'
    BY <2>1 DEF FormHonest, Waiting
  <2> QED
    BY <2>2, <2>3
<1>7. ASSUME NEW j \in jobs, NEW ok \in BOOLEAN, JobEnds(j, ok) PROVE AccountInv'
  <2>1. /\ jobs' = jobs \ {j} /\ busyID' = 0 /\ confirmDeleteID' \in {0, confirmDeleteID} /\ accounts' \subseteq accounts
        /\ UNCHANGED <<account, status, asks, passed, edited, made>>
    BY <1>7 DEF JobEnds, formVars
  <2>2. AccountTypeOK' /\ ManagerAwaited'
    BY <2>1 DEF AccountTypeOK, ManagerAwaited
  <2>3. FormHonest'
    BY <2>1 DEF FormHonest, Waiting
  <2> QED
    BY <2>2, <2>3
<1>8. CASE CancelDelete
  <2>1. /\ confirmDeleteID' = 0
        /\ UNCHANGED <<busyID, jobs, account, status, asks, passed, edited, accounts, made>>
    BY <1>8 DEF CancelDelete, formVars
  <2>2. AccountTypeOK' /\ ManagerAwaited'
    BY <2>1 DEF AccountTypeOK, ManagerAwaited
  <2>3. FormHonest'
    BY <2>1 DEF FormHonest, Waiting
  <2> QED
    BY <2>2, <2>3
<1> QED
  BY <1>1, <1>2, <1>3, <1>4, <1>5, <1>6, <1>7, <1>8 DEF AccountClick, AccountStep

\* Opening and closing windows; the form keeps its values only while it is open.
LEMMA AccountEffectInv ==
    ASSUME AccountInv, NEW after, open' = after, ManagerEffect(after), UNCHANGED <<accounts, made>>,
           \/ FormCloses
           \/ UNCHANGED formVars /\ ("form" \in open => "form" \in after)
    PROVE  AccountInv'
<1> USE AccountsAssumption DEF AccountInv
<1>1. confirmDeleteID' \in {0, confirmDeleteID} /\ UNCHANGED <<busyID, jobs, accounts, made>>
  BY DEF ManagerEffect
<1>2. CASE FormCloses
  <2>1. account' = Blank /\ status' = "idle" /\ UNCHANGED <<asks, passed>>
    BY <1>2 DEF FormCloses
  <2>2. edited' \in BOOLEAN /\ (~edited' => asks = {})
    BY <1>2, Zenon DEF FormCloses
  <2>3. AccountTypeOK' /\ ManagerAwaited'
    BY <1>1, <2>1, <2>2 DEF AccountTypeOK, ManagerAwaited
  <2>4. FormHonest'
    BY <2>1, <2>2 DEF FormHonest, Waiting
  <2> QED
    BY <2>3, <2>4
<1>3. CASE UNCHANGED formVars /\ ("form" \in open => "form" \in after)
  <2>1. UNCHANGED <<account, status, asks, passed, edited>>
    BY <1>3 DEF formVars
  <2>2. AccountTypeOK' /\ ManagerAwaited'
    BY <1>1, <2>1 DEF AccountTypeOK, ManagerAwaited
  <2>3. FormHonest'
    BY <1>3, <2>1 DEF FormHonest, Waiting
  <2> QED
    BY <2>2, <2>3
<1> QED
  BY <1>2, <1>3

-----------------------------------------------------------------------------
(* All windows together.                                                     *)

Inv == ModalTypeOK /\ LockInv /\ TokenInv /\ AccountInv

\* The initial state satisfies Inv.
LEMMA InitInv == Init => Inv
<1> SUFFICES ASSUME Init PROVE Inv
  OBVIOUS
<1>1. ModalTypeOK /\ LockInv
  <2>1. open = {} /\ ~locked /\ locked \in BOOLEAN /\ clicks = 0 /\ stacked \in BOOLEAN
    BY DEF Init, ModalInit
  <2>2. previous \in [Windows -> BOOLEAN]
    BY DEF Init, ModalInit
  <2>3. 0 \in 0 .. MaxClicks
    BY ClicksAssumption
  <2> QED
    BY <2>1, <2>2, <2>3 DEF ModalTypeOK, LockInv
<1>2. TokenInv
  <2>1. /\ drawn \in 0 .. MaxTokens /\ live = 1 .. drawn /\ 0 \in 0 .. drawn /\ calls = {} /\ 0 \in 0 .. MaxLost
        /\ revokingID = 0 /\ confirmRevokeID = 0 /\ issued = 0 /\ failed = 0 /\ ~loading /\ ~creating
    BY TokensAssumption DEF Init, TokenInit
  <2>2. loading \in BOOLEAN /\ creating \in BOOLEAN /\ doubt \in BOOLEAN
    BY DEF Init, TokenInit
  <2>3. listed \in [Ids -> 0 .. 2] /\ \A i \in Ids : listed[i] = 0
    BY DEF Init, TokenInit
  <2>4. TokenTypeOK
    BY <2>1, <2>2, <2>3 DEF TokenTypeOK
  <2>5. TokensAwaited /\ CallInv /\ ListedInv
    BY <2>1, <2>3 DEF TokensAwaited, Calling, CallInv, ListedInv
  <2> QED
    BY <2>4, <2>5 DEF TokenInv
<1>3. AccountInv
  <2>1. /\ account = Blank /\ status = "idle" /\ asks = {} /\ passed = {}
        /\ made \in 0 .. MaxAccounts /\ accounts = 1 .. made /\ 0 \in 0 .. made
        /\ busyID = 0 /\ confirmDeleteID = 0 /\ jobs = {}
    BY AccountsAssumption DEF Init, AccountInit
  <2>2. edited \in BOOLEAN
    BY DEF Init, AccountInit
  <2> QED
    BY <2>1, <2>2 DEF AccountInv, AccountTypeOK, ManagerAwaited, FormHonest, Waiting
<1> QED
  BY <1>1, <1>2, <1>3 DEF Inv

\* Clicks are counted up to the bound.
LEMMA Clicks ==
    ASSUME ModalTypeOK, Click \/ clicks' = clicks
    PROVE  clicks \in 0 .. MaxClicks /\ clicks' \in 0 .. MaxClicks
  BY ClicksAssumption DEF ModalTypeOK, Click

\* Opening and closing windows keeps the invariant.
LEMMA SetOpenInv ==
    ASSUME Inv, NEW after \in SUBSET Windows, SetOpen(after), Click, UNCHANGED <<accounts, made>>,
           \/ FormCloses
           \/ UNCHANGED formVars /\ ("form" \in open => "form" \in after)
    PROVE  Inv'
<1>1. clicks' \in 0 .. MaxClicks
  BY Clicks DEF Inv
<1>2. ModalTypeOK' /\ LockInv'
  BY <1>1, RenderLock DEF Inv, SetOpen, ModalTypeOK
<1>3. TokenInv'
  BY <1>1, EffectInv DEF Inv, SetOpen
<1>4. AccountInv'
  <2>1. open' = after /\ ManagerEffect(after)
    BY DEF SetOpen, Render
  <2> QED
    BY <2>1, AccountEffectInv DEF Inv
<1> QED
  BY <1>2, <1>3, <1>4 DEF Inv

\* Every step keeps the invariant.
LEMMA StepInv == Inv /\ [Next]_vars => Inv'
<1> SUFFICES ASSUME Inv, [Next]_vars PROVE Inv'
  OBVIOUS
<1>1. open \subseteq Windows /\ "form" \in Windows /\ "manager" \in Windows /\ "tokens" \in Windows
  BY DEF Inv, ModalTypeOK, Windows
<1>2. ASSUME NEW after \in {AddAccount, ManageAccounts, ManageTokens}, OpenWindow(after) PROVE Inv'
  <2>1. after \in SUBSET Windows /\ ("form" \in open => "form" \in after)
    BY <1>1 DEF AddAccount, ManageAccounts, ManageTokens
  <2> QED
    BY <1>2, <2>1, SetOpenInv DEF OpenWindow
<1>3. ASSUME NEW w \in Windows, CloseWindow(w) PROVE Inv'
  <2>1. open \ {w} \in SUBSET Windows
    BY <1>1
  <2>2. FormCloses \/ (UNCHANGED formVars /\ ("form" \in open => "form" \in open \ {w}))
    BY <1>3 DEF CloseWindow
  <2> QED
    BY <1>3, <2>1, <2>2, SetOpenInv DEF CloseWindow
<1>4. CASE Escape
  <2> DEFINE after == open \cap (IF Waiting THEN {"form"} ELSE {})
  <2>1. after \in SUBSET Windows /\ SetOpen(after) /\ Click /\ UNCHANGED <<accounts, made>>
    BY <1>1, <1>4 DEF Escape
  <2>2. FormCloses \/ (UNCHANGED formVars /\ ("form" \in open => "form" \in after))
    BY <1>4 DEF Escape
  <2> HIDE DEF after
  <2> QED
    BY <2>1, <2>2, SetOpenInv
<1>5. CASE AccountCreated
  <2>1. /\ open \ {"form"} \in SUBSET Windows /\ Render(open \ {"form"}) /\ UNCHANGED <<clicks, tokenVars>>
        /\ \E a \in asks : CreateSucceeds(a)
    BY <1>1, <1>5 DEF AccountCreated
  <2>2. ModalTypeOK' /\ LockInv'
    BY <2>1, RenderLock DEF Inv, ModalTypeOK
  <2>3. TokenInv'
    BY <2>1 DEF Inv, tokenVars, TokenInv, TokenTypeOK, TokensAwaited, Calling, CallInv, ListedInv
  <2>4. PICK a \in asks : CreateSucceeds(a)
    BY <2>1
  <2>5. /\ asks' = asks \ {a} /\ account' = Blank /\ status' = "idle" /\ made' = made + 1 /\ made < MaxAccounts
        /\ accounts' = accounts \cup {made'} /\ UNCHANGED <<passed, edited, busyID, confirmDeleteID, jobs>>
    BY <2>4 DEF CreateSucceeds, managerVars
  <2>6. made' \in 0 .. MaxAccounts /\ 1 .. made \subseteq 1 .. made' /\ 0 .. made \subseteq 0 .. made' /\ made' \in 1 .. made'
    BY <2>5, AccountsAssumption DEF Inv, AccountInv, AccountTypeOK
  <2>7. AccountTypeOK' /\ ManagerAwaited'
    BY <2>5, <2>6 DEF Inv, AccountInv, AccountTypeOK, ManagerAwaited
  <2>8. FormHonest'
    BY <2>5 DEF Inv, AccountInv, FormHonest, Waiting
  <2> QED
    BY <2>2, <2>3, <2>7, <2>8 DEF Inv, AccountInv
<1>6. CASE AppRenders
  <2>1. open \in SUBSET Windows /\ Render(open) /\ UNCHANGED <<clicks, tokenVars, accountVars>> /\ open' = open
    BY <1>1, <1>6 DEF AppRenders, Render
  <2>2. ModalTypeOK' /\ LockInv'
    BY <2>1, RenderLock DEF Inv, ModalTypeOK
  <2>3. TokenInv'
    BY <2>1 DEF Inv, tokenVars, TokenInv, TokenTypeOK, TokensAwaited, Calling, CallInv, ListedInv
  <2>4. AccountInv'
    BY <2>1 DEF Inv, accountVars, formVars, managerVars, AccountInv, AccountTypeOK, ManagerAwaited, FormHonest, Waiting
  <2> QED
    BY <2>2, <2>3, <2>4 DEF Inv
<1>7. CASE /\ \/ TokenStep /\ UNCHANGED modalVars
              \/ TokenClick /\ UNCHANGED <<open, locked, previous, stacked>>
           /\ UNCHANGED accountVars
  <2>1. UNCHANGED <<open, locked, previous, stacked>> /\ clicks \in 0 .. MaxClicks /\ clicks' \in 0 .. MaxClicks
    <3>1. UNCHANGED <<open, locked, previous, stacked>> /\ (Click \/ clicks' = clicks)
      BY <1>7 DEF modalVars, TokenClick, Create, AskRevoke, Revoke
    <3> QED
      BY <3>1, Clicks DEF Inv
  <2>2. ModalTypeOK' /\ LockInv'
    BY <2>1 DEF Inv, ModalTypeOK, LockInv
  <2>3. TokenInv'
    BY <1>7, <2>1, CreateInv, AskRevokeInv, RevokeInv, TokenServeInv, TokenArriveInv
    DEF Inv, TokenStep, TokenClick
  <2>4. AccountInv'
    BY <1>7, <2>1 DEF Inv, accountVars, formVars, managerVars, AccountInv, AccountTypeOK, ManagerAwaited, FormHonest, Waiting
  <2> QED
    BY <2>2, <2>3, <2>4 DEF Inv
<1>8. CASE /\ \/ AccountStep /\ UNCHANGED modalVars
              \/ AccountClick /\ UNCHANGED <<open, locked, previous, stacked>>
           /\ UNCHANGED tokenVars
  <2>1. UNCHANGED <<open, locked, previous, stacked>> /\ clicks \in 0 .. MaxClicks /\ clicks' \in 0 .. MaxClicks
    <3>1. UNCHANGED <<open, locked, previous, stacked>> /\ (Click \/ clicks' = clicks)
      BY <1>8 DEF modalVars, AccountClick, HandleTest, HandleSubmit, Ask, SetField, CancelDelete, AskDelete, Run
    <3> QED
      BY <3>1, Clicks DEF Inv
  <2>2. ModalTypeOK' /\ LockInv'
    BY <2>1 DEF Inv, ModalTypeOK, LockInv
  <2>3. TokenInv'
    BY <1>8 DEF Inv, tokenVars, TokenInv, TokenTypeOK, TokensAwaited, Calling, CallInv, ListedInv
  <2>4. AccountInv'
    BY <1>8, <2>1, AccountStepInv DEF Inv
  <2> QED
    BY <2>2, <2>3, <2>4 DEF Inv
<1>9. CASE UNCHANGED vars
  BY <1>9
  DEF Inv, vars, modalVars, tokenVars, accountVars, formVars, managerVars, ModalTypeOK, LockInv, TokenInv, TokenTypeOK,
      TokensAwaited, Calling, CallInv, ListedInv, AccountInv, AccountTypeOK, ManagerAwaited, FormHonest, Waiting
<1> QED
  BY <1>2, <1>3, <1>4, <1>5, <1>6, <1>7, <1>8, <1>9 DEF Next

LEMMA Invariance == Spec => []Inv
<1>1. Init => Inv
  BY InitInv
<1>2. Inv /\ [Next]_vars => Inv'
  BY StepInv
<1> QED
  BY <1>1, <1>2, PTL DEF Spec

\* Every variable keeps its type.
THEOREM TypeCorrect == Spec => []TypeOK
<1>1. Inv => TypeOK
  BY DEF Inv, TokenInv, AccountInv, TypeOK
<1> QED
  BY <1>1, Invariance, PTL

\* No spinner, disabled button or row waits for an answer that cannot come
\* (APITokenManager.tsx, AccountManager.tsx: finally).
THEOREM WindowsAwaited == Spec => []Awaited
<1>1. Inv => Awaited
  BY DEF Inv, TokenInv, AccountInv, Awaited
<1> QED
  BY <1>1, Invariance, PTL

\* The form forgets what was typed, and says of no other values than those it
\* asked about that they work, unless they were changed under the request
\* (AccountDialog.tsx: setField, handleClose).
THEOREM FormTrue == Spec => []FormHonest
<1>1. Inv => FormHonest
  BY DEF Inv, AccountInv
<1> QED
  BY <1>1, Invariance, PTL

\* The page is locked exactly while a window is open, unless two of them were
\* stacked (Modal.tsx).
THEOREM Unlocked == Spec => []ScrollFree
<1>1. Inv => ScrollFree
  BY DEF Inv, LockInv, ScrollFree
<1> QED
  BY <1>1, Invariance, PTL

\* The value of a new token stays until it is closed, revoked or replaced, or an
\* older revocation is answered (APITokenManager.tsx: revoke).
THEOREM ValueKept == Spec => IssuedKept
<1> DEFINE Kept ==
             issued # 0 /\ issued' = 0 =>
                 \/ "tokens" \notin open'
                 \/ issued \notin live
                 \/ \E c \in calls \ calls' : c.kind = "revoke" /\ c.seen # issued
<1>1. Inv /\ [Next]_vars => [Kept]_<<tokenVars, modalVars>>
  <2> SUFFICES ASSUME Inv, [Next]_vars, issued # 0, issued' = 0 PROVE Kept
    OBVIOUS
  <2> USE DEF Inv, TokenInv
  <2>1. CASE \E after : SetOpen(after)
    <3>1. PICK after : SetOpen(after)
      BY <2>1
    <3>2. open' = after /\ TokenEffect(after)
      BY <3>1 DEF SetOpen, Render
    <3>3. "tokens" \in open \ after
      BY <3>2 DEF TokenEffect, tokenVars
    <3> QED
      BY <3>2, <3>3
  <2>2. ASSUME NEW c \in calls, CreateArrives(c) PROVE Kept
    <3>1. issued' = c.id /\ c.id \in 1 .. drawn
      BY <2>2 DEF CreateArrives, CallInv
    <3> QED
      BY <3>1
  <2>3. ASSUME NEW c \in calls, RevokeArrives(c) PROVE Kept
    <3>1. /\ c.kind = "revoke" /\ c.step = "ok" /\ calls' = calls \ {c}
          /\ issued' = IF c.seen = c.id THEN 0 ELSE issued
      BY <2>3 DEF RevokeArrives, Taken
    <3>2. c.id \notin live /\ c.seen = c.id
      BY <3>1 DEF CallInv
    <3> QED
      BY <3>1, <3>2
  <2>4. CASE issued' = issued
    BY <2>4
  <2>5. TokenClick => issued' = issued
    BY DEF TokenClick, Create, AskRevoke, Revoke
  <2>6. TokenStep => issued' = issued \/ \E c \in calls : CreateArrives(c) \/ RevokeArrives(c)
    BY DEF TokenStep, TokenServe, ListArrives, RevokeRefused, TokenLost
  <2>7. UNCHANGED tokenVars => issued' = issued
    BY DEF tokenVars
  <2> QED
    BY <2>1, <2>2, <2>3, <2>4, <2>5, <2>6, <2>7
    DEF Next, OpenWindow, CloseWindow, Escape, AccountCreated, AppRenders, vars
<1> QED
  BY <1>1, Invariance, PTL DEF Spec, IssuedKept
=============================================================================
