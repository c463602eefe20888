---------------------------- MODULE TokensProofs ----------------------------
(***************************************************************************)
(* The list of tokens tells what the server accepts: the proof of ListTrue *)
(* of Tokens, in the composition of Windows.                               *)
(***************************************************************************)
EXTENDS WindowsProofs

Listing == \E c \in calls : c.kind = "list"

\* The answer to the creation, or to a revocation, of token i is on its way.
NewComes(i) == \E c \in calls : c.kind = "create" /\ c.step = "ok" /\ c.id = i
EndComes(i) == \E c \in calls : c.kind = "revoke" /\ c.step = "ok" /\ c.id = i

\* While the list is asked for, nothing else is, so its answer is true.
ListAlone ==
    \A c \in calls : c.kind = "list" => calls = {c} /\ (c.step = "ok" => c.got = live)

\* Nobody has revoked a token that the window does not know yet.
NewIsLive ==
    \A c, d \in calls :
        c.kind = "create" /\ c.step = "ok" =>
            c.id \in live /\ (d.kind = "revoke" => d.id # c.id)

\* The value shown is of a live token, or the answer that takes it away is on its
\* way: whoever revokes the token that is shown knew it as the one shown.
ValueTrue ==
    /\ issued \in live \cup {0} \/ EndComes(issued)
    /\ \A c \in calls : c.kind = "revoke" /\ c.id = issued => c.seen = issued

\* The list differs from the live tokens by what answers on their way will change.
ListFollows ==
    "tokens" \in open /\ ~Listing =>
        \A i \in Ids :
            /\ i \in live => listed[i] = (IF NewComes(i) THEN 0 ELSE 1)
            /\ i \notin live => listed[i] \in {0, 1} /\ (listed[i] = 1 => EndComes(i))

Truth == ~doubt => ListAlone /\ NewIsLive /\ ValueTrue /\ ListFollows

\* A creation or a revocation is sent.
LEMMA SentTruth ==
    ASSUME TokenInv, Truth, ~doubt, ~Listing, NEW c, calls' = calls \cup {c},
           c.kind \in {"create", "revoke"}, c.step = "sent",
           c.kind = "revoke" => ~NewComes(c.id) /\ c.seen = issued,
           UNCHANGED <<open, live, listed, issued>>
    PROVE  Truth'
<1>1. \A i : (NewComes(i)' <=> NewComes(i)) /\ (EndComes(i)' <=> EndComes(i))
  BY DEF NewComes, EndComes
<1>2. ListAlone' /\ ~Listing'
  BY DEF ListAlone, Listing
<1>3. NewIsLive'
  BY DEF Truth, NewIsLive, NewComes
<1>4. ValueTrue'
  BY <1>1 DEF Truth, ValueTrue
<1>5. ListFollows'
  BY <1>1, <1>2 DEF Truth, ListFollows
<1> QED
  BY <1>2, <1>3, <1>4, <1>5 DEF Truth

\* A click in the window of tokens.
LEMMA ClickTruth ==
    ASSUME TokenInv, Truth, TokenClick, UNCHANGED open
    PROVE  Truth'
<1> SUFFICES ASSUME ~doubt' PROVE Truth'
  BY DEF Truth
<1>1. CASE Create
  <2> DEFINE c == Call("create", 0)
  <2>1. c.kind = "create" /\ c.step = "sent"
    BY DEF Call
  <2>2. /\ calls' = calls \cup {c} /\ UNCHANGED <<open, live, listed, issued>>
        /\ doubt' = (doubt \/ Calling("list") # {})
    BY <1>1 DEF Create
  <2> HIDE DEF c
  <2>3. ~doubt /\ ~Listing
    BY <2>2 DEF Listing, Calling
  <2> QED
    BY <2>1, <2>2, <2>3, SentTruth
<1>2. ASSUME NEW i \in Ids \cup {0}, Revoke(i) PROVE Truth'
  <2> DEFINE c == Call("revoke", i)
  <2>1. c.kind = "revoke" /\ c.step = "sent" /\ c.id = i /\ c.seen = issued
    BY DEF Call
  <2>2. /\ calls' = calls \cup {c} /\ UNCHANGED <<open, live, listed, issued>>
        /\ doubt' = (doubt \/ Calling("list") # {}) /\ i \in Rows
    BY <1>2 DEF Revoke
  <2> HIDE DEF c
  <2>3. ~doubt /\ ~Listing
    BY <2>2 DEF Listing, Calling
  <2>4. "tokens" \in open /\ i \in Ids /\ listed[i] > 0
    BY <2>2 DEF Rows
  <2>5. ~NewComes(i)
    BY <2>3, <2>4 DEF Truth, ListFollows, NewIsLive, NewComes
  <2> QED
    BY <2>1, <2>2, <2>3, <2>5, SentTruth
<1>3. ASSUME NEW i \in Ids \cup {0}, AskRevoke(i) PROVE Truth'
  BY <1>3 DEF AskRevoke, Truth, ListAlone, NewIsLive, ValueTrue, ListFollows, NewComes, EndComes, Listing
<1> QED
  BY <1>1, <1>2, <1>3 DEF TokenClick

\* Windows open and close.
LEMMA EffectTruth ==
    ASSUME TokenInv, Truth, NEW after, TokenEffect(after), open' = after
    PROVE  Truth'
<1> SUFFICES ASSUME ~doubt' PROVE Truth'
  BY DEF Truth
<1>1. CASE "tokens" \in open \ after
  <2>1. issued' = 0 /\ "tokens" \notin open' /\ UNCHANGED <<live, drawn, listed, calls, doubt>>
    BY <1>1 DEF TokenEffect
  <2>2. \A c \in calls : c.kind = "revoke" => c.id # 0
    BY DEF TokenInv, CallInv, TokenTypeOK
  <2>3. ValueTrue'
    BY <2>1, <2>2 DEF ValueTrue
  <2> QED
    BY <2>1, <2>3 DEF Truth, ListAlone, NewIsLive, ListFollows
<1>2. CASE "tokens" \in after \ open
  <2> DEFINE c == Call("list", 0)
  <2>1. c.kind = "list" /\ c.step = "sent"
    BY DEF Call
  <2>2. /\ calls' = calls \cup {c} /\ UNCHANGED <<live, listed, issued>>
        /\ doubt' = (calls # {} \/ (doubt /\ issued # 0))
    BY <1>2 DEF TokenEffect
  <2> HIDE DEF c
  <2>3. calls = {} /\ calls' = {c} /\ (doubt => issued = 0)
    BY <2>2
  <2>4. issued \in live \cup {0}
    BY <2>3 DEF Truth, ValueTrue, EndComes
  <2>5. ListAlone' /\ NewIsLive' /\ Listing'
    BY <2>1, <2>3 DEF ListAlone, NewIsLive, Listing
  <2>6. ValueTrue'
    BY <2>1, <2>2, <2>3, <2>4 DEF ValueTrue
  <2> QED
    BY <2>5, <2>6 DEF Truth, ListFollows
<1>3. CASE UNCHANGED tokenVars /\ ("tokens" \in open' <=> "tokens" \in open)
  BY <1>3 DEF tokenVars, Truth, ListAlone, NewIsLive, ValueTrue, ListFollows, NewComes, EndComes, Listing
<1> QED
  BY <1>1, <1>2, <1>3 DEF TokenEffect

\* The server acts on a request.
LEMMA ServeTruth ==
    ASSUME TokenInv, Truth, NEW c \in calls, TokenServe(c), UNCHANGED open
    PROVE  Truth'
<1> SUFFICES ASSUME ~doubt' PROVE Truth'
  BY DEF Truth
<1>1. ~doubt /\ UNCHANGED <<open, listed, issued>> /\ c \in Calls
  BY DEF TokenServe, TokenInv, TokenTypeOK, Calls
<1>2. CASE ServeList(c)
  <2> DEFINE d == [c EXCEPT !.step = "ok", !.got = live]
  <2>1. calls' = (calls \ {c}) \cup {d} /\ UNCHANGED live /\ c.kind = "list"
    BY <1>2 DEF ServeList, Replace
  <2>2. d.kind = "list" /\ d.got = live
    BY <1>1, <2>1 DEF Calls
  <2> HIDE DEF d
  <2>3. calls = {c} /\ calls' = {d}
    BY <1>1, <2>1 DEF Truth, ListAlone
  <2>4. issued \in live \cup {0}
    BY <1>1, <2>1, <2>3 DEF Truth, ValueTrue, EndComes
  <2>5. ListAlone' /\ NewIsLive' /\ Listing'
    BY <2>1, <2>2, <2>3 DEF ListAlone, NewIsLive, Listing
  <2>6. ValueTrue'
    BY <1>1, <2>1, <2>2, <2>3, <2>4 DEF ValueTrue
  <2> QED
    BY <2>5, <2>6 DEF Truth, ListFollows
<1>3. CASE ServeCreate(c)
  <2> PICK n : n = drawn'
    OBVIOUS
  <2> DEFINE d == [c EXCEPT !.step = "ok", !.id = n]
  <2>1. /\ calls' = (calls \ {c}) \cup {d} /\ c.kind = "create" /\ c.step = "sent"
        /\ n = drawn + 1 /\ drawn < MaxTokens /\ live' = live \cup {n}
    BY <1>3 DEF ServeCreate, Replace
  <2>2. d.kind = "create" /\ d.step = "ok" /\ d.id = n
    BY <1>1, <2>1 DEF Calls
  <2> HIDE DEF d
  <2>3. drawn \in Nat /\ n \in Ids /\ live \subseteq 1 .. drawn /\ n \notin live
    BY <2>1, TokensAssumption DEF TokenInv, TokenTypeOK, Ids
  <2>4. \A b \in calls : b.kind = "revoke" => b.id # n
    BY <2>1, <2>3 DEF TokenInv, CallInv
  <2>5. listed[n] = 0
    BY <2>1, <2>3 DEF TokenInv, ListedInv
  <2>6. ~Listing /\ ~Listing' /\ ListAlone'
    BY <1>1, <2>1, <2>2 DEF Truth, ListAlone, Listing
  <2>7. /\ NewComes(n)' /\ \A i : i # n => (NewComes(i)' <=> NewComes(i))
        /\ \A i : EndComes(i)' <=> EndComes(i)
    BY <2>1, <2>2 DEF NewComes, EndComes
  <2>8. NewIsLive'
    BY <1>1, <2>1, <2>2, <2>4 DEF Truth, NewIsLive
  <2>9. ValueTrue'
    BY <1>1, <2>1, <2>2, <2>7 DEF Truth, ValueTrue
  <2>10. ListFollows'
    BY <1>1, <2>1, <2>3, <2>5, <2>6, <2>7 DEF Truth, ListFollows
  <2> QED
    BY <2>6, <2>8, <2>9, <2>10 DEF Truth
<1>4. CASE ServeRevoke(c)
  <2> DEFINE d == [c EXCEPT !.step = IF c.id \in live THEN "ok" ELSE "refused"]
  <2>1. /\ calls' = (calls \ {c}) \cup {d} /\ c.kind = "revoke" /\ c.step = "sent"
        /\ live' = live \ {c.id}
    BY <1>4 DEF ServeRevoke, Replace
  <2>2. /\ d.kind = "revoke" /\ d.id = c.id /\ d.seen = c.seen
        /\ d.step = IF c.id \in live THEN "ok" ELSE "refused"
    BY <1>1, <2>1 DEF Calls
  <2> HIDE DEF d
  <2>3. ~Listing /\ ~Listing' /\ ListAlone'
    BY <1>1, <2>1, <2>2 DEF Truth, ListAlone, Listing
  <2>4. /\ \A i : NewComes(i)' <=> NewComes(i)
        /\ \A i : EndComes(i) => EndComes(i)'
        /\ c.id \in live => EndComes(c.id)'
    BY <2>1, <2>2 DEF NewComes, EndComes
  <2>5. NewIsLive'
    BY <1>1, <2>1, <2>2 DEF Truth, NewIsLive
  <2>6. ValueTrue'
    BY <1>1, <2>1, <2>2, <2>4 DEF Truth, ValueTrue
  <2>7. ListFollows'
    BY <1>1, <2>1, <2>3, <2>4 DEF Truth, ListFollows
  <2> QED
    BY <2>3, <2>5, <2>6, <2>7 DEF Truth
<1> QED
  BY <1>2, <1>3, <1>4 DEF TokenServe

\* A request is answered or lost.
LEMMA ArriveTruth ==
    ASSUME TokenInv, Truth, NEW c \in calls, UNCHANGED open,
           ListArrives(c) \/ CreateArrives(c) \/ RevokeArrives(c) \/ RevokeRefused(c) \/ TokenLost(c)
    PROVE  Truth'
<1> SUFFICES ASSUME ~doubt' PROVE Truth'
  BY DEF Truth
<1>1. ~TokenLost(c)
  BY DEF TokenLost
<1>2. calls' = calls \ {c} /\ UNCHANGED <<live, doubt>> /\ ~doubt
  BY <1>1 DEF ListArrives, CreateArrives, RevokeArrives, RevokeRefused, Taken
<1>3. ListAlone' /\ NewIsLive'
  BY <1>2 DEF Truth, ListAlone, NewIsLive
<1>4. CASE ListArrives(c)
  <2>1. /\ c.kind = "list" /\ c.step = "ok" /\ UNCHANGED issued
        /\ listed' = [i \in Ids |-> IF i \in c.got THEN 1 ELSE 0]
    BY <1>4 DEF ListArrives
  <2>2. calls = {c} /\ calls' = {} /\ c.got = live
    BY <1>2, <2>1 DEF Truth, ListAlone
  <2>3. ValueTrue'
    BY <1>2, <2>1, <2>2 DEF Truth, ValueTrue, EndComes
  <2>4. ListFollows'
    BY <1>2, <2>1, <2>2 DEF ListFollows, NewComes
  <2> QED
    BY <1>3, <2>3, <2>4 DEF Truth
<1>5. CASE CreateArrives(c)
  <2>1. /\ c.kind = "create" /\ c.step = "ok" /\ issued' = c.id
        /\ listed' = [listed EXCEPT ![c.id] = @ + 1]
    BY <1>5 DEF CreateArrives
  <2>2. \A b \in calls : b.kind = "create" => b = c
    BY <2>1 DEF TokenInv, TokensAwaited, Calling
  <2>3. /\ \A i : ~NewComes(i)' /\ (i # c.id => ~NewComes(i))
        /\ \A i : EndComes(i)' <=> EndComes(i)
        /\ NewComes(c.id)
    BY <1>2, <2>1, <2>2 DEF NewComes, EndComes
  <2>4. c.id \in live /\ \A b \in calls : b.kind = "revoke" => b.id # c.id
    BY <1>2, <2>1 DEF Truth, NewIsLive
  <2>5. ValueTrue'
    BY <1>2, <2>1, <2>4 DEF ValueTrue
  <2>6. ListFollows'
    <3> SUFFICES ASSUME "tokens" \in open', ~Listing', NEW i \in Ids
                 PROVE  /\ i \in live' => listed'[i] = (IF NewComes(i)' THEN 0 ELSE 1)
                        /\ i \notin live' => listed'[i] \in {0, 1} /\ (listed'[i] = 1 => EndComes(i)')
      BY DEF ListFollows
    <3>1. ~Listing /\ "tokens" \in open
      BY <1>2, <2>1 DEF Listing
    <3>2. /\ i \in live => listed[i] = (IF NewComes(i) THEN 0 ELSE 1)
          /\ i \notin live => listed[i] \in {0, 1} /\ (listed[i] = 1 => EndComes(i))
      BY <1>2, <3>1 DEF Truth, ListFollows
    <3>3. listed'[i] = IF i = c.id THEN listed[i] + 1 ELSE listed[i]
      BY <2>1 DEF TokenInv, TokenTypeOK
    <3> QED
      BY <1>2, <2>3, <2>4, <3>2, <3>3
  <2> QED
    BY <1>3, <2>5, <2>6 DEF Truth
<1>6. CASE RevokeArrives(c)
  <2>1. /\ c.kind = "revoke" /\ c.step = "ok" /\ issued' = (IF c.seen = c.id THEN 0 ELSE issued)
        /\ listed' = [listed EXCEPT ![c.id] = 0]
    BY <1>6 DEF RevokeArrives
  <2>2. c.id \notin live /\ \A b \in calls : b.kind = "revoke" => b.id # 0
    BY <2>1 DEF TokenInv, CallInv, TokenTypeOK
  <2>3. /\ \A i : NewComes(i)' <=> NewComes(i)
        /\ \A i : i # c.id => (EndComes(i)' <=> EndComes(i))
    BY <1>2, <2>1 DEF NewComes, EndComes
  <2>4. ValueTrue'
    <3>1. CASE c.seen = c.id
      BY <1>2, <2>1, <2>2, <3>1 DEF ValueTrue
    <3>2. CASE c.seen # c.id
      <4>1. issued' = issued /\ c.id # issued
        BY <1>2, <2>1, <3>2 DEF Truth, ValueTrue
      <4> QED
        BY <1>2, <2>3, <4>1 DEF Truth, ValueTrue
    <3> QED
      BY <3>1, <3>2
  <2>5. ListFollows'
    <3> SUFFICES ASSUME "tokens" \in open', ~Listing', NEW i \in Ids
                 PROVE  /\ i \in live' => listed'[i] = (IF NewComes(i)' THEN 0 ELSE 1)
                        /\ i \notin live' => listed'[i] \in {0, 1} /\ (listed'[i] = 1 => EndComes(i)')
      BY DEF ListFollows
    <3>1. ~Listing /\ "tokens" \in open
      BY <1>2, <2>1 DEF Listing
    <3>2. /\ i \in live => listed[i] = (IF NewComes(i) THEN 0 ELSE 1)
          /\ i \notin live => listed[i] \in {0, 1} /\ (listed[i] = 1 => EndComes(i))
      BY <1>2, <3>1 DEF Truth, ListFollows
    <3>3. listed'[i] = IF i = c.id THEN 0 ELSE listed[i]
      BY <2>1 DEF TokenInv, TokenTypeOK
    <3> QED
      BY <1>2, <2>2, <2>3, <3>2, <3>3
  <2> QED
    BY <1>3, <2>4, <2>5 DEF Truth
<1>7. CASE RevokeRefused(c)
  <2>1. c.kind = "revoke" /\ c.step = "refused" /\ UNCHANGED <<listed, issued>>
    BY <1>7 DEF RevokeRefused
  <2>2. \A i : (NewComes(i)' <=> NewComes(i)) /\ (EndComes(i)' <=> EndComes(i))
    BY <1>2, <2>1 DEF NewComes, EndComes
  <2>3. Listing' <=> Listing
    BY <1>2, <2>1 DEF Listing
  <2>4. ValueTrue'
    BY <1>2, <2>1, <2>2 DEF Truth, ValueTrue
  <2>5. ListFollows'
    BY <1>2, <2>1, <2>2, <2>3 DEF Truth, ListFollows
  <2> QED
    BY <1>3, <2>4, <2>5 DEF Truth
<1> QED
  BY <1>1, <1>4, <1>5, <1>6, <1>7

-----------------------------------------------------------------------------
\* Every step of the windows keeps Truth.
LEMMA StepTruth == Inv /\ Truth /\ [Next]_vars => Truth'
<1> SUFFICES ASSUME Inv, Truth, [Next]_vars PROVE Truth'
  OBVIOUS
<1>1. TokenInv
  BY DEF Inv
<1>2. ASSUME NEW after, SetOpen(after) PROVE Truth'
  BY <1>1, <1>2, EffectTruth DEF SetOpen, Render
<1>3. CASE TokenStep /\ UNCHANGED modalVars
  BY <1>1, <1>3, ServeTruth, ArriveTruth DEF TokenStep, modalVars
<1>4. CASE TokenClick /\ UNCHANGED open
  BY <1>1, <1>4, ClickTruth
<1>5. CASE UNCHANGED tokenVars /\ ("tokens" \in open' <=> "tokens" \in open)
  BY <1>5 DEF tokenVars, Truth, ListAlone, NewIsLive, ValueTrue, ListFollows, NewComes, EndComes, Listing
<1>6. (\E after : SetOpen(after)) \/ (TokenStep /\ UNCHANGED modalVars) \/ (TokenClick /\ UNCHANGED open)
      \/ (UNCHANGED tokenVars /\ ("tokens" \in open' <=> "tokens" \in open))
  BY DEF Next, OpenWindow, CloseWindow, Escape, AccountCreated, AppRenders, Render, vars, modalVars
<1> QED
  BY <1>2, <1>3, <1>4, <1>5, <1>6

\* When nothing is under way, the open window lists the tokens that the server
\* accepts, each once, and shows the value of no other, unless a request failed or
\* the list was asked for with another one under way (APITokenManager.tsx).
THEOREM ListsLiveTokens == Spec => []ListTrue
<1>1. Init => Truth
  BY DEF Init, ModalInit, TokenInit, Truth, ListAlone, NewIsLive, ValueTrue, ListFollows
<1>2. Truth => ListTrue
  BY DEF Truth, ValueTrue, ListFollows, ListTrue, Listing, NewComes, EndComes
<1> QED
  BY <1>1, <1>2, StepTruth, Invariance, PTL DEF Spec
=============================================================================
