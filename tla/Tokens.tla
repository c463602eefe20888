------------------------------- MODULE Tokens -------------------------------
(***************************************************************************)
(* The window of API tokens (APITokenManager.tsx): its state, its requests *)
(* and what the server does with them.  A refused form, an error text and  *)
(* the tick of "copied" are left out.  Token 0 is null.                    *)
(***************************************************************************)
EXTENDS Modals

CONSTANTS
    MaxTokens,  \* bound: tokens ever created
    MaxLost     \* bound: token requests that fail for want of a network or server

ASSUME TokensAssumption == MaxTokens \in Nat /\ MaxLost \in Nat

VARIABLES
    live, drawn,              \* the server: tokens that are not revoked, ids drawn
    listed,                   \* tokens: how often each is in the list
    loading, creating,
    revokingID, confirmRevokeID,
    issued,                   \* the token whose full value is shown
    calls,                    \* requests in flight
    failed,                   \* requests that failed
    doubt                     \* history: since the window was opened, with no value shown,
                              \* a request failed or the list was asked for while
                              \* another was under way

tokenVars ==
    <<live, drawn, listed, loading, creating, revokingID, confirmRevokeID, issued,
      calls, failed, doubt>>

Ids == 1 .. MaxTokens

\* A request; "seen" is the token that the closure of revoke knows as issued.
Call(kind, id) ==
    [kind |-> kind, id |-> id, seen |-> issued, at |-> clicks', step |-> "sent", got |-> {}]

Calling(kind) == {c \in calls : c.kind = kind}

TokenInit ==
    /\ drawn \in 0 .. MaxTokens /\ live = 1 .. drawn
    /\ listed = [i \in Ids |-> 0]
    /\ loading = FALSE /\ creating = FALSE /\ revokingID = 0 /\ confirmRevokeID = 0
    /\ issued = 0 /\ calls = {} /\ failed = 0 /\ doubt = FALSE

\* The effect on [open].  Closing forgets the value; opening asks for the list
\* (and forgets nothing: a token created meanwhile is shown).
TokenEffect(after) ==
    CASE "tokens" \in open \ after ->
           /\ issued' = 0 /\ confirmRevokeID' = 0
           /\ UNCHANGED <<live, drawn, listed, loading, creating, revokingID, calls, failed, doubt>>
      [] "tokens" \in after \ open ->
           /\ loading' = TRUE /\ calls' = calls \cup {Call("list", 0)}
           /\ doubt' = (calls # {} \/ (doubt /\ issued # 0))
           /\ UNCHANGED <<live, drawn, listed, creating, revokingID, confirmRevokeID, issued, failed>>
      [] OTHER -> UNCHANGED tokenVars

-----------------------------------------------------------------------------
(* The user. *)

\* The rows of the list, each with its button: none under the spinner.
Rows == IF "tokens" \in open /\ ~loading THEN {i \in Ids : listed[i] > 0} ELSE {}

\* create, with a valid form: the button is disabled while creating.
Create ==
    /\ "tokens" \in open /\ ~creating /\ Click
    /\ creating' = TRUE /\ calls' = calls \cup {Call("create", 0)}
    /\ doubt' = (doubt \/ Calling("list") # {})
    /\ UNCHANGED <<live, drawn, listed, loading, revokingID, confirmRevokeID, issued, failed>>

\* The trash can of a row, and the button that takes it back.
AskRevoke(i) ==
    /\ i \in Rows \cup {0} /\ confirmRevokeID # i /\ Click
    /\ i = 0 => confirmRevokeID \in Rows
    /\ confirmRevokeID' = i
    /\ UNCHANGED <<live, drawn, listed, loading, creating, revokingID, issued, calls, failed, doubt>>

\* revoke: the button is disabled only while the latest of them is this one.
Revoke(i) ==
    /\ i \in Rows /\ confirmRevokeID = i /\ revokingID # i /\ Click
    /\ revokingID' = i /\ calls' = calls \cup {Call("revoke", i)}
    /\ doubt' = (doubt \/ Calling("list") # {})
    /\ UNCHANGED <<live, drawn, listed, loading, creating, confirmRevokeID, issued, failed>>

-----------------------------------------------------------------------------
(* The server. *)

Replace(c, d) == calls' = (calls \ {c}) \cup {d}

ServeList(c) ==
    /\ c.kind = "list" /\ c.step = "sent"
    /\ Replace(c, [c EXCEPT !.step = "ok", !.got = live])
    /\ UNCHANGED <<live, drawn>>

\* Mutant of ServeCreate: an id is drawn twice.
ServeCreateAgain(c) ==
    /\ c.kind = "create" /\ c.step = "sent" /\ drawn < MaxTokens
    /\ live' = live \cup {drawn + 1} /\ UNCHANGED drawn
    /\ Replace(c, [c EXCEPT !.step = "ok", !.id = drawn + 1])

ServeCreate(c) ==
    /\ c.kind = "create" /\ c.step = "sent" /\ drawn < MaxTokens
    /\ drawn' = drawn + 1 /\ live' = live \cup {drawn'}
    /\ Replace(c, [c EXCEPT !.step = "ok", !.id = drawn'])

\* 404 for one that is revoked already
ServeRevoke(c) ==
    /\ c.kind = "revoke" /\ c.step = "sent"
    /\ live' = live \ {c.id}
    /\ Replace(c, [c EXCEPT !.step = IF c.id \in live THEN "ok" ELSE "refused"])
    /\ UNCHANGED drawn

TokenServe(c) ==
    /\ ServeList(c) \/ ServeCreate(c) \/ ServeRevoke(c)
    /\ UNCHANGED <<listed, loading, creating, revokingID, confirmRevokeID, issued, failed, doubt>>

-----------------------------------------------------------------------------
(* Answers. *)

Taken(c) == calls' = calls \ {c} /\ UNCHANGED <<live, drawn, failed, doubt>>

\* Whichever list comes last is shown, whenever it was asked for.
ListArrives(c) ==
    /\ c.kind = "list" /\ c.step = "ok" /\ Taken(c)
    /\ listed' = [i \in Ids |-> IF i \in c.got THEN 1 ELSE 0]
    /\ loading' = FALSE
    /\ UNCHANGED <<creating, revokingID, confirmRevokeID, issued>>

\* Mutant of CreateArrives: the new token is not added to the list.
CreateArrivesUnlisted(c) ==
    /\ c.kind = "create" /\ c.step = "ok" /\ Taken(c)
    /\ issued' = c.id /\ creating' = FALSE
    /\ UNCHANGED <<listed, loading, revokingID, confirmRevokeID>>

\* The token is shown, also in a window that was closed meanwhile.
CreateArrives(c) ==
    /\ c.kind = "create" /\ c.step = "ok" /\ Taken(c)
    /\ issued' = c.id /\ listed' = [listed EXCEPT ![c.id] = @ + 1]
    /\ creating' = FALSE
    /\ UNCHANGED <<loading, revokingID, confirmRevokeID>>

\* Mutant of RevokeArrives: whatever token is shown is forgotten.
RevokeArrivesClears(c) ==
    /\ c.kind = "revoke" /\ c.step = "ok" /\ Taken(c)
    /\ listed' = [listed EXCEPT ![c.id] = 0]
    /\ issued' = 0
    /\ confirmRevokeID' = 0 /\ revokingID' = 0
    /\ UNCHANGED <<loading, creating>>

\* setIssued(null) if the token that was shown at the click is the revoked one.
RevokeArrives(c) ==
    /\ c.kind = "revoke" /\ c.step = "ok" /\ Taken(c)
    /\ listed' = [listed EXCEPT ![c.id] = 0]
    /\ issued' = (IF c.seen = c.id THEN 0 ELSE issued)
    /\ confirmRevokeID' = 0 /\ revokingID' = 0
    /\ UNCHANGED <<loading, creating>>

\* finally, of the request that came to an end
Settle(c) ==
    /\ loading' = (loading /\ c.kind # "list")
    /\ creating' = (creating /\ c.kind # "create")
    /\ revokingID' = IF c.kind = "revoke" THEN 0 ELSE revokingID

RevokeRefused(c) ==
    /\ c.kind = "revoke" /\ c.step = "refused" /\ Taken(c) /\ Settle(c)
    /\ UNCHANGED <<listed, confirmRevokeID, issued>>

\* Mutant of TokenLost: a failed creation leaves its button disabled.
TokenLostBusy(c) ==
    /\ failed < MaxLost /\ failed' = failed + 1 /\ doubt' = TRUE
    /\ calls' = calls \ {c}
    /\ loading' = (loading /\ c.kind # "list")
    /\ revokingID' = (IF c.kind = "revoke" THEN 0 ELSE revokingID)
    /\ UNCHANGED <<live, drawn, listed, creating, confirmRevokeID, issued>>

\* The request or its answer is lost, before or after the server has acted.
TokenLost(c) ==
    /\ failed < MaxLost /\ failed' = failed + 1 /\ doubt' = TRUE
    /\ calls' = calls \ {c} /\ Settle(c)
    /\ UNCHANGED <<live, drawn, listed, confirmRevokeID, issued>>

TokenStep ==
    \E c \in calls :
        \/ TokenServe(c) \/ TokenLost(c)
        \/ ListArrives(c) \/ CreateArrives(c) \/ RevokeArrives(c) \/ RevokeRefused(c)

TokenClick ==
    \/ Create
    \/ \E i \in Ids \cup {0} : AskRevoke(i) \/ Revoke(i)

-----------------------------------------------------------------------------
(* Properties. *)

TokenTypeOK ==
    /\ drawn \in 0 .. MaxTokens /\ live \subseteq 1 .. drawn
    /\ listed \in [Ids -> 0 .. 2]
    /\ loading \in BOOLEAN /\ creating \in BOOLEAN
    /\ revokingID \in Ids \cup {0} /\ confirmRevokeID \in Ids \cup {0} /\ issued \in Ids \cup {0}
    /\ failed \in 0 .. MaxLost /\ doubt \in BOOLEAN
    /\ calls \subseteq
          [kind : {"list", "create", "revoke"}, id : 0 .. drawn, seen : 0 .. drawn,
           at : 0 .. MaxClicks, step : {"sent", "ok", "refused"}, got : SUBSET (1 .. drawn)]

\* What the window waits for is under way, in any order of answers and across
\* closing and opening it: the spinner has a list to come, the disabled button
\* exactly one creation, and the token being revoked a revocation of it.
TokensAwaited ==
    /\ loading => Calling("list") # {}
    /\ creating => \E c \in calls : Calling("create") = {c}
    /\ ~creating => Calling("create") = {}
    /\ revokingID # 0 => \E c \in Calling("revoke") : c.id = revokingID

\* When nothing is under way, the open window lists exactly the tokens that the
\* server accepts, each once, and shows the value of no other.  It may not when
\* the list was asked for while a creation or revocation was under way (its
\* answer overwrites theirs, or they count what it brought again), or when a
\* request failed.
ListTrue ==
    "tokens" \in open /\ calls = {} /\ ~doubt =>
        /\ \A i \in Ids : listed[i] = (IF i \in live THEN 1 ELSE 0)
        /\ issued \in live \cup {0}

\* The value of a new token, which cannot be shown a second time, stays on the
\* screen until the window is closed, the token is revoked or another one is
\* created.  The exception is real: a revocation confirmed while an older
\* token was shown, and answered after the new one appeared, takes it away.
IssuedKept ==
    [][issued # 0 /\ issued' = 0 =>
           \/ "tokens" \notin open'
           \/ issued \notin live
           \/ \E c \in calls \ calls' : c.kind = "revoke" /\ c.seen # issued]_<<tokenVars, modalVars>>
=============================================================================
