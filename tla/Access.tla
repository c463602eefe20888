------------------------------- MODULE Access -------------------------------
(***************************************************************************)
(* Who may use the API: the administrator, browser sessions and API tokens *)
(* (internal/auth, store/auth.go, store/api_tokens.go) as concurrent HTTP  *)
(* handlers set up, log in, log out, issue, present and revoke them while  *)
(* time passes (httpapi/auth.go: requireSession, requireScope).            *)
(*                                                                         *)
(* A secret is a session token or an API token: 32 random bytes, drawn     *)
(* once.  A handler reads the clock first and uses the store later, when   *)
(* the one connection is free.  Scopes are the data of a token and are     *)
(* left out; so are the contents of names and passwords.                   *)
(***************************************************************************)
EXTENDS Naturals

CONSTANTS
    Handlers,      \* concurrent requests
    Credentials,   \* user names with their passwords
    Secrets,       \* random tokens
    Nobody,        \* no administrator
    NoSecret,      \* no token
    Life,          \* how long a session or an expiring API token is valid
    MaxTime        \* bound: the clock

ASSUME MarkerAssumption == Nobody \notin Credentials /\ NoSecret \notin Secrets
ASSUME TimeAssumption == Life \in Nat \ {0} /\ MaxTime \in Nat \ {0}

VARIABLES
    now,
    user,                         \* auth_user: its credentials
    rows, kind, expires, used,    \* auth_sessions and api_tokens: rows, and what they hold
    pc, at, secret, target,       \* handlers: step, clock reading, token, token to revoke
    drawn,                        \* tokens generated so far
    given, closed, stale          \* history: returned to a client, logged out or revoked,
                                  \* handlers that arrived with a token past its end

tables == <<rows, kind, expires, used>>
locals == <<at, secret, target>>
history == <<given, closed, stale>>
vars == <<now, user, tables, pc, locals, drawn, history>>

Init ==
    /\ now = 1 /\ user = Nobody
    /\ rows = {} /\ kind = [s \in Secrets |-> "none"]
    /\ expires = [s \in Secrets |-> 0] /\ used = [s \in Secrets |-> 0]
    /\ pc = [h \in Handlers |-> "idle"] /\ at = [h \in Handlers |-> 0]
    /\ secret = [h \in Handlers |-> NoSecret] /\ target = [h \in Handlers |-> NoSecret]
    /\ drawn = {} /\ given = {} /\ closed = {} /\ stale = {}

Tick ==
    /\ now < MaxTime /\ now' = now + 1
    /\ UNCHANGED <<user, tables, pc, locals, drawn, history>>

-----------------------------------------------------------------------------
(* Handlers and rows. *)

Idle(h) == pc[h] \in {"idle", "refused"}
Step(h, label) == pc' = [pc EXCEPT ![h] = label]
Clock(h) == at' = [at EXCEPT ![h] = now]
Draw(h) ==
    \E s \in Secrets \ drawn :
        secret' = [secret EXCEPT ![h] = s] /\ drawn' = drawn \cup {s}

\* The handler answers; its locals are gone.
Finish(h, outcome) ==
    /\ Step(h, outcome)
    /\ at' = [at EXCEPT ![h] = 0]
    /\ secret' = [secret EXCEPT ![h] = NoSecret] /\ target' = [target EXCEPT ![h] = NoSecret]
    /\ stale' = stale \ {h}

\* The comparison of the queries: never_expires=1 OR expires_at>now.
\* (As texts, which have the order of time for instants of different seconds.)
Unexpired(s, time) == kind[s] = "forever" \/ expires[s] > time

\* A request presents s.
Present(h, label, s, t) ==
    /\ Idle(h) /\ s \in given
    /\ Step(h, label) /\ Clock(h)
    /\ secret' = [secret EXCEPT ![h] = s] /\ target' = [target EXCEPT ![h] = t]
    /\ stale' = IF s \in closed \/ ~Unexpired(s, now) THEN stale \cup {h} ELSE stale
    /\ UNCHANGED <<now, user, tables, drawn, given, closed>>

\* Mutant of Insert: the lifetime is added twice.
InsertLate(s, what, until) ==
    /\ rows' = rows \cup {s} /\ kind' = [kind EXCEPT ![s] = what]
    /\ expires' = [expires EXCEPT ![s] = until + Life]
    /\ UNCHANGED used

Insert(s, what, until) ==
    /\ rows' = rows \cup {s} /\ kind' = [kind EXCEPT ![s] = what]
    /\ expires' = [expires EXCEPT ![s] = until]
    /\ UNCHANGED used

\* The token of this handler is returned to its client.
Give(h) == given' = given \cup {secret[h]} /\ Finish(h, "idle")

-----------------------------------------------------------------------------
(* Setup, login and logout. *)

\* Service.Setup has hashed the password and made a session.
SetupBegin(h) ==
    /\ Idle(h)
    /\ Step(h, "setup") /\ Clock(h) /\ Draw(h)
    /\ UNCHANGED <<now, user, tables, target, history>>

\* Mutant of Setup: whether there is an administrator is not checked again.
SetupAgain(h) ==
    /\ pc[h] = "setup"
    /\ \E u \in Credentials : user' = u
    /\ Insert(secret[h], "session", at[h] + Life) /\ Give(h)
    /\ UNCHANGED <<now, drawn, closed>>

\* Store.SetupAuth: one transaction.
Setup(h) ==
    /\ pc[h] = "setup"
    /\ \/ /\ user = Nobody
          /\ \E u \in Credentials : user' = u
          /\ Insert(secret[h], "session", at[h] + Life) /\ Give(h)
       \/ /\ user # Nobody
          /\ Finish(h, "idle") /\ UNCHANGED <<user, tables, given>>
    /\ UNCHANGED <<now, drawn, closed>>

\* Service.Login reads the administrator and compares; other credentials, or
\* no administrator yet, end the request.
LoginBegin(h) ==
    /\ Idle(h) /\ user # Nobody
    /\ Step(h, "verified")
    /\ UNCHANGED <<now, user, tables, locals, drawn, history>>

LoginDraw(h) ==
    /\ pc[h] = "verified"
    /\ Step(h, "save") /\ Clock(h) /\ Draw(h)
    /\ UNCHANGED <<now, user, tables, target, history>>

\* Store.SaveAuthSession
LoginSave(h) ==
    /\ pc[h] = "save"
    /\ Insert(secret[h], "session", at[h] + Life) /\ Step(h, "prune")
    /\ UNCHANGED <<now, user, locals, drawn, history>>

\* Store.DeleteExpiredAuthSessions, with the clock reading of the login; an
\* error is ignored.
Prune(h) ==
    /\ pc[h] = "prune"
    /\ \/ UNCHANGED rows
       \/ rows' = {s \in rows : kind[s] = "session" => expires[s] > at[h]}
    /\ Give(h)
    /\ UNCHANGED <<now, user, kind, expires, used, drawn, closed>>

\* POST /auth/logout needs no valid session.
Logout(h, s) ==
    /\ Idle(h) /\ s \in given /\ kind[s] = "session"
    /\ rows' = rows \ {s} /\ closed' = closed \cup {s}
    /\ Finish(h, "idle")
    /\ UNCHANGED <<now, user, kind, expires, used, drawn, given>>

-----------------------------------------------------------------------------
(* Requests with a session: issue an API token, or revoke the token t. *)

SessionBegin(h, s, t) ==
    /\ kind[s] = "session" /\ t \in {NoSecret} \cup {r \in given : kind[r] # "session"}
    /\ Present(h, "session", s, t)

\* Mutant of SessionCheck: a session is looked up by its hash alone.
SessionByHash(h) ==
    /\ pc[h] = "session"
    /\ IF secret[h] \in rows
       THEN /\ Step(h, IF target[h] = NoSecret THEN "admitted" ELSE "revoke")
            /\ UNCHANGED <<locals, stale>>
       ELSE Finish(h, "refused")
    /\ UNCHANGED <<now, user, tables, drawn, given, closed>>

\* Store.AuthSessionValid
SessionCheck(h) ==
    /\ pc[h] = "session"
    /\ IF secret[h] \in rows /\ Unexpired(secret[h], at[h])
       THEN /\ Step(h, IF target[h] = NoSecret THEN "admitted" ELSE "revoke")
            /\ UNCHANGED <<locals, stale>>
       ELSE Finish(h, "refused")
    /\ UNCHANGED <<now, user, tables, drawn, given, closed>>

\* Service.CreateAPIToken draws and dates the token.
CreateDraw(h) ==
    /\ pc[h] = "admitted"
    /\ Step(h, "create") /\ Clock(h) /\ Draw(h)
    /\ UNCHANGED <<now, user, tables, target, history>>

\* Store.SaveAPIToken; the expiry of a token that never expires is stored as
\* the time of its creation.
CreateSave(h) ==
    /\ pc[h] = "create"
    /\ \/ Insert(secret[h], "expiring", at[h] + Life)
       \/ Insert(secret[h], "forever", at[h])
    /\ Give(h)
    /\ UNCHANGED <<now, user, drawn, closed>>

\* Mutant of Revoke: the token is made to expire instead of deleted.
RevokeByExpiry(h) ==
    /\ pc[h] = "revoke"
    /\ expires' = [expires EXCEPT ![target[h]] = now]
    /\ closed' = closed \cup {target[h]}
    /\ Finish(h, "idle")
    /\ UNCHANGED <<now, user, rows, kind, used, drawn, given>>

\* Store.DeleteAPIToken; without a row the answer is "not found".
Revoke(h) ==
    /\ pc[h] = "revoke"
    /\ rows' = rows \ {target[h]} /\ closed' = closed \cup {target[h]}
    /\ Finish(h, "idle")
    /\ UNCHANGED <<now, user, kind, expires, used, drawn, given>>

-----------------------------------------------------------------------------
(* Requests with an API token. *)

BearerBegin(h, s) == kind[s] # "session" /\ Present(h, "bearer", s, NoSecret)

\* Mutant of BearerLookup: never_expires is not looked at.
LookupByExpiry(h) ==
    /\ pc[h] = "bearer"
    /\ IF secret[h] \in rows /\ expires[secret[h]] > at[h]
       THEN Step(h, "touch") /\ UNCHANGED <<locals, stale>>
       ELSE Finish(h, "refused")
    /\ UNCHANGED <<now, user, tables, drawn, given, closed>>

\* Store.APITokenByHash
BearerLookup(h) ==
    /\ pc[h] = "bearer"
    /\ IF secret[h] \in rows /\ Unexpired(secret[h], at[h])
       THEN Step(h, "touch") /\ UNCHANGED <<locals, stale>>
       ELSE Finish(h, "refused")
    /\ UNCHANGED <<now, user, tables, drawn, given, closed>>

\* Mutant of Touch: the row is inserted when it is not there.
TouchUpsert(h) ==
    /\ pc[h] = "touch"
    /\ rows' = rows \cup {secret[h]} /\ used' = [used EXCEPT ![secret[h]] = at[h]]
    /\ Finish(h, "idle")
    /\ UNCHANGED <<now, user, kind, expires, drawn, given, closed>>

\* Store.TouchAPIToken updates a row that is still there, unless it was touched
\* less than five minutes before; an error is ignored.
Touch(h) ==
    /\ pc[h] = "touch"
    /\ \/ UNCHANGED used
       \/ /\ secret[h] \in rows /\ used[secret[h]] < at[h]
          /\ used' = [used EXCEPT ![secret[h]] = at[h]]
    /\ Finish(h, "idle")
    /\ UNCHANGED <<now, user, rows, kind, expires, drawn, given, closed>>

-----------------------------------------------------------------------------
\* The store or the generator fails, or the client goes away.
Fail(h) ==
    /\ pc[h] \in {"setup", "verified", "save", "session", "admitted", "create", "revoke", "bearer"}
    /\ Finish(h, "idle")
    /\ UNCHANGED <<now, user, tables, drawn, given, closed>>

\* The process is killed and started again: the tables stay.
Restart ==
    /\ \E h \in Handlers : ~Idle(h)
    /\ pc' = [h \in Handlers |-> "idle"] /\ at' = [h \in Handlers |-> 0]
    /\ secret' = [h \in Handlers |-> NoSecret] /\ target' = [h \in Handlers |-> NoSecret]
    /\ stale' = {}
    /\ UNCHANGED <<now, user, tables, drawn, given, closed>>

Handle(h) ==
    \/ SetupBegin(h) \/ Setup(h)
    \/ LoginBegin(h) \/ LoginDraw(h) \/ LoginSave(h) \/ Prune(h)
    \/ \E s \in Secrets : Logout(h, s) \/ BearerBegin(h, s)
    \/ \E s \in Secrets, t \in Secrets \cup {NoSecret} : SessionBegin(h, s, t)
    \/ SessionCheck(h) \/ CreateDraw(h) \/ CreateSave(h) \/ Revoke(h)
    \/ BearerLookup(h) \/ Touch(h) \/ Fail(h)

Next == Tick \/ Restart \/ \E h \in Handlers : Handle(h)

Spec == Init /\ [][Next]_vars

-----------------------------------------------------------------------------
(* Properties. *)

\* The type of every variable.
TypeOK ==
    /\ now \in 1 .. MaxTime /\ user \in Credentials \cup {Nobody}
    /\ rows \subseteq drawn /\ kind \in [Secrets -> {"none", "session", "expiring", "forever"}]
    /\ expires \in [Secrets -> 0 .. MaxTime + Life] /\ used \in [Secrets -> 0 .. MaxTime]
    /\ pc \in [Handlers -> {"idle", "refused", "setup", "verified", "save", "prune", "session",
                            "admitted", "create", "revoke", "bearer", "touch"}]
    /\ at \in [Handlers -> 0 .. MaxTime]
    /\ secret \in [Handlers -> Secrets \cup {NoSecret}]
    /\ target \in [Handlers -> Secrets \cup {NoSecret}]
    /\ drawn \subseteq Secrets /\ given \subseteq drawn /\ closed \subseteq given
    /\ stale \subseteq Handlers

\* README.md:86-87, "Setup is permanently disabled after the administrator has
\* been created": setups that were already on their way included (SetupAuth).
OneAdministrator == [][user # Nobody => user' = user]_user

\* What was logged out or revoked never comes back: no request in flight at that
\* moment writes it again (TouchAPIToken is an UPDATE).
ClosedForGood == closed \cap rows = {}

\* README.md:70, "revoked immediately": a request that arrives with a token
\* that was revoked, logged out or has expired before is not served.
PastRefused == \A h \in stale : pc[h] \in {"session", "bearer"}

\* A request is refused for a cause: its token was ended by somebody or by its
\* own expiry, never by the pruning or the bookkeeping of another request.
RefusedForCause ==
    [][\A h \in Handlers :
           pc'[h] = "refused" /\ pc[h] # "refused" =>
               secret[h] \in closed \/ ~Unexpired(secret[h], now)]_vars

\* A session or token that a client was given stays until it is ended or has
\* expired: no login, issue or revocation of another takes it away.
KeptUntilEnd == \A s \in given : s \in rows \/ s \in closed \/ ~Unexpired(s, now)

-----------------------------------------------------------------------------
(* The promise that this module keeps (Admission). *)

\* A token is handed out when a client has it, and open while a lookup finds it.
Sort == [s \in Secrets |-> IF s \in given THEN kind[s] ELSE "none"]
Until == [s \in Secrets |-> IF s \in given THEN expires[s] ELSE 0]
Open == {s \in given \cap rows : Unexpired(s, now)}

\* A handler asks until its lookup; what it may do then follows from its step.
Asking ==
    [h \in Handlers |-> IF pc[h] \in {"session", "bearer"} THEN secret[h] ELSE NoSecret]
Verdict ==
    [h \in Handlers |->
        IF pc[h] \in {"verified", "save", "prune"} THEN "password"
        ELSE IF pc[h] \in {"admitted", "create", "revoke"} THEN "session"
        ELSE IF pc[h] = "touch" THEN "token"
        ELSE IF pc[h] = "refused" THEN "refused" ELSE "none"]

Ledger == INSTANCE Admission
    WITH Clients <- Handlers, Tokens <- Secrets, Owners <- Credentials, NoToken <- NoSecret,
         owner <- user, sort <- Sort, until <- Until, open <- Open,
         asking <- Asking, late <- stale, verdict <- Verdict

\* However the handlers interleave, clients see one administrator, tokens that are
\* open from the answer until their end, and requests served for an open token and
\* refused for a closed one (internal/auth, store/auth.go, store/api_tokens.go).
ImplementsAdmission == Ledger!Spec
=============================================================================
