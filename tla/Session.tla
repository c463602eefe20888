------------------------------ MODULE Session -------------------------------
(***************************************************************************)
(* Signing in and out: the root of the web interface (AuthRoot.tsx,        *)
(* AuthScreen.tsx, api.ts) in the tabs of one browser, which share a       *)
(* cookie jar, the authentication handlers of the server and its login     *)
(* throttle (httpapi/auth.go), which knows the tabs by one address.        *)
(*                                                                         *)
(* A request carries the cookie the jar holds when it is sent; answers     *)
(* arrive in any order, and the browser stores the cookie of an answer as  *)
(* it arrives.  Input a form refuses only shows a message and is left out. *)
(* Session 0 is the absence of a cookie.                                   *)
(***************************************************************************)
EXTENDS Naturals, FiniteSets

CONSTANTS
    Tabs, NoTab,
    MaxSessions,   \* bound: sessions ever created
    Limit,         \* failures that block an address (5)
    MaxClicks,     \* bound: what the user does
    MaxLost        \* bound: requests that fail for want of a network or server

ASSUME TabsAssumption == NoTab \notin Tabs /\ IsFiniteSet(Tabs)
ASSUME BoundsAssumption ==
    MaxSessions \in Nat \ {0} /\ Limit \in Nat \ {0} /\ MaxClicks \in Nat /\ MaxLost \in Nat

VARIABLES
    configured, valid, drawn,  \* the server: is there an administrator, live sessions
    failures, blocked, old,    \* its login throttle: count, BlockedUntil, WindowStart
    jar,                       \* the browser's cookie
    screen, loading,           \* per tab: what AuthRoot shows; AuthScreen's loading
    reqs,                      \* requests in flight
    clicks, lost,              \* bounds
    wrong, peak                \* history since the last respite: wrong passwords, and the
                               \* most that were being looked at together

auth == <<configured, valid, drawn>>
throttle == <<failures, blocked, old, wrong, peak>>
shown == <<screen, loading>>
vars == <<auth, throttle, jar, shown, reqs, clicks, lost>>

Sessions == 1 .. MaxSessions
Screens == {"connecting", "unreachable", "setup", "login", "app"}
Entry == {"setup", "login"}

\* request: a call of fetch by a tab, good when its password is the
\* administrator's; "at" tells apart the sign-outs of a tab.
Request(t, kind, good, at) ==
    [tab |-> t, kind |-> kind, cookie |-> jar, good |-> good, at |-> at,
     step |-> "sent", result |-> "none", new |-> 0]

Requests ==
    [tab : Tabs \cup {NoTab}, kind : {"status", "setup", "login", "logout", "data"},
     cookie : 0 .. drawn, good : BOOLEAN, at : 0 .. MaxClicks, step : {"sent", "verifying", "answered"},
     result : {"none", "ok", "refused", "setup", "login", "app"}, new : 0 .. drawn]

Verifying == {r \in reqs : r.step = "verifying"}
Respite(n) == wrong' = 0 /\ peak' = n

Of(t, kinds) == {r \in reqs : r.tab = t /\ r.kind \in kinds}

Init ==
    /\ configured \in BOOLEAN
    /\ \/ drawn = 0 /\ valid = {}
       \/ configured /\ drawn = 1 /\ valid \in {{}, {1}}
    /\ jar = drawn
    /\ failures = 0 /\ blocked = FALSE /\ old = FALSE /\ wrong = 0 /\ peak = 0
    /\ screen = [t \in Tabs |-> "connecting"] /\ loading = [t \in Tabs |-> FALSE]
    /\ reqs = {Request(t, "status", FALSE, 0) : t \in Tabs}
    /\ clicks = 0 /\ lost = 0

-----------------------------------------------------------------------------
(* The server. *)

Answer(r, result, new) ==
    reqs' = (reqs \ {r}) \cup
        IF r.tab = NoTab THEN {}
        ELSE {[r EXCEPT !.step = "answered", !.result = result, !.new = new]}

ServeStatus(r) ==
    /\ r.kind = "status" /\ r.step = "sent"
    /\ Answer(r, IF r.cookie \in valid THEN "app" ELSE IF configured THEN "login" ELSE "setup", 0)
    /\ UNCHANGED <<auth, throttle>>

\* Mutant of NewSession: the same session is handed out again.
NewSessionAgain(r) ==
    /\ drawn < MaxSessions /\ UNCHANGED drawn
    /\ valid' = valid \cup {drawn + 1}
    /\ Answer(r, "ok", drawn + 1)

\* Setup and Login of the service: a session of its own, and its cookie.
NewSession(r) ==
    /\ drawn < MaxSessions /\ drawn' = drawn + 1
    /\ valid' = valid \cup {drawn + 1}
    /\ Answer(r, "ok", drawn + 1)

ServeSetup(r) ==
    /\ r.kind = "setup" /\ r.step = "sent"
    /\ IF configured
       THEN Answer(r, "refused", 0) /\ UNCHANGED auth
       ELSE NewSession(r) /\ configured' = TRUE
    /\ UNCHANGED throttle

\* loginAllowed, before the password is looked at: an expired window is deleted.
LoginCheck(r) ==
    /\ r.kind = "login" /\ r.step = "sent"
    /\ IF blocked
       THEN Answer(r, "refused", 0) /\ UNCHANGED <<failures, old, peak>>
       ELSE /\ reqs' = (reqs \ {r}) \cup {[r EXCEPT !.step = "verifying"]}
            /\ failures' = (IF old THEN 0 ELSE failures) /\ old' = FALSE
            /\ peak' = LET n == Cardinality(Verifying) + 1 IN IF n > peak THEN n ELSE peak
    /\ UNCHANGED <<auth, blocked, wrong>>

\* Mutant of LoginFails: a block is set only when the count passes the limit.
LoginFailsLate(r) ==
    /\ r.kind = "login" /\ r.step = "verifying" /\ ~(r.good /\ configured)
    /\ failures' = (IF old THEN 1 ELSE failures + 1) /\ old' = FALSE
    /\ blocked' = (failures' > Limit + 1)
    /\ wrong' = wrong + 1 /\ UNCHANGED peak
    /\ Answer(r, "refused", 0) /\ UNCHANGED auth

\* recordLoginFailure: a window older than five minutes is replaced, with its block.
LoginFails(r) ==
    /\ r.kind = "login" /\ r.step = "verifying" /\ ~(r.good /\ configured)
    /\ failures' = (IF old THEN 1 ELSE failures + 1) /\ old' = FALSE
    /\ blocked' = ((blocked /\ ~old) \/ failures' >= Limit)
    /\ wrong' = wrong + 1 /\ UNCHANGED peak
    /\ Answer(r, "refused", 0) /\ UNCHANGED auth

\* clearLoginFailures after a session was stored.
LoginSucceeds(r) ==
    /\ r.kind = "login" /\ r.step = "verifying" /\ r.good /\ configured
    /\ NewSession(r) /\ UNCHANGED configured
    /\ failures' = 0 /\ blocked' = FALSE /\ old' = FALSE
    /\ Respite(Cardinality(Verifying) - 1)

\* logout ends the session of its cookie, if any, and clears whatever cookie
\* the browser has when the answer arrives.
ServeLogout(r) ==
    /\ r.kind = "logout" /\ r.step = "sent"
    /\ valid' = valid \ {r.cookie}
    /\ Answer(r, "ok", 0) /\ UNCHANGED <<configured, drawn, throttle>>

\* requireSession around everything that App asks for.
ServeData(r) ==
    /\ r.kind = "data" /\ r.step = "sent"
    /\ Answer(r, IF r.cookie \in valid THEN "ok" ELSE "refused", 0)
    /\ UNCHANGED <<auth, throttle>>

Serve(r) ==
    /\ \/ ServeStatus(r) \/ ServeSetup(r) \/ LoginCheck(r) \/ LoginFails(r)
       \/ LoginSucceeds(r) \/ ServeLogout(r) \/ ServeData(r)
    /\ UNCHANGED <<jar, shown, clicks, lost>>

\* Thirty days pass for a session; a minute, or five, for the throttle.
Expire ==
    /\ \E s \in valid : valid' = valid \ {s}
    /\ UNCHANGED <<configured, drawn, throttle, jar, shown, reqs, clicks, lost>>

BlockEnds ==
    /\ blocked /\ blocked' = FALSE /\ Respite(Cardinality(Verifying))
    /\ UNCHANGED <<auth, failures, old, jar, shown, reqs, clicks, lost>>

WindowEnds ==
    /\ failures > 0 /\ ~old /\ old' = TRUE /\ Respite(Cardinality(Verifying))
    /\ UNCHANGED <<auth, failures, blocked, jar, shown, reqs, clicks, lost>>

-----------------------------------------------------------------------------
(* Answers in the browser. *)

Show(t, s) == screen' = [screen EXCEPT ![t] = s]
Take(r) == r.step = "answered" /\ reqs' = reqs \ {r}

\* loadStatus
StatusArrives(r) ==
    /\ r.kind = "status" /\ Take(r)
    /\ Show(r.tab, r.result)
    /\ UNCHANGED <<jar, loading>>

\* submit of AuthScreen after its await
EntryArrives(r) ==
    /\ r.kind \in Entry /\ Take(r)
    /\ loading' = [loading EXCEPT ![r.tab] = FALSE]
    /\ IF r.result = "ok" THEN jar' = r.new /\ Show(r.tab, "app") ELSE UNCHANGED <<jar, screen>>

\* onLogout of AuthRoot, whatever the tab shows by now
LogoutArrives(r) ==
    /\ r.kind = "logout" /\ Take(r)
    /\ jar' = 0 /\ Show(r.tab, "login")
    /\ UNCHANGED loading

\* A 401 dispatches paperwing:unauthorized in its tab.
DataArrives(r) ==
    /\ r.kind = "data" /\ Take(r)
    /\ IF r.result = "refused" THEN Show(r.tab, "login") ELSE UNCHANGED screen
    /\ UNCHANGED <<jar, loading>>

Arrive(r) ==
    /\ StatusArrives(r) \/ EntryArrives(r) \/ LogoutArrives(r) \/ DataArrives(r)
    /\ UNCHANGED <<auth, throttle, clicks, lost>>

\* Mutant of Lost: the screen of a failed login stays busy.
LostBusy(r) ==
    /\ lost < MaxLost /\ lost' = lost + 1
    /\ reqs' = reqs \ {r}
    /\ screen' = IF r.kind = "status" /\ r.tab # NoTab THEN [screen EXCEPT ![r.tab] = "unreachable"] ELSE screen
    /\ UNCHANGED <<auth, throttle, jar, loading, clicks>>

\* Mutant of Lost: signing out shows the login form even if it failed.
LostSignsOut(r) ==
    /\ lost < MaxLost /\ lost' = lost + 1
    /\ reqs' = reqs \ {r}
    /\ screen' = CASE r.tab = NoTab -> screen
                   [] r.tab # NoTab /\ r.kind = "status" -> [screen EXCEPT ![r.tab] = "unreachable"]
                   [] r.tab # NoTab /\ r.kind = "logout" -> [screen EXCEPT ![r.tab] = "login"]
                   [] OTHER -> screen
    /\ loading' = IF r.kind \in Entry /\ r.tab # NoTab THEN [loading EXCEPT ![r.tab] = FALSE] ELSE loading
    /\ UNCHANGED <<auth, throttle, jar, clicks>>

\* The network or the server fails, before or after the server has acted.
\* A failed sign-out or poll changes nothing on the screen.
Lost(r) ==
    /\ lost < MaxLost /\ lost' = lost + 1
    /\ reqs' = reqs \ {r}
    /\ screen' = IF r.kind = "status" /\ r.tab # NoTab THEN [screen EXCEPT ![r.tab] = "unreachable"] ELSE screen
    /\ loading' = IF r.kind \in Entry /\ r.tab # NoTab THEN [loading EXCEPT ![r.tab] = FALSE] ELSE loading
    /\ UNCHANGED <<auth, throttle, jar, clicks>>

-----------------------------------------------------------------------------
(* The user and the timers of a tab. *)

Click == clicks < MaxClicks /\ clicks' = clicks + 1
Send(t, kind, good, at) == reqs' = reqs \cup {Request(t, kind, good, at)}

\* The button of the screen "unreachable"
Reconnect(t) ==
    /\ screen[t] = "unreachable" /\ Click
    /\ Show(t, "connecting") /\ Send(t, "status", FALSE, 0)
    /\ UNCHANGED <<auth, throttle, jar, loading, lost>>

\* submit of AuthScreen: the button is disabled while loading.
Submit(t, good) ==
    /\ screen[t] \in Entry /\ ~loading[t] /\ Click
    /\ screen[t] = "setup" => good
    /\ loading' = [loading EXCEPT ![t] = TRUE]
    /\ Send(t, screen[t], good, 0)
    /\ UNCHANGED <<auth, throttle, jar, screen, lost>>

\* The button of the sidebar is always enabled.
SignOut(t) ==
    /\ screen[t] = "app" /\ Click
    /\ Send(t, "logout", FALSE, clicks')
    /\ UNCHANGED <<auth, throttle, jar, shown, lost>>

\* Mutant of Poll: nothing is asked for unless the user does something.
PollOnClick(t) ==
    /\ screen[t] = "app" /\ Click /\ Of(t, {"data"}) = {}
    /\ Send(t, "data", FALSE, 0)
    /\ UNCHANGED <<auth, throttle, jar, shown, lost>>

\* What App asks for when it is mounted and every five seconds.  (Bound: a tab
\* has one such request in flight, and others only from earlier mounts.)
Poll(t) ==
    /\ screen[t] = "app"
    /\ \A r \in Of(t, {"data"}) : r.cookie # jar
    /\ Send(t, "data", FALSE, 0)
    /\ UNCHANGED <<auth, throttle, jar, shown, clicks, lost>>

\* The tab is reloaded; the server may have got what was sent (of which a
\* question changes nothing there).
Reload(t) ==
    /\ Click /\ Show(t, "connecting") /\ loading' = [loading EXCEPT ![t] = FALSE]
    /\ reqs' = {r \in reqs : r.tab # t} \cup {Request(t, "status", FALSE, 0)}
                 \cup {[r EXCEPT !.tab = NoTab, !.at = clicks'] : r \in {q \in Of(t, Entry \cup {"logout"}) : q.step # "answered"}}
    /\ UNCHANGED <<auth, throttle, jar, lost>>

-----------------------------------------------------------------------------
Next ==
    \/ \E r \in reqs : Serve(r) \/ Arrive(r) \/ Lost(r)
    \/ Expire \/ BlockEnds \/ WindowEnds
    \/ \E t \in Tabs :
          \/ Reconnect(t) \/ SignOut(t) \/ Poll(t) \/ Reload(t)
          \/ \E good \in BOOLEAN : Submit(t, good)

Spec == Init /\ [][Next]_vars

\* The timer of five seconds ticks, and requests are answered or fail.
FairSpec ==
    /\ Spec
    /\ WF_vars(\E r \in reqs : Serve(r) \/ Arrive(r) \/ Lost(r))
    /\ \A t \in Tabs : WF_vars(Poll(t))

-----------------------------------------------------------------------------
(* Properties. *)

\* The type of every variable.
TypeOK ==
    /\ configured \in BOOLEAN /\ valid \subseteq 1 .. drawn /\ drawn \in 0 .. MaxSessions
    /\ failures \in Nat /\ blocked \in BOOLEAN /\ old \in BOOLEAN /\ wrong \in Nat
    /\ jar \in 0 .. drawn
    /\ screen \in [Tabs -> Screens] /\ loading \in [Tabs -> BOOLEAN]
    /\ reqs \subseteq Requests
    /\ clicks \in 0 .. MaxClicks /\ lost \in 0 .. MaxLost

\* A tab that says it is connecting has its question under way, and the button
\* of the form is disabled exactly while the one attempt is under way: no order
\* of answers, late events of an earlier App or lost requests leaves a tab that
\* waits for nothing, or sends two attempts (AuthRoot.tsx: loadStatus;
\* AuthScreen.tsx: finally).
Awaited ==
    \A t \in Tabs :
        /\ screen[t] = "connecting" => Of(t, {"status"}) # {}
        /\ loading[t] => \E r \in reqs : Of(t, Entry) = {r}
        /\ ~loading[t] => Of(t, Entry) = {}

\* A tab leaves the app only when the browser's session is over, or by the
\* answer to a request that was sent under an earlier one.  (That exception is
\* real: neither the event nor onLogout asks which session it is about.)
SignedInStays ==
    [][\A t \in Tabs :
           screen[t] = "app" /\ screen'[t] = "login" =>
               jar' \notin valid \/ \E r \in reqs \ reqs' : r.tab = t /\ r.cookie # jar]_vars

\* Between two respites (a minute after a block, five after the first failure,
\* a success) no more wrong passwords are looked at than the limit and those that
\* were let in together: the count is read before a password is hashed and
\* written after it (httpapi/auth.go: loginAllowed, recordLoginFailure).
GuessesBounded == wrong <= (Limit - 1) + peak

\* When the session was ended, by another tab or by its age, every tab notices
\* it without the user's help.
SignOutSeen ==
    LET Stale(t) == screen[t] = "app" /\ jar \notin valid
    IN (\E t \in Tabs : Stale(t)) ~> (\A t \in Tabs : ~Stale(t))

\* What the door sees: the passwords that are being looked at.
House == INSTANCE Door
    WITH owner <- configured, live <- valid, given <- drawn, inside <- Cardinality(Verifying)

\* However logins overlap, and whatever the throttle forgets in between, nobody is
\* let in to guess who guessed wrong Limit times since the last respite; there is
\* one setup, and sessions are fresh and end for good (httpapi/auth.go: setup,
\* login, logout, loginAllowed, recordLoginFailure, clearLoginFailures).
ImplementsDoor == House!Spec
=============================================================================
