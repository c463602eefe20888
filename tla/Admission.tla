----------------------------- MODULE Admission -----------------------------
(***************************************************************************)
(* What authentication promises to whoever relies on it, without handlers, *)
(* tables or histories: a token is open from the moment it is handed out   *)
(* until somebody ends it or its time is over, and never again; only the   *)
(* password or an open session lets anybody hand out or end API tokens;    *)
(* a request is served if its token is open, and refused only if it is not.*)
(***************************************************************************)
EXTENDS Naturals

CONSTANTS Clients, Tokens, Owners, Nobody, NoToken, Life

VARIABLES
    now, owner,          \* the clock, the administrator
    sort, until, open,   \* tokens: what was handed out, its end, what is open now
    asking, late,        \* clients: the token they present, those who came too late
    verdict              \* clients: what let them in, or that they were refused

tokens == <<sort, until, open>>
clients == <<asking, late, verdict>>

Init ==
    /\ now = 1 /\ owner = Nobody
    /\ sort = [s \in Tokens |-> "none"] /\ until = [s \in Tokens |-> 0] /\ open = {}
    /\ asking = [c \in Clients |-> NoToken] /\ late = {}
    /\ verdict = [c \in Clients |-> "none"]

Answer(c, v) ==
    /\ asking' = [asking EXCEPT ![c] = NoToken] /\ late' = late \ {c}
    /\ verdict' = [verdict EXCEPT ![c] = v]

\* A new token, valid for a Life from now at most or for ever.
Grant(s, what) ==
    /\ sort[s] = "none" /\ sort' = [sort EXCEPT ![s] = what]
    /\ \E end \in 0 .. now + Life :
          /\ until' = [until EXCEPT ![s] = end]
          /\ open' = IF what = "forever" \/ end > now THEN open \cup {s} ELSE open

\* Time passes, and only time makes a token expire.
Pass ==
    /\ now' = now + 1
    /\ open' = {s \in open : sort[s] = "forever" \/ until[s] > now + 1}
    /\ UNCHANGED <<owner, sort, until, clients>>

\* The first visitor becomes the administrator, for good.
Appoint(c, s) ==
    /\ owner = Nobody /\ owner' \in Owners
    /\ Grant(s, "session") /\ Answer(c, "none")
    /\ UNCHANGED now

Enter(c) ==
    /\ owner # Nobody /\ asking[c] = NoToken
    /\ Answer(c, "password")
    /\ UNCHANGED <<now, owner, tokens>>

\* The password is exchanged for a session, a session for an API token.
Issue(c, s) ==
    /\ \/ verdict[c] = "password" /\ Grant(s, "session")
       \/ verdict[c] = "session" /\ (Grant(s, "expiring") \/ Grant(s, "forever"))
    /\ Answer(c, "none")
    /\ UNCHANGED <<now, owner>>

\* A session is ended by whoever presents it, an API token under a session.
End(c, s) ==
    /\ \/ sort[s] = "session" /\ asking[c] = NoToken
       \/ sort[s] \in {"expiring", "forever"} /\ verdict[c] = "session"
    /\ open' = open \ {s} /\ Answer(c, "none")
    /\ UNCHANGED <<now, owner, sort, until>>

Ask(c, s) ==
    /\ asking[c] = NoToken /\ sort[s] # "none"
    /\ asking' = [asking EXCEPT ![c] = s] /\ verdict' = [verdict EXCEPT ![c] = "none"]
    /\ late' = IF s \in open THEN late ELSE late \cup {c}
    /\ UNCHANGED <<now, owner, tokens>>

\* The token was open on arrival; if it is no longer, it ran out on the way:
\* a token that somebody ended lets nobody in.
Admit(c) ==
    /\ asking[c] # NoToken /\ c \notin late
    /\ asking[c] \in open \/ (sort[asking[c]] # "forever" /\ until[asking[c]] <= now)
    /\ Answer(c, IF sort[asking[c]] = "session" THEN "session" ELSE "token")
    /\ UNCHANGED <<now, owner, tokens>>

Refuse(c) ==
    /\ asking[c] # NoToken /\ asking[c] \notin open
    /\ Answer(c, "refused")
    /\ UNCHANGED <<now, owner, tokens>>

\* The request is over: served, failed or given up.
Settle(c) == Answer(c, "none") /\ UNCHANGED <<now, owner, tokens>>

\* The process starts again and knows no request.
Clear ==
    /\ asking' = [c \in Clients |-> NoToken] /\ late' = {}
    /\ verdict' = [c \in Clients |-> "none"]
    /\ UNCHANGED <<now, owner, tokens>>

Next ==
    \/ Pass \/ Clear
    \/ \E c \in Clients :
          \/ Enter(c) \/ Admit(c) \/ Refuse(c) \/ Settle(c)
          \/ \E s \in Tokens : Appoint(c, s) \/ Issue(c, s) \/ End(c, s) \/ Ask(c, s)

Spec == Init /\ [][Next]_<<now, owner, tokens, clients>>
=============================================================================
