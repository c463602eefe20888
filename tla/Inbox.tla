------------------------------- MODULE Inbox --------------------------------
(***************************************************************************)
(* The web interface (frontend/src/App.tsx): a list of emails of one       *)
(* account or of all, a reader, and operations on accounts, while requests *)
(* are in flight and answered in any order (or not at all).                *)
(*                                                                         *)
(* requestID === listRequestID.current holds for the request issued last,  *)
(* and only for it: it is the field "current" of a request, and of an      *)
(* email request likewise.  An operation keeps the selection, the page and *)
(* the email that its handler closed over.  React runs the effects of a    *)
(* click at once, and those of an answer in a step of their own.           *)
(***************************************************************************)
EXTENDS Naturals, FiniteSets

CONSTANTS
    Accounts,      \* ids that may be created
    None,          \* null: all accounts, no email
    Polls,         \* bound: requests for the accounts in flight
    PageSize,      \* emails on a page
    MaxEmails,     \* bound: emails that arrive
    MaxClicks      \* bound: what the user does

ASSUME NoneAssumption == None \notin Accounts
ASSUME SizeAssumption == PageSize \in Nat \ {0} /\ MaxEmails \in Nat /\ MaxClicks \in Nat

VARIABLES
    existing, used, mail, arrived,        \* the server: accounts, ids ever used, emails
    accounts,                             \* how often each account is in the list of accounts
    selected, page, ran,                  \* selectedAccountID, page; what the effect ran for
    list, loading, failed, lists,         \* emailPage, emailsLoading, emailsError, requests
    open, shown, reading, error, reads,   \* selectedEmailID, selectedEmail, emailLoading,
                                          \* emailError, requests
    polls, ops,                           \* requests for the accounts; manager and dialog
    clicks, fits, deleted                 \* bound; history: the last request for the list was
                                          \* for the selection, deletions that were answered

server == <<existing, used, mail, arrived>>
choice == <<selected, page, ran>>
listing == <<list, loading, failed, lists, fits>>
reader == <<open, shown, reading, error, reads>>
vars == <<server, accounts, choice, listing, reader, polls, ops, clicks, deleted>>

Selections == Accounts \cup {None}
Pages == 1 .. MaxEmails + 1
Emails == (1 .. MaxEmails) \X Accounts

Request(a, p) == [account |-> a, page |-> p, current |-> TRUE, ready |-> FALSE,
                  items |-> {}, total |-> 0]
NoPoll == [step |-> "free", loud |-> FALSE, accounts |-> {}]
NoOp == [kind |-> "none", step |-> "none", account |-> None,
         selected |-> None, page |-> 1, shown |-> None]

Init ==
    /\ existing \in SUBSET Accounts /\ used = existing /\ mail = {} /\ arrived = 0
    /\ accounts = [a \in Accounts |-> 0]
    /\ selected = None /\ page = 1 /\ ran = <<None, 1>>
    /\ list = [account |-> None, page |-> 1, items |-> {}, total |-> 0]
    /\ loading = TRUE /\ failed = FALSE /\ lists = {Request(None, 1)} /\ fits = TRUE
    /\ open = None /\ shown = None /\ reading = FALSE /\ error = FALSE /\ reads = {}
    /\ \E q \in Polls : polls = [r \in Polls |-> IF r = q THEN [NoPoll EXCEPT !.step = "sent", !.loud = TRUE]
                                                        ELSE NoPoll]
    /\ ops = [w \in {"manager", "dialog"} |-> NoOp]
    /\ clicks = 0 /\ deleted = {}

-----------------------------------------------------------------------------
(* The server. *)

Deliver ==
    /\ arrived < MaxEmails /\ arrived' = arrived + 1
    /\ \E a \in existing : mail' = mail \cup {<<arrived + 1, a>>}
    /\ UNCHANGED <<existing, used, accounts, choice, listing, reader, polls, ops, clicks, deleted>>

Matching(a) == {m \in mail : a = None \/ m[2] = a}

\* Store.ListEmails: the newest first, LIMIT and OFFSET.
PageOf(a, p) ==
    {m \in Matching(a) :
        LET before == Cardinality({n \in Matching(a) : n[1] > m[1]})
        IN (p - 1) * PageSize <= before /\ before < p * PageSize}

\* The count and the page are two statements; taken together here, for no
\* property relates them.  An account that was deleted has no emails.
ServeList ==
    /\ \E r \in lists :
          /\ r.current /\ ~r.ready
          /\ lists' = (lists \ {r}) \cup
                {[r EXCEPT !.ready = TRUE, !.items = PageOf(r.account, r.page),
                           !.total = Cardinality(Matching(r.account))]}
    /\ UNCHANGED <<server, accounts, choice, list, loading, failed, fits, reader, polls, ops, clicks, deleted>>

ServePoll(q) ==
    /\ polls[q].step = "sent"
    /\ polls' = [polls EXCEPT ![q].step = "ready", ![q].accounts = existing]
    /\ UNCHANGED <<server, accounts, choice, listing, reader, ops, clicks, deleted>>

\* POST /accounts, POST /accounts/{id}/sync, DELETE /accounts/{id}
ServeOp(w) ==
    /\ ops[w].step = "sent"
    /\ \/ /\ ops[w].kind = "create"
          /\ \E a \in Accounts \ used :
                /\ existing' = existing \cup {a} /\ used' = used \cup {a}
                /\ ops' = [ops EXCEPT ![w].step = "ready", ![w].account = a]
          /\ UNCHANGED mail
       \/ /\ ops[w].kind = "delete" /\ ops[w].account \in existing
          /\ existing' = existing \ {ops[w].account}
          /\ mail' = {m \in mail : m[2] # ops[w].account}
          /\ ops' = [ops EXCEPT ![w].step = "ready"] /\ UNCHANGED used
       \/ /\ ops[w].kind = "sync" /\ ops[w].account \in existing
          /\ ops' = [ops EXCEPT ![w].step = "ready"] /\ UNCHANGED <<existing, used, mail>>
    /\ UNCHANGED <<arrived, accounts, choice, listing, reader, polls, clicks, deleted>>

-----------------------------------------------------------------------------
(* loadEmails and the effect that calls it. *)

\* A click; React runs pending effects before it handles one.
Click == clicks < MaxClicks /\ ran = <<selected, page>> /\ clicks' = clicks + 1

\* A new request is the current one; nobody will look at the answers to others.
Load(a, p) ==
    /\ lists' = {[Request(r.account, r.page) EXCEPT !.current = FALSE] : r \in lists}
                    \cup {Request(a, p)}
    /\ loading' = TRUE /\ failed' = FALSE
    /\ fits' = (a = selected')
    /\ UNCHANGED list

\* A click sets selection and page; the effect runs if one of them changed.
Choose(a, p) ==
    /\ selected' = a /\ page' = p /\ ran' = <<a, p>>
    /\ IF ran # <<a, p>> THEN Load(a, p) ELSE UNCHANGED listing

\* The effect after an answer changed the selection or the page.
Effect ==
    /\ ran # <<selected, page>>
    /\ ran' = <<selected, page>> /\ UNCHANGED <<selected, page>>
    /\ Load(selected, page)
    /\ UNCHANGED <<server, accounts, reader, polls, ops, clicks, deleted>>

\* Mutant of ListArrives: requestID is not compared.
ListArrivesAlways ==
    /\ \E r \in lists :
          /\ r.ready \/ ~r.current
          /\ lists' = lists \ {r}
          /\ list' = [account |-> r.account, page |-> r.page, items |-> r.items, total |-> r.total]
          /\ page' = r.page /\ loading' = FALSE
    /\ UNCHANGED <<server, accounts, selected, ran, failed, fits, reader, polls, ops, clicks, deleted>>

ListArrives ==
    /\ \E r \in lists :
          /\ r.ready \/ ~r.current
          /\ lists' = lists \ {r}
          /\ IF r.current
             THEN /\ list' = [account |-> r.account, page |-> r.page, items |-> r.items, total |-> r.total]
                  /\ page' = r.page /\ loading' = FALSE
             ELSE UNCHANGED <<list, page, loading>>
    /\ UNCHANGED <<server, accounts, selected, ran, failed, fits, reader, polls, ops, clicks, deleted>>

\* Mutant of ListFails: emailsLoading is cleared only after an answer.
ListFailsLoading ==
    /\ \E r \in lists :
          /\ lists' = lists \ {r}
          /\ IF r.current
             THEN failed' = TRUE /\ list' = [list EXCEPT !.items = {}, !.total = 0]
             ELSE UNCHANGED <<list, failed>>
    /\ UNCHANGED <<server, accounts, choice, loading, fits, reader, polls, ops, clicks, deleted>>

ListFails ==
    /\ \E r \in lists :
          /\ lists' = lists \ {r}
          /\ IF r.current
             THEN /\ failed' = TRUE /\ list' = [list EXCEPT !.items = {}, !.total = 0]
                  /\ loading' = FALSE
             ELSE UNCHANGED <<list, loading, failed>>
    /\ UNCHANGED <<server, accounts, choice, fits, reader, polls, ops, clicks, deleted>>

-----------------------------------------------------------------------------
(* loadAccounts and the timer of five seconds. *)

Ask(q, loud) ==
    /\ polls[q].step = "free"
    /\ polls' = [polls EXCEPT ![q] = [NoPoll EXCEPT !.step = "sent", !.loud = loud]]

Poll(q) ==
    /\ Ask(q, FALSE)
    /\ UNCHANGED <<server, accounts, choice, listing, reader, ops, clicks, deleted>>

\* Mutant of PollArrives: the answer is added to the list of accounts.
PollAppends(q) ==
    /\ polls[q].step = "ready"
    /\ accounts' = [a \in Accounts |-> IF a \in polls[q].accounts THEN accounts[a] + 1 ELSE accounts[a]]
    /\ polls' = [polls EXCEPT ![q] = NoPoll]
    /\ UNCHANGED <<server, choice, listing, reader, ops, clicks, deleted>>

PollArrives(q) ==
    /\ polls[q].step = "ready"
    /\ accounts' = [a \in Accounts |-> IF a \in polls[q].accounts THEN 1 ELSE 0]
    /\ polls' = [polls EXCEPT ![q] = NoPoll]
    /\ UNCHANGED <<server, choice, listing, reader, ops, clicks, deleted>>

\* Only loadAccounts shows its error, where the list is.
PollFails(q) ==
    /\ polls[q].step # "free"
    /\ failed' = (failed \/ polls[q].loud)
    /\ polls' = [polls EXCEPT ![q] = NoPoll]
    /\ UNCHANGED <<server, accounts, choice, list, loading, lists, fits, reader, ops, clicks, deleted>>

-----------------------------------------------------------------------------
(* What is on the screen.  The search and the filter hide some emails of the *)
(* list and are left out: a visible email is any of them.                    *)

ListPane == IF loading THEN "skeletons" ELSE IF failed THEN "error"
            ELSE IF list.items = {} THEN "empty" ELSE "emails"

\* The footer of the list, and the pages its enabled buttons lead to
PageButtons ==
    IF loading \/ failed \/ list.total <= PageSize THEN {}
    ELSE {p \in {page - 1, page + 1} \cap Pages : p > page => page * PageSize < list.total}

ReaderPane == IF reading THEN "skeleton" ELSE IF error THEN "error"
              ELSE IF shown = None THEN "empty" ELSE "email"

\* The entries of the sidebar
Entries == {None} \cup {a \in Accounts : accounts[a] > 0}

-----------------------------------------------------------------------------
(* What the user does with the list and the reader. *)

\* The request of the reader stays the current one.
SelectAccount(a) ==
    /\ Click /\ a \in Entries
    /\ Choose(a, 1)
    /\ open' = None /\ shown' = None /\ error' = FALSE /\ UNCHANGED <<reading, reads>>
    /\ UNCHANGED <<server, accounts, polls, ops, deleted>>

ChangePage(p) ==
    /\ Click /\ p \in PageButtons
    /\ Choose(selected, p)
    /\ UNCHANGED <<server, accounts, reader, polls, ops, deleted>>

Refresh(q) ==
    /\ Click /\ Ask(q, TRUE) /\ UNCHANGED choice /\ Load(selected, page)
    /\ UNCHANGED <<server, accounts, reader, ops, deleted>>

\* loadEmail
Read(m) ==
    /\ reads' = {[r EXCEPT !.current = FALSE] : r \in reads} \cup {[email |-> m, current |-> TRUE]}
    /\ reading' = TRUE /\ error' = FALSE

SelectEmail(m) ==
    /\ Click /\ ListPane = "emails" /\ m \in list.items
    /\ open' = m /\ shown' = None /\ Read(m)
    /\ UNCHANGED <<server, accounts, choice, listing, polls, ops, deleted>>

RetryEmail ==
    /\ Click /\ ReaderPane = "error" /\ open # None
    /\ Read(open) /\ UNCHANGED <<open, shown>>
    /\ UNCHANGED <<server, accounts, choice, listing, polls, ops, deleted>>

Back ==
    /\ Click /\ ReaderPane = "email"
    /\ reads' = {[r EXCEPT !.current = FALSE] : r \in reads}
    /\ open' = None /\ shown' = None /\ reading' = FALSE /\ error' = FALSE
    /\ UNCHANGED <<server, accounts, choice, listing, polls, ops, deleted>>

\* Mutant of ReadArrives: requestID is not compared.
ReadArrivesAlways ==
    /\ \E r \in reads : reads' = reads \ {r} /\ shown' = r.email
    /\ reading' = FALSE
    /\ UNCHANGED <<server, accounts, choice, listing, open, error, polls, ops, clicks, deleted>>

\* GET /emails/{id}: the email, or an error when it is gone or the request fails.
ReadArrives ==
    /\ \E r \in reads :
          /\ reads' = reads \ {r}
          /\ IF r.current
             THEN /\ reading' = FALSE
                  /\ \/ shown' = r.email /\ UNCHANGED error
                     \/ shown' = None /\ error' = TRUE
             ELSE UNCHANGED <<shown, reading, error>>
    /\ UNCHANGED <<server, accounts, choice, listing, open, polls, ops, clicks, deleted>>

-----------------------------------------------------------------------------
(* Operations on accounts. *)

\* The handler closes over the state of this render.  The manager's buttons are
\* disabled while it is busy; the dialog stays until the account is created.
\* (After a synchronisation the manager stays busy a little longer than here,
\* until the lists have been loaded.)
Start(w, kind, a) ==
    /\ Click /\ ops[w].kind = "none"
    /\ CASE w = "manager" -> kind \in {"sync", "delete"} /\ a \in Accounts /\ accounts[a] > 0
         [] w = "dialog"  -> kind = "create" /\ a = None
    /\ ops' = [ops EXCEPT ![w] = [kind |-> kind, step |-> "sent", account |-> a,
                                  selected |-> selected, page |-> page, shown |-> shown]]
    /\ UNCHANGED <<server, accounts, choice, listing, reader, polls, deleted>>

\* createAccount after its await
Created(w) ==
    /\ ops[w].kind = "create" /\ ops[w].step = "ready"
    /\ accounts' = [accounts EXCEPT ![ops[w].account] = @ + 1]
    /\ UNCHANGED choice /\ Load(ops[w].selected, 1)
    /\ ops' = [ops EXCEPT ![w] = NoOp]
    /\ UNCHANGED <<server, reader, polls, clicks, deleted>>

\* syncAccount after its await
Synced(w, q) ==
    /\ ops[w].kind = "sync" /\ ops[w].step = "ready"
    /\ Ask(q, TRUE) /\ UNCHANGED choice /\ Load(ops[w].selected, ops[w].page)
    /\ ops' = [ops EXCEPT ![w] = NoOp]
    /\ UNCHANGED <<server, accounts, reader, clicks, deleted>>

\* Mutant of Deleted: the list is loaded again only by the effect.
DeletedQuietly(w) ==
    /\ ops[w].kind = "delete" /\ ops[w].step = "ready"
    /\ LET a == ops[w].account
           back == ops[w].selected = a
       IN /\ selected' = IF back THEN None ELSE selected
          /\ page' = IF back THEN 1 ELSE page
          /\ IF back \/ (ops[w].shown # None /\ ops[w].shown[2] = a)
             THEN open' = None /\ shown' = None ELSE UNCHANGED <<open, shown>>
          /\ error' = (error /\ ~back)
          /\ accounts' = [accounts EXCEPT ![a] = 0] /\ deleted' = deleted \cup {a}
    /\ ops' = [ops EXCEPT ![w] = NoOp]
    /\ UNCHANGED <<server, ran, listing, reading, reads, polls, clicks>>

\* deleteAccount after its await
Deleted(w) ==
    /\ ops[w].kind = "delete" /\ ops[w].step = "ready"
    /\ LET a == ops[w].account
           back == ops[w].selected = a
       IN /\ selected' = IF back THEN None ELSE selected
          /\ page' = IF back THEN 1 ELSE page
          /\ IF back \/ (ops[w].shown # None /\ ops[w].shown[2] = a)
             THEN open' = None /\ shown' = None ELSE UNCHANGED <<open, shown>>
          /\ error' = (error /\ ~back)
          /\ accounts' = [accounts EXCEPT ![a] = 0] /\ deleted' = deleted \cup {a}
          /\ Load(IF back THEN None ELSE ops[w].selected, 1)
    /\ ops' = [ops EXCEPT ![w] = NoOp]
    /\ UNCHANGED <<server, ran, reading, reads, polls, clicks>>

\* The server refuses, or the answer is lost.
OpFails(w) ==
    /\ ops[w].kind # "none" /\ ops' = [ops EXCEPT ![w] = NoOp]
    /\ UNCHANGED <<server, accounts, choice, listing, reader, polls, clicks, deleted>>

-----------------------------------------------------------------------------
User ==
    \/ \E a \in Selections : SelectAccount(a)
    \/ \E p \in Pages : ChangePage(p)
    \/ \E m \in Emails : SelectEmail(m)
    \/ \E q \in Polls : Refresh(q)
    \/ RetryEmail \/ Back
    \/ \E w \in {"manager", "dialog"}, kind \in {"sync", "delete", "create"}, a \in Selections :
          Start(w, kind, a)

Answers ==
    \/ Effect \/ ServeList \/ ListArrives \/ ListFails \/ ReadArrives
    \/ \E q \in Polls : ServePoll(q) \/ PollArrives(q) \/ PollFails(q)
    \/ \E w \in {"manager", "dialog"} :
          ServeOp(w) \/ Created(w) \/ (\E q \in Polls : Synced(w, q)) \/ Deleted(w) \/ OpFails(w)

Next == Deliver \/ User \/ Answers \/ \E q \in Polls : Poll(q)

Spec == Init /\ [][Next]_vars

-----------------------------------------------------------------------------
(* Properties. *)

\* The type of every variable.
TypeOK ==
    /\ existing \subseteq used /\ used \subseteq Accounts
    /\ mail \subseteq Emails /\ arrived \in 0 .. MaxEmails
    /\ accounts \in [Accounts -> 0 .. 2]
    /\ selected \in Selections /\ page \in Pages /\ ran \in Selections \X Pages
    /\ list \in [account : Selections, page : Pages, items : SUBSET Emails, total : 0 .. MaxEmails]
    /\ \A r \in lists :
          /\ r.account \in Selections /\ r.page \in Pages
          /\ r.current \in BOOLEAN /\ r.ready \in BOOLEAN
          /\ r.items \subseteq Emails /\ r.total \in 0 .. MaxEmails
    /\ loading \in BOOLEAN /\ failed \in BOOLEAN /\ fits \in BOOLEAN
    /\ open \in Emails \cup {None} /\ shown \in Emails \cup {None}
    /\ reading \in BOOLEAN /\ error \in BOOLEAN
    /\ reads \subseteq [email : Emails, current : BOOLEAN]
    /\ polls \in [Polls -> [step : {"free", "sent", "ready"}, loud : BOOLEAN,
                            accounts : SUBSET Accounts]]
    /\ \A w \in DOMAIN ops :
          ops[w].kind \in {"none", "sync", "delete", "create"}
          /\ ops[w].step \in {"none", "sent", "ready"} /\ ops[w].account \in Selections
    /\ clicks \in 0 .. MaxClicks /\ deleted \subseteq used

\* Nothing is loading, nothing failed and no effect is due: what is on the screen
\* stays there.
Rest == ~loading /\ ~failed /\ ran = <<selected, page>>

\* The list at rest is that of the selected account, whatever order the requests
\* of earlier selections are answered in (App.tsx: listRequestID and the effect
\* on selectedAccountID), unless an operation on accounts has loaded the list
\* of the selection it had closed over.
SelectionShown == Rest /\ fits => list.account = selected

\* The list at rest is the page that the footer names, also after an operation
\* has loaded page 1 (loadEmails: setPage(result.page)).
PageShown == Rest => list.page = page

\* Both of them.
ListShown == SelectionShown /\ PageShown

\* After a deletion the list at rest shows no email of the account, also when a
\* request made before the deletion is answered after it.
DeletedGone == Rest => \A m \in list.items : m[2] \notin deleted

\* The reader never shows an email while another one is highlighted, whatever
\* order the answers come in (App.tsx: emailRequestID), and has something to
\* show then: on a narrow screen, where it takes the place of the list, the
\* empty reader has no way back.
ReaderMatches == open # None => shown \in {None, open} /\ ReaderPane # "empty"

\* While the list or the reader shows that it is loading, the request whose end
\* will clear it is still in flight, whatever was answered, lost or superseded
\* (the finally blocks of loadEmails and loadEmail).
LoadingAwaited ==
    /\ loading => \E r \in lists : r.current
    /\ reading => \E r \in reads : r.current

-----------------------------------------------------------------------------
(* The promise of the two panes (OneRequest). *)

\* The list: its account and page, as asked for by the current request.
ListQuestion == {<<r.account, r.page>> : r \in {s \in lists : s.current}}
ListPart == INSTANCE OneRequest
    WITH Questions <- Selections \X Pages, Nothing <- <<None, None>>,
         asked <- ListQuestion, pane <- <<list.account, list.page>>

\* The reader: the email that its current request asked for.
ReaderQuestion == {r.email : r \in {s \in reads : s.current}}
ReaderPart == INSTANCE OneRequest
    WITH Questions <- Emails, Nothing <- None,
         asked <- ReaderQuestion, loading <- reading, failed <- error, pane <- shown

\* Whatever is in flight, in whatever order it is answered or lost, each pane behaves
\* as if its last request were its only one: no answer, failure or cleared flag of
\* another is ever seen (App.tsx: listRequestID, emailRequestID).
ImplementsOneRequest == ListPart!Spec /\ ReaderPart!Spec
=============================================================================
