---------------------------- MODULE InboxProofs ----------------------------
(***************************************************************************)
(* Proofs about Inbox, for any number of accounts, emails, clicks and      *)
(* requests in flight and any size of a page.                              *)
(***************************************************************************)
EXTENDS Inbox, FiniteSetTheorems, TLAPS

ListRequests ==
    [account : Selections, page : Pages, current : BOOLEAN, ready : BOOLEAN,
     items : SUBSET Emails, total : 0 .. MaxEmails]

Shown == [account : Selections, page : Pages, items : SUBSET Emails, total : 0 .. MaxEmails]

PollStates == [step : {"free", "sent", "ready"}, loud : BOOLEAN, accounts : SUBSET Accounts]

OpStates ==
    [kind : {"none", "sync", "delete", "create"}, step : {"none", "sent", "ready"},
     account : Selections, selected : Selections, page : Pages, shown : Emails \cup {None}]

\* Emails are of accounts that exist, an id is used once, and a deleted account
\* does not come back.
ServerInv ==
    /\ existing \subseteq used /\ used \subseteq Accounts
    /\ mail \subseteq Emails /\ arrived \in 0 .. MaxEmails
    /\ IsFiniteSet(mail) /\ Cardinality(mail) <= arrived
    /\ \A m \in mail : m[2] \in existing
    /\ deleted \subseteq used \ existing

\* What the browser knows of accounts, it knows from the server.
AccountsInv ==
    /\ accounts \in [Accounts -> 0 .. 2]
    /\ \A a \in Accounts : accounts[a] > 0 => a \in used

PollInv ==
    /\ polls \in [Polls -> PollStates]
    /\ \A q \in Polls : polls[q].accounts \subseteq used

\* An answered creation is of an account that only a poll may have brought, and
\* an answered deletion of one that is gone.
OpInv ==
    /\ ops \in [{"manager", "dialog"} -> OpStates]
    /\ ops["manager"].kind # "create" /\ ops["dialog"].kind \in {"none", "create"}
    /\ \A w \in {"manager", "dialog"} :
          /\ ops[w].kind \in {"sync", "delete"} => ops[w].account \in Accounts
          /\ ops[w].kind = "create" /\ ops[w].step = "ready" =>
                ops[w].account \in used /\ accounts[ops[w].account] <= 1
          /\ ops[w].kind = "delete" /\ ops[w].step = "ready" => ops[w].account \in used \ existing

\* The current request for the list is one for the selection if fits says so, and
\* brings no email of a deleted account; what is shown came with the last one.
ListInv ==
    /\ selected \in Selections /\ page \in Pages /\ ran \in Selections \X Pages
    /\ list \in Shown /\ lists \subseteq ListRequests
    /\ loading \in BOOLEAN /\ failed \in BOOLEAN /\ fits \in BOOLEAN
    /\ loading => \E r \in lists : r.current
    /\ fits => \A r \in lists : r.current => r.account = selected
    /\ ~loading /\ ~failed => list.page = page /\ (fits => list.account = selected)
    /\ \A r \in lists : r.current => \A m \in r.items : m[2] \notin deleted
    /\ ~loading => \A m \in list.items : m[2] \notin deleted

\* The current request of the reader is for the highlighted email.
ReaderInv ==
    /\ open \in Emails \cup {None} /\ shown \in Emails \cup {None}
    /\ reading \in BOOLEAN /\ error \in BOOLEAN
    /\ reads \subseteq [email : Emails, current : BOOLEAN]
    /\ reading => \E r \in reads : r.current
    /\ \A r \in reads : r.current => open \in {None, r.email}
    /\ open # None => shown \in {None, open} /\ (reading \/ error \/ shown # None)

\* The inductive invariant.
Inv ==
    /\ ServerInv /\ AccountsInv /\ PollInv /\ OpInv /\ ListInv /\ ReaderInv
    /\ clicks \in 0 .. MaxClicks

-----------------------------------------------------------------------------
(* Requests for the list and for accounts. *)

\* A new request for the list is the only current one.
LEMMA Loaded ==
    ASSUME ListInv, NEW a \in Selections, NEW p \in Pages, Load(a, p),
           selected' \in Selections, page' \in Pages, ran' \in Selections \X Pages
    PROVE  ListInv'
<1>1. Request(a, p) \in ListRequests /\ Request(a, p).account = a /\ Request(a, p).items = {}
      /\ Request(a, p).current
  BY SizeAssumption DEF Request, ListRequests
<1>2. \A r \in lists : [Request(r.account, r.page) EXCEPT !.current = FALSE] \in ListRequests
                       /\ ~[Request(r.account, r.page) EXCEPT !.current = FALSE].current
  <2> SUFFICES ASSUME NEW r \in lists
               PROVE  LET q == [Request(r.account, r.page) EXCEPT !.current = FALSE]
                      IN q \in ListRequests /\ ~q.current
    OBVIOUS
  <2>1. r.account \in Selections /\ r.page \in Pages
    BY DEF ListInv, ListRequests
  <2>2. Request(r.account, r.page) \in ListRequests
    BY <2>1, SizeAssumption DEF Request, ListRequests
  <2>3. \A q \in ListRequests :
           [q EXCEPT !.current = FALSE] \in ListRequests /\ ~[q EXCEPT !.current = FALSE].current
    BY DEF ListRequests
  <2> QED
    BY <2>2, <2>3
<1>3. lists' = {[Request(r.account, r.page) EXCEPT !.current = FALSE] : r \in lists} \cup {Request(a, p)}
      /\ loading' = TRUE /\ failed' = FALSE /\ fits' = (a = selected') /\ list' = list
  BY DEF Load
<1>4. lists' \subseteq ListRequests /\ Request(a, p) \in lists'
      /\ \A r \in lists' : r.current => r = Request(a, p)
  BY <1>1, <1>2, <1>3
<1>5. fits' \in BOOLEAN
  BY <1>3
<1> QED
  BY <1>1, <1>3, <1>4, <1>5 DEF ListInv

\* A click that chooses a selection and a page.
LEMMA Chosen ==
    ASSUME ListInv, NEW a \in Selections, NEW p \in Pages, Click, Choose(a, p), UNCHANGED deleted
    PROVE  ListInv'
<1>1. selected' = a /\ page' = p /\ ran' = <<a, p>>
  BY DEF Choose
<1>2. CASE ran # <<a, p>>
  BY <1>1, <1>2, Loaded DEF Choose
<1>3. CASE ran = <<a, p>>
  <2>1. ran = <<selected, page>>
    BY DEF Click
  <2>2. selected = a /\ page = p
    BY <2>1, <1>3
  <2> QED
    BY <1>1, <1>3, <2>2 DEF Choose, ListInv, listing
<1> QED
  BY <1>2, <1>3

\* A request for the accounts.
LEMMA Asked ==
    ASSUME PollInv, NEW q \in Polls, NEW loud \in BOOLEAN, Ask(q, loud), UNCHANGED used
    PROVE  PollInv'
<1>1. [NoPoll EXCEPT !.step = "sent", !.loud = loud] \in PollStates
      /\ [NoPoll EXCEPT !.step = "sent", !.loud = loud].accounts = {}
  BY DEF NoPoll, PollStates
<1> QED
  BY <1>1 DEF Ask, PollInv

\* An operation that ends.
LEMMA OpEnds ==
    ASSUME OpInv, NEW w \in {"manager", "dialog"}, ops' = [ops EXCEPT ![w] = NoOp],
           UNCHANGED <<existing, used>>,
           \A v \in {"manager", "dialog"} \ {w} : ops[v].kind = "create" => accounts' = accounts
    PROVE  OpInv'
<1>1. NoOp \in OpStates /\ NoOp.kind = "none"
  BY SizeAssumption DEF NoOp, OpStates, Selections, Pages
<1> QED
  BY <1>1 DEF OpInv

\* A request of the reader for an email that becomes, or is, the highlighted one.
LEMMA ReadAsked ==
    ASSUME ReaderInv, NEW m \in Emails, Read(m), open' = m, shown' \in {None, m}
    PROVE  ReaderInv'
<1>1. \A r \in [email : Emails, current : BOOLEAN] :
         LET q == [r EXCEPT !.current = FALSE]
         IN q \in [email : Emails, current : BOOLEAN] /\ ~q.current
  OBVIOUS
<1>2. [email |-> m, current |-> TRUE] \in [email : Emails, current : BOOLEAN]
      /\ [email |-> m, current |-> TRUE].email = m /\ [email |-> m, current |-> TRUE].current
  OBVIOUS
<1>3. /\ reads' \subseteq [email : Emails, current : BOOLEAN]
      /\ [email |-> m, current |-> TRUE] \in reads'
      /\ \A r \in reads' : r.current => r = [email |-> m, current |-> TRUE]
  BY <1>1, <1>2 DEF Read, ReaderInv
<1>4. reading' = TRUE /\ error' = FALSE
  BY DEF Read
<1> QED
  BY <1>2, <1>3, <1>4 DEF ReaderInv

\* One email more, at most.
LEMMA OneMore ==
    ASSUME NEW S, IsFiniteSet(S), NEW x
    PROVE  /\ IsFiniteSet(S \cup {x})
           /\ Cardinality(S \cup {x}) <= Cardinality(S) + 1 /\ Cardinality(S) \in Nat
<1>1. Cardinality(S) \in Nat
  BY FS_CardinalityType
<1> QED
  BY <1>1, FS_AddElement

\* A list of accounts that is changed at one of them.
LEMMA Counted ==
    ASSUME NEW f \in [Accounts -> 0 .. 2], NEW a, NEW n \in 0 .. 2
    PROVE  [f EXCEPT ![a] = n] \in [Accounts -> 0 .. 2]
OBVIOUS

\* A list that is filled with other emails.
LEMMA Filled ==
    ASSUME NEW s \in Shown, NEW e \in SUBSET Emails, NEW n \in 0 .. MaxEmails,
           NEW t, t = [s EXCEPT !.items = e, !.total = n]
    PROVE  t \in Shown /\ t.items = e
BY DEF Shown

-----------------------------------------------------------------------------
(* The steps.                                                                *)
\* The initial state satisfies Inv.
LEMMA InitInv == Init => Inv
<1> SUFFICES ASSUME Init PROVE Inv
  OBVIOUS
<1> USE SizeAssumption DEF Init
<1>1. ServerInv
  BY FS_EmptySet DEF ServerInv
<1>2. AccountsInv
  BY DEF AccountsInv
<1>3. PollInv
  <2>1. NoPoll \in PollStates /\ [NoPoll EXCEPT !.step = "sent", !.loud = TRUE] \in PollStates
        /\ NoPoll.accounts = {} /\ [NoPoll EXCEPT !.step = "sent", !.loud = TRUE].accounts = {}
    BY DEF NoPoll, PollStates
  <2> QED
    BY <2>1 DEF PollInv
<1>4. OpInv
  <2>1. NoOp \in OpStates /\ NoOp.kind = "none"
    BY DEF NoOp, OpStates, Selections, Pages
  <2> QED
    BY <2>1 DEF OpInv
<1>5. ListInv
  <2>1. Request(None, 1) \in ListRequests /\ Request(None, 1).current /\ Request(None, 1).items = {}
        /\ Request(None, 1).account = None
    BY DEF Request, ListRequests, Selections, Pages
  <2>2. list \in Shown
    BY DEF Shown, Selections, Pages
  <2>3. ran \in Selections \X Pages /\ selected \in Selections /\ page \in Pages
    BY DEF Selections, Pages
  <2> QED
    BY <2>1, <2>2, <2>3 DEF ListInv
<1>6. ReaderInv
  BY DEF ReaderInv
<1> QED
  BY <1>1, <1>2, <1>3, <1>4, <1>5, <1>6 DEF Inv

\* Every step keeps Inv.
LEMMA StepInv == Inv /\ [Next]_vars => Inv'
<1> SUFFICES ASSUME Inv, [Next]_vars PROVE Inv'
  OBVIOUS
<1> USE DEF Inv
<1>1. ASSUME Deliver PROVE Inv'
  <2> USE <1>1 DEF Deliver
  <2>1. ServerInv'
    <3>1. PICK a \in existing : mail' = mail \cup {<<arrived + 1, a>>}
      OBVIOUS
    <3>2. <<arrived + 1, a>> \in Emails /\ <<arrived + 1, a>>[2] = a
      BY SizeAssumption DEF ServerInv, Emails
    <3>3. IsFiniteSet(mail') /\ Cardinality(mail') <= Cardinality(mail) + 1 /\ Cardinality(mail) \in Nat
      BY <3>1, OneMore DEF ServerInv
    <3>4. Cardinality(mail') \in Nat
      BY <3>3, FS_CardinalityType
    <3>5. /\ arrived' = arrived + 1 /\ arrived < MaxEmails
          /\ UNCHANGED <<existing, used, deleted>>
      OBVIOUS
    <3>6. arrived' \in 0 .. MaxEmails /\ Cardinality(mail') <= arrived'
      BY <3>3, <3>4, <3>5, SizeAssumption DEF ServerInv
    <3>7. mail' \subseteq Emails /\ \A m \in mail' : m[2] \in existing
      BY <3>1, <3>2 DEF ServerInv
    <3> QED
      BY <3>3, <3>5, <3>6, <3>7 DEF ServerInv
  <2>2. AccountsInv'
    BY DEF AccountsInv, server, choice, listing, reader
  <2>3. PollInv'
    BY DEF PollInv, server, choice, listing, reader
  <2>4. OpInv'
    BY DEF OpInv, server, choice, listing, reader
  <2>5. ListInv'
    BY DEF ListInv, server, choice, listing, reader
  <2>6. ReaderInv'
    BY DEF ReaderInv, server, choice, listing, reader
  <2>7. clicks' \in 0 .. MaxClicks
    BY SizeAssumption DEF Click
  <2> QED
    BY <2>1, <2>2, <2>3, <2>4, <2>5, <2>6, <2>7
<1>2. ASSUME NEW a \in Selections, SelectAccount(a) PROVE Inv'
  <2> USE <1>2 DEF SelectAccount
  <2>1. ServerInv'
    BY DEF ServerInv, server, choice, listing, reader
  <2>2. AccountsInv'
    BY DEF AccountsInv, server, choice, listing, reader
  <2>3. PollInv'
    BY DEF PollInv, server, choice, listing, reader
  <2>4. OpInv'
    BY DEF OpInv, server, choice, listing, reader
  <2>5. ListInv'
    <3>1. 1 \in Pages
      BY SizeAssumption DEF Pages
    <3> QED
      BY <3>1, Chosen
  <2>6. ReaderInv'
    BY DEF ReaderInv, server, choice, listing, reader
  <2>7. clicks' \in 0 .. MaxClicks
    BY SizeAssumption DEF Click
  <2> QED
    BY <2>1, <2>2, <2>3, <2>4, <2>5, <2>6, <2>7
<1>3. ASSUME NEW p \in Pages, ChangePage(p) PROVE Inv'
  <2> USE <1>3 DEF ChangePage
  <2>1. ServerInv'
    BY DEF ServerInv, server, choice, listing, reader
  <2>2. AccountsInv'
    BY DEF AccountsInv, server, choice, listing, reader
  <2>3. PollInv'
    BY DEF PollInv, server, choice, listing, reader
  <2>4. OpInv'
    BY DEF OpInv, server, choice, listing, reader
  <2>5. ListInv'
    BY Chosen DEF ListInv
  <2>6. ReaderInv'
    BY DEF ReaderInv, server, choice, listing, reader
  <2>7. clicks' \in 0 .. MaxClicks
    BY SizeAssumption DEF Click
  <2> QED
    BY <2>1, <2>2, <2>3, <2>4, <2>5, <2>6, <2>7
<1>4. ASSUME NEW m \in Emails, SelectEmail(m) PROVE Inv'
  <2> USE <1>4 DEF SelectEmail
  <2>1. ServerInv'
    BY DEF ServerInv, server, choice, listing, reader
  <2>2. AccountsInv'
    BY DEF AccountsInv, server, choice, listing, reader
  <2>3. PollInv'
    BY DEF PollInv, server, choice, listing, reader
  <2>4. OpInv'
    BY DEF OpInv, server, choice, listing, reader
  <2>5. ListInv'
    BY DEF ListInv, server, choice, listing, reader
  <2>6. ReaderInv'
    BY ReadAsked
  <2>7. clicks' \in 0 .. MaxClicks
    BY SizeAssumption DEF Click
  <2> QED
    BY <2>1, <2>2, <2>3, <2>4, <2>5, <2>6, <2>7
<1>5. ASSUME NEW q \in Polls, Refresh(q) PROVE Inv'
  <2> USE <1>5 DEF Refresh
  <2>1. ServerInv'
    BY DEF ServerInv, server, choice, listing, reader
  <2>2. AccountsInv'
    BY DEF AccountsInv, server, choice, listing, reader
  <2>3. PollInv'
    BY Asked DEF server
  <2>4. OpInv'
    BY DEF OpInv, server, choice, listing, reader
  <2>5. ListInv'
    BY Loaded DEF ListInv, choice
  <2>6. ReaderInv'
    BY DEF ReaderInv, server, choice, listing, reader
  <2>7. clicks' \in 0 .. MaxClicks
    BY SizeAssumption DEF Click
  <2> QED
    BY <2>1, <2>2, <2>3, <2>4, <2>5, <2>6, <2>7
<1>6. ASSUME RetryEmail PROVE Inv'
  <2> USE <1>6 DEF RetryEmail
  <2>1. ServerInv'
    BY DEF ServerInv, server, choice, listing, reader
  <2>2. AccountsInv'
    BY DEF AccountsInv, server, choice, listing, reader
  <2>3. PollInv'
    BY DEF PollInv, server, choice, listing, reader
  <2>4. OpInv'
    BY DEF OpInv, server, choice, listing, reader
  <2>5. ListInv'
    BY DEF ListInv, server, choice, listing, reader
  <2>6. ReaderInv'
    <3>1. open \in Emails /\ open' = open /\ shown' \in {None, open} /\ Read(open)
      BY DEF ReaderInv
    <3> QED
      BY <3>1, ReadAsked
  <2>7. clicks' \in 0 .. MaxClicks
    BY SizeAssumption DEF Click
  <2> QED
    BY <2>1, <2>2, <2>3, <2>4, <2>5, <2>6, <2>7
<1>7. ASSUME Back PROVE Inv'
  <2> USE <1>7 DEF Back
  <2>1. ServerInv'
    BY DEF ServerInv, server, choice, listing, reader
  <2>2. AccountsInv'
    BY DEF AccountsInv, server, choice, listing, reader
  <2>3. PollInv'
    BY DEF PollInv, server, choice, listing, reader
  <2>4. OpInv'
    BY DEF OpInv, server, choice, listing, reader
  <2>5. ListInv'
    BY DEF ListInv, server, choice, listing, reader
  <2>6. ReaderInv'
    BY DEF ReaderInv
  <2>7. clicks' \in 0 .. MaxClicks
    BY SizeAssumption DEF Click
  <2> QED
    BY <2>1, <2>2, <2>3, <2>4, <2>5, <2>6, <2>7
<1>8. ASSUME NEW w \in {"manager", "dialog"}, NEW kind \in {"sync", "delete", "create"}, NEW a \in Selections, Start(w, kind, a) PROVE Inv'
  <2> USE <1>8 DEF Start
  <2>1. ServerInv'
    BY DEF ServerInv, server, choice, listing, reader
  <2>2. AccountsInv'
    BY DEF AccountsInv, server, choice, listing, reader
  <2>3. PollInv'
    BY DEF PollInv, server, choice, listing, reader
  <2>4. OpInv'
    <3> DEFINE op == [kind |-> kind, step |-> "sent", account |-> a,
                      selected |-> selected, page |-> page, shown |-> shown]
    <3>1. op \in OpStates /\ op.kind = kind /\ op.account = a /\ op.step = "sent"
      BY DEF OpStates, ListInv, ReaderInv
    <3>2. ops' = [ops EXCEPT ![w] = op]
          /\ (w = "manager" => kind \in {"sync", "delete"} /\ a \in Accounts)
          /\ (w = "dialog" => kind = "create")
      OBVIOUS
    <3> HIDE DEF op
    <3> QED
      BY <3>1, <3>2 DEF OpInv, server
  <2>5. ListInv'
    BY DEF ListInv, server, choice, listing, reader
  <2>6. ReaderInv'
    BY DEF ReaderInv, server, choice, listing, reader
  <2>7. clicks' \in 0 .. MaxClicks
    BY SizeAssumption DEF Click
  <2> QED
    BY <2>1, <2>2, <2>3, <2>4, <2>5, <2>6, <2>7
<1>9. ASSUME Effect PROVE Inv'
  <2> USE <1>9 DEF Effect
  <2>1. ServerInv'
    BY DEF ServerInv, server, choice, listing, reader
  <2>2. AccountsInv'
    BY DEF AccountsInv, server, choice, listing, reader
  <2>3. PollInv'
    BY DEF PollInv, server, choice, listing, reader
  <2>4. OpInv'
    BY DEF OpInv, server, choice, listing, reader
  <2>5. ListInv'
    <3>1. ran' \in Selections \X Pages
      BY DEF ListInv
    <3> QED
      BY <3>1, Loaded DEF ListInv
  <2>6. ReaderInv'
    BY DEF ReaderInv, server, choice, listing, reader
  <2>7. clicks' \in 0 .. MaxClicks
    BY SizeAssumption DEF Click
  <2> QED
    BY <2>1, <2>2, <2>3, <2>4, <2>5, <2>6, <2>7
<1>10. ASSUME ServeList PROVE Inv'
  <2> USE <1>10 DEF ServeList
  <2>1. ServerInv'
    BY DEF ServerInv, server, choice, listing, reader
  <2>2. AccountsInv'
    BY DEF AccountsInv, server, choice, listing, reader
  <2>3. PollInv'
    BY DEF PollInv, server, choice, listing, reader
  <2>4. OpInv'
    BY DEF OpInv, server, choice, listing, reader
  <2>5. ListInv'
    <3>1. PICK r \in lists :
            /\ r.current
            /\ lists' = (lists \ {r}) \cup
                  {[r EXCEPT !.ready = TRUE, !.items = PageOf(r.account, r.page),
                             !.total = Cardinality(Matching(r.account))]}
      OBVIOUS
    <3>2. Matching(r.account) \subseteq mail /\ PageOf(r.account, r.page) \subseteq mail
      BY DEF Matching, PageOf
    <3>3. Cardinality(Matching(r.account)) \in 0 .. MaxEmails
      BY <3>2, FS_Subset, FS_CardinalityType, SizeAssumption DEF ServerInv
    <3>4. \A x \in PageOf(r.account, r.page) : x[2] \notin deleted
      BY <3>2 DEF ServerInv
    <3>5. PageOf(r.account, r.page) \in SUBSET Emails
      BY <3>2 DEF ServerInv
    <3> DEFINE n == Cardinality(Matching(r.account))
               s == PageOf(r.account, r.page)
               t == [r EXCEPT !.ready = TRUE, !.items = s, !.total = n]
    <3>6. t \in ListRequests /\ t.current /\ t.account = r.account /\ t.items = s
      <4> HIDE DEF n, s
      <4>1. n \in 0 .. MaxEmails /\ s \in SUBSET Emails /\ r \in ListRequests
        BY <3>3, <3>5 DEF n, s, ListInv
      <4> QED
        BY <4>1, <3>1 DEF ListRequests
    <3>7. lists' = (lists \ {r}) \cup {t} /\ \A x \in t.items : x[2] \notin deleted
      BY <3>1, <3>4, <3>6
    <3> HIDE DEF t
    <3> QED
      BY <3>1, <3>6, <3>7 DEF ListInv, choice
  <2>6. ReaderInv'
    BY DEF ReaderInv, server, choice, listing, reader
  <2>7. clicks' \in 0 .. MaxClicks
    BY SizeAssumption DEF Click
  <2> QED
    BY <2>1, <2>2, <2>3, <2>4, <2>5, <2>6, <2>7
<1>11. ASSUME ListArrives PROVE Inv'
  <2> USE <1>11 DEF ListArrives
  <2>1. ServerInv'
    BY DEF ServerInv, server, choice, listing, reader
  <2>2. AccountsInv'
    BY DEF AccountsInv, server, choice, listing, reader
  <2>3. PollInv'
    BY DEF PollInv, server, choice, listing, reader
  <2>4. OpInv'
    BY DEF OpInv, server, choice, listing, reader
  <2>5. ListInv'
    <3>1. PICK r \in lists :
            /\ lists' = lists \ {r}
            /\ IF r.current
               THEN /\ list' = [account |-> r.account, page |-> r.page, items |-> r.items, total |-> r.total]
                    /\ page' = r.page /\ loading' = FALSE
               ELSE UNCHANGED <<list, page, loading>>
      OBVIOUS
    <3>2. r \in ListRequests
      BY DEF ListInv
    <3>3. CASE r.current
      <4>1. list' \in Shown /\ list'.account = r.account /\ list'.page = r.page /\ list'.items = r.items
            /\ page' \in Pages
        BY <3>1, <3>2, <3>3 DEF ListRequests, Shown
      <4> QED
        BY <3>1, <3>3, <4>1 DEF ListInv
    <3>4. CASE ~r.current
      BY <3>1, <3>4 DEF ListInv
    <3> QED
      BY <3>3, <3>4
  <2>6. ReaderInv'
    BY DEF ReaderInv, server, choice, listing, reader
  <2>7. clicks' \in 0 .. MaxClicks
    BY SizeAssumption DEF Click
  <2> QED
    BY <2>1, <2>2, <2>3, <2>4, <2>5, <2>6, <2>7
<1>12. ASSUME ListFails PROVE Inv'
  <2> USE <1>12 DEF ListFails
  <2>1. ServerInv'
    BY DEF ServerInv, server, choice, listing, reader
  <2>2. AccountsInv'
    BY DEF AccountsInv, server, choice, listing, reader
  <2>3. PollInv'
    BY DEF PollInv, server, choice, listing, reader
  <2>4. OpInv'
    BY DEF OpInv, server, choice, listing, reader
  <2>5. ListInv'
    <3>1. PICK r \in lists :
            /\ lists' = lists \ {r}
            /\ IF r.current
               THEN /\ failed' = TRUE /\ list' = [list EXCEPT !.items = {}, !.total = 0]
                    /\ loading' = FALSE
               ELSE UNCHANGED <<list, loading, failed>>
      OBVIOUS
    <3>2. CASE r.current
      <4>1. list \in Shown
        BY DEF ListInv
      <4>2. list' \in Shown /\ list'.items = {}
        <5>1. 0 \in 0 .. MaxEmails /\ {} \in SUBSET Emails
          BY SizeAssumption
        <5>2. list' = [list EXCEPT !.items = {}, !.total = 0]
          BY <3>1, <3>2
        <5> QED
          BY <4>1, <5>1, <5>2, Filled, Zenon
      <4> QED
        BY <3>1, <3>2, <4>2 DEF ListInv, choice
    <3>3. CASE ~r.current
      BY <3>1, <3>3 DEF ListInv, choice
    <3> QED
      BY <3>2, <3>3
  <2>6. ReaderInv'
    BY DEF ReaderInv, server, choice, listing, reader
  <2>7. clicks' \in 0 .. MaxClicks
    BY SizeAssumption DEF Click
  <2> QED
    BY <2>1, <2>2, <2>3, <2>4, <2>5, <2>6, <2>7
<1>13. ASSUME ReadArrives PROVE Inv'
  <2> USE <1>13 DEF ReadArrives
  <2>1. ServerInv'
    BY DEF ServerInv, server, choice, listing, reader
  <2>2. AccountsInv'
    BY DEF AccountsInv, server, choice, listing, reader
  <2>3. PollInv'
    BY DEF PollInv, server, choice, listing, reader
  <2>4. OpInv'
    BY DEF OpInv, server, choice, listing, reader
  <2>5. ListInv'
    BY DEF ListInv, server, choice, listing, reader
  <2>6. ReaderInv'
    BY DEF ReaderInv
  <2>7. clicks' \in 0 .. MaxClicks
    BY SizeAssumption DEF Click
  <2> QED
    BY <2>1, <2>2, <2>3, <2>4, <2>5, <2>6, <2>7
<1>14. ASSUME NEW q \in Polls, ServePoll(q) PROVE Inv'
  <2> USE <1>14 DEF ServePoll
  <2>1. ServerInv'
    BY DEF ServerInv, server, choice, listing, reader
  <2>2. AccountsInv'
    BY DEF AccountsInv, server, choice, listing, reader
  <2>3. PollInv'
    BY DEF PollInv, PollStates, ServerInv, server
  <2>4. OpInv'
    BY DEF OpInv, server, choice, listing, reader
  <2>5. ListInv'
    BY DEF ListInv, server, choice, listing, reader
  <2>6. ReaderInv'
    BY DEF ReaderInv, server, choice, listing, reader
  <2>7. clicks' \in 0 .. MaxClicks
    BY SizeAssumption DEF Click
  <2> QED
    BY <2>1, <2>2, <2>3, <2>4, <2>5, <2>6, <2>7
<1>15. ASSUME NEW q \in Polls, PollArrives(q) PROVE Inv'
  <2> USE <1>15 DEF PollArrives
  <2>1. ServerInv'
    BY DEF ServerInv, server, choice, listing, reader
  <2>2. AccountsInv'
    BY DEF AccountsInv, PollInv, server
  <2>3. PollInv'
    <3>1. NoPoll \in PollStates /\ NoPoll.accounts = {}
      BY DEF NoPoll, PollStates
    <3> QED
      BY <3>1 DEF PollInv, server
  <2>4. OpInv'
    <3>1. \A a \in Accounts : accounts'[a] <= 1
      OBVIOUS
    <3> QED
      BY <3>1 DEF OpInv, ServerInv, server
  <2>5. ListInv'
    BY DEF ListInv, server, choice, listing, reader
  <2>6. ReaderInv'
    BY DEF ReaderInv, server, choice, listing, reader
  <2>7. clicks' \in 0 .. MaxClicks
    BY SizeAssumption DEF Click
  <2> QED
    BY <2>1, <2>2, <2>3, <2>4, <2>5, <2>6, <2>7
<1>16. ASSUME NEW q \in Polls, PollFails(q) PROVE Inv'
  <2> USE <1>16 DEF PollFails
  <2>1. ServerInv'
    BY DEF ServerInv, server, choice, listing, reader
  <2>2. AccountsInv'
    BY DEF AccountsInv, server, choice, listing, reader
  <2>3. PollInv'
    <3>1. NoPoll \in PollStates /\ NoPoll.accounts = {}
      BY DEF NoPoll, PollStates
    <3> QED
      BY <3>1 DEF PollInv, server
  <2>4. OpInv'
    BY DEF OpInv, server, choice, listing, reader
  <2>5. ListInv'
    <3>1. failed' \in BOOLEAN
      BY Zenon
    <3>2. ~failed' => ~failed
      OBVIOUS
    <3> QED
      BY <3>1, <3>2 DEF ListInv, choice
  <2>6. ReaderInv'
    BY DEF ReaderInv, server, choice, listing, reader
  <2>7. clicks' \in 0 .. MaxClicks
    BY SizeAssumption DEF Click
  <2> QED
    BY <2>1, <2>2, <2>3, <2>4, <2>5, <2>6, <2>7
<1>17. ASSUME NEW w \in {"manager", "dialog"}, ServeOp(w) PROVE Inv'
  <2> USE <1>17 DEF ServeOp
  <2>1. ServerInv'
    <3>1. CASE ops[w].kind = "create"
      BY <3>1 DEF ServerInv
    <3>2. CASE ops[w].kind = "delete"
      <4>1. mail' \subseteq mail /\ \A m \in mail' : m[2] # ops[w].account
        BY <3>2
      <4>2. IsFiniteSet(mail') /\ Cardinality(mail') <= Cardinality(mail)
            /\ Cardinality(mail') \in Nat /\ Cardinality(mail) \in Nat
        BY <4>1, FS_Subset, FS_CardinalityType DEF ServerInv
      <4>3. existing' = existing \ {ops[w].account} /\ UNCHANGED <<used, arrived, deleted>>
        BY <3>2
      <4> QED
        BY <4>1, <4>2, <4>3, SizeAssumption DEF ServerInv
    <3>3. CASE ops[w].kind = "sync"
      BY <3>3 DEF ServerInv
    <3> QED
      BY <3>1, <3>2, <3>3
  <2>2. AccountsInv'
    <3>1. used \subseteq used' /\ accounts' = accounts
      OBVIOUS
    <3> QED
      BY <3>1 DEF AccountsInv
  <2>3. PollInv'
    <3>1. used \subseteq used' /\ polls' = polls
      OBVIOUS
    <3> QED
      BY <3>1 DEF PollInv
  <2>4. OpInv'
    <3>1. CASE ops[w].kind = "create"
      <4>1. PICK a \in Accounts \ used :
              /\ existing' = existing \cup {a} /\ used' = used \cup {a}
              /\ ops' = [ops EXCEPT ![w].step = "ready", ![w].account = a]
        BY <3>1
      <4>2. accounts[a] <= 1 /\ a \in Selections
        BY DEF AccountsInv, Selections
      <4>3. ops' \in [{"manager", "dialog"} -> OpStates]
        BY <4>1, <4>2 DEF OpInv, OpStates
      <4>4. /\ ops'[w].kind = "create" /\ ops'[w].account = a
            /\ \A v \in {"manager", "dialog"} : v # w => ops'[v] = ops[v]
        BY <3>1, <4>1 DEF OpInv, OpStates
      <4>5. \A v \in {"manager", "dialog"} :
               ops[v].kind = "delete" /\ ops[v].step = "ready" => ops[v].account \in used' \ existing'
        BY <4>1 DEF OpInv
      <4> QED
        BY <3>1, <4>1, <4>2, <4>3, <4>4, <4>5 DEF OpInv
    <3>2. CASE ops[w].kind \in {"sync", "delete"}
      <4>1. /\ ops' = [ops EXCEPT ![w].step = "ready"] /\ ops[w].account \in existing
            /\ UNCHANGED <<used, accounts>> /\ existing' \subseteq existing
            /\ ops[w].kind = "delete" => existing' = existing \ {ops[w].account}
        BY <3>2
      <4>2. ops' \in [{"manager", "dialog"} -> OpStates]
        BY <4>1 DEF OpInv, OpStates
      <4>3. /\ ops'[w].kind = ops[w].kind /\ ops'[w].account = ops[w].account
            /\ \A v \in {"manager", "dialog"} : v # w => ops'[v] = ops[v]
        BY <4>1 DEF OpInv, OpStates
      <4> QED
        BY <3>2, <4>1, <4>2, <4>3 DEF OpInv, ServerInv
    <3> QED
      BY <3>1, <3>2
  <2>5. ListInv'
    BY DEF ListInv, server, choice, listing, reader
  <2>6. ReaderInv'
    BY DEF ReaderInv, server, choice, listing, reader
  <2>7. clicks' \in 0 .. MaxClicks
    BY SizeAssumption DEF Click
  <2> QED
    BY <2>1, <2>2, <2>3, <2>4, <2>5, <2>6, <2>7
<1>18. ASSUME NEW w \in {"manager", "dialog"}, Created(w) PROVE Inv'
  <2> USE <1>18 DEF Created
  <2>1. ServerInv'
    BY DEF ServerInv, server, choice, listing, reader
  <2>2. AccountsInv'
    <3>1. accounts[ops[w].account] <= 1 /\ ops[w].account \in used
      BY DEF OpInv
    <3> QED
      BY <3>1 DEF AccountsInv, ServerInv, server
  <2>3. PollInv'
    BY DEF PollInv, server, choice, listing, reader
  <2>4. OpInv'
    <3>1. w = "dialog" /\ ops["manager"].kind # "create"
      BY DEF OpInv
    <3> QED
      BY <3>1, OpEnds DEF server
  <2>5. ListInv'
    <3>1. ops[w].selected \in Selections /\ 1 \in Pages
      BY SizeAssumption DEF OpInv, OpStates, Pages
    <3> QED
      BY <3>1, Loaded DEF ListInv, choice
  <2>6. ReaderInv'
    BY DEF ReaderInv, server, choice, listing, reader
  <2>7. clicks' \in 0 .. MaxClicks
    BY SizeAssumption DEF Click
  <2> QED
    BY <2>1, <2>2, <2>3, <2>4, <2>5, <2>6, <2>7
<1>19. ASSUME NEW w \in {"manager", "dialog"}, NEW q \in Polls, Synced(w, q) PROVE Inv'
  <2> USE <1>19 DEF Synced
  <2>1. ServerInv'
    BY DEF ServerInv, server, choice, listing, reader
  <2>2. AccountsInv'
    BY DEF AccountsInv, server, choice, listing, reader
  <2>3. PollInv'
    BY Asked DEF server
  <2>4. OpInv'
    BY OpEnds DEF server
  <2>5. ListInv'
    <3>1. ops[w].selected \in Selections /\ ops[w].page \in Pages
      BY DEF OpInv, OpStates
    <3> QED
      BY <3>1, Loaded DEF ListInv, choice
  <2>6. ReaderInv'
    BY DEF ReaderInv, server, choice, listing, reader
  <2>7. clicks' \in 0 .. MaxClicks
    BY SizeAssumption DEF Click
  <2> QED
    BY <2>1, <2>2, <2>3, <2>4, <2>5, <2>6, <2>7
<1>20. ASSUME NEW w \in {"manager", "dialog"}, Deleted(w) PROVE Inv'
  <2> USE <1>20 DEF Deleted
  <2>1. ServerInv'
    BY DEF ServerInv, OpInv, server
  <2>2. AccountsInv'
    <3>1. accounts' = [accounts EXCEPT ![ops[w].account] = 0] /\ used' = used
      BY DEF server
    <3>2. \A a \in Accounts : accounts'[a] \in {0, accounts[a]}
      BY <3>1 DEF AccountsInv
    <3>3. accounts' \in [Accounts -> 0 .. 2]
      BY <3>1, Counted DEF AccountsInv
    <3> QED
      BY <3>1, <3>2, <3>3 DEF AccountsInv
  <2>3. PollInv'
    BY DEF PollInv, server, choice, listing, reader
  <2>4. OpInv'
    <3>1. ops[w].account \in Accounts /\ ops' = [ops EXCEPT ![w] = NoOp]
          /\ accounts' = [accounts EXCEPT ![ops[w].account] = 0]
      BY DEF OpInv
    <3>2. \A a \in Accounts : accounts'[a] <= accounts[a] /\ accounts[a] \in 0 .. 2 /\ accounts'[a] \in 0 .. 2
      BY <3>1 DEF AccountsInv
    <3>3. NoOp \in OpStates /\ NoOp.kind = "none"
      BY SizeAssumption DEF NoOp, OpStates, Selections, Pages
    <3> QED
      BY <3>1, <3>2, <3>3 DEF OpInv, ServerInv, server
  <2>5. ListInv'
    <3>1. ops[w].selected \in Selections /\ 1 \in Pages /\ None \in Selections
      BY SizeAssumption DEF OpInv, OpStates, Pages, Selections
    <3>2. selected' \in Selections /\ page' \in Pages /\ ran' \in Selections \X Pages
      BY <3>1 DEF ListInv
    <3>3. PICK a \in Selections : Load(a, 1)
      BY <3>1
    <3> QED
      BY <3>1, <3>2, <3>3, Loaded
  <2>6. ReaderInv'
    <3>1. /\ (open' = None /\ shown' = None) \/ (UNCHANGED <<open, shown>> /\ ops[w].selected # ops[w].account)
          /\ error' = (error /\ ops[w].selected # ops[w].account) /\ UNCHANGED <<reading, reads>>
      OBVIOUS
    <3>2. error' \in BOOLEAN
      BY <3>1, Zenon
    <3> QED
      BY <3>1, <3>2 DEF ReaderInv
  <2>7. clicks' \in 0 .. MaxClicks
    BY SizeAssumption DEF Click
  <2> QED
    BY <2>1, <2>2, <2>3, <2>4, <2>5, <2>6, <2>7
<1>21. ASSUME NEW w \in {"manager", "dialog"}, OpFails(w) PROVE Inv'
  <2> USE <1>21 DEF OpFails
  <2>1. ServerInv'
    BY DEF ServerInv, server, choice, listing, reader
  <2>2. AccountsInv'
    BY DEF AccountsInv, server, choice, listing, reader
  <2>3. PollInv'
    BY DEF PollInv, server, choice, listing, reader
  <2>4. OpInv'
    BY OpEnds DEF server
  <2>5. ListInv'
    BY DEF ListInv, server, choice, listing, reader
  <2>6. ReaderInv'
    BY DEF ReaderInv, server, choice, listing, reader
  <2>7. clicks' \in 0 .. MaxClicks
    BY SizeAssumption DEF Click
  <2> QED
    BY <2>1, <2>2, <2>3, <2>4, <2>5, <2>6, <2>7
<1>22. ASSUME NEW q \in Polls, Poll(q) PROVE Inv'
  <2> USE <1>22 DEF Poll
  <2>1. ServerInv'
    BY DEF ServerInv, server, choice, listing, reader
  <2>2. AccountsInv'
    BY DEF AccountsInv, server, choice, listing, reader
  <2>3. PollInv'
    BY Asked DEF server
  <2>4. OpInv'
    BY DEF OpInv, server, choice, listing, reader
  <2>5. ListInv'
    BY DEF ListInv, server, choice, listing, reader
  <2>6. ReaderInv'
    BY DEF ReaderInv, server, choice, listing, reader
  <2>7. clicks' \in 0 .. MaxClicks
    BY SizeAssumption DEF Click
  <2> QED
    BY <2>1, <2>2, <2>3, <2>4, <2>5, <2>6, <2>7
<1>23. ASSUME UNCHANGED vars PROVE Inv'
  BY <1>23 DEF vars, server, choice, listing, reader, ServerInv, AccountsInv, PollInv, OpInv,
     ListInv, ReaderInv
<1> QED
  BY <1>1, <1>2, <1>3, <1>4, <1>5, <1>6, <1>7, <1>8, <1>9, <1>10, <1>11, <1>12, <1>13, <1>14, <1>15, <1>16, <1>17, <1>18, <1>19, <1>20, <1>21, <1>22, <1>23
  DEF Next, User, Answers

\* The invariant holds in every reachable state.
THEOREM Invariance == Spec => []Inv
  BY InitInv, StepInv, PTL DEF Spec

-----------------------------------------------------------------------------
(* Theorems. *)

\* The type of every variable.
THEOREM TypeCorrect == Spec => []TypeOK
<1>1. Inv => TypeOK
  BY DEF Inv, TypeOK, ServerInv, AccountsInv, PollInv, PollStates, OpInv, OpStates, ListInv, Shown,
     ListRequests, ReaderInv
<1> QED
  BY Invariance, <1>1, PTL

\* The list at rest is the page of the selection that the screen names, in any
\* order of answers (App.tsx: loadEmails).
THEOREM ListTrueToSelection == Spec => []ListShown
<1>1. Inv => ListShown
  BY DEF Inv, ListInv, ListShown, SelectionShown, PageShown, Rest
<1> QED
  BY Invariance, <1>1, PTL

\* The list at rest has no email of an account whose deletion was answered
\* (App.tsx: deleteAccount).
THEOREM DeletedStaysGone == Spec => []DeletedGone
<1>1. Inv => DeletedGone
  BY DEF Inv, ListInv, DeletedGone, Rest
<1> QED
  BY Invariance, <1>1, PTL

\* The reader shows the highlighted email or that it is on its way or failed
\* (App.tsx: loadEmail).
THEOREM ReaderTrue == Spec => []ReaderMatches
<1>1. Inv => ReaderMatches
  BY DEF Inv, ReaderInv, ReaderMatches, ReaderPane
<1> QED
  BY Invariance, <1>1, PTL

\* What is loading has its request in flight (App.tsx: the finally blocks).
THEOREM LoadingEnds == Spec => []LoadingAwaited
<1>1. Inv => LoadingAwaited
  BY DEF Inv, ListInv, ReaderInv, LoadingAwaited
<1> QED
  BY Invariance, <1>1, PTL

-----------------------------------------------------------------------------
(* Each pane behaves as if its last request were its only one. *)

\* There is one current request for the list, and one of the reader.
UniqueInv ==
    /\ \A r, s \in lists : r.current /\ s.current => r = s
    /\ \A r, s \in reads : r.current /\ s.current => r = s

ListState == <<ListQuestion, loading, failed, <<list.account, list.page>>>>
ReaderState == <<ReaderQuestion, reading, error, shown>>

\* A request for the list asks its question.
LEMMA LoadAsks ==
  ASSUME ListInv, NEW a \in Selections, NEW p \in Pages, Load(a, p)
  PROVE  /\ ListPart!Ask(<<a, p>>) /\ ListPart!Next
         /\ \A r, s \in lists' : r.current /\ s.current => r = s
<1>1. Request(a, p).account = a /\ Request(a, p).page = p /\ Request(a, p).current
  BY DEF Request
<1>2. \A b, q : ~[Request(b, q) EXCEPT !.current = FALSE].current
  BY DEF Request
<1>3. lists' = {[Request(r.account, r.page) EXCEPT !.current = FALSE] : r \in lists} \cup {Request(a, p)}
      /\ loading' = TRUE /\ failed' = FALSE /\ list' = list
  BY DEF Load
<1>4. Request(a, p) \in lists' /\ \A r \in lists' : r.current => r = Request(a, p)
  BY <1>2, <1>3
<1>5. ListQuestion' = {<<a, p>>}
  BY <1>1, <1>4 DEF ListQuestion
<1>6. ListPart!Ask(<<a, p>>)
  BY <1>3, <1>5 DEF ListPart!Ask
<1>7. ListPart!Next
  BY <1>6 DEF ListPart!Next
<1> QED
  BY <1>4, <1>6, <1>7

\* An email asked for by the reader is its question.
LEMMA ReadAsks ==
  ASSUME ReaderInv, NEW m \in Emails, Read(m), shown' \in {shown, None}
  PROVE  /\ ReaderPart!Next
         /\ \A r, s \in reads' : r.current /\ s.current => r = s
<1>1. \A r \in reads : ~[r EXCEPT !.current = FALSE].current
  BY DEF ReaderInv
<1>2. reads' = {[r EXCEPT !.current = FALSE] : r \in reads} \cup {[email |-> m, current |-> TRUE]}
      /\ reading' = TRUE /\ error' = FALSE
  BY DEF Read
<1>3. [email |-> m, current |-> TRUE] \in reads'
      /\ \A r \in reads' : r.current => r = [email |-> m, current |-> TRUE]
  BY <1>1, <1>2
<1>4. ReaderQuestion' = {m}
  BY <1>3 DEF ReaderQuestion
<1>5. ReaderPart!Ask(m)
  BY <1>2, <1>4 DEF ReaderPart!Ask
<1> QED
  BY <1>3, <1>5 DEF ReaderPart!Next

\* A request for the list that is answered by the server stays the same question.
LEMMA ServeKeeps ==
  ASSUME Inv, UniqueInv, ServeList
  PROVE  ListQuestion' = ListQuestion /\ \A r, s \in lists' : r.current /\ s.current => r = s
<1>1. PICK r \in lists :
        /\ r.current
        /\ lists' = (lists \ {r}) \cup
              {[r EXCEPT !.ready = TRUE, !.items = PageOf(r.account, r.page),
                         !.total = Cardinality(Matching(r.account))]}
  BY Zenon DEF ServeList
<1>2. r \in ListRequests
  BY DEF Inv, ListInv
<1>3. PICK n : n = [r EXCEPT !.ready = TRUE, !.items = PageOf(r.account, r.page),
                             !.total = Cardinality(Matching(r.account))]
  OBVIOUS
<1>4. n.account = r.account /\ n.page = r.page /\ n.current = r.current
  BY <1>2, <1>3 DEF ListRequests
<1>5. lists' = (lists \ {r}) \cup {n}
  BY <1>1, <1>3, Zenon
<1>6. ListQuestion' = ListQuestion
  BY <1>1, <1>4, <1>5 DEF ListQuestion
<1>7. \A s, u \in lists' : s.current /\ u.current => s = u
  BY <1>1, <1>4, <1>5 DEF UniqueInv
<1> QED
  BY <1>6, <1>7

\* An answer to the current request, or its failure, is the answer to the question;
\* that of any other request changes nothing.
LEMMA ListEnds ==
  ASSUME Inv, UniqueInv, ListArrives \/ ListFails
  PROVE  ListPart!Next /\ \A r, s \in lists' : r.current /\ s.current => r = s
<1>1. PICK r \in lists :
        /\ lists' = lists \ {r}
        /\ \/ ~r.current /\ UNCHANGED <<list, loading, failed>>
           \/ /\ r.current /\ loading' = FALSE
              /\ \/ /\ list' = [account |-> r.account, page |-> r.page, items |-> r.items, total |-> r.total]
                    /\ failed' = failed
                 \/ list' = [list EXCEPT !.items = {}, !.total = 0] /\ failed' = TRUE
  BY DEF ListArrives, ListFails
<1>2. \A s, u \in lists' : s.current /\ u.current => s = u
  BY <1>1 DEF UniqueInv
<1>3. CASE ~r.current
  <2>1. ListQuestion' = ListQuestion
    BY <1>1, <1>3 DEF ListQuestion
  <2>2. UNCHANGED ListPart!state
    BY <1>1, <1>3, <2>1 DEF ListPart!state
  <2> QED
    BY <1>2, <2>2 DEF ListPart!Next
<1>4. CASE r.current
  <2>1. <<r.account, r.page>> \in ListQuestion
    BY <1>4 DEF ListQuestion
  <2>2. ListQuestion' = {}
    BY <1>1, <1>4 DEF ListQuestion, UniqueInv
  <2>3. CASE list' = [account |-> r.account, page |-> r.page, items |-> r.items, total |-> r.total]
             /\ failed' = failed
    <3>1. list'.account = r.account /\ list'.page = r.page
      BY <2>3
    <3>2. ListPart!Show
      BY <1>1, <1>4, <2>1, <2>2, <2>3, <3>1 DEF ListPart!Show
    <3> QED
      BY <1>2, <3>2 DEF ListPart!Next
  <2>4. CASE list' = [list EXCEPT !.items = {}, !.total = 0] /\ failed' = TRUE
    <3>1. list \in Shown
      BY DEF Inv, ListInv
    <3>2. \A items, total : [list EXCEPT !.items = items, !.total = total].account = list.account
                            /\ [list EXCEPT !.items = items, !.total = total].page = list.page
      BY <3>1 DEF Shown
    <3>3. list'.account = list.account /\ list'.page = list.page
      BY <2>4, <3>2, Zenon
    <3>4. ListPart!Fail
      BY <1>1, <1>4, <2>1, <2>2, <2>4, <3>3 DEF ListPart!Fail
    <3> QED
      BY <1>2, <3>4 DEF ListPart!Next
  <2> QED
    BY <1>1, <1>4, <2>3, <2>4
<1> QED
  BY <1>3, <1>4

\* The same for the reader.
LEMMA ReadEnds ==
  ASSUME Inv, UniqueInv, ReadArrives
  PROVE  ReaderPart!Next /\ \A r, s \in reads' : r.current /\ s.current => r = s
<1>1. PICK r \in reads :
        /\ reads' = reads \ {r}
        /\ IF r.current
           THEN /\ reading' = FALSE
                /\ \/ shown' = r.email /\ UNCHANGED error
                   \/ shown' = None /\ error' = TRUE
           ELSE UNCHANGED <<shown, reading, error>>
  BY DEF ReadArrives
<1>2. \A s, u \in reads' : s.current /\ u.current => s = u
  BY <1>1 DEF UniqueInv
<1>3. CASE ~r.current
  <2>1. ReaderQuestion' = ReaderQuestion
    BY <1>1, <1>3 DEF ReaderQuestion
  <2> QED
    BY <1>1, <1>2, <1>3, <2>1 DEF ReaderPart!state, ReaderPart!Next
<1>4. CASE r.current
  <2>1. r.email \in ReaderQuestion
    BY <1>4 DEF ReaderQuestion
  <2>2. ReaderQuestion' = {}
    BY <1>1, <1>4 DEF ReaderQuestion, UniqueInv
  <2>3. ReaderPart!Show \/ ReaderPart!Fail
    BY <1>1, <1>4, <2>1, <2>2 DEF ReaderPart!Show, ReaderPart!Fail
  <2> QED
    BY <1>2, <2>3 DEF ReaderPart!Next
<1> QED
  BY <1>3, <1>4

\* What a step does to the list.
LEMMA ListStep ==
  ASSUME Inv, UniqueInv, Next
  PROVE  ListPart!Next /\ \A r, s \in lists' : r.current /\ s.current => r = s
<1> DEFINE Good == ListPart!Next /\ \A r, s \in lists' : r.current /\ s.current => r = s
<1> SUFFICES Good
  OBVIOUS
<1>1. 1 \in Pages /\ None \in Selections
  BY SizeAssumption DEF Pages, Selections
<1>2. ASSUME UNCHANGED listing PROVE Good
  BY <1>2 DEF listing, UniqueInv, ListQuestion, ListPart!state, ListPart!Next
<1>3. ASSUME NEW a \in Selections, NEW p \in Pages, Load(a, p) PROVE Good
  BY <1>3, LoadAsks DEF Inv
<1> HIDE DEF Good
<1>4. ASSUME NEW a \in Selections, NEW p \in Pages, Choose(a, p) PROVE Good
  BY <1>2, <1>3, <1>4 DEF Choose
<1>5. CASE User
  <2>1. ASSUME NEW a \in Selections, SelectAccount(a) PROVE Good
    BY <1>1, <1>4, <2>1 DEF SelectAccount
  <2>2. ASSUME NEW p \in Pages, ChangePage(p) PROVE Good
    BY <1>4, <2>2 DEF ChangePage, Inv, ListInv
  <2>3. ASSUME NEW q \in Polls, Refresh(q) PROVE Good
    BY <1>3, <2>3 DEF Refresh, Inv, ListInv
  <2>4. ASSUME NEW m \in Emails, SelectEmail(m) PROVE Good
    BY <1>2, <2>4 DEF SelectEmail
  <2>5. ASSUME RetryEmail \/ Back PROVE Good
    BY <1>2, <2>5 DEF RetryEmail, Back
  <2>6. ASSUME NEW w, NEW kind, NEW a, Start(w, kind, a) PROVE Good
    BY <1>2, <2>6 DEF Start
  <2> QED
    BY <1>5, <2>1, <2>2, <2>3, <2>4, <2>5, <2>6, Zenon DEF User
<1>6. CASE Effect
  <2>1. selected \in Selections /\ page \in Pages
    BY DEF Inv, ListInv
  <2>2. Load(selected, page)
    BY <1>6 DEF Effect
  <2> QED
    BY <1>3, <2>1, <2>2
<1>7. CASE ServeList
  <2>1. UNCHANGED <<loading, failed, list>>
    BY <1>7 DEF ServeList
  <2> QED
    BY <1>7, <2>1, ServeKeeps DEF Good, ListPart!state, ListPart!Next
<1>8. CASE ListArrives \/ ListFails
  BY <1>8, ListEnds DEF Good
<1>9. ASSUME NEW q \in Polls, PollFails(q) PROVE Good
  <2>1. UNCHANGED <<lists, loading, list>> /\ (failed' = failed \/ failed' = TRUE)
    BY <1>9 DEF PollFails, Inv, ListInv, PollInv, PollStates
  <2>2. ListQuestion' = ListQuestion
    BY <2>1 DEF ListQuestion
  <2>3. ListPart!Next
    BY <2>1, <2>2 DEF ListPart!Alarm, ListPart!state, ListPart!Next
  <2> QED
    BY <2>1, <2>3 DEF Good, UniqueInv
<1>10. ASSUME NEW w \in {"manager", "dialog"},
              Created(w) \/ Deleted(w) \/ \E q \in Polls : Synced(w, q)
       PROVE  Good
  <2>1. ops[w].selected \in Selections /\ ops[w].page \in Pages
    BY DEF Inv, OpInv, OpStates
  <2>2. \/ Load(ops[w].selected, 1) \/ Load(None, 1)
        \/ Load(ops[w].selected, ops[w].page)
    BY <1>10 DEF Created, Deleted, Synced
  <2> QED
    BY <1>1, <1>3, <2>1, <2>2
<1> QED
  BY <1>2, <1>5, <1>6, <1>7, <1>8, <1>9, <1>10
  DEF Good, Next, Answers, Deliver, Poll, ReadArrives, ServePoll, PollArrives, ServeOp, OpFails

\* What a step does to the reader.
LEMMA ReaderStep ==
  ASSUME Inv, UniqueInv, Next
  PROVE  ReaderPart!Next /\ \A r, s \in reads' : r.current /\ s.current => r = s
<1> DEFINE Good == ReaderPart!Next /\ \A r, s \in reads' : r.current /\ s.current => r = s
<1> SUFFICES Good
  OBVIOUS
<1>1. ASSUME UNCHANGED reader PROVE Good
  BY <1>1 DEF reader, UniqueInv, ReaderQuestion, ReaderPart!state, ReaderPart!Next
<1>2. ASSUME NEW m \in Emails, Read(m), shown' \in {shown, None} PROVE Good
  BY <1>2, ReadAsks DEF Inv
<1>3. ASSUME UNCHANGED <<reading, reads>>, shown' \in {shown, None}, error' \in {error, FALSE}
      PROVE  Good
  <2>1. ReaderQuestion' = ReaderQuestion
    BY <1>3 DEF ReaderQuestion
  <2>2. ReaderPart!Clear
    BY <1>3, <2>1 DEF ReaderPart!Clear
  <2> QED
    BY <1>3, <2>2 DEF UniqueInv, ReaderPart!Next
<1>4. CASE Back
  <2>1. reads' = {[r EXCEPT !.current = FALSE] : r \in reads}
        /\ shown' = None /\ reading' = FALSE /\ error' = FALSE
    BY <1>4 DEF Back
  <2>2. \A r \in reads : ~[r EXCEPT !.current = FALSE].current
    BY DEF Inv, ReaderInv
  <2>3. \A r \in reads' : ~r.current
    BY <2>1, <2>2
  <2>4. ReaderQuestion' = {}
    BY <2>3 DEF ReaderQuestion
  <2>5. ReaderPart!Cancel
    BY <2>1, <2>4 DEF ReaderPart!Cancel
  <2> QED
    BY <2>3, <2>5 DEF ReaderPart!Next
<1> HIDE DEF Good
<1>5. CASE User
  <2>1. ASSUME NEW a \in Selections, SelectAccount(a) PROVE Good
    BY <1>3, <2>1 DEF SelectAccount
  <2>2. ASSUME NEW m \in Emails, SelectEmail(m) PROVE Good
    BY <1>2, <2>2 DEF SelectEmail
  <2>3. CASE RetryEmail
    <3>1. open \in Emails
      BY <2>3 DEF RetryEmail, Inv, ReaderInv
    <3>2. Read(open) /\ shown' = shown
      BY <2>3 DEF RetryEmail
    <3> QED
      BY <1>2, <3>1, <3>2
  <2> QED
    BY <1>1, <1>4, <1>5, <2>1, <2>2, <2>3 DEF Good, User, ChangePage, Refresh, Start
<1>6. CASE ReadArrives
  BY <1>6, ReadEnds DEF Good
<1>7. ASSUME NEW w \in {"manager", "dialog"}, Deleted(w) PROVE Good
  <2>1. UNCHANGED <<reading, reads>> /\ shown' \in {shown, None}
    BY <1>7 DEF Deleted
  <2>2. error' \in {error, FALSE}
    BY <1>7 DEF Deleted, Inv, ReaderInv
  <2> QED
    BY <1>3, <2>1, <2>2
<1> QED
  BY <1>1, <1>5, <1>6, <1>7
  DEF Good, Next, Answers, Deliver, Effect, ServeList, ListArrives, ListFails, Poll, ServePoll,
      PollArrives, PollFails, ServeOp, Created, Synced, OpFails

\* The list and the reader implement OneRequest: an answer, a failure or a lost
\* answer of a request that was superseded is never seen, and the loading flag is
\* cleared by the end of the last request and by nothing else (App.tsx: loadEmails,
\* loadEmail, closeEmail).
THEOREM LastRequestOnly == Spec => ImplementsOneRequest
<1>1. Init => UniqueInv /\ ListPart!Init /\ ReaderPart!Init
  <2> SUFFICES ASSUME Init PROVE UniqueInv /\ ListPart!Init /\ ReaderPart!Init
    OBVIOUS
  <2>1. lists = {Request(None, 1)} /\ reads = {} /\ loading = TRUE /\ failed = FALSE
        /\ reading = FALSE /\ error = FALSE /\ shown = None
        /\ list.account = None /\ list.page = 1
    BY DEF Init
  <2>2. Request(None, 1).account = None /\ Request(None, 1).page = 1 /\ Request(None, 1).current
    BY DEF Request
  <2>3. <<None, 1>> \in Selections \X Pages
    BY SizeAssumption DEF Pages, Selections
  <2>4. ListQuestion = {<<None, 1>>} /\ ReaderQuestion = {}
    BY <2>1, <2>2 DEF ListQuestion, ReaderQuestion
  <2>5. UniqueInv
    BY <2>1 DEF UniqueInv
  <2>6. ListPart!Init
    BY <2>1, <2>3, <2>4 DEF ListPart!Init
  <2>7. ReaderPart!Init
    BY <2>1, <2>4 DEF ReaderPart!Init
  <2> QED
    BY <2>5, <2>6, <2>7
<1>2. Inv /\ UniqueInv /\ [Next]_vars =>
        UniqueInv' /\ [ListPart!Next]_ListState /\ [ReaderPart!Next]_ReaderState
  <2> SUFFICES ASSUME Inv, UniqueInv, [Next]_vars
               PROVE  UniqueInv' /\ [ListPart!Next]_ListState /\ [ReaderPart!Next]_ReaderState
    OBVIOUS
  <2>1. CASE Next
    BY <2>1, ListStep, ReaderStep DEF UniqueInv
  <2>2. CASE UNCHANGED vars
    BY <2>2 DEF vars, listing, reader, UniqueInv, ListState, ReaderState, ListQuestion, ReaderQuestion
  <2> QED
    BY <2>1, <2>2
<1> QED
  BY Invariance, <1>1, <1>2, PTL
  DEF Spec, ImplementsOneRequest, ListPart!Spec, ReaderPart!Spec, ListPart!state, ReaderPart!state,
      ListState, ReaderState
=============================================================================
