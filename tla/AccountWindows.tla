--------------------------- MODULE AccountWindows ---------------------------
(***************************************************************************)
(* The form that tests and adds a mail account (AccountDialog.tsx) and the *)
(* list that synchronises and deletes accounts (AccountManager.tsx).       *)
(*                                                                         *)
(* The form's values are one value of Values, each passing validate; input *)
(* that it refuses only shows a message and is left out, like every error  *)
(* text.  What the handlers of App do to the mail list is in Inbox.        *)
(***************************************************************************)
EXTENDS Modals

CONSTANTS
    Values, Blank,  \* what the form can hold; INITIAL_ACCOUNT
    MaxAccounts     \* bound: accounts ever created

ASSUME ValuesAssumption == Blank \notin Values
ASSUME AccountsAssumption == MaxAccounts \in Nat

VARIABLES
    account, status,          \* AccountDialog
    asks,                     \* its requests in flight
    accounts, made,           \* App's accounts; ids drawn
    busyID, confirmDeleteID,  \* AccountManager; 0 is null
    jobs,                     \* its requests in flight
    passed,                   \* history: values whose connection was tested
    edited                    \* history: the form was changed while a request of it
                              \* was under way, and not since

formVars == <<account, status, asks, passed, edited>>
managerVars == <<busyID, confirmDeleteID, jobs>>
accountVars == <<formVars, managerVars, accounts, made>>

Waiting == status \in {"testing", "saving"}
AccountIds == 1 .. MaxAccounts

AccountInit ==
    /\ account = Blank /\ status = "idle" /\ asks = {} /\ passed = {} /\ edited = FALSE
    /\ made \in 0 .. MaxAccounts /\ accounts = 1 .. made
    /\ busyID = 0 /\ confirmDeleteID = 0 /\ jobs = {}

-----------------------------------------------------------------------------
(* AccountDialog. *)

\* Mutant of SetField: a change keeps the message of the last test.
SetFieldKeeps(v) ==
    /\ "form" \in open /\ v # account /\ Click
    /\ account' = v
    /\ status' = (IF Waiting THEN "idle" ELSE status)
    /\ edited' = (asks # {})
    /\ UNCHANGED <<asks, passed, managerVars, accounts, made>>

\* setField: the fields are never disabled, and a change says "idle" at once.
SetField(v) ==
    /\ "form" \in open /\ v # account /\ Click
    /\ account' = v /\ status' = "idle"
    /\ edited' = (asks # {})
    /\ UNCHANGED <<asks, passed, managerVars, accounts, made>>

\* What both buttons send, and until when they are disabled.
Ask(kind, waiting) ==
    /\ "form" \in open /\ ~Waiting /\ account # Blank /\ Click
    /\ status' = waiting
    /\ asks' = asks \cup {[kind |-> kind, account |-> account, at |-> clicks']}
    /\ UNCHANGED <<account, passed, edited, managerVars, accounts, made>>

HandleTest == Ask("test", "testing")
HandleSubmit == Ask("create", "saving")

\* handleTest after its await
TestArrives(a, ok) ==
    /\ a.kind = "test" /\ asks' = asks \ {a}
    /\ status' = (IF ok THEN "tested" ELSE "idle")
    /\ passed' = (IF ok THEN passed \cup {a.account} ELSE passed)
    /\ UNCHANGED <<account, edited, managerVars, accounts, made>>

\* createAccount of App, then the rest of handleSubmit; the window closes.
CreateSucceeds(a) ==
    /\ a.kind = "create" /\ asks' = asks \ {a}
    /\ made < MaxAccounts /\ made' = made + 1 /\ accounts' = accounts \cup {made'}
    /\ account' = Blank /\ status' = "idle"
    /\ UNCHANGED <<passed, edited, managerVars>>

CreateFails(a) ==
    /\ a.kind = "create" /\ asks' = asks \ {a}
    /\ status' = "idle"
    /\ UNCHANGED <<account, passed, edited, managerVars, accounts, made>>

\* handleClose of a window that may close
FormCloses ==
    /\ ~Waiting /\ account' = Blank /\ status' = "idle"
    /\ edited' = (asks # {})
    /\ UNCHANGED <<asks, passed>>

-----------------------------------------------------------------------------
(* AccountManager. *)

Listed == IF "manager" \in open THEN accounts ELSE {}

\* The effect on [open]: an operation under way is not forgotten.
ManagerEffect(after) ==
    /\ confirmDeleteID' = IF "manager" \notin after THEN 0 ELSE confirmDeleteID
    /\ UNCHANGED <<busyID, jobs>>

\* run: every button is disabled while one operation is under way.
Run(id, action) ==
    /\ id \in Listed /\ busyID = 0 /\ Click
    /\ action = "delete" => confirmDeleteID = id
    /\ busyID' = id
    /\ jobs' = jobs \cup {[id |-> id, action |-> action, at |-> clicks']}
    /\ UNCHANGED <<confirmDeleteID, formVars, accounts, made>>

AskDelete(id) ==
    /\ id \in Listed /\ busyID = 0 /\ confirmDeleteID # id /\ Click
    /\ confirmDeleteID' = id
    /\ UNCHANGED <<busyID, jobs, formVars, accounts, made>>

CancelDelete ==
    /\ confirmDeleteID \in Listed /\ Click
    /\ confirmDeleteID' = 0
    /\ UNCHANGED <<busyID, jobs, formVars, accounts, made>>

\* The rest of run after its await, and what App's handler did before.
JobEnds(j, ok) ==
    /\ jobs' = jobs \ {j} /\ busyID' = 0
    /\ confirmDeleteID' = (IF ok THEN 0 ELSE confirmDeleteID)
    /\ accounts' = (IF ok /\ j.action = "delete" THEN accounts \ {j.id} ELSE accounts)
    /\ UNCHANGED <<formVars, made>>

AccountStep ==
    \/ \E a \in asks : CreateFails(a) \/ \E ok \in BOOLEAN : TestArrives(a, ok)
    \/ \E j \in jobs, ok \in BOOLEAN : JobEnds(j, ok)

AccountClick ==
    \/ HandleTest \/ HandleSubmit \/ CancelDelete
    \/ \E v \in Values : SetField(v)
    \/ \E id \in AccountIds :
          AskDelete(id) \/ \E action \in {"sync", "delete"} : Run(id, action)

-----------------------------------------------------------------------------
(* Properties. *)

AccountTypeOK ==
    /\ account \in Values \cup {Blank} /\ status \in {"idle", "testing", "tested", "saving"}
    /\ passed \subseteq Values /\ edited \in BOOLEAN
    /\ made \in 0 .. MaxAccounts /\ accounts \subseteq 1 .. made
    /\ busyID \in 0 .. made /\ confirmDeleteID \in 0 .. made
    /\ asks \subseteq [kind : {"test", "create"}, account : Values, at : 0 .. MaxClicks]
    /\ jobs \subseteq [id : 1 .. made, action : {"sync", "delete"}, at : 0 .. MaxClicks]

\* The buttons of the list are disabled exactly while its one operation is
\* under way, also when the list was closed and opened again meanwhile.
ManagerAwaited ==
    IF busyID = 0 THEN jobs = {} ELSE \E j \in jobs : jobs = {j} /\ j.id = busyID

\* Nobody finds in the form, opened again, what was typed before it was closed;
\* and as long as it is not changed under a request, its buttons are disabled
\* exactly while their request about these values is under way, and it says
\* that a connection works only about values whose test succeeded.  (The
\* exception is real: a change under a request enables the buttons, and the
\* answer of the test then speaks about values that nobody tested.)
FormHonest ==
    /\ "form" \notin open => account = Blank
    /\ ~edited =>
          /\ IF Waiting
             THEN \E a \in asks : asks = {a} /\ a.account = account
             ELSE asks = {}
          /\ status = "tested" => account \in passed
=============================================================================
