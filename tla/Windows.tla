------------------------------ MODULE Windows -------------------------------
(***************************************************************************)
(* The three windows together: App opens and closes them (App.tsx), each   *)
(* render of App runs the effects of the windows that it changes.          *)
(***************************************************************************)
EXTENDS Tokens, AccountWindows

vars == <<modalVars, tokenVars, accountVars>>

Init == ModalInit /\ TokenInit /\ AccountInit

\* App renders with other windows open.
SetOpen(after) == Render(after) /\ TokenEffect(after) /\ ManagerEffect(after)

\* onAddAccount, onManageAccounts and onManageTokens
OpenWindow(after) ==
    /\ Click /\ SetOpen(after)
    /\ UNCHANGED <<formVars, accounts, made>>

\* The cross, the backdrop; the form does not close under its own request.
CloseWindow(w) ==
    /\ w \in open /\ Click
    /\ IF w = "form" THEN FormCloses ELSE UNCHANGED formVars
    /\ SetOpen(open \ {w})
    /\ UNCHANGED <<accounts, made>>

\* Every open Modal listens to the key.
Escape ==
    LET staying == IF Waiting THEN {"form"} ELSE {} IN
    /\ open # {} /\ Click
    /\ IF "form" \in open /\ ~Waiting THEN FormCloses ELSE UNCHANGED formVars
    /\ SetOpen(open \cap staying)
    /\ UNCHANGED <<accounts, made>>

\* handleSubmit closes the window it was clicked in, or one opened since.
AccountCreated ==
    /\ \E a \in asks : CreateSucceeds(a)
    /\ Render(open \ {"form"})
    /\ UNCHANGED <<clicks, tokenVars>>

\* App renders for any other reason: accounts arrive every five seconds.
AppRenders ==
    /\ Render(open)
    /\ UNCHANGED <<clicks, tokenVars, accountVars>>

Next ==
    \/ \E after \in {AddAccount, ManageAccounts, ManageTokens} : OpenWindow(after)
    \/ \E w \in Windows : CloseWindow(w)
    \/ Escape \/ AccountCreated \/ AppRenders
    \/ TokenStep /\ UNCHANGED <<modalVars, accountVars>>
    \/ TokenClick /\ UNCHANGED <<open, locked, previous, stacked, accountVars>>
    \/ AccountStep /\ UNCHANGED <<modalVars, tokenVars>>
    \/ AccountClick /\ UNCHANGED <<open, locked, previous, stacked, tokenVars>>

Spec == Init /\ [][Next]_vars

-----------------------------------------------------------------------------
(* Properties. *)

\* The type of every variable.
TypeOK == ModalTypeOK /\ TokenTypeOK /\ AccountTypeOK

\* No window waits for what does not come (TokensAwaited, ManagerAwaited).
Awaited == TokensAwaited /\ ManagerAwaited
=============================================================================
