------------------------------- MODULE Modals -------------------------------
(***************************************************************************)
(* The windows of the web interface: which of them App has open (App.tsx), *)
(* and the scroll lock of their common frame (Modal.tsx).                  *)
(*                                                                         *)
(* Every render of App gives each window a new onClose, so the effect of   *)
(* every open Modal is cleaned up and run again; React runs all clean-ups  *)
(* before all effects, both in the order of the windows in App.            *)
(***************************************************************************)
EXTENDS Naturals

CONSTANT MaxClicks  \* bound: what the user does

ASSUME ClicksAssumption == MaxClicks \in Nat

VARIABLES
    open,      \* accountDialogOpen, accountManagerOpen, tokenManagerOpen
    locked,    \* document.body.style.overflow is "hidden"
    previous,  \* previousOverflow of each window's effect: was it "hidden"?
    clicks,
    stacked    \* history: two windows have been open together

modalVars == <<open, locked, previous, clicks, stacked>>

Windows == {"form", "manager", "tokens"}
Rank == [form |-> 1, manager |-> 2, tokens |-> 3]

Click == clicks < MaxClicks /\ clicks' = clicks + 1

\* What the clean-ups of the open windows leave: the last one decides.
CleanedUp ==
    IF open = {} THEN locked
    ELSE \E w \in open : previous[w] /\ \A v \in open : Rank[v] <= Rank[w]

\* Mutant of Render: the effect does not restore what it found.
RenderForgets(after) ==
    /\ open' = after
    /\ previous' = [w \in Windows |->
           w \in after /\ (CleanedUp \/ \E v \in after : Rank[v] < Rank[w])]
    /\ locked' = (after # {} \/ locked)
    /\ stacked' = (stacked \/ \E v, w \in after : v # w)

\* App renders with the windows "after" open.
Render(after) ==
    /\ open' = after
    /\ previous' = [w \in Windows |->
           w \in after /\ (CleanedUp \/ \E v \in after : Rank[v] < Rank[w])]
    /\ locked' = (after # {} \/ CleanedUp)
    /\ stacked' = (stacked \/ \E v, w \in after : v # w)

\* The openers of the sidebar and of the list of accounts.  A window that is
\* open covers them, but the keyboard reaches them.
AddAccount == {"form"}
ManageAccounts == (open \ {"tokens"}) \cup {"manager"}
ManageTokens == (open \ {"manager"}) \cup {"tokens"}

ModalInit ==
    /\ open = {} /\ locked = FALSE /\ previous = [w \in Windows |-> FALSE]
    /\ clicks = 0 /\ stacked = FALSE

ModalTypeOK ==
    /\ open \subseteq Windows /\ locked \in BOOLEAN /\ previous \in [Windows -> BOOLEAN]
    /\ clicks \in 0 .. MaxClicks /\ stacked \in BOOLEAN

\* The page scrolls again when the last window is closed, whatever was opened,
\* closed and rendered before, as long as no two windows were stacked.  (They
\* can be, by keyboard: then each saves the other's lock, and no closing undoes it.)
ScrollFree == stacked \/ (locked <=> open # {})
=============================================================================
