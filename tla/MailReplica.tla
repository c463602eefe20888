---------------------------- MODULE MailReplica ----------------------------
(***************************************************************************)
(* What the synchronisation of one mailbox promises, without connections,  *)
(* batches, files or crashes: a replica of a changing mailbox that belongs *)
(* to one UIDVALIDITY, grows, and carries a mark below which nothing that  *)
(* is still in the mailbox is missing.                                     *)
(***************************************************************************)
EXTENDS Naturals

VARIABLES
    validity, mail,       \* the mailbox: UIDVALIDITY and the UIDs it holds
    epoch, kept, mark     \* the replica: UIDVALIDITY, messages, mark

mailbox == <<validity, mail>>
replica == <<epoch, kept, mark>>

Init ==
    /\ validity = 1 /\ mail = {}
    /\ epoch = 0 /\ kept = {} /\ mark = 0

\* New mail is numbered above everything before it, so above the mark.
Arrive ==
    /\ \E u \in mail' :
          /\ \A v \in mail : v < u
          /\ epoch = validity => mark < u
          /\ mail' = mail \cup {u}
    /\ UNCHANGED <<validity, replica>>

Leave ==
    /\ \E u \in mail : mail' = mail \ {u}
    /\ UNCHANGED <<validity, replica>>

Renumber ==
    /\ validity' > validity /\ mail' \subseteq Nat
    /\ UNCHANGED replica

\* A message of the replica's UIDVALIDITY is stored.
Keep ==
    /\ \E m \in kept' : m[1] = epoch /\ kept' = kept \cup {m}
    /\ UNCHANGED <<mailbox, epoch, mark>>

\* The mark moves up to where nothing is missing.
Advance ==
    /\ mark' > mark
    /\ epoch = validity => \A u \in mail : u <= mark' => <<epoch, u>> \in kept
    /\ UNCHANGED <<mailbox, epoch, kept>>

\* The replica starts again for a newer UIDVALIDITY.
Adopt ==
    /\ epoch' > epoch /\ epoch' <= validity
    /\ kept' = {} /\ mark' = 0
    /\ UNCHANGED mailbox

Next == Arrive \/ Leave \/ Renumber \/ Keep \/ Advance \/ Adopt

Spec == Init /\ [][Next]_<<mailbox, replica>>
=============================================================================
