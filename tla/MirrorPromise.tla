--------------------------- MODULE MirrorPromise ---------------------------
(***************************************************************************)
(* What a mirror promises its readers, with nothing of how it is kept:     *)
(* every copy is a state its page really was in, copies only move forward, *)
(* a copy is withdrawn only of a page that is gone, or was when it was     *)
(* last looked for, and once a page rests its copy settles on it.  Outside *)
(* of the databases no deletion is promised to be noticed.                 *)
(***************************************************************************)
EXTENDS Naturals

CONSTANTS
    Pages,      \* the pages of the workspace
    Withdrawn   \* those whose deletion the mirror promises to notice

VARIABLES
    truth,      \* of each page: whether it is live, and its revision
    back,       \* the live pages that were gone before
    copy        \* of each page: whether it is served, and which revision

vars == <<truth, back, copy>>

Nothing == [live |-> FALSE, rev |-> 0]

Init ==
    /\ truth = [p \in Pages |-> Nothing]
    /\ back = {}
    /\ copy = truth

\* Page p is created or edited.
Change(p) ==
    /\ truth[p].live \/ truth[p] = Nothing
    /\ truth' = [truth EXCEPT ![p] = [live |-> TRUE, rev |-> truth[p].rev + 1]]
    /\ UNCHANGED <<back, copy>>

\* Page p is deleted.
Vanish(p) ==
    /\ truth[p].live
    /\ truth' = [truth EXCEPT ![p].live = FALSE]
    /\ back' = back \ {p}
    /\ UNCHANGED copy

\* Page p comes back as it was.
Return(p) ==
    /\ ~truth[p].live /\ truth[p] # Nothing
    /\ truth' = [truth EXCEPT ![p].live = TRUE]
    /\ back' = back \cup {p}
    /\ UNCHANGED copy

\* The copy of p moves forward to a revision p has, or had.
CatchUp(p) ==
    /\ \E r \in copy[p].rev .. truth[p].rev :
          r # 0 /\ copy' = [copy EXCEPT ![p] = [live |-> TRUE, rev |-> r]]
    /\ UNCHANGED <<truth, back>>

\* The copy of a page that is gone, or was, is withdrawn.
Withdraw(p) ==
    /\ ~truth[p].live \/ p \in back
    /\ copy' = [copy EXCEPT ![p].live = FALSE]
    /\ UNCHANGED <<truth, back>>

Next == \E p \in Pages : Change(p) \/ Vanish(p) \/ Return(p) \/ CatchUp(p) \/ Withdraw(p)

\* The copy of p becomes what p is.
Settle(p) ==
    \/ /\ truth[p].live
       /\ copy' = [copy EXCEPT ![p] = truth[p]]
       /\ UNCHANGED <<truth, back>>
    \/ p \in Withdrawn /\ ~truth[p].live /\ Withdraw(p)

Spec == Init /\ [][Next]_vars /\ \A p \in Pages : WF_vars(Settle(p))
=============================================================================
