--------------------------- MODULE ProposalBoard ---------------------------
(***************************************************************************)
(* What submitting a proposal promises: at most one pull request of a      *)
(* proposal is open, and an editor is only told of an open one that holds  *)
(* the proposal and nothing else.                                          *)
(***************************************************************************)
CONSTANTS Editors, Proposals, Nothing

VARIABLES
    filed,      \* filed[p]: "no", "open" or "closed" (merged or not)
    told        \* told[e]: the proposal whose pull request e is told of

Init == /\ filed = [p \in Proposals |-> "no"]
        /\ told = [e \in Editors |-> Nothing]

File(p) == /\ filed[p] # "open"
           /\ filed' = [filed EXCEPT ![p] = "open"]
           /\ UNCHANGED told

Close(p) == /\ filed[p] = "open"
            /\ filed' = [filed EXCEPT ![p] = "closed"]
            /\ UNCHANGED told

Tell(e, p) == /\ filed[p] = "open"
              /\ told' = [told EXCEPT ![e] = p]
              /\ UNCHANGED filed

\* The editor goes on.
Forget(e) == /\ told' = [told EXCEPT ![e] = Nothing]
             /\ UNCHANGED filed

Next == \/ \E p \in Proposals : File(p) \/ Close(p)
        \/ \E e \in Editors : Forget(e) \/ \E p \in Proposals : Tell(e, p)

Spec == Init /\ [][Next]_<<filed, told>>

=============================================================================
