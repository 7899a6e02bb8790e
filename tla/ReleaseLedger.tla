---------------------------- MODULE ReleaseLedger ----------------------------
(***************************************************************************)
(* What the retained manifest promises to those who serve it: a revision   *)
(* that grows by one with each publication, one default release, and a set *)
(* of releases from which nothing is ever taken away.                      *)
(***************************************************************************)
EXTENDS Integers

CONSTANTS Releases, Deployments

VARIABLES revision, default, deployment, retained

ledger == <<revision, default, deployment, retained>>

Init == /\ revision = 1
        /\ default \in Releases
        /\ deployment \in Deployments
        /\ retained = {default}

Publish(r, d) == /\ revision' = revision + 1
                 /\ default' = r
                 /\ deployment' = d
                 /\ retained' = retained \cup {r}

Next == \E r \in Releases, d \in Deployments : Publish(r, d)

Spec == Init /\ [][Next]_ledger

=============================================================================
