----------------------------- MODULE MCHubLock -----------------------------
(* Model values for HubLock: interchangeable processes.                    *)
EXTENDS HubLock, TLC

Symmetry == Permutations(Proc)
=============================================================================
