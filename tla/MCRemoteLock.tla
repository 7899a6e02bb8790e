---------------------------- MODULE MCRemoteLock ----------------------------
(* Interchangeable processes and contents of the lock file.                *)
EXTENDS RemoteLock, TLC

Symmetry == Permutations(Proc) \cup Permutations(Locks)
=============================================================================
