---------------------------- MODULE AdoptedHub -----------------------------
(***************************************************************************)
(* What a Hub update promises (docs/contracts/CONTRACT-B, sections 5 to 7):*)
(* the adopted state of the Hub, the lock record of each source with the   *)
(* vendored tree it binds, changes for one source at a time, atomically,   *)
(* and only from a state in which that source's tree is the adopted one.   *)
(* A crash, a failure or a recovery never shows as a change.               *)
(***************************************************************************)
CONSTANTS Source,    \* the sources the Hub has adopted
          Version,   \* the lock records a source may have
          Tree,      \* the contents of a vendored tree
          TreeOf,    \* the tree that a lock record binds by its digests
          Edited     \* a tree that was edited by hand and matches no record

VARIABLES record,    \* the adopted lock record of each source
          tree       \* the adopted tree of each source

Init == /\ record \in [Source -> Version]
        /\ tree = [s \in Source |-> TreeOf[record[s]]]

Update(s, v) == /\ tree[s] = TreeOf[record[s]]
                /\ record' = [record EXCEPT ![s] = v]
                /\ tree' = [tree EXCEPT ![s] = TreeOf[v]]

(* Somebody changes the working tree of the Hub repository.                *)
Edit(s) == /\ tree' = [tree EXCEPT ![s] = Edited]
           /\ UNCHANGED record

Next == \E s \in Source : Edit(s) \/ \E v \in Version : Update(s, v)

Spec == Init /\ [][Next]_<<record, tree>>
=============================================================================
