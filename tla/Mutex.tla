------------------------------- MODULE Mutex -------------------------------
(***************************************************************************)
(* What the Hub mutation lock promises its callers: at most one process is *)
(* inside a locked section.  A process leaves by releasing or by dying.    *)
(* HubLock implements this specification; the modules of the mutations     *)
(* that run under `.hub.lock` use its actions instead of the lock protocol.*)
(***************************************************************************)
CONSTANT Proc        \* the processes that may run Hub commands

VARIABLE holders     \* the processes inside the locked section

Free == holders = {}

Acquire(p) == /\ Free
              /\ holders' = {p}

Leave(p) == /\ holders = {p}
            /\ holders' = {}

Init == Free

Next == \E p \in Proc : Acquire(p) \/ Leave(p)

Spec == Init /\ [][Next]_holders
=============================================================================
