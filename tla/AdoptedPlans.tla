---------------------------- MODULE AdoptedPlans ---------------------------
(***************************************************************************)
(* What applying a reviewed plan promises: every path the plan owns and,   *)
(* if it brings a new source, every contract file of the Hub change        *)
(* together, once, from a Hub in which they agree.  A derivative goes into *)
(* an owned source the contract already names.                             *)
(***************************************************************************)
CONSTANTS Plan,       \* adoption plans
          Derivative, \* the plans that are owned-derivative candidates
          Contract,   \* hub.yaml, sources.yaml, sources.lock.yaml
          OwnPaths,   \* the tree (and receipt) each plan adds
          Path,       \* all of these paths
          Absent      \* the content of a path that does not exist

VARIABLE hub          \* the content of each path: the plans it holds

plansIn(content) == IF content = Absent THEN {} ELSE content

(* The Hub with a plan added: what the prospective Hub is built with.      *)
With(a, h) == [x \in Path |-> IF x \in OwnPaths[a] THEN {a}
                              ELSE IF x \in Contract /\ a \notin Derivative
                                   THEN plansIn(h[x]) \cup {a}
                              ELSE h[x]]

(* The contracts agree, and exactly the plans they name have their paths.  *)
Agree(h) ==
  \E adopted \in SUBSET Plan :
    /\ \/ \A c \in Contract : h[c] = adopted \ Derivative
       \/ adopted = {} /\ \A c \in Contract : h[c] = Absent
    /\ \A a \in Plan : \A x \in OwnPaths[a] : h[x] = IF a \in adopted THEN {a} ELSE Absent

Init == /\ hub \in [Path -> {Absent, {}}]
        /\ Agree(hub)

Adopt(a) == /\ Agree(hub)
            /\ \A x \in OwnPaths[a] : hub[x] = Absent
            /\ hub' = With(a, hub)

Next == \E a \in Plan : Adopt(a)

Spec == Init /\ [][Next]_hub
=============================================================================
