------------------------------ MODULE RemoteLock ------------------------------
(***************************************************************************)
(* Reviewed plans that replace the lock of a project by the versions of    *)
(* one release (packages/project/src/remote-projects.ts).  Those who apply *)
(* plans exclude each other by a guard directory next to the lock file; it *)
(* resembles the mutation lock of the Hub (HubLock), but a guard that      *)
(* cannot be verified is never repaired.  The command `lock --refresh`     *)
(* writes the same file without the guard.                                 *)
(*                                                                         *)
(* One step is one call of the file system, and a process may die between  *)
(* any two.  A process that died does not come back, so that its id stays  *)
(* dead.  Tokens, which the code draws at random, are a process and the    *)
(* number of its call.                                                     *)
(***************************************************************************)
EXTENDS Naturals, FiniteSets

CONSTANTS
    Proc,           \* processes that apply plans
    Locks,          \* contents of the lock file, each with a digest of its own
    None,
    MaxCalls,       \* bound: applies of one process
    MaxRefreshes,   \* bound: refreshes of the lock
    MaxAttempts     \* tries to make the guard: three

VARIABLES
    lock,           \* the lock file
    guard,          \* the guard directory: "absent" or "dir"
    owners,         \* the tokens whose owner file is in it
    marked,         \* those whose file holds its marker
    pc,
    plan,           \* plan[p]: the plan that p applies: existing lock and candidate
    calls,          \* calls[p]: the applies of p
    attempt,        \* attempt[p]: the tries of this one
    observed,       \* observed[p]: the owner that p found in the guard
    answer,         \* answer[p]: what the caller is told; "refused" stands for every
                    \* error that says that the lock is as it was
    refreshes,
    committed,      \* the processes whose present call replaced the lock (for properties)
    disturbed       \* those behind whose back it was refreshed (for properties)

disk == <<guard, owners, marked>>
history == <<committed, disturbed>>
vars == <<lock, disk, pc, plan, calls, attempt, observed, answer, refreshes, history>>

own(p) == <<p, calls[p]>>
alive(p) == pc[p] # "dead"

Goto(p, from, to) == pc[p] = from /\ pc' = [pc EXCEPT ![p] = to]
Local(p) == UNCHANGED <<lock, plan, calls, answer, refreshes, history>>

\* The call fails before it has the guard.
Refuse(p) ==
    /\ pc' = [pc EXCEPT ![p] = "idle"]
    /\ answer' = [answer EXCEPT ![p] = "refused"]
    /\ observed' = [observed EXCEPT ![p] = {}]
    /\ attempt' = [attempt EXCEPT ![p] = 0]
    /\ UNCHANGED <<lock, disk, plan, calls, refreshes, history>>

\* What is left to do under the guard is to give it up.
Finish(p, what) == /\ pc' = [pc EXCEPT ![p] = "relSnapshot"]
                   /\ answer' = [answer EXCEPT ![p] = what]

----------------------------------------------------------------------------

\* A plan is bound to the lock as it is when the plan is made.
runRemoteLockPlan(p) ==
    /\ pc[p] = "idle" /\ plan[p] = None
    /\ \E c \in Locks : plan' = [plan EXCEPT ![p] = [existing |-> lock, candidate |-> c]]
    /\ UNCHANGED <<lock, disk, pc, calls, attempt, observed, answer, refreshes, history>>

\* The same plan may be applied again.  A look at the lock precedes the guard.
applyRemoteLockPlan(p) ==
    /\ pc[p] = "idle" /\ plan[p] # None
    /\ calls[p] < MaxCalls
    /\ calls' = [calls EXCEPT ![p] = @ + 1]
    /\ committed' = committed \ {p}
    /\ IF lock = plan[p].existing
       THEN /\ pc' = [pc EXCEPT ![p] = "mkdir"]
            /\ attempt' = [attempt EXCEPT ![p] = 1]
            /\ answer' = [answer EXCEPT ![p] = None]
       ELSE /\ answer' = [answer EXCEPT ![p] = "refused"]
            /\ UNCHANGED <<pc, attempt>>
    /\ UNCHANGED <<lock, disk, plan, observed, refreshes, disturbed>>

----------------------------------------------------------------------------
(***************************************************************************)
(* acquireRemoteLockGuard                                                  *)
(***************************************************************************)

Mkdir(p) ==
    /\ Goto(p, "mkdir", IF guard = "absent" THEN "open" ELSE "readdir")
    /\ guard' = "dir"
    /\ attempt' = [attempt EXCEPT ![p] = IF guard = "absent" THEN 0 ELSE @]
    /\ UNCHANGED <<owners, marked, observed>> /\ Local(p)

Again(p) == IF attempt[p] = MaxAttempts THEN Refuse(p)
            ELSE /\ pc' = [pc EXCEPT ![p] = "mkdir"]
                 /\ attempt' = [attempt EXCEPT ![p] = @ + 1]
                 /\ observed' = [observed EXCEPT ![p] = {}]
                 /\ UNCHANGED disk /\ Local(p)

\* readGuardSnapshot: a directory with exactly one owner file ...
Readdir(p) ==
    /\ Goto(p, "readdir", IF Cardinality(owners) = 1 THEN "readOwner" ELSE "recheck")
    /\ observed' = [observed EXCEPT ![p] = IF Cardinality(owners) = 1 THEN owners ELSE {}]
    /\ UNCHANGED <<disk, attempt>> /\ Local(p)

\* ... which holds its marker.
ReadOwner(p) ==
    /\ Goto(p, "readOwner", IF observed[p] \subseteq marked THEN "probe" ELSE "recheck")
    /\ UNCHANGED <<disk, attempt, observed>> /\ Local(p)

\* A guard that vanished is tried again; one that cannot be read is left alone.
Recheck(p) ==
    /\ pc[p] = "recheck"
    /\ IF guard = "absent" THEN Again(p) ELSE Refuse(p)

Probe(p) ==
    /\ pc[p] = "probe"
    /\ IF \E o \in observed[p] : alive(o[1])
       THEN Refuse(p)
       ELSE pc' = [pc EXCEPT ![p] = "verify"] /\ UNCHANGED <<disk, attempt, observed>> /\ Local(p)

\* The owner entry is verified once more ...
Verify(p) ==
    /\ pc[p] = "verify"
    /\ IF observed[p] \subseteq owners
       THEN pc' = [pc EXCEPT ![p] = "rmOwner"] /\ UNCHANGED <<disk, attempt, observed>> /\ Local(p)
       ELSE Refuse(p)

\* Mutant: whatever owner is there is removed.
RmAnyOwner(p) ==
    /\ Goto(p, "rmOwner", "rmdir")
    /\ owners' = {} /\ marked' = {}
    /\ UNCHANGED <<guard, attempt, observed>> /\ Local(p)

\* ... and only it is removed, by one process only.
RmOwner(p) ==
    /\ pc[p] = "rmOwner"
    /\ IF observed[p] \subseteq owners
       THEN /\ pc' = [pc EXCEPT ![p] = "rmdir"]
            /\ owners' = owners \ observed[p] /\ marked' = marked \ observed[p]
            /\ UNCHANGED <<guard, attempt, observed>> /\ Local(p)
       ELSE Refuse(p)

removable == guard = "dir" /\ owners = {}

Rmdir(p) ==
    /\ pc[p] = "rmdir"
    /\ IF removable
       THEN /\ guard' = "absent"
            /\ pc' = [pc EXCEPT ![p] = "reclaimed"]
            /\ UNCHANGED <<owners, marked, attempt, observed>> /\ Local(p)
       ELSE Refuse(p)

Reclaimed(p) == pc[p] = "reclaimed" /\ Again(p)

\* The owner file is made, and then its marker is written; if either fails,
\* the guard is given back as far as possible.
Open(p) ==
    /\ \/ /\ guard = "dir"
          /\ Goto(p, "open", "write")
          /\ owners' = owners \cup {own(p)}
       \/ Goto(p, "open", "failRm") /\ UNCHANGED owners
    /\ UNCHANGED <<guard, marked, attempt, observed>> /\ Local(p)

Write(p) ==
    /\ \/ Goto(p, "write", "holding") /\ marked' = marked \cup ({own(p)} \cap owners)
       \/ Goto(p, "write", "failRm") /\ UNCHANGED marked
    /\ UNCHANGED <<guard, owners, attempt, observed>> /\ Local(p)

FailRm(p) ==
    /\ Goto(p, "failRm", "failRmdir")
    /\ owners' = owners \ {own(p)} /\ marked' = marked \ {own(p)}
    /\ UNCHANGED <<guard, attempt, observed>> /\ Local(p)

FailRmdir(p) ==
    /\ Goto(p, "failRmdir", "idle")
    /\ guard' = IF removable THEN "absent" ELSE guard
    /\ answer' = [answer EXCEPT ![p] = "refused"]
    /\ UNCHANGED <<lock, owners, marked, plan, calls, attempt, observed, refreshes, history>>

----------------------------------------------------------------------------
(***************************************************************************)
(* Under the guard.                                                        *)
(***************************************************************************)

\* Mutant: the lock that was read before the guard is trusted.
currentFromHint(p) == TRUE

\* The lock on the disk is the one that the plan was reviewed against.
current(p) == lock = plan[p].existing

\* It is read again, and the candidate is written to a temporary file.
Read(p) ==
    /\ pc[p] = "holding"
    /\ \/ /\ current(p)
          /\ pc' = [pc EXCEPT ![p] = "rename"]
          /\ UNCHANGED answer
       \/ Finish(p, "refused")
    /\ UNCHANGED <<lock, disk, plan, calls, attempt, observed, refreshes, history>>

\* Mutant: a failure to sync the directory is taken for a failure to write.
writeLockUndone(p) ==
    /\ pc[p] = "rename"
    /\ lock' = plan[p].candidate
    /\ committed' = committed \cup {p}
    /\ \E what \in {"applied", "refused"} : Finish(p, what)
    /\ disturbed' = disturbed \ {p}
    /\ UNCHANGED <<disk, plan, calls, attempt, observed, refreshes>>

\* The rename commits; after it, the directory is synced, which may fail.
writeLockAtomically(p) ==
    /\ pc[p] = "rename"
    /\ \/ /\ lock' = plan[p].candidate
          /\ committed' = committed \cup {p}
          /\ \E what \in {"applied", "not durable"} : Finish(p, what)
       \/ Finish(p, "refused") /\ UNCHANGED <<lock, committed>>
    /\ disturbed' = disturbed \ {p}
    /\ UNCHANGED <<disk, plan, calls, attempt, observed, refreshes>>

----------------------------------------------------------------------------
(***************************************************************************)
(* release, deaths, and the command that does not take the guard.          *)
(***************************************************************************)

RelSnapshot(p) ==
    /\ Goto(p, "relSnapshot", IF owners = {own(p)} /\ owners \subseteq marked THEN "relRm" ELSE "idle")
    /\ UNCHANGED <<disk, attempt, observed>> /\ Local(p)

\* A failure to remove the owner file hides whatever was to be answered.
RelRm(p) ==
    /\ \/ /\ Goto(p, "relRm", "relRmdir")
          /\ owners' = owners \ {own(p)} /\ marked' = marked \ {own(p)}
          /\ UNCHANGED answer
       \/ /\ Goto(p, "relRm", "idle")
          /\ answer' = [answer EXCEPT ![p] = "not released"]
          /\ UNCHANGED <<owners, marked>>
    /\ UNCHANGED <<lock, guard, attempt, observed, plan, calls, refreshes, history>>

RelRmdir(p) ==
    /\ Goto(p, "relRmdir", "idle")
    /\ guard' = IF removable THEN "absent" ELSE guard
    /\ UNCHANGED <<owners, marked, attempt, observed>> /\ Local(p)

Crash(p) ==
    /\ pc[p] \notin {"idle", "dead"}
    /\ pc' = [pc EXCEPT ![p] = "dead"]
    /\ plan' = [plan EXCEPT ![p] = None]
    /\ attempt' = [attempt EXCEPT ![p] = 0]
    /\ observed' = [observed EXCEPT ![p] = {}]
    /\ answer' = [answer EXCEPT ![p] = None]
    /\ committed' = committed \ {p} /\ disturbed' = disturbed \ {p}
    /\ UNCHANGED <<lock, disk, calls, refreshes>>

\* ega-skills lock --refresh
Refresh ==
    /\ refreshes < MaxRefreshes
    /\ refreshes' = refreshes + 1
    /\ \E l \in Locks \ {lock} : lock' = l
    /\ disturbed' = disturbed \cup {p \in Proc : pc[p] = "rename"}
    /\ UNCHANGED <<disk, pc, plan, calls, attempt, observed, answer, committed>>

Init == /\ lock \in Locks
        /\ guard = "absent" /\ owners = {} /\ marked = {}
        /\ pc = [p \in Proc |-> "idle"]
        /\ plan = [p \in Proc |-> None]
        /\ calls = [p \in Proc |-> 0]
        /\ attempt = [p \in Proc |-> 0]
        /\ observed = [p \in Proc |-> {}]
        /\ answer = [p \in Proc |-> None]
        /\ refreshes = 0
        /\ committed = {} /\ disturbed = {}

Step(p) ==
    \/ runRemoteLockPlan(p) \/ applyRemoteLockPlan(p)
    \/ Mkdir(p) \/ Readdir(p) \/ ReadOwner(p) \/ Recheck(p) \/ Probe(p) \/ Verify(p) \/ RmOwner(p)
    \/ Rmdir(p) \/ Reclaimed(p) \/ Open(p) \/ Write(p) \/ FailRm(p) \/ FailRmdir(p)
    \/ Read(p) \/ writeLockAtomically(p) \/ RelSnapshot(p) \/ RelRm(p) \/ RelRmdir(p)
    \/ Crash(p)

Next == Refresh \/ \E p \in Proc : Step(p)

Spec == Init /\ [][Next]_vars

----------------------------------------------------------------------------

\* The guard keeps its promise: at most one process is between the reading of
\* the lock and the rename, whoever dies, reclaims or fails meanwhile.
Guard == INSTANCE Mutex WITH holders <- {p \in Proc : pc[p] \in {"holding", "rename"}}
GuardIsMutex == Guard!Spec

\* A plan replaces exactly the lock that it was reviewed against, also when two
\* were made from one lock and one is applied twice; only a refresh, which does
\* not take the guard, may get between the second look and the rename.
PlansFollowReviews ==
    [][\A p \in Proc : p \in committed' \ committed =>
           /\ lock = plan[p].existing \/ p \in disturbed
           /\ lock' = plan[p].candidate]_vars

\* Who is told that the plan was applied, or is not durable yet, has replaced
\* the lock; who is told anything else has not, unless it is that the guard
\* could not be released, which tells nothing.
AnswersAreTrue ==
    \A p \in Proc : pc[p] = "idle" /\ answer[p] \notin {None, "not released"} =>
        (answer[p] \in {"applied", "not durable"} <=> p \in committed)

=============================================================================
