---------------------------- MODULE HubAdoption ----------------------------
(***************************************************************************)
(* Applying a reviewed plan, a transaction over several paths of the Hub,  *)
(* and its recovery: applyAdoptionPlan, applyOwnedDerivativeCandidate      *)
(* (packages/project/src/intake/adopt.ts), recoverAdoptionIfNeeded         *)
(* (hub/journal.ts).                                                       *)
(*                                                                         *)
(* One step is one durable change, so a process may be killed, or a call   *)
(* may fail, between any two.  The content of a contract file is the set   *)
(* of plans it records; a tree, a receipt is the plan that brought it.     *)
(* The code swaps and restores the paths in sorted order; the model takes  *)
(* any order.  What is left of an abandoned stage is never read, so stages *)
(* are copied and removed in one step.  The mutation lock is taken at its  *)
(* word (Mutex).                                                           *)
(***************************************************************************)
EXTENDS Naturals, FiniteSets

CONSTANTS Proc,       \* the processes that apply plans or recover
          Plan,       \* adoption plans, reviewed and staged
          Derivative, \* the plans that are owned-derivative candidates
          Contract,   \* hub.yaml, sources.yaml, sources.lock.yaml
          OwnPaths,   \* per plan, the tree and the receipt it adds
          Absent,     \* the content of a path that does not exist
          Torn        \* the content of a path written or removed in part

Path == Contract \cup UNION {OwnPaths[a] : a \in Plan}

Content == (SUBSET Plan) \cup {Absent, Torn}

Journal == [plan : Plan, old : [Path -> Content], new : [Path -> Content],
            state : {"PREPARED", "SWAPPING", "COMMITTED"}]

ASSUME DerivativeAssumption == Derivative \subseteq Plan
ASSUME PathAssumption == /\ \A a \in Plan : OwnPaths[a] \cap Contract = {}
                         /\ \A a, b \in Plan : a # b => OwnPaths[a] \cap OwnPaths[b] = {}
ASSUME ContentAssumption == Absent # Torn /\ \A s \in SUBSET Plan : s # Absent /\ s # Torn
ASSUME JournalAssumption == Absent \notin Journal

VARIABLES mutex,     \* holders of `.hub.lock`
          journal,   \* `.adoption-journal.json`: plan, old and new files, state
          live,      \* the Hub: per path, the plans it has adopted, Absent or Torn
          staged,    \* `.adoption-staging/<plan>`: the new paths
          saved,     \* `.adoption-backup/<plan>`: copies of the old paths
          command,   \* per process, the plan it applies with its baseline, the
                     \* digest of the Hub that the plan was made for
          done,      \* per process, the paths it has dealt with in this phase
          target,    \* per process, the path it is swapping
          pc         \* per process, its place in the command

hub == <<journal, live, staged, saved>>
vars == <<hub, mutex, command, done, target, pc>>

M == INSTANCE Mutex WITH holders <- mutex

Nothing == [x \in Path |-> Absent]

Entries(a) == OwnPaths[a] \cup (IF a \in Derivative THEN {} ELSE Contract)

Leaving == {"leave", "failed", "recoveryRequired"}

A == INSTANCE AdoptedPlans WITH hub <- live

Init == /\ mutex = {}
        /\ journal = Absent
        /\ live \in [Path -> {Absent, {}}] /\ A!Agree(live)
        /\ staged = Nothing /\ saved = Nothing
        /\ command = [p \in Proc |-> Absent]
        /\ done = [p \in Proc |-> {}]
        /\ target = [p \in Proc |-> Absent]
        /\ pc = [p \in Proc |-> "idle"]

Incomplete == journal # Absent /\ journal.state # "COMMITTED"

-----------------------------------------------------------------------------

go(p, from, to) == /\ pc[p] = from
                   /\ pc' = [pc EXCEPT ![p] = to]

local == <<mutex, command, done, target>>

(* A phase over several paths starts with none of them done.               *)
start(p) == done' = [done EXCEPT ![p] = {}]
finish(p, x) == done' = [done EXCEPT ![p] = @ \cup {x}]

(* What a path may show while it is written, removed or copied over.       *)
inPart(f, x) == {[f EXCEPT ![x] = c] : c \in {Absent, Torn}}

-----------------------------------------------------------------------------
(* Commands.                                                               *)

ApplyAdoptionPlan(p) == /\ go(p, "idle", "recover")
                        /\ M!Acquire(p)
                        /\ \E c \in [plan : Plan, baseline : {live, Nothing}] :
                             command' = [command EXCEPT ![p] = c]
                        /\ UNCHANGED <<hub, done, target>>

RecoverIfNeeded(p) == /\ go(p, "idle", "recover")
                      /\ M!Acquire(p)
                      /\ command' = [command EXCEPT ![p] = Absent]
                      /\ UNCHANGED <<hub, done, target>>

ends(p) == /\ pc' = [pc EXCEPT ![p] = "idle"]
           /\ M!Leave(p)
           /\ command' = [command EXCEPT ![p] = Absent]
           /\ done' = [done EXCEPT ![p] = {}]
           /\ target' = [target EXCEPT ![p] = Absent]
           /\ UNCHANGED hub

Leave(p) == pc[p] \in Leaving /\ ends(p)

(* kill -9.  A death on the way out is the same step as Leave.             *)
Crash(p) == pc[p] \notin Leaving \cup {"idle"} /\ ends(p)

(* The finally block: what was copied is removed, unless the journal is    *)
(* known to have been written.                                             *)
\* Mutant: the journal counts as written only once the swap has begun.
beforeJournalLate == {"copy", "prepare", "remove"}

beforeJournal == {"copy", "prepare"}

Fail(p) == /\ pc[p] \notin Leaving \cup {"idle"}
           /\ pc' = [pc EXCEPT ![p] = IF @ \in beforeJournal THEN "cleanup" ELSE "failed"]
           /\ UNCHANGED <<hub, local>>

Cleanup(p) == /\ staged' = Nothing
              /\ \/ /\ pc[p] = "cleanup" /\ UNCHANGED pc
                    /\ \E x \in Path : saved[x] # Absent /\ saved' \in inPart(saved, x)
                 \/ go(p, "cleanup", "failed") /\ saved' = Nothing
              /\ UNCHANGED <<journal, live, local>>

-----------------------------------------------------------------------------
(* recoverAdoptionIfNeeded.                                                *)

afterRecovery(p) ==
  IF command[p] = Absent \/ done[p] # {} THEN "leave" ELSE "check"

(* Every backup that recovery will need is verified before anything else.  *)
backupsIntact == \A x \in Entries(journal.plan) :
                    journal.old[x] # Absent => saved[x] = journal.old[x]

landed == \A x \in Entries(journal.plan) : live[x] = journal.new[x]

\* Mutant: an adoption that began to swap is taken for a finished one.
RecoverForward(p) ==
  /\ go(p, "recover",
        IF journal = Absent THEN afterRecovery(p)
        ELSE IF journal.state = "PREPARED"
             THEN IF backupsIntact THEN "restore" ELSE "recoveryRequired"
             ELSE "dropStaged")
  /\ IF Incomplete THEN start(p) ELSE UNCHANGED done
  /\ UNCHANGED <<hub, mutex, command, target>>

Recover(p) ==
  /\ go(p, "recover",
        IF journal = Absent THEN afterRecovery(p)
        ELSE IF Incomplete THEN IF backupsIntact THEN "restore" ELSE "recoveryRequired"
        ELSE IF landed THEN "dropStaged" ELSE "recoveryRequired")
  /\ IF Incomplete THEN start(p) ELSE UNCHANGED done
  /\ UNCHANGED <<hub, mutex, command, target>>

\* Mutant: the old path is moved out of the backup, not copied.
RestoreByMove(p) ==
  /\ pc[p] = "restore"
  /\ \/ \E x \in Entries(journal.plan) \ done[p] :
          /\ live' = [live EXCEPT ![x] = journal.old[x]] /\ finish(p, x)
          /\ saved' = [saved EXCEPT ![x] = Absent]
          /\ UNCHANGED pc
     \/ /\ Entries(journal.plan) \subseteq done[p]
        /\ go(p, "restore", "dropStaged")
        /\ start(p)
        /\ UNCHANGED <<live, saved>>
  /\ UNCHANGED <<journal, staged, mutex, command, target>>

\* Mutant: paths that had no old content are left as they are.
RestoreOnlyOld(p) ==
  /\ pc[p] = "restore"
  /\ \/ \E x \in Entries(journal.plan) \ done[p] :
          /\ finish(p, x)
          /\ live' = IF journal.old[x] = Absent THEN live
                     ELSE [live EXCEPT ![x] = journal.old[x]]
          /\ UNCHANGED pc
     \/ /\ Entries(journal.plan) \subseteq done[p]
        /\ go(p, "restore", "dropStaged")
        /\ start(p)
        /\ UNCHANGED live
  /\ UNCHANGED <<journal, staged, saved, mutex, command, target>>

(* Remove the new path, copy the old one back, verify.                     *)
Restore(p) ==
  /\ pc[p] = "restore"
  /\ \/ \E x \in Entries(journal.plan) \ done[p] :
          /\ \/ live' \in inPart(live, x) /\ UNCHANGED done
             \/ live' = [live EXCEPT ![x] = journal.old[x]] /\ finish(p, x)
          /\ UNCHANGED pc
     \/ /\ Entries(journal.plan) \subseteq done[p]
        /\ go(p, "restore", "dropStaged")
        /\ start(p)
        /\ UNCHANGED live
  /\ UNCHANGED <<journal, staged, saved, mutex, command, target>>

DropStaged(p) == /\ go(p, "dropStaged", "dropSaved")
                 /\ staged' = Nothing
                 /\ UNCHANGED <<journal, live, saved, local>>

DropSaved(p) ==
  /\ \/ /\ pc[p] = "dropSaved" /\ UNCHANGED pc
        /\ \E x \in Path : saved[x] # Absent /\ saved' \in inPart(saved, x)
     \/ go(p, "dropSaved", "clearJournal") /\ saved' = Nothing
  /\ UNCHANGED <<journal, live, staged, local>>

ClearJournal(p) == /\ go(p, "clearJournal", afterRecovery(p))
                   /\ journal' = Absent
                   /\ UNCHANGED <<live, staged, saved, local>>

Recovery(p) == Recover(p) \/ Restore(p) \/ DropStaged(p) \/ DropSaved(p) \/ ClearJournal(p)

-----------------------------------------------------------------------------
(* applyAdoptionPlan after its recovery.                                   *)

(* Not E_PLAN_STALE, ALREADY_APPLIED, or a path that already exists.       *)
adoptable(c) == /\ c.baseline = live
                /\ \A x \in OwnPaths[c.plan] : live[x] = Absent

(* The same for a derivative, which goes into an owned source of the Hub.  *)
derivable(c) == adoptable(c) /\ \A x \in Contract : live[x] # Absent

Check(p) ==
  /\ go(p, "check",
        IF IF command[p].plan \in Derivative THEN derivable(command[p])
                                             ELSE adoptable(command[p])
        THEN "copy" ELSE "leave")
  /\ start(p)
  /\ staged' = Nothing /\ saved' = Nothing    \* remnants of other plans are not read
  /\ UNCHANGED <<journal, live, mutex, command, target>>

(* Both copies of a path, first the new then the old, before the journal.  *)
Copy(p) ==
  LET new == A!With(command[p].plan, live)
  IN  /\ pc[p] = "copy"
      /\ \/ \E x \in Entries(command[p].plan) \ done[p] :
              /\ staged' = [staged EXCEPT ![x] = new[x]]
              /\ \/ live[x] # Absent /\ saved' \in inPart(saved, x) /\ UNCHANGED done
                 \/ saved' = [saved EXCEPT ![x] = live[x]] /\ finish(p, x)
              /\ UNCHANGED pc
         \/ /\ Entries(command[p].plan) \subseteq done[p]
            /\ go(p, "copy", "prepare")
            /\ UNCHANGED <<staged, saved, done>>
      /\ UNCHANGED <<journal, live, mutex, command, target>>

(* journalWritten is set when the write returns: a failure of the last     *)
(* directory sync leaves the journal and removes the copies.               *)
Prepare(p) ==
  /\ pc[p] = "prepare"
  /\ go(p, "prepare", "remove") \/ go(p, "prepare", "cleanup")
  /\ journal' = [plan |-> command[p].plan, old |-> live,
                 new |-> A!With(command[p].plan, live), state |-> "PREPARED"]
  /\ start(p)
  /\ UNCHANGED <<live, staged, saved, mutex, command, target>>

Remove(p) ==
  /\ pc[p] = "remove"
  /\ \E x \in Entries(command[p].plan) \ done[p] :
       /\ target[p] \in {Absent, x}
       /\ \/ live[x] # Absent /\ live' \in inPart(live, x) /\ UNCHANGED pc
          \/ live' = [live EXCEPT ![x] = Absent] /\ go(p, "remove", "rename")
       /\ target' = [target EXCEPT ![p] = x]
  /\ UNCHANGED <<journal, staged, saved, mutex, command, done>>

Rename(p) == /\ go(p, "rename", "mark")
             /\ live' = [live EXCEPT ![target[p]] = staged[target[p]]]
             /\ staged' = [staged EXCEPT ![target[p]] = Absent]
             /\ UNCHANGED <<journal, saved, local>>

Mark(p) == /\ pc[p] = "mark"
           /\ journal' = [journal EXCEPT !.state = "SWAPPING"]
           /\ finish(p, target[p])
           /\ go(p, "mark", IF Entries(command[p].plan) \subseteq done'[p]
                            THEN "verify" ELSE "remove")
           /\ target' = [target EXCEPT ![p] = Absent]
           /\ UNCHANGED <<live, staged, saved, mutex, command>>

Verify(p) == /\ go(p, "verify", IF landed THEN "commit" ELSE "failed")
             /\ UNCHANGED <<hub, local>>

(* The cleanup after the commit is the recovery of a committed journal.    *)
Commit(p) == /\ go(p, "commit", "recover")
             /\ journal' = [journal EXCEPT !.state = "COMMITTED"]
             /\ UNCHANGED <<live, staged, saved, local>>

Swap(p) == \/ Check(p) \/ Copy(p) \/ Prepare(p) \/ Remove(p) \/ Rename(p) \/ Mark(p)
           \/ Verify(p) \/ Commit(p)

Next == \E p \in Proc : \/ ApplyAdoptionPlan(p) \/ RecoverIfNeeded(p)
                        \/ Recovery(p) \/ Swap(p) \/ Cleanup(p) \/ Leave(p)
                        \/ Fail(p) \/ Crash(p)

Spec == Init /\ [][Next]_vars

-----------------------------------------------------------------------------
(* Properties.                                                             *)

(* The Hub as its contract counts it: the old content of every path of an  *)
(* adoption that has not committed.                                        *)
adopted == IF Incomplete
           THEN [x \in Path |-> IF x \in Entries(journal.plan) THEN journal.old[x] ELSE live[x]]
           ELSE live

(* An adoption takes effect on all of its paths at once or on none, and    *)
(* only once, whatever crashes, failures and recoveries interrupt it.      *)
Abstract == INSTANCE AdoptedPlans WITH hub <- adopted
AdoptionIsAtomic == Abstract!Spec

(* Without a journal the contract files agree with each other and with the *)
(* trees: builders, which look only for the journal, meet no partial       *)
(* adoption.                                                               *)
NoJournalAgree == journal = Absent => A!Agree(live)

(* Until the journal is gone, the old content of every path is in the Hub  *)
(* or in the backup: no crash loses adopted content.                       *)
OldSurvives ==
  Incomplete => \A x \in Entries(journal.plan) :
                  journal.old[x] # Absent => journal.old[x] \in {live[x], saved[x]}

(* When recovery refuses, nothing is left for it to restore: the journal   *)
(* blocks the Hub, but the Hub is the previous one.                        *)
RefusesOnlyRestored ==
  (\E p \in Proc : pc[p] = "recoveryRequired") => adopted = live

=============================================================================
