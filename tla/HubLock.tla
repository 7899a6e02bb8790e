------------------------------ MODULE HubLock ------------------------------
(***************************************************************************)
(* The owner-token directory lock `.hub.lock` that serialises every Hub    *)
(* mutation (packages/project/src/hub/mutation-lock.ts), entered through   *)
(* acquireHubLock (apply.ts) or directly by recoverIfNeeded (journal.ts).  *)
(*                                                                         *)
(* One step is one file-system call or one probe of the process table, so  *)
(* the processes interleave between any two of them and may die anywhere.  *)
(* The path is a regular file (a lock of the older format), a directory,   *)
(* or absent; the directory holds the owner files of the tokens `owners`,  *)
(* of which those in `marked` have their JSON marker written.  A token is  *)
(* the process and its creation counter: tokens are never reused, process  *)
(* ids are (Restart).                                                      *)
(***************************************************************************)
EXTENDS Naturals, FiniteSets

CONSTANTS Proc,           \* the process ids
          MaxGeneration   \* bound: lock creations one process id may try

ASSUME GenerationAssumption == MaxGeneration \in Nat

VARIABLES path,        \* what `.hub.lock` is: "absent", "file" or "dir"
          legacyOwner, \* the owner named by a file: "dead", "alive", "unreadable"
          owners,      \* tokens whose owner file is in the directory
          marked,      \* tokens whose owner file has a readable marker
          generation,  \* per process id, the tokens it has drawn
          observed,    \* per process, the tokens of the snapshot it acts on
          pc,          \* per process, its place in acquire and release
          left         \* history: where a custodian last died, or failed to give up

vars == <<path, legacyOwner, owners, marked, generation, observed, pc, left>>

disk == <<path, owners, marked>>

Token == Proc \X Nat

\* The token the process drew last.
own(p) == <<p, generation[p]>>

Labels == {"idle", "dead", "refused",
           "legacyStat", "legacyOwner", "legacyHook", "legacyRm",
           "mkdir", "recreate", "open", "write", "failRm", "failRmdir",
           "readdir", "readOwner", "probe", "hook", "rmOwner", "rmdir",
           "holding", "relSnapshot", "relRm", "relRmdir"}

(* The places where the process has made the directory, or emptied that of *)
(* a dead owner, and has not yet given it up.  Those of Whole have the      *)
(* complete owner file in it.                                              *)
Custody == {"open", "write", "failRm", "failRmdir", "rmdir",
            "holding", "relSnapshot", "relRm", "relRmdir"}

Whole == {"holding", "relSnapshot", "relRm"}

custodian(p) == pc[p] \in Custody

Init == /\ path \in {"absent", "file"}
        /\ legacyOwner \in {"dead", "alive", "unreadable"}
        /\ owners = {}
        /\ marked = {}
        /\ generation = [p \in Proc |-> 0]
        /\ observed = [p \in Proc |-> {}]
        /\ pc = [p \in Proc |-> "idle"]
        /\ left = "none"

-----------------------------------------------------------------------------
(* Control: go moves a process from one place to the next.                 *)

go(p, from, to) == /\ pc[p] = from
                   /\ pc' = [pc EXCEPT ![p] = to]

UnchangedDisk == UNCHANGED <<disk, legacyOwner, left>>

(* A call fails: E_HUB_LOCKED, or the error of beforeReclaim.              *)
refuse(p, from) == /\ go(p, from, "refused")
                   /\ observed' = [observed EXCEPT ![p] = {}]
                   /\ UnchangedDisk
                   /\ UNCHANGED generation

(* acquireHubLock looks for a file lock first; recoverIfNeeded does not.   *)
Enter(p) == /\ generation[p] < MaxGeneration
            /\ \/ go(p, "idle", "legacyStat")
               \/ go(p, "idle", "mkdir")
            /\ UnchangedDisk
            /\ UNCHANGED <<generation, observed>>

Return(p) == /\ go(p, "refused", "idle")
             /\ UnchangedDisk
             /\ UNCHANGED <<generation, observed>>

-----------------------------------------------------------------------------
(* The older lock format: a regular file holding a process id.             *)

LegacyStat(p) ==
  /\ go(p, "legacyStat", IF path = "file" THEN "legacyOwner" ELSE "mkdir")
  /\ UnchangedDisk
  /\ UNCHANGED <<generation, observed>>

LegacyOwner(p) ==
  \/ /\ path = "file" /\ legacyOwner = "dead"
     /\ go(p, "legacyOwner", "legacyHook")
     /\ UnchangedDisk
     /\ UNCHANGED <<generation, observed>>
  \/ /\ path # "file" \/ legacyOwner # "dead"
     /\ refuse(p, "legacyOwner")

(* readJournal and readAdoptionJournal must accept what is on disk.        *)
LegacyHook(p) ==
  \/ /\ go(p, "legacyHook", "legacyRm")
     /\ UnchangedDisk
     /\ UNCHANGED <<generation, observed>>
  \/ refuse(p, "legacyHook")

\* Mutant: the old lock is removed with `recursive`, whatever it has become.
LegacyRmRecursive(p) ==
  /\ go(p, "legacyRm", "mkdir")
  /\ path' = "absent" /\ owners' = {} /\ marked' = {}
  /\ UNCHANGED <<legacyOwner, left, generation, observed>>

(* rmSync without recursive: a directory there makes it fail.              *)
LegacyRm(p) ==
  \/ /\ path = "file"
     /\ go(p, "legacyRm", "mkdir")
     /\ path' = "absent"
     /\ UNCHANGED <<owners, marked, legacyOwner, left, generation, observed>>
  \/ refuse(p, "legacyRm")

LegacyOwnerDies == /\ legacyOwner = "alive"
                   /\ legacyOwner' = "dead"
                   /\ UNCHANGED <<disk, generation, observed, pc, left>>

-----------------------------------------------------------------------------
(* create: mkdir, then the owner file, then its marker.                    *)

makeDir(p, from) ==
  /\ path = "absent"
  /\ go(p, from, "open")
  /\ path' = "dir"
  /\ generation' = [generation EXCEPT ![p] = @ + 1]
  /\ left' = "none"
  /\ UNCHANGED <<owners, marked, legacyOwner, observed>>

Mkdir(p) ==
  \/ makeDir(p, "mkdir")
  \/ /\ path # "absent"                       \* EEXIST: look at the owner
     /\ go(p, "mkdir", "readdir")
     /\ UnchangedDisk
     /\ UNCHANGED <<generation, observed>>
  \/ refuse(p, "mkdir")                       \* any other error

Recreate(p) ==                                \* the create after a reclaim
  \/ makeDir(p, "recreate")
  \/ refuse(p, "recreate")

OpenOwner(p) ==
  \/ /\ go(p, "open", "write")
     /\ owners' = owners \cup {own(p)}
     /\ UNCHANGED <<path, marked, legacyOwner, left, generation, observed>>
  \/ /\ go(p, "open", "failRmdir")            \* no space, no permission
     /\ UnchangedDisk
     /\ UNCHANGED <<generation, observed>>

\* Mutant: a failed write is reported without removing what was created.
WriteOwnerNoCleanup(p) ==
  \/ /\ go(p, "write", "holding")
     /\ marked' = marked \cup {own(p)}
     /\ UNCHANGED <<path, owners, legacyOwner, left, generation, observed>>
  \/ refuse(p, "write")

(* writeSync may fail, or closeSync once the marker is written.            *)
WriteOwner(p) ==
  /\ \/ go(p, "write", "holding") /\ marked' = marked \cup {own(p)}
     \/ go(p, "write", "failRm") /\ marked' \in {marked, marked \cup {own(p)}}
  /\ UNCHANGED <<path, owners, legacyOwner, left, generation, observed>>

(* rmSync of an owner file, and rmdirSync, which needs an empty directory. *)
removeOwner(t) == /\ t \in owners
                  /\ owners' = owners \ {t}
                  /\ marked' = marked \ {t}

removable == path = "dir" /\ owners = {}

(* A call of the cleanup fails and is swallowed: what it was to remove is  *)
(* still there, and the process goes on.                                   *)
fails(p, from, to) == /\ go(p, from, to)
                      /\ left' = from
                      /\ UNCHANGED <<disk, legacyOwner, generation, observed>>

(* rmdirSync removes the directory, or finds it not empty.                 *)
removeDir(p, from, done, kept) ==
  /\ go(p, from, IF removable THEN done ELSE kept)
  /\ path' = IF removable THEN "absent" ELSE path
  /\ UNCHANGED <<owners, marked, legacyOwner, left, generation, observed>>

FailRm(p) ==
  \/ /\ removeOwner(own(p))
     /\ go(p, "failRm", "failRmdir")
     /\ UNCHANGED <<path, legacyOwner, left, generation, observed>>
  \/ fails(p, "failRm", "failRmdir")

FailRmdir(p) == \/ removeDir(p, "failRmdir", "refused", "refused")
                \/ removable /\ fails(p, "failRmdir", "refused")

-----------------------------------------------------------------------------
(* snapshot and ownerAlive: readable means a directory with exactly one    *)
(* owner file, whose marker parses; the owner is dead if its pid is.  A    *)
(* read that fails counts as unreadable.                                   *)

Readdir(p) ==
  \/ /\ path = "dir" /\ Cardinality(owners) = 1
     /\ go(p, "readdir", "readOwner")
     /\ observed' = [observed EXCEPT ![p] = owners]
     /\ UnchangedDisk
     /\ UNCHANGED generation
  \/ refuse(p, "readdir")

ReadOwner(p) ==
  \/ /\ observed[p] \subseteq marked
     /\ go(p, "readOwner", "probe")
     /\ UnchangedDisk
     /\ UNCHANGED <<generation, observed>>
  \/ refuse(p, "readOwner")

\* Mutant: any failure of the probe counts as a dead owner.
ownerAliveNotProbed(p) == ~ (observed[p] \subseteq marked)

ownerAlive(p) == \/ ~ (observed[p] \subseteq marked)
                 \/ \E t \in observed[p] : pc[t[1]] # "dead"

Probe(p) ==
  \/ /\ ~ ownerAlive(p)
     /\ go(p, "probe", "hook")
     /\ UnchangedDisk
     /\ UNCHANGED <<generation, observed>>
  \/ /\ ownerAlive(p)
     /\ refuse(p, "probe")

(* beforeReclaim reads both journals and throws if either is malformed.    *)
Hook(p) ==
  \/ /\ go(p, "hook", "rmOwner")
     /\ UnchangedDisk
     /\ UNCHANGED <<generation, observed>>
  \/ refuse(p, "hook")

RmOwner(p) ==
  \/ /\ \E t \in observed[p] : removeOwner(t)
     /\ go(p, "rmOwner", "rmdir")
     /\ observed' = [observed EXCEPT ![p] = {}]
     /\ left' = "none"
     /\ UNCHANGED <<path, legacyOwner, generation>>
  \/ refuse(p, "rmOwner")

Rmdir(p) == \/ removeDir(p, "rmdir", "recreate", "refused")
            \/ removable /\ fails(p, "rmdir", "refused")

-----------------------------------------------------------------------------
(* release: give the lock up only if the snapshot is still one's own.      *)

Release(p) == /\ go(p, "holding", "relSnapshot")
              /\ UnchangedDisk
              /\ UNCHANGED <<generation, observed>>

RelSnapshot(p) ==
  \/ /\ go(p, "relSnapshot",
           IF path = "dir" /\ owners = {own(p)} /\ marked = {own(p)} THEN "relRm" ELSE "idle")
     /\ UnchangedDisk
     /\ UNCHANGED <<generation, observed>>
  \/ fails(p, "relSnapshot", "idle")

RelRm(p) == \/ /\ removeOwner(own(p))
               /\ go(p, "relRm", "relRmdir")
               /\ UNCHANGED <<path, legacyOwner, left, generation, observed>>
            \/ fails(p, "relRm", "idle")

RelRmdir(p) == \/ removeDir(p, "relRmdir", "idle", "idle")
               \/ removable /\ fails(p, "relRmdir", "idle")

-----------------------------------------------------------------------------
(* kill -9 at any point, and a later process that gets the same id.        *)

Crash(p) == /\ pc[p] # "dead"
            /\ pc' = [pc EXCEPT ![p] = "dead"]
            /\ observed' = [observed EXCEPT ![p] = {}]
            /\ left' = IF custodian(p) THEN pc[p] ELSE left
            /\ UNCHANGED <<disk, legacyOwner, generation>>

Restart(p) == /\ go(p, "dead", "idle")
              /\ UnchangedDisk
              /\ UNCHANGED <<generation, observed>>

Acquisition(p) == \/ LegacyStat(p) \/ LegacyOwner(p) \/ LegacyHook(p) \/ LegacyRm(p)
                  \/ Mkdir(p) \/ Recreate(p) \/ OpenOwner(p) \/ WriteOwner(p)
                  \/ FailRm(p) \/ FailRmdir(p)
                  \/ Readdir(p) \/ ReadOwner(p) \/ Probe(p) \/ Hook(p)
                  \/ RmOwner(p) \/ Rmdir(p)

Releasing(p) == RelSnapshot(p) \/ RelRm(p) \/ RelRmdir(p)

Next == \/ LegacyOwnerDies
        \/ \E p \in Proc : \/ Enter(p) \/ Return(p) \/ Acquisition(p)
                           \/ Release(p) \/ Releasing(p)
                           \/ Crash(p) \/ Restart(p)

Spec == Init /\ [][Next]_vars

-----------------------------------------------------------------------------
(* Properties.                                                             *)

(* Every variable keeps to its type.                                       *)
TypeOK == /\ path \in {"absent", "file", "dir"}
          /\ legacyOwner \in {"dead", "alive", "unreadable"}
          /\ owners \subseteq Token
          /\ marked \subseteq owners
          /\ generation \in [Proc -> Nat]
          /\ observed \in [Proc -> SUBSET Token]
          /\ pc \in [Proc -> Labels]
          /\ left \in {"none"} \cup Custody

(* Two processes never mutate the Hub at once ("two live mutators          *)
(* corrupt", apply.ts), whatever reclaims, restarts and crashes precede.   *)
MutualExclusion == \A p, q \in Proc : pc[p] = "holding" /\ pc[q] = "holding" => p = q

(* Nobody's reclamation, failed acquisition or late release takes the      *)
(* directory or the owner file of a process that holds the lock ("a        *)
(* replacement owner cannot be deleted", mutation-lock.ts).                *)
HolderIntact == \A p \in Proc : pc[p] = "holding" =>
                   path = "dir" /\ owners = {own(p)} /\ marked = {own(p)}

(* A lock directory without a process responsible for it is always the     *)
(* work of a death or of a failed call of its cleanup: no race between     *)
(* contenders and no failed write leaves a `.hub.lock` that would block    *)
(* every later mutation.  And one left while it was held still names       *)
(* exactly its owner, so that it can be reclaimed once that process ends.  *)
LeakOnlyByFault ==
  path = "dir" /\ (\A p \in Proc : ~ custodian(p)) =>
    /\ left # "none"
    /\ left \in Whole => \E t \in owners : owners = {t} /\ marked = {t}

(* The lock implements mutual exclusion as its callers use it.             *)
M == INSTANCE Mutex WITH holders <- {p \in Proc : pc[p] = "holding"}
ImplementsMutex == M!Spec
=============================================================================
