----------------------------- MODULE HubUpdate -----------------------------
(***************************************************************************)
(* The journaled update of a Hub source and its recovery: applyUpdatePlan  *)
(* (packages/project/src/hub/apply.ts) and recoverIfNeeded (journal.ts).   *)
(*                                                                         *)
(* One step is one durable change of the Hub directory, so a process may   *)
(* be killed, or a file-system call may fail, between any two of them.     *)
(* Renames, and the files written through a temporary file, change at once;*)
(* copying or removing a tree, and writing the lock into the backup, show  *)
(* a torn state first.  The mutation lock is taken at its word (Mutex,     *)
(* which HubLock implements).                                              *)
(***************************************************************************)
EXTENDS Naturals, FiniteSets

CONSTANTS Proc,      \* the processes that run Hub commands
          Source,    \* the adopted sources
          Version,   \* lock records: what the Hub may adopt of a source
          Tree,      \* contents of a vendored tree
          Commit,    \* upstream commits
          TreeOf,    \* the tree a record binds (both of its digests)
          CommitOf,  \* the commit a record binds
          Absent,    \* a file or tree that does not exist
          Torn,      \* a file or tree written or removed in part
          Edited,    \* a tree edited by hand, or a live one removed
          EditsDuringApply  \* whether trees are edited while a command runs

Lock == [Source -> Version]     \* what a sources.lock.yaml says

ASSUME RecordAssumption == /\ TreeOf \in [Version -> Tree]
                           /\ CommitOf \in [Version -> Commit]
ASSUME ContentAssumption == /\ {Absent, Torn, Edited} \cap Tree = {}
                            /\ {Absent, Torn} \cap Lock = {}
                            /\ Absent # Torn /\ Absent # Edited /\ Torn # Edited
ASSUME EditsAssumption == EditsDuringApply \in BOOLEAN

VARIABLES mutex,        \* holders of `.hub.lock`
          journal,      \* `.hub-journal.json`
          liveTree,     \* external/<source>/repo
          liveLock,     \* sources.lock.yaml
          staging,      \* whether `.staging` exists
          stagingTree,  \* the incoming tree in it
          backup,       \* whether `.backup` exists
          backupTree,   \* the previous tree in it
          backupLock,   \* the previous lock in it
          command,      \* per process, the plan it applies, or Absent to recover
          pc            \* per process, its place in the command

hub == <<journal, liveTree, liveLock, staging, stagingTree, backup, backupTree, backupLock>>
vars == <<hub, mutex, command, pc>>

M == INSTANCE Mutex WITH holders <- mutex

(* An update plan names the state it replaces by commit and tree digest.   *)
Plan == [source : Source, oldCommit : Commit, oldTree : Tree, new : Version]

JournalState == {"PREPARED", "TREE_SWAPPED", "LOCK_SWAPPED", "COMMITTED"}

Journal == [source : Source, oldCommit : Commit, targetCommit : Commit, state : JournalState]

ASSUME JournalAssumption == Absent \notin Journal

Content == Tree \cup {Absent, Torn, Edited}

Labels == {"idle", "leave", "failed", "recoveryRequired",
           "recover", "verifyBackup", "removeLive", "renameBackup", "restoreLock",
           "verifyLive", "dropStaging", "dropBackup", "clearJournal",
           "check", "clean", "fresh", "copyStage", "prepare", "mkBackup", "saveTree",
           "saveLock", "install", "markTree", "swapLock", "markLock", "verify", "commit",
           "cleanBackup", "cleanStaging", "finish"}

Init == /\ mutex = {}
        /\ journal = Absent
        /\ liveLock \in Lock
        /\ liveTree = [s \in Source |-> TreeOf[liveLock[s]]]
        /\ staging = FALSE /\ stagingTree = Absent
        /\ backup = FALSE /\ backupTree = Absent /\ backupLock = Absent
        /\ command = [p \in Proc |-> Absent]
        /\ pc = [p \in Proc |-> "idle"]

Incomplete == journal # Absent /\ journal.state # "COMMITTED"

-----------------------------------------------------------------------------

go(p, from, to) == /\ pc[p] = from
                   /\ pc' = [pc EXCEPT ![p] = to]

(* A step of a running command that changes no file.                       *)
decide(p, from, to) == go(p, from, to) /\ UNCHANGED <<hub, mutex, command>>

running == UNCHANGED <<mutex, command>>

(* Removing or copying takes many calls: the place is left at the last.    *)
stay(p, at) == go(p, at, at)

-----------------------------------------------------------------------------
(* Commands: each takes the mutation lock and recovers before all else.    *)

ApplyUpdatePlan(p) == /\ go(p, "idle", "recover")
                      /\ M!Acquire(p)
                      /\ \E plan \in Plan : /\ CommitOf[plan.new] # plan.oldCommit
                                               \/ TreeOf[plan.new] # plan.oldTree
                                            /\ command' = [command EXCEPT ![p] = plan]
                      /\ UNCHANGED hub

RecoverIfNeeded(p) == /\ go(p, "idle", "recover")
                      /\ M!Acquire(p)
                      /\ command' = [command EXCEPT ![p] = Absent]
                      /\ UNCHANGED hub

(* The finally block: the lock is released, the command returns or throws. *)
Leaving == {"leave", "failed", "recoveryRequired"}

Leave(p) == /\ pc[p] \in Leaving
            /\ pc' = [pc EXCEPT ![p] = "idle"]
            /\ M!Leave(p)
            /\ command' = [command EXCEPT ![p] = Absent]
            /\ UNCHANGED hub

(* A file-system call throws (EBUSY, ENOSPC...), or the validation of the  *)
(* stage or of the prospective Hub does: nothing is undone on disk.        *)
Fail(p) == /\ pc[p] \notin Leaving \cup {"idle"}
           /\ pc' = [pc EXCEPT ![p] = "failed"]
           /\ UNCHANGED <<hub, mutex, command>>

(* kill -9; the lock of the dead process is reclaimed by the next one.  A  *)
(* death on the way out is the same step as Leave.                         *)
Crash(p) == /\ pc[p] \notin Leaving \cup {"idle"}
            /\ pc' = [pc EXCEPT ![p] = "idle"]
            /\ M!Leave(p)
            /\ command' = [command EXCEPT ![p] = Absent]
            /\ UNCHANGED hub

(* Somebody edits trees of the Hub repository by hand, also between a      *)
(* crash and the recovery, and then perhaps the one in the backup.         *)
editable == M!Free \/ EditsDuringApply

Edit(s) == /\ editable
           /\ liveTree' = [liveTree EXCEPT ![s] = Edited]
           /\ UNCHANGED <<mutex, journal, liveLock, staging, stagingTree,
                          backup, backupTree, backupLock, command, pc>>

EditBackup == /\ editable
              /\ backupTree # Absent
              /\ backupTree' = Edited
              /\ UNCHANGED <<mutex, journal, liveTree, liveLock, staging, stagingTree,
                             backup, backupLock, command, pc>>

-----------------------------------------------------------------------------
(* Removal of the three trees, entry by entry in any order.                *)

partOf(tree) == IF tree = Absent THEN {Absent} ELSE {tree, Torn, Absent}

eraseStaging(p, at, to) ==
  /\ \/ /\ stay(p, at)
        /\ staging /\ UNCHANGED staging
        /\ stagingTree' \in partOf(stagingTree)
     \/ /\ go(p, at, to)
        /\ staging' = FALSE
        /\ stagingTree' = Absent
  /\ UNCHANGED <<journal, liveTree, liveLock, backup, backupTree, backupLock>>
  /\ running

eraseBackup(p, at, to) ==
  /\ \/ /\ stay(p, at)
        /\ backup /\ UNCHANGED backup
        /\ backupTree' \in partOf(backupTree)
        /\ backupLock' \in {backupLock, Absent}
     \/ /\ go(p, at, to)
        /\ backup' = FALSE
        /\ backupTree' = Absent
        /\ backupLock' = Absent
  /\ UNCHANGED <<journal, liveTree, liveLock, staging, stagingTree>>
  /\ running

eraseJournal(p, at, to) ==
  /\ go(p, at, to)
  /\ journal' = Absent
  /\ UNCHANGED <<liveTree, liveLock, staging, stagingTree, backup, backupTree, backupLock>>
  /\ running

-----------------------------------------------------------------------------
(* recoverIfNeededLocked: roll an incomplete update back.                  *)

afterRecovery(p) == IF command[p] = Absent THEN "leave" ELSE "check"

(* verifyAdoptedState: the lock is readable and binds the journal's        *)
(* previous commit, and the tree is the one the lock binds.                *)
adoptedState(tree, lock) ==
  /\ lock \notin {Absent, Torn}
  /\ CommitOf[lock[journal.source]] = journal.oldCommit
  /\ tree = TreeOf[lock[journal.source]]

\* Mutant: a journal past the first swap is taken for a finished update.
RecoverForward(p) ==
  \/ journal = Absent /\ decide(p, "recover", afterRecovery(p))
  \/ /\ journal # Absent /\ journal.state # "PREPARED"
     /\ decide(p, "recover", "dropStaging")
  \/ /\ journal # Absent /\ journal.state = "PREPARED"
     /\ decide(p, "recover", IF backupTree # Absent THEN "verifyBackup" ELSE "verifyLive")

Recover(p) ==
  \/ journal = Absent /\ decide(p, "recover", afterRecovery(p))
  \/ journal # Absent /\ ~ Incomplete /\ decide(p, "recover", "dropStaging")
  \/ /\ Incomplete
     /\ decide(p, "recover", IF backupTree # Absent THEN "verifyBackup"
                             ELSE IF backupLock # Absent THEN "restoreLock"
                             ELSE "verifyLive")

\* Mutant: the backup tree is verified against the live lock only.
VerifyBackupByLiveLock(p) ==
  decide(p, "verifyBackup",
         IF adoptedState(backupTree, liveLock) THEN "removeLive" ELSE "recoveryRequired")

VerifyBackup(p) ==
  LET reference == IF backupLock # Absent THEN backupLock ELSE liveLock
  IN  decide(p, "verifyBackup",
             IF adoptedState(backupTree, reference) THEN "removeLive" ELSE "recoveryRequired")

RemoveLive(p) ==
  LET s == journal.source
  IN  /\ \/ /\ stay(p, "removeLive")
            /\ liveTree' \in {[liveTree EXCEPT ![s] = c] : c \in partOf(liveTree[s])}
         \/ /\ go(p, "removeLive", "renameBackup")
            /\ liveTree' = [liveTree EXCEPT ![s] = Absent]
      /\ UNCHANGED <<journal, liveLock, staging, stagingTree, backup, backupTree, backupLock>>
      /\ running

RenameBackup(p) ==
  /\ go(p, "renameBackup", IF backupLock # Absent THEN "restoreLock" ELSE "verifyLive")
  /\ liveTree' = [liveTree EXCEPT ![journal.source] = backupTree]
  /\ backupTree' = Absent
  /\ UNCHANGED <<journal, liveLock, staging, stagingTree, backup, backupLock>>
  /\ running

RestoreLock(p) ==
  /\ go(p, "restoreLock", "verifyLive")
  /\ liveLock' = backupLock
  /\ UNCHANGED <<journal, liveTree, staging, stagingTree, backup, backupTree, backupLock>>
  /\ running

VerifyLive(p) ==
  decide(p, "verifyLive",
         IF adoptedState(liveTree[journal.source], liveLock) THEN "dropStaging"
         ELSE "recoveryRequired")

DropStaging(p) == eraseStaging(p, "dropStaging", "dropBackup")
\* Mutant: the recovery of a dropped backup ends without clearing the journal.
DropBackupKeepJournal(p) == eraseBackup(p, "dropBackup", afterRecovery(p))

DropBackup(p) == eraseBackup(p, "dropBackup", "clearJournal")
ClearJournal(p) == eraseJournal(p, "clearJournal", afterRecovery(p))

Recovery(p) == \/ Recover(p) \/ VerifyBackup(p) \/ RemoveLive(p) \/ RenameBackup(p)
               \/ RestoreLock(p) \/ VerifyLive(p)
               \/ DropStaging(p) \/ DropBackup(p) \/ ClearJournal(p)

-----------------------------------------------------------------------------
(* applyUpdatePlan after its recovery: refuse, or stage and swap.          *)

current(p) == liveLock[command[p].source]

(* E_PLAN_STALE, by the lock alone; the stage is then prepared elsewhere.  *)
Check(p) ==
  decide(p, "check",
         IF /\ CommitOf[current(p)] = command[p].oldCommit
            /\ TreeOf[current(p)] = command[p].oldTree
         THEN "clean" ELSE "leave")

(* Only a stage that no journal and no backup accounts for is an orphan.   *)
Clean(p) ==
  \/ journal = Absent /\ ~ backup /\ staging /\ eraseStaging(p, "clean", "clean")
  \/ /\ backup \/ journal # Absent \/ ~ staging
     /\ decide(p, "clean", IF staging \/ backup \/ journal # Absent
                              \/ liveTree[command[p].source] = Absent
                           THEN "leave" ELSE "fresh")

\* Mutant: no second look at the tree before the swap.
FreshUnchecked(p) == decide(p, "fresh", "copyStage")

(* Last look at the adopted tree before it is replaced (E_PLAN_STALE).     *)
Fresh(p) ==
  decide(p, "fresh",
         IF liveTree[command[p].source] = TreeOf[current(p)] THEN "copyStage" ELSE "leave")

CopyStage(p) ==
  /\ staging' = TRUE
  /\ \/ stay(p, "copyStage") /\ stagingTree' = Torn
     \/ go(p, "copyStage", "prepare") /\ stagingTree' = TreeOf[command[p].new]
  /\ UNCHANGED <<journal, liveTree, liveLock, backup, backupTree, backupLock>>
  /\ running

writeJournal(p, from, to, j) ==
  /\ go(p, from, to)
  /\ journal' = j
  /\ UNCHANGED <<liveTree, liveLock, staging, stagingTree, backup, backupTree, backupLock>>
  /\ running

Prepare(p) ==
  writeJournal(p, "prepare", "mkBackup",
               [source |-> command[p].source, oldCommit |-> command[p].oldCommit,
                targetCommit |-> CommitOf[command[p].new], state |-> "PREPARED"])

MkBackup(p) ==
  /\ go(p, "mkBackup", "saveTree")
  /\ backup' = TRUE
  /\ UNCHANGED <<journal, liveTree, liveLock, staging, stagingTree, backupTree, backupLock>>
  /\ running

SaveTree(p) ==
  /\ go(p, "saveTree", "saveLock")
  /\ backupTree' = liveTree[command[p].source]
  /\ liveTree' = [liveTree EXCEPT ![command[p].source] = Absent]
  /\ UNCHANGED <<journal, liveLock, staging, stagingTree, backup, backupLock>>
  /\ running

(* writeFileDurable: created empty, then filled, in place.                 *)
SaveLock(p) ==
  /\ \/ stay(p, "saveLock") /\ backupLock' = Torn
     \/ go(p, "saveLock", "install") /\ backupLock' = liveLock
  /\ UNCHANGED <<journal, liveTree, liveLock, staging, stagingTree, backup, backupTree>>
  /\ running

Install(p) ==
  /\ go(p, "install", "markTree")
  /\ liveTree' = [liveTree EXCEPT ![command[p].source] = stagingTree]
  /\ stagingTree' = Absent
  /\ UNCHANGED <<journal, liveLock, staging, backup, backupTree, backupLock>>
  /\ running

MarkTree(p) == writeJournal(p, "markTree", "swapLock", [journal EXCEPT !.state = "TREE_SWAPPED"])

SwapLock(p) ==
  /\ go(p, "swapLock", "markLock")
  /\ liveLock' = [liveLock EXCEPT ![command[p].source] = command[p].new]
  /\ UNCHANGED <<journal, liveTree, staging, stagingTree, backup, backupTree, backupLock>>
  /\ running

MarkLock(p) == writeJournal(p, "markLock", "verify", [journal EXCEPT !.state = "LOCK_SWAPPED"])

(* The landed record and tree are read back; a mismatch leaves the journal.*)
Verify(p) ==
  decide(p, "verify",
         IF /\ CommitOf[current(p)] = CommitOf[command[p].new]
            /\ liveTree[command[p].source] = TreeOf[command[p].new]
         THEN "commit" ELSE "leave")

\* Mutant: the cleanup after the commit forgets the backup.
CommitKeepBackup(p) ==
  writeJournal(p, "commit", "cleanStaging", [journal EXCEPT !.state = "COMMITTED"])

CommitJournal(p) ==
  writeJournal(p, "commit", "cleanBackup", [journal EXCEPT !.state = "COMMITTED"])

CleanBackup(p) == eraseBackup(p, "cleanBackup", "cleanStaging")
CleanStaging(p) == eraseStaging(p, "cleanStaging", "finish")
Finish(p) == eraseJournal(p, "finish", "leave")

Swap(p) == \/ Check(p) \/ Clean(p) \/ Fresh(p) \/ CopyStage(p) \/ Prepare(p)
           \/ MkBackup(p) \/ SaveTree(p) \/ SaveLock(p) \/ Install(p) \/ MarkTree(p)
           \/ SwapLock(p) \/ MarkLock(p) \/ Verify(p) \/ CommitJournal(p)
           \/ CleanBackup(p) \/ CleanStaging(p) \/ Finish(p)

Next == \/ \E p \in Proc : \/ ApplyUpdatePlan(p) \/ RecoverIfNeeded(p)
                           \/ Recovery(p) \/ Swap(p) \/ Leave(p)
                           \/ Fail(p) \/ Crash(p)
        \/ EditBackup
        \/ \E s \in Source : Edit(s)

Spec == Init /\ [][Next]_vars

(* A command that runs goes on running; nobody has to start one.           *)
FairSpec == Spec /\ \A p \in Proc : WF_vars(Recovery(p) \/ Swap(p) \/ Leave(p))

-----------------------------------------------------------------------------
(* Properties.                                                             *)

(* Every variable keeps to its type.                                       *)
TypeOK == /\ mutex \subseteq Proc
          /\ journal \in Journal \cup {Absent}
          /\ liveTree \in [Source -> Content]
          /\ liveLock \in Lock
          /\ staging \in BOOLEAN /\ stagingTree \in Content
          /\ backup \in BOOLEAN /\ backupTree \in Content
          /\ backupLock \in Lock \cup {Absent, Torn}
          /\ command \in [Proc -> Plan \cup {Absent}]
          /\ pc \in [Proc -> Labels]

(* The adopted state as a reader of the contract sees it: until the        *)
(* journal is COMMITTED, what the backup preserves counts.                 *)
adoptedRecord == IF Incomplete /\ backupLock \notin {Absent, Torn} THEN backupLock ELSE liveLock
adoptedTree == IF Incomplete /\ backupTree # Absent
               THEN [liveTree EXCEPT ![journal.source] = backupTree]
               ELSE liveTree

(* An update is atomic and a rollback invisible: crashes, failures and     *)
(* recoveries leave every source at its previous record and tree, or take  *)
(* one of them to the new pair (Contract B, sections 6 and 7).             *)
A == INSTANCE AdoptedHub WITH record <- adoptedRecord, tree <- adoptedTree
UpdateIsAtomic == A!Spec

(* Without a journal, every source's tree is the one its lock record binds *)
(* unless somebody edited it: a build, which only looks for the journal,   *)
(* meets no half-swapped Hub.                                              *)
NoJournalCoherent ==
  journal = Absent => \A s \in Source : liveTree[s] \in {TreeOf[liveLock[s]], Edited}

(* A backup always has a journal that accounts for it.  Without one every  *)
(* later update would find the destination dirty and refuse for ever.      *)
BackupIsJournaled == backup => journal # Absent

(* What no recovery may undo: the crash came while the lock was being      *)
(* written into the backup, or the only copy of the previous tree has been *)
(* edited since the crash.                                                 *)
Blocked == Incomplete /\ (backupLock = Torn \/ adoptedTree[journal.source] = Edited)

(* Recovery gives up in those two situations only: whatever crashes,       *)
(* failures and earlier recoveries came before, it finds its way.          *)
RefusesOnlyTornOrEdited ==
  (\E p \in Proc : pc[p] = "recoveryRequired") => Blocked

(* If the crashes and failures end and recovery is run again and again,    *)
(* the journal goes away, unless the update is blocked in that sense.      *)
RecoveryConverges ==
  /\ <>[][\A p \in Proc : ~ Crash(p) /\ ~ Fail(p)]_vars
  /\ []<><<\E p \in Proc : RecoverIfNeeded(p)>>_vars
  => []<>(journal = Absent \/ Blocked)
=============================================================================
