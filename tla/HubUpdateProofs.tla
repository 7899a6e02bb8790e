-------------------------- MODULE HubUpdateProofs --------------------------
(***************************************************************************)
(* The journaled update of HubUpdate is correct for every set of processes,*)
(* sources, records and trees, and so is the builder of HubBuild beside it.*)
(***************************************************************************)
EXTENDS HubBuild, TLAPS

coherent(s) == liveTree[s] \in {TreeOf[liveLock[s]], Edited}

(* The places of a command that applies a plan, once it has recovered.     *)
Applying == {"check", "clean", "fresh", "copyStage", "prepare", "mkBackup", "saveTree",
             "saveLock", "install", "markTree", "swapLock", "markLock", "verify", "commit"}
Preparing == {"check", "clean", "fresh", "copyStage", "prepare"}
Swapping == {"install", "markTree", "swapLock", "markLock", "verify", "commit"}
RollingBack == {"verifyBackup", "removeLive", "renameBackup", "restoreLock", "verifyLive"}
Dropping == {"dropStaging", "dropBackup", "clearJournal"}
Cleaning == {"cleanBackup", "cleanStaging", "finish"}

(* The mutation lock: one command at a time runs.                          *)
OneRuns == /\ mutex = {p \in Proc : pc[p] # "idle"}
           /\ \A p, q \in Proc : pc[p] # "idle" /\ pc[q] # "idle" => p = q

(* The disk, whoever runs.                                                 *)
QuietWithoutJournal == journal = Absent => ~ backup /\ \A s \in Source : coherent(s)

EmptyBackup == ~ backup => backupTree = Absent /\ backupLock = Absent

OthersUntouched ==
  journal # Absent => \A s \in Source \ {journal.source} :
    coherent(s) /\ (backupLock \in Lock => backupLock[s] = liveLock[s])

CommittedIsCoherent == journal # Absent /\ ~ Incomplete => coherent(journal.source)

TornBackup == backupLock = Torn => Incomplete /\ backupTree # Absent

(* What each place of the running command knows.                           *)
KnownToApply(p) ==
  /\ pc[p] \in Applying => command[p] \in Plan
  /\ pc[p] \in Preparing => journal = Absent
  /\ pc[p] \in Applying \ Preparing => Incomplete /\ journal.source = command[p].source
  /\ pc[p] \in {"mkBackup", "saveTree"} =>
       backupTree = Absent /\ backupLock = Absent /\ coherent(journal.source)
  /\ pc[p] \in {"saveTree", "saveLock"} => backup
  /\ pc[p] = "saveLock" => backupTree # Absent /\ backupLock \in {Absent, Torn}
  /\ pc[p] \in Swapping => backup /\ backupTree # Absent /\ backupLock \in Lock
  /\ pc[p] \in {"markLock", "verify", "commit"} =>
       liveLock[journal.source] = command[p].new
  /\ pc[p] = "commit" => coherent(journal.source)

KnownToRecover(p) ==
  /\ pc[p] \in RollingBack => Incomplete
  /\ pc[p] \in {"verifyBackup", "removeLive", "renameBackup"} => backupTree # Absent
  /\ pc[p] \in {"removeLive", "renameBackup"} => backupLock # Torn
  /\ pc[p] = "restoreLock" => backupTree = Absent /\ backupLock \in Lock
  /\ pc[p] = "verifyLive" => backupTree = Absent /\ backupLock \in {Absent, liveLock}
  /\ pc[p] \in Dropping \cup Cleaning => journal # Absent /\ coherent(journal.source)
  /\ pc[p] \in Dropping /\ Incomplete => backupTree = Absent /\ backupLock \in {Absent, liveLock}
  /\ pc[p] \in Cleaning => ~ Incomplete
  /\ pc[p] \in {"clearJournal", "cleanStaging", "finish"} => ~ backup

FileTypes == /\ journal \in Journal \cup {Absent}
             /\ liveTree \in [Source -> Content]
             /\ liveLock \in Lock
             /\ staging \in BOOLEAN /\ stagingTree \in Content
             /\ backup \in BOOLEAN /\ backupTree \in Content
             /\ backupLock \in Lock \cup {Absent, Torn}

FilesOK == /\ FileTypes
           /\ QuietWithoutJournal
           /\ EmptyBackup
           /\ OthersUntouched
           /\ CommittedIsCoherent
           /\ TornBackup

Known(p) == KnownToApply(p) /\ KnownToRecover(p)

IInv == /\ TypeOK
        /\ OneRuns
        /\ FilesOK
        /\ \A p \in Proc : Known(p)

(* If nobody edits while a command runs, an incomplete update still has    *)
(* the adopted state that its journal names, on disk or in the backup,     *)
(* except for edits made after a crash.                                    *)
adoptedIntact == adoptedTree[journal.source] = TreeOf[adoptedRecord[journal.source]]

OldStateKept ==
  /\ Incomplete => /\ CommitOf[adoptedRecord[journal.source]] = journal.oldCommit
                   /\ adoptedIntact \/ adoptedTree[journal.source] = Edited
  /\ \A p \in Proc :
       /\ pc[p] \in Preparing \ {"check"} => CommitOf[current(p)] = command[p].oldCommit
       /\ pc[p] \in {"copyStage", "prepare"} => liveTree[command[p].source] = TreeOf[current(p)]
       /\ pc[p] \in Applying \ Preparing => adoptedIntact
       /\ pc[p] = "commit" => liveTree[journal.source] = TreeOf[command[p].new]
       /\ pc[p] = "recoveryRequired" => Blocked

-----------------------------------------------------------------------------
(* Records bind trees, which are neither absent nor torn nor edited.       *)
LEMMA Binding == /\ \A v \in Version : TreeOf[v] \in Tree /\ CommitOf[v] \in Commit
                 /\ Absent \notin Tree /\ Torn \notin Tree /\ Edited \notin Tree
                 /\ Absent # Edited /\ Absent # Torn /\ Torn # Edited
                 /\ Absent \notin Lock /\ Torn \notin Lock /\ Absent \notin Journal
  BY RecordAssumption, ContentAssumption, JournalAssumption

(* The fields of a plan.                                                   *)
LEMMA PlanFields ==
  ASSUME NEW plan \in Plan
  PROVE  /\ plan.source \in Source /\ plan.new \in Version /\ plan.oldCommit \in Commit
         /\ TreeOf[plan.new] \in Tree /\ CommitOf[plan.new] \in Commit
  BY Binding DEF Plan

(* Marking a journal changes its state only.                               *)
LEMMA Marking ==
  ASSUME NEW j \in Journal, NEW st \in JournalState
  PROVE  LET k == [j EXCEPT !.state = st]
         IN  k \in Journal /\ k.state = st /\ k.source = j.source /\ k.oldCommit = j.oldCommit
  BY DEF Journal

(* Initially there is nothing but the adopted trees and the lock.          *)
LEMMA IInvInit == Init => IInv
  <1> SUFFICES ASSUME Init PROVE IInv
    OBVIOUS
  <1> USE Binding DEF Init
  <1>1. TypeOK
    BY DEF TypeOK, Lock, Content, Labels
  <1>2. OneRuns /\ FilesOK
    BY <1>1 DEF TypeOK, OneRuns, FilesOK, FileTypes, QuietWithoutJournal, EmptyBackup,
       OthersUntouched, CommittedIsCoherent,
       TornBackup, coherent
  <1>3. ASSUME NEW p \in Proc PROVE Known(p)
    BY DEF Known, KnownToApply, KnownToRecover, Applying, Preparing, Swapping, RollingBack,
       Dropping, Cleaning
  <1> QED
    BY <1>1, <1>2, <1>3 DEF IInv

(* A step of the running command p need only be checked for the files and  *)
(* for what p then knows: the others are idle.                             *)
LEMMA RunningStep ==
  ASSUME IInv, NEW p \in Proc, NEW from \in Labels \ {"idle"}, NEW to \in Labels \ {"idle"},
         go(p, from, to), running, FilesOK', Known(p)'
  PROVE  IInv'
  <1> USE DEF IInv, go, running
  <1>1. /\ pc' \in [Proc -> Labels] /\ pc[p] # "idle" /\ pc'[p] # "idle"
        /\ \A q \in Proc \ {p} : pc'[q] = pc[q] /\ pc[q] = "idle"
    BY DEF TypeOK, OneRuns
  <1>2. TypeOK'
    BY <1>1 DEF TypeOK, FilesOK, FileTypes
  <1>3. OneRuns'
    BY <1>1 DEF OneRuns
  <1>4. ASSUME NEW q \in Proc \ {p} PROVE Known(q)'
    BY <1>1 DEF Known, KnownToApply, KnownToRecover, Applying, Preparing, Swapping,
       RollingBack,
       Dropping, Cleaning
  <1> QED
    BY <1>2, <1>3, <1>4

(* Every step of a running command leaves the files in order, and the      *)
(* command knows what its next place takes for granted.                    *)
LEMMA IInvRunning ==
  ASSUME IInv, NEW p \in Proc, Recovery(p) \/ Swap(p)
  PROVE  /\ FilesOK' /\ Known(p)' /\ running
         /\ \E from, to \in Labels \ {"idle"} : go(p, from, to)
  <1> USE Binding DEF IInv, FilesOK, FileTypes, TypeOK, QuietWithoutJournal, EmptyBackup,
          OthersUntouched,
          CommittedIsCoherent, TornBackup, Known, KnownToApply, KnownToRecover, coherent,
          Incomplete,
          Applying, Preparing, Swapping, RollingBack, Dropping, Cleaning, Labels, Content,
          Journal, JournalState, go, stay, decide, running, hub
  <1>1. CASE Recover(p)
    <2> USE <1>1 DEF Recover, afterRecovery
    <2>1. /\ running
          /\ \E from, to \in Labels \ {"idle"} : go(p, from, to)
      OBVIOUS
    <2>2. FileTypes'
      OBVIOUS
    <2>3. FilesOK'
      BY <2>2
    <2>4. KnownToApply(p)'
      BY <2>2
    <2>5. KnownToRecover(p)'
      BY <2>2
    <2> QED
      BY <2>1, <2>3, <2>4, <2>5
  <1>2. CASE VerifyBackup(p)
    <2> USE <1>2 DEF VerifyBackup, adoptedState
    <2>1. /\ running
          /\ \E from, to \in Labels \ {"idle"} : go(p, from, to)
      OBVIOUS
    <2>2. FileTypes'
      OBVIOUS
    <2>3. FilesOK'
      BY <2>2
    <2>4. KnownToApply(p)'
      BY <2>2
    <2>5. KnownToRecover(p)'
      BY <2>2
    <2> QED
      BY <2>1, <2>3, <2>4, <2>5
  <1>3. CASE RemoveLive(p)
    <2> USE <1>3 DEF RemoveLive, partOf
    <2>1. /\ running
          /\ \E from, to \in Labels \ {"idle"} : go(p, from, to)
      OBVIOUS
    <2>2. FileTypes'
      OBVIOUS
    <2>3. FilesOK'
      BY <2>2
    <2>4. KnownToApply(p)'
      BY <2>2
    <2>5. KnownToRecover(p)'
      BY <2>2
    <2> QED
      BY <2>1, <2>3, <2>4, <2>5
  <1>4. CASE RenameBackup(p)
    <2> USE <1>4 DEF RenameBackup
    <2>1. /\ running
          /\ \E from, to \in Labels \ {"idle"} : go(p, from, to)
      OBVIOUS
    <2>2. FileTypes'
      OBVIOUS
    <2>3. FilesOK'
      BY <2>2
    <2>4. KnownToApply(p)'
      BY <2>2
    <2>5. KnownToRecover(p)'
      BY <2>2
    <2> QED
      BY <2>1, <2>3, <2>4, <2>5
  <1>5. CASE RestoreLock(p)
    <2> USE <1>5 DEF RestoreLock
    <2>1. /\ running
          /\ \E from, to \in Labels \ {"idle"} : go(p, from, to)
      OBVIOUS
    <2>2. FileTypes'
      OBVIOUS
    <2>3. FilesOK'
      BY <2>2
    <2>4. KnownToApply(p)'
      BY <2>2
    <2>5. KnownToRecover(p)'
      BY <2>2
    <2> QED
      BY <2>1, <2>3, <2>4, <2>5
  <1>6. CASE VerifyLive(p)
    <2> USE <1>6 DEF VerifyLive, adoptedState
    <2>1. /\ running
          /\ \E from, to \in Labels \ {"idle"} : go(p, from, to)
      OBVIOUS
    <2>2. FileTypes'
      OBVIOUS
    <2>3. FilesOK'
      BY <2>2
    <2>4. KnownToApply(p)'
      BY <2>2
    <2>5. KnownToRecover(p)'
      BY <2>2
    <2> QED
      BY <2>1, <2>3, <2>4, <2>5
  <1>7. CASE DropStaging(p)
    <2> USE <1>7 DEF DropStaging, eraseStaging, partOf
    <2>1. /\ running
          /\ \E from, to \in Labels \ {"idle"} : go(p, from, to)
      OBVIOUS
    <2>2. FileTypes'
      OBVIOUS
    <2>3. FilesOK'
      BY <2>2
    <2>4. KnownToApply(p)'
      BY <2>2
    <2>5. KnownToRecover(p)'
      BY <2>2
    <2> QED
      BY <2>1, <2>3, <2>4, <2>5
  <1>8. CASE DropBackup(p)
    <2> USE <1>8 DEF DropBackup, eraseBackup, partOf
    <2>1. /\ running
          /\ \E from, to \in Labels \ {"idle"} : go(p, from, to)
      OBVIOUS
    <2>2. FileTypes'
      OBVIOUS
    <2>3. FilesOK'
      BY <2>2
    <2>4. KnownToApply(p)'
      BY <2>2
    <2>5. KnownToRecover(p)'
      BY <2>2
    <2> QED
      BY <2>1, <2>3, <2>4, <2>5
  <1>9. CASE ClearJournal(p)
    <2> USE <1>9 DEF ClearJournal, eraseJournal, afterRecovery
    <2>1. /\ running
          /\ \E from, to \in Labels \ {"idle"} : go(p, from, to)
      OBVIOUS
    <2>2. FileTypes'
      OBVIOUS
    <2>3. FilesOK'
      BY <2>2
    <2>4. KnownToApply(p)'
      BY <2>2
    <2>5. KnownToRecover(p)'
      BY <2>2
    <2> QED
      BY <2>1, <2>3, <2>4, <2>5
  <1>10. CASE Check(p)
    <2> USE <1>10 DEF Check, current
    <2>1. /\ running
          /\ \E from, to \in Labels \ {"idle"} : go(p, from, to)
      OBVIOUS
    <2>2. FileTypes'
      OBVIOUS
    <2>3. FilesOK'
      BY <2>2
    <2>4. KnownToApply(p)'
      BY <2>2
    <2>5. KnownToRecover(p)'
      BY <2>2
    <2> QED
      BY <2>1, <2>3, <2>4, <2>5
  <1>11. CASE Clean(p)
    <2> USE <1>11 DEF Clean, eraseStaging, partOf
    <2>1. /\ running
          /\ \E from, to \in Labels \ {"idle"} : go(p, from, to)
      OBVIOUS
    <2>2. FileTypes'
      OBVIOUS
    <2>3. FilesOK'
      BY <2>2
    <2>4. KnownToApply(p)'
      BY <2>2
    <2>5. KnownToRecover(p)'
      BY <2>2
    <2> QED
      BY <2>1, <2>3, <2>4, <2>5
  <1>12. CASE Fresh(p)
    <2> USE <1>12 DEF Fresh, current
    <2>1. /\ running
          /\ \E from, to \in Labels \ {"idle"} : go(p, from, to)
      OBVIOUS
    <2>2. FileTypes'
      OBVIOUS
    <2>3. FilesOK'
      BY <2>2
    <2>4. KnownToApply(p)'
      BY <2>2
    <2>5. KnownToRecover(p)'
      BY <2>2
    <2> QED
      BY <2>1, <2>3, <2>4, <2>5
  <1>13. CASE CopyStage(p)
    <2> USE <1>13 DEF CopyStage
    <2>1. /\ running
          /\ \E from, to \in Labels \ {"idle"} : go(p, from, to)
      OBVIOUS
    <2>2. FileTypes'
      BY PlanFields
    <2>3. FilesOK'
      BY <2>2
    <2>4. KnownToApply(p)'
      BY <2>2
    <2>5. KnownToRecover(p)'
      BY <2>2
    <2> QED
      BY <2>1, <2>3, <2>4, <2>5
  <1>14. CASE Prepare(p)
    <2> USE <1>14 DEF Prepare, writeJournal
    <2>1. /\ running
          /\ \E from, to \in Labels \ {"idle"} : go(p, from, to)
      OBVIOUS
    <2>0. /\ command[p] \in Plan
          /\ journal' \in Journal /\ journal' # Absent
          /\ journal'.source = command[p].source /\ journal'.state = "PREPARED"
      BY PlanFields
    <2>2. FileTypes'
      BY <2>0
    <2>3. FilesOK'
      BY <2>0, <2>2
    <2>4. KnownToApply(p)'
      BY <2>0, <2>2
    <2>5. KnownToRecover(p)'
      BY <2>0, <2>2
    <2> QED
      BY <2>1, <2>3, <2>4, <2>5
  <1>15. CASE MkBackup(p)
    <2> USE <1>15 DEF MkBackup
    <2>1. /\ running
          /\ \E from, to \in Labels \ {"idle"} : go(p, from, to)
      OBVIOUS
    <2>2. FileTypes'
      OBVIOUS
    <2>3. FilesOK'
      BY <2>2
    <2>4. KnownToApply(p)'
      BY <2>2
    <2>5. KnownToRecover(p)'
      BY <2>2
    <2> QED
      BY <2>1, <2>3, <2>4, <2>5
  <1>16. CASE SaveTree(p)
    <2> USE <1>16 DEF SaveTree
    <2>1. /\ running
          /\ \E from, to \in Labels \ {"idle"} : go(p, from, to)
      OBVIOUS
    <2>0. liveTree[journal.source] # Absent /\ journal.source \in Source
      BY DEF Lock
    <2>2. FileTypes'
      OBVIOUS
    <2>3. FilesOK'
      BY <2>0, <2>2
    <2>4. KnownToApply(p)'
      BY <2>0, <2>2
    <2>5. KnownToRecover(p)'
      BY <2>0, <2>2
    <2> QED
      BY <2>1, <2>3, <2>4, <2>5
  <1>17. CASE SaveLock(p)
    <2> USE <1>17 DEF SaveLock
    <2>1. /\ running
          /\ \E from, to \in Labels \ {"idle"} : go(p, from, to)
      OBVIOUS
    <2>2. FileTypes'
      OBVIOUS
    <2>3. FilesOK'
      BY <2>2
    <2>4. KnownToApply(p)'
      BY <2>2
    <2>5. KnownToRecover(p)'
      BY <2>2
    <2> QED
      BY <2>1, <2>3, <2>4, <2>5
  <1>18. CASE Install(p)
    <2> USE <1>18 DEF Install
    <2>1. /\ running
          /\ \E from, to \in Labels \ {"idle"} : go(p, from, to)
      OBVIOUS
    <2>2. FileTypes'
      OBVIOUS
    <2>3. FilesOK'
      BY <2>2
    <2>4. KnownToApply(p)'
      BY <2>2
    <2>5. KnownToRecover(p)'
      BY <2>2
    <2> QED
      BY <2>1, <2>3, <2>4, <2>5
  <1>19. CASE MarkTree(p)
    <2> USE <1>19 DEF MarkTree, writeJournal
    <2>1. /\ running
          /\ \E from, to \in Labels \ {"idle"} : go(p, from, to)
      OBVIOUS
    <2>0. /\ journal \in Journal /\ journal' \in Journal /\ journal' # Absent
          /\ journal'.source = journal.source /\ journal'.state = "TREE_SWAPPED"
      BY Marking
    <2>2. FileTypes'
      BY <2>0
    <2>3. FilesOK'
      BY <2>0, <2>2
    <2>4. KnownToApply(p)'
      BY <2>0, <2>2
    <2>5. KnownToRecover(p)'
      BY <2>0, <2>2
    <2> QED
      BY <2>1, <2>3, <2>4, <2>5
  <1>20. CASE SwapLock(p)
    <2> USE <1>20 DEF SwapLock
    <2>1. /\ running
          /\ \E from, to \in Labels \ {"idle"} : go(p, from, to)
      OBVIOUS
    <2>0. /\ command[p].source \in Source /\ command[p].new \in Version
          /\ journal.source = command[p].source
      BY PlanFields
    <2>2. FileTypes'
      BY <2>0 DEF Lock
    <2>3. FilesOK'
      BY <2>0, <2>2 DEF Lock
    <2>4. KnownToApply(p)'
      BY <2>0, <2>2 DEF Lock
    <2>5. KnownToRecover(p)'
      BY <2>0, <2>2 DEF Lock
    <2> QED
      BY <2>1, <2>3, <2>4, <2>5
  <1>21. CASE MarkLock(p)
    <2> USE <1>21 DEF MarkLock, writeJournal
    <2>1. /\ running
          /\ \E from, to \in Labels \ {"idle"} : go(p, from, to)
      OBVIOUS
    <2>0. /\ journal \in Journal /\ journal' \in Journal /\ journal' # Absent
          /\ journal'.source = journal.source /\ journal'.state = "LOCK_SWAPPED"
      BY Marking
    <2>2. FileTypes'
      BY <2>0
    <2>3. FilesOK'
      BY <2>0, <2>2
    <2>4. KnownToApply(p)'
      BY <2>0, <2>2
    <2>5. KnownToRecover(p)'
      BY <2>0, <2>2
    <2> QED
      BY <2>1, <2>3, <2>4, <2>5
  <1>22. CASE Verify(p)
    <2> USE <1>22 DEF Verify, current
    <2>1. /\ running
          /\ \E from, to \in Labels \ {"idle"} : go(p, from, to)
      OBVIOUS
    <2>2. FileTypes'
      OBVIOUS
    <2>3. FilesOK'
      BY <2>2
    <2>4. KnownToApply(p)'
      BY <2>2
    <2>5. KnownToRecover(p)'
      BY <2>2
    <2> QED
      BY <2>1, <2>3, <2>4, <2>5
  <1>23. CASE CommitJournal(p)
    <2> USE <1>23 DEF CommitJournal, writeJournal
    <2>1. /\ running
          /\ \E from, to \in Labels \ {"idle"} : go(p, from, to)
      OBVIOUS
    <2>0. /\ journal \in Journal /\ journal' \in Journal /\ journal' # Absent
          /\ journal'.source = journal.source /\ journal'.state = "COMMITTED"
      BY Marking
    <2>2. FileTypes'
      BY <2>0
    <2>3. FilesOK'
      BY <2>0, <2>2
    <2>4. KnownToApply(p)'
      BY <2>0, <2>2
    <2>5. KnownToRecover(p)'
      BY <2>0, <2>2
    <2> QED
      BY <2>1, <2>3, <2>4, <2>5
  <1>24. CASE CleanBackup(p)
    <2> USE <1>24 DEF CleanBackup, eraseBackup, partOf
    <2>1. /\ running
          /\ \E from, to \in Labels \ {"idle"} : go(p, from, to)
      OBVIOUS
    <2>2. FileTypes'
      OBVIOUS
    <2>3. FilesOK'
      BY <2>2
    <2>4. KnownToApply(p)'
      BY <2>2
    <2>5. KnownToRecover(p)'
      BY <2>2
    <2> QED
      BY <2>1, <2>3, <2>4, <2>5
  <1>25. CASE CleanStaging(p)
    <2> USE <1>25 DEF CleanStaging, eraseStaging, partOf
    <2>1. /\ running
          /\ \E from, to \in Labels \ {"idle"} : go(p, from, to)
      OBVIOUS
    <2>2. FileTypes'
      OBVIOUS
    <2>3. FilesOK'
      BY <2>2
    <2>4. KnownToApply(p)'
      BY <2>2
    <2>5. KnownToRecover(p)'
      BY <2>2
    <2> QED
      BY <2>1, <2>3, <2>4, <2>5
  <1>26. CASE Finish(p)
    <2> USE <1>26 DEF Finish, eraseJournal
    <2>1. /\ running
          /\ \E from, to \in Labels \ {"idle"} : go(p, from, to)
      OBVIOUS
    <2>2. FileTypes'
      OBVIOUS
    <2>3. FilesOK'
      BY <2>2
    <2>4. KnownToApply(p)'
      BY <2>2
    <2>5. KnownToRecover(p)'
      BY <2>2
    <2> QED
      BY <2>1, <2>3, <2>4, <2>5
  <1> QED
    BY <1>1, <1>2, <1>3, <1>4, <1>5, <1>6, <1>7, <1>8, <1>9, <1>10, <1>11, <1>12, <1>13,
       <1>14, <1>15, <1>16, <1>17, <1>18, <1>19, <1>20, <1>21, <1>22, <1>23, <1>24, <1>25,
          <1>26 DEF Recovery, Swap

(* Every step preserves the invariant.                                     *)
LEMMA IInvStep == IInv /\ [Next]_vars => IInv'
  <1> SUFFICES ASSUME IInv, [Next]_vars PROVE IInv'
    OBVIOUS
  <1> USE DEF IInv
  <1>0. ASSUME hub' = hub PROVE FilesOK'
    BY <1>0 DEF hub, FilesOK, FileTypes, QuietWithoutJournal, EmptyBackup, OthersUntouched,
       CommittedIsCoherent, TornBackup, coherent, Incomplete
  <1>1. CASE UNCHANGED vars
    BY <1>0, <1>1 DEF vars, hub, TypeOK, OneRuns, Known, KnownToApply, KnownToRecover,
       coherent,
       Incomplete
  <1>2. ASSUME NEW p \in Proc, Recovery(p) \/ Swap(p) PROVE IInv'
    BY <1>2, IInvRunning, RunningStep
  <1>3. ASSUME NEW p \in Proc, ApplyUpdatePlan(p) \/ RecoverIfNeeded(p) \/ Fail(p)
        PROVE  IInv'
    <2>1. /\ hub' = hub /\ pc' \in [Proc -> Labels] /\ pc'[p] \in {"recover", "failed"}
          /\ \A q \in Proc \ {p} : pc'[q] = pc[q] /\ pc[q] = "idle"
          /\ command' \in [Proc -> Plan \cup {Absent}]
          /\ mutex' = {p}
      BY <1>3 DEF ApplyUpdatePlan, RecoverIfNeeded, Fail, go, hub, TypeOK, Labels, OneRuns,
         Leaving, M!Acquire, M!Free
    <2>2. TypeOK' /\ OneRuns' /\ FilesOK'
      BY <1>0, <2>1 DEF TypeOK, OneRuns, hub
    <2>3. ASSUME NEW q \in Proc PROVE Known(q)'
      BY <2>1 DEF Known, KnownToApply, KnownToRecover, Applying, Preparing, Swapping,
         RollingBack,
         Dropping, Cleaning
    <2> QED
      BY <2>2, <2>3
  <1>4. ASSUME NEW p \in Proc, Leave(p) \/ Crash(p) PROVE IInv'
    <2>1. /\ hub' = hub /\ pc' \in [Proc -> Labels]
          /\ \A q \in Proc : pc'[q] = "idle"
          /\ command' \in [Proc -> Plan \cup {Absent}]
          /\ mutex' = {}
      BY <1>4 DEF Leave, Crash, hub, TypeOK, Labels, OneRuns, Leaving, M!Leave
    <2>2. TypeOK' /\ OneRuns' /\ FilesOK'
      BY <1>0, <2>1 DEF TypeOK, OneRuns, hub
    <2>3. ASSUME NEW q \in Proc PROVE Known(q)'
      BY <2>1 DEF Known, KnownToApply, KnownToRecover, Applying, Preparing, Swapping,
         RollingBack,
         Dropping, Cleaning
    <2> QED
      BY <2>2, <2>3
  <1>5. ASSUME NEW s \in Source, Edit(s) PROVE IInv'
    <2>1. \A t \in Source : liveTree'[t] \in {liveTree[t], Edited}
      BY <1>5 DEF Edit, TypeOK
    <2>2. TypeOK'
      BY <1>5 DEF Edit, TypeOK, Content
    <2>3. FilesOK' /\ OneRuns'
      BY <1>5, <2>1, <2>2 DEF Edit, TypeOK, OneRuns, FilesOK, FileTypes,
         QuietWithoutJournal, EmptyBackup,
         OthersUntouched, CommittedIsCoherent, TornBackup, coherent, Incomplete
    <2>4. ASSUME NEW p \in Proc PROVE Known(p)'
      BY <1>5, <2>1 DEF Edit, TypeOK, Known, KnownToApply, KnownToRecover, coherent,
         Incomplete,
         Applying, Preparing, Swapping, RollingBack, Dropping, Cleaning
    <2> QED
      BY <2>2, <2>3, <2>4
  <1>6. CASE EditBackup
    <2>1. TypeOK' /\ backupTree' # Absent
      BY <1>6, Binding DEF EditBackup, TypeOK, Content
    <2>2. FilesOK' /\ OneRuns'
      BY <1>6, <2>1 DEF EditBackup, TypeOK, OneRuns, FilesOK, FileTypes,
         QuietWithoutJournal, EmptyBackup,
         OthersUntouched, CommittedIsCoherent, TornBackup, coherent, Incomplete
    <2>3. ASSUME NEW p \in Proc PROVE Known(p)'
      BY <1>6, <2>1 DEF EditBackup, TypeOK, Known, KnownToApply, KnownToRecover, coherent,
         Incomplete, FilesOK, EmptyBackup,
         Applying, Preparing, Swapping, RollingBack, Dropping, Cleaning
    <2> QED
      BY <2>1, <2>2, <2>3
  <1> QED
    BY <1>1, <1>2, <1>3, <1>4, <1>5, <1>6 DEF Next

(* The invariant holds throughout.                                         *)
THEOREM IInvariance == Spec => []IInv
  BY IInvInit, IInvStep, PTL DEF Spec

-----------------------------------------------------------------------------
(* Every variable keeps to its type.                                       *)
THEOREM TypeCorrect == Spec => []TypeOK
  <1>1. IInv => TypeOK
    BY DEF IInv
  <1> QED
    BY <1>1, IInvariance, PTL

(* A Hub without a journal is coherent: a build that finds no journal      *)
(* meets no half-swapped source, whatever crashed before.                  *)
THEOREM CoherentWithoutJournal == Spec => []NoJournalCoherent
  <1>1. IInv => NoJournalCoherent
    BY DEF IInv, FilesOK, QuietWithoutJournal, NoJournalCoherent, coherent
  <1> QED
    BY <1>1, IInvariance, PTL

(* No backup without a journal: no crash blocks every later update.        *)
THEOREM JournaledBackup == Spec => []BackupIsJournaled
  <1>1. IInv => BackupIsJournaled
    BY DEF IInv, FilesOK, QuietWithoutJournal, BackupIsJournaled
  <1> QED
    BY <1>1, IInvariance, PTL
-----------------------------------------------------------------------------
(* The adopted state of the abstract Hub changes with the commit alone: no *)
(* other step of the update or of a recovery shows.                        *)
LEMMA AdoptedStateStep ==
  ASSUME IInv, NEW p \in Proc, Recovery(p) \/ Swap(p), ~ CommitJournal(p)
  PROVE  adoptedRecord' = adoptedRecord /\ adoptedTree' = adoptedTree
  <1> USE Binding DEF IInv, FilesOK, FileTypes, TypeOK, QuietWithoutJournal, EmptyBackup,
          TornBackup, Known, KnownToApply, KnownToRecover, Incomplete, Applying, Preparing,
          Swapping, RollingBack, Dropping, Cleaning, go, stay, decide, running, hub,
          adoptedRecord, adoptedTree
  <1>1. CASE Recover(p)
    BY <1>1 DEF Recover
  <1>2. CASE VerifyBackup(p)
    BY <1>2 DEF VerifyBackup
  <1>3. CASE RemoveLive(p)
    BY <1>3 DEF RemoveLive
  <1>4. CASE RenameBackup(p)
    BY <1>4 DEF RenameBackup
  <1>5. CASE RestoreLock(p)
    BY <1>5 DEF RestoreLock
  <1>6. CASE VerifyLive(p)
    BY <1>6 DEF VerifyLive
  <1>7. CASE DropStaging(p)
    BY <1>7 DEF DropStaging, eraseStaging
  <1>8. CASE DropBackup(p)
    <2>1. /\ backupTree = Absent => backupTree' = Absent
          /\ backupLock' \in {backupLock, Absent}
          /\ journal' = journal /\ liveTree' = liveTree /\ liveLock' = liveLock
      BY <1>8 DEF DropBackup, eraseBackup, partOf
    <2>2. Incomplete => backupTree = Absent /\ backupLock \in {Absent, liveLock}
      BY <1>8 DEF DropBackup, eraseBackup
    <2> QED
      BY <2>1, <2>2
  <1>9. CASE ClearJournal(p)
    BY <1>9 DEF ClearJournal, eraseJournal
  <1>10. CASE Check(p)
    BY <1>10 DEF Check
  <1>11. CASE Clean(p)
    BY <1>11 DEF Clean, eraseStaging
  <1>12. CASE Fresh(p)
    BY <1>12 DEF Fresh
  <1>13. CASE CopyStage(p)
    BY <1>13 DEF CopyStage
  <1>14. CASE Prepare(p)
    BY <1>14 DEF Prepare, writeJournal
  <1>15. CASE MkBackup(p)
    BY <1>15 DEF MkBackup
  <1>16. CASE SaveTree(p)
    BY <1>16 DEF SaveTree
  <1>17. CASE SaveLock(p)
    BY <1>17 DEF SaveLock
  <1>18. CASE Install(p)
    BY <1>18 DEF Install
  <1>19. CASE MarkTree(p)
    <2>1. /\ journal \in Journal /\ journal' \in Journal /\ journal' # Absent
          /\ journal'.source = journal.source /\ journal'.state = "TREE_SWAPPED"
      BY <1>19, Marking DEF MarkTree, writeJournal, JournalState
    <2> QED
      BY <1>19, <2>1 DEF MarkTree, writeJournal
  <1>20. CASE SwapLock(p)
    BY <1>20 DEF SwapLock
  <1>21. CASE MarkLock(p)
    <2>1. /\ journal \in Journal /\ journal' \in Journal /\ journal' # Absent
          /\ journal'.source = journal.source /\ journal'.state = "LOCK_SWAPPED"
      BY <1>21, Marking DEF MarkLock, writeJournal, JournalState
    <2> QED
      BY <1>21, <2>1 DEF MarkLock, writeJournal
  <1>22. CASE Verify(p)
    BY <1>22 DEF Verify
  <1>23. CASE CleanBackup(p)
    BY <1>23 DEF CleanBackup, eraseBackup
  <1>24. CASE CleanStaging(p)
    BY <1>24 DEF CleanStaging, eraseStaging
  <1>25. CASE Finish(p)
    BY <1>25 DEF Finish, eraseJournal
  <1> QED
    BY <1>1, <1>2, <1>3, <1>4, <1>5, <1>6, <1>7, <1>8, <1>9, <1>10, <1>11, <1>12, <1>13,
       <1>14, <1>15, <1>16, <1>17, <1>18, <1>19, <1>20, <1>21, <1>22, <1>23, <1>24,
          <1>25 DEF Recovery, Swap

(* If nobody edits while a command runs, rolling back is always possible,  *)
(* unless the lock in the backup is torn.                                  *)
LEMMA OldStateKeptInit == Init => OldStateKept
  BY DEF Init, OldStateKept, Incomplete, Preparing, Applying

(* No step but an edit puts the journal's previous state at risk.          *)
LEMMA OldStateKeptStep ==
  ASSUME ~ EditsDuringApply
  PROVE  IInv /\ OldStateKept /\ [Next]_vars => OldStateKept'
  <1> SUFFICES ASSUME IInv, OldStateKept, [Next]_vars PROVE OldStateKept'
    OBVIOUS
  <1>a. TypeOK /\ OneRuns /\ FilesOK
    BY DEF IInv
  <1>1. CASE UNCHANGED vars
    BY <1>1 DEF vars, hub, OldStateKept, Incomplete, adoptedIntact, adoptedTree,
       adoptedRecord, current, Blocked
  <1>2. ASSUME NEW p \in Proc, CommitJournal(p) PROVE OldStateKept'
    <2>1. ~ Incomplete'
      BY <1>2, <1>a, Marking DEF CommitJournal, writeJournal, Incomplete, TypeOK, IInv,
         Known,
         KnownToApply, Applying, Preparing, go, JournalState
    <2>2. \A q \in Proc : pc'[q] \in {"idle", "cleanBackup"}
      BY <1>2, <1>a DEF CommitJournal, writeJournal, go, TypeOK, OneRuns
    <2> QED
      BY <2>1, <2>2 DEF OldStateKept, Preparing, Applying
  <1>3. ASSUME NEW p \in Proc, Recovery(p) \/ Swap(p), ~ CommitJournal(p) PROVE OldStateKept'
    <2>1. adoptedRecord' = adoptedRecord /\ adoptedTree' = adoptedTree
      BY <1>3, AdoptedStateStep
    <2>2. ASSUME Incomplete', ~ Prepare(p)
          PROVE  /\ Incomplete /\ journal'.source = journal.source
                 /\ journal'.oldCommit = journal.oldCommit
      <3>1. CASE MarkTree(p) \/ MarkLock(p)
        <4>1. Incomplete /\ journal \in Journal
          BY <3>1, <1>a DEF MarkTree, MarkLock, writeJournal, TypeOK, go, IInv, Known,
             KnownToApply, Applying, Preparing, Incomplete
        <4>2. \E st \in JournalState : journal' = [journal EXCEPT !.state = st]
          BY <3>1 DEF MarkTree, MarkLock, writeJournal, JournalState
        <4> QED
          BY <4>1, <4>2, Marking
      <3>2. CASE ClearJournal(p) \/ Finish(p)
        BY <2>2, <3>2 DEF ClearJournal, Finish, eraseJournal, Incomplete
      <3>3. CASE ~ (MarkTree(p) \/ MarkLock(p) \/ ClearJournal(p) \/ Finish(p))
        <4>1. journal' = journal
          BY <1>3, <2>2, <3>3 DEF Recovery, Swap, Recover, VerifyBackup, RemoveLive,
             RenameBackup,
             RestoreLock, VerifyLive, DropStaging, DropBackup, Check, Clean, Fresh,
             CopyStage, MkBackup, SaveTree, SaveLock, Install, SwapLock,
             Verify, CleanBackup, CleanStaging, eraseStaging, eraseBackup, decide, hub
        <4> QED
          BY <2>2, <4>1 DEF Incomplete
      <3> QED
        BY <3>1, <3>2, <3>3
    <2>3. Incomplete' => /\ CommitOf[adoptedRecord'[journal'.source]] = journal'.oldCommit
                         /\ adoptedIntact' \/ adoptedTree'[journal'.source] = Edited
      <3>1. CASE Prepare(p)
        <4>0. command[p] \in Plan /\ journal = Absent
          BY <3>1 DEF Prepare, writeJournal, go, IInv, Known, KnownToApply, Applying,
             Preparing
        <4>1. /\ journal' \in Journal /\ journal'.source = command[p].source
              /\ journal'.oldCommit = command[p].oldCommit
          BY <3>1, <4>0, PlanFields DEF Prepare, writeJournal, Journal, JournalState
        <4>2. /\ CommitOf[current(p)] = command[p].oldCommit
              /\ liveTree[command[p].source] = TreeOf[current(p)]
          BY <3>1 DEF Prepare, writeJournal, go, OldStateKept, Preparing
        <4>3. adoptedRecord = liveLock /\ adoptedTree = liveTree
          BY <4>0 DEF adoptedRecord, adoptedTree, Incomplete
        <4> QED
          BY <4>1, <4>2, <4>3, <2>1 DEF current, adoptedIntact
      <3>2. CASE ~ Prepare(p)
        BY <3>2, <2>1, <2>2 DEF OldStateKept, adoptedIntact
      <3> QED
        BY <3>1, <3>2
    <2>4. \A q \in Proc : q # p => pc'[q] = "idle"
      BY <1>3, IInvRunning, <1>a DEF go, OneRuns, TypeOK
    <2>5. /\ pc'[p] \in Preparing \ {"check"} => CommitOf[current(p)'] = command'[p].oldCommit
          /\ pc'[p] \in {"copyStage", "prepare"} =>
               liveTree'[command'[p].source] = TreeOf[current(p)']
      <3>1. CASE Check(p) \/ Clean(p) \/ Fresh(p) \/ CopyStage(p)
        BY <3>1, <1>a DEF Check, Clean, Fresh, CopyStage, eraseStaging, go, stay, decide,
           running,
           hub, TypeOK, OldStateKept, Preparing, current
      <3>2. CASE ~ (Check(p) \/ Clean(p) \/ Fresh(p) \/ CopyStage(p))
        <4>1. pc'[p] \notin Preparing \ {"check"}
          BY <1>3, <3>2, <1>a DEF Recovery, Swap, Recover, VerifyBackup, RemoveLive,
             RenameBackup,
             RestoreLock, VerifyLive, DropStaging, DropBackup, ClearJournal, Prepare,
             MkBackup,
             SaveTree, SaveLock, Install, MarkTree, SwapLock, MarkLock, Verify, CleanBackup,
             CleanStaging, Finish, eraseStaging, eraseBackup, eraseJournal, writeJournal,
             afterRecovery, decide, go, stay, TypeOK, Preparing
        <4> QED
          BY <4>1 DEF Preparing
      <3> QED
        BY <3>1, <3>2
    <2>6. pc'[p] = "recoveryRequired" => Blocked'
      <3> SUFFICES ASSUME pc'[p] = "recoveryRequired" PROVE Blocked'
        OBVIOUS
      <3>1. VerifyBackup(p) \/ VerifyLive(p)
        BY <1>3, <1>a DEF Recovery, Swap, Recover, RemoveLive, RenameBackup,
           RestoreLock, DropStaging, DropBackup, ClearJournal, Check, Clean, Fresh,
           CopyStage,
           Prepare, MkBackup, SaveTree, SaveLock, Install, MarkTree, SwapLock, MarkLock,
           Verify,
           CleanBackup, CleanStaging, Finish, eraseStaging, eraseBackup, eraseJournal,
           writeJournal, afterRecovery, decide, go, stay, TypeOK
      <3>2. hub' = hub /\ Incomplete /\ journal \in Journal
        BY <3>1, <1>a DEF VerifyBackup, VerifyLive, decide, go, IInv, Known, KnownToRecover,
           RollingBack, TypeOK, Incomplete
      <3>3. Blocked
        BY <3>1, <3>2, <1>a, Binding DEF VerifyBackup, VerifyLive, decide, go, TypeOK,
           OldStateKept,
           adoptedState, adoptedIntact, adoptedTree, adoptedRecord, IInv, Known,
           KnownToRecover, RollingBack, Journal, Blocked
      <3> QED
        BY <3>2, <3>3 DEF hub, Blocked, Incomplete, adoptedTree
    <2>7. pc'[p] \in Applying \ Preparing => adoptedIntact'
      <3>1. CASE Prepare(p)
        BY <3>1, <2>1, <1>a, Binding, PlanFields DEF Prepare, writeJournal, go, OldStateKept,
           Preparing, current, adoptedIntact, adoptedRecord, adoptedTree, Incomplete, IInv,
           Known, KnownToApply, Applying
      <3>2. CASE ~ Prepare(p)
        <4> SUFFICES ASSUME pc'[p] \in Applying \ Preparing PROVE adoptedIntact'
          OBVIOUS
        <4>1. pc[p] \in Applying \ Preparing
          BY <1>3, <3>2, <1>a DEF Recovery, Swap, Recover, VerifyBackup, RemoveLive,
             RenameBackup,
             RestoreLock, VerifyLive, DropStaging, DropBackup, ClearJournal, Check, Clean,
             Fresh, CopyStage, MkBackup,
             SaveTree, SaveLock, Install, MarkTree, SwapLock, MarkLock, Verify, CleanBackup,
             CleanStaging, Finish, eraseStaging, eraseBackup, eraseJournal, writeJournal,
             afterRecovery, decide, go, stay, TypeOK, Preparing, Applying
        <4>2. Incomplete'
          BY <1>a, IInvRunning, <1>3 DEF Known, KnownToApply
        <4> QED
          BY <4>1, <4>2, <2>1, <2>2, <3>2 DEF OldStateKept, adoptedIntact
      <3> QED
        BY <3>1, <3>2
    <2>8. pc'[p] = "commit" => liveTree'[journal'.source] = TreeOf[command'[p].new]
      <3> SUFFICES ASSUME pc'[p] = "commit" PROVE liveTree'[journal'.source] = TreeOf[command'[p].new]
        OBVIOUS
      <3>1. Verify(p)
        BY <1>3, <1>a DEF Recovery, Swap, Recover, VerifyBackup, VerifyLive, RemoveLive,
           RenameBackup,
           RestoreLock, DropStaging, DropBackup, ClearJournal, Check, Clean, Fresh,
           CopyStage,
           Prepare, MkBackup, SaveTree, SaveLock, Install, MarkTree, SwapLock, MarkLock,
           CleanBackup, CleanStaging, Finish, eraseStaging, eraseBackup, eraseJournal,
           writeJournal, afterRecovery, decide, go, stay, TypeOK
      <3> QED
        BY <3>1, <1>a DEF Verify, decide, hub, go, TypeOK, IInv, Known, KnownToApply,
           Applying, Preparing
    <2> QED
      BY <2>3, <2>4, <2>5, <2>6, <2>7, <2>8 DEF OldStateKept, Preparing, Applying
  <1>4. ASSUME NEW p \in Proc,
               ApplyUpdatePlan(p) \/ RecoverIfNeeded(p) \/ Fail(p) \/ Leave(p) \/ Crash(p)
        PROVE  OldStateKept'
    <2>1. /\ hub' = hub
          /\ \A q \in Proc : pc'[q] \in {"idle", "recover", "failed"}
      BY <1>4, <1>a DEF ApplyUpdatePlan, RecoverIfNeeded, Fail, Leave, Crash, go, hub,
         TypeOK,
         OneRuns, Leaving, M!Acquire, M!Leave, M!Free
    <2> QED
      BY <2>1 DEF hub, OldStateKept, Incomplete, adoptedIntact, adoptedTree, adoptedRecord,
         Preparing, Applying
  <1>5. ASSUME EditBackup \/ \E s \in Source : Edit(s) PROVE OldStateKept'
    <2>1. /\ \A p \in Proc : pc'[p] = "idle"
          /\ journal' = journal /\ adoptedRecord' = adoptedRecord
      BY <1>5, <1>a DEF Edit, EditBackup, editable, Incomplete, OneRuns, M!Free, adoptedRecord
    <2>2. Incomplete => adoptedTree'[journal.source] \in {adoptedTree[journal.source], Edited}
      <3> SUFFICES ASSUME Incomplete
                   PROVE  adoptedTree'[journal.source] \in {adoptedTree[journal.source], Edited}
        OBVIOUS
      <3>1. journal.source \in Source /\ liveTree \in [Source -> Content] /\ Incomplete'
        BY <2>1, <1>a DEF Incomplete, TypeOK, Journal
      <3>2. CASE EditBackup
        BY <3>1, <3>2, <2>1, Binding DEF EditBackup, adoptedTree
      <3>3. ASSUME NEW s \in Source, Edit(s)
            PROVE  adoptedTree'[journal.source] \in {adoptedTree[journal.source], Edited}
        BY <3>1, <3>3, <2>1 DEF Edit, adoptedTree
      <3> QED
        BY <1>5, <3>2, <3>3
    <2> QED
      BY <2>1, <2>2 DEF OldStateKept, Incomplete, adoptedIntact, Preparing, Applying
  <1> QED
    BY <1>1, <1>2, <1>3, <1>4, <1>5 DEF Next

(* Without edits under a running command, a recovery refuses only after a  *)
(* crash in the middle of writing the lock into the backup, or after an    *)
(* edit of the only copy of the previous tree between the crash and it.    *)
THEOREM RefusalMeansTornOrEdited ==
  ASSUME ~ EditsDuringApply PROVE Spec => []RefusesOnlyTornOrEdited
  <1>1. OldStateKept => RefusesOnlyTornOrEdited
    BY DEF OldStateKept, RefusesOnlyTornOrEdited
  <1> QED
    BY <1>1, IInvariance, OldStateKeptInit, OldStateKeptStep, PTL DEF Spec

-----------------------------------------------------------------------------
(* The commit is the update of the abstract Hub.                           *)
LEMMA CommitStep ==
  ASSUME IInv, OldStateKept, NEW p \in Proc, CommitJournal(p)
  PROVE  A!Update(command[p].source, command[p].new)
  <1> USE DEF IInv, FilesOK, FileTypes, TypeOK, Known, KnownToApply, Applying, Preparing,
          Swapping, CommitJournal, writeJournal, go, Incomplete, JournalState
  <1>1. /\ journal.source = command[p].source /\ command[p].source \in Source
        /\ command[p].new \in Version
        /\ Incomplete /\ backupTree # Absent /\ backupLock \in Lock
        /\ liveLock[command[p].source] = command[p].new
        /\ liveTree[command[p].source] = TreeOf[command[p].new]
    BY PlanFields DEF OldStateKept
  <1>2. /\ adoptedRecord = backupLock
        /\ adoptedTree = [liveTree EXCEPT ![journal.source] = backupTree]
    BY <1>1, Binding DEF adoptedRecord, adoptedTree
  <1>3. /\ adoptedRecord' = liveLock /\ adoptedTree' = liveTree
    BY <1>1, Marking DEF adoptedRecord, adoptedTree
  <1>4. liveLock = [backupLock EXCEPT ![command[p].source] = command[p].new]
    BY <1>1 DEF OthersUntouched, Lock
  <1>5. liveTree = [adoptedTree EXCEPT ![command[p].source] = TreeOf[command[p].new]]
    BY <1>1, <1>2
  <1>6. adoptedTree[command[p].source] = TreeOf[adoptedRecord[command[p].source]]
    BY <1>1 DEF OldStateKept, adoptedIntact
  <1> QED
    BY <1>2, <1>3, <1>4, <1>5, <1>6 DEF A!Update

(* Without edits under a running command, updates are atomic, and crashes, *)
(* failures and roll-backs never show.                                     *)
THEOREM UpdateImplementsAdoptedHub ==
  ASSUME ~ EditsDuringApply PROVE Spec => UpdateIsAtomic
  <1>1. Init => A!Init
    BY DEF Init, A!Init, adoptedRecord, adoptedTree, Incomplete, Lock
  <1>2. IInv /\ OldStateKept /\ [Next]_vars => [A!Next]_<<adoptedRecord, adoptedTree>>
    <2> SUFFICES ASSUME IInv, OldStateKept, [Next]_vars
                 PROVE  [A!Next]_<<adoptedRecord, adoptedTree>>
      OBVIOUS
    <2>1. CASE UNCHANGED hub
      BY <2>1 DEF hub, adoptedRecord, adoptedTree, Incomplete
    <2>2. ASSUME NEW p \in Proc, CommitJournal(p) PROVE A!Next
      <3>1. command[p].source \in Source /\ command[p].new \in Version
        BY <2>2, PlanFields DEF IInv, Known, KnownToApply, Applying, CommitJournal,
           writeJournal, go
      <3> QED
        BY <2>2, <3>1, CommitStep DEF A!Next
    <2>3. ASSUME NEW p \in Proc, Recovery(p) \/ Swap(p), ~ CommitJournal(p)
          PROVE  UNCHANGED <<adoptedRecord, adoptedTree>>
      BY <2>3, AdoptedStateStep
    <2>4. ASSUME NEW s \in Source, Edit(s)
          PROVE  A!Edit(s) \/ UNCHANGED <<adoptedRecord, adoptedTree>>
      <3>1. adoptedRecord' = adoptedRecord /\ Incomplete' = Incomplete
        BY <2>4 DEF Edit, adoptedRecord, Incomplete
      <3>2. CASE Incomplete /\ backupTree # Absent
        <4>1. liveTree \in [Source -> Content] /\ journal.source \in Source
          BY <3>2 DEF IInv, TypeOK, Incomplete, Journal
        <4>2. /\ adoptedTree = [liveTree EXCEPT ![journal.source] = backupTree]
              /\ adoptedTree' = [liveTree' EXCEPT ![journal.source] = backupTree]
          BY <2>4, <3>1, <3>2 DEF Edit, adoptedTree
        <4>3. liveTree' = [liveTree EXCEPT ![s] = Edited]
          BY <2>4 DEF Edit
        <4>4. CASE s = journal.source
          BY <4>1, <4>2, <4>3, <4>4, <3>1
        <4>5. CASE s # journal.source
          <5>1. adoptedTree' = [adoptedTree EXCEPT ![s] = Edited]
            BY <4>1, <4>2, <4>3, <4>5
          <5> QED
            BY <5>1, <3>1 DEF A!Edit
        <4> QED
          BY <4>4, <4>5
      <3>3. CASE ~ (Incomplete /\ backupTree # Absent)
        <4>1. adoptedTree = liveTree /\ adoptedTree' = liveTree'
          BY <2>4, <3>1, <3>3 DEF Edit, adoptedTree
        <4> QED
          BY <2>4, <4>1, <3>1 DEF Edit, A!Edit
      <3> QED
        BY <3>2, <3>3
    <2>5. ASSUME EditBackup PROVE [A!Next]_<<adoptedRecord, adoptedTree>>
      <3>1. adoptedRecord' = adoptedRecord
        BY <2>5 DEF EditBackup, adoptedRecord, Incomplete
      <3>2. CASE Incomplete
        <4>1. journal \in Journal /\ journal.source \in Source
          BY <3>2 DEF IInv, TypeOK, Incomplete, Journal
        <4>2. adoptedTree' = [adoptedTree EXCEPT ![journal.source] = Edited]
          BY <2>5, <3>2, <4>1, Binding DEF EditBackup, adoptedTree, Incomplete, IInv, TypeOK
        <4> QED
          BY <3>1, <4>1, <4>2 DEF A!Next, A!Edit
      <3>3. CASE ~ Incomplete
        BY <2>5, <3>1, <3>3 DEF EditBackup, adoptedTree, Incomplete
      <3> QED
        BY <3>2, <3>3
    <2> QED
      BY <2>1, <2>2, <2>3, <2>4, <2>5 DEF Next, vars, ApplyUpdatePlan, RecoverIfNeeded, Leave,
         Fail,
         Crash, A!Next
  <1> QED
    BY <1>1, <1>2, IInvariance, OldStateKeptInit, OldStateKeptStep, PTL
       DEF Spec, UpdateIsAtomic, A!Spec

-----------------------------------------------------------------------------
(* What a build knows while nothing has disturbed it: there is no journal, *)
(* it has the live lock, and what it has verified and read is still there. *)
Attesting ==
  /\ journal = Absent
  /\ at \in {"verify", "built"} => /\ adopted = liveLock
                                   /\ \A s \in verified : liveTree[s] = TreeOf[adopted[s]]
  /\ \A s \in Source : skills[s] # Absent => verified = Source /\ skills[s] = liveTree[s]
  /\ at = "built" => \A s \in Source : skills[s] # Absent

BuildInv == /\ skills \in [Source -> Content] /\ verified \subseteq Source
            /\ at \in {"idle", "readLock"} => \A s \in Source : skills[s] = Absent
            /\ at \in {"idle", "readLock"} => verified = {}
            /\ at # "idle" /\ ~ disturbed => Attesting

(* A build touches nothing of the Hub, and what it knows holds until the   *)
(* Hub changes, which disturbs it.                                         *)
LEMMA BuildStep ==
  ASSUME IInv, BuildInv, [Build \/ Mutate]_<<vars, build>>
  PROVE  BuildInv'
  <1> USE DEF BuildInv, Attesting, moves
  <1>1. liveTree \in [Source -> Content] /\ Absent \in Content
    BY DEF IInv, FilesOK, FileTypes, Content
  <1>2. CASE UNCHANGED <<vars, build>>
    BY <1>2 DEF vars, hub, build
  <1>3. CASE BuildHub
    BY <1>3 DEF BuildHub, vars, hub
  <1>4. CASE ReadLock
    BY <1>4 DEF ReadLock, vars, hub
  <1>5. CASE VerifyCatalog
    BY <1>5 DEF VerifyCatalog, vars, hub
  <1>6. CASE BuildEnds
    BY <1>1, <1>6 DEF BuildEnds, vars, hub
  <1>7. ASSUME NEW s \in Source, VerifyTree(s) PROVE BuildInv'
    BY <1>7 DEF VerifyTree, vars, hub
  <1>8. ASSUME NEW s \in Source, Import(s) PROVE BuildInv'
    BY <1>1, <1>8 DEF Import, vars, hub
  <1>9. CASE Mutate
    BY <1>9 DEF Mutate, hub
  <1> QED
    BY <1>2, <1>3, <1>4, <1>5, <1>6, <1>7, <1>8, <1>9 DEF Build

(* A build during which nothing changed attests the adopted state: it read *)
(* no hand-edited tree and no update that a recovery will roll back.       *)
THEOREM QuietBuilds == BuildSpec => []QuietBuildAttestsAdopted
  <1>1. Init /\ BuildInit => IInv /\ BuildInv
    <2> SUFFICES ASSUME Init, BuildInit PROVE BuildInv
      BY IInvInit
    <2> QED
      BY DEF BuildInit, BuildInv, Content
  <1>2. IInv /\ BuildInv /\ [Build \/ Mutate]_<<vars, build>> => IInv' /\ BuildInv'
    <2>1. [Build \/ Mutate]_<<vars, build>> => [Next]_vars
      BY DEF Build, Mutate, BuildHub, ReadLock, VerifyTree, Import, VerifyCatalog, BuildEnds
    <2> QED
      BY <2>1, IInvStep, BuildStep
  <1>3. IInv /\ BuildInv => QuietBuildAttestsAdopted
    <2> SUFFICES ASSUME IInv, BuildInv, at = "built", ~ disturbed
                 PROVE  attests /\ adopted = adoptedRecord /\ skills = adoptedTree
      BY DEF QuietBuildAttestsAdopted
    <2>1. /\ journal = Absent /\ adopted = liveLock
          /\ \A s \in Source : liveTree[s] = TreeOf[adopted[s]] /\ skills[s] = liveTree[s]
      BY DEF BuildInv, Attesting
    <2>2. adoptedRecord = liveLock /\ adoptedTree = liveTree
      BY <2>1 DEF adoptedRecord, adoptedTree, Incomplete
    <2>3. skills = liveTree
      BY <2>1 DEF BuildInv, IInv, FilesOK, FileTypes
    <2> QED
      BY <2>1, <2>2, <2>3 DEF attests
  <1> QED
    BY <1>1, <1>2, <1>3, PTL DEF BuildSpec
=============================================================================
