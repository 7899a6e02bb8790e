-------------------------- MODULE RemoteLockProofs --------------------------
(***************************************************************************)
(* The guard of a project lock excludes, plans replace only what they were *)
(* reviewed against, and the answers are true, for every set of processes  *)
(* and plans, whoever dies, fails or reclaims.                             *)
(***************************************************************************)
EXTENDS RemoteLock, FiniteSetTheorems, TLAPS

Reading == {"readOwner", "probe", "verify", "rmOwner"}
Releasing == {"relSnapshot", "relRm", "relRmdir"}

(* The places at which the guard directory is a process's to remove.       *)
Owning == {"rmdir", "open", "write", "failRm", "failRmdir", "holding", "rename"} \cup Releasing

Places == {"idle", "dead", "mkdir", "readdir", "recheck", "reclaimed"} \cup Reading \cup Owning

Shape == /\ guard \in {"absent", "dir"}
         /\ pc \in [Proc -> Places]
         /\ DOMAIN plan = Proc /\ DOMAIN calls = Proc /\ DOMAIN attempt = Proc
         /\ DOMAIN observed = Proc /\ DOMAIN answer = Proc

(* A guard has one owner file at most, and none when it is not there.      *)
Tidy == /\ \A s, t \in owners : s = t
        /\ guard = "absent" => owners = {}

AtMostOne == \A p, q \in Proc : pc[p] \in Owning /\ pc[q] \in Owning => p = q

(* The answer of a process is true of its present call.                    *)
True(p) == (answer[p] \in {"applied", "not durable"}) <=> (p \in committed)

(* What each place of a process knows.                                     *)
Known(p) ==
  /\ pc[p] \in Owning => guard = "dir" /\ owners \subseteq {own(p)}
  /\ pc[p] \in Reading => observed[p] # {}
  /\ pc[p] \in {"verify", "rmOwner"} =>
       \A o \in observed[p], q \in Proc : o[1] = q => pc[q] = "dead"
  /\ pc[p] = "rename" => lock = plan[p].existing \/ p \in disturbed
  /\ pc[p] \in Releasing => True(p)
  /\ pc[p] = "idle" /\ answer[p] \notin {None, "not released"} => True(p)
  /\ pc[p] \notin Releasing \cup {"idle"} => p \notin committed

IInv == Shape /\ Tidy /\ AtMostOne /\ \A p \in Proc : Known(p)

-----------------------------------------------------------------------------
(* What a step of one process leaves to the others.                        *)
OthersStay(p) ==
  \A q \in Proc \ {p} :
       /\ pc'[q] = pc[q] /\ plan'[q] = plan[q] /\ calls'[q] = calls[q]
       /\ observed'[q] = observed[q] /\ answer'[q] = answer[q]
       /\ (q \in committed') <=> (q \in committed)
       /\ (q \in disturbed') <=> (q \in disturbed)

NoOtherOwns(p) == \A q \in Proc \ {p} : pc[q] \notin Owning

(* A step of one process keeps the invariant if it keeps what is known of  *)
(* that process, and touches the guard and the lock only as their owner.   *)
LEMMA ProcessStep ==
  ASSUME IInv, NEW p \in Proc, pc[p] # "dead", Shape', Tidy', OthersStay(p),
         NoOtherOwns(p) \/ (UNCHANGED <<guard, owners, lock>> /\ pc'[p] \notin Owning),
         Known(p)'
  PROVE  IInv'
  <1>1. ASSUME NEW q \in Proc \ {p} PROVE Known(q)'
    <2>1. Known(q) /\ pc'[q] = pc[q] /\ observed'[q] = observed[q] /\ calls'[q] = calls[q]
          /\ plan'[q] = plan[q] /\ answer'[q] = answer[q]
      BY DEF IInv, OthersStay
    <2>2. pc[q] \in Owning => UNCHANGED <<guard, owners, lock>>
      BY DEF NoOtherOwns
    <2>3. \A r \in Proc : pc[r] = "dead" => pc'[r] = "dead"
      BY DEF OthersStay
    <2>4. pc[q] \in Owning => guard' = "dir" /\ owners' \subseteq {own(q)'}
      BY <2>1, <2>2 DEF Known, own
    <2>5. pc[q] = "rename" => lock' = plan'[q].existing \/ q \in disturbed'
      BY <2>1, <2>2 DEF Known, OthersStay, Owning
    <2> QED
      BY <2>1, <2>3, <2>4, <2>5 DEF Known, True, OthersStay
  <1>2. AtMostOne'
    BY DEF AtMostOne, IInv, OthersStay, NoOtherOwns
  <1> QED
    BY <1>1, <1>2 DEF IInv

(* An owner that remains one is alone.                                     *)
LEMMA OwnerIsAlone ==
  ASSUME IInv, NEW p \in Proc, pc[p] \in Owning
  PROVE  NoOtherOwns(p)
  BY DEF IInv, AtMostOne, NoOtherOwns

(* While there is no guard, nobody owns it.                                *)
LEMMA AbsentIsFree ==
  ASSUME IInv, NEW p \in Proc, guard = "absent"
  PROVE  NoOtherOwns(p) /\ pc[p] \notin Owning
  BY DEF IInv, Known, NoOtherOwns

(* A step that moves a process between places without the guard.           *)
LEMMA RefuseStep ==
  ASSUME IInv, NEW p \in Proc, pc[p] \notin Owning \cup {"idle", "dead"}, Refuse(p)
  PROVE  IInv'
  <1>1. Shape' /\ OthersStay(p) /\ Tidy' /\ pc'[p] = "idle" /\ UNCHANGED <<guard, owners, lock>>
    BY DEF Refuse, IInv, Shape, Tidy, OthersStay, Places, disk, history
  <1>2. Known(p)'
    BY <1>1 DEF Refuse, IInv, Shape, Known, True, Owning, Reading, Releasing, history
  <1> QED
    BY <1>1, <1>2, ProcessStep DEF Owning, Releasing

LEMMA AgainStep ==
  ASSUME IInv, NEW p \in Proc, pc[p] \in {"recheck", "reclaimed"}, Again(p)
  PROVE  IInv'
  <1>1. CASE attempt[p] = MaxAttempts
    BY <1>1, RefuseStep DEF Again, Owning, Releasing
  <1>2. CASE attempt[p] # MaxAttempts
    <2>1. Shape' /\ OthersStay(p) /\ Tidy' /\ pc'[p] = "mkdir" /\ UNCHANGED <<guard, owners, lock, committed>>
      BY <1>2 DEF Again, Local, IInv, Shape, Tidy, OthersStay, Places, disk, history
    <2>2. Known(p)'
      BY <2>1 DEF IInv, Known, Owning, Reading, Releasing
    <2> QED
      BY <2>1, <2>2, ProcessStep DEF Owning, Releasing
  <1> QED
    BY <1>1, <1>2

-----------------------------------------------------------------------------
LEMMA ApplyStep ==
  ASSUME IInv, NEW p \in Proc, runRemoteLockPlan(p) \/ applyRemoteLockPlan(p)
  PROVE  IInv'
  <1>1. /\ pc[p] = "idle" /\ pc'[p] \in {"idle", "mkdir"}
        /\ UNCHANGED <<guard, owners, lock>>
    BY DEF runRemoteLockPlan, applyRemoteLockPlan, disk, IInv, Shape
  <1>2. Shape' /\ Tidy' /\ OthersStay(p)
    BY DEF runRemoteLockPlan, applyRemoteLockPlan, disk, history, IInv, Shape, Tidy, OthersStay, Places
  <1>3. CASE runRemoteLockPlan(p)
    <2>1. UNCHANGED <<pc, answer, committed>>
      BY <1>3 DEF runRemoteLockPlan, history
    <2>2. Known(p)'
      BY <1>1, <2>1 DEF IInv, Known, True, Owning, Reading, Releasing
    <2> QED
      BY <1>1, <1>2, <2>2, ProcessStep DEF Owning, Releasing
  <1>4. CASE applyRemoteLockPlan(p)
    <2>1. /\ committed' = committed \ {p}
          /\ \/ pc'[p] = "mkdir"
             \/ pc'[p] = "idle" /\ answer'[p] = "refused"
      BY <1>4 DEF applyRemoteLockPlan, IInv, Shape
    <2>2. Known(p)'
      BY <2>1 DEF Known, True, Owning, Reading, Releasing
    <2> QED
      BY <1>1, <1>2, <2>2, ProcessStep DEF Owning, Releasing
  <1> QED
    BY <1>3, <1>4

(* The look at a guard that somebody else has made.                        *)
LEMMA LookStep ==
  ASSUME IInv, NEW p \in Proc,
         Readdir(p) \/ ReadOwner(p) \/ Recheck(p) \/ Probe(p) \/ Verify(p) \/ Reclaimed(p)
  PROVE  IInv'
  <1>1. CASE Readdir(p)
    <2>1. Shape' /\ OthersStay(p) /\ Tidy' /\ pc[p] = "readdir" /\ UNCHANGED <<guard, owners, lock, committed>>
      BY <1>1 DEF Readdir, Goto, Local, IInv, Shape, Tidy, OthersStay, Places, Reading, disk, history
    <2>2. Cardinality(owners) = 1 => owners # {}
      BY FS_EmptySet
    <2>3. \/ pc'[p] = "readOwner" /\ observed'[p] = owners /\ owners # {}
          \/ pc'[p] = "recheck"
      BY <1>1, <2>2 DEF Readdir, Goto, IInv, Shape
    <2>4. Known(p)'
      BY <2>1, <2>3 DEF IInv, Known, Owning, Reading, Releasing
    <2> QED
      BY <2>1, <2>3, <2>4, ProcessStep DEF Owning, Releasing
  <1>2. CASE ReadOwner(p)
    <2>1. Shape' /\ OthersStay(p) /\ Tidy' /\ pc[p] = "readOwner"
          /\ pc'[p] \in {"probe", "recheck"} /\ UNCHANGED <<guard, owners, lock, committed, observed>>
      BY <1>2 DEF ReadOwner, Goto, Local, IInv, Shape, Tidy, OthersStay, Places, Reading, disk, history
    <2>2. Known(p)'
      BY <2>1 DEF IInv, Known, Owning, Reading, Releasing
    <2> QED
      BY <2>1, <2>2, ProcessStep DEF Owning, Releasing
  <1>3. CASE Recheck(p)
    BY <1>3, AgainStep, RefuseStep DEF Recheck, Owning, Releasing
  <1>4. CASE Reclaimed(p)
    BY <1>4, AgainStep DEF Reclaimed
  <1>5. CASE Probe(p)
    <2>1. pc[p] = "probe"
      BY <1>5 DEF Probe
    <2>2. CASE \E o \in observed[p] : alive(o[1])
      BY <1>5, <2>1, <2>2, RefuseStep DEF Probe, Owning, Releasing
    <2>3. CASE ~ \E o \in observed[p] : alive(o[1])
      <3>1. Shape' /\ OthersStay(p) /\ Tidy' /\ pc'[p] = "verify"
            /\ UNCHANGED <<guard, owners, lock, committed, observed>>
        BY <1>5, <2>3 DEF Probe, Local, IInv, Shape, Tidy, OthersStay, Places, Reading, disk, history
      <3>2. \A o \in observed[p], q \in Proc : o[1] = q => pc'[q] = "dead"
        BY <2>1, <2>3, <3>1 DEF alive, OthersStay
      <3>3. Known(p)'
        BY <2>1, <3>1, <3>2 DEF IInv, Known, Owning, Reading, Releasing
      <3> QED
        BY <2>1, <3>1, <3>3, ProcessStep DEF Owning, Releasing
    <2> QED
      BY <2>2, <2>3
  <1>6. CASE Verify(p)
    <2>1. pc[p] = "verify"
      BY <1>6 DEF Verify
    <2>2. CASE observed[p] \subseteq owners
      <3>1. Shape' /\ OthersStay(p) /\ Tidy' /\ pc'[p] = "rmOwner"
            /\ UNCHANGED <<guard, owners, lock, committed, observed>>
        BY <1>6, <2>2 DEF Verify, Local, IInv, Shape, Tidy, OthersStay, Places, Reading, disk, history
      <3>2. Known(p)'
        BY <2>1, <3>1 DEF IInv, Known, OthersStay, Owning, Reading, Releasing
      <3> QED
        BY <2>1, <3>1, <3>2, ProcessStep DEF Owning, Releasing
    <2>3. CASE ~ observed[p] \subseteq owners
      BY <1>6, <2>1, <2>3, RefuseStep DEF Verify, Owning, Releasing
    <2> QED
      BY <2>2, <2>3
  <1> QED
    BY <1>1, <1>2, <1>3, <1>4, <1>5, <1>6

(* Who makes the directory owns it.                                        *)
LEMMA MkdirStep ==
  ASSUME IInv, NEW p \in Proc, Mkdir(p)
  PROVE  IInv'
  <1>1. Shape' /\ OthersStay(p) /\ Tidy' /\ pc[p] = "mkdir" /\ guard' = "dir"
        /\ UNCHANGED <<owners, lock, committed>>
    BY DEF Mkdir, Goto, Local, IInv, Shape, Tidy, OthersStay, Places, Owning, disk, history
  <1>2. CASE guard = "absent"
    <2>1. pc'[p] = "open" /\ owners = {} /\ NoOtherOwns(p)
      BY <1>2, AbsentIsFree DEF Mkdir, Goto, IInv, Shape, Tidy
    <2>2. Known(p)'
      BY <1>1, <2>1 DEF IInv, Known, Reading, Releasing
    <2> QED
      BY <1>1, <2>1, <2>2, ProcessStep
  <1>3. CASE guard # "absent"
    <2>1. pc'[p] = "readdir"
      BY <1>3 DEF Mkdir, Goto, IInv, Shape
    <2>2. Known(p)'
      BY <1>1, <2>1 DEF IInv, Known, Owning, Reading, Releasing
    <2>3. UNCHANGED <<guard, owners, lock>>
      BY <1>1, <1>3 DEF IInv, Shape
    <2> QED
      BY <1>1, <2>1, <2>2, <2>3, ProcessStep DEF Owning, Releasing
  <1> QED
    BY <1>2, <1>3

(* Who removes the file of a dead owner owns the directory: a live owner   *)
(* would be the one that is dead.                                          *)
LEMMA RmOwnerStep ==
  ASSUME IInv, NEW p \in Proc, RmOwner(p)
  PROVE  IInv'
  <1>1. /\ pc[p] = "rmOwner" /\ observed[p] # {} /\ p \notin committed
        /\ \A o \in observed[p], q \in Proc : o[1] = q => pc[q] = "dead"
    BY DEF RmOwner, IInv, Known, Reading, Releasing
  <1>2. CASE observed[p] \subseteq owners
    <2>1. owners \ observed[p] = {} /\ owners # {}
      BY <1>1, <1>2 DEF IInv, Tidy
    <2>2. guard' = guard /\ lock' = lock /\ owners' = {} /\ pc'[p] = "rmdir" /\ committed' = committed
      BY <1>2, <2>1 DEF RmOwner, Local, history, IInv, Shape
    <2>3. Shape' /\ OthersStay(p) /\ Tidy'
      BY <1>2, <2>2 DEF RmOwner, Local, IInv, Shape, Tidy, OthersStay, Places, Owning, history
    <2>4. NoOtherOwns(p)
      <3> SUFFICES ASSUME NEW q \in Proc \ {p}, pc[q] \in Owning
                   PROVE  FALSE
        BY DEF NoOtherOwns
      <3>1. PICK o \in observed[p] : o = own(q)
        BY <1>1, <1>2 DEF IInv, Known
      <3>2. pc[q] = "dead"
        BY <1>1, <3>1 DEF own
      <3> QED
        BY <3>2 DEF Owning, Releasing
    <2>5. Known(p)'
      BY <1>1, <2>1, <2>2 DEF IInv, Known, Shape, Tidy, Reading, Releasing
    <2> QED
      BY <1>1, <2>3, <2>4, <2>5, ProcessStep
  <1>3. CASE ~ observed[p] \subseteq owners
    BY <1>1, <1>3, RefuseStep DEF RmOwner, Owning, Releasing
  <1> QED
    BY <1>2, <1>3

-----------------------------------------------------------------------------
(* A step of the owner that stays in the section and leaves the lock alone.*)
LEMMA OwnerStep ==
  ASSUME IInv, NEW p \in Proc, pc[p] \in Owning, Shape', Tidy', OthersStay(p), Known(p)'
  PROVE  IInv'
  BY OwnerIsAlone, ProcessStep DEF Owning, Releasing

(* The file of the owner is made, written or removed.                      *)
LEMMA FileStep ==
  ASSUME IInv, NEW p \in Proc, Open(p) \/ Write(p) \/ FailRm(p) \/ RelRm(p)
  PROVE  IInv'
  <1>1. /\ pc[p] \in Owning /\ guard = "dir" /\ guard' = "dir" /\ owners \subseteq {own(p)}
        /\ own(p)' = own(p)
    BY DEF Open, Write, FailRm, RelRm, Goto, Local, IInv, Known, Owning, Releasing, own
  <1>2. owners' \subseteq {own(p)}
    BY <1>1 DEF Open, Write, FailRm, RelRm
  <1>3. Shape' /\ Tidy' /\ OthersStay(p)
    BY <1>1, <1>2 DEF Open, Write, FailRm, RelRm, Goto, Local, IInv, Shape, Tidy, OthersStay, Places,
                      Owning, Releasing, history
  <1>4. CASE Open(p) \/ Write(p) \/ FailRm(p)
    <2>1. /\ pc'[p] \in {"write", "failRm", "holding", "failRmdir"}
          /\ p \notin committed /\ committed' = committed
      BY <1>4 DEF Open, Write, FailRm, Goto, Local, IInv, Shape, Known, Releasing, history
    <2>2. Known(p)'
      BY <1>1, <1>2, <2>1 DEF Known, Reading, Releasing
    <2> QED
      BY <1>1, <1>3, <2>2, OwnerStep
  <1>5. CASE RelRm(p)
    <2>1. /\ \/ pc'[p] = "relRmdir" /\ answer' = answer
             \/ pc'[p] = "idle" /\ answer'[p] = "not released"
          /\ True(p) /\ committed' = committed
      BY <1>5 DEF RelRm, Goto, IInv, Shape, Known, Releasing, history
    <2>2. Known(p)'
      BY <1>1, <1>2, <2>1 DEF Known, True, Reading, Releasing, Owning
    <2> QED
      BY <1>1, <1>3, <2>2, OwnerStep
  <1> QED
    BY <1>4, <1>5

(* The owner removes the directory, if nobody can be in it.                *)
LEMMA RmdirStep ==
  ASSUME IInv, NEW p \in Proc, Rmdir(p) \/ FailRmdir(p) \/ RelRmdir(p)
  PROVE  IInv'
  <1>1. pc[p] \in Owning
    BY DEF Rmdir, FailRmdir, RelRmdir, Goto, Owning, Releasing
  <1>2. CASE Rmdir(p) /\ removable
    <2>1. /\ pc[p] = "rmdir" /\ pc'[p] = "reclaimed" /\ guard' = "absent" /\ owners' = {}
          /\ committed' = committed
      BY <1>2 DEF Rmdir, removable, Local, history, IInv, Shape
    <2>2. Shape' /\ Tidy' /\ OthersStay(p)
      BY <1>2, <2>1 DEF Rmdir, Local, IInv, Shape, Tidy, OthersStay, Places, history
    <2>3. Known(p)'
      BY <2>1 DEF IInv, Known, Reading, Releasing, Owning
    <2> QED
      BY <1>1, <2>2, <2>3, OwnerStep
  <1>3. CASE Rmdir(p) /\ ~ removable
    <2>1. pc[p] = "rmdir" /\ Refuse(p)
      BY <1>3 DEF Rmdir
    <2>2. Shape' /\ OthersStay(p) /\ Tidy' /\ pc'[p] = "idle"
      BY <2>1 DEF Refuse, IInv, Shape, Tidy, OthersStay, Places, disk, history
    <2>3. Known(p)'
      BY <2>1, <2>2 DEF Refuse, IInv, Shape, Known, True, Owning, Reading, Releasing, history
    <2> QED
      BY <1>1, <2>2, <2>3, OwnerStep
  <1>4. CASE FailRmdir(p) \/ RelRmdir(p)
    <2>1. /\ pc'[p] = "idle" /\ owners' = owners /\ committed' = committed
          /\ guard' = guard \/ (guard' = "absent" /\ owners = {})
      BY <1>4 DEF FailRmdir, RelRmdir, Goto, Local, removable, history, IInv, Shape
    <2>2. Shape' /\ Tidy' /\ OthersStay(p)
      BY <1>4, <2>1 DEF FailRmdir, RelRmdir, Goto, Local, IInv, Shape, Tidy, OthersStay, Places, history
    <2>3. True(p)'
      BY <1>4, <2>1 DEF FailRmdir, RelRmdir, Goto, Local, IInv, Shape, Known, True, Releasing, history
    <2>4. Known(p)'
      BY <2>1, <2>3 DEF Known, Reading, Releasing, Owning
    <2> QED
      BY <1>1, <2>2, <2>4, OwnerStep
  <1> QED
    BY <1>2, <1>3, <1>4

(* The lock is read again, replaced, and the release begins.               *)
LEMMA HoldingStep ==
  ASSUME IInv, NEW p \in Proc, Read(p) \/ writeLockAtomically(p) \/ RelSnapshot(p)
  PROVE  IInv'
  <1>1. /\ pc[p] \in Owning /\ guard' = guard /\ owners' = owners
        /\ guard = "dir" /\ owners \subseteq {own(p)} /\ own(p)' = own(p)
    BY DEF Read, writeLockAtomically, RelSnapshot, Goto, Local, disk, IInv, Known, Owning, Releasing, own
  <1>2. Shape' /\ Tidy' /\ OthersStay(p)
    BY DEF Read, writeLockAtomically, RelSnapshot, Finish, Goto, Local, disk, history, IInv, Shape, Tidy,
           OthersStay, Places, Owning, Releasing
  <1>3. CASE Read(p)
    <2>1. /\ committed' = committed /\ p \notin committed /\ lock' = lock /\ plan' = plan
          /\ \/ pc'[p] = "rename" /\ lock = plan[p].existing
             \/ pc'[p] = "relSnapshot" /\ answer'[p] = "refused"
      BY <1>3 DEF Read, Finish, current, history, IInv, Shape, Known, Releasing
    <2>2. Known(p)'
      BY <1>1, <2>1 DEF Known, True, Reading, Releasing
    <2> QED
      BY <1>1, <1>2, <2>2, OwnerStep
  <1>4. CASE writeLockAtomically(p)
    <2>1. /\ pc'[p] = "relSnapshot" /\ p \notin committed
          /\ \/ p \in committed' /\ answer'[p] \in {"applied", "not durable"}
             \/ committed' = committed /\ answer'[p] = "refused"
      BY <1>4 DEF writeLockAtomically, Finish, IInv, Shape, Known, Releasing
    <2>2. Known(p)'
      BY <1>1, <2>1 DEF Known, True, Reading, Releasing
    <2> QED
      BY <1>1, <1>2, <2>2, OwnerStep
  <1>5. CASE RelSnapshot(p)
    <2>1. /\ pc'[p] \in {"relRm", "idle"} /\ True(p)
          /\ UNCHANGED <<committed, answer>>
      BY <1>5 DEF RelSnapshot, Goto, Local, history, IInv, Shape, Known, Releasing
    <2>2. Known(p)'
      BY <1>1, <2>1 DEF Known, True, Reading, Releasing, Owning
    <2> QED
      BY <1>1, <1>2, <2>2, OwnerStep
  <1> QED
    BY <1>3, <1>4, <1>5

LEMMA CrashStep ==
  ASSUME IInv, NEW p \in Proc, Crash(p)
  PROVE  IInv'
  <1>1. /\ pc[p] # "dead" /\ pc'[p] = "dead" /\ p \notin committed'
        /\ UNCHANGED <<guard, owners, lock>>
    BY DEF Crash, disk, IInv, Shape
  <1>2. Shape' /\ Tidy' /\ OthersStay(p)
    BY DEF Crash, disk, IInv, Shape, Tidy, OthersStay, Places
  <1>3. Known(p)'
    BY <1>1 DEF Known, Owning, Reading, Releasing
  <1> QED
    BY <1>1, <1>2, <1>3, ProcessStep DEF Owning, Releasing

(* A refresh may get between the second look and the rename.               *)
LEMMA RefreshStep ==
  ASSUME IInv, Refresh
  PROVE  IInv'
  <1>1. Shape' /\ Tidy' /\ AtMostOne'
    BY DEF Refresh, disk, IInv, Shape, Tidy, AtMostOne
  <1>2. ASSUME NEW p \in Proc PROVE Known(p)'
    BY DEF Refresh, disk, IInv, Known, True, own
  <1> QED
    BY <1>1, <1>2 DEF IInv

(* A step of a process moves no other.                                     *)
LEMMA OnlyOneMoves ==
  ASSUME pc \in [Proc -> Places], NEW p \in Proc, Step(p)
  PROVE  \A q \in Proc \ {p} : pc'[q] = pc[q]
  BY DEF Step, runRemoteLockPlan, applyRemoteLockPlan, Mkdir, Readdir, ReadOwner, Recheck, Again, Probe,
         Verify, RmOwner, Rmdir, Reclaimed, Refuse, Open, Write, FailRm, FailRmdir, Read,
         writeLockAtomically, Finish, RelSnapshot, RelRm, RelRmdir, Crash, Local, Goto

LEMMA StepKeeps ==
  ASSUME IInv, NEW p \in Proc, Step(p)
  PROVE  IInv'
  BY ApplyStep, MkdirStep, LookStep, RmOwnerStep, RmdirStep, FileStep, HoldingStep, CrashStep DEF Step

(* The guard, the lock and what each process knows fit together after every *)
(* step (remote-projects.ts, acquireRemoteLockGuard to release).            *)
THEOREM Inductive == Spec => []IInv
  <1>1. Init => IInv
    BY DEF Init, IInv, Shape, Tidy, AtMostOne, Known, Places, Owning, Reading, Releasing
  <1>2. IInv /\ [Next]_vars => IInv'
    <2> SUFFICES ASSUME IInv, [Next]_vars
                 PROVE  IInv'
      OBVIOUS
    <2>1. CASE UNCHANGED vars
      BY <2>1 DEF vars, disk, history, IInv, Shape, Tidy, AtMostOne, Known, True, own
    <2>2. CASE Next
      BY <2>2, StepKeeps, RefreshStep DEF Next
    <2> QED
      BY <2>1, <2>2
  <1> QED
    BY <1>1, <1>2, PTL DEF Spec

-----------------------------------------------------------------------------
(* Between the second look and the rename there is one process at most     *)
(* (remote-projects.ts, acquireRemoteLockGuard and its release).           *)
THEOREM Exclusion == Spec => GuardIsMutex
  <1> DEFINE Inside == {"holding", "rename"}
             holders == {p \in Proc : pc[p] \in Inside}
  <1>1. Init => Guard!Init
    BY DEF Init, Guard!Init, Guard!Free
  <1>2. ASSUME IInv, [Next]_vars
        PROVE  [Guard!Next]_holders
    <2>1. CASE UNCHANGED vars
      BY <2>1 DEF vars
    <2>2. CASE Refresh
      BY <2>2 DEF Refresh
    <2>3. ASSUME NEW p \in Proc, Step(p)
          PROVE  [Guard!Next]_holders
      <3>1. pc' \in [Proc -> Places] /\ pc \in [Proc -> Places] /\ IInv'
        BY <1>2, <2>3, StepKeeps DEF IInv, Shape
      <3>2. \A q \in Proc \ {p} : pc'[q] = pc[q]
        BY <1>2, <2>3, OnlyOneMoves DEF IInv, Shape
      <3>3. \A q, r \in Proc : pc[q] \in Inside /\ pc[r] \in Inside => q = r
        BY <1>2 DEF IInv, AtMostOne, Owning
      <3>4. \A q, r \in Proc : pc'[q] \in Inside /\ pc'[r] \in Inside => q = r
        BY <3>1 DEF IInv, AtMostOne, Owning
      <3>5. CASE pc[p] \in Inside /\ pc'[p] \in Inside
        BY <3>2, <3>5
      <3>6. CASE pc[p] \notin Inside /\ pc'[p] \notin Inside
        BY <3>2, <3>6
      <3>7. CASE pc[p] \in Inside /\ pc'[p] \notin Inside
        <4>1. holders = {p} /\ holders' = {}
          BY <3>2, <3>3, <3>7
        <4> QED
          BY <4>1 DEF Guard!Next, Guard!Leave
      <3>8. CASE pc[p] \notin Inside /\ pc'[p] \in Inside
        <4>1. holders = {} /\ holders' = {p}
          BY <3>2, <3>4, <3>8
        <4> QED
          BY <4>1 DEF Guard!Next, Guard!Acquire, Guard!Free
      <3> QED
        BY <3>5, <3>6, <3>7, <3>8
    <2> QED
      BY <1>2, <2>1, <2>2, <2>3 DEF Next
  <1> QED
    BY <1>1, <1>2, Inductive, PTL DEF Spec, GuardIsMutex, Guard!Spec

(* A plan replaces the lock that it was reviewed against, unless a refresh *)
(* came in between (remote-projects.ts, applyRemoteLockPlan).              *)
THEOREM Reviewed == Spec => PlansFollowReviews
  <1>1. ASSUME IInv, [Next]_vars, NEW p \in Proc, p \in committed' \ committed
        PROVE  (lock = plan[p].existing \/ p \in disturbed) /\ lock' = plan[p].candidate
    <2>1. PICK q \in Proc : writeLockAtomically(q) /\ committed' = committed \cup {q} /\ lock' = plan[q].candidate
      BY <1>1 DEF Next, Step, vars, Refresh, runRemoteLockPlan, applyRemoteLockPlan, Mkdir, Readdir, ReadOwner,
         Recheck, Again, Probe, Verify, RmOwner, Rmdir, Reclaimed, Refuse, Open, Write, FailRm, FailRmdir, Read,
         writeLockAtomically, RelSnapshot, RelRm, RelRmdir, Crash, Local, history
    <2>2. q = p
      BY <1>1, <2>1
    <2> QED
      BY <1>1, <2>1, <2>2 DEF writeLockAtomically, IInv, Known
  <1>2. IInv /\ [Next]_vars
        => [\A p \in Proc : p \in committed' \ committed =>
              /\ lock = plan[p].existing \/ p \in disturbed
              /\ lock' = plan[p].candidate]_vars
    BY <1>1
  <1> QED
    BY <1>2, Inductive, PTL DEF Spec, PlansFollowReviews

(* Who is told that the plan was applied has replaced the lock, who is     *)
(* told that it was refused has not (remote-projects.ts, release).         *)
THEOREM Truth == Spec => []AnswersAreTrue
  <1>1. IInv => AnswersAreTrue
    BY DEF IInv, Known, True, AnswersAreTrue
  <1> QED
    BY <1>1, Inductive, PTL
=============================================================================
