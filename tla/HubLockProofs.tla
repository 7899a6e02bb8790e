--------------------------- MODULE HubLockProofs ---------------------------
(***************************************************************************)
(* The lock protocol of HubLock is correct for every set of processes and  *)
(* every bound on the tokens they draw.                                    *)
(***************************************************************************)
EXTENDS HubLock, TLAPS

(* The places between a process's own mkdir and the end of that lock: the  *)
(* token it drew last is then in use.                                      *)
Created == Custody \ {"rmdir"}

AtMostOneCustodian == \A p, q \in Proc : custodian(p) /\ custodian(q) => p = q

AtMostOneOwner == /\ \A t, u \in owners : t = u
                  /\ path # "dir" => owners = {}

(* What the directory holds at each place of its custodian.                *)
CustodyIntact ==
  \A p \in Proc :
    /\ custodian(p) => path = "dir"
    /\ pc[p] \in {"open", "rmdir", "relRmdir"} => owners = {}
    /\ pc[p] \in {"write", "failRm"} => owners = {own(p)}
    /\ pc[p] = "failRmdir" => owners \subseteq {own(p)}
    /\ pc[p] \in Whole => owners = {own(p)} /\ marked = {own(p)}

(* An owner file that is still there when a failed acquisition comes to    *)
(* its rmdir is one whose removal failed.                                  *)
FaultKnown == \A p \in Proc : pc[p] = "failRmdir" /\ owners # {} => left = "failRm"

(* No token is ahead of its process's counter, on disk or in a snapshot.   *)
TokensDrawn == /\ \A t \in owners : t[2] <= generation[t[1]]
               /\ \A p \in Proc : \A t \in observed[p] : t[2] <= generation[t[1]]

(* A token whose owner was found dead is not in use again, even though its *)
(* process id may be.                                                      *)
ObservedDead ==
  \A p \in Proc : pc[p] \in {"hook", "rmOwner"} =>
    \A t \in observed[p] : pc[t[1]] \in Created => t[2] < generation[t[1]]

IInv == /\ TypeOK
        /\ AtMostOneCustodian
        /\ AtMostOneOwner
        /\ CustodyIntact
        /\ TokensDrawn
        /\ ObservedDead
        /\ LeakOnlyByFault
        /\ FaultKnown

-----------------------------------------------------------------------------
(* The initial states satisfy the invariant: the directory does not exist. *)
LEMMA IInvInit == Init => IInv
  <1> SUFFICES ASSUME Init PROVE IInv
    OBVIOUS
  <1> USE DEF Init, Labels, custodian, Custody, Whole
  <1>1. TypeOK
    BY DEF TypeOK, Token
  <1>2. AtMostOneCustodian /\ AtMostOneOwner
    BY DEF AtMostOneCustodian, AtMostOneOwner
  <1>3. CustodyIntact
    BY DEF CustodyIntact
  <1>4. TokensDrawn /\ ObservedDead
    BY DEF TokensDrawn, ObservedDead
  <1>5. LeakOnlyByFault /\ FaultKnown
    BY DEF LeakOnlyByFault, FaultKnown
  <1> QED
    BY <1>1, <1>2, <1>3, <1>4, <1>5 DEF IInv

(* A successful mkdir proves that there was no directory, hence no other   *)
(* custodian and no owner file, and draws a token no snapshot can hold.    *)
LEMMA MakeDirStep ==
  ASSUME IInv, NEW p \in Proc, NEW from \in {"mkdir", "recreate"}, makeDir(p, from)
  PROVE  IInv'
  <1> USE DEF IInv, TypeOK, AtMostOneCustodian, AtMostOneOwner, CustodyIntact, TokensDrawn,
          ObservedDead, LeakOnlyByFault, FaultKnown, custodian, Custody, Whole, Created, Labels, Token, own,
          go, makeDir
  <1>0. \A q \in Proc : ~ custodian(q)
    OBVIOUS
  <1>1. TypeOK'
    <2>1. generation' \in [Proc -> Nat]
      OBVIOUS
    <2>2. pc' \in [Proc -> Labels]
      OBVIOUS
    <2>3. owners' = {} /\ marked' = {} /\ observed' = observed /\ path' = "dir"
      OBVIOUS
    <2> QED
      BY <2>1, <2>2, <2>3
  <1>2. AtMostOneCustodian'
    BY <1>0
  <1>3. AtMostOneOwner'
    BY <1>0
  <1>4. CustodyIntact'
    BY <1>0
  <1>5. TokensDrawn'
    BY <1>0
  <1>6. ObservedDead'
    BY <1>0
  <1>7. LeakOnlyByFault' /\ FaultKnown'
    BY <1>0
  <1> QED
    BY <1>1, <1>2, <1>3, <1>4, <1>5, <1>6, <1>7

(* A reclaimer that finds the observed owner file still there takes the    *)
(* directory over from nobody: the token is not in use again.              *)
LEMMA RmOwnerStep ==
  ASSUME IInv, NEW p \in Proc, RmOwner(p)
  PROVE  IInv'
  <1> USE DEF IInv, TypeOK, AtMostOneCustodian, AtMostOneOwner, CustodyIntact, TokensDrawn,
          ObservedDead, LeakOnlyByFault, FaultKnown, custodian, Custody, Whole, Created, Labels, Token, own,
          go, refuse, UnchangedDisk, disk
  <1>1. CASE refuse(p, "rmOwner")
    BY <1>1
  <1>2. CASE \E t \in observed[p] : removeOwner(t)
    <2>1. PICK t \in observed[p] : removeOwner(t)
      BY <1>2
    <2>2. t \in owners /\ owners = {t} /\ path = "dir" /\ owners' = {} /\ marked' = {}
      BY <2>1 DEF removeOwner
    <2>3. \A q \in Proc : ~ custodian(q)
      <3> SUFFICES ASSUME NEW q \in Proc, custodian(q) PROVE FALSE
        OBVIOUS
      <3>1. t = own(q) /\ pc[q] \in Created
        BY <2>2
      <3>2. t[1] = q /\ t[2] = generation[q] /\ generation[q] \in Nat
        BY <3>1
      <3> QED
        BY <3>1, <3>2, <2>1 DEF RmOwner, removeOwner
    <2>4. /\ pc' = [pc EXCEPT ![p] = "rmdir"] /\ pc[p] = "rmOwner"
          /\ observed' = [observed EXCEPT ![p] = {}]
          /\ path' = path /\ generation' = generation /\ legacyOwner' = legacyOwner
          /\ left' = "none"
      BY <2>2 DEF RmOwner
    <2>5. TypeOK'
      BY <2>2, <2>3, <2>4
    <2>6. AtMostOneCustodian'
      BY <2>2, <2>3, <2>4
    <2>7. AtMostOneOwner'
      BY <2>2, <2>3, <2>4
    <2>8. CustodyIntact'
      BY <2>2, <2>3, <2>4
    <2>9. TokensDrawn'
      BY <2>2, <2>3, <2>4
    <2>10. ObservedDead'
      BY <2>2, <2>3, <2>4
    <2>11. LeakOnlyByFault' /\ FaultKnown'
      BY <2>2, <2>3, <2>4
    <2> QED
      BY <2>5, <2>6, <2>7, <2>8, <2>9, <2>10, <2>11
  <1> QED
    BY <1>1, <1>2 DEF RmOwner

(* Every step preserves the invariant.                                     *)
LEMMA IInvStep == IInv /\ [Next]_vars => IInv'
  <1> SUFFICES ASSUME IInv, [Next]_vars PROVE IInv'
    OBVIOUS
  <1> USE DEF IInv, TypeOK, AtMostOneCustodian, AtMostOneOwner, CustodyIntact, TokensDrawn,
          ObservedDead, LeakOnlyByFault, FaultKnown, custodian, Custody, Whole, Created, Labels, Token, own,
          go, refuse, UnchangedDisk, disk
  <1>0. CASE UNCHANGED vars
    BY <1>0 DEF vars
  <1>1. ASSUME NEW p \in Proc, Enter(p) PROVE IInv'
    BY <1>1 DEF Enter
  <1>2. ASSUME NEW p \in Proc, Return(p) PROVE IInv'
    BY <1>2 DEF Return
  <1>3. ASSUME NEW p \in Proc, LegacyStat(p) PROVE IInv'
    BY <1>3 DEF LegacyStat
  <1>4. ASSUME NEW p \in Proc, LegacyOwner(p) PROVE IInv'
    BY <1>4 DEF LegacyOwner
  <1>5. ASSUME NEW p \in Proc, LegacyHook(p) PROVE IInv'
    BY <1>5 DEF LegacyHook
  <1>6. ASSUME NEW p \in Proc, LegacyRm(p) PROVE IInv'
    BY <1>6 DEF LegacyRm
  <1>7. ASSUME NEW p \in Proc, Mkdir(p) PROVE IInv'
    <2>1. CASE makeDir(p, "mkdir")
      BY <2>1, MakeDirStep
    <2>2. CASE ~ makeDir(p, "mkdir")
      BY <2>2, <1>7 DEF Mkdir
    <2> QED
      BY <2>1, <2>2
  <1>8. ASSUME NEW p \in Proc, Recreate(p) PROVE IInv'
    <2>1. CASE makeDir(p, "recreate")
      BY <2>1, MakeDirStep
    <2>2. CASE ~ makeDir(p, "recreate")
      BY <2>2, <1>8 DEF Recreate
    <2> QED
      BY <2>1, <2>2
  <1>9. ASSUME NEW p \in Proc, OpenOwner(p) PROVE IInv'
    BY <1>9 DEF OpenOwner
  <1>10. ASSUME NEW p \in Proc, WriteOwner(p) PROVE IInv'
    BY <1>10 DEF WriteOwner
  <1>11. ASSUME NEW p \in Proc, FailRm(p) PROVE IInv'
    BY <1>11 DEF FailRm, removeOwner, fails
  <1>12. ASSUME NEW p \in Proc, FailRmdir(p) PROVE IInv'
    BY <1>12 DEF FailRmdir, removeDir, removable, fails
  <1>13. ASSUME NEW p \in Proc, Readdir(p) PROVE IInv'
    BY <1>13 DEF Readdir
  <1>14. ASSUME NEW p \in Proc, ReadOwner(p) PROVE IInv'
    BY <1>14 DEF ReadOwner
  <1>15. ASSUME NEW p \in Proc, Probe(p) PROVE IInv'
    BY <1>15 DEF Probe, ownerAlive
  <1>16. ASSUME NEW p \in Proc, Hook(p) PROVE IInv'
    BY <1>16 DEF Hook
  <1>17. ASSUME NEW p \in Proc, RmOwner(p) PROVE IInv'
    BY <1>17, RmOwnerStep
  <1>18. ASSUME NEW p \in Proc, Rmdir(p) PROVE IInv'
    BY <1>18 DEF Rmdir, removeDir, removable, fails
  <1>19. ASSUME NEW p \in Proc, Release(p) PROVE IInv'
    BY <1>19 DEF Release
  <1>20. ASSUME NEW p \in Proc, RelSnapshot(p) PROVE IInv'
    <2>1. CASE fails(p, "relSnapshot", "idle")
      <3>1. /\ pc[p] = "relSnapshot" /\ pc' = [pc EXCEPT ![p] = "idle"] /\ left' = "relSnapshot"
            /\ path' = path /\ owners' = owners /\ marked' = marked /\ legacyOwner' = legacyOwner
            /\ generation' = generation /\ observed' = observed
        BY <2>1 DEF fails
      <3>2. TypeOK'
        BY <3>1
      <3>3. AtMostOneCustodian' /\ AtMostOneOwner' /\ CustodyIntact' /\ TokensDrawn'
        BY <3>1
      <3>4. ObservedDead' /\ FaultKnown'
        BY <3>1
      <3>5. owners = {own(p)} /\ marked = {own(p)}
        BY <3>1
      <3>6. LeakOnlyByFault'
        BY <3>1, <3>5
      <3> QED
        BY <3>2, <3>3, <3>4, <3>6
    <2>2. CASE ~ fails(p, "relSnapshot", "idle")
      BY <2>2, <1>20 DEF RelSnapshot
    <2> QED
      BY <2>1, <2>2
  <1>21. ASSUME NEW p \in Proc, RelRm(p) PROVE IInv'
    BY <1>21 DEF RelRm, removeOwner, fails
  <1>22. ASSUME NEW p \in Proc, RelRmdir(p) PROVE IInv'
    BY <1>22 DEF RelRmdir, removeDir, removable, fails
  <1>23. ASSUME NEW p \in Proc, Crash(p) PROVE IInv'
    <2>1. TypeOK'
      BY <1>23 DEF Crash
    <2>2. AtMostOneCustodian'
      BY <1>23 DEF Crash
    <2>3. AtMostOneOwner'
      BY <1>23 DEF Crash
    <2>4. CustodyIntact'
      BY <1>23 DEF Crash
    <2>5. TokensDrawn'
      BY <1>23 DEF Crash
    <2>6. ObservedDead'
      BY <1>23 DEF Crash
    <2>7. LeakOnlyByFault' /\ FaultKnown'
      BY <1>23 DEF Crash
    <2> QED
      BY <2>1, <2>2, <2>3, <2>4, <2>5, <2>6, <2>7
  <1>24. ASSUME NEW p \in Proc, Restart(p) PROVE IInv'
    BY <1>24 DEF Restart
  <1>25. CASE LegacyOwnerDies
    BY <1>25 DEF LegacyOwnerDies
  <1> QED
    BY <1>0, <1>1, <1>2, <1>3, <1>4, <1>5, <1>6, <1>7, <1>8, <1>9, <1>10, <1>11, <1>12, <1>13,
        <1>14, <1>15, <1>16, <1>17, <1>18, <1>19, <1>20, <1>21, <1>22, <1>23, <1>24, <1>25 DEF Next, Acquisition, Releasing

THEOREM IInvariance == Spec => []IInv
  BY IInvInit, IInvStep, PTL DEF Spec

-----------------------------------------------------------------------------
(* Type correctness.                                                       *)
THEOREM TypeCorrect == Spec => []TypeOK
  <1>1. IInv => TypeOK
    BY DEF IInv
  <1> QED
    BY <1>1, IInvariance, PTL

(* At most one process holds the lock: holders are custodians.             *)
THEOREM Exclusion == Spec => []MutualExclusion
  <1>1. IInv => MutualExclusion
    BY DEF IInv, AtMostOneCustodian, MutualExclusion, custodian, Custody
  <1> QED
    BY <1>1, IInvariance, PTL

(* A held lock stays whole until its holder gives it up.                   *)
THEOREM HolderKeepsLock == Spec => []HolderIntact
  <1>1. IInv => HolderIntact
    BY DEF IInv, CustodyIntact, HolderIntact, custodian, Custody, Whole
  <1> QED
    BY <1>1, IInvariance, PTL

(* Only a death or a failed call of the cleanup leaves an unattended lock  *)
(* directory, and one left while held stays reclaimable.                   *)
THEOREM NoLeak == Spec => []LeakOnlyByFault
  <1>1. IInv => LeakOnlyByFault
    BY DEF IInv
  <1> QED
    BY <1>1, IInvariance, PTL

-----------------------------------------------------------------------------
(* The set that Mutex calls holders.                                       *)
Holding == {p \in Proc : pc[p] = "holding"}

(* A step of one process that neither enters nor leaves "holding" leaves   *)
(* the set of holders alone.                                               *)
LEMMA SameHolders ==
  ASSUME TypeOK, NEW p \in Proc, NEW from \in Labels \ {"holding"},
         NEW to \in Labels \ {"holding"}, go(p, from, to)
  PROVE  Holding' = Holding
  BY DEF TypeOK, go, Holding

(* Only the end of create adds a holder, to none.                          *)
LEMMA AcquisitionStep ==
  ASSUME IInv, NEW p \in Proc, Acquisition(p)
  PROVE  Holding' = Holding \/ M!Acquire(p)
  <1> USE DEF IInv
  <1>1. CASE WriteOwner(p)
    <2>1. CASE go(p, "write", "holding")
      <3>1. Holding = {}
        BY <2>1 DEF go, Holding, CustodyIntact, AtMostOneCustodian, custodian, Custody, TypeOK
      <3>2. Holding' = {p}
        BY <2>1, <3>1 DEF go, Holding, TypeOK
      <3> QED
        BY <3>1, <3>2 DEF Holding, M!Acquire, M!Free
    <2>2. CASE go(p, "write", "failRm")
      BY <2>2, SameHolders DEF Labels
    <2> QED
      BY <1>1, <2>1, <2>2 DEF WriteOwner
  <1>2. CASE ~ WriteOwner(p)
    <2>1. \E from \in Labels \ {"holding"}, to \in Labels \ {"holding"} : go(p, from, to)
      BY <1>2 DEF Acquisition, refuse, makeDir, Labels,
         LegacyStat, LegacyOwner, LegacyHook, LegacyRm, Mkdir, Recreate, OpenOwner, FailRm,
         FailRmdir, removeDir, fails, Readdir, ReadOwner, Probe, Hook, RmOwner, Rmdir
    <2> QED
      BY <2>1, SameHolders
  <1> QED
    BY <1>1, <1>2

(* Every step of the protocol is a step of the abstract lock or none.      *)
LEMMA MutexStep == IInv /\ [Next]_vars => [M!Next]_Holding
  <1> SUFFICES ASSUME IInv, [Next]_vars PROVE [M!Next]_Holding
    OBVIOUS
  <1>0. CASE UNCHANGED vars \/ LegacyOwnerDies
    BY <1>0 DEF vars, LegacyOwnerDies, Holding
  <1>1. ASSUME NEW p \in Proc, Acquisition(p) PROVE [M!Next]_Holding
    BY <1>1, AcquisitionStep DEF M!Next, Holding
  <1>2. ASSUME NEW p \in Proc, Enter(p) \/ Return(p) \/ Restart(p) \/ Releasing(p)
        PROVE  [M!Next]_Holding
    <2>1. \E from \in Labels \ {"holding"}, to \in Labels \ {"holding"} : go(p, from, to)
      BY <1>2 DEF Enter, Return, Restart, Releasing, RelSnapshot, RelRm, RelRmdir, removeDir,
         fails, Labels
    <2> QED
      BY <2>1, SameHolders DEF IInv
  <1>3. ASSUME NEW p \in Proc, Release(p) \/ Crash(p) PROVE [M!Next]_Holding
    <2>1. CASE pc[p] = "holding"
      <3>1. Holding = {p}
        BY <2>1 DEF Holding, IInv, AtMostOneCustodian, custodian, Custody
      <3>2. Holding' = {}
        BY <1>3, <3>1 DEF Holding, Release, Crash, go, IInv, TypeOK
      <3> QED
        BY <3>1, <3>2 DEF Holding, M!Next, M!Leave
    <2>2. CASE pc[p] # "holding"
      <3>1. Holding' = Holding
        BY <1>3, <2>2 DEF Holding, Release, Crash, go, IInv, TypeOK
      <3> QED
        BY <3>1
    <2> QED
      BY <2>1, <2>2
  <1> QED
    BY <1>0, <1>1, <1>2, <1>3 DEF Next

(* The lock protocol implements the mutual exclusion its callers rely on.  *)
THEOREM LockImplementsMutex == Spec => ImplementsMutex
  <1>1. Init => M!Init
    BY DEF Init, M!Init, M!Free
  <1> QED
    BY <1>1, MutexStep, IInvariance, PTL DEF Spec, ImplementsMutex, M!Spec, Holding
=============================================================================
