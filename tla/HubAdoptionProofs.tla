------------------------- MODULE HubAdoptionProofs -------------------------
(***************************************************************************)
(* The adoption transaction of HubAdoption and its recovery are correct    *)
(* for every set of processes, plans, contract files and paths.            *)
(***************************************************************************)
EXTENDS HubAdoption, TLAPS

Command == [plan : Plan, baseline : [Path -> Content]]

Labels == {"idle", "recover", "restore", "dropStaged", "dropSaved", "clearJournal", "check",
           "copy", "prepare", "cleanup", "remove", "rename", "mark", "verify", "commit"}
          \cup Leaving

(* The places of a command that applies a plan, once it has recovered, and *)
(* of one that cleans up after a recovery.                                 *)
Preparing == {"check", "copy", "prepare"}
Swapping == {"remove", "rename", "mark", "verify", "commit"}
Dropping == {"dropStaged", "dropSaved", "clearJournal"}

CommandTypes == /\ command \in [Proc -> Command \cup {Absent}]
                /\ done \in [Proc -> SUBSET Path]
                /\ target \in [Proc -> Path \cup {Absent}]
                /\ pc \in [Proc -> Labels]

(* The mutation lock: one command at a time runs.                          *)
OneRuns == /\ mutex = {p \in Proc : pc[p] # "idle"}
           /\ \A p, q \in Proc : pc[p] # "idle" /\ pc[q] # "idle" => p = q

FileTypes == /\ journal \in Journal \cup {Absent}
             /\ live \in [Path -> Content]
             /\ staged \in [Path -> Content]
             /\ saved \in [Path -> Content]

(* The journal leads from one Hub that agrees to another; what it does not *)
(* name is as it was.                                                      *)
JournalLeads ==
  journal # Absent =>
    /\ A!Agree(journal.old) /\ A!Agree(journal.new)
    /\ journal.new = A!With(journal.plan, journal.old)
    /\ \A x \in OwnPaths[journal.plan] : journal.old[x] = Absent
    /\ \A x \in Path \ Entries(journal.plan) : live[x] = journal.old[x]

Restored == \A x \in Entries(journal.plan) : live[x] = journal.old[x]

(* An incomplete adoption can be rolled back, or has been.                 *)
Recoverable == Incomplete => backupsIntact \/ Restored

CommittedLanded == journal # Absent /\ ~ Incomplete => landed

FilesOK == /\ FileTypes
           /\ NoJournalAgree
           /\ JournalLeads
           /\ Recoverable
           /\ CommittedLanded

(* What each place of the running command knows.                           *)
KnownToApply(p) ==
  /\ pc[p] \in Preparing \cup Swapping => command[p] \in Command
  /\ pc[p] \in Preparing => journal = Absent
  /\ pc[p] \in {"copy", "prepare"} =>
       /\ \A x \in OwnPaths[command[p].plan] : live[x] = Absent
       /\ A!Agree(A!With(command[p].plan, live))
       /\ \A x \in Entries(command[p].plan) \cap done[p] : saved[x] = live[x]
  /\ pc[p] = "prepare" => Entries(command[p].plan) \subseteq done[p]
  /\ pc[p] \in Swapping => Incomplete /\ backupsIntact /\ journal.plan = command[p].plan
  /\ pc[p] \in {"rename", "mark"} => target[p] \in Entries(journal.plan)
  /\ pc[p] = "commit" => landed

KnownToRecover(p) ==
  /\ pc[p] = "restore" =>
       /\ Incomplete /\ backupsIntact
       /\ \A x \in Entries(journal.plan) \cap done[p] : live[x] = journal.old[x]
  /\ pc[p] \in Dropping \cup {"recoveryRequired"} => journal # Absent /\ (Incomplete => Restored)
  /\ pc[p] = "cleanup" => journal = Absent \/ (Incomplete /\ Restored)

Known(p) == KnownToApply(p) /\ KnownToRecover(p)

IInv == /\ CommandTypes
        /\ OneRuns
        /\ FilesOK
        /\ \A p \in Proc : Known(p)

-----------------------------------------------------------------------------
(* What a plan touches are paths of the Hub.                               *)
LEMMA EntriesArePaths ==
  ASSUME NEW a \in Plan
  PROVE  Entries(a) \subseteq Path /\ OwnPaths[a] \subseteq Entries(a)
  BY DEF Entries, Path

(* Absent and torn paths, and a Hub without any, are contents.             *)
LEMMA Contents ==
  /\ Absent \in Content /\ Torn \in Content
  /\ Nothing \in [Path -> Content]
  /\ [Path -> {Absent, {}}] \subseteq [Path -> Content]
  <1>1. Absent \in Content /\ Torn \in Content /\ {} \in Content
    <2>1. {} \in SUBSET Plan
      OBVIOUS
    <2> QED
      BY <2>1 DEF Content
  <1> QED
    BY <1>1 DEF Nothing

(* A path written in part leaves the others alone.                         *)
LEMMA InPart ==
  ASSUME NEW f \in [Path -> Content], NEW x \in Path, NEW g \in inPart(f, x)
  PROVE  g \in [Path -> Content] /\ \A y \in Path : y # x => g[y] = f[y]
  BY Contents DEF inPart

(* What a journal holds.                                                   *)
LEMMA JournalFields ==
  ASSUME NEW j \in Journal
  PROVE  /\ j # Absent /\ j.plan \in Plan
         /\ j.old \in [Path -> Content] /\ j.new \in [Path -> Content]
  BY JournalAssumption DEF Journal

(* The Hub with a plan added is a Hub again.                               *)
LEMMA WithType ==
  ASSUME NEW a \in Plan, NEW h \in [Path -> Content], A!Agree(h)
  PROVE  A!With(a, h) \in [Path -> Content]
  <1>1. ASSUME NEW x \in Path, x \in Contract
        PROVE  h[x] = Absent \/ h[x] \in SUBSET Plan
    BY <1>1 DEF A!Agree
  <1>2. ASSUME NEW x \in Path PROVE A!With(a, h)[x] \in Content
    BY <1>1 DEF A!With, A!plansIn, Content
  <1> QED
    BY <1>2 DEF A!With

(* A plan whose own paths are free leads from a Hub that agrees to one     *)
(* that agrees.                                                            *)
LEMMA WithAgrees ==
  ASSUME NEW a \in Plan, NEW h \in [Path -> Content], A!Agree(h),
         \A x \in OwnPaths[a] : h[x] = Absent,
         a \in Derivative => \A x \in Contract : h[x] # Absent
  PROVE  A!Agree(A!With(a, h))
  <1>1. PICK s \in SUBSET Plan :
          /\ \/ \A c \in Contract : h[c] = s \ Derivative
             \/ s = {} /\ \A c \in Contract : h[c] = Absent
          /\ \A b \in Plan : \A x \in OwnPaths[b] : h[x] = IF b \in s THEN {b} ELSE Absent
    BY DEF A!Agree
  <1>2. s \cup {a} \in SUBSET Plan
    OBVIOUS
  <1>3. ASSUME NEW c \in Contract PROVE A!With(a, h)[c] = (s \cup {a}) \ Derivative
    <2>1. c \in Path /\ c \notin OwnPaths[a]
      BY PathAssumption DEF Path
    <2>2. CASE a \in Derivative
      <3>1. h[c] = s \ Derivative
        BY <1>1, <2>2
      <3> QED
        BY <2>1, <2>2, <3>1 DEF A!With
    <2>3. CASE a \notin Derivative
      <3>1. A!plansIn(h[c]) = s \ Derivative
        <4>1. s \ Derivative \in SUBSET Plan
          OBVIOUS
        <4> QED
          BY <1>1, <4>1, ContentAssumption DEF A!plansIn
      <3> QED
        BY <2>1, <2>3, <3>1 DEF A!With
    <2> QED
      BY <2>2, <2>3
  <1>4. ASSUME NEW b \in Plan, NEW x \in OwnPaths[b]
        PROVE  A!With(a, h)[x] = IF b \in s \cup {a} THEN {b} ELSE Absent
    <2>1. x \in Path /\ x \notin Contract /\ (b # a => x \notin OwnPaths[a])
      BY PathAssumption DEF Path
    <2> QED
      BY <1>1, <2>1 DEF A!With
  <1> QED
    BY <1>2, <1>3, <1>4 DEF A!Agree

(* A change of the journal's state changes nothing else.                   *)
LEMMA Marking ==
  ASSUME NEW j \in Journal, NEW st \in {"PREPARED", "SWAPPING", "COMMITTED"}
  PROVE  LET k == [j EXCEPT !.state = st]
         IN  k \in Journal /\ k.state = st /\ k.plan = j.plan /\ k.old = j.old /\ k.new = j.new
  BY DEF Journal

(* Initially the Hub agrees and no command runs.                           *)
LEMMA IInvInit == Init => IInv
  <1> SUFFICES ASSUME Init PROVE IInv
    OBVIOUS
  <1> USE DEF Init
  <1>1. CommandTypes
    BY DEF CommandTypes, Labels
  <1>2. OneRuns
    BY DEF OneRuns
  <1>3. FileTypes
    BY Contents DEF FileTypes
  <1>4. FilesOK
    BY <1>3 DEF FilesOK, NoJournalAgree, JournalLeads, Recoverable, CommittedLanded, Incomplete
  <1>5. ASSUME NEW p \in Proc PROVE Known(p)
    BY DEF Known, KnownToApply, KnownToRecover, Preparing, Swapping, Dropping
  <1> QED
    BY <1>1, <1>2, <1>4, <1>5 DEF IInv

(* A step of the running command p need only be checked for the files and  *)
(* for what p then knows: the others are idle.                             *)
LEMMA RunningStep ==
  ASSUME IInv, NEW p \in Proc, pc[p] # "idle", NEW to \in Labels \ {"idle"},
         pc' = [pc EXCEPT ![p] = to], UNCHANGED mutex, CommandTypes', FilesOK', Known(p)'
  PROVE  IInv'
  <1>1. /\ pc'[p] # "idle"
        /\ \A q \in Proc \ {p} : pc'[q] = pc[q] /\ pc[q] = "idle"
    BY DEF IInv, CommandTypes, OneRuns
  <1>2. OneRuns'
    BY <1>1 DEF IInv, OneRuns
  <1>3. ASSUME NEW q \in Proc \ {p} PROVE Known(q)'
    BY <1>1 DEF Known, KnownToApply, KnownToRecover, Preparing, Swapping, Dropping
  <1> QED
    BY <1>2, <1>3 DEF IInv

(* Every step of a running command leaves the files in order, and the      *)
(* command knows what its next place takes for granted.                    *)
LEMMA IInvRunning ==
  ASSUME IInv, NEW p \in Proc, Recovery(p) \/ Swap(p) \/ Cleanup(p) \/ Fail(p)
  PROVE  /\ CommandTypes' /\ FilesOK' /\ Known(p)' /\ UNCHANGED mutex
         /\ pc[p] # "idle" /\ \E to \in Labels \ {"idle"} : pc' = [pc EXCEPT ![p] = to]
  <1> USE DEF IInv, CommandTypes, OneRuns, FilesOK, FileTypes, NoJournalAgree, JournalLeads,
          Recoverable, CommittedLanded, Known, KnownToApply, KnownToRecover, Incomplete,
          Preparing, Swapping, Dropping, Labels, Leaving, go, start, finish, local, Restored,
          backupsIntact, landed
  <1>1. CASE Recover(p)
    <2> USE <1>1 DEF Recover, afterRecovery, hub
    <2>1. FileTypes' /\ FilesOK'
      OBVIOUS
    <2>2. CommandTypes'
      OBVIOUS
    <2>3. KnownToApply(p)'
      BY <2>1, <2>2
    <2>4. KnownToRecover(p)'
      BY <2>1, <2>2
    <2> QED
      BY <2>1, <2>2, <2>3, <2>4
  <1>2. CASE Restore(p)
    <2>1. /\ journal \in Journal /\ journal.plan \in Plan /\ journal.old \in [Path -> Content]
          /\ Incomplete /\ backupsIntact /\ journal' = journal /\ Incomplete' /\ backupsIntact'
          /\ UNCHANGED <<journal, staged, saved, mutex, command, target>>
          /\ pc[p] = "restore" /\ Entries(journal.plan) \subseteq Path
      BY <1>2, JournalFields, EntriesArePaths DEF Restore
    <2>2. ASSUME NEW x \in Entries(journal.plan) \ done[p], UNCHANGED pc,
                 \/ live' \in inPart(live, x) /\ UNCHANGED done
                 \/ live' = [live EXCEPT ![x] = journal.old[x]] /\ finish(p, x)
          PROVE  /\ CommandTypes' /\ FilesOK' /\ Known(p)'
                 /\ pc' = [pc EXCEPT ![p] = "restore"]
      <3>1. /\ x \in Path /\ live' \in [Path -> Content]
            /\ \A y \in Path : y # x => live'[y] = live[y]
            /\ done' \in [Proc -> SUBSET Path]
            /\ \A y \in done'[p] : y \in done[p] \/ (y = x /\ live'[y] = journal.old[y])
        BY <2>1, <2>2, InPart
      <3>2. pc' = [pc EXCEPT ![p] = "restore"]
        BY <2>1, <2>2
      <3>3. CommandTypes' /\ FilesOK'
        BY <2>1, <2>2, <3>1
      <3>4. Known(p)'
        BY <2>1, <2>2, <3>1
      <3> QED
        BY <3>2, <3>3, <3>4
    <2>3. ASSUME Entries(journal.plan) \subseteq done[p], start(p), UNCHANGED live,
                 go(p, "restore", "dropStaged")
          PROVE  CommandTypes' /\ FilesOK' /\ Known(p)' /\ pc' = [pc EXCEPT ![p] = "dropStaged"]
      BY <2>1, <2>3
    <2> QED
      BY <1>2, <2>1, <2>2, <2>3 DEF Restore
  <1>3. CASE DropStaged(p)
    <2> USE <1>3 DEF DropStaged
    <2>1. CommandTypes' /\ FileTypes'
      BY EntriesArePaths, Contents, InPart, JournalFields, Marking
    <2>2. FilesOK'
      BY <2>1
    <2>3. KnownToApply(p)'
      BY <2>1
    <2>4. KnownToRecover(p)'
      BY <2>1
    <2> QED
      BY <2>1, <2>2, <2>3, <2>4
  <1>4. CASE DropSaved(p)
    <2> USE <1>4 DEF DropSaved
    <2>1. CommandTypes' /\ FileTypes'
      <3>1. saved' \in [Path -> Content]
        BY Contents, InPart
      <3> QED
        BY <3>1
    <2>2. FilesOK'
      BY <2>1
    <2>3. KnownToApply(p)'
      BY <2>1
    <2>4. KnownToRecover(p)'
      BY <2>1
    <2> QED
      BY <2>1, <2>2, <2>3, <2>4
  <1>5. CASE ClearJournal(p)
    <2> USE <1>5 DEF ClearJournal, afterRecovery
    <2>1. CommandTypes' /\ FileTypes'
      OBVIOUS
    <2>2. A!Agree(live)
      <3>1. journal \in Journal /\ journal # Absent
        OBVIOUS
      <3>2. CASE Incomplete
        <4>1. live = journal.old
          BY <3>1, <3>2, JournalFields
        <4> QED
          BY <3>1, <4>1
      <3>3. CASE ~ Incomplete
        <4>1. live = journal.new
          <5>1. ASSUME NEW x \in Path \ Entries(journal.plan)
                PROVE  journal.new[x] = journal.old[x]
            BY <3>1, <5>1 DEF A!With, Entries
          <5> QED
            BY <3>1, <3>3, <5>1, JournalFields
        <4> QED
          BY <3>1, <4>1
      <3> QED
        BY <3>2, <3>3
    <2>3. FilesOK'
      BY <2>1, <2>2
    <2>4. KnownToApply(p)'
      BY <2>1
    <2>5. KnownToRecover(p)'
      BY <2>1
    <2> QED
      BY <2>1, <2>3, <2>4, <2>5
  <1>6. CASE Check(p)
    <2> USE <1>6 DEF Check
    <2>1. CommandTypes' /\ FileTypes'
      BY Contents
    <2>2. FilesOK'
      BY <2>1
    <2>3. KnownToApply(p)'
      <3>1. command[p] \in Command /\ command[p].plan \in Plan
        BY DEF Command
      <3>2. ASSUME pc'[p] = "copy"
            PROVE  /\ \A x \in OwnPaths[command[p].plan] : live[x] = Absent
                   /\ A!Agree(A!With(command[p].plan, live))
        <4>1. /\ adoptable(command[p])
              /\ command[p].plan \in Derivative => derivable(command[p])
          BY <3>2 DEF derivable
        <4> QED
          BY <3>1, <4>1, WithAgrees DEF adoptable, derivable
      <3> QED
        BY <2>1, <3>1, <3>2
    <2>4. KnownToRecover(p)'
      BY <2>1
    <2> QED
      BY <2>1, <2>2, <2>3, <2>4
  <1>7. CASE Copy(p)
    <2> DEFINE new == A!With(command[p].plan, live)
               entries == Entries(command[p].plan)
    <2>1. /\ command[p] \in Command /\ command[p].plan \in Plan /\ entries \subseteq Path
          /\ new \in [Path -> Content] /\ journal = Absent
          /\ UNCHANGED <<journal, live, mutex, command, target>>
          /\ pc[p] = "copy"
      BY <1>7, EntriesArePaths, WithType DEF Copy, Command
    <2>2. ASSUME NEW x \in entries \ done[p], UNCHANGED pc,
                 staged' = [staged EXCEPT ![x] = new[x]],
                 \/ live[x] # Absent /\ saved' \in inPart(saved, x) /\ UNCHANGED done
                 \/ saved' = [saved EXCEPT ![x] = live[x]] /\ finish(p, x)
          PROVE  CommandTypes' /\ FilesOK' /\ Known(p)' /\ pc' = [pc EXCEPT ![p] = "copy"]
      <3>1. /\ x \in Path /\ saved' \in [Path -> Content] /\ staged' \in [Path -> Content]
            /\ \A y \in Path : y # x => saved'[y] = saved[y]
            /\ done' \in [Proc -> SUBSET Path]
            /\ \A y \in done'[p] : y \in done[p] \/ (y = x /\ saved'[y] = live[y])
        <4> HIDE DEF new
        <4> QED
          BY <2>1, <2>2, InPart
      <3>2. pc' = [pc EXCEPT ![p] = "copy"]
        BY <2>1, <2>2
      <3>3. CommandTypes' /\ FilesOK'
        BY <2>1, <2>2, <3>1
      <3>4. Known(p)'
        BY <2>1, <2>2, <3>1
      <3> QED
        BY <3>2, <3>3, <3>4
    <2>3. ASSUME entries \subseteq done[p], go(p, "copy", "prepare"),
                 UNCHANGED <<staged, saved, done>>
          PROVE  CommandTypes' /\ FilesOK' /\ Known(p)' /\ pc' = [pc EXCEPT ![p] = "prepare"]
      BY <2>1, <2>3
    <2> QED
      BY <1>7, <2>1, <2>2, <2>3 DEF Copy
  <1>8. CASE Prepare(p)
    <2> USE <1>8 DEF Prepare
    <2>1. /\ command[p] \in Command /\ command[p].plan \in Plan
          /\ A!With(command[p].plan, live) \in [Path -> Content]
      BY WithType DEF Command
    <2>2. /\ journal' \in Journal /\ journal' # Absent
          /\ journal'.plan = command[p].plan /\ journal'.old = live
          /\ journal'.new = A!With(command[p].plan, live) /\ journal'.state = "PREPARED"
      BY <2>1, JournalAssumption DEF Journal
    <2>3. CommandTypes' /\ FileTypes'
      BY <2>2
    <2>4. FilesOK' /\ Restored' /\ backupsIntact'
      BY <2>1, <2>2, <2>3
    <2>5. KnownToApply(p)'
      BY <2>1, <2>2, <2>3, <2>4
    <2>6. KnownToRecover(p)'
      BY <2>1, <2>2, <2>3, <2>4
    <2> QED
      BY <2>3, <2>4, <2>5, <2>6
  <1>9. CASE Remove(p)
    <2>1. PICK x \in Entries(command[p].plan) \ done[p] :
            /\ \/ live[x] # Absent /\ live' \in inPart(live, x) /\ UNCHANGED pc
               \/ live' = [live EXCEPT ![x] = Absent] /\ go(p, "remove", "rename")
            /\ target' = [target EXCEPT ![p] = x]
      BY <1>9 DEF Remove
    <2>2. /\ journal \in Journal /\ journal.plan \in Plan /\ journal.plan = command[p].plan
          /\ Incomplete /\ backupsIntact /\ Incomplete' /\ backupsIntact'
          /\ UNCHANGED <<journal, staged, saved, mutex, command, done>>
          /\ pc[p] = "remove" /\ x \in Path /\ x \in Entries(journal.plan)
      BY <1>9, <2>1, JournalFields, EntriesArePaths DEF Remove
    <2>3. live' \in [Path -> Content] /\ \A y \in Path : y # x => live'[y] = live[y]
      BY <2>1, <2>2, InPart, Contents
    <2>4. CommandTypes' /\ FilesOK'
      BY <2>1, <2>2, <2>3
    <2>5. Known(p)'
      BY <2>1, <2>2, <2>3
    <2>6. pc' = [pc EXCEPT ![p] = "remove"] \/ pc' = [pc EXCEPT ![p] = "rename"]
      BY <2>1, <2>2
    <2> QED
      BY <2>2, <2>4, <2>5, <2>6
  <1>10. CASE Rename(p)
    <2> USE <1>10 DEF Rename
    <2>1. CommandTypes' /\ FileTypes'
      BY EntriesArePaths, Contents, InPart, JournalFields, Marking
    <2>2. FilesOK'
      BY <2>1
    <2>3. KnownToApply(p)'
      BY <2>1
    <2>4. KnownToRecover(p)'
      BY <2>1
    <2> QED
      BY <2>1, <2>2, <2>3, <2>4
  <1>11. CASE Mark(p)
    <2> USE <1>11 DEF Mark
    <2>1. /\ journal \in Journal /\ Incomplete /\ backupsIntact
          /\ journal.plan = command[p].plan /\ target[p] \in Path
      BY JournalFields, EntriesArePaths
    <2>2. /\ journal' \in Journal /\ journal' # Absent /\ journal'.state = "SWAPPING"
          /\ journal'.plan = journal.plan /\ journal'.old = journal.old
          /\ journal'.new = journal.new
      BY <2>1, Marking, JournalFields
    <2>3. CommandTypes' /\ FileTypes'
      BY <2>1, <2>2
    <2>4. FilesOK' /\ Incomplete' /\ backupsIntact'
      BY <2>1, <2>2, <2>3
    <2>5. KnownToApply(p)'
      BY <2>1, <2>2, <2>3, <2>4
    <2>6. KnownToRecover(p)'
      BY <2>1, <2>2, <2>3, <2>4
    <2> QED
      BY <2>3, <2>4, <2>5, <2>6
  <1>12. CASE Verify(p)
    <2> USE <1>12 DEF Verify, hub
    <2>1. CommandTypes' /\ FileTypes'
      BY EntriesArePaths, Contents, InPart, JournalFields, Marking
    <2>2. FilesOK'
      BY <2>1
    <2>3. KnownToApply(p)'
      BY <2>1
    <2>4. KnownToRecover(p)'
      BY <2>1
    <2> QED
      BY <2>1, <2>2, <2>3, <2>4
  <1>13. CASE Commit(p)
    <2> USE <1>13 DEF Commit
    <2>1. journal \in Journal /\ journal # Absent /\ landed
      OBVIOUS
    <2>2. /\ journal' \in Journal /\ journal' # Absent /\ journal'.state = "COMMITTED"
          /\ journal'.plan = journal.plan /\ journal'.old = journal.old
          /\ journal'.new = journal.new
      BY <2>1, Marking, JournalFields
    <2>3. CommandTypes' /\ FileTypes'
      BY <2>2
    <2>4. FilesOK'
      BY <2>1, <2>2, <2>3
    <2>5. KnownToApply(p)'
      BY <2>2, <2>3
    <2>6. KnownToRecover(p)'
      BY <2>2, <2>3
    <2> QED
      BY <2>3, <2>4, <2>5, <2>6
  <1>14. CASE Cleanup(p)
    <2> USE <1>14 DEF Cleanup
    <2>1. CommandTypes' /\ FileTypes'
      <3>1. saved' \in [Path -> Content] /\ staged' \in [Path -> Content]
        BY Contents, InPart
      <3> QED
        BY <3>1
    <2>2. FilesOK'
      BY <2>1
    <2>3. KnownToApply(p)'
      BY <2>1
    <2>4. KnownToRecover(p)'
      BY <2>1
    <2> QED
      BY <2>1, <2>2, <2>3, <2>4
  <1>15. CASE Fail(p)
    <2> USE <1>15 DEF Fail, beforeJournal, hub
    <2>1. CommandTypes' /\ FileTypes'
      BY EntriesArePaths, Contents, InPart, JournalFields, Marking
    <2>2. FilesOK'
      BY <2>1
    <2>3. KnownToApply(p)'
      BY <2>1
    <2>4. KnownToRecover(p)'
      BY <2>1
    <2> QED
      BY <2>1, <2>2, <2>3, <2>4
  <1> QED
    BY <1>1, <1>2, <1>3, <1>4, <1>5, <1>6, <1>7, <1>8, <1>9, <1>10, <1>11, <1>12, <1>13, <1>14, <1>15 DEF Recovery, Swap

(* A command that starts knows nothing and touches no file.                *)
LEMMA IInvStart ==
  ASSUME IInv, NEW p \in Proc, ApplyAdoptionPlan(p) \/ RecoverIfNeeded(p)
  PROVE  IInv'
  <1> USE DEF ApplyAdoptionPlan, RecoverIfNeeded, M!Acquire, M!Free, go, hub
  <1>1. \A q \in Proc : pc[q] = "idle"
    BY DEF IInv, OneRuns
  <1>2. CommandTypes'
    <2>1. Nothing \in [Path -> Content] /\ live \in [Path -> Content]
      BY Contents DEF IInv, FilesOK, FileTypes
    <2> QED
      BY <2>1 DEF IInv, CommandTypes, Command, Labels
  <1>3. OneRuns'
    BY <1>1 DEF IInv, OneRuns, CommandTypes
  <1>4. FilesOK'
    BY DEF IInv, FilesOK, FileTypes, NoJournalAgree, JournalLeads, Recoverable,
       CommittedLanded, Incomplete, backupsIntact, Restored, landed
  <1>5. ASSUME NEW q \in Proc PROVE Known(q)'
    BY <1>1 DEF IInv, CommandTypes, Known, KnownToApply, KnownToRecover, Preparing, Swapping,
       Dropping
  <1> QED
    BY <1>2, <1>3, <1>4, <1>5 DEF IInv

(* A command that ends, in whatever way, leaves the files as they are.     *)
LEMMA IInvEnd ==
  ASSUME IInv, NEW p \in Proc, Leave(p) \/ Crash(p)
  PROVE  IInv'
  <1> USE DEF Leave, Crash, ends, M!Leave, Leaving, hub
  <1>1. \A q \in Proc : pc'[q] = "idle"
    BY DEF IInv, OneRuns, CommandTypes
  <1>2. CommandTypes'
    BY DEF IInv, CommandTypes, Labels
  <1>3. OneRuns'
    BY <1>1 DEF OneRuns
  <1>4. FilesOK'
    BY DEF IInv, FilesOK, FileTypes, NoJournalAgree, JournalLeads, Recoverable,
       CommittedLanded, Incomplete, backupsIntact, Restored, landed
  <1>5. ASSUME NEW q \in Proc PROVE Known(q)'
    BY <1>1 DEF Known, KnownToApply, KnownToRecover, Preparing, Swapping, Dropping
  <1> QED
    BY <1>2, <1>3, <1>4, <1>5 DEF IInv

(* Every step keeps the invariant.                                         *)
LEMMA IInvStep == IInv /\ [Next]_vars => IInv'
  <1> SUFFICES ASSUME IInv, [Next]_vars PROVE IInv'
    OBVIOUS
  <1>1. CASE UNCHANGED vars
    BY <1>1 DEF vars, hub, IInv, CommandTypes, OneRuns, FilesOK, FileTypes, NoJournalAgree,
       JournalLeads, Recoverable, CommittedLanded, Incomplete, backupsIntact, Restored,
       landed, Known, KnownToApply, KnownToRecover
  <1>2. ASSUME NEW p \in Proc, Recovery(p) \/ Swap(p) \/ Cleanup(p) \/ Fail(p)
        PROVE  IInv'
    BY <1>2, IInvRunning, RunningStep
  <1> QED
    BY <1>1, <1>2, IInvStart, IInvEnd DEF Next

(* The inductive invariant of the transaction: its files, the journal and  *)
(* what a running command knows fit together in every reachable state.     *)
THEOREM IInvariance == Spec => []IInv
  BY IInvInit, IInvStep, PTL DEF Spec

(* Between adoptions, whatever was interrupted before, the contract files  *)
(* agree with each other and with the trees of the Hub.                    *)
THEOREM QuietHubAgrees == Spec => []NoJournalAgree
  <1>1. IInv => NoJournalAgree
    BY DEF IInv, FilesOK
  <1> QED
    BY <1>1, IInvariance, PTL

(* No crash, failure or interrupted recovery loses the old content of a    *)
(* path while its adoption has not committed.                              *)
THEOREM NothingAdoptedIsLost == Spec => []OldSurvives
  <1>1. IInv => OldSurvives
    BY DEF IInv, FilesOK, Recoverable, Restored, backupsIntact, OldSurvives
  <1> QED
    BY <1>1, IInvariance, PTL

(* The Hub as its contract counts it is the live one, once restored, and   *)
(* the journal's old one, as long as the adoption has not committed.       *)
LEMMA AdoptedHub ==
  IInv => /\ adopted = IF Incomplete THEN journal.old ELSE live
          /\ Incomplete /\ Restored => adopted = live
  <1> SUFFICES ASSUME IInv
               PROVE  /\ adopted = IF Incomplete THEN journal.old ELSE live
                      /\ Incomplete /\ Restored => adopted = live
    OBVIOUS
  <1>1. Incomplete => journal \in Journal /\ journal # Absent
    BY DEF Incomplete, IInv, FilesOK, FileTypes
  <1>2. live \in [Path -> Content]
    BY DEF IInv, FilesOK, FileTypes
  <1>3. ASSUME Incomplete PROVE adopted = journal.old
    <2>1. journal.old \in [Path -> Content]
      BY <1>1, <1>3, JournalFields
    <2>2. \A x \in Path \ Entries(journal.plan) : live[x] = journal.old[x]
      BY <1>1, <1>3 DEF IInv, FilesOK, JournalLeads
    <2> QED
      BY <1>3, <2>1, <2>2 DEF adopted
  <1>4. Incomplete /\ Restored => adopted = live
    BY <1>2 DEF adopted, Restored
  <1> QED
    BY <1>3, <1>4 DEF adopted

(* A recovery that refuses has nothing left to restore: the Hub is the one *)
(* its contract counts.                                                    *)
THEOREM RefusalIsHarmless == Spec => []RefusesOnlyRestored
  <1>1. IInv => RefusesOnlyRestored
    <2> SUFFICES ASSUME IInv, NEW p \in Proc, pc[p] = "recoveryRequired"
                 PROVE  adopted = live
      BY DEF RefusesOnlyRestored
    <2>1. Incomplete => Restored
      BY DEF IInv, Known, KnownToRecover
    <2> QED
      BY <2>1, AdoptedHub
  <1> QED
    BY <1>1, IInvariance, PTL

-----------------------------------------------------------------------------
(* The commit is the adoption of the abstract Hub.                         *)
LEMMA CommitStep ==
  ASSUME IInv, NEW p \in Proc, Commit(p)
  PROVE  Abstract!Next
  <1>1. /\ Incomplete /\ landed /\ journal \in Journal /\ journal # Absent
        /\ A!Agree(journal.old) /\ journal.new = A!With(journal.plan, journal.old)
        /\ \A x \in OwnPaths[journal.plan] : journal.old[x] = Absent
        /\ \A x \in Path \ Entries(journal.plan) : live[x] = journal.old[x]
        /\ live \in [Path -> Content]
    BY DEF Commit, go, IInv, Known, KnownToApply, Swapping, FilesOK, FileTypes, JournalLeads,
       Incomplete
  <1>2. live = journal.new
    <2>1. ASSUME NEW x \in Path \ Entries(journal.plan) PROVE journal.new[x] = journal.old[x]
      BY <1>1, <2>1 DEF A!With, Entries
    <2> QED
      BY <1>1, <2>1, JournalFields DEF landed
  <1>3. adopted = journal.old
    BY <1>1, AdoptedHub
  <1>4. adopted' = live
    <2>1. ~ Incomplete'
      BY <1>1, Marking DEF Commit, Incomplete
    <2> QED
      BY <2>1 DEF adopted, Commit
  <1>5. /\ Abstract!Agree(adopted)
        /\ Abstract!With(journal.plan, adopted) = A!With(journal.plan, adopted)
    BY <1>1, <1>3 DEF Abstract!Agree, A!Agree, Abstract!With, A!With, Abstract!plansIn,
       A!plansIn
  <1> QED
    BY <1>1, <1>2, <1>3, <1>4, <1>5, JournalFields DEF Abstract!Next, Abstract!Adopt

(* Every other step leaves the Hub that the contract counts as it was.     *)
LEMMA OtherSteps ==
  ASSUME IInv, IInv', [Next]_vars, \A p \in Proc : ~ Commit(p)
  PROVE  adopted' = adopted
  <1>1. /\ adopted = IF Incomplete THEN journal.old ELSE live
        /\ adopted' = IF Incomplete' THEN journal'.old ELSE live'
    <2>1. IInv' => (adopted = IF Incomplete THEN journal.old ELSE live)'
      BY AdoptedHub, PTL
    <2> QED
      BY <2>1, AdoptedHub
  <1>2. CASE UNCHANGED <<journal, live>>
    BY <1>2 DEF adopted, Incomplete
  <1>3. ASSUME NEW p \in Proc, Prepare(p) PROVE adopted' = adopted
    <2>1. /\ journal = Absent /\ command[p] \in Command
          /\ live \in [Path -> Content] /\ A!Agree(live)
      BY <1>3 DEF Prepare, go, IInv, Known, KnownToApply, Preparing, FilesOK, FileTypes,
         NoJournalAgree
    <2>2. A!With(command[p].plan, live) \in [Path -> Content]
      BY <2>1, WithType DEF Command
    <2>3. journal' # Absent /\ journal'.state = "PREPARED" /\ journal'.old = live
      BY <1>3, <2>1, <2>2, JournalAssumption DEF Prepare, Journal, Command
    <2> QED
      BY <1>1, <2>1, <2>3 DEF Incomplete
  <1>4. ASSUME NEW p \in Proc, Restore(p) \/ Remove(p) \/ Rename(p) PROVE adopted' = adopted
    <2>1. Incomplete /\ Incomplete' /\ journal' = journal
      BY <1>4 DEF Restore, Remove, Rename, go, IInv, Known, KnownToApply, KnownToRecover,
         Swapping, Incomplete
    <2> QED
      BY <1>1, <2>1
  <1>5. ASSUME NEW p \in Proc, Mark(p) PROVE adopted' = adopted
    <2>1. Incomplete /\ journal \in Journal
      BY <1>5 DEF Mark, go, IInv, Known, KnownToApply, Swapping, Incomplete, FilesOK,
         FileTypes
    <2>2. Incomplete' /\ journal'.old = journal.old
      BY <1>5, <2>1, Marking, JournalFields DEF Mark, Incomplete
    <2> QED
      BY <1>1, <2>1, <2>2
  <1>6. ASSUME NEW p \in Proc, ClearJournal(p) PROVE adopted' = adopted
    <2>1. live' = live /\ ~ Incomplete' /\ (Incomplete => Restored)
      BY <1>6 DEF ClearJournal, go, IInv, Known, KnownToRecover, Dropping, Incomplete
    <2> QED
      BY <1>1, <2>1, AdoptedHub
  <1> QED
    BY <1>2, <1>3, <1>4, <1>5, <1>6
       DEF Next, vars, hub, ApplyAdoptionPlan, RecoverIfNeeded, Leave, Crash, ends, Fail,
           Cleanup, Recovery, Recover, DropStaged, DropSaved, Swap, Check, Copy, Verify

(* The transaction, with the crashes, failures and recoveries it may meet, *)
(* implements the atomic adoption: on all paths at once, or on none.       *)
THEOREM AdoptionImplementsAdoptedPlans == Spec => AdoptionIsAtomic
  <1>1. Init => Abstract!Init
    <2> SUFFICES ASSUME Init PROVE Abstract!Init
      OBVIOUS
    <2>1. adopted = live
      BY DEF Init, adopted, Incomplete
    <2> QED
      BY <2>1 DEF Init, Abstract!Init, Abstract!Agree, A!Agree
  <1>2. IInv /\ IInv' /\ [Next]_vars => [Abstract!Next]_adopted
    BY CommitStep, OtherSteps
  <1> QED
    BY <1>1, <1>2, IInvariance, PTL DEF Spec, AdoptionIsAtomic, Abstract!Spec
=============================================================================
