----------------------------- MODULE ProjectProofs -----------------------------
(***************************************************************************)
(* What the skills of a project's agent rest on: the registry that they    *)
(* are read from, the configuration and the lock that deny some of them,   *)
(* and the router that recommends some.  For every set of importers,       *)
(* packages, agents, skills, rows and requests, and whatever dies, fails   *)
(* or is damaged.                                                          *)
(***************************************************************************)
EXTENDS ProjectContents, Router, FiniteSetTheorems, TLAPS

-----------------------------------------------------------------------------
(***************************************************************************)
(* What is recorded can be read, and what is denied is not served.         *)
(***************************************************************************)
Working == {"put", "rename", "commit"}

RegistryShape ==
  /\ ipc \in [Importers -> {"idle"} \cup Working]
  /\ batch \in [Importers -> Seq(Packages)]
  /\ todo \in [Importers -> SUBSET Blobs]
  /\ DOMAIN cache = Blobs
  /\ versions \subseteq Packages

Stored(b) == cache[b] = "whole" \/ b \in hurt

(* What an importer has put of its package is in the cache.                *)
Importing(i) ==
  ipc[i] \in Working =>
    /\ batch[i] # <<>>
    /\ todo[i] \subseteq blobsOf[prepared(i)]
    /\ \A b \in blobsOf[prepared(i)] \ todo[i] : Stored(b)
    /\ IF ipc[i] = "commit" THEN todo[i] = {} ELSE todo[i] # {}

RegistryInv == /\ RegistryShape
               /\ \A i \in Importers : Importing(i)
               /\ RecordedIsReadable

-----------------------------------------------------------------------------
(* The importers.                                                          *)

LEMMA PackageFields ==
  ASSUME NEW p \in Packages
  PROVE  blobsOf[p] \subseteq Blobs /\ bodyOf[p] \in blobsOf[p]
  BY PackageAssumption

LEMMA PreparedIsPackage ==
  ASSUME NEW s \in Seq(Packages), s # <<>>
  PROVE  Head(s) \in Packages /\ Tail(s) \in Seq(Packages)
  OBVIOUS

(* The move to another package starts from nothing.                        *)
LEMMA MovesOn ==
  ASSUME RegistryShape, NEW i \in Importers, NEW left \in Seq(Packages), ToPackage(i, left)
  PROVE  /\ ipc' \in [Importers -> {"idle"} \cup Working]
         /\ batch' \in [Importers -> Seq(Packages)]
         /\ todo' \in [Importers -> SUBSET Blobs]
         /\ Importing(i)'
         /\ \A j \in Importers \ {i} : ipc'[j] = ipc[j] /\ batch'[j] = batch[j] /\ todo'[j] = todo[j]
  <1>1. CASE left = <<>>
    <2>1. ipc'[i] = "idle"
      BY <1>1 DEF ToPackage, RegistryShape
    <2> QED
      BY <1>1, <2>1 DEF ToPackage, RegistryShape, Importing, Working
  <1>2. CASE left # <<>>
    <2>1. Head(left) \in Packages
      BY <1>2, PreparedIsPackage
    <2>2. blobsOf[Head(left)] \subseteq Blobs /\ blobsOf[Head(left)] # {}
      BY <2>1, PackageFields
    <2>3. ipc'[i] = "put" /\ batch'[i] = left /\ todo'[i] = blobsOf[Head(left)]
      BY <1>2 DEF ToPackage, RegistryShape
    <2>4. Importing(i)'
      BY <1>2, <2>2, <2>3 DEF Importing, prepared
    <2> QED
      BY <1>2, <2>2, <2>4 DEF ToPackage, RegistryShape, Working
  <1> QED
    BY <1>1, <1>2

(* A step of one importer that loses no blob and records nothing.          *)
LEMMA ImporterStep ==
  ASSUME RegistryInv, NEW i \in Importers, RegistryShape', UNCHANGED <<versions, tokens, fts, hurt>>,
         \A b \in Blobs : cache[b] = "whole" => cache'[b] = "whole",
         \A j \in Importers \ {i} : ipc'[j] = ipc[j] /\ batch'[j] = batch[j] /\ todo'[j] = todo[j],
         Importing(i)'
  PROVE  RegistryInv'
  <1>1. ASSUME NEW j \in Importers \ {i} PROVE Importing(j)'
    <2>1. Importing(j) /\ batch[j] \in Seq(Packages)
      BY DEF RegistryInv, RegistryShape
    <2>2. ipc[j] \in Working => blobsOf[Head(batch[j])] \subseteq Blobs
      BY <2>1, PreparedIsPackage, PackageFields DEF Importing
    <2> QED
      BY <2>1, <2>2 DEF Importing, prepared, Stored
  <1>2. RecordedIsReadable'
    BY PackageFields DEF RegistryInv, RegistryShape, RecordedIsReadable
  <1> QED
    BY <1>1, <1>2 DEF RegistryInv

(* The present blob is stored, and the importer takes the next one.        *)
LEMMA BlobStored ==
  ASSUME RegistryInv, NEW i \in Importers, ipc[i] \in {"put", "rename"}, NextBlob(i),
         UNCHANGED <<versions, tokens, fts, hurt>>,
         cache' \in {cache, [cache EXCEPT ![blob(i)] = "whole"]}, cache'[blob(i)] = "whole"
  PROVE  RegistryInv'
  <1> DEFINE p == prepared(i)
  <1>1. /\ batch[i] # <<>> /\ todo[i] \subseteq blobsOf[p] /\ todo[i] # {}
        /\ \A b \in blobsOf[p] \ todo[i] : Stored(b)
    BY DEF RegistryInv, Importing, Working
  <1>2. blob(i) \in todo[i]
    BY <1>1 DEF blob
  <1>3. p \in Packages /\ blobsOf[p] \subseteq Blobs
    BY <1>1, PreparedIsPackage, PackageFields DEF prepared, RegistryInv, RegistryShape
  <1>4. \A b \in Blobs : cache[b] = "whole" => cache'[b] = "whole"
    BY DEF RegistryInv, RegistryShape
  <1>5. /\ todo'[i] = todo[i] \ {blob(i)} /\ batch' = batch
        /\ ipc'[i] = IF todo[i] = {blob(i)} THEN "commit" ELSE "put"
    BY DEF NextBlob, RegistryInv, RegistryShape
  <1>6. \A b \in blobsOf[p] \ todo'[i] : Stored(b)'
    BY <1>1, <1>3, <1>4, <1>5 DEF Stored
  <1>7. Importing(i)'
    BY <1>1, <1>2, <1>5, <1>6 DEF Importing, prepared
  <1>8. RegistryShape'
    BY DEF NextBlob, RegistryInv, RegistryShape, Working
  <1> QED
    BY <1>4, <1>7, <1>8, ImporterStep DEF NextBlob, RegistryInv, RegistryShape

LEMMA PutStep ==
  ASSUME RegistryInv, NEW i \in Importers, putCacheBlob(i)
  PROVE  RegistryInv'
  <1>1. ipc[i] = "put" /\ UNCHANGED <<cache, versions, tokens, fts, hurt>>
    BY DEF putCacheBlob, database
  <1>2. Importing(i) /\ batch[i] \in Seq(Packages) /\ batch[i] # <<>>
    BY <1>1 DEF RegistryInv, RegistryShape, Importing, Working
  <1>3. CASE cache[blob(i)] = "whole" /\ NextBlob(i)
    BY <1>1, <1>3, BlobStored
  <1>4. CASE NextPackage(i)
    <2>1. RegistryShape' /\ Importing(i)'
      BY <1>1, <1>2, <1>4, MovesOn, PreparedIsPackage DEF NextPackage, RegistryInv, RegistryShape
    <2> QED
      BY <1>1, <1>2, <1>4, <2>1, MovesOn, PreparedIsPackage, ImporterStep DEF NextPackage, RegistryInv
  <1>5. CASE ipc' = [ipc EXCEPT ![i] = "rename"] /\ UNCHANGED <<batch, todo>>
    <2>1. RegistryShape'
      BY <1>1, <1>5 DEF RegistryInv, RegistryShape, Working
    <2>2. Importing(i)'
      BY <1>1, <1>2, <1>5 DEF Importing, prepared, Stored, Working, RegistryInv, RegistryShape
    <2> QED
      BY <1>1, <1>5, <2>1, <2>2, ImporterStep DEF RegistryInv, RegistryShape
  <1> QED
    BY <1>3, <1>4, <1>5 DEF putCacheBlob

LEMMA RenameStep ==
  ASSUME RegistryInv, NEW i \in Importers, renameSync(i)
  PROVE  RegistryInv'
  <1>1. ipc[i] = "rename" /\ UNCHANGED <<versions, tokens, fts, hurt>>
    BY DEF renameSync, database
  <1>2. /\ batch[i] \in Seq(Packages) /\ batch[i] # <<>>
        /\ todo[i] \subseteq Blobs /\ todo[i] # {} /\ DOMAIN cache = Blobs
    BY <1>1 DEF RegistryInv, RegistryShape, Importing, Working
  <1>3. blob(i) \in Blobs
    BY <1>2 DEF blob
  <1>4. CASE cache' = [cache EXCEPT ![blob(i)] = "whole"] /\ NextBlob(i)
    BY <1>1, <1>2, <1>3, <1>4, BlobStored
  <1>5. CASE cache[blob(i)] = "whole" /\ NextBlob(i) /\ UNCHANGED cache
    BY <1>1, <1>5, BlobStored
  <1>6. CASE NextPackage(i) /\ UNCHANGED cache
    <2>1. RegistryShape' /\ Importing(i)'
      BY <1>1, <1>2, <1>6, MovesOn, PreparedIsPackage DEF NextPackage, RegistryInv, RegistryShape
    <2> QED
      BY <1>1, <1>2, <1>6, <2>1, MovesOn, PreparedIsPackage, ImporterStep DEF NextPackage, RegistryInv
  <1> QED
    BY <1>4, <1>5, <1>6 DEF renameSync

(* The transaction records a version of which every blob is stored.        *)
LEMMA CommitStep ==
  ASSUME RegistryInv, NEW i \in Importers, Commit(i)
  PROVE  RegistryInv'
  <1> DEFINE p == prepared(i)
  <1>1. /\ ipc[i] = "commit" /\ UNCHANGED <<cache, hurt>> /\ NextPackage(i)
        /\ \/ applyVersionLifecycle(p)
           \/ UNCHANGED <<versions, tokens, fts>>
    BY DEF Commit, database
  <1>2. /\ batch[i] \in Seq(Packages) /\ batch[i] # <<>>
        /\ \A b \in blobsOf[p] : Stored(b)
    BY <1>1 DEF RegistryInv, RegistryShape, Importing, Working
  <1>3. p \in Packages /\ Tail(batch[i]) \in Seq(Packages)
    BY <1>2, PreparedIsPackage DEF prepared
  <1>4. versions' \subseteq Packages /\ RecordedIsReadable'
    BY <1>1, <1>2, <1>3
    DEF applyVersionLifecycle, recorded, upsertVersionFts, RecordedIsReadable, RegistryInv, RegistryShape, Stored
  <1>5. RegistryShape' /\ Importing(i)'
    BY <1>1, <1>3, <1>4, MovesOn DEF NextPackage, RegistryInv, RegistryShape
  <1>6. ASSUME NEW j \in Importers \ {i} PROVE Importing(j)'
    BY <1>1, <1>3, <1>6, MovesOn DEF NextPackage, RegistryInv, Importing, prepared, Stored
  <1> QED
    BY <1>4, <1>5, <1>6 DEF RegistryInv

LEMMA CrashStep ==
  ASSUME RegistryInv, NEW i \in Importers, Crash(i)
  PROVE  RegistryInv'
  <1>1. ToPackage(i, <<>>) /\ UNCHANGED <<cache, versions, tokens, fts, hurt>>
    BY DEF Crash, database
  <1>2. <<>> \in Seq(Packages)
    OBVIOUS
  <1>3. RegistryShape' /\ Importing(i)'
    BY <1>1, <1>2, MovesOn DEF RegistryInv, RegistryShape
  <1> QED
    BY <1>1, <1>2, <1>3, MovesOn, ImporterStep DEF RegistryInv

LEMMA ImportStep ==
  ASSUME RegistryInv, NEW i \in Importers, importSkills(i)
  PROVE  RegistryInv'
  <1>1. PICK roots \in Batches : ToPackage(i, roots)
    BY DEF importSkills
  <1>2. roots \in Seq(Packages)
    BY BatchAssumption
  <1>3. UNCHANGED <<cache, versions, tokens, fts, hurt>>
    BY DEF importSkills, database
  <1>4. RegistryShape' /\ Importing(i)'
    BY <1>1, <1>2, <1>3, MovesOn DEF RegistryInv, RegistryShape
  <1> QED
    BY <1>1, <1>2, <1>3, <1>4, MovesOn, ImporterStep DEF RegistryInv

(* Whoever damages a blob takes no other away.                             *)
LEMMA DamageStep ==
  ASSUME RegistryInv, NEW b \in Blobs, Damage(b)
  PROVE  RegistryInv'
  <1>1. /\ hurt' = hurt \cup {b} /\ UNCHANGED <<versions, tokens, fts, ipc, batch, todo>>
        /\ DOMAIN cache' = Blobs
        /\ \A c \in Blobs \ {b} : cache'[c] = cache[c]
    BY DEF Damage, database, importing, RegistryInv, RegistryShape
  <1>2. \A c \in Blobs : Stored(c) => Stored(c)'
    BY <1>1 DEF Stored
  <1>3. RecordedIsReadable'
    BY <1>1, PackageFields DEF RegistryInv, RegistryShape, RecordedIsReadable
  <1>4. ASSUME NEW i \in Importers PROVE Importing(i)'
    <2>1. Importing(i) /\ batch[i] \in Seq(Packages)
      BY DEF RegistryInv, RegistryShape
    <2>2. ipc[i] \in Working => blobsOf[prepared(i)] \subseteq Blobs
      BY <2>1, PreparedIsPackage, PackageFields DEF Importing, prepared
    <2> QED
      BY <1>1, <1>2, <2>1, <2>2 DEF Importing, prepared
  <1> QED
    BY <1>1, <1>3, <1>4 DEF RegistryInv, RegistryShape

(* What is recorded can be read: an invariant of the importers alone.      *)
LEMMA RegistryStep ==
  ASSUME RegistryInv, RegistryNext \/ UNCHANGED registryVars
  PROVE  RegistryInv'
  <1>1. CASE UNCHANGED registryVars
    BY <1>1 DEF registryVars, database, importing, RegistryInv, RegistryShape, Importing, prepared,
                Stored, RecordedIsReadable
  <1>2. CASE RegistryNext
    BY <1>2, ImportStep, PutStep, RenameStep, CommitStep, CrashStep, DamageStep DEF RegistryNext
  <1> QED
    BY <1>1, <1>2

-----------------------------------------------------------------------------
(* The locks and the agents.                                               *)

(* A lock lists nothing that its configuration denies, and each skill at a *)
(* version of its own.                                                     *)
Lawful(l) == l # None => /\ DOMAIN l.skills \cap l.config.denied = {}
                         /\ \A s \in DOMAIN l.skills : skillOf[l.skills[s]] = s

(* The registry as the catalog and the index show it.                      *)
CatalogInv == /\ DOMAIN current = Skills
              /\ \A s \in Skills : current[s] # None => skillOf[current[s]] = s
              /\ fts \subseteq versions

Asking == {"lock", "query", "gate", "blob"}

(* An agent uses a lawful lock of the configuration that it has read.      *)
Guided(c) ==
  /\ pc[c] \in Asking => context[c] = [config |-> context[c].config, lock |-> context[c].lock]
  /\ pc[c] \in {"query", "gate"} =>
       /\ Lawful(context[c].lock)
       /\ IF context[c].lock # None THEN context[c].lock.config = context[c].config
                                    ELSE ~ context[c].config.required
  /\ pc[c] = "lock" => context[c].lock = None
  /\ pc[c] = "query" => wanted[c] = None
  /\ pc[c] = "blob" => skillOf[wanted[c]] \notin context[c].config.denied

(* What the project, as it is now, lets an agent fetch.                    *)
Allowed(v) == IF lock # None
              THEN lock.config = config /\ skillOf[v] \in DOMAIN lock.skills /\ lock.skills[skillOf[v]] = v
              ELSE ~ config.required /\ skillOf[v] \notin config.denied

(* An agent since whose search the project has not changed is on its way   *)
(* to what it found.                                                       *)
Finding(c) ==
  c \in fresh =>
    /\ wanted[c] # None
    /\ wanted[c] \in versions
    /\ Allowed(wanted[c])
    /\ pc[c] \in {"lock", "gate"} => context[c].config = config
    /\ pc[c] = "gate" => context[c].lock = lock
    /\ pc[c] = "idle" => \/ answer[c] \in {"found", "content"}
                         \/ answer[c] = "E_CACHE_HASH_MISMATCH" /\ bodyOf[wanted[c]] \in hurt

AgentInv ==
  /\ pc \in [Agents -> {"idle"} \cup Asking]
  /\ DOMAIN wanted = Agents /\ DOMAIN context = Agents /\ DOMAIN answer = Agents
  /\ CatalogInv
  /\ Lawful(lock)
  /\ rpc = "verify" => Lawful(generated)
  /\ \A c \in Agents : Guided(c) /\ Finding(c)

(* A step of one agent.                                                    *)
LEMMA AgentStep ==
  ASSUME AgentInv, NEW c \in Agents, UNCHANGED <<registryVars, project, refreshing>>,
         pc' \in [Agents -> {"idle"} \cup Asking],
         DOMAIN wanted' = Agents, DOMAIN context' = Agents, DOMAIN answer' = Agents,
         fresh' \ {c} \subseteq fresh,
         \A d \in Agents \ {c} : /\ pc'[d] = pc[d] /\ wanted'[d] = wanted[d]
                                 /\ context'[d] = context[d] /\ answer'[d] = answer[d],
         Guided(c)', Finding(c)'
  PROVE  AgentInv'
  <1>1. UNCHANGED <<current, fts, versions, hurt, lock, config, rpc, generated>>
    BY DEF registryVars, database, project, refreshing
  <1>2. ASSUME NEW d \in Agents \ {c} PROVE Guided(d)' /\ Finding(d)'
    BY <1>1 DEF AgentInv, Guided, Finding, Allowed, Lawful
  <1> QED
    BY <1>1, <1>2 DEF AgentInv, CatalogInv, Lawful

LEMMA ReadConfigStep ==
  ASSUME AgentInv, NEW c \in Agents, readConfig(c)
  PROVE  AgentInv'
  <1>1. pc[c] = "idle" /\ pc'[c] = "lock" /\ answer'[c] = None
    BY DEF readConfig, Goto, AgentInv
  <1>2. context'[c] = [config |-> config, lock |-> None]
    BY DEF readConfig, AgentInv
  <1>3. UNCHANGED <<registryVars, project, refreshing>>
    BY DEF readConfig
  <1>4. fresh' \subseteq fresh /\ (c \in fresh' => wanted'[c] = wanted[c])
    BY DEF readConfig, AgentInv
  <1>5. Guided(c)'
    BY <1>1, <1>2 DEF Guided, Asking
  <1>6. Finding(c)'
    BY <1>1, <1>2, <1>3, <1>4 DEF Finding, Allowed, AgentInv, project, registryVars, database
  <1> QED
    BY <1>1, <1>3, <1>4, <1>5, <1>6, AgentStep DEF readConfig, Goto, AgentInv, Asking

LEMMA ResolveStep ==
  ASSUME AgentInv, NEW c \in Agents, resolveLockMode(c)
  PROVE  AgentInv'
  <1>1. /\ pc[c] = "lock" /\ context[c].lock = None
        /\ context[c] = [config |-> context[c].config, lock |-> None]
    BY DEF resolveLockMode, AgentInv, Guided, Asking
  <1>2. UNCHANGED <<registryVars, project, refreshing, wanted, fresh>>
    BY DEF resolveLockMode
  <1>3. c \in fresh => /\ context[c].config = config /\ wanted[c] # None
                       /\ Allowed(wanted[c]) /\ wanted[c] \in versions
    BY <1>1 DEF AgentInv, Finding
  <1>4. CASE lock # None /\ lock.config = context[c].config
    <2>1. /\ pc'[c] = IF wanted[c] = None THEN "query" ELSE "gate"
          /\ context'[c] = [config |-> context[c].config, lock |-> lock]
      BY <1>1, <1>4 DEF resolveLockMode, validateLockfile, Goto, AgentInv
    <2>2. Guided(c)'
      BY <1>2, <1>4, <2>1 DEF Guided, AgentInv, Asking, Lawful
    <2>3. Finding(c)'
      BY <1>2, <1>3, <2>1 DEF Finding, Allowed, project, registryVars, database
    <2> QED
      BY <1>2, <1>4, <2>2, <2>3, AgentStep DEF resolveLockMode, validateLockfile, Goto, AgentInv, Asking
  <1>5. CASE lock # None /\ lock.config # context[c].config
    <2>1. pc'[c] = "idle" /\ c \notin fresh
      BY <1>3, <1>5 DEF resolveLockMode, validateLockfile, Respond, Goto, AgentInv, Allowed
    <2>2. Guided(c)' /\ Finding(c)'
      BY <1>2, <2>1 DEF Guided, Finding, Asking
    <2> QED
      BY <1>2, <1>5, <2>2, AgentStep DEF resolveLockMode, validateLockfile, Respond, Goto, AgentInv, Asking
  <1>6. CASE lock = None /\ context[c].config.required
    <2>1. pc'[c] = "idle" /\ c \notin fresh
      BY <1>3, <1>6 DEF resolveLockMode, Respond, Goto, AgentInv, Allowed
    <2>2. Guided(c)' /\ Finding(c)'
      BY <1>2, <2>1 DEF Guided, Finding, Asking
    <2> QED
      BY <1>2, <1>6, <2>2, AgentStep DEF resolveLockMode, Respond, Goto, AgentInv, Asking
  <1>7. CASE lock = None /\ ~ context[c].config.required
    <2>1. /\ pc'[c] = IF wanted[c] = None THEN "query" ELSE "gate"
          /\ context' = context
      BY <1>7 DEF resolveLockMode, Goto, AgentInv
    <2>2. Guided(c)'
      BY <1>1, <1>2, <1>7, <2>1 DEF Guided, Asking, Lawful
    <2>3. Finding(c)'
      BY <1>1, <1>2, <1>3, <1>7, <2>1 DEF Finding, Allowed, project, registryVars, database
    <2> QED
      BY <1>2, <1>7, <2>2, <2>3, AgentStep DEF resolveLockMode, Goto, AgentInv, Asking
  <1> QED
    BY <1>4, <1>5, <1>6, <1>7

LEMMA QueryStep ==
  ASSUME AgentInv, RegistryInv, NEW c \in Agents, Query(c)
  PROVE  AgentInv'
  <1>1. /\ pc[c] = "query" /\ wanted[c] = None /\ c \notin fresh
        /\ Lawful(context[c].lock)
        /\ IF context[c].lock # None THEN context[c].lock.config = context[c].config
                                     ELSE ~ context[c].config.required
    BY DEF Query, AgentInv, Guided, Finding
  <1>2. pc'[c] = "idle" /\ answer'[c] = "found" /\ UNCHANGED <<registryVars, project, refreshing>>
    BY DEF Query, Respond, Goto, AgentInv
  <1>3. Guided(c)'
    BY <1>2 DEF Guided, Asking
  <1>4. Finding(c)'
    <2>1. CASE UNCHANGED <<wanted, fresh>>
      BY <1>1, <2>1 DEF Finding
    <2>2. ASSUME NEW v \in searchVisibleHits(c), wanted' = [wanted EXCEPT ![c] = v],
                 fresh' = IF context[c] = [config |-> config, lock |-> lock] THEN fresh \cup {c} ELSE fresh
          PROVE  Finding(c)'
      <3>1. CASE context[c] # [config |-> config, lock |-> lock]
        BY <1>1, <2>2, <3>1 DEF Finding
      <3>2. CASE context[c] = [config |-> config, lock |-> lock]
        <4>1. context[c].config = config /\ context[c].lock = lock
          BY <3>2
        <4>2. v \in versions /\ v # None /\ wanted'[c] = v
          BY <2>2, NoneAssumption DEF searchVisibleHits, AgentInv, CatalogInv, RegistryInv, RegistryShape
        <4>3. Allowed(v)
          <5>1. CASE lock = None
            BY <1>1, <4>1, <5>1 DEF searchVisibleHits, Allowed
          <5>2. CASE lock # None
            <6>1. PICK s \in DOMAIN lock.skills : v = lock.skills[s]
              BY <4>1, <5>2 DEF searchVisibleHits, locked
            <6>2. skillOf[v] = s
              BY <1>1, <4>1, <5>2, <6>1 DEF Lawful
            <6> QED
              BY <1>1, <4>1, <5>2, <6>1, <6>2 DEF Allowed
          <5> QED
            BY <5>1, <5>2
        <4> QED
          BY <1>2, <4>2, <4>3 DEF Finding, Allowed, project, registryVars, database
      <3> QED
        BY <3>1, <3>2
    <2> QED
      BY <2>1, <2>2 DEF Query
  <1> QED
    BY <1>2, <1>3, <1>4, AgentStep DEF Query, Respond, Goto, AgentInv, Asking

LEMMA GateStep ==
  ASSUME AgentInv, NEW c \in Agents, getSkillVersion(c)
  PROVE  AgentInv'
  <1>1. /\ pc[c] = "gate" /\ Lawful(context[c].lock)
        /\ context[c].lock # None => context[c].lock.config = context[c].config
        /\ context[c] = [config |-> context[c].config, lock |-> context[c].lock]
    BY DEF getSkillVersion, AgentInv, Guided, Asking
  <1>2. UNCHANGED <<registryVars, project, refreshing, wanted, fresh>>
    BY DEF getSkillVersion
  <1>3. c \in fresh => /\ gateProjectAccess(c) = "ok" /\ wanted[c] \in versions
                       /\ wanted[c] # None /\ Allowed(wanted[c])
    BY <1>1 DEF AgentInv, Finding, Allowed, gateProjectAccess
  <1>4. CASE gateProjectAccess(c) = "ok" /\ wanted[c] \in versions
    <2>1. pc'[c] = "blob" /\ context' = context
      BY <1>4 DEF getSkillVersion, Goto, AgentInv
    <2>2. skillOf[wanted[c]] \notin context[c].config.denied
      BY <1>1, <1>4 DEF gateProjectAccess, Lawful
    <2>3. Guided(c)'
      BY <1>1, <1>2, <2>1, <2>2 DEF Guided, Asking
    <2>4. Finding(c)'
      BY <1>2, <1>3, <2>1 DEF Finding, Allowed, project, registryVars, database
    <2> QED
      BY <1>2, <1>4, <2>3, <2>4, AgentStep DEF getSkillVersion, Goto, AgentInv, Asking
  <1>5. CASE ~ (gateProjectAccess(c) = "ok" /\ wanted[c] \in versions)
    <2>1. pc'[c] = "idle" /\ c \notin fresh
      BY <1>3, <1>5 DEF getSkillVersion, Respond, Goto, AgentInv
    <2>2. Guided(c)' /\ Finding(c)'
      BY <1>2, <2>1 DEF Guided, Finding, Asking
    <2> QED
      BY <1>2, <1>5, <2>2, AgentStep DEF getSkillVersion, Respond, Goto, AgentInv, Asking
  <1> QED
    BY <1>4, <1>5

LEMMA BlobStep ==
  ASSUME AgentInv, RegistryInv, NEW c \in Agents, getCacheBlob(c)
  PROVE  AgentInv'
  <1>1. UNCHANGED <<registryVars, project, refreshing, wanted, fresh>> /\ pc'[c] = "idle"
    BY DEF getCacheBlob, Respond, Goto, AgentInv
  <1>2. Guided(c)'
    BY <1>1 DEF Guided, Asking
  <1>3. Finding(c)'
    <2> SUFFICES ASSUME c \in fresh
                 PROVE  Finding(c)'
      BY <1>1 DEF Finding
    <2>1. wanted[c] \in versions /\ wanted[c] # None /\ Allowed(wanted[c])
      BY DEF AgentInv, Finding
    <2>2. /\ bodyOf[wanted[c]] \in tokens
          /\ cache[bodyOf[wanted[c]]] = "whole" \/ bodyOf[wanted[c]] \in hurt
      BY <2>1, PackageFields DEF RegistryInv, RegistryShape, RecordedIsReadable
    <2>3. \/ answer'[c] = "content"
          \/ answer'[c] = "E_CACHE_HASH_MISMATCH" /\ bodyOf[wanted[c]] \in hurt
      BY <2>2 DEF getCacheBlob, Respond, AgentInv
    <2> QED
      BY <1>1, <2>1, <2>3 DEF Finding, Allowed, project, registryVars, database
  <1> QED
    BY <1>1, <1>2, <1>3, AgentStep DEF getCacheBlob, Respond, Goto, AgentInv, Asking

(* Importers take nothing away from the agents.                            *)
LEMMA ImportersStep ==
  ASSUME AgentInv, RegistryNext, UNCHANGED <<project, refreshing, agents, bounds, fresh>>
  PROVE  AgentInv'
  <1>1. /\ hurt \subseteq hurt'
        /\ \/ UNCHANGED database
           \/ \E i \in Importers : applyVersionLifecycle(prepared(i))
    BY DEF RegistryNext, importSkills, putCacheBlob, renameSync, Commit, Crash, Damage
  <1>2. versions \subseteq versions' /\ CatalogInv'
    <2>1. CASE UNCHANGED database
      BY <2>1 DEF database, AgentInv, CatalogInv
    <2>2. ASSUME NEW i \in Importers, applyVersionLifecycle(prepared(i))
          PROVE  versions \subseteq versions' /\ CatalogInv'
      BY <2>2 DEF applyVersionLifecycle, recorded, upsertVersionFts, AgentInv, CatalogInv
    <2> QED
      BY <1>1, <2>1, <2>2
  <1>3. ASSUME NEW c \in Agents PROVE Guided(c)' /\ Finding(c)'
    BY <1>1, <1>2 DEF AgentInv, Guided, Finding, Allowed, Lawful, project, agents
  <1> QED
    BY <1>2, <1>3 DEF AgentInv, Lawful, project, refreshing, agents

(* The command `lock` writes a lawful lock.                                *)
LEMMA LockStep ==
  ASSUME AgentInv, runLock \/ verifyVersion \/ writeLockAtomically
  PROVE  AgentInv'
  <1>1. CASE runLock
    <2>1. Lawful(generated')
      <3>1. generated' = [config |-> config, skills |-> [s \in eligible |-> current[s]]]
        BY <1>1 DEF runLock
      <3>2. \A s \in eligible : s \notin config.denied /\ current[s] # None
        BY DEF eligible
      <3>3. \A s \in eligible : skillOf[current[s]] = s
        BY <3>2 DEF eligible, AgentInv, CatalogInv
      <3> QED
        BY <3>1, <3>2, <3>3 DEF Lawful
    <2>2. ASSUME NEW c \in Agents PROVE Guided(c)' /\ Finding(c)'
      BY <1>1 DEF runLock, AgentInv, Guided, Finding, Allowed, Lawful, registryVars, database, project, agents
    <2> QED
      BY <1>1, <2>1, <2>2 DEF runLock, AgentInv, CatalogInv, Lawful, registryVars, database, project, agents
  <1>2. CASE verifyVersion
    <2>1. ASSUME NEW c \in Agents PROVE Guided(c)' /\ Finding(c)'
      BY <1>2 DEF verifyVersion, AgentInv, Guided, Finding, Allowed, Lawful, registryVars, database, project, agents
    <2> QED
      BY <1>2, <2>1 DEF verifyVersion, Abandon, AgentInv, CatalogInv, Lawful, registryVars, database, project, agents
  <1>3. CASE writeLockAtomically
    <2>1. lock' = generated /\ Lawful(generated) /\ fresh' = {} /\ rpc' = "idle"
      BY <1>3 DEF writeLockAtomically, Abandon, AgentInv
    <2>2. ASSUME NEW c \in Agents PROVE Guided(c)' /\ Finding(c)'
      BY <1>3, <2>1 DEF writeLockAtomically, AgentInv, Guided, Finding, Lawful, agents
    <2> QED
      BY <1>3, <2>1, <2>2 DEF writeLockAtomically, AgentInv, CatalogInv, Lawful, registryVars, database, agents
  <1> QED
    BY <1>1, <1>2, <1>3

LEMMA EditStep ==
  ASSUME AgentInv, Edit
  PROVE  AgentInv'
  <1>1. ASSUME NEW c \in Agents PROVE Guided(c)' /\ Finding(c)'
    BY DEF Edit, AgentInv, Guided, Finding, Lawful, agents
  <1> QED
    BY <1>1 DEF Edit, AgentInv, CatalogInv, Lawful, registryVars, database, refreshing, agents

LEMMA Inductive == Spec => [](RegistryInv /\ AgentInv)
  <1>1. Init => RegistryInv
    BY DEF Init, RegistryInit, RegistryInv, RegistryShape, Importing, Working, RecordedIsReadable
  <1>2. Init => AgentInv
    BY LockAssumption DEF Init, RegistryInit, AgentInv, CatalogInv, Lawful, Guided, Finding, Asking
  <1>3. RegistryInv /\ [Next]_vars => RegistryInv'
    BY RegistryStep DEF Next, vars, runLock, verifyVersion, writeLockAtomically, Edit, readConfig,
       resolveLockMode, Query, getSkillVersion, getCacheBlob
  <1>4. ASSUME RegistryInv, AgentInv, [Next]_vars
        PROVE  AgentInv'
    <2>1. CASE UNCHANGED vars
      <3>1. ASSUME NEW c \in Agents PROVE Guided(c)' /\ Finding(c)'
        BY <1>4, <2>1 DEF vars, AgentInv, Guided, Finding, Allowed, Lawful, registryVars, database,
                          project, agents
      <3> QED
        BY <1>4, <2>1, <3>1 DEF vars, AgentInv, CatalogInv, Lawful, registryVars, database, project,
                                refreshing, agents
    <2>2. CASE Next
      BY <1>4, <2>2, ImportersStep, LockStep, EditStep, ReadConfigStep, ResolveStep, QueryStep,
         GateStep, BlobStep DEF Next
    <2> QED
      BY <1>4, <2>1, <2>2
  <1> QED
    BY <1>1, <1>2, <1>3, <1>4, PTL DEF Spec

-----------------------------------------------------------------------------
(* Whatever importers die, fail or run side by side, a recorded version    *)
(* can be read, but for the blobs that somebody damaged (preparation.ts,   *)
(* lifecycle.ts).                                                          *)
THEOREM Readable == Spec => []RecordedIsReadable
  <1>1. RegistryInv => RecordedIsReadable
    BY DEF RegistryInv
  <1> QED
    BY <1>1, Inductive, PTL

(* What a search found can be fetched while the project stays as it is,    *)
(* whatever is imported in between (search.ts, get-content.ts).            *)
THEOREM Fetchable == Spec => []FoundIsFetchable
  <1>1. AgentInv => FoundIsFetchable
    BY DEF AgentInv, Finding, FoundIsFetchable
  <1> QED
    BY <1>1, Inductive, PTL

(* A skill that the configuration denies when it is read is not served     *)
(* under any lock of that configuration (project-context.ts, lock.ts).     *)
THEOREM Denied == Spec => []DeniedIsNotServed
  <1>1. AgentInv => DeniedIsNotServed
    BY DEF AgentInv, Guided, DeniedIsNotServed
  <1> QED
    BY <1>1, Inductive, PTL

-----------------------------------------------------------------------------
(***************************************************************************)
(* The router recommends what it may, leaves nothing out without a reason, *)
(* and is confident only of what it recommends.                            *)
(***************************************************************************)

(***************************************************************************)
(* What is arranged in an order that is total on it.                       *)
(***************************************************************************)
Below(S, R, s) == {t \in S : <<t, s>> \in R}

Orders(R, S) ==
  /\ \A s \in S : <<s, s>> \notin R
  /\ \A s, t, u \in S : <<s, t>> \in R /\ <<t, u>> \in R => <<s, u>> \in R
  /\ \A s, t \in S : s = t \/ <<s, t>> \in R \/ <<t, s>> \in R

LEMMA BelowIsLess ==
  ASSUME NEW S, IsFiniteSet(S), NEW R, Orders(R, S)
  PROVE  /\ \A s \in S : Cardinality(Below(S, R, s)) \in 0 .. Cardinality(S) - 1
         /\ \A s, t \in S : <<s, t>> \in R => Cardinality(Below(S, R, s)) < Cardinality(Below(S, R, t))
  <1>1. ASSUME NEW T, IsFiniteSet(T), NEW B \in SUBSET T, NEW x \in T, x \notin B
        PROVE  /\ Cardinality(B) \in Nat /\ Cardinality(T) \in Nat
               /\ Cardinality(B) < Cardinality(T)
    <2>1. B \subseteq T \ {x} /\ IsFiniteSet(T \ {x}) /\ Cardinality(T \ {x}) = Cardinality(T) - 1
      BY <1>1, FS_RemoveElement
    <2>2. IsFiniteSet(B) /\ Cardinality(B) <= Cardinality(T \ {x})
      BY <2>1, FS_Subset
    <2>3. Cardinality(B) \in Nat /\ Cardinality(T) \in Nat
      BY <1>1, <2>2, FS_CardinalityType
    <2> QED
      BY <2>1, <2>2, <2>3
  <1>2. ASSUME NEW s \in S
        PROVE  Cardinality(Below(S, R, s)) \in 0 .. Cardinality(S) - 1
    <2>1. Below(S, R, s) \in SUBSET S /\ s \notin Below(S, R, s)
      BY DEF Below, Orders
    <2>2. /\ Cardinality(Below(S, R, s)) \in Nat /\ Cardinality(S) \in Nat
          /\ Cardinality(Below(S, R, s)) < Cardinality(S)
      BY <1>1, <2>1
    <2> QED
      BY <2>2
  <1>3. ASSUME NEW s \in S, NEW t \in S, <<s, t>> \in R
        PROVE  Cardinality(Below(S, R, s)) < Cardinality(Below(S, R, t))
    <2>1. Below(S, R, s) \in SUBSET Below(S, R, t) /\ s \in Below(S, R, t) /\ s \notin Below(S, R, s)
      BY <1>3 DEF Below, Orders
    <2>2. IsFiniteSet(Below(S, R, t))
      BY FS_Subset DEF Below
    <2> QED
      BY <1>1, <2>1, <2>2
  <1> QED
    BY <1>2, <1>3

LEMMA ArrangedOrder ==
  ASSUME NEW S, IsFiniteSet(S), NEW R, Orders(R, S)
  PROVE  /\ arranged(S, R) \in Seq(S)
         /\ Members(arranged(S, R)) = S
         /\ \A i, j \in DOMAIN arranged(S, R) : i < j => <<arranged(S, R)[i], arranged(S, R)[j]>> \in R
  <1> DEFINE n == Cardinality(S)
             pos == [s \in S |-> Cardinality(Below(S, R, s))]
             a == arranged(S, R)
  <1>1. n \in Nat
    BY FS_CardinalityType
  <1>2. /\ \A s \in S : pos[s] \in 0 .. n - 1
        /\ \A s, t \in S : <<s, t>> \in R => pos[s] < pos[t]
    BY BelowIsLess
  <1>3. \A s, t \in S : pos[s] = pos[t] => s = t
    <2> HIDE DEF pos
    <2> SUFFICES ASSUME NEW s \in S, NEW t \in S, pos[s] = pos[t], s # t PROVE FALSE
      OBVIOUS
    <2>1. pos[s] \in Int /\ pos[t] \in Int
      BY <1>1, <1>2
    <2>2. <<s, t>> \in R \/ <<t, s>> \in R
      BY DEF Orders
    <2>3. pos[s] < pos[t] \/ pos[t] < pos[s]
      BY <1>2, <2>2
    <2> QED
      BY <2>1, <2>3
  <1>4. \A i \in 1 .. n : \E s \in S : pos[s] = i - 1
    <2>1. pos \in Injection(S, 0 .. n - 1)
      BY <1>2, <1>3 DEF Injection, IsInjective
    <2>2. IsFiniteSet(0 .. n - 1) /\ Cardinality(0 .. n - 1) = n
      BY <1>1, FS_Interval
    <2>3. pos \in Surjection(S, 0 .. n - 1)
      BY <2>1, <2>2, FS_Injection
    <2>4. \A k \in 0 .. n - 1 : \E s \in S : pos[s] = k
      BY <2>3 DEF Surjection
    <2> QED
      BY <1>1, <2>4
  <1>5. \A i \in 1 .. n : a[i] \in S /\ Cardinality(Below(S, R, a[i])) = i - 1
    <2> SUFFICES ASSUME NEW i \in 1 .. n PROVE a[i] \in S /\ Cardinality(Below(S, R, a[i])) = i - 1
      OBVIOUS
    <2>1. a[i] = CHOOSE s \in S : Cardinality(Below(S, R, s)) = i - 1
      BY DEF arranged, Below
    <2>2. \E s \in S : Cardinality(Below(S, R, s)) = i - 1
      BY <1>4
    <2> QED
      BY <2>1, <2>2
  <1>6. \A i \in 1 .. n : a[i] \in S /\ pos[a[i]] = i - 1
    BY <1>5
  <1>7. DOMAIN a = 1 .. n /\ a \in Seq(S)
    <2>1. DOMAIN a = 1 .. n
      BY DEF arranged
    <2>2. a = [i \in 1 .. n |-> a[i]]
      <3> DEFINE entry(i) == CHOOSE s \in S : Cardinality({t \in S : <<t, s>> \in R}) = i - 1
      <3>1. a = [i \in 1 .. n |-> entry(i)]
        BY Zenon DEF arranged
      <3> HIDE DEF entry, a, n
      <3> QED
        BY <3>1
    <2> HIDE DEF n, a
    <2>3. a \in [1 .. n -> S]
      BY <1>5, <2>2
    <2> QED
      BY <1>1, <2>1, <2>3
  <1> HIDE DEF pos, a
  <1>8. \A s \in S : \E i \in 1 .. n : a[i] = s
    <2> SUFFICES ASSUME NEW s \in S PROVE \E i \in 1 .. n : a[i] = s
      OBVIOUS
    <2>1. pos[s] + 1 \in 1 .. n /\ (pos[s] + 1) - 1 = pos[s]
      BY <1>1, <1>2
    <2>2. pos[a[pos[s] + 1]] = pos[s] /\ a[pos[s] + 1] \in S
      BY <1>6, <2>1
    <2> QED
      BY <1>3, <2>1, <2>2
  <1>9. \A i, j \in 1 .. n : i < j => <<a[i], a[j]>> \in R
    <2> SUFFICES ASSUME NEW i \in 1 .. n, NEW j \in 1 .. n, i < j, <<a[i], a[j]>> \notin R PROVE FALSE
      OBVIOUS
    <2>1. pos[a[i]] = i - 1 /\ pos[a[j]] = j - 1 /\ a[i] \in S /\ a[j] \in S
      BY <1>6
    <2>2. a[i] = a[j] \/ pos[a[j]] < pos[a[i]]
      BY <1>2, <2>1 DEF Orders
    <2> QED
      BY <1>1, <2>1, <2>2
  <1>10. Members(a) = S
    BY <1>6, <1>7, <1>8 DEF Members
  <1> QED
    BY <1>7, <1>9, <1>10 DEF a

-----------------------------------------------------------------------------
(* Keys are compared entry by entry.                                       *)
Key(k) == \A i \in 1 .. 6 : k[i] \in Int

LEMMA Lexicographic ==
  ASSUME NEW k, NEW l
  PROVE  before(k, l) <=> \/ k[1] < l[1]
                          \/ k[1] = l[1] /\ k[2] < l[2]
                          \/ k[1] = l[1] /\ k[2] = l[2] /\ k[3] < l[3]
                          \/ k[1] = l[1] /\ k[2] = l[2] /\ k[3] = l[3] /\ k[4] < l[4]
                          \/ /\ k[1] = l[1] /\ k[2] = l[2] /\ k[3] = l[3] /\ k[4] = l[4]
                             /\ k[5] < l[5]
                          \/ /\ k[1] = l[1] /\ k[2] = l[2] /\ k[3] = l[3] /\ k[4] = l[4]
                             /\ k[5] = l[5] /\ k[6] < l[6]
  <1> DEFINE at(i) == k[i] < l[i] /\ \A j \in 1 .. (i - 1) : k[j] = l[j]
  <1>1. before(k, l) <=> at(1) \/ at(2) \/ at(3) \/ at(4) \/ at(5) \/ at(6)
    BY DEF before
  <1>2. at(1) <=> k[1] < l[1]
    OBVIOUS
  <1>3. at(2) <=> k[2] < l[2] /\ k[1] = l[1]
    OBVIOUS
  <1>4. at(3) <=> k[3] < l[3] /\ k[1] = l[1] /\ k[2] = l[2]
    OBVIOUS
  <1>5. at(4) <=> k[4] < l[4] /\ k[1] = l[1] /\ k[2] = l[2] /\ k[3] = l[3]
    OBVIOUS
  <1>6. at(5) <=> k[5] < l[5] /\ k[1] = l[1] /\ k[2] = l[2] /\ k[3] = l[3] /\ k[4] = l[4]
    OBVIOUS
  <1>7. at(6) <=> k[6] < l[6] /\ k[1] = l[1] /\ k[2] = l[2] /\ k[3] = l[3] /\ k[4] = l[4] /\ k[5] = l[5]
    OBVIOUS
  <1> HIDE DEF at
  <1> QED
    BY <1>1, <1>2, <1>3, <1>4, <1>5, <1>6, <1>7

LEMMA BeforeIsOrder ==
  /\ \A k : Key(k) => ~ before(k, k)
  /\ \A k, l, m : Key(k) /\ Key(l) /\ Key(m) /\ before(k, l) /\ before(l, m) => before(k, m)
  /\ \A k, l : Key(k) /\ Key(l) /\ k[6] # l[6] => before(k, l) \/ before(l, k)
  <1>0. \A k : Key(k) => /\ k[1] \in Int /\ k[2] \in Int /\ k[3] \in Int
                         /\ k[4] \in Int /\ k[5] \in Int /\ k[6] \in Int
    BY DEF Key
  <1>1. ASSUME NEW k, Key(k) PROVE ~ before(k, k)
    BY <1>0, <1>1, Lexicographic
  <1>2. ASSUME NEW k, NEW l, NEW m, Key(k), Key(l), Key(m), before(k, l), before(l, m)
        PROVE  before(k, m)
    BY <1>0, <1>2, Lexicographic
  <1>3. ASSUME NEW k, NEW l, Key(k), Key(l), k[6] # l[6]
        PROVE  before(k, l) \/ before(l, k)
    BY <1>0, <1>3, Lexicographic
  <1> QED
    BY <1>1, <1>2, <1>3

-----------------------------------------------------------------------------
(* The keys of loaded skills.                                              *)
RowsTyped == request \in Request /\ rows \in [Skill -> Row \cup {Nothing}]

LEMMA LoadedRows ==
  ASSUME RowsTyped
  PROVE  /\ loaded \subseteq Skill /\ loaded \subseteq Nat /\ IsFiniteSet(loaded)
         /\ \A s \in loaded : rows[s] \in Row /\ recommendedTokens(s) \in Nat
  <1>1. loaded \in SUBSET Skill /\ \A s \in loaded : rows[s] \in Row
    BY DEF RowsTyped, loaded
  <1>2. IsFiniteSet(loaded) /\ loaded \subseteq Nat
    BY <1>1, SkillAssumption, FS_Subset
  <1>3. \A s \in loaded : recommendedTokens(s) \in Nat
    BY <1>1, RowAssumption DEF recommendedTokens, useL1
  <1> QED
    BY <1>1, <1>2, <1>3

(* What a phrase, a hit or an intent contributes is finite.                *)
LEMMA PairsAreFinite ==
  ASSUME NEW category, NEW terms, IsFiniteSet(terms), NEW with
  PROVE  IsFiniteSet({category} \X (terms \cap with))
  <1>1. IsFiniteSet(terms \cap with)
    BY FS_Subset
  <1>2. IsFiniteSet({category})
    BY FS_Singleton
  <1> QED
    BY <1>1, <1>2, FS_Product

LEMMA EvidenceIsFinite ==
  ASSUME RowsTyped, NEW s \in loaded, NEW intents
  PROVE  IsFiniteSet(evidenceWith(s, intents))
  <1> DEFINE a == {"FRAMEWORK"} \X (rows[s].frameworks \cap request.frameworks)
             b == {"PLATFORM"} \X (rows[s].platforms \cap request.platforms)
             c == {"TASK_TRIGGER"} \X (rows[s].triggers \cap request.task)
             d == {"DOMAIN"} \X (rows[s].domains \cap request.task)
             e == {"NAME_DESCRIPTION"} \X ({rows[s].name} \cap request.task)
             f == IF s \in Members(request.hits) THEN {<<"LEXICAL", "task">>} ELSE {}
             g == IF s \in intents THEN {<<"WORKFLOW_INTENT", "rule">>} ELSE {}
             found == a \cup b \cup c \cup d \cup e \cup f \cup g
             h == IF found # {} /\ s \in request.prefer THEN {<<"PROJECT_PREFERENCE", "id">>} ELSE {}
  <1>1. IsFiniteSet(a) /\ IsFiniteSet(b) /\ IsFiniteSet(c) /\ IsFiniteSet(d)
    BY LoadedRows, RowAssumption, PairsAreFinite
  <1>2. IsFiniteSet(e)
    BY FS_Singleton, PairsAreFinite
  <1>3. IsFiniteSet(f) /\ IsFiniteSet(g) /\ IsFiniteSet(h)
    BY FS_Singleton, FS_EmptySet
  <1>4. evidenceWith(s, intents) = found \cup h
    BY DEF evidenceWith
  <1> HIDE DEF a, b, c, d, e, f, g, h
  <1>5. IsFiniteSet(found)
    BY <1>1, <1>2, <1>3, FS_Union
  <1> QED
    BY <1>3, <1>4, <1>5, FS_Union

LEMMA KeysAreTyped ==
  ASSUME RowsTyped, NEW s \in loaded, NEW intents
  PROVE  Key(sortKey(s, intents)) /\ sortKey(s, intents)[6] = s
  <1> DEFINE e == evidenceWith(s, intents)
             k == << tierOf(e), IF of(e, {"PROJECT_PREFERENCE"}) # {} THEN 0 ELSE 1,
                     -distinctStrongValues(e), ftsRank(s), recommendedTokens(s), s >>
  <1>1. tierOf(e) \in Int
    BY DEF tierOf
  <1>2. distinctStrongValues(e) \in Nat
    <2>1. IsFiniteSet(of(e, Project \cup Task))
      BY EvidenceIsFinite, FS_Subset DEF of
    <2>2. IsFiniteSet({r[2] : r \in of(e, Project \cup Task)})
      <3> DEFINE X == of(e, Project \cup Task)
                 f == [r \in X |-> r[2]]
      <3> HIDE DEF X
      <3>1. f \in Surjection(X, {r[2] : r \in X})
        BY DEF Surjection
      <3> QED
        BY <2>1, <3>1, FS_Surjection DEF X
    <2> QED
      BY <2>2, FS_CardinalityType DEF distinctStrongValues
  <1>3. ftsRank(s) \in Nat
    <2>1. request.hits \in Seq(Skill)
      BY RequestAssumption DEF RowsTyped
    <2>2. DOMAIN request.hits = 1 .. Len(request.hits) /\ Len(request.hits) \in Nat
      BY <2>1
    <2>3. IsFiniteSet({i \in DOMAIN request.hits : \A j \in 1..i : request.hits[j] # s})
      <3>1. IsFiniteSet(DOMAIN request.hits)
        BY <2>2, FS_Interval
      <3> QED
        BY <3>1, FS_Subset
    <2> QED
      BY <2>3, FS_CardinalityType DEF ftsRank
  <1>4. recommendedTokens(s) \in Nat /\ s \in Nat
    BY LoadedRows
  <1>5. sortKey(s, intents) = k
    BY DEF sortKey
  <1> HIDE DEF e
  <1>6. /\ k[1] \in Int /\ k[2] \in Int /\ k[3] \in Int /\ k[4] \in Int /\ k[5] \in Int
        /\ k[6] \in Int /\ k[6] = s
    BY <1>1, <1>2, <1>3, <1>4
  <1> HIDE DEF k
  <1> QED
    BY <1>5, <1>6 DEF Key

LEMMA PrecedesIsOrder ==
  ASSUME RowsTyped
  PROVE  /\ \A s \in loaded : ~ precedes(s, s)
         /\ \A s, t, u \in loaded : precedes(s, t) /\ precedes(t, u) => precedes(s, u)
         /\ \A s, t \in loaded : s # t => precedes(s, t) \/ precedes(t, s)
  BY KeysAreTyped, BeforeIsOrder DEF precedes

LEMMA RankedOrder ==
  ASSUME RowsTyped, NEW S \in SUBSET loaded, NEW intents
  PROVE  /\ ranked(S, intents) \in Seq(S)
         /\ Members(ranked(S, intents)) = S
         /\ \A i, j \in DOMAIN ranked(S, intents) :
               i < j => before(sortKey(ranked(S, intents)[i], intents), sortKey(ranked(S, intents)[j], intents))
  <1> DEFINE R == {p \in S \X S : before(sortKey(p[1], intents), sortKey(p[2], intents))}
  <1>1. ranked(S, intents) = arranged(S, R)
    <2> DEFINE key == [s \in S |-> sortKey(s, intents)]
    <2>1. R = {p \in S \X S : before(key[p[1]], key[p[2]])}
      OBVIOUS
    <2> QED
      BY <2>1 DEF ranked
  <1>2. \A s, t \in S : <<s, t>> \in R <=> before(sortKey(s, intents), sortKey(t, intents))
    OBVIOUS
  <1> HIDE DEF R
  <1>3. Orders(R, S)
    BY <1>2, KeysAreTyped, BeforeIsOrder DEF Orders
  <1>4. IsFiniteSet(S)
    BY LoadedRows, FS_Subset
  <1>5. /\ arranged(S, R) \in Seq(S)
        /\ Members(arranged(S, R)) = S
        /\ \A i, j \in DOMAIN arranged(S, R) : i < j => <<arranged(S, R)[i], arranged(S, R)[j]>> \in R
    BY <1>3, <1>4, ArrangedOrder
  <1>6. \A i \in DOMAIN arranged(S, R) : arranged(S, R)[i] \in S
    BY <1>5
  <1> QED
    BY <1>1, <1>2, <1>5, <1>6

-----------------------------------------------------------------------------
(* What is picked from a sequence keeps its order.                         *)
Unique(seq) == \A i, j \in DOMAIN seq : i # j => seq[i].id # seq[j].id

LEMMA PickedInOrder ==
  ASSUME NEW V, NEW seq \in Seq(V), NEW S
  PROVE  /\ those(seq, S) \in Seq(V)
         /\ Members(those(seq, S)) = Members(seq) \cap S
         /\ Unique(seq) => Unique(those(seq, S))
  <1> DEFINE P == {i \in DOMAIN seq : seq[i] \in S}
             R == {p \in P \X P : p[1] < p[2]}
             order == arranged(P, R)
             picked == [i \in DOMAIN order |-> seq[order[i]]]
  <1>1. DOMAIN seq = 1 .. Len(seq) /\ Len(seq) \in Nat /\ \A i \in DOMAIN seq : seq[i] \in V
    OBVIOUS
  <1>2. P \subseteq Nat /\ P \subseteq DOMAIN seq /\ IsFiniteSet(P)
    <2>1. IsFiniteSet(DOMAIN seq)
      BY <1>1, FS_Interval
    <2> QED
      BY <1>1, <2>1, FS_Subset
  <1>3. \A i, j \in P : <<i, j>> \in R <=> i < j
    OBVIOUS
  <1>4. those(seq, S) = picked
    BY DEF those
  <1>5. /\ \A i \in P : seq[i] \in S
        /\ \A j \in DOMAIN seq : seq[j] \in S => j \in P
    OBVIOUS
  <1> HIDE DEF R, P
  <1>6. Orders(R, P)
    BY <1>2, <1>3 DEF Orders
  <1>7. /\ order \in Seq(P) /\ Members(order) = P
        /\ \A i, j \in DOMAIN order : i < j => <<order[i], order[j]>> \in R
    BY <1>2, <1>6, ArrangedOrder
  <1> HIDE DEF order
  <1>8. DOMAIN order = 1 .. Len(order) /\ Len(order) \in Nat /\ \A i \in DOMAIN order : order[i] \in P
    BY <1>7
  <1>9. DOMAIN picked = 1 .. Len(order) /\ picked \in Seq(V)
    <2>1. DOMAIN picked = 1 .. Len(order)
      BY <1>8
    <2>2. \A i \in 1 .. Len(order) : seq[order[i]] \in V
      BY <1>1, <1>2, <1>8
    <2> QED
      BY <1>8, <2>1, <2>2
  <1>10. Members(picked) = Members(seq) \cap S
    <2>1. \A i \in DOMAIN order : picked[i] = seq[order[i]] /\ seq[order[i]] \in Members(seq) \cap S
      BY <1>2, <1>5, <1>8 DEF Members
    <2>2. \A x \in Members(seq) \cap S : \E i \in DOMAIN order : picked[i] = x
      <3> SUFFICES ASSUME NEW j \in DOMAIN seq, seq[j] \in S
                   PROVE  \E i \in DOMAIN order : picked[i] = seq[j]
        BY DEF Members
      <3>1. j \in Members(order)
        BY <1>5, <1>7
      <3> QED
        BY <3>1 DEF Members
    <2> QED
      BY <1>8, <1>9, <2>1, <2>2 DEF Members
  <1>11. ASSUME Unique(seq) PROVE Unique(picked)
    <2> SUFFICES ASSUME NEW i \in DOMAIN picked, NEW j \in DOMAIN picked, i # j
                 PROVE  picked[i].id # picked[j].id
      BY DEF Unique
    <2>1. i \in DOMAIN order /\ j \in DOMAIN order /\ i \in Nat /\ j \in Nat
      BY <1>8, <1>9
    <2>2. order[i] \in P /\ order[j] \in P /\ order[i] # order[j]
      <3>1. order[i] \in P /\ order[j] \in P /\ order[i] \in Nat /\ order[j] \in Nat
        BY <1>2, <1>8, <2>1
      <3>2. i < j \/ j < i
        BY <2>1
      <3>3. <<order[i], order[j]>> \in R \/ <<order[j], order[i]>> \in R
        BY <1>7, <2>1, <3>2
      <3>4. order[i] < order[j] \/ order[j] < order[i]
        BY <1>3, <3>1, <3>3
      <3> QED
        BY <3>1, <3>4
    <2>3. seq[order[i]].id # seq[order[j]].id
      BY <1>2, <1>11, <2>2 DEF Unique
    <2> QED
      BY <2>1, <2>3
  <1> QED
    BY <1>4, <1>9, <1>10, <1>11

LEMMA FirstOnes ==
  ASSUME NEW V, NEW seq \in Seq(V)
  PROVE  /\ firstThree(seq) \in Seq(V)
         /\ Members(firstThree(seq)) \subseteq Members(seq)
         /\ Unique(seq) => Unique(firstThree(seq))
  <1> DEFINE n == IF Len(seq) < 3 THEN Len(seq) ELSE 3
  <1>1. n \in 0 .. Len(seq) /\ Len(seq) \in Nat
    OBVIOUS
  <1>2. firstThree(seq) = SubSeq(seq, 1, n)
    BY DEF firstThree
  <1> HIDE DEF n
  <1>3. /\ firstThree(seq) \in Seq(V)
        /\ DOMAIN firstThree(seq) = 1 .. n /\ DOMAIN firstThree(seq) \subseteq DOMAIN seq
        /\ \A i \in 1 .. n : firstThree(seq)[i] = seq[i]
    BY <1>1, <1>2
  <1> QED
    BY <1>3 DEF Members, Unique

-----------------------------------------------------------------------------
(* The tokens of skills add up.                                            *)
LEMMA TotalOfNothing == total({}) = 0
  BY FS_EmptySet DEF total

LEMMA TokensOfOne ==
  ASSUME RowsTyped, NEW s \in loaded
  PROVE  /\ IsFiniteSet({s} \X (1..recommendedTokens(s)))
         /\ Cardinality({s} \X (1..recommendedTokens(s))) = recommendedTokens(s)
  <1>1. recommendedTokens(s) \in Nat
    BY LoadedRows
  <1>2. /\ IsFiniteSet(1..recommendedTokens(s))
        /\ Cardinality(1..recommendedTokens(s)) = recommendedTokens(s)
    BY <1>1, FS_Interval
  <1>3. IsFiniteSet({s}) /\ Cardinality({s}) = 1
    BY FS_Singleton
  <1>4. /\ IsFiniteSet({s} \X (1..recommendedTokens(s)))
        /\ Cardinality({s} \X (1..recommendedTokens(s))) = 1 * recommendedTokens(s)
    BY <1>2, <1>3, FS_Product
  <1> QED
    BY <1>1, <1>4

LEMMA TotalOfMore ==
  ASSUME RowsTyped, NEW S \in SUBSET loaded
  PROVE  /\ total(S) \in Nat
         /\ \A s \in loaded \ S : total(S \cup {s}) = total(S) + recommendedTokens(s)
  <1> DEFINE tokensOf(s) == {s} \X (1..recommendedTokens(s))
             all(T) == UNION {tokensOf(s) : s \in T}
  <1>1. \A T : total(T) = Cardinality(all(T))
    BY DEF total
  <1>2. IsFiniteSet(all(S))
    <2> DEFINE f == [s \in S |-> tokensOf(s)]
    <2>1. f \in Surjection(S, {tokensOf(s) : s \in S})
      BY DEF Surjection
    <2>2. IsFiniteSet(S)
      BY LoadedRows, FS_Subset
    <2>3. IsFiniteSet({tokensOf(s) : s \in S})
      BY <2>1, <2>2, FS_Surjection
    <2>4. \A s \in S : IsFiniteSet(tokensOf(s))
      BY TokensOfOne
    <2> HIDE DEF tokensOf
    <2>5. \A T \in {tokensOf(s) : s \in S} : IsFiniteSet(T)
      BY <2>4
    <2> QED
      BY <2>3, <2>5, FS_UNION
  <1>3. ASSUME NEW s \in loaded \ S
        PROVE  Cardinality(all(S \cup {s})) = Cardinality(all(S)) + recommendedTokens(s)
    <2>1. all(S \cup {s}) = all(S) \cup tokensOf(s)
      OBVIOUS
    <2>2. all(S) \cap tokensOf(s) = {}
      OBVIOUS
    <2>3. IsFiniteSet(tokensOf(s)) /\ Cardinality(tokensOf(s)) = recommendedTokens(s)
      BY TokensOfOne
    <2>4. recommendedTokens(s) \in Nat
      BY LoadedRows
    <2> HIDE DEF tokensOf, all
    <2>5. Cardinality(all(S) \cup tokensOf(s))
            = Cardinality(all(S)) + Cardinality(tokensOf(s)) - Cardinality(all(S) \cap tokensOf(s))
      BY <1>2, <2>3, FS_Union
    <2>6. Cardinality(all(S) \cap tokensOf(s)) = 0 /\ Cardinality(all(S)) \in Nat
      BY <1>2, <2>2, FS_EmptySet, FS_CardinalityType
    <2>7. \A n, k \in Nat : n + k - 0 = n + k
      OBVIOUS
    <2>8. Cardinality(all(S) \cup tokensOf(s)) = Cardinality(all(S)) + recommendedTokens(s) - 0
      BY <2>3, <2>5, <2>6
    <2> QED
      BY <2>1, <2>4, <2>6, <2>7, <2>8
  <1> HIDE DEF tokensOf, all
  <1> QED
    BY <1>1, <1>2, <1>3, FS_CardinalityType

-----------------------------------------------------------------------------
(* The rows that take part, and what the composition may say of a row that *)
(* it does not select.                                                     *)
rankable == passed \ separated
Reasons == {"USER_INVOCATION_ONLY", "none", "CONTENT_OVERSIZED", "TOKEN_BUDGET", "separated"}
Verdict == [id : Skill, why : Reasons]

Sorted(seq) == \A i, j \in DOMAIN seq : i < j => precedes(seq[i], seq[j])
AllBefore(A, B) == \A a \in A, b \in B : precedes(a, b)
Ids(seq) == {c.id : c \in Members(seq)}

RouterTypes ==
  /\ RowsTyped
  /\ passed \subseteq loaded
  /\ ahead \in Seq(Skill) /\ kept \in Seq(Skill) /\ selected \in Seq(Skill)
  /\ candidates \in Seq(Verdict)

(* Before the composition nothing is chosen.                               *)
Unchosen == /\ selected = <<>> /\ candidates = <<>>
            /\ remaining = request.maxTokens /\ covered = {}

(* What the user named, refused or not, does not pass the filters, what    *)
(* passes is neither rejected nor separated.                               *)
Named == \A s \in explicit \cup refused : s \notin pool \/ ~ passes(s)

Filtered == /\ passed = {s \in pool : passes(s)}
            /\ rejected \cap separated = {}

(* A row that does not remain is covered by one before it that remains.    *)
Covered(s) == \E k \in Members(kept) : precedes(k, s) /\ coveredBy(k, s)

Suppressing ==
  /\ Members(kept) \cup Members(ahead) \subseteq rankable \ rejected
  /\ Sorted(kept) /\ Sorted(ahead) /\ AllBefore(Members(kept), Members(ahead))
  /\ \A s \in rankable \ (Members(kept) \cup Members(ahead)) : Covered(s)

Retained ==
  /\ Members(kept) \subseteq rankable \ rejected
  /\ \A s \in rankable \ Members(kept) : Covered(s)

(* Selected, passed over and to come: the rows that remain, in this order. *)
Partition ==
  /\ Sorted(ahead) /\ Sorted(selected) /\ Unique(candidates)
  /\ Members(kept) = Members(selected) \cup Ids(candidates) \cup Members(ahead)
  /\ Members(selected) \cap Ids(candidates) = {}
  /\ AllBefore(Members(selected) \cup Ids(candidates), Members(ahead))

(* The budget and the topics that the composition keeps count of.          *)
Account ==
  /\ remaining \in Nat
  /\ remaining + total(Members(selected)) = request.maxTokens
  /\ covered = UNION {topics(selected[i]) : i \in DOMAIN selected \cap 1..2}

(* Why there is no place for a skill that could be selected: the reasons   *)
(* that do not go away when rows after it are selected.                    *)
NoPlace(s) ==
  \/ Len(selected) = request.maxSkills
  \/ total({t \in Members(selected) : precedes(t, s)}) + recommendedTokens(s) > request.maxTokens
  \/ Len(selected) = 2 /\ topics(s) \subseteq topics(selected[1]) \cup topics(selected[2])

Excluded ==
  \A c \in Members(candidates) :
     /\ fitting(c.id) => NoPlace(c.id)
     /\ isUseful(c) /\ tier(c.id) < 3 => selected # <<>>

Composed ==
  /\ Members(selected) \cup Ids(candidates) \subseteq Members(kept)
  /\ Sorted(selected) /\ Unique(candidates)
  /\ Members(selected) \cap Ids(candidates) = {}
  /\ confidence # "LOW" <=> selected # <<>>
  /\ confidence # "LOW" => \A s \in Members(kept) \ Members(selected) : fitting(s) => NoPlace(s)

Answered == LeftOutForAReason /\ ConfidentAnswersSelect /\ RejectedIsNotRecommended

RouterIInv ==
  /\ RouterTypes /\ SelectionIsLawful
  /\ stage \in {"explicit", "failed", "filter", "rank", "suppress"} => Unchosen
  /\ stage \in {"explicit", "failed", "filter", "rank"} => kept = <<>>
  /\ stage \notin {"explicit", "failed"} => Named
  /\ stage \notin {"explicit", "failed", "filter"} => Filtered
  /\ stage = "rank" => rejected \cap passed = {}
  /\ stage = "suppress" => Suppressing
  /\ stage \in {"compose", "assess", "assemble"} => Retained
  /\ stage \in {"compose", "assess"} => Partition /\ Account /\ Excluded
  /\ stage = "assess" => ahead = <<>>
  /\ stage = "assemble" => Composed
  /\ Answered

-----------------------------------------------------------------------------
(* The task and the rows never change, and nothing that depends on them.   *)
LEMMA SameInputs ==
  ASSUME UNCHANGED inputs
  PROVE  /\ RowsTyped' = RowsTyped
         /\ request' = request /\ rows' = rows
         /\ intended' = intended /\ loaded' = loaded
         /\ \A s : governed(s)' = governed(s)
         /\ \A s : passes(s)' = passes(s)
         /\ \A s : evidence(s)' = evidence(s)
         /\ \A s : recommendedTokens(s)' = recommendedTokens(s)
         /\ \A s : topics(s)' = topics(s)
         /\ \A s : tier(s)' = tier(s)
         /\ \A s : fitting(s)' = fitting(s)
         /\ \A S : total(S)' = total(S)
         /\ \A s, t : precedes(s, t)' = precedes(s, t)
         /\ \A s, t : coveredBy(s, t)' = coveredBy(s, t)
  <1>1. rows' = rows /\ request' = request
    BY DEF inputs
  <1>2. /\ loaded' = loaded
        /\ RowsTyped' = RowsTyped
        /\ \A s : governed(s)' = governed(s)
        /\ \A s : passes(s)' = passes(s)
        /\ \A s : recommendedTokens(s)' = recommendedTokens(s)
    BY <1>1 DEF loaded, RowsTyped, governed, passes, platformMismatch, recommendedTokens, useL1
  <1>3. intended' = intended
    BY <1>1, <1>2 DEF intended
  <1>4. \A s, I : evidenceWith(s, I)' = evidenceWith(s, I)
    BY <1>1 DEF evidenceWith
  <1>5. \A s : evidence(s)' = evidence(s)
    BY <1>3, <1>4 DEF evidence
  <1>6. \A s : ftsRank(s)' = ftsRank(s)
    BY <1>1 DEF ftsRank
  <1>7. \A s, I : sortKey(s, I)' = sortKey(s, I)
    BY <1>2, <1>4, <1>6 DEF sortKey
  <1>8. \A s, t : precedes(s, t)' = precedes(s, t)
    BY <1>3, <1>7 DEF precedes
  <1>9. /\ \A s : topics(s)' = topics(s)
        /\ \A s : tier(s)' = tier(s)
    BY <1>5 DEF topics, tier
  <1>10. \A S : total(S)' = total(S)
    BY <1>2 DEF total
  <1>11. \A s, t : coveredBy(s, t)' = coveredBy(s, t)
    BY <1>2, <1>5, <1>9 DEF coveredBy
  <1>12. \A s : fitting(s)' = fitting(s)
    BY <1>1, <1>9 DEF fitting
  <1> QED
    BY <1>1, <1>2, <1>3, <1>5, <1>8, <1>9, <1>10, <1>11, <1>12

LEMMA SameFilters ==
  ASSUME UNCHANGED <<inputs, named, passed>>
  PROVE  /\ pool' = pool
         /\ separated' = separated /\ rankable' = rankable
         /\ Named' = Named
  <1>1. UNCHANGED inputs /\ explicit' = explicit /\ refused' = refused /\ passed' = passed
    BY DEF named
  <1>2. pool' = pool
    BY <1>1, SameInputs DEF pool
  <1>3. separated' = separated /\ rankable' = rankable
    BY <1>1, SameInputs DEF separated, rankable
  <1>4. Named' = Named
    BY <1>1, <1>2, SameInputs DEF Named
  <1> QED
    BY <1>2, <1>3, <1>4

LEMMA SameFiltered ==
  ASSUME UNCHANGED <<inputs, named, filtered>>
  PROVE  Filtered' = Filtered
  BY SameFilters, SameInputs DEF Filtered, filtered

LEMMA SameRetained ==
  ASSUME UNCHANGED <<inputs, named, filtered, kept>>
  PROVE  Retained' = Retained /\ \A s : Covered(s)' = Covered(s)
  <1>1. UNCHANGED inputs /\ kept' = kept /\ rejected' = rejected /\ rankable' = rankable
    BY SameFilters DEF filtered
  <1>2. \A s : Covered(s)' = Covered(s)
    BY <1>1, SameInputs DEF Covered
  <1> QED
    BY <1>1, <1>2 DEF Retained

LEMMA SameSelection ==
  ASSUME UNCHANGED <<inputs, selected>>
  PROVE  /\ SelectionIsLawful' = SelectionIsLawful
         /\ Sorted(selected)' = Sorted(selected)
         /\ \A s : NoPlace(s)' = NoPlace(s)
  <1>1. UNCHANGED inputs /\ selected' = selected
    OBVIOUS
  <1>2. SelectionIsLawful' = SelectionIsLawful
    BY <1>1, SameInputs DEF SelectionIsLawful
  <1>3. Sorted(selected)' = Sorted(selected)
    BY <1>1, SameInputs DEF Sorted
  <1>4. \A s : NoPlace(s)' = NoPlace(s)
    <2> SUFFICES ASSUME NEW s PROVE NoPlace(s)' = NoPlace(s)
      OBVIOUS
    <2>1. {t \in Members(selected) : precedes(t, s)}' = {t \in Members(selected) : precedes(t, s)}
      BY <1>1, SameInputs
    <2>2. total({t \in Members(selected) : precedes(t, s)})' = total({t \in Members(selected) : precedes(t, s)})
      BY <1>1, <2>1, SameInputs
    <2> QED
      BY <1>1, <2>2, SameInputs DEF NoPlace
  <1> QED
    BY <1>2, <1>3, <1>4

LEMMA NotYetDone ==
  ASSUME stage' # "done"
  PROVE  Answered'
  BY DEF Answered, LeftOutForAReason, ConfidentAnswersSelect, RejectedIsNotRecommended

-----------------------------------------------------------------------------
(* Looking at the rows one after another.                                  *)
LEMMA MembersOfNothing == Members(<<>>) = {} /\ Sorted(<<>>) /\ Unique(<<>>) /\ Ids(<<>>) = {}
  BY DEF Members, Sorted, Unique, Ids

LEMMA NextRow ==
  ASSUME RowsTyped, NEW V, NEW seq \in Seq(V), seq # <<>>
  PROVE  /\ Head(seq) \in V /\ Tail(seq) \in Seq(V)
         /\ Members(seq) = {Head(seq)} \cup Members(Tail(seq))
         /\ Sorted(seq) => Sorted(Tail(seq)) /\ AllBefore({Head(seq)}, Members(Tail(seq)))
  <1> DEFINE n == Len(seq)
             tail == Tail(seq)
  <1>1. n \in Nat /\ n > 0 /\ DOMAIN seq = 1 .. n /\ Head(seq) = seq[1] /\ \A i \in 1 .. n : seq[i] \in V
    OBVIOUS
  <1>2. /\ tail \in Seq(V)
        /\ DOMAIN tail = 1 .. n - 1
        /\ \A i \in 1 .. n - 1 : tail[i] = seq[i + 1]
    OBVIOUS
  <1> HIDE DEF n, tail
  <1>3. Members(seq) = {seq[1]} \cup Members(tail)
    <2>1. \A i \in 1 .. n : i = 1 \/ (i - 1 \in 1 .. n - 1 /\ seq[i] = tail[i - 1])
      <3> SUFFICES ASSUME NEW i \in 1 .. n, i # 1 PROVE i - 1 \in 1 .. n - 1 /\ seq[i] = tail[i - 1]
        OBVIOUS
      <3>1. i - 1 \in 1 .. n - 1 /\ (i - 1) + 1 = i
        BY <1>1
      <3> QED
        BY <1>2, <3>1
    <2>2. \A i \in 1 .. n - 1 : i + 1 \in 1 .. n
      BY <1>1
    <2>3. 1 \in 1 .. n
      BY <1>1
    <2>4. \A y \in Members(seq) : y = seq[1] \/ y \in Members(tail)
      <3> SUFFICES ASSUME NEW i \in 1 .. n PROVE seq[i] = seq[1] \/ seq[i] \in Members(tail)
        BY <1>1 DEF Members
      <3>1. i = 1 \/ (i - 1 \in DOMAIN tail /\ seq[i] = tail[i - 1])
        BY <1>2, <2>1
      <3> QED
        BY <3>1 DEF Members
    <2>5. \A y \in Members(tail) : y \in Members(seq)
      BY <1>1, <1>2, <2>2 DEF Members
    <2>6. seq[1] \in Members(seq)
      BY <1>1, <2>3 DEF Members
    <2> QED
      BY <2>4, <2>5, <2>6
  <1>4. ASSUME Sorted(seq)
        PROVE  Sorted(tail) /\ AllBefore({seq[1]}, Members(tail))
    <2>1. \A i \in 1 .. n - 1 : i + 1 \in 1 .. n /\ 1 < i + 1
      BY <1>1
    <2>2. 1 \in 1 .. n
      BY <1>1
    <2>3. \A i \in 1 .. n - 1 : precedes(seq[1], tail[i])
      BY <1>1, <1>2, <1>4, <2>1, <2>2 DEF Sorted
    <2>4. \A i, j \in 1 .. n - 1 : i < j => precedes(tail[i], tail[j])
      <3> SUFFICES ASSUME NEW i \in 1 .. n - 1, NEW j \in 1 .. n - 1, i < j
                   PROVE  precedes(tail[i], tail[j])
        OBVIOUS
      <3>1. i + 1 < j + 1 /\ i + 1 \in 1 .. n /\ j + 1 \in 1 .. n
        BY <1>1
      <3>2. precedes(seq[i + 1], seq[j + 1])
        BY <1>1, <1>4, <3>1 DEF Sorted
      <3> QED
        BY <1>2, <3>2
    <2> QED
      BY <1>2, <2>3, <2>4 DEF Sorted, AllBefore, Members
  <1> QED
    BY <1>1, <1>2, <1>3, <1>4 DEF tail

LEMMA OneRowMore ==
  ASSUME NEW V, NEW seq \in Seq(V), NEW x \in V
  PROVE  /\ Append(seq, x) \in Seq(V) /\ Len(Append(seq, x)) = Len(seq) + 1
         /\ Append(seq, x) # <<>>
         /\ \A i \in DOMAIN seq : Append(seq, x)[i] = seq[i]
         /\ Append(seq, x)[Len(seq) + 1] = x
         /\ Members(Append(seq, x)) = Members(seq) \cup {x}
  <1> DEFINE n == Len(seq)
             more == Append(seq, x)
  <1>1. n \in Nat /\ DOMAIN seq = 1 .. n /\ \A i \in 1 .. n : seq[i] \in V
    OBVIOUS
  <1>2. /\ more \in Seq(V) /\ Len(more) = n + 1 /\ DOMAIN more = 1 .. n + 1
        /\ \A i \in 1 .. n : more[i] = seq[i]
        /\ more[n + 1] = x /\ more # <<>>
    OBVIOUS
  <1> HIDE DEF n, more
  <1>3. \A i \in 1 .. n + 1 : i \in 1 .. n \/ i = n + 1
    BY <1>1
  <1>4. n + 1 \in 1 .. n + 1 /\ \A i \in 1 .. n : i \in 1 .. n + 1 /\ i # n + 1
    BY <1>1
  <1>5. Members(more) = Members(seq) \cup {x}
    BY <1>1, <1>2, <1>3, <1>4 DEF Members
  <1> QED
    BY <1>1, <1>2, <1>5 DEF more, n

LEMMA SortedOneMore ==
  ASSUME NEW V, NEW seq \in Seq(V), NEW x \in V,
         Sorted(seq), \A y \in Members(seq) : precedes(y, x)
  PROVE  Sorted(Append(seq, x))
  <1> DEFINE n == Len(seq)
             more == Append(seq, x)
  <1>1. n \in Nat /\ DOMAIN seq = 1 .. n
    OBVIOUS
  <1>2. /\ DOMAIN more = 1 .. n + 1 /\ more[n + 1] = x
        /\ \A i \in 1 .. n : more[i] = seq[i]
    OBVIOUS
  <1> HIDE DEF n, more
  <1> SUFFICES ASSUME NEW i \in 1 .. n + 1, NEW j \in 1 .. n + 1, i < j
               PROVE  precedes(more[i], more[j])
    BY <1>2 DEF Sorted, more
  <1>3. i \in 1 .. n
    BY <1>1
  <1>4. CASE j = n + 1
    BY <1>1, <1>2, <1>3, <1>4 DEF Members
  <1>5. CASE j \in 1 .. n
    BY <1>1, <1>2, <1>3, <1>5 DEF Sorted
  <1> QED
    BY <1>1, <1>4, <1>5


LEMMA OneVerdictMore ==
  ASSUME NEW seq \in Seq(Verdict), NEW x \in Verdict
  PROVE  /\ Append(seq, x) \in Seq(Verdict)
         /\ Members(Append(seq, x)) = Members(seq) \cup {x}
         /\ Ids(Append(seq, x)) = Ids(seq) \cup {x.id}
         /\ Unique(seq) /\ x.id \notin Ids(seq) => Unique(Append(seq, x))
  <1> DEFINE n == Len(seq)
             more == Append(seq, x)
  <1>1. n \in Nat /\ DOMAIN seq = 1 .. n
    OBVIOUS
  <1>2. /\ more \in Seq(Verdict) /\ DOMAIN more = 1 .. n + 1
        /\ \A i \in 1 .. n : more[i] = seq[i]
        /\ more[n + 1] = x
    OBVIOUS
  <1>5. Members(more) = Members(seq) \cup {x}
    BY OneRowMore
  <1> HIDE DEF n, more
  <1>3. \A i \in 1 .. n + 1 : i \in 1 .. n \/ i = n + 1
    BY <1>1
  <1>7. Ids(more) = Ids(seq) \cup {x.id}
    BY <1>5 DEF Ids
  <1>8. ASSUME Unique(seq), x.id \notin Ids(seq) PROVE Unique(more)
    <2>1. \A i \in 1 .. n : seq[i].id # x.id
      BY <1>1, <1>8 DEF Ids, Members
    <2> SUFFICES ASSUME NEW i \in 1 .. n + 1, NEW j \in 1 .. n + 1, i # j
                 PROVE  more[i].id # more[j].id
      BY <1>2 DEF Unique
    <2>2. CASE i = n + 1 \/ j = n + 1
      BY <1>2, <1>3, <2>1, <2>2
    <2>3. CASE i \in 1 .. n /\ j \in 1 .. n
      BY <1>1, <1>2, <1>8, <2>3 DEF Unique
    <2> QED
      BY <1>3, <2>2, <2>3
  <1> QED
    BY <1>2, <1>5, <1>7, <1>8 DEF more

-----------------------------------------------------------------------------
(* The stages up to the suppression.                                       *)
LEMMA RouterIInvInit == RouterInit => RouterIInv
  <1> SUFFICES ASSUME RouterInit PROVE RouterIInv
    OBVIOUS
  <1>1. RouterTypes /\ Unchosen /\ kept = <<>>
    BY DEF RouterInit, RouterTypes, RowsTyped, Unchosen
  <1>2. SelectionIsLawful
    <2>1. request.maxSkills \in Nat /\ request.maxTokens \in Nat
      BY RequestAssumption DEF RouterInit
    <2>2. Members(selected) = {} /\ Len(selected) = 0
      BY <1>1, MembersOfNothing DEF Unchosen
    <2> QED
      BY <2>1, <2>2, TotalOfNothing DEF SelectionIsLawful
  <1>3. stage = "explicit"
    BY DEF RouterInit
  <1>4. Answered
    BY <1>3 DEF Answered, LeftOutForAReason, ConfidentAnswersSelect, RejectedIsNotRecommended
  <1> QED
    BY <1>1, <1>2, <1>3, <1>4 DEF RouterIInv

LEMMA ExplicitStep ==
  ASSUME RouterIInv, resolveExplicitSkills
  PROVE  RouterIInv'
  <1>1. /\ stage = "explicit" /\ stage' \in {"failed", "filter"}
        /\ UNCHANGED <<inputs, filtered, ahead, kept, composed, confidence>>
    BY DEF resolveExplicitSkills
  <1>2. /\ UNCHANGED inputs /\ UNCHANGED <<passed, ahead, kept, selected, candidates, remaining, covered>>
    BY <1>1 DEF filtered, composed
  <1>3. RouterTypes' /\ SelectionIsLawful'
    BY <1>2, SameInputs, SameSelection DEF RouterIInv, RouterTypes
  <1>4. Unchosen' /\ kept' = <<>>
    BY <1>1, <1>2, SameInputs DEF RouterIInv, Unchosen
  <1>5. ASSUME stage' = "filter" PROVE Named'
    <2>1. /\ explicit' = {s \in request.references :
                s \notin request.denied /\ s \in loaded /\ request.binding[s] # "contradicted"}
          /\ refused' = request.references \ explicit'
      BY <1>5 DEF resolveExplicitSkills
    <2>2. pool' = {s \in loaded \ explicit' : request.binding[s] # "contradicted"}
      BY <1>2, SameInputs DEF pool
    <2>3. \A s : passes(s) => s \notin request.denied
      BY DEF passes
    <2>4. \A s \in explicit' \cup refused' : s \notin pool' \/ ~ passes(s)
      BY <2>1, <2>2, <2>3
    <2> QED
      BY <1>2, <2>4, SameInputs DEF Named
  <1>6. Answered'
    BY <1>1, NotYetDone
  <1> QED
    BY <1>1, <1>3, <1>4, <1>5, <1>6 DEF RouterIInv

LEMMA FilterStep ==
  ASSUME RouterIInv, applyAutomaticFilters
  PROVE  RouterIInv'
  <1>1. /\ stage = "filter" /\ stage' = "rank"
        /\ passed' = {s \in pool : passes(s)} /\ rejected' = pool \ passed'
        /\ UNCHANGED <<inputs, named, ahead, kept, composed, confidence>>
    BY DEF applyAutomaticFilters
  <1>2. /\ UNCHANGED inputs /\ UNCHANGED <<explicit, refused, ahead, kept, selected, candidates, remaining, covered>>
    BY <1>1 DEF named, composed
  <1>3. pool' = pool
    BY <1>2, SameInputs DEF pool
  <1>4. RouterTypes' /\ SelectionIsLawful'
    BY <1>1, <1>2, SameInputs, SameSelection DEF RouterIInv, RouterTypes, pool
  <1>5. Unchosen' /\ kept' = <<>>
    BY <1>1, <1>2, SameInputs DEF RouterIInv, Unchosen
  <1>6. Named'
    BY <1>1, <1>2, <1>3, SameInputs DEF RouterIInv, Named
  <1>7. Filtered' /\ rejected' \cap passed' = {}
    BY <1>1, <1>2, <1>3, SameInputs DEF Filtered, separated
  <1>8. Answered'
    BY <1>1, NotYetDone
  <1> QED
    BY <1>1, <1>4, <1>5, <1>6, <1>7, <1>8 DEF RouterIInv

LEMMA RankStep ==
  ASSUME RouterIInv, assignTiers
  PROVE  RouterIInv'
  <1>1. /\ stage = "rank" /\ stage' = "suppress"
        /\ ahead' = ranked(rankable, intended)
        /\ UNCHANGED <<inputs, named, filtered, kept, composed, confidence>>
    BY DEF assignTiers, rankable
  <1>2. /\ UNCHANGED inputs /\ UNCHANGED <<passed, rejected, kept, selected, candidates, remaining, covered>>
    BY <1>1 DEF filtered, composed
  <1>3. RowsTyped /\ rankable \in SUBSET loaded /\ loaded \subseteq Skill
    BY LoadedRows DEF RouterIInv, RouterTypes, rankable
  <1>4. ahead' \in Seq(rankable) /\ Members(ahead') = rankable
    BY <1>1, <1>3, RankedOrder
  <1>5. Sorted(ahead)'
    <2>1. \A i, j \in DOMAIN ahead' : i < j => precedes(ahead'[i], ahead'[j])
      BY <1>1, <1>3, RankedOrder DEF precedes
    <2> QED
      BY <1>2, <2>1, SameInputs DEF Sorted
  <1>6. ahead' \in Seq(Skill)
    BY <1>3, <1>4
  <1>7. RouterTypes' /\ SelectionIsLawful'
    BY <1>2, <1>6, SameInputs, SameSelection DEF RouterIInv, RouterTypes
  <1>8. Unchosen'
    BY <1>1, <1>2, SameInputs DEF RouterIInv, Unchosen
  <1>9. Named' /\ Filtered' /\ rankable' = rankable
    BY <1>1, <1>2, SameFilters, SameFiltered DEF RouterIInv
  <1>10. Suppressing'
    <2>1. kept' = <<>> /\ Members(kept') = {} /\ Sorted(kept)'
      BY <1>1, <1>2, MembersOfNothing DEF RouterIInv, Sorted
    <2>2. rankable \cap rejected = {}
      BY <1>1 DEF RouterIInv, rankable
    <2> QED
      BY <1>2, <1>4, <1>5, <1>9, <2>1, <2>2 DEF Suppressing, AllBefore
  <1>11. Answered'
    BY <1>1, NotYetDone
  <1> QED
    BY <1>1, <1>7, <1>8, <1>9, <1>10, <1>11 DEF RouterIInv

LEMMA SuppressRowStep ==
  ASSUME RouterIInv, suppressRow
  PROVE  RouterIInv'
  <1> DEFINE s == Head(ahead)
             isCovered == \E k \in Members(kept) : coveredBy(k, s)
  <1>1. /\ stage = "suppress" /\ stage' = "suppress" /\ ahead # <<>> /\ ahead' = Tail(ahead)
        /\ IF isCovered THEN rejected' = rejected \cup {s} /\ UNCHANGED kept
                        ELSE kept' = Append(kept, s) /\ UNCHANGED rejected
        /\ UNCHANGED <<inputs, named, passed, composed, confidence>>
    BY DEF suppressRow
  <1>2. UNCHANGED inputs /\ UNCHANGED <<selected, candidates, remaining, covered>>
    BY <1>1 DEF composed
  <1>3. RowsTyped /\ passed \subseteq loaded /\ ahead \in Seq(Skill) /\ kept \in Seq(Skill)
    BY DEF RouterIInv, RouterTypes
  <1>4. /\ s \in Skill /\ ahead' \in Seq(Skill)
        /\ Members(ahead) = {s} \cup Members(ahead')
        /\ Sorted(ahead) => Sorted(ahead') /\ AllBefore({s}, Members(ahead'))
    BY <1>1, <1>3, NextRow
  <1>5. /\ Append(kept, s) \in Seq(Skill)
        /\ Members(Append(kept, s)) = Members(kept) \cup {s}
    <2>1. kept \in Seq(Skill) /\ s \in Skill
      BY <1>3, <1>4
    <2> HIDE DEF s
    <2> QED
      BY <2>1, OneRowMore
  <1>6. /\ Members(kept) \cup Members(ahead) \subseteq rankable \ rejected
        /\ Sorted(kept) /\ Sorted(ahead) /\ AllBefore(Members(kept), Members(ahead))
        /\ \A t \in rankable \ (Members(kept) \cup Members(ahead)) : Covered(t)
        /\ Named /\ Filtered /\ Unchosen
    BY <1>1 DEF RouterIInv, Suppressing
  <1> HIDE DEF s, isCovered
  <1>7. /\ s \in rankable /\ s \notin Members(kept) /\ s \notin Members(ahead')
        /\ rankable \subseteq loaded /\ rankable \cap separated = {}
    <2>1. s \in rankable /\ rankable \subseteq loaded /\ rankable \cap separated = {}
      BY <1>3, <1>4, <1>6 DEF rankable
    <2>2. ~ precedes(s, s)
      BY <1>3, <2>1, PrecedesIsOrder
    <2> QED
      BY <1>4, <1>6, <2>1, <2>2 DEF AllBefore
  <1>8. Named' /\ rankable' = rankable /\ separated' = separated /\ pool' = pool
    BY <1>1, <1>6, SameFilters
  <1>9. RouterTypes' /\ SelectionIsLawful' /\ Unchosen'
    <2>1. kept' \in Seq(Skill)
      BY <1>1, <1>3, <1>5
    <2> QED
      BY <1>1, <1>2, <1>3, <1>4, <1>6, <2>1, SameInputs, SameSelection DEF RouterIInv, RouterTypes, Unchosen
  <1>10. Filtered'
    <2>1. rejected' \subseteq rejected \cup {s}
      BY <1>1
    <2> QED
      BY <1>1, <1>2, <1>6, <1>7, <1>8, <2>1, SameInputs DEF Filtered
  <1>11. Suppressing'
    <2>1. CASE isCovered
      <3>1. rejected' = rejected \cup {s} /\ kept' = kept
        BY <1>1, <2>1
      <3>2. \E k \in Members(kept) : precedes(k, s) /\ coveredBy(k, s)
        BY <1>4, <1>6, <2>1 DEF AllBefore, isCovered
      <3>3. \A t \in rankable \ (Members(kept) \cup Members(ahead')) : Covered(t)
        BY <1>4, <1>6, <3>2 DEF Covered
      <3>4. /\ Members(kept) \cup Members(ahead') \subseteq rankable \ rejected'
            /\ AllBefore(Members(kept), Members(ahead'))
        BY <1>4, <1>6, <1>7, <3>1 DEF AllBefore
      <3>5. Sorted(kept)' /\ Sorted(ahead)' /\ AllBefore(Members(kept), Members(ahead))'
        BY <1>2, <1>4, <1>6, <3>1, <3>4, SameInputs DEF Sorted, AllBefore
      <3>6. \A t \in rankable \ (Members(kept) \cup Members(ahead')) : Covered(t)'
        BY <1>2, <3>1, <3>3, SameInputs DEF Covered
      <3> QED
        BY <1>8, <3>1, <3>4, <3>5, <3>6 DEF Suppressing
    <2>2. CASE ~ isCovered
      <3>1. kept' = Append(kept, s) /\ rejected' = rejected
        BY <1>1, <2>2
      <3>2. Members(kept') = Members(kept) \cup {s}
        BY <1>5, <3>1
      <3>3. AllBefore(Members(kept), {s}) /\ AllBefore(Members(kept'), Members(ahead'))
        BY <1>4, <1>6, <3>2 DEF AllBefore
      <3>4. Sorted(kept')
        <4>1. kept \in Seq(Skill) /\ s \in Skill /\ Sorted(kept) /\ \A y \in Members(kept) : precedes(y, s)
          BY <1>3, <1>4, <1>6, <3>3 DEF AllBefore
        <4>2. Sorted(Append(kept, s))
          BY <4>1, SortedOneMore
        <4> QED
          BY <3>1, <4>2
      <3>5. Sorted(kept)' /\ Sorted(ahead)' /\ AllBefore(Members(kept), Members(ahead))'
        BY <1>2, <1>4, <1>6, <3>3, <3>4, SameInputs DEF Sorted, AllBefore
      <3>6. \A t \in rankable \ (Members(kept') \cup Members(ahead')) : Covered(t)'
        BY <1>2, <1>4, <1>6, <3>2, SameInputs DEF Covered
      <3>7. Members(kept') \cup Members(ahead') \subseteq rankable \ rejected
        BY <1>4, <1>6, <3>2
      <3> QED
        BY <1>8, <3>1, <3>5, <3>6, <3>7 DEF Suppressing
    <2> QED
      BY <2>1, <2>2
  <1>12. Answered'
    BY <1>1, NotYetDone
  <1> QED
    BY <1>1, <1>8, <1>9, <1>10, <1>11, <1>12 DEF RouterIInv

LEMMA SuppressedStep ==
  ASSUME RouterIInv, suppressed
  PROVE  RouterIInv'
  <1>1. /\ stage = "suppress" /\ stage' = "compose" /\ ahead = <<>> /\ ahead' = kept
        /\ UNCHANGED <<inputs, named, filtered, kept, composed, confidence>>
    BY DEF suppressed
  <1>2. UNCHANGED inputs /\ UNCHANGED <<named, filtered, passed, kept, selected, candidates, remaining, covered>>
    BY <1>1 DEF composed, filtered
  <1>3. RouterTypes' /\ SelectionIsLawful'
    BY <1>1, <1>2, SameInputs, SameSelection DEF RouterIInv, RouterTypes
  <1>4. Named' /\ Filtered'
    BY <1>1, <1>2, SameFilters, SameFiltered DEF RouterIInv
  <1>5. Members(ahead) = {} /\ Suppressing /\ Unchosen
    BY <1>1, MembersOfNothing DEF RouterIInv
  <1>6. Retained'
    <2>1. Retained
      BY <1>5 DEF Suppressing, Retained
    <2> QED
      BY <1>2, <2>1, SameRetained
  <1>7. /\ selected' = <<>> /\ candidates' = <<>> /\ remaining' = request.maxTokens /\ covered' = {}
        /\ Members(selected') = {} /\ Ids(candidates') = {} /\ Unique(candidates')
    BY <1>2, <1>5, MembersOfNothing DEF Unchosen
  <1>8. Partition'
    <2>1. Sorted(ahead)' /\ Sorted(selected)'
      BY <1>1, <1>2, <1>5, <1>7, SameInputs DEF Suppressing, Sorted
    <2> QED
      BY <1>1, <1>2, <1>7, <2>1 DEF Partition, AllBefore
  <1>9. Account'
    <2>1. request'.maxTokens = request.maxTokens /\ request.maxTokens \in Nat
      BY <1>2, SameInputs, RequestAssumption DEF RouterIInv, RouterTypes, RowsTyped
    <2>2. total({})' = 0
      BY <1>2, TotalOfNothing, SameInputs
    <2>3. total(Members(selected))' = 0
      BY <1>7, <2>2
    <2>4. covered' = UNION {topics(selected[i]) : i \in DOMAIN selected \cap 1..2}'
      BY <1>7
    <2> QED
      BY <1>7, <2>1, <2>3, <2>4 DEF Account
  <1>10. Excluded'
    BY <1>7, MembersOfNothing DEF Excluded
  <1>11. Answered'
    BY <1>1, NotYetDone
  <1> QED
    BY <1>1, <1>3, <1>4, <1>6, <1>8, <1>9, <1>10, <1>11 DEF RouterIInv

LEMMA ComposedAllStep ==
  ASSUME RouterIInv, composedAll
  PROVE  RouterIInv'
  <1>1. /\ stage = "compose" /\ stage' = "assess" /\ ahead = <<>>
        /\ UNCHANGED <<inputs, named, filtered, ahead, kept, composed, confidence>>
    BY DEF composedAll
  <1>2. UNCHANGED inputs /\ UNCHANGED <<passed, kept, selected, candidates, remaining, covered>>
    BY <1>1 DEF composed, filtered
  <1>3. RouterTypes' /\ SelectionIsLawful'
    BY <1>1, <1>2, SameInputs, SameSelection DEF RouterIInv, RouterTypes
  <1>4. Named' /\ Filtered' /\ Retained'
    BY <1>1, <1>2, SameFilters, SameFiltered, SameRetained DEF RouterIInv
  <1>5. Partition'
    BY <1>1, <1>2, SameInputs DEF RouterIInv, Partition, Sorted, AllBefore
  <1>6. Account'
    BY <1>1, <1>2, SameInputs DEF RouterIInv, Account
  <1>7. Excluded'
    BY <1>1, <1>2, SameInputs, SameSelection DEF RouterIInv, Excluded, isUseful
  <1>8. Answered'
    BY <1>1, NotYetDone
  <1> QED
    BY <1>1, <1>3, <1>4, <1>5, <1>6, <1>7, <1>8 DEF RouterIInv

-----------------------------------------------------------------------------
(* The composition.                                                        *)
LEMMA RowInTurn ==
  ASSUME RouterIInv, stage = "compose", ahead # <<>>, NEW s, s = Head(ahead)
  PROVE  /\ RowsTyped /\ s \in loaded /\ s \in Skill /\ Members(kept) \subseteq loaded
         /\ Tail(ahead) \in Seq(Skill) /\ Members(ahead) = {s} \cup Members(Tail(ahead))
         /\ Sorted(Tail(ahead)) /\ AllBefore({s}, Members(Tail(ahead)))
         /\ s \notin Members(selected) /\ s \notin Ids(candidates)
         /\ AllBefore(Members(selected) \cup Ids(candidates), {s})
         /\ AllBefore(Members(selected) \cup Ids(candidates), Members(Tail(ahead)))
         /\ request.maxSkills \in 1..3 /\ request.maxTokens \in Nat /\ recommendedTokens(s) \in Nat
         /\ tier(s) \in 1..3
  <1>1. /\ RowsTyped /\ passed \subseteq loaded /\ ahead \in Seq(Skill) /\ Retained /\ Partition
    BY DEF RouterIInv, RouterTypes
  <1>2. /\ s \in Skill /\ Tail(ahead) \in Seq(Skill)
        /\ Members(ahead) = {s} \cup Members(Tail(ahead))
        /\ Sorted(ahead) => Sorted(Tail(ahead)) /\ AllBefore({s}, Members(Tail(ahead)))
    BY <1>1, NextRow
  <1>3. Members(kept) \subseteq loaded /\ s \in loaded
    BY <1>1, <1>2 DEF Retained, Partition, rankable
  <1>4. /\ AllBefore(Members(selected) \cup Ids(candidates), {s})
        /\ AllBefore(Members(selected) \cup Ids(candidates), Members(Tail(ahead)))
        /\ Sorted(ahead)
    BY <1>1, <1>2 DEF Partition, AllBefore
  <1>5. s \notin Members(selected) /\ s \notin Ids(candidates)
    BY <1>1, <1>3, <1>4, PrecedesIsOrder DEF AllBefore
  <1>6. request.maxSkills \in 1..3 /\ request.maxTokens \in Nat
    BY <1>1, RequestAssumption DEF RowsTyped
  <1>7. recommendedTokens(s) \in Nat /\ tier(s) \in 1..3
    BY <1>1, <1>3, LoadedRows DEF tier, tierOf
  <1> QED
    BY <1>1, <1>2, <1>3, <1>4, <1>5, <1>6, <1>7

(* Whatever is selected next takes no place away from a row before it.     *)
LEMMA PlacesStayTaken ==
  ASSUME RouterIInv, stage = "compose", ahead # <<>>, room(Head(ahead)),
         NEW t \in Ids(candidates), NoPlace(t),
         UNCHANGED inputs, selected' = Append(selected, Head(ahead))
  PROVE  NoPlace(t)'
  <1> DEFINE s == Head(ahead)
             earlier == {u \in Members(selected) : precedes(u, t)}
  <1>1. /\ RowsTyped /\ s \in loaded /\ s \in Skill /\ t \in loaded
        /\ AllBefore(Ids(candidates), {s}) /\ request.maxSkills \in 1..3
    BY RowInTurn DEF RouterIInv, Partition, AllBefore
  <1>2. selected \in Seq(Skill) /\ Len(selected) <= request.maxSkills
    BY DEF RouterIInv, RouterTypes, SelectionIsLawful
  <1>3. /\ Len(selected') = Len(selected) + 1
        /\ Members(selected') = Members(selected) \cup {s}
        /\ Len(selected) \in Nat
    <2>1. selected \in Seq(Skill) /\ s \in Skill /\ selected' = Append(selected, s)
      BY <1>1, <1>2
    <2> HIDE DEF s
    <2>2. /\ Len(Append(selected, s)) = Len(selected) + 1
          /\ Members(Append(selected, s)) = Members(selected) \cup {s}
      BY <2>1, OneRowMore
    <2> QED
      BY <2>1, <2>2
  <1>4. Len(selected) = 2 => request.maxSkills = 3
    BY DEF room
  <1>5. Len(selected) # request.maxSkills
    BY <1>1, <1>3, <1>4 DEF room
  <1>6. ~ precedes(s, t)
    BY <1>1, PrecedesIsOrder DEF AllBefore
  <1>7. {u \in Members(selected') : precedes(u, t)} = earlier
    BY <1>3, <1>6
  <1>8. total({u \in Members(selected) : precedes(u, t)})' = total(earlier)
    BY <1>7, SameInputs
  <1>9. CASE Len(selected) = 2
    BY <1>3, <1>4, <1>9, SameInputs DEF NoPlace
  <1>10. CASE total(earlier) + recommendedTokens(t) > request.maxTokens
    BY <1>8, <1>10, SameInputs DEF NoPlace
  <1> QED
    BY <1>5, <1>9, <1>10 DEF NoPlace

LEMMA SelectStep ==
  ASSUME RouterIInv, composeRow, deferred(Head(ahead)) = "fits", room(Head(ahead))
  PROVE  RouterIInv'
  <1> DEFINE s == Head(ahead)
  <1>1. /\ stage = "compose" /\ stage' = "compose" /\ ahead # <<>> /\ ahead' = Tail(ahead)
        /\ selected' = Append(selected, s)
        /\ remaining' = remaining - recommendedTokens(s)
        /\ covered' = IF Len(selected) < 2 THEN covered \cup topics(s) ELSE covered
        /\ UNCHANGED candidates
        /\ UNCHANGED <<inputs, named, filtered, kept, confidence>>
    BY DEF composeRow
  <1>2. UNCHANGED inputs /\ UNCHANGED <<passed, kept>>
    BY <1>1 DEF filtered
  <1>3. /\ RowsTyped /\ s \in loaded /\ s \in Skill /\ Members(kept) \subseteq loaded
        /\ ahead' \in Seq(Skill) /\ Members(ahead) = {s} \cup Members(ahead')
        /\ Sorted(ahead') /\ AllBefore({s}, Members(ahead'))
        /\ s \notin Members(selected) /\ s \notin Ids(candidates)
        /\ AllBefore(Members(selected) \cup Ids(candidates), {s})
        /\ AllBefore(Members(selected) \cup Ids(candidates), Members(ahead'))
        /\ request.maxSkills \in 1..3 /\ request.maxTokens \in Nat /\ recommendedTokens(s) \in Nat
        /\ tier(s) \in 1..3
    BY <1>1, RowInTurn
  <1>4. selected \in Seq(Skill) /\ Partition /\ Account /\ Excluded /\ SelectionIsLawful
    BY <1>1 DEF RouterIInv, RouterTypes
  <1>5. fitting(s) /\ recommendedTokens(s) <= remaining
    <2>1. ~ rows[s].userOnly /\ tier(s) # 3 /\ ~ rows[s].oversized /\ ~ (recommendedTokens(s) > remaining)
      BY DEF deferred
    <2> QED
      BY <1>3, <1>4, <2>1 DEF fitting, Account
  <1>6. room(s)
    OBVIOUS
  <1>7. \A c \in Members(candidates) : NoPlace(c.id) => NoPlace(c.id)'
    BY <1>1, PlacesStayTaken DEF Ids
  <1> HIDE DEF s
  <1>8. /\ selected' \in Seq(Skill) /\ Len(selected') = Len(selected) + 1 /\ selected' # <<>>
        /\ \A i \in DOMAIN selected : selected'[i] = selected[i]
        /\ selected'[Len(selected) + 1] = s
        /\ Members(selected') = Members(selected) \cup {s}
    <2>1. selected \in Seq(Skill) /\ s \in Skill
      BY <1>3, <1>4
    <2>2. /\ Append(selected, s) \in Seq(Skill) /\ Len(Append(selected, s)) = Len(selected) + 1
          /\ Append(selected, s) # <<>>
          /\ \A i \in DOMAIN selected : Append(selected, s)[i] = selected[i]
          /\ Append(selected, s)[Len(selected) + 1] = s
          /\ Members(Append(selected, s)) = Members(selected) \cup {s}
      BY <2>1, OneRowMore
    <2> QED
      BY <1>1, <2>2
  <1>9. Len(selected) \in Nat /\ DOMAIN selected = 1 .. Len(selected) /\ DOMAIN selected' = 1 .. Len(selected) + 1
    BY <1>4, <1>8
  <1>10. Members(selected) \subseteq loaded
    BY <1>3, <1>4 DEF Partition
  <1>11. total(Members(selected')) = total(Members(selected)) + recommendedTokens(s) /\ total(Members(selected)) \in Nat
    BY <1>3, <1>8, <1>10, TotalOfMore
  <1>12. remaining' \in Nat /\ remaining' + total(Members(selected')) = request.maxTokens
    <2>1. /\ remaining \in Nat /\ remaining + total(Members(selected)) = request.maxTokens
          /\ remaining' = remaining - recommendedTokens(s)
      BY <1>1, <1>4 DEF Account
    <2> QED
      BY <1>3, <1>5, <1>11, <2>1
  <1>13. covered' = UNION {topics(selected'[i]) : i \in DOMAIN selected' \cap 1..2}
    <2>1. covered = UNION {topics(selected[i]) : i \in DOMAIN selected \cap 1..2}
      BY <1>4 DEF Account
    <2>2. CASE Len(selected) < 2
      <3>1. \A i : i \in DOMAIN selected' \cap 1..2 <=> i \in DOMAIN selected \cap 1..2 \/ i = Len(selected) + 1
        BY <1>9, <2>2
      <3>2. covered' = covered \cup topics(s)
        BY <1>1, <2>2
      <3> QED
        BY <1>8, <2>1, <3>1, <3>2
    <2>3. CASE ~ (Len(selected) < 2)
      <3>1. \A i : i \in DOMAIN selected' \cap 1..2 <=> i \in DOMAIN selected \cap 1..2
        BY <1>9, <2>3
      <3>2. covered' = covered
        BY <1>1, <2>3
      <3> QED
        BY <1>8, <2>1, <3>1, <3>2
    <2> QED
      BY <2>2, <2>3
  <1>14. Account'
    <2>1. total(Members(selected))' = total(Members(selected'))
      BY <1>2, SameInputs
    <2>2. covered' = UNION {topics(selected[i]) : i \in DOMAIN selected \cap 1..2}'
      BY <1>2, <1>13, SameInputs
    <2> QED
      BY <1>2, <1>12, <2>1, <2>2, SameInputs DEF Account
  <1>15. SelectionIsLawful'
    <2>1. Len(selected') <= request.maxSkills
      BY <1>3, <1>6, <1>8, <1>9 DEF room
    <2>2. total(Members(selected')) <= request.maxTokens
      <3>1. total(Members(selected')) \in Nat
        BY <1>3, <1>11
      <3> QED
        BY <1>3, <1>12, <3>1
    <2>3. \A t \in Members(selected') : tier(t) < 3 /\ ~ rows[t].userOnly /\ ~ rows[t].oversized
      BY <1>4, <1>5, <1>8 DEF SelectionIsLawful, fitting
    <2>4. ASSUME Len(selected') = 3
          PROVE  \/ of(evidence(selected'[3]), Intent) # {}
                 \/ ~(topics(selected'[3]) \subseteq topics(selected'[1]) \cup topics(selected'[2]))
      <3>1. Len(selected) = 2 /\ selected'[3] = s
        <4>1. Len(selected) = 2
          <5>1. Len(selected) + 1 = 3 /\ Len(selected) \in Nat
            BY <1>8, <1>9, <2>4
          <5>2. \A n \in Nat : n + 1 = 3 => n = 2
            OBVIOUS
          <5> QED
            BY <5>1, <5>2
        <4> QED
          BY <1>8, <4>1
      <3>2. hasUniqueStrongValue(s)
        BY <1>6, <3>1 DEF room
      <3>3. covered = topics(selected[1]) \cup topics(selected[2])
        <4>1. \A i : i \in DOMAIN selected \cap 1..2 <=> i = 1 \/ i = 2
          BY <1>9, <3>1
        <4> QED
          BY <1>4, <4>1 DEF Account
      <3>4. selected'[1] = selected[1] /\ selected'[2] = selected[2]
        BY <1>8, <1>9, <3>1
      <3> QED
        BY <3>1, <3>2, <3>3, <3>4 DEF hasUniqueStrongValue
    <2> QED
      BY <1>2, <2>1, <2>2, <2>3, <2>4, SameInputs DEF SelectionIsLawful
  <1>16. Partition'
    <2>0. Sorted(selected')
      <3>1. selected \in Seq(Skill) /\ s \in Skill /\ Sorted(selected) /\ \A y \in Members(selected) : precedes(y, s)
        BY <1>3, <1>4 DEF Partition, AllBefore
      <3>2. Sorted(Append(selected, s))
        BY <3>1, SortedOneMore
      <3> QED
        BY <1>1, <3>2
    <2>1. Sorted(selected') /\ AllBefore(Members(selected') \cup Ids(candidates), Members(ahead'))
      BY <1>3, <1>4, <1>8, <2>0 DEF Partition, AllBefore
    <2>2. Sorted(ahead)' /\ Sorted(selected)'
      BY <1>2, <1>3, <2>1, SameInputs DEF Sorted
    <2>3. AllBefore(Members(selected) \cup Ids(candidates), Members(ahead))'
      BY <1>1, <1>2, <2>1, SameInputs DEF AllBefore
    <2>4. /\ Members(kept) = Members(selected') \cup Ids(candidates) \cup Members(ahead')
          /\ Members(selected') \cap Ids(candidates) = {}
      BY <1>3, <1>4, <1>8 DEF Partition
    <2> QED
      BY <1>1, <1>4, <2>2, <2>3, <2>4 DEF Partition
  <1>17. Excluded'
    BY <1>1, <1>2, <1>4, <1>7, <1>8, SameInputs DEF Excluded, isUseful
  <1>18. RouterTypes'
    BY <1>1, <1>2, <1>3, <1>8, SameInputs DEF RouterIInv, RouterTypes
  <1>19. Named' /\ Filtered' /\ Retained'
    BY <1>1, <1>2, SameFilters, SameFiltered, SameRetained DEF RouterIInv
  <1>20. Answered'
    BY <1>1, NotYetDone
  <1> QED
    BY <1>1, <1>14, <1>15, <1>16, <1>17, <1>18, <1>19, <1>20 DEF RouterIInv

LEMMA PassOverStep ==
  ASSUME RouterIInv, composeRow, ~ (deferred(Head(ahead)) = "fits" /\ room(Head(ahead)))
  PROVE  RouterIInv'
  <1> DEFINE s == Head(ahead)
             why == IF deferred(s) = "fits" THEN "none" ELSE deferred(s)
             v == [id |-> s, why |-> why]
  <1>1. /\ stage = "compose" /\ stage' = "compose" /\ ahead # <<>> /\ ahead' = Tail(ahead)
        /\ candidates' = Append(candidates, v)
        /\ UNCHANGED <<selected, remaining, covered>>
        /\ UNCHANGED <<inputs, named, filtered, kept, confidence>>
    BY DEF composeRow
  <1>2. UNCHANGED inputs /\ UNCHANGED <<passed, kept, selected>>
    BY <1>1 DEF filtered
  <1>3. /\ RowsTyped /\ s \in loaded /\ s \in Skill /\ Members(kept) \subseteq loaded
        /\ ahead' \in Seq(Skill) /\ Members(ahead) = {s} \cup Members(ahead')
        /\ Sorted(ahead') /\ AllBefore({s}, Members(ahead'))
        /\ s \notin Members(selected) /\ s \notin Ids(candidates)
        /\ AllBefore(Members(selected) \cup Ids(candidates), {s})
        /\ AllBefore(Members(selected) \cup Ids(candidates), Members(ahead'))
        /\ request.maxSkills \in 1..3 /\ request.maxTokens \in Nat /\ recommendedTokens(s) \in Nat
        /\ tier(s) \in 1..3
    BY <1>1, RowInTurn
  <1>4. /\ selected \in Seq(Skill) /\ candidates \in Seq(Verdict)
        /\ Partition /\ Account /\ Excluded /\ SelectionIsLawful
    BY <1>1 DEF RouterIInv, RouterTypes
  <1>5. /\ why \in Reasons
        /\ why = "none" => tier(s) = 3 \/ (deferred(s) = "fits" /\ ~ room(s))
        /\ fitting(s) => recommendedTokens(s) > remaining \/ (deferred(s) = "fits" /\ ~ room(s))
    BY DEF deferred, fitting, Reasons
  <1>6. v \in Verdict /\ v.id = s /\ v.why = why
    BY <1>3, <1>5 DEF Verdict
  <1>7. ~ room(s) => Len(selected) # 0
    <2>1. \A most \in 1..3 : 0 < most /\ 0 # 2
      OBVIOUS
    <2>2. request.maxSkills \in 1..3
      BY <1>3
    <2>3. 0 < request.maxSkills
      BY <2>1, <2>2
    <2> QED
      BY <2>3 DEF room
  <1> HIDE DEF s, v, why
  <1>8. /\ candidates' \in Seq(Verdict)
        /\ Members(candidates') = Members(candidates) \cup {v}
        /\ Ids(candidates') = Ids(candidates) \cup {s}
        /\ Unique(candidates) /\ s \notin Ids(candidates) => Unique(candidates')
    BY <1>1, <1>4, <1>6, OneVerdictMore
  <1>9. ASSUME fitting(s) PROVE NoPlace(s)
    <2>1. CASE recommendedTokens(s) > remaining
      <3>1. {t \in Members(selected) : precedes(t, s)} = Members(selected)
        BY <1>3 DEF AllBefore
      <3>2. total(Members(selected)) \in Nat /\ remaining \in Nat /\ remaining + total(Members(selected)) = request.maxTokens
        <4>1. Members(selected) \in SUBSET loaded
          BY <1>3, <1>4 DEF Partition
        <4> QED
          BY <1>3, <1>4, <4>1, TotalOfMore DEF Account
      <3>3. total(Members(selected)) + recommendedTokens(s) > request.maxTokens
        BY <1>3, <2>1, <3>2
      <3> QED
        BY <3>1, <3>3 DEF NoPlace
    <2>2. CASE ~ room(s) /\ Len(selected) = 2 /\ request.maxSkills = 3
      <3>1. topics(s) \subseteq covered
        BY <2>2 DEF room, hasUniqueStrongValue
      <3>2. \A i : i \in DOMAIN selected \cap 1..2 <=> i = 1 \/ i = 2
        BY <1>4, <2>2
      <3>3. covered = topics(selected[1]) \cup topics(selected[2])
        BY <1>4, <3>2 DEF Account
      <3> QED
        BY <2>2, <3>1, <3>3 DEF NoPlace
    <2>3. CASE ~ room(s) /\ ~ (Len(selected) = 2 /\ request.maxSkills = 3)
      <3>1. Len(selected) \in Nat /\ Len(selected) <= request.maxSkills
        BY <1>4 DEF SelectionIsLawful
      <3>2. Len(selected) = 2 \/ ~ (Len(selected) < request.maxSkills)
        BY <2>3 DEF room
      <3>3. Len(selected) = request.maxSkills
        <4>1. \A n \in Nat, most \in 1..3 :
                 n <= most /\ (n = 2 \/ ~ (n < most)) /\ ~ (n = 2 /\ most = 3) => n = most
          OBVIOUS
        <4>2. request.maxSkills \in 1..3 /\ ~ (Len(selected) = 2 /\ request.maxSkills = 3)
          BY <1>3, <2>3
        <4> QED
          BY <3>1, <3>2, <4>1, <4>2
      <3> QED
        BY <3>3 DEF NoPlace
    <2> QED
      BY <1>5, <1>9, <2>1, <2>2, <2>3
  <1>10. isUseful(v) /\ tier(s) < 3 => selected # <<>>
    <2> SUFFICES ASSUME isUseful(v), tier(s) < 3 PROVE selected # <<>>
      OBVIOUS
    <2>1. ~ room(s)
      BY <1>3, <1>5, <1>6 DEF isUseful
    <2> QED
      BY <1>4, <1>7, <2>1
  <1>11. Excluded'
    BY <1>1, <1>2, <1>4, <1>6, <1>8, <1>9, <1>10, SameInputs, SameSelection DEF Excluded, isUseful
  <1>12. Partition'
    <2>1. /\ AllBefore(Members(selected) \cup Ids(candidates'), Members(ahead'))
          /\ Members(kept) = Members(selected) \cup Ids(candidates') \cup Members(ahead')
          /\ Members(selected) \cap Ids(candidates') = {}
          /\ Unique(candidates')
      BY <1>3, <1>4, <1>8 DEF Partition, AllBefore
    <2>2. Sorted(ahead)' /\ Sorted(selected)'
      BY <1>2, <1>3, <1>4, SameInputs DEF Partition, Sorted
    <2>3. AllBefore(Members(selected) \cup Ids(candidates), Members(ahead))'
      BY <1>1, <1>2, <2>1, SameInputs DEF AllBefore
    <2> QED
      BY <1>1, <2>1, <2>2, <2>3 DEF Partition
  <1>13. Account'
    BY <1>1, <1>2, <1>4, SameInputs DEF Account
  <1>14. RouterTypes' /\ SelectionIsLawful'
    BY <1>1, <1>2, <1>3, <1>8, SameInputs, SameSelection DEF RouterIInv, RouterTypes
  <1>15. Named' /\ Filtered' /\ Retained'
    BY <1>1, <1>2, SameFilters, SameFiltered, SameRetained DEF RouterIInv
  <1>16. Answered'
    BY <1>1, NotYetDone
  <1> QED
    BY <1>1, <1>11, <1>12, <1>13, <1>14, <1>15, <1>16 DEF RouterIInv

-----------------------------------------------------------------------------
(* The confidence and the answer.                                          *)
Marked(seq) == [i \in DOMAIN seq |-> [id |-> seq[i], why |-> "none"]]

LEMMA Joined ==
  ASSUME NEW a \in Seq(Verdict), NEW b \in Seq(Verdict)
  PROVE  /\ a \o b \in Seq(Verdict) /\ Len(a \o b) = Len(a) + Len(b)
         /\ Members(a \o b) = Members(a) \cup Members(b)
  <1> DEFINE ab == a \o b
  <1>1. /\ Len(a) \in Nat /\ Len(b) \in Nat /\ DOMAIN a = 1 .. Len(a) /\ DOMAIN b = 1 .. Len(b)
        /\ ab \in Seq(Verdict) /\ Len(ab) = Len(a) + Len(b) /\ DOMAIN ab = 1 .. Len(a) + Len(b)
        /\ \A i \in 1 .. Len(a) : ab[i] = a[i]
        /\ \A i \in 1 .. Len(b) : ab[Len(a) + i] = b[i]
    OBVIOUS
  <1> HIDE DEF ab
  <1>2. \A i \in 1 .. Len(a) + Len(b) : i \in 1 .. Len(a) \/ (i - Len(a) \in 1 .. Len(b) /\ Len(a) + (i - Len(a)) = i)
    BY <1>1
  <1>3. \A x \in Members(ab) : x \in Members(a) \cup Members(b)
    <2> SUFFICES ASSUME NEW i \in 1 .. Len(a) + Len(b) PROVE ab[i] \in Members(a) \cup Members(b)
      BY <1>1 DEF Members
    <2>1. CASE i \in 1 .. Len(a)
      BY <1>1, <2>1 DEF Members
    <2>2. CASE i - Len(a) \in 1 .. Len(b) /\ Len(a) + (i - Len(a)) = i
      <3>1. ab[i] = b[i - Len(a)]
        BY <1>1, <2>2
      <3> QED
        BY <1>1, <2>2, <3>1 DEF Members
    <2> QED
      BY <1>2, <2>1, <2>2
  <1>4. \A x \in Members(a) : x \in Members(ab)
    <2>1. \A i \in 1 .. Len(a) : i \in 1 .. Len(a) + Len(b)
      BY <1>1
    <2> QED
      BY <1>1, <2>1 DEF Members
  <1>5. \A x \in Members(b) : x \in Members(ab)
    <2>1. \A i \in 1 .. Len(b) : Len(a) + i \in 1 .. Len(a) + Len(b)
      BY <1>1
    <2> QED
      BY <1>1, <2>1 DEF Members
  <1> QED
    BY <1>1, <1>3, <1>4, <1>5 DEF ab

LEMMA JoinedUnique ==
  ASSUME NEW a \in Seq(Verdict), NEW b \in Seq(Verdict),
         Unique(a), Unique(b), Ids(a) \cap Ids(b) = {}
  PROVE  Unique(a \o b)
  <1> DEFINE ab == a \o b
  <1>1. /\ Len(a) \in Nat /\ Len(b) \in Nat /\ DOMAIN a = 1 .. Len(a) /\ DOMAIN b = 1 .. Len(b)
        /\ DOMAIN ab = 1 .. Len(a) + Len(b)
        /\ \A i \in 1 .. Len(a) : ab[i] = a[i]
        /\ \A i \in 1 .. Len(b) : ab[Len(a) + i] = b[i]
    OBVIOUS
  <1> SUFFICES ASSUME NEW i \in 1 .. Len(a) + Len(b), NEW j \in 1 .. Len(a) + Len(b), i # j
               PROVE  ab[i].id # ab[j].id
    BY <1>1 DEF Unique
  <1> HIDE DEF ab
  <1>2. \A k \in 1 .. Len(a) + Len(b) : k \in 1 .. Len(a) \/ (k - Len(a) \in 1 .. Len(b) /\ Len(a) + (k - Len(a)) = k)
    BY <1>1
  <1>3. \A k \in 1 .. Len(a) : ab[k].id \in Ids(a)
    BY <1>1 DEF Ids, Members
  <1>4. \A k \in 1 .. Len(a) + Len(b) : k - Len(a) \in 1 .. Len(b) /\ Len(a) + (k - Len(a)) = k
                                           => ab[k] = b[k - Len(a)] /\ ab[k].id \in Ids(b)
    <2> SUFFICES ASSUME NEW k \in 1 .. Len(a) + Len(b), k - Len(a) \in 1 .. Len(b), Len(a) + (k - Len(a)) = k
                 PROVE  ab[k] = b[k - Len(a)] /\ ab[k].id \in Ids(b)
      OBVIOUS
    <2>1. ab[k] = b[k - Len(a)]
      BY <1>1
    <2> QED
      BY <1>1, <2>1 DEF Ids, Members
  <1>5. CASE i \in 1 .. Len(a) /\ j \in 1 .. Len(a)
    BY <1>1, <1>5 DEF Unique
  <1>6. CASE i \in 1 .. Len(a) /\ j \notin 1 .. Len(a)
    BY <1>2, <1>3, <1>4, <1>6
  <1>7. CASE i \notin 1 .. Len(a) /\ j \in 1 .. Len(a)
    BY <1>2, <1>3, <1>4, <1>7
  <1>8. CASE i \notin 1 .. Len(a) /\ j \notin 1 .. Len(a)
    <2>1. /\ i - Len(a) \in DOMAIN b /\ j - Len(a) \in DOMAIN b /\ i - Len(a) # j - Len(a)
          /\ ab[i] = b[i - Len(a)] /\ ab[j] = b[j - Len(a)]
      BY <1>1, <1>2, <1>4, <1>8
    <2> QED
      BY <2>1 DEF Unique
  <1> QED
    BY <1>5, <1>6, <1>7, <1>8

LEMMA MarkedRows ==
  ASSUME RowsTyped, NEW seq \in Seq(Skill), Members(seq) \subseteq loaded, Sorted(seq)
  PROVE  /\ Marked(seq) \in Seq(Verdict) /\ Len(Marked(seq)) = Len(seq)
         /\ Ids(Marked(seq)) = Members(seq) /\ Unique(Marked(seq))
         /\ \A c \in Members(Marked(seq)) : c.why = "none"
  <1>1. /\ DOMAIN seq = 1 .. Len(seq) /\ Len(seq) \in Nat
        /\ \A i \in DOMAIN seq : seq[i] \in Skill
    OBVIOUS
  <1>2. \A i \in DOMAIN seq : [id |-> seq[i], why |-> "none"] \in Verdict
    BY <1>1 DEF Verdict, Reasons
  <1>3. Marked(seq) \in Seq(Verdict) /\ Len(Marked(seq)) = Len(seq) /\ DOMAIN Marked(seq) = DOMAIN seq
    BY <1>1, <1>2 DEF Marked
  <1>4. \A i \in DOMAIN seq : Marked(seq)[i].id = seq[i] /\ Marked(seq)[i].why = "none"
    BY DEF Marked
  <1>5. Ids(Marked(seq)) = Members(seq) /\ \A c \in Members(Marked(seq)) : c.why = "none"
    BY <1>3, <1>4 DEF Ids, Members
  <1>6. \A i, j \in DOMAIN seq : i # j => seq[i] # seq[j]
    <2> SUFFICES ASSUME NEW i \in DOMAIN seq, NEW j \in DOMAIN seq, i # j PROVE seq[i] # seq[j]
      OBVIOUS
    <2>1. i < j \/ j < i
      BY <1>1
    <2>2. precedes(seq[i], seq[j]) \/ precedes(seq[j], seq[i])
      BY <2>1 DEF Sorted
    <2>3. seq[i] \in loaded
      BY DEF Members
    <2> QED
      BY <2>2, <2>3, PrecedesIsOrder
  <1>7. Unique(Marked(seq))
    BY <1>3, <1>4, <1>6 DEF Unique
  <1> QED
    BY <1>3, <1>5, <1>7

LEMMA CompositionRows ==
  ASSUME RouterIInv, stage = "assess"
  PROVE  /\ RowsTyped /\ Members(kept) \subseteq loaded
         /\ composition = Marked(selected) \o candidates
         /\ composition \in Seq(Verdict)
         /\ Members(composition) = Members(Marked(selected)) \cup Members(candidates)
         /\ Ids(composition) = Members(kept)
         /\ Ids(Marked(selected)) = Members(selected)
         /\ Unique(composition)
  <1>1. /\ RowsTyped /\ passed \subseteq loaded /\ selected \in Seq(Skill) /\ candidates \in Seq(Verdict)
        /\ Retained /\ Partition /\ Members(ahead) = {}
    BY MembersOfNothing DEF RouterIInv, RouterTypes
  <1>2. /\ Members(kept) \subseteq loaded /\ Members(selected) \subseteq loaded /\ Sorted(selected)
        /\ Members(selected) \cap Ids(candidates) = {} /\ Unique(candidates)
        /\ Members(kept) = Members(selected) \cup Ids(candidates)
    BY <1>1 DEF Retained, Partition, rankable
  <1>3. /\ Marked(selected) \in Seq(Verdict) /\ Ids(Marked(selected)) = Members(selected)
        /\ Unique(Marked(selected))
    BY <1>1, <1>2, MarkedRows
  <1>4. composition = Marked(selected) \o candidates
    BY DEF composition, Marked
  <1>5. /\ composition \in Seq(Verdict)
        /\ Members(composition) = Members(Marked(selected)) \cup Members(candidates)
    BY <1>1, <1>3, <1>4, Joined
  <1>6. Unique(composition)
    BY <1>1, <1>2, <1>3, <1>4, JoinedUnique
  <1>7. Ids(composition) = Members(selected) \cup Ids(candidates)
    BY <1>3, <1>5 DEF Ids
  <1> QED
    BY <1>1, <1>2, <1>3, <1>4, <1>5, <1>6, <1>7

(* Without a selection there is no useful row in play, and the answer is   *)
(* LOW.                                                                    *)
LEMMA ConfidenceIsEarned ==
  ASSUME RouterIInv, stage = "assess", assessed # "LOW"
  PROVE  selected # <<>>
  <1> DEFINE U == {c \in Members(composition) : isUseful(c) /\ tier(c.id) < 3}
  <1>1. composition \in Seq(Verdict) /\ Excluded
    BY CompositionRows DEF RouterIInv
  <1>2. inPlay = those(composition, U) /\ inPlay # <<>>
    BY DEF inPlay, assessed
  <1>3. U \subseteq Members(composition)
    OBVIOUS
  <1>4. \A c \in U : isUseful(c) /\ tier(c.id) < 3
    OBVIOUS
  <1> HIDE DEF U
  <1>5. inPlay \in Seq(Verdict) /\ Members(inPlay) = Members(composition) \cap U
    BY <1>1, <1>2, PickedInOrder
  <1>6. inPlay[1] \in Members(inPlay)
    BY <1>2, <1>5 DEF Members
  <1>7. PICK c \in U : TRUE
    BY <1>5, <1>6
  <1>8. c \in Members(Marked(selected)) \/ c \in Members(candidates)
    BY <1>3, CompositionRows
  <1>9. CASE c \in Members(Marked(selected))
    <2>1. DOMAIN Marked(selected) = DOMAIN selected
      BY DEF Marked
    <2>2. DOMAIN selected # {}
      BY <1>9, <2>1 DEF Members
    <2> QED
      BY <2>2
  <1>10. CASE c \in Members(candidates)
    BY <1>1, <1>4, <1>10 DEF Excluded
  <1> QED
    BY <1>8, <1>9, <1>10

LEMMA AssessStep ==
  ASSUME RouterIInv, assessConfidence
  PROVE  RouterIInv'
  <1> DEFINE relevant == {c \in Members(composition) : evidence(c.id) # {} \/ c.why = "USER_INVOCATION_ONLY"}
  <1>1. /\ stage = "assess" /\ stage' = "assemble" /\ confidence' = assessed
        /\ IF assessed = "LOW"
           THEN selected' = <<>> /\ candidates' = firstThree(those(composition, relevant))
           ELSE UNCHANGED <<selected, candidates>>
        /\ UNCHANGED <<inputs, named, filtered, ahead, kept, remaining, covered>>
    BY DEF assessConfidence
  <1>2. UNCHANGED inputs /\ UNCHANGED <<passed, kept, ahead>>
    BY <1>1 DEF filtered
  <1>3. /\ RouterTypes /\ Partition /\ Account /\ Excluded /\ SelectionIsLawful /\ Members(ahead) = {}
    BY <1>1, MembersOfNothing DEF RouterIInv
  <1>4. Named' /\ Filtered' /\ Retained'
    BY <1>1, <1>2, SameFilters, SameFiltered, SameRetained DEF RouterIInv
  <1>5. Answered'
    BY <1>1, NotYetDone
  <1> HIDE DEF relevant
  <1>6. CASE assessed = "LOW"
    <2>1. selected' = <<>> /\ candidates' = firstThree(those(composition, relevant)) /\ confidence' = "LOW"
      BY <1>1, <1>6
    <2>2. composition \in Seq(Verdict) /\ Unique(composition) /\ Ids(composition) = Members(kept)
      BY <1>1, CompositionRows
    <2> DEFINE picked == those(composition, relevant)
    <2>3. picked \in Seq(Verdict) /\ Members(picked) \subseteq Members(composition) /\ Unique(picked)
      BY <2>2, PickedInOrder
    <2> HIDE DEF picked
    <2>4. candidates' \in Seq(Verdict) /\ Members(candidates') \subseteq Members(picked) /\ Unique(candidates')
      <3>1. candidates' = firstThree(picked)
        BY <2>1 DEF picked
      <3> QED
        BY <2>3, <3>1, FirstOnes
    <2>5. Ids(candidates') \subseteq Members(kept)
      BY <2>2, <2>3, <2>4 DEF Ids
    <2>6. Members(selected') = {} /\ Len(selected') = 0 /\ selected' \in Seq(Skill)
      BY <2>1, MembersOfNothing
    <2>7. RouterTypes'
      BY <1>1, <1>2, <1>3, <2>4, <2>6, SameInputs DEF RouterTypes
    <2>8. Sorted(selected)'
      BY <2>1 DEF Sorted
    <2>9. Composed'
      BY <1>2, <2>1, <2>4, <2>5, <2>6, <2>8 DEF Composed
    <2>10. SelectionIsLawful'
      <3>1. request'.maxSkills \in 1..3 /\ request'.maxTokens \in Nat
        BY <1>2, <1>3, RequestAssumption, SameInputs DEF RouterTypes, RowsTyped
      <3>2. total(Members(selected))' = 0
        <4>1. total({})' = 0
          BY <1>2, TotalOfNothing, SameInputs
        <4> QED
          BY <2>6, <4>1
      <3>3. 0 <= request'.maxSkills /\ 0 <= request'.maxTokens
        BY <3>1
      <3> QED
        BY <2>6, <3>2, <3>3 DEF SelectionIsLawful
    <2> QED
      BY <1>1, <1>4, <1>5, <2>7, <2>9, <2>10 DEF RouterIInv
  <1>7. CASE assessed # "LOW"
    <2>1. selected' = selected /\ candidates' = candidates /\ confidence' # "LOW" /\ selected # <<>>
      BY <1>1, <1>7, ConfidenceIsEarned
    <2>2. RouterTypes' /\ SelectionIsLawful'
      BY <1>2, <1>3, <2>1, SameInputs, SameSelection DEF RouterTypes
    <2>3. /\ Members(selected) \cup Ids(candidates) \subseteq Members(kept)
          /\ Sorted(selected) /\ Unique(candidates)
          /\ Members(selected) \cap Ids(candidates) = {}
      BY <1>3 DEF Partition
    <2>4. \A s \in Members(kept) \ Members(selected) : fitting(s) => NoPlace(s)
      <3>1. \A s \in Members(kept) \ Members(selected) : \E c \in Members(candidates) : s = c.id
        BY <1>3 DEF Partition, Ids
      <3> QED
        BY <1>3, <3>1 DEF Excluded
    <2>5. Sorted(selected)' /\ \A s \in Members(kept') \ Members(selected') : fitting(s)' => NoPlace(s)'
      BY <1>2, <2>1, <2>3, <2>4, SameInputs, SameSelection
    <2>6. Composed'
      BY <1>2, <2>1, <2>3, <2>5 DEF Composed
    <2> QED
      BY <1>1, <1>4, <1>5, <2>2, <2>6 DEF RouterIInv
  <1> QED
    BY <1>6, <1>7

(* The rows shown without being recommended are separated ones.            *)
ShownRows == [i \in 1..Cardinality(shown) |-> [id |-> ranked(shown, {})[i], why |-> "separated"]]

LEMMA ShownRowsAreUnique ==
  ASSUME RowsTyped, passed \subseteq loaded
  PROVE  ShownRows \in Seq(Verdict) /\ Unique(ShownRows) /\ Ids(ShownRows) \subseteq separated
  <1> DEFINE r == ranked(shown, {})
  <1>1. shown \in SUBSET loaded /\ shown \subseteq separated /\ shown \subseteq Skill
    BY LoadedRows DEF shown, separated
  <1>2. /\ r \in Seq(shown) /\ Members(r) = shown
        /\ \A i, j \in DOMAIN r : i < j => before(sortKey(r[i], {}), sortKey(r[j], {}))
    BY <1>1, RankedOrder
  <1>3. DOMAIN r = 1 .. Cardinality(shown) /\ Cardinality(shown) \in Nat
    <2>1. IsFiniteSet(shown)
      BY <1>1, LoadedRows, FS_Subset
    <2> QED
      BY <2>1, FS_CardinalityType DEF ranked, arranged
  <1> HIDE DEF r
  <1>4. \A i \in 1..Cardinality(shown) : r[i] \in shown
    BY <1>2, <1>3
  <1>5. /\ DOMAIN ShownRows = 1..Cardinality(shown)
        /\ \A i \in 1..Cardinality(shown) : ShownRows[i] = [id |-> r[i], why |-> "separated"]
    BY DEF ShownRows, r
  <1>6. \A i \in 1..Cardinality(shown) : ShownRows[i] \in Verdict /\ ShownRows[i].id = r[i]
    BY <1>1, <1>4, <1>5 DEF Verdict, Reasons
  <1>7. ShownRows \in Seq(Verdict)
    <2>1. ShownRows = [i \in 1..Cardinality(shown) |-> ShownRows[i]]
      BY DEF ShownRows
    <2>2. ShownRows \in [1..Cardinality(shown) -> Verdict]
      BY <1>6, <2>1
    <2> QED
      BY <1>3, <2>2
  <1>8. Ids(ShownRows) \subseteq separated
    BY <1>1, <1>4, <1>5, <1>6 DEF Ids, Members
  <1>9. Unique(ShownRows)
    <2> SUFFICES ASSUME NEW i \in 1..Cardinality(shown), NEW j \in 1..Cardinality(shown), i # j
                 PROVE  r[i] # r[j]
      BY <1>5, <1>6 DEF Unique
    <2>1. i < j \/ j < i
      OBVIOUS
    <2>2. before(sortKey(r[i], {}), sortKey(r[j], {})) \/ before(sortKey(r[j], {}), sortKey(r[i], {}))
      BY <1>2, <1>3, <2>1
    <2>3. r[i] \in loaded
      BY <1>1, <1>4
    <2>4. ~ before(sortKey(r[i], {}), sortKey(r[i], {}))
      BY <2>3, KeysAreTyped, BeforeIsOrder
    <2> QED
      BY <2>2, <2>4
  <1> QED
    BY <1>7, <1>8, <1>9

LEMMA DistinctCount ==
  ASSUME NEW V, NEW seq \in Seq(V), \A i, j \in DOMAIN seq : i # j => seq[i] # seq[j]
  PROVE  Cardinality(Members(seq)) = Len(seq)
  <1>1. DOMAIN seq = 1 .. Len(seq) /\ Len(seq) \in Nat
    OBVIOUS
  <1>2. seq \in Bijection(1 .. Len(seq), Members(seq))
    BY <1>1 DEF Bijection, Injection, Surjection, IsInjective, Members
  <1>3. IsFiniteSet(1 .. Len(seq)) /\ Cardinality(1 .. Len(seq)) = Len(seq)
    BY <1>1, FS_Interval
  <1> QED
    BY <1>2, <1>3, FS_Bijection DEF ExistsBijection

(* The ids that an answer shows.                                           *)
ShownIds(sel, cand) == sel \o [i \in DOMAIN cand |-> cand[i].id]

LEMMA ShownOnce ==
  ASSUME RowsTyped, NEW sel \in Seq(Skill), Members(sel) \subseteq loaded, Sorted(sel),
         NEW cand \in Seq(Verdict), Unique(cand), Members(sel) \cap Ids(cand) = {}
  PROVE  /\ Cardinality(Members(ShownIds(sel, cand))) = Len(ShownIds(sel, cand))
         /\ Members(ShownIds(sel, cand)) = Members(sel) \cup Ids(cand)
  <1> DEFINE both == Marked(sel) \o cand
             tail == [i \in DOMAIN cand |-> cand[i].id]
             ids == sel \o tail
  <1>1. /\ Marked(sel) \in Seq(Verdict) /\ Len(Marked(sel)) = Len(sel)
        /\ Ids(Marked(sel)) = Members(sel) /\ Unique(Marked(sel))
    BY MarkedRows
  <1>2. Unique(both)
    BY <1>1, JoinedUnique
  <1>3. Ids(both) = Members(sel) \cup Ids(cand)
    <2>1. Members(both) = Members(Marked(sel)) \cup Members(cand)
      BY <1>1, Joined
    <2> QED
      BY <1>1, <2>1 DEF Ids
  <1>4. /\ DOMAIN cand = 1 .. Len(cand) /\ Len(cand) \in Nat /\ Len(sel) \in Nat /\ DOMAIN sel = 1 .. Len(sel)
        /\ \A i \in DOMAIN cand : cand[i] \in Verdict
    OBVIOUS
  <1>5. tail \in Seq(Skill) /\ Len(tail) = Len(cand) /\ \A i \in 1 .. Len(cand) : tail[i] = cand[i].id
    <2>1. \A i \in DOMAIN cand : cand[i].id \in Skill
      BY <1>4 DEF Verdict
    <2> QED
      BY <1>4, <2>1
  <1>6. \A i \in 1 .. Len(sel) : Marked(sel)[i].id = sel[i]
    BY <1>4 DEF Marked
  <1> HIDE DEF tail
  <1>7. /\ ids \in Seq(Skill) /\ Len(ids) = Len(sel) + Len(cand)
        /\ DOMAIN ids = 1 .. Len(sel) + Len(cand)
        /\ \A i \in 1 .. Len(sel) : ids[i] = sel[i]
        /\ \A i \in 1 .. Len(cand) : ids[Len(sel) + i] = cand[i].id
    <2>1. tail \in Seq(Skill)
      BY <1>5
    <2>2. /\ ids \in Seq(Skill) /\ Len(ids) = Len(sel) + Len(tail)
          /\ DOMAIN ids = 1 .. Len(sel) + Len(tail)
          /\ \A i \in 1 .. Len(sel) : ids[i] = sel[i]
          /\ \A i \in 1 .. Len(tail) : ids[Len(sel) + i] = tail[i]
      BY <2>1
    <2> HIDE DEF ids
    <2> QED
      BY <1>5, <2>2
  <1>8. /\ DOMAIN both = 1 .. Len(sel) + Len(cand)
        /\ \A i \in 1 .. Len(sel) : both[i].id = sel[i]
        /\ \A i \in 1 .. Len(cand) : both[Len(sel) + i] = cand[i]
    BY <1>1, <1>4, <1>6
  <1> HIDE DEF both, ids
  <1>9. \A i \in 1 .. Len(sel) + Len(cand) : ids[i] = both[i].id
    <2> SUFFICES ASSUME NEW i \in 1 .. Len(sel) + Len(cand) PROVE ids[i] = both[i].id
      OBVIOUS
    <2>1. CASE i \in 1 .. Len(sel)
      BY <1>7, <1>8, <2>1
    <2>2. CASE i \notin 1 .. Len(sel)
      <3>1. i - Len(sel) \in 1 .. Len(cand) /\ Len(sel) + (i - Len(sel)) = i
        BY <1>4, <2>2
      <3> QED
        BY <1>7, <1>8, <3>1
    <2> QED
      BY <2>1, <2>2
  <1>10. \A i, j \in DOMAIN ids : i # j => ids[i] # ids[j]
    <2> SUFFICES ASSUME NEW i \in 1 .. Len(sel) + Len(cand), NEW j \in 1 .. Len(sel) + Len(cand), i # j
                 PROVE  ids[i] # ids[j]
      BY <1>7
    <2>1. both[i].id # both[j].id
      BY <1>2, <1>8 DEF Unique
    <2> QED
      BY <1>9, <2>1
  <1>11. Cardinality(Members(ids)) = Len(ids)
    BY <1>7, <1>10, DistinctCount
  <1>12. Members(ids) = Ids(both)
    BY <1>7, <1>8, <1>9 DEF Members, Ids
  <1> QED
    BY <1>3, <1>11, <1>12 DEF ids, tail, ShownIds

LEMMA AssembleStep ==
  ASSUME RouterIInv, assemble
  PROVE  RouterIInv'
  <1>1. /\ stage = "assemble" /\ stage' = "done"
        /\ candidates' = firstThree(firstThree(candidates) \o ShownRows)
        /\ UNCHANGED <<inputs, named, filtered, ahead, kept, selected, remaining, covered, confidence>>
    BY DEF assemble, ShownRows
  <1>2. /\ UNCHANGED inputs /\ explicit' = explicit /\ refused' = refused
        /\ passed' = passed /\ rejected' = rejected /\ kept' = kept /\ selected' = selected
        /\ ahead' = ahead
    BY <1>1 DEF filtered, named
  <1>3. RouterTypes /\ Composed /\ Retained /\ Named /\ Filtered /\ SelectionIsLawful
    BY <1>1 DEF RouterIInv
  <1>4. /\ RowsTyped /\ passed \subseteq loaded /\ rankable \cap separated = {} /\ rankable \subseteq passed
        /\ separated \subseteq passed /\ Members(kept) \subseteq rankable \ rejected
        /\ selected \in Seq(Skill) /\ candidates \in Seq(Verdict)
    BY <1>3 DEF RouterTypes, rankable, separated, Retained
  <1>5. /\ ShownRows \in Seq(Verdict) /\ Unique(ShownRows) /\ Ids(ShownRows) \subseteq separated
    BY <1>4, ShownRowsAreUnique
  <1> DEFINE three == firstThree(candidates)
             all == three \o ShownRows
  <1>6. /\ three \in Seq(Verdict) /\ Unique(three) /\ Ids(three) \subseteq Ids(candidates)
    <2>1. three \in Seq(Verdict) /\ Members(three) \subseteq Members(candidates) /\ Unique(three)
      BY <1>3, <1>4, FirstOnes DEF Composed
    <2> QED
      BY <2>1 DEF Ids
  <1> HIDE DEF three
  <1>7. Ids(candidates) \subseteq Members(kept) /\ Members(selected) \subseteq Members(kept)
    BY <1>3 DEF Composed
  <1>8. all \in Seq(Verdict) /\ Ids(all) = Ids(three) \cup Ids(ShownRows) /\ Unique(all)
    <2>1. all \in Seq(Verdict) /\ Members(all) = Members(three) \cup Members(ShownRows)
      BY <1>5, <1>6, Joined
    <2>2. Ids(three) \cap Ids(ShownRows) = {}
      BY <1>4, <1>5, <1>6, <1>7
    <2>3. Unique(all)
      BY <1>5, <1>6, <2>2, JoinedUnique
    <2> QED
      BY <2>1, <2>3 DEF Ids
  <1> HIDE DEF all
  <1>9. /\ candidates' \in Seq(Verdict) /\ Unique(candidates')
        /\ Ids(candidates') \subseteq Ids(candidates) \cup separated
    <2>1. candidates' = firstThree(all)
      BY <1>1 DEF all, three
    <2>2. firstThree(all) \in Seq(Verdict) /\ Members(firstThree(all)) \subseteq Members(all) /\ Unique(firstThree(all))
      BY <1>8, FirstOnes
    <2> QED
      BY <1>5, <1>6, <1>8, <2>1, <2>2 DEF Ids
  <1>10. RouterTypes' /\ SelectionIsLawful'
    BY <1>2, <1>3, <1>9, SameInputs, SameSelection DEF RouterTypes
  <1>11. Named' /\ Filtered'
    BY <1>1, <1>2, <1>3, SameFilters, SameFiltered
  <1>12. ConfidentAnswersSelect'
    BY <1>1, <1>2, <1>3 DEF ConfidentAnswersSelect, Composed
  <1>13. LeftOutForAReason'
    <2> SUFFICES ASSUME confidence # "LOW", NEW s \in rankable, fitting(s), s \notin Members(selected)
                 PROVE  NoPlace(s) \/ Covered(s)
      <3>1. rankable' = rankable /\ passed' \ separated' = rankable
        BY <1>1, <1>2, SameFilters DEF rankable
      <3>2. \A s \in rankable : fitting(s) /\ confidence # "LOW" /\ s \notin Members(selected)
                                  => NoPlace(s)' \/ Covered(s)'
        BY <1>1, <1>2, SameSelection, SameRetained
      <3>3. \A s : fitting(s)' = fitting(s)
        BY <1>2, SameInputs
      <3> QED
        BY <1>1, <1>2, <3>1, <3>2, <3>3 DEF LeftOutForAReason, NoPlace, Covered
    <2>1. CASE s \in Members(kept)
      BY <1>3, <2>1 DEF Composed
    <2>2. CASE s \notin Members(kept)
      BY <1>3, <2>2 DEF Retained
    <2> QED
      BY <2>1, <2>2
  <1>14. RejectedIsNotRecommended'
    <2> DEFINE ids == ShownIds(selected, candidates')
    <2>1. Members(selected) \subseteq loaded /\ Sorted(selected)
      BY <1>3, <1>4, <1>7 DEF Composed
    <2>2. Members(selected) \cap Ids(candidates') = {}
      BY <1>3, <1>4, <1>7, <1>9 DEF Composed
    <2>3. Cardinality(Members(ids)) = Len(ids) /\ Members(ids) = Members(selected) \cup Ids(candidates')
      BY <1>4, <1>9, <2>1, <2>2, ShownOnce
    <2> HIDE DEF ids
    <2>9. Members(ids) \subseteq passed /\ Members(ids) \cap rejected = {}
      BY <1>3, <1>4, <1>7, <1>9, <2>3 DEF Filtered
    <2>10. Members(ids) \cap (explicit \cup refused) = {}
      BY <1>3, <2>9 DEF Named, Filtered
    <2> QED
      BY <1>2, <2>3, <2>9, <2>10 DEF RejectedIsNotRecommended, ids, ShownIds
  <1> QED
    BY <1>1, <1>10, <1>11, <1>12, <1>13, <1>14 DEF RouterIInv, Answered

-----------------------------------------------------------------------------
LEMMA StutterStep ==
  ASSUME RouterIInv, UNCHANGED routerVars
  PROVE  RouterIInv'
  <1>1. /\ UNCHANGED <<inputs, named, filtered, kept>> /\ UNCHANGED <<inputs, named, passed>>
        /\ UNCHANGED <<inputs, selected>> /\ UNCHANGED inputs
        /\ UNCHANGED <<stage, passed, ahead, kept, selected, candidates, remaining, covered, confidence>>
        /\ explicit' = explicit /\ refused' = refused /\ rejected' = rejected
    BY DEF routerVars, filtered, composed, named
  <1>2. /\ RouterTypes' = RouterTypes /\ SelectionIsLawful' = SelectionIsLawful
        /\ Named' = Named /\ Filtered' = Filtered /\ Retained' = Retained
        /\ rankable' = rankable
        /\ Unchosen' = Unchosen
    BY <1>1, SameInputs, SameFilters, SameFiltered, SameRetained, SameSelection DEF RouterTypes, Unchosen
  <1>3. /\ \A s : NoPlace(s)' = NoPlace(s)
        /\ \A s : Covered(s)' = Covered(s)
    BY <1>1, SameSelection, SameRetained
  <1>4. /\ Sorted(kept)' = Sorted(kept) /\ Sorted(ahead)' = Sorted(ahead)
        /\ Sorted(selected)' = Sorted(selected)
        /\ AllBefore(Members(kept), Members(ahead))' = AllBefore(Members(kept), Members(ahead))
        /\ AllBefore(Members(selected) \cup Ids(candidates), Members(ahead))'
             = AllBefore(Members(selected) \cup Ids(candidates), Members(ahead))
    BY <1>1, SameInputs DEF Sorted, AllBefore
  <1>5. Suppressing => Suppressing'
    BY <1>1, <1>2, <1>3, <1>4 DEF Suppressing
  <1>6. Partition => Partition'
    BY <1>1, <1>4 DEF Partition
  <1>7. Account => Account'
    BY <1>1, SameInputs DEF Account
  <1>8. Excluded => Excluded'
    BY <1>1, <1>3, SameInputs DEF Excluded, isUseful
  <1>9. Composed => Composed'
    BY <1>1, <1>3, <1>4, SameInputs DEF Composed
  <1>10. ConfidentAnswersSelect => ConfidentAnswersSelect'
    BY <1>1 DEF ConfidentAnswersSelect
  <1>11. RejectedIsNotRecommended => RejectedIsNotRecommended'
    BY <1>1 DEF RejectedIsNotRecommended
  <1>12. LeftOutForAReason => LeftOutForAReason'
    <2> DEFINE fine(s) == fitting(s) /\ s \notin Members(selected) => NoPlace(s) \/ Covered(s)
    <2>1. LeftOutForAReason <=> (stage = "done" /\ confidence # "LOW" => \A s \in rankable : fine(s))
      BY DEF LeftOutForAReason, NoPlace, Covered, rankable
    <2>2. LeftOutForAReason' <=> (stage' = "done" /\ confidence' # "LOW" => \A s \in rankable' : fine(s)')
      BY DEF LeftOutForAReason, NoPlace, Covered, rankable
    <2>3. \A s : fine(s)' = fine(s)
      BY <1>1, <1>3, SameInputs
    <2> HIDE DEF fine
    <2> QED
      BY <1>1, <1>2, <2>1, <2>2, <2>3
  <1>13. Answered'
    BY <1>10, <1>11, <1>12 DEF RouterIInv, Answered
  <1> QED
    BY <1>1, <1>2, <1>5, <1>6, <1>7, <1>8, <1>9, <1>13 DEF RouterIInv

LEMMA RouterIInvStep == RouterIInv /\ [RouterNext]_routerVars => RouterIInv'
  <1> SUFFICES ASSUME RouterIInv, [RouterNext]_routerVars PROVE RouterIInv'
    OBVIOUS
  <1>1. CASE composeRow
    BY <1>1, SelectStep, PassOverStep
  <1>2. CASE UNCHANGED routerVars
    BY <1>2, StutterStep
  <1> QED
    BY <1>1, <1>2, ExplicitStep, FilterStep, RankStep, SuppressRowStep, SuppressedStep, ComposedAllStep,
       AssessStep, AssembleStep DEF RouterNext

THEOREM RouterInvariance == RouterSpec => []RouterIInv
  BY RouterIInvInit, RouterIInvStep, PTL DEF RouterSpec

(* What is recommended keeps to the limit and to the budget, can be used   *)
(* by a model, and a third skill adds a topic (composition.ts).            *)
THEOREM LawfulSelection == RouterSpec => []SelectionIsLawful
  <1>1. RouterIInv => SelectionIsLawful
    BY DEF RouterIInv
  <1> QED
    BY <1>1, RouterInvariance, PTL

(* A useful skill that a confident answer leaves out had no place, or is   *)
(* covered by one that stays (redundancy.ts, composition.ts).              *)
THEOREM NoneLeftOut == RouterSpec => []LeftOutForAReason
  <1>1. RouterIInv => LeftOutForAReason
    BY DEF RouterIInv, Answered
  <1> QED
    BY <1>1, RouterInvariance, PTL

(* An answer is confident exactly if it recommends something               *)
(* (confidence.ts).                                                        *)
THEOREM ConfidenceSelects == RouterSpec => []ConfidentAnswersSelect
  <1>1. RouterIInv => ConfidentAnswersSelect
    BY DEF RouterIInv, Answered
  <1> QED
    BY <1>1, RouterInvariance, PTL

(* No skill is shown twice, and none that was named, refused or rejected   *)
(* (resolver.ts).                                                          *)
THEOREM RejectedStaysOut == RouterSpec => []RejectedIsNotRecommended
  <1>1. RouterIInv => RejectedIsNotRecommended
    BY DEF RouterIInv, Answered
  <1> QED
    BY <1>1, RouterInvariance, PTL
=============================================================================
