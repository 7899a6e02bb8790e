----------------------------- MODULE SkillRegistry -----------------------------
(***************************************************************************)
(* The local registry (packages/registry): importers put the files of a    *)
(* skill, each under its digest, into a cache of blobs that all importers  *)
(* share, and then record the version in one transaction of the database.  *)
(*                                                                         *)
(* A prepared package is identified with its version hash: the hash is     *)
(* that of the manifest, which lists the blobs, and preparation reads all  *)
(* bytes into memory.  The files, the token count of the body and the row  *)
(* of the full-text index of a version are written by one transaction.     *)
(* Transactions are serializable: SQLite refuses one that it cannot run    *)
(* after the others.                                                       *)
(***************************************************************************)
EXTENDS Integers, Sequences, FiniteSets

CONSTANTS
    Importers,      \* processes that import
    Batches,        \* what one command imports: sequences of packages
    Packages,       \* prepared packages, the same as versions
    Blobs,
    Skills,
    Aliases,
    skillOf,        \* skillOf[p]
    blobsOf,        \* blobsOf[p]: the files of p
    bodyOf,         \* bodyOf[p]: the blob of its SKILL.md
    aliasesOf,      \* aliasesOf[p]
    None,
    MaxImports,     \* bound: import commands
    MaxCrashes,     \* bound: importers that die
    MaxDamages      \* bound: blobs that are damaged behind the registry's back

ASSUME PackageAssumption == /\ blobsOf \in [Packages -> SUBSET Blobs]
                            /\ \A p \in Packages : bodyOf[p] \in blobsOf[p]
ASSUME BatchAssumption == Batches \subseteq Seq(Packages)

VARIABLES
    cache,          \* cache[b]: "absent", "whole" or "damaged"
    current,        \* current[s]: the current version of skill s, or None
    versions,       \* the versions that are recorded, with their files
    tokens,         \* the blobs that have a token count
    fts,            \* the versions that the full-text index has a row for
    owner,          \* owner[a]: the skill that owns alias a, or None
    ipc,            \* where each importer is
    batch,          \* batch[i]: the packages that are left, the present one first
    todo,           \* todo[i]: the blobs of that package that are left
    imports, crashes, damages,
    hurt            \* the blobs that were damaged (for properties)

database == <<current, versions, tokens, fts, owner>>
importing == <<ipc, batch, todo>>
counters == <<imports, crashes, damages>>
registryVars == <<cache, database, importing, counters, hurt>>

RegistryInit ==
    /\ cache = [b \in Blobs |-> "absent"]
    /\ current = [s \in Skills |-> None]
    /\ versions = {} /\ tokens = {} /\ fts = {}
    /\ owner = [a \in Aliases |-> None]
    /\ ipc = [i \in Importers |-> "idle"]
    /\ batch = [i \in Importers |-> <<>>]
    /\ todo = [i \in Importers |-> {}]
    /\ imports = 0 /\ crashes = 0 /\ damages = 0
    /\ hurt = {}

----------------------------------------------------------------------------
(***************************************************************************)
(* One command prepares and commits its packages one after the other; a    *)
(* package that fails is reported, and its siblings go on.                 *)
(***************************************************************************)

prepared(i) == Head(batch[i])
blob(i) == CHOOSE b \in todo[i] : TRUE

\* The packages that are left: prepare the first one, or be done.
ToPackage(i, left) ==
    /\ batch' = [batch EXCEPT ![i] = left]
    /\ todo' = [todo EXCEPT ![i] = IF left = <<>> THEN {} ELSE blobsOf[Head(left)]]
    /\ ipc' = [ipc EXCEPT ![i] = IF left = <<>> THEN "idle" ELSE "put"]

NextPackage(i) == ToPackage(i, Tail(batch[i]))

\* The present blob is in the cache.
NextBlob(i) ==
    /\ todo' = [todo EXCEPT ![i] = @ \ {blob(i)}]
    /\ ipc' = [ipc EXCEPT ![i] = IF todo[i] = {blob(i)} THEN "commit" ELSE "put"]
    /\ UNCHANGED batch

importSkills(i) ==
    /\ ipc[i] = "idle"
    /\ imports < MaxImports
    /\ imports' = imports + 1
    /\ \E roots \in Batches : ToPackage(i, roots)
    /\ UNCHANGED <<cache, database, crashes, damages, hurt>>

\* A blob that is there is verified and used again; else it is written to a
\* temporary file first, which may fail.
putCacheBlob(i) ==
    /\ ipc[i] = "put"
    /\ \/ cache[blob(i)] = "whole" /\ NextBlob(i)
       \/ cache[blob(i)] = "damaged" /\ NextPackage(i)
       \/ /\ cache[blob(i)] = "absent"
          /\ \/ ipc' = [ipc EXCEPT ![i] = "rename"] /\ UNCHANGED <<batch, todo>>
             \/ NextPackage(i)
    /\ UNCHANGED <<cache, database, counters, hurt>>

\* Mutant: any failure of the rename means that somebody else was first.
renameUnchecked(i) ==
    /\ ipc[i] = "rename"
    /\ NextBlob(i)
    /\ cache' \in {cache, [cache EXCEPT ![blob(i)] = "whole"]}
    /\ UNCHANGED <<database, counters, hurt>>

\* The verified temporary file gets the name of the blob.  When that fails, a
\* blob that somebody else put there in the meantime does as well.
renameSync(i) ==
    /\ ipc[i] = "rename"
    /\ \/ cache' = [cache EXCEPT ![blob(i)] = "whole"] /\ NextBlob(i)
       \/ /\ IF cache[blob(i)] = "whole" THEN NextBlob(i) ELSE NextPackage(i)
          /\ UNCHANGED cache
    /\ UNCHANGED <<database, counters, hurt>>

\* The row of exactly this version is replaced.
upsertVersionFts(p) == (fts \ {p}) \cup {p}

aliasConflict(p) == \E a \in aliasesOf[p] : owner[a] \notin {None, skillOf[p]}

\* Mutant: a version that is superseded is removed.
recordedReplacing(p) == {v \in versions : skillOf[v] # skillOf[p]} \cup {p}

\* A version that was recorded before stays as it is.
recorded(p) == versions \cup {p}

\* The transaction: the version, the pointer to it, its token count, its
\* aliases and its row in the index.  A known current version changes nothing.
applyVersionLifecycle(p) ==
    /\ versions' = recorded(p)
    /\ current' = [current EXCEPT ![skillOf[p]] = p]
    /\ tokens' = tokens \cup {bodyOf[p]}
    /\ owner' = [a \in Aliases |-> IF a \in aliasesOf[p] THEN skillOf[p] ELSE owner[a]]
    /\ fts' = upsertVersionFts(p)

\* It commits, or all of it is rolled back.
Commit(i) ==
    /\ ipc[i] = "commit"
    /\ \/ ~ aliasConflict(prepared(i)) /\ applyVersionLifecycle(prepared(i))
       \/ UNCHANGED database
    /\ NextPackage(i)
    /\ UNCHANGED <<cache, counters, hurt>>

\* A process that dies forgets its command; SQLite rolls its transaction back.
Crash(i) ==
    /\ ipc[i] # "idle"
    /\ crashes < MaxCrashes
    /\ crashes' = crashes + 1
    /\ ToPackage(i, <<>>)
    /\ UNCHANGED <<cache, database, imports, damages, hurt>>

\* Somebody edits or removes a file of the cache.
Damage(b) ==
    /\ cache[b] = "whole"
    /\ damages < MaxDamages
    /\ damages' = damages + 1
    /\ \E as \in {"absent", "damaged"} : cache' = [cache EXCEPT ![b] = as]
    /\ hurt' = hurt \cup {b}
    /\ UNCHANGED <<database, importing, imports, crashes>>

RegistryNext ==
    \/ \E i \in Importers : importSkills(i) \/ putCacheBlob(i) \/ renameSync(i) \/ Commit(i) \/ Crash(i)
    \/ \E b \in Blobs : Damage(b)

----------------------------------------------------------------------------

\* A version that is recorded can be read: whatever importers die, fail or run
\* side by side, the blobs of every recorded version are in the cache, whole,
\* unless somebody damaged them, and its token count and its row in the index
\* are there.
RecordedIsReadable ==
    \A v \in versions :
        /\ \A b \in blobsOf[v] \ hurt : cache[b] = "whole"
        /\ bodyOf[v] \in tokens
        /\ v \in fts

=============================================================================
