---------------------------- MODULE ProjectContents ----------------------------
(***************************************************************************)
(* A project that uses the registry: the command `lock` writes which       *)
(* version of each eligible skill the project uses (refresh.ts,            *)
(* commands.ts), and agents look for skills and fetch their contents       *)
(* through the MCP tools, under that lock or, without one, under the       *)
(* project's policy (project-context.ts, search.ts, get-content.ts).       *)
(* Meanwhile skills are imported and the configuration is edited.          *)
(***************************************************************************)
EXTENDS SkillRegistry

CONSTANTS
    Agents,         \* clients of the MCP tools
    Configs,        \* project configurations: denied skills and required
    InitialLocks,   \* None, or a lock that came with the project
    MaxEdits,       \* bound: edits of the configuration
    MaxRefreshes,   \* bound: lock commands
    MaxRequests     \* bound: requests of each agent

\* A lock that came with the project was generated from a configuration, too.
ASSUME LockAssumption ==
    \A l \in InitialLocks \ {None} :
        /\ DOMAIN l.skills \cap l.config.denied = {}
        /\ \A s \in DOMAIN l.skills : skillOf[l.skills[s]] = s
ASSUME NoneAssumption == None \notin Packages

VARIABLES
    config,         \* the configuration file
    lock,           \* the lock file: [config, skills], or None
    rpc,            \* where the lock command is
    generated,      \* the lock that it generates
    unverified,     \* the skills of that lock that are still to be verified
    pc,             \* where each agent's request is
    wanted,         \* wanted[c]: the version that c asks for, or None
    context,        \* context[c]: the configuration and the lock as c read them
    answer,         \* answer[c]: the version that was served, or an error
    requests,       \* requests[c]
    edits, refreshes,
    fresh           \* the agents since whose last search the project did not change

project == <<config, lock>>
refreshing == <<rpc, generated, unverified>>
agents == <<pc, wanted, context, answer, requests>>
bounds == <<edits, refreshes>>
vars == <<registryVars, project, refreshing, agents, bounds, fresh>>

locked(l) == {l.skills[s] : s \in DOMAIN l.skills}

----------------------------------------------------------------------------
(***************************************************************************)
(* ega-skills lock                                                         *)
(***************************************************************************)

\* The catalog: each skill that the configuration does not deny, at its
\* current version, as one query finds it.
eligible == {s \in Skills \ config.denied : current[s] # None}

\* Without --refresh the command refuses when there is a lock, and nothing
\* changes.
runLock ==
    /\ rpc = "idle"
    /\ refreshes < MaxRefreshes
    /\ refreshes' = refreshes + 1
    /\ generated' = [config |-> config, skills |-> [s \in eligible |-> current[s]]]
    /\ unverified' = eligible
    /\ rpc' = "verify"
    /\ UNCHANGED <<registryVars, project, agents, edits, fresh>>

Abandon == rpc' = "idle" /\ generated' = None /\ unverified' = {}

\* The version, its manifest and every blob of it must verify, or nothing is
\* written.
verifyVersion ==
    /\ rpc = "verify" /\ unverified # {}
    /\ LET s == CHOOSE s \in unverified : TRUE
           v == generated.skills[s]
       IN  IF v \in versions /\ \A b \in blobsOf[v] : cache[b] = "whole"
           THEN unverified' = unverified \ {s} /\ UNCHANGED <<rpc, generated>>
           ELSE Abandon
    /\ UNCHANGED <<registryVars, project, agents, bounds, fresh>>

writeLockAtomically ==
    /\ rpc = "verify" /\ unverified = {}
    /\ lock' = generated
    /\ Abandon
    /\ fresh' = {}
    /\ UNCHANGED <<registryVars, config, agents, bounds>>

\* The owner of the project edits its configuration.
Edit ==
    /\ edits < MaxEdits
    /\ edits' = edits + 1
    /\ \E c \in Configs \ {config} : config' = c
    /\ fresh' = {}
    /\ UNCHANGED <<registryVars, lock, refreshing, agents, refreshes>>

----------------------------------------------------------------------------
(***************************************************************************)
(* The tools search and get_content.                                       *)
(***************************************************************************)

Goto(c, place) == pc' = [pc EXCEPT ![c] = place]

Respond(c, what) ==
    /\ answer' = [answer EXCEPT ![c] = what]
    /\ context' = [context EXCEPT ![c] = None]
    /\ Goto(c, "idle")

\* A request comes and the configuration is read: a search, or the fetch of a
\* version that the last search found or that the agent knows from elsewhere.
readConfig(c) ==
    /\ pc[c] = "idle"
    /\ requests[c] < MaxRequests
    /\ requests' = [requests EXCEPT ![c] = @ + 1]
    /\ \/ wanted' = [wanted EXCEPT ![c] = None]
          /\ fresh' = fresh \ {c}
       \/ wanted[c] # None /\ UNCHANGED <<wanted, fresh>>
       \/ \E v \in Packages : wanted' = [wanted EXCEPT ![c] = v]
          /\ fresh' = fresh \ {c}
    /\ context' = [context EXCEPT ![c] = [config |-> config, lock |-> None]]
    /\ answer' = [answer EXCEPT ![c] = None]
    /\ Goto(c, "lock")
    /\ UNCHANGED <<registryVars, project, refreshing, bounds>>

\* Mutant: only the shape of a lock is validated.
validateShape(l, c) == l.config \in Configs

\* A lock is of the configuration that it was generated from.
validateLockfile(l, c) == l.config = c

\* A lock that is there rules, required or not.
resolveLockMode(c) ==
    /\ pc[c] = "lock"
    /\ IF lock # None
       THEN IF validateLockfile(lock, context[c].config)
            THEN /\ context' = [context EXCEPT ![c].lock = lock]
                 /\ Goto(c, IF wanted[c] = None THEN "query" ELSE "gate")
                 /\ UNCHANGED answer
            ELSE Respond(c, "E_LOCK_CONFIG_MISMATCH")
       ELSE IF context[c].config.required THEN Respond(c, "E_LOCK_REQUIRED")
            ELSE /\ Goto(c, IF wanted[c] = None THEN "query" ELSE "gate")
                 /\ UNCHANGED <<context, answer>>
    /\ UNCHANGED <<registryVars, project, refreshing, wanted, requests, bounds, fresh>>

\* What one query of the index finds: of the skills that are not denied, the
\* locked versions or else the current ones.
searchVisibleHits(c) ==
    {v \in fts : /\ skillOf[v] \notin context[c].config.denied
                /\ IF context[c].lock # None THEN v \in locked(context[c].lock) ELSE current[skillOf[v]] = v}

Query(c) ==
    /\ pc[c] = "query"
    /\ \/ /\ searchVisibleHits(c) = {}
          /\ UNCHANGED <<wanted, fresh>>
       \/ \E v \in searchVisibleHits(c) :
             /\ wanted' = [wanted EXCEPT ![c] = v]
             \* the search itself ran under the project as it is now
             /\ fresh' = IF context[c] = [config |-> config, lock |-> lock] THEN fresh \cup {c} ELSE fresh
    /\ Respond(c, "found")
    /\ UNCHANGED <<registryVars, project, refreshing, requests, bounds>>

\* The policy or the lock is asked before anything is read.
gateProjectAccess(c) ==
    LET s == skillOf[wanted[c]]
        l == context[c].lock
    IN  IF l # None
        THEN IF s \notin DOMAIN l.skills THEN "E_SKILL_NOT_FOUND"
             ELSE IF l.skills[s] # wanted[c] THEN "E_VERSION_NOT_LOCKED" ELSE "ok"
        ELSE IF s \in context[c].config.denied THEN "E_SKILL_NOT_FOUND" ELSE "ok"

getSkillVersion(c) ==
    /\ pc[c] = "gate"
    /\ IF gateProjectAccess(c) # "ok" THEN Respond(c, gateProjectAccess(c))
       ELSE IF wanted[c] \notin versions THEN Respond(c, "E_VERSION_NOT_FOUND")
       ELSE Goto(c, "blob") /\ UNCHANGED <<context, answer>>
    /\ UNCHANGED <<registryVars, project, refreshing, wanted, requests, bounds, fresh>>

\* The exact bytes, verified, and their token count.
getCacheBlob(c) ==
    /\ pc[c] = "blob"
    /\ IF cache[bodyOf[wanted[c]]] # "whole" THEN Respond(c, "E_CACHE_HASH_MISMATCH")
       ELSE IF bodyOf[wanted[c]] \notin tokens THEN Respond(c, "E_REGISTRY_UNAVAILABLE")
       ELSE Respond(c, "content")
    /\ UNCHANGED <<registryVars, project, refreshing, wanted, requests, bounds, fresh>>

----------------------------------------------------------------------------

Init == /\ RegistryInit
        /\ config \in Configs
        /\ lock \in InitialLocks
        /\ rpc = "idle" /\ generated = None /\ unverified = {}
        /\ pc = [c \in Agents |-> "idle"]
        /\ wanted = [c \in Agents |-> None]
        /\ context = [c \in Agents |-> None]
        /\ answer = [c \in Agents |-> None]
        /\ requests = [c \in Agents |-> 0]
        /\ edits = 0 /\ refreshes = 0
        /\ fresh = {}

Next == \/ RegistryNext /\ UNCHANGED <<project, refreshing, agents, bounds, fresh>>
        \/ runLock \/ verifyVersion \/ writeLockAtomically \/ Edit
        \/ \E c \in Agents : readConfig(c) \/ resolveLockMode(c) \/ Query(c) \/ getSkillVersion(c) \/ getCacheBlob(c)

Spec == Init /\ [][Next]_vars

----------------------------------------------------------------------------

\* What a search found can be fetched: as long as neither the configuration nor
\* the lock changes, imports that move the current version, and importers that
\* die, take nothing away that was found.
FoundIsFetchable ==
    \A c \in Agents : c \in fresh /\ wanted[c] # None /\ pc[c] = "idle" =>
        \/ answer[c] \in {"found", "content"}
        \/ answer[c] = "E_CACHE_HASH_MISMATCH" /\ bodyOf[wanted[c]] \in hurt

\* A skill that the configuration denies when it is read is not served, also
\* when a lock, made before, lists it.
DeniedIsNotServed ==
    \A c \in Agents : pc[c] = "blob" => skillOf[wanted[c]] \notin context[c].config.denied

=============================================================================
