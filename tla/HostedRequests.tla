---------------------------- MODULE HostedRequests ----------------------------
(***************************************************************************)
(* Tool requests to the hosted MCP server (hosted.ts, hosted-runtime.ts,   *)
(* hosted-supabase.ts): each reads the manifest, the contexts and the      *)
(* memberships of the workspace one after the other, while operators       *)
(* publish releases and administrators revoke and restore access.          *)
(*                                                                         *)
(* A step is one read of the database or of the manifest, with all that is *)
(* computed from it.  A read of the database may fail, also because the    *)
(* request runs into its timeout.                                          *)
(***************************************************************************)
EXTENDS Integers, FiniteSets

CONSTANTS
    Requests,       \* the requests
    Calls,          \* what may be asked: subject, and context, digest and skill or None
    Subjects,       \* callers with a valid token
    Owner,          \* the owner of the Hub
    Grants,         \* subjects that the authorization document names
    Documented,     \* subjects with an active membership in that document
    Releases,
    Skills,
    skillsOf,       \* skillsOf[r]: the skills of release r
    Contexts,
    pinOf,          \* pinOf[x]: the release that context x pins
    DeniedReleases, DeniedSkills,   \* emergency denies; a denied source denies
    SourceDenied,                   \* every release that adopted it
    None,
    maxConcurrentRequests,
    MaxRevision,    \* bound: publications
    MaxRevocations  \* bound: revocations

\* inspect and get_content name a release, by digest or by context.
ASSUME CallAssumption == \A c \in Calls :
    /\ c.subject \in Subjects
    /\ c.skill = None \/ c.digest # None \/ c.context # None
ASSUME NoneAssumption == None \notin {"ok", "E_CONTENT_REVOKED", "E_SKILL_NOT_FOUND"}

VARIABLES
    revision, default, deployment, retained,    \* the manifest
    visibility,     \* of the Hub: "private", "workspace" or "public"
    members,        \* subjects with an active membership
    revoked,        \* contexts that were revoked
    revocations,
    active,         \* activeRequests
    pc,             \* where each request is
    call,           \* call[q]: the arguments of q
    selection,      \* selection[q]: the release that q was given
    content,        \* content[q]: the release that its result was read from
    answer,         \* answer[q]: "ok", or the code of the error
    defaults,       \* defaults[q]: the default releases since q arrived (for properties)
    facts           \* facts[q]: what was true at some time since then (for properties)

manifest == <<revision, default, deployment, retained>>
access == <<visibility, members, revoked, revocations>>
history == <<defaults, facts>>
vars == <<manifest, access, active, pc, call, selection, content, answer, history>>

\* The manifest moves as RetainedReleases implements it.
Ledger == INSTANCE ReleaseLedger WITH Deployments <- {"d"}

args(q) == call[q]
scoped(q) == args(q).skill # None       \* inspect and get_content
running == {q \in Requests : pc[q] \notin {"idle", "answered"}}

----------------------------------------------------------------------------
(***************************************************************************)
(* Authorization.  Every role may read; the roles differ elsewhere.        *)
(***************************************************************************)

\* authorizeWorkspace for reading the Hub: a private Hub is for those that are
\* named, a public one is for everybody.
authorizeWorkspace(s, M) ==
    \/ visibility = "public"
    \/ /\ s \in M
       /\ visibility = "private" => s = Owner \/ s \in Grants

\* The live store decides about the Hub and about single skills.
authorize(s) == authorizeWorkspace(s, members)

\* The document decides which skills a search may show: of one Hub, all or none.
deniedByAuthorization(s, r) ==
    IF authorizeWorkspace(s, Documented) THEN {} ELSE skillsOf[r]

\* What is true of the caller and the context of a call now.
now(c, M, R) == {f \in {"authorized", "current"} : authorizeWorkspace(c.subject, M)}
                    \cup {f \in {"member"} : c.subject \in M}
                    \cup {f \in {"open"} : c.context \notin R}

----------------------------------------------------------------------------
(***************************************************************************)
(* The steps of a request.                                                 *)
(***************************************************************************)

Goto(q, place) == pc' = [pc EXCEPT ![q] = place]

\* The answer is sent and the slot is given back.
Respond(q, code) == /\ answer' = [answer EXCEPT ![q] = code]
                    /\ Goto(q, "answered")
                    /\ active' = active - 1

\* Too many requests, an unverified token, or on to the tool.
Arrive(q) ==
    /\ pc[q] = "idle"
    /\ IF active < maxConcurrentRequests
       THEN /\ active' = active + 1
            /\ Goto(q, "select")
            /\ UNCHANGED answer
       ELSE /\ answer' = [answer EXCEPT ![q] = "E_CONCURRENCY_LIMIT"]
            /\ Goto(q, "answered")
            /\ UNCHANGED active
    /\ \E c \in Calls : /\ call' = [call EXCEPT ![q] = c]
                       /\ facts' = [facts EXCEPT ![q] = now(c, members, revoked)]
    /\ defaults' = [defaults EXCEPT ![q] = {default}]
    /\ UNCHANGED <<manifest, access, selection, content>>

\* selectSnapshot: the release is pinned by the context or by its digest, or it
\* is the default as the manifest has it now.
selectSnapshot(q) == IF args(q).digest # None THEN args(q).digest ELSE default

\* The release is resolved once; all that follows uses this promise.
Select(q, r) == /\ selection' = [selection EXCEPT ![q] = r]
                /\ Goto(q, "guard")
                /\ UNCHANGED <<active, answer>>

SelectSnapshot(q) ==
    /\ pc[q] = "select"
    /\ \/ /\ args(q).context # None
          /\ Goto(q, "context")
          /\ UNCHANGED <<active, answer, selection>>
       \/ /\ args(q).context = None
          /\ IF selectSnapshot(q) \in retained
             THEN Select(q, selectSnapshot(q))
             ELSE Respond(q, "E_RELEASE_UNAVAILABLE") /\ UNCHANGED selection
    /\ UNCHANGED <<manifest, access, call, content, history>>

\* The context resolver: the row of the context and its revocations ...
ReadContext(q) ==
    /\ pc[q] = "context"
    /\ \/ /\ args(q).context \notin revoked
          /\ Goto(q, "membership")
          /\ UNCHANGED <<active, answer>>
       \/ Respond(q, "E_CONTEXT_UNAVAILABLE")
    /\ UNCHANGED <<manifest, access, call, selection, content, history>>

\* ... the membership in the workspace of its project ...
ReadMembership(q) ==
    /\ pc[q] = "membership"
    /\ \/ /\ args(q).subject \in members
          /\ Goto(q, "pin")
          /\ UNCHANGED <<active, answer>>
       \/ Respond(q, "E_CONTEXT_UNAVAILABLE")
    /\ UNCHANGED <<manifest, access, call, selection, content, history>>

\* ... and the release that it pins, which must be the one asked for.
ReadPinned(q) ==
    LET r == pinOf[args(q).context] IN
    /\ pc[q] = "pin"
    /\ IF r \notin retained THEN Respond(q, "E_CONTEXT_UNAVAILABLE") /\ UNCHANGED selection
       ELSE IF args(q).digest \notin {None, r} THEN Respond(q, "E_RELEASE_MISMATCH") /\ UNCHANGED selection
       ELSE Select(q, r)
    /\ UNCHANGED <<manifest, access, call, content, history>>

\* Mutant: the deny lists are consulted first.
verdictDenyFirst(q, allowed) ==
    IF args(q).skill \in DeniedSkills \/ selection[q] \in SourceDenied THEN "E_CONTENT_REVOKED"
    ELSE IF selection[q] \in DeniedReleases \/ ~ allowed THEN "E_UNAUTHORIZED"
    ELSE "ok"

\* Authorization precedes the deny lists.
verdict(q, allowed) ==
    IF selection[q] \in DeniedReleases \/ ~ allowed THEN "E_UNAUTHORIZED"
    ELSE IF args(q).skill \in DeniedSkills \/ selection[q] \in SourceDenied THEN "E_CONTENT_REVOKED"
    ELSE "ok"

\* A store that does not answer authorizes nobody.
Guard(q) ==
    /\ pc[q] = "guard"
    /\ \E allowed \in {FALSE, authorize(args(q).subject)} :
          IF verdict(q, allowed) = "ok" THEN Goto(q, "body") /\ UNCHANGED <<active, answer>>
          ELSE Respond(q, verdict(q, allowed))
    /\ UNCHANGED <<manifest, access, call, selection, content, history>>

\* Mutant: the tool asks for the release once more.
effectiveAnew(q) == IF args(q).context # None THEN selection[q] ELSE selectSnapshot(q)

effective(q) == selection[q]

\* The skills that the tool may use.
visible(q) == (skillsOf[effective(q)] \ DeniedSkills)
                  \ (IF scoped(q) THEN {} ELSE deniedByAuthorization(args(q).subject, effective(q)))

\* The tool reads its result from the snapshot.
Body(q) ==
    /\ pc[q] = "body"
    /\ content' = [content EXCEPT ![q] = effective(q)]
    /\ \/ scoped(q) /\ args(q).skill \in visible(q) /\ Goto(q, "final") /\ UNCHANGED <<active, answer>>
       \/ scoped(q) /\ args(q).skill \notin visible(q) /\ Respond(q, "E_SKILL_NOT_FOUND")
       \/ ~ scoped(q) /\ Respond(q, "ok")
    /\ facts' = [facts EXCEPT ![q] = IF scoped(q) THEN (@ \ {"current"}) \cup now(args(q), members, revoked) ELSE @]
    /\ UNCHANGED <<manifest, access, call, selection, defaults>>

\* Mutant: the answer of the first authorization is still in the memo.
FinalFromMemo(q) ==
    /\ pc[q] = "final"
    /\ Respond(q, "ok")
    /\ UNCHANGED <<manifest, access, call, selection, content, history>>

\* The content of a skill leaves only after the store was asked again.
Final(q) ==
    /\ pc[q] = "final"
    /\ \E allowed \in {FALSE, authorize(args(q).subject)} :
          Respond(q, IF allowed THEN "ok" ELSE "E_CONTENT_REVOKED")
    /\ UNCHANGED <<manifest, access, call, selection, content, history>>

----------------------------------------------------------------------------
(***************************************************************************)
(* Publishers and administrators.                                          *)
(***************************************************************************)

Publish(r) == /\ revision < MaxRevision
              /\ Ledger!Publish(r, "d")
              /\ defaults' = [q \in Requests |-> IF q \in running THEN defaults[q] \cup {r} ELSE defaults[q]]
              /\ UNCHANGED <<access, active, pc, call, selection, content, answer, facts>>

\* Running requests see the change when they read.
Observe == facts' = [q \in Requests |-> IF q \in running THEN facts[q] \cup now(args(q), members', revoked')
                                                        ELSE facts[q]]

Grant(s) == /\ s \notin members
            /\ members' = members \cup {s}
            /\ UNCHANGED <<manifest, visibility, revoked, revocations, active, pc, call, selection, content, answer, defaults>>
            /\ Observe

Revoke(s) == /\ s \in members
             /\ revocations < MaxRevocations
             /\ revocations' = revocations + 1
             /\ members' = members \ {s}
             /\ UNCHANGED <<manifest, visibility, revoked, active, pc, call, selection, content, answer, defaults>>
             /\ Observe

RevokeContext(x) == /\ x \notin revoked
                    /\ revocations < MaxRevocations
                    /\ revocations' = revocations + 1
                    /\ revoked' = revoked \cup {x}
                    /\ UNCHANGED <<manifest, visibility, members, active, pc, call, selection, content, answer, defaults>>
                    /\ Observe

Init == /\ Ledger!Init
        /\ visibility \in {"private", "workspace", "public"}
        /\ members = Subjects
        /\ revoked = {}
        /\ revocations = 0
        /\ active = 0
        /\ pc = [q \in Requests |-> "idle"]
        /\ call = [q \in Requests |-> None]
        /\ selection = [q \in Requests |-> None]
        /\ content = [q \in Requests |-> None]
        /\ answer = [q \in Requests |-> None]
        /\ defaults = [q \in Requests |-> {}]
        /\ facts = [q \in Requests |-> {}]

Next == \/ \E q \in Requests : \/ Arrive(q) \/ SelectSnapshot(q) \/ ReadContext(q) \/ ReadMembership(q)
                               \/ ReadPinned(q) \/ Guard(q) \/ Body(q) \/ Final(q)
        \/ \E r \in Releases : Publish(r)
        \/ \E s \in Subjects : Grant(s) \/ Revoke(s)
        \/ \E x \in Contexts : RevokeContext(x)

Spec == Init /\ [][Next]_vars

----------------------------------------------------------------------------
(***************************************************************************)
(* Properties.                                                             *)
(***************************************************************************)

\* Access that was taken away stays away: whoever gets an answer was authorized
\* at some time since the request came, and, for the content of a skill, since
\* that content was read; and a context that was revoked before, or whose
\* workspace the caller had left before, answers nothing.
AnswersRespectRevocation ==
    \A q \in Requests : answer[q] = "ok" =>
        /\ "current" \in facts[q]
        /\ args(q).context # None => {"member", "open"} \subseteq facts[q]

\* All of an answer is of one release, while releases are published meanwhile:
\* the pinned one, or one that was the default since the request came.
OneReleasePerRequest ==
    \A q \in Requests : answer[q] = "ok" =>
        /\ content[q] = selection[q]
        /\ selection[q] \in retained
        /\ args(q).context # None => selection[q] = pinOf[args(q).context]
        /\ args(q).digest # None => selection[q] = args(q).digest
        /\ args(q).context = None /\ args(q).digest = None => selection[q] \in defaults[q]

\* Who was not authorized at any time since the request came cannot tell a
\* denied skill from one that does not exist.
DenialsDoNotLeak ==
    \A q \in Requests : pc[q] = "answered" /\ "authorized" \notin facts[q] =>
        answer[q] \notin {"ok", "E_CONTENT_REVOKED", "E_SKILL_NOT_FOUND"}

=============================================================================
