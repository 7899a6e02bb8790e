---------------------------- MODULE McpProofs -----------------------------
(***************************************************************************)
(* The MCP server (packages/mcp), for every set of requests and callers,   *)
(* every deny list, and every limit of the telemetry buffer.               *)
(***************************************************************************)
EXTENDS HostedRequests, TelemetryBuffer, FiniteSetTheorems, TLAPS

-----------------------------------------------------------------------------
(***************************************************************************)
(* An answer is of one release, access that was taken away stays away, and *)
(* denials tell nothing to those without access, whatever is published or  *)
(* revoked between any two reads of a request.                             *)
(***************************************************************************)

Places == {"idle", "select", "context", "membership", "pin", "guard", "body", "final", "answered"}

Shape == /\ pc \in [Requests -> Places]
         /\ DOMAIN call = Requests /\ DOMAIN selection = Requests /\ DOMAIN content = Requests
         /\ DOMAIN answer = Requests /\ DOMAIN defaults = Requests /\ DOMAIN facts = Requests

Guarded == {"guard", "body", "final"}
Running(q) == pc[q] \notin {"idle", "answered"}

(* A running request has noted all that is true now.                       *)
Watched(q) == Running(q) => /\ default \in defaults[q]
                            /\ now(call[q], members, revoked) \subseteq facts[q]

(* The selected release is one that the request may be answered from.      *)
Selected(q) ==
  /\ selection[q] \in retained
  /\ args(q).context # None => selection[q] = pinOf[args(q).context]
  /\ args(q).digest # None => selection[q] = args(q).digest
  /\ args(q).context = None /\ args(q).digest = None => selection[q] \in defaults[q]

(* What the context resolver has found before.                             *)
Resolved(q) == args(q).context # None => {"member", "open"} \subseteq facts[q]

(* What each place of a request knows, and each answer.                    *)
Known(q) ==
  /\ pc[q] # "answered" => answer[q] = None
  /\ pc[q] \in {"context", "membership", "pin"} => args(q).context # None
  /\ pc[q] \in {"membership", "pin"} => "open" \in facts[q]
  /\ pc[q] = "pin" => "member" \in facts[q]
  /\ pc[q] \in Guarded \/ answer[q] = "ok" => Selected(q) /\ Resolved(q)
  /\ pc[q] \in {"body", "final"} => "authorized" \in facts[q]
  /\ pc[q] = "body" \/ answer[q] = "ok" => "current" \in facts[q]
  /\ pc[q] = "final" \/ answer[q] = "ok" => content[q] = selection[q]
  /\ answer[q] \in {"ok", "E_CONTENT_REVOKED", "E_SKILL_NOT_FOUND"} => "authorized" \in facts[q]

IInv == /\ Shape
        /\ default \in retained
        /\ \A q \in Requests : Watched(q) /\ Known(q)

-----------------------------------------------------------------------------
(* What is true now contains the authorization that a read finds.          *)
LEMMA NowKnows ==
  ASSUME NEW c
  PROVE  /\ authorize(c.subject) => {"authorized", "current"} \subseteq now(c, members, revoked)
         /\ c.subject \in members => "member" \in now(c, members, revoked)
         /\ c.context \notin revoked => "open" \in now(c, members, revoked)
  BY DEF now, authorize

(* A step of one request keeps the invariant if it keeps what is known of  *)
(* that request.                                                           *)
LEMMA LocalStep ==
  ASSUME IInv, UNCHANGED <<manifest, access>>, NEW q \in Requests, Shape',
         \A p \in Requests \ {q} :
            /\ pc'[p] = pc[p] /\ call'[p] = call[p] /\ selection'[p] = selection[p]
            /\ content'[p] = content[p] /\ answer'[p] = answer[p]
            /\ defaults'[p] = defaults[p] /\ facts'[p] = facts[p],
         Watched(q)', Known(q)'
  PROVE  IInv'
  <1>1. ASSUME NEW p \in Requests \ {q} PROVE Watched(p)' /\ Known(p)'
    <2>1. Watched(p) /\ Known(p)
      BY DEF IInv
    <2>2. Watched(p)'
      BY <2>1 DEF Watched, Running, now, authorizeWorkspace, manifest, access
    <2>3. Known(p)'
      BY <2>1 DEF Known, Selected, Resolved, args, manifest
    <2> QED
      BY <2>2, <2>3
  <1> QED
    BY <1>1 DEF IInv, manifest

(* A step that only moves a request leaves its facts as they were.         *)
LEMMA WatchedStays ==
  ASSUME NEW q \in Requests, Watched(q), UNCHANGED <<manifest, access, history>>,
         call'[q] = call[q], Running(q)
  PROVE  Watched(q)'
  BY DEF Watched, Running, now, authorizeWorkspace, manifest, access, history

-----------------------------------------------------------------------------
(* Every initial state is one: a served manifest and no request (hosted.ts).*)
THEOREM Initially == Init => IInv
  <1> SUFFICES ASSUME Init
               PROVE  IInv
    OBVIOUS
  <1>1. Shape /\ default \in retained
    BY DEF Init, Shape, Places, Ledger!Init
  <1>2. \A q \in Requests : pc[q] = "idle" /\ answer[q] = None
    BY DEF Init
  <1>3. \A q \in Requests : Watched(q) /\ Known(q)
    BY <1>2, NoneAssumption DEF Watched, Running, Known, Guarded
  <1> QED
    BY <1>1, <1>3 DEF IInv

LEMMA ArriveStep ==
  ASSUME IInv, NEW q \in Requests, Arrive(q)
  PROVE  IInv'
  <1>1. /\ call'[q] \in Calls /\ facts'[q] = now(call'[q], members, revoked)
        /\ defaults'[q] = {default}
    BY DEF Arrive, IInv, Shape
  <1>2. \/ pc'[q] = "select" /\ answer'[q] = None
        \/ pc'[q] = "answered" /\ answer'[q] = "E_CONCURRENCY_LIMIT"
    BY DEF Arrive, Goto, IInv, Shape, Known
  <1>3. UNCHANGED <<manifest, access>>
    BY DEF Arrive
  <1>4. Watched(q)'
    BY <1>1, <1>3 DEF Watched, Running, now, authorizeWorkspace, manifest, access
  <1>5. Known(q)'
    BY <1>2, NoneAssumption DEF Known, Guarded
  <1>6. Shape'
    BY DEF Arrive, Goto, IInv, Shape, Places
  <1> QED
    BY <1>3, <1>4, <1>5, <1>6, LocalStep DEF Arrive, Goto, IInv, Shape

LEMMA SelectSnapshotStep ==
  ASSUME IInv, NEW q \in Requests, SelectSnapshot(q)
  PROVE  IInv'
  <1>1. UNCHANGED <<manifest, access, call, content, history>> /\ pc[q] = "select" /\ answer[q] = None
    BY DEF SelectSnapshot, IInv, Known
  <1>2. Shape'
    BY DEF SelectSnapshot, Select, Respond, Goto, IInv, Shape, Places, history
  <1>3. Watched(q)'
    BY <1>1, WatchedStays DEF IInv, Running
  <1>4. Known(q)'
    <2>1. CASE args(q).context # None
      <3>1. pc'[q] = "context" /\ answer'[q] = None
        BY <1>1, <2>1 DEF SelectSnapshot, Goto, IInv, Shape
      <3> QED
        BY <1>1, <2>1, <3>1, NoneAssumption DEF Known, Guarded, args
    <2>2. CASE args(q).context = None /\ selectSnapshot(q) \in retained
      <3>1. pc'[q] = "guard" /\ answer'[q] = None /\ selection'[q] = selectSnapshot(q)
        BY <1>1, <2>2 DEF SelectSnapshot, Select, Goto, IInv, Shape
      <3>2. default \in defaults[q]
        BY <1>1 DEF IInv, Watched, Running
      <3>3. Selected(q)' /\ Resolved(q)'
        BY <1>1, <2>2, <3>1, <3>2 DEF Selected, Resolved, args, selectSnapshot, manifest, history
      <3> QED
        BY <3>1, <3>3, NoneAssumption DEF Known
    <2>3. CASE args(q).context = None /\ selectSnapshot(q) \notin retained
      <3>1. pc'[q] = "answered" /\ answer'[q] = "E_RELEASE_UNAVAILABLE"
        BY <2>3 DEF SelectSnapshot, Respond, Goto, IInv, Shape
      <3> QED
        BY <3>1 DEF Known, Guarded
    <2> QED
      BY <2>1, <2>2, <2>3
  <1> QED
    BY <1>1, <1>2, <1>3, <1>4, LocalStep
    DEF SelectSnapshot, Select, Respond, Goto, IInv, Shape, history

LEMMA ReadContextStep ==
  ASSUME IInv, NEW q \in Requests, ReadContext(q)
  PROVE  IInv'
  <1>1. /\ UNCHANGED <<manifest, access, call, selection, content, history>>
        /\ pc[q] = "context" /\ answer[q] = None /\ args(q).context # None
    BY DEF ReadContext, IInv, Known
  <1>2. Shape'
    BY DEF ReadContext, Respond, Goto, IInv, Shape, Places, history
  <1>3. Watched(q)'
    BY <1>1, WatchedStays DEF IInv, Running
  <1>4. \/ pc'[q] = "membership" /\ answer'[q] = None /\ args(q).context \notin revoked
        \/ pc'[q] = "answered" /\ answer'[q] = "E_CONTEXT_UNAVAILABLE"
    BY <1>1 DEF ReadContext, Respond, Goto, IInv, Shape
  <1>5. args(q).context \notin revoked => "open" \in facts[q]
    BY <1>1, NowKnows DEF IInv, Watched, Running, args
  <1>6. Known(q)'
    BY <1>1, <1>4, <1>5, NoneAssumption DEF Known, Guarded, args, history
  <1> QED
    BY <1>1, <1>2, <1>3, <1>6, LocalStep DEF ReadContext, Respond, Goto, IInv, Shape, history

LEMMA ReadMembershipStep ==
  ASSUME IInv, NEW q \in Requests, ReadMembership(q)
  PROVE  IInv'
  <1>1. /\ UNCHANGED <<manifest, access, call, selection, content, history>>
        /\ pc[q] = "membership" /\ answer[q] = None /\ args(q).context # None
        /\ "open" \in facts[q]
    BY DEF ReadMembership, IInv, Known
  <1>2. Shape'
    BY DEF ReadMembership, Respond, Goto, IInv, Shape, Places, history
  <1>3. Watched(q)'
    BY <1>1, WatchedStays DEF IInv, Running
  <1>4. \/ pc'[q] = "pin" /\ answer'[q] = None /\ args(q).subject \in members
        \/ pc'[q] = "answered" /\ answer'[q] = "E_CONTEXT_UNAVAILABLE"
    BY <1>1 DEF ReadMembership, Respond, Goto, IInv, Shape
  <1>5. args(q).subject \in members => "member" \in facts[q]
    BY <1>1, NowKnows DEF IInv, Watched, Running, args
  <1>6. Known(q)'
    BY <1>1, <1>4, <1>5, NoneAssumption DEF Known, Guarded, args, history
  <1> QED
    BY <1>1, <1>2, <1>3, <1>6, LocalStep DEF ReadMembership, Respond, Goto, IInv, Shape, history

LEMMA ReadPinnedStep ==
  ASSUME IInv, NEW q \in Requests, ReadPinned(q)
  PROVE  IInv'
  <1> DEFINE r == pinOf[args(q).context]
  <1>1. /\ UNCHANGED <<manifest, access, call, content, history>>
        /\ pc[q] = "pin" /\ answer[q] = None /\ args(q).context # None
        /\ {"member", "open"} \subseteq facts[q]
    BY DEF ReadPinned, IInv, Known
  <1>2. Shape'
    BY DEF ReadPinned, Select, Respond, Goto, IInv, Shape, Places, history
  <1>3. Watched(q)'
    BY <1>1, WatchedStays DEF IInv, Running
  <1>4. Known(q)'
    <2>1. CASE r \in retained /\ args(q).digest \in {None, r}
      <3>1. pc'[q] = "guard" /\ answer'[q] = None /\ selection'[q] = r
        BY <1>1, <2>1 DEF ReadPinned, Select, Goto, IInv, Shape
      <3>2. Selected(q)' /\ Resolved(q)'
        BY <1>1, <2>1, <3>1 DEF Selected, Resolved, args, manifest, history
      <3> QED
        BY <3>1, <3>2, NoneAssumption DEF Known
    <2>2. CASE ~ (r \in retained /\ args(q).digest \in {None, r})
      <3>1. pc'[q] = "answered" /\ answer'[q] \in {"E_CONTEXT_UNAVAILABLE", "E_RELEASE_MISMATCH"}
        BY <2>2 DEF ReadPinned, Respond, Goto, IInv, Shape
      <3> QED
        BY <3>1 DEF Known, Guarded
    <2> QED
      BY <2>1, <2>2
  <1> QED
    BY <1>1, <1>2, <1>3, <1>4, LocalStep
    DEF ReadPinned, Select, Respond, Goto, IInv, Shape, history

LEMMA GuardStep ==
  ASSUME IInv, NEW q \in Requests, Guard(q)
  PROVE  IInv'
  <1>1. /\ UNCHANGED <<manifest, access, call, selection, content, history>>
        /\ pc[q] = "guard" /\ answer[q] = None /\ Selected(q) /\ Resolved(q)
    BY DEF Guard, IInv, Known, Guarded
  <1>2. Shape'
    BY DEF Guard, Respond, Goto, IInv, Shape, Places, history
  <1>3. Watched(q)'
    BY <1>1, WatchedStays DEF IInv, Running
  <1>4. PICK allowed \in {FALSE, authorize(args(q).subject)} :
          IF verdict(q, allowed) = "ok" THEN Goto(q, "body") /\ UNCHANGED <<active, answer>>
          ELSE Respond(q, verdict(q, allowed))
    BY DEF Guard
  <1>5. allowed => {"authorized", "current"} \subseteq facts[q]
    BY <1>1, <1>4, NowKnows DEF IInv, Watched, Running, args
  <1>6. Selected(q)' /\ Resolved(q)'
    BY <1>1 DEF Selected, Resolved, args, manifest, history
  <1>7. Known(q)'
    <2>1. CASE verdict(q, allowed) = "ok"
      <3>1. pc'[q] = "body" /\ answer'[q] = None /\ allowed
        BY <1>1, <1>4, <2>1 DEF verdict, Goto, IInv, Shape
      <3> QED
        BY <1>1, <1>5, <1>6, <3>1, NoneAssumption DEF Known, history
    <2>2. CASE verdict(q, allowed) # "ok"
      <3>1. /\ pc'[q] = "answered" /\ answer'[q] = verdict(q, allowed)
            /\ \/ answer'[q] = "E_UNAUTHORIZED"
               \/ answer'[q] = "E_CONTENT_REVOKED" /\ allowed
        BY <1>4, <2>2 DEF verdict, Respond, Goto, IInv, Shape
      <3> QED
        BY <1>1, <1>5, <3>1 DEF Known, Guarded, history
    <2> QED
      BY <2>1, <2>2
  <1> QED
    BY <1>1, <1>2, <1>3, <1>4, <1>7, LocalStep DEF Respond, Goto, IInv, Shape, history

LEMMA BodyStep ==
  ASSUME IInv, NEW q \in Requests, Body(q)
  PROVE  IInv'
  <1>1. /\ UNCHANGED <<manifest, access, call, selection, defaults>>
        /\ pc[q] = "body" /\ answer[q] = None /\ Selected(q) /\ Resolved(q)
        /\ {"authorized", "current"} \subseteq facts[q]
        /\ now(call[q], members, revoked) \subseteq facts[q]
        /\ default \in defaults[q]
    BY DEF Body, IInv, Known, Guarded, Watched, Running
  <1>2. Shape'
    BY DEF Body, Respond, Goto, IInv, Shape, Places
  <1>3. /\ content'[q] = selection'[q]
        /\ facts'[q] = IF scoped(q) THEN (facts[q] \ {"current"}) \cup now(call[q], members, revoked)
                       ELSE facts[q]
    BY DEF Body, effective, args, IInv, Shape
  <1>4. /\ now(call[q], members, revoked) \subseteq facts'[q]
        /\ facts[q] \ {"current"} \subseteq facts'[q]
        /\ ~ scoped(q) => "current" \in facts'[q]
    BY <1>1, <1>3
  <1>5. Watched(q)'
    BY <1>1, <1>4 DEF Watched, now, authorizeWorkspace, manifest, access
  <1>6. Selected(q)' /\ Resolved(q)'
    BY <1>1, <1>4 DEF Selected, Resolved, args, manifest
  <1>7. \/ pc'[q] = "final" /\ answer'[q] = None
        \/ pc'[q] = "answered" /\ answer'[q] = "E_SKILL_NOT_FOUND"
        \/ pc'[q] = "answered" /\ answer'[q] = "ok" /\ ~ scoped(q)
    BY <1>1 DEF Body, Respond, Goto, IInv, Shape
  <1>8. Known(q)'
    BY <1>1, <1>3, <1>4, <1>6, <1>7, NoneAssumption DEF Known, Guarded
  <1> QED
    BY <1>1, <1>2, <1>5, <1>8, LocalStep DEF Body, Respond, Goto, IInv, Shape

LEMMA FinalStep ==
  ASSUME IInv, NEW q \in Requests, Final(q)
  PROVE  IInv'
  <1>1. /\ UNCHANGED <<manifest, access, call, selection, content, history>>
        /\ pc[q] = "final" /\ Selected(q) /\ Resolved(q)
        /\ content[q] = selection[q] /\ "authorized" \in facts[q]
    BY DEF Final, IInv, Known, Guarded
  <1>2. Shape'
    BY DEF Final, Respond, Goto, IInv, Shape, Places, history
  <1>3. Watched(q)'
    BY <1>1, WatchedStays DEF IInv, Running
  <1>4. Selected(q)' /\ Resolved(q)'
    BY <1>1 DEF Selected, Resolved, args, manifest, history
  <1>5. /\ pc'[q] = "answered"
        /\ \/ answer'[q] = "E_CONTENT_REVOKED"
           \/ answer'[q] = "ok" /\ authorize(args(q).subject)
    BY DEF Final, Respond, Goto, IInv, Shape
  <1>6. authorize(args(q).subject) => "current" \in facts[q]
    BY <1>1, NowKnows DEF IInv, Watched, Running, args
  <1>7. Known(q)'
    BY <1>1, <1>4, <1>5, <1>6 DEF Known, Guarded, history
  <1> QED
    BY <1>1, <1>2, <1>3, <1>7, LocalStep DEF Final, Respond, Goto, IInv, Shape, history

-----------------------------------------------------------------------------
(* Publications and revocations move no request; facts and defaults only   *)
(* grow.                                                                   *)
LEMMA OutsideStep ==
  ASSUME IInv, UNCHANGED <<pc, call, selection, content, answer>>, Shape',
         default' \in retained', retained \subseteq retained',
         \A q \in Requests : /\ facts[q] \subseteq facts'[q] /\ defaults[q] \subseteq defaults'[q]
                             /\ ~ Running(q) => facts'[q] = facts[q]
                             /\ Watched(q)'
  PROVE  IInv'
  <1>1. ASSUME NEW q \in Requests PROVE Known(q)'
    BY DEF IInv, Known, Selected, Resolved, args, Guarded
  <1> QED
    BY <1>1 DEF IInv

LEMMA PublishStep ==
  ASSUME IInv, NEW r \in Releases, Publish(r)
  PROVE  IInv'
  <1>1. /\ retained' = retained \cup {r} /\ default' = r
        /\ UNCHANGED <<access, pc, call, selection, content, answer, facts>>
    BY DEF Publish, Ledger!Publish
  <1>2. Shape'
    BY DEF Publish, IInv, Shape
  <1>3. ASSUME NEW q \in Requests
        PROVE  defaults[q] \subseteq defaults'[q] /\ Watched(q)'
    BY <1>1, <1>3 DEF Publish, running, IInv, Watched, Running, now, authorizeWorkspace, access
  <1> QED
    BY <1>1, <1>2, <1>3, OutsideStep

LEMMA AccessStep ==
  ASSUME IInv, Observe, UNCHANGED <<manifest, visibility, pc, call, selection, content, answer, defaults>>
  PROVE  IInv'
  <1>1. Shape'
    BY DEF IInv, Shape, Observe
  <1>2. ASSUME NEW q \in Requests
        PROVE  /\ facts[q] \subseteq facts'[q]
               /\ ~ Running(q) => facts'[q] = facts[q]
               /\ Watched(q)'
    BY <1>2 DEF Observe, running, IInv, Watched, Running, now, authorizeWorkspace, args, manifest
  <1> QED
    BY <1>1, <1>2, OutsideStep DEF IInv, manifest

(* What a request has selected and been told fits its phase, whatever is   *)
(* published or revoked beside it (hosted.ts, fetch and guard).            *)
THEOREM Inductive == Spec => []IInv
  <1>1. IInv /\ [Next]_vars => IInv'
    <2> SUFFICES ASSUME IInv, [Next]_vars
                 PROVE  IInv'
      OBVIOUS
    <2>1. CASE UNCHANGED vars
      BY <2>1 DEF vars, manifest, access, history, IInv, Shape, Watched, Running, now,
                  authorizeWorkspace, Known, Selected, Resolved, args
    <2>2. ASSUME NEW q \in Requests,
                 \/ Arrive(q) \/ SelectSnapshot(q) \/ ReadContext(q) \/ ReadMembership(q)
                 \/ ReadPinned(q) \/ Guard(q) \/ Body(q) \/ Final(q)
          PROVE  IInv'
      BY <2>2, ArriveStep, SelectSnapshotStep, ReadContextStep, ReadMembershipStep, ReadPinnedStep,
         GuardStep, BodyStep, FinalStep
    <2>3. ASSUME NEW r \in Releases, Publish(r) PROVE IInv'
      BY <2>3, PublishStep
    <2>4. ASSUME NEW s \in Subjects, Grant(s) \/ Revoke(s) PROVE IInv'
      BY <2>4, AccessStep DEF Grant, Revoke
    <2>5. ASSUME NEW x \in Contexts, RevokeContext(x) PROVE IInv'
      BY <2>5, AccessStep DEF RevokeContext
    <2> QED
      BY <2>1, <2>2, <2>3, <2>4, <2>5 DEF Next
  <1> QED
    BY <1>1, Initially, PTL DEF Spec

-----------------------------------------------------------------------------
(* All of an answer is of one release, whatever is published between the   *)
(* reads of the request (hosted.ts, the selection promise).                *)
THEOREM OneRelease == Spec => []OneReleasePerRequest
  <1>1. IInv => OneReleasePerRequest
    BY DEF IInv, Known, Selected, OneReleasePerRequest
  <1> QED
    BY <1>1, Inductive, PTL

(* Whoever gets an answer was authorized since the request came, and for   *)
(* the content of a skill since it was read (hosted.ts, the last check).   *)
THEOREM Revocation == Spec => []AnswersRespectRevocation
  <1>1. IInv => AnswersRespectRevocation
    BY DEF IInv, Known, Resolved, AnswersRespectRevocation
  <1> QED
    BY <1>1, Inductive, PTL

(* Who was never authorized learns nothing from the deny lists (hosted.ts, *)
(* the order of the guards).                                               *)
THEOREM NoLeak == Spec => []DenialsDoNotLeak
  <1>1. IInv => DenialsDoNotLeak
    BY DEF IInv, Known, DenialsDoNotLeak
  <1> QED
    BY <1>1, Inductive, PTL

-----------------------------------------------------------------------------
(***************************************************************************)
(* The counters that the limits of the telemetry buffer are enforced by are*)
(* exact.                                                                  *)
(***************************************************************************)

(* Induction over the naturals, for a set instead of a predicate.          *)
LEMMA EveryNatural ==
  ASSUME NEW T, 0 \in T, \A n \in Nat : n \in T => n + 1 \in T
  PROVE  Nat \subseteq T
  <1> SUFFICES ASSUME Nat \ T # {} PROVE FALSE
    OBVIOUS
  <1> DEFINE R == OpToRel(<, Nat)
  <1>1. PICK n \in Nat \ T : \A m \in Nat \ T : ~ (<<m, n>> \in R)
    <2>1. IsWellFoundedOn(R, Nat)
      BY NatLessThanWellFounded
    <2> HIDE DEF R
    <2> QED
      BY <2>1, WFMin
  <1>2. \A m \in Nat : m < n => m \in T
    BY <1>1 DEF OpToRel
  <1> HIDE DEF R
  <1>3. n \in Nat /\ n \notin T /\ n # 0
    BY <1>1
  <1>4. n - 1 \in Nat /\ n - 1 < n /\ (n - 1) + 1 = n
    BY <1>3
  <1> QED
    BY <1>2, <1>3, <1>4

(* The least number in a set of naturals.                                  *)
LEMMA LeastNatural ==
  ASSUME NEW T \in SUBSET Nat, T # {}
  PROVE  \E n \in T : \A m \in T : n <= m
  <1> DEFINE R == OpToRel(<, Nat)
  <1>1. PICK n \in T : \A m \in T : ~ (<<m, n>> \in R)
    <2>1. IsWellFoundedOn(R, Nat)
      BY NatLessThanWellFounded
    <2> HIDE DEF R
    <2> QED
      BY <2>1, WFMin
  <1>2. \A m \in T : ~ (m < n)
    BY <1>1 DEF OpToRel
  <1> HIDE DEF R
  <1>3. \A m \in T : m \in Nat
    OBVIOUS
  <1> QED
    BY <1>1, <1>2, <1>3

-----------------------------------------------------------------------------
Record == [id : Nat, bytes : Nat]

(* What the bytes of a sequence are counted by: the running sums.          *)
Sums(g, s) == g = [n \in 0 .. Len(s) |-> IF n = 0 THEN 0 ELSE g[n - 1] + s[n].bytes]

LEMMA SumsExist ==
  ASSUME NEW s \in Seq(Record)
  PROVE  \E g : Sums(g, s)
  <1> DEFINE upTo(g, k) == g = [n \in 0 .. k |-> IF n = 0 THEN 0 ELSE g[n - 1] + s[n].bytes]
             T == {k \in Nat : \E g : upTo(g, k)}
  <1>1. 0 \in T
    <2>1. upTo([n \in 0 .. 0 |-> 0], 0)
      OBVIOUS
    <2> QED
      BY <2>1
  <1>2. ASSUME NEW k \in Nat, k \in T PROVE k + 1 \in T
    <2>1. PICK g : upTo(g, k)
      BY <1>2
    <2> DEFINE h == [n \in 0 .. k + 1 |-> IF n = k + 1 THEN g[k] + s[n].bytes ELSE g[n]]
    <2>2. \A n \in 0 .. k + 1 : h[n] = IF n = 0 THEN 0 ELSE h[n - 1] + s[n].bytes
      BY <2>1
    <2>3. DOMAIN h = 0 .. k + 1
      OBVIOUS
    <2> HIDE DEF h
    <2>4. h = [n \in 0 .. k + 1 |-> h[n]]
      BY <2>3 DEF h
    <2>5. upTo(h, k + 1)
      BY <2>2, <2>4
    <2>6. k + 1 \in Nat
      OBVIOUS
    <2> HIDE DEF upTo
    <2> QED
      BY <2>5, <2>6
  <1> HIDE DEF T
  <1>3. Nat \subseteq T
    BY <1>1, <1>2, EveryNatural
  <1>4. Len(s) \in T
    BY <1>3
  <1> QED
    BY <1>4 DEF T, Sums

(* The bytes of a sequence are the last of its running sums.               *)
LEMMA BytesAreSums ==
  ASSUME NEW s \in Seq(Record)
  PROVE  \E g : Sums(g, s) /\ bytesOf(s) = g[Len(s)]
  <1> DEFINE sum == CHOOSE g : Sums(g, s)
  <1>1. Sums(sum, s)
    BY SumsExist
  <1>2. bytesOf(s) = sum[Len(s)]
    BY DEF bytesOf, Sums
  <1> QED
    BY <1>1, <1>2

(* Whatever adds up the bytes step by step arrives at the same.            *)
LEMMA BytesUnique ==
  ASSUME NEW s \in Seq(Record), NEW f, f[0] = 0,
         \A n \in 1 .. Len(s) : f[n] = f[n - 1] + s[n].bytes
  PROVE  f[Len(s)] = bytesOf(s)
  <1>1. PICK g : Sums(g, s) /\ bytesOf(s) = g[Len(s)]
    BY BytesAreSums
  <1>2. g[0] = 0 /\ \A n \in 1 .. Len(s) : g[n] = g[n - 1] + s[n].bytes
    BY <1>1 DEF Sums
  <1> DEFINE T == {n \in Nat : n <= Len(s) => f[n] = g[n]}
  <1>3. 0 \in T
    BY <1>2
  <1>4. ASSUME NEW n \in Nat, n \in T PROVE n + 1 \in T
    BY <1>2, <1>4
  <1> HIDE DEF T
  <1>5. Nat \subseteq T
    BY <1>3, <1>4, EveryNatural
  <1>6. Len(s) \in T
    BY <1>5
  <1> QED
    BY <1>1, <1>6 DEF T
LEMMA BytesType ==
  ASSUME NEW s \in Seq(Record)
  PROVE  bytesOf(s) \in Nat
  <1>1. PICK g : Sums(g, s) /\ bytesOf(s) = g[Len(s)]
    BY BytesAreSums
  <1> DEFINE T == {n \in Nat : n <= Len(s) => g[n] \in Nat}
  <1>2. 0 \in T
    BY <1>1 DEF Sums
  <1>3. ASSUME NEW n \in Nat, n \in T PROVE n + 1 \in T
    <2> SUFFICES ASSUME n + 1 <= Len(s) PROVE g[n + 1] \in Nat
      OBVIOUS
    <2>1. g[n] \in Nat /\ s[n + 1] \in Record
      BY <1>3
    <2>2. g[n + 1] = g[n] + s[n + 1].bytes
      BY <1>1 DEF Sums
    <2> QED
      BY <2>1, <2>2 DEF Record
  <1> HIDE DEF T
  <1>4. Nat \subseteq T
    BY <1>2, <1>3, EveryNatural
  <1>5. Len(s) \in T
    BY <1>4
  <1> QED
    BY <1>1, <1>5 DEF T

(* Cut anywhere, the parts of a sequence have its bytes together.          *)
LEMMA BytesOfParts ==
  ASSUME NEW s \in Seq(Record), NEW n \in 0 .. Len(s)
  PROVE  bytesOf(SubSeq(s, n + 1, Len(s))) = bytesOf(s) - bytesOf(SubSeq(s, 1, n))
  <1> DEFINE front == SubSeq(s, 1, n)
             rest == SubSeq(s, n + 1, Len(s))
  <1>1. PICK g : Sums(g, s) /\ bytesOf(s) = g[Len(s)]
    BY BytesAreSums
  <1>2. /\ g[0] = 0
        /\ \A i \in 1 .. Len(s) : g[i] = g[i - 1] + s[i].bytes
    BY <1>1 DEF Sums
  <1>3. /\ front \in Seq(Record) /\ Len(front) = n
        /\ \A i \in 1 .. n : front[i] = s[i]
    OBVIOUS
  <1>4. /\ rest \in Seq(Record) /\ Len(rest) = Len(s) - n
        /\ \A i \in 1 .. Len(s) - n : rest[i] = s[n + i]
    OBVIOUS
  <1> HIDE DEF front, rest
  <1>5. \A i \in 0 .. Len(s) : g[i] \in Int
    <2> DEFINE T == {i \in Nat : i <= Len(s) => g[i] \in Int}
    <2>1. 0 \in T
      BY <1>2
    <2>2. ASSUME NEW i \in Nat, i \in T PROVE i + 1 \in T
      <3> SUFFICES ASSUME i + 1 <= Len(s) PROVE g[i + 1] \in Int
        OBVIOUS
      <3>1. g[i] \in Int /\ s[i + 1] \in Record /\ g[i + 1] = g[i] + s[i + 1].bytes
        BY <1>2, <2>2
      <3> QED
        BY <3>1 DEF Record
    <2> HIDE DEF T
    <2>3. Nat \subseteq T
      BY <2>1, <2>2, EveryNatural
    <2> QED
      BY <2>3 DEF T
  <1>6. bytesOf(front) = g[n]
    BY <1>2, <1>3, BytesUnique
  <1>7. bytesOf(rest) = g[Len(s)] - g[n]
    <2> DEFINE f == [i \in 0 .. Len(s) - n |-> g[n + i] - g[n]]
    <2>1. f[0] = 0
      BY <1>5
    <2>2. \A i \in 1 .. Len(rest) : f[i] = f[i - 1] + rest[i].bytes
      <3> SUFFICES ASSUME NEW i \in 1 .. Len(s) - n PROVE f[i] = f[i - 1] + rest[i].bytes
        BY <1>4
      <3>1. n + i \in 1 .. Len(s) /\ n + i - 1 \in 0 .. Len(s) /\ n + (i - 1) = n + i - 1
        OBVIOUS
      <3>2. rest[i].bytes = s[n + i].bytes /\ s[n + i].bytes \in Nat
        <4>1. s[n + i] \in Record /\ rest[i] = s[n + i]
          BY <1>4, <3>1
        <4> QED
          BY <4>1 DEF Record
      <3>3. g[n + i] = g[n + i - 1] + s[n + i].bytes
        BY <1>2, <3>1
      <3>4. f[i] = g[n + i] - g[n] /\ f[i - 1] = g[n + i - 1] - g[n]
        BY <3>1
      <3> HIDE DEF f
      <3> QED
        BY <1>5, <3>1, <3>2, <3>3, <3>4
    <2>3. f[Len(rest)] = g[Len(s)] - g[n]
      BY <1>4
    <2> HIDE DEF f
    <2> QED
      BY <1>4, <2>1, <2>2, <2>3, BytesUnique
  <1> QED
    BY <1>1, <1>6, <1>7 DEF front, rest

LEMMA BytesOfAppend ==
  ASSUME NEW s \in Seq(Record), NEW r \in Record
  PROVE  bytesOf(Append(s, r)) = bytesOf(s) + r.bytes
  <1> DEFINE a == Append(s, r)
  <1>1. PICK g : Sums(g, s) /\ bytesOf(s) = g[Len(s)]
    BY BytesAreSums
  <1>2. /\ g[0] = 0
        /\ \A i \in 1 .. Len(s) : g[i] = g[i - 1] + s[i].bytes
    BY <1>1 DEF Sums
  <1>3. /\ a \in Seq(Record) /\ Len(a) = Len(s) + 1
        /\ \A i \in 1 .. Len(s) : a[i] = s[i]
        /\ a[Len(s) + 1] = r
    OBVIOUS
  <1> HIDE DEF a
  <1> DEFINE f == [i \in 0 .. Len(s) + 1 |-> IF i <= Len(s) THEN g[i] ELSE g[Len(s)] + r.bytes]
  <1>4. f[0] = 0
    BY <1>2
  <1>5. \A i \in 1 .. Len(a) : f[i] = f[i - 1] + a[i].bytes
    BY <1>2, <1>3
  <1>6. f[Len(a)] = g[Len(s)] + r.bytes
    BY <1>3
  <1> HIDE DEF f
  <1> QED
    BY <1>1, <1>3, <1>4, <1>5, <1>6, BytesUnique DEF a

LEMMA BytesOfNothing == bytesOf(<<>>) = 0
  <1> DEFINE f == [i \in {0} |-> 0]
  <1>1. <<>> \in Seq(Record) /\ Len(<<>>) = 0 /\ f[0] = 0
    OBVIOUS
  <1>2. \A n \in 1 .. Len(<<>>) : f[n] = f[n - 1] + <<>>[n].bytes
    BY <1>1
  <1>3. f[Len(<<>>)] = bytesOf(<<>>)
    BY <1>1, <1>2, BytesUnique
  <1> QED
    BY <1>1, <1>3

-----------------------------------------------------------------------------
Limits == /\ MaxPending \in Nat \ {0} /\ MaxQueued \in Nat \ {0} /\ MaxQueuedBytes \in Nat \ {0}
          /\ Bytes \subseteq Nat

LEMMA LimitsHold == Limits
  BY LimitAssumption DEF Limits

(* The records of s bear the numbers that follow base.                     *)
Numbered(base, s) == /\ base \in Nat /\ s \in Seq(Record)
                     /\ \A i \in 1 .. Len(s) : s[i].id = base + i

ids(s, n) == {s[i].id : i \in 1 .. n}

(* What is left of a queue when its n oldest records leave it.             *)
LEMMA Rest ==
  ASSUME NEW base, NEW q, Numbered(base, q), NEW n \in 0 .. Len(q)
  PROVE  LET s == SubSeq(q, n + 1, Len(q))
         IN  /\ Numbered(base + n, s) /\ Len(s) = Len(q) - n
             /\ bytesOf(q) - bytesOf(SubSeq(q, 1, n)) = bytesOf(s)
             /\ bytesOf(s) \in 0 .. bytesOf(q)
  <1> DEFINE s == SubSeq(q, n + 1, Len(q))
             front == SubSeq(q, 1, n)
  <1>1. /\ base \in Nat /\ q \in Seq(Record) /\ Len(q) \in Nat
        /\ \A i \in 1 .. Len(q) : q[i].id = base + i
    BY DEF Numbered
  <1>2. /\ s \in Seq(Record) /\ Len(s) = Len(q) - n
        /\ \A i \in 1 .. Len(q) - n : s[i] = q[n + i]
    BY <1>1
  <1>3. front \in Seq(Record)
    BY <1>1
  <1>4. bytesOf(s) = bytesOf(q) - bytesOf(front)
    BY <1>1, BytesOfParts
  <1> HIDE DEF s, front
  <1>5. bytesOf(s) \in Nat /\ bytesOf(front) \in Nat /\ bytesOf(q) \in Nat
    BY <1>1, <1>2, <1>3, BytesType
  <1>6. \A i \in 1 .. Len(s) : s[i].id = (base + n) + i
    <2> SUFFICES ASSUME NEW i \in 1 .. Len(s) PROVE s[i].id = (base + n) + i
      OBVIOUS
    <2>1. n + i \in 1 .. Len(q) /\ i \in 1 .. Len(q) - n
      BY <1>1, <1>2
    <2>2. s[i] = q[n + i] /\ q[n + i].id = base + (n + i)
      BY <1>1, <1>2, <2>1
    <2> QED
      BY <1>1, <2>2
  <1>7. Numbered(base + n, s)
    BY <1>1, <1>2, <1>6 DEF Numbered
  <1> QED
    BY <1>2, <1>4, <1>5, <1>7 DEF s, front

LEMMA Ids ==
  ASSUME NEW base, NEW q, Numbered(base, q), NEW n \in 0 .. Len(q)
  PROVE  ids(q, n) = base + 1 .. base + n
  <1>1. base \in Nat /\ Len(q) \in Nat /\ \A i \in 1 .. n : q[i].id = base + i
    BY DEF Numbered
  <1>2. ASSUME NEW x \in base + 1 .. base + n PROVE x \in ids(q, n)
    <2>1. x - base \in 1 .. n /\ q[x - base].id = x
      BY <1>1
    <2> QED
      BY <2>1 DEF ids
  <1>3. ids(q, n) \subseteq base + 1 .. base + n
    BY <1>1 DEF ids
  <1> QED
    BY <1>2, <1>3

(* The records that a drain takes are the oldest, and no more of them write *)
(* than there are free slots.                                              *)
LEMMA Taken ==
  ASSUME NEW base, NEW q, Numbered(base, q), NEW free \in Nat, NEW thrown
  PROVE  /\ taken(q, free, thrown) \in 0 .. Len(q)
         /\ Cardinality(ids(q, taken(q, free, thrown)) \ thrown) <= free
  <1> DEFINE at(i) == {j \in 1 .. i : q[j].id \notin thrown}
             kept(i) == Cardinality(at(i))
             ends(i) == i = Len(q) \/ kept(i) = free
             T == {i \in 0 .. Len(q) : ends(i)}
             Good(m) == ends(m) /\ \A i \in 0 .. (m - 1) : kept(i) # free
             n == taken(q, free, thrown)
             started == ids(q, n)
  <1>0. /\ base \in Nat /\ Len(q) \in Nat
        /\ \A i \in 1 .. Len(q) : q[i].id = base + i
    BY DEF Numbered
  <1>1. n \in 0 .. Len(q) /\ Good(n)
    <2>1. PICK m \in T : \A k \in T : m <= k
      <3>1. T \in SUBSET Nat /\ Len(q) \in T
        BY <1>0
      <3> HIDE DEF T
      <3> QED
        BY <3>1, LeastNatural
    <2>2. m \in 0 .. Len(q) /\ Good(m)
      <3>1. m \in 0 .. Len(q) /\ ends(m)
        BY <2>1
      <3>2. ASSUME NEW i \in 0 .. (m - 1) PROVE ~ ends(i)
        <4>1. i \in 0 .. Len(q) /\ i < m
          BY <1>0, <3>1
        <4> HIDE DEF ends
        <4> QED
          BY <2>1, <4>1
      <3>3. \A i \in 0 .. (m - 1) : kept(i) # free
        BY <3>2
      <3> QED
        BY <3>1, <3>3
    <2>3. n = CHOOSE k \in 0 .. Len(q) : Good(k)
      BY DEF taken
    <2> HIDE DEF Good, n
    <2> QED
      BY <2>2, <2>3
  <1> HIDE DEF n
  <1>2. ASSUME NEW i \in Nat PROVE IsFiniteSet(at(i)) /\ kept(i) \in Nat
    <2>1. IsFiniteSet(1 .. i) /\ at(i) \in SUBSET (1 .. i)
      BY FS_Interval
    <2> HIDE DEF at
    <2> QED
      BY <2>1, FS_Subset, FS_CardinalityType
  <1>3. kept(0) = 0
    <2>1. at(0) = {}
      OBVIOUS
    <2> HIDE DEF at
    <2> QED
      BY <2>1, FS_EmptySet
  <1>4. ASSUME NEW i \in Nat PROVE kept(i + 1) <= kept(i) + 1
    <2>1. at(i + 1) = at(i) \/ at(i + 1) = at(i) \cup {i + 1}
      OBVIOUS
    <2>2. IsFiniteSet(at(i)) /\ kept(i) \in Nat
      BY <1>2
    <2> HIDE DEF at
    <2>3. CASE at(i + 1) = at(i)
      BY <2>2, <2>3
    <2>4. CASE at(i + 1) = at(i) \cup {i + 1}
      <3>1. Cardinality(at(i) \cup {i + 1}) = IF i + 1 \in at(i) THEN Cardinality(at(i)) ELSE Cardinality(at(i)) + 1
        BY <2>2, FS_AddElement
      <3>2. kept(i + 1) = Cardinality(at(i) \cup {i + 1})
        BY <2>4
      <3> HIDE DEF kept
      <3>3. CASE i + 1 \in at(i)
        BY <2>2, <3>1, <3>2, <3>3 DEF kept
      <3>4. CASE i + 1 \notin at(i)
        BY <2>2, <3>1, <3>2, <3>4 DEF kept
      <3> QED
        BY <3>3, <3>4
    <2> QED
      BY <2>1, <2>3, <2>4
  <1>5. kept(n) <= free
    <2> DEFINE U == {i \in Nat : i <= n => kept(i) <= free}
    <2>0. \A i \in 0 .. (n - 1) : kept(i) # free
      BY <1>1
    <2> HIDE DEF kept
    <2>1. 0 \in U
      BY <1>3
    <2>2. ASSUME NEW i \in Nat, i \in U PROVE i + 1 \in U
      <3> SUFFICES ASSUME i + 1 <= n PROVE kept(i + 1) <= free
        OBVIOUS
      <3>1. kept(i) <= free /\ kept(i) # free
        BY <1>0, <1>1, <2>0, <2>2
      <3>2. i + 1 \in Nat
        OBVIOUS
      <3>3. kept(i) \in Nat /\ kept(i + 1) \in Nat
        BY <1>2, <3>2
      <3>4. kept(i + 1) <= kept(i) + 1
        BY <1>4
      <3> QED
        BY <3>1, <3>3, <3>4
    <2> HIDE DEF U
    <2>3. Nat \subseteq U
      BY <2>1, <2>2, EveryNatural
    <2>4. n \in U
      BY <1>0, <1>1, <2>3
    <2> QED
      BY <2>4 DEF U
  <1>6. started = base + 1 .. base + n
    BY <1>1, Ids
  <1> HIDE DEF started
  <1>7. Cardinality(started \ thrown) = kept(n)
    <2> DEFINE f == [j \in at(n) |-> base + j]
    <2>1. \A j \in 1 .. n : q[j].id = base + j
      BY <1>0, <1>1
    <2>2. \A x \in started \ thrown : x - base \in at(n) /\ base + (x - base) = x
      BY <1>0, <1>1, <1>6, <2>1
    <2>3. f \in Bijection(at(n), started \ thrown)
      <3>1. f \in [at(n) -> started \ thrown]
        BY <1>0, <1>1, <1>6, <2>1
      <3>2. \A i, j \in at(n) : f[i] = f[j] => i = j
        BY <1>0, <1>1
      <3>3. \A x \in started \ thrown : \E j \in at(n) : f[j] = x
        BY <2>2
      <3> HIDE DEF f, at
      <3> QED
        BY <3>1, <3>2, <3>3 DEF Bijection, Injection, Surjection, IsInjective
    <2>4. ExistsBijection(at(n), started \ thrown)
      <3> HIDE DEF f, at
      <3> QED
        BY <2>3 DEF ExistsBijection
    <2>5. IsFiniteSet(at(n))
      BY <1>0, <1>1, <1>2
    <2> HIDE DEF at
    <2> QED
      BY <2>4, <2>5, FS_Bijection
  <1> QED
    BY <1>1, <1>5, <1>7 DEF started, n

(* What a drain leaves: n records have left the queue, which started or    *)
(* settled, and none is lost.                                              *)
Drained(base, q, p, ended, n) ==
  /\ Numbered(base + n, queue') /\ Len(queue') = Len(q) - n
  /\ queuedBytes' = bytesOf(queue') /\ queuedBytes' \in 0 .. bytesOf(q)
  /\ inFlight' \in SUBSET (1 .. base + n)
  /\ pending' = Cardinality(inFlight') /\ pending' \in 0 .. MaxPending
  /\ settled' \in Nat
  /\ pending' + settled' = n + p + ended

LEMMA DrainStep ==
  ASSUME NEW base, NEW q, Numbered(base, q),
         NEW up \in SUBSET (1 .. base), NEW p \in 0 .. MaxPending, p = Cardinality(up),
         NEW ended \in Nat, Drain(q, bytesOf(q), p, up, ended)
  PROVE  \E n \in 0 .. Len(q) : Drained(base, q, p, ended, n)
  <1> DEFINE free == MaxPending - p
  <1>0. /\ base \in Nat /\ Len(q) \in Nat
        /\ free \in Nat /\ MaxPending \in Nat /\ p \in Nat /\ p + free = MaxPending
    BY LimitsHold DEF Limits, Numbered
  <1>1. PICK thrown : 
          LET n == taken(q, free, thrown)
          IN /\ thrown \subseteq ids(q, n)
             /\ queue' = SubSeq(q, n + 1, Len(q))
             /\ queuedBytes' = bytesOf(q) - bytesOf(SubSeq(q, 1, n))
             /\ pending' = p + Cardinality(ids(q, n) \ thrown)
             /\ inFlight' = up \cup (ids(q, n) \ thrown)
             /\ settled' = ended + Cardinality(thrown)
    BY DEF Drain, ids
  <1> DEFINE n == taken(q, free, thrown)
             started == ids(q, n)
             mine == started \ thrown
  <1> HIDE DEF free
  <1>2. n \in 0 .. Len(q) /\ Cardinality(mine) <= free
    BY <1>0, Taken
  <1>3. /\ thrown \subseteq started
        /\ queue' = SubSeq(q, n + 1, Len(q))
        /\ queuedBytes' = bytesOf(q) - bytesOf(SubSeq(q, 1, n))
        /\ pending' = p + Cardinality(mine)
        /\ inFlight' = up \cup mine
        /\ settled' = ended + Cardinality(thrown)
    BY <1>1
  <1> HIDE DEF n
  <1>4. started = base + 1 .. base + n
    BY <1>2, Ids
  <1> HIDE DEF started
  <1>5. /\ Numbered(base + n, queue') /\ Len(queue') = Len(q) - n
        /\ queuedBytes' = bytesOf(queue') /\ queuedBytes' \in 0 .. bytesOf(q)
    BY <1>2, <1>3, Rest
  <1>6. /\ IsFiniteSet(thrown) /\ Cardinality(thrown) \in Nat
        /\ IsFiniteSet(mine) /\ Cardinality(mine) \in Nat
        /\ Cardinality(mine) + Cardinality(thrown) = n
    <2>1. IsFiniteSet(started) /\ Cardinality(started) = n
      <3>1. base + 1 \in Int /\ base + n \in Int /\ (base + n) - (base + 1) + 1 = n /\ (n = 0 <=> base + 1 > base + n)
        BY <1>0, <1>2
      <3> QED
        BY <1>2, <1>4, <3>1, FS_Interval
    <2>2. IsFiniteSet(thrown) /\ Cardinality(thrown) \in Nat
      BY <1>3, <2>1, FS_Subset, FS_CardinalityType
    <2>3. IsFiniteSet(mine) /\ Cardinality(mine) = Cardinality(started) - Cardinality(started \cap thrown)
      BY <2>1, FS_Difference
    <2>4. started \cap thrown = thrown
      BY <1>3
    <2>5. Cardinality(mine) \in Nat
      BY <2>3, FS_CardinalityType
    <2> HIDE DEF mine
    <2>6. Cardinality(mine) = n - Cardinality(thrown)
      BY <2>1, <2>3, <2>4
    <2> QED
      BY <1>2, <2>2, <2>3, <2>5, <2>6
  <1>7. mine \subseteq 1 .. base + n /\ up \cap mine = {}
    BY <1>0, <1>2, <1>4
  <1>8. up \subseteq 1 .. base + n
    BY <1>0, <1>2
  <1> HIDE DEF mine
  <1>9. Cardinality(up \cup mine) = p + Cardinality(mine)
    <2>1. IsFiniteSet(1 .. base)
      BY <1>0, FS_Interval
    <2>2. IsFiniteSet(up)
      BY <2>1, FS_Subset
    <2>3. Cardinality(up \cup mine) = Cardinality(up) + Cardinality(mine) - Cardinality(up \cap mine)
      BY <1>6, <2>2, FS_Union
    <2>4. Cardinality(up \cap mine) = 0
      BY <1>7, FS_EmptySet
    <2> QED
      BY <1>0, <1>6, <2>3, <2>4
  <1>10. pending' = Cardinality(inFlight') /\ pending' \in 0 .. MaxPending
    <2>1. pending' = Cardinality(inFlight')
      BY <1>3, <1>9
    <2> QED
      BY <1>0, <1>2, <1>3, <1>6, <2>1
  <1>11. settled' \in Nat /\ pending' + settled' = n + p + ended
    <2>1. /\ settled' = ended + Cardinality(thrown) /\ pending' = p + Cardinality(mine)
          /\ Cardinality(mine) \in Nat /\ Cardinality(thrown) \in Nat
          /\ Cardinality(mine) + Cardinality(thrown) = n
      BY <1>3, <1>6
    <2>2. p \in Nat
      BY <1>0
    <2> QED
      BY <2>1, <2>2
  <1>12. inFlight' \in SUBSET (1 .. base + n)
    BY <1>3, <1>7, <1>8
  <1>13. Drained(base, q, p, ended, n)
    BY <1>5, <1>10, <1>11, <1>12 DEF Drained
  <1> QED
    BY <1>2, <1>13

-----------------------------------------------------------------------------
(* The records are numbered in the order in which the queue took them:     *)
(* those that wait are the last, and older ones are in flight.             *)
BufferIInv == /\ accepted \in Nat /\ refused \in Nat
        /\ dropped \in Nat /\ expired \in Nat /\ settled \in Nat
        /\ Len(queue) <= accepted
        /\ Numbered(accepted - Len(queue), queue)
        /\ inFlight \in SUBSET (1 .. accepted - Len(queue))
        /\ CountersAreExact

LEMMA BufferIInvInit == BufferInit => BufferIInv
  <1> SUFFICES ASSUME BufferInit PROVE BufferIInv
    OBVIOUS
  <1>1. queue \in Seq(Record) /\ Len(queue) = 0
    BY DEF BufferInit
  <1>2. Cardinality(inFlight) = 0 /\ bytesOf(queue) = 0
    BY FS_EmptySet, BytesOfNothing DEF BufferInit
  <1>3. Numbered(0, queue)
    BY <1>1 DEF Numbered
  <1> QED
    BY <1>1, <1>2, <1>3, LimitsHold DEF BufferInit, BufferIInv, CountersAreExact, Limits

(* The lengths and numbers that the invariant relates.                     *)
LEMMA Typed ==
  ASSUME BufferIInv
  PROVE  /\ queue \in Seq(Record) /\ Len(queue) \in Nat /\ Len(queue) <= accepted
         /\ accepted \in Nat /\ refused \in Nat /\ dropped \in Nat /\ expired \in Nat /\ settled \in Nat
         /\ accepted - Len(queue) \in Nat
         /\ pending = Cardinality(inFlight) /\ pending \in 0 .. MaxPending /\ MaxPending \in Nat
         /\ queuedBytes = bytesOf(queue) /\ queuedBytes \in 0 .. MaxQueuedBytes
         /\ MaxQueuedBytes \in Nat /\ MaxQueued \in Nat /\ Len(queue) <= MaxQueued
         /\ IsFiniteSet(inFlight)
  <1>1. queue \in Seq(Record) /\ accepted - Len(queue) \in Nat
    BY DEF BufferIInv, Numbered
  <1>2. IsFiniteSet(1 .. accepted - Len(queue))
    BY <1>1, FS_Interval
  <1>3. IsFiniteSet(inFlight)
    BY <1>2, FS_Subset DEF BufferIInv
  <1> QED
    BY <1>1, <1>3, LimitsHold DEF BufferIInv, CountersAreExact, Limits

LEMMA Numbers ==
  ASSUME BufferIInv
  PROVE  /\ Len(queue) \in Nat /\ Len(queue) <= accepted
         /\ accepted \in Nat /\ refused \in Nat /\ dropped \in Nat /\ expired \in Nat /\ settled \in Nat
         /\ pending \in Nat /\ accepted + refused = Len(queue) + pending + dropped + expired + settled
         /\ Len(queue) <= MaxQueued /\ MaxQueued \in Nat
  <1>1. pending \in Nat
    BY Typed
  <1> QED
    BY <1>1, Typed DEF BufferIInv, CountersAreExact

(* A slot that is given back: one write less is in flight, and the next    *)
(* records start.                                                          *)
LEMMA SlotStep ==
  ASSUME BufferIInv, NEW r \in inFlight, NEW ended \in Nat,
         Drain(queue, queuedBytes, pending - 1, inFlight \ {r}, ended)
  PROVE  \E n \in 0 .. Len(queue) : Drained(accepted - Len(queue), queue, pending - 1, ended, n)
  <1> DEFINE up == inFlight \ {r}
  <1>1. Cardinality(up) = pending - 1 /\ IsFiniteSet(up)
    BY Typed, FS_RemoveElement
  <1>2. up \in SUBSET (1 .. accepted - Len(queue))
    BY DEF BufferIInv
  <1> HIDE DEF up
  <1>3. Cardinality(up) \in Nat
    BY <1>1, FS_CardinalityType
  <1>4. pending - 1 \in 0 .. MaxPending
    BY <1>1, <1>3, Typed
  <1>5. Drain(queue, bytesOf(queue), pending - 1, up, ended)
    BY Typed DEF up
  <1>6. Numbered(accepted - Len(queue), queue)
    BY DEF BufferIInv
  <1> QED
    BY <1>1, <1>2, <1>4, <1>5, <1>6, DrainStep

(* How the counters stand when q is about to be drained: everything        *)
(* accepted is accounted for, with p writes in flight and ended settled.   *)
Counted(base, q, p, ended) ==
  /\ accepted' \in Nat /\ refused' \in Nat /\ dropped' \in Nat /\ expired' \in Nat
  /\ base + Len(q) = accepted' /\ Len(q) <= MaxQueued /\ bytesOf(q) <= MaxQueuedBytes
  /\ accepted' + refused' = Len(q) + p + dropped' + expired' + ended

LEMMA AfterDrain ==
  ASSUME NEW base, NEW q, NEW p \in Int, NEW ended \in Nat, Numbered(base, q),
         Counted(base, q, p, ended),
         NEW n \in 0 .. Len(q), Drained(base, q, p, ended, n)
  PROVE  BufferIInv'
  <1>1. base \in Nat /\ Len(q) \in Nat /\ q \in Seq(Record) /\ bytesOf(q) \in Nat
    BY BytesType DEF Numbered
  <1>2. /\ Numbered(base + n, queue') /\ Len(queue') = Len(q) - n
        /\ queuedBytes' = bytesOf(queue') /\ queuedBytes' \in 0 .. bytesOf(q)
        /\ inFlight' \in SUBSET (1 .. base + n)
        /\ pending' = Cardinality(inFlight') /\ pending' \in 0 .. MaxPending
        /\ settled' \in Nat
        /\ pending' + settled' = n + p + ended
    BY DEF Drained
  <1>3. MaxPending \in Nat /\ MaxQueued \in Nat /\ MaxQueuedBytes \in Nat
    BY LimitsHold DEF Limits
  <1>4. Len(queue') = Len(q) - n
    BY <1>2
  <1>5. Len(queue') \in Nat
    BY <1>1, <1>4
  <1>6. accepted' - Len(queue') = base + n /\ Len(queue') <= accepted'
    <2>1. base + Len(q) = accepted' /\ accepted' \in Nat
      BY DEF Counted
    <2> QED
      BY <1>1, <1>4, <1>5, <2>1
  <1>7. Len(queue') <= MaxQueued
    <2>1. Len(q) <= MaxQueued
      BY DEF Counted
    <2> QED
      BY <1>1, <1>3, <1>4, <1>5, <2>1
  <1>8. queuedBytes' \in 0 .. MaxQueuedBytes
    <2>1. queuedBytes' \in 0 .. bytesOf(q) /\ bytesOf(q) <= MaxQueuedBytes
      BY <1>2 DEF Counted
    <2> QED
      BY <1>1, <1>3, <2>1
  <1>9. accepted' + refused' = Len(queue') + pending' + dropped' + expired' + settled'
    <2>0. pending' \in Nat /\ settled' \in Nat
      BY <1>2, <1>3
    <2>1. pending' + settled' = n + p + ended
      BY <1>2
    <2>2. /\ accepted' \in Nat /\ refused' \in Nat /\ dropped' \in Nat /\ expired' \in Nat
          /\ accepted' + refused' = Len(q) + p + dropped' + expired' + ended
      BY DEF Counted
    <2>3. Len(q) + p + ended = Len(queue') + pending' + settled'
      <3>1. Len(q) \in Nat /\ n \in Nat /\ Len(queue') \in Nat /\ Len(q) = Len(queue') + n
        BY <1>1, <1>4, <1>5
      <3>2. n + p + ended = pending' + settled'
        BY <2>1
      <3>3. Len(q) + p + ended = Len(queue') + (n + p + ended)
        BY <3>1
      <3>4. Len(q) + p + ended = Len(queue') + (pending' + settled')
        BY <3>2, <3>3
      <3> QED
        BY <2>0, <3>1, <3>4
    <2>4. accepted' + refused' = (Len(q) + p + ended) + dropped' + expired'
      <3>1. Len(q) \in Nat
        BY <1>1
      <3> QED
        BY <2>2, <3>1
    <2> QED
      <3>1. accepted' + refused' = (Len(queue') + pending' + settled') + dropped' + expired'
        BY <2>3, <2>4
      <3>2. dropped' \in Nat /\ expired' \in Nat
        BY <2>2
      <3> QED
        BY <1>5, <2>0, <3>1, <3>2
  <1> QED
    BY <1>2, <1>6, <1>7, <1>8, <1>9 DEF BufferIInv, CountersAreExact, Counted

(* The room that is made is enough.                                        *)
LEMMA Evicted ==
  ASSUME BufferIInv, NEW bytes \in Nat, bytes <= MaxQueuedBytes
  PROVE  LET n == evicted(bytes)
             rest == SubSeq(queue, n + 1, Len(queue))
         IN  n \in 0 .. Len(queue) /\ Len(rest) < MaxQueued /\ bytesOf(rest) + bytes <= MaxQueuedBytes
  <1> DEFINE room(i) == \/ i = Len(queue)
                        \/ fits(SubSeq(queue, i + 1, Len(queue)), queuedBytes - bytesOf(SubSeq(queue, 1, i)), bytes)
             T == {i \in 0 .. Len(queue) : room(i)}
             Good(m) == room(m) /\ \A i \in 0 .. (m - 1) : ~ room(i)
             n == evicted(bytes)
             rest == SubSeq(queue, n + 1, Len(queue))
  <1>0. queue \in Seq(Record) /\ Len(queue) \in Nat /\ queuedBytes = bytesOf(queue)
    BY Typed
  <1>1. n \in 0 .. Len(queue) /\ room(n)
    <2>1. PICK m \in T : \A k \in T : m <= k
      <3>1. T \in SUBSET Nat /\ Len(queue) \in T
        BY <1>0
      <3> HIDE DEF T
      <3> QED
        BY <3>1, LeastNatural
    <2>2. m \in 0 .. Len(queue) /\ Good(m)
      <3>1. m \in 0 .. Len(queue) /\ room(m)
        BY <2>1
      <3>2. ASSUME NEW i \in 0 .. (m - 1) PROVE ~ room(i)
        <4>1. i \in 0 .. Len(queue) /\ i < m
          BY <1>0, <3>1
        <4> HIDE DEF room
        <4> QED
          BY <2>1, <4>1
      <3> QED
        BY <3>1, <3>2
    <2>3. n = CHOOSE k \in 0 .. Len(queue) : Good(k)
      BY DEF evicted
    <2> HIDE DEF n, room
    <2> QED
      BY <2>2, <2>3
  <1> HIDE DEF n
  <1>2. CASE n = Len(queue)
    <2>1. rest = <<>>
      BY <1>0, <1>2
    <2>2. Len(rest) = 0 /\ bytesOf(rest) = 0
      BY <2>1, BytesOfNothing
    <2>3. MaxQueued \in Nat \ {0} /\ MaxQueuedBytes \in Nat
      BY LimitsHold DEF Limits
    <2> HIDE DEF rest
    <2>4. Len(rest) < MaxQueued /\ bytesOf(rest) + bytes <= MaxQueuedBytes
      BY <2>2, <2>3
    <2> QED
      BY <1>1, <2>4 DEF n, rest
  <1>3. CASE n # Len(queue)
    <2>1. queuedBytes - bytesOf(SubSeq(queue, 1, n)) = bytesOf(rest)
      BY <1>0, <1>1, BytesOfParts
    <2>2. Len(rest) < MaxQueued /\ bytesOf(rest) + bytes <= MaxQueuedBytes
      BY <1>1, <1>3, <2>1 DEF fits
    <2> QED
      BY <1>1, <2>2 DEF n, rest
  <1> QED
    BY <1>2, <1>3

(* A record at the end of a numbered queue.                                *)
LEMMA OneMore ==
  ASSUME NEW base, NEW s, Numbered(base, s), NEW r \in Record, r.id = base + Len(s) + 1
  PROVE  /\ Numbered(base, Append(s, r)) /\ Len(Append(s, r)) = Len(s) + 1
         /\ bytesOf(Append(s, r)) = bytesOf(s) + r.bytes
  <1> DEFINE a == Append(s, r)
  <1>1. /\ base \in Nat /\ s \in Seq(Record) /\ Len(s) \in Nat
        /\ \A i \in 1 .. Len(s) : s[i].id = base + i
    BY DEF Numbered
  <1>2. /\ a \in Seq(Record) /\ Len(a) = Len(s) + 1 /\ a[Len(s) + 1] = r
        /\ \A i \in 1 .. Len(s) : a[i] = s[i]
    BY <1>1
  <1>3. bytesOf(a) = bytesOf(s) + r.bytes
    BY <1>1, BytesOfAppend
  <1> HIDE DEF a
  <1>4. \A i \in 1 .. Len(a) : a[i].id = base + i
    <2> SUFFICES ASSUME NEW i \in 1 .. Len(s) + 1 PROVE a[i].id = base + i
      BY <1>2
    <2>1. CASE i = Len(s) + 1
      BY <1>1, <1>2, <2>1
    <2>2. CASE i # Len(s) + 1
      <3>1. i \in 1 .. Len(s)
        BY <1>1, <2>2
      <3> QED
        BY <1>1, <1>2, <3>1
    <2> QED
      BY <2>1, <2>2
  <1>5. Numbered(base, a)
    BY <1>1, <1>2, <1>4 DEF Numbered
  <1> QED
    BY <1>2, <1>3, <1>5 DEF a

LEMMA AcceptStep ==
  ASSUME BufferIInv, NEW bytes \in Bytes, bytes <= MaxQueuedBytes, Accept(bytes)
  PROVE  BufferIInv'
  <1> DEFINE gone == evicted(bytes)
             rest == SubSeq(queue, gone + 1, Len(queue))
             record == [id |-> accepted + 1, bytes |-> bytes]
             q == Append(rest, record)
             base == accepted - Len(rest)
  <1>0. bytes \in Nat
    BY LimitsHold DEF Limits
  <1>1. gone \in 0 .. Len(queue) /\ Len(rest) < MaxQueued /\ bytesOf(rest) + bytes <= MaxQueuedBytes
    BY <1>0, Evicted
  <1>2. /\ dropped' = dropped + gone /\ accepted' = accepted + 1
        /\ UNCHANGED <<abandoned, expired, refused>>
        /\ Drain(q, queuedBytes - bytesOf(SubSeq(queue, 1, gone)) + bytes, pending, inFlight, settled)
    BY DEF Accept
  <1> HIDE DEF gone
  <1>3. /\ Numbered((accepted - Len(queue)) + gone, rest) /\ Len(rest) = Len(queue) - gone
        /\ queuedBytes - bytesOf(SubSeq(queue, 1, gone)) = bytesOf(rest)
    <2>1. Numbered(accepted - Len(queue), queue) /\ queuedBytes = bytesOf(queue)
      BY Typed DEF BufferIInv
    <2> QED
      BY <1>1, <2>1, Rest
  <1> HIDE DEF rest
  <1>4. base = (accepted - Len(queue)) + gone /\ base \in Nat /\ base + Len(rest) = accepted /\ Len(rest) \in Nat
    BY <1>1, <1>3, Typed
  <1>5. record \in Record /\ record.id = base + Len(rest) + 1 /\ record.bytes = bytes
    BY <1>0, <1>4, Typed DEF Record
  <1> HIDE DEF base, record
  <1>6. Numbered(base, q) /\ Len(q) = Len(rest) + 1 /\ bytesOf(q) = bytesOf(rest) + bytes
    BY <1>3, <1>4, <1>5, OneMore
  <1>7. inFlight \in SUBSET (1 .. base)
    <2>1. Len(queue) \in Nat /\ accepted \in Nat /\ Len(queue) <= accepted
      BY Numbers
    <2>2. gone \in Nat /\ base = (accepted - Len(queue)) + gone /\ base \in Nat
      BY <1>1, <1>4, <2>1
    <2>3. 1 .. accepted - Len(queue) \subseteq 1 .. base
      BY <2>1, <2>2
    <2> QED
      BY <2>3 DEF BufferIInv
  <1>8. Drain(q, bytesOf(q), pending, inFlight, settled)
    BY <1>2, <1>3, <1>6
  <1> HIDE DEF q
  <1>9. PICK n \in 0 .. Len(q) : Drained(base, q, pending, settled, n)
    BY <1>6, <1>7, <1>8, Typed, DrainStep
  <1>10. Counted(base, q, pending, settled)
    <2>1. /\ Len(queue) \in Nat /\ accepted \in Nat /\ refused \in Nat /\ dropped \in Nat
          /\ expired \in Nat /\ settled \in Nat /\ pending \in Nat /\ MaxQueued \in Nat
          /\ accepted + refused = Len(queue) + pending + dropped + expired + settled
      BY Numbers
    <2>2. /\ gone \in Nat /\ dropped' = dropped + gone /\ accepted' = accepted + 1
          /\ expired' = expired /\ refused' = refused
      BY <1>1, <1>2, <2>1
    <2>3. Len(rest) \in Nat /\ Len(rest) = Len(queue) - gone /\ Len(q) = Len(rest) + 1
      BY <1>3, <1>4, <1>6
    <2>4. accepted' + refused' = Len(q) + pending + dropped' + expired' + settled
      BY <2>1, <2>2, <2>3
    <2>5. /\ accepted' \in Nat /\ refused' \in Nat /\ dropped' \in Nat /\ expired' \in Nat
      BY <2>1, <2>2
    <2>6. base + Len(q) = accepted'
      BY <1>4, <2>1, <2>2, <2>3
    <2>7. Len(q) <= MaxQueued /\ bytesOf(q) <= MaxQueuedBytes
      BY <1>1, <1>6, <2>1, <2>3
    <2> QED
      BY <2>4, <2>5, <2>6, <2>7 DEF Counted
  <1>11. pending \in Int /\ settled \in Nat
    BY Numbers
  <1> QED
    BY <1>6, <1>9, <1>10, <1>11, AfterDrain

(* A write that ends gives its slot back, and is counted once.             *)
LEMMA EndStep ==
  ASSUME BufferIInv, NEW r \in inFlight, NEW ended \in Nat,
         Drain(queue, queuedBytes, pending - 1, inFlight \ {r}, ended),
         UNCHANGED <<dropped, accepted, refused>>, expired' \in Nat,
         expired' + ended = expired + settled + 1
  PROVE  BufferIInv'
  <1>1. PICK n \in 0 .. Len(queue) : Drained(accepted - Len(queue), queue, pending - 1, ended, n)
    BY SlotStep
  <1>2. Numbered(accepted - Len(queue), queue)
    BY DEF BufferIInv
  <1>3. /\ Len(queue) \in Nat /\ accepted \in Nat /\ refused \in Nat /\ dropped \in Nat
        /\ expired \in Nat /\ settled \in Nat /\ pending \in Nat /\ Len(queue) <= MaxQueued
        /\ accepted + refused = Len(queue) + pending + dropped + expired + settled
    BY Numbers
  <1>4. accepted' = accepted /\ refused' = refused /\ dropped' = dropped
    OBVIOUS
  <1>5. accepted' + refused' = Len(queue) + (pending - 1) + dropped' + expired' + ended
    <2>1. accepted + refused = Len(queue) + (pending - 1) + dropped + (expired + settled + 1)
      BY <1>3
    <2>2. accepted + refused = Len(queue) + (pending - 1) + dropped + (expired' + ended)
      BY <2>1
    <2>3. accepted + refused = Len(queue) + (pending - 1) + dropped + expired' + ended
      BY <1>3, <2>2
    <2> QED
      BY <1>4, <2>3
  <1>6. (accepted - Len(queue)) + Len(queue) = accepted' /\ pending - 1 \in Int
    BY <1>3, <1>4
  <1>7. bytesOf(queue) <= MaxQueuedBytes
    BY Typed
  <1>8. Counted(accepted - Len(queue), queue, pending - 1, ended)
    BY <1>3, <1>4, <1>5, <1>6, <1>7 DEF Counted
  <1> QED
    BY <1>1, <1>2, <1>6, <1>8, AfterDrain

LEMMA SameCounts ==
  ASSUME BufferIInv, UNCHANGED <<queue, queuedBytes, pending, inFlight, counters>>
  PROVE  BufferIInv'
  BY DEF counters, BufferIInv, CountersAreExact, Numbered

LEMMA BufferIInvStep == BufferIInv /\ [BufferNext]_bufferVars => BufferIInv'
  <1> SUFFICES ASSUME BufferIInv, [BufferNext]_bufferVars PROVE BufferIInv'
    OBVIOUS
  <1>1. CASE UNCHANGED bufferVars
    BY <1>1, SameCounts DEF bufferVars
  <1>2. CASE Refuse
    <2>1. /\ dropped' = dropped + 1 /\ refused' = refused + 1
          /\ UNCHANGED <<queue, queuedBytes, pending, inFlight, expired, accepted, settled>>
      BY <1>2 DEF Refuse
    <2>2. dropped' \in Nat /\ refused' \in Nat
          /\ accepted + refused' = Len(queue) + pending + dropped' + expired + settled
      <3>1. dropped' = dropped + 1 /\ refused' = refused + 1
        BY <2>1
      <3>2. /\ Len(queue) \in Nat /\ accepted \in Nat /\ refused \in Nat /\ dropped \in Nat
            /\ expired \in Nat /\ settled \in Nat /\ pending \in Nat
            /\ accepted + refused = Len(queue) + pending + dropped + expired + settled
        BY Numbers
      <3> QED
        BY <3>1, <3>2
    <2> QED
      BY <2>1, <2>2 DEF BufferIInv, CountersAreExact, Numbered
  <1>3. ASSUME NEW bytes \in Bytes, bytes <= MaxQueuedBytes, Accept(bytes) PROVE BufferIInv'
    BY <1>3, AcceptStep
  <1>4. ASSUME NEW r, Settle(r) PROVE BufferIInv'
    <2>1. CASE /\ r \in inFlight
               /\ Drain(queue, queuedBytes, pending - 1, inFlight \ {r}, settled + 1)
               /\ UNCHANGED <<abandoned, dropped, expired, accepted, refused>>
      <3>1. settled + 1 \in Nat /\ expired' \in Nat /\ expired' + (settled + 1) = expired + settled + 1
        <4>1. expired' = expired
          BY <2>1
        <4>2. expired \in Nat /\ settled \in Nat
          BY Numbers
        <4> QED
          BY <4>1, <4>2
      <3> QED
        BY <2>1, <3>1, EndStep
    <2>2. CASE UNCHANGED <<queue, queuedBytes, pending, inFlight, counters>>
      BY <2>2, SameCounts
    <2> QED
      BY <1>4, <2>1, <2>2 DEF Settle
  <1>5. ASSUME NEW r, Deadline(r) PROVE BufferIInv'
    <2>1. /\ r \in inFlight /\ expired' = expired + 1 /\ UNCHANGED <<dropped, accepted, refused>>
          /\ Drain(queue, queuedBytes, pending - 1, inFlight \ {r}, settled)
      BY <1>5 DEF Deadline
    <2>2. settled \in Nat /\ expired' \in Nat /\ expired' + settled = expired + settled + 1
      <3>1. expired' = expired + 1
        BY <2>1
      <3>2. /\ Len(queue) \in Nat /\ accepted \in Nat /\ refused \in Nat /\ dropped \in Nat
            /\ expired \in Nat /\ settled \in Nat /\ pending \in Nat
            /\ accepted + refused = Len(queue) + pending + dropped + expired + settled
        BY Numbers
      <3> QED
        BY <3>1, <3>2
    <2> QED
      BY <2>1, <2>2, EndStep
  <1> QED
    BY <1>1, <1>2, <1>3, <1>4, <1>5 DEF BufferNext, WriteExecution

(* The counters that the limits of the telemetry buffer are enforced by    *)
(* (BoundedTelemetrySink, packages/mcp/src/telemetry.ts) are what they      *)
(* count, whatever the limits, the sizes of the records and the sink: a    *)
(* slot is released once, and no record is lost uncounted.                 *)
THEOREM CountersExact == BufferSpec => []CountersAreExact
  <1>1. BufferIInv => CountersAreExact
    BY DEF BufferIInv
  <1> QED
    BY <1>1, BufferIInvInit, BufferIInvStep, PTL DEF BufferSpec
=============================================================================
