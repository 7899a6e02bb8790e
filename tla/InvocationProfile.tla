-------------------------- MODULE InvocationProfile --------------------------
(***************************************************************************)
(* Releases as far as publishing one after another is concerned: a release *)
(* is plain (schema 1), or governed by an invocation policy (schema 2)     *)
(* that binds some of its skills to the exact version that was reviewed.   *)
(***************************************************************************)
CONSTANTS
    Skills,         \* names of skills
    Versions,       \* versions of skills, each with the source it comes from
    Absent          \* in a release: there is no such skill

ASSUME AbsentAssumption == Absent \notin Versions

Release == [governed : BOOLEAN, tstack : BOOLEAN,
            version : [Skills -> Versions \cup {Absent}], bound : SUBSET Skills]

\* A policy binds only skills of its release, and a plain release has none.
WellFormed(r) == \A s \in r.bound : r.governed /\ r.version[s] # Absent

\* What may follow a release without a reviewed migration: a bound skill keeps
\* its binding and its version for as long as it stays.
verifyInvocationTransition(previous, next) ==
    previous.governed =>
        /\ next.governed
        /\ \A s \in previous.bound : next.version[s] # Absent =>
              s \in next.bound /\ next.version[s] = previous.version[s]

=============================================================================
