------------------------- MODULE MCSourceSubmission -------------------------
\* Two editors and a caller who is none; a catalog of three skills in which one
\* can be removed unless the added one names it; an addition and an update that
\* want the same alias.
EXTENDS SourceSubmission, TLC

CONSTANTS sa, sb, sc, sd, t1, t2, x, y, e1, e2, o, kit, addC, updB, remD

MCSkills == {sa, sb, sc, sd}
MCUpstream == (kit :> t1)
skill(mode, aliases, neighbours, links) ==
    [mode |-> mode, text |-> t1, aliases |-> aliases, neighbours |-> neighbours, links |-> links]
MCFirst == (sa :> skill("copied", {x}, {sb}, {}) @@ sb :> skill("original", {}, {sa}, {sa})
                @@ sc :> Missing @@ sd :> skill("adapted", {}, {sa}, {}))
MCProposalOf == (
    addC :> [operation |-> "add", name |-> sc, skill |-> [skill("original", {y}, {sd}, {sd}) EXCEPT !.text = t2], from |-> kit]
    @@ updB :> [operation |-> "update", name |-> sb, text |-> t2, links |-> {sc, sd}, aliases |-> {y}]
    @@ remD :> [operation |-> "remove", name |-> sd])
MCWants == (e1 :> {addC, remD} @@ e2 :> {addC, updB} @@ o :> {addC})

=============================================================================
