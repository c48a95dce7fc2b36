-------------------------- MODULE MCOrganizations --------------------------
(* Organizations on an organization with one row in each table and a second tag. *)
EXTENDS Organizations, TLC

CONSTANTS o, o2, u, u2, m, a, v, f, k, i, p, t, t2, at, n, w, x

MCTable ==
    o :> "organization" @@ o2 :> "organization" @@ u :> "user" @@ u2 :> "user"
    @@ m :> "membership" @@ a :> "arrangement" @@ v :> "voice" @@ f :> "file"
    @@ k :> "collection" @@ i :> "collection_item" @@ p :> "part_assignment"
    @@ t :> "tag" @@ t2 :> "tag" @@ at :> "arrangement_tag" @@ n :> "global_annotation"
    @@ w :> "app_password" @@ x :> "work"

\* parents in the order of the columns; u created the arrangement and its work, u2 has a password for devices
MCRefs ==
    o :> << >> @@ o2 :> << >> @@ u :> << >> @@ u2 :> << >>
    @@ m :> <<u, o>> @@ a :> <<o, x, u>> @@ v :> <<a>> @@ f :> <<a, v>>
    @@ k :> <<o>> @@ i :> <<k, a>> @@ p :> <<i, u, v>>
    @@ t :> <<o>> @@ t2 :> <<o>> @@ at :> <<a, t>> @@ n :> <<a, u>> @@ w :> <<u2>> @@ x :> <<u>>

\* the second organization has the slug of the first, the second user the name of the first
MCKeys == [r \in Rows |-> CASE r \in {o, o2} -> {"slug"} [] r \in {u, u2} -> {"username"}
                            [] OTHER -> {}]

Closed(S) == \A r \in S : Range(MCRefs[r]) \subseteq S
\* one row of each table; or all of them but one, or but two of which one refers to the other;
\* or an organization that has nothing but two tags
One == Rows \ {o2, u2, w, t2}
MCPopulations ==
    {{o, u, t, t2}} \cup
    {S \in SUBSET One :
        /\ o \in S /\ Closed(S) /\ Cardinality(One \ S) <= 2
        /\ \A r, s \in One \ S : r # s => r \in Range(MCRefs[s]) \/ s \in Range(MCRefs[r])}
MCSymmetry == Permutations(Clients)
=============================================================================
