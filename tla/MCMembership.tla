---------------------------- MODULE MCMembership ----------------------------
(* Membership on small instances. *)
EXTENDS Membership, TLC

CONSTANTS u1, u2, i1

As(role) == [role |-> role, plays |-> {}, leads |-> {}]
\* An owner and a plain member, no instruments: what the owner rules tell apart.
RoleBodies == {As("owner"), As("musician")}
\* Instruments given, taken away or left out of the request.
InstrumentBodies ==
    {[role |-> "owner", plays |-> {i1}, leads |-> {i1}],
     [role |-> "owner", plays |-> {}, leads |-> Omitted],
     [role |-> "owner", plays |-> Omitted, leads |-> {i1}],
     [role |-> "musician", plays |-> {}, leads |-> {}]}
Symmetry == Permutations(Clients) \cup Permutations(Ids) \cup Permutations(Orgs)
=============================================================================
