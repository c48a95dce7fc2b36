----------------------------- MODULE Repertoire -----------------------------
(* What the parts, the folders and the search documents are all about.     *)

CONSTANT Arrangements    \* the arrangements of an organization, deleted ones included
=============================================================================
