---------------------------- MODULE MCFileStore ----------------------------
(* FileStore on small instances. *)
EXTENDS FileStore, TLC

CONSTANTS a1, a2, s, t, png, jpg

\* two places with a slug each
MCSlugsApart == a1 :> s @@ a2 :> t
OneSlug == a1 :> s

Bodies == {"upload", "replace", "put"}
Everything == Bodies \cup {"delete", "undelete", "hide"}
Answered == Bodies \cup {"undo", "crash"}     \* ... but no object appears in spite of an error
AnyFault == Answered \cup {"answer"}
Symmetry == Permutations(Clients) \cup Permutations(Exts)
=============================================================================
