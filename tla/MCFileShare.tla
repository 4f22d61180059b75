----------------------------- MODULE MCFileShare -----------------------------
(* Connections, names and files are interchangeable: the safety run uses it. *)
EXTENDS FileShare, TLC

Symmetry == Permutations(Conn) \cup Permutations(Name) \cup Permutations(File)
=============================================================================
