------------------------------- MODULE MCFiles -------------------------------
(* Small instances of Files: neither agents nor paths are told apart. *)
EXTENDS FilesProps, TLC

Alike == Permutations(Agents) \cup Permutations(Paths)
=============================================================================
