---------------------------- MODULE MCRepoFiles ----------------------------
(***************************************************************************)
(* Instance of RepoFiles for TLC: two processes, two titles, two numbers.  *)
(***************************************************************************)
EXTENDS RepoFiles
=============================================================================
