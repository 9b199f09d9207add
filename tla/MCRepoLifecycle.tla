--------------------------- MODULE MCRepoLifecycle ---------------------------
(* RepoLifecycle on small instances. *)
EXTENDS RepoLifecycle, TLC

(* The two values of docs_dir play the same part. *)
Symmetry == Permutations(Dirs)

=============================================================================
