----------------------------- MODULE MCEmbedJob -----------------------------
(* Model values for the embedding jobs of one workspace.                   *)
EXTENDS EmbedJobProps, TLC

CONSTANTS j1, j2, j3, f1, f2, f3, f4, w1, w2, empty, old, new, long, ipc, http

\* Jobs, files, their contents, collections and workers are told apart by nothing.
Alike == Permutations(Jobs) \cup Permutations(Files) \cup Permutations(Workers)
         \cup Permutations(Versions) \cup Permutations(Collections)

=============================================================================
