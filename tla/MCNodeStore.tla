----------------------------- MODULE MCNodeStore -----------------------------
(* Small instances of NodeStore for TLC.                                   *)
EXTENDS NodeStore, TLC

\* Endpoints and keys are interchangeable; secrets are not worth permuting.
Interchangeable == Permutations(Endpoints) \cup Permutations(Keys)
=============================================================================
