------------------------------- MODULE MCFleet -------------------------------
(* Small instances of Fleet for TLC.                                       *)
EXTENDS Fleet, TLC

InterchangeableParts == Permutations(Agents) \cup Permutations(Probes)
                           \cup Permutations(Endpoints)
=============================================================================
