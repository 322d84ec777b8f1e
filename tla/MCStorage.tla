----------------------------- MODULE MCStorage ------------------------------
(***************************************************************************)
(* The parts of StorageParts on a small instance:                          *)
(*   outbox  one intent of the webhook, a worker and the one that takes    *)
(*           over, one backup and one restore                              *)
(*   files   one content, two callers that may write it, pin it, back it   *)
(*           up or die, and one restore                                    *)
(***************************************************************************)
EXTENDS StorageParts, TLC

\* What the proofs assume of the files' constants.
ASSUME FileConstants == Files!ArtifactAssumption

Symmetry == Permutations(Workers) \cup Permutations(Client)
=============================================================================
