------------------------------- MODULE MCData -------------------------------
(***************************************************************************)
(* The parts of DataParts on a small instance:                             *)
(*   restore  two epochs of a provider, a restore and an owner login       *)
(*   catchup  two symbols, two days of two minutes, two runs of the loader *)
(*   sweep    three symbols on two exchanges, one suspended, one batch;    *)
(*            the outer two may break it, the one between may lack a quote *)
(***************************************************************************)
EXTENDS DataParts

CONSTANTS s1, s2, s3 \* symbols

MCUniverse == <<s1, s2>>
MCPolled == <<s1, s2, s3>>
MCMarket == [i \in {s1, s2, s3} |-> IF i = s3 THEN 0 ELSE 1]

\* What the proofs assume of a history and of a sweep.
ASSUME HistoryAssumption == Loader!CatchupAssumption
ASSUME SweepConstants == Sweep!SweepAssumption

MCInit ==
  /\ DataInit
  /\ part = "sweep" => /\ {faulty[s1], faulty[s3]} \subseteq {"ok", "breaks"}
                       /\ faulty[s2] \in {"ok", "no_quote"}

MCSpec == MCInit /\ [][DataNext]_<<part, vars, loaderVars, sweepVars>>
=============================================================================
