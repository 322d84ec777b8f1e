------------------------------ MODULE MCCycle -------------------------------
(***************************************************************************)
(* The journalled worker and what it hands to the delivery workers, one    *)
(* behaviour at a time: `part' says what happens.  The cycle is the one of *)
(* OfficialCycle itself; the delivery has tables of its own.               *)
(*   kinds     two kinds of evidence, three minutes, three runs            *)
(*   runs      one kind of evidence, two minutes, four runs                *)
(*   delivery  two intents, one of them a webhook's, two workers           *)
(***************************************************************************)
EXTENDS OfficialCycle, TLC

CONSTANTS w1, w2      \* delivery workers

VARIABLE part
VARIABLES now, outbox, backup, sender, sent, epoch, born

deliveryVars == <<now, outbox, backup, sender, sent, epoch, born>>

\* Watch: three opportunities and no risk.  Collapse: the same with a risk that suppresses.
Watch == [health |-> "HEALTHY", fitness |-> "FIT", facts |-> Codes,
          met |-> {"EARLY_ACTIVITY_PPM", "HEALTHY_BREADTH_PPM", "LOW_CROWDING_PPM"}]
Collapse == [Watch EXCEPT !.met = @ \cup {"RISE_RATE_PPM", "BREADTH_COLLAPSE_PPM"},
                          !.health = "DEGRADED"]

MCEvidence == {Watch, Collapse}

\* What the proofs about the cycle assume of its constants holds of these.
ASSUME CycleConstants == CycleAssumption

Repeated == INSTANCE OfficialCycle WITH Evidence <- {Collapse}
Delivered == INSTANCE Delivery WITH
  Intents <- {1, 2}, WebhookIntents <- {2}, Workers <- {w1, w2}, LeaseSeconds <- 1,
  RetrySeconds <- 1, MaxAttempts <- 2, Lifetime <- 2, MaxLag <- 0, MaxTime <- 2,
  MaxGeneration <- 0, MaxRestores <- 0, db <- outbox, worker <- sender

CycleInit ==
  /\ Init /\ Delivered!Init
  /\ \/ part \in {"kinds", "runs"}
     \/ part = "delivery" /\ mode = "OFFICIAL"

CycleNext ==
  \/ /\ part = "kinds" /\ Next /\ runs' <= 3
     /\ UNCHANGED <<part, deliveryVars>>
  \/ /\ part = "runs" /\ Repeated!Next /\ minute' <= 2
     /\ UNCHANGED <<part, deliveryVars>>
  \/ /\ part = "delivery" /\ Delivered!Next
     /\ UNCHANGED <<part, vars>>

\* Delivery.FairSpec.
DeliveryFairness ==
  /\ WF_deliveryVars(part = "delivery" /\ Delivered!Tick)
  /\ \A w \in {w1, w2} : WF_deliveryVars(part = "delivery" /\ Delivered!RunOnce(w))

CycleSpec == CycleInit /\ [][CycleNext]_<<part, vars, deliveryVars>> /\ DeliveryFairness

\* outbox.py, runtime.py: a committed intent reaches a terminal status as long as a worker lives
\* (Delivery.EventuallySettled).
EventuallySettled == Delivered!EventuallySettled
=============================================================================
