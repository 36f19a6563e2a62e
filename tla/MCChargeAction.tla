--------------------------- MODULE MCChargeAction ---------------------------
(* Instances of ChargeAction for TLC.                                      *)
EXTENDS ChargeRefinement, TLC

\* Calls and chargers are interchangeable.
Symmetry == Permutations(Calls) \cup Permutations(Chargers)

PauseReports == {"plugged_in", "paused"}
FewReports == {"plugged_in", "charging", "paused"}
StopReports == {"plugged_in", "charging"}

\* A narrower environment for two chargers: the links come up first and stay.
AllUp == parentUp /\ directUp = Chargers /\ described = Chargers
SteadyLinks ==
  /\ described \subseteq described' /\ directUp \subseteq directUp' /\ (parentUp => parentUp')
  /\ hbAge' # hbAge => AllUp
  /\ shutdown' = "running"

\* The same, with poll cycles only while no call is in progress.
SteadyQuietPolls ==
  /\ SteadyLinks
  /\ merged' # merged => pending = {}
  /\ (\E s \in Chargers : merged[s] # Unread) => pending' = {}

\* The same with poll cycles at any time, for one attempt and no other transaction.
SteadyOneAttempt ==
  /\ SteadyLinks
  /\ lock' # OtherTx
  /\ record # "none" => (pending' = {} /\ hbAge' = hbAge)
=============================================================================
