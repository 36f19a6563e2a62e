--------------------------- MODULE MCSmartStaging ---------------------------
(* Instances of SmartStaging for TLC.                                      *)
EXTENDS SmartStaging, TLC

OneOfEach == [f \in Fields |-> CASE f = "ready_by" -> {"early"}
                                 [] f = "target_type" -> {"energy", "distance"}
                                 [] f = "energy" -> {"kwh"} [] f = "distance" -> {"km"}]

\* Two deadlines, so that edits and reports may contradict each other.
TwoDeadlines == [OneOfEach EXCEPT !["ready_by"] = {"early", "late"}]

Only(f, v) == [Empty EXCEPT ![f] = v]

\* A user's deadline; a report of another one, and of a complete plan for a
\* distance, whose energy the provider reports as zero.
Deadline == {Only("ready_by", "early")}
ZeroPlan == [Empty EXCEPT !["ready_by"] = "early", !["target_type"] = "distance",
                          !["distance"] = "km", !["energy"] = Zero]
Plans    == {Only("ready_by", "late"), ZeroPlan}
=============================================================================
