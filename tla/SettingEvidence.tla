--------------------------- MODULE SettingEvidence ---------------------------
(***************************************************************************)
(* What the coordinator believes about one setting of one charger, and     *)
(* what it accepts as proof of a write (setting_observation.py,            *)
(* control_readback.py).  An observation carries the ticks that passed     *)
(* since it was made; one that is no longer fresh is never read again and  *)
(* is forgotten.                                                           *)
(***************************************************************************)
EXTENDS Integers

CONSTANTS
  DirectFresh,    \* _HEARTBEAT_STREAM_FRESH_SECONDS, in ticks
  ProviderFresh,  \* UPDATE_INTERVAL_SECONDS * 2
  NoObs,          \* a source has said nothing fresh of the setting
  Unknown         \* Python's None: no value may be used

ASSUME FreshAssumption == DirectFresh \in Nat /\ ProviderFresh \in Nat

DirectSources   == {"heartbeat", "plain", "fast"}
ProviderSources == {"parent", "detail"}
Sources         == DirectSources \cup ProviderSources

\* _SOURCE_PRIORITY: the 241/44 report, 2/34, 2/33, then the two provider reads.
Priority(s) ==
  CASE s = "fast" -> 50 [] s = "plain" -> 40 [] s = "heartbeat" -> 30
    [] s = "parent" -> 20 [] s = "detail" -> 10

FreshFor(s) == IF s \in DirectSources THEN DirectFresh ELSE ProviderFresh

Observation(V) == [value : V, age : 0..(IF DirectFresh > ProviderFresh THEN DirectFresh
                                        ELSE ProviderFresh)]

\* record_snapshot: an observation older than the one kept changes nothing.
Recorded(kept, new) ==
  IF kept # NoObs /\ kept.age < new.age THEN kept ELSE new

\* One tick: an observation past its source's limit is dropped.
KeptStaleMutant(o, s) == IF o = NoObs THEN NoObs ELSE [o EXCEPT !.age = @ + 1]
Aged(o, s) ==
  IF o = NoObs \/ o.age >= FreshFor(s) THEN NoObs ELSE [o EXCEPT !.age = @ + 1]

FreshSources(obs) == {s \in Sources : obs[s] # NoObs}

-----------------------------------------------------------------------------
(* SettingObservationTracker.current_value(reject_newer_conflicts=True)    *)

Selected(obs) ==
  CHOOSE s \in FreshSources(obs) : \A t \in FreshSources(obs) : Priority(t) <= Priority(s)

OlderOnlyMutant(obs, s) == \E t \in FreshSources(obs) : obs[t].value # obs[s].value /\ obs[t].age > obs[s].age
Contradicted(obs, s) ==
  \E t \in FreshSources(obs) : obs[t].value # obs[s].value /\ obs[t].age <= obs[s].age

CurrentValue(obs) ==
  IF FreshSources(obs) = {} \/ Contradicted(obs, Selected(obs)) THEN Unknown
  ELSE obs[Selected(obs)].value

-----------------------------------------------------------------------------
(* matching_readback_source                                                *)

SameTickMutant(obs, s, elapsed, wanted) ==
  s \in FreshSources(obs) /\ obs[s].age <= elapsed /\ obs[s].value = wanted /\ ~Contradicted(obs, s)
\* s saw the wanted value after the command, and nothing as new disagrees.
Candidate(obs, s, elapsed, wanted) ==
  /\ s \in FreshSources(obs)
  /\ obs[s].age < elapsed /\ obs[s].value = wanted
  /\ ~Contradicted(obs, s)

\* A provider may speak only when no fresh Direct value disagrees, even one
\* from before the command.
MatchingSource(obs, elapsed, wanted) ==
  IF \E s \in DirectSources : Candidate(obs, s, elapsed, wanted) THEN "direct"
  ELSE IF /\ \E s \in ProviderSources : Candidate(obs, s, elapsed, wanted)
          /\ \A s \in DirectSources \cap FreshSources(obs) : obs[s].value = wanted
       THEN "provider"
  ELSE "none"

-----------------------------------------------------------------------------
(* provider_bundle_matches                                                 *)

\* evidence[k] is what is known of k, expected[k] what the SET would make it.
BundleMatches(evidence, expected) ==
  /\ \A k \in DOMAIN expected : \A s \in FreshSources(evidence[k]) :
       evidence[k][s].value = expected[k]
  /\ \E s \in ProviderSources : \A k, l \in DOMAIN expected :
       /\ s \in FreshSources(evidence[k]) /\ s \in FreshSources(evidence[l])
       /\ evidence[k][s].age = evidence[l][s].age
=============================================================================
