---------------------------- MODULE ResearchWrite ----------------------------
(***************************************************************************)
(* A protocol research transaction (protocol_research.py): one write under *)
(* the control lock, watched through direct 241/44 reports only, and the   *)
(* result its record ends with.                                            *)
(*                                                                         *)
(* An observed setting is kept as what the record compares it with: the    *)
(* target is the wanted value or another one, a companion the same as      *)
(* before or changed.  A report with several settings is several reports.  *)
(* The physical phase observed at the end is left out.                     *)
(***************************************************************************)
EXTENDS Naturals

VARIABLES
  kind,      \* the action tested
  stage,     \* where the call is
  queued,    \* the lock was taken when it was asked for
  others,    \* another transaction holds the lock
  sendJob,   \* the publish job: none, pending, sent or refused
  answered,  \* the SET reply to it has come
  seen,      \* per setting, the direct observation, and whether it is after the issue
  result     \* record["result"]

researchVars == <<kind, stage, queued, others, sendJob, answered, seen, result>>

Kinds    == {"solar minimum", "custom current", "phase"}
Settings == {"target", "mode", "flags"}
Inside   == {"publishing", "replying", "watching", "observing"}
Unseen   == [value |-> "none", new |-> FALSE]

\* work_mode; switch_bits_raw with continuous_charging.
Companions == IF kind = "phase" THEN {} ELSE {"mode", "flags"}
Enforced   == CASE kind = "solar minimum"  -> {"mode", "flags"}
                [] kind = "custom current" -> {"mode"}
                [] kind = "phase"          -> {}

ResearchInit ==
  /\ kind \in Kinds /\ stage = "idle" /\ queued = FALSE /\ others = FALSE
  /\ sendJob = "none" /\ answered = FALSE /\ result = "none"
  /\ seen = [s \in Settings |-> Unseen]

Ends(outcome) == stage' = "done" /\ result' = outcome

-----------------------------------------------------------------------------
(* The call                                                                *)

\* The arguments are looked at before the lock is asked for.  What was observed last
\* is the new target, or another value; an abandoned job has ended.
AskTest(k) ==
  /\ stage \in {"idle", "done"} /\ sendJob # "pending"
  /\ kind' = k /\ queued' = others
  /\ sendJob' = "none" /\ answered' = FALSE
  /\ \/ Ends("validation_failed")
     \/ stage' = "waiting" /\ result' = "validation_failed"
  /\ \E value \in IF seen["target"].value = "none" THEN {"none"} ELSE {"other", "wanted"} :
       seen' = [seen EXCEPT !["target"].value = value]
  /\ UNCHANGED others

\* Under the lock everything is looked at again, and the companions are noted.
RefuseTest ==
  /\ stage = "waiting" /\ ~others
  /\ Ends(IF queued THEN "state_changed_before_dispatch" ELSE "validation_failed")
  /\ UNCHANGED <<kind, queued, others, sendJob, answered, seen>>
DispatchTest ==
  /\ stage = "waiting" /\ ~others
  /\ seen["target"].value = "other" /\ \A s \in Companions : seen[s].value # "none"
  /\ stage' = "publishing" /\ result' = "publish_failed" /\ sendJob' = "pending"
  /\ seen' = [s \in Settings |-> [new |-> FALSE, value |->
                IF seen[s].value = "changed" THEN "same" ELSE seen[s].value]]
  /\ UNCHANGED <<kind, queued, others, answered>>

PublishReturns ==
  /\ stage = "publishing"
  /\ \/ sendJob = "sent" /\ stage' = "replying" /\ result' = "set_reply_timeout"
     \/ sendJob = "refused" /\ Ends(result)
  /\ UNCHANGED <<kind, queued, others, sendJob, answered, seen>>
ReplyTaken ==
  /\ stage = "replying" /\ answered
  /\ stage' = "watching" /\ result' = "direct_readback_timeout"
  /\ UNCHANGED <<kind, queued, others, sendJob, answered, seen>>
ReplyMissed ==
  /\ stage = "replying" /\ ~answered /\ Ends(result)
  /\ UNCHANGED <<kind, queued, others, sendJob, answered, seen>>

\* _research_direct with after = issued_at.
StaleMutant(s) == seen[s].value
After(s) == IF seen[s].new THEN seen[s].value ELSE "none"
Complete == After("target") = "wanted" /\ \A s \in Companions : After(s) # "none"

WatchConfirms ==
  /\ stage = "watching" /\ Complete
  /\ \/ /\ \E s \in Enforced : After(s) = "changed"
        /\ Ends("unexpected_companion_change")
     \/ /\ \A s \in Enforced : After(s) # "changed"
        /\ IF kind = "phase" THEN stage' = "observing" /\ UNCHANGED result
           ELSE Ends("confirmed")
  /\ UNCHANGED <<kind, queued, others, sendJob, answered, seen>>
\* For a phase the latest report must also carry the raw value.
WatchExpires ==
  /\ stage = "watching" /\ (~Complete \/ kind = "phase")
  /\ Ends(IF After("target") = "other" THEN "device_rejected" ELSE result)
  /\ UNCHANGED <<kind, queued, others, sendJob, answered, seen>>
ObservationEnds ==
  /\ stage = "observing" /\ Ends("confirmed")
  /\ UNCHANGED <<kind, queued, others, sendJob, answered, seen>>

CancelTest ==
  /\ stage \in Inside \cup {"waiting"} /\ Ends("cancelled")
  /\ UNCHANGED <<kind, queued, others, sendJob, answered, seen>>

-----------------------------------------------------------------------------
(* The outside                                                             *)

JobRuns ==
  /\ sendJob = "pending" /\ sendJob' \in {"sent", "refused"}
  /\ UNCHANGED <<kind, stage, queued, others, answered, seen, result>>
ReplyComes ==
  /\ sendJob = "sent" /\ ~answered /\ answered' = TRUE
  /\ UNCHANGED <<kind, stage, queued, others, sendJob, seen, result>>
\* What a companion has before the dispatch is what it is compared with.
DirectReport(s, value) ==
  /\ value \in IF s = "target" THEN {"other", "wanted"} ELSE {"same", "changed"}
  /\ value = "changed" => stage \in Inside
  /\ seen' = [seen EXCEPT ![s] = [value |-> value, new |-> TRUE]]
  /\ UNCHANGED <<kind, stage, queued, others, sendJob, answered, result>>
ObservationAges(s) ==
  /\ seen[s] # Unseen /\ seen' = [seen EXCEPT ![s] = Unseen]
  /\ UNCHANGED <<kind, stage, queued, others, sendJob, answered, result>>

\* A free lock is taken without waiting.
OthersAcquire ==
  /\ ~others /\ stage \notin Inside /\ (stage = "waiting" => queued) /\ others' = TRUE
  /\ UNCHANGED <<kind, stage, queued, sendJob, answered, seen, result>>
OthersRelease ==
  /\ others /\ others' = FALSE
  /\ UNCHANGED <<kind, stage, queued, sendJob, answered, seen, result>>

ResearchNext ==
  \/ \E k \in Kinds : AskTest(k)
  \/ RefuseTest \/ DispatchTest \/ PublishReturns \/ ReplyTaken \/ ReplyMissed
  \/ WatchConfirms \/ WatchExpires \/ ObservationEnds \/ CancelTest
  \/ JobRuns \/ ReplyComes \/ OthersAcquire \/ OthersRelease
  \/ \E s \in Settings : \/ ObservationAges(s)
                         \/ \E v \in {"other", "wanted", "same", "changed"} : DirectReport(s, v)
ResearchSpec == ResearchInit /\ [][ResearchNext]_researchVars

-----------------------------------------------------------------------------
(* Properties                                                              *)

Results == {"none", "validation_failed", "state_changed_before_dispatch", "publish_failed",
            "set_reply_timeout", "direct_readback_timeout", "device_rejected",
            "unexpected_companion_change", "cancelled", "confirmed"}

\* Every variable keeps its shape.
ResearchTypeOK ==
  /\ kind \in Kinds /\ stage \in Inside \cup {"idle", "waiting", "done"}
  /\ queued \in BOOLEAN /\ others \in BOOLEAN /\ answered \in BOOLEAN
  /\ sendJob \in {"none", "pending", "sent", "refused"} /\ result \in Results
  /\ seen \in [Settings -> [value : {"none", "other", "wanted", "same", "changed"},
                            new : BOOLEAN]]

\* What the world allows a record to end with.
Reported(s, value) == seen[s] = [value |-> value, new |-> TRUE]
Truth(outcome) ==
  CASE outcome \in {"validation_failed", "state_changed_before_dispatch"} -> sendJob = "none"
    [] outcome = "publish_failed"          -> sendJob = "refused"
    [] outcome = "set_reply_timeout"       -> sendJob = "sent" /\ ~answered
    [] outcome = "direct_readback_timeout" -> answered
    [] outcome = "device_rejected"         -> answered /\ Reported("target", "other")
    [] outcome = "unexpected_companion_change" ->
         Reported("target", "wanted") /\ \E s \in {"mode", "flags"} : Reported(s, "changed")
    [] outcome = "confirmed" ->
         answered /\ (kind # "phase" => Reported("target", "wanted") /\ Reported("mode", "same"))
    [] outcome = "cancelled" -> TRUE

\* The result a record ends with is true of what happened: a write said not to be
\* sent was not, and one said to be confirmed was seen to take effect by reports
\* that came after it, with the work mode as before.
RecordTruthful ==
  [][/\ stage # "done" /\ stage' = "done" => Truth(result')
     /\ stage # "observing" /\ stage' = "observing" => Reported("target", "wanted")]_researchVars
=============================================================================
