--------------------------- MODULE ReadbackProofs ---------------------------
(***************************************************************************)
(* Proofs about what a readback may be taken for: the provider's evidence  *)
(* after a phase write (PhaseWrite), and the result a protocol research    *)
(* record ends with (ResearchWrite).                                       *)
(***************************************************************************)
EXTENDS PhaseWrite, ResearchWrite, TLAPS

-----------------------------------------------------------------------------
(* The provider's evidence                                                 *)

\* x was the cloud's copy no later than y; of the same copy, both give one mode.
Saw(x, y) ==
  /\ x.version <= y.version
  /\ x.version = y.version /\ x.mode # NoMode /\ y.mode # NoMode => x.mode = y.mode

\* What was known before the write, the latest snapshot, the read under way and the
\* copy itself follow each other.  A snapshot without a mode says nothing, so that
\* each pair is a part of the invariant.
EvidenceOrdered ==
  /\ PhaseTypeOK
  /\ cloudCopy.mode # NoMode
  /\ Saw(write.before, provider) /\ Saw(write.before, cloudCopy) /\ Saw(provider, cloudCopy)
  /\ answer # NoAnswer =>
       Saw(write.before, answer) /\ Saw(provider, answer) /\ Saw(answer, cloudCopy)

\* The shapes of the records a step puts in place.
LEMMA PhaseShapes ==
  ASSUME PhaseTypeOK
  PROVE  /\ write.before \in [mode : Modes \cup {NoMode}, version : 0..MaxVersions, fresh : BOOLEAN]
         /\ cloudCopy.version \in 0..MaxVersions /\ cloudCopy.mode \in Modes \cup {NoMode}
         /\ provider.version \in 0..MaxVersions /\ provider.mode \in Modes \cup {NoMode}
         /\ write.before.version \in 0..MaxVersions
         /\ write.before.mode \in Modes \cup {NoMode}
         /\ write.wanted \in Modes \cup {NoMode} /\ write.tries \in 0..Retries
         /\ answer # NoAnswer => /\ answer \in Copies /\ answer.version \in 0..MaxVersions
                                 /\ answer.mode \in Modes \cup {NoMode}
BY DEF PhaseTypeOK, Copies

\* The program starts in order.
LEMMA PhaseStarts == PhaseInit => EvidenceOrdered
<1> SUFFICES ASSUME PhaseInit PROVE EvidenceOrdered
  OBVIOUS
<1>1. PICK m \in Modes : cloudCopy = [mode |-> m, version |-> 0]
  BY DEF PhaseInit
<1>2. 0 \in 0..MaxVersions /\ 0 \in 0..Retries /\ m # NoMode
  BY PhaseAssumption
<1>3. cloudCopy \in Copies /\ cloudCopy.mode # NoMode /\ cloudCopy.version = 0
  BY <1>1, <1>2 DEF Copies
<1>4. /\ direct = [mode |-> NoMode, new |-> FALSE]
      /\ provider = [mode |-> NoMode, version |-> 0, new |-> FALSE]
      /\ directLast = FALSE /\ answer = NoAnswer
  BY DEF PhaseInit, NoRecord
<1>5. write = [stage |-> "idle", wanted |-> NoMode, tries |-> 0,
               before |-> [mode |-> NoMode, version |-> 0, fresh |-> FALSE]]
  BY DEF PhaseInit, NoWrite, NoBefore
<1>6. PhaseTypeOK
  BY <1>2, <1>3, <1>4, <1>5 DEF PhaseTypeOK
<1> QED
  BY <1>3, <1>4, <1>5, <1>6 DEF EvidenceOrdered, Saw

\* What the evidence is ordered by is left alone, or the read under way is dropped.
LEMMA SameSide ==
  ASSUME EvidenceOrdered, PhaseTypeOK',
         cloudCopy' = cloudCopy, provider' = provider, write'.before = write.before,
         answer' = answer \/ answer' = NoAnswer
  PROVE  EvidenceOrdered'
<1>1. Saw(write.before, provider)' /\ Saw(write.before, cloudCopy)' /\ Saw(provider, cloudCopy)'
  BY DEF EvidenceOrdered, Saw
<1>2. answer' # NoAnswer =>
        Saw(write.before, answer)' /\ Saw(provider, answer)' /\ Saw(answer, cloudCopy)'
  BY DEF EvidenceOrdered, Saw
<1>3. cloudCopy'.mode # NoMode
  BY DEF EvidenceOrdered
<1> QED
  BY <1>1, <1>2, <1>3 DEF EvidenceOrdered

\* A change of the cloud's copy is later than all that was seen of it.
LEMMA CopyOrdered ==
  ASSUME EvidenceOrdered, NEW m \in Modes, CopyChanges(m)
  PROVE  EvidenceOrdered'
<1>1. /\ cloudCopy' = [mode |-> m, version |-> cloudCopy.version + 1]
      /\ cloudCopy.version < MaxVersions
      /\ UNCHANGED <<answer, evidenceVars, write>>
  BY DEF CopyChanges
<1>2. PhaseTypeOK
  BY DEF EvidenceOrdered
<1>3. m # NoMode /\ cloudCopy.version + 1 \in 0..MaxVersions
  BY <1>1, <1>2, PhaseShapes, PhaseAssumption
<1>4. cloudCopy' \in Copies /\ cloudCopy'.mode = m /\ cloudCopy'.version = cloudCopy.version + 1
  BY <1>1, <1>3 DEF Copies
<1>5. PhaseTypeOK'
  BY <1>1, <1>2, <1>4 DEF PhaseTypeOK, evidenceVars
<1>6. ASSUME NEW x, x.version \in Nat, x.version <= cloudCopy.version
      PROVE  x.version <= cloudCopy'.version /\ x.version # cloudCopy'.version
  BY <1>2, <1>4, <1>6, PhaseShapes, PhaseAssumption
<1>7. Saw(write.before, cloudCopy)' /\ Saw(provider, cloudCopy)'
  <2>1. /\ write.before.version \in Nat /\ write.before.version <= cloudCopy.version
        /\ provider.version \in Nat /\ provider.version <= cloudCopy.version
    BY <1>2, PhaseShapes, PhaseAssumption DEF EvidenceOrdered, Saw
  <2> QED
    BY <1>1, <1>6, <2>1 DEF Saw, evidenceVars
<1>8. answer # NoAnswer => Saw(answer, cloudCopy)'
  <2>1. answer # NoAnswer => answer.version \in Nat /\ answer.version <= cloudCopy.version
    BY <1>2, PhaseShapes, PhaseAssumption DEF EvidenceOrdered, Saw
  <2> QED
    BY <1>1, <1>6, <2>1 DEF Saw
<1>9. Saw(write.before, provider)' /\ (answer # NoAnswer =>
        Saw(write.before, answer)' /\ Saw(provider, answer)')
  BY <1>1 DEF EvidenceOrdered, Saw, evidenceVars
<1> QED
  BY <1>1, <1>3, <1>4, <1>5, <1>7, <1>8, <1>9 DEF EvidenceOrdered

\* The cloud answers a read with its copy as it is.
LEMMA AnswerOrdered ==
  ASSUME EvidenceOrdered, ReadAnswered
  PROVE  EvidenceOrdered'
<1>1. PICK m \in {cloudCopy.mode, NoMode} : answer' = [cloudCopy EXCEPT !.mode = m]
  BY DEF ReadAnswered
<1>2. UNCHANGED <<cloudCopy, evidenceVars, write>>
  BY DEF ReadAnswered
<1>3. /\ answer' \in Copies /\ answer'.mode = m /\ answer'.version = cloudCopy.version
  BY <1>1, PhaseAssumption DEF EvidenceOrdered, PhaseTypeOK, Copies
<1>4. PhaseTypeOK'
  BY <1>2, <1>3 DEF EvidenceOrdered, PhaseTypeOK, evidenceVars
<1> QED
  BY <1>2, <1>3, <1>4, PhaseShapes DEF EvidenceOrdered, Saw, evidenceVars

\* The read that returns is later than the snapshot it replaces.
LEMMA RecordOrdered ==
  ASSUME EvidenceOrdered, ReadRecorded
  PROVE  EvidenceOrdered'
<1>1. /\ answer # NoAnswer /\ answer' = NoAnswer
      /\ provider' = [mode |-> answer.mode, version |-> answer.version, new |-> TRUE]
      /\ directLast' = FALSE /\ UNCHANGED <<cloudCopy, direct, write>>
  BY DEF ReadRecorded
<1>2. PhaseTypeOK'
  BY <1>1, PhaseShapes DEF EvidenceOrdered, PhaseTypeOK
<1> QED
  BY <1>1, <1>2 DEF EvidenceOrdered, Saw

\* What was known before the write is the latest snapshot.
LEMMA IssueOrdered ==
  ASSUME EvidenceOrdered, NEW m \in Modes, IssuePhase(m)
  PROVE  EvidenceOrdered'
<1>1. PICK f \in BOOLEAN :
        write' = [stage |-> "issued", wanted |-> m, tries |-> 0,
                  before |-> [mode |-> provider.mode, version |-> provider.version, fresh |-> f]]
  BY DEF IssuePhase
<1>2. /\ direct' = [direct EXCEPT !.new = FALSE] /\ provider' = [provider EXCEPT !.new = FALSE]
      /\ UNCHANGED <<cloudCopy, answer, directLast>>
  BY DEF IssuePhase
<1>3. /\ provider'.mode = provider.mode /\ provider'.version = provider.version
      /\ provider' \in [mode : Modes \cup {NoMode}, version : 0..MaxVersions, new : BOOLEAN]
      /\ direct' \in [mode : Modes \cup {NoMode}, new : BOOLEAN]
  BY <1>2 DEF EvidenceOrdered, PhaseTypeOK
<1>4. 0 \in 0..Retries
  BY PhaseAssumption
<1>5. PhaseTypeOK'
  BY <1>1, <1>2, <1>3, <1>4, PhaseShapes DEF EvidenceOrdered, PhaseTypeOK
<1>6. write'.before.mode = provider.mode /\ write'.before.version = provider.version
  BY <1>1
<1> QED
  BY <1>2, <1>3, <1>5, <1>6, PhaseShapes DEF EvidenceOrdered, Saw

\* The other steps of the transaction keep what was known before it, or forget it.
LEMMA WriteOrdered ==
  ASSUME EvidenceOrdered, PhaseReplied \/ PhaseUnanswered \/ DirectLook \/ RetryLook
  PROVE  EvidenceOrdered'
<1>1. UNCHANGED <<cloudCopy, answer, evidenceVars>>
  BY DEF PhaseReplied, PhaseUnanswered, DirectLook, RetryLook
<1>2. 0 \in 0..Retries /\ 0 \in 0..MaxVersions
  BY PhaseAssumption
<1> DEFINE Result == {"direct", "provider", "failed", "unconfirmed"}
           Shape == [stage : {"idle", "issued", "direct wait", "retries",
                              "direct", "provider", "failed", "unconfirmed"},
                     wanted : Modes \cup {NoMode}, tries : 0..Retries,
                     before : [mode : Modes \cup {NoMode}, version : 0..MaxVersions,
                               fresh : BOOLEAN]]
<1>3. write \in Shape
  BY DEF EvidenceOrdered, PhaseTypeOK
<1>4. Confirmation \in {"direct", "provider", "none"}
  BY DEF Confirmation
<1>5. ASSUME NEW r \in Result, PhaseEnds(r)
      PROVE  write' \in Shape /\ write'.before.mode = NoMode /\ write'.before.version = 0
  <2>1. write' = [stage |-> r, wanted |-> NoMode, tries |-> 0,
                  before |-> [mode |-> NoMode, version |-> 0, fresh |-> FALSE]]
    BY <1>5 DEF PhaseEnds, NoWrite, NoBefore
  <2> QED
    BY <2>1, <1>2
<1>6. ASSUME \/ write' = [write EXCEPT !.stage = "direct wait"]
             \/ write' = [write EXCEPT !.stage = "retries"]
             \/ write.tries + 1 < Retries /\ write' = [write EXCEPT !.tries = @ + 1]
      PROVE  write' \in Shape /\ write'.before = write.before
  <2>1. write.tries + 1 < Retries => write.tries + 1 \in 0..Retries
    <3>1. write.tries \in 0..Retries
      BY PhaseShapes DEF EvidenceOrdered
    <3> QED
      BY <3>1, PhaseAssumption
  <2> QED
    BY <1>3, <1>6, <2>1
<1>7. \/ \E r \in Result : PhaseEnds(r)
      \/ write' = [write EXCEPT !.stage = "direct wait"]
      \/ write' = [write EXCEPT !.stage = "retries"]
      \/ write.tries + 1 < Retries /\ write' = [write EXCEPT !.tries = @ + 1]
  BY <1>4 DEF PhaseReplied, PhaseUnanswered, DirectLook, RetryLook
<1>8. write' \in Shape /\ (\/ write'.before = write.before
                           \/ write'.before.mode = NoMode /\ write'.before.version = 0)
  BY <1>5, <1>6, <1>7
<1>9. PhaseTypeOK'
  BY <1>1, <1>8 DEF EvidenceOrdered, PhaseTypeOK, evidenceVars
<1>10. CASE write'.before = write.before
  BY <1>1, <1>9, <1>10, SameSide DEF evidenceVars
<1>11. CASE write'.before.mode = NoMode /\ write'.before.version = 0
  <2>1. /\ provider.version \in Nat /\ cloudCopy.version \in Nat
        /\ answer # NoAnswer => answer.version \in Nat
    BY PhaseShapes, PhaseAssumption DEF EvidenceOrdered
  <2>2. Saw(write.before, provider)' /\ Saw(write.before, cloudCopy)'
        /\ (answer # NoAnswer => Saw(write.before, answer)')
    BY <1>1, <1>11, <2>1 DEF Saw, evidenceVars
  <2>3. Saw(provider, cloudCopy)'
        /\ (answer # NoAnswer => Saw(provider, answer)' /\ Saw(answer, cloudCopy)')
    BY <1>1 DEF EvidenceOrdered, Saw, evidenceVars
  <2> QED
    BY <1>1, <1>9, <2>2, <2>3 DEF EvidenceOrdered
<1> QED
  BY <1>8, <1>10, <1>11

\* A direct report, a failed read and a stutter do not touch the provider's side.
LEMMA PhaseElse ==
  ASSUME EvidenceOrdered,
         \/ \E m \in Modes \cup {NoMode} : ReportRecorded(m)
         \/ ReadFails \/ UNCHANGED phaseVars
  PROVE  EvidenceOrdered'
<1>1. PhaseTypeOK'
  <2>1. CASE \E m \in Modes \cup {NoMode} : ReportRecorded(m)
    <3>1. PICK m \in Modes \cup {NoMode} : direct' = [mode |-> m, new |-> TRUE]
      BY <2>1 DEF ReportRecorded
    <3>2. /\ direct' \in [mode : Modes \cup {NoMode}, new : BOOLEAN] /\ directLast' \in BOOLEAN
          /\ UNCHANGED <<cloudCopy, answer, provider, write>>
      BY <2>1, <3>1 DEF ReportRecorded
    <3> QED
      BY <3>2 DEF EvidenceOrdered, PhaseTypeOK
  <2>2. CASE ReadFails
    BY <2>2 DEF ReadFails, EvidenceOrdered, PhaseTypeOK, evidenceVars
  <2>3. CASE UNCHANGED phaseVars
    BY <2>3 DEF phaseVars, EvidenceOrdered, PhaseTypeOK, evidenceVars
  <2> QED
    BY <2>1, <2>2, <2>3
<1>2. UNCHANGED <<cloudCopy, provider, write>> /\ (answer' = answer \/ answer' = NoAnswer)
  BY DEF ReportRecorded, ReadFails, phaseVars, evidenceVars
<1> QED
  BY <1>1, <1>2, SameSide DEF EvidenceOrdered

\* The order of the evidence holds throughout.
THEOREM EvidenceOrderedAlways == PhaseSpec => []EvidenceOrdered
<1>1. EvidenceOrdered /\ [PhaseNext]_phaseVars => EvidenceOrdered'
  BY CopyOrdered, AnswerOrdered, RecordOrdered, IssueOrdered, WriteOrdered, PhaseElse
     DEF PhaseNext
<1> QED
  BY <1>1, PhaseStarts, PTL DEF PhaseSpec

\* Every variable of the phase write keeps its shape.
THEOREM PhaseTypes == PhaseSpec => []PhaseTypeOK
<1>1. EvidenceOrdered => PhaseTypeOK
  BY DEF EvidenceOrdered
<1> QED
  BY <1>1, EvidenceOrderedAlways, PTL

\* A provider confirmation rests on a change of the cloud's copy since the read
\* before the write, however reads, reports and writes interleave.
THEOREM RealTransitionAlways == PhaseSpec => RealTransition
<1>1. EvidenceOrdered /\ [PhaseNext]_phaseVars =>
        [write.stage # "provider" /\ write'.stage = "provider" =>
           provider.version > write.before.version]_phaseVars
  <2> SUFFICES ASSUME EvidenceOrdered, PhaseNext,
                      write.stage # "provider", write'.stage = "provider"
               PROVE  provider.version > write.before.version
    BY DEF phaseVars
  <2>1. RetryLook
    <3>1. ASSUME \/ \E m \in Modes : CopyChanges(m)
                 \/ \E m \in Modes \cup {NoMode} : ReportRecorded(m)
                 \/ ReadAnswered \/ ReadRecorded \/ ReadFails
          PROVE  FALSE
      BY <3>1 DEF CopyChanges, ReportRecorded, ReadAnswered, ReadRecorded, ReadFails
    <3>2. ASSUME NEW m \in Modes, IssuePhase(m) PROVE FALSE
      <4>1. PICK f \in BOOLEAN :
              write' = [stage |-> "issued", wanted |-> m, tries |-> 0,
                        before |-> [mode |-> provider.mode, version |-> provider.version,
                                    fresh |-> f]]
        BY <3>2 DEF IssuePhase
      <4> QED
        BY <4>1
    <3>3. ASSUME PhaseReplied PROVE FALSE
      BY <3>3 DEF PhaseReplied, EvidenceOrdered, PhaseTypeOK
    <3>4. ASSUME PhaseUnanswered PROVE FALSE
      BY <3>4 DEF PhaseUnanswered, PhaseEnds, NoWrite
    <3>5. ASSUME DirectLook PROVE FALSE
      BY <3>5 DEF DirectLook, PhaseEnds, NoWrite, EvidenceOrdered, PhaseTypeOK
    <3> QED
      BY <3>1, <3>2, <3>3, <3>4, <3>5 DEF PhaseNext
  <2>2. Confirmation = "provider"
    BY <2>1 DEF RetryLook, PhaseEnds, NoWrite, EvidenceOrdered, PhaseTypeOK
  <2>3. /\ write.before.mode # NoMode /\ write.before.mode # write.wanted
        /\ provider.mode # NoMode /\ provider.mode = write.wanted
    BY <2>2 DEF Confirmation, WasDifferent, Usable
  <2>4. Saw(write.before, provider)
    BY DEF EvidenceOrdered
  <2>5. provider.version \in Nat /\ write.before.version \in Nat
    BY PhaseShapes, PhaseAssumption DEF EvidenceOrdered
  <2> QED
    BY <2>3, <2>4, <2>5 DEF Saw
<1> QED
  BY <1>1, EvidenceOrderedAlways, PTL DEF PhaseSpec, RealTransition

-----------------------------------------------------------------------------
(* The research record                                                     *)

Observation == [value : {"none", "other", "wanted", "same", "changed"}, new : BOOLEAN]

\* What is observed of the target and of the work mode has the words of each.
WordsOK ==
  /\ seen \in [Settings -> Observation]
  /\ seen["target"].value \in {"none", "other", "wanted"}
  /\ seen["mode"].value \in {"none", "same", "changed"}

\* The shape of each observation.
LEMMA SeenShapes ==
  ASSUME WordsOK
  PROVE  /\ {"target", "mode", "flags"} = Settings
         /\ \A s \in Settings : seen[s] \in Observation /\ seen[s].new \in BOOLEAN
BY DEF WordsOK, Observation, Settings

\* A step keeps the words: it asks, dispatches, reports, forgets, or looks on.
LEMMA WordsKept ==
  ASSUME WordsOK, [ResearchNext]_researchVars
  PROVE  WordsOK'
<1>1. ASSUME NEW v \in {"none", "other", "wanted"}, seen' = [seen EXCEPT !["target"].value = v]
      PROVE  WordsOK'
  BY <1>1, SeenShapes DEF WordsOK, Observation, Settings
<1>2. ASSUME seen' = [s \in Settings |-> [new |-> FALSE, value |->
                       IF seen[s].value = "changed" THEN "same" ELSE seen[s].value]]
      PROVE  WordsOK'
  BY <1>2, SeenShapes DEF WordsOK, Observation, Settings
<1>3. ASSUME NEW s \in Settings, NEW v \in {"other", "wanted", "same", "changed"},
             v \in IF s = "target" THEN {"other", "wanted"} ELSE {"same", "changed"},
             seen' = [seen EXCEPT ![s] = [value |-> v, new |-> TRUE]]
      PROVE  WordsOK'
  BY <1>3, SeenShapes DEF WordsOK, Observation, Settings
<1>4. ASSUME NEW s \in Settings, seen' = [seen EXCEPT ![s] = Unseen]
      PROVE  WordsOK'
  BY <1>4, SeenShapes DEF WordsOK, Observation, Settings, Unseen
<1>5. CASE seen' = seen
  BY <1>5 DEF WordsOK
<1>6. ASSUME NEW k \in Kinds, AskTest(k)
      PROVE  WordsOK'
  <2>1. PICK v \in {"none", "other", "wanted"} : seen' = [seen EXCEPT !["target"].value = v]
    BY <1>6 DEF AskTest
  <2> QED
    BY <2>1, <1>1
<1>7. CASE DispatchTest
  BY <1>7, <1>2 DEF DispatchTest
<1>8. ASSUME NEW s \in Settings, NEW v \in {"other", "wanted", "same", "changed"},
             DirectReport(s, v)
      PROVE  WordsOK'
  BY <1>8, <1>3 DEF DirectReport
<1>9. ASSUME NEW s \in Settings, ObservationAges(s)
      PROVE  WordsOK'
  BY <1>9, <1>4 DEF ObservationAges
<1>10. CASE \/ RefuseTest \/ PublishReturns \/ ReplyTaken \/ ReplyMissed \/ WatchConfirms
            \/ WatchExpires \/ ObservationEnds \/ CancelTest \/ JobRuns \/ ReplyComes
            \/ OthersAcquire \/ OthersRelease \/ UNCHANGED researchVars
  <2>1. seen' = seen
    BY <1>10 DEF RefuseTest, PublishReturns, ReplyTaken, ReplyMissed, WatchConfirms, WatchExpires,
         ObservationEnds, CancelTest, JobRuns, ReplyComes, OthersAcquire, OthersRelease, researchVars
  <2> QED
    BY <2>1, <1>5
<1> QED
  BY <1>6, <1>7, <1>8, <1>9, <1>10 DEF ResearchNext

\* The call's stage and the result noted for it go together.
StageOK ==
  /\ kind \in Kinds /\ stage \in Inside \cup {"idle", "waiting", "done"}
  /\ queued \in BOOLEAN /\ others \in BOOLEAN /\ answered \in BOOLEAN
  /\ sendJob \in {"none", "pending", "sent", "refused"} /\ result \in Results
  /\ stage \in {"idle", "waiting"} => sendJob = "none" /\ ~answered
  /\ stage = "waiting"    => result = "validation_failed"
  /\ stage = "publishing" => result = "publish_failed"
  /\ stage = "replying"   => result = "set_reply_timeout" /\ sendJob = "sent"
  /\ stage = "watching"   => result = "direct_readback_timeout" /\ answered
  /\ stage = "observing"  => answered /\ kind = "phase"

\* Each step of the call notes the result that is true should the call end next.
LEMMA StageKept ==
  ASSUME StageOK, [ResearchNext]_researchVars
  PROVE  StageOK'
<1> USE DEF StageOK, Inside, Results, Ends
<1>1. ASSUME NEW k \in Kinds, AskTest(k) PROVE StageOK'
  BY <1>1 DEF AskTest
<1>2. CASE RefuseTest
  BY <1>2 DEF RefuseTest
<1>3. CASE DispatchTest
  BY <1>3 DEF DispatchTest
<1>4. CASE PublishReturns
  BY <1>4 DEF PublishReturns
<1>5. CASE ReplyTaken \/ ReplyMissed
  BY <1>5 DEF ReplyTaken, ReplyMissed
<1>6. CASE WatchConfirms
  BY <1>6 DEF WatchConfirms
<1>7. CASE WatchExpires \/ ObservationEnds \/ CancelTest
  BY <1>7 DEF WatchExpires, ObservationEnds, CancelTest
<1>8. CASE JobRuns
  BY <1>8 DEF JobRuns
<1>9. CASE ReplyComes \/ OthersAcquire \/ OthersRelease
  <2>1. CASE ReplyComes
    BY <2>1 DEF ReplyComes
  <2>2. CASE OthersAcquire
    BY <2>2 DEF OthersAcquire
  <2>3. CASE OthersRelease
    BY <2>3 DEF OthersRelease
  <2> QED
    BY <1>9, <2>1, <2>2, <2>3
<1>10. CASE \E s \in Settings : \/ ObservationAges(s)
                                \/ \E v \in {"other", "wanted", "same", "changed"} : DirectReport(s, v)
  BY <1>10 DEF ObservationAges, DirectReport
<1>11. CASE UNCHANGED researchVars
  BY <1>11 DEF researchVars
<1> QED
  BY <1>1, <1>2, <1>3, <1>4, <1>5, <1>6, <1>7, <1>8, <1>9, <1>10, <1>11 DEF ResearchNext

\* The words and the stages hold throughout.
THEOREM RecordedAlways == ResearchSpec => [](WordsOK /\ StageOK)
<1>1. ResearchInit => WordsOK
  BY DEF ResearchInit, WordsOK, Observation, Settings, Unseen
<1>2. ResearchInit => StageOK
  BY DEF ResearchInit, StageOK, Inside, Results
<1> QED
  BY <1>1, <1>2, WordsKept, StageKept, PTL DEF ResearchSpec

\* Every variable of the research call keeps its shape.
THEOREM ResearchTypes == ResearchSpec => []ResearchTypeOK
<1>1. WordsOK /\ StageOK => ResearchTypeOK
  BY DEF WordsOK, StageOK, ResearchTypeOK, Observation
<1> QED
  BY <1>1, RecordedAlways, PTL

\* A direct value that counts was reported after the issue.
LEMMA AfterReported ==
  ASSUME WordsOK, NEW s \in Settings, After(s) # "none"
  PROVE  Reported(s, After(s))
<1>1. seen[s] \in Observation /\ seen[s].new /\ After(s) = seen[s].value
  BY SeenShapes DEF After
<1> QED
  BY <1>1 DEF Observation, Reported

\* The call ends with a result that is true.
LEMMA EndTrue ==
  ASSUME WordsOK, StageOK, ResearchNext, stage # "done", stage' = "done"
  PROVE  Truth(result')
<1> USE DEF Ends
<1>1. ASSUME NEW k \in Kinds, AskTest(k) PROVE Truth(result')
  BY <1>1 DEF AskTest, StageOK, Truth
<1>2. CASE RefuseTest
  BY <1>2 DEF RefuseTest, StageOK, Truth
<1>3. CASE PublishReturns
  BY <1>3 DEF PublishReturns, StageOK, Truth
<1>4. CASE ReplyMissed
  BY <1>4 DEF ReplyMissed, StageOK, Truth
<1>5. CASE WatchConfirms
  <2>1. answered /\ After("target") = "wanted"
    BY <1>5 DEF WatchConfirms, Complete, StageOK
  <2>2. Reported("target", "wanted")
    BY <2>1, AfterReported DEF Settings
  <2>3. CASE \E s \in Enforced : After(s) = "changed"
    <3>1. result' = "unexpected_companion_change"
      BY <1>5, <2>3 DEF WatchConfirms
    <3>2. PICK s \in {"mode", "flags"} : After(s) = "changed"
      BY <2>3 DEF Enforced, StageOK, Kinds
    <3>3. Reported(s, "changed")
      BY <3>2, AfterReported DEF Settings
    <3> QED
      BY <2>2, <3>1, <3>3 DEF Truth
  <2>4. CASE ~\E s \in Enforced : After(s) = "changed"
    <3>1. kind # "phase" /\ result' = "confirmed"
      BY <1>5, <2>4 DEF WatchConfirms
    <3>2. "mode" \in Enforced /\ "mode" \in Companions
      BY <3>1 DEF Enforced, Companions, StageOK, Kinds
    <3>3. After("mode") # "none" /\ After("mode") # "changed"
      BY <1>5, <2>4, <3>2 DEF WatchConfirms, Complete
    <3>4. After("mode") = "same"
      BY <3>3 DEF After, WordsOK
    <3>5. Reported("mode", "same")
      BY <3>4, AfterReported DEF Settings
    <3> QED
      BY <2>1, <2>2, <3>1, <3>5 DEF Truth
  <2> QED
    BY <2>3, <2>4
<1>6. CASE WatchExpires
  <2>1. answered /\ result = "direct_readback_timeout"
    BY <1>6 DEF WatchExpires, StageOK
  <2>2. CASE After("target") = "other"
    <3>1. Reported("target", "other")
      BY <2>2, AfterReported DEF Settings
    <3> QED
      BY <1>6, <2>1, <2>2, <3>1 DEF WatchExpires, Truth
  <2>3. CASE After("target") # "other"
    BY <1>6, <2>1, <2>3 DEF WatchExpires, Truth
  <2> QED
    BY <2>2, <2>3
<1>7. CASE ObservationEnds
  BY <1>7 DEF ObservationEnds, StageOK, Truth
<1>8. CASE CancelTest
  BY <1>8 DEF CancelTest, Truth
<1>9. ASSUME \/ DispatchTest \/ ReplyTaken
             \/ JobRuns \/ ReplyComes \/ OthersAcquire \/ OthersRelease
             \/ \E s \in Settings : \/ ObservationAges(s)
                                   \/ \E v \in {"other", "wanted", "same", "changed"} : DirectReport(s, v)
      PROVE  FALSE
  BY <1>9 DEF DispatchTest, ReplyTaken, JobRuns, ReplyComes, OthersAcquire, OthersRelease,
              ObservationAges, DirectReport
<1> QED
  BY <1>1, <1>2, <1>3, <1>4, <1>5, <1>6, <1>7, <1>8, <1>9 DEF ResearchNext

\* The physical phase is only observed after the wanted phase was reported.
LEMMA ObservingTrue ==
  ASSUME WordsOK, StageOK, ResearchNext, stage # "observing", stage' = "observing"
  PROVE  Reported("target", "wanted")
<1>1. WatchConfirms
  <2>1. ASSUME \/ \E k \in Kinds : AskTest(k)
               \/ RefuseTest \/ DispatchTest \/ PublishReturns \/ ReplyTaken \/ ReplyMissed
               \/ WatchExpires \/ ObservationEnds \/ CancelTest
        PROVE  FALSE
    BY <2>1 DEF AskTest, RefuseTest, DispatchTest, PublishReturns, ReplyTaken, ReplyMissed,
                WatchExpires, ObservationEnds, CancelTest, Ends
  <2>2. ASSUME \/ JobRuns \/ ReplyComes \/ OthersAcquire \/ OthersRelease
               \/ \E s \in Settings : \/ ObservationAges(s)
                                     \/ \E v \in {"other", "wanted", "same", "changed"} : DirectReport(s, v)
        PROVE  FALSE
    BY <2>2 DEF JobRuns, ReplyComes, OthersAcquire, OthersRelease, ObservationAges, DirectReport
  <2> QED
    BY <2>1, <2>2 DEF ResearchNext
<1>2. After("target") = "wanted"
  BY <1>1 DEF WatchConfirms, Complete
<1> QED
  BY <1>2, AfterReported DEF Settings

\* Whatever reports, replies and cancellations come in between, a record never ends
\* with a result that is not so.
THEOREM RecordTruthfulAlways == ResearchSpec => RecordTruthful
<1>1. WordsOK /\ StageOK /\ [ResearchNext]_researchVars =>
        [/\ stage # "done" /\ stage' = "done" => Truth(result')
         /\ stage # "observing" /\ stage' = "observing" => Reported("target", "wanted")]_researchVars
  <2> SUFFICES ASSUME WordsOK, StageOK, ResearchNext
               PROVE  /\ stage # "done" /\ stage' = "done" => Truth(result')
                      /\ stage # "observing" /\ stage' = "observing" => Reported("target", "wanted")
    OBVIOUS
  <2> QED
    BY EndTrue, ObservingTrue
<1> QED
  BY <1>1, RecordedAlways, PTL DEF ResearchSpec, RecordTruthful
=============================================================================
