--------------------------- MODULE CloudLinkProofs ---------------------------
(***************************************************************************)
(* The parts of the cloud link side by side (MCCloudLink): what is proved  *)
(* of each holds of all of them together, because a step of the whole is a *)
(* step of one part that leaves the variables of the others alone.         *)
(***************************************************************************)
EXTENDS MCCloudLink, CloudSessionProofs, LinkProofs, FrameCaptureProofs, ReadbackProofs

\* A step of the whole is a step of each part, or stutters in it.
LEMMA StepOfParts ==
  ASSUME [Next]_allVars
  PROVE  /\ [SessionNext]_sessionVars /\ [ClientNext]_clientVars /\ [PassiveNext]_passiveVars
         /\ [BackoffNext]_backoffVars /\ [CaptureNext]_captureVars /\ [PhaseNext]_phaseVars
         /\ [ResearchNext]_researchVars /\ [StreamNext]_streamVars
BY DEF Next, Session, Client, Passive, Backoff, Capture, Phase, Research, Stream, allVars

\* A behaviour of the whole is one of each part.
LEMMA SpecOfParts ==
  Spec => /\ SessionSpec /\ ClientSpec /\ PassiveSpec /\ BackoffSpec
          /\ CaptureSpec /\ PhaseSpec /\ ResearchSpec /\ StreamSpec
<1>1. Init => /\ SessionInit /\ ClientInit /\ PassiveInit /\ BackoffInit /\ CaptureInit
              /\ PhaseInit /\ ResearchInit /\ StreamInit
  BY DEF Init
<1> QED
  BY <1>1, StepOfParts, PTL
  DEF Spec, SessionSpec, ClientSpec, PassiveSpec, BackoffSpec, CaptureSpec, PhaseSpec,
      ResearchSpec, StreamSpec

\* Every part keeps its shape while the others move as well.
THEOREM CloudTypes == Spec => []CloudTypeOK
<1>1. SessionTypeOK /\ ClientTypeOK /\ PassiveTypeOK /\ BackoffTypeOK /\ CaptureTypeOK
        /\ PhaseTypeOK /\ ResearchTypeOK /\ StreamTypeOK => CloudTypeOK
  BY DEF CloudTypeOK
<1> QED
  BY <1>1, SpecOfParts, SessionTypes, ClientTypes, PassiveTypes, BackoffTypes, CaptureTypes,
     PhaseTypes, ResearchTypes, StreamTypes, PTL

\* What the invariants of the parts say holds of all parts side by side.
THEOREM LinkInvariants ==
  Spec => [](/\ NoFalseAlarm /\ OneSignIn /\ RefreshExact /\ NobodyStranded
             /\ NoOrphanThread /\ NoJobStuck /\ NoLostReply /\ RetryWithin
             /\ Reconciled /\ OneAttempt)
BY SpecOfParts, NoFalseAlarmAlways, OneSignInAlways, RefreshExactAlways, NobodyStrandedAlways,
   NoOrphanThreadAlways, NoJobStuckAlways, NoLostReplyAlways, RetryWithinAlways,
   ReconciledAlways, OneAttemptAlways, PTL

\* So does what no step of a part does.
THEOREM LinkSteps ==
  Spec => RefreshOnlyForReply /\ CommandsKept /\ RealTransition /\ RecordTruthful /\ FailuresPaced
BY SpecOfParts, RefreshOnlyForReplyAlways, CommandsKeptAlways, RealTransitionAlways,
   RecordTruthfulAlways, FailuresPacedAlways, PTL
=============================================================================
