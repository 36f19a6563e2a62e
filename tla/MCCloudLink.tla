----------------------------- MODULE MCCloudLink -----------------------------
(***************************************************************************)
(* The parts of the cloud link side by side.  They share no variable, so a *)
(* behaviour of all of them is an interleaving of one of each, and each is *)
(* checked while the others rest: focus names the part that moves.         *)
(***************************************************************************)
EXTENDS CloudSession, MqttClient, PassiveRefresh, ReconnectBackoff, FrameCapture, PhaseWrite,
        ResearchWrite, StreamRecovery

VARIABLE focus

allVars == <<sessionVars, clientVars, passiveVars, backoffVars, captureVars, phaseVars,
             researchVars, streamVars, focus>>

\* A part at rest is in one of its initial states.
Resting ==
  /\ focus # "session"  => password = "valid"
  /\ focus # "phase"    => cloudCopy.mode = CHOOSE m \in Modes : TRUE
  /\ focus # "research" => kind = "phase"

Init ==
  /\ SessionInit /\ ClientInit /\ PassiveInit /\ BackoffInit /\ CaptureInit /\ PhaseInit
  /\ ResearchInit /\ StreamInit
  /\ focus \in {"session", "client", "passive", "backoff", "capture", "phase", "research",
                "stream"}
  /\ Resting

Session  == focus = "session"  /\ SessionNext  /\ UNCHANGED <<clientVars, passiveVars, backoffVars, captureVars, phaseVars, researchVars, streamVars, focus>>
Client   == focus = "client"   /\ ClientNext   /\ UNCHANGED <<sessionVars, passiveVars, backoffVars, captureVars, phaseVars, researchVars, streamVars, focus>>
Passive  == focus = "passive"  /\ PassiveNext  /\ UNCHANGED <<sessionVars, clientVars, backoffVars, captureVars, phaseVars, researchVars, streamVars, focus>>
Backoff  == focus = "backoff"  /\ BackoffNext  /\ UNCHANGED <<sessionVars, clientVars, passiveVars, captureVars, phaseVars, researchVars, streamVars, focus>>
Capture  == focus = "capture"  /\ CaptureNext  /\ UNCHANGED <<sessionVars, clientVars, passiveVars, backoffVars, phaseVars, researchVars, streamVars, focus>>
Phase    == focus = "phase"    /\ PhaseNext    /\ UNCHANGED <<sessionVars, clientVars, passiveVars, backoffVars, captureVars, researchVars, streamVars, focus>>
Research == focus = "research" /\ ResearchNext /\ UNCHANGED <<sessionVars, clientVars, passiveVars, backoffVars, captureVars, phaseVars, streamVars, focus>>
Stream   == focus = "stream"   /\ StreamNext   /\ UNCHANGED <<sessionVars, clientVars, passiveVars, backoffVars, captureVars, phaseVars, researchVars, focus>>

Next == Session \/ Client \/ Passive \/ Backoff \/ Capture \/ Phase \/ Research \/ Stream

\* Frames come only over a link that is up, and each sets the timer of the cycle
\* anew: a cycle is sure to start only while no link is up.
TimerRuns == \A s \in Sources : client[s].link # "up"

\* The event loop runs what is ready, a cycle starts when its timer runs and goes on
\* once started, executor jobs and requests end (timeouts), time passes, and a
\* backoff runs out.  A dial is answered within seconds while rebuilds are minutes
\* apart: strong fairness.
SessionFairness ==
  /\ WF_sessionVars(focus = "session" /\ PollStep /\ (poll.at = "idle" => TimerRuns))
  /\ WF_sessionVars(focus = "session" /\ RefreshTask)
  /\ WF_sessionVars(focus = "session" /\ SessionTick)
  /\ \A by \in Callers : WF_sessionVars(focus = "session" /\ RefreshStep(by))
  /\ \A s \in Sources :
       /\ SF_sessionVars(focus = "session" /\ (Accepted(s) \/ Refused(s)))
       /\ WF_sessionVars(focus = "session" /\ BackoffEnds(s))

\* The sleep and the requests of a read end.
PassiveFairness == WF_passiveVars(focus = "passive" /\ (DelayPasses \/ RefreshReturns))

\* A cycle runs when its timer stays over, not while frames go on setting it anew;
\* the holder of the lock ends, time passes, asyncio.Lock wakes its queue in order,
\* another charger's call ends, and a link that was taken down comes up again
\* (ClientsReturn).
StreamFairness ==
  /\ SF_streamVars(focus = "stream" /\ (LeaveAlone("cycle") \/ Attempt("cycle")))
  /\ WF_streamVars(focus = "stream" /\ \E c \in StreamCallers : Worked(c) \/ Failed(c) \/ Watched(c))
  /\ WF_streamVars(focus = "stream" /\ CycleRuns /\ PollDue)
  /\ WF_streamVars(focus = "stream" /\ OtherTurn /\ turn = "other")
  /\ WF_streamVars(focus = "stream" /\ LinkComesUp)
  /\ WF_streamVars(focus = "stream" /\ StreamTick)

Spec ==
  Init /\ [][Next]_allVars /\ SessionFairness /\ PassiveFairness /\ StreamFairness

\* The recovery of the stream on its own, where not even a cycle whose timer is
\* over now and then misses its turn for ever.
StreamAlone ==
  focus = "stream" /\ Spec /\ SF_streamVars(focus = "stream" /\ CycleRuns /\ PollDue)

\* Every part keeps its shape.
CloudTypeOK ==
  /\ SessionTypeOK /\ ClientTypeOK /\ PassiveTypeOK /\ BackoffTypeOK /\ CaptureTypeOK
  /\ PhaseTypeOK /\ ResearchTypeOK /\ StreamTypeOK
=============================================================================
