----------------------------- MODULE PhaseWrite -----------------------------
(***************************************************************************)
(* A phase write and the evidence that confirms it (phase_diagnostics.py,  *)
(* and the phase half of the settings transaction in coordinator.py): the  *)
(* 241/44 reports of the charger, the provider's accessory reads, what was *)
(* known before the write, and the readback afterwards.                    *)
(*                                                                         *)
(* The charger is outside: a report, and the cloud's copy, may say any     *)
(* mode at any time.  A stamp is kept as what the code asks of it: whether *)
(* it is later than the issue of the last write, which of two is later,    *)
(* and, where it is asked, whether it is within its maximum age.  The      *)
(* lock, the waiter and cancellation are those of SettingsWrite.  Home     *)
(* Assistant runs one provider read at a time.                             *)
(***************************************************************************)
EXTENDS Naturals

CONSTANTS
  Modes,       \* phase modes: auto, one_phase, three_phase
  NoMode,      \* a snapshot without a usable phase
  Retries,     \* provider retries (five in the code)
  MaxVersions  \* bound on the changes the cloud makes to its copy

ASSUME PhaseAssumption ==
  NoMode \notin Modes /\ Retries \in Nat \ {0} /\ MaxVersions \in Nat

VARIABLES
  cloudCopy,   \* the cloud's copy, and the number of its changes
  answer,      \* the provider read under way, once the cloud has answered it
  direct,      \* latest direct_241_44 snapshot; whether it is after the issue
  provider,    \* latest provider_parent_accessory snapshot, likewise
  directLast,  \* the direct snapshot is the later one
  write        \* the transaction: stage, wanted mode, prewrite_provider, retries

evidenceVars == <<direct, provider, directLast>>
phaseVars == <<cloudCopy, answer, evidenceVars, write>>

Copies == [mode : Modes \cup {NoMode}, version : 0..MaxVersions]
NoAnswer == [mode |-> NoMode, version |-> MaxVersions + 1]
NoRecord == [mode |-> NoMode, version |-> 0, new |-> FALSE]
NoBefore == [mode |-> NoMode, version |-> 0, fresh |-> FALSE]
NoWrite  == [stage |-> "idle", wanted |-> NoMode, before |-> NoBefore, tries |-> 0]

PhaseInit ==
  /\ \E m \in Modes : cloudCopy = [mode |-> m, version |-> 0]
  /\ answer = NoAnswer
  /\ direct = [mode |-> NoMode, new |-> FALSE] /\ provider = NoRecord /\ directLast = FALSE
  /\ write = NoWrite

-----------------------------------------------------------------------------
(* The cloud and the evidence                                              *)

CopyChanges(m) ==
  /\ cloudCopy.mode # m /\ cloudCopy.version < MaxVersions
  /\ cloudCopy' = [mode |-> m, version |-> cloudCopy.version + 1]
  /\ UNCHANGED <<answer, evidenceVars, write>>
ReadAnswered ==
  /\ answer = NoAnswer
  /\ \E m \in {cloudCopy.mode, NoMode} : answer' = [cloudCopy EXCEPT !.mode = m]
  /\ UNCHANGED <<cloudCopy, evidenceVars, write>>

\* Each snapshot replaces the one before it, also by one without a phase.
ReportRecorded(m) ==
  /\ direct' = [mode |-> m, new |-> TRUE] /\ directLast' = TRUE
  /\ UNCHANGED <<cloudCopy, answer, provider, write>>
\* A provider snapshot is stamped when its read has returned.
ReadRecorded ==
  /\ answer # NoAnswer /\ answer' = NoAnswer
  /\ provider' = [mode |-> answer.mode, version |-> answer.version, new |-> TRUE]
  /\ directLast' = FALSE
  /\ UNCHANGED <<cloudCopy, direct, write>>
ReadFails ==
  /\ answer # NoAnswer /\ answer' = NoAnswer
  /\ UNCHANGED <<cloudCopy, evidenceVars, write>>

Usable(evidence) == evidence.mode # NoMode

\* control_evidence: a fresh direct value, or a fresh provider value that no later
\* direct one contradicts.
ControlEvidence(directFresh, providerFresh) ==
  \/ Usable(direct) /\ directFresh
  \/ /\ Usable(provider) /\ providerFresh
     /\ ~(Usable(direct) /\ directLast /\ direct.mode # provider.mode)

\* confirmation_source: a direct value since the write decides; a provider value
\* counts only as a change from a recent one that was different.
DirectDecides == Usable(direct) /\ direct.new
EchoMutant == Usable(write.before)
WasDifferent == Usable(write.before) /\ write.before.mode # write.wanted
Confirmation ==
  IF DirectDecides THEN IF direct.mode = write.wanted THEN "direct" ELSE "none"
  ELSE IF /\ WasDifferent /\ write.before.fresh
          /\ Usable(provider) /\ provider.new /\ provider.mode = write.wanted
       THEN "provider" ELSE "none"

-----------------------------------------------------------------------------
(* The transaction                                                         *)

PhaseEnds(result) == write' = [NoWrite EXCEPT !.stage = result]

\* async_set_phase_mode: what the cloud said before is kept, and the command is
\* issued and published.
IssuePhase(m) ==
  /\ write.stage \notin {"issued", "direct wait", "retries"}
  /\ \E directFresh, providerFresh \in BOOLEAN :
       /\ ControlEvidence(directFresh, providerFresh)
       /\ write' = [stage |-> "issued", wanted |-> m, tries |-> 0,
                    before |-> [mode |-> provider.mode, version |-> provider.version,
                                fresh |-> providerFresh]]
  /\ direct' = [direct EXCEPT !.new = FALSE] /\ provider' = [provider EXCEPT !.new = FALSE]
  /\ UNCHANGED <<cloudCopy, answer, directLast>>
PhaseReplied ==
  /\ write.stage = "issued" /\ write' = [write EXCEPT !.stage = "direct wait"]
  /\ UNCHANGED <<cloudCopy, answer, evidenceVars>>
\* The publish fails, or no reply comes.
PhaseUnanswered ==
  /\ write.stage = "issued" /\ PhaseEnds("failed")
  /\ UNCHANGED <<cloudCopy, answer, evidenceVars>>

\* The first direct value after the write confirms it or ends the wait, and so does
\* the deadline.
DirectLook ==
  /\ write.stage = "direct wait"
  /\ IF DirectDecides /\ direct.mode = write.wanted THEN PhaseEnds("direct")
     ELSE write' = [write EXCEPT !.stage = "retries"]
  /\ UNCHANGED <<cloudCopy, answer, evidenceVars>>

\* After each delay a read is asked for; it may have ended, failed, or be under way.
RetryLook ==
  /\ write.stage = "retries"
  /\ \/ Confirmation # "none" /\ PhaseEnds(Confirmation)
     \/ /\ Confirmation = "none" /\ write.tries + 1 < Retries
        /\ write' = [write EXCEPT !.tries = @ + 1]
     \/ Confirmation = "none" /\ write.tries + 1 = Retries /\ PhaseEnds("unconfirmed")
  /\ UNCHANGED <<cloudCopy, answer, evidenceVars>>

PhaseNext ==
  \/ \E m \in Modes : CopyChanges(m) \/ IssuePhase(m)
  \/ \E m \in Modes \cup {NoMode} : ReportRecorded(m)
  \/ ReadAnswered \/ ReadRecorded \/ ReadFails
  \/ PhaseReplied \/ PhaseUnanswered \/ DirectLook \/ RetryLook

PhaseSpec == PhaseInit /\ [][PhaseNext]_phaseVars

-----------------------------------------------------------------------------
(* Properties                                                              *)

\* Every variable keeps its shape.
PhaseTypeOK ==
  /\ cloudCopy \in Copies /\ answer \in Copies \cup {NoAnswer}
  /\ direct \in [mode : Modes \cup {NoMode}, new : BOOLEAN]
  /\ provider \in [mode : Modes \cup {NoMode}, version : 0..MaxVersions, new : BOOLEAN]
  /\ directLast \in BOOLEAN
  /\ write \in [stage : {"idle", "issued", "direct wait", "retries",
                         "direct", "provider", "failed", "unconfirmed"},
                wanted : Modes \cup {NoMode}, tries : 0..Retries,
                before : [mode : Modes \cup {NoMode}, version : 0..MaxVersions, fresh : BOOLEAN]]

\* A confirmation by the provider rests on a change: since the read before the
\* write the cloud has come to say the wanted mode, so that its echo of an older
\* state is never taken for the effect of the write.
RealTransition ==
  [][write.stage # "provider" /\ write'.stage = "provider" =>
       provider.version > write.before.version]_phaseVars
=============================================================================
