---------------------------- MODULE FrameCapture ----------------------------
(***************************************************************************)
(* The bounded buckets of the diagnostics capture (DiagnosticFrameCapture  *)
(* in frame_capture.py): a bucket per message type, with a reserve for the *)
(* types of app commands; which bucket makes room for a new type; and the  *)
(* counters that account for the frames dropped.                           *)
(*                                                                         *)
(* A message type is a bucket key.  The order of an OrderedDict is kept as *)
(* the ordinal of the frame that put the type at the end.  The lists of    *)
(* recent frames, a bucket's samples and the contents of frames are left   *)
(* out.                                                                    *)
(***************************************************************************)
EXTENDS Naturals, FiniteSets

CONSTANTS
  CommandTypes,  \* message types of COMMAND_CHANNELS
  RegularTypes,  \* all others
  Reserve,       \* buckets only commands may take
  RegularLimit,  \* buckets for the rest
  NamedLimit,    \* dropped types counted by name
  SeenLimit,     \* command types whose frequency is remembered (4 * Reserve)
  MaxFrames      \* bound on the frames recorded

\* The coordinator's capture has room for both kinds (8 and 40).
ASSUME CaptureAssumption ==
  /\ IsFiniteSet(CommandTypes) /\ IsFiniteSet(RegularTypes)
  /\ CommandTypes \cap RegularTypes = {}
  /\ Reserve \in Nat \ {0} /\ RegularLimit \in Nat \ {0} /\ NamedLimit \in Nat
  /\ SeenLimit \in Nat \ {0} /\ MaxFrames \in Nat

VARIABLES
  frames,     \* _frames_seen
  count,      \* _buckets: the count of a type's bucket, 0 without one
  admitted,   \* and the frame that opened it
  dropped,    \* _dropped_types, 0 for a type that is not in it
  untracked,  \* _dropped_types_untracked
  typeSeen,   \* _command_type_seen, 0 for a type that is not in it
  lastSeen,   \* and the frame that moved it to the end
  total       \* history: the frames of each type

captureVars == <<frames, count, admitted, dropped, untracked, typeSeen, lastSeen, total>>

Types == CommandTypes \cup RegularTypes

CaptureInit ==
  /\ frames = 0 /\ untracked = 0
  /\ count = [k \in Types |-> 0] /\ admitted = [k \in Types |-> 0]
  /\ dropped = [k \in Types |-> 0] /\ total = [k \in Types |-> 0]
  /\ typeSeen = [k \in CommandTypes |-> 0] /\ lastSeen = [k \in CommandTypes |-> 0]

Buckets(types) == {k \in types : count[k] > 0}
Named == {k \in Types : dropped[k] > 0}

\* _record_command_type_seen: beyond the limit the type that was seen longest ago
\* is forgotten.
Forgotten(k) ==
  LET others == {j \in CommandTypes : j # k /\ typeSeen[j] > 0} IN
  IF Cardinality(others) < SeenLimit THEN {}
  ELSE {j \in others : \A i \in others : lastSeen[j] <= lastSeen[i]}
CountType(k) ==
  /\ lastSeen' = [lastSeen EXCEPT ![k] = frames + 1]
  /\ typeSeen' = [j \in CommandTypes |->
                    IF j = k THEN typeSeen[k] + 1
                    ELSE IF j \in Forgotten(k) THEN 0 ELSE typeSeen[j]]

\* How often a bucket's type was seen: what is forgotten is counted by its bucket.
SeenOf(j) == IF typeSeen'[j] > 0 THEN typeSeen'[j] ELSE count[j]

\* _record_dropped_type: a type is counted by name while there is room for names.
Dropping(k, n) ==
  IF dropped[k] > 0 \/ Cardinality(Named) < NamedLimit
    THEN dropped' = [dropped EXCEPT ![k] = @ + n] /\ UNCHANGED untracked
    ELSE untracked' = untracked + 1 /\ UNCHANGED dropped

Stay(k) ==
  /\ count[k] > 0 /\ count' = [count EXCEPT ![k] = @ + 1]
  /\ UNCHANGED <<admitted, dropped, untracked>>
Open(k) ==
  /\ count' = [count EXCEPT ![k] = 1] /\ admitted' = [admitted EXCEPT ![k] = frames + 1]
  /\ UNCHANGED <<dropped, untracked>>
LostCountMutant(victim, k) ==
  /\ count' = [count EXCEPT ![victim] = 0, ![k] = 1]
  /\ admitted' = [admitted EXCEPT ![k] = frames + 1]
  /\ Dropping(victim, 1)
Replace(victim, k) ==
  /\ count' = [count EXCEPT ![victim] = 0, ![k] = 1]
  /\ admitted' = [admitted EXCEPT ![k] = frames + 1]
  /\ Dropping(victim, count[victim])
Refuse(k) == Dropping(k, 1) /\ UNCHANGED <<count, admitted>>

\* The bucket of the command seen most often, the oldest of them.
MostSeen ==
  {j \in Buckets(CommandTypes) : \A i \in Buckets(CommandTypes) :
     SeenOf(i) < SeenOf(j) \/ (SeenOf(i) = SeenOf(j) /\ admitted[j] <= admitted[i])}
AnyOldestMutant == {j \in Buckets(Types) : \A i \in Buckets(Types) : admitted[j] <= admitted[i]}
OldestRegular ==
  {j \in Buckets(RegularTypes) : \A i \in Buckets(RegularTypes) : admitted[j] <= admitted[i]}

\* record of a frame, with _admit_bucket: a command makes room only for one that
\* was seen less often, telemetry only for telemetry.
FrameSeen(k) == frames' = frames + 1 /\ total' = [total EXCEPT ![k] = @ + 1]
RecordCommand(k) ==
  /\ frames < MaxFrames /\ FrameSeen(k) /\ CountType(k)
  /\ \/ Stay(k)
     \/ /\ count[k] = 0 /\ Cardinality(Buckets(CommandTypes)) < Reserve
        /\ Open(k)
     \/ /\ count[k] = 0 /\ Cardinality(Buckets(CommandTypes)) >= Reserve
        /\ \E victim \in MostSeen :
             IF typeSeen'[k] < SeenOf(victim) THEN Replace(victim, k) ELSE Refuse(k)
RecordRegular(k) ==
  /\ frames < MaxFrames /\ FrameSeen(k) /\ UNCHANGED <<typeSeen, lastSeen>>
  /\ \/ Stay(k)
     \/ /\ count[k] = 0 /\ Cardinality(Buckets(RegularTypes)) < RegularLimit
        /\ Open(k)
     \/ /\ count[k] = 0 /\ Cardinality(Buckets(RegularTypes)) >= RegularLimit
        /\ \E victim \in OldestRegular : Replace(victim, k)

CaptureNext == (\E k \in CommandTypes : RecordCommand(k)) \/ (\E k \in RegularTypes : RecordRegular(k))
CaptureSpec == CaptureInit /\ [][CaptureNext]_captureVars

-----------------------------------------------------------------------------
(* Properties                                                              *)

\* Every variable keeps its shape.
CaptureTypeOK ==
  /\ frames \in 0..MaxFrames /\ untracked \in Nat
  /\ count \in [Types -> Nat] /\ admitted \in [Types -> Nat]
  /\ dropped \in [Types -> Nat] /\ total \in [Types -> Nat]
  /\ typeSeen \in [CommandTypes -> Nat] /\ lastSeen \in [CommandTypes -> Nat]

\* The counters reconcile: of a type with a name, or while every dropped type has
\* one, each frame is in its bucket or among its dropped ones, through any sequence
\* of evictions and returns.
Reconciled ==
  \A k \in Types : (untracked = 0 \/ dropped[k] > 0) => total[k] = count[k] + dropped[k]

\* A flood of telemetry never costs a command its bucket: one goes only for a
\* command that was seen less often, and neither kind takes more than its share.
CommandsKept ==
  [][/\ \A j \in CommandTypes : count[j] > 0 /\ count'[j] = 0 =>
          \E k \in CommandTypes : count[k] = 0 /\ count'[k] > 0 /\ typeSeen'[k] < SeenOf(j)
     /\ Cardinality(Buckets(CommandTypes))' <= Reserve
     /\ Cardinality(Buckets(RegularTypes))' <= RegularLimit]_captureVars
=============================================================================
