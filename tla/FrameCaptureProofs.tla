------------------------- MODULE FrameCaptureProofs -------------------------
(***************************************************************************)
(* Proofs about FrameCapture.  A type that is dropped without a name finds *)
(* the table of names full, and the table never shrinks: so a type that    *)
(* has a name was counted from its first drop on.                          *)
(***************************************************************************)
EXTENDS FrameCapture, FiniteSetTheorems, TLAPS

\* The inductive invariant of Reconciled and CommandsKept.
NamesFull    == untracked > 0 => Cardinality(Named) >= NamedLimit
WithinShares == /\ Cardinality(Buckets(CommandTypes)) <= Reserve
                /\ Cardinality(Buckets(RegularTypes)) <= RegularLimit
CaptureInv == CaptureTypeOK /\ Reconciled /\ NamesFull /\ WithinShares

\* The sets counted are finite.
LEMMA FiniteCapture ==
  /\ IsFiniteSet(Named) /\ Cardinality(Named) \in Nat
  /\ \A types \in {CommandTypes, RegularTypes} :
       IsFiniteSet(Buckets(types)) /\ Cardinality(Buckets(types)) \in Nat
<1>1. IsFiniteSet(Types) BY CaptureAssumption, FS_Union DEF Types
<1>2. IsFiniteSet(Named) BY <1>1, FS_Subset DEF Named
<1>3. IsFiniteSet(Buckets(CommandTypes)) BY CaptureAssumption, FS_Subset DEF Buckets
<1>4. IsFiniteSet(Buckets(RegularTypes)) BY CaptureAssumption, FS_Subset DEF Buckets
<1> QED BY <1>2, <1>3, <1>4, FS_CardinalityType

\* What a drop does to the counters of the dropped.
LEMMA DroppingCounts ==
  ASSUME CaptureTypeOK, NamesFull, NEW k \in Types, NEW n \in Nat \ {0}, Dropping(k, n)
  PROVE  /\ dropped' \in [Types -> Nat] /\ untracked' \in Nat /\ NamesFull'
         /\ \A j \in Types : untracked' = 0 \/ dropped'[j] > 0 =>
              /\ untracked = 0 \/ dropped[j] > 0
              /\ dropped'[j] = dropped[j] + (IF j = k THEN n ELSE 0)
<1> USE CaptureAssumption DEF CaptureTypeOK
<1>1. CASE /\ dropped[k] > 0 \/ Cardinality(Named) < NamedLimit
           /\ dropped' = [dropped EXCEPT ![k] = @ + n] /\ UNCHANGED untracked
  <2>1. dropped' \in [Types -> Nat] /\ untracked' \in Nat BY <1>1
  <2>2. Named \subseteq Named' BY <1>1 DEF Named
  <2>3. IsFiniteSet(Named') BY FS_Union, FS_Subset DEF Types, Named
  <2>4. Cardinality(Named) <= Cardinality(Named') BY <2>2, <2>3, FS_Subset
  <2>5. Cardinality(Named) \in Nat /\ Cardinality(Named') \in Nat
    BY <2>3, FiniteCapture, FS_CardinalityType
  <2>6. NamesFull' BY <1>1, <2>4, <2>5 DEF NamesFull
  <2>7. dropped[k] > 0 \/ untracked = 0 BY <1>1, <2>5 DEF NamesFull
  <2> QED BY <1>1, <2>1, <2>6, <2>7
<1>2. CASE /\ ~(dropped[k] > 0 \/ Cardinality(Named) < NamedLimit)
           /\ untracked' = untracked + 1 /\ UNCHANGED dropped
  <2>1. Named' = Named BY <1>2 DEF Named
  <2>2. NamesFull' BY <1>2, <2>1, FiniteCapture DEF NamesFull
  <2> QED BY <1>2, <2>2
<1> QED BY <1>1, <1>2 DEF Dropping

\* The buckets after a step, by what became of them.
LEMMA SharesKept ==
  ASSUME CaptureTypeOK, NEW types \in {CommandTypes, RegularTypes}, NEW limit \in Nat,
         Cardinality(Buckets(types)) <= limit,
         \/ Buckets(types)' = Buckets(types)
         \/ /\ Cardinality(Buckets(types)) < limit
            /\ \E k : Buckets(types)' = Buckets(types) \cup {k}
         \/ \E victim \in Buckets(types) : \E k :
              /\ k \notin Buckets(types)
              /\ Buckets(types)' = (Buckets(types) \ {victim}) \cup {k}
  PROVE  Cardinality(Buckets(types))' <= limit
<1> DEFINE B == Buckets(types)
<1>1. IsFiniteSet(B) /\ Cardinality(B) \in Nat BY FiniteCapture
<1>2. CASE B' = B BY <1>2
<1>3. CASE Cardinality(B) < limit /\ \E k : B' = B \cup {k}
  <2> PICK k : B' = B \cup {k} BY <1>3
  <2> QED BY <1>1, <1>3, FS_AddElement
<1>4. CASE \E victim \in B : \E k : k \notin B /\ B' = (B \ {victim}) \cup {k}
  <2> PICK victim \in B : \E k : k \notin B /\ B' = (B \ {victim}) \cup {k} BY <1>4
  <2> PICK k : k \notin B /\ B' = (B \ {victim}) \cup {k} OBVIOUS
  <2>1. IsFiniteSet(B \ {victim}) /\ Cardinality(B \ {victim}) = Cardinality(B) - 1
    BY <1>1, FS_RemoveElement
  <2>2. Cardinality(B') = Cardinality(B \ {victim}) + 1 BY <2>1, FS_AddElement
  <2> QED BY <1>1, <2>1, <2>2
<1> QED BY <1>2, <1>3, <1>4

\* What CommandsKept says of a step, but for the shares.
KeepsCommands ==
  \A j \in CommandTypes : count[j] > 0 /\ count'[j] = 0 =>
    \E k \in CommandTypes : count[k] = 0 /\ count'[k] > 0 /\ typeSeen'[k] < SeenOf(j)

\* The counters of the buckets and of the dropped stay reconciled when a frame goes
\* into its bucket, opens one, replaces another or is dropped itself.
LEMMA ReconciledKept ==
  ASSUME CaptureTypeOK, Reconciled, NamesFull, NEW k \in Types,
         total' = [total EXCEPT ![k] = @ + 1],
         \/ Stay(k) \/ (count[k] = 0 /\ Open(k)) \/ (count[k] = 0 /\ Refuse(k))
         \/ \E victim \in Types : count[k] = 0 /\ count[victim] > 0 /\ Replace(victim, k)
  PROVE  /\ count' \in [Types -> Nat] /\ dropped' \in [Types -> Nat] /\ untracked' \in Nat
         /\ admitted' = admitted \/ admitted' = [admitted EXCEPT ![k] = frames + 1]
         /\ Reconciled' /\ NamesFull'
<1> USE DEF CaptureTypeOK
<1>1. CASE Stay(k)
  BY <1>1 DEF Stay, Reconciled, NamesFull, Named
<1>2. CASE count[k] = 0 /\ Open(k)
  BY <1>2 DEF Open, Reconciled, NamesFull, Named
<1>3. CASE count[k] = 0 /\ Refuse(k)
  <2>1. Dropping(k, 1) /\ UNCHANGED <<count, admitted>> BY <1>3 DEF Refuse
  <2> QED BY <1>3, <2>1, DroppingCounts DEF Reconciled
<1>4. ASSUME NEW victim \in Types, count[k] = 0, count[victim] > 0, Replace(victim, k)
      PROVE  /\ count' \in [Types -> Nat] /\ dropped' \in [Types -> Nat] /\ untracked' \in Nat
             /\ admitted' = [admitted EXCEPT ![k] = frames + 1]
             /\ Reconciled' /\ NamesFull'
  <2>1. /\ count' = [count EXCEPT ![victim] = 0, ![k] = 1]
        /\ admitted' = [admitted EXCEPT ![k] = frames + 1]
        /\ Dropping(victim, count[victim])
    BY <1>4 DEF Replace
  <2>2. count[victim] \in Nat \ {0} /\ victim # k BY <1>4
  <2>3. /\ dropped' \in [Types -> Nat] /\ untracked' \in Nat /\ NamesFull'
        /\ \A j \in Types : untracked' = 0 \/ dropped'[j] > 0 =>
             /\ untracked = 0 \/ dropped[j] > 0
             /\ dropped'[j] = dropped[j] + (IF j = victim THEN count[victim] ELSE 0)
    BY <2>1, <2>2, DroppingCounts
  <2>4. count' \in [Types -> Nat] BY <2>1
  <2>5. ASSUME NEW j \in Types, untracked' = 0 \/ dropped'[j] > 0
        PROVE  total'[j] = count'[j] + dropped'[j]
    <3>1. total[j] = count[j] + dropped[j] /\ dropped[j] \in Nat /\ count[j] \in Nat
      BY <2>3, <2>5 DEF Reconciled
    <3>2. dropped'[j] = dropped[j] + (IF j = victim THEN count[victim] ELSE 0)
      BY <2>3, <2>5
    <3>3. count'[j] = IF j = k THEN 1 ELSE IF j = victim THEN 0 ELSE count[j]
      BY <2>1, <2>2
    <3>4. total'[j] = total[j] + (IF j = k THEN 1 ELSE 0)
      OBVIOUS
    <3> QED BY <1>4, <2>2, <3>1, <3>2, <3>3, <3>4
  <2> QED BY <2>1, <2>3, <2>4, <2>5 DEF Reconciled
<1> QED BY <1>1, <1>2, <1>3, <1>4

\* The buckets of a kind after a frame of type k.
LEMMA BucketsAfter ==
  ASSUME CaptureTypeOK, NEW types \in SUBSET Types, NEW k \in Types
  PROVE  /\ Stay(k) \/ Refuse(k) => Buckets(types)' = Buckets(types)
         /\ Open(k) /\ k \in types => Buckets(types)' = Buckets(types) \cup {k}
         /\ Open(k) /\ k \notin types => Buckets(types)' = Buckets(types)
         /\ \A victim \in types : Replace(victim, k) /\ count[k] = 0 /\ count[victim] > 0 /\ k \in types =>
              /\ victim \in Buckets(types) /\ k \notin Buckets(types)
              /\ Buckets(types)' = (Buckets(types) \ {victim}) \cup {k}
         /\ \A victim \in Types \ types : Replace(victim, k) /\ k \notin types =>
              Buckets(types)' = Buckets(types)
BY DEF CaptureTypeOK, Stay, Refuse, Open, Replace, Buckets

\* A frame of a command keeps the invariant, and a command bucket for a rarer one.
LEMMA CommandFrame ==
  ASSUME CaptureInv, NEW k \in CommandTypes, RecordCommand(k)
  PROVE  CaptureInv' /\ KeepsCommands
<1> USE CaptureAssumption
<1>1. k \in Types /\ CommandTypes \subseteq Types /\ RegularTypes \subseteq Types /\ k \notin RegularTypes
  BY DEF Types
<1>2. frames < MaxFrames /\ frames' = frames + 1 /\ total' = [total EXCEPT ![k] = @ + 1] /\ CountType(k)
  BY DEF RecordCommand, FrameSeen
<1>3. typeSeen' \in [CommandTypes -> Nat] /\ lastSeen' \in [CommandTypes -> Nat]
  BY <1>2 DEF CountType, CaptureInv, CaptureTypeOK
<1>4. \/ Stay(k)
      \/ count[k] = 0 /\ Cardinality(Buckets(CommandTypes)) < Reserve /\ Open(k)
      \/ count[k] = 0 /\ Refuse(k)
      \/ \E victim \in CommandTypes : /\ count[k] = 0 /\ count[victim] > 0 /\ Replace(victim, k)
                                     /\ typeSeen'[k] < SeenOf(victim)
  BY DEF RecordCommand, MostSeen, Buckets
<1>5. /\ count' \in [Types -> Nat] /\ dropped' \in [Types -> Nat] /\ untracked' \in Nat
      /\ admitted' = admitted \/ admitted' = [admitted EXCEPT ![k] = frames + 1]
      /\ Reconciled' /\ NamesFull'
  BY <1>1, <1>2, <1>4, ReconciledKept DEF CaptureInv
<1>6. CaptureTypeOK'
  <2>1. admitted' \in [Types -> Nat] /\ total' \in [Types -> Nat] /\ frames' \in 0..MaxFrames
    BY <1>1, <1>2, <1>5 DEF CaptureInv, CaptureTypeOK
  <2> QED BY <1>3, <1>5, <2>1 DEF CaptureTypeOK
<1>7. Cardinality(Buckets(CommandTypes))' <= Reserve
  <2>1. \/ Buckets(CommandTypes)' = Buckets(CommandTypes)
        \/ /\ Cardinality(Buckets(CommandTypes)) < Reserve
           /\ \E j : Buckets(CommandTypes)' = Buckets(CommandTypes) \cup {j}
        \/ \E victim \in Buckets(CommandTypes) : \E j :
             /\ j \notin Buckets(CommandTypes)
             /\ Buckets(CommandTypes)' = (Buckets(CommandTypes) \ {victim}) \cup {j}
    <3> USE BucketsAfter DEF CaptureInv
    <3>1. CASE Stay(k) \/ Refuse(k)
      BY <1>1, <3>1
    <3>2. CASE count[k] = 0 /\ Cardinality(Buckets(CommandTypes)) < Reserve /\ Open(k)
      BY <1>1, <3>2
    <3>3. ASSUME NEW victim \in CommandTypes, count[k] = 0, count[victim] > 0, Replace(victim, k)
          PROVE  /\ victim \in Buckets(CommandTypes) /\ k \notin Buckets(CommandTypes)
                 /\ Buckets(CommandTypes)' = (Buckets(CommandTypes) \ {victim}) \cup {k}
      BY <1>1, <3>3
    <3> QED BY <1>4, <3>1, <3>2, <3>3
  <2> QED BY <2>1, SharesKept DEF CaptureInv, WithinShares
<1>8. Cardinality(Buckets(RegularTypes))' <= RegularLimit
  BY <1>1, <1>4, SharesKept, BucketsAfter DEF CaptureInv, WithinShares
<1>9. KeepsCommands
  BY <1>1, <1>4 DEF KeepsCommands, Stay, Open, Refuse, Replace, CaptureInv, CaptureTypeOK
<1> QED BY <1>5, <1>6, <1>7, <1>8, <1>9 DEF CaptureInv, WithinShares

\* A frame of telemetry keeps the invariant, and every command bucket.
LEMMA RegularFrame ==
  ASSUME CaptureInv, NEW k \in RegularTypes, RecordRegular(k)
  PROVE  CaptureInv' /\ KeepsCommands
<1> USE CaptureAssumption
<1>1. k \in Types /\ CommandTypes \subseteq Types /\ RegularTypes \subseteq Types /\ k \notin CommandTypes
  BY DEF Types
<1>2. /\ frames < MaxFrames /\ frames' = frames + 1 /\ total' = [total EXCEPT ![k] = @ + 1]
      /\ UNCHANGED <<typeSeen, lastSeen>>
  BY DEF RecordRegular, FrameSeen
<1>3. \/ Stay(k)
      \/ count[k] = 0 /\ Cardinality(Buckets(RegularTypes)) < RegularLimit /\ Open(k)
      \/ \E victim \in RegularTypes : count[k] = 0 /\ count[victim] > 0 /\ Replace(victim, k)
  BY DEF RecordRegular, OldestRegular, Buckets
<1>4. /\ count' \in [Types -> Nat] /\ dropped' \in [Types -> Nat] /\ untracked' \in Nat
      /\ admitted' = admitted \/ admitted' = [admitted EXCEPT ![k] = frames + 1]
      /\ Reconciled' /\ NamesFull'
  BY <1>1, <1>2, <1>3, ReconciledKept DEF CaptureInv
<1>5. CaptureTypeOK'
  <2>1. admitted' \in [Types -> Nat] /\ total' \in [Types -> Nat] /\ frames' \in 0..MaxFrames
    BY <1>1, <1>2, <1>4 DEF CaptureInv, CaptureTypeOK
  <2> QED BY <1>2, <1>4, <2>1 DEF CaptureInv, CaptureTypeOK
<1>6. Cardinality(Buckets(RegularTypes))' <= RegularLimit
  BY <1>1, <1>3, SharesKept, BucketsAfter DEF CaptureInv, WithinShares
<1>7. \A victim \in RegularTypes : victim \in Types \ CommandTypes
  BY <1>1
<1>8. Cardinality(Buckets(CommandTypes))' <= Reserve
  BY <1>1, <1>3, <1>7, SharesKept, BucketsAfter DEF CaptureInv, WithinShares
<1>9. KeepsCommands
  BY <1>1, <1>3, <1>7 DEF KeepsCommands, Stay, Open, Replace, CaptureInv, CaptureTypeOK
<1> QED BY <1>4, <1>5, <1>6, <1>8, <1>9 DEF CaptureInv, WithinShares

\* The invariant holds at first and is kept by every step.
LEMMA CaptureStarts == CaptureInit => CaptureInv
<1> SUFFICES ASSUME CaptureInit PROVE CaptureInv OBVIOUS
<1> USE CaptureAssumption
<1>1. CaptureTypeOK BY DEF CaptureInit, CaptureTypeOK
<1>2. Buckets(CommandTypes) = {} /\ Buckets(RegularTypes) = {}
  BY DEF CaptureInit, Buckets, Types
<1>3. WithinShares BY <1>2, FS_EmptySet DEF WithinShares
<1> QED BY <1>1, <1>3 DEF CaptureInit, CaptureInv, Reconciled, NamesFull

\* A step keeps the invariant, and the frames of the commands.
LEMMA CaptureKeeps ==
  CaptureInv /\ [CaptureNext]_captureVars => CaptureInv' /\ (CaptureNext => KeepsCommands)
<1> SUFFICES ASSUME CaptureInv, [CaptureNext]_captureVars
             PROVE  CaptureInv' /\ (CaptureNext => KeepsCommands)
  OBVIOUS
<1>1. CASE CaptureNext BY <1>1, CommandFrame, RegularFrame DEF CaptureNext
<1>2. CASE UNCHANGED captureVars /\ ~CaptureNext
  BY <1>2 DEF captureVars, CaptureInv, CaptureTypeOK, Reconciled, NamesFull, WithinShares, Named, Buckets
<1> QED BY <1>1, <1>2

\* The variables of the capture keep their shape.
THEOREM CaptureTypes == CaptureSpec => []CaptureTypeOK
<1>1. CaptureInv => CaptureTypeOK BY DEF CaptureInv
<1> QED BY <1>1, CaptureStarts, CaptureKeeps, PTL DEF CaptureSpec

\* Whatever limits the capture has and whatever frames come, the counters of each
\* type that has a name account for every frame of it.
THEOREM ReconciledAlways == CaptureSpec => []Reconciled
<1>1. CaptureInv => Reconciled BY DEF CaptureInv
<1> QED BY <1>1, CaptureStarts, CaptureKeeps, PTL DEF CaptureSpec

\* No flood of telemetry costs a command its bucket: it goes only for a command
\* that was seen less often, and both kinds stay within their shares.
THEOREM CommandsKeptAlways == CaptureSpec => CommandsKept
<1>1. CaptureInv /\ CaptureInv' /\ [CaptureNext]_captureVars =>
        [/\ KeepsCommands
         /\ Cardinality(Buckets(CommandTypes))' <= Reserve
         /\ Cardinality(Buckets(RegularTypes))' <= RegularLimit]_captureVars
  BY CaptureKeeps DEF CaptureInv, WithinShares
<1> QED BY <1>1, CaptureStarts, CaptureKeeps, PTL DEF CaptureSpec, CommandsKept, KeepsCommands
=============================================================================
