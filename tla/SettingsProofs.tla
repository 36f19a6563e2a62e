--------------------------- MODULE SettingsProofs ---------------------------
(* Theorems about SettingsWrite, for any flags, calls and time limits.     *)
EXTENDS SettingsWrite, TLAPS, SequenceTheorems

-----------------------------------------------------------------------------
(* The evidence rules, for any observations                                *)

\* Of any fresh observations one source has the highest priority.
LEMMA SelectedIsFresh ==
  ASSUME NEW o, FreshSources(o) # {}
  PROVE  Selected(o) \in FreshSources(o)
<1>1. FreshSources(o) \subseteq {"heartbeat", "plain", "fast", "parent", "detail"}
  BY DEF FreshSources, Sources, DirectSources, ProviderSources
<1>2. /\ Priority("fast") = 50 /\ Priority("plain") = 40 /\ Priority("heartbeat") = 30
      /\ Priority("parent") = 20 /\ Priority("detail") = 10
  BY DEF Priority
<1>3. \E s \in FreshSources(o) : \A t \in FreshSources(o) : Priority(t) <= Priority(s)
  <2>1. CASE "fast" \in FreshSources(o) BY <1>1, <1>2, <2>1
  <2>2. CASE "fast" \notin FreshSources(o) /\ "plain" \in FreshSources(o) BY <1>1, <1>2, <2>2
  <2>3. CASE {"fast", "plain"} \cap FreshSources(o) = {} /\ "heartbeat" \in FreshSources(o)
    BY <1>1, <1>2, <2>3
  <2>4. CASE /\ {"fast", "plain", "heartbeat"} \cap FreshSources(o) = {}
             /\ "parent" \in FreshSources(o)
    BY <1>1, <1>2, <2>4
  <2>5. CASE {"fast", "plain", "heartbeat", "parent"} \cap FreshSources(o) = {}
    BY <1>1, <1>2, <2>5
  <2> QED BY <2>1, <2>2, <2>3, <2>4, <2>5
<1> QED BY <1>3 DEF Selected

\* A value that confirms a write comes from a fresh source that nothing as new
\* disagrees with.
LEMMA MatchIsCandidate ==
  ASSUME NEW o, NEW e, NEW w, MatchingSource(o, e, w) # "none"
  PROVE  \E s \in Sources : Candidate(o, s, e, w)
BY DEF MatchingSource, Sources

\* A confirmed value is never at odds with the value a read-modify-write would
\* start from: that is the confirmed one, or no value at all.
THEOREM ConfirmedAgrees ==
  ASSUME NEW o, NEW e, NEW w,
         \A s \in FreshSources(o) : o[s].age \in Nat,
         MatchingSource(o, e, w) # "none"
  PROVE  CurrentValue(o) \in {w, Unknown}
<1>1. PICK s \in Sources : Candidate(o, s, e, w) BY MatchIsCandidate
<1>2. s \in FreshSources(o) /\ o[s].value = w /\ ~Contradicted(o, s)
  BY <1>1 DEF Candidate
<1> DEFINE t == Selected(o)
<1>3. t \in FreshSources(o) BY <1>2, SelectedIsFresh
<1> HIDE DEF t
<1>4. CASE o[t].value = w BY <1>3, <1>4 DEF CurrentValue, t
<1>5. CASE o[t].value # w
  <2>1. ~(o[t].age <= o[s].age) BY <1>2, <1>3, <1>5 DEF Contradicted
  <2>2. o[s].age <= o[t].age BY <1>2, <1>3, <2>1
  <2>3. Contradicted(o, t) BY <1>2, <1>5, <2>2 DEF Contradicted
  <2> QED BY <2>3 DEF CurrentValue, t
<1> QED BY <1>4, <1>5

\* A provider snapshot that shows a whole SET leaves no doubt of any of its
\* values: each is what a read-modify-write would start from.
THEOREM MatchedIsCurrent ==
  ASSUME NEW evidence, NEW expected, BundleMatches(evidence, expected),
         NEW k \in DOMAIN expected
  PROVE  CurrentValue(evidence[k]) = expected[k]
<1> DEFINE o == evidence[k]
<1>1. \A s \in FreshSources(o) : o[s].value = expected[k] BY DEF BundleMatches
<1>2. FreshSources(o) # {} BY DEF BundleMatches
<1>3. Selected(o) \in FreshSources(o) BY <1>2, SelectedIsFresh
<1>4. ~Contradicted(o, Selected(o)) BY <1>1, <1>3 DEF Contradicted
<1> QED BY <1>1, <1>2, <1>3, <1>4 DEF CurrentValue

-----------------------------------------------------------------------------
(* Type correctness                                                        *)

TxType == [word : SUBSET Flags, sent : BOOLEAN, reply : {"none", "answered", "cancelled"},
           waited : 0..WaitCap, elapsed : 0..ElapsedCap,
           tries : 0..MaxRetries, shown : BOOLEAN, held : BOOLEAN]

UplinkType == [source : {"plain", "fast", Idle}, keys : SUBSET Keys, word : SUBSET Flags]

ObsTyped(o) ==
  /\ \A k \in Keys : o[k] \in [Sources -> Observation(Values(k)) \cup {NoObs}]
  /\ \A k \in Keys : \A s \in FreshSources(o[k]) : o[k][s].age <= FreshFor(s)

CallsTyped ==
  /\ pc \in [Calls -> {"idle", "queued", "publishing", "awaiting", "direct", "retrying"}]
  /\ req \in [Calls -> Requests \cup {NoReq}]
  /\ \A c \in Calls : pc[c] # "idle" => req[c] \in Requests

PollTyped ==
  poll \in [source : Providers \cup {Idle}, age : 0..ElapsedCap,
            answer : (SUBSET Flags) \cup {Unknown}]

\* The type invariant, in the parts the proofs use.
LEMMA TypeParts ==
  TypeOK <=> /\ CallsTyped /\ tx \in TxType /\ ObsTyped(obs) /\ PollTyped
             /\ lock \in Calls \cup {NoCall, OtherTx}
             /\ device \subseteq Flags /\ cloud \subseteq Flags
             /\ flight \in Seq(SUBSET Flags) /\ orphans \subseteq SUBSET Flags
             /\ uplink \in UplinkType
             /\ shutdown \in {"running", "closing", "drained"}
             /\ promised \in [Flags -> {"unknown", "on", "off"}]
BY DEF TypeOK, CallsTyped, ObsTyped, PollTyped, TxType, UplinkType

\* The next state is well typed if its parts are.
LEMMA FromParts ==
  ASSUME CallsTyped', tx' \in TxType, ObsTyped(obs'), PollTyped',
         lock' \in Calls \cup {NoCall, OtherTx},
         device' \subseteq Flags, cloud' \subseteq Flags,
         flight' \in Seq(SUBSET Flags), orphans' \subseteq SUBSET Flags,
         uplink' \in UplinkType,
         shutdown' \in {"running", "closing", "drained"},
         promised' \in [Flags -> {"unknown", "on", "off"}]
  PROVE  TypeOK'
BY DEF TypeOK, CallsTyped, ObsTyped, PollTyped, TxType, UplinkType

\* The cap on elapsed time lies above every freshness limit.
LEMMA CapAbove ==
  /\ ElapsedCap \in Nat \ {0}
  /\ \A s : FreshFor(s) \in Nat /\ FreshFor(s) < ElapsedCap
BY FreshAssumption DEF ElapsedCap, FreshFor

\* The cap on a wait is a number.
LEMMA WaitCapNat == WaitCap \in Nat
BY WriteAssumption DEF WaitCap

\* An idle transaction has its types.
LEMMA NoTxTyped == NoTx \in TxType
BY CapAbove, WaitCapNat, WriteAssumption DEF NoTx, TxType

\* So has the empty place of a report on its way.
LEMMA NoReportTyped == NoReport \in UplinkType
BY DEF NoReport, UplinkType

\* What the history notes of the charger keeps its types.
LEMMA HeldTyped ==
  ASSUME tx \in TxType, NEW d PROVE HeldAfter(d) \in TxType
BY DEF HeldAfter, TxType

\* The initial state is well typed.
LEMMA InitTyped == Init => TypeOK
<1> SUFFICES ASSUME Init PROVE TypeOK OBVIOUS
<1>1. ObsTyped(obs)
  BY DEF Init, ObsTyped, FreshSources
<1>2. PollTyped BY CapAbove DEF Init, PollTyped, NoPoll, Idle
<1>3. CallsTyped BY DEF Init, CallsTyped
<1>4. flight \in Seq(SUBSET Flags) BY DEF Init
<1> QED BY <1>1, <1>2, <1>3, <1>4, NoTxTyped, NoReportTyped, TypeParts DEF Init

\* The word under the lock is a set of flags once it is known, and so is the
\* word a write makes of it.
LEMMA WantedTyped ==
  ASSUME TypeOK, NEW c \in Calls, req[c] \in Requests, CurrentValue(obs[Word]) # Unknown
  PROVE  WantedWord(c) \subseteq Flags
<1>1. FreshSources(obs[Word]) # {} /\ CurrentValue(obs[Word]) = obs[Word][Selected(obs[Word])].value
  BY DEF CurrentValue
<1>2. Selected(obs[Word]) \in FreshSources(obs[Word]) BY <1>1, SelectedIsFresh
<1>3. Word \in Keys BY DEF Keys
<1>4. PICK s \in Sources : s = Selected(obs[Word]) /\ obs[Word][s] # NoObs
  BY <1>2 DEF FreshSources
<1>5. obs[Word][s] \in Observation(SUBSET Flags)
  BY <1>3, <1>4, TypeParts DEF ObsTyped, Values
<1>6. CurrentValue(obs[Word]) \subseteq Flags BY <1>1, <1>4, <1>5 DEF Observation
<1>7. req[c].flag \in Flags BY DEF Requests
<1> QED BY <1>6, <1>7 DEF WantedWord

\* A call's way out of its transaction keeps the types.
LEMMA EndTyped ==
  ASSUME TypeOK, NEW c \in Calls, End(c)
  PROVE  CallsTyped' /\ tx' \in TxType /\ lock' = NoCall
BY NoTxTyped, TypeParts DEF End, ReleaseLock, CallsTyped

\* A report keeps the observations typed.
LEMMA ReportTyped ==
  ASSUME TypeOK, NEW s \in Sources, NEW ks, NEW w \in SUBSET Flags, NEW age \in Nat,
         Report(s, ks, w, age)
  PROVE  ObsTyped(obs')
<1>1. SUFFICES ASSUME NEW k \in Keys
               PROVE  /\ obs'[k] \in [Sources -> Observation(Values(k)) \cup {NoObs}]
                      /\ \A t \in FreshSources(obs'[k]) : obs'[k][t].age <= FreshFor(t)
  BY DEF ObsTyped
<1>2. /\ obs[k] \in [Sources -> Observation(Values(k)) \cup {NoObs}]
      /\ \A t \in Sources : obs[k][t] # NoObs => obs[k][t].age <= FreshFor(t)
  BY TypeParts DEF ObsTyped, FreshSources
<1>3. CASE ~(k \in ks /\ age <= FreshFor(s))
  BY <1>2, <1>3 DEF Report, FreshSources
<1>4. CASE k \in ks /\ age <= FreshFor(s)
  <2> DEFINE new == [value |-> ValueIn(w, k), age |-> age]
  <2>1. obs'[k] = [obs[k] EXCEPT ![s] = Recorded(obs[k][s], new)]
    BY <1>4 DEF Report
  <2>2. ValueIn(w, k) \in Values(k)
    <3>1. CASE k = Word BY <3>1 DEF ValueIn, Values
    <3>2. CASE k # Word
      <4>1. (k \in w) = TRUE \/ (k \in w) = FALSE OBVIOUS
      <4> QED BY <3>2, <4>1 DEF ValueIn, Values
    <3> QED BY <3>1, <3>2
  <2>3. age \in 0..(IF DirectFresh > ProviderFresh THEN DirectFresh ELSE ProviderFresh)
    BY <1>4, FreshAssumption DEF FreshFor
  <2>4. new \in Observation(Values(k)) /\ new.age <= FreshFor(s)
    BY <1>4, <2>2, <2>3 DEF Observation
  <2> HIDE DEF new
  <2>5. PICK r : r = Recorded(obs[k][s], new) OBVIOUS
  <2>6. /\ r \in Observation(Values(k)) \cup {NoObs}
        /\ r # NoObs => r.age <= FreshFor(s)
    BY <1>2, <2>4, <2>5 DEF Recorded
  <2> QED BY <1>2, <2>1, <2>5, <2>6 DEF FreshSources
<1> QED BY <1>3, <1>4

\* A report of no source changes nothing.
LEMMA ReportNowhere ==
  ASSUME TypeOK, NEW s, s \notin Sources, NEW ks, NEW w, NEW age, Report(s, ks, w, age)
  PROVE  ObsTyped(obs')
<1>1. \A k \in Keys : obs'[k] = obs[k]
  BY TypeParts DEF Report, ObsTyped
<1> QED BY <1>1, TypeParts DEF ObsTyped

\* Ageing keeps the observations typed: one at its limit is dropped.
LEMMA AgedTyped ==
  ASSUME TypeOK, obs' = [k \in Keys |-> [s \in Sources |-> Aged(obs[k][s], s)]]
  PROVE  ObsTyped(obs')
<1>1. SUFFICES ASSUME NEW k \in Keys, NEW s \in Sources
               PROVE  /\ Aged(obs[k][s], s) \in Observation(Values(k)) \cup {NoObs}
                      /\ Aged(obs[k][s], s) # NoObs => Aged(obs[k][s], s).age <= FreshFor(s)
  BY DEF ObsTyped, FreshSources
<1>2. CASE obs[k][s] = NoObs BY <1>2 DEF Aged
<1>3. CASE obs[k][s] # NoObs
  <2>1. obs[k][s] \in Observation(Values(k)) /\ obs[k][s].age <= FreshFor(s)
    BY <1>3, TypeParts DEF ObsTyped, FreshSources
  <2>2. CASE obs[k][s].age >= FreshFor(s) BY <2>2 DEF Aged
  <2>3. CASE ~(obs[k][s].age >= FreshFor(s))
    <3>1. PICK n \in Nat : n = obs[k][s].age + 1 BY <2>1 DEF Observation
    <3>2. n <= FreshFor(s) BY <2>1, <2>3, <3>1, CapAbove DEF Observation
    <3>3. n \in 0..(IF DirectFresh > ProviderFresh THEN DirectFresh ELSE ProviderFresh)
      BY <3>2, FreshAssumption DEF FreshFor
    <3>4. Aged(obs[k][s], s) = [obs[k][s] EXCEPT !.age = n]
      BY <1>3, <2>1, <2>3, <3>1 DEF Aged, Observation
    <3> QED BY <2>1, <3>2, <3>3, <3>4 DEF Observation
  <2> QED BY <2>2, <2>3
<1> QED BY <1>2, <1>3

\* A saturating counter stays within its cap.
LEMMA CappedTyped ==
  ASSUME NEW cap \in Nat, NEW n \in 0..cap
  PROVE  Capped(n, cap) \in 0..cap
BY DEF Capped

\* Each step of a call keeps the types.
LEMMA WriteTyped == ASSUME TypeOK, NEW c \in Calls, Write(c) PROVE TypeOK'
<1> DEFINE Rest == UNCHANGED <<worldVars, viewVars, shutdown>>
<1>1. ASSUME NEW f \in Flags, NEW v \in BOOLEAN, Ask(c, f, v) PROVE TypeOK'
  <2>1. CallsTyped' BY <1>1, TypeParts DEF Ask, CallsTyped, Requests
  <2> QED BY <1>1, <2>1, TypeParts, FromParts DEF Ask, worldVars, viewVars, PollTyped
<1>2. ASSUME Leave(c), UNCHANGED <<promised, orphans>>, Rest PROVE TypeOK'
  <2>1. CallsTyped' BY <1>2, TypeParts DEF Leave, CallsTyped
  <2> QED BY <1>2, <2>1, TypeParts, FromParts DEF Leave, worldVars, viewVars, PollTyped
<1>3. CASE Begin(c)
  <2>1. req[c] \in Requests BY <1>3, TypeParts DEF Begin, CallsTyped
  <2>2. WantedWord(c) \subseteq Flags BY <1>3, <2>1, WantedTyped DEF Begin, Ready
  <2>3. PICK a \in BOOLEAN, b \in BOOLEAN : a = Holds(cloud, c) /\ b = (Holds(device, c) \/ ReportHolds(c))
    BY DEF Holds
  <2>4. PICK w \in SUBSET Flags : w = WantedWord(c) BY <2>2
  <2>5. tx' = [NoTx EXCEPT !.word = w, !.shown = a, !.held = b] BY <1>3, <2>3, <2>4 DEF Begin
  <2>6. tx' \in TxType BY <2>5, NoTxTyped DEF TxType
  <2>7. CallsTyped' BY <1>3, TypeParts DEF Begin, CallsTyped
  <2> QED BY <1>3, <2>6, <2>7, TypeParts, FromParts DEF Begin, worldVars, viewVars, PollTyped
<1>4. CASE ExecutorSends(c)
  <2>1. tx' \in TxType BY <1>4, TypeParts DEF ExecutorSends, TxType
  <2>2. flight' \in Seq(SUBSET Flags)
    BY <1>4, TypeParts, AppendProperties DEF ExecutorSends, TxType
  <2> QED BY <1>4, <2>1, <2>2, TypeParts, FromParts DEF ExecutorSends, viewVars, PollTyped, CallsTyped
<1>5. CASE PublishAccepted(c)
  <2>1. CallsTyped' BY <1>5, TypeParts DEF PublishAccepted, CallsTyped
  <2> QED BY <1>5, <2>1, TypeParts, FromParts DEF PublishAccepted, worldVars, viewVars, PollTyped
<1>6. ASSUME Replied(c) \/ DirectWaitEnds(c) PROVE TypeOK'
  <2>1. tx' \in TxType BY <1>6, TypeParts, WaitCapNat DEF Replied, DirectWaitEnds, TxType
  <2>2. CallsTyped' BY <1>6, TypeParts DEF Replied, DirectWaitEnds, CallsTyped
  <2> QED BY <1>6, <2>1, <2>2, TypeParts, FromParts
          DEF Replied, DirectWaitEnds, worldVars, viewVars, PollTyped
<1>7. CASE RetryAgain(c)
  <2>1. tx.tries \in 0..MaxRetries BY TypeParts DEF TxType
  <2>2. PICK n \in 0..MaxRetries : n = tx.tries + 1
    BY <1>7, <2>1, WriteAssumption DEF RetryAgain
  <2>3. tx' = [tx EXCEPT !.tries = n] BY <1>7, <2>2 DEF RetryAgain
  <2>4. tx' \in TxType BY <2>3, TypeParts DEF TxType
  <2> QED BY <1>7, <2>4, TypeParts, FromParts DEF RetryAgain, worldVars, viewVars, PollTyped, CallsTyped
<1>8. ASSUME End(c), orphans' \subseteq SUBSET Flags, Rest,
             promised' \in [Flags -> {"unknown", "on", "off"}]
      PROVE TypeOK'
  BY <1>8, EndTyped, TypeParts, FromParts DEF worldVars, viewVars, PollTyped
<1>9. ASSUME PublishFails(c) \/ ReplyTimesOut(c) \/ WaiterCancelled(c) \/ RetriesEnd(c)
      PROVE TypeOK'
  BY <1>8, <1>9, TypeParts DEF PublishFails, ReplyTimesOut, WaiterCancelled, RetriesEnd
<1>10. ASSUME Succeed(c) PROVE TypeOK'
  <2>1. promised' \in [Flags -> {"unknown", "on", "off"}]
    BY <1>10, TypeParts DEF Succeed
  <2> QED BY <1>8, <1>10, <2>1, TypeParts DEF Succeed
<1>11. CASE Cancel(c)
  <2>1. CASE pc[c] = "queued" /\ Leave(c) /\ UNCHANGED orphans
    BY <1>2, <1>11, <2>1 DEF Cancel
  <2>2. CASE InTx(c) /\ End(c) /\ orphans' \in {orphans, orphans \cup {tx.word}}
    <3>1. tx.word \subseteq Flags BY TypeParts DEF TxType
    <3> QED BY <1>8, <1>11, <2>2, <3>1, TypeParts DEF Cancel
  <2> QED BY <1>11, <2>1, <2>2 DEF Cancel
<1> HIDE DEF Rest
<1> QED
  BY <1>1, <1>2, <1>3, <1>4, <1>5, <1>6, <1>7, <1>9, <1>10, <1>11
  DEF Write, Refuse, Noop, DirectConfirms, RetryConfirms, Rest

\* Each step of what runs beside the calls keeps the types.
LEMMA EnvironmentTyped == ASSUME TypeOK, Environment PROVE TypeOK'
<1>1. CASE SetReply
  <2>1. tx' \in TxType BY <1>1, TypeParts DEF SetReply, TxType
  <2> QED BY <1>1, <2>1, TypeParts, FromParts DEF SetReply, worldVars, viewVars, PollTyped, CallsTyped
<1>2. CASE DeviceTakes \/ CommandLost
  <2>1. /\ Head(flight) \in SUBSET Flags /\ Tail(flight) \in Seq(SUBSET Flags)
    BY <1>2, TypeParts, HeadTailProperties DEF DeviceTakes, CommandLost
  <2>2. tx' \in TxType BY <1>2, HeldTyped, TypeParts DEF DeviceTakes, CommandLost, callVars
  <2> QED BY <1>2, <2>1, <2>2, TypeParts, FromParts
          DEF DeviceTakes, CommandLost, callVars, viewVars, PollTyped, CallsTyped
<1>3. ASSUME NEW f \in Flags, AppSets(f) PROVE TypeOK'
  <2>1. tx' \in TxType BY <1>3, HeldTyped, TypeParts DEF AppSets
  <2> QED BY <1>3, <2>1, TypeParts, FromParts DEF AppSets, viewVars, PollTyped, CallsTyped
<1>4. CASE CloudSyncs
  <2>1. tx' \in TxType BY <1>4, TypeParts DEF CloudSyncs, TxType
  <2> QED BY <1>4, <2>1, TypeParts, FromParts DEF CloudSyncs, viewVars, PollTyped, CallsTyped
<1>5. ASSUME FastReport \/ \E ks \in PlainReports : PlainReport(ks) PROVE TypeOK'
  <2>1. PICK s \in {"plain", "fast"}, ks \in SUBSET Keys : DirectReport(s, ks)
    BY <1>5, WriteAssumption DEF FastReport, PlainReport, Keys
  <2>2. s \in Sources BY DEF Sources, DirectSources
  <2>3. ObsTyped(obs') BY <2>1, <2>2, ReportTyped, TypeParts DEF DirectReport
  <2>4. uplink' \in UplinkType BY <2>1, TypeParts DEF DirectReport, UplinkType
  <2> QED BY <2>1, <2>3, <2>4, TypeParts, FromParts
          DEF DirectReport, callVars, PollTyped, CallsTyped
<1>16. CASE ReportArrives
  <2>1. uplink.word \in SUBSET Flags BY TypeParts DEF UplinkType
  <2>2. ObsTyped(obs')
    <3>1. CASE uplink.source \in Sources
      BY <1>16, <2>1, <3>1, ReportTyped DEF ReportArrives
    <3>2. CASE uplink.source \notin Sources
      BY <1>16, <3>2, ReportNowhere DEF ReportArrives
    <3> QED BY <3>1, <3>2
  <2> QED BY <1>16, <2>2, NoReportTyped, TypeParts, FromParts
          DEF ReportArrives, callVars, PollTyped, CallsTyped
<1>6. ASSUME NEW s \in Providers, PollStart(s) PROVE TypeOK'
  <2>1. PollTyped' BY <1>6, CapAbove DEF PollStart, PollTyped, NoPoll
  <2> QED BY <1>6, <2>1, TypeParts, FromParts DEF PollStart, callVars, worldVars, CallsTyped
<1>7. CASE CloudAnswers
  <2>1. PollTyped' BY <1>7, TypeParts DEF CloudAnswers, PollTyped
  <2> QED BY <1>7, <2>1, TypeParts, FromParts DEF CloudAnswers, callVars, worldVars, CallsTyped
<1>8. ASSUME poll' = NoPoll, UNCHANGED <<callVars, worldVars, shutdown>>, ObsTyped(obs')
      PROVE TypeOK'
  <2>1. PollTyped' BY <1>8, CapAbove DEF PollTyped, NoPoll
  <2> QED BY <1>8, <2>1, TypeParts, FromParts DEF callVars, worldVars, CallsTyped
<1>9. CASE PollRead
  <2>1. poll.answer \in SUBSET Flags /\ poll.age \in Nat
    BY <1>9, CapAbove, TypeParts DEF PollRead, PollTyped
  <2>2. poll.source \in Sources \/ poll.source \notin Sources OBVIOUS
  <2>3. ASSUME poll.source \notin Sources PROVE ObsTyped(obs')
    BY <1>9, <2>3, ReportNowhere DEF PollRead
  <2>4. ASSUME poll.source \in Sources PROVE ObsTyped(obs')
    BY <1>9, <2>1, <2>4, ReportTyped DEF PollRead, ReadStamp
  <2> QED BY <1>8, <1>9, <2>2, <2>3, <2>4 DEF PollRead
<1>10. CASE PollFails
  BY <1>8, <1>10, TypeParts DEF PollFails
<1>11. CASE OtherAcquires \/ OtherReleases
  BY <1>11, TypeParts, FromParts DEF OtherAcquires, OtherReleases, worldVars, viewVars, PollTyped, CallsTyped
<1>12. CASE BeginShutdown
  BY <1>12, TypeParts, FromParts DEF BeginShutdown, callVars, worldVars, viewVars, PollTyped, CallsTyped
<1>13. CASE CancelWaiters
  <2>1. tx' \in TxType BY <1>13, TypeParts DEF CancelWaiters, TxType
  <2> QED BY <1>13, <2>1, TypeParts, FromParts DEF CancelWaiters, worldVars, viewVars, PollTyped, CallsTyped
<1>14. ASSUME NEW w \in orphans, OrphanSends(w) PROVE TypeOK'
  <2>1. flight' \in Seq(SUBSET Flags) BY <1>14, TypeParts, AppendProperties DEF OrphanSends
  <2> QED BY <1>14, <2>1, TypeParts, FromParts DEF OrphanSends, viewVars, PollTyped, CallsTyped
<1>15. CASE Tick
  <2>1. PollTyped'
    <3>1. CASE poll = NoPoll BY <1>15, <3>1, CapAbove DEF Tick, PollTyped, NoPoll
    <3>2. CASE poll # NoPoll
      <4>1. Capped(poll.age, ElapsedCap) \in 0..ElapsedCap
        BY CappedTyped, CapAbove, TypeParts DEF PollTyped
      <4> QED BY <1>15, <3>2, <4>1, TypeParts DEF Tick, PollTyped
    <3> QED BY <3>1, <3>2
  <2>2. tx' \in TxType
    <3>1. tx \in TxType BY TypeParts
    <3>2. Capped(tx.elapsed, ElapsedCap) \in 0..ElapsedCap
      BY <3>1, CappedTyped, CapAbove DEF TxType
    <3>3. Capped(tx.waited, WaitCap) \in 0..WaitCap
      BY <3>1, CappedTyped, WaitCapNat DEF TxType
    <3>4. PICK e, n : /\ e = Capped(tx.elapsed, ElapsedCap)
                      /\ n = IF \E c \in Calls : pc[c] \in {"awaiting", "direct"}
                             THEN Capped(tx.waited, WaitCap) ELSE tx.waited
      OBVIOUS
    <3>5. tx' = [tx EXCEPT !.elapsed = e, !.waited = n] \/ tx' = tx
      BY <1>15, <3>1, <3>4 DEF Tick, TxType
    <3>6. e \in 0..ElapsedCap /\ n \in 0..WaitCap
      BY <3>1, <3>2, <3>3, <3>4 DEF TxType
    <3> QED BY <3>1, <3>5, <3>6 DEF TxType
  <2>3. ObsTyped(obs') BY <1>15, AgedTyped DEF Tick
  <2> QED BY <1>15, <2>1, <2>2, <2>3, TypeParts, FromParts DEF Tick, worldVars, CallsTyped
<1> QED
  BY <1>1, <1>2, <1>3, <1>4, <1>5, <1>6, <1>7, <1>9, <1>10, <1>11, <1>12, <1>13, <1>14, <1>15, <1>16
  DEF Environment

\* Every reachable state of the settings model is well typed: no observation
\* outlives its source's freshness, and a published word is a set of flags.
THEOREM TypeCorrect == Spec => []TypeOK
<1>1. ASSUME TypeOK, [Next]_vars PROVE TypeOK'
  <2>1. CASE UNCHANGED vars
    BY <1>1, <2>1, TypeParts, FromParts DEF vars, callVars, worldVars, viewVars, CallsTyped, PollTyped
  <2> QED BY <1>1, <2>1, WriteTyped, EnvironmentTyped DEF Next
<1> QED BY <1>1, InitTyped, PTL DEF Spec

-----------------------------------------------------------------------------
(* The transaction                                                         *)

\* A step that moves no call in or out of a transaction and keeps the lock.
LEMMA SameHolder ==
  ASSUME TxExact, lock' = lock, \A d \in Calls : InTx(d)' <=> InTx(d),
         tx' = tx \/ \E d \in Calls : InTx(d)
  PROVE  TxExact'
BY DEF TxExact

\* Every way out of a transaction leaves the lock free and nothing behind.
LEMMA EndExact ==
  ASSUME TypeOK, TxExact, NEW c \in Calls, InTx(c), End(c)
  PROVE  TxExact'
<1>1. lock = c BY DEF TxExact
<1>2. \A d \in Calls : d # c => ~InTx(d) BY <1>1 DEF TxExact
<1>3. \A d \in Calls : ~InTx(d)'
  BY <1>2, TypeParts DEF End, CallsTyped, InTx
<1> QED BY <1>3, WriteAssumption DEF TxExact, End, ReleaseLock

\* Every step keeps the lock and the transaction in agreement.
LEMMA StepExact == TypeOK /\ TxExact /\ [Next]_vars => TxExact'
<1> SUFFICES ASSUME TypeOK, TxExact, [Next]_vars PROVE TxExact' OBVIOUS
<1>1. ASSUME NEW c \in Calls, NEW f \in Flags, NEW v \in BOOLEAN, Ask(c, f, v) PROVE TxExact'
  <2>1. \A d \in Calls : InTx(d)' <=> InTx(d)
    BY <1>1, TypeParts DEF Ask, InTx, CallsTyped
  <2> QED BY <1>1, <2>1, SameHolder DEF Ask
<1>2. ASSUME NEW c \in Calls, pc[c] = "queued", Leave(c) PROVE TxExact'
  <2>1. \A d \in Calls : InTx(d)' <=> InTx(d)
    BY <1>2, TypeParts DEF Leave, InTx, CallsTyped
  <2> QED BY <1>2, <2>1, SameHolder DEF Leave
<1>3. ASSUME NEW c \in Calls, Begin(c) PROVE TxExact'
  <2>1. \A d \in Calls : ~InTx(d) BY <1>3, WriteAssumption DEF Begin, LockFree, TxExact
  <2>2. \A d \in Calls : InTx(d)' <=> d = c
    BY <1>3, <2>1, TypeParts DEF Begin, InTx, CallsTyped
  <2> QED BY <1>3, <2>2 DEF Begin, TxExact
<1>4. ASSUME NEW c \in Calls, pc[c] \in {"publishing", "awaiting", "direct", "retrying"},
             End(c)
      PROVE TxExact'
  BY <1>4, EndExact DEF InTx
<1>5. ASSUME NEW c \in Calls,
             ExecutorSends(c) \/ PublishAccepted(c) \/ Replied(c) \/ DirectWaitEnds(c) \/ RetryAgain(c)
      PROVE TxExact'
  <2>1. \A d \in Calls : InTx(d)' <=> InTx(d)
    BY <1>5, TypeParts
    DEF ExecutorSends, PublishAccepted, Replied, DirectWaitEnds, RetryAgain, InTx, CallsTyped
  <2>2. InTx(c)
    BY <1>5 DEF ExecutorSends, PublishAccepted, Replied, DirectWaitEnds, RetryAgain, InTx
  <2> QED BY <1>5, <2>1, <2>2, SameHolder
          DEF ExecutorSends, PublishAccepted, Replied, DirectWaitEnds, RetryAgain
<1>6. ASSUME NEW c \in Calls, Write(c) PROVE TxExact'
  BY <1>1, <1>2, <1>3, <1>4, <1>5, <1>6
  DEF Write, Refuse, Noop, PublishFails, ReplyTimesOut, WaiterCancelled, DirectConfirms,
      RetryConfirms, Succeed, RetriesEnd, Cancel, InTx
<1>7. ASSUME \/ SetReply \/ CancelWaiters \/ CloudSyncs \/ Tick \/ DeviceTakes
             \/ \E f \in Flags : AppSets(f)
      PROVE  TxExact'
  <2>1. pc' = pc /\ lock' = lock
    BY <1>7 DEF SetReply, CancelWaiters, CloudSyncs, Tick, DeviceTakes, AppSets
  <2>2. \A d \in Calls : InTx(d)' <=> InTx(d) BY <2>1 DEF InTx
  <2>3. tx' = tx \/ \E d \in Calls : InTx(d)
    <3>1. CASE SetReply BY <3>1 DEF SetReply, InTx
    <3>2. CASE CancelWaiters BY <3>2 DEF CancelWaiters, InTx
    <3>3. CASE CloudSyncs BY <3>3 DEF CloudSyncs, TxExact
    <3>4. CASE Tick BY <3>4 DEF Tick, InTx
    <3>5. CASE DeviceTakes \/ \E f \in Flags : AppSets(f)
      BY <3>5 DEF DeviceTakes, AppSets, HeldAfter, TxExact
    <3> QED BY <1>7, <3>1, <3>2, <3>3, <3>4, <3>5
  <2> QED BY <2>1, <2>2, <2>3, SameHolder
<1>8. CASE OtherAcquires \/ OtherReleases
  <2>1. \A d \in Calls : ~InTx(d)
    BY <1>8, WriteAssumption DEF OtherAcquires, OtherReleases, LockFree, TxExact
  <2> QED BY <1>8, <2>1, WriteAssumption DEF OtherAcquires, OtherReleases, TxExact, InTx
<1>9. ASSUME UNCHANGED <<pc, lock, tx>> PROVE TxExact'
  BY <1>9 DEF TxExact, InTx
<1>10. CASE Environment
  BY <1>7, <1>8, <1>9, <1>10
  DEF Environment, CommandLost, FastReport, PlainReport, DirectReport, ReportArrives,
      PollStart, CloudAnswers, PollRead, PollFails, BeginShutdown, OrphanSends, callVars
<1> QED BY <1>6, <1>9, <1>10 DEF Next, vars, callVars

\* One settings transaction at a time, and nothing of it left behind: the
\* lock names exactly the call between its hand-over and its verdict.
THEOREM TransactionCorrect == Spec => []TxExact
<1>1. Init => TxExact BY WriteAssumption DEF Init, TxExact, InTx
<1> QED BY <1>1, StepExact, TypeCorrect, PTL DEF Spec

-----------------------------------------------------------------------------
(* What a confirmation means                                               *)

\* A write is reported done only on a fresh observation from after the command
\* with which everything fresh and at least as new agrees.
THEOREM NewestDecides == Spec => DoneByNewest
<1>1. ASSUME NEW c \in Calls, NEW v \in {"direct", "provider"}, Confirmed(c, v)
      PROVE  \E s \in FreshSources(obs[req[c].flag]) :
               /\ obs[req[c].flag][s].age < tx.elapsed
               /\ \A t \in FreshSources(obs[req[c].flag]) :
                    obs[req[c].flag][t].age <= obs[req[c].flag][s].age =>
                      obs[req[c].flag][t].value = req[c].on
  <2>1. MatchingSource(obs[req[c].flag], tx.elapsed, req[c].on) # "none"
    BY <1>1 DEF Confirmed, Evidence
  <2>2. PICK s \in Sources : Candidate(obs[req[c].flag], s, tx.elapsed, req[c].on)
    BY <2>1, MatchIsCandidate
  <2> QED BY <2>2 DEF Candidate, Contradicted
<1>2. [Next]_vars => [\A c \in Calls : \A v \in {"direct", "provider"} : Confirmed(c, v) =>
        LET o == obs[req[c].flag] IN
          \E s \in FreshSources(o) :
            /\ o[s].age < tx.elapsed
            /\ \A t \in FreshSources(o) :
                 o[t].age <= o[s].age => o[t].value = req[c].on]_vars
  BY <1>1
<1> QED BY <1>2, PTL DEF Spec, DoneByNewest

\* The value the next read-modify-write starts from never contradicts what a
\* write was just confirmed to be, and a write that is skipped as done starts
\* from the word it asks for.
THEOREM ReportedIsKnown == Spec => ReportedIsCurrent
<1>1. ASSUME TypeOK, NEW c \in Calls, NEW v \in {"direct", "provider"}, Confirmed(c, v)
      PROVE  CurrentValue(obs[req[c].flag]) \in {req[c].on, Unknown}
  <2>1. MatchingSource(obs[req[c].flag], tx.elapsed, req[c].on) # "none"
    BY <1>1 DEF Confirmed, Evidence
  <2>2. req[c].flag \in Keys
    <3>1. pc[c] # "idle" BY <1>1 DEF Confirmed, DirectConfirms, RetryConfirms
    <3>2. req[c] \in Requests BY <1>1, <3>1, TypeParts DEF CallsTyped
    <3> QED BY <3>2 DEF Requests, Keys
  <2>3. \A s \in FreshSources(obs[req[c].flag]) : obs[req[c].flag][s].age \in Nat
    BY <1>1, <2>2, TypeParts, FreshAssumption DEF ObsTyped, FreshSources, Observation
  <2> QED BY <2>1, <2>3, ConfirmedAgrees
<1>2. ASSUME TypeOK, NEW c \in Calls, Noop(c)
      PROVE  /\ CurrentValue(obs[req[c].flag]) = req[c].on
             /\ CurrentValue(obs[Word]) = WantedWord(c)
  <2> DEFINE expected == [k \in {Word, req[c].flag} |->
                            IF k = Word THEN WantedWord(c) ELSE req[c].on]
  <2>1. BundleMatches(obs, expected) BY <1>2 DEF Noop, NothingToDo
  <2>2. \A k \in {Word, req[c].flag} : CurrentValue(obs[k]) = expected[k]
    <3>1. DOMAIN expected = {Word, req[c].flag} OBVIOUS
    <3> HIDE DEF expected
    <3> QED BY <2>1, <3>1, MatchedIsCurrent
  <2>3. req[c].flag # Word
    BY <1>2, TypeParts, WriteAssumption DEF Noop, CallsTyped, Requests
  <2> QED BY <2>2, <2>3
<1>3. TypeOK /\ [Next]_vars =>
        [\A c \in Calls :
           /\ \A v \in {"direct", "provider"} : Confirmed(c, v) =>
                CurrentValue(obs[req[c].flag]) \in {req[c].on, Unknown}
           /\ Noop(c) => /\ CurrentValue(obs[req[c].flag]) = req[c].on
                         /\ CurrentValue(obs[Word]) = WantedWord(c)]_vars
  BY <1>1, <1>2
<1> QED BY <1>3, TypeCorrect, PTL DEF Spec, ReportedIsCurrent

\* What one source said of a call's flag would confirm it.
Confirms(c, s) ==
  LET o == obs[req[c].flag][s] IN o # NoObs /\ o.age < tx.elapsed /\ o.value = req[c].on

\* What would confirm a call was said by the cloud after the command.
ShownFor(c) ==
  /\ Holds(cloud, c) => tx.shown
  /\ poll.answer # Unknown /\ poll.age < tx.elapsed /\ Holds(poll.answer, c) => tx.shown
  /\ \A s \in ProviderSources : Confirms(c, s) => tx.shown

\* What would confirm a call was held by the charger after the command, or is
\* in a report that was on its way then.
HeldFor(c) ==
  /\ Holds(device, c) => tx.held
  /\ ReportHolds(c) => tx.held
  /\ \A s \in DirectSources : Confirms(c, s) => tx.held

HistoryExact == \A c \in Calls : InTx(c) => ShownFor(c) /\ HeldFor(c)

\* A step that changes nothing of what was said or held keeps the invariant.
LEMMA SameHistory ==
  ASSUME HistoryExact, UNCHANGED <<req, device, cloud, uplink, obs, poll>>,
         tx'.shown = tx.shown, tx'.held = tx.held, tx'.elapsed = tx.elapsed,
         \A d \in Calls : InTx(d)' => InTx(d)
  PROVE  HistoryExact'
BY DEF HistoryExact, ShownFor, HeldFor, Confirms, Holds, ReportHolds

\* So does one that leaves no call in a transaction.
LEMMA NoHistory == ASSUME \A d \in Calls : ~InTx(d)' PROVE HistoryExact'
BY DEF HistoryExact

\* The flag of a call in its transaction is a key of its own.
LEMMA FlagInTx ==
  ASSUME TypeOK, NEW c \in Calls, InTx(c)
  PROVE  req[c].flag \in Flags /\ req[c].flag \in Keys
BY TypeParts DEF InTx, CallsTyped, Requests, Keys

\* A report changes what its own source said, and to what it carries.
LEMMA ReportChanges ==
  ASSUME TypeOK, NEW s, NEW ks, NEW w, NEW age, Report(s, ks, w, age),
         NEW f \in Flags, NEW t \in Sources, obs'[f][t] # obs[f][t]
  PROVE  t = s /\ f \in ks /\ obs'[f][t] = [value |-> f \in w, age |-> age]
<1>1. f \in Keys /\ f # Word BY WriteAssumption DEF Keys
<1>2. obs[f] \in [Sources -> Observation(Values(f)) \cup {NoObs}]
  BY <1>1, TypeParts DEF ObsTyped
<1>3. /\ t = s /\ f \in ks
      /\ obs'[f][t] = Recorded(obs[f][t], [value |-> ValueIn(w, f), age |-> age])
  BY <1>1, <1>2 DEF Report
<1> QED BY <1>1, <1>3 DEF Recorded, ValueIn

\* It leaves what the other sources said.
LEMMA OthersKept ==
  ASSUME TypeOK, NEW s, NEW ks, NEW w, NEW age, Report(s, ks, w, age),
         NEW f \in Flags, NEW t \in Sources, t # s
  PROVE  obs'[f][t] = obs[f][t]
<1>1. f \in Keys /\ f # Word BY WriteAssumption DEF Keys
<1>2. obs[f] \in [Sources -> Observation(Values(f)) \cup {NoObs}]
  BY <1>1, TypeParts DEF ObsTyped
<1> QED BY <1>1, <1>2 DEF Report

\* What a read answers was in the cloud, so recording it keeps the invariant.
LEMMA ReadHistory == ASSUME TypeOK, HistoryExact, PollRead PROVE HistoryExact'
<1>1. SUFFICES ASSUME NEW c \in Calls, InTx(c)' PROVE ShownFor(c)' /\ HeldFor(c)'
  BY DEF HistoryExact
<1>2. /\ InTx(c) /\ UNCHANGED <<req, tx, device, cloud, uplink>> /\ poll' = NoPoll
      /\ Report(poll.source, Keys, poll.answer, poll.age) /\ poll.answer # Unknown
  BY <1>1 DEF PollRead, InTx, callVars, worldVars, ReadStamp
<1>3. ShownFor(c) /\ HeldFor(c) BY <1>2 DEF HistoryExact
<1> DEFINE f == req[c].flag
<1>4. f \in Flags BY <1>2, FlagInTx
<1>5. ASSUME NEW s \in ProviderSources, Confirms(c, s)' PROVE tx.shown
  <2>1. CASE obs'[f][s] = obs[f][s]
    BY <1>2, <1>3, <1>5, <2>1 DEF ShownFor, Confirms
  <2>2. CASE obs'[f][s] # obs[f][s]
    <3>1. s \in Sources BY DEF Sources
    <3>2. obs'[f][s] = [value |-> f \in poll.answer, age |-> poll.age]
      BY <1>2, <1>4, <2>2, <3>1, ReportChanges
    <3> QED BY <1>2, <1>3, <1>5, <3>2 DEF ShownFor, Confirms, Holds
  <2> QED BY <2>1, <2>2
<1>6. ASSUME NEW s \in DirectSources, Confirms(c, s)' PROVE tx.held
  <2>1. s \in Sources /\ s # poll.source
    BY TypeParts, WriteAssumption
    DEF PollTyped, Sources, DirectSources, ProviderSources, Idle
  <2>2. obs'[f][s] = obs[f][s] BY <1>2, <1>4, <2>1, OthersKept
  <2> QED BY <1>2, <1>3, <1>6, <2>2 DEF HeldFor, Confirms
<1> QED BY <1>2, <1>3, <1>5, <1>6 DEF ShownFor, HeldFor, Holds, ReportHolds, NoPoll

\* A Direct report that says only what the charger is known to have held keeps
\* the invariant.
LEMMA DirectHistory ==
  ASSUME TypeOK, HistoryExact, NEW s \in DirectSources \cup {Idle}, NEW ks, NEW w,
         Report(s, ks, w, 0), UNCHANGED <<pc, req, tx, device, cloud, poll>>,
         uplink' = uplink \/ uplink' = NoReport,
         \A c \in Calls : InTx(c) /\ req[c].flag \in ks /\ Holds(w, c) => tx.held
  PROVE  HistoryExact'
<1>1. SUFFICES ASSUME NEW c \in Calls, InTx(c)' PROVE ShownFor(c)' /\ HeldFor(c)'
  BY DEF HistoryExact
<1>2. InTx(c) BY <1>1 DEF InTx
<1>3. ShownFor(c) /\ HeldFor(c) BY <1>2 DEF HistoryExact
<1> DEFINE f == req[c].flag
<1>4. f \in Flags BY <1>2, FlagInTx
<1>5. ASSUME NEW p \in ProviderSources, Confirms(c, p)' PROVE tx.shown
  <2>1. p \in Sources /\ p # s BY DEF Sources, DirectSources, ProviderSources, Idle
  <2>2. obs'[f][p] = obs[f][p] BY <1>4, <2>1, OthersKept
  <2> QED BY <1>3, <1>5, <2>2 DEF ShownFor, Confirms
<1>6. ASSUME NEW p \in DirectSources, Confirms(c, p)' PROVE tx.held
  <2>1. CASE obs'[f][p] = obs[f][p] BY <1>3, <1>6, <2>1 DEF HeldFor, Confirms
  <2>2. CASE obs'[f][p] # obs[f][p]
    <3>1. p \in Sources BY DEF Sources
    <3>2. f \in ks /\ obs'[f][p] = [value |-> f \in w, age |-> 0]
      BY <1>4, <2>2, <3>1, ReportChanges
    <3>3. Holds(w, c) BY <1>6, <3>2 DEF Confirms, Holds
    <3> QED BY <1>2, <3>2, <3>3
  <2> QED BY <2>1, <2>2
<1>7. ReportHolds(c)' => tx.held BY <1>3 DEF HeldFor, ReportHolds, Holds, NoReport
<1> QED BY <1>3, <1>5, <1>6, <1>7 DEF ShownFor, HeldFor, Holds

\* A change of the charger is noted in the history.
LEMMA DeviceHistory ==
  ASSUME TypeOK, TxExact, HistoryExact, tx' = HeldAfter(device'),
         UNCHANGED <<pc, req, cloud, uplink, obs, poll>>
  PROVE  HistoryExact'
<1>1. SUFFICES ASSUME NEW c \in Calls, InTx(c)' PROVE ShownFor(c)' /\ HeldFor(c)'
  BY DEF HistoryExact
<1>2. InTx(c) /\ lock = c /\ ShownFor(c) /\ HeldFor(c)
  BY <1>1 DEF InTx, TxExact, HistoryExact
<1>3. /\ tx'.shown = tx.shown /\ tx'.elapsed = tx.elapsed /\ (tx.held => tx'.held)
      /\ Holds(device', c) => tx'.held
  BY <1>2, TypeParts DEF HeldAfter, TxType
<1> QED BY <1>2, <1>3 DEF ShownFor, HeldFor, Confirms, Holds, ReportHolds

\* A tick of the clock keeps the invariant: observations, the read and the
\* command age together.
LEMMA TickHistory == ASSUME TypeOK, HistoryExact, Tick PROVE HistoryExact'
<1>1. SUFFICES ASSUME NEW c \in Calls, InTx(c)' PROVE ShownFor(c)' /\ HeldFor(c)'
  BY DEF HistoryExact
<1>2. InTx(c) /\ UNCHANGED <<req, device, cloud, uplink>>
  BY <1>1 DEF Tick, InTx, worldVars
<1>3. ShownFor(c) /\ HeldFor(c) BY <1>2 DEF HistoryExact
<1>4. req[c].flag \in Keys BY <1>2, FlagInTx
<1>5. tx \in TxType /\ PollTyped BY TypeParts
<1>6. /\ tx'.shown = tx.shown /\ tx'.held = tx.held
      /\ tx'.elapsed = Capped(tx.elapsed, ElapsedCap)
  BY <1>2, <1>5 DEF Tick, TxType
<1>7. tx.elapsed \in 0..ElapsedCap /\ poll.age \in 0..ElapsedCap /\ ElapsedCap \in Nat
  BY <1>5, CapAbove DEF TxType, PollTyped
<1>8. /\ poll'.answer = poll.answer
      /\ poll = NoPoll \/ poll'.age = Capped(poll.age, ElapsedCap)
  BY <1>5 DEF Tick, PollTyped
<1>9. \A a \in 0..ElapsedCap : Capped(a, ElapsedCap) < tx'.elapsed => a < tx.elapsed
  BY <1>6, <1>7 DEF Capped
<1>10. ASSUME poll'.answer # Unknown, poll'.age < tx'.elapsed, Holds(poll.answer, c)
       PROVE  tx.shown
  <2>1. poll # NoPoll BY <1>8, <1>10 DEF NoPoll
  <2>2. poll.age < tx.elapsed BY <1>7, <1>8, <1>9, <1>10, <2>1
  <2> QED BY <1>3, <1>8, <1>10, <2>2 DEF ShownFor
<1>11. ASSUME NEW s \in Sources, Confirms(c, s)' PROVE Confirms(c, s)
  <2> DEFINE o == obs[req[c].flag][s]
  <2>1. o \in Observation(Values(req[c].flag)) \cup {NoObs}
    BY <1>4, TypeParts DEF ObsTyped
  <2>2. obs'[req[c].flag][s] = Aged(o, s) BY <1>4 DEF Tick
  <2>3. Aged(o, s) # NoObs /\ Aged(o, s).age < tx'.elapsed /\ Aged(o, s).value = req[c].on
    BY <1>2, <1>11, <2>2 DEF Confirms
  <2> HIDE DEF o
  <2>4. o # NoObs /\ Aged(o, s) = [o EXCEPT !.age = @ + 1] BY <2>3 DEF Aged
  <2>5. o.age \in Nat /\ Aged(o, s).age = o.age + 1 /\ Aged(o, s).value = o.value
    BY <2>1, <2>4, FreshAssumption DEF Observation
  <2>6. o.age < tx.elapsed BY <1>6, <1>7, <2>3, <2>5 DEF Capped
  <2> QED BY <2>3, <2>4, <2>5, <2>6 DEF Confirms, o
<1>12. DirectSources \subseteq Sources /\ ProviderSources \subseteq Sources BY DEF Sources
<1> QED BY <1>2, <1>3, <1>6, <1>8, <1>10, <1>11, <1>12
        DEF ShownFor, HeldFor, Holds, ReportHolds

\* Every step of a call keeps the invariant.
LEMMA WriteHistory ==
  ASSUME TypeOK, TxExact, HistoryExact, NEW c \in Calls, Write(c) PROVE HistoryExact'
<1>1. CASE Begin(c)
  <2>1. SUFFICES ASSUME NEW d \in Calls, InTx(d)' PROVE ShownFor(d)' /\ HeldFor(d)'
    BY DEF HistoryExact
  <2>2. d = c
    BY <1>1, <2>1, TypeParts, WriteAssumption DEF Begin, LockFree, TxExact, InTx, CallsTyped
  <2>3. /\ tx'.elapsed = 0 /\ tx'.shown = Holds(cloud, c)
        /\ tx'.held = (Holds(device, c) \/ ReportHolds(c))
    BY <1>1 DEF Begin, NoTx
  <2>4. UNCHANGED <<req, device, cloud, uplink, obs, poll>>
    BY <1>1 DEF Begin, worldVars, viewVars
  <2>5. ~(poll.age < 0) BY TypeParts DEF PollTyped
  <2>6. req[c].flag \in Keys BY <1>1, TypeParts DEF Begin, CallsTyped, Requests, Keys
  <2>7. ASSUME NEW s \in Sources PROVE ~Confirms(c, s)'
    BY <2>3, <2>4, <2>6, TypeParts, FreshAssumption DEF Confirms, ObsTyped, Observation
  <2>8. DirectSources \subseteq Sources /\ ProviderSources \subseteq Sources BY DEF Sources
  <2> QED BY <2>2, <2>3, <2>4, <2>5, <2>7, <2>8 DEF ShownFor, HeldFor, Holds, ReportHolds
<1>2. ASSUME End(c), InTx(c) PROVE HistoryExact'
  <2>1. \A d \in Calls : ~InTx(d)'
    BY <1>2, TypeParts DEF TxExact, End, CallsTyped, InTx
  <2> QED BY <2>1, NoHistory
<1>3. ASSUME \A d \in Calls : InTx(d)' => InTx(d) /\ req'[d] = req[d],
             UNCHANGED <<tx, worldVars, viewVars>>
      PROVE  HistoryExact'
  BY <1>3 DEF HistoryExact, ShownFor, HeldFor, Confirms, Holds, ReportHolds, worldVars, viewVars
<1>4. ASSUME NEW f \in Flags, NEW v \in BOOLEAN, Ask(c, f, v) PROVE HistoryExact'
  BY <1>3, <1>4, TypeParts DEF Ask, InTx, CallsTyped
<1>5. ASSUME pc[c] = "queued", Leave(c), UNCHANGED <<worldVars, viewVars>>
      PROVE  HistoryExact'
  BY <1>3, <1>5, TypeParts DEF Leave, InTx, CallsTyped
<1>6. CASE ExecutorSends(c) \/ PublishAccepted(c) \/ Replied(c) \/ DirectWaitEnds(c) \/ RetryAgain(c)
  <2>1. tx'.shown = tx.shown /\ tx'.held = tx.held /\ tx'.elapsed = tx.elapsed
    BY <1>6, TypeParts
    DEF ExecutorSends, PublishAccepted, Replied, DirectWaitEnds, RetryAgain, TxType
  <2>2. \A d \in Calls : InTx(d)' => InTx(d)
    BY <1>6, TypeParts
    DEF ExecutorSends, PublishAccepted, Replied, DirectWaitEnds, RetryAgain, InTx, CallsTyped
  <2>3. UNCHANGED <<req, device, cloud, uplink, obs, poll>>
    BY <1>6 DEF ExecutorSends, PublishAccepted, Replied, DirectWaitEnds, RetryAgain,
                worldVars, viewVars
  <2> QED BY <2>1, <2>2, <2>3, SameHistory
<1>7. CASE DirectConfirms(c) \/ RetryConfirms(c) \/ PublishFails(c) \/ ReplyTimesOut(c)
           \/ WaiterCancelled(c) \/ RetriesEnd(c)
  BY <1>2, <1>7 DEF DirectConfirms, RetryConfirms, Succeed, PublishFails, ReplyTimesOut,
                    WaiterCancelled, RetriesEnd, InTx
<1>8. CASE Noop(c) \/ \E online \in BOOLEAN : Refuse(c, online)
  BY <1>5, <1>8 DEF Noop, Refuse
<1>9. CASE Cancel(c) BY <1>2, <1>5, <1>9 DEF Cancel
<1> QED BY <1>1, <1>4, <1>6, <1>7, <1>8, <1>9 DEF Write

\* So does every step of what runs beside the calls.
LEMMA EnvironmentHistory ==
  ASSUME TypeOK, TxExact, HistoryExact, Environment PROVE HistoryExact'
<1>1. CASE SetReply \/ CancelWaiters
  <2>1. tx'.shown = tx.shown /\ tx'.held = tx.held /\ tx'.elapsed = tx.elapsed
    BY <1>1, TypeParts DEF SetReply, CancelWaiters, TxType
  <2> QED BY <1>1, <2>1, SameHistory DEF SetReply, CancelWaiters, worldVars, viewVars, InTx
<1>2. CASE CloudSyncs
  <2>1. SUFFICES ASSUME NEW c \in Calls, InTx(c)' PROVE ShownFor(c)' /\ HeldFor(c)'
    BY DEF HistoryExact
  <2>2. InTx(c) /\ lock = c /\ ShownFor(c) /\ HeldFor(c)
    BY <1>2, <2>1 DEF CloudSyncs, InTx, TxExact, HistoryExact
  <2>3. /\ UNCHANGED <<req, device, uplink, obs, poll>> /\ cloud' = device
        /\ tx'.elapsed = tx.elapsed /\ (tx.shown => tx'.shown) /\ tx'.held = tx.held
        /\ Holds(device, c) => tx'.shown
    BY <1>2, <2>2, TypeParts DEF CloudSyncs, viewVars, TxType
  <2> QED BY <2>2, <2>3 DEF ShownFor, HeldFor, Confirms, Holds, ReportHolds
<1>3. CASE DeviceTakes \/ \E f \in Flags : AppSets(f)
  BY <1>3, DeviceHistory DEF DeviceTakes, AppSets, viewVars
<1>4. ASSUME NEW s \in DirectSources, NEW ks, DirectReport(s, ks) PROVE HistoryExact'
  <2>1. CASE Report(s, ks, device, 0) /\ UNCHANGED uplink
    <3>1. \A c \in Calls : InTx(c) /\ req[c].flag \in ks /\ Holds(device, c) => tx.held
      BY DEF HistoryExact, HeldFor
    <3> QED BY <1>4, <2>1, <3>1, DirectHistory DEF DirectReport, callVars
  <2>2. CASE uplink' = [source |-> s, keys |-> ks, word |-> device] /\ UNCHANGED obs
    <3>1. UNCHANGED <<pc, req, tx, device, cloud, obs, poll>>
      BY <1>4, <2>2 DEF DirectReport, callVars
    <3> QED BY <2>2, <3>1
            DEF HistoryExact, ShownFor, HeldFor, Confirms, Holds, ReportHolds, InTx
  <2> QED BY <1>4, <2>1, <2>2 DEF DirectReport
<1>5. CASE FastReport \/ \E ks \in PlainReports : PlainReport(ks)
  BY <1>4, <1>5 DEF FastReport, PlainReport, DirectSources
<1>6. CASE ReportArrives
  <2>1. uplink.source \in DirectSources \cup {Idle}
    BY TypeParts DEF UplinkType, DirectSources
  <2>2. \A c \in Calls : InTx(c) /\ req[c].flag \in uplink.keys /\ Holds(uplink.word, c) => tx.held
    BY DEF HistoryExact, HeldFor, ReportHolds
  <2> QED BY <1>6, <2>1, <2>2, DirectHistory DEF ReportArrives, callVars
<1>7. ASSUME NEW s \in Providers, PollStart(s) PROVE HistoryExact'
  BY <1>7 DEF PollStart, HistoryExact, ShownFor, HeldFor, Confirms, Holds, ReportHolds, InTx,
              callVars, worldVars, NoPoll
<1>8. CASE CloudAnswers
  <2>1. poll'.answer = cloud /\ poll'.age = poll.age
    BY <1>8, TypeParts DEF CloudAnswers, PollTyped
  <2> QED BY <1>8, <2>1 DEF CloudAnswers, HistoryExact, ShownFor, HeldFor, Confirms, Holds,
                            ReportHolds, InTx, callVars, worldVars
<1>9. CASE PollFails
  BY <1>9 DEF PollFails, HistoryExact, ShownFor, HeldFor, Confirms, Holds, ReportHolds, InTx,
              callVars, worldVars, NoPoll
<1>10. ASSUME UNCHANGED <<pc, req, tx, device, cloud, uplink, obs, poll>> PROVE HistoryExact'
  BY <1>10, SameHistory DEF InTx
<1> QED
  BY <1>1, <1>2, <1>3, <1>5, <1>6, <1>7, <1>8, <1>9, <1>10, ReadHistory, TickHistory
  DEF Environment, CommandLost, OtherAcquires, OtherReleases, BeginShutdown, OrphanSends,
      callVars, worldVars, viewVars

\* What the history notes of a transaction is complete in every reachable state.
LEMMA HistoryCorrect == Spec => []HistoryExact
<1>1. Init => HistoryExact BY DEF Init, HistoryExact, InTx
<1>2. TypeOK /\ TxExact /\ HistoryExact /\ [Next]_vars => HistoryExact'
  <2> SUFFICES ASSUME TypeOK, TxExact, HistoryExact, [Next]_vars PROVE HistoryExact' OBVIOUS
  <2>1. CASE UNCHANGED vars
    BY <2>1, SameHistory DEF vars, callVars, worldVars, viewVars, InTx
  <2> QED BY <2>1, WriteHistory, EnvironmentHistory DEF Next
<1> QED BY <1>1, <1>2, TypeCorrect, TransactionCorrect, PTL DEF Spec

\* A confirming source is one that said the wanted value after the command.
LEMMA CandidateConfirms ==
  ASSUME NEW c, NEW s, Candidate(obs[req[c].flag], s, tx.elapsed, req[c].on)
  PROVE  Confirms(c, s)
BY DEF Candidate, Confirms, FreshSources

\* A provider read confirms a write only by what the cloud held after the
\* command: stamping a read as it starts makes an answer from before unusable.
THEOREM ProviderIsCurrent == Spec => ProviderAnsweredAfter
<1>1. ASSUME HistoryExact, NEW c \in Calls, Confirmed(c, "provider") PROVE tx.shown
  <2>1. InTx(c) /\ MatchingSource(obs[req[c].flag], tx.elapsed, req[c].on) = "provider"
    BY <1>1 DEF Confirmed, DirectConfirms, RetryConfirms, InTx, Evidence
  <2>2. PICK s \in ProviderSources : Candidate(obs[req[c].flag], s, tx.elapsed, req[c].on)
    BY <2>1 DEF MatchingSource
  <2> QED BY <1>1, <2>1, <2>2, CandidateConfirms DEF HistoryExact, ShownFor
<1>2. HistoryExact /\ [Next]_vars =>
        [\A c \in Calls : Confirmed(c, "provider") => tx.shown]_vars
  BY <1>1
<1> QED BY <1>2, HistoryCorrect, PTL DEF Spec, ProviderAnsweredAfter

\* A Direct report confirms a write only by what the charger held after the
\* command, or had said in a report that was on its way when it was issued.
THEOREM DirectIsCurrent == Spec => DoneOnDevice
<1>1. ASSUME HistoryExact, NEW c \in Calls, Confirmed(c, "direct") PROVE tx.held
  <2>1. InTx(c) /\ MatchingSource(obs[req[c].flag], tx.elapsed, req[c].on) = "direct"
    BY <1>1 DEF Confirmed, DirectConfirms, RetryConfirms, InTx, Evidence
  <2>2. PICK s \in DirectSources : Candidate(obs[req[c].flag], s, tx.elapsed, req[c].on)
    BY <2>1 DEF MatchingSource
  <2> QED BY <1>1, <2>1, <2>2, CandidateConfirms DEF HistoryExact, HeldFor
<1>2. HistoryExact /\ [Next]_vars =>
        [\A c \in Calls : Confirmed(c, "direct") => tx.held]_vars
  BY <1>1
<1> QED BY <1>2, HistoryCorrect, PTL DEF Spec, DoneOnDevice

-----------------------------------------------------------------------------
(* The contract                                                            *)

\* A call that waits for evidence has published its command and was answered.
Staged ==
  \A c \in Calls : /\ pc[c] \in {"awaiting", "direct", "retrying"} => tx.sent
                   /\ pc[c] \in {"direct", "retrying"} => tx.reply = "answered"

\* A step that moves no call further and takes nothing from the transaction
\* that holds the lock keeps the stages.
LEMMA SameStage ==
  ASSUME Staged, pc' = pc, tx.sent => tx'.sent,
         tx.reply = "answered" => tx'.reply = "answered"
  PROVE  Staged'
BY DEF Staged

\* With no call in a transaction there is nothing to show.
LEMMA NoneStaged == ASSUME \A d \in Calls : ~InTx(d)' PROVE Staged'
BY DEF Staged, InTx

\* Every step keeps the stages.
LEMMA StepStaged == TypeOK /\ TxExact /\ Staged /\ [Next]_vars => Staged'
<1> SUFFICES ASSUME TypeOK, TxExact, Staged, [Next]_vars PROVE Staged' OBVIOUS
<1>1. ASSUME NEW c \in Calls, NEW f \in Flags, NEW v \in BOOLEAN, Ask(c, f, v)
      PROVE  Staged'
  BY <1>1, TypeParts DEF Ask, Staged, CallsTyped
<1>2. ASSUME NEW c \in Calls, Leave(c) PROVE Staged'
  BY <1>2, TypeParts DEF Leave, Staged, CallsTyped
<1>3. ASSUME NEW c \in Calls, Begin(c) PROVE Staged'
  <2>1. \A d \in Calls : ~InTx(d) BY <1>3, WriteAssumption DEF Begin, LockFree, TxExact
  <2> QED BY <1>3, <2>1, TypeParts DEF Begin, Staged, CallsTyped, InTx
<1>4. ASSUME NEW c \in Calls, InTx(c), End(c) PROVE Staged'
  <2>1. \A d \in Calls : ~InTx(d)'
    BY <1>4, TypeParts DEF TxExact, End, CallsTyped, InTx
  <2> QED BY <2>1, NoneStaged
<1>5. ASSUME NEW c \in Calls, ExecutorSends(c) \/ RetryAgain(c) PROVE Staged'
  <2>1. pc' = pc /\ (tx.sent => tx'.sent) /\ tx'.reply = tx.reply
    BY <1>5, TypeParts DEF ExecutorSends, RetryAgain, TxType
  <2> QED BY <2>1, SameStage
<1>6. ASSUME NEW c \in Calls, PublishAccepted(c) \/ Replied(c) \/ DirectWaitEnds(c)
      PROVE  Staged'
  <2>1. \A d \in Calls : d # c => pc'[d] = pc[d]
    BY <1>6, TypeParts DEF PublishAccepted, Replied, DirectWaitEnds, CallsTyped
  <2>2. tx'.sent = tx.sent /\ tx'.reply = tx.reply
    BY <1>6, TypeParts DEF PublishAccepted, Replied, DirectWaitEnds, TxType
  <2>3. /\ pc'[c] \in {"awaiting", "direct", "retrying"} => tx.sent
        /\ pc'[c] \in {"direct", "retrying"} => tx.reply = "answered"
    BY <1>6, TypeParts
    DEF PublishAccepted, Replied, DirectWaitEnds, Answered, Staged, CallsTyped
  <2> QED BY <2>1, <2>2, <2>3 DEF Staged
<1>7. ASSUME NEW c \in Calls, Write(c) PROVE Staged'
  BY <1>1, <1>2, <1>3, <1>4, <1>5, <1>6, <1>7
  DEF Write, Refuse, Noop, PublishFails, ReplyTimesOut, WaiterCancelled, DirectConfirms,
      RetryConfirms, Succeed, RetriesEnd, Cancel, InTx
<1>8. ASSUME \/ SetReply \/ CancelWaiters \/ CloudSyncs \/ Tick \/ DeviceTakes
             \/ \E f \in Flags : AppSets(f)
      PROVE  Staged'
  <2>1. /\ pc' = pc /\ tx'.sent = tx.sent
        /\ tx.reply = "answered" => tx'.reply = "answered"
    <3>1. CASE SetReply \/ CancelWaiters \/ CloudSyncs \/ Tick
      BY <3>1, TypeParts DEF SetReply, CancelWaiters, CloudSyncs, Tick, TxType
    <3>2. CASE DeviceTakes \/ \E f \in Flags : AppSets(f)
      <4>1. \A d : HeldAfter(d).sent = tx.sent /\ HeldAfter(d).reply = tx.reply
        BY TypeParts DEF HeldAfter, TxType
      <4> QED BY <3>2, <4>1 DEF DeviceTakes, AppSets
    <3> QED BY <1>8, <3>1, <3>2
  <2> QED BY <2>1, SameStage
<1>9. ASSUME UNCHANGED <<pc, tx>> PROVE Staged'
  BY <1>9 DEF Staged
<1>10. CASE Environment
  BY <1>8, <1>9, <1>10
  DEF Environment, CommandLost, FastReport, PlainReport, DirectReport, ReportArrives,
      PollStart, CloudAnswers, PollRead, PollFails, OtherAcquires, OtherReleases,
      BeginShutdown, OrphanSends, callVars
<1> QED BY <1>7, <1>9, <1>10 DEF Next, vars, callVars

\* A step that leaves calls, lock and promises alone, and of the transaction
\* what was published and answered, is a stutter of the contract.
LEMMA MappedStutter ==
  ASSUME UNCHANGED <<req, lock, promised>>, \A c \in Calls : StageOf(c)' = StageOf(c),
         tx'.sent = tx.sent, tx'.reply = "answered" <=> tx.reply = "answered"
  PROVE  UNCHANGED Contract!vars
<1>1. [c \in Calls |-> StageOf(c)]' = [c \in Calls |-> StageOf(c)] OBVIOUS
<1>2. (tx'.reply = "answered") = (tx.reply = "answered") OBVIOUS
<1> QED BY <1>1, <1>2 DEF Contract!vars

\* A call that moves moves alone.
LEMMA StageMoves ==
  ASSUME TypeOK, NEW c \in Calls, NEW p, pc' = [pc EXCEPT ![c] = p]
  PROVE  [d \in Calls |-> StageOf(d)]' =
           [[d \in Calls |-> StageOf(d)] EXCEPT ![c] = StageOf(c)']
<1>1. \A d \in Calls : d # c => StageOf(d)' = StageOf(d)
  BY TypeParts DEF StageOf, InTx, CallsTyped
<1> QED BY <1>1

\* A call that leaves the queue leaves the contract.
LEMMA LeaveLeaves ==
  ASSUME TypeOK, NEW c \in Calls, pc[c] = "queued", Leave(c), promised' = promised
  PROVE  Contract!Next
<1>1. StageOf(c) = "asked" /\ StageOf(c)' = "free"
  BY TypeParts DEF Leave, StageOf, InTx, CallsTyped
<1>2. [d \in Calls |-> StageOf(d)]' = [[d \in Calls |-> StageOf(d)] EXCEPT ![c] = "free"]
  BY <1>1, StageMoves DEF Leave
<1>3. UNCHANGED <<tx, lock>> /\ \A d \in Calls \ {c} : req'[d] = req[d]
  BY TypeParts DEF Leave, CallsTyped
<1>4. Contract!Leave(c) BY <1>1, <1>2, <1>3 DEF Contract!Leave, Contract!Forget
<1> QED BY <1>4 DEF Contract!Next

\* Every way out of a transaction resolves it in the contract.
LEMMA EndResolves ==
  ASSUME TypeOK, TxExact, Staged, NEW c \in Calls, InTx(c), End(c),
         \/ promised' = promised
         \/ /\ pc[c] \in {"direct", "retrying"}
            /\ promised' = [promised EXCEPT ![req[c].flag] = IF req[c].on THEN "on" ELSE "off"]
  PROVE  Contract!Next
<1>1. StageOf(c)' = "free" BY TypeParts DEF End, StageOf, InTx, CallsTyped
<1>2. [d \in Calls |-> StageOf(d)]' = [[d \in Calls |-> StageOf(d)] EXCEPT ![c] = "free"]
  BY <1>1, StageMoves DEF End
<1>3. \A d \in Calls \ {c} : req'[d] = req[d]
  BY TypeParts DEF End, CallsTyped
<1>4. lock = c /\ lock' = NoCall BY DEF TxExact, End, ReleaseLock
<1>5. tx'.sent = FALSE /\ (tx'.reply = "answered") = FALSE BY DEF End, NoTx
<1>6. pc[c] \in {"direct", "retrying"} => tx.sent /\ tx.reply = "answered" BY DEF Staged
<1>7. Contract!Resolve(c)
  BY <1>2, <1>3, <1>4, <1>5, <1>6 DEF Contract!Resolve, Contract!Forget
<1> QED BY <1>7 DEF Contract!Next

\* Every step of a call is a step of the contract, or none.
LEMMA WriteImplements ==
  ASSUME TypeOK, TxExact, Staged, NEW c \in Calls, Write(c)
  PROVE  [Contract!Next]_(Contract!vars)
<1>1. ASSUME NEW f \in Flags, NEW v \in BOOLEAN, Ask(c, f, v) PROVE Contract!Next
  <2>1. StageOf(c) = "free" /\ StageOf(c)' = "asked"
    BY <1>1, TypeParts DEF Ask, StageOf, InTx, CallsTyped
  <2>2. [d \in Calls |-> StageOf(d)]' = [[d \in Calls |-> StageOf(d)] EXCEPT ![c] = "asked"]
    BY <1>1, <2>1, StageMoves DEF Ask
  <2>3. Contract!Ask(c) BY <1>1, <2>1, <2>2 DEF Ask, Contract!Ask
  <2> QED BY <2>3 DEF Contract!Next
<1>2. CASE Begin(c)
  <2>1. StageOf(c) = "asked" /\ StageOf(c)' = "issued"
    BY <1>2, TypeParts DEF Begin, StageOf, InTx, CallsTyped
  <2>2. [d \in Calls |-> StageOf(d)]' = [[d \in Calls |-> StageOf(d)] EXCEPT ![c] = "issued"]
    BY <1>2, <2>1, StageMoves DEF Begin
  <2>3. tx = NoTx BY <1>2, WriteAssumption DEF Begin, LockFree, TxExact
  <2>4. tx'.sent = tx.sent /\ (tx'.reply = "answered") = (tx.reply = "answered")
    BY <1>2, <2>3 DEF Begin, NoTx
  <2>5. Contract!Issue(c)
    BY <1>2, <2>1, <2>2, <2>4 DEF Begin, LockFree, Contract!Issue
  <2> QED BY <2>5 DEF Contract!Next
<1>3. CASE ExecutorSends(c)
  <2>1. lock \in Calls BY <1>3 DEF ExecutorSends, InTx, TxExact
  <2>2. ~tx.sent /\ tx'.sent = TRUE /\ tx'.reply = tx.reply
    BY <1>3, TypeParts DEF ExecutorSends, TxType
  <2>3. [d \in Calls |-> StageOf(d)]' = [d \in Calls |-> StageOf(d)]
    BY <1>3 DEF ExecutorSends, StageOf, InTx
  <2>4. Contract!Publish BY <1>3, <2>1, <2>2, <2>3 DEF ExecutorSends, Contract!Publish
  <2> QED BY <2>4 DEF Contract!Next
<1>4. CASE PublishAccepted(c) \/ Replied(c) \/ DirectWaitEnds(c) \/ RetryAgain(c)
  <2>1. \A d \in Calls : StageOf(d)' = StageOf(d)
    BY <1>4, TypeParts
    DEF PublishAccepted, Replied, DirectWaitEnds, RetryAgain, StageOf, InTx, CallsTyped
  <2>2. tx'.sent = tx.sent /\ tx'.reply = tx.reply
    BY <1>4, TypeParts DEF PublishAccepted, Replied, DirectWaitEnds, RetryAgain, TxType
  <2> QED BY <1>4, <2>1, <2>2, MappedStutter
          DEF PublishAccepted, Replied, DirectWaitEnds, RetryAgain
<1>5. CASE PublishFails(c) \/ ReplyTimesOut(c) \/ WaiterCancelled(c) \/ RetriesEnd(c)
  BY <1>5, EndResolves DEF PublishFails, ReplyTimesOut, WaiterCancelled, RetriesEnd, InTx
<1>6. CASE DirectConfirms(c) \/ RetryConfirms(c)
  BY <1>6, EndResolves DEF DirectConfirms, RetryConfirms, Succeed, InTx
<1>7. CASE Noop(c) \/ \E online \in BOOLEAN : Refuse(c, online)
  BY <1>7, LeaveLeaves DEF Noop, Refuse
<1>8. CASE Cancel(c)
  BY <1>8, LeaveLeaves, EndResolves DEF Cancel
<1> QED BY <1>1, <1>2, <1>3, <1>4, <1>5, <1>6, <1>7, <1>8 DEF Write

\* So is every step of what runs beside the calls.
LEMMA EnvironmentImplements ==
  ASSUME TypeOK, TxExact, Environment
  PROVE  [Contract!Next]_(Contract!vars)
<1>1. ASSUME UNCHANGED <<pc, req, lock, promised>>, tx'.sent = tx.sent,
             tx'.reply = "answered" <=> tx.reply = "answered"
      PROVE  UNCHANGED Contract!vars
  BY <1>1, MappedStutter DEF StageOf, InTx
<1>2. CASE SetReply
  <2>1. lock \in Calls BY <1>2 DEF SetReply, InTx, TxExact
  <2>2. /\ tx'.sent = tx.sent
        /\ (tx.reply = "answered") = FALSE /\ (tx'.reply = "answered") = TRUE
    BY <1>2, TypeParts DEF SetReply, TxType
  <2>3. [d \in Calls |-> StageOf(d)]' = [d \in Calls |-> StageOf(d)]
    BY <1>2 DEF SetReply, StageOf, InTx
  <2>4. Contract!Answer BY <1>2, <2>1, <2>2, <2>3 DEF SetReply, Contract!Answer
  <2> QED BY <2>4 DEF Contract!Next
<1>3. CASE CancelWaiters \/ CloudSyncs \/ Tick \/ DeviceTakes
  <2>1. tx'.sent = tx.sent /\ (tx'.reply = "answered" <=> tx.reply = "answered")
    BY <1>3, TypeParts DEF CancelWaiters, CloudSyncs, Tick, DeviceTakes, HeldAfter, TxType
  <2> QED BY <1>1, <1>3, <2>1 DEF CancelWaiters, CloudSyncs, Tick, DeviceTakes
<1>4. ASSUME NEW f \in Flags, AppSets(f) PROVE Contract!Next
  <2>1. [d \in Calls |-> StageOf(d)]' = [d \in Calls |-> StageOf(d)]
    BY <1>4 DEF AppSets, StageOf, InTx
  <2>2. tx'.sent = tx.sent /\ (tx'.reply = "answered") = (tx.reply = "answered")
    BY <1>4, TypeParts DEF AppSets, HeldAfter, TxType
  <2>3. Contract!ChangedElsewhere(f)
    BY <1>4, <2>1, <2>2 DEF AppSets, Contract!ChangedElsewhere
  <2> QED BY <2>3 DEF Contract!Next
<1>5. CASE OtherAcquires \/ OtherReleases
  <2>1. [d \in Calls |-> StageOf(d)]' = [d \in Calls |-> StageOf(d)]
    BY <1>5 DEF OtherAcquires, OtherReleases, StageOf, InTx
  <2>2. Contract!OtherTakes \/ Contract!OtherLeaves
    BY <1>5, <2>1
    DEF OtherAcquires, OtherReleases, LockFree, Contract!OtherTakes, Contract!OtherLeaves
  <2> QED BY <2>2 DEF Contract!Next
<1>6. ASSUME UNCHANGED <<pc, req, lock, tx, promised>> PROVE UNCHANGED Contract!vars
  BY <1>1, <1>6
<1> QED
  BY <1>2, <1>3, <1>4, <1>5, <1>6
  DEF Environment, CommandLost, FastReport, PlainReport, DirectReport, ReportArrives,
      PollStart, CloudAnswers, PollRead, PollFails, BeginShutdown, OrphanSends, callVars

\* The settings transaction implements its contract: one control transaction at
\* a time, a command published at most once, and a change reported only for one
\* that was published and answered.
THEOREM WriteContractHolds == Spec => ImplementsWriteContract
<1>1. Init => Contract!Init
  <2> SUFFICES ASSUME Init PROVE Contract!Init OBVIOUS
  <2>1. \A c \in Calls : StageOf(c) = "free" BY DEF Init, StageOf, InTx
  <2>2. tx.sent = FALSE /\ (tx.reply = "answered") = FALSE BY DEF Init, NoTx
  <2> QED BY <2>1, <2>2 DEF Init, Contract!Init
<1>2. Init => Staged BY DEF Init, Staged
<1>3. TypeOK /\ TxExact /\ Staged /\ [Next]_vars => [Contract!Next]_(Contract!vars)
  <2>1. ASSUME UNCHANGED vars PROVE UNCHANGED Contract!vars
    BY <2>1, MappedStutter DEF vars, callVars, StageOf, InTx
  <2> QED BY <2>1, WriteImplements, EnvironmentImplements DEF Next
<1> QED BY <1>1, <1>2, <1>3, StepStaged, TypeCorrect, TransactionCorrect, PTL
        DEF Spec, ImplementsWriteContract, Contract!Spec
=============================================================================
