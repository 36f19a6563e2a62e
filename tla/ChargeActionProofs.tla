------------------------- MODULE ChargeActionProofs -------------------------
(* Theorems about ChargeAction, for any chargers, calls and windows.       *)
EXTENDS ChargeRefinement, TLAPS

TxType == [pre : Statuses, seq : Seqs, sent : BOOLEAN,
           reply : {"none", "answered", "cancelled"}, waited : 0..ReplyTimeout,
           elapsed : 0..ProgressWindow, window : 0..ProgressWindow]

-----------------------------------------------------------------------------
(* Lemmas about the helpers                                                *)

\* The locals of a call that is not in a transaction have their types.
LEMMA NoTxTyped == NoTx \in TxType
<1>1. (CHOOSE q \in Seqs : TRUE) \in Seqs
  BY ChargeAssumption
<1> QED BY <1>1, ChargeAssumption DEF NoTx, TxType, Statuses

\* A saturating counter stays within its cap.
LEMMA OlderBounded ==
  ASSUME NEW cap \in Nat, NEW n \in 0..cap
  PROVE  Older(n, cap) \in 0..cap
BY DEF Older

\* A confirmation window is no longer than the progress window.
LEMMA WindowBounded ==
  ASSUME NEW a \in Actions
  PROVE  ConfirmWindow(a) \in 0..ProgressWindow
BY ChargeAssumption DEF ConfirmWindow, Actions

-----------------------------------------------------------------------------
(* Type correctness                                                        *)

\* The initial state is well typed.
LEMMA InitTyped == Init => TypeOK
<1> SUFFICES ASSUME Init PROVE TypeOK OBVIOUS
<1>1. tx \in [Calls -> TxType] BY NoTxTyped DEF Init
<1>2. hbAge \in [Chargers -> 0..AgeCap] BY ChargeAssumption DEF Init, AgeCap
<1>3. lastSent \in Commands \cup {NoReq} BY DEF Init
<1>4. orphans \subseteq Commands BY DEF Init
<1> QED BY <1>1, <1>2, <1>3, <1>4 DEF Init, TypeOK, TxType, Statuses, Outcomes

\* A call's way out of its transaction keeps the types.
LEMMA EndTyped ==
  ASSUME TypeOK, NEW c \in Calls, NEW o \in Outcomes, End(c, o),
         UNCHANGED <<viewVars, linkVars, shutdown>>,
         lastSent' = lastSent, orphans' \subseteq Commands
  PROVE  TypeOK'
<1>1. tx' \in [Calls -> TxType]
  BY NoTxTyped DEF End, TypeOK, TxType
<1>2. waiters' \in [Seqs -> Calls \cup {NoCall}]
  BY DEF End, PopWaiter, TypeOK
<1>3. active' \in [Chargers -> Calls \cup {NoCall}] /\ record' \in Outcomes
  BY DEF End, Finish, TypeOK, Serial, Outcomes
<1>4. /\ pc' \in [Calls -> {"idle", "queued", "publishing", "awaiting", "confirming"}]
      /\ req' \in [Calls -> Commands \cup {NoReq}]
      /\ \A d \in Calls : pc'[d] # "idle" => req'[d] \in Commands
  BY DEF End, TypeOK
<1>5. pending' \subseteq Chargers
  BY DEF End, ClearMarker, TypeOK
<1> QED BY <1>1, <1>2, <1>3, <1>4, <1>5 DEF TypeOK, TxType, End, viewVars, linkVars

\* Every step keeps the types.
LEMMA StepTyped == TypeOK /\ [Next]_vars => TypeOK'
<1> SUFFICES ASSUME TypeOK, [Next]_vars PROVE TypeOK' OBVIOUS
<1>1. ASSUME NEW c \in Calls, NEW s \in Chargers, NEW a \in Actions, Press(c, s, a) PROVE TypeOK'
  BY <1>1 DEF Press, TypeOK, Commands, viewVars, linkVars
<1>2. ASSUME NEW c \in Calls, NEW q \in Seqs, Issue(c, q) PROVE TypeOK'
  <2>1. req[c] \in Commands /\ Serial(c) \in Chargers /\ Action(c) \in Actions
    BY <1>2 DEF Issue, TypeOK, Commands, Serial, Action
  <2>2. tx' \in [Calls -> TxType]
    <3>1. [NoTx EXCEPT !.pre = status[Serial(c)], !.seq = q,
                       !.window = ConfirmWindow(Action(c))] \in TxType
      BY <2>1, NoTxTyped, WindowBounded DEF TypeOK, TxType
    <3> QED BY <1>2, <3>1 DEF Issue, TypeOK, TxType
  <2>3. active' \in [Chargers -> Calls \cup {NoCall}] /\ record' \in Outcomes
    BY <1>2, <2>1 DEF Issue, Begin, TypeOK, Outcomes
  <2> QED BY <1>2, <2>1, <2>2, <2>3 DEF Issue, TypeOK, TxType, viewVars, linkVars
<1>3. ASSUME NEW c \in Calls, Leave(c), UNCHANGED <<orphans, viewVars, linkVars, shutdown>>
      PROVE TypeOK'
  BY <1>3 DEF Leave, ClearMarker, TypeOK, viewVars, linkVars
<1>4. ASSUME NEW c \in Calls, ExecutorSends(c) PROVE TypeOK'
  <2>1. req[c] \in Commands BY <1>4 DEF ExecutorSends, TypeOK
  <2>2. tx' \in [Calls -> TxType]
    <3>1. tx \in [Calls -> TxType] BY DEF TypeOK, TxType
    <3>2. [tx[c] EXCEPT !.sent = TRUE] \in TxType BY <3>1 DEF TxType
    <3> QED BY <1>4, <3>1, <3>2 DEF ExecutorSends
  <2> QED BY <1>4, <2>1, <2>2 DEF ExecutorSends, TypeOK, TxType, viewVars, linkVars
<1>5. ASSUME NEW c \in Calls, PublishAccepted(c) \/ Replied(c) PROVE TypeOK'
  BY <1>5 DEF PublishAccepted, Replied, TypeOK, viewVars, linkVars
<1>6. ASSUME NEW c \in Calls,
             PublishFails(c) \/ ReplyTimesOut(c) \/ WaiterCancelled(c) \/ Confirm(c) \/ GiveUp(c)
      PROVE TypeOK'
  <2>1. PICK o \in Outcomes : End(c, o)
    BY <1>6 DEF PublishFails, ReplyTimesOut, WaiterCancelled, Confirm, GiveUp, Outcomes
  <2> QED BY <1>6, <2>1, EndTyped
          DEF PublishFails, ReplyTimesOut, WaiterCancelled, Confirm, GiveUp, TypeOK
<1>7. ASSUME NEW c \in Calls, Extend(c) PROVE TypeOK'
  <2>1. tx \in [Calls -> TxType] BY DEF TypeOK, TxType
  <2>2. [tx[c] EXCEPT !.window = ProgressWindow] \in TxType
    BY <2>1, ChargeAssumption DEF TxType
  <2>3. tx' \in [Calls -> TxType] BY <1>7, <2>1, <2>2 DEF Extend, ExtendedDeadline
  <2> QED BY <1>7, <2>3 DEF Extend, TypeOK, TxType, viewVars, linkVars
<1>8. ASSUME NEW c \in Calls, Cancel(c) PROVE TypeOK'
  <2>1. CASE pc[c] = "queued" /\ Leave(c) /\ UNCHANGED orphans
    BY <1>3, <1>8, <2>1 DEF Cancel
  <2>2. CASE InTx(c) /\ End(c, "cancelled") /\ lastSent' = lastSent /\ orphans' \subseteq orphans \cup {req[c]}
    <3>1. req[c] \in Commands BY <2>2 DEF InTx, TypeOK
    <3> QED BY <1>8, <2>2, <3>1, EndTyped DEF Cancel, TypeOK, Outcomes
  <2> QED BY <1>8, <2>1, <2>2 DEF Cancel
<1>9. ASSUME NEW o \in orphans, OrphanSends(o) PROVE TypeOK'
  BY <1>9 DEF OrphanSends, TypeOK, viewVars, linkVars
<1>10. ASSUME NEW q \in Seqs, SetReply(q) PROVE TypeOK'
  <2>1. PICK c \in Calls : waiters[q] = c BY <1>10 DEF SetReply, TypeOK
  <2>2. tx \in [Calls -> TxType] BY DEF TypeOK, TxType
  <2>3. [tx[c] EXCEPT !.reply = "answered"] \in TxType BY <2>2 DEF TxType
  <2>4. tx' \in [Calls -> TxType] BY <1>10, <2>1, <2>2, <2>3 DEF SetReply
  <2> QED BY <1>10, <2>4 DEF SetReply, TypeOK, TxType, viewVars, linkVars
<1>11. ASSUME NEW s \in Chargers, NEW st \in Reports, Heartbeat(s, st) PROVE TypeOK'
  BY <1>11, ChargeAssumption DEF Heartbeat, TypeOK, Statuses, AgeCap, callVars, linkVars
<1>12. ASSUME NEW s \in Chargers, PollPartial(s) \/ PollFinish(s) PROVE TypeOK'
  BY <1>12 DEF PollPartial, PollFinish, PolledStatus, TypeOK, callVars, linkVars
<1>13. CASE PollFails
  BY <1>13 DEF PollFails, TypeOK, callVars, linkVars
<1>14. ASSUME NEW s \in Chargers, Describe(s) \/ DirectLink(s) PROVE TypeOK'
  BY <1>14 DEF Describe, DirectLink, TypeOK, callVars, viewVars
<1>15. CASE ParentLink
  BY <1>15 DEF ParentLink, TypeOK, callVars, viewVars
<1>16. CASE OtherAcquires \/ OtherReleases
  BY <1>16 DEF OtherAcquires, OtherReleases, TypeOK, viewVars, linkVars
<1>17. CASE BeginShutdown \/ DisconnectClients
  BY <1>17 DEF BeginShutdown, DisconnectClients, TypeOK, callVars, viewVars, linkVars
<1>18. CASE CancelWaiters
  <2>1. \A c \in Calls : tx[c] \in TxType /\ [tx[c] EXCEPT !.reply = "cancelled"] \in TxType
    BY DEF TypeOK, TxType
  <2>2. tx' \in [Calls -> TxType] BY <1>18, <2>1 DEF CancelWaiters
  <2> QED BY <1>18, <2>2 DEF CancelWaiters, TypeOK, TxType, viewVars, linkVars
<1>19. CASE Tick
  <2>1. tx' \in [Calls -> TxType]
    <3>1. \A c \in Calls : AgedTx(c) \in TxType
      <4> TAKE c \in Calls
      <4>1. Older(tx[c].elapsed, ProgressWindow) \in 0..ProgressWindow
        BY OlderBounded, ChargeAssumption DEF TypeOK
      <4>2. Older(tx[c].waited, ReplyTimeout) \in 0..ReplyTimeout
        BY OlderBounded, ChargeAssumption DEF TypeOK
      <4> DEFINE older == Older(tx[c].elapsed, ProgressWindow)
                 waited == IF pc[c] = "awaiting" THEN Older(tx[c].waited, ReplyTimeout)
                           ELSE tx[c].waited
      <4>3. tx[c] \in TxType BY DEF TypeOK, TxType
      <4>4. waited \in 0..ReplyTimeout BY <4>2, <4>3 DEF TxType
      <4>5. AgedTx(c) = [tx[c] EXCEPT !.elapsed = older, !.waited = waited]
        BY <4>3 DEF AgedTx, TxType
      <4> HIDE DEF older, waited
      <4> QED BY <4>1, <4>3, <4>4, <4>5 DEF TxType, older
    <3> QED BY <1>19, <3>1 DEF Tick, TypeOK, TxType
  <2>2. hbAge' \in [Chargers -> 0..AgeCap]
    BY <1>19, OlderBounded, ChargeAssumption DEF Tick, TypeOK, AgeCap
  <2> QED BY <1>19, <2>1, <2>2 DEF Tick, TypeOK, TxType, linkVars
<1>20. CASE UNCHANGED vars
  BY <1>20 DEF vars, callVars, viewVars, linkVars, TypeOK
<1> QED
  BY <1>1, <1>2, <1>3, <1>4, <1>5, <1>6, <1>7, <1>8, <1>9, <1>10, <1>11, <1>12, <1>13,
     <1>14, <1>15, <1>16, <1>17, <1>18, <1>19, <1>20
  DEF Next, CallStep, RefuseLocked

\* Every reachable state of the charge code's model is well typed: each age,
\* deadline and elapsed time stays in its cap and every slot holds a call, a
\* charger or nothing.
THEOREM TypeCorrect == Spec => []TypeOK
BY InitTyped, StepTyped, PTL DEF Spec

-----------------------------------------------------------------------------
(* The inductive invariant                                                 *)

\* A call past the hand-over has its command published.
SentFirst == \A c \in Calls : pc[c] \in {"awaiting", "confirming"} => tx[c].sent

Safe == LockExact /\ MarkerExact /\ WaiterExact /\ AttemptExact /\ DeadlineExact /\ SentFirst

\* LockExact alone is not inductive: the exclusivity of a charger's attempt
\* needs the marker, the waiter and the diagnostics to agree with it.
IInv == TypeOK /\ Safe

\* The invariant holds initially.
LEMMA InitSafe == Init => Safe
BY ChargeAssumption DEF Init, Safe, LockExact, MarkerExact, WaiterExact, AttemptExact,
   DeadlineExact, SentFirst, InTx

\* With the lock free no call is in a transaction and no attempt is active.
LEMMA FreeLock ==
  ASSUME IInv, lock \notin Calls
  PROVE  /\ \A c \in Calls : ~InTx(c)
         /\ \A s \in Chargers : active[s] = NoCall
         /\ \A q \in Seqs : waiters[q] = NoCall
BY DEF IInv, Safe, TypeOK, LockExact, AttemptExact, WaiterExact, InTx

\* A call in a transaction is the only one, and owns its charger's attempt.
LEMMA OwnsLock ==
  ASSUME IInv, NEW c \in Calls, InTx(c)
  PROVE  /\ lock = c /\ Serial(c) \in Chargers /\ active[Serial(c)] = c
         /\ \A d \in Calls \ {c} : ~InTx(d)
         /\ \A s \in Chargers \ {Serial(c)} : active[s] = NoCall
         /\ \A q \in Seqs : waiters[q] \in {c, NoCall}
<1>1. lock = c /\ \A d \in Calls \ {c} : ~InTx(d)
  BY DEF IInv, Safe, LockExact
<1>2. Serial(c) \in Chargers
  BY DEF IInv, TypeOK, InTx, Serial, Commands
<1>3. active[Serial(c)] = c /\ \A s \in Chargers \ {Serial(c)} : active[s] = NoCall
  BY <1>1, <1>2 DEF IInv, Safe, TypeOK, AttemptExact
<1>4. \A q \in Seqs : waiters[q] \in {c, NoCall}
  BY <1>1 DEF IInv, Safe, TypeOK, WaiterExact, InTx
<1> QED BY <1>1, <1>2, <1>3, <1>4

\* A call that returns takes its charger's marker with it, and only that.
LEMMA MarkerReturned ==
  ASSUME IInv, NEW c \in Calls, pc[c] # "idle",
         pc' = [pc EXCEPT ![c] = "idle"], req' = [req EXCEPT ![c] = NoReq], ClearMarker(c)
  PROVE  MarkerExact'
<1>1. \A d \in Calls : d # c => pc'[d] = pc[d] /\ Serial(d)' = Serial(d)
  BY DEF IInv, TypeOK, Serial
<1>2. pc'[c] = "idle"
  BY DEF IInv, TypeOK
<1>3. \A d \in Calls : d # c /\ pc[d] # "idle" => Serial(d) # Serial(c)
  BY DEF IInv, Safe, MarkerExact
<1> QED BY <1>1, <1>2, <1>3 DEF IInv, Safe, MarkerExact, ClearMarker

\* Every way out of an attempt restores the invariant.
LEMMA EndSafe ==
  ASSUME IInv, NEW c \in Calls, InTx(c), NEW o \in Outcomes \ {"superseded"}, End(c, o)
  PROVE  Safe'
<1>1. /\ pc' = [pc EXCEPT ![c] = "idle"] /\ tx' = [tx EXCEPT ![c] = NoTx]
      /\ lock' = NoCall /\ req' = [req EXCEPT ![c] = NoReq]
  BY DEF End
<1>2. \A d \in Calls : ~InTx(d)' /\ pc'[d] \notin {"publishing", "awaiting", "confirming"}
  BY <1>1, OwnsLock DEF IInv, TypeOK, InTx
<1>3. LockExact'
  BY <1>1, <1>2, ChargeAssumption DEF LockExact
<1>4. MarkerExact'
  BY <1>1, MarkerReturned DEF End, InTx
<1>5. WaiterExact'
  <2>1. \A q \in Seqs : waiters[q] = c => q = tx[c].seq
    BY DEF IInv, Safe, WaiterExact
  <2>2. \A q \in Seqs : waiters'[q] = NoCall
    BY <2>1, OwnsLock DEF End, PopWaiter, IInv, TypeOK
  <2> QED BY <1>2, <2>2, ChargeAssumption DEF WaiterExact
<1>6. AttemptExact'
  <2>1. \A s \in Chargers : active'[s] = NoCall
    BY OwnsLock DEF End, Finish, IInv, TypeOK
  <2>2. record' = o
    BY OwnsLock, ChargeAssumption DEF End, Finish
  <2> QED BY <1>2, <2>1, <2>2, ChargeAssumption DEF AttemptExact
<1>7. DeadlineExact' /\ SentFirst'
  BY <1>2 DEF DeadlineExact, SentFirst
<1> QED BY <1>3, <1>4, <1>5, <1>6, <1>7 DEF Safe

\* A press refused under the lock, or cancelled in the queue, restores it too.
LEMMA LeaveSafe ==
  ASSUME IInv, NEW c \in Calls, pc[c] = "queued", Leave(c)
  PROVE  Safe'
<1>1. MarkerExact'
  BY MarkerReturned DEF Leave
<1>2. \A d \in Calls : /\ InTx(d)' <=> InTx(d)
                       /\ \A p \in {"publishing", "awaiting", "confirming"} : pc'[d] = p <=> pc[d] = p
                       /\ InTx(d) => pc'[d] = pc[d] /\ Serial(d)' = Serial(d) /\ Action(d)' = Action(d)
  BY DEF Leave, InTx, IInv, TypeOK, Serial, Action
<1>3. UNCHANGED <<tx, lock, waiters, active, record>>
  BY DEF Leave
<1>4. LockExact'
  BY <1>2, <1>3 DEF IInv, Safe, LockExact
<1>5. WaiterExact'
  BY <1>2, <1>3 DEF IInv, Safe, WaiterExact
<1>6. AttemptExact'
  BY <1>2, <1>3 DEF IInv, Safe, AttemptExact
<1>7. DeadlineExact' /\ SentFirst'
  BY <1>2, <1>3 DEF IInv, Safe, DeadlineExact, SentFirst, InTx
<1> QED BY <1>1, <1>4, <1>5, <1>6, <1>7 DEF Safe

\* A step that leaves the calls' own state alone keeps what is said of it.
LEMMA EnvironmentSafe ==
  ASSUME IInv, UNCHANGED <<pc, req, tx, pending, waiters, active, record>>,
         \/ lock' = lock
         \/ lock \notin Calls /\ lock' \notin Calls
  PROVE  Safe'
<1>1. LockExact'
  BY DEF IInv, Safe, LockExact, InTx
<1>2. MarkerExact' /\ WaiterExact' /\ AttemptExact'
  BY DEF IInv, Safe, MarkerExact, WaiterExact, AttemptExact, InTx, Serial
<1>3. DeadlineExact' /\ SentFirst'
  BY DEF IInv, Safe, DeadlineExact, SentFirst, InTx, Action
<1> QED BY <1>1, <1>2, <1>3 DEF Safe

\* A step that only updates locals of calls: every part but the waiters'.
LEMMA LocalsSafe ==
  ASSUME IInv, UNCHANGED <<pc, req, pending, lock, active, record>>,
         \A c \in Calls : tx'[c].window = tx[c].window /\ tx'[c].pre = tx[c].pre
                          /\ (tx[c].sent => tx'[c].sent),
         WaiterExact'
  PROVE  Safe'
<1>1. LockExact' /\ MarkerExact' /\ AttemptExact'
  BY DEF IInv, Safe, LockExact, MarkerExact, AttemptExact, InTx, Serial
<1>2. DeadlineExact'
  BY DEF IInv, Safe, DeadlineExact, InTx, Action
<1>3. SentFirst'
  BY DEF IInv, Safe, SentFirst
<1> QED BY <1>1, <1>2, <1>3 DEF Safe

\* Moving on inside the transaction keeps the invariant when the waiter does.
LEMMA AdvanceSafe ==
  ASSUME IInv, NEW c \in Calls, InTx(c), NEW p \in {"awaiting", "confirming"},
         pc' = [pc EXCEPT ![c] = p], UNCHANGED <<req, tx, pending, lock, waiters, active, record>>,
         tx[c].sent, WaiterExact'
  PROVE  Safe'
<1>1. \A d \in Calls : /\ InTx(d)' <=> InTx(d)
                       /\ pc'[d] # "idle" <=> pc[d] # "idle"
                       /\ Serial(d)' = Serial(d) /\ Action(d)' = Action(d)
                       /\ pc'[d] \in {"awaiting", "confirming"} => d = c \/ pc'[d] = pc[d]
  BY DEF IInv, TypeOK, InTx, Serial, Action
<1>2. LockExact' /\ MarkerExact' /\ AttemptExact'
  BY <1>1 DEF IInv, Safe, LockExact, MarkerExact, AttemptExact
<1>3. DeadlineExact'
  BY <1>1 DEF IInv, Safe, DeadlineExact
<1>4. SentFirst'
  BY <1>1 DEF IInv, Safe, SentFirst
<1> QED BY <1>2, <1>3, <1>4 DEF Safe

-----------------------------------------------------------------------------
(* One step per action                                                     *)

\* The press: a new marker for a charger that had none.
LEMMA PressSafe ==
  ASSUME IInv, NEW c \in Calls, NEW s \in Chargers, NEW a \in Actions, Press(c, s, a)
  PROVE  Safe'
<1>1. \A d \in Calls : /\ InTx(d)' <=> InTx(d)
                       /\ \A p \in {"publishing", "awaiting", "confirming"} : pc'[d] = p <=> pc[d] = p
                       /\ d # c => pc'[d] = pc[d] /\ Serial(d)' = Serial(d) /\ Action(d)' = Action(d)
  BY DEF Press, IInv, TypeOK, InTx, Serial, Action
<1>2. ~InTx(c) /\ UNCHANGED <<tx, lock, waiters, active, record>>
  BY DEF Press, InTx
<1>3. MarkerExact'
  <2>1. pc'[c] = "queued" /\ Serial(c)' = s /\ pending' = pending \cup {s}
    BY DEF Press, IInv, TypeOK, Serial
  <2>2. \A d \in Calls : pc[d] # "idle" => Serial(d) # s
    BY DEF Press, MarkerFree, IInv, Safe, MarkerExact
  <2>3. pc[c] = "idle"
    BY DEF Press
  <2> QED BY <1>1, <2>1, <2>2, <2>3 DEF IInv, Safe, MarkerExact
<1>4. LockExact' /\ WaiterExact'
  BY <1>1, <1>2 DEF IInv, Safe, LockExact, WaiterExact
<1>5. AttemptExact'
  BY <1>1, <1>2 DEF IInv, Safe, AttemptExact
<1>6. DeadlineExact' /\ SentFirst'
  BY <1>1, <1>2 DEF IInv, Safe, DeadlineExact, SentFirst
<1> QED BY <1>3, <1>4, <1>5, <1>6 DEF Safe

\* The hand-over: lock, waiter and attempt are taken in one step.
LEMMA IssueSafe ==
  ASSUME IInv, NEW c \in Calls, NEW q \in Seqs, Issue(c, q)
  PROVE  Safe'
<1>1. lock = NoCall /\ lock' = c /\ pc' = [pc EXCEPT ![c] = "publishing"] /\ UNCHANGED <<req, pending>>
  BY DEF Issue, LockFree
<1>2. Serial(c) \in Chargers
  BY DEF Issue, IInv, TypeOK, Serial, Commands
<1>3. /\ \A d \in Calls : ~InTx(d)
      /\ \A s \in Chargers : active[s] = NoCall
      /\ \A r \in Seqs : waiters[r] = NoCall
  BY <1>1, FreeLock, ChargeAssumption
<1>4. \A d \in Calls : /\ InTx(d)' <=> d = c
                       /\ Serial(d)' = Serial(d) /\ Action(d)' = Action(d)
                       /\ pc'[d] # "idle" <=> pc[d] # "idle"
                       /\ pc'[d] \notin {"awaiting", "confirming"}
  BY <1>1, <1>3 DEF Issue, IInv, TypeOK, InTx, Serial, Action
<1>5. LockExact' /\ MarkerExact'
  BY <1>1, <1>4 DEF LockExact, MarkerExact, IInv, Safe
<1>6. WaiterExact'
  <2>1. \A r \in Seqs : waiters'[r] = IF r = q THEN c ELSE NoCall
    BY <1>3 DEF Issue, IInv, TypeOK
  <2>2. tx'[c].seq = q /\ tx'[c].reply = "none"
    BY DEF Issue, NoTx, IInv, TypeOK
  <2>3. pc'[c] = "publishing" /\ \A d \in Calls \ {c} : pc'[d] \notin {"publishing", "awaiting"}
    BY <1>1, <1>3 DEF IInv, TypeOK, InTx
  <2> QED BY <2>1, <2>2, <2>3, ChargeAssumption DEF WaiterExact
<1>7. AttemptExact'
  <2>1. /\ active' = [active EXCEPT ![Serial(c)] = c]
        /\ record' = record
    BY <1>2, <1>3 DEF Issue, Begin
  <2> QED BY <1>2, <1>3, <1>4, <2>1, ChargeAssumption DEF AttemptExact, IInv, Safe, TypeOK
<1>8. DeadlineExact'
  <2>1. tx'[c].window = ConfirmWindow(Action(c))
    BY DEF Issue, NoTx, IInv, TypeOK
  <2> QED BY <1>4, <2>1 DEF DeadlineExact, ConfirmWindow
<1>9. SentFirst'
  BY <1>4 DEF SentFirst
<1> QED BY <1>5, <1>6, <1>7, <1>8, <1>9 DEF Safe

\* A reply consumes the waiter of the call it answers.
LEMMA SetReplySafe ==
  ASSUME IInv, NEW q \in Seqs, SetReply(q)
  PROVE  Safe'
<1>1. PICK c \in Calls : waiters[q] = c
  BY DEF SetReply, IInv, TypeOK
<1>2. /\ pc[c] \in {"publishing", "awaiting"} /\ tx[c].seq = q /\ tx[c].reply = "none"
      /\ InTx(c)
  BY <1>1 DEF IInv, Safe, WaiterExact, InTx
<1>3. /\ tx' = [tx EXCEPT ![c].reply = "answered"]
      /\ waiters' = [waiters EXCEPT ![q] = NoCall]
      /\ UNCHANGED <<pc, req, pending, lock, active, record>>
  BY <1>1 DEF SetReply
<1>4. WaiterExact'
  <2>1. \A d \in Calls, r \in Seqs : waiters'[r] # d
    BY <1>2, <1>3, OwnsLock, ChargeAssumption DEF IInv, Safe, TypeOK, WaiterExact
  <2>2. \A d \in Calls : pc[d] \in {"publishing", "awaiting"} => d = c
    BY <1>2, OwnsLock DEF InTx
  <2>3. tx'[c].reply = "answered"
    BY <1>3 DEF IInv, TypeOK
  <2> QED BY <1>3, <2>1, <2>2, <2>3 DEF WaiterExact
<1>5. \A d \in Calls : tx'[d].window = tx[d].window /\ tx'[d].pre = tx[d].pre
                       /\ (tx[d].sent => tx'[d].sent)
  BY <1>3 DEF IInv, TypeOK
<1> QED BY <1>3, <1>4, <1>5, LocalsSafe

\* The shutdown leaves no waiter and tells every call that had one.
LEMMA CancelWaitersSafe ==
  ASSUME IInv, CancelWaiters
  PROVE  Safe'
<1>1. \A d \in Calls : tx'[d].window = tx[d].window /\ tx'[d].pre = tx[d].pre
                       /\ tx'[d].sent = tx[d].sent /\ tx'[d].seq = tx[d].seq
  BY DEF CancelWaiters, IInv, TypeOK
<1>2. WaiterExact'
  <2>1. \A d \in Calls, r \in Seqs : waiters'[r] # d
    BY ChargeAssumption DEF CancelWaiters
  <2>2. \A d \in Calls : pc[d] \in {"publishing", "awaiting"} => tx'[d].reply # "none"
    BY DEF CancelWaiters, IInv, Safe, TypeOK, WaiterExact
  <2> QED BY <2>1, <2>2 DEF WaiterExact, CancelWaiters
<1> QED BY <1>1, <1>2, LocalsSafe DEF CancelWaiters

\* Time only ages the locals.
LEMMA TickSafe ==
  ASSUME IInv, Tick
  PROVE  Safe'
<1>1. \A d \in Calls : tx'[d].window = tx[d].window /\ tx'[d].pre = tx[d].pre
                       /\ tx'[d].sent = tx[d].sent /\ tx'[d].seq = tx[d].seq
                       /\ tx'[d].reply = tx[d].reply
  <2>1. \A d \in Calls : /\ AgedTx(d).window = tx[d].window /\ AgedTx(d).pre = tx[d].pre
                         /\ AgedTx(d).sent = tx[d].sent /\ AgedTx(d).seq = tx[d].seq
                         /\ AgedTx(d).reply = tx[d].reply
    BY DEF AgedTx, IInv, TypeOK
  <2> QED BY <2>1 DEF Tick
<1>2. WaiterExact'
  BY <1>1 DEF Tick, IInv, Safe, WaiterExact
<1> QED BY <1>1, <1>2, LocalsSafe DEF Tick

\* The executor's publish marks the running call's command as sent.
LEMMA ExecutorSendsSafe ==
  ASSUME IInv, NEW c \in Calls, ExecutorSends(c)
  PROVE  Safe'
<1>1. \A d \in Calls : tx'[d].window = tx[d].window /\ tx'[d].pre = tx[d].pre
                       /\ (tx[d].sent => tx'[d].sent) /\ tx'[d].seq = tx[d].seq
                       /\ tx'[d].reply = tx[d].reply
  BY DEF ExecutorSends, IInv, TypeOK
<1>2. WaiterExact'
  BY <1>1 DEF ExecutorSends, IInv, Safe, WaiterExact
<1> QED BY <1>1, <1>2, LocalsSafe DEF ExecutorSends

\* Only a Start whose charger was not plugged in before gets the long window.
LEMMA ExtendSafe ==
  ASSUME IInv, NEW c \in Calls, Extend(c)
  PROVE  Safe'
<1>1. \A d \in Calls : /\ tx'[d].pre = tx[d].pre /\ tx'[d].sent = tx[d].sent
                       /\ tx'[d].seq = tx[d].seq /\ tx'[d].reply = tx[d].reply
                       /\ tx'[d].window = IF d = c THEN ProgressWindow ELSE tx[d].window
  BY DEF Extend, ExtendedDeadline, IInv, TypeOK
<1>2. LockExact' /\ MarkerExact' /\ AttemptExact'
  BY DEF Extend, IInv, Safe, LockExact, MarkerExact, AttemptExact, InTx, Serial
<1>3. WaiterExact' /\ SentFirst'
  BY <1>1 DEF Extend, IInv, Safe, WaiterExact, SentFirst
<1>4. DeadlineExact'
  BY <1>1 DEF Extend, StartProgress, IInv, Safe, DeadlineExact, InTx, Action
<1> QED BY <1>2, <1>3, <1>4 DEF Safe

\* Every step keeps the invariant.
LEMMA StepSafe == IInv /\ [Next]_vars => Safe'
<1> SUFFICES ASSUME IInv, [Next]_vars PROVE Safe' OBVIOUS
<1>1. ASSUME NEW c \in Calls, NEW s \in Chargers, NEW a \in Actions, Press(c, s, a) PROVE Safe'
  BY <1>1, PressSafe
<1>2. ASSUME NEW c \in Calls, NEW q \in Seqs, Issue(c, q) PROVE Safe'
  BY <1>2, IssueSafe
<1>3. ASSUME NEW c \in Calls, RefuseLocked(c) PROVE Safe'
  BY <1>3, LeaveSafe DEF RefuseLocked
<1>4. ASSUME NEW c \in Calls, ExecutorSends(c) PROVE Safe'
  BY <1>4, ExecutorSendsSafe
<1>5. ASSUME NEW c \in Calls, PublishAccepted(c) PROVE Safe'
  <2>1. WaiterExact' BY <1>5 DEF PublishAccepted, IInv, Safe, TypeOK, WaiterExact
  <2> QED BY <1>5, <2>1, AdvanceSafe DEF PublishAccepted, InTx
<1>6. ASSUME NEW c \in Calls, Replied(c) PROVE Safe'
  <2>1. WaiterExact' BY <1>6 DEF Replied, IInv, Safe, TypeOK, WaiterExact
  <2>2. tx[c].sent BY <1>6 DEF Replied, IInv, Safe, SentFirst
  <2> QED BY <1>6, <2>1, <2>2, AdvanceSafe DEF Replied, InTx
<1>7. ASSUME NEW c \in Calls,
             PublishFails(c) \/ ReplyTimesOut(c) \/ WaiterCancelled(c) \/ Confirm(c) \/ GiveUp(c)
      PROVE Safe'
  <2>1. PICK o \in Outcomes \ {"superseded"} : End(c, o)
    BY <1>7 DEF PublishFails, ReplyTimesOut, WaiterCancelled, Confirm, GiveUp, Outcomes
  <2>2. InTx(c)
    BY <1>7 DEF PublishFails, ReplyTimesOut, WaiterCancelled, Confirm, GiveUp, InTx
  <2> QED BY <2>1, <2>2, EndSafe
<1>8. ASSUME NEW c \in Calls, Extend(c) PROVE Safe'
  BY <1>8, ExtendSafe
<1>9. ASSUME NEW c \in Calls, Cancel(c) PROVE Safe'
  <2>1. "cancelled" \in Outcomes \ {"superseded"} BY DEF Outcomes
  <2> QED BY <1>9, <2>1, EndSafe, LeaveSafe DEF Cancel
<1>10. ASSUME NEW q \in Seqs, SetReply(q) PROVE Safe'
  BY <1>10, SetReplySafe
<1>11. CASE CancelWaiters
  BY <1>11, CancelWaitersSafe
<1>12. CASE Tick
  BY <1>12, TickSafe
<1>13. CASE OtherAcquires \/ OtherReleases
  BY <1>13, EnvironmentSafe, ChargeAssumption DEF OtherAcquires, OtherReleases, LockFree
<1>14. ASSUME NEW o \in orphans, OrphanSends(o) PROVE Safe'
  BY <1>14, EnvironmentSafe DEF OrphanSends
<1>15. ASSUME NEW s \in Chargers, NEW st \in Reports, Heartbeat(s, st) PROVE Safe'
  BY <1>15, EnvironmentSafe DEF Heartbeat, callVars
<1>16. ASSUME NEW s \in Chargers,
              PollPartial(s) \/ PollFinish(s) \/ Describe(s) \/ DirectLink(s)
       PROVE Safe'
  BY <1>16, EnvironmentSafe DEF PollPartial, PollFinish, Describe, DirectLink, callVars
<1>17. CASE PollFails \/ ParentLink \/ BeginShutdown \/ DisconnectClients \/ UNCHANGED vars
  BY <1>17, EnvironmentSafe
  DEF PollFails, ParentLink, BeginShutdown, DisconnectClients, vars, callVars
<1> QED
  BY <1>1, <1>2, <1>3, <1>4, <1>5, <1>6, <1>7, <1>8, <1>9, <1>10, <1>11, <1>12, <1>13,
     <1>14, <1>15, <1>16, <1>17
  DEF Next, CallStep

\* The control lock, the pending markers, the reply waiters, the diagnostics'
\* attempts and the deadlines agree with the calls in every reachable state.
LEMMA Invariant == Spec => []IInv
<1>1. Init => IInv BY InitTyped, InitSafe DEF IInv
<1>2. IInv /\ [Next]_vars => IInv' BY StepTyped, StepSafe DEF IInv
<1> QED BY <1>1, <1>2, PTL DEF Spec

\* The lock names exactly the call in its transaction.
THEOREM LockCorrect == Spec => []LockExact
<1>1. IInv => LockExact BY DEF IInv, Safe
<1> QED BY <1>1, Invariant, PTL

\* A charger's pending marker stands for exactly one call in progress.
THEOREM MarkerCorrect == Spec => []MarkerExact
<1>1. IInv => MarkerExact BY DEF IInv, Safe
<1> QED BY <1>1, Invariant, PTL

\* A reply waiter is registered exactly while its call waits.
THEOREM WaiterCorrect == Spec => []WaiterExact
<1>1. IInv => WaiterExact BY DEF IInv, Safe
<1> QED BY <1>1, Invariant, PTL

\* Diagnostics attempts belong to running transactions; none is superseded.
THEOREM AttemptCorrect == Spec => []AttemptExact
<1>1. IInv => AttemptExact BY DEF IInv, Safe
<1> QED BY <1>1, Invariant, PTL

\* A confirmation deadline is the action's own or the one absolute extension.
THEOREM DeadlineCorrect == Spec => []DeadlineExact
<1>1. IInv => DeadlineExact BY DEF IInv, Safe
<1> QED BY <1>1, Invariant, PTL

-----------------------------------------------------------------------------
(* The view of a single charger, and what a confirmation rests on          *)

OneCharger == \A s, t \in Chargers : s = t

\* The coordinator's view of a charger is what its newest heartbeat carried.
ViewIsNewest == \A s \in Chargers : status[s] = reported[s]

\* A poll cycle of an account with one charger has no later charger to await, so
\* it restores nothing old; with two it may (run charge_stale_poll).
LEMMA ViewStep ==
  ASSUME OneCharger, TypeOK, ViewIsNewest, [Next]_vars
  PROVE  ViewIsNewest'
<1>1. ASSUME NEW s \in Chargers, NEW st \in Reports, Heartbeat(s, st) PROVE ViewIsNewest'
  BY <1>1 DEF Heartbeat, ViewIsNewest, TypeOK
<1>2. ASSUME NEW s \in Chargers, PollFinish(s) PROVE ViewIsNewest'
  BY <1>2 DEF PollFinish, PolledStatus, ViewIsNewest, OneCharger
<1>3. CASE UNCHANGED <<status, reported>>
  BY <1>3 DEF ViewIsNewest
<1>4. ASSUME NEW c \in Calls, CallStep(c) PROVE UNCHANGED <<status, reported>>
  BY <1>4 DEF CallStep, Press, Issue, RefuseLocked, ExecutorSends, PublishAccepted,
     PublishFails, Replied, ReplyTimesOut, WaiterCancelled, Confirm, Extend, GiveUp, Cancel,
     viewVars
<1>5. ASSUME \/ \E o \in orphans : OrphanSends(o)
             \/ \E q \in Seqs : SetReply(q)
             \/ \E s \in Chargers : PollPartial(s) \/ Describe(s) \/ DirectLink(s)
             \/ PollFails \/ ParentLink \/ OtherAcquires \/ OtherReleases
             \/ BeginShutdown \/ CancelWaiters \/ DisconnectClients \/ Tick
             \/ UNCHANGED vars
      PROVE  UNCHANGED <<status, reported>>
  BY <1>5 DEF OrphanSends, SetReply, PollPartial, Describe, DirectLink, PollFails, ParentLink,
     OtherAcquires, OtherReleases, BeginShutdown, CancelWaiters, DisconnectClients, Tick,
     vars, viewVars
<1> QED BY <1>1, <1>2, <1>3, <1>4, <1>5 DEF Next

\* So its view is the newest one.
LEMMA SingleChargerView == ASSUME OneCharger PROVE Spec => []ViewIsNewest
<1>1. Init => ViewIsNewest BY DEF Init, ViewIsNewest
<1>2. TypeOK /\ ViewIsNewest /\ [Next]_vars => ViewIsNewest' BY ViewStep
<1> QED BY <1>1, <1>2, TypeCorrect, PTL DEF Spec

\* Only the readback loop's own pass reports an action confirmed.
LEMMA OnlyConfirm ==
  ASSUME IInv, Next, NEW c \in Calls, EndsWith(c, "confirmed")
  PROVE  Confirm(c)
<1>1. InTx(c) /\ pc[c] # "idle" /\ pc[c] # "queued" /\ pc'[c] = "idle" /\ record' = "confirmed"
  BY DEF EndsWith, InTx
<1>2. ASSUME NEW d \in Calls, CallStep(d) PROVE d = c
  BY <1>1, <1>2 DEF CallStep, Press, Issue, RefuseLocked, Leave, ExecutorSends, PublishAccepted,
     PublishFails, Replied, ReplyTimesOut, WaiterCancelled, Confirm, Extend, GiveUp, Cancel, End,
     IInv, TypeOK
<1>3. CallStep(c)
  <2>1. pc' # pc
    BY <1>1
  <2>2. ~ \/ \E o \in orphans : OrphanSends(o)
          \/ \E q \in Seqs : SetReply(q)
          \/ \E s \in Chargers, st \in Reports : Heartbeat(s, st)
          \/ \E s \in Chargers : PollPartial(s) \/ PollFinish(s) \/ Describe(s) \/ DirectLink(s)
          \/ PollFails \/ ParentLink \/ OtherAcquires \/ OtherReleases
          \/ BeginShutdown \/ CancelWaiters \/ DisconnectClients \/ Tick
    BY <2>1 DEF OrphanSends, SetReply, Heartbeat, PollPartial, PollFinish, Describe, DirectLink,
       PollFails, ParentLink, OtherAcquires, OtherReleases, BeginShutdown, CancelWaiters,
       DisconnectClients, Tick, callVars
  <2> QED BY <1>2, <2>2 DEF Next
<1>4. ASSUME NEW o \in Outcomes, End(c, o) PROVE o = "confirmed"
  BY <1>1, <1>4, OwnsLock, ChargeAssumption DEF End, Finish
<1>5. ~(PublishFails(c) \/ ReplyTimesOut(c) \/ WaiterCancelled(c) \/ GiveUp(c) \/ Cancel(c))
  BY <1>1, <1>4 DEF PublishFails, ReplyTimesOut, WaiterCancelled, GiveUp, Cancel, Outcomes
<1>6. ~ \/ \E s \in Chargers, a \in Actions : Press(c, s, a)
        \/ \E q \in Seqs : Issue(c, q)
        \/ RefuseLocked(c)
        \/ ExecutorSends(c) \/ PublishAccepted(c) \/ Replied(c) \/ Extend(c)
  BY <1>1 DEF Press, Issue, RefuseLocked, ExecutorSends, PublishAccepted, Replied, Extend,
     IInv, TypeOK
<1> QED BY <1>3, <1>5, <1>6 DEF CallStep

\* With one charger a success is never reported but on a heartbeat younger
\* than the command whose state confirms the action and differs from before.
THEOREM SingleChargerConfirmation == ASSUME OneCharger PROVE Spec => ConfirmedByDevice
<1> DEFINE Good == \A c \in Calls : EndsWith(c, "confirmed") =>
                     /\ hbAge[Serial(c)] < tx[c].elapsed
                     /\ Confirms(Action(c), reported[Serial(c)])
                     /\ reported[Serial(c)] # tx[c].pre
<1>1. IInv /\ ViewIsNewest /\ [Next]_vars => [Good]_vars
  <2> SUFFICES ASSUME IInv, ViewIsNewest, Next, NEW c \in Calls, EndsWith(c, "confirmed")
               PROVE  /\ hbAge[Serial(c)] < tx[c].elapsed
                      /\ Confirms(Action(c), reported[Serial(c)])
                      /\ reported[Serial(c)] # tx[c].pre
    OBVIOUS
  <2>1. Confirmed(c) BY OnlyConfirm DEF Confirm
  <2>2. Serial(c) \in Chargers BY OwnsLock DEF EndsWith
  <2> QED BY <2>1, <2>2 DEF Confirmed, NewerHeartbeat, ViewIsNewest
<1>2. Spec => [][Good]_vars
  BY <1>1, Invariant, SingleChargerView, PTL DEF Spec
<1> QED BY <1>2 DEF ConfirmedByDevice

NoneOrphaned == orphans = {}

\* Without cancellation no publish job outlives its call.
LEMMA NoOrphans == ASSUME ~MayCancel PROVE Spec => []NoneOrphaned
<1>1. Init => NoneOrphaned BY DEF Init, NoneOrphaned
<1>2. NoneOrphaned /\ [Next]_vars => NoneOrphaned'
  <2> USE DEF NoneOrphaned
  <2> SUFFICES ASSUME NoneOrphaned, [Next]_vars PROVE orphans' = {} OBVIOUS
  <2>1. ASSUME NEW c \in Calls, CallStep(c) PROVE orphans' = orphans
    BY <2>1 DEF CallStep, Press, Issue, RefuseLocked, ExecutorSends, PublishAccepted,
       PublishFails, Replied, ReplyTimesOut, WaiterCancelled, Confirm, Extend, GiveUp, Cancel
  <2>2. CASE \/ \E q \in Seqs : SetReply(q)
             \/ \E s \in Chargers, st \in Reports : Heartbeat(s, st)
             \/ \E s \in Chargers : PollPartial(s) \/ PollFinish(s) \/ Describe(s) \/ DirectLink(s)
             \/ PollFails \/ ParentLink \/ OtherAcquires \/ OtherReleases
             \/ BeginShutdown \/ CancelWaiters \/ DisconnectClients \/ Tick
             \/ UNCHANGED vars
    BY <2>2 DEF SetReply, Heartbeat, PollPartial, PollFinish, Describe, DirectLink,
       PollFails, ParentLink, OtherAcquires, OtherReleases, BeginShutdown, CancelWaiters,
       DisconnectClients, Tick, vars, callVars
  <2> QED BY <2>1, <2>2 DEF Next
<1> QED BY <1>1, <1>2, PTL DEF Spec

\* As long as no service call is cancelled, a charge command reaches the
\* broker only while the call that issues it holds the control lock.
THEOREM UncancelledSendUnderLock == ASSUME ~MayCancel PROVE Spec => SendUnderLock
<1> DEFINE Good == lastSent' # lastSent => \E c \in Calls : lock = c /\ lastSent' = req[c]
<1>1. IInv /\ NoneOrphaned /\ [Next]_vars => [Good]_vars
  <2> SUFFICES ASSUME IInv, orphans = {}, Next PROVE Good BY DEF NoneOrphaned
  <2>1. ASSUME NEW c \in Calls, CallStep(c) PROVE Good
    <3>1. CASE ExecutorSends(c)
      BY <3>1, OwnsLock DEF ExecutorSends, InTx
    <3>2. CASE lastSent' = lastSent BY <3>2
    <3> QED
      BY <2>1, <3>1, <3>2 DEF CallStep, Press, Issue, RefuseLocked, Leave, PublishAccepted,
         PublishFails, Replied, ReplyTimesOut, WaiterCancelled, Confirm, Extend, GiveUp, Cancel
  <2>2. CASE \/ \E q \in Seqs : SetReply(q)
             \/ \E s \in Chargers, st \in Reports : Heartbeat(s, st)
             \/ \E s \in Chargers : PollPartial(s) \/ PollFinish(s) \/ Describe(s) \/ DirectLink(s)
             \/ PollFails \/ ParentLink \/ OtherAcquires \/ OtherReleases
             \/ BeginShutdown \/ CancelWaiters \/ DisconnectClients \/ Tick
    BY <2>2 DEF SetReply, Heartbeat, PollPartial, PollFinish, Describe, DirectLink,
       PollFails, ParentLink, OtherAcquires, OtherReleases, BeginShutdown, CancelWaiters,
       DisconnectClients, Tick, callVars
  <2> QED BY <2>1, <2>2 DEF Next
<1>2. Spec => [][Good]_vars
  BY <1>1, Invariant, NoOrphans, PTL DEF Spec
<1> QED BY <1>2 DEF SendUnderLock

-----------------------------------------------------------------------------
(* Refinement of ChargeContract                                            *)

\* The mapping read off the diagnostics: an active attempt is an issued one.
LEMMA MappingIs ==
  IInv => /\ \A s \in Chargers :
               PhaseOf(s) = IF active[s] # NoCall THEN "issued"
                            ELSE IF s \in pending THEN "requested" ELSE "free"
          /\ SentSet = {s \in Chargers : active[s] # NoCall /\ tx[active[s]].sent}
<1> SUFFICES ASSUME IInv PROVE
          /\ \A s \in Chargers :
               PhaseOf(s) = IF active[s] # NoCall THEN "issued"
                            ELSE IF s \in pending THEN "requested" ELSE "free"
          /\ SentSet = {s \in Chargers : active[s] # NoCall /\ tx[active[s]].sent}
  OBVIOUS
<1>1. \A s \in Chargers : active[s] \in Calls \cup {NoCall}
  BY DEF IInv, TypeOK
<1>2. \A s \in Chargers, c \in Calls : active[s] = c <=> c \in CallOf(s) /\ InTx(c)
  BY DEF IInv, Safe, AttemptExact, CallOf, InTx
<1>3. \A s \in Chargers : (\E c \in CallOf(s) : InTx(c)) <=> active[s] # NoCall
  BY <1>1, <1>2, ChargeAssumption DEF CallOf
<1>4. \A s \in Chargers : (\E c \in CallOf(s) : InTx(c) /\ tx[c].sent)
                            <=> active[s] # NoCall /\ tx[active[s]].sent
  BY <1>1, <1>2, ChargeAssumption DEF CallOf
<1> QED BY <1>3, <1>4 DEF PhaseOf, SentSet

\* The same after a step that keeps the invariant.
LEMMA MappingIsNext ==
  IInv' => (/\ \A s \in Chargers :
                 PhaseOf(s) = IF active[s] # NoCall THEN "issued"
                              ELSE IF s \in pending THEN "requested" ELSE "free"
            /\ SentSet = {s \in Chargers : active[s] # NoCall /\ tx[active[s]].sent})'
BY MappingIs, PTL

\* What is open depends on the view, the links and the shutdown alone.
LEMMA OpenKept ==
  ASSUME UNCHANGED <<viewVars, linkVars, shutdown>>
  PROVE  OpenSet' = OpenSet
BY DEF OpenSet, Admits, Allowed, viewVars, linkVars

\* The requests under way are those of the calls in progress.
LEMMA AskedKept ==
  ASSUME \A d \in Calls : pc'[d] # "idle" <=> pc[d] # "idle", req' = req
  PROVE  AskedSet' = AskedSet
BY DEF AskedSet, Serial, Action

\* A call that returns takes its charger's request with it, and only that.
LEMMA AskedReturned ==
  ASSUME IInv, NEW c \in Calls, pc[c] # "idle", pc' = [pc EXCEPT ![c] = "idle"],
         \A d \in Calls : d # c => req'[d] = req[d]
  PROVE  AskedSet' = AskedSet \ {r \in AskedSet : r[1] = Serial(c)}
<1>1. \A d \in Calls : pc'[d] # "idle" <=> pc[d] # "idle" /\ d # c
  BY DEF IInv, TypeOK
<1>2. \A d \in Calls : d # c /\ pc[d] # "idle" => Serial(d) # Serial(c)
  BY DEF IInv, Safe, MarkerExact
<1>3. \A d \in Calls : d # c => Serial(d)' = Serial(d) /\ Action(d)' = Action(d)
  BY DEF Serial, Action
<1>4. \A r : r \in AskedSet <=>
              \E d \in Calls : pc[d] # "idle" /\ r = <<Serial(d), Action(d)>>
  BY DEF AskedSet
<1>5. \A r : r \in AskedSet' <=>
              \E d \in Calls : pc[d] # "idle" /\ d # c /\ r = <<Serial(d), Action(d)>>
  BY <1>1, <1>3 DEF AskedSet
<1> QED BY <1>2, <1>4, <1>5

\* A step that leaves calls, attempts, lock and verdict alone changes at most what
\* the situation admits.
LEMMA MappedSituation ==
  ASSUME IInv, IInv', UNCHANGED <<pending, active, lock, req, record>>,
         \A c \in Calls : tx'[c].sent = tx[c].sent,
         \A c \in Calls : pc'[c] # "idle" <=> pc[c] # "idle"
  PROVE  Contract!Situation
<1>1. \A s \in Chargers : PhaseOf(s)' = PhaseOf(s)
  BY MappingIs, MappingIsNext
<1>2. SentSet' = SentSet
  <2>1. \A s \in Chargers : active[s] \in Calls \cup {NoCall} BY DEF IInv, TypeOK
  <2> QED BY <2>1, MappingIs, MappingIsNext
<1>3. HolderOf' = HolderOf
  BY DEF HolderOf
<1>4. AskedSet' = AskedSet
  BY AskedKept
<1>5. OpenSet' \subseteq Contract!Requests
  BY DEF OpenSet, Contract!Requests
<1> QED BY <1>1, <1>2, <1>3, <1>4, <1>5 DEF Contract!Situation

\* Every way out of an attempt resolves it in the contract.
LEMMA EndResolves ==
  ASSUME IInv, IInv', NEW c \in Calls, InTx(c), NEW o \in Outcomes, End(c, o),
         UNCHANGED <<viewVars, linkVars, shutdown>>,
         o \in Contract!Failures \cup (IF tx[c].sent THEN {"confirmed"} ELSE {})
  PROVE  Contract!Next
<1>0. PICK s \in Chargers : s = Serial(c) BY OwnsLock
<1>1. /\ s = Serial(c) /\ lock = c /\ active[s] = c
      /\ \A t \in Chargers \ {s} : active[t] = NoCall
  BY <1>0, OwnsLock
<1>2. /\ active' = [active EXCEPT ![s] = NoCall] /\ record' = o
      /\ lock' = NoCall /\ pending' = pending \ {s}
  BY <1>1, ChargeAssumption DEF End, Finish, ClearMarker
<1>3. HolderOf = s /\ HolderOf' = NoCall
  BY <1>1, <1>2, ChargeAssumption DEF HolderOf, Serial
<1>4. [t \in Chargers |-> PhaseOf(t)]' = [[t \in Chargers |-> PhaseOf(t)] EXCEPT ![s] = "free"]
  <2>1. \A t \in Chargers : active'[t] = NoCall BY <1>1, <1>2 DEF IInv, TypeOK
  <2>2. \A t \in Chargers \ {s} : PhaseOf(t)' = PhaseOf(t)
    BY <1>1, <1>2, <2>1, MappingIs, MappingIsNext
  <2>3. PhaseOf(s)' = "free" BY <1>1, <1>2, <2>1, MappingIsNext
  <2> QED BY <1>1, <2>2, <2>3
<1>5. SentSet' = SentSet \ {s} /\ (s \in SentSet <=> tx[c].sent)
  <2>1. \A t \in Chargers : active'[t] = NoCall BY <1>1, <1>2 DEF IInv, TypeOK
  <2>2. SentSet' = {} BY <2>1, MappingIsNext
  <2>3. SentSet \subseteq {s} BY <1>1, MappingIs
  <2>4. s \in SentSet <=> tx[c].sent BY <1>1, MappingIs, ChargeAssumption
  <2> QED BY <2>2, <2>3, <2>4
<1>6. AskedSet' = AskedSet \ Contract!Of(s) /\ OpenSet' = OpenSet
  <2>1. /\ pc[c] # "idle" /\ pc' = [pc EXCEPT ![c] = "idle"]
        /\ \A d \in Calls : d # c => req'[d] = req[d]
    BY DEF End, InTx, IInv, TypeOK
  <2> QED BY <1>1, <2>1, AskedReturned, OpenKept DEF Contract!Of
<1>7. Contract!Resolve(s)
  BY <1>2, <1>3, <1>4, <1>5, <1>6 DEF Contract!Resolve
<1> QED BY <1>1, <1>7 DEF Contract!Next

\* Leaving the queue withdraws the request.
LEMMA LeaveWithdraws ==
  ASSUME IInv, IInv', NEW c \in Calls, pc[c] = "queued", Leave(c),
         UNCHANGED <<viewVars, linkVars, shutdown>>
  PROVE  Contract!Next
<1>0. PICK s \in Chargers : s = Serial(c)
  BY DEF IInv, TypeOK, Serial, Commands
<1>1. s = Serial(c) /\ s \in pending /\ active[s] = NoCall
  <2>1. s \in pending
    BY <1>0 DEF IInv, Safe, MarkerExact
  <2>2. \A d \in Calls : active[s] # d
    BY <1>0, <2>1 DEF IInv, Safe, AttemptExact, MarkerExact, InTx
  <2> QED BY <1>0, <2>1, <2>2 DEF IInv, TypeOK
<1>2. /\ pending' = pending \ {s} /\ UNCHANGED <<tx, lock, active, record>>
      /\ \A d \in Calls : d # c => req'[d] = req[d]
  BY <1>1 DEF Leave, ClearMarker, IInv, TypeOK
<1>3. [t \in Chargers |-> PhaseOf(t)]' = [[t \in Chargers |-> PhaseOf(t)] EXCEPT ![s] = "free"]
  <2>1. \A t \in Chargers \ {s} : PhaseOf(t)' = PhaseOf(t) BY <1>2, MappingIs, MappingIsNext
  <2>2. PhaseOf(s)' = "free" BY <1>1, <1>2, MappingIsNext
  <2> QED BY <1>1, <2>1, <2>2
<1>4. PhaseOf(s) = "requested" BY <1>1, MappingIs
<1>5. SentSet' = SentSet BY <1>2, MappingIs, MappingIsNext
<1>6. HolderOf' = HolderOf
  <2>1. lock # c BY DEF IInv, Safe, LockExact, InTx
  <2> QED BY <1>2, <2>1 DEF HolderOf
<1>7. AskedSet' = AskedSet \ Contract!Of(s) /\ OpenSet' = OpenSet
  <2>1. pc[c] # "idle" /\ pc' = [pc EXCEPT ![c] = "idle"]
    BY DEF Leave
  <2> QED BY <1>1, <1>2, <2>1, AskedReturned, OpenKept DEF Contract!Of
<1>8. Contract!Withdraw(s)
  BY <1>1, <1>2, <1>3, <1>4, <1>5, <1>6, <1>7 DEF Contract!Withdraw
<1> QED BY <1>1, <1>8 DEF Contract!Next

\* Every step of the charge code is a step of the contract, or none.
LEMMA StepImplements ==
  ASSUME IInv, IInv', Next
  PROVE  [Contract!Next]_(Contract!vars)
<1>1. ASSUME NEW c \in Calls, NEW s \in Chargers, NEW a \in Actions, Press(c, s, a)
      PROVE  Contract!Next
  <2>1. /\ s \notin pending /\ pending' = pending \cup {s}
        /\ UNCHANGED <<tx, lock, active, record>>
        /\ \A d \in Calls : d # c => req'[d] = req[d]
    BY <1>1 DEF Press, MarkerFree, IInv, TypeOK
  <2>2. active[s] = NoCall
    <3>1. \A d \in Calls : active[s] # d
      BY <2>1 DEF IInv, Safe, AttemptExact, MarkerExact, InTx
    <3> QED BY <3>1 DEF IInv, TypeOK
  <2>3. PhaseOf(s) = "free" BY <2>1, <2>2, MappingIs
  <2>4. [t \in Chargers |-> PhaseOf(t)]' = [[t \in Chargers |-> PhaseOf(t)] EXCEPT ![s] = "requested"]
    <3>1. \A t \in Chargers \ {s} : PhaseOf(t)' = PhaseOf(t) BY <2>1, MappingIs, MappingIsNext
    <3>2. PhaseOf(s)' = "requested" BY <2>1, <2>2, MappingIsNext
    <3> QED BY <3>1, <3>2
  <2>5. SentSet' = SentSet BY <2>1, MappingIs, MappingIsNext
  <2>6. HolderOf' = HolderOf
    <3>1. lock # c BY <1>1 DEF Press, IInv, Safe, LockExact, InTx
    <3> QED BY <2>1, <3>1 DEF HolderOf
  <2>7. AskedSet' = AskedSet \cup {<<s, a>>}
    <3>1. /\ pc[c] = "idle" /\ pc'[c] # "idle" /\ Serial(c)' = s /\ Action(c)' = a
          /\ \A d \in Calls : d # c => pc'[d] = pc[d]
      BY <1>1 DEF Press, IInv, TypeOK, Serial, Action
    <3>2. \A d \in Calls : d # c => Serial(d)' = Serial(d) /\ Action(d)' = Action(d)
      BY <2>1 DEF Serial, Action
    <3>3. \A r : r \in AskedSet <=>
                \E d \in Calls : pc[d] # "idle" /\ d # c /\ r = <<Serial(d), Action(d)>>
      BY <3>1 DEF AskedSet
    <3>4. \A r : r \in AskedSet' <=>
                \/ r = <<s, a>>
                \/ \E d \in Calls : pc[d] # "idle" /\ d # c /\ r = <<Serial(d), Action(d)>>
      BY <3>1, <3>2 DEF AskedSet
    <3> QED BY <3>3, <3>4
  <2>8. OpenSet' = OpenSet
    BY <1>1, OpenKept DEF Press
  <2>9. Contract!Request(s, a)
    BY <2>1, <2>3, <2>4, <2>5, <2>6, <2>7, <2>8 DEF Contract!Request
  <2> QED BY <2>9 DEF Contract!Next
<1>2. ASSUME NEW c \in Calls, NEW q \in Seqs, Issue(c, q)
      PROVE  Contract!Next
  <2>1. PICK s \in Chargers : s = Serial(c)
    BY <1>2 DEF Issue, IInv, TypeOK, Serial, Commands
  <2>2. s \in pending
    BY <1>2, <2>1 DEF Issue, IInv, Safe, MarkerExact
  <2>3. lock = NoCall /\ lock' = c /\ UNCHANGED <<req, pending>> /\ \A t \in Chargers : active[t] = NoCall
    BY <1>2, FreeLock, ChargeAssumption DEF Issue, LockFree
  <2>4. active' = [active EXCEPT ![s] = c] /\ record' = record /\ ~tx'[c].sent
    BY <1>2, <2>1, <2>3 DEF Issue, Begin, NoTx, IInv, TypeOK
  <2>5. [t \in Chargers |-> PhaseOf(t)]' = [[t \in Chargers |-> PhaseOf(t)] EXCEPT ![s] = "issued"]
    <3>1. \A t \in Chargers \ {s} : PhaseOf(t)' = PhaseOf(t)
      BY <2>3, <2>4, MappingIs, MappingIsNext DEF IInv, TypeOK
    <3>2. PhaseOf(s)' = "issued"
      BY <2>4, MappingIsNext, ChargeAssumption DEF IInv, TypeOK
    <3> QED BY <3>1, <3>2
  <2>6. PhaseOf(s) = "requested" BY <2>2, <2>3, MappingIs
  <2>7. SentSet = {} BY <2>3, MappingIs
  <2>8. SentSet' = {} BY <2>3, <2>4, MappingIsNext DEF IInv, TypeOK
  <2>9. HolderOf = NoCall /\ HolderOf' = s
    BY <2>1, <2>3, ChargeAssumption DEF HolderOf, Serial
  <2>10. AskedSet' = AskedSet /\ OpenSet' = OpenSet
    <3>1. \A d \in Calls : pc'[d] # "idle" <=> pc[d] # "idle"
      BY <1>2 DEF Issue, IInv, TypeOK
    <3> QED BY <1>2, <3>1, AskedKept, OpenKept DEF Issue
  <2>11. Contract!Of(s) \subseteq OpenSet
    <3> SUFFICES ASSUME NEW r \in AskedSet, r[1] = s PROVE r \in OpenSet
      BY DEF Contract!Of
    <3>1. PICK d \in Calls : pc[d] # "idle" /\ r = <<Serial(d), Action(d)>>
      BY DEF AskedSet
    <3>2. d = c
      BY <1>2, <2>1, <3>1 DEF Issue, IInv, Safe, MarkerExact
    <3>3. Action(c) \in Actions
      BY <1>2 DEF Issue, IInv, TypeOK, Action, Commands
    <3>4. Admits(Serial(c), Action(c))
      BY <1>2 DEF Issue, RouteOpen, DirectAvailable, HeartbeatActive, SettingsControl, Admits
    <3> QED BY <2>1, <3>1, <3>2, <3>3, <3>4 DEF OpenSet
  <2>12. Contract!Issue(s)
    BY <2>4, <2>5, <2>6, <2>7, <2>8, <2>9, <2>10, <2>11 DEF Contract!Issue
  <2> QED BY <2>12 DEF Contract!Next
<1>3. ASSUME NEW c \in Calls, ExecutorSends(c)
      PROVE  Contract!Next
  <2>1. InTx(c) BY <1>3 DEF ExecutorSends, InTx
  <2>2. PICK s \in Chargers : s = Serial(c) BY <2>1, OwnsLock
  <2>3. lock = c /\ active[s] = c /\ \A t \in Chargers \ {s} : active[t] = NoCall
    BY <2>1, <2>2, OwnsLock
  <2>4. UNCHANGED <<pending, active, lock, req, record>> /\ ~tx[c].sent /\ tx'[c].sent
    BY <1>3 DEF ExecutorSends, IInv, TypeOK
  <2>5. \A t \in Chargers : PhaseOf(t)' = PhaseOf(t) BY <2>4, MappingIs, MappingIsNext
  <2>6. SentSet = {} BY <2>3, <2>4, MappingIs
  <2>7. SentSet' = {s} BY <2>3, <2>4, MappingIsNext, ChargeAssumption
  <2>8. HolderOf = s /\ HolderOf' = s BY <2>2, <2>3, <2>4 DEF HolderOf, Serial
  <2>9. AskedSet' = AskedSet /\ OpenSet' = OpenSet
    BY <1>3, AskedKept, OpenKept DEF ExecutorSends
  <2>10. Contract!Publish(s)
    BY <2>4, <2>5, <2>6, <2>7, <2>8, <2>9 DEF Contract!Publish
  <2> QED BY <2>10 DEF Contract!Next
<1>4. ASSUME NEW c \in Calls,
             PublishFails(c) \/ ReplyTimesOut(c) \/ WaiterCancelled(c) \/ Confirm(c) \/ GiveUp(c)
      PROVE  Contract!Next
  <2>1. InTx(c)
    BY <1>4 DEF PublishFails, ReplyTimesOut, WaiterCancelled, Confirm, GiveUp, InTx
  <2>2. Confirm(c) => tx[c].sent
    BY DEF Confirm, IInv, Safe, SentFirst
  <2>3. PICK o \in Outcomes : End(c, o) /\ o \in Contract!Failures \cup (IF tx[c].sent THEN {"confirmed"} ELSE {})
    BY <1>4, <2>2 DEF PublishFails, ReplyTimesOut, WaiterCancelled, Confirm, GiveUp, Outcomes,
       Contract!Failures
  <2>4. UNCHANGED <<viewVars, linkVars, shutdown>>
    BY <1>4 DEF PublishFails, ReplyTimesOut, WaiterCancelled, Confirm, GiveUp
  <2> QED BY <2>1, <2>3, <2>4, EndResolves
<1>5. ASSUME NEW c \in Calls, Cancel(c)
      PROVE  Contract!Next
  <2>1. "cancelled" \in Outcomes /\ "cancelled" \in Contract!Failures
    BY DEF Outcomes, Contract!Failures
  <2> QED BY <1>5, <2>1, EndResolves, LeaveWithdraws DEF Cancel
<1>6. ASSUME NEW c \in Calls, RefuseLocked(c)
      PROVE  Contract!Next
  BY <1>6, LeaveWithdraws DEF RefuseLocked
<1>7. ASSUME NEW c \in Calls, PublishAccepted(c) \/ Replied(c) \/ Extend(c)
      PROVE  Contract!Next
  <2>1. \A d \in Calls : /\ tx'[d].sent = tx[d].sent
                         /\ pc'[d] # "idle" <=> pc[d] # "idle"
    BY <1>7 DEF PublishAccepted, Replied, Extend, IInv, TypeOK
  <2>2. Contract!Situation
    BY <1>7, <2>1, MappedSituation DEF PublishAccepted, Replied, Extend
  <2> QED BY <2>2 DEF Contract!Next
<1>8. CASE OtherAcquires
  <2>1. HolderOf = NoCall /\ HolderOf' = OtherTx
    BY <1>8, ChargeAssumption DEF OtherAcquires, LockFree, HolderOf
  <2>2. (\A s \in Chargers : PhaseOf(s)' = PhaseOf(s)) /\ SentSet' = SentSet /\ record' = record
    BY <1>8, MappingIs, MappingIsNext DEF OtherAcquires
  <2>3. AskedSet' = AskedSet /\ OpenSet' = OpenSet
    BY <1>8, AskedKept, OpenKept DEF OtherAcquires
  <2>4. Contract!OtherTakes BY <2>1, <2>2, <2>3 DEF Contract!OtherTakes
  <2> QED BY <2>4 DEF Contract!Next
<1>9. CASE OtherReleases
  <2>1. HolderOf = OtherTx /\ HolderOf' = NoCall
    BY <1>9, ChargeAssumption DEF OtherReleases, HolderOf
  <2>2. (\A s \in Chargers : PhaseOf(s)' = PhaseOf(s)) /\ SentSet' = SentSet /\ record' = record
    BY <1>9, MappingIs, MappingIsNext DEF OtherReleases
  <2>3. AskedSet' = AskedSet /\ OpenSet' = OpenSet
    BY <1>9, AskedKept, OpenKept DEF OtherReleases
  <2>4. Contract!OtherLeaves BY <2>1, <2>2, <2>3 DEF Contract!OtherLeaves
  <2> QED BY <2>4 DEF Contract!Next
<1>10. CASE \/ \E q \in Seqs : SetReply(q)
            \/ CancelWaiters
            \/ Tick
  <2>1. \A d \in Calls : tx'[d].sent = tx[d].sent
    <3>1. CASE \E q \in Seqs : SetReply(q) BY <3>1 DEF SetReply, IInv, TypeOK
    <3>2. CASE CancelWaiters BY <3>2 DEF CancelWaiters, IInv, TypeOK
    <3>3. CASE Tick
      <4>1. \A d \in Calls : AgedTx(d).sent = tx[d].sent BY DEF AgedTx, IInv, TypeOK
      <4> QED BY <3>3, <4>1 DEF Tick
    <3> QED BY <1>10, <3>1, <3>2, <3>3
  <2>2. Contract!Situation
    BY <1>10, <2>1, MappedSituation DEF SetReply, CancelWaiters, Tick
  <2> QED BY <2>2 DEF Contract!Next
<1>11. CASE \/ \E o \in orphans : OrphanSends(o)
            \/ \E s \in Chargers, st \in Reports : Heartbeat(s, st)
            \/ \E s \in Chargers : PollPartial(s) \/ PollFinish(s) \/ Describe(s) \/ DirectLink(s)
            \/ PollFails \/ ParentLink \/ BeginShutdown \/ DisconnectClients
  <2>1. Contract!Situation
    BY <1>11, MappedSituation DEF OrphanSends, Heartbeat, PollPartial, PollFinish, Describe,
       DirectLink, PollFails, ParentLink, BeginShutdown, DisconnectClients, callVars
  <2> QED BY <2>1 DEF Contract!Next
<1> QED
  BY <1>1, <1>2, <1>3, <1>4, <1>5, <1>6, <1>7, <1>8, <1>9, <1>10, <1>11
  DEF Next, CallStep

\* The charge code implements its contract: one requested action per charger,
\* one issued command at a time beside no other transaction, published at most
\* once, only in a situation that admits it once the lock is held, and success only
\* for a published command.
THEOREM ChargeImplementsContract == Spec => ImplementsContract
<1>1. Init => Contract!Init
  <2> SUFFICES ASSUME Init PROVE Contract!Init OBVIOUS
  <2>1. \A c \in Calls : pc[c] = "idle" BY DEF Init
  <2>2. \A s \in Chargers : PhaseOf(s) = "free"
    BY <2>1 DEF Init, PhaseOf, CallOf
  <2>3. SentSet = {} BY <2>1 DEF SentSet, CallOf
  <2>4. HolderOf = NoCall BY ChargeAssumption DEF Init, HolderOf
  <2>5. AskedSet = {} BY <2>1 DEF AskedSet
  <2>6. OpenSet = {} BY DEF Init, OpenSet, Admits
  <2> QED BY <2>2, <2>3, <2>4, <2>5, <2>6 DEF Init, Contract!Init
<1>2. IInv /\ IInv' /\ [Next]_vars => [Contract!Next]_(Contract!vars)
  <2>1. ASSUME IInv, IInv', UNCHANGED vars PROVE UNCHANGED Contract!vars
    <3>1. Contract!Situation
      BY <2>1, MappedSituation DEF vars, callVars
    <3>2. OpenSet' = OpenSet
      BY <2>1, OpenKept DEF vars
    <3> QED BY <3>1, <3>2 DEF Contract!Situation, Contract!vars
  <2> QED BY <2>1, StepImplements
<1> QED BY <1>1, <1>2, Invariant, PTL DEF Spec, ImplementsContract, Contract!Spec
=============================================================================
