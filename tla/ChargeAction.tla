---------------------------- MODULE ChargeAction ----------------------------
(***************************************************************************)
(* Start and Stop charging: the service calls that publish a 241/100       *)
(* command through the linked PowerOcean and accept it only after a SET    *)
(* reply and a newer Direct heartbeat (coordinator.py, charge_control.py,  *)
(* charge_diagnostics.py), against the heartbeats, replies, poll cycles,   *)
(* link changes, cancellations and the shutdown that run beside them.      *)
(*                                                                         *)
(* Everything here runs on one asyncio loop: an action is the code between *)
(* two awaits.  Time is kept as ages and elapsed ticks that saturate, so   *)
(* `heartbeat_at > issued_at` reads hbAge < elapsed.                       *)
(***************************************************************************)
EXTENDS Integers, FiniteSets

CONSTANTS
  Chargers,        \* serials in coordinator.devices
  Calls,           \* service-call tasks; a task may press again once it returned
  Seqs,            \* the 8-bit sequence numbers a SET and its reply carry
  Reports,         \* the charging states a heartbeat may carry in this instance
  ReplyTimeout,    \* _CHARGE_ACTION_SET_REPLY_SECONDS, in ticks
  StopWindow,      \* STOP_ACTION_CONFIRM_SECONDS
  StartWindow,     \* START_ACTION_CONFIRM_SECONDS
  ProgressWindow,  \* START_ACTION_PROGRESS_CONFIRM_SECONDS
  Fresh,           \* _HEARTBEAT_STREAM_FRESH_SECONDS
  MayCancel,       \* whether Home Assistant may cancel a running service call
  NoCall,          \* free lock, empty slot
  OtherTx          \* a settings, phase or research transaction holding the lock

Actions  == {"start", "stop"}
NoStatus == "none"
Unread   == "unread"

ASSUME ChargeAssumption ==
  /\ Seqs # {} /\ Chargers # {}
  /\ NoCall \notin Calls \cup Chargers /\ OtherTx \notin Calls \cup Chargers /\ NoCall # OtherTx
  /\ NoStatus \notin Reports /\ Unread \notin Reports
  /\ MayCancel \in BOOLEAN
  /\ {ReplyTimeout, StopWindow, StartWindow, ProgressWindow, Fresh} \subseteq Nat \ {0}
  /\ StopWindow < ProgressWindow /\ StartWindow < ProgressWindow
  /\ ProgressWindow <= Fresh

VARIABLES
  pc,         \* where each call is suspended
  req,        \* the charger and action of each call in progress
  tx,         \* locals of _async_set_charging_locked, per call
  pending,    \* _pending_charge_actions
  lock,       \* _control_lock
  waiters,    \* _reply_waiters, for the (observer, 241, 100, seq) keys
  active,     \* ChargeActionDiagnostics._active: whose attempt, per charger
  record,     \* outcome of the newest ChargeActionDiagnostics._completed entry
  status,     \* self.data[serial]["direct_charging_status"]
  hbAge,      \* ticks since _last_heartbeat_at, saturating
  described,  \* serials in _accessory_descriptors
  directUp,   \* chargers whose own MQTT client is connected
  parentUp,   \* whether the PowerOcean MQTT client is connected
  merged,     \* the result rows the running poll cycle has built so far
  orphans,    \* publish jobs still running in the executor without their call
  shutdown,   \* how far async_shutdown got
  reported,   \* history: the status of each charger's newest heartbeat
  lastSent    \* history: the last command handed to the broker

callVars == <<pc, req, tx, pending, lock, waiters, active, record, orphans, lastSent>>
viewVars == <<status, hbAge, reported, merged>>
linkVars == <<described, directUp, parentUp>>
vars     == <<callVars, viewVars, linkVars, shutdown>>

AgeCap == Fresh + 1

Statuses == Reports \cup {NoStatus}
Outcomes == {"none", "superseded", "publish_rejected", "runtime_error", "set_reply_timeout",
             "cancelled", "confirmed", "unchanged_state", "readback_timeout"}

NoTx == [pre |-> NoStatus, seq |-> CHOOSE q \in Seqs : TRUE, sent |-> FALSE,
         reply |-> "none", waited |-> 0, elapsed |-> 0, window |-> 0]

Commands == [serial : Chargers, action : Actions]

NoReq == [serial |-> NoCall, action |-> "none"]

-----------------------------------------------------------------------------
(* The pure rules of charge_control.py                                     *)

Startable      == {"plugged_in", "paused", "charge_complete", "standby"}
Stoppable      == {"charging", "paused"}
StartConfirmed == {"charging", "paused"}
StopConfirmed  == {"plugged_in", "charge_complete", "standby"}

Allowed(a, st)  == st \in (IF a = "start" THEN Startable ELSE Stoppable)

Confirms(a, st) == st \in (IF a = "start" THEN StartConfirmed ELSE StopConfirmed)

ConfirmWindow(a) == IF a = "start" THEN StartWindow ELSE StopWindow

Serial(c) == req[c].serial
Action(c) == req[c].action

\* A heartbeat arrived strictly after issued_at.
SameTickMutant(c) == hbAge[Serial(c)] <= tx[c].elapsed
NewerHeartbeat(c) == hbAge[Serial(c)] < tx[c].elapsed

Confirmed(c) ==
  /\ NewerHeartbeat(c)
  /\ Confirms(Action(c), status[Serial(c)])
  /\ status[Serial(c)] # tx[c].pre

StartProgress(c) ==
  /\ Action(c) = "start"
  /\ NewerHeartbeat(c)
  /\ tx[c].pre # "plugged_in"
  /\ status[Serial(c)] = "plugged_in"

-----------------------------------------------------------------------------
(* Availability                                                            *)

HeartbeatActive(s)   == hbAge[s] <= Fresh
DirectAvailable(s)   == s \in directUp
SettingsControl(s)   == shutdown = "running" /\ s \in described /\ parentUp

InTx(c) == pc[c] \in {"publishing", "awaiting", "confirming"}

-----------------------------------------------------------------------------
Init ==
  /\ pc = [c \in Calls |-> "idle"]
  /\ req = [c \in Calls |-> NoReq]
  /\ tx = [c \in Calls |-> NoTx]
  /\ pending = {}
  /\ lock = NoCall
  /\ waiters = [q \in Seqs |-> NoCall]
  /\ active = [s \in Chargers |-> NoCall]
  /\ record = "none"
  /\ status = [s \in Chargers |-> NoStatus]
  /\ hbAge = [s \in Chargers |-> AgeCap]
  /\ reported = status
  /\ merged = [s \in Chargers |-> Unread]
  /\ described = {} /\ directUp = {} /\ parentUp = FALSE
  /\ orphans = {} /\ lastSent = NoReq
  /\ shutdown = "running"

-----------------------------------------------------------------------------
(* A service call                                                          *)

MarkerIgnoredMutant(s) == TRUE
MarkerFree(s) == s \notin pending

\* Pressing the button: the checks before the lock, then the pending marker.
\* A press that fails a check raises and changes nothing.
Press(c, s, a) ==
  /\ pc[c] = "idle"
  /\ MarkerFree(s)
  /\ HeartbeatActive(s)
  /\ Allowed(a, status[s])
  /\ pending' = pending \cup {s}
  /\ req' = [req EXCEPT ![c] = [serial |-> s, action |-> a]]
  /\ pc' = [pc EXCEPT ![c] = "queued"]
  /\ UNCHANGED <<tx, lock, waiters, active, record, orphans, lastSent, viewVars, linkVars, shutdown>>

\* The rechecks made once the control lock is held.
UncheckedAgainMutant(c) == DirectAvailable(Serial(c)) /\ SettingsControl(Serial(c))
RouteOpen(c) ==
  /\ DirectAvailable(Serial(c)) /\ HeartbeatActive(Serial(c))
  /\ Allowed(Action(c), status[Serial(c)])
  /\ SettingsControl(Serial(c))

\* ChargeActionDiagnostics.begin: an attempt still active is superseded.
Begin(c) ==
  /\ active' = [active EXCEPT ![Serial(c)] = c]
  /\ record' = IF active[Serial(c)] = NoCall THEN record
               ELSE "superseded"

LockIgnoredMutant == TRUE
LockFree == lock = NoCall

\* With the lock: register the waiter, stamp issued_at, hand the publish to
\* the executor.  No await separates the rechecks from the hand-over.
Issue(c, q) ==
  /\ pc[c] = "queued"
  /\ LockFree
  /\ RouteOpen(c)
  /\ lock' = c
  /\ waiters' = [waiters EXCEPT ![q] = c]
  /\ tx' = [tx EXCEPT ![c] = [NoTx EXCEPT !.pre = status[Serial(c)], !.seq = q,
                                           !.window = ConfirmWindow(Action(c))]]
  /\ Begin(c)
  /\ pc' = [pc EXCEPT ![c] = "publishing"]
  /\ UNCHANGED <<req, pending, orphans, lastSent, viewVars, linkVars, shutdown>>

KeptMarkerMutant(c) == pending' = pending
ClearMarker(c) == pending' = pending \ {Serial(c)}

\* The call leaves before its attempt began: the finally clause of
\* _async_set_charging clears the marker.
Leave(c) ==
  /\ pc' = [pc EXCEPT ![c] = "idle"]
  /\ req' = [req EXCEPT ![c] = NoReq]
  /\ ClearMarker(c)
  /\ UNCHANGED <<tx, lock, waiters, active, record, lastSent>>

RefuseLocked(c) ==
  /\ pc[c] = "queued" /\ LockFree
  /\ ~RouteOpen(c)
  /\ Leave(c)
  /\ UNCHANGED <<orphans, viewVars, linkVars, shutdown>>

LeakWaiterMutant(c) == waiters' = waiters
PopWaiter(c) == waiters' = [waiters EXCEPT ![tx[c].seq] = NoCall]

\* finish() completes whatever attempt the charger has active, if any.
UnfinishedMutant(c, o) == active' = active /\ record' = o
Finish(c, o) ==
  /\ active' = [active EXCEPT ![Serial(c)] = NoCall]
  /\ record' = IF active[Serial(c)] = NoCall THEN record
               ELSE o

\* Every way out of an attempt: pop the waiter, finish the attempt, release
\* the lock, clear the marker.
End(c, o) ==
  /\ pc' = [pc EXCEPT ![c] = "idle"]
  /\ tx' = [tx EXCEPT ![c] = NoTx]
  /\ PopWaiter(c)
  /\ Finish(c, o)
  /\ lock' = NoCall
  /\ req' = [req EXCEPT ![c] = NoReq]
  /\ ClearMarker(c)

\* send_explicit_control runs in the executor and reaches the broker.
ExecutorSends(c) ==
  /\ pc[c] = "publishing" /\ ~tx[c].sent
  /\ parentUp
  /\ tx' = [tx EXCEPT ![c].sent = TRUE]
  /\ lastSent' = req[c]
  /\ UNCHANGED <<pc, req, pending, lock, waiters, active, record, orphans, viewVars, linkVars, shutdown>>

PublishAccepted(c) ==
  /\ pc[c] = "publishing" /\ tx[c].sent
  /\ pc' = [pc EXCEPT ![c] = "awaiting"]
  /\ UNCHANGED <<req, tx, pending, lock, waiters, active, record, orphans, lastSent, viewVars, linkVars, shutdown>>

\* Disconnected, or the client library refused the message or raised.
PublishFails(c) ==
  /\ pc[c] = "publishing" /\ ~tx[c].sent
  /\ \E o \in {"publish_rejected", "runtime_error"} : End(c, o)
  /\ UNCHANGED <<orphans, lastSent, viewVars, linkVars, shutdown>>

Replied(c) ==
  /\ pc[c] = "awaiting" /\ tx[c].reply = "answered"
  /\ pc' = [pc EXCEPT ![c] = "confirming"]
  /\ UNCHANGED <<req, tx, pending, lock, waiters, active, record, orphans, lastSent, viewVars, linkVars, shutdown>>

NoTimerMutant(c) == FALSE
TimerFired(c) == tx[c].waited >= ReplyTimeout

\* A reply that arrives in the same loop pass as the timer does not save it.
ReplyTimesOut(c) ==
  /\ pc[c] = "awaiting" /\ TimerFired(c)
  /\ End(c, "set_reply_timeout")
  /\ UNCHANGED <<orphans, lastSent, viewVars, linkVars, shutdown>>

\* async_shutdown cancelled the waiter's future under the call.
WaiterCancelled(c) ==
  /\ pc[c] = "awaiting" /\ tx[c].reply = "cancelled"
  /\ End(c, "cancelled")
  /\ UNCHANGED <<orphans, lastSent, viewVars, linkVars, shutdown>>

\* One pass of the readback loop that finds its evidence.
Confirm(c) ==
  /\ pc[c] = "confirming" /\ tx[c].elapsed < tx[c].window
  /\ Confirmed(c)
  /\ End(c, "confirmed")
  /\ UNCHANGED <<orphans, lastSent, viewVars, linkVars, shutdown>>

RollingDeadlineMutant(c) == tx[c].elapsed + ProgressWindow
ExtendedDeadline(c) == ProgressWindow

\* One pass that finds Start progress: the deadline moves once, to an
\* absolute distance from issued_at.
Extend(c) ==
  /\ pc[c] = "confirming" /\ tx[c].elapsed < tx[c].window
  /\ ~Confirmed(c) /\ StartProgress(c)
  /\ tx[c].window # ProgressWindow
  /\ tx' = [tx EXCEPT ![c].window = ExtendedDeadline(c)]
  /\ UNCHANGED <<pc, req, pending, lock, waiters, active, record, orphans, lastSent, viewVars, linkVars, shutdown>>

\* The window closed.  There is no look at the evidence after the last pass.
Unchanged(c) == status[Serial(c)] = tx[c].pre /\ Confirms(Action(c), tx[c].pre)
GiveUp(c) ==
  /\ pc[c] = "confirming" /\ tx[c].elapsed >= tx[c].window
  /\ End(c, IF Unchanged(c) THEN "unchanged_state" ELSE "readback_timeout")
  /\ UNCHANGED <<orphans, lastSent, viewVars, linkVars, shutdown>>

\* Home Assistant cancels the task.  A publish job that already runs in the
\* executor cannot be recalled; one not started yet is dropped with its future.
Cancel(c) ==
  /\ MayCancel
  /\ \/ pc[c] = "queued" /\ Leave(c) /\ UNCHANGED orphans
     \/ /\ InTx(c) /\ End(c, "cancelled")
        /\ orphans' \in {orphans} \cup
             (IF pc[c] = "publishing" /\ ~tx[c].sent THEN {orphans \cup {req[c]}} ELSE {})
        /\ UNCHANGED lastSent
  /\ UNCHANGED <<viewVars, linkVars, shutdown>>

OrphanSends(o) ==
  /\ o \in orphans
  /\ orphans' = orphans \ {o}
  /\ lastSent' = IF parentUp THEN o ELSE lastSent
  /\ UNCHANGED <<pc, req, tx, pending, lock, waiters, active, record, viewVars, linkVars, shutdown>>

-----------------------------------------------------------------------------
(* What runs beside the calls                                              *)

\* A 241/100 SET reply on the parent's set_reply topic: this call's, a late
\* one, or the official app's under the same 8-bit sequence number.
SetReply(q) ==
  /\ waiters[q] # NoCall
  /\ tx' = [tx EXCEPT ![waiters[q]].reply = "answered"]
  /\ waiters' = [waiters EXCEPT ![q] = NoCall]
  /\ UNCHANGED <<pc, req, pending, lock, active, record, orphans, lastSent, viewVars, linkVars, shutdown>>

\* A 2/33 heartbeat: it always carries a state, and stamps its arrival.
Heartbeat(s, st) ==
  /\ status' = [status EXCEPT ![s] = st]
  /\ reported' = [reported EXCEPT ![s] = st]
  /\ hbAge' = [hbAge EXCEPT ![s] = 0]
  /\ UNCHANGED <<callVars, merged, linkVars, shutdown>>

\* The poll cycle merges each charger with the values of that moment and
\* assigns the whole result once the last charger was read.  No provider field
\* maps to the direct status, so a merged row carries the status it copied.
PollPartial(s) ==
  /\ merged[s] = Unread
  /\ \E t \in Chargers : t # s /\ merged[t] = Unread
  /\ merged' = [merged EXCEPT ![s] = status[s]]
  /\ UNCHANGED <<callVars, status, hbAge, reported, linkVars, shutdown>>
PolledStatus(s, t) == IF t = s THEN status[s] ELSE merged[t]
PollFinish(s) ==
  /\ merged[s] = Unread
  /\ \A t \in Chargers : t # s => merged[t] # Unread
  /\ status' = [t \in Chargers |-> PolledStatus(s, t)]
  /\ merged' = [t \in Chargers |-> Unread]
  /\ UNCHANGED <<callVars, hbAge, reported, linkVars, shutdown>>
PollFails ==
  /\ merged' = [t \in Chargers |-> Unread]
  /\ UNCHANGED <<callVars, status, hbAge, reported, linkVars, shutdown>>

\* A direct 241/44 frame brings the accessory descriptor; it is never dropped.
Describe(s) ==
  /\ described' = described \cup {s}
  /\ UNCHANGED <<callVars, viewVars, directUp, parentUp, shutdown>>
DirectLink(s) ==
  /\ shutdown # "closed"
  /\ directUp' = IF s \in directUp THEN directUp \ {s} ELSE directUp \cup {s}
  /\ UNCHANGED <<callVars, viewVars, described, parentUp, shutdown>>
ParentLink ==
  /\ shutdown # "closed"
  /\ parentUp' = ~parentUp
  /\ UNCHANGED <<callVars, viewVars, described, directUp, shutdown>>

OtherAcquires ==
  /\ LockFree /\ lock' = OtherTx
  /\ UNCHANGED <<pc, req, tx, pending, waiters, active, record, orphans, lastSent, viewVars, linkVars, shutdown>>
OtherReleases ==
  /\ lock = OtherTx /\ lock' = NoCall
  /\ UNCHANGED <<pc, req, tx, pending, waiters, active, record, orphans, lastSent, viewVars, linkVars, shutdown>>

\* async_shutdown: the flag; then, after the awaited tasks, every waiter is
\* cancelled and forgotten; then the clients go, each in an executor job.
BeginShutdown ==
  /\ shutdown = "running" /\ shutdown' = "closing"
  /\ UNCHANGED <<callVars, viewVars, linkVars>>
CancelWaiters ==
  /\ shutdown = "closing" /\ shutdown' = "drained"
  /\ tx' = [c \in Calls |-> IF \E q \in Seqs : waiters[q] = c
                            THEN [tx[c] EXCEPT !.reply = "cancelled"] ELSE tx[c]]
  /\ waiters' = [q \in Seqs |-> NoCall]
  /\ UNCHANGED <<pc, req, pending, lock, active, record, orphans, lastSent, viewVars, linkVars>>
DisconnectClients ==
  /\ shutdown = "drained" /\ shutdown' = "closed"
  /\ directUp' = {} /\ parentUp' = FALSE
  /\ UNCHANGED <<callVars, viewVars, described>>

\* One tick of the monotonic clock.
Older(n, cap) == IF n < cap THEN n + 1 ELSE n
AgedTx(c) ==
  [tx[c] EXCEPT !.elapsed = Older(@, ProgressWindow),
                !.waited = IF pc[c] = "awaiting" THEN Older(@, ReplyTimeout) ELSE @]
Tick ==
  /\ hbAge' = [s \in Chargers |-> Older(hbAge[s], AgeCap)]
  /\ tx' = [c \in Calls |-> IF InTx(c) THEN AgedTx(c) ELSE tx[c]]
  /\ UNCHANGED <<pc, req, pending, lock, waiters, active, record, orphans, lastSent,
                 status, reported, merged, linkVars, shutdown>>

-----------------------------------------------------------------------------
CallStep(c) ==
  \/ \E s \in Chargers, a \in Actions : Press(c, s, a)
  \/ \E q \in Seqs : Issue(c, q)
  \/ RefuseLocked(c)
  \/ ExecutorSends(c) \/ PublishAccepted(c) \/ PublishFails(c)
  \/ Replied(c) \/ ReplyTimesOut(c) \/ WaiterCancelled(c)
  \/ Confirm(c) \/ Extend(c) \/ GiveUp(c)
  \/ Cancel(c)

Next ==
  \/ \E c \in Calls : CallStep(c)
  \/ \E o \in orphans : OrphanSends(o)
  \/ \E q \in Seqs : SetReply(q)
  \/ \E s \in Chargers, st \in Reports : Heartbeat(s, st)
  \/ \E s \in Chargers : PollPartial(s) \/ PollFinish(s) \/ Describe(s) \/ DirectLink(s)
  \/ PollFails \/ ParentLink \/ OtherAcquires \/ OtherReleases
  \/ BeginShutdown \/ CancelWaiters \/ DisconnectClients
  \/ Tick

Spec == Init /\ [][Next]_vars

\* The clock advances, an executor job ends, the loop resumes a ready task,
\* a transaction that holds the lock ends, and asyncio.Lock wakes its waiters
\* in the order they came, so none is passed over for ever.
Fairness ==
  /\ WF_vars(Tick)
  /\ WF_vars(OtherReleases)
  /\ \A c \in Calls :
       /\ WF_vars(PublishAccepted(c) \/ PublishFails(c))
       /\ WF_vars(Replied(c) \/ ReplyTimesOut(c) \/ WaiterCancelled(c))
       /\ WF_vars(Confirm(c) \/ GiveUp(c))
       /\ SF_vars((\E q \in Seqs : Issue(c, q)) \/ RefuseLocked(c))
FairSpec == Spec /\ Fairness

-----------------------------------------------------------------------------
(* Properties                                                              *)

\* Every variable keeps its shape; ages and elapsed ticks stay in their caps.
TypeOK ==
  /\ pc \in [Calls -> {"idle", "queued", "publishing", "awaiting", "confirming"}]
  /\ req \in [Calls -> Commands \cup {NoReq}]
  /\ \A c \in Calls : pc[c] # "idle" => req[c] \in Commands
  /\ tx \in [Calls -> [pre : Statuses, seq : Seqs, sent : BOOLEAN,
                       reply : {"none", "answered", "cancelled"}, waited : 0..ReplyTimeout,
                       elapsed : 0..ProgressWindow, window : 0..ProgressWindow]]
  /\ pending \subseteq Chargers
  /\ lock \in Calls \cup {NoCall, OtherTx}
  /\ waiters \in [Seqs -> Calls \cup {NoCall}]
  /\ active \in [Chargers -> Calls \cup {NoCall}]
  /\ record \in Outcomes
  /\ status \in [Chargers -> Statuses] /\ reported \in [Chargers -> Statuses]
  /\ hbAge \in [Chargers -> 0..AgeCap]
  /\ merged \in [Chargers -> Statuses \cup {Unread}]
  /\ described \subseteq Chargers /\ directUp \subseteq Chargers /\ parentUp \in BOOLEAN
  /\ orphans \subseteq Commands
  /\ lastSent \in Commands \cup {NoReq}
  /\ shutdown \in {"running", "closing", "drained", "closed"}

\* One transaction at a time: the lock names exactly the call that is between
\* its hand-over to the executor and its verdict, through every error path.
LockExact == \A c \in Calls : InTx(c) <=> lock = c

\* The pending marker of a charger stands for exactly one call, from its press
\* to its return, so a contradictory action can never queue behind another.
MarkerExact ==
  /\ pending = {Serial(c) : c \in {d \in Calls : pc[d] # "idle"}}
  /\ \A c, d \in Calls : pc[c] # "idle" /\ pc[d] # "idle" /\ Serial(c) = Serial(d) => c = d

\* A reply waiter is registered exactly while its own call still waits for the
\* reply: none outlives its call, and no call waits without one.
WaiterExact ==
  \A c \in Calls, q \in Seqs :
    waiters[q] = c <=> /\ pc[c] \in {"publishing", "awaiting"}
                       /\ tx[c].seq = q /\ tx[c].reply = "none"

\* Every attempt the diagnostics begin belongs to the running transaction of
\* its charger and is completed once, by its own call; none is superseded.
AttemptExact ==
  /\ \A s \in Chargers, c \in Calls : active[s] = c <=> InTx(c) /\ Serial(c) = s
  /\ record # "superseded"

\* The deadline is the action's own window, or the absolute progress deadline
\* of a Start whose charger was not simply plugged in before.
DeadlineExact ==
  \A c \in Calls : InTx(c) =>
    \/ tx[c].window = ConfirmWindow(Action(c))
    \/ /\ tx[c].window = ProgressWindow
       /\ Action(c) = "start" /\ tx[c].pre # "plugged_in"

EndsWith(c, o) == InTx(c) /\ pc'[c] = "idle" /\ record' = o

\* An action is reported confirmed only when the charger's newest heartbeat is
\* younger than the command, carries a state that confirms the action and
\* differs from the state the command was issued in.
ConfirmedByDevice ==
  [][\A c \in Calls : EndsWith(c, "confirmed") =>
       /\ hbAge[Serial(c)] < tx[c].elapsed
       /\ Confirms(Action(c), reported[Serial(c)])
       /\ reported[Serial(c)] # tx[c].pre]_vars

\* A charge command reaches the broker only while its own call holds the lock.
SendUnderLock ==
  [][lastSent' # lastSent => \E c \in Calls : lock = c /\ lastSent' = req[c]]_vars

\* Every press returns to its caller, whatever the charger, the cloud, the
\* other transactions or a shutdown do.
CallReturns == \A c \in Calls : pc[c] # "idle" ~> pc[c] = "idle"
=============================================================================
