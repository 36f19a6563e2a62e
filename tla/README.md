# PowerPulse 2 integration: TLA+ specifications and proofs

The Home Assistant integration `ecoflow_powerpulse2` controls an EcoFlow
PowerPulse 2 wallbox through the cloud: it listens to the charger's own MQTT
session (Direct), publishes commands through the linked PowerOcean's session,
and polls the HTTP provider when no data was pushed for 30 s. A command is taken
as done only when qualified evidence newer than the command shows it. These
modules specify that control core and the cloud link under it (session,
certificate, MQTT clients, recovery), check them with TLC and prove their safety
with TLAPS.

All paths below are under `src/custom_components/ecoflow_powerpulse2/`.

## 1. Inventory

Everything runs on one asyncio loop. Between two awaits code is atomic; blocking
work (publish, connect, reconnect) runs in executor threads, and MQTT callbacks
are marshalled to the loop with `call_soon_threadsafe`.

| component | state | operations | hard behaviours |
|---|---|---|---|
| Start/Stop charging: `coordinator.py` `_async_set_charging*`, `charge_control.py`, `charge_diagnostics.py` | `_pending_charge_actions`, `_control_lock`, `_reply_waiters`, the active diagnostics attempt, locals of the call | press, publish, reply, confirm, extend, give up, cancel | queueing presses, late replies, heartbeats from before the command, every error path, shutdown |
| Settings transactions: `coordinator.py` `_async_write_settings*`, `_async_execute_settings_transaction_locked` | the same lock and waiters, locals | no-op check, publish, reply, Direct wait, provider retries | read-modify-write of a shared word, evidence from five sources |
| Evidence: `setting_observation.py`, `control_readback.py` | one observation per charger, key and source | record, current value, match, bundle match | ageing, contradictions, priorities |
| Poll cycle: `_async_update_data`, `data_merge.py` | `self.data`, provider values | read, merge, assign | values that change while the cycle awaits |
| Smart staging: `smart_staging.py` and its coordinator half | drafts in memory and in the store | user edit, device report, save, load, activation | a failed or cancelled save, reports overtaking edits |
| Passive refresh: `passive_refresh.py` | pending request keys, one delayed task | observe, request, run, close | coalescing, requests during a refresh |
| Phase control: `phase_diagnostics.py`, phase branch of the transaction | phase evidence per source | record, evidence, wait | provider evidence stamped at the end of a read; a cloud copy that echoes the old mode |
| Session renewal: `api.py`, `auth_classification.py`, `ecoflow/enhanced_auth.py`, `_async_sign_in_again`, `_async_refresh_mqtt_credentials` | token, rate-limit stamps, refresh in progress | classify an answer, sign in, refresh, apply, ask for a password | poll cycle and network thread racing for one sign-in, regional hosts that refuse a right password |
| MQTT client: `ecoflow/cloud_mqtt.py` | paho client, its lock, connected flag, backoff | create, connect, reconnect, rebuild, disconnect | executor threads re-creating one client, callbacks of a replaced object, unloading during maintenance |
| Stream recovery: `stream_recovery.py` and its coordinator half | ages of the two streams and of the last attempt, one lock, the poll timer it depends on | automatic check, two buttons, watch for a report | failures that repeat at the poll's pace; a check that frames of other sources put off |
| Protocol research: `protocol_research.py`, `services.py` | bounded transaction list | one diagnostic SET | shares the control lock; a result that does not say what happened |
| Frame capture: `frame_capture.py`, diagnostics | bounded buckets and counters | record, evict, export | limits and eviction |
| Parsers, encoders, entities, config flow | none shared | pure functions, UI | — |

What makes each correct:

* charging: one command at a time; a marker, waiter, attempt and lock that
  belong to exactly one call; a verdict that rests on the newest heartbeat; every
  call returns;
* settings: one transaction at a time; success only on the newest evidence; a
  confirmed value is what the next write builds on; every call returns;
* poll cycle: a poll never puts an older Direct state back;
* staging: memory and store agree whenever no save is under way; an edit that
  succeeds is stored; a save changes only the fields it names;
* refresh: a reply is followed by a read that started after it; one task at most;
* phase: the provider confirms only by a change, never by an echo;
* sessions: a working password is never asked for again; one sign-in at a time; every
  client comes back;
* MQTT client: no network thread goes on with a connection that was let go; jobs and
  threads never wait on each other; a lost link is tried again within the longest delay;
* stream recovery: attempts are a cooldown apart, and never cease while the stream is
  silent and the poll cycle runs;
* research: the result of a record is true of what happened;
* capture: every frame of a named type is accounted for; telemetry costs no command
  its bucket.

## 2. Modules

| module | what it is |
|---|---|
| `ChargeAction` | Start and Stop, with heartbeats, replies, poll cycles, links, other transactions and shutdown around them |
| `ChargeContract` | what a caller relies on: one requested action per charger, one issued command in the integration, issued only if charger and links admit it at that moment, at most one publish, success only after a publish |
| `ChargeRefinement` | the mapping from `ChargeAction` to `ChargeContract` |
| `ChargeActionProofs` | theorems about the three |
| `SettingEvidence` | observations and the evidence rules, without state |
| `SettingsWrite` | the flag writes, the charger, the cloud's copy, reports and reads |
| `WriteContract` | what the caller of a write relies on: one control transaction at a time, a command published at most once, a change reported only for one that was published and answered |
| `SettingsProofs` | theorems about the three |
| `SmartStaging` | one charger's Smart drafts in memory and in the store: edits, mode changes, device reports, saves, restarts |
| `DraftContract` | what the stored drafts are: a file that takes a whole edit, once, or a report over what was there, and loses nothing in a restart |
| `SmartStagingProofs` | theorems about the two |
| `PhaseWrite` | the phase evidence tracker, a phase write and its readback by charger or provider |
| `AuthOutcome` | what an answer proves about the credentials, and what the hosts of an account may answer, without state |
| `CloudSession` | poll cycles, certificate refreshes, the sign-in they share, the hand-over to the clients, the repair dialog, unloading |
| `MqttClient` | one client: the executor jobs under its lock, its Paho objects and their network threads |
| `ReconnectBackoff` | when the watchdog rebuilds a client whose link is down |
| `StreamRecovery` | the automatic and the manual recovery of a silent stream |
| `PassiveRefresh` | the gate for the app's settings replies and the delayed, coalesced refresh |
| `ResearchWrite` | a protocol research call from its validation to the result of its record |
| `FrameCapture` | the buckets of the diagnostics capture, their reserve, evictions and counters |
| `CloudSessionProofs`, `FrameCaptureProofs` | theorems about the module they are named after |
| `LinkProofs` | theorems about `MqttClient`, `PassiveRefresh`, `ReconnectBackoff` and `StreamRecovery` |
| `ReadbackProofs` | theorems about `PhaseWrite` and `ResearchWrite` |
| `CloudLinkProofs` | theorems about their composition, `MCCloudLink` |
| `MCChargeAction`, `MCSettingsWrite`, `MCSmartStaging`, `MCCloudLink` | instances for TLC |

### How the models correspond to the code

An action is the code between two awaits. `pc` names the await at which a call is
suspended: `queued` is the lock, `publishing` the executor job, `awaiting` the
reply, `confirming`, `direct` and `retrying` the sleeps of the readback loops.
`tx` holds the locals. The executor's part of a publish is an action of its own
(`ExecutorSends`), since it runs in a thread; a cancelled call leaves the job
behind in `orphans`.

Time is a saturating count of ticks: an age per heartbeat or observation and an
`elapsed` per transaction, so `observed > issued_at` is `age < elapsed`. Saturation
loses nothing, since nothing compares beyond the caps; it keeps the state space
finite without a bound on the length of a run.

`Heartbeat` and `Report` are the parts of `_record_mqtt_frame` that touch control
state. `PollPartial` and `PollFinish` are the per-charger merge and the assignment
at the end of `_async_update_data`; a poll reads `status` when it merges, which is
what `merge_snapshot_after_read` does with the current row. In `SettingsWrite` a
provider read is stamped in `PollStart` and recorded in `PollRead`, and what it
returns is the cloud's copy of some moment between (`CloudAnswers`). A Direct report
is stamped when it arrives (`coordinator.py:905`): `DirectReport` delivers it at once or
puts it into `uplink`, and `ReportArrives` delivers it later with the time of arrival.

`ChargeAction` treats settings transactions as another holder of the lock and
`SettingsWrite` treats charge actions so (`OtherAcquires`, `OtherReleases`).

In `SmartStaging` a draft, an edit and a report are functions on the four staged
fields. `queue` is the staging lock with everyone who waits for it, its head the
holder; `SaveStarts`, `WriteLands`, `SaveReturns` and `SaveFails` are the pieces of
`_async_store_smart_staging` around its one await. A live edit and a mode change go
through the settings transaction, of which only the outcome is kept (`LiveConfirmed`,
`LiveFails`). `Refuse` stands for every early error; it may also be taken where the
code would not refuse, which gives the properties more behaviours to hold on. One
charger is modelled: the stored file holds all of them, but every save runs under
the one lock and restores the drafts of that moment.

The history variables `reported`, `lastSent`, `promised`, `trusted` and the fields
`shown` and `held` are read by properties only (`trusted`: memory was read from the store or
saved since, with no cancelled write outstanding).

`CloudSession` keeps the same rule: an action is the code between two awaits of the
poll cycle (`poll.at`), of a refresh (`refresh[by].at`, `by` being who asked for it: a
task that the network thread scheduled or the cycle's age check), or of a client.
`calm` is the moment from which nothing fails by itself any more: before it a session
may expire, a request may fail and a link may drop at any time. `loaded` and `closed`
are the entry's setup and its unloading; in `calm` the entry stays loaded. A client is
reduced to its certificate, the one its link is using, and the state of the link. What
happens inside a rebuild is `MqttClient`, where threads and not the loop are the
actors, so that an action is one access to what they share: taking the lock, reading
the current object, each Paho call. Paho is external: what `connect`, `loop_start`,
`loop_stop` and `disconnect` do to a network thread is taken from what the code relies
on. Its `start late` is the worker that read the object before another worker replaced
it, and starts its loop without the lock.

`ReconnectBackoff` compares real delays: its time is `Horizon`-bounded seconds in
steps of `Pace`, and the watchdog looks once at a moment, or not at all. `StreamRecovery`
keeps ages, `Never` being a time stamp that has not been set. Its check is a part of
the poll cycle, and Home Assistant sets the timer of that cycle anew whenever
`async_set_updated_data` pushes data: with every parsed frame of any charger
(`coordinator.py:982`) and every report of a PowerOcean observer (`:1025`). `pollTimer` is
that timer; `SettingsReport`, `HeartbeatReport` and `OtherFrame` set it, and so does the
end of a cycle (`CycleLooks`, `TimerAfter`). Another charger's call
under the one `_direct_stream_lock` is `OtherTurn`, whose end is assumed; what a
rebuild does is the other modules'.

`PassiveRefresh` takes Home Assistant's debouncer as external: one read at a time,
and a read that was asked for ends in whatever way. The gate's requests are a
sequence, since its limit drops the oldest. `PhaseWrite` keeps a time stamp as the
answers to what the code asks of it: later than the write or not (`new`), the later
of two (`directLast`), within its maximum age or not (`fresh`). `version` counts the
changes of the cloud's copy. `ResearchWrite` keeps an observed setting as what the
record compares it with. In `FrameCapture` the order of an `OrderedDict` is the
ordinal of the frame that put a type at the end.

History variables of these modules: `asked` and `confirmed` (requests without a reply,
replies whose read has not been asked for), `version`, `sinceDue` and `total`. `calm`
belongs to a property's assumption and `looked` to the pace of the watchdog; neither
is a variable of the code.

External, modelled from how the code uses it: the charger taking or losing a
command, the cloud's copy and its delay, the official app, the EcoFlow hosts, Paho.
The library's `asyncio.Lock` is taken as fair to its queue, the executor as finishing
its jobs. Of Home Assistant three things are taken on trust. Its `Store.async_save`
raises whenever the file could not be written (`SaveFails`, `coordinator.py:287-289`):
`EditPersistedUnlessCancelled`, `StoreMatches` and `DraftContract` say nothing of a store
that swallows an error. Its coordinator sets the poll timer when a cycle ends and when
data is pushed. Its debouncer runs one read at a time; that a read was asked for
(`ReplyServed`) does not say that it ran, since pushed data cancels one that is pending.

## 3. Runs

| run | constants | question |
|---|---|---|
| `charge_one` | 1 charger, 1 call, windows 2/2/3 ticks, cancellation, shutdown, fairness | are marker, lock, waiter, attempt, deadline and verdict right on every path, and does every press return? |
| `charge_two` | 2 chargers, 2 calls, windows 2/2/3 | do marker and lock hold when presses compete, and is the contract met, with what charger and links admit changing while a press waits for the lock? |
| `charge_stale_poll` | 2 chargers, 1 call | violated: see findings |
| `charge_orphan` | 1 charger, 1 call, cancellation | violated: see findings |
| `write_evidence` | 1 flag, 1 call, two Direct families, one of them delayed, one provider, app | does success rest on the newest evidence, on what charger or cloud held since the command, and is it what the next write builds on? |
| `write_returns` | 1 flag, 2 calls, cancellation, shutdown, another transaction, fairness | is the contract of a write met, and does every write return? |
| `write_lost_flag` | 2 flags, 1 call | violated: see findings |
| `staging_persist` | 2 calls, 2 deadlines, 1 target each, fairness, all disturbances | do memory and store agree, is the contract of the drafts met, is a successful edit stored, does every call return? |
| `staging_zero` | 1 call, no disturbance | violated: see findings |
| `staging_cancel` | 1 call, cancellation | violated: see findings |
| `cloud_link` | the cloud link's parts, each while the others rest, fairness | is a working password left alone, do sign-ins and refreshes exclude each other, do clients, links and streams come back, are evidence, results and counters true? |
| `stream_starved` | the stream recovery alone, a poll timer of two ticks | violated: see findings |

Bounds. Two calls suffice for every contention on a lock and on a marker: the
third is only another waiter. One charger and one call show every path of an action,
with other transactions as `OtherTx`; with one charger a second press is turned away by
the marker before it changes anything. Two chargers are needed for poll cycles that
merge one after another and for presses that compete for the lock. The
windows are the smallest for which the reply timeout, the extension and the
freshness limit fall on different ticks. One sequence number is the worst case:
every late reply collides. In `write_evidence` one 241/44 source, one 2/34 source
and one provider give a newer and an older contradiction on each side of a
command, and a 2/34 report may be on its way while a command is issued (`Delays`; one
delayed family and one report at a time keep the run small, the theorem covers any).
`MaxRetries = 1` loses nothing there, since an attempt lasts as long as it likes.
`MaxFlight = 1` bounds the commands between the broker and the charger
and the publish jobs whose call was cancelled. In the staging runs two deadlines let
an edit and a report contradict each other, and the plan for a distance carries the
zero energy that the provider reports beside it. `MaxQueue = 2` lets a report join
behind a holder and one waiter, so a call's entry stands first, in the middle and last.

`charge_two`, and `charge_stale_poll`, use an action constraint that keeps the links
up once they came up and has no shutdown (these are checked in `charge_one`);
`charge_two` also lets a poll cycle run only while no call does, because with two
chargers the interleaving of the two is the subject of `charge_stale_poll`.

In `cloud_link` the parts share no variable, so a behaviour of all of them is an
interleaving of one of each, and `focus` picks the part that moves; the others rest in
an initial state. One source shows a client's whole life; with several, the hand-over
goes through them one by one, which the proofs cover. Two workers and two Paho objects
are the least for a rebuild that overtakes another: an object is used again once
nothing refers to it. `MaxPending = 2` with three keys makes the gate forget. The
backoff has the code's own constants (2 s, 300 s, 10 attempts, 300 s) at the poll's
slowest, 60 s; at that pace ten attempts take longer than the reset interval, so the
counter's limit never holds a client back in this run, but the theorem covers every
choice of the constants. The capture has three command types and two telemetry types for
one reserved and one regular bucket, and two names, so that both evict and the table
of names fills up; six frames suffice for an eviction, a return and a second eviction.
Statuses are those the classification tells apart and one of each class beside them.
`Retries = 2` leaves a provider read after one that did not confirm; `MaxVersions = 1`
is one change of the cloud's copy. `StaleTime = 1` above `FreshTime = 0`, a watch of one
tick and a cooldown of two put the limits of the recovery on different ticks, and two
presses queue behind each other and behind the cycle. `PollTime = 1` is the least with
which a cycle waits for time to pass; in `stream_starved` it is two, so that a frame
finds the timer running.

Deadlock is checked in all runs but `cloud_link` and `stream_starved`: the clock can always tick, so a
deadlock there is a modelling error; that a call always returns is what the liveness
runs show. `cloud_link` may stop: a research call returns, the capture reaches
`MaxFrames`, an unloaded part is at rest. That nothing stops too early is what
`NoJobStuck`, `ClientsReturn`, `ReplyServed` and `StreamRetried` are for.

What the properties say that rest on histories or on several parts:

* `ConfirmedByDevice`, `DoneOnDevice`, `ProviderAnsweredAfter`: whom a success rests on.
  A charge action on a heartbeat newer than the command; a write confirmed by Direct on
  a value the charger itself has held since the command, whoever's reply was taken for
  the command's (the 8-bit sequence number, `coordinator.py:1074`) and whether or not
  the command got there; one confirmed by the provider on a value the cloud has held
  since. The limit of the Direct claim is in it: a report that was already on its way
  when the command was issued is stamped after it, and counts.
* `ImplementsContract`: beside the order of request, command, publish and verdict, that
  availability is checked again under the lock: `open` is what charger, heartbeat age
  and links admit at each moment, and a command is issued only for what is open then
  (`coordinator.py:1260`), not for what was open when it was requested.

What the properties of `cloud_link` say:

* `NoFalseAlarm`: the repair dialog opens only after the stored password was refused,
  never over an expired session, a regional host or an outage.
* `OneSignIn`, `RefreshExact`: however cycles and refreshes interleave, one signs in at
  a time, and the flag stands for exactly the refresh under way.
* `ClientsReturn`: once nothing fails by itself, every link comes up again, also when
  session and certificate have both expired, unless the user has to act.
* `NobodyStranded`: a cycle or a refresh that waits for a client's rebuild waits for one
  of its own, and every such job has the one who goes on when it ends.
* `NoOrphanThread`, `NoJobStuck`: rebuilds, setup and disconnecting may overlap. A job
  that waits does so for a lock whose holder can go on, or for a network thread that
  ends although the job holds the lock: no ring of waiting.
* `RetryWithin`: the watchdog never gives up: whenever it looks, a client is tried
  again within the longest delay. It says nothing of when the watchdog looks, which
  frames of other sources may put off.
* `RefreshOnlyForReply`, `ReplyServed`: a read for each confirmed change in the app,
  asked for after it, and none for an own write or a repeated reply.
* `RealTransition`: a provider confirmation of a phase write rests on a change of the
  cloud's copy since the read before it.
* `RecordTruthful`: a research record's result is true of what happened.
* `Reconciled`, `CommandsKept`: the capture's counters account for each frame of a
  named type; a command's bucket goes only for a command that was seen less often.
* `FailuresPaced`, `StreamRetried`: the two halves of a bounded recovery
  (the repository's README, lines 122 to 124, and `coordinator.py:801`, "Record before
  reconnecting so failures cannot create a retry loop"): attempts are a cooldown apart
  however they end, and do not cease while the stream is silent, provided no other
  frames keep the poll cycle from running (`stream_starved` shows they can).

Each property of a passing run is broken by a mutant: a variant of one definition,
written next to it (`...Mutant`), that a plausible slip in the code would produce.

### Fairness

`CallReturns` and `WriteReturns` assume that the clock advances, that an executor job
ends, that the loop resumes a ready task, that a refresh which a retry awaits ends
(the HTTP client has timeouts and `async_request_refresh` reports failure by flag),
that a transaction of another kind ends, and that `asyncio.Lock` wakes its queue
in order (strong fairness of taking the lock). `EditReturns` assumes the same of the
control lock, that a save ends, well or not, and that a settings transaction ends,
which is `WriteReturns`.

`ClientsReturn` assumes that the loop runs what is ready, that a poll cycle starts when
its timer is over, that requests end (they have timeouts), that time passes and a backoff runs
out, and, strongly, that a dial is answered: a dial takes seconds, the rebuilds that
could interrupt it are minutes apart. The timer is taken to run out only while every
link is down (`TimerRuns`): a link that is up brings frames, and each frame sets the timer
anew. In the run's one source that is enough, since a source that is down sends
nothing; beside another source that reports, a client that is down may wait for the
poll for as long as that one reports, and `ClientsReturn` does not speak of it. `ReplyServed` assumes that the delay of the
refresh passes and that the read it asks for ends. `StreamRetried` assumes that a
cycle runs whose timer stays over (not that the timer runs out), that the lock's holder ends and the lock is given in order, that time
passes and that a link that was taken down comes up again, which is `ClientsReturn`;
its hypotheses, that presses, losses of the link and other frames cease, are in the
property. `stream_starved` assumes more of the cycle, that it runs if its timer is over
again and again, and shows that even so other frames starve it.

Nothing is assumed of the charger,
the cloud, the app, replies or reports: these may never come.

## 4. Proofs

The theorems hold for any sets of chargers, calls, flags and sequence numbers and
any windows that meet the modules' named assumptions.

`ChargeActionProofs`. The inductive invariant is `IInv == TypeOK /\ Safe`, `Safe`
being the conjunction of the lock, marker, waiter, attempt and deadline parts.
None is inductive alone: that an attempt is never superseded needs the marker to
belong to one call, which needs the lock to name the call in its transaction, and
a waiter that is popped must be the call's own. From `IInv` follow `TypeCorrect`,
`LockCorrect`, `MarkerCorrect`, `WaiterCorrect`, `AttemptCorrect`, `DeadlineCorrect` and
the refinement `ChargeImplementsContract`: one lemma per action shows that its step is
a step of the contract or a stutter. `SingleChargerConfirmation` assumes one charger,
for which the poll cycle has nothing to put back (the lemma `SingleChargerView`); the run
`charge_stale_poll` shows the assumption is needed. `UncancelledSendUnderLock` assumes
that no call is cancelled; `charge_orphan` shows why.

`SettingsProofs`. `ConfirmedAgrees` and `MatchedIsCurrent` are about the evidence rules
alone: if the match accepts a value, the tracker's current value is that value or
unknown, and a provider snapshot that shows a whole SET makes each of its values the
current one. The first rests on the priorities being distinct and Direct ones highest.
`NewestDecides` and `ReportedIsKnown` follow from them and from the type invariant;
`TransactionCorrect` is the lock's; `ProviderIsCurrent` and `DirectIsCurrent` need the
invariant `HistoryExact`: a provider observation or read younger than the command carries
an answer the cloud gave after it, a Direct observation younger than the command, or a
report on its way, a value noted in the history. `WriteContractHolds` is the refinement of `WriteContract`, in
which a command counts as published when the executor sends it for a call that still
waits for it; the job of a cancelled call may send later and is outside the contract, as
`charge_orphan` shows of the same code. It needs the lock's invariant and `Staged`, that
a call which waits for evidence has published and was answered; `WriteImplements` and
`EnvironmentImplements` map every action to a step or a stutter.

`SmartStagingProofs`. The inductive invariant is `IInv == TypeOK /\ Locks /\ Agree`.
`Locks` adds to `QueueExact` that an entry of the queue carries its call's own changes.
`Agree` says what a save under way makes of memory: the drafts before it, which are
the stored ones, with the holder's accepted changes over them. `StoreMatches` alone
is not inductive: when a save lands or fails, what memory becomes is known only from
what it was when the save started. `TypeCorrect`, `QueueCorrect`, `StoreCorrect`,
`EditSaved` and `SavedFieldByField` follow, the last two as action properties. They
hold with cancellation and restarts, since the history variable `trusted` marks
where a cancelled write may have parted the two; `staging_cancel` shows why
`EditSaved` needs it. `DraftContractHolds` is the refinement of `DraftContract`: an edit
takes effect at the moment its file lands, not when the call returns. It needs
`Sourced`, that a device's entry in the queue is a report and that an activation has
decided nothing while it waits for the control lock. The contract promises nothing while
the store is unsure (`~trusted`), which is what `staging_cancel` is about.

`CloudSessionProofs`. `OneSignIn` is not inductive: that nobody signs in when the next
sign-in starts follows from the rate-limit stamp, which is never older than
`AnswerTime` while a sign-in is under way, and for the very first one from the fact that
nothing else runs before a client exists. `ExactAlways` is that invariant;
`RefreshExactAlways` needs the flag beside it. `ValidNeverRefused` is about the
hosts alone: the account's own host would have to refuse a valid password, and from it
follows `NoFalseAlarmAlways`. Assumed: `AnswerTime < SignInInterval`, that is,
a request times out before the next sign-in is allowed. `NobodyStrandedAlways` needs
`Tidy`: a client without a certificate has no job and stands in nobody's list, so that
setup, cycle and refresh never meet at the same client.

`LinkProofs`. `NoOrphanThread` needs that no object but the current one ever has
its socket open (`OnlyCurrentOpen`), which needs that a job which changes the client
holds its lock, that a rebuild has closed the old object when it forgets it, and that a
job which creates has no object. `NoJobStuckAlways` adds that the lock is held only by a
job that releases it (`LockUsed`) and that a job which joins has told the thread to end
(`JoinsTold`); then a holder that waits, waits for a thread, and the thread for nobody,
since its callbacks take no lock. `GateExact` says that a pending request was seen and
not answered, once each, that a sleeping refresh has a reply behind it, and that a reply
still to be served finds a refresh that will look again (`NoLostReply`); `Watch` bounds
the age of the last attempt by the delay in force while the link is down; `PaceExact`
keeps the age of the attempt stamp and the history `sinceDue` together and says that the
cycle has one call at most; `OneAttemptAlways` that the lock's holder is the only call
at work on the stream.

`CloudLinkProofs`. A behaviour of the composition is, for each part, a behaviour of that
part (`SpecOfParts`: a step of another part leaves its variables alone), so that what the
parts' theorems say holds of all side by side: `CloudTypes`, `LinkInvariants`, `LinkSteps`.

`FrameCaptureProofs`. `Reconciled` needs that a type dropped without a name finds the
table of names full, and that the table never shrinks; `WithinShares` is the
conjunct that `CommandsKept` takes.

`ReadbackProofs`. `EvidenceOrdered` says that what was known before the write, the
latest snapshot, the read under way and the cloud's copy follow each other, and that
two of the same version give one mode; with it, `RealTransition` follows from the
confirmation rule. `WordsOK` and `StageOK` relate a research call's stage to its publish
job, the result noted for it and what it has seen.

Four theorems state what no run lists: `TransactionCorrect` (`TxExact`), which
`WriteContractHolds` uses; `SavedFieldByField` (`SavedFieldwise`), which says of each
field what the contract of the drafts says of the whole; `NoLostReplyAlways`, the safety
half of `ReplyServed`; and `OneAttemptAlways`.

Only model-checked: liveness under fairness (`CallReturns`, `WriteReturns`,
`EditReturns`, `ClientsReturn`, `ReplyServed`, `StreamRetried`), which the provers used
here do not reach. Every invariant, action property and refinement of a passing run is a
theorem, under assumptions the run meets (`ConfirmedByDevice` for one charger).

## 5. Findings

* `charge_stale_poll` / `ConfirmedByDevice`, `coordinator.py:498`. With two chargers,
  the poll cycle merges the first, awaits the second's read, then assigns both. A
  heartbeat of the first in between is overwritten by its older state while its
  newer time stays, and a charge action may be confirmed by a state the charger
  has left (`charge_control.py:51` promises a newer heartbeat that shows the effect).
* `charge_orphan` / `SendUnderLock`, `coordinator.py:1293`. A service call cancelled
  during its publish job frees the lock while the job goes on.
* `write_lost_flag` / `ConfirmedFlagKept`, `coordinator.py:2002`. After a flag write
  that a 2/34 report confirmed, the next write of the other flag starts from the
  older 241/44 word and takes the first one back (`coordinator.py:1657`: "while
  preserving every other settings flag").
* `staging_zero` / `ConfirmedNotRejected`, `coordinator.py:1699`. After a confirmed
  change to Smart mode the remembered device values are staged by the rule for user
  edits; a zero energy target beside a distance target makes the call fail although
  the charger changed (`smart_staging.py:143`: "A device report is not user input and
  the two cannot share a rule.").
* `staging_cancel` / `EditPersisted`, `coordinator.py:287`. A cancelled save leaves the
  change in memory; the same edit made again returns success without a save
  (`coordinator.py:351`: "Persist one validated local draft before completing a
  service call.").
* `stream_starved` / `SilentStreamRetried`, `coordinator.py:982` and `:1025`. Every pushed
  frame sets the poll timer anew, and the recovery check is a part of the poll cycle: a
  charger whose own two streams have fallen silent is not checked while another charger
  or a PowerOcean observer reports more often than every 30 s. The repository's README
  promises the recovery without that condition (lines 122 to 124);
  `docs/stream_timeline_observation_2026-09-11.md:202-211` saw one check in 4 h 41 min.

## 6. What is left

1. Work mode, display settings and currents as further requests of `SettingsWrite`: the
   same transaction with bundles of several keys (whose match is in `SettingEvidence`
   already, with `MatchedIsCurrent` proved of it) and prerequisites of their own.
2. Composition: charge actions, settings writes, phase writes and research calls under
   one lock, replacing `OtherAcquires`/`OtherReleases` in each. The contracts of the two
   are the natural interface: each is already proved with the other as a holder that
   takes and leaves the lock as it likes.
3. `CloudSession` as a refinement of a session that is usable, being renewed or waiting
   for the user, and `MqttClient` as one of a client with one connection.

### Not modelled

* Byte-level parsers and encoders: no state; what the core takes from them is which
  source reported which keys.
* Entities, sensors and their presentation: they read the coordinator and call it.
* HTTP, TLS, broker strings, the decryption of certificates, the dialog of the first
  setup: no state that the runtime shares.
* What becomes of a client that is rebuilt or added after the unloading disconnected
  it (hazards at `coordinator.py:781`, `:2353` and `:2363`): the code makes no promise
  about it that a property could quote.
* Subscription result codes, the stream timeline, log throttling, the capture's samples
  and correlations, redaction and the export: read by diagnostics only.
* The physical phase that a research record observes at its end, and the list of
  records.
* The 2/34 snapshots of the phase tracker, which only diagnostics read.
