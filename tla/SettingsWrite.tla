---------------------------- MODULE SettingsWrite ----------------------------
(***************************************************************************)
(* The two switch flags of a charger, each written by publishing the whole *)
(* flag word (coordinator.py: async_set_plug_and_play,                     *)
(* async_set_battery_discharge_disabled, _async_write_settings and the     *)
(* transaction under it).  Beside the calls run the charger, its Direct    *)
(* reports, the cloud's copy that a provider read returns, other control   *)
(* transactions, cancellation and the shutdown.                            *)
(*                                                                         *)
(* An action is the code between two awaits on the one asyncio loop.       *)
(***************************************************************************)
EXTENDS SettingEvidence, FiniteSets, Sequences

CONSTANTS
  Flags,          \* the bits of switch_bits_raw in this instance
  Calls,          \* service-call tasks
  PlainReports,   \* the sets of flags a 2/34 report may carry, {} for no such report
  Delays,         \* the Direct sources whose reports may be on their way for a while
  Providers,      \* the provider reads that return settings in this account
  ReplyTimeout,   \* the 5 s of wait_for(waiter)
  DirectWait,     \* _CONTROL_DIRECT_WAIT_SECONDS
  MaxRetries,     \* Len(_CONTROL_PROVIDER_RETRY_DELAYS)
  MaxFlight,      \* bound: commands between the broker and the charger
  Disturbances,   \* which of "app", "cancel", "shutdown", "other" may happen
  NoCall, OtherTx \* the lock is free; held by a transaction of another kind

Word == "word"
Keys == Flags \cup {Word}
Idle == "none"

ElapsedCap == (IF DirectFresh > ProviderFresh THEN DirectFresh ELSE ProviderFresh) + 1
WaitCap == IF ReplyTimeout > DirectWait THEN ReplyTimeout ELSE DirectWait

ASSUME WriteAssumption ==
  /\ Word \notin Flags
  /\ Providers \subseteq ProviderSources /\ PlainReports \subseteq SUBSET Flags
  /\ NoCall \notin Calls /\ OtherTx \notin Calls /\ NoCall # OtherTx
  /\ {ReplyTimeout, DirectWait, MaxRetries, MaxFlight} \subseteq Nat \ {0}
  /\ Disturbances \subseteq {"app", "cancel", "shutdown", "other"} /\ Delays \subseteq DirectSources

VARIABLES
  pc,       \* where each call is suspended
  req,      \* the flag and the value each call in progress wants
  lock,     \* _control_lock
  tx,       \* locals of the transaction that holds the lock
  obs,      \* _setting_observations, per key and source
  poll,     \* the provider read a refresh cycle has under way
  device,   \* the flags set in the charger
  cloud,    \* the flags a provider read returns
  flight,   \* published flag words the charger has not taken yet
  uplink,   \* a Direct report on its way from the charger
  orphans,  \* words whose publish job still runs without its call
  shutdown, \* how far async_shutdown got
  promised  \* history: what the newest confirmed write of each flag made it

callVars  == <<pc, req, lock, tx, promised, orphans>>
worldVars == <<device, cloud, flight, uplink>>
viewVars  == <<obs, poll>>
vars      == <<callVars, worldVars, viewVars, shutdown>>

\* `shown` and `held` are history: since the command the cloud has held the
\* wanted value, the charger has, or has said so in a report still on its way.
NoTx == [word |-> {}, sent |-> FALSE, reply |-> "none", waited |-> 0, elapsed |-> 0,
         tries |-> 0, shown |-> FALSE, held |-> FALSE]

NoReq == [flag |-> Word, on |-> FALSE]

NoReport == [source |-> Idle, keys |-> {}, word |-> {}]

\* A provider read: stamped as it starts, answered by the cloud's copy of some
\* moment before it returns.
NoPoll == [source |-> Idle, age |-> 0, answer |-> Unknown]

Requests == [flag : Flags, on : BOOLEAN]

\* The value of a key in a flag word.
ValueIn(w, k) == IF k = Word THEN w ELSE k \in w

InTx(c) == pc[c] \in {"publishing", "awaiting", "direct", "retrying"}

-----------------------------------------------------------------------------
Init ==
  /\ pc = [c \in Calls |-> "idle"] /\ req = [c \in Calls |-> NoReq]
  /\ lock = NoCall /\ tx = NoTx
  /\ obs = [k \in Keys |-> [s \in Sources |-> NoObs]]
  /\ poll = NoPoll
  /\ device = {} /\ cloud = {} /\ flight = <<>> /\ uplink = NoReport
  /\ orphans = {} /\ shutdown = "running"
  /\ promised = [f \in Flags |-> "unknown"]

-----------------------------------------------------------------------------
(* A flag write                                                            *)

Ask(c, f, v) ==
  /\ pc[c] = "idle"
  /\ pc' = [pc EXCEPT ![c] = "queued"]
  /\ req' = [req EXCEPT ![c] = [flag |-> f, on |-> v]]
  /\ promised' = [promised EXCEPT ![f] = "unknown"]
  /\ UNCHANGED <<lock, tx, orphans, worldVars, viewVars, shutdown>>

LockIgnoredMutant == TRUE
LockFree == lock = NoCall

\* The prerequisites rechecked under the lock; the word must be known.  The
\* connection is read afresh at each use, so each use may find it up or down;
\* the charging state does not bar a flag write.
Ready(online) == online /\ shutdown = "running" /\ CurrentValue(obs[Word]) # Unknown

\* _updated_switch_flags on the word read under the lock.
WantedWord(c) ==
  IF req[c].on THEN CurrentValue(obs[Word]) \cup {req[c].flag}
  ELSE CurrentValue(obs[Word]) \ {req[c].flag}

\* One provider snapshot already shows the whole SET and nothing contradicts it.
NothingToDo(c) ==
  BundleMatches(obs, [k \in {Word, req[c].flag} |-> IF k = Word THEN WantedWord(c) ELSE req[c].on])

\* A call that returns without a transaction.
Leave(c) ==
  /\ pc' = [pc EXCEPT ![c] = "idle"]
  /\ req' = [req EXCEPT ![c] = NoReq]
  /\ UNCHANGED <<lock, tx>>

Refuse(c, online) ==
  /\ pc[c] = "queued" /\ LockFree
  /\ ~Ready(online)
  /\ Leave(c)
  /\ UNCHANGED <<promised, orphans, worldVars, viewVars, shutdown>>

Noop(c) ==
  /\ pc[c] = "queued" /\ LockFree
  /\ Ready(TRUE) /\ NothingToDo(c)
  /\ Leave(c)
  /\ UNCHANGED <<promised, orphans, worldVars, viewVars, shutdown>>

\* Word w is as call c wants it.
Holds(w, c) == (req[c].flag \in w) = req[c].on
ReportHolds(c) == req[c].flag \in uplink.keys /\ Holds(uplink.word, c)

\* Register the waiter, stamp issued_at, hand the publish to the executor.
Begin(c) ==
  /\ pc[c] = "queued" /\ LockFree
  /\ Ready(TRUE) /\ ~NothingToDo(c)
  /\ lock' = c
  /\ tx' = [NoTx EXCEPT !.word = WantedWord(c), !.shown = Holds(cloud, c),
                         !.held = Holds(device, c) \/ ReportHolds(c)]
  /\ pc' = [pc EXCEPT ![c] = "publishing"]
  /\ UNCHANGED <<req, promised, orphans, worldVars, viewVars, shutdown>>

KeepLockMutant(c) == lock' = lock
ReleaseLock(c) == lock' = NoCall

\* Every way out of a transaction: the finally clause drops the waiter, the
\* lock is released.
End(c) ==
  /\ pc' = [pc EXCEPT ![c] = "idle"]
  /\ req' = [req EXCEPT ![c] = NoReq]
  /\ tx' = NoTx
  /\ ReleaseLock(c)

ExecutorSends(c) ==
  /\ pc[c] = "publishing" /\ ~tx.sent
  /\ Len(flight) < MaxFlight
  /\ tx' = [tx EXCEPT !.sent = TRUE]
  /\ flight' = Append(flight, tx.word)
  /\ UNCHANGED <<pc, req, lock, promised, orphans, device, cloud, uplink, viewVars, shutdown>>

PublishAccepted(c) ==
  /\ pc[c] = "publishing" /\ tx.sent
  /\ pc' = [pc EXCEPT ![c] = "awaiting"]
  /\ UNCHANGED <<req, lock, tx, promised, orphans, worldVars, viewVars, shutdown>>

PublishFails(c) ==
  /\ pc[c] = "publishing" /\ ~tx.sent
  /\ End(c)
  /\ UNCHANGED <<promised, orphans, worldVars, viewVars, shutdown>>

SilenceTakenMutant == tx.reply = "answered" \/ tx.waited >= ReplyTimeout
Answered == tx.reply = "answered"

Replied(c) ==
  /\ pc[c] = "awaiting" /\ Answered
  /\ pc' = [pc EXCEPT ![c] = "direct"]
  /\ tx' = [tx EXCEPT !.waited = 0]
  /\ UNCHANGED <<req, lock, promised, orphans, worldVars, viewVars, shutdown>>

ReplyTimesOut(c) ==
  /\ pc[c] = "awaiting" /\ tx.waited >= ReplyTimeout
  /\ End(c)
  /\ UNCHANGED <<promised, orphans, worldVars, viewVars, shutdown>>

\* async_shutdown cancelled the waiter under the call.
WaiterCancelled(c) ==
  /\ pc[c] = "awaiting" /\ tx.reply = "cancelled"
  /\ End(c)
  /\ UNCHANGED <<promised, orphans, worldVars, viewVars, shutdown>>

AnyAgeMutant(c) ==
  MatchingSource(obs[req[c].flag], ElapsedCap, req[c].on)
Evidence(c) ==
  MatchingSource(obs[req[c].flag], tx.elapsed, req[c].on)

\* The call returns success, on the evidence of one source class.
Succeed(c) ==
  /\ Evidence(c) # "none"
  /\ End(c)
  /\ promised' = [promised EXCEPT ![req[c].flag] = IF req[c].on THEN "on" ELSE "off"]
  /\ UNCHANGED <<orphans, worldVars, viewVars, shutdown>>

\* A pass of the 2 s Direct wait, its last look after the deadline included.
DirectConfirms(c) == pc[c] = "direct" /\ Succeed(c)

DirectWaitEnds(c) ==
  /\ pc[c] = "direct" /\ tx.waited >= DirectWait
  /\ Evidence(c) = "none"
  /\ pc' = [pc EXCEPT ![c] = "retrying"]
  /\ tx' = [tx EXCEPT !.waited = 0]
  /\ UNCHANGED <<req, lock, promised, orphans, worldVars, viewVars, shutdown>>

\* One provider attempt: after async_request_refresh came back, whether it
\* ran a cycle, was debounced or failed, the evidence is looked at again.
RetryConfirms(c) == pc[c] = "retrying" /\ Succeed(c)

RetryAgain(c) ==
  /\ pc[c] = "retrying" /\ Evidence(c) = "none"
  /\ tx.tries + 1 < MaxRetries
  /\ tx' = [tx EXCEPT !.tries = @ + 1]
  /\ UNCHANGED <<pc, req, lock, promised, orphans, worldVars, viewVars, shutdown>>

RetriesEnd(c) ==
  /\ pc[c] = "retrying" /\ Evidence(c) = "none"
  /\ tx.tries + 1 = MaxRetries
  /\ End(c)
  /\ UNCHANGED <<promised, orphans, worldVars, viewVars, shutdown>>

\* A publish job that runs in the executor outlives its cancelled call.
Cancel(c) ==
  /\ "cancel" \in Disturbances
  /\ \/ pc[c] = "queued" /\ Leave(c) /\ UNCHANGED orphans
     \/ /\ InTx(c) /\ End(c)
        /\ orphans' \in {orphans} \cup
             {o \in {orphans \cup {tx.word}} :
                pc[c] = "publishing" /\ ~tx.sent /\ Cardinality(o) <= MaxFlight}
  /\ UNCHANGED <<promised, worldVars, viewVars, shutdown>>

OrphanSends(w) ==
  /\ w \in orphans /\ Len(flight) < MaxFlight
  /\ orphans' = orphans \ {w}
  /\ flight' \in {flight, Append(flight, w)}
  /\ UNCHANGED <<pc, req, lock, tx, promised, device, cloud, uplink, viewVars, shutdown>>

-----------------------------------------------------------------------------
(* What runs beside the calls                                              *)

\* A 241/102 SET reply for the sequence number of the running transaction,
\* which the cloud may send before the charger acted.
SetReply ==
  /\ \E c \in Calls : pc[c] \in {"publishing", "awaiting"}
  /\ tx.reply = "none"
  /\ tx' = [tx EXCEPT !.reply = "answered"]
  /\ UNCHANGED <<pc, req, lock, promised, orphans, worldVars, viewVars, shutdown>>

\* The history of the transaction once the charger is as d.
HeldAfter(d) ==
  IF lock \in Calls /\ Holds(d, lock) THEN [tx EXCEPT !.held = TRUE] ELSE tx

\* The charger takes the published word, or never sees it.
DeviceTakes ==
  /\ flight # <<>>
  /\ device' = Head(flight) /\ flight' = Tail(flight)
  /\ tx' = HeldAfter(Head(flight))
  /\ UNCHANGED <<pc, req, lock, promised, orphans, cloud, uplink, viewVars, shutdown>>
CommandLost ==
  /\ flight # <<>>
  /\ flight' = Tail(flight)
  /\ UNCHANGED <<callVars, device, cloud, uplink, viewVars, shutdown>>
AppSets(f) ==
  /\ "app" \in Disturbances
  /\ device' = IF f \in device THEN device \ {f} ELSE device \cup {f}
  /\ tx' = HeldAfter(device')
  /\ promised' = [promised EXCEPT ![f] = "unknown"]
  /\ UNCHANGED <<pc, req, lock, orphans, cloud, flight, uplink, viewVars, shutdown>>
CloudSyncs ==
  /\ cloud # device /\ cloud' = device
  /\ tx' = IF lock \in Calls /\ Holds(device, lock) THEN [tx EXCEPT !.shown = TRUE] ELSE tx
  /\ UNCHANGED <<pc, req, lock, promised, orphans, device, flight, uplink, viewVars, shutdown>>

\* A source reports the keys of ks as they are in word w, as of `age` ticks ago.
Report(s, ks, w, age) ==
  obs' = [k \in Keys |->
            IF k \in ks /\ age <= FreshFor(s)
            THEN [obs[k] EXCEPT ![s] = Recorded(@, [value |-> ValueIn(w, k), age |-> age])]
            ELSE obs[k]]

\* A Direct report is stamped when it arrives: at once, or after what happens
\* while it is on its way.  Reports arrive in the order they were sent.
DirectReport(s, ks) ==
  /\ uplink = NoReport
  /\ \/ Report(s, ks, device, 0) /\ UNCHANGED uplink
     \/ /\ s \in Delays
        /\ uplink' = [source |-> s, keys |-> ks, word |-> device]
        /\ UNCHANGED obs
  /\ UNCHANGED <<callVars, device, cloud, flight, poll, shutdown>>
ReportArrives ==
  /\ uplink # NoReport /\ uplink' = NoReport
  /\ Report(uplink.source, uplink.keys, uplink.word, 0)
  /\ UNCHANGED <<callVars, device, cloud, flight, poll, shutdown>>

\* A 241/44 report carries the word; a 2/34 report carries flags, never the word.
FastReport == DirectReport("fast", Keys)
PlainReport(ks) == DirectReport("plain", ks)

\* A refresh cycle stamps each provider read before it awaits the answer.
PollStart(s) ==
  /\ poll = NoPoll
  /\ poll' = [NoPoll EXCEPT !.source = s]
  /\ UNCHANGED <<callVars, worldVars, obs, shutdown>>
CloudAnswers ==
  /\ poll # NoPoll /\ poll.answer = Unknown
  /\ poll' = [poll EXCEPT !.answer = cloud]
  /\ UNCHANGED <<callVars, worldVars, obs, shutdown>>
AnswerStampMutant == 0
ReadStamp == poll.age
PollRead ==
  /\ poll # NoPoll /\ poll.answer # Unknown
  /\ Report(poll.source, Keys, poll.answer, ReadStamp)
  /\ poll' = NoPoll
  /\ UNCHANGED <<callVars, worldVars, shutdown>>
PollFails ==
  /\ poll # NoPoll
  /\ poll' = NoPoll
  /\ UNCHANGED <<callVars, worldVars, obs, shutdown>>

OtherAcquires ==
  /\ "other" \in Disturbances
  /\ LockFree /\ lock' = OtherTx
  /\ UNCHANGED <<pc, req, tx, promised, orphans, worldVars, viewVars, shutdown>>
OtherReleases ==
  /\ lock = OtherTx /\ lock' = NoCall
  /\ UNCHANGED <<pc, req, tx, promised, orphans, worldVars, viewVars, shutdown>>
BeginShutdown ==
  /\ "shutdown" \in Disturbances
  /\ shutdown = "running" /\ shutdown' = "closing"
  /\ UNCHANGED <<callVars, worldVars, viewVars>>
CancelWaiters ==
  /\ shutdown = "closing" /\ shutdown' = "drained"
  /\ tx' = IF tx.reply = "none" /\ \E c \in Calls : pc[c] \in {"publishing", "awaiting"}
           THEN [tx EXCEPT !.reply = "cancelled"] ELSE tx
  /\ UNCHANGED <<pc, req, lock, promised, orphans, worldVars, viewVars>>

Capped(n, cap) == IF n < cap THEN n + 1 ELSE n

Tick ==
  /\ obs' = [k \in Keys |-> [s \in Sources |-> Aged(obs[k][s], s)]]
  /\ poll' = IF poll = NoPoll THEN poll ELSE [poll EXCEPT !.age = Capped(@, ElapsedCap)]
  /\ tx' = IF \E c \in Calls : InTx(c)
           THEN [tx EXCEPT !.elapsed = Capped(@, ElapsedCap),
                           !.waited = IF \E c \in Calls : pc[c] \in {"awaiting", "direct"}
                                      THEN Capped(@, WaitCap) ELSE @]
           ELSE tx
  /\ UNCHANGED <<pc, req, lock, promised, orphans, worldVars, shutdown>>

-----------------------------------------------------------------------------
Write(c) ==
  \/ \E f \in Flags, v \in BOOLEAN : Ask(c, f, v)
  \/ (\E online \in BOOLEAN : Refuse(c, online)) \/ Noop(c) \/ Begin(c)
  \/ ExecutorSends(c) \/ PublishAccepted(c) \/ PublishFails(c)
  \/ Replied(c) \/ ReplyTimesOut(c) \/ WaiterCancelled(c)
  \/ DirectConfirms(c) \/ DirectWaitEnds(c)
  \/ RetryConfirms(c) \/ RetryAgain(c) \/ RetriesEnd(c)
  \/ Cancel(c)

Environment ==
  \/ SetReply \/ DeviceTakes \/ CommandLost \/ CloudSyncs
  \/ \E f \in Flags : AppSets(f)
  \/ FastReport \/ (\E ks \in PlainReports : PlainReport(ks)) \/ ReportArrives
  \/ \E s \in Providers : PollStart(s)
  \/ CloudAnswers \/ PollRead \/ PollFails
  \/ OtherAcquires \/ OtherReleases \/ BeginShutdown \/ CancelWaiters
  \/ \E w \in orphans : OrphanSends(w)
  \/ Tick

Next == (\E c \in Calls : Write(c)) \/ Environment

Spec == Init /\ [][Next]_vars

\* The clock advances, an executor job ends, a ready task resumes, a refresh
\* that an attempt asked for ends, a transaction of another kind ends, and
\* asyncio.Lock passes no waiting task over for ever.
Fairness ==
  /\ WF_vars(Tick) /\ WF_vars(OtherReleases)
  /\ \A c \in Calls :
       /\ WF_vars(PublishAccepted(c) \/ PublishFails(c))
       /\ WF_vars(Replied(c) \/ ReplyTimesOut(c) \/ WaiterCancelled(c))
       /\ WF_vars(DirectConfirms(c) \/ DirectWaitEnds(c))
       /\ WF_vars(RetryConfirms(c) \/ RetryAgain(c) \/ RetriesEnd(c))
       /\ SF_vars((\E online \in BOOLEAN : Refuse(c, online)) \/ Noop(c) \/ Begin(c))
FairSpec == Spec /\ Fairness

-----------------------------------------------------------------------------
(* Properties                                                              *)

Values(k) == IF k = Word THEN SUBSET Flags ELSE BOOLEAN

\* Every variable keeps its shape, and no observation outlives its freshness.
TypeOK ==
  /\ pc \in [Calls -> {"idle", "queued", "publishing", "awaiting", "direct", "retrying"}]
  /\ req \in [Calls -> Requests \cup {NoReq}]
  /\ \A c \in Calls : pc[c] # "idle" => req[c] \in Requests
  /\ lock \in Calls \cup {NoCall, OtherTx}
  /\ tx \in [word : SUBSET Flags, sent : BOOLEAN, reply : {"none", "answered", "cancelled"},
             waited : 0..WaitCap, elapsed : 0..ElapsedCap,
             tries : 0..MaxRetries, shown : BOOLEAN, held : BOOLEAN]
  /\ \A k \in Keys : obs[k] \in [Sources -> Observation(Values(k)) \cup {NoObs}]
  /\ \A k \in Keys : \A s \in FreshSources(obs[k]) : obs[k][s].age <= FreshFor(s)
  /\ poll \in [source : Providers \cup {Idle}, age : 0..ElapsedCap,
               answer : (SUBSET Flags) \cup {Unknown}]
  /\ device \subseteq Flags /\ cloud \subseteq Flags
  /\ flight \in Seq(SUBSET Flags) /\ orphans \subseteq SUBSET Flags
  /\ uplink \in [source : {"plain", "fast", Idle}, keys : SUBSET Keys, word : SUBSET Flags]
  /\ shutdown \in {"running", "closing", "drained"}
  /\ promised \in [Flags -> {"unknown", "on", "off"}]

\* The lock names exactly the call in its transaction, and what a transaction
\* leaves behind is nothing: its waiter, word and deadline go with it.
TxExact ==
  /\ \A c \in Calls : InTx(c) <=> lock = c
  /\ (\A c \in Calls : ~InTx(c)) => tx = NoTx

\* The step in which a write returns success on the evidence of v.
Confirmed(c, v) == (DirectConfirms(c) \/ RetryConfirms(c)) /\ Evidence(c) = v

\* A write is reported done only when the newest of everything fresh that is
\* known of its flag, whatever the source, is from after the command and shows
\* the requested value.
DoneByNewest ==
  [][\A c \in Calls : \A v \in {"direct", "provider"} : Confirmed(c, v) =>
       LET o == obs[req[c].flag] IN
         \E s \in FreshSources(o) :
           /\ o[s].age < tx.elapsed
           /\ \A t \in FreshSources(o) :
                o[t].age <= o[s].age => o[t].value = req[c].on]_vars

\* What a write was just reported to be is never contradicted by the value the
\* next read-modify-write would start from; a write that is skipped as done
\* would have started from the very word it asks for.
ReportedIsCurrent ==
  [][\A c \in Calls :
       /\ \A v \in {"direct", "provider"} : Confirmed(c, v) =>
            CurrentValue(obs[req[c].flag]) \in {req[c].on, Unknown}
       /\ Noop(c) => /\ CurrentValue(obs[req[c].flag]) = req[c].on
                     /\ CurrentValue(obs[Word]) = WantedWord(c)]_vars

\* A Direct report confirms a write only with a value the charger itself has held
\* since the command, or had put into a report that was still on its way then:
\* no reply of the cloud, no reply that answers another command and no report
\* received before the command stands in for the charger.
DoneOnDevice ==
  [][\A c \in Calls : Confirmed(c, "direct") => tx.held]_vars

\* A provider confirms a write only with something the cloud held after the
\* command, never with an answer it gave before.
ProviderAnsweredAfter ==
  [][\A c \in Calls : Confirmed(c, "provider") => tx.shown]_vars

\* A flag a write was confirmed to have set stays so until somebody asks for
\* another value of that flag: a write of the other flag does not take it back.
ConfirmedFlagKept ==
  [][\A f \in Flags : (f \in device) # (f \in device') =>
       promised'[f] = "unknown" \/ promised'[f] = (IF f \in device' THEN "on" ELSE "off")]_vars

StageOf(c) ==
  IF InTx(c) THEN "issued" ELSE IF pc[c] = "queued" THEN "asked" ELSE "free"

\* SettingsWrite implements WriteContract.
Contract == INSTANCE WriteContract WITH
  stage <- [c \in Calls |-> StageOf(c)], wants <- req,
  published <- tx.sent, answered <- tx.reply = "answered",
  holder <- lock, Nobody <- NoCall, Other <- OtherTx

\* Every run of the settings transaction, seen as who asked for what, what was
\* published and what was answered, is one the contract allows: no path of
\* _async_execute_settings_transaction reports success for a command that was
\* not published or not answered, publishes twice or runs beside another.
ImplementsWriteContract == Contract!Spec

\* Every write returns to its caller, whatever the charger, the cloud and the
\* other transactions do.
WriteReturns == \A c \in Calls : pc[c] # "idle" ~> pc[c] = "idle"
=============================================================================
