--------------------------- MODULE StreamRecovery ---------------------------
(***************************************************************************)
(* The recovery of a charger's silent direct stream (stream_recovery.py,   *)
(* and its use in coordinator.py): the check of every poll cycle that      *)
(* rebuilds the client after a long silence, the two buttons that renew    *)
(* its subscriptions or rebuild it, and the one lock they wait on.         *)
(*                                                                         *)
(* A time stamp is kept as its age in ticks, up to the largest that is     *)
(* compared; Never is a report, or an attempt, that has not been.  What a  *)
(* rebuild does inside the client is in MqttClient, and how its link comes *)
(* up again in CloudSession.                                               *)
(***************************************************************************)
EXTENDS Naturals

CONSTANTS
  Presses,       \* presses of the two buttons that may be under way at a time
  FreshTime,     \* _DIRECT_SETTINGS_FRESH_SECONDS
  ConfirmTime,   \* _DIRECT_STREAM_CONFIRM_SECONDS
  StaleTime,     \* _AUTOMATIC_RECOVERY_STALE_SECONDS
  CooldownTime,  \* _AUTOMATIC_RECOVERY_COOLDOWN_SECONDS
  PollTime       \* UPDATE_INTERVAL_SECONDS

ASSUME StreamAssumption ==
  /\ {"cycle", "nobody", "other"} \cap Presses = {}
  /\ FreshTime \in Nat /\ ConfirmTime \in Nat /\ StaleTime \in Nat /\ CooldownTime \in Nat
  /\ FreshTime < StaleTime
  /\ PollTime \in Nat \ {0}

VARIABLES
  settingsAge,   \* of _last_direct_settings_at
  heartbeatAge,  \* of _last_heartbeat_at
  attemptAge,    \* of _last_automatic_reconnect_at
  turn,          \* the holder of _direct_stream_lock
  call,          \* per caller, what it does and where it is
  watchAge,      \* of the holder's requested_at
  resumed,       \* a settings report has come since
  up,            \* the client is there and its link is up
  unloading,     \* _shutting_down
  pollTimer,     \* ticks since the timer of the poll cycle was last set
  sinceDue       \* history: ticks since an automatic attempt was decided on

ageVars    == <<settingsAge, heartbeatAge, attemptAge, sinceDue>>
callVars   == <<turn, call>>
watchVars  == <<watchAge, resumed>>
streamVars == <<ageVars, callVars, watchVars, up, unloading, pollTimer>>

StreamCallers == Presses \cup {"cycle"}
NoCall == [does |-> "nothing", at |-> "idle"]
Never  == StaleTime + CooldownTime + 1
Limited(age, limit) == IF age = Never THEN Never ELSE IF age < limit THEN age + 1 ELSE limit

StreamInit ==
  /\ settingsAge = Never /\ heartbeatAge = Never /\ attemptAge = Never
  /\ turn = "nobody" /\ call = [c \in StreamCallers |-> NoCall]
  /\ watchAge = 0 /\ resumed = FALSE /\ up = FALSE /\ unloading = FALSE
  /\ sinceDue = CooldownTime /\ pollTimer = 0

Asks(c, what)   == call' = [call EXCEPT ![c] = [does |-> what, at |-> "waiting"]]
Goes(c, place)  == call' = [call EXCEPT ![c].at = place]
Returns(c)      == call' = [call EXCEPT ![c] = NoCall]

\* Home Assistant runs a cycle when the timer is over.  It sets the timer when a
\* cycle ends, and again whenever data is pushed between two cycles.
PollDue    == pollTimer >= PollTime
SetTimer   == pollTimer' = 0
TimerAfter(c) == IF c = "cycle" THEN SetTimer ELSE UNCHANGED pollTimer

-----------------------------------------------------------------------------
(* The calls                                                               *)

\* recovery_reason: both streams have been there, and both are silent.
Silent ==
  /\ settingsAge # Never /\ settingsAge >= StaleTime
  /\ heartbeatAge # Never /\ heartbeatAge >= StaleTime
CooledDown == attemptAge >= CooldownTime

\* The stamp is set before the attempt, so that one that fails counts as well.
UnstampedMutant == attemptAge' = attemptAge
StampAttempt == attemptAge' = 0
RecoveryDue == ~unloading /\ up /\ Silent /\ CooledDown
CycleChecks ==
  /\ call["cycle"] = NoCall /\ RecoveryDue
  /\ StampAttempt /\ sinceDue' = 0 /\ Asks("cycle", "rebuild")
  /\ UNCHANGED <<settingsAge, heartbeatAge, turn, watchVars, up, unloading, pollTimer>>
CycleLooks ==
  /\ call["cycle"] = NoCall /\ ~RecoveryDue /\ SetTimer
  /\ UNCHANGED <<ageVars, callVars, watchVars, up, unloading>>
\* A cycle runs when its timer is over, or earlier when a refresh is requested.
CycleRuns == CycleChecks \/ CycleLooks

\* The buttons go with their platform before the entry is unloaded; a renewal
\* needs the link.
Press(p, what) ==
  /\ call[p] = NoCall /\ ~unloading /\ (what = "renew" => up)
  /\ Asks(p, what)
  /\ UNCHANGED <<ageVars, turn, watchVars, up, unloading, pollTimer>>

\* Under the lock a stream that reports again is left alone.
ReportsAgain == settingsAge <= FreshTime
LeaveAlone(c) ==
  /\ call[c].at = "waiting" /\ turn = "nobody" /\ ReportsAgain
  /\ Returns(c) /\ TimerAfter(c)
  /\ UNCHANGED <<ageVars, turn, watchVars, up, unloading>>
Attempt(c) ==
  /\ call[c].at = "waiting" /\ turn = "nobody" /\ ~ReportsAgain
  /\ turn' = c /\ watchAge' = 0 /\ resumed' = FALSE /\ Goes(c, "working")
  /\ UNCHANGED <<ageVars, up, unloading, pollTimer>>

\* The executor job ends: a rebuild takes the link down, unless somebody else is
\* rebuilding the client; a job that fails raises.
LinkAfter(c) == up' \in IF call[c].does = "rebuild" THEN {FALSE, up} ELSE {up}
Worked(c) ==
  /\ call[c].at = "working" /\ LinkAfter(c) /\ Goes(c, "watching")
  /\ UNCHANGED <<ageVars, turn, watchVars, unloading, pollTimer>>

KeptTurnMutant == turn' = turn
FreeTurn == turn' = "nobody"
Failed(c) ==
  /\ call[c].at = "working" /\ LinkAfter(c) /\ Returns(c) /\ FreeTurn /\ TimerAfter(c)
  /\ UNCHANGED <<ageVars, watchVars, unloading>>
\* The wait ends with a report, or when its time is over.
Watched(c) ==
  /\ call[c].at = "watching" /\ (resumed \/ watchAge >= ConfirmTime)
  /\ Returns(c) /\ FreeTurn /\ TimerAfter(c)
  /\ UNCHANGED <<ageVars, watchVars, up, unloading>>

\* Another charger's call has the lock.
OtherTurn ==
  /\ turn \in {"nobody", "other"}
  /\ turn' = IF turn = "nobody" THEN "other" ELSE "nobody"
  /\ UNCHANGED <<ageVars, call, watchVars, up, unloading, pollTimer>>

-----------------------------------------------------------------------------
(* Reports, the link, time and the unloading                               *)

\* Every frame that is parsed pushes its data and sets the timer of the cycle.
SettingsReport ==
  /\ settingsAge' = 0 /\ resumed' = TRUE /\ SetTimer
  /\ UNCHANGED <<heartbeatAge, attemptAge, sinceDue, callVars, watchAge, up, unloading>>
HeartbeatReport ==
  /\ heartbeatAge' = 0 /\ SetTimer
  /\ UNCHANGED <<settingsAge, attemptAge, sinceDue, callVars, watchVars, up, unloading>>

\* So does any other frame: of another family, of another charger, or a report of
\* a PowerOcean observer.
OtherFrame == SetTimer /\ UNCHANGED <<ageVars, callVars, watchVars, up, unloading>>

LinkComesUp ==
  ~up /\ up' = TRUE  /\ UNCHANGED <<ageVars, callVars, watchVars, unloading, pollTimer>>
LinkIsLost ==
  up  /\ up' = FALSE /\ UNCHANGED <<ageVars, callVars, watchVars, unloading, pollTimer>>

StreamTick ==
  /\ settingsAge' = Limited(settingsAge, StaleTime)
  /\ heartbeatAge' = Limited(heartbeatAge, StaleTime)
  /\ attemptAge' = Limited(attemptAge, CooldownTime)
  /\ sinceDue' = Limited(sinceDue, CooldownTime)
  /\ watchAge' = Limited(watchAge, ConfirmTime)
  /\ pollTimer' = IF PollDue THEN pollTimer ELSE pollTimer + 1
  /\ UNCHANGED <<callVars, resumed, up, unloading>>

Unload ==
  /\ ~unloading /\ unloading' = TRUE
  /\ UNCHANGED <<ageVars, callVars, watchVars, up, pollTimer>>

-----------------------------------------------------------------------------
CallStep(c) == LeaveAlone(c) \/ Attempt(c) \/ Worked(c) \/ Failed(c) \/ Watched(c)
PressSome   == \E p \in Presses, what \in {"renew", "rebuild"} : Press(p, what)

StreamNext ==
  \/ CycleRuns \/ PressSome \/ OtherTurn \/ \E c \in StreamCallers : CallStep(c)
  \/ SettingsReport \/ HeartbeatReport \/ OtherFrame \/ LinkComesUp \/ LinkIsLost
  \/ StreamTick \/ Unload

StreamSpec == StreamInit /\ [][StreamNext]_streamVars

-----------------------------------------------------------------------------
(* Properties                                                              *)

\* Every variable keeps its shape.
StreamTypeOK ==
  /\ settingsAge \in 0..StaleTime \cup {Never} /\ heartbeatAge \in 0..StaleTime \cup {Never}
  /\ attemptAge \in 0..CooldownTime \cup {Never} /\ sinceDue \in 0..CooldownTime
  /\ watchAge \in 0..ConfirmTime /\ pollTimer \in 0..PollTime
  /\ turn \in StreamCallers \cup {"nobody", "other"}
  /\ call \in [StreamCallers -> [does : {"nothing", "renew", "rebuild"},
                                 at : {"idle", "waiting", "working", "watching"}]]
  /\ resumed \in BOOLEAN /\ up \in BOOLEAN /\ unloading \in BOOLEAN

\* However automatic attempts end, failed, overtaken by a report or left alone
\* behind a press, the next is decided on only after the whole cooldown, and never
\* while a call is under way: failures do not loop at the pace of the poll.
FailuresPaced ==
  [][sinceDue' = 0 /\ sinceDue # 0 =>
       sinceDue = CooldownTime /\ call["cycle"].at = "idle"]_streamVars

\* One call at a time works on the stream or watches it, the holder of the lock: an
\* automatic attempt and a press never rebuild the client at the same time.
OneAttempt ==
  \A c \in StreamCallers : call[c].at \in {"working", "watching"} <=> turn = c

\* A stream that stays silent is rebuilt again and again, whatever became of the
\* attempts before and of the presses that held the lock, as long as the link comes
\* up again, nobody goes on pressing, and no other frames go on arriving: each of
\* them puts the next cycle off.
StaysSilent == <>[](Silent /\ ~unloading)
StreamRetried ==
  (/\ StaysSilent
   /\ <>[][~LinkIsLost /\ ~PressSome /\ ~OtherFrame]_streamVars)
    => []<><<Attempt("cycle")>>_streamVars

\* The same with other frames that go on arriving, as README.md:122 has it.
SilentStreamRetried ==
  (/\ StaysSilent
   /\ <>[][~LinkIsLost /\ ~PressSome]_streamVars)
    => []<><<Attempt("cycle")>>_streamVars
=============================================================================
