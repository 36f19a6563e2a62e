-------------------------- MODULE ReconnectBackoff --------------------------
(***************************************************************************)
(* When the poll's watchdog rebuilds a client whose link is down           *)
(* (try_reconnect in ecoflow/cloud_mqtt.py): the growing delay, its tiers  *)
(* and its cap, and the counter that starts again.                         *)
(***************************************************************************)
EXTENDS Naturals

CONSTANTS
  BaseDelay, MaxDelay,  \* base_reconnect_delay, max_reconnect_delay
  MaxAttempts,          \* max_reconnect_attempts
  ResetInterval,        \* _counter_reset_interval
  Pace                  \* seconds between two moments looked at

ASSUME BackoffAssumption ==
  /\ BaseDelay \in Nat /\ MaxDelay \in Nat \ {0} /\ ResetInterval \in Nat
  /\ MaxAttempts \in Nat \ {0} /\ Pace \in Nat

VARIABLES
  attempts,      \* reconnect_attempts
  sinceAttempt,  \* age of last_reconnect_time
  sinceReset,    \* age of _last_counter_reset_time
  down,          \* the link is not up
  looked         \* the watchdog has looked at this moment

backoffVars == <<attempts, sinceAttempt, sinceReset, down, looked>>

\* Ages beyond it make no difference.
Horizon == IF MaxDelay > ResetInterval THEN MaxDelay ELSE ResetInterval
Aging(age) == IF age + Pace < Horizon THEN age + Pace ELSE Horizon

\* Both clocks start at 0, long ago.
BackoffInit ==
  /\ attempts = 0 /\ sinceAttempt = Horizon /\ sinceReset = Horizon
  /\ down = TRUE /\ looked = FALSE

Delay(n) == IF BaseDelay * 2^n < MaxDelay THEN BaseDelay * 2^n ELSE MaxDelay
TieredDelay(n) ==
  IF n <= 3 THEN Delay(n) ELSE IF n <= 6 THEN (Delay(n) * 3) \div 2 ELSE Delay(n) * 2

\* The tier does not push the delay beyond its cap.
UncappedMutant(n) == sinceAttempt >= TieredDelay(n)
DelayOver(n) == sinceAttempt >= MaxDelay \/ sinceAttempt >= TieredDelay(n)

\* try_reconnect, as far as its attempt: the counter may start again first.
CounterOver == attempts >= MaxAttempts /\ sinceReset >= ResetInterval
CountedOut  == attempts >= MaxAttempts /\ sinceReset < ResetInterval
Counted     == IF CounterOver THEN 0 ELSE attempts

Look ==
  /\ ~looked /\ looked' = TRUE
  /\ IF ~down \/ CountedOut THEN UNCHANGED <<attempts, sinceAttempt, sinceReset>>
     ELSE /\ sinceReset' = IF CounterOver THEN 0 ELSE sinceReset
          /\ attempts' = IF DelayOver(Counted) THEN Counted + 1 ELSE Counted
          /\ sinceAttempt' = IF DelayOver(Counted) THEN 0 ELSE sinceAttempt
  /\ UNCHANGED down

TimePasses ==
  /\ looked' = FALSE
  /\ sinceAttempt' = Aging(sinceAttempt) /\ sinceReset' = Aging(sinceReset)
  /\ UNCHANGED <<attempts, down>>

\* on_connect and on_disconnect, after an attempt or by Paho's own retries.
LinkUp ==
  /\ down /\ down' = FALSE /\ attempts' = 0
  /\ UNCHANGED <<sinceAttempt, sinceReset, looked>>
LinkDown ==
  /\ ~down /\ down' = TRUE /\ looked' = FALSE
  /\ UNCHANGED <<attempts, sinceAttempt, sinceReset>>

BackoffNext == Look \/ TimePasses \/ LinkUp \/ LinkDown
BackoffSpec == BackoffInit /\ [][BackoffNext]_backoffVars

-----------------------------------------------------------------------------
(* Properties                                                              *)

\* Every variable keeps its shape.
BackoffTypeOK ==
  /\ attempts \in 0..MaxAttempts
  /\ sinceAttempt \in 0..Horizon /\ sinceReset \in 0..Horizon
  /\ down \in BOOLEAN /\ looked \in BOOLEAN

\* The watchdog never gives up: a link that is still down when it looks has been
\* tried again within the longest delay, whatever the counter says.
RetryWithin == down /\ looked => sinceAttempt < Horizon
=============================================================================
