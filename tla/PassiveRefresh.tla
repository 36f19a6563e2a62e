--------------------------- MODULE PassiveRefresh ---------------------------
(***************************************************************************)
(* The provider read that follows a settings change made in the EcoFlow    *)
(* app (passive_refresh.py, and its use in coordinator.py): the gate that  *)
(* matches a 241/102 reply with a request seen before, the delayed and     *)
(* coalesced refresh, and its closing.                                     *)
(*                                                                         *)
(* A frame carries one header, and a header is its key (role, device       *)
(* prefix, sequence number).  _refresh asks Home Assistant's debouncer for *)
(* a read: it returns at once while a read is under way or has just ended, *)
(* and otherwise once the read has ended, in whatever way.                 *)
(***************************************************************************)
EXTENDS Naturals, Sequences

CONSTANTS
  Keys,       \* of the requests seen
  MaxPending  \* requests the gate remembers (32)

ASSUME PassiveAssumption == MaxPending \in Nat \ {0}

VARIABLES
  pendingKeys,  \* the gate's _pending, oldest first
  ownWaiters,   \* the keys _reply_waiters has a waiter for
  wanted,       \* the coalescer's _pending
  task,         \* its task: none, sleeping or refreshing
  ended,        \* _closed, and _shutting_down
  asked,        \* history: requests that no reply has answered
  confirmed     \* history: app changes whose reply no read has followed yet

passiveVars == <<pendingKeys, ownWaiters, wanted, task, ended, asked, confirmed>>

PassiveInit ==
  /\ pendingKeys = <<>> /\ ownWaiters = {}
  /\ wanted = FALSE /\ task = "none" /\ ended = FALSE
  /\ asked = {} /\ confirmed = {}

Remembered(k) == \E i \in DOMAIN pendingKeys : pendingKeys[i] = k
Place(k) == CHOOSE i \in DOMAIN pendingKeys : pendingKeys[i] = k
Without(k) ==
  IF ~Remembered(k) THEN pendingKeys
  ELSE [i \in 1..Len(pendingKeys) - 1 |-> pendingKeys[IF i < Place(k) THEN i ELSE i + 1]]

\* The integration's own transaction waits for the reply to its request, and may
\* stop waiting before the reply comes.
OwnWaits(k) ==
  /\ ownWaiters' = ownWaiters \cup {k}
  /\ UNCHANGED <<pendingKeys, wanted, task, ended, asked, confirmed>>
OwnGivesUp(k) ==
  /\ k \in ownWaiters /\ ownWaiters' = ownWaiters \ {k}
  /\ UNCHANGED <<pendingKeys, wanted, task, ended, asked, confirmed>>

\* A request seen anew moves to the end; beyond the limit the oldest is forgotten.
OneTooManyMutant(keys) == Len(keys) > MaxPending + 1
Overfull(keys) == Len(keys) > MaxPending
RequestSeen(k) ==
  /\ ~ended
  /\ LET moved == Append(Without(k), k) IN
       pendingKeys' = IF Overfull(moved) THEN Tail(moved) ELSE moved
  /\ asked' = asked \cup {k}
  /\ UNCHANGED <<ownWaiters, wanted, task, ended, confirmed>>

\* A task under way takes the request over.
Request == wanted' = TRUE /\ task' = IF task = "none" THEN "sleeping" ELSE task

\* A reply is matched once; that of an own transaction refreshes nothing.
KeptKeyMutant(k) == pendingKeys' = pendingKeys
Popped(k) == pendingKeys' = Without(k)
ReplySeen(k) ==
  /\ ownWaiters' = ownWaiters \ {k} /\ asked' = asked \ {k}
  /\ IF ended \/ ~Remembered(k) THEN UNCHANGED <<pendingKeys, wanted, task, confirmed>>
     ELSE /\ Popped(k)
          /\ IF k \in ownWaiters THEN UNCHANGED <<wanted, task, confirmed>>
             ELSE /\ Request
                  /\ confirmed' = confirmed \cup (IF k \in asked THEN {k} ELSE {})
  /\ UNCHANGED ended

\* After the delay the flag is cleared, and then the read is asked for.
DelayPasses ==
  /\ task = "sleeping"
  /\ wanted' = FALSE /\ confirmed' = {}
  /\ task' \in {"none", "refreshing"}
  /\ UNCHANGED <<pendingKeys, ownWaiters, ended, asked>>

\* A reply that came in while the read was under way asks for one more.
LostWakeupMutant == wanted' = FALSE /\ task' = "none"
NextPass == wanted' = wanted /\ task' = IF wanted THEN "sleeping" ELSE "none"
RefreshReturns ==
  /\ task = "refreshing" /\ NextPass
  /\ UNCHANGED <<pendingKeys, ownWaiters, ended, asked, confirmed>>

\* async_shutdown: the task is cancelled wherever it is.
ClosePassive ==
  /\ ~ended /\ ended' = TRUE /\ wanted' = FALSE /\ task' = "none"
  /\ UNCHANGED <<pendingKeys, ownWaiters, asked, confirmed>>

PassiveNext ==
  \/ \E k \in Keys : OwnWaits(k) \/ OwnGivesUp(k) \/ RequestSeen(k) \/ ReplySeen(k)
  \/ DelayPasses \/ RefreshReturns \/ ClosePassive

PassiveSpec == PassiveInit /\ [][PassiveNext]_passiveVars

-----------------------------------------------------------------------------
(* Properties                                                              *)

\* Every variable keeps its shape, and the gate its limit.
PassiveTypeOK ==
  /\ pendingKeys \in Seq(Keys) /\ Len(pendingKeys) <= MaxPending
  /\ ownWaiters \subseteq Keys /\ asked \subseteq Keys /\ confirmed \subseteq Keys
  /\ wanted \in BOOLEAN /\ ended \in BOOLEAN
  /\ task \in {"none", "sleeping", "refreshing"}

\* A read is asked for only after the reply to a request that was seen and had not
\* been answered before: never again for a reply that comes twice, nor for an own
\* one.
RefreshOnlyForReply == [][DelayPasses => confirmed # {}]_passiveVars

\* A reply that confirmed a change is never forgotten: until a read is asked for
\* after it, the flag is up and a task is under way that will look at it.
NoLostReply == confirmed # {} /\ ~ended => wanted /\ task # "none"

\* A confirmed change is followed by a read asked for after it, wherever the
\* refresh was when the reply came, unless the entry is unloaded.
ReplyServed == []<>(confirmed = {} \/ ended)
=============================================================================
