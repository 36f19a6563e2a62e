----------------------------- MODULE LinkProofs -----------------------------
(***************************************************************************)
(* Proofs about one MQTT client (MqttClient), the read that follows a      *)
(* change in the app (PassiveRefresh), the watchdog's delays               *)
(* (ReconnectBackoff), and the recovery of a silent stream                 *)
(* (StreamRecovery).                                                       *)
(*                                                                         *)
(* The jobs that change a client hold its lock while they do, so what a    *)
(* rebuild has closed is still closed when it lets go of it, and no object *)
(* but the current one ever has its socket open.                           *)
(***************************************************************************)
EXTENDS MqttClient, PassiveRefresh, ReconnectBackoff, StreamRecovery, TLAPS

-----------------------------------------------------------------------------
(* The client                                                              *)

Locked == {"first create", "create", "dial", "dial to connect", "start", "stop", "join", "close",
           "forget", "stop to disconnect", "join to disconnect", "close to disconnect"}

\* The inductive invariant of NoOrphanThread and NoJobStuck.
LockHeld     == \A w \in Workers : job[w] \in Locked => lock = w
ClosedFirst  == \A w \in Workers : job[w] = "forget" => current = NoObject \/ link[current] = "closed"
CreatesFresh == \A w \in Workers : job[w] \in {"create", "first create"} => current = NoObject
LockUsed     == \A w \in Workers : lock = w => job[w] \in Locked
JoinsTold    == \A w \in Workers : job[w] \in {"join", "join to disconnect"} =>
                                   current = NoObject \/ current \in stopping
OnlyCurrentOpen == \A o \in Objects : link[o] = "open" => o = current
ClientInv ==
  /\ ClientTypeOK /\ LockHeld /\ LockUsed /\ JoinsTold
  /\ ClosedFirst /\ CreatesFresh /\ OnlyCurrentOpen

\* The invariant holds at first.
LEMMA ClientStarts == ClientInit => ClientInv
<1> SUFFICES ASSUME ClientInit PROVE ClientInv OBVIOUS
<1>1. ClientTypeOK
  BY DEF ClientInit, ClientTypeOK
<1>2. LockHeld /\ LockUsed /\ JoinsTold /\ ClosedFirst /\ CreatesFresh /\ OnlyCurrentOpen
  BY ClientAssumption DEF ClientInit, LockHeld, LockUsed, JoinsTold, ClosedFirst, CreatesFresh,
       OnlyCurrentOpen, Locked
<1> QED BY <1>1, <1>2 DEF ClientInv

\* A step of a job keeps it: each action below is one access of one worker.
LEMMA JobKeeps ==
  ASSUME ClientInv, NEW w \in Workers,
         BeginSetup(w) \/ BeginDisconnect(w) \/ BeginRebuild(w) \/ JobStep(w)
  PROVE  ClientInv'
<1> USE ClientAssumption DEF ClientInv, ClientTypeOK, LockHeld, LockUsed, JoinsTold, ClosedFirst, CreatesFresh,
      OnlyCurrentOpen, Locked, Goto, Release, LockFree
<1>1. CASE BeginSetup(w)
  BY <1>1 DEF BeginSetup, Listed
<1>2. CASE BeginDisconnect(w)
  BY <1>2 DEF BeginDisconnect
<1>3. CASE BeginRebuild(w)
  BY <1>3 DEF BeginRebuild
<1>4. CASE LockToDisconnect(w)
  <2>1. lock = NoWorker /\ UNCHANGED <<held, current, link, thread, stopping, connected>>
    BY <1>4 DEF LockToDisconnect
  <2>2. \/ lock' = NoWorker /\ job' = [job EXCEPT ![w] = "idle"]
        \/ lock' = w /\ job' = [job EXCEPT ![w] = "stop to disconnect"]
    BY <1>4 DEF LockToDisconnect
  <2>3. \A v \in Workers : job[v] \notin Locked /\ (v # w => job'[v] = job[v])
    BY <2>1, <2>2
  <2>4. /\ lock' = NoWorker => job'[w] = "idle"
        /\ lock' # NoWorker => lock' = w /\ job'[w] = "stop to disconnect"
    BY <2>2
  <2>5. ClientTypeOK' /\ job'[w] \in {"idle", "stop to disconnect"}
    BY <2>1, <2>2
  <2> QED BY <2>1, <2>3, <2>4, <2>5
<1>5. CASE LockToConnect(w)
  <2>1. lock = NoWorker /\ UNCHANGED <<held, current, link, thread, stopping, connected>>
    BY <1>5 DEF LockToConnect
  <2>2. \/ lock' = NoWorker /\ job' = [job EXCEPT ![w] = "read to start"]
        \/ lock' = w /\ current = NoObject /\ job' = [job EXCEPT ![w] = "create"]
        \/ lock' = w /\ job' = [job EXCEPT ![w] = "dial to connect"]
    BY <1>5, <2>1 DEF LockToConnect
  <2>3. \A v \in Workers : job[v] \notin Locked /\ (v # w => job'[v] = job[v])
    BY <2>1, <2>2
  <2>4. /\ lock' = NoWorker => job'[w] = "read to start"
        /\ lock' # NoWorker => lock' = w /\ job'[w] \in {"create", "dial to connect"}
        /\ job'[w] = "create" => current = NoObject
    BY <2>2
  <2>5. ClientTypeOK' /\ job'[w] \in {"read to start", "create", "dial to connect"}
    BY <2>1, <2>2
  <2> QED BY <2>1, <2>3, <2>4, <2>5
<1>6. CASE LoopStop(w)
  BY <1>6 DEF LoopStop
<1>7. CASE Join(w)
  BY <1>7 DEF Join, Joined
<1>8. CASE CloseSocket(w)
  BY <1>8 DEF CloseSocket, Closed
<1>9. CASE Disconnected(w)
  BY <1>9 DEF Disconnected, Closed
<1>10. CASE Forget(w)
  BY <1>10 DEF Forget
<1>11. CASE Create(w)
  <2>1. CASE Release(w) /\ UNCHANGED <<current, link>>
    BY <1>11, <2>1 DEF Create
  <2>2. ASSUME NEW o \in Unused, current' = o, link' = [link EXCEPT ![o] = "fresh"],
               lock' = lock \/ lock' = NoWorker, Goto(w, "dial") \/ Goto(w, "await connect"),
               lock' = NoWorker => Goto(w, "await connect"),
               lock' = lock => Goto(w, "dial"),
               UNCHANGED <<held, thread, stopping, connected>>,
               job[w] \in {"create", "first create"}
        PROVE  ClientInv'
    <3>1. current = NoObject /\ lock = w /\ o \in Objects
      BY <2>2 DEF Unused
    <3>2. \A v \in Workers : v # w => job'[v] = job[v] /\ job[v] \notin Locked
      BY <2>2, <3>1
    <3>3. lock' \in {w, NoWorker} /\ job'[w] \in {"dial", "await connect"}
          /\ (job'[w] = "dial" <=> lock' = w)
      BY <2>2, <3>1
    <3>4. \A p \in Objects : link'[p] # "open"
      BY <2>2, <3>1
    <3>5. ClientTypeOK'
      BY <2>2, <3>1
    <3>6. LockHeld' /\ LockUsed'
      <4>1. \A v \in Workers : job'[v] \in Locked => lock' = v
        BY <3>2, <3>3
      <4>2. \A v \in Workers : lock' = v => v = w /\ job'[v] \in Locked
        BY <3>3
      <4> QED BY <4>1, <4>2
    <3>7. JoinsTold' /\ ClosedFirst' /\ CreatesFresh'
      BY <3>1, <3>2, <3>3
    <3> QED BY <3>4, <3>5, <3>6, <3>7
  <2>3. CASE \E o \in Unused :
               /\ current' = o /\ link' = [link EXCEPT ![o] = "fresh"]
               /\ IF job[w] = "create" THEN lock' = lock /\ Goto(w, "dial")
                  ELSE lock' = NoWorker /\ Goto(w, "await connect")
    <3>1. job[w] \in {"create", "first create"} /\ UNCHANGED <<held, thread, stopping, connected>>
      BY <1>11 DEF Create
    <3>2. PICK o \in Unused :
               /\ current' = o /\ link' = [link EXCEPT ![o] = "fresh"]
               /\ IF job[w] = "create" THEN lock' = lock /\ Goto(w, "dial")
                  ELSE lock' = NoWorker /\ Goto(w, "await connect")
      BY <2>3
    <3>3. lock = w /\ w # NoWorker
      BY <3>1
    <3>4. (lock' = NoWorker => Goto(w, "await connect")) /\ (lock' = lock => Goto(w, "dial"))
      BY <3>2, <3>3
    <3> HIDE DEF Goto
    <3> QED BY <2>2, <3>1, <3>2, <3>4
  <2> QED BY <1>11, <2>1, <2>3 DEF Create
<1>12. CASE Dial(w)
  <2>1. CASE Release(w) /\ UNCHANGED link
    BY <1>12, <2>1 DEF Dial
  <2>2. CASE /\ link' = [o \in Objects |-> IF o = current THEN "open" ELSE link[o]]
             /\ IF job[w] = "dial" THEN lock' = lock /\ Goto(w, "start")
                ELSE lock' = NoWorker /\ Goto(w, "read to start")
    <3>1. lock = w /\ UNCHANGED <<held, current, thread, stopping, connected>>
      BY <1>12 DEF Dial
    <3>2. \A v \in Workers : v # w => job'[v] = job[v] /\ job[v] \notin Locked
      BY <2>2, <3>1
    <3>3. lock' \in {w, NoWorker} /\ job'[w] \in {"start", "read to start"}
          /\ (job'[w] = "start" <=> lock' = w)
      BY <2>2, <3>1
    <3>4. link' \in [Objects -> {"fresh", "open", "closed"}] /\ OnlyCurrentOpen'
      BY <2>2, <3>1
    <3>5. ClientTypeOK'
      BY <2>2, <3>1, <3>4
    <3>6. LockHeld' /\ LockUsed'
      <4>1. \A v \in Workers : job'[v] \in Locked => lock' = v
        BY <3>2, <3>3
      <4>2. \A v \in Workers : lock' = v => v = w /\ job'[v] \in Locked
        BY <3>3
      <4> QED BY <4>1, <4>2
    <3>7. JoinsTold' /\ ClosedFirst' /\ CreatesFresh'
      BY <3>1, <3>2, <3>3
    <3> QED BY <3>4, <3>5, <3>6, <3>7
  <2> QED BY <1>12, <2>1, <2>2 DEF Dial
<1>13. CASE StartLoop(w)
  BY <1>13 DEF StartLoop, Started
<1>14. CASE ReadToStart(w)
  BY <1>14 DEF ReadToStart
<1>15. CASE StartLate(w)
  BY <1>15 DEF StartLate, Started
<1> QED BY <1>1, <1>2, <1>3, <1>4, <1>5, <1>6, <1>7, <1>8, <1>9, <1>10, <1>11, <1>12, <1>13, <1>14,
          <1>15 DEF JobStep

\* A step of a network thread keeps it.
LEMMA ThreadKeeps ==
  ASSUME ClientInv, NEW o \in Objects,
         (\E event \in {"connect", "disconnect"} : EnterCallback(o, event))
           \/ Callback(o) \/ ThreadEnds(o)
  PROVE  ClientInv'
<1> USE DEF ClientInv, ClientTypeOK, LockHeld, LockUsed, JoinsTold, ClosedFirst, CreatesFresh, OnlyCurrentOpen
<1>1. CASE \E event \in {"connect", "disconnect"} : EnterCallback(o, event)
  <2> PICK event \in {"connect", "disconnect"} : EnterCallback(o, event) BY <1>1
  <2>1. thread' \in [Objects -> {"none", "running", "connect", "disconnect"}]
    BY DEF EnterCallback
  <2> QED BY <2>1 DEF EnterCallback
<1>2. CASE Callback(o)
  BY <1>2 DEF Callback, InCallback
<1>3. CASE ThreadEnds(o)
  BY <1>3 DEF ThreadEnds, ToldToEnd
<1> QED BY <1>1, <1>2, <1>3

\* So does every step.
LEMMA ClientKeeps == ClientInv /\ [ClientNext]_clientVars => ClientInv'
<1> SUFFICES ASSUME ClientInv, [ClientNext]_clientVars PROVE ClientInv' OBVIOUS
<1>1. CASE ClientNext
  BY <1>1, JobKeeps, ThreadKeeps DEF ClientNext
<1>2. CASE UNCHANGED clientVars
  BY <1>2 DEF clientVars, ClientInv, ClientTypeOK, LockHeld, LockUsed, JoinsTold, ClosedFirst, CreatesFresh,
       OnlyCurrentOpen
<1> QED BY <1>1, <1>2

\* The variables of a client keep their shape.
THEOREM ClientTypes == ClientSpec => []ClientTypeOK
<1>1. ClientInv => ClientTypeOK BY DEF ClientInv
<1> QED BY <1>1, ClientStarts, ClientKeeps, PTL DEF ClientSpec

\* However the jobs overlap, no network thread goes on with a connection the
\* client has let go: start_loop may start a thread late, and without the lock, but
\* never one whose socket is still open.
THEOREM NoOrphanThreadAlways == ClientSpec => []NoOrphanThread
<1>1. ClientInv => NoOrphanThread BY DEF ClientInv, OnlyCurrentOpen, NoOrphanThread
<1> QED BY <1>1, ClientStarts, ClientKeeps, PTL DEF ClientSpec
\* The jobs and the threads never wait on each other in a ring, for any number of
\* jobs and objects: the holder of the lock waits only for a thread, which it has
\* told to end, and no thread waits for the lock.
THEOREM NoJobStuckAlways == ClientSpec => []NoJobStuck
<1>1. ClientInv => NoJobStuck
  <2> SUFFICES ASSUME ClientInv, NEW w \in Workers, Waits(w)
               PROVE  \/ lock \in Workers /\ job[lock] # "idle" /\ ~Waits(lock)
                      \/ current # NoObject
                           /\ (ToldToEnd(current) \/ (InCallback(current) /\ CallbackFree))
    BY DEF NoJobStuck
  <2>1. lock \in Workers /\ job[lock] \in Locked
    <3>1. CASE lock = NoWorker
      BY <3>1, ClientAssumption DEF Waits, LockFree, ClientInv, LockHeld, Locked
    <3>2. CASE lock # NoWorker
      BY <3>2 DEF ClientInv, ClientTypeOK, LockUsed
    <3> QED BY <3>1, <3>2
  <2>2. CASE ~Waits(lock)
    BY <2>1, <2>2 DEF Locked
  <2>3. CASE Waits(lock)
    <3>1. job[lock] \in {"join", "join to disconnect"} /\ ~Joined
      BY <2>1, <2>3 DEF Waits, Locked
    <3>2. current \in Objects /\ current \in stopping /\ thread[current] # "none"
      BY <2>1, <3>1 DEF Joined, ClientInv, ClientTypeOK, JoinsTold
    <3>3. thread[current] \in {"running", "connect", "disconnect"}
      BY <3>2 DEF ClientInv, ClientTypeOK
    <3> QED BY <3>1, <3>2, <3>3 DEF Joined, ToldToEnd, InCallback, CallbackFree
  <2> QED BY <2>2, <2>3
<1> QED BY <1>1, ClientStarts, ClientKeeps, PTL DEF ClientSpec

-----------------------------------------------------------------------------
(* The gate                                                                *)

Held == {pendingKeys[i] : i \in DOMAIN pendingKeys}
Distinct ==
  \A i, j \in DOMAIN pendingKeys : pendingKeys[i] = pendingKeys[j] => i = j

\* A reply is matched only with a request that was seen and not answered, and a
\* refresh sleeps only because of such a reply.
GateExact ==
  /\ PassiveTypeOK
  /\ Distinct
  /\ ended \/ Held \subseteq asked
  /\ wanted => confirmed # {}
  /\ task = "sleeping" => wanted
  /\ ended => ~wanted /\ task = "none"
  /\ NoLostReply

\* Taking a key out leaves the others, in their order, and once each.
LEMMA WithoutOne ==
  ASSUME pendingKeys \in Seq(Keys), Distinct, NEW k \in Keys
  PROVE  LET rest == Without(k) IN
         /\ rest \in Seq(Keys)
         /\ Len(rest) <= Len(pendingKeys)
         /\ Remembered(k) => Len(rest) < Len(pendingKeys)
         /\ \A i \in DOMAIN rest : rest[i] # k /\ rest[i] \in Held
         /\ \A i, j \in DOMAIN rest : rest[i] = rest[j] => i = j
<1> DEFINE rest == Without(k)
           shift == [i \in 1..Len(pendingKeys) - 1 |->
                       pendingKeys[IF i < Place(k) THEN i ELSE i + 1]]
<1>1. CASE ~Remembered(k)
  BY <1>1 DEF Without, Remembered, Held, Distinct
<1>2. CASE Remembered(k)
  <2>1. Place(k) \in 1..Len(pendingKeys) /\ pendingKeys[Place(k)] = k
    BY <1>2 DEF Remembered, Place
  <2>2. rest = shift
    BY <1>2 DEF Without
  <2>3. Len(pendingKeys) \in Nat \ {0} /\ Len(pendingKeys) - 1 \in Nat
    BY <2>1
  <2>4. \A i \in 1..Len(pendingKeys) - 1 :
          /\ (IF i < Place(k) THEN i ELSE i + 1) \in 1..Len(pendingKeys)
          /\ (IF i < Place(k) THEN i ELSE i + 1) # Place(k)
    BY <2>1, <2>3
  <2>5. \A i \in 1..Len(pendingKeys) - 1 : shift[i] \in Keys /\ shift[i] # k /\ shift[i] \in Held
    BY <2>1, <2>4 DEF Distinct, Held
  <2>6. shift \in Seq(Keys) /\ Len(shift) = Len(pendingKeys) - 1
    BY <2>3, <2>5
  <2>7. \A i, j \in 1..Len(pendingKeys) - 1 : shift[i] = shift[j] => i = j
    BY <2>1, <2>4 DEF Distinct
  <2> QED
    BY <2>2, <2>3, <2>5, <2>6, <2>7
<1> QED
  BY <1>1, <1>2

\* A request that is seen joins the end, and the oldest may go.
LEMMA Seen ==
  ASSUME GateExact, NEW k \in Keys, RequestSeen(k)
  PROVE  GateExact'
<1> DEFINE moved == Append(Without(k), k)
<1>1. /\ Without(k) \in Seq(Keys) /\ Len(Without(k)) <= Len(pendingKeys)
      /\ \A i \in DOMAIN Without(k) : Without(k)[i] # k /\ Without(k)[i] \in Held
      /\ \A i, j \in DOMAIN Without(k) : Without(k)[i] = Without(k)[j] => i = j
  BY WithoutOne DEF GateExact, PassiveTypeOK
<1> DEFINE kept == Without(k)
<1> HIDE DEF kept
<1>2. /\ moved \in Seq(Keys) /\ Len(moved) <= MaxPending + 1 /\ Len(moved) >= 1
      /\ \A i \in DOMAIN moved : moved[i] \in asked \cup {k}
      /\ \A i, j \in DOMAIN moved : moved[i] = moved[j] => i = j
  <2>1. moved = Append(kept, k) /\ kept \in Seq(Keys) /\ Len(kept) <= MaxPending
        /\ (\A i \in DOMAIN kept : kept[i] # k /\ kept[i] \in asked)
        /\ (\A i, j \in DOMAIN kept : kept[i] = kept[j] => i = j)
    BY <1>1, PassiveAssumption DEF GateExact, PassiveTypeOK, kept, RequestSeen
  <2> QED
    BY <2>1, PassiveAssumption
<1> HIDE DEF moved
<1>3. pendingKeys' = IF Len(moved) > MaxPending THEN Tail(moved) ELSE moved
  BY DEF RequestSeen, Overfull, moved
<1>4. /\ pendingKeys' \in Seq(Keys) /\ Len(pendingKeys') <= MaxPending
      /\ \A i \in DOMAIN pendingKeys' : pendingKeys'[i] \in asked'
      /\ \A i, j \in DOMAIN pendingKeys' : pendingKeys'[i] = pendingKeys'[j] => i = j
  <2>1. asked' = asked \cup {k}
    BY DEF RequestSeen
  <2>2. CASE Len(moved) > MaxPending
    BY <1>2, <1>3, <2>1, <2>2, PassiveAssumption
  <2>3. CASE ~(Len(moved) > MaxPending)
    BY <1>2, <1>3, <2>1, <2>3, PassiveAssumption
  <2> QED
    BY <2>2, <2>3
<1>5. UNCHANGED <<ownWaiters, wanted, task, ended, confirmed>> /\ asked' = asked \cup {k}
  BY DEF RequestSeen
<1>6. PassiveTypeOK'
  BY <1>4, <1>5 DEF GateExact, PassiveTypeOK
<1>7. Distinct' /\ (Held \subseteq asked)'
  BY <1>4 DEF Distinct, Held
<1>8. /\ wanted' => confirmed' # {}
      /\ task' = "sleeping" => wanted'
      /\ ended' => ~wanted' /\ task' = "none"
      /\ NoLostReply'
  BY <1>5 DEF GateExact, NoLostReply
<1> QED
  BY <1>6, <1>7, <1>8 DEF GateExact

\* A reply takes its request away, and wakes the refresh unless it is an own one.
LEMMA Replied ==
  ASSUME GateExact, NEW k \in Keys, ReplySeen(k)
  PROVE  GateExact'
<1>1. /\ Without(k) \in Seq(Keys) /\ Len(Without(k)) <= Len(pendingKeys)
      /\ \A i \in DOMAIN Without(k) : Without(k)[i] # k /\ Without(k)[i] \in Held
      /\ \A i, j \in DOMAIN Without(k) : Without(k)[i] = Without(k)[j] => i = j
  BY WithoutOne DEF GateExact, PassiveTypeOK
<1>2. /\ ownWaiters' = ownWaiters \ {k} /\ asked' = asked \ {k} /\ UNCHANGED ended
  BY DEF ReplySeen
<1>3. CASE ended \/ ~Remembered(k)
  <2>1. UNCHANGED <<pendingKeys, wanted, task, confirmed>>
    BY <1>3 DEF ReplySeen
  <2>2. CASE Remembered(k)
    <3>1. ended
      BY <1>3, <2>2
    <3>2. PassiveTypeOK'
      BY <1>2, <2>1 DEF GateExact, PassiveTypeOK
    <3>3. Distinct'
      BY <2>1 DEF GateExact, Distinct
    <3> QED
      BY <3>1, <3>2, <3>3, <1>2, <2>1 DEF GateExact, NoLostReply
  <2>3. CASE ~Remembered(k)
    <3>1. (ended \/ Held \subseteq asked)' /\ Distinct'
      BY <1>2, <2>1, <2>3 DEF GateExact, Held, Distinct, Remembered
    <3>2. PassiveTypeOK'
      BY <1>2, <2>1 DEF GateExact, PassiveTypeOK
    <3> QED
      BY <1>2, <2>1, <3>1, <3>2 DEF GateExact, NoLostReply
  <2> QED
    BY <2>2, <2>3
<1>4. CASE ~ended /\ Remembered(k)
  <2>1. pendingKeys' = Without(k)
    BY <1>4 DEF ReplySeen, Popped, Request
  <2>2. k \in asked
    BY <1>4 DEF Remembered, GateExact, Held
  <2>3. \/ UNCHANGED <<wanted, task, confirmed>>
        \/ /\ wanted' = TRUE /\ confirmed' = confirmed \cup {k}
           /\ task' = IF task = "none" THEN "sleeping" ELSE task
    BY <1>4, <2>2 DEF ReplySeen, Request
  <2>4. Held' \subseteq asked' /\ Distinct' /\ pendingKeys' \in Seq(Keys)
        /\ Len(pendingKeys') <= MaxPending
    <3>1. Distinct' /\ pendingKeys' \in Seq(Keys) /\ Len(pendingKeys') <= MaxPending
      BY <1>1, <2>1, PassiveAssumption DEF GateExact, PassiveTypeOK, Distinct
    <3>2. Held \subseteq asked
      BY <1>4 DEF GateExact
    <3>3. \A i \in DOMAIN pendingKeys' : pendingKeys'[i] \in asked'
      BY <1>1, <1>2, <2>1, <3>2
    <3> QED
      BY <3>1, <3>3 DEF Held
  <2>5. PassiveTypeOK'
    BY <1>2, <2>3, <2>4 DEF GateExact, PassiveTypeOK
  <2>6. ~ended'
    BY <1>2, <1>4
  <2>7. (wanted' => confirmed' # {}) /\ (task' = "sleeping" => wanted')
        /\ NoLostReply'
    BY <1>4, <2>3 DEF GateExact, NoLostReply
  <2> QED
    BY <2>4, <2>5, <2>6, <2>7 DEF GateExact
<1> QED
  BY <1>3, <1>4

\* The other steps leave the gate as it is.
LEMMA GateElse ==
  ASSUME GateExact,
         \/ \E k \in Keys : OwnWaits(k) \/ OwnGivesUp(k)
         \/ DelayPasses \/ RefreshReturns \/ ClosePassive \/ UNCHANGED passiveVars
  PROVE  GateExact'
<1> USE DEF GateExact, PassiveTypeOK, Held, Distinct, NoLostReply
<1>1. CASE \E k \in Keys : OwnWaits(k) \/ OwnGivesUp(k)
  BY <1>1 DEF OwnWaits, OwnGivesUp
<1>2. CASE DelayPasses
  BY <1>2 DEF DelayPasses
<1>3. CASE RefreshReturns
  BY <1>3 DEF RefreshReturns, NextPass
<1>4. CASE ClosePassive
  BY <1>4 DEF ClosePassive
<1>5. CASE UNCHANGED passiveVars
  BY <1>5 DEF passiveVars
<1> QED
  BY <1>1, <1>2, <1>3, <1>4, <1>5

\* The gate and the refresh keep GateExact, whatever comes in whatever order.
THEOREM GateAlways == PassiveSpec => []GateExact
<1>1. PassiveInit => GateExact
  <2>1. PassiveInit => pendingKeys = <<>> /\ pendingKeys \in Seq(Keys) /\ Len(pendingKeys) = 0
    BY DEF PassiveInit
  <2>2. PassiveInit => PassiveTypeOK
    <3>1. PassiveInit => pendingKeys \in Seq(Keys) /\ Len(pendingKeys) <= MaxPending
      BY <2>1, PassiveAssumption
    <3>2. PassiveInit => /\ ownWaiters = {} /\ asked = {} /\ confirmed = {}
                         /\ wanted = FALSE /\ ended = FALSE /\ task = "none"
      BY DEF PassiveInit
    <3> QED
      BY <3>1, <3>2 DEF PassiveTypeOK
  <2>3. PassiveInit => Held = {} /\ Distinct
    BY <2>1 DEF Held, Distinct
  <2> QED
    BY <2>2, <2>3 DEF PassiveInit, GateExact, NoLostReply
<1>2. GateExact /\ [PassiveNext]_passiveVars => GateExact'
  BY Seen, Replied, GateElse DEF PassiveNext
<1> QED
  BY <1>1, <1>2, PTL DEF PassiveSpec

\* The gate never remembers more requests than its limit, and every variable keeps
\* its shape.
THEOREM PassiveTypes == PassiveSpec => []PassiveTypeOK
<1>1. GateExact => PassiveTypeOK
  BY DEF GateExact
<1> QED
  BY <1>1, GateAlways, PTL

\* No read is asked for without the reply to a request that was seen.
THEOREM RefreshOnlyForReplyAlways == PassiveSpec => RefreshOnlyForReply
<1>1. GateExact => [DelayPasses => confirmed # {}]_passiveVars
  BY DEF GateExact, DelayPasses
<1> QED
  BY <1>1, GateAlways, PTL DEF RefreshOnlyForReply

\* No reply that confirmed a change is forgotten, wherever the task was when it came:
\* what ReplyServed says, but for the task being run.
THEOREM NoLostReplyAlways == PassiveSpec => []NoLostReply
<1>1. GateExact => NoLostReply
  BY DEF GateExact
<1> QED
  BY <1>1, GateAlways, PTL

-----------------------------------------------------------------------------
(* The watchdog                                                            *)

\* An attempt counted since the link was last up is later than the counter's start.
Watch ==
  /\ BackoffTypeOK
  /\ RetryWithin
  /\ attempts > 0 => sinceAttempt <= sinceReset

\* Ages are kept up to a bound that both intervals stay below.
LEMMA HorizonBounds ==
  Horizon \in Nat /\ Horizon > 0 /\ MaxDelay <= Horizon /\ ResetInterval <= Horizon
BY BackoffAssumption DEF Horizon

\* Time keeps ages within the bound, and in their order.
LEMMA AgingBounds ==
  ASSUME NEW old \in 0..Horizon, NEW older \in 0..Horizon, old <= older
  PROVE  Aging(old) \in 0..Horizon /\ Aging(old) <= Aging(older)
BY HorizonBounds, BackoffAssumption DEF Aging

\* A look tries again, or the last attempt is recent enough.
LEMMA Looked ==
  ASSUME Watch, Look
  PROVE  Watch'
<1> USE HorizonBounds, BackoffAssumption DEF Watch, BackoffTypeOK
<1>1. looked' = TRUE /\ down' = down
  BY DEF Look
<1>2. CASE ~down
  BY <1>1, <1>2 DEF Look, RetryWithin
<1>3. CASE down /\ CountedOut
  <2>1. sinceAttempt < Horizon
    BY <1>3 DEF CountedOut
  <2>2. UNCHANGED <<attempts, sinceAttempt, sinceReset>>
    BY <1>3 DEF Look
  <2> QED
    BY <1>1, <2>1, <2>2 DEF RetryWithin
<1>4. CASE down /\ ~CountedOut
  <2>1. /\ sinceReset' = IF CounterOver THEN 0 ELSE sinceReset
        /\ attempts' = IF DelayOver(Counted) THEN Counted + 1 ELSE Counted
        /\ sinceAttempt' = IF DelayOver(Counted) THEN 0 ELSE sinceAttempt
    BY <1>4 DEF Look
  <2>2. Counted \in 0..MaxAttempts - 1 /\ (CounterOver => Counted = 0)
        /\ (~CounterOver => Counted = attempts)
    BY <1>4 DEF Counted, CounterOver, CountedOut
  <2>3. CASE DelayOver(Counted)
    BY <1>1, <2>1, <2>2, <2>3 DEF RetryWithin
  <2>4. CASE ~DelayOver(Counted)
    <3>1. sinceAttempt < MaxDelay
      BY <2>4 DEF DelayOver
    <3> QED
      BY <1>1, <2>1, <2>2, <2>4, <3>1 DEF RetryWithin
  <2> QED
    BY <2>3, <2>4
<1> QED
  BY <1>2, <1>3, <1>4

\* Watch holds throughout.
THEOREM WatchAlways == BackoffSpec => []Watch
<1>1. BackoffInit => Watch
  <2> SUFFICES ASSUME BackoffInit PROVE Watch
    OBVIOUS
  <2>1. attempts \in 0..MaxAttempts /\ ~(attempts > 0)
    BY BackoffAssumption DEF BackoffInit
  <2>2. sinceAttempt \in 0..Horizon /\ sinceReset \in 0..Horizon
    BY HorizonBounds DEF BackoffInit
  <2>3. down \in BOOLEAN /\ looked \in BOOLEAN /\ ~looked
    BY DEF BackoffInit
  <2> QED
    BY <2>1, <2>2, <2>3 DEF Watch, BackoffTypeOK, RetryWithin
<1>2. Watch /\ [BackoffNext]_backoffVars => Watch'
  <2> SUFFICES ASSUME Watch, [BackoffNext]_backoffVars
               PROVE  Watch'
    OBVIOUS
  <2>1. CASE Look
    BY <2>1, Looked
  <2>2. CASE TimePasses
    <3>1. sinceAttempt' \in 0..Horizon /\ sinceReset' \in 0..Horizon
          /\ (attempts > 0 => sinceAttempt' <= sinceReset')
      <4>1. sinceAttempt \in 0..Horizon /\ sinceReset \in 0..Horizon
        BY DEF Watch, BackoffTypeOK
      <4>2. sinceAttempt' = Aging(sinceAttempt) /\ sinceReset' = Aging(sinceReset)
        BY <2>2 DEF TimePasses
      <4>3. sinceAttempt <= sinceAttempt /\ sinceReset <= sinceReset
        BY <4>1, HorizonBounds
      <4> QED
        BY <4>1, <4>2, <4>3, AgingBounds DEF Watch
    <3>2. attempts' = attempts /\ down' = down /\ looked' = FALSE
      BY <2>2 DEF TimePasses
    <3> QED
      BY <3>1, <3>2 DEF Watch, BackoffTypeOK, RetryWithin
  <2>3. CASE LinkUp
    <3>1. attempts' = 0 /\ down' = FALSE /\ UNCHANGED <<sinceAttempt, sinceReset, looked>>
      BY <2>3 DEF LinkUp
    <3>2. attempts' \in 0..MaxAttempts /\ ~(attempts' > 0)
      BY <3>1, BackoffAssumption
    <3> QED
      BY <3>1, <3>2 DEF Watch, BackoffTypeOK, RetryWithin
  <2>4. CASE LinkDown
    BY <2>4 DEF LinkDown, Watch, BackoffTypeOK, RetryWithin
  <2>5. CASE UNCHANGED backoffVars
    BY <2>5 DEF backoffVars, Watch, BackoffTypeOK, RetryWithin
  <2> QED
    BY <2>1, <2>2, <2>3, <2>4, <2>5 DEF BackoffNext
<1> QED
  BY <1>1, <1>2, PTL DEF BackoffSpec

\* The counter stays within its limit, and every variable keeps its shape.
THEOREM BackoffTypes == BackoffSpec => []BackoffTypeOK
<1>1. Watch => BackoffTypeOK
  BY DEF Watch
<1> QED
  BY <1>1, WatchAlways, PTL

\* A link that is down is tried again within the longest delay, for every choice of
\* the delays, the limit and the reset interval: the watchdog never gives up.
THEOREM RetryWithinAlways == BackoffSpec => []RetryWithin
<1>1. Watch => RetryWithin
  BY DEF Watch
<1> QED
  BY <1>1, WatchAlways, PTL
-----------------------------------------------------------------------------
(* The recovery of a silent stream                                         *)

\* The stamp the cooldown is measured by is the decision on the last automatic
\* attempt.
PaceExact ==
  /\ StreamTypeOK
  /\ attemptAge = Never => sinceDue = CooldownTime
  /\ attemptAge # Never => sinceDue = attemptAge

\* An age stays within its limit, and Never stays.
LEMMA LimitedBounds ==
  ASSUME NEW limit \in Nat, limit < Never, NEW age \in 0..limit \cup {Never}
  PROVE  /\ Limited(age, limit) \in 0..limit \cup {Never}
         /\ age # Never => Limited(age, limit) # Never
         /\ age = Never => Limited(age, limit) = Never
         /\ age # Never /\ age # 0 => Limited(age, limit) # 0
         /\ age = limit => Limited(age, limit) = limit
BY StreamAssumption DEF Limited, Never

LEMMA NeverBeyond ==
  /\ Never \in Nat /\ StaleTime < Never /\ CooldownTime < Never /\ StaleTime \in Nat
  /\ CooldownTime \in Nat /\ ConfirmTime \in Nat /\ PollTime \in Nat
BY StreamAssumption DEF Never

\* Steps of the calls touch no age but those of an attempt that is decided on.
LEMMA CallsKeep ==
  ASSUME StreamTypeOK, NEW c \in StreamCallers, CallStep(c)
  PROVE  StreamTypeOK' /\ UNCHANGED ageVars
<1> USE StreamAssumption DEF StreamTypeOK, ageVars, watchVars, SetTimer, TimerAfter
<1>1. CASE LeaveAlone(c)
  BY <1>1 DEF LeaveAlone, Returns, NoCall
<1>2. CASE Attempt(c)
  <2>1. call' \in [StreamCallers -> [does : {"nothing", "renew", "rebuild"},
                                    at : {"idle", "waiting", "working", "watching"}]]
    BY <1>2 DEF Attempt, Goes
  <2>2. /\ turn' = c /\ watchAge' = 0 /\ watchAge' \in 0..ConfirmTime /\ resumed' = FALSE
        /\ UNCHANGED <<settingsAge, heartbeatAge, attemptAge, sinceDue, up, unloading, pollTimer>>
    BY <1>2 DEF Attempt
  <2> QED
    BY <2>1, <2>2
<1>3. CASE Worked(c)
  <2>1. up' \in BOOLEAN
    BY <1>3 DEF Worked, LinkAfter
  <2> QED
    BY <1>3, <2>1 DEF Worked, Goes
<1>4. CASE Failed(c)
  <2>1. up' \in BOOLEAN
    BY <1>4 DEF Failed, LinkAfter
  <2> QED
    BY <1>4, <2>1 DEF Failed, Returns, NoCall, FreeTurn
<1>5. CASE Watched(c)
  BY <1>5 DEF Watched, Returns, NoCall, FreeTurn
<1> QED
  BY <1>1, <1>2, <1>3, <1>4, <1>5 DEF CallStep

\* Time ages the stamp and the decision alike.
LEMMA TicksKeep ==
  ASSUME PaceExact, StreamTick
  PROVE  PaceExact' /\ (sinceDue # 0 => sinceDue' # 0)
<1> USE NeverBeyond
<1>1. /\ settingsAge \in 0..StaleTime \cup {Never} /\ heartbeatAge \in 0..StaleTime \cup {Never}
      /\ attemptAge \in 0..CooldownTime \cup {Never} /\ sinceDue \in 0..CooldownTime
      /\ watchAge \in 0..ConfirmTime
  BY DEF PaceExact, StreamTypeOK
<1>2. /\ settingsAge' \in 0..StaleTime \cup {Never} /\ heartbeatAge' \in 0..StaleTime \cup {Never}
  BY <1>1, LimitedBounds DEF StreamTick
<1>3. /\ attemptAge' \in 0..CooldownTime \cup {Never}
      /\ attemptAge # Never => attemptAge' # Never
      /\ attemptAge = Never => attemptAge' = Never
  BY <1>1, LimitedBounds DEF StreamTick
<1>4. /\ sinceDue' \in 0..CooldownTime
      /\ sinceDue # 0 => sinceDue' # 0
      /\ sinceDue = CooldownTime => sinceDue' = CooldownTime
  <2>1. sinceDue # Never /\ sinceDue' = Limited(sinceDue, CooldownTime)
    BY <1>1 DEF StreamTick
  <2> QED
    BY <1>1, <2>1 DEF Limited
<1>5. watchAge' \in 0..ConfirmTime
  <2>1. watchAge' = Limited(watchAge, ConfirmTime)
    BY DEF StreamTick
  <2>2. CASE watchAge = Never
    BY <1>1, <2>1, <2>2 DEF Limited
  <2>3. CASE watchAge # Never
    BY <1>1, <2>1, <2>3 DEF Limited
  <2> QED
    BY <2>2, <2>3
<1>6. attemptAge' # Never => sinceDue' = attemptAge'
  BY <1>3 DEF PaceExact, StreamTick
<1>7. attemptAge' = Never => sinceDue' = CooldownTime
  BY <1>3, <1>4 DEF PaceExact
<1>8. UNCHANGED <<turn, call, resumed, up, unloading>>
  BY DEF StreamTick, callVars
<1>9. pollTimer' \in 0..PollTime
  BY DEF StreamTick, PollDue, PaceExact, StreamTypeOK
<1> QED
  BY <1>2, <1>3, <1>4, <1>5, <1>6, <1>7, <1>8, <1>9 DEF PaceExact, StreamTypeOK

\* Every step keeps the stamp exact, and decides on an attempt only when due.
LEMMA StreamStep ==
  ASSUME PaceExact, [StreamNext]_streamVars
  PROVE  /\ PaceExact'
         /\ sinceDue' = 0 /\ sinceDue # 0 => sinceDue = CooldownTime /\ call["cycle"].at = "idle"
<1> USE NeverBeyond, StreamAssumption
<1>1. CASE CycleChecks
  <2>1. sinceDue = CooldownTime
    BY <1>1 DEF CycleChecks, RecoveryDue, CooledDown, PaceExact, StreamTypeOK
  <2>2. StreamTypeOK'
    BY <1>1 DEF CycleChecks, PaceExact, StreamTypeOK, StampAttempt, Asks, watchVars, StreamCallers
  <2>3. attemptAge' = 0 /\ sinceDue' = 0 /\ call["cycle"].at = "idle"
    BY <1>1 DEF CycleChecks, StampAttempt, NoCall
  <2> QED
    BY <2>1, <2>2, <2>3 DEF PaceExact
<1>2. ASSUME NEW p \in Presses, NEW what \in {"renew", "rebuild"}, Press(p, what)
      PROVE  PaceExact' /\ sinceDue' = sinceDue
  BY <1>2 DEF Press, Asks, PaceExact, StreamTypeOK, ageVars, watchVars, StreamCallers
<1>3. ASSUME NEW c \in StreamCallers, CallStep(c)
      PROVE  PaceExact' /\ sinceDue' = sinceDue
  BY <1>3, CallsKeep DEF PaceExact, ageVars
<1>4. CASE OtherTurn
  BY <1>4 DEF OtherTurn, PaceExact, StreamTypeOK, ageVars, watchVars
<1>5. CASE SettingsReport \/ HeartbeatReport \/ OtherFrame \/ CycleLooks
  <2>1. /\ settingsAge' \in {0, settingsAge} /\ heartbeatAge' \in {0, heartbeatAge}
        /\ resumed' \in {TRUE, resumed} /\ pollTimer' = 0
        /\ UNCHANGED <<attemptAge, sinceDue, turn, call, watchAge, up, unloading>>
    BY <1>5 DEF SettingsReport, HeartbeatReport, OtherFrame, CycleLooks, SetTimer, ageVars,
         callVars, watchVars
  <2>2. 0 \in 0..StaleTime /\ 0 \in 0..PollTime
    OBVIOUS
  <2> QED
    BY <2>1, <2>2 DEF PaceExact, StreamTypeOK
<1>6. CASE LinkComesUp \/ LinkIsLost \/ Unload
  BY <1>6 DEF LinkComesUp, LinkIsLost, Unload, PaceExact, StreamTypeOK, ageVars, callVars, watchVars
<1>7. CASE StreamTick
  BY <1>7, TicksKeep
<1>8. CASE UNCHANGED streamVars
  BY <1>8 DEF streamVars, PaceExact, StreamTypeOK, ageVars, callVars, watchVars
<1> QED
  BY <1>1, <1>2, <1>3, <1>4, <1>5, <1>6, <1>7, <1>8 DEF StreamNext, CycleRuns, PressSome

\* PaceExact holds throughout.
THEOREM PaceAlways == StreamSpec => []PaceExact
<1>1. StreamInit => PaceExact
  <2> SUFFICES ASSUME StreamInit PROVE PaceExact
    OBVIOUS
  <2>1. call \in [StreamCallers -> [does : {"nothing", "renew", "rebuild"},
                                   at : {"idle", "waiting", "working", "watching"}]]
    BY DEF StreamInit, NoCall
  <2>2. /\ settingsAge = Never /\ heartbeatAge = Never /\ attemptAge = Never
        /\ sinceDue = CooldownTime /\ sinceDue \in 0..CooldownTime /\ watchAge \in 0..ConfirmTime
    BY NeverBeyond DEF StreamInit
  <2>3. /\ turn = "nobody" /\ resumed = FALSE /\ up = FALSE /\ unloading = FALSE
        /\ pollTimer \in 0..PollTime
    BY NeverBeyond DEF StreamInit
  <2> QED
    BY <2>1, <2>2, <2>3 DEF PaceExact, StreamTypeOK
<1>2. PaceExact /\ [StreamNext]_streamVars => PaceExact'
  BY StreamStep
<1> QED
  BY <1>1, <1>2, PTL DEF StreamSpec

\* Ages stay within their limits, and every variable keeps its shape.
THEOREM StreamTypes == StreamSpec => []StreamTypeOK
<1>1. PaceExact => StreamTypeOK
  BY DEF PaceExact
<1> QED
  BY <1>1, PaceAlways, PTL

\* Automatic attempts are a whole cooldown apart and never overlap, however the ones
\* before ended, for every choice of the limits.
THEOREM FailuresPacedAlways == StreamSpec => FailuresPaced
<1>1. PaceExact /\ [StreamNext]_streamVars =>
        [sinceDue' = 0 /\ sinceDue # 0 =>
           sinceDue = CooldownTime /\ call["cycle"].at = "idle"]_streamVars
  BY StreamStep
<1> QED
  BY <1>1, PaceAlways, PTL DEF StreamSpec, FailuresPaced

\* A call takes the lock with its attempt, and gives it back when it returns.
LEMMA TurnKeeps ==
  ASSUME StreamTypeOK, OneAttempt, NEW c \in StreamCallers, CallStep(c)
  PROVE  OneAttempt'
<1>1. c \notin {"nobody", "other"} /\ StreamCallers \cap {"nobody", "other"} = {}
  BY StreamAssumption DEF StreamCallers
<1>2. /\ \A d \in StreamCallers : d # c => call'[d] = call[d]
      /\ \/ call[c].at = "waiting" /\ turn' = turn /\ call'[c].at = "idle"
         \/ call[c].at = "waiting" /\ turn = "nobody" /\ turn' = c /\ call'[c].at = "working"
         \/ call[c].at = "working" /\ turn' = turn /\ call'[c].at = "watching"
         \/ call[c].at \in {"working", "watching"} /\ turn' = "nobody" /\ call'[c].at = "idle"
  <2> USE DEF StreamTypeOK, NoCall
  <2>1. CASE LeaveAlone(c)
    BY <2>1 DEF LeaveAlone, Returns
  <2>2. CASE Attempt(c)
    BY <2>2 DEF Attempt, Goes
  <2>3. CASE Worked(c)
    BY <2>3 DEF Worked, Goes
  <2>4. CASE Failed(c)
    BY <2>4 DEF Failed, Returns, FreeTurn
  <2>5. CASE Watched(c)
    BY <2>5 DEF Watched, Returns, FreeTurn
  <2> QED
    BY <2>1, <2>2, <2>3, <2>4, <2>5 DEF CallStep
<1> QED
  BY <1>1, <1>2 DEF OneAttempt

\* Everything else leaves the calls alone, but for a new one, which waits.
LEMMA TurnStep == StreamTypeOK /\ OneAttempt /\ [StreamNext]_streamVars => OneAttempt'
<1> SUFFICES ASSUME StreamTypeOK, OneAttempt, [StreamNext]_streamVars
             PROVE  OneAttempt'
  OBVIOUS
<1>1. \A c \in StreamCallers : c \notin {"nobody", "other"}
  BY StreamAssumption DEF StreamCallers
<1>2. ASSUME NEW c \in StreamCallers, NEW what, call[c] = NoCall, Asks(c, what), turn' = turn
      PROVE  OneAttempt'
  <2>1. /\ \A d \in StreamCallers : d # c => call'[d] = call[d]
        /\ call[c].at = "idle" /\ call'[c].at = "waiting"
    BY <1>2 DEF Asks, NoCall, StreamTypeOK
  <2> QED
    BY <1>2, <2>1 DEF OneAttempt
<1>3. CASE CycleChecks
  BY <1>2, <1>3 DEF CycleChecks, StreamCallers
<1>4. CASE PressSome
  BY <1>2, <1>4 DEF PressSome, Press, StreamCallers
<1>5. CASE \E c \in StreamCallers : CallStep(c)
  BY <1>5, TurnKeeps
<1>6. CASE OtherTurn
  BY <1>1, <1>6 DEF OtherTurn, OneAttempt
<1>7. CASE \/ SettingsReport \/ HeartbeatReport \/ OtherFrame \/ CycleLooks \/ LinkComesUp
           \/ LinkIsLost \/ StreamTick \/ Unload \/ UNCHANGED streamVars
  <2>1. UNCHANGED <<turn, call>>
    BY <1>7 DEF SettingsReport, HeartbeatReport, OtherFrame, CycleLooks, LinkComesUp,
         LinkIsLost, StreamTick, Unload, streamVars, callVars
  <2> QED
    BY <2>1 DEF OneAttempt
<1> QED
  BY <1>3, <1>4, <1>5, <1>6, <1>7 DEF StreamNext, CycleRuns

\* An automatic attempt and the presses take turns, for any number of presses.
THEOREM OneAttemptAlways == StreamSpec => []OneAttempt
<1>1. StreamInit => OneAttempt
  BY StreamAssumption DEF StreamInit, OneAttempt, NoCall, StreamCallers
<1> QED
  BY <1>1, TurnStep, StreamTypes, PTL DEF StreamSpec
=============================================================================
