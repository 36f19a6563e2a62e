----------------------------- MODULE MqttClient -----------------------------
(***************************************************************************)
(* One EcoFlowMQTTClient (ecoflow/cloud_mqtt.py): the executor jobs that   *)
(* create, connect, rebuild and disconnect it under its lock, the Paho     *)
(* object it holds at the moment, and the network threads of that object   *)
(* and of those before it, whose callbacks set its connected flag.         *)
(*                                                                         *)
(* A worker runs one job at a time in an executor thread: the poll sets    *)
(* the client up and reconnects it, the certificate refresh and the        *)
(* recovery of a silent stream rebuild it, and unloading disconnects it.   *)
(* An action is one access to what the threads share.  Paho is external,   *)
(* modelled by what the calls here rely on.                                *)
(***************************************************************************)
EXTENDS Naturals, FiniteSets

CONSTANTS
  Workers,  \* executor jobs that may run at the same time
  Objects,  \* Paho objects; one that nobody refers to any more is used again
  NoWorker, NoObject

ASSUME ClientAssumption == NoWorker \notin Workers /\ NoObject \notin Objects

VARIABLES
  lock,       \* the worker that holds _client_lock
  job,        \* per worker, what its job does next
  held,       \* per worker, the object start_loop has read
  current,    \* self.client
  link,       \* per object: fresh, its socket open, or closed for good
  thread,     \* per object, its network thread
  stopping,   \* objects whose thread loop_stop has told to end
  connected   \* the flag

clientVars == <<lock, job, held, current, link, thread, stopping, connected>>

ClientInit ==
  /\ lock = NoWorker /\ job = [w \in Workers |-> "idle"] /\ held = [w \in Workers |-> NoObject]
  /\ current = NoObject /\ connected = FALSE
  /\ link = [o \in Objects |-> "fresh"] /\ thread = [o \in Objects |-> "none"]
  /\ stopping = {}

LockIgnoredMutant == TRUE
LockFree == lock = NoWorker

Goto(w, place) == job' = [job EXCEPT ![w] = place]
Release(w) == lock' = NoWorker /\ Goto(w, "idle")

-----------------------------------------------------------------------------
(* The jobs                                                                *)

\* The client exists once its first object was created.
Listed == current # NoObject \/ \E o \in Objects : link[o] # "fresh"

\* create_client, once for a client; disconnect; and a rebuild, which is skipped
\* when somebody holds the lock.
BeginSetup(w) ==
  /\ job[w] = "idle" /\ ~Listed /\ LockFree
  /\ lock' = w /\ Goto(w, "first create")
  /\ UNCHANGED <<held, current, link, thread, stopping, connected>>
BeginDisconnect(w) ==
  /\ job[w] = "idle" /\ Listed
  /\ Goto(w, "await disconnect")
  /\ UNCHANGED <<lock, held, current, link, thread, stopping, connected>>
BeginRebuild(w) ==
  /\ job[w] = "idle" /\ Listed /\ LockFree
  /\ lock' = w /\ Goto(w, "stop")
  /\ UNCHANGED <<held, current, link, thread, stopping, connected>>

\* The jobs that wait for the lock: disconnect, and the connect of the setup, which
\* has let go of it and finds what is current by then.
LockToDisconnect(w) ==
  /\ job[w] = "await disconnect" /\ LockFree
  /\ IF current = NoObject THEN Release(w) ELSE lock' = w /\ Goto(w, "stop to disconnect")
  /\ UNCHANGED <<held, current, link, thread, stopping, connected>>
IsConnected == connected /\ current # NoObject /\ link[current] = "open"
LockToConnect(w) ==
  /\ job[w] = "await connect" /\ LockFree
  /\ IF IsConnected THEN lock' = lock /\ Goto(w, "read to start")
     ELSE lock' = w /\ Goto(w, IF current = NoObject THEN "create" ELSE "dial to connect")
  /\ UNCHANGED <<held, current, link, thread, stopping, connected>>

\* loop_stop tells the thread of the current object to end, and joins it.
LoopStop(w) ==
  /\ job[w] \in {"stop", "stop to disconnect"}
  /\ stopping' = IF current = NoObject THEN stopping ELSE stopping \cup {current}
  /\ Goto(w, IF job[w] = "stop" THEN "join" ELSE "join to disconnect")
  /\ UNCHANGED <<lock, held, current, link, thread, connected>>
Joined == current # NoObject => thread[current] = "none"
Join(w) ==
  /\ job[w] \in {"join", "join to disconnect"} /\ Joined
  /\ stopping' = stopping \ {current}
  /\ Goto(w, IF job[w] = "join" THEN "close" ELSE "close to disconnect")
  /\ UNCHANGED <<lock, held, current, link, thread, connected>>

\* disconnect: the socket is closed, and the callback clears the flag.
Closed == link' = [o \in Objects |-> IF o = current THEN "closed" ELSE link[o]]
CloseSocket(w) ==
  /\ job[w] = "close"
  /\ Closed /\ connected' = FALSE
  /\ Goto(w, "forget")
  /\ UNCHANGED <<lock, held, current, thread, stopping>>
Disconnected(w) ==
  /\ job[w] = "close to disconnect"
  /\ Closed /\ connected' = FALSE
  /\ Release(w)
  /\ UNCHANGED <<held, current, thread, stopping>>

Forget(w) ==
  /\ job[w] = "forget"
  /\ connected' = FALSE /\ current' = NoObject
  /\ Goto(w, "create")
  /\ UNCHANGED <<lock, held, link, thread, stopping>>

\* Objects that nobody refers to any more are collected.
Unused == {o \in Objects : /\ o # current /\ thread[o] = "none"
                           /\ \A w \in Workers : held[w] # o}

\* A failed creation returns False, with no client.
Create(w) ==
  /\ job[w] \in {"create", "first create"}
  /\ \/ Release(w) /\ UNCHANGED <<current, link>>
     \/ \E o \in Unused :
          /\ current' = o /\ link' = [link EXCEPT ![o] = "fresh"]
          /\ IF job[w] = "create" THEN lock' = lock /\ Goto(w, "dial")
             ELSE lock' = NoWorker /\ Goto(w, "await connect")
  /\ UNCHANGED <<held, thread, stopping, connected>>

\* connect of the current object; one that fails leaves it without a thread.
Dial(w) ==
  /\ job[w] \in {"dial", "dial to connect"}
  /\ \/ Release(w) /\ UNCHANGED link
     \/ /\ link' = [o \in Objects |-> IF o = current THEN "open" ELSE link[o]]
        /\ IF job[w] = "dial" THEN lock' = lock /\ Goto(w, "start")
           ELSE lock' = NoWorker /\ Goto(w, "read to start")
  /\ UNCHANGED <<held, current, thread, stopping, connected>>

\* loop_start of an object that has a thread does nothing.
Started(o) == [thread EXCEPT ![o] = IF @ = "none" THEN "running" ELSE @]
StartLoop(w) ==
  /\ job[w] = "start"
  /\ thread' = IF current = NoObject THEN thread ELSE Started(current)
  /\ Release(w)
  /\ UNCHANGED <<held, current, link, stopping, connected>>

\* start_loop of the setup takes no lock: it reads the client, and starts what it
\* has read.
ReadToStart(w) ==
  /\ job[w] = "read to start"
  /\ held' = [held EXCEPT ![w] = current]
  /\ Goto(w, "start late")
  /\ UNCHANGED <<lock, current, link, thread, stopping, connected>>
StartLate(w) ==
  /\ job[w] = "start late"
  /\ thread' = IF held[w] = NoObject THEN thread ELSE Started(held[w])
  /\ held' = [held EXCEPT ![w] = NoObject]
  /\ Goto(w, "idle")
  /\ UNCHANGED <<lock, current, link, stopping, connected>>

-----------------------------------------------------------------------------
(* The network threads                                                     *)

\* A thread runs the callbacks of its object: on_connect and on_disconnect.
CallbackLockedMutant == lock = NoWorker
CallbackFree == TRUE
EnterCallback(o, event) ==
  /\ thread[o] = "running" /\ o \notin stopping
  /\ event = "connect" => link[o] = "open"
  /\ thread' = [thread EXCEPT ![o] = event]
  /\ UNCHANGED <<lock, job, held, current, link, stopping, connected>>
InCallback(o) == thread[o] \in {"connect", "disconnect"}
Callback(o) ==
  /\ InCallback(o) /\ CallbackFree
  /\ connected' = (thread[o] = "connect")
  /\ thread' = [thread EXCEPT ![o] = "running"]
  /\ UNCHANGED <<lock, job, held, current, link, stopping>>

\* It ends between two callbacks when it is told to, and by itself once its object
\* is closed.
ToldToEnd(o) == thread[o] = "running" /\ (o \in stopping \/ link[o] = "closed")
ThreadEnds(o) ==
  /\ ToldToEnd(o)
  /\ thread' = [thread EXCEPT ![o] = "none"]
  /\ UNCHANGED <<lock, job, held, current, link, stopping, connected>>

-----------------------------------------------------------------------------
JobStep(w) ==
  \/ LockToDisconnect(w) \/ LockToConnect(w) \/ LoopStop(w) \/ Join(w) \/ CloseSocket(w) \/ Disconnected(w)
  \/ Forget(w) \/ Create(w) \/ Dial(w)
  \/ StartLoop(w) \/ ReadToStart(w) \/ StartLate(w)

ClientNext ==
  \/ \E w \in Workers : BeginSetup(w) \/ BeginDisconnect(w) \/ BeginRebuild(w) \/ JobStep(w)
  \/ \E o \in Objects : \/ \E event \in {"connect", "disconnect"} : EnterCallback(o, event)
                        \/ Callback(o) \/ ThreadEnds(o)

ClientSpec == ClientInit /\ [][ClientNext]_clientVars

-----------------------------------------------------------------------------
(* Properties                                                              *)

\* Every variable keeps its shape.
ClientTypeOK ==
  /\ lock \in Workers \cup {NoWorker} /\ current \in Objects \cup {NoObject}
  /\ job \in [Workers -> {"idle", "first create", "await connect", "await disconnect",
                          "stop to disconnect", "join to disconnect", "close to disconnect",
                          "stop", "join", "close", "forget", "create", "dial",
                          "dial to connect", "start", "read to start", "start late"}]
  /\ held \in [Workers -> Objects \cup {NoObject}]
  /\ link \in [Objects -> {"fresh", "open", "closed"}]
  /\ thread \in [Objects -> {"none", "running", "connect", "disconnect"}]
  /\ stopping \subseteq Objects /\ connected \in BOOLEAN

\* However rebuilds, the setup and the disconnecting overlap, no network thread
\* goes on with a connection that the client has let go.
NoOrphanThread ==
  \A o \in Objects : thread[o] # "none" /\ link[o] = "open" => o = current

\* A job waits for the lock, or for a network thread to end.
Waits(w) ==
  \/ job[w] \in {"await connect", "await disconnect"} /\ ~LockFree
  \/ job[w] \in {"join", "join to disconnect"} /\ ~Joined

\* The jobs and the threads never wait on each other in a ring: a job that waits
\* does so for the holder of the lock, which can go on, or for a network thread,
\* which finishes its callback and ends although that job still holds the lock.
NoJobStuck ==
  \A w \in Workers : Waits(w) =>
    \/ lock \in Workers /\ job[lock] # "idle" /\ ~Waits(lock)
    \/ current # NoObject /\ (ToldToEnd(current) \/ (InCallback(current) /\ CallbackFree))
=============================================================================
