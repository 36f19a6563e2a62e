---------------------------- MODULE SmartStaging ----------------------------
(***************************************************************************)
(* The drafts of a Smart charging plan, in memory and in the store         *)
(* (smart_staging.py and its half of coordinator.py): user edits made      *)
(* outside Smart mode, live edits and mode changes that stage what the     *)
(* charger confirmed, device reports staged by tasks of their own, saves   *)
(* that fail or are cancelled, and restarts.                               *)
(*                                                                         *)
(* A draft, an edit and a report are functions on Fields, Absent where     *)
(* they say nothing.  An action is the code between two awaits.            *)
(***************************************************************************)
EXTENDS Naturals, Sequences

CONSTANTS
  Valid,         \* per field, the values _validated_value accepts
  Zero,          \* a value the charger reports and _validated_value refuses
  Absent,        \* no value
  Calls,         \* service-call tasks
  Edits,         \* the edits a user may ask for
  Reports,       \* what a report may carry of the plan
  MaxQueue,      \* bound: a report finds fewer waiting for the staging lock
  Disturbances,  \* which of "cancel", "crash", "unreadable" may happen
  Device, NoCall

Fields == {"ready_by", "target_type", "energy", "distance"}
Draft  == [Fields -> (UNION {Valid[f] : f \in Fields}) \cup {Zero, Absent}]
Clean(d) == \A f \in Fields : d[f] \in Valid[f] \cup {Absent}

ASSUME StagingAssumption ==
  /\ Valid["target_type"] = {"energy", "distance"}
  /\ \A f \in Fields : Zero \notin Valid[f] /\ Absent \notin Valid[f]
  /\ Zero # Absent
  /\ Edits \subseteq Draft /\ Reports \subseteq Draft
  /\ Device \notin Calls /\ NoCall \notin Calls
  /\ MaxQueue \in Nat

VARIABLES
  pc,          \* where each call is suspended
  req,         \* the kind of each call in progress and the fields it sets
  control,     \* the call that holds _control_lock
  queue,       \* FIFO of _smart_staging_lock; its head holds the lock
  saving,      \* the save under way
  memory,      \* _smart_staging._devices[serial]
  store,       \* what the store would load
  orphans,     \* writes still running after their call was cancelled
  remembered,  \* _last_smart_settings[serial]
  mode,        \* whether self.data[serial]["work_mode"] is "smart"
  trusted      \* history: memory was read from the store or saved since, and no
               \* cancelled write may still change either

callVars  == <<pc, req, control>>
saveVars  == <<saving, memory, store, orphans, trusted>>
vars      == <<callVars, saveVars, queue, remembered, mode>>

Empty  == [f \in Fields |-> Absent]
NoReq  == [kind |-> "none", changes |-> Empty]
NoSave == [state |-> "none", before |-> Empty]

\* dict.update: what the newer one says wins.
ReplacedMutant(old, new) == new
Overlaid(old, new) == [f \in Fields |-> IF new[f] = Absent THEN old[f] ELSE new[f]]

\* update_from_device judges each field on its own.
UncheckedMutant(report) == report
Usable(report) == [f \in Fields |-> IF report[f] \in Valid[f] THEN report[f] ELSE Absent]

\* validate_smart_bundle: the selected target's own value is all it asks for.
Complete(d) ==
  /\ d["ready_by"] \in Valid["ready_by"]
  /\ \E t \in Valid["target_type"] : d["target_type"] = t /\ d[t] \in Valid[t]

-----------------------------------------------------------------------------
Init ==
  /\ pc = [c \in Calls |-> "idle"] /\ req = [c \in Calls |-> NoReq]
  /\ control = NoCall /\ queue = <<>> /\ saving = NoSave
  /\ memory = Empty /\ store = Empty /\ orphans = {} /\ trusted = TRUE
  /\ remembered = Empty /\ mode = "other"

-----------------------------------------------------------------------------
(* A service call                                                          *)

\* Whether an edit is local is decided before it waits for the control lock.
Edit(c, e) ==
  /\ pc[c] = "idle"
  /\ pc' = [pc EXCEPT ![c] = "queued"]
  /\ req' = [req EXCEPT ![c] = [kind |-> IF mode = "smart" THEN "live" ELSE "local",
                                changes |-> e]]
  /\ UNCHANGED <<control, queue, saveVars, remembered, mode>>

SelectSmart(c) ==
  /\ pc[c] = "idle"
  /\ pc' = [pc EXCEPT ![c] = "queued"]
  /\ req' = [req EXCEPT ![c] = [kind |-> "activate", changes |-> Empty]]
  /\ UNCHANGED <<control, queue, saveVars, remembered, mode>>

Return(c) ==
  /\ pc' = [pc EXCEPT ![c] = "idle"]
  /\ req' = [req EXCEPT ![c] = NoReq]

ControlIgnoredMutant == TRUE
ControlFree == control = NoCall

KeepControlMutant == control' = control
FreeControl == control' = NoCall

\* Waiting for the staging lock, behind whoever asked before.
Enqueue(who, changes) == queue' = Append(queue, [by |-> who, changes |-> changes])

BeginLocal(c) ==
  /\ pc[c] = "queued" /\ ControlFree
  /\ req[c].kind = "local" /\ mode # "smart"
  /\ control' = c
  /\ pc' = [pc EXCEPT ![c] = "staging"]
  /\ Enqueue(c, req[c].changes)
  /\ UNCHANGED <<req, saveVars, remembered, mode>>

\* The candidate of a mode change: the device's last Smart values under the drafts.
Candidate == Overlaid(remembered, memory)

BeginLive(c) ==
  /\ pc[c] = "queued" /\ ControlFree
  /\ \/ req[c].kind = "live" /\ Clean(req[c].changes) /\ req' = req
     \/ /\ req[c].kind = "activate" /\ Complete(Candidate)
        /\ req' = [req EXCEPT ![c].changes = Candidate]
  /\ control' = c
  /\ pc' = [pc EXCEPT ![c] = "live"]
  /\ UNCHANGED <<queue, saveVars, remembered, mode>>

\* A mode that changed meanwhile, an incomplete or expired plan, or evidence or
\* a connection that is missing.
Refuse(c) ==
  /\ pc[c] = "queued" /\ ControlFree
  /\ req[c].kind = "local" => mode = "smart"
  /\ Return(c)
  /\ UNCHANGED <<control, queue, saveVars, remembered, mode>>

\* The settings transaction under the control lock ends.
LiveConfirmed(c) ==
  /\ pc[c] = "live"
  /\ pc' = [pc EXCEPT ![c] = "staging"]
  /\ Enqueue(c, req[c].changes)
  /\ UNCHANGED <<req, control, saveVars, remembered, mode>>
LiveFails(c) ==
  /\ pc[c] = "live"
  /\ Return(c) /\ FreeControl
  /\ UNCHANGED <<queue, saveVars, remembered, mode>>

-----------------------------------------------------------------------------
(* Under the staging lock                                                  *)

Holder  == Head(queue).by
Changes == Head(queue).changes

\* The head is done with the lock; a call returns to its caller.
Release ==
  /\ queue' = Tail(queue)
  /\ saving' = NoSave
  /\ IF Holder = Device THEN UNCHANGED callVars
     ELSE Return(Holder) /\ FreeControl

\* update: a user's edit is refused as a whole.
Rejected ==
  /\ queue # <<>> /\ saving = NoSave
  /\ Holder # Device /\ ~Clean(Changes)
  /\ Release
  /\ UNCHANGED <<memory, store, orphans, trusted, remembered, mode>>

Accepted == IF Holder = Device THEN Usable(Changes) ELSE Changes
Acceptable == Holder = Device \/ Clean(Changes)

UnchangedReturns ==
  /\ queue # <<>> /\ saving = NoSave /\ Acceptable
  /\ Overlaid(memory, Accepted) = memory
  /\ Release
  /\ UNCHANGED <<memory, store, orphans, trusted, remembered, mode>>

\* The change is made in memory, and the save is awaited.
SaveStarts ==
  /\ queue # <<>> /\ saving = NoSave /\ Acceptable
  /\ Overlaid(memory, Accepted) # memory
  /\ memory' = Overlaid(memory, Accepted)
  /\ saving' = [state |-> "running", before |-> memory]
  /\ UNCHANGED <<callVars, queue, store, orphans, trusted, remembered, mode>>

WriteLands ==
  /\ saving.state = "running"
  /\ store' = memory /\ trusted' = (orphans = {})
  /\ saving' = [saving EXCEPT !.state = "landed"]
  /\ UNCHANGED <<callVars, queue, memory, orphans, remembered, mode>>

NotAwaitedMutant == saving.state # "none"
SaveDone == saving.state = "landed"
SaveReturns ==
  /\ SaveDone
  /\ Release
  /\ UNCHANGED <<memory, store, orphans, trusted, remembered, mode>>

KeptAfterFailureMutant == memory
Restored == saving.before
\* Home Assistant's Store is taken to raise whatever keeps it from writing.
SaveFails ==
  /\ saving.state = "running"
  /\ memory' = Restored
  /\ Release
  /\ UNCHANGED <<store, orphans, trusted, remembered, mode>>

-----------------------------------------------------------------------------
(* What runs beside the calls                                              *)

\* A report is remembered; in Smart mode a task stages it, unless the drafts
\* already say the same.
Says(f, r) == r[f] # Absent
Report(r, m) ==
  /\ Len(queue) < MaxQueue
  /\ mode' = m
  /\ remembered' = Overlaid(remembered, r)
  /\ IF m # "smart" \/ \A f \in Fields : Says(f, r) => memory[f] = r[f]
       THEN UNCHANGED queue
       ELSE Enqueue(Device, r)
  /\ UNCHANGED <<callVars, saveVars>>

\* A sequence without its i-th element.
Without(q, i) == [j \in 1..(Len(q) - 1) |-> IF j < i THEN q[j] ELSE q[j + 1]]

\* CancelledError passes _async_store_smart_staging by: memory keeps the change,
\* and a write that already runs in the executor goes on.
Cancel(c) ==
  /\ "cancel" \in Disturbances
  /\ pc[c] # "idle"
  /\ Return(c)
  /\ control' = IF control = c THEN NoCall ELSE control
  /\ \/ pc[c] # "staging" /\ UNCHANGED <<queue, saving, orphans, trusted>>
     \/ \E i \in DOMAIN queue :
          /\ queue[i].by = c /\ queue' = Without(queue, i)
          /\ IF i = 1 /\ saving.state = "running"
               THEN trusted' = FALSE /\ orphans' \in {orphans, orphans \cup {memory}}
               ELSE UNCHANGED <<trusted, orphans>>
          /\ saving' = IF i = 1 THEN NoSave ELSE saving
  /\ UNCHANGED <<memory, store, remembered, mode>>

OrphanLands(d) ==
  /\ d \in orphans
  /\ orphans' = orphans \ {d} /\ store' = d
  /\ UNCHANGED <<callVars, queue, saving, memory, trusted, remembered, mode>>

\* Home Assistant stops at any moment and starts again.
Crash(readable) ==
  /\ "crash" \in Disturbances /\ (readable \/ "unreadable" \in Disturbances)
  /\ pc' = [c \in Calls |-> "idle"] /\ req' = [c \in Calls |-> NoReq]
  /\ control' = NoCall /\ queue' = <<>> /\ saving' = NoSave /\ orphans' = {}
  /\ memory' = IF readable THEN store ELSE Empty
  /\ trusted' = readable
  /\ remembered' = Empty /\ mode' = "other"
  /\ UNCHANGED store

-----------------------------------------------------------------------------
CallStep(c) ==
  \/ \E e \in Edits : Edit(c, e)
  \/ SelectSmart(c) \/ BeginLocal(c) \/ BeginLive(c) \/ Refuse(c)
  \/ LiveConfirmed(c) \/ LiveFails(c) \/ Cancel(c)

LockStep == Rejected \/ UnchangedReturns \/ SaveStarts \/ WriteLands \/ SaveReturns \/ SaveFails

Next ==
  \/ \E c \in Calls : CallStep(c)
  \/ LockStep
  \/ \E r \in Reports, m \in {"smart", "other"} : Report(r, m)
  \/ \E d \in orphans : OrphanLands(d)
  \/ \E readable \in BOOLEAN : Crash(readable)

Spec == Init /\ [][Next]_vars

\* A save ends, a settings transaction ends (SettingsWrite), the head of the
\* staging lock runs, and the control lock passes no call over for ever.
Fairness ==
  /\ WF_vars(LockStep)
  /\ \A c \in Calls :
       /\ WF_vars(LiveConfirmed(c) \/ LiveFails(c))
       /\ SF_vars(BeginLocal(c) \/ BeginLive(c) \/ Refuse(c))
FairSpec == Spec /\ Fairness

-----------------------------------------------------------------------------
(* Properties                                                              *)

\* Every variable keeps its shape, and no draft holds a value a user could not
\* have entered, whatever the charger reports.
TypeOK ==
  /\ pc \in [Calls -> {"idle", "queued", "live", "staging"}]
  /\ req \in [Calls -> [kind : {"none", "local", "live", "activate"}, changes : Draft]]
  /\ control \in Calls \cup {NoCall}
  /\ queue \in Seq([by : Calls \cup {Device}, changes : Draft])
  /\ saving \in [state : {"none", "running", "landed"}, before : Draft]
  /\ memory \in Draft /\ store \in Draft /\ remembered \in Draft
  /\ Clean(memory) /\ Clean(store) /\ Clean(saving.before)
  /\ \A d \in orphans : d \in Draft /\ Clean(d)
  /\ mode \in {"smart", "other"} /\ trusted \in BOOLEAN

\* Both locks stand for exactly the calls that hold or await them.
QueueExact ==
  /\ \A c \in Calls : pc[c] \in {"live", "staging"} <=> control = c
  /\ \A c \in Calls : pc[c] = "staging" <=> \E i \in DOMAIN queue : queue[i].by = c
  /\ \A i, j \in DOMAIN queue : queue[i].by = queue[j].by /\ queue[i].by # Device => i = j
  /\ saving # NoSave => queue # <<>>

\* Whenever no save is under way, the store holds what memory holds, unless a
\* save was cancelled or the store could not be read: a failed save took its
\* change back, and a restart loses nothing.
StoreMatches == saving = NoSave /\ trusted => memory = store

Saved(c) == \A f \in Fields : req[c].changes[f] # Absent => store'[f] = req[c].changes[f]
Succeeds(c) == pc[c] = "staging" /\ (UnchangedReturns \/ SaveReturns) /\ Holder = c

\* A user's edit that returns success is in the store.
EditPersisted == [][\A c \in Calls : Succeeds(c) => Saved(c)]_vars

\* The same, unless a save was cancelled since memory and store last agreed.
EditPersistedUnlessCancelled == [][\A c \in Calls : trusted /\ Succeeds(c) => Saved(c)]_vars

\* A save changes no field of the stored drafts that its own edit or report
\* does not name.
SavedFieldwise ==
  [][\A f \in Fields : trusted /\ store'[f] # store[f] =>
       queue # <<>> /\ store'[f] # Absent /\ store'[f] = Changes[f]]_vars

\* The holder of the staging lock whose write has landed.
SavedBy == IF saving.state = "landed" THEN Holder ELSE NoCall
StageOf(c) ==
  IF pc[c] = "idle" THEN "free" ELSE IF SavedBy = c THEN "saved" ELSE "asked"

UserDrafts == {d \in Draft : Clean(d)}

\* SmartStaging implements DraftContract.
Contract == INSTANCE DraftContract WITH
  stage <- [c \in Calls |-> StageOf(c)],
  wants <- [c \in Calls |-> req[c].changes],
  stored <- store, sure <- trusted,
  Drafts <- UserDrafts, Reported <- {Usable(r) : r \in Reports}

\* Every run of the staging code, seen as what was asked, what is stored and
\* who returned, is one the contract allows: behind the snapshot, the save and
\* the restore of _async_store_smart_staging an edit reaches the store whole,
\* once and on top of what the others left there, or not at all.
ImplementsDraftContract == Contract!Spec

\* A change of the charger that was confirmed is never answered with an error
\* over the plan it was made of.
ConfirmedNotRejected ==
  [][\A c \in Calls : Rejected /\ Holder = c => req[c].kind = "local"]_vars

\* Every edit returns, also behind reports that keep coming and saves that fail.
EditReturns == \A c \in Calls : pc[c] # "idle" ~> pc[c] = "idle"
=============================================================================
