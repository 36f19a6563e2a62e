------------------------- MODULE SmartStagingProofs -------------------------
(* Theorems about SmartStaging, for any calls, values, edits and reports.  *)
EXTENDS SmartStaging, TLAPS, SequenceTheorems

-----------------------------------------------------------------------------
(* Drafts                                                                  *)

\* Merging two drafts of valid fields gives one.
LEMMA OverlaidClean ==
  ASSUME NEW a \in Draft, NEW b \in Draft
  PROVE  /\ Overlaid(a, b) \in Draft
         /\ Clean(a) /\ Clean(b) => Clean(Overlaid(a, b))
BY DEF Overlaid, Draft, Clean

\* What is left of a report is valid and the report's own.
LEMMA UsableClean ==
  ASSUME NEW r \in Draft
  PROVE  /\ Usable(r) \in Draft /\ Clean(Usable(r))
         /\ \A f \in Fields : Usable(r)[f] \in {r[f], Absent}
BY DEF Usable, Draft, Clean

\* The empty draft and the empty request.
LEMMA EmptyClean == Empty \in Draft /\ Clean(Empty)
BY DEF Empty, Draft, Clean

\* A field that a merge changes has the value the newer draft gives it.
LEMMA MergeChanges ==
  ASSUME NEW a \in Draft, NEW b \in Draft, NEW f \in Fields,
         Overlaid(a, b)[f] # a[f]
  PROVE  Overlaid(a, b)[f] = b[f] /\ b[f] # Absent
BY DEF Overlaid

\* A field that the newer draft names has its value after the merge.
LEMMA MergeKeeps ==
  ASSUME NEW a \in Draft, NEW b \in Draft, NEW f \in Fields, b[f] # Absent
  PROVE  Overlaid(a, b)[f] = b[f]
BY DEF Overlaid

-----------------------------------------------------------------------------
(* The queue of the staging lock                                           *)

Entry == [by : Calls \cup {Device}, changes : Draft]

Waits(q, c)  == \E i \in DOMAIN q : q[i].by = c
OneEach(q)   == \A i, j \in DOMAIN q : q[i].by = q[j].by /\ q[i].by # Device => i = j
Owned(q, r)  == \A i \in DOMAIN q : q[i].by \in Calls => q[i].changes = r[q[i].by].changes

\* Someone new at the end of the queue.
LEMMA Appended ==
  ASSUME NEW q \in Seq(Entry), NEW e \in Entry
  PROVE  /\ Append(q, e) \in Seq(Entry) /\ Append(q, e) # <<>>
         /\ \A c : Waits(Append(q, e), c) <=> Waits(q, c) \/ e.by = c
         /\ OneEach(q) /\ (e.by = Device \/ ~Waits(q, e.by)) => OneEach(Append(q, e))
         /\ q # <<>> => Head(Append(q, e)) = Head(q)
<1> DEFINE p == Append(q, e)
<1>1. /\ p \in Seq(Entry) /\ p # <<>> /\ Len(p) = Len(q) + 1 /\ p[Len(q) + 1] = e
      /\ \A i \in 1..Len(q) : p[i] = q[i]
  BY AppendProperties
<1>2. Len(q) \in Nat /\ DOMAIN q = 1..Len(q) /\ DOMAIN p = 1..(Len(q) + 1)
  BY <1>1, LenProperties
<1>3. q # <<>> => Head(p) = Head(q) BY HeadTailAppend
<1> HIDE DEF p
<1>4. ASSUME NEW c PROVE Waits(p, c) <=> Waits(q, c) \/ e.by = c
  BY <1>1, <1>2 DEF Waits
<1>5. ASSUME OneEach(q), e.by = Device \/ ~Waits(q, e.by) PROVE OneEach(p)
  BY <1>1, <1>2, <1>5 DEF OneEach, Waits
<1> QED BY <1>1, <1>3, <1>4, <1>5 DEF p

\* A queue without its i-th entry.
LEMMA WithoutTyped ==
  ASSUME NEW q \in Seq(Entry), NEW i \in DOMAIN q
  PROVE  /\ Without(q, i) \in Seq(Entry) /\ DOMAIN Without(q, i) = 1..(Len(q) - 1)
         /\ \A j \in 1..(Len(q) - 1) : Without(q, i)[j] = IF j < i THEN q[j] ELSE q[j + 1]
         /\ DOMAIN q = 1..Len(q) /\ Len(q) \in Nat \ {0}
<1> DEFINE p == Without(q, i)
           n == Len(q) - 1
<1>1. Len(q) \in Nat /\ DOMAIN q = 1..Len(q) /\ \A j \in 1..Len(q) : q[j] \in Entry
  BY LenProperties, ElementOfSeq
<1>2. n \in Nat /\ i \in 1..Len(q) /\ Len(q) = n + 1 BY <1>1
<1>3. p = [j \in 1..n |-> IF j < i THEN q[j] ELSE q[j + 1]] BY DEF Without
<1>4. \A j \in 1..n : (IF j < i THEN q[j] ELSE q[j + 1]) \in Entry BY <1>1, <1>2
<1>5. p \in Seq(Entry)
  <2> HIDE DEF n, Entry
  <2> QED BY <1>2, <1>3, <1>4
<1> QED BY <1>1, <1>2, <1>3, <1>5

\* Someone less, wherever he stood.
LEMMA Removed ==
  ASSUME NEW q \in Seq(Entry), NEW i \in DOMAIN q, OneEach(q)
  PROVE  /\ Without(q, i) \in Seq(Entry) /\ OneEach(Without(q, i))
         /\ \A c \in Calls : Device # c =>
              (Waits(Without(q, i), c) <=> Waits(q, c) /\ q[i].by # c)
         /\ i # 1 => Without(q, i) # <<>> /\ Head(Without(q, i)) = Head(q)
         /\ \A r : Owned(q, r) => Owned(Without(q, i), r)
<1> DEFINE p == Without(q, i)
           n == Len(q) - 1
<1>1. DOMAIN q = 1..Len(q) BY WithoutTyped
<1>2. n \in Nat /\ i \in 1..Len(q) /\ Len(q) = n + 1 BY WithoutTyped
<1>3. \A j \in 1..n : p[j] = IF j < i THEN q[j] ELSE q[j + 1] BY WithoutTyped
<1>4. DOMAIN p = 1..n BY WithoutTyped
<1>5. p \in Seq(Entry) BY WithoutTyped
<1> HIDE DEF p, n
<1>6. ASSUME NEW j \in 1..n, NEW k \in 1..n, p[j].by = p[k].by, p[j].by # Device PROVE j = k
  <2> DEFINE at(m) == IF m < i THEN m ELSE m + 1
  <2>1. /\ at(j) \in 1..Len(q) /\ at(k) \in 1..Len(q) /\ p[j] = q[at(j)] /\ p[k] = q[at(k)]
        /\ at(j) = at(k) => j = k
    BY <1>2, <1>3
  <2> HIDE DEF at
  <2>2. at(j) = at(k) BY <1>1, <1>6, <2>1 DEF OneEach
  <2> QED BY <2>1, <2>2
<1>7. ASSUME NEW c \in Calls, Device # c PROVE Waits(p, c) <=> Waits(q, c) /\ q[i].by # c
  <2>1. ASSUME NEW j \in 1..n, p[j].by = c PROVE Waits(q, c) /\ q[i].by # c
    <3>1. PICK k \in 1..Len(q) : k # i /\ p[j] = q[k] BY <1>2, <1>3
    <3> QED BY <1>1, <1>2, <1>7, <2>1, <3>1 DEF Waits, OneEach
  <2>2. ASSUME NEW k \in 1..Len(q), q[k].by = c, q[i].by # c PROVE Waits(p, c)
    <3>1. k # i BY <2>2
    <3>2. CASE k < i
      <4>1. k \in 1..n BY <1>2, <3>2
      <4> QED BY <1>3, <1>4, <2>2, <3>2, <4>1 DEF Waits
    <3>3. CASE k > i
      <4>1. k - 1 \in 1..n /\ ~(k - 1 < i) /\ (k - 1) + 1 = k BY <1>2, <3>3
      <4>2. p[k - 1] = q[k] BY <1>3, <4>1
      <4> QED BY <1>4, <2>2, <4>1, <4>2 DEF Waits
    <3> QED BY <1>2, <3>1, <3>2, <3>3
  <2> QED BY <1>1, <1>4, <2>1, <2>2 DEF Waits
<1>8. ASSUME i # 1 PROVE p # <<>> /\ Head(p) = Head(q)
  <2>1. 1 \in 1..n /\ 1 < i /\ p[1] = q[1] BY <1>2, <1>3, <1>8
  <2>2. p # <<>>
    <3>1. p = <<>> => DOMAIN p = 1..0 BY <1>5, EmptySeq, LenProperties
    <3> QED BY <1>4, <2>1, <3>1
  <2>3. q # <<>> BY <1>2, EmptySeq
  <2> QED BY <1>5, <2>1, <2>2, <2>3
<1>9. ASSUME NEW r, Owned(q, r) PROVE Owned(p, r)
  <2>1. ASSUME NEW j \in 1..n, p[j].by \in Calls PROVE p[j].changes = r[p[j].by].changes
    <3>1. PICK k \in 1..Len(q) : p[j] = q[k] BY <1>2, <1>3
    <3> QED BY <1>1, <1>9, <2>1, <3>1 DEF Owned
  <2> QED BY <1>4, <2>1 DEF Owned
<1> QED BY <1>4, <1>5, <1>6, <1>7, <1>8, <1>9 DEF p, OneEach

\* The head leaves as anybody else would.
LEMMA TailIsWithout ==
  ASSUME NEW q \in Seq(Entry), q # <<>>
  PROVE  1 \in DOMAIN q /\ Head(q) = q[1] /\ Head(q) \in Entry /\ Tail(q) = Without(q, 1)
<1>1. Len(q) \in Nat \ {0} /\ DOMAIN q = 1..Len(q) BY EmptySeq, LenProperties
<1>2. /\ Tail(q) \in Seq(Entry) /\ Len(Tail(q)) = Len(q) - 1 /\ Head(q) \in Entry
      /\ \A i \in 1..(Len(q) - 1) : Tail(q)[i] = q[i + 1]
  BY HeadTailProperties
<1>3. Tail(q) \in [1..(Len(q) - 1) -> Entry] BY <1>2, LenProperties
<1>4. Without(q, 1) = [j \in 1..(Len(q) - 1) |-> q[j + 1]] BY <1>1 DEF Without
<1>5. Tail(q) = [j \in 1..(Len(q) - 1) |-> Tail(q)[j]] BY <1>3
<1>6. Tail(q) = Without(q, 1) BY <1>2, <1>4, <1>5
<1> QED BY <1>1, <1>2, <1>6

-----------------------------------------------------------------------------
(* Type correctness                                                        *)

CallsTyped ==
  /\ pc \in [Calls -> {"idle", "queued", "live", "staging"}]
  /\ req \in [Calls -> [kind : {"none", "local", "live", "activate"}, changes : Draft]]
  /\ control \in Calls \cup {NoCall}

SaveTyped ==
  /\ saving \in [state : {"none", "running", "landed"}, before : Draft]
  /\ memory \in Draft /\ store \in Draft
  /\ Clean(memory) /\ Clean(store) /\ Clean(saving.before)
  /\ \A d \in orphans : d \in Draft /\ Clean(d)

SeenTyped == remembered \in Draft /\ mode \in {"smart", "other"}

\* The type invariant, in the parts the proofs use.
LEMMA TypeParts ==
  TypeOK <=> /\ CallsTyped /\ queue \in Seq(Entry) /\ SaveTyped /\ SeenTyped
             /\ trusted \in BOOLEAN
BY DEF TypeOK, CallsTyped, SaveTyped, SeenTyped, Entry

\* Every step writes a truth value to the history variable.
LEMMA TrustedTyped ==
  ASSUME trusted \in BOOLEAN, [Next]_vars
  PROVE  trusted' \in BOOLEAN
<1>1. CASE trusted' = trusted BY <1>1
<1>2. CASE trusted' = FALSE BY <1>2
<1>3. CASE trusted' = (orphans = {}) BY <1>3
<1>4. ASSUME NEW readable \in BOOLEAN, trusted' = readable PROVE trusted' \in BOOLEAN BY <1>4
<1>5. CASE UNCHANGED vars BY <1>1, <1>5 DEF vars, saveVars
<1>6. ASSUME NEW c \in Calls, CallStep(c) PROVE trusted' \in BOOLEAN
  BY <1>1, <1>2, <1>6
  DEF CallStep, Edit, SelectSmart, BeginLocal, BeginLive, Refuse, LiveConfirmed, LiveFails,
      Cancel, saveVars
<1>7. CASE LockStep
  BY <1>1, <1>3, <1>7
  DEF LockStep, Rejected, UnchangedReturns, SaveStarts, WriteLands, SaveReturns, SaveFails
<1>8. CASE \E r \in Reports, m \in {"smart", "other"} : Report(r, m)
  BY <1>1, <1>8 DEF Report, saveVars
<1>9. CASE \E d \in orphans : OrphanLands(d) BY <1>1, <1>9 DEF OrphanLands
<1>10. CASE \E readable \in BOOLEAN : Crash(readable) BY <1>4, <1>10 DEF Crash
<1> QED BY <1>5, <1>6, <1>7, <1>8, <1>9, <1>10 DEF Next

\* Where a returning call leaves its own state.
LEMMA ReturnTyped ==
  ASSUME CallsTyped, NEW c \in Calls, Return(c), control' \in {control, NoCall}
  PROVE  CallsTyped'
BY EmptyClean DEF CallsTyped, Return, NoReq

\* The head of the queue, and what is left when it leaves.
LEMMA HeadTyped ==
  ASSUME queue \in Seq(Entry), queue # <<>>
  PROVE  /\ Holder \in Calls \cup {Device} /\ Changes \in Draft
         /\ Accepted \in Draft /\ (Acceptable => Clean(Accepted))
<1>1. Holder \in Calls \cup {Device} /\ Changes \in Draft
  BY TailIsWithout DEF Holder, Changes, Entry
<1> QED BY <1>1, UsableClean DEF Accepted, Acceptable

\* The holder's release.
LEMMA ReleaseTyped ==
  ASSUME CallsTyped, queue \in Seq(Entry), queue # <<>>, Release
  PROVE  /\ CallsTyped' /\ queue' \in Seq(Entry)
         /\ saving' \in [state : {"none", "running", "landed"}, before : Draft]
         /\ Clean(saving'.before)
<1>1. queue' \in Seq(Entry) BY HeadTailProperties DEF Release
<1>2. saving' = NoSave BY DEF Release
<1>3. CallsTyped'
  <2>1. CASE Holder = Device BY <2>1 DEF Release, CallsTyped, callVars
  <2>2. CASE Holder # Device
    <3>1. Holder \in Calls BY HeadTyped, <2>2
    <3>2. Return(Holder) /\ control' = NoCall BY <2>2 DEF Release, FreeControl
    <3> QED BY <3>1, <3>2, ReturnTyped
  <2> QED BY <2>1, <2>2
<1> QED BY <1>1, <1>2, <1>3, EmptyClean DEF NoSave

\* And from its parts to the whole, after a step.
LEMMA FromParts ==
  ASSUME CallsTyped', queue' \in Seq(Entry), SaveTyped', SeenTyped', trusted' \in BOOLEAN
  PROVE  TypeOK'
BY DEF TypeOK, CallsTyped, SaveTyped, SeenTyped, Entry

\* Joining the queue keeps it one of entries.
LEMMA EnqueueTyped ==
  ASSUME queue \in Seq(Entry), NEW who \in Calls \cup {Device}, NEW d \in Draft, Enqueue(who, d)
  PROVE  queue' \in Seq(Entry)
<1>1. [by |-> who, changes |-> d] \in Entry BY DEF Entry
<1> QED BY <1>1, Appended DEF Enqueue

\* A change made in memory is a draft of valid fields.
LEMMA ChangeTyped ==
  ASSUME queue \in Seq(Entry), queue # <<>>, SaveTyped, Acceptable
  PROVE  Overlaid(memory, Accepted) \in Draft /\ Clean(Overlaid(memory, Accepted))
BY HeadTyped, OverlaidClean DEF SaveTyped

\* A service call's steps keep the types.
LEMMA CallTyped ==
  ASSUME TypeOK, NEW c \in Calls, CallStep(c), trusted' \in BOOLEAN
  PROVE  TypeOK'
<1>1. ASSUME NEW e \in Edits, Edit(c, e) PROVE TypeOK'
  <2>1. e \in Draft BY StagingAssumption
  <2>2. CallsTyped' BY <1>1, <2>1, TypeParts DEF Edit, CallsTyped
  <2> QED BY <1>1, <2>2, TypeParts, FromParts DEF Edit, saveVars, SaveTyped, SeenTyped
<1>2. CASE SelectSmart(c)
  <2>1. CallsTyped' BY <1>2, EmptyClean, TypeParts DEF SelectSmart, CallsTyped
  <2> QED BY <1>2, <2>1, TypeParts, FromParts DEF SelectSmart, saveVars, SaveTyped, SeenTyped
<1>3. CASE BeginLocal(c) \/ LiveConfirmed(c)
  <2>1. CallsTyped' BY <1>3, TypeParts DEF BeginLocal, LiveConfirmed, CallsTyped
  <2>2. req[c].changes \in Draft BY TypeParts DEF CallsTyped
  <2>3. queue' \in Seq(Entry)
    BY <1>3, <2>2, EnqueueTyped, TypeParts DEF BeginLocal, LiveConfirmed
  <2> QED BY <1>3, <2>1, <2>3, TypeParts, FromParts
          DEF BeginLocal, LiveConfirmed, saveVars, SaveTyped, SeenTyped
<1>4. CASE BeginLive(c)
  <2>1. Candidate \in Draft BY OverlaidClean, TypeParts DEF Candidate, SaveTyped, SeenTyped
  <2>2. CallsTyped' BY <1>4, <2>1, TypeParts DEF BeginLive, CallsTyped
  <2> QED BY <1>4, <2>2, TypeParts, FromParts DEF BeginLive, saveVars, SaveTyped, SeenTyped
<1>5. CASE Refuse(c) \/ LiveFails(c)
  <2>1. CallsTyped' BY <1>5, ReturnTyped, TypeParts DEF Refuse, LiveFails, FreeControl
  <2> QED BY <1>5, <2>1, TypeParts, FromParts
          DEF Refuse, LiveFails, saveVars, SaveTyped, SeenTyped
<1>6. CASE Cancel(c)
  <2>1. CallsTyped' BY <1>6, ReturnTyped, TypeParts DEF Cancel
  <2>2. SeenTyped' BY <1>6, TypeParts DEF Cancel, SeenTyped
  <2>3. CASE UNCHANGED <<queue, saving, orphans, trusted>>
    BY <1>6, <2>1, <2>2, <2>3, TypeParts, FromParts DEF Cancel, SaveTyped
  <2>4. ASSUME NEW i \in DOMAIN queue, queue' = Without(queue, i),
               saving' \in {saving, NoSave}, orphans' \subseteq orphans \cup {memory}
        PROVE  TypeOK'
    <3>1. queue' \in Seq(Entry) BY <2>4, WithoutTyped, TypeParts
    <3>2. SaveTyped' BY <1>6, <2>4, EmptyClean, TypeParts DEF Cancel, SaveTyped, NoSave
    <3> QED BY <2>1, <2>2, <3>1, <3>2, FromParts
  <2>5. \/ UNCHANGED <<queue, saving, orphans, trusted>>
        \/ \E i \in DOMAIN queue :
             /\ queue' = Without(queue, i) /\ saving' \in {saving, NoSave}
             /\ orphans' \subseteq orphans \cup {memory}
    BY <1>6 DEF Cancel
  <2> QED BY <2>3, <2>4, <2>5
<1> QED BY <1>1, <1>2, <1>3, <1>4, <1>5, <1>6 DEF CallStep

\* So do the steps under the staging lock.
LEMMA LockTyped ==
  ASSUME TypeOK, LockStep, trusted' \in BOOLEAN, saving # NoSave => queue # <<>>
  PROVE  TypeOK'
<1>1. CASE Rejected \/ UnchangedReturns \/ SaveReturns \/ SaveFails
  <2>1. queue # <<>> /\ Release
    BY <1>1 DEF Rejected, UnchangedReturns, SaveReturns, SaveFails, SaveDone, NoSave
  <2>2. memory' \in {memory, saving.before} /\ UNCHANGED <<store, orphans, remembered, mode>>
    BY <1>1 DEF Rejected, UnchangedReturns, SaveReturns, SaveFails, Restored
  <2>3. SaveTyped' /\ SeenTyped'
    BY <2>1, <2>2, ReleaseTyped, TypeParts DEF SaveTyped, SeenTyped
  <2> QED BY <2>1, <2>3, ReleaseTyped, TypeParts, FromParts
<1>2. CASE SaveStarts
  <2>1. memory' \in Draft /\ Clean(memory') BY <1>2, ChangeTyped, TypeParts DEF SaveStarts
  <2>2. SaveTyped' BY <1>2, <2>1, TypeParts DEF SaveStarts, SaveTyped
  <2> QED BY <1>2, <2>2, TypeParts, FromParts DEF SaveStarts, callVars, CallsTyped, SeenTyped
<1>3. CASE WriteLands
  <2>1. SaveTyped' BY <1>3, TypeParts DEF WriteLands, SaveTyped
  <2> QED BY <1>3, <2>1, TypeParts, FromParts DEF WriteLands, callVars, CallsTyped, SeenTyped
<1> QED BY <1>1, <1>2, <1>3 DEF LockStep

\* And what runs beside the calls.
LEMMA OthersTyped ==
  ASSUME TypeOK, trusted' \in BOOLEAN,
         \/ \E r \in Reports, m \in {"smart", "other"} : Report(r, m)
         \/ \E d \in orphans : OrphanLands(d)
         \/ \E readable \in BOOLEAN : Crash(readable)
         \/ UNCHANGED vars
  PROVE  TypeOK'
<1>1. ASSUME NEW r \in Reports, NEW m \in {"smart", "other"}, Report(r, m) PROVE TypeOK'
  <2>1. r \in Draft BY StagingAssumption
  <2>2. SeenTyped' BY <1>1, <2>1, OverlaidClean, TypeParts DEF Report, SeenTyped
  <2>3. queue' \in Seq(Entry) BY <1>1, <2>1, EnqueueTyped, TypeParts DEF Report
  <2> QED BY <1>1, <2>2, <2>3, TypeParts, FromParts
          DEF Report, callVars, saveVars, CallsTyped, SaveTyped
<1>2. ASSUME NEW d \in orphans, OrphanLands(d) PROVE TypeOK'
  <2>1. SaveTyped' BY <1>2, TypeParts DEF OrphanLands, SaveTyped
  <2> QED BY <1>2, <2>1, TypeParts, FromParts DEF OrphanLands, callVars, CallsTyped, SeenTyped
<1>3. ASSUME NEW readable \in BOOLEAN, Crash(readable) PROVE TypeOK'
  <2>1. NoReq \in [kind : {"none", "local", "live", "activate"}, changes : Draft]
    BY EmptyClean DEF NoReq
  <2>2. CallsTyped' BY <1>3, <2>1 DEF Crash, CallsTyped
  <2>3. SaveTyped'
    <3>1. memory' \in {store, Empty} /\ saving' = NoSave /\ orphans' = {} /\ store' = store
      BY <1>3 DEF Crash
    <3> QED BY <3>1, EmptyClean, TypeParts DEF SaveTyped, NoSave
  <2>4. SeenTyped' BY <1>3, EmptyClean DEF Crash, SeenTyped
  <2>5. queue' \in Seq(Entry) BY <1>3, EmptySeq DEF Crash
  <2> QED BY <2>2, <2>3, <2>4, <2>5, FromParts
<1>4. CASE UNCHANGED vars
  BY <1>4, TypeParts, FromParts
  DEF vars, callVars, saveVars, CallsTyped, SaveTyped, SeenTyped
<1> QED BY <1>1, <1>2, <1>3, <1>4

\* The type invariant is kept by every step, where a save has a holder.
LEMMA TypeStep ==
  ASSUME TypeOK, [Next]_vars, trusted' \in BOOLEAN, saving # NoSave => queue # <<>>
  PROVE  TypeOK'
BY CallTyped, LockTyped, OthersTyped DEF Next


-----------------------------------------------------------------------------
(* The inductive invariant                                                 *)

Locks ==
  /\ \A c \in Calls : pc[c] \in {"live", "staging"} <=> control = c
  /\ \A c \in Calls : pc[c] = "staging" <=> Waits(queue, c)
  /\ OneEach(queue) /\ Owned(queue, req)
  /\ saving # NoSave => queue # <<>>
  /\ saving.state = "none" => saving = NoSave

\* Memory is what the store holds, or what the save under way makes of it.
Agree ==
  /\ orphans # {} => ~trusted
  /\ trusted /\ saving = NoSave => memory = store
  /\ trusted /\ saving.state = "running" => saving.before = store
  /\ trusted /\ saving.state = "landed" => memory = store
  /\ saving # NoSave => Acceptable /\ memory = Overlaid(saving.before, Accepted)

IInv == TypeOK /\ Locks /\ Agree

-----------------------------------------------------------------------------
(* The locks                                                               *)

\* What a call that is not in the queue asks for concerns no entry.
LEMMA OwnedByOthers ==
  ASSUME CallsTyped, NEW c \in Calls, NEW x, Owned(queue, req), ~Waits(queue, c)
  PROVE  Owned(queue, [req EXCEPT ![c] = x])
BY DEF Owned, Waits, CallsTyped

\* An entry leaves the queue, and its call returns.
LEMMA LeavesLocks ==
  ASSUME TypeOK, Locks, NEW i \in DOMAIN queue, queue' = Without(queue, i),
         \/ queue[i].by = Device /\ UNCHANGED callVars
         \/ queue[i].by \in Calls /\ Return(queue[i].by) /\ control' = NoCall,
         saving' = NoSave \/ (i # 1 /\ saving' = saving)
  PROVE  Locks'
<1> USE StagingAssumption
<1>1. queue \in Seq(Entry) /\ CallsTyped BY TypeParts
<1>2. OneEach(queue) /\ Owned(queue, req) BY DEF Locks
<1>3. /\ OneEach(queue') /\ Owned(queue', req)
      /\ \A c \in Calls : Waits(queue', c) <=> Waits(queue, c) /\ queue[i].by # c
      /\ i # 1 => queue' # <<>>
  BY <1>1, <1>2, Removed
<1>4. (saving # NoSave => queue # <<>>)' /\ (saving.state = "none" => saving = NoSave)'
  BY <1>3 DEF Locks
<1>5. CASE queue[i].by = Device /\ UNCHANGED callVars
  BY <1>3, <1>4, <1>5 DEF Locks, callVars
<1>6. CASE queue[i].by \in Calls /\ Return(queue[i].by) /\ control' = NoCall
  <2> DEFINE c == queue[i].by
  <2>1. c \in Calls /\ pc' = [pc EXCEPT ![c] = "idle"] /\ req' = [req EXCEPT ![c] = NoReq]
    BY <1>6 DEF Return
  <2>2. Waits(queue, c) BY DEF Waits
  <2> HIDE DEF c
  <2>3. pc[c] = "staging" /\ control = c BY <2>1, <2>2 DEF Locks
  <2>4. ~Waits(queue', c) BY <1>3, <2>1 DEF c
  <2>5. Owned(queue', req')
    BY <1>1, <1>3, <2>1, <2>4 DEF Owned, Waits, CallsTyped
  <2>6. \A d \in Calls : pc'[d] \in {"live", "staging"} <=> control' = d
    BY <1>1, <1>6, <2>1, <2>3 DEF Locks, CallsTyped
  <2>7. \A d \in Calls : pc'[d] = "staging" <=> Waits(queue', d)
    BY <1>1, <1>3, <2>1, <2>4 DEF Locks, CallsTyped, c
  <2> QED BY <1>3, <1>4, <2>5, <2>6, <2>7 DEF Locks
<1> QED BY <1>5, <1>6

\* The head leaves by its release.
LEMMA ReleaseLocks ==
  ASSUME TypeOK, Locks, queue # <<>>, Release
  PROVE  Locks'
<1>1. /\ queue \in Seq(Entry) /\ 1 \in DOMAIN queue /\ Holder = queue[1].by
      /\ Tail(queue) = Without(queue, 1) /\ Holder \in Calls \cup {Device}
  BY TailIsWithout, HeadTyped, TypeParts DEF Holder
<1>2. queue' = Without(queue, 1) /\ saving' = NoSave BY <1>1 DEF Release
<1>3. \/ queue[1].by = Device /\ UNCHANGED callVars
      \/ queue[1].by \in Calls /\ Return(queue[1].by) /\ control' = NoCall
  BY <1>1, StagingAssumption DEF Release, FreeControl
<1> QED BY <1>1, <1>2, <1>3, LeavesLocks

\* A call joins the queue, holding the control lock.
LEMMA JoinsLocks ==
  ASSUME TypeOK, Locks, NEW c \in Calls, pc[c] \in {"queued", "live"},
         control \in {NoCall, c}, control' = c,
         pc' = [pc EXCEPT ![c] = "staging"], Enqueue(c, req[c].changes),
         UNCHANGED <<req, saving>>
  PROVE  Locks'
<1> USE StagingAssumption
<1>1. queue \in Seq(Entry) /\ CallsTyped BY TypeParts
<1> DEFINE e == [by |-> c, changes |-> req[c].changes]
<1>2. e \in Entry /\ e.by = c /\ e.changes = req[c].changes BY <1>1 DEF Entry, CallsTyped
<1>3. queue' = Append(queue, e) BY DEF Enqueue
<1> HIDE DEF e
<1>4. ~Waits(queue, c) BY DEF Locks
<1>5. /\ queue' # <<>> /\ OneEach(queue')
      /\ \A d \in Calls : Waits(queue', d) <=> Waits(queue, d) \/ d = c
  BY <1>1, <1>2, <1>3, <1>4, Appended DEF Locks
<1>6. Owned(queue', req')
  <2>1. DOMAIN queue' = 1..(Len(queue) + 1) /\ DOMAIN queue = 1..Len(queue) /\ Len(queue) \in Nat
    BY <1>1, <1>2, <1>3, AppendProperties, LenProperties
  <2>2. queue'[Len(queue) + 1] = e /\ \A i \in 1..Len(queue) : queue'[i] = queue[i]
    BY <1>1, <1>2, <1>3, AppendProperties
  <2> QED BY <1>2, <2>1, <2>2 DEF Owned, Locks
<1>7. \A d \in Calls : pc'[d] \in {"live", "staging"} <=> control' = d
  BY <1>1 DEF Locks, CallsTyped
<1>8. \A d \in Calls : pc'[d] = "staging" <=> Waits(queue', d)
  BY <1>1, <1>5 DEF Locks, CallsTyped
<1> QED BY <1>5, <1>6, <1>7, <1>8 DEF Locks

\* A call that is not in the queue moves beside it.
LEMMA MovesLocks ==
  ASSUME TypeOK, Locks, NEW c \in Calls, pc[c] # "staging",
         NEW where \in {"idle", "queued", "live"}, pc' = [pc EXCEPT ![c] = where],
         req' = req \/ \E x : req' = [req EXCEPT ![c] = x],
         control' = IF where = "live" THEN c ELSE IF control = c THEN NoCall ELSE control,
         control = NoCall \/ where # "live", UNCHANGED <<queue, saving>>
  PROVE  Locks'
<1> USE StagingAssumption
<1>1. CallsTyped /\ ~Waits(queue, c) BY TypeParts DEF Locks
<1>2. Owned(queue', req') BY <1>1, OwnedByOthers DEF Locks
<1>3. \A d \in Calls : pc'[d] \in {"live", "staging"} <=> control' = d
  BY <1>1 DEF Locks, CallsTyped
<1>4. \A d \in Calls : pc'[d] = "staging" <=> Waits(queue', d)
  BY <1>1 DEF Locks, CallsTyped
<1> QED BY <1>2, <1>3, <1>4 DEF Locks

\* No step lets a call hold or await a lock that it is not entered for.
LEMMA LocksStep ==
  ASSUME TypeOK, Locks, [Next]_vars
  PROVE  Locks'
<1> USE StagingAssumption
<1>0. CallsTyped /\ queue \in Seq(Entry) BY TypeParts
<1>1. ASSUME NEW c \in Calls, (\E e \in Edits : Edit(c, e)) \/ SelectSmart(c) PROVE Locks'
  <2>1. /\ pc[c] = "idle" /\ pc' = [pc EXCEPT ![c] = "queued"]
        /\ \E x : req' = [req EXCEPT ![c] = x]
        /\ UNCHANGED <<control, queue, saving>>
    BY <1>1 DEF Edit, SelectSmart, saveVars
  <2>2. control # c BY <2>1 DEF Locks
  <2> QED BY <2>1, <2>2, MovesLocks
<1>2. ASSUME NEW c \in Calls, BeginLocal(c) \/ LiveConfirmed(c) PROVE Locks'
  <2>1. control \in {NoCall, c} /\ control' = c
    BY <1>2 DEF BeginLocal, LiveConfirmed, ControlFree, Locks
  <2> QED BY <1>2, <2>1, JoinsLocks DEF BeginLocal, LiveConfirmed, saveVars
<1>3. ASSUME NEW c \in Calls, BeginLive(c) PROVE Locks'
  <2>1. req' = req \/ \E x : req' = [req EXCEPT ![c] = x] BY <1>3 DEF BeginLive
  <2> QED BY <1>3, <2>1, MovesLocks DEF BeginLive, ControlFree, saveVars
<1>4. ASSUME NEW c \in Calls, Refuse(c) \/ LiveFails(c) \/ (Cancel(c) /\ pc[c] # "staging")
      PROVE  Locks'
  <2>1. /\ pc[c] # "staging" /\ pc' = [pc EXCEPT ![c] = "idle"]
        /\ req' = [req EXCEPT ![c] = NoReq] /\ UNCHANGED <<queue, saving>>
    BY <1>4 DEF Refuse, LiveFails, Cancel, Return, saveVars, Locks, Waits
  <2>2. control' = IF control = c THEN NoCall ELSE control
    BY <1>4 DEF Refuse, LiveFails, Cancel, FreeControl, Locks
  <2> QED BY <2>1, <2>2, MovesLocks
<1>5. ASSUME NEW c \in Calls, Cancel(c), pc[c] = "staging" PROVE Locks'
  <2>1. PICK i \in DOMAIN queue :
          /\ queue[i].by = c /\ queue' = Without(queue, i)
          /\ saving' = IF i = 1 THEN NoSave ELSE saving
    BY <1>5 DEF Cancel
  <2>2. Return(c) /\ control' = NoCall BY <1>5 DEF Cancel, Locks
  <2> QED BY <2>1, <2>2, LeavesLocks
<1>6. CASE Rejected \/ UnchangedReturns \/ SaveReturns \/ SaveFails
  <2>1. queue # <<>> /\ Release
    BY <1>6 DEF Rejected, UnchangedReturns, SaveReturns, SaveFails, SaveDone, NoSave, Locks
  <2> QED BY <2>1, ReleaseLocks
<1>7. CASE SaveStarts
  BY <1>7 DEF SaveStarts, Locks, callVars, NoSave
<1>8. CASE WriteLands
  <2>1. saving \in [state : {"none", "running", "landed"}, before : Draft]
    BY TypeParts DEF SaveTyped
  <2>2. saving'.state = "landed" /\ queue # <<>> BY <1>8, <2>1 DEF WriteLands, Locks, NoSave
  <2> QED BY <1>8, <2>2 DEF WriteLands, Locks, callVars
<1>9. ASSUME NEW r \in Reports, NEW m \in {"smart", "other"}, Report(r, m) PROVE Locks'
  <2>1. UNCHANGED <<pc, req, control, saving>> BY <1>9 DEF Report, callVars, saveVars
  <2>2. CASE UNCHANGED queue BY <2>1, <2>2 DEF Locks
  <2>3. CASE Enqueue(Device, r)
    <3> DEFINE e == [by |-> Device, changes |-> r]
    <3>1. e \in Entry /\ e.by = Device BY DEF Entry
    <3>2. queue' = Append(queue, e) BY <2>3 DEF Enqueue
    <3> HIDE DEF e
    <3>3. /\ queue' # <<>> /\ OneEach(queue')
          /\ \A d \in Calls : Waits(queue', d) <=> Waits(queue, d)
      BY <1>0, <3>1, <3>2, Appended DEF Locks
    <3>4. Owned(queue', req)
      <4>1. /\ DOMAIN queue' = 1..(Len(queue) + 1) /\ DOMAIN queue = 1..Len(queue)
            /\ Len(queue) \in Nat
        BY <1>0, <3>1, <3>2, AppendProperties, LenProperties
      <4>2. queue'[Len(queue) + 1] = e /\ \A i \in 1..Len(queue) : queue'[i] = queue[i]
        BY <1>0, <3>1, <3>2, AppendProperties
      <4> QED BY <3>1, <4>1, <4>2 DEF Owned, Locks
    <3> QED BY <2>1, <3>3, <3>4 DEF Locks
  <2> QED BY <1>9, <2>2, <2>3 DEF Report
<1>10. ASSUME NEW d \in orphans, OrphanLands(d) PROVE Locks'
  BY <1>10 DEF OrphanLands, Locks, callVars
<1>11. ASSUME NEW readable \in BOOLEAN, Crash(readable) PROVE Locks'
  <2>1. \A c : ~Waits(<<>>, c) BY DEF Waits
  <2>2. OneEach(<<>>) /\ Owned(<<>>, req') BY DEF OneEach, Owned
  <2>3. /\ queue' = <<>> /\ saving' = NoSave /\ control' = NoCall
        /\ \A c \in Calls : pc'[c] = "idle"
    BY <1>11 DEF Crash
  <2> QED BY <2>1, <2>2, <2>3 DEF Locks
<1>12. CASE UNCHANGED vars BY <1>12 DEF vars, callVars, saveVars, Locks
<1> QED BY <1>1, <1>2, <1>3, <1>4, <1>5, <1>6, <1>7, <1>8, <1>9, <1>10, <1>11, <1>12
        DEF Next, CallStep, LockStep

-----------------------------------------------------------------------------
(* Memory and store                                                        *)

\* What does not touch the head of the queue leaves a save as it is.
LEMMA AgreeFrame ==
  ASSUME Agree, UNCHANGED saveVars, saving # NoSave => Head(queue') = Head(queue)
  PROVE  Agree'
<1>1. saving # NoSave => (Accepted' = Accepted /\ (Acceptable' <=> Acceptable))
  BY DEF Accepted, Acceptable, Holder, Changes
<1> QED BY <1>1 DEF Agree, saveVars

\* Where someone joins the queue, the head stays.
LEMMA AgreeEnqueue ==
  ASSUME TypeOK, Locks, Agree, UNCHANGED saveVars,
         NEW who \in Calls \cup {Device}, NEW d \in Draft, Enqueue(who, d)
  PROVE  Agree'
<1>1. [by |-> who, changes |-> d] \in Entry /\ queue \in Seq(Entry)
  BY TypeParts DEF Entry
<1>2. queue # <<>> => Head(queue') = Head(queue) BY <1>1, Appended DEF Enqueue
<1>3. saving # NoSave => queue # <<>> BY DEF Locks
<1> QED BY <1>2, <1>3, AgreeFrame

\* Where a save is over, memory is what the store holds, or not trusted.
LEMMA AgreeOver ==
  ASSUME saving' = NoSave, orphans' # {} => ~trusted', trusted' => memory' = store'
  PROVE  Agree'
BY DEF Agree, NoSave

\* No step lets memory and store part without a save under way.
LEMMA AgreeStep ==
  ASSUME TypeOK, Locks, Agree, [Next]_vars
  PROVE  Agree'
<1> USE StagingAssumption
<1>0. /\ CallsTyped /\ queue \in Seq(Entry) /\ SaveTyped
      /\ saving.state \in {"none", "running", "landed"}
  BY TypeParts DEF SaveTyped
<1>1. ASSUME NEW c \in Calls, BeginLocal(c) \/ LiveConfirmed(c) PROVE Agree'
  <2>1. req[c].changes \in Draft BY <1>0 DEF CallsTyped
  <2> QED BY <1>1, <2>1, AgreeEnqueue DEF BeginLocal, LiveConfirmed
<1>2. ASSUME NEW c \in Calls,
             \/ \E e \in Edits : Edit(c, e)
             \/ SelectSmart(c) \/ BeginLive(c) \/ Refuse(c) \/ LiveFails(c)
      PROVE  Agree'
  BY <1>2, AgreeFrame DEF Edit, SelectSmart, BeginLive, Refuse, LiveFails
<1>3. ASSUME NEW c \in Calls, Cancel(c) PROVE Agree'
  <2>1. CASE UNCHANGED <<queue, saving, orphans, trusted>>
    <3>1. UNCHANGED saveVars BY <1>3, <2>1 DEF Cancel, saveVars
    <3> QED BY <2>1, <3>1, AgreeFrame
  <2>2. ASSUME NEW i \in DOMAIN queue, i # 1, queue' = Without(queue, i), saving' = saving,
               UNCHANGED <<trusted, orphans>>
        PROVE  Agree'
    <3>1. UNCHANGED saveVars BY <1>3, <2>2 DEF Cancel, saveVars
    <3>2. Head(queue') = Head(queue) BY <1>0, <2>2, Removed DEF Locks
    <3> QED BY <3>1, <3>2, AgreeFrame
  <2>3. CASE saving.state = "running" /\ saving' = NoSave /\ trusted' = FALSE
    BY <2>3, AgreeOver
  <2>4. CASE saving.state # "running" /\ saving' = NoSave /\ UNCHANGED <<trusted, orphans>>
    <3>1. UNCHANGED <<memory, store>> BY <1>3 DEF Cancel
    <3>2. trusted => memory = store BY <1>0, <2>4 DEF Agree, Locks
    <3> QED BY <2>4, <3>1, <3>2, AgreeOver DEF Agree
  <2>5. \/ UNCHANGED <<queue, saving, orphans, trusted>>
        \/ \E i \in DOMAIN queue : /\ i # 1 /\ queue' = Without(queue, i) /\ saving' = saving
                                   /\ UNCHANGED <<trusted, orphans>>
        \/ saving.state = "running" /\ saving' = NoSave /\ trusted' = FALSE
        \/ saving.state # "running" /\ saving' = NoSave /\ UNCHANGED <<trusted, orphans>>
    BY <1>3 DEF Cancel
  <2> QED BY <2>1, <2>2, <2>3, <2>4, <2>5
<1>4. CASE Rejected \/ UnchangedReturns \/ SaveReturns
  <2>1. saving' = NoSave /\ UNCHANGED <<memory, store, orphans, trusted>>
    BY <1>4 DEF Rejected, UnchangedReturns, SaveReturns, Release
  <2>2. saving = NoSave \/ saving.state = "landed"
    BY <1>4 DEF Rejected, UnchangedReturns, SaveReturns, SaveDone
  <2> QED BY <2>1, <2>2, AgreeOver DEF Agree
<1>5. CASE SaveFails
  <2>1. /\ saving' = NoSave /\ saving.state = "running" /\ memory' = saving.before
        /\ UNCHANGED <<store, orphans, trusted>>
    BY <1>5 DEF SaveFails, Release, Restored
  <2> QED BY <2>1, AgreeOver DEF Agree
<1>6. CASE SaveStarts
  <2>1. /\ saving = NoSave /\ Acceptable /\ memory' = Overlaid(memory, Accepted)
        /\ saving' = [state |-> "running", before |-> memory]
        /\ UNCHANGED <<queue, store, orphans, trusted>>
    BY <1>6 DEF SaveStarts
  <2>2. Accepted' = Accepted /\ (Acceptable' <=> Acceptable)
    BY <2>1 DEF Accepted, Acceptable, Holder, Changes
  <2>3. saving'.state = "running" /\ saving'.before = memory /\ saving' # NoSave
    BY <2>1 DEF NoSave
  <2> QED BY <2>1, <2>2, <2>3 DEF Agree
<1>7. CASE WriteLands
  <2>1. /\ saving.state = "running" /\ store' = memory /\ (trusted' <=> orphans = {})
        /\ saving' = [saving EXCEPT !.state = "landed"] /\ UNCHANGED <<queue, memory, orphans>>
    BY <1>7 DEF WriteLands
  <2>2. Accepted' = Accepted /\ (Acceptable' <=> Acceptable)
    BY <2>1 DEF Accepted, Acceptable, Holder, Changes
  <2>3. saving'.state = "landed" /\ saving'.before = saving.before /\ saving # NoSave
    BY <1>0, <2>1 DEF NoSave, SaveTyped
  <2>4. Acceptable /\ memory = Overlaid(saving.before, Accepted) BY <2>3 DEF Agree
  <2> QED BY <2>1, <2>2, <2>3, <2>4 DEF Agree
<1>8. ASSUME NEW r \in Reports, NEW m \in {"smart", "other"}, Report(r, m) PROVE Agree'
  <2>1. UNCHANGED saveVars BY <1>8 DEF Report
  <2>2. CASE UNCHANGED queue BY <2>1, <2>2, AgreeFrame
  <2>3. CASE Enqueue(Device, r) BY <2>1, <2>3, AgreeEnqueue
  <2> QED BY <1>8, <2>2, <2>3 DEF Report
<1>9. ASSUME NEW d \in orphans, OrphanLands(d) PROVE Agree'
  <2>1. ~trusted /\ UNCHANGED <<queue, saving, memory, trusted>>
    BY <1>9 DEF OrphanLands, Agree
  <2>2. Accepted' = Accepted /\ (Acceptable' <=> Acceptable)
    BY <2>1 DEF Accepted, Acceptable, Holder, Changes
  <2> QED BY <2>1, <2>2 DEF Agree
<1>10. ASSUME NEW readable \in BOOLEAN, Crash(readable) PROVE Agree'
  <2>1. /\ saving' = NoSave /\ orphans' = {} /\ store' = store
        /\ memory' = IF readable THEN store ELSE Empty
        /\ trusted' = readable
    BY <1>10 DEF Crash
  <2> QED BY <2>1, AgreeOver
<1>11. CASE UNCHANGED vars
  BY <1>11, AgreeFrame DEF vars
<1> QED BY <1>1, <1>2, <1>3, <1>4, <1>5, <1>6, <1>7, <1>8, <1>9, <1>10, <1>11
        DEF Next, CallStep, LockStep

-----------------------------------------------------------------------------
(* The theorems                                                            *)

\* The inductive invariant holds at the start,
LEMMA InitHolds ==
  ASSUME Init
  PROVE  IInv
<1>1. NoReq \in [kind : {"none", "local", "live", "activate"}, changes : Draft]
  BY EmptyClean DEF NoReq
<1>2. TypeOK BY <1>1, EmptyClean, EmptySeq DEF Init, TypeOK, NoSave
<1>3. Locks BY StagingAssumption DEF Init, Locks, Waits, OneEach, Owned
<1>4. Agree BY DEF Init, Agree, NoSave
<1> QED BY <1>2, <1>3, <1>4 DEF IInv

\* and every step keeps it.
LEMMA StepHolds ==
  ASSUME IInv, [Next]_vars
  PROVE  IInv'
<1>1. trusted' \in BOOLEAN BY TrustedTyped, TypeParts DEF IInv
<1>2. TypeOK' BY <1>1, TypeStep DEF IInv, Locks
<1> QED BY <1>2, LocksStep, AgreeStep DEF IInv

\* In every reachable state.
LEMMA Invariance == Spec => []IInv
BY InitHolds, StepHolds, PTL DEF Spec

\* The drafts in memory and in the store hold only values a user could have
\* entered, whatever the charger reports and however saves end.
THEOREM TypeCorrect == Spec => []TypeOK
<1>1. IInv => TypeOK BY DEF IInv
<1> QED BY <1>1, Invariance, PTL

\* Both locks stand for exactly the calls that hold or await them.
THEOREM QueueCorrect == Spec => []QueueExact
<1>1. IInv => QueueExact BY DEF IInv, Locks, QueueExact, Waits, OneEach
<1> QED BY <1>1, Invariance, PTL

\* Memory and store agree whenever no save is under way, through failed saves,
\* reports and restarts.
THEOREM StoreCorrect == Spec => []StoreMatches
<1>1. IInv => StoreMatches BY DEF IInv, Agree, StoreMatches
<1> QED BY <1>1, Invariance, PTL

\* An edit that returns success is in the store, unless a save was cancelled.
THEOREM EditSaved == Spec => EditPersistedUnlessCancelled
<1>1. ASSUME IInv, NEW c \in Calls, trusted, Succeeds(c) PROVE Saved(c)
  <2>1. CallsTyped /\ queue \in Seq(Entry) /\ SaveTyped BY <1>1, TypeParts DEF IInv
  <2>2. pc[c] = "staging" /\ Holder = c /\ Locks /\ Agree BY <1>1 DEF IInv, Succeeds
  <2>3. queue # <<>> BY <2>1, <2>2, EmptySeq, LenProperties DEF Locks, Waits
  <2>4. /\ 1 \in DOMAIN queue /\ Head(queue) = queue[1]
    BY <2>1, <2>3, TailIsWithout
  <2>5. Changes = req[c].changes BY <2>2, <2>4 DEF Locks, Owned, Holder, Changes
  <2>6. Accepted = req[c].changes /\ req[c].changes \in Draft
    BY <2>1, <2>2, <2>5, StagingAssumption DEF Accepted, CallsTyped
  <2>7. memory = store /\ store' = store /\
        \E old \in Draft : memory = Overlaid(old, req[c].changes)
    <3>1. CASE UnchangedReturns
      BY <1>1, <2>1, <2>2, <2>6, <3>1 DEF UnchangedReturns, Agree, SaveTyped
    <3>2. CASE SaveReturns
      <4>1. saving.state = "landed" /\ store' = store BY <3>2 DEF SaveReturns, SaveDone
      <4>2. saving # NoSave /\ saving.before \in Draft BY <2>1, <4>1 DEF NoSave, SaveTyped
      <4> QED BY <1>1, <2>2, <2>6, <4>1, <4>2 DEF Agree
    <3> QED BY <1>1, <3>1, <3>2 DEF Succeeds
  <2>8. PICK old \in Draft : memory = Overlaid(old, req[c].changes) BY <2>7
  <2>9. ASSUME NEW f \in Fields, req[c].changes[f] # Absent
        PROVE  store'[f] = req[c].changes[f]
    <3>1. memory[f] = req[c].changes[f] BY <2>6, <2>8, <2>9, MergeKeeps
    <3> QED BY <2>7, <3>1
  <2> QED BY <2>9 DEF Saved
<1>2. IInv => (\A c \in Calls : trusted /\ Succeeds(c) => Saved(c)) BY <1>1
<1> QED BY <1>2, Invariance, PTL DEF EditPersistedUnlessCancelled

\* A save changes no stored field that its own edit or report does not name.
THEOREM SavedFieldByField == Spec => SavedFieldwise
<1>1. ASSUME IInv, [Next]_vars, NEW f \in Fields, trusted, store'[f] # store[f]
      PROVE  queue # <<>> /\ store'[f] # Absent /\ store'[f] = Changes[f]
  <2>1. queue \in Seq(Entry) /\ SaveTyped /\ Locks /\ Agree BY <1>1, TypeParts DEF IInv
  <2>2. WriteLands
    <3>1. store' # store BY <1>1
    <3>2. ASSUME NEW c \in Calls, CallStep(c) PROVE FALSE
      BY <3>1, <3>2
      DEF CallStep, Edit, SelectSmart, BeginLocal, BeginLive, Refuse, LiveConfirmed, LiveFails,
          Cancel, saveVars
    <3>3. CASE LockStep
      BY <3>1, <3>3 DEF LockStep, Rejected, UnchangedReturns, SaveStarts, SaveReturns, SaveFails
    <3>4. ASSUME NEW d \in orphans PROVE FALSE BY <1>1, <2>1, <3>4 DEF Agree
    <3>5. ASSUME NEW r \in Reports, NEW m \in {"smart", "other"}, Report(r, m) PROVE FALSE
      BY <3>1, <3>5 DEF Report, saveVars
    <3>6. ASSUME NEW readable \in BOOLEAN, Crash(readable) PROVE FALSE
      BY <3>1, <3>6 DEF Crash
    <3>7. CASE UNCHANGED vars BY <3>1, <3>7 DEF vars, saveVars
    <3> QED BY <1>1, <3>2, <3>3, <3>4, <3>5, <3>6, <3>7 DEF Next
  <2>3. saving.state = "running" /\ store' = memory BY <2>2 DEF WriteLands
  <2>4. saving # NoSave /\ queue # <<>> BY <2>1, <2>3 DEF NoSave, Locks
  <2>5. memory = Overlaid(store, Accepted) BY <1>1, <2>1, <2>3, <2>4 DEF Agree
  <2>6. Accepted \in Draft /\ Changes \in Draft BY <2>1, <2>4, HeadTyped
  <2>7. store'[f] = Accepted[f] /\ Accepted[f] # Absent
    <3>1. store \in Draft BY <2>1 DEF SaveTyped
    <3>2. Overlaid(store, Accepted)[f] # store[f] BY <1>1, <2>3, <2>5
    <3>3. Overlaid(store, Accepted)[f] = Accepted[f] /\ Accepted[f] # Absent
      BY <2>6, <3>1, <3>2, MergeChanges
    <3> QED BY <2>3, <2>5, <3>3
  <2>8. Accepted[f] \in {Changes[f], Absent} BY <2>6, UsableClean DEF Accepted
  <2> QED BY <2>4, <2>7, <2>8
<1>2. IInv /\ [Next]_vars =>
        (\A f \in Fields : trusted /\ store'[f] # store[f] =>
           queue # <<>> /\ store'[f] # Absent /\ store'[f] = Changes[f])
  BY <1>1
<1> QED BY <1>2, Invariance, PTL DEF Spec, SavedFieldwise

-----------------------------------------------------------------------------
(* The contract                                                            *)

\* Where what the staging lock's queue holds comes from: a report for an entry
\* of the device, and nothing yet for an activation that waits its turn.
FromReports(q) == \A i \in DOMAIN q : q[i].by = Device => q[i].changes \in Reports
Undecided(c) == pc[c] = "queued" /\ req[c].kind = "activate" => req[c].changes = Empty
Sourced == FromReports(queue) /\ \A c \in Calls : Undecided(c)

\* A queue with one entry more or less.
LEMMA QueueSourced ==
  ASSUME NEW q \in Seq(Entry), FromReports(q)
  PROVE  /\ \A e \in Entry : (e.by = Device => e.changes \in Reports) =>
              FromReports(Append(q, e))
         /\ \A i \in DOMAIN q : FromReports(Without(q, i))
         /\ q # <<>> => FromReports(Tail(q))
<1>1. ASSUME NEW e \in Entry, e.by = Device => e.changes \in Reports
      PROVE  FromReports(Append(q, e))
  <2> DEFINE p == Append(q, e)
  <2>1. /\ DOMAIN p = 1..(Len(q) + 1) /\ DOMAIN q = 1..Len(q) /\ Len(q) \in Nat
        /\ p[Len(q) + 1] = e /\ \A i \in 1..Len(q) : p[i] = q[i]
    BY AppendProperties, LenProperties
  <2> HIDE DEF p
  <2>2. FromReports(p) BY <1>1, <2>1 DEF FromReports
  <2> QED BY <2>2 DEF p
<1>2. ASSUME NEW i \in DOMAIN q PROVE FromReports(Without(q, i))
  <2> DEFINE p == Without(q, i)
  <2>1. /\ DOMAIN p = 1..(Len(q) - 1) /\ DOMAIN q = 1..Len(q) /\ Len(q) \in Nat \ {0}
        /\ \A j \in 1..(Len(q) - 1) : p[j] = IF j < i THEN q[j] ELSE q[j + 1]
    BY WithoutTyped
  <2> HIDE DEF p
  <2>2. \A j \in DOMAIN p : \E k \in DOMAIN q : p[j] = q[k] BY <2>1
  <2>3. FromReports(p) BY <2>2 DEF FromReports
  <2> QED BY <2>3 DEF p
<1>3. q # <<>> => FromReports(Tail(q)) BY <1>2, TailIsWithout
<1> QED BY <1>1, <1>2, <1>3

\* Every step keeps the sources.
LEMMA SourcedStep ==
  ASSUME TypeOK, Locks, Sourced, [Next]_vars
  PROVE  Sourced'
<1> USE StagingAssumption
<1>0. CallsTyped /\ queue \in Seq(Entry) BY TypeParts
<1>1. ASSUME NEW c \in Calls, Return(c) PROVE \A d \in Calls : Undecided(d)'
  BY <1>0, <1>1 DEF Return, Sourced, Undecided, CallsTyped
<1>2. ASSUME UNCHANGED <<pc, req>> PROVE \A d \in Calls : Undecided(d)'
  BY <1>2 DEF Sourced, Undecided
<1>3. ASSUME UNCHANGED queue PROVE FromReports(queue')
  BY <1>3 DEF Sourced
<1>4. ASSUME NEW who \in Calls \cup {Device}, NEW d \in Draft, Enqueue(who, d),
             who = Device => d \in Reports
      PROVE  FromReports(queue')
  <2>1. PICK e \in Entry : e = [by |-> who, changes |-> d] BY DEF Entry
  <2>2. e.by = Device => e.changes \in Reports BY <1>4, <2>1
  <2> QED BY <1>0, <1>4, <2>1, <2>2, QueueSourced DEF Enqueue, Sourced
<1>5. ASSUME NEW c \in Calls, (\E e \in Edits : Edit(c, e)) \/ SelectSmart(c)
      PROVE  Sourced'
  <2>1. \A d \in Calls : Undecided(d)'
    BY <1>0, <1>5, EmptyClean DEF Edit, SelectSmart, Sourced, Undecided, CallsTyped
  <2> QED BY <1>3, <1>5, <2>1 DEF Edit, SelectSmart, Sourced
<1>6. ASSUME NEW c \in Calls, BeginLocal(c) \/ LiveConfirmed(c) PROVE Sourced'
  <2>1. \A d \in Calls : Undecided(d)'
    BY <1>0, <1>6 DEF BeginLocal, LiveConfirmed, Sourced, Undecided, CallsTyped
  <2>2. req[c].changes \in Draft BY <1>0 DEF CallsTyped
  <2>3. FromReports(queue') BY <1>4, <1>6, <2>2 DEF BeginLocal, LiveConfirmed
  <2> QED BY <2>1, <2>3 DEF Sourced
<1>7. ASSUME NEW c \in Calls, BeginLive(c) PROVE Sourced'
  <2>1. /\ pc' = [pc EXCEPT ![c] = "live"] /\ UNCHANGED queue
        /\ \A d \in Calls \ {c} : req'[d] = req[d]
    BY <1>0, <1>7 DEF BeginLive, CallsTyped
  <2>2. \A d \in Calls : Undecided(d)' BY <1>0, <2>1 DEF Sourced, Undecided, CallsTyped
  <2> QED BY <1>3, <2>1, <2>2 DEF Sourced
<1>8. ASSUME NEW c \in Calls, Refuse(c) \/ LiveFails(c) \/ Cancel(c) PROVE Sourced'
  <2>1. \A d \in Calls : Undecided(d)' BY <1>1, <1>8 DEF Refuse, LiveFails, Cancel
  <2>2. UNCHANGED queue \/ \E i \in DOMAIN queue : queue' = Without(queue, i)
    BY <1>8 DEF Refuse, LiveFails, Cancel
  <2>3. FromReports(queue') BY <1>0, <1>3, <2>2, QueueSourced DEF Sourced
  <2> QED BY <2>1, <2>3 DEF Sourced
<1>9. CASE Rejected \/ UnchangedReturns \/ SaveReturns \/ SaveFails
  <2>1. queue # <<>> /\ Release
    BY <1>9 DEF Rejected, UnchangedReturns, SaveReturns, SaveFails, SaveDone, NoSave, Locks
  <2>2. FromReports(queue') BY <1>0, <2>1, QueueSourced DEF Release, Sourced
  <2>3. \A d \in Calls : Undecided(d)'
    <3>1. CASE Holder = Device BY <1>2, <2>1, <3>1 DEF Release, callVars
    <3>2. CASE Holder # Device BY <1>0, <1>1, <2>1, <3>2, HeadTyped DEF Release
    <3> QED BY <3>1, <3>2
  <2> QED BY <2>2, <2>3 DEF Sourced
<1>10. ASSUME NEW r \in Reports, NEW m \in {"smart", "other"}, Report(r, m) PROVE Sourced'
  <2>1. \A d \in Calls : Undecided(d)' BY <1>2, <1>10 DEF Report, callVars
  <2>2. FromReports(queue') BY <1>3, <1>4, <1>10 DEF Report
  <2> QED BY <2>1, <2>2 DEF Sourced
<1>11. ASSUME NEW readable \in BOOLEAN, Crash(readable) PROVE Sourced'
  BY <1>11 DEF Crash, Sourced, Undecided, FromReports
<1>12. ASSUME UNCHANGED <<pc, req, queue>> PROVE Sourced'
  BY <1>2, <1>3, <1>12 DEF Sourced
<1> QED
  BY <1>5, <1>6, <1>7, <1>8, <1>9, <1>10, <1>11, <1>12
  DEF Next, CallStep, LockStep, SaveStarts, WriteLands, OrphanLands, vars, callVars

\* A call whose write has landed waits at the head of the staging lock.
LEMMA SavedWaits ==
  ASSUME TypeOK, Locks, NEW c \in Calls, SavedBy = c
  PROVE  /\ saving.state = "landed" /\ saving # NoSave
         /\ queue # <<>> /\ Holder = c /\ pc[c] = "staging"
<1>1. saving.state = "landed" /\ Holder = c BY StagingAssumption DEF SavedBy
<1>2. saving # NoSave /\ queue # <<>> BY <1>1 DEF NoSave, Locks
<1>3. 1 \in DOMAIN queue /\ Head(queue) = queue[1] BY <1>2, TypeParts, TailIsWithout
<1> QED BY <1>1, <1>2, <1>3 DEF Holder, Locks, Waits

\* What leaves the save and the head of the lock alone leaves it landed for the same.
LEMMA SavedByFrame ==
  ASSUME saving' = saving, saving # NoSave => Head(queue') = Head(queue)
  PROVE  SavedBy' = SavedBy
<1>1. saving.state = "landed" => saving # NoSave BY DEF NoSave
<1> QED BY <1>1 DEF SavedBy, Holder

\* One call that moves between its stages.
LEMMA OneMoves ==
  ASSUME NEW c \in Calls, NEW x, StageOf(c)' = x,
         \A d \in Calls \ {c} : StageOf(d)' = StageOf(d)
  PROVE  [d \in Calls |-> StageOf(d)]' = [[d \in Calls |-> StageOf(d)] EXCEPT ![c] = x]
OBVIOUS

\* A call that goes on without a verdict, and nothing of the save changes.
LEMMA GoesOn ==
  ASSUME UNCHANGED <<req, store, trusted>>, SavedBy' = SavedBy,
         \A c \in Calls : pc'[c] = "idle" <=> pc[c] = "idle"
  PROVE  UNCHANGED Contract!vars
<1>1. \A c \in Calls : StageOf(c)' = StageOf(c) BY DEF StageOf
<1>2. [c \in Calls |-> StageOf(c)]' = [c \in Calls |-> StageOf(c)] BY <1>1
<1> QED BY <1>2 DEF Contract!vars

\* A call that returns, with the store as it was.
LEMMA Returns ==
  ASSUME CallsTyped, NEW c \in Calls, pc[c] # "idle", Return(c), store' = store,
         \/ trusted' = trusted
         \/ trusted' = FALSE /\ SavedBy # c,
         \A d \in Calls \ {c} : SavedBy' = d <=> SavedBy = d
  PROVE  Contract!Next
<1>1. StageOf(c)' = "free" BY DEF StageOf, Return, CallsTyped
<1>2. \A d \in Calls \ {c} : StageOf(d)' = StageOf(d)
  BY DEF StageOf, Return, CallsTyped
<1>3. [d \in Calls |-> StageOf(d)]' = [[d \in Calls |-> StageOf(d)] EXCEPT ![c] = "free"]
  BY <1>1, <1>2, OneMoves
<1>4. \A d \in Calls \ {c} : req'[d] = req[d] BY DEF Return, CallsTyped
<1>5. CASE trusted' = trusted
  <2>1. StageOf(c) # "free" BY DEF StageOf
  <2>2. Contract!Return(c) BY <1>3, <1>4, <1>5, <2>1 DEF Contract!Return, Contract!Others
  <2> QED BY <2>2 DEF Contract!Next
<1>6. CASE trusted' = FALSE /\ SavedBy # c
  <2>1. StageOf(c) = "asked" BY <1>6 DEF StageOf
  <2>2. Contract!CancelSave(c)
    BY <1>3, <1>4, <1>6, <2>1 DEF Contract!CancelSave, Contract!Others
  <2> QED BY <2>2 DEF Contract!Next
<1> QED BY <1>5, <1>6

\* Every step of a call is a step of the contract, or none.
LEMMA CallImplements ==
  ASSUME TypeOK, Locks, Sourced, NEW c \in Calls, CallStep(c)
  PROVE  [Contract!Next]_(Contract!vars)
<1> USE StagingAssumption
<1>0. CallsTyped /\ queue \in Seq(Entry) BY TypeParts
<1>1. CASE (\E e \in Edits : Edit(c, e)) \/ SelectSmart(c)
  <2>1. /\ pc[c] = "idle" /\ pc' = [pc EXCEPT ![c] = "queued"]
        /\ \A d \in Calls \ {c} : req'[d] = req[d]
        /\ UNCHANGED <<queue, saving, store, trusted>>
    BY <1>0, <1>1 DEF Edit, SelectSmart, saveVars, CallsTyped
  <2>2. SavedBy' = SavedBy /\ SavedBy # c BY <2>1, SavedByFrame, SavedWaits
  <2>3. StageOf(c) = "free" /\ StageOf(c)' = "asked"
    BY <1>0, <2>1, <2>2 DEF StageOf, CallsTyped
  <2>4. \A d \in Calls \ {c} : StageOf(d)' = StageOf(d)
    BY <1>0, <2>1, <2>2 DEF StageOf, CallsTyped
  <2>5. [d \in Calls |-> StageOf(d)]' = [[d \in Calls |-> StageOf(d)] EXCEPT ![c] = "asked"]
    BY <2>3, <2>4, OneMoves
  <2>6. Contract!Ask(c) BY <2>1, <2>3, <2>5 DEF Contract!Ask, Contract!Others
  <2> QED BY <2>6 DEF Contract!Next
<1>2. CASE BeginLocal(c) \/ LiveConfirmed(c)
  <2>1. req[c].changes \in Draft BY <1>0 DEF CallsTyped
  <2>2. PICK e \in Entry : queue' = Append(queue, e)
    BY <1>2, <2>1 DEF BeginLocal, LiveConfirmed, Enqueue, Entry
  <2>3. saving # NoSave => Head(queue') = Head(queue) BY <1>0, <2>2, Appended DEF Locks
  <2>4. SavedBy' = SavedBy
    BY <1>2, <2>3, SavedByFrame DEF BeginLocal, LiveConfirmed, saveVars
  <2>5. \A d \in Calls : pc'[d] = "idle" <=> pc[d] = "idle"
    BY <1>0, <1>2 DEF BeginLocal, LiveConfirmed, CallsTyped
  <2> QED BY <1>2, <2>4, <2>5, GoesOn DEF BeginLocal, LiveConfirmed, saveVars
<1>3. CASE BeginLive(c)
  <2>1. SavedBy' = SavedBy BY <1>3, SavedByFrame DEF BeginLive, saveVars
  <2>2. \A d \in Calls : pc'[d] = "idle" <=> pc[d] = "idle"
    BY <1>0, <1>3 DEF BeginLive, CallsTyped
  <2>3. CASE req' = req
    BY <1>3, <2>1, <2>2, <2>3, GoesOn DEF BeginLive, saveVars
  <2>4. CASE req[c].kind = "activate" /\ req' = [req EXCEPT ![c].changes = Candidate]
    <3>1. req[c].changes = Contract!Nothing
      BY <1>3, <2>4 DEF BeginLive, Sourced, Undecided, Empty, Contract!Nothing
    <3>2. pc[c] = "queued" /\ SavedBy # c BY <1>3, SavedWaits DEF BeginLive
    <3>3. StageOf(c) = "asked" BY <3>2 DEF StageOf
    <3>4. [d \in Calls |-> StageOf(d)]' = [d \in Calls |-> StageOf(d)]
      BY <2>1, <2>2 DEF StageOf
    <3>5. \A d \in Calls \ {c} : req'[d] = req[d] BY <1>0, <2>4 DEF CallsTyped
    <3>6. Contract!Decide(c)
      BY <1>3, <3>1, <3>3, <3>4, <3>5
      DEF BeginLive, saveVars, Contract!Decide, Contract!Others
    <3> QED BY <3>6 DEF Contract!Next
  <2> QED BY <1>3, <2>3, <2>4 DEF BeginLive
<1>4. CASE Refuse(c) \/ LiveFails(c)
  <2>1. /\ pc[c] # "idle" /\ Return(c) /\ UNCHANGED <<queue, saving, store, trusted>>
    BY <1>4 DEF Refuse, LiveFails, saveVars
  <2>2. SavedBy' = SavedBy BY <2>1, SavedByFrame
  <2> QED BY <1>0, <2>1, <2>2, Returns
<1>5. CASE Cancel(c)
  <2>1. pc[c] # "idle" /\ Return(c) /\ store' = store BY <1>5 DEF Cancel
  <2>2. CASE UNCHANGED <<queue, saving, orphans, trusted>>
    <3>1. SavedBy' = SavedBy BY <2>2, SavedByFrame
    <3> QED BY <1>0, <2>1, <2>2, <3>1, Returns
  <2>3. ASSUME NEW i \in DOMAIN queue, i # 1, queue' = Without(queue, i), saving' = saving,
               UNCHANGED trusted
        PROVE  Contract!Next
    <3>1. Head(queue') = Head(queue) BY <1>0, <2>3, Removed DEF Locks
    <3>2. SavedBy' = SavedBy BY <2>3, <3>1, SavedByFrame
    <3> QED BY <1>0, <2>1, <2>3, <3>2, Returns
  <2>4. ASSUME 1 \in DOMAIN queue, queue[1].by = c, saving' = NoSave,
               IF saving.state = "running" THEN trusted' = FALSE ELSE UNCHANGED trusted
        PROVE  Contract!Next
    <3>1. queue # <<>> BY <1>0, <2>4, EmptySeq
    <3>2. Holder = c BY <1>0, <2>4, <3>1, TailIsWithout DEF Holder
    <3>3. \A d \in Calls \ {c} : SavedBy # d /\ SavedBy' # d
      BY <2>4, <3>2 DEF SavedBy, NoSave
    <3>4. saving.state = "running" => SavedBy # c BY DEF SavedBy
    <3> QED BY <1>0, <2>1, <2>4, <3>3, <3>4, Returns
  <2>5. \/ UNCHANGED <<queue, saving, orphans, trusted>>
        \/ \E i \in DOMAIN queue : /\ i # 1 /\ queue' = Without(queue, i) /\ saving' = saving
                                   /\ UNCHANGED trusted
        \/ /\ 1 \in DOMAIN queue /\ queue[1].by = c /\ saving' = NoSave
           /\ IF saving.state = "running" THEN trusted' = FALSE ELSE UNCHANGED trusted
    BY <1>5 DEF Cancel
  <2> QED BY <2>2, <2>3, <2>4, <2>5
<1> QED BY <1>1, <1>2, <1>3, <1>4, <1>5 DEF CallStep

\* So is every step under the staging lock.
LEMMA LockImplements ==
  ASSUME TypeOK, Locks, Agree, Sourced, LockStep
  PROVE  [Contract!Next]_(Contract!vars)
<1> USE StagingAssumption
<1>0. /\ CallsTyped /\ queue \in Seq(Entry) /\ SaveTyped
      /\ saving.state \in {"none", "running", "landed"}
  BY TypeParts DEF SaveTyped
<1>1. CASE Rejected \/ UnchangedReturns \/ SaveReturns \/ SaveFails
  <2>1. queue # <<>> /\ Release /\ UNCHANGED <<store, trusted>>
    BY <1>1 DEF Rejected, UnchangedReturns, SaveReturns, SaveFails, SaveDone, NoSave, Locks
  <2>2. \A d \in Calls : SavedBy' # d BY <2>1 DEF Release, SavedBy, NoSave
  <2>3. CASE Holder = Device
    <3>1. \A d \in Calls : SavedBy # d BY <2>3 DEF SavedBy
    <3>2. \A d \in Calls : StageOf(d)' = StageOf(d)
      BY <2>1, <2>2, <2>3, <3>1 DEF Release, StageOf, callVars
    <3>3. [d \in Calls |-> StageOf(d)]' = [d \in Calls |-> StageOf(d)] BY <3>2
    <3> QED BY <2>1, <2>3, <3>3 DEF Release, callVars, Contract!vars
  <2>4. CASE Holder # Device
    <3>1. Holder \in Calls BY <1>0, <2>1, <2>4, HeadTyped
    <3>2. PICK c \in Calls : c = Holder BY <3>1
    <3>3. Waits(queue, c)
      BY <1>0, <2>1, <3>2, TailIsWithout DEF Waits, Holder
    <3>4. pc[c] # "idle" /\ Return(c)
      BY <2>1, <2>4, <3>2, <3>3 DEF Locks, Release
    <3>5. \A d \in Calls \ {c} : SavedBy # d BY <3>2 DEF SavedBy
    <3> QED BY <1>0, <2>1, <2>2, <3>4, <3>5, Returns
  <2> QED BY <2>3, <2>4
<1>2. CASE SaveStarts
  <2>1. saving.state = "none" /\ saving'.state = "running" BY <1>2 DEF SaveStarts, NoSave
  <2>2. SavedBy' = SavedBy BY <2>1 DEF SavedBy
  <2> QED BY <1>2, <2>2, GoesOn DEF SaveStarts, callVars
<1>3. CASE WriteLands
  <2>0. store' = memory /\ (trusted' <=> orphans = {}) /\ UNCHANGED <<callVars, queue>>
    BY <1>3 DEF WriteLands
  <2>1. saving.state = "running" /\ saving'.state = "landed" /\ saving # NoSave
    BY <1>0, <1>3 DEF WriteLands, NoSave, SaveTyped
  <2>2. queue # <<>> /\ Acceptable /\ memory = Overlaid(saving.before, Accepted)
    BY <2>0, <2>1 DEF Locks, Agree
  <2>3. SavedBy = NoCall /\ SavedBy' = Holder BY <2>0, <2>1 DEF SavedBy, Holder
  <2>4. trusted => trusted' = TRUE /\ store' = Contract!Under(store, Accepted)
    BY <2>0, <2>1, <2>2, TypeParts DEF Agree, Contract!Under, Overlaid
  <2>5. store' \in UserDrafts BY <2>0, <1>0, <2>1 DEF SaveTyped, UserDrafts
  <2>6. trusted' \in BOOLEAN BY <1>3, TypeParts, TrustedTyped DEF Next, LockStep
  <2>7. CASE Holder = Device
    <3>1. \A d \in Calls : StageOf(d)' = StageOf(d)
      BY <2>0, <2>1, <2>3, <2>7 DEF StageOf, callVars
    <3>2. [d \in Calls |-> StageOf(d)]' = [d \in Calls |-> StageOf(d)] BY <3>1
    <3>3. req' = req BY <2>0, <2>1 DEF callVars
    <3>4. CASE trusted
      <4>1. 1 \in DOMAIN queue /\ Head(queue) = queue[1] BY <1>0, <2>2, TailIsWithout
      <4>2. Changes \in Reports BY <2>7, <4>1 DEF Sourced, FromReports, Holder, Changes
      <4>3. Accepted \in {Usable(r) : r \in Reports} BY <2>7, <4>2 DEF Accepted
      <4>4. trusted = TRUE BY <3>4, TypeParts
      <4>5. Contract!SaveReport(Accepted)
        BY <2>4, <3>2, <3>3, <3>4, <4>4 DEF Contract!SaveReport
      <4> QED BY <4>3, <4>5 DEF Contract!Next
    <3>5. CASE ~trusted
      <4>1. Contract!SaveUnsure BY <2>5, <2>6, <3>2, <3>3, <3>5 DEF Contract!SaveUnsure
      <4> QED BY <4>1 DEF Contract!Next
    <3> QED BY <3>4, <3>5
  <2>8. CASE Holder # Device
    <3>1. PICK c \in Calls : c = Holder BY <1>0, <2>2, <2>8, HeadTyped
    <3>2. 1 \in DOMAIN queue /\ Head(queue) = queue[1] BY <1>0, <2>2, TailIsWithout
    <3>3. pc[c] = "staging" /\ Changes = req[c].changes
      BY <3>1, <3>2 DEF Locks, Waits, Owned, Holder, Changes
    <3>4. StageOf(c) = "asked" /\ StageOf(c)' = "saved"
      BY <2>0, <2>1, <2>3, <3>1, <3>3 DEF StageOf, callVars
    <3>5. \A d \in Calls \ {c} : StageOf(d)' = StageOf(d)
      BY <2>0, <2>1, <2>3, <3>1 DEF StageOf, callVars
    <3>6. [d \in Calls |-> StageOf(d)]' = [[d \in Calls |-> StageOf(d)] EXCEPT ![c] = "saved"]
      BY <3>4, <3>5, OneMoves
    <3>7. req' = req BY <2>0, <2>1 DEF callVars
    <3>8. Accepted = req[c].changes /\ req[c].changes \in UserDrafts
      BY <1>0, <2>2, <2>8, <3>3 DEF Accepted, Acceptable, UserDrafts, CallsTyped
    <3>9. CASE trusted
      <4>1. trusted = TRUE BY <3>9, TypeParts
      <4>2. Contract!Save(c)
        BY <2>4, <3>4, <3>6, <3>7, <3>8, <3>9, <4>1 DEF Contract!Save
      <4> QED BY <4>2 DEF Contract!Next
    <3>10. CASE ~trusted
      <4>1. Contract!SaveUnsure
        BY <2>5, <2>6, <3>4, <3>6, <3>7, <3>10 DEF Contract!SaveUnsure
      <4> QED BY <4>1 DEF Contract!Next
    <3> QED BY <3>9, <3>10
  <2> QED BY <2>7, <2>8
<1> QED BY <1>1, <1>2, <1>3 DEF LockStep

\* And every report, late write and restart.
LEMMA OthersImplement ==
  ASSUME TypeOK, Locks, Agree,
         \/ \E r \in Reports, m \in {"smart", "other"} : Report(r, m)
         \/ \E d \in orphans : OrphanLands(d)
         \/ \E readable \in BOOLEAN : Crash(readable)
         \/ UNCHANGED vars
  PROVE  [Contract!Next]_(Contract!vars)
<1> USE StagingAssumption
<1>1. ASSUME NEW r \in Reports, NEW m \in {"smart", "other"}, Report(r, m)
      PROVE  UNCHANGED Contract!vars
  <2>1. queue \in Seq(Entry) BY TypeParts
  <2>2. UNCHANGED queue \/ \E e \in Entry : queue' = Append(queue, e)
    BY <1>1 DEF Report, Enqueue, Entry
  <2>3. saving # NoSave => Head(queue') = Head(queue)
    BY <2>1, <2>2, Appended DEF Locks
  <2>4. UNCHANGED <<pc, req, saving, store, trusted>> BY <1>1 DEF Report, callVars, saveVars
  <2>5. SavedBy' = SavedBy BY <2>3, <2>4, SavedByFrame
  <2> QED BY <2>4, <2>5, GoesOn
<1>2. ASSUME NEW d \in orphans, OrphanLands(d) PROVE Contract!Next
  <2>1. ~trusted /\ trusted' = trusted /\ trusted \in BOOLEAN
    BY <1>2, TypeParts DEF OrphanLands, Agree
  <2>2. store' \in UserDrafts
    BY <1>2, TypeParts DEF OrphanLands, SaveTyped, UserDrafts
  <2>3. UNCHANGED <<pc, req, saving, queue>> BY <1>2 DEF OrphanLands, callVars
  <2>4. SavedBy' = SavedBy BY <2>3, SavedByFrame
  <2>5. [c \in Calls |-> StageOf(c)]' = [c \in Calls |-> StageOf(c)]
    BY <2>3, <2>4 DEF StageOf
  <2>6. Contract!SaveUnsure BY <2>1, <2>2, <2>3, <2>5 DEF Contract!SaveUnsure
  <2> QED BY <2>6 DEF Contract!Next
<1>3. ASSUME NEW readable \in BOOLEAN, Crash(readable) PROVE Contract!Next
  <2>1. \A c \in Calls : StageOf(c)' = "free" BY <1>3 DEF Crash, StageOf
  <2>2. Contract!Restart BY <1>3, <2>1 DEF Crash, Contract!Restart
  <2> QED BY <2>2 DEF Contract!Next
<1>4. ASSUME UNCHANGED vars PROVE UNCHANGED Contract!vars
  <2>1. SavedBy' = SavedBy BY <1>4, SavedByFrame DEF vars, saveVars
  <2> QED BY <1>4, <2>1, GoesOn DEF vars, callVars, saveVars
<1> QED BY <1>1, <1>2, <1>3, <1>4

\* The staging code implements its contract: what is stored changes only by a
\* whole edit, once, or a report, over what was there; a restart loses nothing.
THEOREM DraftContractHolds == Spec => ImplementsDraftContract
<1>1. Init => Contract!Init
  <2> SUFFICES ASSUME Init PROVE Contract!Init OBVIOUS
  <2>1. \A c \in Calls : StageOf(c) = "free" BY DEF Init, StageOf
  <2> QED BY <2>1 DEF Init, Empty, Contract!Init, Contract!Nothing
<1>2. Init => Sourced
  BY DEF Init, Sourced, FromReports, Undecided
<1>3. IInv /\ Sourced /\ [Next]_vars => Sourced' BY SourcedStep DEF IInv
<1>4. IInv /\ Sourced /\ [Next]_vars => [Contract!Next]_(Contract!vars)
  BY CallImplements, LockImplements, OthersImplement DEF IInv, Next
<1> QED BY <1>1, <1>2, <1>3, <1>4, Invariance, PTL
        DEF Spec, ImplementsDraftContract, Contract!Spec
=============================================================================
