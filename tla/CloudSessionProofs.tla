------------------------- MODULE CloudSessionProofs -------------------------
(***************************************************************************)
(* Theorems about CloudSession, for any sources, statuses and intervals.   *)
(*                                                                         *)
(* OneSignIn is not inductive: that nobody signs in when the next sign-in  *)
(* starts follows from the stamp, which is never older than AnswerTime     *)
(* while a sign-in of _async_sign_in_again is under way, and for the very  *)
(* first sign-in from the fact that nothing else runs before the first     *)
(* client exists.                                                          *)
(***************************************************************************)
EXTENDS CloudSession, TLAPS

\* A sign-in under way is recent.
SignInRecent ==
  poll.at = "signin" \/ (\E by \in Callers : refresh[by].at = "signin") => sinceSignIn <= AnswerTime

\* Before the first client exists nothing runs beside the first cycle.
Quiet ==
  ~loaded /\ poll.at \in {"idle", "login", "discover", "fetch"} =>
    /\ ~due /\ \A by \in Callers : refresh[by].at = "idle"
    /\ \A s \in Sources : client[s].link = "dead"

\* Only the first cycle signs in and discovers, only later ones maintain.
PlaceKnown ==
  /\ poll.at \in {"login", "discover"} => ~loaded
  /\ poll.at \in {"maintain", "check", "rebuild", "aging"} => loaded

\* A source without a client has no job and is nobody's but the setup's to do, and
\* what is handed over or set up is a certificate.
Tidy ==
  /\ \A s \in Sources : client[s].cert = "none" =>
       /\ client[s].job = "none"
       /\ \A by \in Callers : s \notin refresh[by].todo
       /\ poll.at \in {"check", "rebuild"} => s \notin poll.todo
  /\ poll.at \in {"adding", "connecting"} =>
       poll.got # "none" /\ \A s \in poll.todo : client[s].cert = "none"
  /\ \A by \in Callers : refresh[by].at \in {"hand", "rebuild"} => refresh[by].got # "none"

Exact == RefreshExact /\ OneSignIn /\ SignInRecent /\ Quiet /\ PlaceKnown

-----------------------------------------------------------------------------
(* Shapes                                                                  *)

\* The variables of a coordinator.
RunTypes ==
  /\ poll \in PollShape /\ refresh \in [Callers -> RefreshShape]
  /\ inProgress \in BOOLEAN /\ due \in BOOLEAN /\ aged \in BOOLEAN
  /\ sinceSignIn \in 0..SignInInterval /\ sinceRefresh \in 0..RefreshInterval
  /\ client \in [Sources -> ClientShape]

\* The constants of the records have their shapes.
LEMMA Shapes ==
  /\ NoPoll \in PollShape /\ NoRefresh \in RefreshShape /\ NoClient \in ClientShape
  /\ [NoPoll EXCEPT !.at = "signin"] \in PollShape
BY DEF PollShape, RefreshShape, ClientShape, NoPoll, NoRefresh, NoClient, Certs, Callers

\* A cycle's record with another place or other clients to do.
LEMMA PollMoves ==
  ASSUME NEW p \in PollShape, NEW todo \in SUBSET Sources, NEW got \in Certs,
         NEW at \in {"idle", "login", "discover", "maintain", "fetch", "adding", "connecting",
                     "check", "rebuild", "aging", "reading", "signin"}
  PROVE  /\ [p EXCEPT !.at = at] \in PollShape
         /\ [p EXCEPT !.at = at, !.todo = todo] \in PollShape
         /\ [p EXCEPT !.todo = todo, !.at = at] \in PollShape
         /\ [p EXCEPT !.got = got] \in PollShape
         /\ [at |-> at, todo |-> todo, got |-> got] \in PollShape
BY DEF PollShape

\* The same of a refresh.
LEMMA RefreshMoves ==
  ASSUME NEW f \in [Callers -> RefreshShape], NEW by \in Callers,
         NEW todo \in SUBSET Sources, NEW got \in Certs,
         NEW at \in {"idle", "fetch", "signin", "refetch", "hand", "rebuild"}
  PROVE  /\ [f EXCEPT ![by].at = at] \in [Callers -> RefreshShape]
         /\ [f EXCEPT ![by].todo = todo, ![by].at = at] \in [Callers -> RefreshShape]
         /\ [f EXCEPT ![by] = [at |-> at, todo |-> todo, got |-> got]] \in [Callers -> RefreshShape]
         /\ [f EXCEPT ![by] = NoRefresh] \in [Callers -> RefreshShape]
<1>1. \A r \in RefreshShape : /\ [r EXCEPT !.at = at] \in RefreshShape
                              /\ [r EXCEPT !.todo = todo, !.at = at] \in RefreshShape
  BY DEF RefreshShape
<1>2. [at |-> at, todo |-> todo, got |-> got] \in RefreshShape
  BY DEF RefreshShape
<1>3. \A r \in RefreshShape : [f EXCEPT ![by] = r] \in [Callers -> RefreshShape]
  OBVIOUS
<1>4. [f EXCEPT ![by].at = at] = [f EXCEPT ![by] = [f[by] EXCEPT !.at = at]]
  OBVIOUS
<1>5. [f EXCEPT ![by].todo = todo, ![by].at = at]
        = [f EXCEPT ![by] = [f[by] EXCEPT !.todo = todo, !.at = at]]
  OBVIOUS
<1> QED BY <1>1, <1>2, <1>3, <1>4, <1>5, Shapes

\* The same of a client.
LEMMA ClientMoves ==
  ASSUME NEW f \in [Sources -> ClientShape], NEW s \in Sources, NEW c \in Certs, NEW l \in Certs,
         NEW link \in {"dead", "dialing", "up"}, NEW w \in BOOLEAN
  PROVE  /\ [f EXCEPT ![s].link = link] \in [Sources -> ClientShape]
         /\ [f EXCEPT ![s].link = link, ![s].wait = w] \in [Sources -> ClientShape]
         /\ [f EXCEPT ![s].link = link, ![s].job = "none"] \in [Sources -> ClientShape]
         /\ [f EXCEPT ![s].wait = w] \in [Sources -> ClientShape]
         /\ [f EXCEPT ![s].cert = c, ![s].live = l] \in [Sources -> ClientShape]
<1>1. \A r \in ClientShape :
        /\ [r EXCEPT !.link = link] \in ClientShape
        /\ [r EXCEPT !.link = link, !.wait = w] \in ClientShape
        /\ [r EXCEPT !.link = link, !.job = "none"] \in ClientShape
        /\ [r EXCEPT !.wait = w] \in ClientShape
        /\ [r EXCEPT !.cert = c, !.live = l] \in ClientShape
  BY DEF ClientShape
<1>2. \A r \in ClientShape : [f EXCEPT ![s] = r] \in [Sources -> ClientShape]
  OBVIOUS
<1>3. /\ [f EXCEPT ![s].link = link] = [f EXCEPT ![s] = [f[s] EXCEPT !.link = link]]
      /\ [f EXCEPT ![s].link = link, ![s].wait = w]
           = [f EXCEPT ![s] = [f[s] EXCEPT !.link = link, !.wait = w]]
      /\ [f EXCEPT ![s].link = link, ![s].job = "none"]
           = [f EXCEPT ![s] = [f[s] EXCEPT !.link = link, !.job = "none"]]
      /\ [f EXCEPT ![s].wait = w] = [f EXCEPT ![s] = [f[s] EXCEPT !.wait = w]]
      /\ [f EXCEPT ![s].cert = c, ![s].live = l]
           = [f EXCEPT ![s] = [f[s] EXCEPT !.cert = c, !.live = l]]
  OBVIOUS
<1> QED BY <1>1, <1>2, <1>3

\* A rebuild keeps the shape.
LEMMA RebuiltShape ==
  ASSUME NEW c \in ClientShape, NEW by \in {"check"} \cup Callers, NEW cert \in Certs, NEW l \in Certs
  PROVE  /\ Rebuilt(c, by) \in ClientShape
         /\ [Rebuilt(c, by) EXCEPT !.wait = TRUE] \in ClientShape
         /\ [c EXCEPT !.cert = cert, !.live = l] \in ClientShape
BY DEF Rebuilt, ClientShape, Callers

\* A new coordinator, and the end of a failed cycle.
LEMMA FreshTypes == ASSUME Fresh PROVE RunTypes'
<1>1. poll' \in PollShape
  BY Shapes DEF Fresh
<1>2. refresh' \in [Callers -> RefreshShape] /\ client' \in [Sources -> ClientShape]
  BY Shapes DEF Fresh
<1>3. inProgress' \in BOOLEAN /\ due' \in BOOLEAN /\ aged' \in BOOLEAN
  BY DEF Fresh
<1>4. sinceSignIn' \in 0..SignInInterval /\ sinceRefresh' \in 0..RefreshInterval
  BY SessionAssumption DEF Fresh
<1> QED BY <1>1, <1>2, <1>3, <1>4 DEF RunTypes

\* A cycle that fails keeps the shapes.
LEMMA FailTypes == ASSUME RunTypes, PollFails PROVE RunTypes'
BY FreshTypes, Shapes DEF PollFails, stampVars, RunTypes

\* So does one that renews the sign-in.
LEMMA RenewTypes == ASSUME RunTypes, Renew PROVE RunTypes'
<1>1. CASE PollFails
  BY <1>1, FailTypes
<1>2. CASE StampSignIn /\ poll' = [NoPoll EXCEPT !.at = "signin"]
           /\ UNCHANGED <<refresh, inProgress, due, sinceRefresh, aged, client>>
  BY <1>2, Shapes, SessionAssumption DEF StampSignIn, RunTypes
<1> QED BY <1>1, <1>2 DEF Renew

\* Where the cycle goes after the MQTT setup.
LEMMA AfterShape == ASSUME RunTypes PROVE AfterSetup \in PollShape
<1>1. Present \in SUBSET Sources
  BY DEF Present
<1>2. "none" \in Certs
  BY DEF Certs
<1> QED BY <1>1, <1>2, PollMoves DEF AfterSetup, RunTypes

\* The start and the end of a refresh.
LEMMA StartTypes ==
  ASSUME RunTypes, NEW by \in Callers, StartRefresh(by)
  PROVE  /\ sinceRefresh' \in 0..RefreshInterval /\ inProgress' \in BOOLEAN
         /\ refresh' \in [Callers -> RefreshShape]
<1>1. "none" \in Certs
  BY DEF Certs
<1>2. [refresh EXCEPT ![by].at = "fetch"] \in [Callers -> RefreshShape]
  BY <1>1, RefreshMoves DEF RunTypes
<1>3. sinceRefresh' \in 0..RefreshInterval
  BY SessionAssumption DEF StartRefresh, RunTypes
<1>4. inProgress' \in BOOLEAN
  BY DEF StartRefresh, RunTypes
<1> QED BY <1>2, <1>3, <1>4 DEF StartRefresh, RunTypes

\* A refresh that ends leaves the poll or itself at rest.
LEMMA EndTypes ==
  ASSUME RunTypes, NEW by \in Callers, EndRefresh(by)
  PROVE  /\ poll' \in PollShape /\ inProgress' \in BOOLEAN
         /\ refresh' \in [Callers -> RefreshShape]
<1>1. "none" \in Certs
  BY DEF Certs
<1>2. [refresh EXCEPT ![by] = NoRefresh] \in [Callers -> RefreshShape]
  BY <1>1, RefreshMoves DEF RunTypes
<1>3. [poll EXCEPT !.at = "reading"] \in PollShape
  BY <1>1, PollMoves DEF RunTypes
<1> QED BY <1>2, <1>3 DEF EndRefresh, ClearFlag, RunTypes

\* What a refresh receives it keeps, or it ends.
LEMMA ReceiveTypes ==
  ASSUME RunTypes, NEW by \in Callers, Receive(by)
  PROVE  /\ poll' \in PollShape /\ inProgress' \in BOOLEAN /\ aged' \in BOOLEAN
         /\ refresh' \in [Callers -> RefreshShape]
<1>1. Present \in SUBSET Sources /\ Fetched \subseteq Certs
  BY DEF Present, Fetched, Certs
<1>2. CASE EndRefresh(by) /\ UNCHANGED aged
  BY <1>2, EndTypes DEF RunTypes
<1>3. ASSUME NEW c \in Fetched, aged' = FALSE,
             refresh' = [refresh EXCEPT ![by] = [at |-> "hand", todo |-> Present, got |-> c]],
             UNCHANGED <<inProgress, poll>>
      PROVE  /\ poll' \in PollShape /\ inProgress' \in BOOLEAN /\ aged' \in BOOLEAN
             /\ refresh' \in [Callers -> RefreshShape]
  <2>1. refresh' \in [Callers -> RefreshShape]
    BY <1>1, <1>3, RefreshMoves DEF RunTypes
  <2> QED BY <1>3, <2>1 DEF RunTypes
<1> QED BY <1>2, <1>3 DEF Receive

\* A job that ends leaves a client dialing or dead.
LEMMA JobTypes ==
  ASSUME RunTypes, NEW s \in Sources, NEW by \in {"setup", "check"} \cup Callers, JobEnds(s, by)
  PROVE  client' \in [Sources -> ClientShape]
<1>1. PICK link \in {"dialing"} \cup (IF calm THEN {} ELSE {"dead"}) :
        client' = [client EXCEPT ![s].link = link, ![s].job = "none"]
  BY DEF JobEnds
<1>2. "none" \in Certs /\ link \in {"dead", "dialing", "up"}
  BY DEF Certs
<1> QED BY <1>1, <1>2, ClientMoves DEF RunTypes

\* No certificate and no source are cases of each.
LEMMA NoneCert == "none" \in Certs /\ {} \in SUBSET Sources
BY DEF Certs

\* What a fetch brings is a certificate.
LEMMA FetchedCerts == Fetched \subseteq Certs /\ Sources \ Present \in SUBSET Sources
BY DEF Fetched, Certs

\* A step keeps the shapes.
LEMMA TypeStep ==
  ASSUME SessionTypeOK, [SessionNext]_sessionVars
  PROVE  SessionTypeOK'
<1> USE SessionAssumption
<1> RunTypes
  BY DEF SessionTypeOK, RunTypes
<1>1. CASE PollStart
  BY <1>1, Shapes, PollMoves, NoneCert
  DEF RunTypes, SessionTypeOK, PollStart, cloudVars, entryVars, stampVars
<1>2. CASE PollLogin
  BY <1>2, RenewTypes, FailTypes, PollMoves, NoneCert
  DEF RunTypes, SessionTypeOK, PollLogin, cloudVars, entryVars, stampVars
<1>3. CASE PollDiscover
  BY <1>3, RenewTypes, FailTypes, PollMoves, NoneCert
  DEF RunTypes, SessionTypeOK, PollDiscover, cloudVars, entryVars, stampVars
<1>4. CASE PollMaintain
  BY <1>4, AfterShape, PollMoves, NoneCert
  DEF RunTypes, SessionTypeOK, PollMaintain, cloudVars, entryVars, stampVars
<1>5. CASE PollFetch
  <2>1. CASE Renew /\ UNCHANGED <<cloudVars, entryVars>>
    BY <2>1, RenewTypes DEF RunTypes, SessionTypeOK, cloudVars, entryVars
  <2>2. CASE poll' = AfterSetup /\ UNCHANGED <<refresh, stampVars, client, cloudVars, entryVars>>
    BY <2>2, AfterShape DEF RunTypes, SessionTypeOK, cloudVars, entryVars, stampVars
  <2>3. ASSUME NEW c \in Fetched, aged' = FALSE,
               poll' = [at |-> "adding", todo |-> Sources \ Present, got |-> c],
               UNCHANGED <<refresh, inProgress, due, sinceSignIn, sinceRefresh, client>>,
               UNCHANGED <<cloudVars, entryVars>>
        PROVE SessionTypeOK'
    <3>1. poll' \in PollShape
      BY <2>3, FetchedCerts DEF PollShape
    <3> QED BY <2>3, <3>1 DEF RunTypes, SessionTypeOK, cloudVars, entryVars
  <2> QED BY <1>5, <2>1, <2>2, <2>3 DEF PollFetch
<1>6. ASSUME NEW s \in Sources, AddClient(s) PROVE SessionTypeOK'
  <2>1. [NoClient EXCEPT !.cert = poll.got, !.live = poll.got, !.job = "setup"] \in ClientShape
    BY DEF RunTypes, PollShape, ClientShape, NoClient, Certs, Callers
  <2>2. [poll EXCEPT !.at = "connecting", !.todo = @ \ {s}] \in PollShape
    BY DEF RunTypes, PollShape
  <2> QED BY <1>6, <2>1, <2>2 DEF RunTypes, SessionTypeOK, AddClient, cloudVars, entryVars, stampVars
<1>7. CASE AddDone
  BY <1>7, AfterShape, PollMoves, NoneCert
  DEF RunTypes, SessionTypeOK, AddDone, cloudVars, entryVars, stampVars
<1>8. ASSUME NEW s \in Sources, PollConnected(s) PROVE SessionTypeOK'
  BY <1>8, JobTypes, PollMoves, NoneCert
  DEF RunTypes, SessionTypeOK, PollConnected, cloudVars, entryVars, stampVars
<1>9. ASSUME NEW s \in Sources, Reconnect(s) PROVE SessionTypeOK'
  <2>1. poll' \in PollShape
    <3>1. \A a \in {"rebuild", "check"} : [poll EXCEPT !.todo = @ \ {s}, !.at = a] \in PollShape
      BY DEF RunTypes, PollShape
    <3> QED BY <1>9, <3>1 DEF Reconnect
  <2>2. client' \in [Sources -> ClientShape]
    <3>1. [Rebuilt(client[s], "check") EXCEPT !.wait = TRUE] \in ClientShape
      BY RebuiltShape, NoneCert DEF RunTypes
    <3> QED BY <1>9, <3>1 DEF Reconnect, RunTypes
  <2> QED BY <1>9, <2>1, <2>2 DEF RunTypes, SessionTypeOK, Reconnect, cloudVars, entryVars, stampVars
<1>10. ASSUME NEW s \in Sources, Reconnected(s) PROVE SessionTypeOK'
  BY <1>10, JobTypes, PollMoves, NoneCert
  DEF RunTypes, SessionTypeOK, Reconnected, cloudVars, entryVars, stampVars
<1>11. CASE PollAge
  BY <1>11, StartTypes, PollMoves, NoneCert
  DEF RunTypes, SessionTypeOK, PollAge, cloudVars, entryVars, stampVars, Callers
<1>12. CASE PollRead
  BY <1>12, RenewTypes, Shapes
  DEF RunTypes, SessionTypeOK, PollRead, cloudVars, entryVars, stampVars
<1>13. CASE PollSignIn
  BY <1>13, FailTypes
  DEF RunTypes, SessionTypeOK, PollSignIn, cloudVars, entryVars, stampVars
<1>14. CASE RefreshTask
  BY <1>14, StartTypes
  DEF RunTypes, SessionTypeOK, RefreshTask, cloudVars, entryVars, stampVars, Callers
<1>15. ASSUME NEW by \in Callers, RefreshFetch(by) PROVE SessionTypeOK'
  <2>1. sinceSignIn' \in 0..SignInInterval
    BY <1>15 DEF RefreshFetch, StampSignIn, RunTypes
  <2>2. /\ poll' \in PollShape /\ inProgress' \in BOOLEAN /\ aged' \in BOOLEAN
        /\ refresh' \in [Callers -> RefreshShape]
    <3>1. CASE Receive(by)
      BY <3>1, ReceiveTypes
    <3>2. CASE EndRefresh(by) /\ UNCHANGED aged
      BY <3>2, EndTypes DEF RunTypes
    <3>3. CASE refresh' = [refresh EXCEPT ![by].at = "signin"] /\ UNCHANGED <<inProgress, poll, aged>>
      BY <3>3, RefreshMoves, NoneCert DEF RunTypes
    <3> QED BY <1>15, <3>1, <3>2, <3>3 DEF RefreshFetch
  <2> QED BY <1>15, <2>1, <2>2 DEF RefreshFetch, RunTypes, SessionTypeOK, cloudVars, entryVars
<1>16. ASSUME NEW by \in Callers, RefreshSignIn(by) PROVE SessionTypeOK'
  <2>1. token' \in BOOLEAN /\ reauth' \in BOOLEAN
    BY <1>16 DEF RefreshSignIn, SessionTypeOK
  <2>2. /\ poll' \in PollShape /\ inProgress' \in BOOLEAN
        /\ refresh' \in [Callers -> RefreshShape]
    <3>1. CASE EndRefresh(by)
      BY <3>1, EndTypes
    <3>2. CASE refresh' = [refresh EXCEPT ![by].at = "refetch"] /\ UNCHANGED <<inProgress, poll>>
      BY <3>2, RefreshMoves, NoneCert DEF RunTypes
    <3> QED BY <1>16, <3>1, <3>2 DEF RefreshSignIn
  <2> QED BY <1>16, <2>1, <2>2 DEF RefreshSignIn, RunTypes, SessionTypeOK
<1>17. ASSUME NEW by \in Callers, RefreshRefetch(by) PROVE SessionTypeOK'
  BY <1>17, ReceiveTypes, EndTypes
  DEF RunTypes, SessionTypeOK, RefreshRefetch, cloudVars, entryVars, stampVars, SecondRefusal
<1>18. ASSUME NEW by \in Callers, NEW s \in Sources, Hand(by, s) PROVE SessionTypeOK'
  <2>1. PICK changed \in BOOLEAN, live \in {refresh[by].got, client[s].live} :
          /\ client' = [client EXCEPT ![s] =
               IF changed THEN Rebuilt([client[s] EXCEPT !.cert = refresh[by].got, !.live = live], by)
               ELSE [client[s] EXCEPT !.cert = refresh[by].got, !.live = live]]
          /\ refresh' = [refresh EXCEPT ![by].todo = @ \ {s}, ![by].at =
               IF changed /\ client[s].job = "none" THEN "rebuild" ELSE "hand"]
    BY <1>18 DEF Hand, Stored
  <2>2. refresh[by].got \in Certs /\ client[s].live \in Certs /\ live \in Certs
    BY DEF RunTypes, RefreshShape, ClientShape
  <2>3. client' \in [Sources -> ClientShape]
    <3>1. [client[s] EXCEPT !.cert = refresh[by].got, !.live = live] \in ClientShape
      BY <2>2 DEF RunTypes, ClientShape
    <3>2. Rebuilt([client[s] EXCEPT !.cert = refresh[by].got, !.live = live], by) \in ClientShape
      BY <3>1, RebuiltShape, NoneCert
    <3> QED BY <2>1, <3>1, <3>2 DEF RunTypes
  <2>4. refresh' \in [Callers -> RefreshShape]
    <3>1. \A a \in {"rebuild", "hand"} :
            [refresh[by] EXCEPT !.todo = @ \ {s}, !.at = a] \in RefreshShape
      BY DEF RunTypes, RefreshShape
    <3> QED BY <2>1, <3>1 DEF RunTypes
  <2> QED BY <1>18, <2>3, <2>4 DEF RunTypes, SessionTypeOK, Hand, cloudVars, entryVars, stampVars
<1>19. ASSUME NEW by \in Callers, NEW s \in Sources, HandRebuilt(by, s) PROVE SessionTypeOK'
  BY <1>19, JobTypes, RefreshMoves, NoneCert
  DEF RunTypes, SessionTypeOK, HandRebuilt, cloudVars, entryVars, stampVars
<1>20. ASSUME NEW by \in Callers, HandDone(by) PROVE SessionTypeOK'
  BY <1>20, EndTypes
  DEF RunTypes, SessionTypeOK, HandDone, cloudVars, entryVars, stampVars
<1>21. ASSUME NEW s \in Sources, Accepted(s) PROVE SessionTypeOK'
  BY <1>21, ClientMoves, NoneCert
  DEF RunTypes, SessionTypeOK, Accepted, cloudVars, entryVars, stampVars
<1>22. ASSUME NEW s \in Sources, Refused(s) PROVE SessionTypeOK'
  BY <1>22
  DEF RunTypes, SessionTypeOK, Refused, cloudVars, entryVars, stampVars, AuthErrorHandler
<1>23. ASSUME NEW s \in Sources, BackoffEnds(s) PROVE SessionTypeOK'
  BY <1>23, ClientMoves, NoneCert
  DEF RunTypes, SessionTypeOK, BackoffEnds, cloudVars, entryVars, stampVars
<1>24. ASSUME NEW s \in Sources, LinkDrops(s) PROVE SessionTypeOK'
  BY <1>24, ClientMoves, NoneCert
  DEF RunTypes, SessionTypeOK, LinkDrops, cloudVars, entryVars, stampVars
<1>25. ASSUME NEW s \in Sources, CertificateExpires(s) PROVE SessionTypeOK'
  BY <1>25, ClientMoves, NoneCert
  DEF RunTypes, SessionTypeOK, CertificateExpires, cloudVars, entryVars, stampVars, Certs
<1>26. CASE SessionTick
  BY <1>26
  DEF RunTypes, SessionTypeOK, SessionTick, cloudVars, entryVars, stampVars, Older
<1>27. CASE CertificateAges
  BY <1>27
  DEF RunTypes, SessionTypeOK, CertificateAges, cloudVars, entryVars, stampVars
<1>28. CASE PasswordChanges
  BY <1>28
  DEF RunTypes, SessionTypeOK, PasswordChanges, cloudVars, entryVars, stampVars
<1>29. CASE Calms
  BY <1>29
  DEF RunTypes, SessionTypeOK, Calms, cloudVars, entryVars, stampVars
<1>30. CASE Close
  BY <1>30
  DEF RunTypes, SessionTypeOK, Close, cloudVars, entryVars, stampVars
<1>31. CASE Reauthenticate
  BY <1>31, FreshTypes
  DEF RunTypes, SessionTypeOK, Reauthenticate, cloudVars, entryVars, stampVars
<1>32. CASE UNCHANGED sessionVars
  BY <1>32 DEF RunTypes, SessionTypeOK, sessionVars, cloudVars, entryVars, stampVars
<1> QED
  BY <1>1, <1>2, <1>3, <1>4, <1>5, <1>6, <1>7, <1>8, <1>9, <1>10, <1>11, <1>12,
     <1>13, <1>14, <1>15, <1>16, <1>17, <1>18, <1>19, <1>20, <1>21, <1>22, <1>23, <1>24,
     <1>25, <1>26, <1>27, <1>28, <1>29, <1>30, <1>31, <1>32
  DEF SessionNext, PollStep, RefreshStep

\* A step keeps the refresh and the sign-ins exclusive.
LEMMA ExactStep ==
  ASSUME SessionTypeOK, Exact, [SessionNext]_sessionVars
  PROVE  Exact'
<1> USE SessionAssumption
    DEF SessionTypeOK, PollShape, RefreshShape, ClientShape, Callers, NoPoll, NoRefresh, NoClient,
        Exact, RefreshExact, OneSignIn, SigningIn, SignInRecent, Quiet, PlaceKnown,
        cloudVars, entryVars, stampVars
<1>1. CASE PollStart
  BY <1>1 DEF PollStart
<1>2. CASE PollLogin
  BY <1>2 DEF PollLogin, Renew, SignInAllowed, StampSignIn, PollFails, Fresh
<1>3. CASE PollDiscover
  BY <1>3 DEF PollDiscover, Renew, SignInAllowed, StampSignIn, PollFails, Fresh
<1>4. CASE PollMaintain
  BY <1>4 DEF PollMaintain, AfterSetup, Present
<1>5. CASE PollFetch
  <2>1. CASE Renew /\ UNCHANGED <<cloudVars, entryVars>>
    BY <1>5, <2>1 DEF PollFetch, Renew, SignInAllowed, StampSignIn, PollFails, Fresh
  <2>2. CASE /\ poll'.at \in {"check", "reading", "adding"} /\ (poll'.at = "check" => loaded)
             /\ UNCHANGED <<refresh, inProgress, due, sinceSignIn, sinceRefresh, client>>
             /\ UNCHANGED <<cloudVars, entryVars>>
    BY <1>5, <2>2 DEF PollFetch
  <2>3. AfterSetup.at \in {"check", "reading"} /\ (AfterSetup.at = "check" => loaded)
    BY DEF AfterSetup
  <2> QED BY <1>5, <2>1, <2>2, <2>3 DEF PollFetch
<1>6. ASSUME NEW s \in Sources, AddClient(s) PROVE Exact'
  BY <1>6 DEF AddClient
<1>7. CASE AddDone
  BY <1>7 DEF AddDone, AfterSetup, Present
<1>8. ASSUME NEW s \in Sources, PollConnected(s) PROVE Exact'
  BY <1>8 DEF PollConnected, JobEnds
<1>9. ASSUME NEW s \in Sources, Reconnect(s) PROVE Exact'
  BY <1>9 DEF Reconnect, Rebuilt
<1>10. ASSUME NEW s \in Sources, Reconnected(s) PROVE Exact'
  BY <1>10 DEF Reconnected, JobEnds
<1>11. CASE PollAge
  BY <1>11 DEF PollAge, StartRefresh, RefreshAllowed
<1>12. CASE PollRead
  BY <1>12 DEF PollRead, Renew, SignInAllowed, StampSignIn, PollFails, Fresh
<1>13. CASE PollSignIn
  BY <1>13 DEF PollSignIn, PollFails, Fresh
<1>14. CASE RefreshTask
  BY <1>14 DEF RefreshTask, StartRefresh, RefreshAllowed
<1>15. ASSUME NEW by \in Callers, RefreshFetch(by) PROVE Exact'
  BY <1>15 DEF RefreshFetch, EndRefresh, ClearFlag, Receive, SignInAllowed, StampSignIn, Fetched, Present
<1>16. ASSUME NEW by \in Callers, RefreshSignIn(by) PROVE Exact'
  BY <1>16 DEF RefreshSignIn, EndRefresh, ClearFlag
<1>17. ASSUME NEW by \in Callers, RefreshRefetch(by) PROVE Exact'
  BY <1>17 DEF RefreshRefetch, EndRefresh, ClearFlag, Receive, Fetched, SecondRefusal, Present
<1>18. ASSUME NEW by \in Callers, NEW s \in Sources, Hand(by, s) PROVE Exact'
  BY <1>18 DEF Hand, Stored, Rebuilt
<1>19. ASSUME NEW by \in Callers, NEW s \in Sources, HandRebuilt(by, s) PROVE Exact'
  BY <1>19 DEF HandRebuilt, JobEnds
<1>20. ASSUME NEW by \in Callers, HandDone(by) PROVE Exact'
  BY <1>20 DEF HandDone, EndRefresh, ClearFlag
<1>21. ASSUME NEW s \in Sources, Accepted(s) PROVE Exact'
  BY <1>21 DEF Accepted
<1>22. ASSUME NEW s \in Sources, Refused(s) PROVE Exact'
  BY <1>22 DEF Refused, AuthErrorHandler
<1>23. ASSUME NEW s \in Sources, BackoffEnds(s) PROVE Exact'
  BY <1>23 DEF BackoffEnds
<1>24. ASSUME NEW s \in Sources, LinkDrops(s) PROVE Exact'
  BY <1>24 DEF LinkDrops
<1>25. ASSUME NEW s \in Sources, CertificateExpires(s) PROVE Exact'
  BY <1>25 DEF CertificateExpires
<1>26. CASE SessionTick
  BY <1>26 DEF SessionTick, Older
<1>27. CASE CertificateAges
  BY <1>27 DEF CertificateAges
<1>28. CASE PasswordChanges
  BY <1>28 DEF PasswordChanges
<1>29. CASE Calms
  BY <1>29 DEF Calms
<1>30. CASE Close
  BY <1>30 DEF Close
<1>31. CASE Reauthenticate
  BY <1>31 DEF Reauthenticate, Fresh
<1>32. CASE UNCHANGED sessionVars
  BY <1>32 DEF sessionVars
<1> QED
  BY <1>1, <1>2, <1>3, <1>4, <1>5, <1>6, <1>7, <1>8, <1>9, <1>10, <1>11, <1>12,
     <1>13, <1>14, <1>15, <1>16, <1>17, <1>18, <1>19, <1>20, <1>21, <1>22, <1>23, <1>24,
     <1>25, <1>26, <1>27, <1>28, <1>29, <1>30, <1>31, <1>32
  DEF SessionNext, PollStep, RefreshStep

\* After the MQTT setup the cycle checks the clients there are.
LEMMA AfterTidy ==
  ASSUME RunTypes
  PROVE  /\ AfterSetup.at \in {"check", "reading"} /\ AfterSetup.todo \subseteq Present
         /\ [AfterSetup EXCEPT !.got = "none"].at = AfterSetup.at
         /\ [AfterSetup EXCEPT !.got = "none"].todo = AfterSetup.todo
         /\ \A s \in Present : client[s].cert # "none"
BY DEF AfterSetup, RunTypes, PollShape, Present

\* A step leaves nobody stranded.
LEMMA StrandStep ==
  ASSUME SessionTypeOK, Exact, Tidy, NobodyStranded, [SessionNext]_sessionVars
  PROVE  Tidy' /\ NobodyStranded'
<1> DEFINE Kept == Tidy /\ NobodyStranded
<1> RunTypes
  BY DEF SessionTypeOK, RunTypes
<1> USE SessionAssumption
    DEF SessionTypeOK, PollShape, RefreshShape, ClientShape, Callers, NoPoll, NoRefresh, NoClient,
        Exact, RefreshExact, Tidy, NobodyStranded, cloudVars, entryVars, stampVars
<1>1. CASE PollStart
  BY <1>1 DEF PollStart
<1>2. CASE PollLogin
  BY <1>2 DEF PollLogin, Renew, SignInAllowed, StampSignIn, PollFails, Fresh
<1>3. CASE PollDiscover
  BY <1>3 DEF PollDiscover, Renew, SignInAllowed, StampSignIn, PollFails, Fresh
<1>4. CASE PollMaintain
  BY <1>4 DEF PollMaintain, AfterSetup, Present
<1>5. CASE PollFetch
  <2>1. CASE Renew /\ UNCHANGED <<cloudVars, entryVars>>
    BY <1>5, <2>1 DEF PollFetch, Renew, SignInAllowed, StampSignIn, PollFails, Fresh
  <2>2. CASE /\ poll' = AfterSetup
             /\ UNCHANGED <<refresh, stampVars, client, cloudVars, entryVars>>
    BY <1>5, <2>2, AfterTidy DEF PollFetch
  <2>3. ASSUME NEW c \in Fetched,
               poll' = [at |-> "adding", todo |-> Sources \ Present, got |-> c],
               UNCHANGED <<refresh, inProgress, due, sinceSignIn, sinceRefresh, client>>
        PROVE  Kept'
    <3>1. /\ poll'.at = "adding" /\ poll'.got # "none"
          /\ \A s \in poll'.todo : client'[s].cert = "none"
      BY <2>3 DEF Fetched, Present
    <3> QED BY <1>5, <2>3, <3>1 DEF PollFetch
  <2> QED BY <1>5, <2>1, <2>2, <2>3 DEF PollFetch
<1>6. ASSUME NEW s \in Sources, AddClient(s) PROVE Kept'
  BY <1>6 DEF AddClient
<1>7. CASE AddDone
  <2>1. poll'.at \in {"check", "reading"} /\ poll'.todo \subseteq Present
    BY <1>7, AfterTidy DEF AddDone
  <2> QED BY <1>7, <2>1 DEF AddDone, Present
<1>8. ASSUME NEW s \in Sources, PollConnected(s) PROVE Kept'
  BY <1>8 DEF PollConnected, JobEnds
<1>9. ASSUME NEW s \in Sources, Reconnect(s) PROVE Kept'
  BY <1>9 DEF Reconnect, Rebuilt
<1>10. ASSUME NEW s \in Sources, Reconnected(s) PROVE Kept'
  BY <1>10 DEF Reconnected, JobEnds
<1>11. CASE PollAge
  BY <1>11 DEF PollAge, StartRefresh, RefreshAllowed
<1>12. CASE PollRead
  BY <1>12 DEF PollRead, Renew, SignInAllowed, StampSignIn, PollFails, Fresh
<1>13. CASE PollSignIn
  BY <1>13 DEF PollSignIn, PollFails, Fresh
<1>14. CASE RefreshTask
  BY <1>14 DEF RefreshTask, StartRefresh, RefreshAllowed
<1>15. ASSUME NEW by \in Callers, RefreshFetch(by) PROVE Kept'
  BY <1>15 DEF RefreshFetch, EndRefresh, ClearFlag, Receive, SignInAllowed, StampSignIn, Fetched, Present
<1>16. ASSUME NEW by \in Callers, RefreshSignIn(by) PROVE Kept'
  BY <1>16 DEF RefreshSignIn, EndRefresh, ClearFlag
<1>17. ASSUME NEW by \in Callers, RefreshRefetch(by) PROVE Kept'
  BY <1>17 DEF RefreshRefetch, EndRefresh, ClearFlag, Receive, Fetched, SecondRefusal, Present
<1>18. ASSUME NEW by \in Callers, NEW s \in Sources, Hand(by, s) PROVE Kept'
  BY <1>18 DEF Hand, Stored, Rebuilt
<1>19. ASSUME NEW by \in Callers, NEW s \in Sources, HandRebuilt(by, s) PROVE Kept'
  BY <1>19 DEF HandRebuilt, JobEnds
<1>20. ASSUME NEW by \in Callers, HandDone(by) PROVE Kept'
  BY <1>20 DEF HandDone, EndRefresh, ClearFlag
<1>21. ASSUME NEW s \in Sources, Accepted(s) PROVE Kept'
  BY <1>21 DEF Accepted
<1>22. ASSUME NEW s \in Sources, BackoffEnds(s) PROVE Kept'
  BY <1>22 DEF BackoffEnds
<1>23. ASSUME NEW s \in Sources, LinkDrops(s) PROVE Kept'
  BY <1>23 DEF LinkDrops
<1>24. ASSUME NEW s \in Sources, CertificateExpires(s) PROVE Kept'
  <2>1. /\ client[s].cert # "none" /\ client'[s].cert # "none"
        /\ client'[s].job = client[s].job
        /\ \A t \in Sources : t # s => client'[t] = client[t]
        /\ UNCHANGED <<poll, refresh>>
    BY <1>24 DEF CertificateExpires, Present
  <2>2. \A t \in Sources : /\ client'[t].job = client[t].job
                           /\ client'[t].cert = "none" <=> client[t].cert = "none"
    BY <2>1
  <2>3. poll.todo \subseteq Sources /\ UNCHANGED <<poll, refresh>>
    BY <2>1
  <2>4. Tidy'
    BY <2>2, <2>3
  <2>5. NobodyStranded'
    BY <2>2, <2>3
  <2> QED BY <2>4, <2>5
<1>25. CASE UNCHANGED <<poll, refresh, client>>
  BY <1>25
<1>26. CASE Reauthenticate
  BY <1>26 DEF Reauthenticate, Fresh
<1> QED
  BY <1>1, <1>2, <1>3, <1>4, <1>5, <1>6, <1>7, <1>8, <1>9, <1>10, <1>11, <1>12,
     <1>13, <1>14, <1>15, <1>16, <1>17, <1>18, <1>19, <1>20, <1>21, <1>22, <1>23,
     <1>24, <1>25, <1>26
  DEF SessionNext, PollStep, RefreshStep, Refused, SessionTick, CertificateAges, PasswordChanges,
      Calms, Close, sessionVars

-----------------------------------------------------------------------------
(* The theorems                                                            *)

\* The initial states.
LEMMA SessionStart == SessionInit => SessionTypeOK /\ Exact /\ NoFalseAlarm
<1> SUFFICES ASSUME SessionInit PROVE SessionTypeOK /\ Exact /\ NoFalseAlarm
  OBVIOUS
<1>1. SessionTypeOK
  <2>1. poll \in PollShape /\ refresh \in [Callers -> RefreshShape]
    BY Shapes DEF SessionInit
  <2>2. client \in [Sources -> ClientShape]
    BY Shapes DEF SessionInit
  <2>3. sinceSignIn \in 0..SignInInterval /\ sinceRefresh \in 0..RefreshInterval
    BY SessionAssumption DEF SessionInit
  <2>4. /\ password \in {"valid", "changed"} /\ token \in BOOLEAN /\ calm \in BOOLEAN
        /\ loaded \in BOOLEAN /\ closed \in BOOLEAN /\ reauth \in BOOLEAN
        /\ inProgress \in BOOLEAN /\ due \in BOOLEAN /\ aged \in BOOLEAN
    BY DEF SessionInit
  <2> QED BY <2>1, <2>2, <2>3, <2>4 DEF SessionTypeOK
<1>2. Exact
  BY DEF SessionInit, Exact, RefreshExact, OneSignIn, SigningIn, SignInRecent, Quiet, PlaceKnown,
         Callers, NoPoll, NoRefresh, NoClient
<1>3. NoFalseAlarm
  BY DEF SessionInit, NoFalseAlarm
<1> QED BY <1>1, <1>2, <1>3

\* The variables of the session keep their shapes.
THEOREM SessionTypes == SessionSpec => []SessionTypeOK
<1>1. SessionTypeOK /\ [SessionNext]_sessionVars => SessionTypeOK'
  BY TypeStep
<1> QED BY <1>1, SessionStart, PTL DEF SessionSpec

\* The strengthened invariant holds throughout.
LEMMA ExactAlways == SessionSpec => []Exact
<1>1. SessionTypeOK /\ Exact /\ [SessionNext]_sessionVars => Exact'
  BY ExactStep
<1> QED BY <1>1, SessionStart, SessionTypes, PTL DEF SessionSpec

\* Nobody waits for a job or a refresh that is not under way, whatever the sources:
\* the client's own lock keeps cycle and refresh from taking a rebuild over.
THEOREM NobodyStrandedAlways == SessionSpec => []NobodyStranded
<1>1. SessionInit => Tidy /\ NobodyStranded
  BY DEF SessionInit, Tidy, NobodyStranded, Callers, NoPoll, NoRefresh, NoClient
<1>2. SessionTypeOK /\ Exact /\ Tidy /\ NobodyStranded /\ [SessionNext]_sessionVars
        => Tidy' /\ NobodyStranded'
  BY StrandStep
<1> QED BY <1>1, <1>2, SessionTypes, ExactAlways, PTL DEF SessionSpec

\* At most one of the cycle and the refreshes signs in, whatever the intervals.
THEOREM OneSignInAlways == SessionSpec => []OneSignIn
<1>1. Exact => OneSignIn
  BY DEF Exact
<1> QED BY <1>1, ExactAlways, PTL

\* The flag is exact, and refreshes never overlap.
THEOREM RefreshExactAlways == SessionSpec => []RefreshExact
<1>1. Exact => RefreshExact
  BY DEF Exact
<1> QED BY <1>1, ExactAlways, PTL

\* An answer that is no refusal is not classified as one.
LEMMA ClassifiedFairly ==
  ASSUME NEW r \in Responses, ~Refuses(r)
  PROVE  ClassifyLogin(r) # "auth_failure"
<1>1. ClassifyTransport(r.status) # "auth_failure"
  BY DEF ClassifyTransport, AuthStatuses, Refuses
<1>2. CASE ClassifyTransport(r.status) # "undecided"
  BY <1>1, <1>2 DEF ClassifyLogin, ClassifyCredential
<1>3. CASE ClassifyTransport(r.status) = "undecided"
  <2>1. r.status \in 200..299
    BY <1>3 DEF ClassifyTransport, AuthStatuses
  <2>2. r.code \in {"missing", "zero"}
    BY <2>1 DEF Refuses, Responses
  <2> QED BY <1>3, <2>2 DEF ClassifyLogin, ClassifyCredential
<1> QED BY <1>2, <1>3

\* However the hosts answer, a sign-in with the valid password is never refused:
\* the account's own host would have to refuse it.
THEOREM ValidNeverRefused == "auth_failure" \notin ValidLogin
<1> DEFINE Home    == Classified({r \in Responses : ~Refuses(r)})
           Foreign == Classified({r \in Responses : ~Accepts(r)})
<1>1. ASSUME NEW home \in Home, NEW foreign \in Foreign,
             AggregateOutcomes({home, foreign}) = "auth_failure"
      PROVE FALSE
  <2>1. home = "auth_failure"
    BY <1>1 DEF AggregateOutcomes
  <2> QED BY <2>1, ClassifiedFairly DEF Classified
<1>2. \A o \in ValidLogin : \E home \in Home, foreign \in Foreign :
        o = AggregateOutcomes({home, foreign})
  BY DEF ValidLogin, LoginOutcomes
<1> QED BY <1>1, <1>2

\* The repair dialog opens only for a password that is refused.
THEOREM NoFalseAlarmAlways == SessionSpec => []NoFalseAlarm
<1>1. ASSUME SessionTypeOK, NoFalseAlarm, [SessionNext]_sessionVars
      PROVE NoFalseAlarm'
  <2>1. ASSUME "auth_failure" \in LoginAnswers PROVE password = "changed"
    BY <1>1, <2>1, ValidNeverRefused DEF LoginAnswers, SessionTypeOK
  <2>2. CASE UNCHANGED <<password, reauth>>
    BY <1>1, <2>2 DEF NoFalseAlarm
  <2>3. CASE PollSignIn
    BY <1>1, <2>1, <2>3 DEF NoFalseAlarm, PollSignIn
  <2>4. ASSUME NEW by \in Callers, RefreshSignIn(by) PROVE NoFalseAlarm'
    BY <1>1, <2>1, <2>4 DEF NoFalseAlarm, RefreshSignIn
  <2>5. CASE PasswordChanges
    BY <1>1, <2>5 DEF NoFalseAlarm, PasswordChanges
  <2>6. CASE Reauthenticate
    BY <2>6 DEF NoFalseAlarm, Reauthenticate
  <2>7. CASE \E by \in Callers : RefreshRefetch(by)
    BY <2>2, <2>7 DEF RefreshRefetch, SecondRefusal, cloudVars
  <2> QED BY <1>1, <2>2, <2>3, <2>4, <2>5, <2>6, <2>7
    DEF SessionNext, PollStep, RefreshStep, sessionVars, cloudVars, entryVars,
        PollStart, PollLogin, PollDiscover, PollMaintain, PollFetch, AddClient, AddDone,
        PollConnected, Reconnect, Reconnected, PollAge, PollRead, RefreshTask, RefreshFetch,
        Hand, HandRebuilt, HandDone, Accepted, Refused, BackoffEnds, LinkDrops,
        CertificateExpires, SessionTick, CertificateAges, Calms, Close
<1> QED BY <1>1, SessionStart, SessionTypes, PTL DEF SessionSpec
=============================================================================
