---------------------------- MODULE CloudSession ----------------------------
(***************************************************************************)
(* The account session and the MQTT certificate (the session half of       *)
(* coordinator.py, api.py): poll cycles that sign in, discover, fetch a    *)
(* certificate and read; the refresh that a refused certificate or its age *)
(* starts beside them; the one sign-in both may renew an expired session   *)
(* with; the clients they hand the certificate to; and the repair dialog.  *)
(*                                                                         *)
(* An action is the code between two awaits.  Before calm a session may    *)
(* expire, requests may fail and links may drop at any moment; in calm     *)
(* they do so no more.  A client's lock and Paho objects are in            *)
(* MqttClient, and the disconnecting of clients at shutdown with them.     *)
(***************************************************************************)
EXTENDS AuthOutcome

CONSTANTS
  Sources,          \* the chargers and parents with an MQTT client
  SignInInterval,   \* SESSION_RENEWAL_INTERVAL_SECONDS
  RefreshInterval,  \* CREDENTIAL_REFRESH_INTERVAL_SECONDS
  AnswerTime        \* the request timeouts of one sign-in

\* A sign-in is over (10 s a host) long before the next may start (300 s).
ASSUME SessionAssumption ==
  /\ SignInInterval \in Nat /\ RefreshInterval \in Nat /\ AnswerTime \in Nat
  /\ AnswerTime < SignInInterval

VARIABLES
  password,      \* "valid", or "changed" by the user at EcoFlow
  token,         \* whether the session is one the cloud takes from calm on
  calm,          \* from here on nothing expires, drops or fails by itself, and
                 \* the entry stays loaded
  loaded,        \* the first refresh succeeded: the entry is set up
  closed,        \* _shutting_down
  reauth,        \* the repair dialog is open
  poll,          \* the update cycle: where it is suspended, what it carries
  refresh,       \* per caller, a certificate refresh
  inProgress,    \* _credential_refresh_in_progress
  due,           \* a refresh task the network thread scheduled
  sinceSignIn,   \* age of _last_session_renewal
  sinceRefresh,  \* age of _last_credential_refresh
  aged,          \* _credentials_obtained_at is older than the maximum age
  client         \* mqtt_clients

cloudVars   == <<password, token, calm>>
entryVars   == <<loaded, closed, reauth>>
stampVars   == <<inProgress, due, sinceSignIn, sinceRefresh, aged>>
sessionVars == <<cloudVars, entryVars, poll, refresh, stampVars, client>>

Callers == {"task", "poll"}
Certs   == {"none", "good", "bad"}

\* A client: the certificate stored and the one its Paho object has; whether its
\* link is up, dialled by the network thread, or without a thread; who rebuilds
\* it; whether the backoff keeps the watchdog from it.
NoClient  == [cert |-> "none", live |-> "none", link |-> "dead", job |-> "none", wait |-> FALSE]
NoPoll    == [at |-> "idle", todo |-> {}, got |-> "none"]
NoRefresh == [at |-> "idle", todo |-> {}, got |-> "none"]

Present == {s \in Sources : client[s].cert # "none"}
Older(age, interval) == IF age < interval THEN age + 1 ELSE age

SessionInit ==
  /\ password \in {"valid", "changed"} /\ token = FALSE /\ calm = FALSE
  /\ loaded = FALSE /\ closed = FALSE /\ reauth = FALSE
  /\ poll = NoPoll /\ refresh = [by \in Callers |-> NoRefresh]
  /\ inProgress = FALSE /\ due = FALSE
  /\ sinceSignIn = SignInInterval /\ sinceRefresh = RefreshInterval /\ aged = FALSE
  /\ client = [s \in Sources |-> NoClient]

\* A new coordinator: the old one is dropped.
Fresh ==
  /\ poll' = NoPoll /\ refresh' = [by \in Callers |-> NoRefresh]
  /\ inProgress' = FALSE /\ due' = FALSE
  /\ sinceSignIn' = SignInInterval /\ sinceRefresh' = RefreshInterval /\ aged' = FALSE
  /\ client' = [s \in Sources |-> NoClient]

\* What the cloud answers to a request with the token.
Settled == {IF token THEN "success" ELSE "auth_failure"}
CertificateAnswers == IF calm THEN Settled ELSE CertificateOutcomes
DataAnswers(outcomes) == IF calm THEN Settled ELSE outcomes
LoginAnswers ==
  IF calm THEN {IF password = "valid" THEN "success" ELSE "auth_failure"}
  ELSE IF password = "valid" THEN ValidLogin ELSE ChangedLogin
Fetched == IF calm THEN {"good"} ELSE {"good", "bad"}

-----------------------------------------------------------------------------
(* The poll cycle                                                          *)

\* Before the entry is loaded a failed cycle ends the setup, and Home Assistant
\* starts another; after it, the next cycle is scheduled.
PollFails ==
  IF loaded THEN poll' = NoPoll /\ UNCHANGED <<refresh, stampVars, client>> ELSE Fresh

PollStart ==
  /\ poll.at = "idle" /\ ~closed /\ (loaded \/ ~reauth)
  /\ poll' = [poll EXCEPT !.at = IF loaded THEN "maintain" ELSE "login"]
  /\ UNCHANGED <<cloudVars, entryVars, refresh, stampVars, client>>

SignInAllowed == sinceSignIn >= SignInInterval
LateStampMutant == sinceSignIn' = sinceSignIn
StampSignIn == sinceSignIn' = 0

\* _async_renew_session up to its await: the stamp is set before the request.
Renew ==
  \/ /\ SignInAllowed /\ StampSignIn
     /\ poll' = [NoPoll EXCEPT !.at = "signin"]
     /\ UNCHANGED <<refresh, inProgress, due, sinceRefresh, aged, client>>
  \/ ~SignInAllowed /\ PollFails

PollLogin ==
  /\ poll.at = "login"
  /\ \E o \in LoginAnswers :
       \/ /\ o = "success" /\ token' = calm
          /\ poll' = [poll EXCEPT !.at = "discover"]
          /\ UNCHANGED <<refresh, stampVars, client>>
       \/ o = "auth_failure" /\ Renew /\ UNCHANGED token
       \/ o = "connection_failure" /\ PollFails /\ UNCHANGED token
  /\ UNCHANGED <<password, calm, entryVars>>

\* Also an account without a charger fails the cycle.
PollDiscover ==
  /\ poll.at = "discover"
  /\ \E o \in DataAnswers(DiscoverOutcomes) :
       \/ /\ o = "success"
          /\ poll' = [poll EXCEPT !.at = "fetch"]
          /\ UNCHANGED <<refresh, stampVars, client>>
       \/ o = "auth_failure" /\ Renew
       \/ o # "auth_failure" /\ (o = "success" => ~calm) /\ PollFails
  /\ UNCHANGED <<cloudVars, entryVars>>

\* After the MQTT setup: in the first cycle there is nothing to maintain.
AfterSetup == IF loaded THEN [poll EXCEPT !.at = "check", !.todo = Present]
                        ELSE [poll EXCEPT !.at = "reading", !.todo = {}]

PollMaintain ==
  /\ poll.at = "maintain"
  /\ poll' = IF Present = Sources THEN AfterSetup ELSE [poll EXCEPT !.at = "fetch"]
  /\ UNCHANGED <<cloudVars, entryVars, refresh, stampVars, client>>

\* Only a refused session leaves the setup; any other failure is logged.
PollFetch ==
  /\ poll.at = "fetch"
  /\ \E o \in CertificateAnswers :
       \/ /\ o = "success" /\ aged' = FALSE
          /\ \E c \in Fetched :
               poll' = [at |-> "adding", todo |-> Sources \ Present, got |-> c]
          /\ UNCHANGED <<refresh, inProgress, due, sinceSignIn, sinceRefresh, client>>
       \/ o = "auth_failure" /\ Renew
       \/ /\ o = "connection_failure" /\ poll' = AfterSetup
          /\ UNCHANGED <<refresh, stampVars, client>>
  /\ UNCHANGED <<cloudVars, entryVars>>

\* The client is created and listed; connecting it and starting its loop run in
\* the executor.
AddClient(s) ==
  /\ poll.at = "adding" /\ s \in poll.todo
  /\ client' = [client EXCEPT ![s] = [NoClient EXCEPT !.cert = poll.got, !.live = poll.got,
                                                      !.job = "setup"]]
  /\ poll' = [poll EXCEPT !.at = "connecting", !.todo = @ \ {s}]
  /\ UNCHANGED <<cloudVars, entryVars, refresh, stampVars>>

AddDone ==
  /\ poll.at = "adding" /\ poll.todo = {}
  /\ poll' = [AfterSetup EXCEPT !.got = "none"]
  /\ UNCHANGED <<cloudVars, entryVars, refresh, stampVars, client>>

\* The executor job of a rebuild, or of a first connection, ends.
JobEnds(s, by) ==
  /\ client[s].job = by
  /\ \E link \in {"dialing"} \cup (IF calm THEN {} ELSE {"dead"}) :
       client' = [client EXCEPT ![s].link = link, ![s].job = "none"]

PollConnected(s) ==
  /\ poll.at = "connecting" /\ JobEnds(s, "setup")
  /\ poll' = [poll EXCEPT !.at = "adding"]
  /\ UNCHANGED <<cloudVars, entryVars, refresh, stampVars>>

\* force_reconnect, unless somebody else rebuilds the client just then.
TakenOverMutant(c, by) == [c EXCEPT !.job = by, !.link = "dead", !.live = c.cert]
Rebuilt(c, by) ==
  IF c.job # "none" THEN c
  ELSE [c EXCEPT !.job = by, !.link = "dead", !.live = c.cert]

\* try_reconnect of a client that is not connected, if its backoff is over.
Reconnect(s) ==
  /\ poll.at = "check" /\ s \in poll.todo
  /\ poll' = [poll EXCEPT !.todo = @ \ {s}, !.at =
                IF client[s].link # "up" /\ ~client[s].wait /\ client[s].job = "none"
                THEN "rebuild" ELSE "check"]
  /\ client' = IF client[s].link # "up" /\ ~client[s].wait
               THEN [client EXCEPT ![s] = [Rebuilt(@, "check") EXCEPT !.wait = TRUE]]
               ELSE client
  /\ UNCHANGED <<cloudVars, entryVars, refresh, stampVars>>

Reconnected(s) ==
  /\ poll.at = "rebuild" /\ JobEnds(s, "check")
  /\ poll' = [poll EXCEPT !.at = "check"]
  /\ UNCHANGED <<cloudVars, entryVars, refresh, stampVars>>

PollRead ==
  /\ poll.at = "reading"
  /\ \E o \in DataAnswers(DetailOutcomes) :
       \/ o = "auth_failure" /\ Renew /\ UNCHANGED loaded
       \/ /\ o # "auth_failure"
          /\ loaded' = TRUE /\ poll' = NoPoll
          /\ UNCHANGED <<refresh, stampVars, client>>
  /\ UNCHANGED <<cloudVars, closed, reauth>>

\* The renewed session serves the next cycle; only refused credentials open the
\* dialog.
PollSignIn ==
  /\ poll.at = "signin"
  /\ \E o \in LoginAnswers :
       /\ token' = (token \/ (o = "success" /\ calm))
       /\ reauth' = (reauth \/ o = "auth_failure")
  /\ PollFails
  /\ UNCHANGED <<password, calm, loaded, closed>>

-----------------------------------------------------------------------------
(* The certificate refresh                                                 *)

RefreshAllowed == ~closed /\ ~inProgress /\ sinceRefresh >= RefreshInterval

\* A refused or aged certificate starts a refresh, or finds one started.
StartRefresh(by) ==
  IF RefreshAllowed
    THEN /\ sinceRefresh' = 0 /\ inProgress' = TRUE
         /\ refresh' = [refresh EXCEPT ![by].at = "fetch"]
    ELSE UNCHANGED <<sinceRefresh, inProgress, refresh>>

RefreshTask ==
  /\ due /\ due' = FALSE
  /\ StartRefresh("task")
  /\ UNCHANGED <<cloudVars, entryVars, poll, sinceSignIn, aged, client>>

\* The cycle awaits the refresh it starts over the certificate's age.
PollAge ==
  /\ poll.at = "check" /\ poll.todo = {}
  /\ IF aged /\ Present # {}
       THEN /\ StartRefresh("poll")
            /\ poll' = [poll EXCEPT !.at = IF RefreshAllowed THEN "aging" ELSE "reading"]
       ELSE /\ poll' = [poll EXCEPT !.at = "reading"]
            /\ UNCHANGED <<sinceRefresh, inProgress, refresh>>
  /\ UNCHANGED <<cloudVars, entryVars, due, sinceSignIn, aged, client>>

\* The flag is cleared however the refresh ends; a cycle that awaits it reads on.
KeptFlagMutant == inProgress' = inProgress
ClearFlag == inProgress' = FALSE
EndRefresh(by) ==
  /\ refresh' = [refresh EXCEPT ![by] = NoRefresh] /\ ClearFlag
  /\ poll' = IF by = "poll" THEN [poll EXCEPT !.at = "reading"] ELSE poll

\* A certificate is handed over unless the entry was unloaded meanwhile.
Receive(by) ==
  \/ closed /\ EndRefresh(by) /\ UNCHANGED aged
  \/ /\ ~closed /\ aged' = FALSE
     /\ \E c \in Fetched :
          refresh' = [refresh EXCEPT ![by] = [at |-> "hand", todo |-> Present, got |-> c]]
     /\ UNCHANGED <<inProgress, poll>>

RefreshFetch(by) ==
  /\ refresh[by].at = "fetch"
  /\ \E o \in CertificateAnswers :
       \/ o = "success" /\ Receive(by) /\ UNCHANGED sinceSignIn
       \/ /\ o = "auth_failure" /\ SignInAllowed /\ StampSignIn
          /\ refresh' = [refresh EXCEPT ![by].at = "signin"]
          /\ UNCHANGED <<inProgress, poll, aged>>
       \/ /\ o = "auth_failure" => ~SignInAllowed
          /\ o # "success" /\ EndRefresh(by) /\ UNCHANGED <<sinceSignIn, aged>>
  /\ UNCHANGED <<cloudVars, entryVars, due, sinceRefresh, client>>

RefreshSignIn(by) ==
  /\ refresh[by].at = "signin"
  /\ \E o \in LoginAnswers :
       \/ /\ o = "success" /\ token' = calm
          /\ refresh' = [refresh EXCEPT ![by].at = "refetch"]
          /\ UNCHANGED <<inProgress, poll, reauth>>
       \/ /\ o # "success" /\ EndRefresh(by)
          /\ reauth' = (reauth \/ (o = "auth_failure" /\ ~closed))
          /\ UNCHANGED token
  /\ UNCHANGED <<password, calm, loaded, closed, due, sinceSignIn, sinceRefresh, aged, client>>

\* The endpoint refusing a session just renewed says nothing of the password.
SecondRefusal(o) == reauth' = reauth
RefreshRefetch(by) ==
  /\ refresh[by].at = "refetch"
  /\ \E o \in CertificateAnswers :
       \/ o = "success" /\ Receive(by) /\ UNCHANGED reauth
       \/ o # "success" /\ EndRefresh(by) /\ SecondRefusal(o) /\ UNCHANGED aged
  /\ UNCHANGED <<cloudVars, loaded, closed, due, sinceSignIn, sinceRefresh, client>>

\* update_credentials and update_broker, also of the Paho object of the moment.
Stored(c, got, live) == [c EXCEPT !.cert = got, !.live = live]

\* What changed is rebuilt.  While somebody else rebuilds the client, its new Paho
\* object may get the older certificate.
Hand(by, s) ==
  /\ refresh[by].at = "hand" /\ s \in refresh[by].todo
  /\ \E changed \in BOOLEAN, live \in {refresh[by].got, client[s].live} :
       LET stored == Stored(client[s], refresh[by].got, live) IN
       /\ client[s].cert # refresh[by].got => changed
       /\ client[s].job = "none" => live = refresh[by].got
       /\ client' = [client EXCEPT ![s] = IF changed THEN Rebuilt(stored, by) ELSE stored]
       /\ refresh' = [refresh EXCEPT ![by].todo = @ \ {s}, ![by].at =
                        IF changed /\ client[s].job = "none" THEN "rebuild" ELSE "hand"]
  /\ UNCHANGED <<cloudVars, entryVars, poll, stampVars>>

HandRebuilt(by, s) ==
  /\ refresh[by].at = "rebuild" /\ JobEnds(s, by)
  /\ refresh' = [refresh EXCEPT ![by].at = "hand"]
  /\ UNCHANGED <<cloudVars, entryVars, poll, stampVars>>

HandDone(by) ==
  /\ refresh[by].at = "hand" /\ refresh[by].todo = {}
  /\ EndRefresh(by)
  /\ UNCHANGED <<cloudVars, entryVars, due, sinceSignIn, sinceRefresh, aged, client>>

-----------------------------------------------------------------------------
(* The network threads, time and the outside                               *)

NoHandlerMutant == due' = due
\* _on_mqtt_auth_error
AuthErrorHandler == due' = (due \/ ~closed)

\* While the entry is being closed only what was under way is followed, no new
\* turn of the outside.

\* The broker answers a dialling client by the certificate of its Paho object.
Accepted(s) ==
  /\ client[s].link = "dialing" /\ client[s].live = "good"
  /\ client' = [client EXCEPT ![s].link = "up", ![s].wait = FALSE]
  /\ UNCHANGED <<cloudVars, entryVars, poll, refresh, stampVars>>
Refused(s) ==
  /\ client[s].link = "dialing" /\ client[s].live = "bad"
  /\ AuthErrorHandler
  /\ UNCHANGED <<cloudVars, entryVars, poll, refresh, inProgress,
                 sinceSignIn, sinceRefresh, aged, client>>

\* The backoff of try_reconnect runs out (module ReconnectBackoff).
BackoffEnds(s) ==
  /\ ~closed /\ client[s].wait
  /\ client' = [client EXCEPT ![s].wait = FALSE]
  /\ UNCHANGED <<cloudVars, entryVars, poll, refresh, stampVars>>

LinkDrops(s) ==
  /\ ~closed /\ ~calm /\ client[s].link = "up"
  /\ client' = [client EXCEPT ![s].link = "dialing"]
  /\ UNCHANGED <<cloudVars, entryVars, poll, refresh, stampVars>>

CertificateExpires(s) ==
  /\ ~closed /\ ~calm /\ s \in Present
  /\ client' = [client EXCEPT ![s].cert = "bad", ![s].live = "bad"]
  /\ UNCHANGED <<cloudVars, entryVars, poll, refresh, stampVars>>

SigningIn == (IF poll.at \in {"login", "signin"} THEN {"cycle"} ELSE {})
               \cup {by \in Callers : refresh[by].at = "signin"}

\* The request timeouts end a sign-in before time goes on.
SessionTick ==
  /\ SigningIn # {} => sinceSignIn # AnswerTime
  /\ sinceSignIn' = Older(sinceSignIn, SignInInterval)
  /\ sinceRefresh' = Older(sinceRefresh, RefreshInterval)
  /\ UNCHANGED <<cloudVars, entryVars, poll, refresh, inProgress, due, aged, client>>

CertificateAges ==
  /\ ~closed /\ Present # {} /\ ~aged /\ aged' = TRUE
  /\ UNCHANGED <<cloudVars, entryVars, poll, refresh, inProgress, due,
                 sinceSignIn, sinceRefresh, client>>

PasswordChanges ==
  /\ ~closed /\ ~calm /\ password = "valid" /\ password' = "changed"
  /\ UNCHANGED <<token, calm, entryVars, poll, refresh, stampVars, client>>

Calms ==
  /\ ~closed /\ ~calm /\ calm' = TRUE /\ token' \in BOOLEAN
  /\ UNCHANGED <<password, entryVars, poll, refresh, stampVars, client>>

Close ==
  /\ loaded /\ ~closed /\ ~calm /\ closed' = TRUE
  /\ UNCHANGED <<cloudVars, loaded, reauth, poll, refresh, stampVars, client>>

\* The user enters the new password; what was accepted reloads the entry.
Reauthenticate ==
  /\ reauth /\ ~closed
  /\ password' = "valid" /\ reauth' = FALSE /\ loaded' = FALSE
  /\ Fresh
  /\ UNCHANGED <<token, calm, closed>>

-----------------------------------------------------------------------------
PollStep ==
  \/ PollStart \/ PollLogin \/ PollDiscover \/ PollMaintain \/ PollFetch
  \/ \E s \in Sources : AddClient(s) \/ PollConnected(s) \/ Reconnect(s) \/ Reconnected(s)
  \/ AddDone \/ PollAge \/ PollRead \/ PollSignIn

RefreshStep(by) ==
  \/ RefreshFetch(by) \/ RefreshSignIn(by) \/ RefreshRefetch(by)
  \/ \E s \in Sources : Hand(by, s) \/ HandRebuilt(by, s)
  \/ HandDone(by)

SessionNext ==
  \/ PollStep \/ RefreshTask \/ \E by \in Callers : RefreshStep(by)
  \/ \E s \in Sources : \/ Accepted(s) \/ Refused(s) \/ BackoffEnds(s) \/ LinkDrops(s)
                        \/ CertificateExpires(s)
  \/ SessionTick \/ CertificateAges \/ PasswordChanges
  \/ Calms \/ Close \/ Reauthenticate

SessionSpec == SessionInit /\ [][SessionNext]_sessionVars

-----------------------------------------------------------------------------
(* Properties                                                              *)

PollShape ==
  [at : {"idle", "login", "discover", "maintain", "fetch", "adding", "connecting",
         "check", "rebuild", "aging", "reading", "signin"},
   todo : SUBSET Sources, got : Certs]
RefreshShape ==
  [at : {"idle", "fetch", "signin", "refetch", "hand", "rebuild"},
   todo : SUBSET Sources, got : Certs]
ClientShape ==
  [cert : Certs, live : Certs, link : {"dead", "dialing", "up"},
   job : {"none", "setup", "check"} \cup Callers, wait : BOOLEAN]

\* Every variable keeps its shape.
SessionTypeOK ==
  /\ password \in {"valid", "changed"} /\ token \in BOOLEAN /\ calm \in BOOLEAN
  /\ loaded \in BOOLEAN /\ closed \in BOOLEAN /\ reauth \in BOOLEAN
  /\ poll \in PollShape /\ refresh \in [Callers -> RefreshShape]
  /\ inProgress \in BOOLEAN /\ due \in BOOLEAN /\ aged \in BOOLEAN
  /\ sinceSignIn \in 0..SignInInterval /\ sinceRefresh \in 0..RefreshInterval
  /\ client \in [Sources -> ClientShape]

\* The user is asked for a password only after EcoFlow refused the stored one:
\* never over an expired session, a regional host or an outage.
NoFalseAlarm == reauth => password = "changed"

\* However cycles and refreshes interleave, at most one of them signs in.
OneSignIn == \A a, b \in SigningIn : a = b

\* The flag stands for exactly the refresh under way, and there is at most one.
RefreshExact ==
  /\ inProgress <=> \E by \in Callers : refresh[by].at # "idle"
  /\ \A a, b \in Callers : refresh[a].at # "idle" /\ refresh[b].at # "idle" => a = b

\* Everybody who is suspended for an executor job or a refresh is waited for by one
\* of his own, of one client, and no such job is left without the one who goes on
\* when it ends: cycle and refresh never take a client's rebuild from each other.
NobodyStranded ==
  /\ poll.at = "connecting" <=> \E s \in Sources : client[s].job = "setup"
  /\ poll.at = "rebuild" <=> \E s \in Sources : client[s].job = "check"
  /\ \A by \in Callers : refresh[by].at = "rebuild" <=> \E s \in Sources : client[s].job = by
  /\ \A s, t \in Sources : client[s].job = client[t].job /\ client[s].job # "none" => s = t
  /\ poll.at = "aging" <=> refresh["poll"].at # "idle"

\* Once nothing fails by itself any more, the link of every client is up again and
\* again, also when session and certificate have both expired, unless the user has to
\* act.
ClientsReturn == \A s \in Sources : []<>(calm => client[s].link = "up" \/ reauth)
=============================================================================
