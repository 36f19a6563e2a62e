--------------------------- MODULE ChargeContract ---------------------------
(***************************************************************************)
(* What Start and Stop promise a caller: per charger at most one requested *)
(* action, in the whole integration at most one issued command beside no   *)
(* other control transaction, issued only if charger and links admit it at *)
(* that moment, whatever they admitted when it was requested; each command *)
(* published at most once, and success reported only for a command that    *)
(* was published.                                                          *)
(***************************************************************************)
CONSTANTS Chargers, Actions, Nobody, Other

VARIABLES phase,    \* "free", "requested" or "issued", per charger
          sent,     \* chargers whose issued command was published
          holder,   \* the charger, or the other transaction, being controlled
          verdict,  \* how the newest attempt ended
          asked,    \* the requests under way: charger and action
          open      \* the actions the situation admits now

vars == <<phase, sent, holder, verdict, asked, open>>

Requests == Chargers \X Actions
Of(s)    == {r \in asked : r[1] = s}

Failures == {"publish_rejected", "runtime_error", "set_reply_timeout", "cancelled",
             "unchanged_state", "readback_timeout"}

Init ==
  /\ phase = [s \in Chargers |-> "free"]
  /\ sent = {} /\ holder = Nobody /\ verdict = "none"
  /\ asked = {} /\ open = {}

\* The charger reports, a link comes or goes, time passes, the entry is unloaded.
Situation == open' \subseteq Requests /\ UNCHANGED <<phase, sent, holder, verdict, asked>>

Request(s, a) ==
  /\ phase[s] = "free"
  /\ phase' = [phase EXCEPT ![s] = "requested"]
  /\ asked' = asked \cup {<<s, a>>}
  /\ UNCHANGED <<sent, holder, verdict, open>>

Withdraw(s) ==
  /\ phase[s] = "requested"
  /\ phase' = [phase EXCEPT ![s] = "free"]
  /\ asked' = asked \ Of(s)
  /\ UNCHANGED <<sent, holder, verdict, open>>

Issue(s) ==
  /\ phase[s] = "requested" /\ holder = Nobody
  /\ Of(s) \subseteq open
  /\ phase' = [phase EXCEPT ![s] = "issued"]
  /\ holder' = s
  /\ UNCHANGED <<sent, verdict, asked, open>>

Publish(s) ==
  /\ holder = s /\ s \notin sent
  /\ sent' = sent \cup {s}
  /\ UNCHANGED <<phase, holder, verdict, asked, open>>

Resolve(s) ==
  /\ holder = s
  /\ verdict' \in Failures \cup (IF s \in sent THEN {"confirmed"} ELSE {})
  /\ phase' = [phase EXCEPT ![s] = "free"]
  /\ sent' = sent \ {s}
  /\ holder' = Nobody
  /\ asked' = asked \ Of(s)
  /\ UNCHANGED open

OtherTakes ==
  holder = Nobody /\ holder' = Other /\ UNCHANGED <<phase, sent, verdict, asked, open>>
OtherLeaves ==
  holder = Other /\ holder' = Nobody /\ UNCHANGED <<phase, sent, verdict, asked, open>>

Next ==
  \/ Situation
  \/ OtherTakes \/ OtherLeaves
  \/ \E s \in Chargers : Withdraw(s) \/ Issue(s) \/ Publish(s) \/ Resolve(s)
  \/ \E s \in Chargers, a \in Actions : Request(s, a)

Spec == Init /\ [][Next]_vars
=============================================================================
