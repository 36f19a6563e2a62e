---------------------------- MODULE WriteContract ----------------------------
(***************************************************************************)
(* What a flag write promises its caller: one control transaction at a     *)
(* time, its command published at most once, and a change reported only    *)
(* for a command that was published and answered (a write that finds       *)
(* nothing to do leaves without one).  What was promised of a flag is      *)
(* forgotten only when somebody asks for a value of it again.              *)
(***************************************************************************)
CONSTANTS Calls, Flags, Nobody, Other

VARIABLES stage,      \* "free", "asked" or "issued", per call
          wants,      \* the flag and the value each call in progress asks for,
                      \* anything for a free one
          published,  \* the issued command left for the charger
          answered,   \* a reply to it came
          holder,     \* the call, or the other transaction, that controls
          promised    \* what the newest success of each flag said it is

vars == <<stage, wants, published, answered, holder, promised>>

Init ==
  /\ stage = [c \in Calls |-> "free"]
  /\ published = FALSE /\ answered = FALSE /\ holder = Nobody
  /\ promised = [f \in Flags |-> "unknown"]

Ask(c) ==
  /\ stage[c] = "free"
  /\ stage' = [stage EXCEPT ![c] = "asked"]
  /\ \E f \in Flags, v \in BOOLEAN :
       /\ wants' = [wants EXCEPT ![c] = [flag |-> f, on |-> v]]
       /\ promised' = [promised EXCEPT ![f] = "unknown"]
  /\ UNCHANGED <<published, answered, holder>>

Forget(c) ==
  /\ stage' = [stage EXCEPT ![c] = "free"]
  /\ \A d \in Calls \ {c} : wants'[d] = wants[d]

Leave(c) ==
  /\ stage[c] = "asked" /\ Forget(c)
  /\ UNCHANGED <<published, answered, holder, promised>>

Issue(c) ==
  /\ stage[c] = "asked" /\ holder = Nobody
  /\ stage' = [stage EXCEPT ![c] = "issued"]
  /\ holder' = c
  /\ UNCHANGED <<wants, published, answered, promised>>

Publish ==
  /\ holder \in Calls /\ ~published /\ published' = TRUE
  /\ UNCHANGED <<stage, wants, answered, holder, promised>>

Answer ==
  /\ holder \in Calls /\ ~answered /\ answered' = TRUE
  /\ UNCHANGED <<stage, wants, published, holder, promised>>

Resolve(c) ==
  /\ holder = c /\ holder' = Nobody
  /\ Forget(c)
  /\ published' = FALSE /\ answered' = FALSE
  /\ \/ promised' = promised
     \/ /\ published /\ answered
        /\ promised' = [promised EXCEPT ![wants[c].flag] = IF wants[c].on THEN "on" ELSE "off"]

OtherTakes ==
  /\ holder = Nobody /\ holder' = Other
  /\ UNCHANGED <<stage, wants, published, answered, promised>>
OtherLeaves ==
  /\ holder = Other /\ holder' = Nobody
  /\ UNCHANGED <<stage, wants, published, answered, promised>>

\* The user changes a flag in the app.
ChangedElsewhere(f) ==
  /\ promised' = [promised EXCEPT ![f] = "unknown"]
  /\ UNCHANGED <<stage, wants, published, answered, holder>>

Next ==
  \/ \E c \in Calls : Ask(c) \/ Leave(c) \/ Issue(c) \/ Resolve(c)
  \/ Publish \/ Answer \/ OtherTakes \/ OtherLeaves
  \/ \E f \in Flags : ChangedElsewhere(f)

Spec == Init /\ [][Next]_vars
=============================================================================
