---------------------------- MODULE DraftContract ----------------------------
(***************************************************************************)
(* What staging promises of the stored drafts: they change only by laying  *)
(* a whole request, at most once, or the usable part of a report over what *)
(* was stored, and nobody's drafts are half there or lost by a restart.    *)
(* The promise rests while the store is unsure: after a save was cancelled *)
(* or could not be loaded, until the next save.                            *)
(***************************************************************************)
CONSTANTS Calls, Fields, Absent,
  Drafts,    \* what a user may ask for
  Reported   \* the usable parts of the reports

VARIABLES stage,   \* "free", "asked" or "saved", per call
          wants,   \* the draft each call in progress asks for, anything for a free one
          stored,  \* the drafts a restart would load
          sure     \* no cancelled save and no failed load since the last save

vars == <<stage, wants, stored, sure>>

Nothing == [f \in Fields |-> Absent]
Under(old, new) == [f \in Fields |-> IF new[f] = Absent THEN old[f] ELSE new[f]]

Init ==
  /\ stage = [c \in Calls |-> "free"]
  /\ stored = Nothing /\ sure = TRUE

Others(c) == \A d \in Calls \ {c} : wants'[d] = wants[d]

Ask(c) ==
  /\ stage[c] = "free" /\ stage' = [stage EXCEPT ![c] = "asked"]
  /\ Others(c) /\ UNCHANGED <<stored, sure>>

\* An activation decides what it stages when its turn comes.
Decide(c) ==
  /\ stage[c] = "asked" /\ wants[c] = Nothing
  /\ Others(c) /\ UNCHANGED <<stage, stored, sure>>

Save(c) ==
  /\ sure /\ stage[c] = "asked" /\ wants[c] \in Drafts
  /\ stored' = Under(stored, wants[c])
  /\ stage' = [stage EXCEPT ![c] = "saved"]
  /\ UNCHANGED <<wants, sure>>

SaveReport(d) ==
  /\ sure /\ stored' = Under(stored, d)
  /\ UNCHANGED <<stage, wants, sure>>

Return(c) ==
  /\ stage[c] # "free" /\ stage' = [stage EXCEPT ![c] = "free"]
  /\ Others(c) /\ UNCHANGED <<stored, sure>>

CancelSave(c) ==
  /\ stage[c] = "asked" /\ stage' = [stage EXCEPT ![c] = "free"]
  /\ sure' = FALSE
  /\ Others(c) /\ UNCHANGED stored

\* Whatever a save or a forgotten write puts there is still a draft.
SaveUnsure ==
  /\ ~sure /\ stored' \in Drafts /\ sure' \in BOOLEAN
  /\ \/ UNCHANGED stage
     \/ \E c \in Calls : stage[c] = "asked" /\ stage' = [stage EXCEPT ![c] = "saved"]
  /\ UNCHANGED wants

Restart ==
  /\ stage' = [c \in Calls |-> "free"]
  /\ sure' \in BOOLEAN
  /\ UNCHANGED stored

Next ==
  \/ \E c \in Calls : Ask(c) \/ Decide(c) \/ Save(c) \/ Return(c) \/ CancelSave(c)
  \/ \E d \in Reported : SaveReport(d)
  \/ SaveUnsure \/ Restart

Spec == Init /\ [][Next]_vars
=============================================================================
