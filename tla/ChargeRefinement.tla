-------------------------- MODULE ChargeRefinement --------------------------
(* ChargeAction implements ChargeContract.                                 *)
EXTENDS ChargeAction

CallOf(s) == {c \in Calls : pc[c] # "idle" /\ Serial(c) = s}

PhaseOf(s) ==
  IF \E c \in CallOf(s) : InTx(c) THEN "issued"
  ELSE IF s \in pending THEN "requested" ELSE "free"

HolderOf == IF lock \in Calls THEN req[lock].serial ELSE lock

SentSet == {s \in Chargers : \E c \in CallOf(s) : InTx(c) /\ tx[c].sent}

AskedSet == {<<Serial(c), Action(c)>> : c \in {d \in Calls : pc[d] # "idle"}}

\* The charger is reachable and reports, its state allows the action, and the
\* command has a way to it.
Admits(s, a) ==
  /\ s \in directUp /\ hbAge[s] <= Fresh /\ Allowed(a, status[s])
  /\ shutdown = "running" /\ s \in described /\ parentUp
OpenSet == {r \in Chargers \X Actions : Admits(r[1], r[2])}

Contract == INSTANCE ChargeContract WITH
  phase <- [s \in Chargers |-> PhaseOf(s)], sent <- SentSet,
  holder <- HolderOf, verdict <- record, asked <- AskedSet, open <- OpenSet,
  Nobody <- NoCall, Other <- OtherTx

\* Every run of the charge code, seen as who asked for what, what was
\* published and how it ended, is one the contract allows: presses, lock,
\* waiter, diagnostics and marker of _async_set_charging stay consistent on
\* every path, a command is issued only in a situation that admits it after the
\* wait for the lock, and a second publish or an unpublished success never happens.
ImplementsContract == Contract!Spec
=============================================================================
