---------------------------- MODULE TaskLifecycle ----------------------------
(***************************************************************************)
(* What the task queue promises about a task, without rows, leases, files  *)
(* or restarts: it waits, is worked on at most Limit times, possibly by a  *)
(* worker that takes over from another, and once settled stays settled and *)
(* is not worked on again.  A task that waits has an attempt left.         *)
(* Several tasks may move in one step: a cancellation settles every task   *)
(* of a document, and a restart recovers all tasks at once.                *)
(***************************************************************************)
EXTENDS Naturals

CONSTANTS Tasks, Limit

VARIABLES phase, attempts

lifecycleVars == <<phase, attempts>>

Phase == {"absent", "waiting", "working", "settled"}

Init ==
    /\ phase = [t \in Tasks |-> "absent"]
    /\ attempts = [t \in Tasks |-> 0]

Queue(t) == phase[t] = "absent" /\ phase'[t] = "waiting" /\ attempts'[t] = attempts[t]

Begin(t) ==
    /\ phase[t] \in {"waiting", "working"}
    /\ attempts[t] < Limit
    /\ phase'[t] = "working"
    /\ attempts'[t] = attempts[t] + 1

GiveBack(t) ==
    /\ phase[t] = "working"
    /\ attempts[t] < Limit
    /\ phase'[t] = "waiting"
    /\ attempts'[t] = attempts[t]

Settle(t) == phase'[t] = "settled" /\ attempts'[t] = attempts[t]

Stay(t) == phase'[t] = phase[t] /\ attempts'[t] = attempts[t]

Next ==
    /\ phase' \in [Tasks -> Phase]
    /\ attempts' \in [Tasks -> Nat]
    /\ \A t \in Tasks :
          Queue(t) \/ Begin(t) \/ GiveBack(t) \/ Settle(t) \/ Stay(t)

Spec == Init /\ [][Next]_lifecycleVars

=============================================================================
