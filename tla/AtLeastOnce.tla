----------------------------- MODULE AtLeastOnce -----------------------------
(***************************************************************************)
(* What the job queue promises its clients, with no transactions, leases,  *)
(* clocks or worker identities: a task is attempted a bounded number of    *)
(* times, one attempt at a time has the right to speak for the task, and   *)
(* only that attempt may settle it.  Losing an attempt (a dead worker) is  *)
(* visible only in that its right passes to the next one.                  *)
(*                                                                         *)
(* JobQueue refines this module; see JobQueue!Promise.                     *)
(***************************************************************************)
EXTENDS Naturals

CONSTANTS Tasks,        \* what is to be done
          Budget        \* attempts a task gets each time it is opened

VARIABLES phase,        \* [Tasks -> {"absent", "open", "done", "dead"}]
          used,         \* attempts started since the task was last opened
          speaker       \* whether some attempt may settle the task

vars == <<phase, used, speaker>>

Init ==
  /\ phase = [t \in Tasks |-> "absent"]
  /\ used = [t \in Tasks |-> 0]
  /\ speaker = [t \in Tasks |-> FALSE]

Same(t) ==
  /\ phase'[t] = phase[t]
  /\ used'[t] = used[t]
  /\ speaker'[t] = speaker[t]

Submit(t) ==
  /\ phase[t] = "absent"
  /\ phase'[t] = "open" /\ used'[t] = 0 /\ speaker'[t] = FALSE

\* A new attempt takes the right to speak, from a lost one if there is one.
Start(t) ==
  /\ phase[t] = "open" /\ used[t] < Budget
  /\ phase'[t] = "open" /\ used'[t] = used[t] + 1 /\ speaker'[t] = TRUE

Succeed(t) ==
  /\ phase[t] = "open" /\ speaker[t]
  /\ phase'[t] = "done" /\ used'[t] = used[t] /\ speaker'[t] = FALSE

\* The speaking attempt fails, or is declared lost; the last one buries the task.
GiveUp(t) ==
  /\ phase[t] = "open" /\ speaker[t]
  /\ phase'[t] = IF used[t] = Budget THEN "dead" ELSE "open"
  /\ used'[t] = used[t] /\ speaker'[t] = FALSE

Reopen(t) ==
  /\ phase[t] = "dead"
  /\ phase'[t] = "open" /\ used'[t] = 0 /\ speaker'[t] = FALSE

TaskStep(t) ==
  Submit(t) \/ Start(t) \/ Succeed(t) \/ GiveUp(t) \/ Reopen(t)

(***************************************************************************)
(* One step of the implementation may move several tasks: a claim buries   *)
(* every exhausted task and starts another in one transaction.             *)
(***************************************************************************)
Next == \A t \in Tasks : TaskStep(t) \/ Same(t)

Spec == Init /\ [][Next]_vars
==============================================================================
