----------------------------- MODULE TaskContract -----------------------------
(***************************************************************************)
(* What the test harness promises Maestro about a task that it sends: the  *)
(* agent works on it once at most, Maestro is told of work only after the  *)
(* agent has been set to it, and of the task's end once, as the last thing *)
(* that it hears about it.  A task can also fail without any work.         *)
(***************************************************************************)
EXTENDS Sequences

CONSTANTS
  Tasks,
  Kinds,      \* what Maestro can be told
  Terminals   \* those of them that end a task

VARIABLES
  stage,      \* of each task: "unknown", "sent" or "over"
  worked,     \* the tasks the agent has been set to work on
  told        \* what Maestro has been told about each task, in order

Init ==
  /\ stage = [t \in Tasks |-> "unknown"]
  /\ worked = {}
  /\ told = [t \in Tasks |-> <<>>]

Send(t) ==
  /\ stage[t] = "unknown"
  /\ stage' = [stage EXCEPT ![t] = "sent"]
  /\ UNCHANGED <<worked, told>>

\* The network may be so slow that the task is over by now.
Work(t) ==
  /\ stage[t] # "unknown"
  /\ t \notin worked
  /\ worked' = worked \cup {t}
  /\ UNCHANGED <<stage, told>>

\* Only a failure can be told of a task that nobody has worked on.
Tell(t, kind) ==
  /\ stage[t] = "sent"
  /\ kind = "failed" \/ t \in worked
  /\ told' = [told EXCEPT ![t] = Append(@, kind)]
  /\ stage' = IF kind \in Terminals THEN [stage EXCEPT ![t] = "over"] ELSE stage
  /\ UNCHANGED worked

Next == \E t \in Tasks : Send(t) \/ Work(t) \/ \E kind \in Kinds : Tell(t, kind)

Spec == Init /\ [][Next]_<<stage, worked, told>>
=============================================================================
