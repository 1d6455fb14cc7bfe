------------------------------ MODULE Middleware ------------------------------
(***************************************************************************)
(* composeMiddleware() of middleware.ts: the middleware functions of a     *)
(* runtime as layers around the router, for any number of dispatches at a  *)
(* time.  What a middleware function does is its own affair: it may call   *)
(* next() at once, later, again, after it has returned, or never, and      *)
(* answer with the reply of the layer below or with one of its own.        *)
(***************************************************************************)
EXTENDS Integers

CONSTANTS
  Dispatches,  \* calls of the composed function
  Layers       \* the number of middleware functions

ASSUME MiddlewareAssumption == Layers \in Nat

VARIABLES
  index,    \* the variable of that name of each dispatch
  step,     \* the promise of each step that was entered
  source,   \* the step whose reply a step has resolved with
  entered   \* history: how often each step was entered

mwVars == <<index, step, source, entered>>

Core  == Layers  \* the step of the router and the role's handler
Steps == 0..Layers

MwTypeOK ==
  /\ index \in [Dispatches -> -1..Layers]
  /\ step \in [Dispatches -> [Steps -> {"idle", "running", "resolved", "rejected"}]]
  /\ source \in [Dispatches -> [Steps -> Steps]]
  /\ entered \in [Dispatches -> [Steps -> Nat]]

MwInit ==
  /\ index = [d \in Dispatches |-> -1]
  /\ step = [d \in Dispatches |-> [i \in Steps |-> "idle"]]
  /\ source = [d \in Dispatches |-> [i \in Steps |-> i]]
  /\ entered = [d \in Dispatches |-> [i \in Steps |-> 0]]

-----------------------------------------------------------------------------
\* Mutant: a step does not look whether it was entered before.
EnterAgain(d, i) ==
  /\ index' = [index EXCEPT ![d] = i]
  /\ step' = [step EXCEPT ![d][i] = "running"]
  /\ entered' = [entered EXCEPT ![d][i] = @ + 1]
  /\ UNCHANGED source

\* step(i); one that is entered already gives the caller a rejected promise
\* and changes nothing.
Enter(d, i) ==
  /\ i > index[d]
  /\ index' = [index EXCEPT ![d] = i]
  /\ step' = [step EXCEPT ![d][i] = "running"]
  /\ entered' = [entered EXCEPT ![d][i] = @ + 1]
  /\ UNCHANGED source

\* Layer i calls next(), while it runs or with a next it has kept.
CallNext(d, i) ==
  /\ i < Core
  /\ step[d][i] # "idle"
  /\ Enter(d, i + 1)

Settles(d, i, how, from) ==
  /\ step[d][i] = "running"
  /\ step' = [step EXCEPT ![d][i] = how]
  /\ source' = [source EXCEPT ![d][i] = from]
  /\ UNCHANGED <<index, entered>>

\* A layer, or the handler, answers by itself ...
Answers(d, i) == Settles(d, i, "resolved", i)

\* Mutant: the layer above passes on whatever the steps below have by now.
PassesOnEarly(d, i) ==
  /\ i < Core
  /\ step[d][i + 1] # "idle"
  /\ Settles(d, i, "resolved", source[d][i + 1])

\* ... or with what next() has given it ...
PassesOn(d, i) ==
  /\ i < Core
  /\ step[d][i + 1] = "resolved"
  /\ Settles(d, i, "resolved", source[d][i + 1])

\* ... or throws.
Throws(d, i) == Settles(d, i, "rejected", i)

MwStep(d) ==
  \E i \in Steps : CallNext(d, i) \/ Answers(d, i) \/ PassesOn(d, i) \/ Throws(d, i)

-----------------------------------------------------------------------------
\* However often next() is called, and whenever, no middleware and no handler
\* runs twice in a dispatch, and none before every middleware above it has
\* let it.
StepsOnce ==
  \A d \in Dispatches : \A i \in Steps :
    /\ entered[d][i] <= 1
    /\ entered[d][i] = 1 => \A j \in 0..i : entered[d][j] = 1

\* A reply comes out through every middleware it went in by: the handler's
\* reply is never the answer of a dispatch that a middleware has refused.
ThroughEveryLayer ==
  \A d \in Dispatches : \A i \in Steps :
    step[d][i] = "resolved" =>
      \A j \in i..source[d][i] : step[d][j] = "resolved" /\ source[d][j] = source[d][i]
=============================================================================
