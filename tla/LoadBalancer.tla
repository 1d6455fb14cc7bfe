---------------------------- MODULE LoadBalancer ----------------------------
(***************************************************************************)
(* sendToCapability of src/core/runtime.ts and the LoadBalancer it asks.   *)
(* The roles here are those that advertise one capability; they come and   *)
(* go while calls are under way.  The send itself is module Runtime: here  *)
(* it is open from recordStart to recordEnd.                               *)
(***************************************************************************)
EXTENDS Integers, FiniteSets, Sequences, SequencesExt

CONSTANTS
  Roles,  \* names of roles that advertise the capability
  Calls,  \* calls of sendToCapability
  NoRole  \* no role has been chosen

ASSUME BalancerAssumption == IsFiniteSet(Roles) /\ NoRole \notin Roles

VARIABLES
  order,     \* the registered roles, in the order of the registry's Map
  rr,        \* rrCounters, by the set of the candidates' names
  active,    \* activeCounts
  call,      \* how far each call is
  chosen,    \* the role it was sent to
  failed,    \* calls that found no capable role (packetsFailed)
  share      \* round-robin picks of each role since the registry last changed

vars == <<order, rr, active, call, chosen, failed, share>>

Strategies == {"round-robin", "least-loaded"}

Candidates == ToSet(order)

TypeOK ==
  /\ order \in Seq(Roles) /\ Len(order) = Cardinality(Candidates)
  /\ rr \in [SUBSET Roles -> Int]
  /\ active \in [Roles -> Nat]
  /\ call \in [Calls -> {"idle", "open", "done", "refused"}]
  /\ chosen \in [Calls -> Roles \cup {NoRole}]
  /\ failed \in Nat
  /\ share \in [Roles -> Nat]

Init ==
  /\ order = <<>>
  /\ rr = [S \in SUBSET Roles |-> -1]
  /\ active = [r \in Roles |-> 0]
  /\ call = [c \in Calls |-> "idle"]
  /\ chosen = [c \in Calls |-> NoRole]
  /\ failed = 0
  /\ share = [r \in Roles |-> 0]

-----------------------------------------------------------------------------
\* A Map lists its keys in the order in which they were set.

RegisterRole(r) ==
  /\ r \notin Candidates
  /\ order' = Append(order, r)
  /\ share' = [q \in Roles |-> 0]
  /\ UNCHANGED <<rr, active, call, chosen, failed>>

UnregisterRole(r) ==
  /\ \E i \in DOMAIN order : order[i] = r /\ order' = RemoveAt(order, i)
  /\ share' = [q \in Roles |-> 0]
  /\ UNCHANGED <<rr, active, call, chosen, failed>>

\* Mutant: the counter wraps one candidate too late.
NextTurnLate == IF rr[Candidates] + 1 > Len(order) - 1 THEN Len(order) - 1 ELSE rr[Candidates] + 1

\* pickRoundRobin(): the index after the last one chosen among these names.
NextTurn == (rr[Candidates] + 1) % Len(order)

\* pickLeastLoaded(): the first of the candidates with the fewest requests.
LeastLoaded ==
  LET Load(i) == active[order[i]]
  IN  CHOOSE i \in DOMAIN order :
        \A k \in DOMAIN order : Load(i) < Load(k) \/ (Load(i) = Load(k) /\ i <= k)

\* pick(): a single candidate is taken without either strategy.
Pick(strategy) ==
  CASE Len(order) = 1 -> 1
    [] Len(order) > 1 /\ strategy = "round-robin" -> NextTurn + 1
    [] OTHER -> LeastLoaded

\* sendToCapability() up to send(): the pick and recordStart().
Start(c, strategy) ==
  LET rotates == strategy = "round-robin" /\ Len(order) > 1
      r == order[Pick(strategy)]
  IN  /\ call[c] = "idle"
      /\ order # <<>>
      /\ call' = [call EXCEPT ![c] = "open"]
      /\ chosen' = [chosen EXCEPT ![c] = r]
      /\ active' = [active EXCEPT ![r] = @ + 1]
      /\ rr' = IF rotates THEN [rr EXCEPT ![Candidates] = NextTurn] ELSE rr
      /\ share' = IF rotates THEN [share EXCEPT ![r] = @ + 1] ELSE share
      /\ UNCHANGED <<order, failed>>

\* No registered role has the capability.
Refuse(c) ==
  /\ call[c] = "idle"
  /\ order = <<>>
  /\ call' = [call EXCEPT ![c] = "refused"]
  /\ failed' = failed + 1
  /\ UNCHANGED <<order, rr, active, chosen, share>>

\* Mutant: a role that has been unregistered meanwhile is not counted down.
EndSkipsGone(c) ==
  /\ call[c] = "open"
  /\ call' = [call EXCEPT ![c] = "done"]
  /\ active' = IF chosen[c] \in Candidates THEN [active EXCEPT ![chosen[c]] = @ - 1] ELSE active
  /\ UNCHANGED <<order, rr, chosen, failed, share>>

\* The finally block: recordEnd(), which stops at zero.
End(c) ==
  /\ call[c] = "open"
  /\ call' = [call EXCEPT ![c] = "done"]
  /\ active' = [active EXCEPT ![chosen[c]] = IF @ > 0 THEN @ - 1 ELSE @]
  /\ UNCHANGED <<order, rr, chosen, failed, share>>

Next ==
  \/ \E r \in Roles : RegisterRole(r) \/ UnregisterRole(r)
  \/ \E c \in Calls : (\E strategy \in Strategies : Start(c, strategy)) \/ Refuse(c) \/ End(c)

Spec == Init /\ [][Next]_vars

-----------------------------------------------------------------------------
(***************************************************************************)
(* Properties                                                              *)
(***************************************************************************)

Open(r) == {c \in Calls : call[c] = "open" /\ chosen[c] = r}

\* activeCounts is the number of open calls of every role, also of one that
\* has been unregistered, or registered anew, since they were sent.
ActiveIsOpen == \A r \in Roles : active[r] = Cardinality(Open(r))

\* While the registry does not change, round-robin gives every candidate the
\* same number of calls, give or take one, from whatever point it starts.
EvenTurns ==
  \A r, q \in Candidates : share[r] - share[q] <= 1

-----------------------------------------------------------------------------
(***************************************************************************)
(* The inductive invariant of the proofs in LoadBalancerProofs.            *)
(***************************************************************************)

\* A name is registered once.
OneEach == \A i, k \in DOMAIN order : order[i] = order[k] => i = k

\* A counter names a place among the candidates it was kept for.
TurnsInRange == \A S \in SUBSET Roles : rr[S] \in -1..(Cardinality(S) - 1)

\* An open call has been sent to a role; only finitely many are open.
OpenInv ==
  /\ \A c \in Calls : call[c] = "open" => chosen[c] \in Roles
  /\ \A r \in Roles : IsFiniteSet(Open(r))

\* The place after place i of n, from 0 on, and how far i lies behind first.
After(i, n) == IF i + 1 >= n THEN 0 ELSE i + 1
Behind(i, first, n) == IF i >= first THEN i - first ELSE i - first + n

\* Since the registry changed, the candidates have had their turns in their
\* order from place `first` on: the one before it has had the fewest, those the
\* counter has passed since then one more.
TurnsFrom(first) ==
  LET n      == Len(order)
      passed == Behind(After(rr[Candidates], n), first, n)
      rounds == share[order[IF first = 0 THEN n ELSE first]]
  IN  \A i \in 0..(n - 1) :
        share[order[i + 1]] = rounds + (IF Behind(i, first, n) < passed THEN 1 ELSE 0)

Rotation == order # <<>> => \E first \in 0..(Len(order) - 1) : TurnsFrom(first)

IInv == /\ TypeOK
        /\ OneEach
        /\ TurnsInRange
        /\ OpenInv
        /\ ActiveIsOpen
        /\ Rotation
=============================================================================
