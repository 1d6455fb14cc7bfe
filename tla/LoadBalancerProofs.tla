------------------------- MODULE LoadBalancerProofs -------------------------
(***************************************************************************)
(* Theorems about LoadBalancer, for any number of roles and calls: the     *)
(* load of a role is the number of its open calls, and turns are even.     *)
(***************************************************************************)
EXTENDS LoadBalancer, FiniteSetTheorems, WellFoundedInduction, TLAPS

\* What the registry's order is, as the provers need it.
LEMMA OrderFacts ==
  ASSUME TypeOK
  PROVE  /\ order \in Seq(Roles) /\ Len(order) \in Nat /\ DOMAIN order = 1..Len(order)
         /\ order # <<>> <=> Len(order) > 0
         /\ \A i \in 1..Len(order) : order[i] \in Roles
         /\ Candidates = {order[i] : i \in 1..Len(order)}
         /\ Candidates \in SUBSET Roles
<1>1. order \in Seq(Roles)
  BY DEF TypeOK
<1>2. /\ Len(order) \in Nat /\ DOMAIN order = 1..Len(order)
      /\ order # <<>> <=> Len(order) > 0
      /\ \A i \in 1..Len(order) : order[i] \in Roles
  BY <1>1
<1>3. Candidates = {order[i] : i \in 1..Len(order)}
  BY <1>2 DEF Candidates, ToSet
<1>4. QED
  BY <1>1, <1>2, <1>3

\* A sequence without repetitions has as many elements as places.
LEMMA NoRepetition ==
  ASSUME NEW s \in Seq(Roles), \A i, k \in 1..Len(s) : s[i] = s[k] => i = k
  PROVE  Len(s) = Cardinality({s[i] : i \in 1..Len(s)})
<1> DEFINE T == {s[i] : i \in 1..Len(s)}
           f == [i \in 1..Len(s) |-> s[i]]
<1>1. Len(s) \in Nat
  OBVIOUS
<1>2. IsFiniteSet(1..Len(s)) /\ Cardinality(1..Len(s)) = Len(s)
  <2> DEFINE n == Len(s)
  <2> HIDE DEF n
  <2>1. n \in Nat
    BY <1>1 DEF n
  <2>2. IsFiniteSet(1..n) /\ Cardinality(1..n) = IF 1 > n THEN 0 ELSE n - 1 + 1
    BY <2>1, FS_Interval
  <2>3. Cardinality(1..n) = n
    BY <2>1, <2>2
  <2>4. QED
    BY <2>2, <2>3 DEF n
<1>3. f \in Bijection(1..Len(s), T)
  BY DEF Bijection, Injection, Surjection, IsInjective
<1>4. QED
  BY <1>2, <1>3, FS_Bijection DEF ExistsBijection

-----------------------------------------------------------------------------
\* pick() finds a candidate.

\* The next turn is the place after the last one, or the first.
LEMMA NextTurnIsAfter ==
  ASSUME TypeOK, TurnsInRange, Len(order) > 0
  PROVE  /\ rr[Candidates] \in -1..(Len(order) - 1)
         /\ NextTurn = After(rr[Candidates], Len(order))
         /\ NextTurn \in 0..(Len(order) - 1)
<1>1. /\ Len(order) \in Nat
      /\ rr[Candidates] \in -1..(Len(order) - 1)
  BY OrderFacts DEF TurnsInRange, TypeOK
<1>2. \A n \in Nat \ {0} : \A i \in 0..n : i % n = IF i >= n THEN 0 ELSE i
  OBVIOUS
<1>3. NextTurn = After(rr[Candidates], Len(order))
  <2> DEFINE n == Len(order)
             i == rr[Candidates] + 1
  <2>1. n \in Nat \ {0} /\ i \in 0..n
    BY <1>1
  <2> HIDE DEF n, i
  <2>2. i % n = IF i >= n THEN 0 ELSE i
    BY <1>2, <2>1
  <2>3. QED
    BY <2>2 DEF NextTurn, After, n, i
<1>4. QED
  BY <1>1, <1>3 DEF After

\* Some place holds a least load: the smallest of them, and of its places the first.
LEMMA LeastLoadedExists ==
  ASSUME TypeOK, order # <<>>
  PROVE  LeastLoaded \in 1..Len(order)
<1> DEFINE n == Len(order)
           Load(i) == active[order[i]]
<1>1. /\ n \in Nat /\ n > 0 /\ DOMAIN order = 1..n
      /\ \A i \in 1..n : Load(i) \in Nat
  BY OrderFacts DEF TypeOK
<1>2. ASSUME NEW T \in SUBSET Nat, T # {}
      PROVE  \E x \in T : \A y \in T : x <= y
  <2> DEFINE R == {ss \in Nat \X Nat : ss[1] < ss[2]}
  <2>1. IsWellFoundedOn(R, Nat)
    BY NatLessThanWellFounded DEF OpToRel
  <2> HIDE DEF R
  <2>2. PICK x \in T : \A y \in T : ~(<<y, x>> \in R)
    BY <1>2, <2>1, WFMin
  <2>3. \A y \in T : ~(y < x)
    BY <2>2 DEF R
  <2>4. QED
    BY <2>3
<1> DEFINE L == {Load(i) : i \in 1..n}
<1>3. PICK m \in L : \A y \in L : m <= y
  <2>1. L \in SUBSET Nat
    BY <1>1
  <2>2. Load(1) \in L
    BY <1>1
  <2>3. QED
    BY <1>2, <2>1, <2>2
<1> DEFINE F == {i \in 1..n : Load(i) = m}
<1>4. PICK f \in F : \A y \in F : f <= y
  <2>1. F \in SUBSET Nat /\ F # {}
    BY <1>3
  <2>2. QED
    BY <1>2, <2>1
<1>5. f \in 1..n /\ \A k \in 1..n : Load(f) < Load(k) \/ (Load(f) = Load(k) /\ f <= k)
  BY <1>1, <1>3, <1>4
<1>6. QED
  BY <1>1, <1>5 DEF LeastLoaded

LEMMA PickIsPlace ==
  ASSUME TypeOK, TurnsInRange, order # <<>>, NEW strategy
  PROVE  Pick(strategy) \in 1..Len(order)
<1>1. Len(order) \in Nat /\ Len(order) > 0
  BY OrderFacts
<1>2. QED
  BY <1>1, NextTurnIsAfter, LeastLoadedExists DEF Pick

-----------------------------------------------------------------------------
\* The registry.

LEMMA Concatenation ==
  ASSUME NEW a \in Seq(Roles), NEW b \in Seq(Roles)
  PROVE  /\ a \o b \in Seq(Roles) /\ Len(a \o b) = Len(a) + Len(b)
         /\ \A k \in 1..(Len(a) + Len(b)) : (a \o b)[k] = IF k <= Len(a) THEN a[k] ELSE b[k - Len(a)]
  OBVIOUS

LEMMA RemovedAt ==
  ASSUME NEW s \in Seq(Roles), NEW i \in 1..Len(s)
  PROVE  /\ RemoveAt(s, i) \in Seq(Roles)
         /\ Len(RemoveAt(s, i)) = Len(s) - 1
         /\ \A k \in 1..(Len(s) - 1) : RemoveAt(s, i)[k] = IF k < i THEN s[k] ELSE s[k + 1]
<1> DEFINE a == SubSeq(s, 1, i - 1)
           b == SubSeq(s, i + 1, Len(s))
<1>1. Len(s) \in Nat /\ i \in Nat /\ \A k \in 1..Len(s) : s[k] \in Roles
  OBVIOUS
<1>2. a \in Seq(Roles) /\ Len(a) = i - 1 /\ \A k \in 1..(i - 1) : a[k] = s[k]
  BY <1>1
<1>3. b \in Seq(Roles) /\ Len(b) = Len(s) - i /\ \A k \in 1..(Len(s) - i) : b[k] = s[i + k]
  BY <1>1
<1> HIDE DEF a, b
<1>4. /\ a \o b \in Seq(Roles) /\ Len(a \o b) = Len(s) - 1
      /\ \A k \in 1..(Len(s) - 1) : (a \o b)[k] = IF k < i THEN a[k] ELSE b[k - (i - 1)]
  <2>1. /\ a \o b \in Seq(Roles) /\ Len(a \o b) = Len(a) + Len(b)
        /\ \A k \in 1..(Len(a) + Len(b)) : (a \o b)[k] = IF k <= Len(a) THEN a[k] ELSE b[k - Len(a)]
    BY <1>2, <1>3, Concatenation
  <2>2. /\ Len(a) + Len(b) = Len(s) - 1
        /\ \A k \in 1..(Len(s) - 1) : k <= Len(a) <=> k < i
    BY <1>1, <1>2, <1>3
  <2>3. Len(a) = i - 1
    BY <1>2
  <2>4. QED
    BY <2>1, <2>2, <2>3
<1>5. \A k \in 1..(Len(s) - 1) : (a \o b)[k] = IF k < i THEN s[k] ELSE s[k + 1]
  <2> SUFFICES ASSUME NEW k \in 1..(Len(s) - 1)
               PROVE  (a \o b)[k] = IF k < i THEN s[k] ELSE s[k + 1]
    OBVIOUS
  <2>1. CASE k < i
    BY <1>1, <1>2, <1>4, <2>1
  <2>2. CASE ~(k < i)
    <3>1. k - (i - 1) \in 1..(Len(s) - i) /\ i + (k - (i - 1)) = k + 1
      BY <1>1, <2>2
    <3>2. b[k - (i - 1)] = s[i + (k - (i - 1))]
      BY <1>3, <3>1
    <3>3. QED
      BY <1>4, <2>2, <3>1, <3>2
  <2>3. QED
    BY <2>1, <2>2
<1>6. QED
  BY <1>4, <1>5 DEF RemoveAt, a, b

\* The registry changes: everybody starts again, from where the counter kept
\* for the new candidates stands.
Changes ==
  /\ order' \in Seq(Roles)
  /\ \A i, k \in 1..Len(order') : order'[i] = order'[k] => i = k
  /\ share' = [q \in Roles |-> 0]
  /\ UNCHANGED <<rr, active, call, chosen, failed>>

LEMMA RegistryChanges ==
  ASSUME TypeOK, OneEach, NEW r \in Roles, RegisterRole(r) \/ UnregisterRole(r)
  PROVE  Changes
<1>1. order \in Seq(Roles) /\ Len(order) \in Nat /\ DOMAIN order = 1..Len(order)
  BY OrderFacts
<1>2. \A i, k \in 1..Len(order) : order[i] = order[k] => i = k
  BY <1>1 DEF OneEach
<1>3. CASE RegisterRole(r)
  <2>1. order' = Append(order, r) /\ \A i \in 1..Len(order) : order[i] # r
    BY <1>3, OrderFacts DEF RegisterRole
  <2>2. /\ order' \in Seq(Roles) /\ Len(order') = Len(order) + 1
        /\ \A i \in 1..Len(order) : order'[i] = order[i]
        /\ order'[Len(order) + 1] = r
    BY <1>1, <2>1
  <2>3. \A i, k \in 1..Len(order') : order'[i] = order'[k] => i = k
    BY <1>1, <1>2, <2>1, <2>2
  <2>4. QED
    BY <1>3, <2>2, <2>3 DEF RegisterRole, Changes
<1>4. CASE UnregisterRole(r)
  <2>1. PICK i \in 1..Len(order) : order' = RemoveAt(order, i)
    BY <1>1, <1>4 DEF UnregisterRole
  <2>2. /\ order' \in Seq(Roles) /\ Len(order') = Len(order) - 1
        /\ \A k \in 1..(Len(order) - 1) : order'[k] = IF k < i THEN order[k] ELSE order[k + 1]
    BY <1>1, <2>1, RemovedAt
  <2>3. \A j, k \in 1..Len(order') : order'[j] = order'[k] => j = k
    <3> SUFFICES ASSUME NEW j \in 1..Len(order'), NEW k \in 1..Len(order'), order'[j] = order'[k]
                 PROVE  j = k
      OBVIOUS
    <3> DEFINE x == IF j < i THEN j ELSE j + 1
               y == IF k < i THEN k ELSE k + 1
    <3>1. x \in 1..Len(order) /\ y \in 1..Len(order)
      BY <1>1, <2>2
    <3>2. order'[j] = order[x] /\ order'[k] = order[y]
      BY <1>1, <2>2
    <3>3. x = y
      BY <1>2, <3>1, <3>2
    <3>4. QED
      BY <1>1, <2>2, <3>3
  <2>4. QED
    BY <1>4, <2>2, <2>3 DEF UnregisterRole, Changes
<1>5. QED
  BY <1>3, <1>4

LEMMA ChangesKeep ==
  ASSUME IInv, Changes
  PROVE  IInv'
<1> USE DEF IInv
<1> DEFINE n == Len(order')
<1>1. /\ n \in Nat /\ DOMAIN order' = 1..n
      /\ order' # <<>> => n > 0
      /\ \A i \in 1..n : order'[i] \in Roles
  BY DEF Changes
<1>2. Candidates' = {order'[i] : i \in 1..n}
  BY <1>1 DEF Candidates, ToSet
<1>3. Candidates' \in SUBSET Roles /\ Cardinality(Candidates') = n
  BY <1>1, <1>2, NoRepetition DEF Changes
<1>4. TypeOK'
  BY <1>3 DEF TypeOK, Changes
<1>5. OneEach'
  BY <1>1 DEF OneEach, Changes
<1>6. TurnsInRange' /\ OpenInv' /\ ActiveIsOpen'
  <2>1. \A r \in Roles : Open(r)' = Open(r)
    BY DEF Changes, Open
  <2>2. QED
    BY <2>1 DEF Changes, TurnsInRange, OpenInv, ActiveIsOpen
<1>7. Rotation'
  <2> SUFFICES ASSUME order' # <<>>
               PROVE  \E first \in 0..(n - 1) : TurnsFrom(first)'
    BY DEF Rotation
  <2>1. n > 0 /\ rr[Candidates'] \in -1..(n - 1) /\ rr' = rr
    BY <1>1, <1>3 DEF TurnsInRange, Changes
  <2>2. PICK first \in 0..(n - 1) : first = After(rr'[Candidates'], n)
    BY <1>1, <2>1 DEF After
  <2>3. \A i \in 0..(n - 1) : Behind(first, first, n) = 0 /\ ~(Behind(i, first, n) < 0)
    BY <1>1, <2>2 DEF Behind
  <2>4. \A i \in 1..n : share'[order'[i]] = 0
    BY <1>1 DEF Changes
  <2>5. (IF first = 0 THEN n ELSE first) \in 1..n
    BY <1>1, <2>1, <2>2
  <2>6. \A i \in 0..(n - 1) : i + 1 \in 1..n
    BY <1>1
  <2>7. TurnsFrom(first)'
    <3>1. TurnsFrom(first)' <=>
            \A i \in 0..(n - 1) :
              share'[order'[i + 1]] =
                share'[order'[IF first = 0 THEN n ELSE first]]
                  + (IF Behind(i, first, n) < Behind(After(rr'[Candidates'], n), first, n) THEN 1 ELSE 0)
      BY DEF TurnsFrom, Behind, After
    <3>2. QED
      BY <2>2, <2>3, <2>4, <2>5, <2>6, <3>1
  <2>8. QED
    BY <2>7
<1>8. QED
  BY <1>4, <1>5, <1>6, <1>7

-----------------------------------------------------------------------------
\* Round-robin.

\* Going on by one place goes on by one behind `first`, and back to it from the
\* place before it.
LEMMA Around ==
  ASSUME NEW n \in Nat \ {0}, NEW first \in 0..(n - 1), NEW t \in 0..(n - 1)
  PROVE  /\ Behind(t, first, n) \in 0..(n - 1)
         /\ \A i \in 0..(n - 1) : Behind(i, first, n) = Behind(t, first, n) => i = t
         /\ After(t, n) \in 0..(n - 1)
         /\ IF Behind(t, first, n) = n - 1
            THEN Behind(After(t, n), first, n) = 0 /\ t + 1 = (IF first = 0 THEN n ELSE first)
            ELSE Behind(After(t, n), first, n) = Behind(t, first, n) + 1
                   /\ t + 1 # (IF first = 0 THEN n ELSE first)
  BY DEF Behind, After

LEMMA TurnTaken ==
  ASSUME IInv, Len(order) > 0, order' = order,
         rr' = [rr EXCEPT ![Candidates] = NextTurn],
         share' = [share EXCEPT ![order[NextTurn + 1]] = @ + 1]
  PROVE  Rotation'
<1> USE DEF IInv
<1>0. PICK n \in Nat \ {0} : n = Len(order)
  <2>1. Len(order) \in Nat
    BY OrderFacts
  <2>2. Len(order) \in Nat \ {0}
    BY <2>1
  <2>3. QED
    BY <2>2
<1>1. /\ DOMAIN order = 1..n
      /\ \A i \in 1..n : order[i] \in Roles
      /\ Candidates \in SUBSET Roles /\ Candidates' = Candidates
      /\ order # <<>>
  BY <1>0, OrderFacts DEF Candidates
<1>2. PICK t \in 0..(n - 1) : t = NextTurn /\ t = After(rr[Candidates], n)
  BY <1>0, NextTurnIsAfter
<1>3. PICK first \in 0..(n - 1) : TurnsFrom(first)
  BY <1>0, <1>1 DEF Rotation
<1>4. PICK last \in 1..n : last = IF first = 0 THEN n ELSE first
  BY <1>3
<1>5. rr'[Candidates'] = t
  BY <1>1, <1>2 DEF TypeOK
<1>6. \A i \in 0..(n - 1) :
        /\ share[order[i + 1]] \in Nat
        /\ share'[order[i + 1]] = share[order[i + 1]] + (IF i = t THEN 1 ELSE 0)
  <2> SUFFICES ASSUME NEW i \in 0..(n - 1)
               PROVE  /\ share[order[i + 1]] \in Nat
                      /\ share'[order[i + 1]] = share[order[i + 1]] + (IF i = t THEN 1 ELSE 0)
    OBVIOUS
  <2>1. i + 1 \in 1..n /\ t + 1 \in 1..n /\ (i + 1 = t + 1 <=> i = t)
    BY <1>1
  <2>2. order[i + 1] \in Roles /\ order[t + 1] \in Roles
        /\ (order[i + 1] = order[t + 1] <=> i = t)
    BY <1>1, <2>1 DEF OneEach
  <2>3. share' = [share EXCEPT ![order[t + 1]] = @ + 1]
    BY <1>2
  <2>4. QED
    BY <2>2, <2>3 DEF TypeOK
<1>7. PICK passed \in 0..(n - 1) : passed = Behind(t, first, n)
  BY <1>2, <1>3, Around
<1>8. \A i \in 0..(n - 1) :
        share[order[i + 1]] = share[order[last]] + (IF Behind(i, first, n) < passed THEN 1 ELSE 0)
  BY <1>0, <1>2, <1>3, <1>4, <1>7 DEF TurnsFrom
<1>9. TurnsFrom(first)' <=>
        \A i \in 0..(n - 1) :
          share'[order[i + 1]] =
            share'[order[last]]
              + (IF Behind(i, first, n) < Behind(After(t, n), first, n) THEN 1 ELSE 0)
  <2>1. TurnsFrom(first)' <=>
          \A i \in 0..(Len(order') - 1) :
            share'[order'[i + 1]] =
              share'[order'[IF first = 0 THEN Len(order') ELSE first]]
                + (IF Behind(i, first, Len(order'))
                        < Behind(After(rr'[Candidates'], Len(order')), first, Len(order')) THEN 1 ELSE 0)
    BY DEF TurnsFrom, Behind, After
  <2>2. QED
    BY <1>0, <1>4, <1>5, <2>1
<1>10. /\ share[order[last]] \in Nat
      /\ share'[order[last]] = share[order[last]] + (IF last = t + 1 THEN 1 ELSE 0)
  <2>1. last - 1 \in 0..(n - 1) /\ (last - 1) + 1 = last
    BY <1>4
  <2>2. last - 1 = t <=> last = t + 1
    BY <2>1
  <2>3. QED
    BY <1>6, <2>1, <2>2
<1>11. \A i \in 0..(n - 1) : /\ Behind(i, first, n) \in 0..(n - 1)
                             /\ (Behind(i, first, n) = passed <=> i = t)
  <2> SUFFICES ASSUME NEW i \in 0..(n - 1)
               PROVE  /\ Behind(i, first, n) \in 0..(n - 1)
                      /\ (Behind(i, first, n) = passed <=> i = t)
    OBVIOUS
  <2>1. Behind(i, first, n) \in 0..(n - 1)
    BY Around
  <2>2. Behind(i, first, n) = Behind(t, first, n) => i = t
    BY Around
  <2>3. QED
    BY <1>7, <2>1, <2>2
<1>12. IF passed = n - 1
       THEN Behind(After(t, n), first, n) = 0 /\ t + 1 = last
       ELSE Behind(After(t, n), first, n) = passed + 1 /\ t + 1 # last
  <2>1. IF Behind(t, first, n) = n - 1
        THEN Behind(After(t, n), first, n) = 0 /\ t + 1 = (IF first = 0 THEN n ELSE first)
        ELSE Behind(After(t, n), first, n) = Behind(t, first, n) + 1
               /\ t + 1 # (IF first = 0 THEN n ELSE first)
    BY Around
  <2>2. QED
    BY <1>4, <1>7, <2>1
<1>13. TurnsFrom(first)'
  <2> SUFFICES ASSUME NEW i \in 0..(n - 1)
               PROVE  share'[order[i + 1]] =
                        share'[order[last]]
                          + (IF Behind(i, first, n) < Behind(After(t, n), first, n) THEN 1 ELSE 0)
    BY <1>9
  <2>1. /\ share[order[i + 1]] = share[order[last]] + (IF Behind(i, first, n) < passed THEN 1 ELSE 0)
        /\ share'[order[i + 1]] = share[order[i + 1]] + (IF i = t THEN 1 ELSE 0)
        /\ Behind(i, first, n) \in 0..(n - 1)
        /\ (Behind(i, first, n) = passed <=> i = t)
    BY <1>6, <1>8, <1>11
  <2>2. CASE passed = n - 1
    BY <1>10, <1>12, <2>1, <2>2
  <2>3. CASE passed # n - 1
    BY <1>10, <1>12, <2>1, <2>3
  <2>4. QED
    BY <2>2, <2>3
<1>14. QED
  BY <1>0, <1>13 DEF Rotation

-----------------------------------------------------------------------------
\* The calls.

\* The registry stands still, and with it every turn.
LEMMA NoTurn ==
  ASSUME Rotation, UNCHANGED <<order, rr, share>>
  PROVE  Rotation'
<1>1. \A first : TurnsFrom(first)' <=> TurnsFrom(first)
  BY DEF TurnsFrom, Behind, After, Candidates
<1>2. QED
  BY <1>1 DEF Rotation

\* A step that leaves the registry alone keeps the types of the rest.
LEMMA TypesKept ==
  ASSUME TypeOK, order' = order,
         rr' \in [SUBSET Roles -> Int], active' \in [Roles -> Nat], share' \in [Roles -> Nat],
         call' \in [Calls -> {"idle", "open", "done", "refused"}],
         chosen' \in [Calls -> Roles \cup {NoRole}], failed' \in Nat
  PROVE  TypeOK'
<1>1. Candidates' = Candidates
  BY DEF Candidates
<1>2. QED
  BY <1>1 DEF TypeOK

LEMMA StartKeeps ==
  ASSUME IInv, NEW c \in Calls, NEW strategy \in Strategies, Start(c, strategy)
  PROVE  IInv'
<1> USE DEF IInv
<1>1. /\ order # <<>> /\ Len(order) \in Nat /\ Len(order) > 0
      /\ order' = order /\ Candidates' = Candidates /\ Candidates \in SUBSET Roles
      /\ \A i \in 1..Len(order) : order[i] \in Roles
  BY OrderFacts DEF Start, Candidates
<1>2. PICK r \in Roles : r = order[Pick(strategy)]
  BY <1>1, PickIsPlace
<1>3. /\ call[c] = "idle"
      /\ call' = [call EXCEPT ![c] = "open"]
      /\ chosen' = [chosen EXCEPT ![c] = r]
      /\ active' = [active EXCEPT ![r] = @ + 1]
      /\ failed' = failed
  BY <1>2 DEF Start
<1>4. ASSUME strategy = "round-robin", Len(order) > 1
      PROVE  /\ r = order[NextTurn + 1] /\ NextTurn \in 0..(Len(order) - 1)
             /\ rr' = [rr EXCEPT ![Candidates] = NextTurn]
             /\ share' = [share EXCEPT ![r] = @ + 1]
  BY <1>1, <1>2, <1>4, NextTurnIsAfter DEF Start, Pick
<1>5. ASSUME ~(strategy = "round-robin" /\ Len(order) > 1) PROVE UNCHANGED <<rr, share>>
  BY <1>5 DEF Start
<1>6. TypeOK'
  <2>1. /\ active' \in [Roles -> Nat] /\ failed' \in Nat
        /\ call' \in [Calls -> {"idle", "open", "done", "refused"}]
        /\ chosen' \in [Calls -> Roles \cup {NoRole}]
    BY <1>2, <1>3 DEF TypeOK
  <2>2. CASE strategy = "round-robin" /\ Len(order) > 1
    <3>1. /\ rr' = [rr EXCEPT ![Candidates] = NextTurn] /\ NextTurn \in Int
          /\ share' = [share EXCEPT ![r] = @ + 1]
      BY <1>1, <1>4, <2>2
    <3>2. rr' \in [SUBSET Roles -> Int]
      BY <3>1 DEF TypeOK
    <3>3. share' \in [Roles -> Nat]
      BY <3>1 DEF TypeOK
    <3>4. QED
      BY <1>1, <2>1, <3>2, <3>3, TypesKept
  <2>3. CASE ~(strategy = "round-robin" /\ Len(order) > 1)
    BY <1>1, <1>5, <2>3, <2>1, TypesKept DEF TypeOK
  <2>4. QED
    BY <2>2, <2>3
<1>7. OneEach'
  BY <1>1 DEF OneEach
<1>8. TurnsInRange'
  <2>1. Cardinality(Candidates) = Len(order)
    BY DEF TypeOK
  <2>2. QED
    <3>1. CASE strategy = "round-robin" /\ Len(order) > 1
      <4>1. /\ rr' = [rr EXCEPT ![Candidates] = NextTurn]
            /\ NextTurn \in 0..(Cardinality(Candidates) - 1)
        BY <1>1, <1>4, <2>1, <3>1
      <4>2. ASSUME NEW S \in SUBSET Roles PROVE rr'[S] \in -1..(Cardinality(S) - 1)
        <5>1. CASE S = Candidates
          BY <1>1, <2>1, <4>1, <5>1 DEF TypeOK
        <5>2. CASE S # Candidates
          BY <4>1, <5>2 DEF TurnsInRange, TypeOK
        <5>3. QED
          BY <5>1, <5>2
      <4>3. QED
        BY <4>2 DEF TurnsInRange
    <3>2. CASE ~(strategy = "round-robin" /\ Len(order) > 1)
      BY <1>5, <3>2 DEF TurnsInRange
    <3>3. QED
      BY <3>1, <3>2
<1>9. \A q \in Roles : /\ Open(q)' = IF q = r THEN Open(q) \cup {c} ELSE Open(q)
                       /\ c \notin Open(q)
  BY <1>2, <1>3 DEF Open, TypeOK
<1>10. OpenInv'
  <2>1. \A q \in Roles : IsFiniteSet(Open(q)')
    BY <1>9, FS_AddElement DEF OpenInv
  <2>2. \A d \in Calls : call'[d] = "open" => chosen'[d] \in Roles
    BY <1>2, <1>3 DEF OpenInv, TypeOK
  <2>3. QED
    BY <2>1, <2>2 DEF OpenInv
<1>11. ActiveIsOpen'
  <2>1. \A q \in Roles : Cardinality(Open(q)') = Cardinality(Open(q)) + (IF q = r THEN 1 ELSE 0)
    <3>1. \A q \in Roles : IsFiniteSet(Open(q)) /\ Cardinality(Open(q)) \in Nat
      BY FS_CardinalityType DEF OpenInv
    <3>2. QED
      BY <1>9, <3>1, FS_AddElement
  <2>2. \A q \in Roles : active'[q] = active[q] + (IF q = r THEN 1 ELSE 0)
    BY <1>2, <1>3 DEF TypeOK
  <2>3. QED
    BY <2>1, <2>2 DEF ActiveIsOpen
<1>12. Rotation'
  <2>1. CASE strategy = "round-robin" /\ Len(order) > 1
    BY <1>1, <1>4, <2>1, TurnTaken
  <2>2. CASE ~(strategy = "round-robin" /\ Len(order) > 1)
    BY <1>1, <1>5, <2>2, NoTurn
  <2>3. QED
    BY <2>1, <2>2
<1>13. QED
  BY <1>6, <1>7, <1>8, <1>10, <1>11, <1>12

LEMMA EndKeeps ==
  ASSUME IInv, NEW c \in Calls, End(c)
  PROVE  IInv'
<1> USE DEF IInv
<1>1. PICK r \in Roles : r = chosen[c]
  BY DEF End, OpenInv
<1>2. /\ call[c] = "open" /\ call' = [call EXCEPT ![c] = "done"]
      /\ active' = [active EXCEPT ![r] = IF @ > 0 THEN @ - 1 ELSE @]
      /\ UNCHANGED <<order, rr, chosen, failed, share>>
  BY <1>1 DEF End
<1>3. \A q \in Roles : Open(q)' = IF q = r THEN Open(q) \ {c} ELSE Open(q)
  BY <1>1, <1>2 DEF Open, TypeOK
<1>4. c \in Open(r)
  BY <1>1, <1>2 DEF Open
<1>5. \A q \in Roles : IsFiniteSet(Open(q)) /\ Cardinality(Open(q)) \in Nat
  BY FS_CardinalityType DEF OpenInv
<1>6. Cardinality(Open(r)') = Cardinality(Open(r)) - 1 /\ IsFiniteSet(Open(r)')
  BY <1>3, <1>4, <1>5, FS_RemoveElement
<1>7. active[r] > 0
  <2>1. Cardinality(Open(r)) > 0
    <3>1. IsFiniteSet(Open(r)') /\ Cardinality(Open(r)') \in Nat
      BY <1>6, FS_CardinalityType
    <3>2. QED
      BY <1>5, <1>6, <3>1
  <2>2. QED
    BY <2>1 DEF ActiveIsOpen
<1>8. \A q \in Roles : active'[q] = active[q] - (IF q = r THEN 1 ELSE 0)
  BY <1>2, <1>7 DEF TypeOK
<1>9. ActiveIsOpen'
  BY <1>3, <1>5, <1>6, <1>8 DEF ActiveIsOpen
<1>10. OpenInv'
  BY <1>2, <1>3, <1>5, <1>6 DEF OpenInv, TypeOK
<1>11. TypeOK'
  <2>1. active' \in [Roles -> Nat] /\ call' \in [Calls -> {"idle", "open", "done", "refused"}]
    BY <1>2, <1>7 DEF TypeOK
  <2>2. QED
    BY <1>2, <2>1, TypesKept DEF TypeOK
<1>12. OneEach' /\ TurnsInRange' /\ Rotation'
  BY <1>2, NoTurn DEF OneEach, TurnsInRange
<1>13. QED
  BY <1>9, <1>10, <1>11, <1>12

\* A call that finds no role opens nothing, and a stutter changes nothing.
LEMMA OthersKeep ==
  ASSUME IInv, (\E c \in Calls : Refuse(c)) \/ UNCHANGED vars
  PROVE  IInv'
<1> USE DEF IInv
<1>1. UNCHANGED <<order, rr, active, chosen, share>>
  BY DEF Refuse, vars
<1>2. \A q \in Roles : Open(q)' = Open(q)
  BY <1>1 DEF Refuse, Open, vars, TypeOK
<1>3. TypeOK'
  <2>1. call' \in [Calls -> {"idle", "open", "done", "refused"}] /\ failed' \in Nat
    BY DEF TypeOK, Refuse, vars
  <2>2. QED
    BY <1>1, <2>1, TypesKept DEF TypeOK
<1>4. OpenInv' /\ ActiveIsOpen'
  BY <1>1, <1>2 DEF OpenInv, ActiveIsOpen, Refuse, vars, TypeOK
<1>5. OneEach' /\ TurnsInRange' /\ Rotation'
  BY <1>1, NoTurn DEF OneEach, TurnsInRange
<1>6. QED
  BY <1>3, <1>4, <1>5

-----------------------------------------------------------------------------
LEMMA InitInv == Init => IInv
<1> SUFFICES ASSUME Init PROVE IInv
  OBVIOUS
<1>1. /\ order = <<>> /\ Candidates = {} /\ \A r : Open(r) = {}
  BY DEF Init, Candidates, ToSet, Open
<1>2. IsFiniteSet({}) /\ Cardinality({}) = 0
  BY FS_EmptySet
<1>3. \A S \in SUBSET Roles : Cardinality(S) \in Nat
  BY BalancerAssumption, FS_Subset, FS_CardinalityType
<1>4. TypeOK
  <2>1. <<>> \in Seq(Roles) /\ Len(<<>>) = 0
    OBVIOUS
  <2>2. QED
    BY <1>1, <1>2, <2>1 DEF TypeOK, Init
<1>5. OneEach /\ OpenInv /\ ActiveIsOpen /\ Rotation
  <2>1. DOMAIN order = {} /\ \A r \in Roles : active[r] = 0
    BY <1>1 DEF Init
  <2>2. OneEach /\ Rotation
    BY <1>1, <2>1 DEF OneEach, Rotation
  <2>3. OpenInv /\ ActiveIsOpen
    BY <1>1, <1>2, <2>1 DEF OpenInv, ActiveIsOpen, Init
  <2>4. QED
    BY <2>2, <2>3
<1>6. TurnsInRange
  BY <1>3 DEF TurnsInRange, Init
<1>7. QED
  BY <1>4, <1>5, <1>6 DEF IInv

\* The invariant of sendToCapability, for any roles and calls.
THEOREM Invariance == Spec => []IInv
<1>1. IInv /\ [Next]_vars => IInv'
  <2> SUFFICES ASSUME IInv, [Next]_vars PROVE IInv'
    OBVIOUS
  <2>1. ASSUME NEW r \in Roles, RegisterRole(r) \/ UnregisterRole(r) PROVE IInv'
    BY <2>1, RegistryChanges, ChangesKeep DEF IInv
  <2>2. QED
    BY <2>1, StartKeeps, EndKeeps, OthersKeep DEF Next
<1>2. QED
  BY <1>1, InitInv, PTL DEF Spec

\* The load that least-loaded routing compares is the number of open calls, also
\* of a role that was unregistered, or registered anew, while they were open.
THEOREM LoadIsOpenCalls == Spec => []ActiveIsOpen
<1>1. IInv => ActiveIsOpen
  BY DEF IInv
<1>2. QED
  BY <1>1, Invariance, PTL

\* While the registry stands still, round-robin gives no candidate two turns
\* more than another, from whatever place the counter starts.
THEOREM TurnsAreEven == Spec => []EvenTurns
<1>1. IInv => EvenTurns
  <2> SUFFICES ASSUME IInv, NEW r \in Candidates, NEW q \in Candidates
               PROVE  share[r] - share[q] <= 1
    BY DEF EvenTurns
  <2> USE DEF IInv
  <2>1. /\ Len(order) \in Nat /\ DOMAIN order = 1..Len(order)
        /\ \A i \in 1..Len(order) : order[i] \in Roles
        /\ Candidates = {order[i] : i \in 1..Len(order)}
    BY OrderFacts
  <2>2. PICK i \in 1..Len(order), k \in 1..Len(order) : r = order[i] /\ q = order[k]
    BY <2>1
  <2>3. order # <<>> /\ Len(order) > 0
    BY <2>1, <2>2, OrderFacts
  <2>4. PICK first \in 0..(Len(order) - 1) : TurnsFrom(first)
    BY <2>3 DEF Rotation
  <2>5. PICK rounds \in Nat : rounds = share[order[IF first = 0 THEN Len(order) ELSE first]]
    <3>1. (IF first = 0 THEN Len(order) ELSE first) \in 1..Len(order)
      BY <2>1, <2>3, <2>4
    <3>2. QED
      BY <2>1, <3>1 DEF TypeOK
  <2>6. \A j \in 1..Len(order) : share[order[j]] = rounds \/ share[order[j]] = rounds + 1
    <3> SUFFICES ASSUME NEW j \in 1..Len(order)
                 PROVE  share[order[j]] = rounds \/ share[order[j]] = rounds + 1
      OBVIOUS
    <3>1. j - 1 \in 0..(Len(order) - 1) /\ (j - 1) + 1 = j
      BY <2>1
    <3>2. \E x \in {0, 1} : share[order[(j - 1) + 1]] = rounds + x
      BY <2>4, <2>5, <3>1 DEF TurnsFrom
    <3>3. QED
      BY <3>1, <3>2
  <2>7. QED
    BY <2>2, <2>6
<1>2. QED
  BY <1>1, Invariance, PTL
=============================================================================
