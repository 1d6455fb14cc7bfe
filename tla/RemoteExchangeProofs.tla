------------------------ MODULE RemoteExchangeProofs ------------------------
(***************************************************************************)
(* Proofs about Middleware and RemoteExchange, for any number of layers,   *)
(* attempts and requests.                                                  *)
(***************************************************************************)
EXTENDS RemoteExchange, TLAPS

\* The steps a dispatch has entered are those up to its index.
EnteredInv ==
  \A d \in Dispatches : \A i \in Steps :
    /\ entered[d][i] = IF i <= index[d] THEN 1 ELSE 0
    /\ step[d][i] = "idle" <=> i > index[d]
    /\ source[d][i] >= i

MwInv == MwTypeOK /\ EnteredInv /\ ThroughEveryLayer

\* The attempts of a post: those up to attempt[r] have been made, and all but
\* the last have been given up.
AttemptInv ==
  \A r \in Posts :
    /\ \A a \in 1..MaxAttempts : index[<<r, a>>] >= 0 <=> a <= attempt[r]
    /\ server[r] \in {"none", "reading"} => attempt[r] = 0
    /\ server[r] = "sending" => attempt[r] > 0
    /\ answer[r] = "reply" =>
         server[r] = "ended" /\ attempt[r] > 0 /\ Awaited(r) = "resolved"
    /\ r \in timed \/ \A a \in 1..(attempt[r] - 1) : step[<<r, a>>][0] = "rejected"

\* A connection is that of a request that waits, and a request that was not
\* made is not handled.
ClientInv ==
  \A r \in Requests :
    /\ client[r] = "idle" => server[r] = "none"
    /\ link[r] = "up" => client[r] = "waiting"

IInv == TypeOK /\ MwInv /\ AttemptInv /\ ClientInv

-----------------------------------------------------------------------------
\* The middleware.

LEMMA MwInitially == MwInit => MwInv
<1> SUFFICES ASSUME MwInit PROVE MwInv  OBVIOUS
<1> USE MiddlewareAssumption
<1>1. MwTypeOK  BY DEF MwInit, MwTypeOK, Steps
<1>2. EnteredInv  BY DEF MwInit, EnteredInv, Steps
<1>3. ThroughEveryLayer  BY DEF MwInit, ThroughEveryLayer, Steps
<1> QED  BY <1>1, <1>2, <1>3 DEF MwInv

\* What an update of a table of tables changes.
LEMMA TableUpdate ==
  ASSUME NEW D, NEW S, NEW V, NEW f \in [D -> [S -> V]], NEW d \in D, NEW i \in S, NEW v \in V,
         NEW g, g = [f EXCEPT ![d][i] = v]
  PROVE  /\ g \in [D -> [S -> V]]
         /\ \A e \in D : \A k \in S : g[e][k] = IF e = d /\ k = i THEN v ELSE f[e][k]
<1>1. g = [f EXCEPT ![d] = [f[d] EXCEPT ![i] = v]]  OBVIOUS
<1>2. [f[d] EXCEPT ![i] = v] \in [S -> V]  OBVIOUS
<1>3. g \in [D -> [S -> V]]  BY <1>1, <1>2
<1>4. ASSUME NEW e \in D, NEW k \in S
      PROVE  g[e][k] = IF e = d /\ k = i THEN v ELSE f[e][k]
  BY <1>1
<1> QED  BY <1>3, <1>4

\* What Enter() and Settles() do to each step of each dispatch.
LEMMA EnterEffect ==
  ASSUME MwTypeOK, NEW d \in Dispatches, NEW i \in Steps, Enter(d, i)
  PROVE  /\ MwTypeOK'
         /\ \A e \in Dispatches : index'[e] = IF e = d THEN i ELSE index[e]
         /\ \A e \in Dispatches : \A k \in Steps :
              /\ step'[e][k] = IF e = d /\ k = i THEN "running" ELSE step[e][k]
              /\ entered'[e][k] = IF e = d /\ k = i THEN entered[d][i] + 1 ELSE entered[e][k]
         /\ source' = source
<1> USE MiddlewareAssumption
<1> DEFINE Places == {"idle", "running", "resolved", "rejected"}
<1>1. /\ step' = [step EXCEPT ![d][i] = "running"]
      /\ entered' = [entered EXCEPT ![d][i] = entered[d][i] + 1]
      /\ index' = [index EXCEPT ![d] = i]
      /\ source' = source
  BY DEF Enter
<1>2. step \in [Dispatches -> [Steps -> Places]] /\ entered \in [Dispatches -> [Steps -> Nat]]
  BY DEF MwTypeOK
<1>3. entered[d][i] + 1 \in Nat  BY <1>2
<1>4. /\ step' \in [Dispatches -> [Steps -> Places]]
      /\ \A e \in Dispatches : \A k \in Steps :
           step'[e][k] = IF e = d /\ k = i THEN "running" ELSE step[e][k]
  BY <1>1, <1>2, TableUpdate
<1>5. /\ entered' \in [Dispatches -> [Steps -> Nat]]
      /\ \A e \in Dispatches : \A k \in Steps :
           entered'[e][k] = IF e = d /\ k = i THEN entered[d][i] + 1 ELSE entered[e][k]
  BY <1>1, <1>2, <1>3, TableUpdate
<1>6. /\ index' \in [Dispatches -> -1..Layers]
      /\ \A e \in Dispatches : index'[e] = IF e = d THEN i ELSE index[e]
  BY <1>1 DEF MwTypeOK, Steps
<1> QED  BY <1>1, <1>4, <1>5, <1>6 DEF MwTypeOK

LEMMA SettlesEffect ==
  ASSUME MwTypeOK, NEW d \in Dispatches, NEW i \in Steps, NEW how \in {"resolved", "rejected"},
         NEW from \in Steps, Settles(d, i, how, from)
  PROVE  /\ MwTypeOK'
         /\ \A e \in Dispatches : \A k \in Steps :
              /\ step'[e][k] = IF e = d /\ k = i THEN how ELSE step[e][k]
              /\ source'[e][k] = IF e = d /\ k = i THEN from ELSE source[e][k]
         /\ UNCHANGED <<index, entered>>
         /\ step[d][i] = "running"
<1> DEFINE Places == {"idle", "running", "resolved", "rejected"}
<1>1. /\ step' = [step EXCEPT ![d][i] = how]
      /\ source' = [source EXCEPT ![d][i] = from]
      /\ UNCHANGED <<index, entered>> /\ step[d][i] = "running"
  BY DEF Settles
<1>2. /\ step \in [Dispatches -> [Steps -> Places]]
      /\ source \in [Dispatches -> [Steps -> Steps]] /\ how \in Places
  BY DEF MwTypeOK
<1>4. /\ step' \in [Dispatches -> [Steps -> Places]]
      /\ \A e \in Dispatches : \A k \in Steps :
           step'[e][k] = IF e = d /\ k = i THEN how ELSE step[e][k]
  BY <1>1, <1>2, TableUpdate
<1>5. /\ source' \in [Dispatches -> [Steps -> Steps]]
      /\ \A e \in Dispatches : \A k \in Steps :
           source'[e][k] = IF e = d /\ k = i THEN from ELSE source[e][k]
  BY <1>1, <1>2, TableUpdate
<1> QED  BY <1>1, <1>4, <1>5 DEF MwTypeOK

\* The ranges of the tables.
LEMMA MwRanges ==
  ASSUME MwTypeOK, NEW d \in Dispatches
  PROVE  /\ Steps = 0..Layers /\ 0 \in Steps
         /\ index[d] \in -1..Layers
         /\ \A k \in Steps : source[d][k] \in Steps /\ entered[d][k] \in Nat
<1>1. Steps = 0..Layers /\ 0 \in Steps  BY MiddlewareAssumption DEF Steps
<1>2. index[d] \in -1..Layers  BY DEF MwTypeOK
<1>3. source[d] \in [Steps -> Steps] /\ entered[d] \in [Steps -> Nat]  BY DEF MwTypeOK
<1> QED  BY <1>1, <1>2, <1>3

-----------------------------------------------------------------------------
\* A step that is entered is the one below the last.
LEMMA EnterKeeps ==
  ASSUME MwInv, NEW d \in Dispatches, NEW i \in Steps, i = index[d] + 1, Enter(d, i)
  PROVE  /\ MwInv'
         /\ \A e \in Dispatches \ {d} : index'[e] = index[e] /\ step'[e][0] = step[e][0]
         /\ index'[d] = i
         /\ i > 0 => step'[d][0] = step[d][0]
<1>0. MwTypeOK /\ EnteredInv /\ ThroughEveryLayer /\ Layers \in Nat
  BY MiddlewareAssumption DEF MwInv
<1>1. /\ MwTypeOK'
      /\ \A e \in Dispatches : index'[e] = IF e = d THEN i ELSE index[e]
      /\ \A e \in Dispatches : \A k \in Steps :
           /\ step'[e][k] = IF e = d /\ k = i THEN "running" ELSE step[e][k]
           /\ entered'[e][k] = IF e = d /\ k = i THEN entered[d][i] + 1 ELSE entered[e][k]
      /\ source' = source
  BY <1>0, EnterEffect
<1>2. ASSUME NEW e \in Dispatches, NEW k \in Steps
      PROVE  /\ entered'[e][k] = IF k <= index'[e] THEN 1 ELSE 0
             /\ step'[e][k] = "idle" <=> k > index'[e]
             /\ source'[e][k] >= k
  <2>1. /\ entered[e][k] = IF k <= index[e] THEN 1 ELSE 0
        /\ step[e][k] = "idle" <=> k > index[e]
        /\ source[e][k] >= k
    BY <1>0 DEF EnteredInv
  <2> QED  BY <1>0, <1>1, <2>1, MwRanges
<1>3. ASSUME NEW e \in Dispatches, NEW k \in Steps, step'[e][k] = "resolved",
             NEW j \in k..source'[e][k]
      PROVE  step'[e][j] = "resolved" /\ source'[e][j] = source'[e][k]
  <2>1. step[e][k] = "resolved" /\ source' = source  BY <1>1, <1>3
  <2>2. step[e][j] = "resolved" /\ source[e][j] = source[e][k]
    BY <1>0, <1>3, <2>1 DEF ThroughEveryLayer
  <2>3. j \in Steps  BY <1>0, <1>3, <2>1, MwRanges
  <2>4. e # d \/ j # i  BY <1>0, <2>2, <2>3, MwRanges DEF EnteredInv
  <2> QED  BY <1>1, <2>1, <2>2, <2>3, <2>4
<1> QED  BY <1>0, <1>1, <1>2, <1>3, MwRanges DEF MwInv, EnteredInv, ThroughEveryLayer

\* A step settles with its own reply or with that of the step below.
LEMMA SettlesKeeps ==
  ASSUME MwInv, NEW d \in Dispatches, NEW i \in Steps, NEW how \in {"resolved", "rejected"},
         NEW from \in Steps, Settles(d, i, how, from),
         from = i \/ (i + 1 \in Steps /\ step[d][i + 1] = "resolved" /\ from = source[d][i + 1])
  PROVE  /\ MwInv'
         /\ index' = index
         /\ \A e \in Dispatches : step[e][0] \in {"resolved", "rejected"} => step'[e][0] = step[e][0]
<1>0. MwTypeOK /\ EnteredInv /\ ThroughEveryLayer /\ Layers \in Nat
  BY MiddlewareAssumption DEF MwInv
<1>1. /\ MwTypeOK'
      /\ \A e \in Dispatches : \A k \in Steps :
           /\ step'[e][k] = IF e = d /\ k = i THEN how ELSE step[e][k]
           /\ source'[e][k] = IF e = d /\ k = i THEN from ELSE source[e][k]
      /\ index' = index /\ entered' = entered
      /\ step[d][i] = "running"
  BY <1>0, SettlesEffect
<1>r. \A e \in Dispatches : \A k \in Steps : source[e][k] >= k
  BY <1>0 DEF EnteredInv
<1>f. from >= i  BY <1>0, <1>r, MwRanges
<1>2. ASSUME NEW e \in Dispatches, NEW k \in Steps
      PROVE  /\ entered'[e][k] = IF k <= index'[e] THEN 1 ELSE 0
             /\ step'[e][k] = "idle" <=> k > index'[e]
             /\ source'[e][k] >= k
  <2>1. /\ entered[e][k] = IF k <= index[e] THEN 1 ELSE 0
        /\ step[e][k] = "idle" <=> k > index[e]
        /\ source[e][k] >= k
    BY <1>0 DEF EnteredInv
  <2> QED  BY <1>1, <1>f, <2>1
<1>3. ASSUME NEW e \in Dispatches, NEW k \in Steps, step'[e][k] = "resolved",
             NEW j \in k..source'[e][k]
      PROVE  step'[e][j] = "resolved" /\ source'[e][j] = source'[e][k]
  <2>0. j \in Steps  BY <1>0, <1>1, <1>3, MwRanges
  <2>1. CASE e = d /\ k = i
    <3>1. source'[d][i] = from  BY <1>1
    <3>2. CASE j = i  BY <1>3, <2>1, <3>2
    <3>3. CASE j # i
      <4>1. /\ i + 1 \in Steps /\ step[d][i + 1] = "resolved" /\ from = source[d][i + 1]
            /\ j \in (i + 1)..from
        BY <1>0, <1>3, <2>1, <3>1, <3>3, MwRanges
      <4>2. step[d][j] = "resolved" /\ source[d][j] = from
        BY <1>0, <4>1 DEF ThroughEveryLayer
      <4> QED  BY <1>1, <2>0, <2>1, <3>1, <3>3, <4>2
    <3> QED  BY <3>2, <3>3
  <2>2. CASE ~(e = d /\ k = i)
    <3>1. step[e][k] = "resolved" /\ source'[e][k] = source[e][k]  BY <1>1, <1>3, <2>2
    <3>2. step[e][j] = "resolved" /\ source[e][j] = source[e][k]
      BY <1>0, <1>3, <3>1 DEF ThroughEveryLayer
    <3>3. ~(e = d /\ j = i)  BY <1>1, <3>2
    <3> QED  BY <1>1, <2>0, <3>1, <3>2, <3>3
  <2> QED  BY <2>1, <2>2
<1>5. \A e \in Dispatches : step[e][0] \in {"resolved", "rejected"} => step'[e][0] = step[e][0]
  BY <1>0, <1>1, MwRanges
<1> QED  BY <1>1, <1>2, <1>3, <1>5 DEF MwInv, EnteredInv, ThroughEveryLayer

LEMMA MwStepKeeps ==
  ASSUME MwInv, NEW d \in Dispatches, MwStep(d)
  PROVE  /\ MwInv'
         /\ \A e \in Dispatches : index'[e] >= 0 <=> index[e] >= 0
         /\ \A e \in Dispatches : step[e][0] \in {"resolved", "rejected"} => step'[e][0] = step[e][0]
<1> USE MiddlewareAssumption
<1> PICK i \in Steps : CallNext(d, i) \/ Answers(d, i) \/ PassesOn(d, i) \/ Throws(d, i)
  BY DEF MwStep
<1>1. CASE CallNext(d, i)
  <2>1. i < Layers /\ step[d][i] # "idle" /\ Enter(d, i + 1) /\ i + 1 > index[d]
    BY <1>1 DEF CallNext, Enter, Core
  <2>2. i <= index[d] /\ i + 1 \in Steps /\ i + 1 = index[d] + 1
    BY <2>1, MwRanges DEF MwInv, EnteredInv
  <2>3. /\ MwInv'
        /\ \A e \in Dispatches \ {d} : index'[e] = index[e] /\ step'[e][0] = step[e][0]
        /\ index'[d] = i + 1 /\ step'[d][0] = step[d][0]
    BY <2>1, <2>2, EnterKeeps DEF Steps
  <2>4. index[d] >= 0 /\ index'[d] >= 0  BY <2>2, <2>3, MwRanges DEF MwInv
  <2> QED  BY <2>3, <2>4
<1>2. CASE Answers(d, i)
  <2>1. Settles(d, i, "resolved", i)  BY <1>2 DEF Answers
  <2> QED  BY <2>1, SettlesKeeps
<1>3. CASE PassesOn(d, i)
  <2>1. i + 1 \in Steps /\ step[d][i + 1] = "resolved" /\ source[d][i + 1] \in Steps
    BY <1>3 DEF PassesOn, MwInv, MwTypeOK, Core, Steps
  <2>2. Settles(d, i, "resolved", source[d][i + 1])  BY <1>3 DEF PassesOn
  <2> QED  BY <2>1, <2>2, SettlesKeeps
<1>4. CASE Throws(d, i)
  <2>1. Settles(d, i, "rejected", i)  BY <1>4 DEF Throws
  <2> QED  BY <2>1, SettlesKeeps
<1> QED  BY <1>1, <1>2, <1>3, <1>4

-----------------------------------------------------------------------------
\* The exchange.

LEMMA AttemptIsDispatch ==
  ASSUME NEW r \in Posts, NEW a \in 1..MaxAttempts
  PROVE  <<r, a>> \in Dispatches /\ MaxAttempts \in Nat
  BY RemoteAssumption

LEMMA Initially == Init => IInv
<1> SUFFICES ASSUME Init PROVE IInv  OBVIOUS
<1>1. MwInv  BY MwInitially DEF Init
<1>2. TypeOK  BY <1>1, RemoteAssumption DEF Init, TypeOK, MwInv, Requests
<1>3. AttemptInv
  <2> SUFFICES ASSUME NEW r \in Posts
               PROVE  /\ \A a \in 1..MaxAttempts : index[<<r, a>>] = -1
                      /\ attempt[r] = 0 /\ server[r] = "none" /\ answer[r] = "none"
    BY RemoteAssumption DEF AttemptInv
  <2>1. \A a \in 1..MaxAttempts : index[<<r, a>>] = -1
    BY AttemptIsDispatch DEF Init, MwInit
  <2> QED  BY <2>1 DEF Init, Requests
<1>4. ClientInv  BY DEF Init, ClientInv
<1> QED  BY <1>1, <1>2, <1>3, <1>4 DEF IInv

LEMMA MwUnchanged ==
  ASSUME MwInv, UNCHANGED mwVars
  PROVE  MwInv'
  BY DEF MwInv, mwVars, MwTypeOK, EnteredInv, ThroughEveryLayer, Steps

\* What steps of the client, the network and the middleware leave alone.
LEMMA AttemptsKept ==
  ASSUME TypeOK, AttemptInv, UNCHANGED <<timed, server, attempt, answer>>,
         \A e \in Dispatches : index'[e] >= 0 <=> index[e] >= 0,
         \A e \in Dispatches : step[e][0] \in {"resolved", "rejected"} => step'[e][0] = step[e][0]
  PROVE  AttemptInv'
<1> SUFFICES ASSUME NEW r \in Posts
             PROVE  /\ \A a \in 1..MaxAttempts : index'[<<r, a>>] >= 0 <=> a <= attempt'[r]
                    /\ server'[r] \in {"none", "reading"} => attempt'[r] = 0
                    /\ server'[r] = "sending" => attempt'[r] > 0
                    /\ answer'[r] = "reply" =>
                         server'[r] = "ended" /\ attempt'[r] > 0 /\ Awaited(r)' = "resolved"
                    /\ r \in timed' \/ \A a \in 1..(attempt'[r] - 1) : step'[<<r, a>>][0] = "rejected"
  BY DEF AttemptInv
<1>1. attempt[r] \in 0..MaxAttempts /\ MaxAttempts \in Nat
  BY RemoteAssumption DEF TypeOK
<1>2. \A a \in 1..MaxAttempts : index'[<<r, a>>] >= 0 <=> a <= attempt'[r]
  BY AttemptIsDispatch DEF AttemptInv
<1>3. attempt[r] > 0 => attempt[r] \in 1..MaxAttempts
  BY <1>1
<1>4. answer'[r] = "reply" => Awaited(r)' = "resolved"
  BY <1>3, AttemptIsDispatch DEF AttemptInv, Awaited
<1>5. r \in timed' \/ \A a \in 1..(attempt'[r] - 1) : step'[<<r, a>>][0] = "rejected"
  BY <1>1, AttemptIsDispatch DEF AttemptInv
<1> QED  BY <1>2, <1>4, <1>5 DEF AttemptInv

\* The requests and their connections.
LEMMA ClientSteps ==
  ASSUME IInv, NEW r \in Requests,
         Request(r) \/ Wait(r) \/ Break(r)
  PROVE  IInv'
<1> USE DEF IInv
<1>0. UNCHANGED <<mwVars, timed, attempt, status, answer, listening>>
  BY DEF Request, Wait, Receive, Timeout, Broken, Break
<1>1. MwInv' /\ UNCHANGED <<index, step>>
  BY <1>0, MwUnchanged DEF mwVars
<1>2. CASE Request(r)
  <2>1. server[r] = "none" /\ \A q \in Requests : server'[q] # server[q] => server'[q] = "reading" /\ server[q] = "none"
    BY <1>2 DEF Request, ClientInv, TypeOK
  <2>2. TypeOK'
    BY <1>0, <1>1, <1>2 DEF Request, TypeOK, MwInv
  <2>3. AttemptInv'
    BY <1>0, <1>1, <2>1, RemoteAssumption DEF AttemptInv, Awaited, Requests
  <2>4. ClientInv'
    BY <1>2 DEF Request, ClientInv, TypeOK
  <2> QED  BY <1>1, <2>2, <2>3, <2>4
<1>3. CASE Wait(r) \/ Break(r)
  <2>1. server' = server
    BY <1>3 DEF Wait, Receive, Timeout, Broken, Break
  <2>2. TypeOK'
    BY <1>0, <1>1, <1>3, <2>1 DEF Wait, Receive, Timeout, Broken, Break, Settle, TypeOK, MwInv
  <2>3. AttemptInv'
    BY <1>0, <1>1, <2>1, AttemptsKept
  <2>4. ClientInv'
    BY <1>3, <2>1 DEF Wait, Receive, Timeout, Broken, Break, Settle, ClientInv, TypeOK
  <2> QED  BY <1>1, <2>2, <2>3, <2>4
<1> QED  BY <1>2, <1>3

\* The handler responds, and the middleware is where it was.
LEMMA Responses ==
  ASSUME IInv, NEW r \in Requests, NEW code \in {200, 202, 401, 500},
         NEW what \in {"reply", "report", "other"}, Respond(r, code, what),
         UNCHANGED <<mwVars, timed, attempt, client, link, listening>>,
         client[r] # "idle",
         what = "reply" => r \in Posts /\ attempt[r] > 0 /\ Awaited(r) = "resolved"
  PROVE  IInv'
<1> USE DEF IInv
<1>1. MwInv' /\ UNCHANGED <<index, step>>
  BY MwUnchanged DEF mwVars
<1>2. TypeOK'
  BY <1>1 DEF Respond, TypeOK, MwInv
<1>3. /\ server'[r] = "ended" /\ answer'[r] = what
      /\ \A q \in Requests \ {r} : server'[q] = server[q] /\ answer'[q] = answer[q]
  BY DEF Respond, TypeOK
<1>4. AttemptInv'
  BY <1>1, <1>3, RemoteAssumption DEF AttemptInv, Awaited, Requests
<1>5. ClientInv'
  BY <1>3 DEF ClientInv
<1> QED  BY <1>1, <1>2, <1>4, <1>5

\* The next attempt is made; the one before has been given up.
LEMMA Tries ==
  ASSUME IInv, NEW r \in Posts, Try(r, attempt[r] + 1), attempt[r] < MaxAttempts,
         UNCHANGED <<timed, client, link, status, answer, listening>>,
         server' = [server EXCEPT ![r] = "sending"],
         server[r] \in {"reading", "sending"},
         attempt[r] > 0 => r \in timed \/ Awaited(r) = "rejected"
  PROVE  IInv'
<1> USE DEF IInv
<1> DEFINE a == attempt[r] + 1
           d == <<r, a>>
<1>0. a \in 1..MaxAttempts /\ d \in Dispatches /\ attempt[r] \in Nat /\ r \in Requests
  BY RemoteAssumption DEF TypeOK, Requests
<1>1. ~(index[d] >= 0)
  BY <1>0 DEF AttemptInv
<1>2. index[d] = -1 /\ 0 \in Steps
  BY <1>0, <1>1, MwRanges DEF TypeOK
<1>3. /\ MwInv'
      /\ \A e \in Dispatches \ {d} : index'[e] = index[e] /\ step'[e][0] = step[e][0]
      /\ index'[d] = 0
  BY <1>0, <1>2, EnterKeeps DEF Try
<1>4. attempt' = [attempt EXCEPT ![r] = a]
  BY DEF Try
<1>5. TypeOK'
  BY <1>0, <1>3, <1>4 DEF TypeOK, MwInv
<1>6. ASSUME NEW q \in Posts \ {r}
      PROVE  /\ attempt'[q] = attempt[q] /\ server'[q] = server[q]
             /\ \A b \in 1..MaxAttempts : <<q, b>> \in Dispatches \ {d}
  BY <1>4, AttemptIsDispatch, RemoteAssumption DEF TypeOK, Requests
<1>7. attempt'[r] = a /\ server'[r] = "sending" /\ answer'[r] # "reply"
  BY <1>0, <1>4 DEF TypeOK, AttemptInv
<1>8. \A b \in 1..MaxAttempts : b # a => <<r, b>> \in Dispatches \ {d}
  BY AttemptIsDispatch
<1> HIDE DEF a, d
<1>9. ASSUME NEW q \in Posts
      PROVE  /\ \A b \in 1..MaxAttempts : index'[<<q, b>>] >= 0 <=> b <= attempt'[q]
             /\ server'[q] \in {"none", "reading"} => attempt'[q] = 0
             /\ server'[q] = "sending" => attempt'[q] > 0
             /\ answer'[q] = "reply" =>
                  server'[q] = "ended" /\ attempt'[q] > 0 /\ Awaited(q)' = "resolved"
             /\ q \in timed' \/ \A b \in 1..(attempt'[q] - 1) : step'[<<q, b>>][0] = "rejected"
  <2>1. CASE q # r
    <3>1. attempt[q] \in 0..MaxAttempts /\ MaxAttempts \in Nat  BY RemoteAssumption DEF TypeOK
    <3>2. \A b \in 1..MaxAttempts :
            index'[<<q, b>>] = index[<<q, b>>] /\ step'[<<q, b>>][0] = step[<<q, b>>][0]
      BY <1>3, <1>6, <2>1
    <3>3. attempt[q] > 0 => Awaited(q)' = Awaited(q)
      BY <1>6, <2>1, <3>1, <3>2 DEF Awaited
    <3> QED  BY <1>6, <2>1, <3>1, <3>2, <3>3 DEF AttemptInv
  <2>2. CASE q = r
    <3>1. \A b \in 1..MaxAttempts : index'[<<r, b>>] >= 0 <=> b <= a
      <4> SUFFICES ASSUME NEW b \in 1..MaxAttempts PROVE index'[<<r, b>>] >= 0 <=> b <= a  OBVIOUS
      <4>1. CASE b = a  BY <1>0, <1>3, <4>1 DEF d
      <4>2. CASE b # a
        <5>1. index'[<<r, b>>] = index[<<r, b>>]  BY <1>3, <1>8, <4>2
        <5>2. index[<<r, b>>] >= 0 <=> b <= attempt[r]  BY DEF AttemptInv
        <5> QED  BY <1>0, <4>2, <5>1, <5>2 DEF a
      <4> QED  BY <4>1, <4>2
    <3>2. r \in timed' \/ \A b \in 1..(a - 1) : step'[<<r, b>>][0] = "rejected"
      <4> SUFFICES ASSUME r \notin timed, NEW b \in 1..attempt[r]
                   PROVE  step'[<<r, b>>][0] = "rejected"
        BY <1>0 DEF a
      <4>1. b \in 1..MaxAttempts /\ b # a  BY <1>0, RemoteAssumption DEF a
      <4>2. step'[<<r, b>>][0] = step[<<r, b>>][0]  BY <1>3, <1>8, <4>1
      <4>3. CASE b = attempt[r]  BY <4>2, <4>3, <1>0 DEF Awaited
      <4>4. CASE b # attempt[r]
        <5>1. b \in 1..(attempt[r] - 1)  BY <1>0, <4>4
        <5> QED  BY <4>2, <5>1 DEF AttemptInv
      <4> QED  BY <4>3, <4>4
    <3> QED  BY <1>0, <1>7, <2>2, <3>1, <3>2
  <2> QED  BY <2>1, <2>2
<1>10. AttemptInv'  BY <1>9 DEF AttemptInv
<1>11. ClientInv'  BY <1>0 DEF ClientInv, TypeOK
<1> QED  BY <1>3, <1>5, <1>10, <1>11

\* What a handler does with its request.
LEMMA HandlerSteps ==
  ASSUME IInv, NEW r \in Requests, Handle(r)
  PROVE  IInv'
<1>1. server[r] # "none" => client[r] # "idle"
  BY DEF IInv, ClientInv
<1>2. CASE Unauthorized(r)
  BY <1>1, <1>2, Responses DEF Unauthorized
<1>3. CASE Get(r)
  BY <1>1, <1>3, Responses DEF Get
<1>4. CASE BadBody(r)
  BY <1>1, <1>4, Responses DEF BadBody
<1>5. CASE SendRefused(r)
  BY <1>1, <1>5, Responses DEF SendRefused
<1>6. CASE Fire(r)
  BY <1>1, <1>6, Responses DEF Fire
<1>7. CASE r \in Posts /\ SendFails(r)
  BY <1>1, <1>7, Responses DEF SendFails, AttemptFails
<1>8. CASE r \in Posts /\ SendReturns(r)
  <2>1. server[r] = "sending" /\ Awaited(r) = "resolved" /\ attempt[r] > 0
    BY <1>8 DEF SendReturns, IInv, AttemptInv
  <2>2. CASE Respond(r, 200, "reply")
    BY <1>1, <1>8, <2>1, <2>2, Responses DEF SendReturns
  <2>3. CASE Respond(r, 500, "other")
    BY <1>1, <1>8, <2>1, <2>3, Responses DEF SendReturns
  <2> QED  BY <1>8, <2>2, <2>3 DEF SendReturns
<1>9. CASE Send(r)
  <2>1. r \in Posts /\ attempt[r] = 0 /\ attempt[r] < MaxAttempts
    BY <1>9, RemoteAssumption DEF Send, IInv, AttemptInv
  <2>2. Try(r, attempt[r] + 1)
    BY <1>9, <2>1 DEF Send
  <2>3. /\ server[r] = "reading" /\ server' = [server EXCEPT ![r] = "sending"]
        /\ UNCHANGED <<timed, client, link, status, answer, listening>>
        /\ ~(attempt[r] > 0)
    BY <1>9, <2>1 DEF Send
  <2> QED  BY <2>1, <2>2, <2>3, Tries
<1>10. CASE r \in Posts /\ Retry(r)
  <2>1. server' = [server EXCEPT ![r] = "sending"]
    BY <1>10 DEF Retry, AttemptFails, IInv, TypeOK
  <2>2. /\ Try(r, attempt[r] + 1) /\ attempt[r] < MaxAttempts /\ server[r] = "sending"
        /\ r \in timed \/ Awaited(r) = "rejected"
        /\ UNCHANGED <<timed, client, link, status, answer, listening>>
    BY <1>10 DEF Retry, AttemptFails
  <2> QED  BY <1>10, <2>1, <2>2, Tries
<1> QED  BY <1>2, <1>3, <1>4, <1>5, <1>6, <1>7, <1>8, <1>9, <1>10 DEF Handle

LEMMA NextKeeps == IInv /\ [Next]_vars => IInv'
<1> SUFFICES ASSUME IInv, [Next]_vars PROVE IInv'  OBVIOUS
<1>1. ASSUME NEW r \in Requests, Request(r) \/ Wait(r) \/ Break(r) \/ Handle(r)
      PROVE  IInv'
  BY <1>1, ClientSteps, HandlerSteps
<1>2. ASSUME NEW d \in Dispatches, MwStep(d),
             UNCHANGED <<timed, client, link, server, attempt, status, answer, listening>>
      PROVE  IInv'
  <2>1. /\ MwInv'
        /\ \A e \in Dispatches : index'[e] >= 0 <=> index[e] >= 0
        /\ \A e \in Dispatches : step[e][0] \in {"resolved", "rejected"} => step'[e][0] = step[e][0]
    BY <1>2, MwStepKeeps DEF IInv
  <2>2. AttemptInv'  BY <1>2, <2>1, AttemptsKept DEF IInv
  <2>3. TypeOK'  BY <1>2, <2>1 DEF IInv, TypeOK, MwInv
  <2>4. ClientInv'  BY <1>2 DEF IInv, ClientInv
  <2> QED  BY <2>1, <2>2, <2>3, <2>4 DEF IInv
<1>3. CASE Close \/ Closed \/ UNCHANGED vars
  <2>1. UNCHANGED <<mwVars, timed, client, link, server, attempt, status, answer>>
        /\ listening' \in {"open", "closing", "closed"}
    BY <1>3 DEF Close, Closed, vars, IInv, TypeOK
  <2>2. MwInv' /\ UNCHANGED <<index, step>>  BY <2>1, MwUnchanged DEF IInv, mwVars
  <2>3. AttemptInv'  BY <2>1, <2>2, AttemptsKept DEF IInv
  <2>4. TypeOK'  BY <2>1, <2>2 DEF IInv, TypeOK, MwInv
  <2>5. ClientInv'  BY <2>1 DEF IInv, ClientInv
  <2> QED  BY <2>2, <2>3, <2>4, <2>5 DEF IInv
<1> QED  BY <1>1, <1>2, <1>3 DEF Next

\* The invariant that relates layers, attempts, handlers and clients holds for
\* any number of each.
THEOREM Invariance == Spec => []IInv
  BY Initially, NextKeeps, PTL DEF Spec

\* Every variable keeps its type; in particular no packet is tried more often
\* than the retry policy says, whatever its layers do.
THEOREM TypeCorrect == Spec => []TypeOK
<1>1. IInv => TypeOK  BY DEF IInv
<1> QED  BY <1>1, Invariance, PTL

\* composeMiddleware(): however often and whenever next() is called, no layer
\* and no handler runs twice in an attempt, none before every layer above it
\* has let it, and no reply passes a layer by.
THEOREM LayersInOrder == Spec => [](StepsOnce /\ ThroughEveryLayer)
<1>1. IInv => StepsOnce /\ ThroughEveryLayer
  <2> SUFFICES ASSUME IInv, NEW d \in Dispatches, NEW i \in Steps
               PROVE  /\ entered[d][i] <= 1
                      /\ entered[d][i] = 1 => \A j \in 0..i : entered[d][j] = 1
    BY DEF IInv, MwInv, StepsOnce
  <2>1. MwTypeOK /\ EnteredInv  BY DEF IInv, MwInv
  <2>2. Steps = 0..Layers /\ Layers \in Nat /\ index[d] \in -1..Layers
    BY <2>1, MwRanges, MiddlewareAssumption
  <2>3. \A k \in Steps : entered[d][k] = IF k <= index[d] THEN 1 ELSE 0
    BY <2>1 DEF EnteredInv
  <2> QED  BY <2>2, <2>3
<1> QED  BY <1>1, Invariance, PTL

\* A reply over HTTP is the one of the last attempt, came up through every layer
\* that attempt went down by, and no attempt before had one to give.
THEOREM RepliesAreEarned == Spec => []RepliedOnce
<1>1. IInv => RepliedOnce
  <2> SUFFICES ASSUME IInv, NEW r \in Posts, answer[r] = "reply"
               PROVE  /\ \A j \in 0..source[<<r, attempt[r]>>][0] :
                           /\ entered[<<r, attempt[r]>>][j] = 1
                           /\ step[<<r, attempt[r]>>][j] = "resolved"
                      /\ r \in timed \/ \A a \in 1..(attempt[r] - 1) : step[<<r, a>>][0] = "rejected"
    BY DEF RepliedOnce
  <2>1. attempt[r] \in 1..MaxAttempts
    BY RemoteAssumption DEF IInv, TypeOK, AttemptInv
  <2> DEFINE d == <<r, attempt[r]>>
  <2>2. d \in Dispatches  BY <2>1, AttemptIsDispatch
  <2>3. step[d][0] = "resolved"  BY DEF IInv, AttemptInv, Awaited
  <2>4. r \in timed \/ \A a \in 1..(attempt[r] - 1) : step[<<r, a>>][0] = "rejected"
    BY DEF IInv, AttemptInv
  <2> HIDE DEF d
  <2>5. ASSUME NEW j \in 0..source[d][0]
        PROVE  entered[d][j] = 1 /\ step[d][j] = "resolved"
    <3>0. 0 \in Steps /\ Steps = 0..Layers /\ Layers \in Nat /\ source[d][0] \in Steps
      BY <2>2, MwRanges, MiddlewareAssumption DEF IInv, MwInv
    <3>1. step[d][j] = "resolved" /\ j \in Steps
      BY <2>2, <2>3, <3>0 DEF IInv, MwInv, ThroughEveryLayer
    <3> QED  BY <2>2, <3>1, MwRanges DEF IInv, MwInv, EnteredInv
  <2> QED  BY <2>4, <2>5 DEF d
<1> QED  BY <1>1, Invariance, PTL
-----------------------------------------------------------------------------
(***************************************************************************)
(* Liveness.  tlapm knows nothing of ENABLED, so the fairness of FairSpec  *)
(* is stated here with guards in place of it: Wait(r) can be taken while r *)
(* waits, by its Timeout(r) if by nothing else.                            *)
(***************************************************************************)

Gone == \A r \in Requests : link[r] # "up"

Served(r) == []<>(client[r] # "waiting") \/ []<><<Wait(r)>>_vars

ServedSpec ==
  /\ Spec
  /\ \A r \in Requests : Served(r)
  /\ []<>~(listening = "closing" /\ Gone) \/ []<><<Closed>>_vars

\* A request that waits is given up or settled by what Wait(r) does only.
LEMMA WaitingStep ==
  ASSUME IInv, [Next]_vars, NEW r \in Requests, client[r] = "waiting"
  PROVE  client'[r] = "waiting" \/ client'[r] \in {"resolved", "rejected"}
<1>1. client \in [Requests -> {"idle", "waiting", "resolved", "rejected"}]
  BY DEF IInv, TypeOK
<1>2. ASSUME NEW q \in Requests, Wait(q)
      PROVE  client'[r] = client[r] \/ client'[r] \in {"resolved", "rejected"}
  BY <1>1, <1>2 DEF Wait, Receive, Timeout, Broken, Settle
<1>3. ASSUME NEW q \in Requests, Request(q)
      PROVE  client'[r] = client[r]
  BY <1>1, <1>3 DEF Request
<1>4. ASSUME NEW q \in Requests, Break(q) \/ Handle(q)
      PROVE  client' = client
  BY <1>4 DEF Break, Handle, Unauthorized, Get, BadBody, SendRefused, Send, Fire, Retry, SendReturns,
              SendFails
<1> QED
  BY <1>2, <1>3, <1>4 DEF Next, Close, Closed, vars

\* While the server closes, no connection is made.
LEMMA GoneStep ==
  ASSUME IInv, [Next]_vars, NEW r \in Requests, listening = "closing", link[r] # "up"
  PROVE  link'[r] # "up"
<1>1. link \in [Requests -> {"none", "up", "down"}]
  BY DEF IInv, TypeOK
<1>2. ASSUME NEW q \in Requests, Request(q) \/ Wait(q) \/ Break(q)
      PROVE  link'[r] # "up"
  BY <1>1, <1>2 DEF Request, Wait, Receive, Timeout, Broken, Break
<1>3. ASSUME NEW q \in Requests, Handle(q)
      PROVE  link' = link
  BY <1>3 DEF Handle, Unauthorized, Get, BadBody, SendRefused, Send, Fire, Retry, SendReturns, SendFails
<1> QED
  BY <1>2, <1>3 DEF Next, Close, Closed, vars

LEMMA ClosingStep ==
  ASSUME [Next]_vars, listening = "closing"
  PROVE  listening' \in {"closing", "closed"}
BY DEF Next, Request, Wait, Receive, Timeout, Broken, Break, Handle, Unauthorized, Get, BadBody,
       SendRefused, Send, Fire, Retry, SendReturns, SendFails, Close, Closed, vars

\* request() settles its promise although no handler and no layer ever answers.
THEOREM RequestsSettle ==
  ServedSpec =>
    \A r \in Requests : client[r] = "waiting" ~> client[r] \in {"resolved", "rejected"}
<1>1. ASSUME NEW r \in Requests
      PROVE  ServedSpec => (client[r] = "waiting" ~> client[r] \in {"resolved", "rejected"})
  <2>1. ServedSpec => Spec /\ Served(r)
    BY DEF ServedSpec
  <2>2. IInv /\ client[r] = "waiting" /\ [Next]_vars
          => (client[r] = "waiting")' \/ (client[r] \in {"resolved", "rejected"})'
    BY WaitingStep
  <2>3. IInv /\ <<Wait(r)>>_vars => (client[r] \in {"resolved", "rejected"})'
    BY DEF IInv, TypeOK, Wait, Receive, Timeout, Broken, Settle
  <2>4. client[r] # "waiting" <=> ~(client[r] = "waiting")
    OBVIOUS
  <2> QED
    BY <2>1, <2>2, <2>3, <2>4, Invariance, PTL DEF Spec, Served
<1> QED
  BY <1>1

\* Once the server is closing, every connection goes, and for good.
LEMMA ConnectionsGo ==
  ASSUME NEW r \in Requests
  PROVE  ServedSpec /\ <>[](listening = "closing") => <>[](link[r] # "up")
<1>1. ServedSpec => Spec /\ Served(r)
  BY DEF ServedSpec
<1>2. IInv /\ listening = "closing" /\ link[r] # "up" /\ [Next]_vars => (link[r] # "up")'
  BY GoneStep
<1>3. IInv /\ <<Wait(r)>>_vars => (link[r] # "up")'
  BY DEF IInv, TypeOK, Wait, Receive, Timeout, Broken
<1>4. IInv /\ ~(link[r] # "up") => ~(client[r] # "waiting")
  BY DEF IInv, ClientInv
<1> QED
  BY <1>1, <1>2, <1>3, <1>4, Invariance, PTL DEF Spec, Served

\* True of every behaviour when the requests are finitely many: if each
\* connection is gone for good at some time, then at some time all are.  (It
\* takes induction over their set to prove, which tlapm cannot do with temporal
\* formulas.)
AllAtOnce == (\A r \in Requests : <>[](link[r] # "up")) => <>[]Gone

\* close() returns although handlers hang: their clients give up.
THEOREM CloseEnds == ServedSpec /\ AllAtOnce => ServerCloses
<1>1. ServedSpec /\ <>[](listening = "closing") => \A r \in Requests : <>[](link[r] # "up")
  BY ConnectionsGo
<1>2. ServedSpec /\ AllAtOnce /\ <>[](listening = "closing") => <>[]Gone
  BY <1>1 DEF AllAtOnce
<1>3. listening = "closing" /\ [Next]_vars => (listening = "closing")' \/ (listening = "closed")'
  BY ClosingStep
<1>4. <<Closed>>_vars => (listening = "closed")'
  BY DEF Closed
<1> QED
  BY <1>2, <1>3, <1>4, PTL DEF ServedSpec, Spec, ServerCloses
=============================================================================
