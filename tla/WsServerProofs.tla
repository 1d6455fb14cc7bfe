--------------------------- MODULE WsServerProofs ---------------------------
(***************************************************************************)
(* Proofs about the event bus and the WebSocket server's subscriptions on  *)
(* it, for any number of connections, topics, subscribers and publish()    *)
(* calls inside one another.                                               *)
(***************************************************************************)
EXTENDS WsServer, FiniteSetTheorems, TLAPS

Closures == Conns \X (1..MaxSerial)

AnEntry == [topic : Topics, handler : Handlers \cup Closures, set : Nat, place : Nat]

Run == [type : Types, set : Nat, place : Nat, base : SUBSET AnEntry, called : SUBSET AnEntry]

TypeOK ==
  /\ subs \subseteq AnEntry
  /\ serial \in 0..MaxSerial
  /\ frames \in Seq(Run)
  /\ published \in Nat
  /\ ws \in [Conns -> {"new", "open", "closing", "closed"}]
  /\ connSubs \in [Conns -> SUBSET (Topics \X Closures)]

\* Every insertion has a number of its own, and so has every closure.
Numbered ==
  /\ \A e \in subs : e.place \in 1..serial
  /\ \A e \in subs : e.handler \in Closures => e.handler[2] <= serial
  /\ \A i \in DOMAIN frames : \A e \in frames[i].base : e.place \in 1..serial

\* Who was there from the beginning has been called or is still ahead.
StayersAhead ==
  \A i \in DOMAIN frames : \A e \in frames[i].base \cap subs :
    Matches(e.topic, frames[i].type) => e \in frames[i].called \/ Before(frames[i], e)

\* EntriesOf() without the bound on the numbers of closures.
Own(c) == {e \in subs : e.handler \in Closures /\ e.handler[1] = c}

\* The entries of a connection are those it remembers, one for a topic.
Remembered ==
  /\ IsFiniteSet(subs)
  /\ \A c \in Conns :
       /\ {<<e.topic, e.handler>> : e \in Own(c)} = connSubs[c]
       /\ ws[c] \in {"new", "closed"} => connSubs[c] = {}
       /\ \A e, f \in Own(c) : e.topic = f.topic => e = f

IInv == TypeOK /\ Numbered /\ StayersAhead /\ Remembered

-----------------------------------------------------------------------------
\* What the proofs use of Append().
LEMMA AppendFacts ==
  ASSUME NEW S, NEW q \in Seq(S), NEW x \in S
  PROVE  /\ Append(q, x) \in Seq(S) /\ Len(Append(q, x)) = Len(q) + 1
         /\ Append(q, x)[Len(q) + 1] = x
         /\ \A i \in 1..Len(q) : Append(q, x)[i] = q[i]
OBVIOUS

\* The innermost frame replaced by another.
LEMMA TopReplaced ==
  ASSUME NEW S, NEW q \in Seq(S), q # <<>>, NEW x \in S
  PROVE  LET r == Append(Front(q), x)
         IN  /\ r \in Seq(S)
             /\ Len(q) \in Nat /\ Len(q) >= 1
             /\ DOMAIN r = 1..Len(q) /\ DOMAIN q = 1..Len(q)
             /\ r[Len(q)] = x
             /\ \A i \in 1..Len(q) : i # Len(q) => r[i] = q[i]
<1>1. Len(q) \in Nat /\ Len(q) >= 1 /\ DOMAIN q = 1..Len(q)  OBVIOUS
<1>2. /\ Front(q) \in Seq(S) /\ Len(Front(q)) = Len(q) - 1
      /\ \A i \in 1..(Len(q) - 1) : Front(q)[i] = q[i]
  BY <1>1 DEF Front
<1> HIDE DEF Front
<1>4. /\ Append(Front(q), x) \in Seq(S)
      /\ Len(Append(Front(q), x)) = Len(q)
      /\ Append(Front(q), x)[Len(q)] = x
      /\ \A i \in 1..(Len(q) - 1) : Append(Front(q), x)[i] = Front(q)[i]
  <2> DEFINE p == Front(q)
  <2>1. p \in Seq(S) /\ Len(p) = Len(q) - 1  BY <1>2
  <2> HIDE DEF p
  <2>2. /\ Append(p, x) \in Seq(S) /\ Len(Append(p, x)) = Len(p) + 1
        /\ Append(p, x)[Len(p) + 1] = x
        /\ \A i \in 1..Len(p) : Append(p, x)[i] = p[i]
    BY <2>1, AppendFacts
  <2>3. Len(p) + 1 = Len(q)  BY <1>1, <2>1
  <2> QED  BY <2>1, <2>2, <2>3 DEF p
<1> DEFINE r == Append(Front(q), x)
<1> HIDE DEF r
<1>5. /\ r \in Seq(S) /\ Len(r) = Len(q) /\ r[Len(q)] = x
      /\ \A i \in 1..(Len(q) - 1) : r[i] = q[i]
  BY <1>2, <1>4 DEF r
<1>6. DOMAIN r = 1..Len(q)  BY <1>5
<1>7. \A n \in Nat : \A i \in 1..n : i # n => i \in 1..(n - 1)  OBVIOUS
<1>8. \A i \in 1..Len(q) : i # Len(q) => r[i] = q[i]  BY <1>1, <1>5, <1>7
<1> QED  BY <1>1, <1>5, <1>6, <1>8 DEF r

\* publish() has returned.
LEMMA TopDropped ==
  ASSUME NEW S, NEW q \in Seq(S), q # <<>>
  PROVE  /\ Front(q) \in Seq(S)
         /\ DOMAIN Front(q) \subseteq DOMAIN q
         /\ \A i \in DOMAIN Front(q) : Front(q)[i] = q[i]
BY DEF Front

LEMMA Entries ==
  ASSUME TypeOK, Numbered, NEW c \in Conns
  PROVE  EntriesOf(c) = Own(c)
<1>1. ASSUME NEW e \in EntriesOf(c) PROVE e \in Own(c)
  <2>1. PICK n \in 1..serial : e.handler = <<c, n>>  BY <1>1 DEF EntriesOf
  <2>2. n \in 1..MaxSerial  BY EventBusAssumption DEF TypeOK
  <2>3. <<c, n>> \in Closures /\ <<c, n>>[1] = c  BY <2>2 DEF Closures
  <2> QED  BY <1>1, <2>1, <2>3 DEF EntriesOf, Own
<1>2. ASSUME NEW e \in Own(c) PROVE e \in EntriesOf(c)
  <2>1. e.handler = <<c, e.handler[2]>> /\ e.handler[2] \in 1..MaxSerial
    BY <1>2 DEF Closures, Own
  <2>2. e.handler[2] \in 1..serial
    BY <1>2, <2>1, EventBusAssumption DEF Numbered, TypeOK, Own
  <2> QED  BY <1>2, <2>1, <2>2 DEF EntriesOf, Own
<1> QED  BY <1>1, <1>2

LEMMA Initially == Init => IInv
<1> SUFFICES ASSUME Init PROVE IInv  OBVIOUS
<1> USE EventBusAssumption
<1>1. subs = {} /\ serial = 0 /\ frames = <<>> /\ published = 0  BY DEF Init, BusInit
<1>2. TypeOK  BY <1>1 DEF Init, TypeOK
<1>3. Numbered  BY <1>1 DEF Numbered
<1>4. StayersAhead  BY <1>1 DEF StayersAhead
<1>5. Remembered
  <2>1. \A c \in Conns : Own(c) = {} /\ connSubs[c] = {}  BY <1>1 DEF Init, Own
  <2> QED  BY <1>1, <2>1, FS_EmptySet DEF Remembered
<1> QED  BY <1>2, <1>3, <1>4, <1>5 DEF IInv

-----------------------------------------------------------------------------
\* subscribe(), for whoever calls it.
LEMMA SubscribeKeeps ==
  ASSUME TypeOK, Numbered, StayersAhead, IsFiniteSet(subs),
         NEW topic \in Topics, NEW h \in Handlers \cup Closures,
         h \in Closures => h[2] <= serial + 1,
         Subscribe(topic, h)
  PROVE  /\ subs' \subseteq AnEntry /\ serial' \in 0..MaxSerial
         /\ Numbered' /\ StayersAhead' /\ IsFiniteSet(subs')
         /\ \E e : /\ subs' = subs \cup {e}
                   /\ e.topic = topic /\ e.handler = h
<1> USE EventBusAssumption
<1> DEFINE e == [topic |-> topic, handler |-> h, set |-> SetOf(topic), place |-> serial + 1]
<1>1. /\ serial < MaxSerial /\ serial' = serial + 1
      /\ subs' = subs \cup {e}
      /\ UNCHANGED frames
  BY DEF Subscribe
<1>2. serial \in Nat /\ serial + 1 \in Nat /\ serial' \in 0..MaxSerial
  BY <1>1 DEF TypeOK
<1>3. SetOf(topic) \in Nat
  <2>1. CASE \E o \in subs : o.topic = topic
    <3>1. (CHOOSE o \in subs : o.topic = topic) \in subs  BY <2>1
    <3> QED  BY <2>1, <3>1 DEF SetOf, TypeOK, AnEntry
  <2>2. CASE ~ \E o \in subs : o.topic = topic  BY <1>2, <2>2 DEF SetOf
  <2> QED  BY <2>1, <2>2
<1>4. e \in AnEntry  BY <1>2, <1>3 DEF AnEntry
<1>5. e.topic = topic /\ e.handler = h /\ e.place = serial + 1  OBVIOUS
<1> HIDE DEF e
<1>6. Numbered'
  <2>4. \A i \in DOMAIN frames' : \A o \in frames'[i].base : o.place \in 1..serial'
    BY <1>1, <1>2 DEF Numbered
  <2>1. \A o \in subs : o.place \in 1..serial'
    BY <1>1, <1>2 DEF Numbered
  <2>2. ASSUME NEW o \in subs, o.handler \in Closures PROVE o.handler[2] <= serial'
    <3>1. o.handler[2] \in Nat /\ o.handler[2] <= serial
      BY <2>2 DEF Numbered, Closures
    <3> QED  BY <1>1, <1>2, <3>1
  <2>3. e.place \in 1..serial' /\ (e.handler \in Closures => e.handler[2] <= serial')
    BY <1>1, <1>2, <1>5
  <2> QED  BY <1>1, <2>1, <2>2, <2>3, <2>4 DEF Numbered
<1>7. StayersAhead'
  <2>1. ASSUME NEW i \in DOMAIN frames, NEW o \in frames[i].base \cap subs', Matches(o.topic, frames[i].type)
        PROVE  o \in frames[i].called \/ Before(frames[i], o)
    <3>1. CASE o \in subs  BY <2>1, <3>1 DEF StayersAhead
    <3>2. o.place \in 1..serial  BY <2>1 DEF Numbered
    <3>3. o # e  BY <1>2, <1>5, <3>2
    <3> QED  BY <1>1, <2>1, <3>1, <3>3
  <2> QED  BY <1>1, <2>1 DEF StayersAhead
<1>8. IsFiniteSet(subs')  BY <1>1, FS_AddElement
<1> QED  BY <1>1, <1>2, <1>4, <1>5, <1>6, <1>7, <1>8 DEF TypeOK
\* The steps of the bus, by outsiders and subscribers alike.

LEMMA PublishBeginsKeeps ==
  ASSUME TypeOK, Numbered, StayersAhead, NEW type \in Types, PublishBegins(type)
  PROVE  frames' \in Seq(Run) /\ published' \in Nat /\ Numbered' /\ StayersAhead'
<1> DEFINE f == [type |-> type, set |-> 0, place |-> 0, base |-> subs, called |-> {}]
<1>1. /\ frames' = Append(frames, f) /\ published' = published + 1
      /\ UNCHANGED <<subs, serial>>
  BY DEF PublishBegins
<1>2. f \in Run  BY DEF TypeOK, Run
<1>3. f.type = type /\ f.base = subs /\ f.set = 0 /\ f.place = 0  OBVIOUS
<1> HIDE DEF f
<1>4. /\ frames' \in Seq(Run) /\ published' \in Nat
      /\ frames'[Len(frames) + 1] = f
      /\ DOMAIN frames' = (DOMAIN frames) \cup {Len(frames) + 1}
      /\ \A i \in DOMAIN frames : frames'[i] = frames[i]
  BY <1>1, <1>2 DEF TypeOK
<1>5. Numbered'
  BY <1>1, <1>3, <1>4 DEF Numbered
<1>6. StayersAhead'
  <2>1. ASSUME NEW e \in subs PROVE Before(f, e)
    <3>1. e.set \in Nat /\ e.place \in Nat /\ e.place > 0  BY DEF TypeOK, AnEntry, Numbered
    <3> QED  BY <1>3, <3>1 DEF Before
  <2>2. ASSUME NEW i \in DOMAIN frames', NEW e \in frames'[i].base \cap subs, Matches(e.topic, frames'[i].type)
        PROVE  e \in frames'[i].called \/ Before(frames'[i], e)
    <3>1. CASE i \in DOMAIN frames  BY <1>4, <2>2, <3>1 DEF StayersAhead
    <3>2. CASE i = Len(frames) + 1  BY <1>4, <2>1, <3>2
    <3> QED  BY <1>4, <3>1, <3>2
  <2> QED  BY <1>1, <2>2 DEF StayersAhead
<1> QED  BY <1>4, <1>5, <1>6

LEMMA UnsubscribeKeeps ==
  ASSUME Numbered, StayersAhead, subs' \subseteq subs, UNCHANGED <<serial, frames>>
  PROVE  Numbered' /\ StayersAhead'
BY DEF Numbered, StayersAhead

\* The next subscriber is the first of those ahead, so nobody is passed over.
LEMMA CallKeeps ==
  ASSUME TypeOK, Numbered, StayersAhead, Call
  PROVE  frames' \in Seq(Run) /\ Numbered' /\ StayersAhead'
<1> DEFINE f == Last(frames)
<1>1. PICK e \in Ahead(f) :
        /\ \A o \in Ahead(f) : o = e \/ Before(e, o)
        /\ frames' = Append(Front(frames),
                       [f EXCEPT !.set = e.set, !.place = e.place, !.called = @ \cup {e}])
  BY DEF Call
<1> DEFINE g == [f EXCEPT !.set = e.set, !.place = e.place, !.called = @ \cup {e}]
<1>2. frames # <<>> /\ UNCHANGED <<subs, serial>>  BY DEF Call
<1>3. e \in subs /\ e \in AnEntry  BY DEF Ahead, TypeOK
<1>4. f \in Run /\ f = frames[Len(frames)] /\ Len(frames) \in DOMAIN frames
  BY <1>2 DEF TypeOK, Last
<1>5. /\ g \in Run
      /\ g.type = f.type /\ g.base = f.base /\ g.called = f.called \cup {e}
      /\ g.set = e.set /\ g.place = e.place
  BY <1>3, <1>4 DEF Run, AnEntry
<1>6. frames' = Append(Front(frames), g)  BY <1>1
<1> HIDE DEF f, g
<1>7. /\ frames' \in Seq(Run)
      /\ Len(frames) \in Nat /\ Len(frames) >= 1
      /\ DOMAIN frames' = 1..Len(frames) /\ DOMAIN frames = 1..Len(frames)
      /\ frames'[Len(frames)] = g
      /\ \A i \in 1..Len(frames) : i # Len(frames) => frames'[i] = frames[i]
  BY <1>2, <1>5, <1>6, TopReplaced DEF TypeOK
<1>8. \A i \in DOMAIN frames' : frames'[i].base = frames[i].base /\ frames'[i].type = frames[i].type
  BY <1>4, <1>5, <1>7
<1>9. Numbered'  BY <1>2, <1>7, <1>8 DEF Numbered
<1>10. StayersAhead'
  <2>1. ASSUME NEW i \in DOMAIN frames', NEW o \in frames'[i].base \cap subs, Matches(o.topic, frames'[i].type)
        PROVE  o \in frames'[i].called \/ Before(frames'[i], o)
    <3>1. o \in frames[i].called \/ Before(frames[i], o)
      BY <1>7, <1>8, <2>1 DEF StayersAhead
    <3>2. CASE i # Len(frames)  BY <1>7, <3>1, <3>2
    <3>3. CASE i = Len(frames) /\ o \in f.called  BY <1>5, <1>7, <3>3
    <3>4. CASE i = Len(frames) /\ Before(f, o)
      <4>1. o \in Ahead(f)  BY <1>4, <1>8, <2>1, <3>4 DEF Ahead
      <4>2. o = e \/ Before(e, o)  BY <1>1, <4>1
      <4>3. Before(e, o) => Before(g, o)  BY <1>5 DEF Before
      <4> QED  BY <1>5, <1>7, <3>4, <4>2, <4>3
    <3> QED  BY <1>4, <3>1, <3>2, <3>3, <3>4
  <2> QED  BY <1>2, <2>1 DEF StayersAhead
<1> QED  BY <1>7, <1>9, <1>10

LEMMA PublishEndsKeeps ==
  ASSUME TypeOK, Numbered, StayersAhead, PublishEnds
  PROVE  frames' \in Seq(Run) /\ Numbered' /\ StayersAhead'
<1>1. /\ frames' \in Seq(Run)
      /\ DOMAIN frames' \subseteq DOMAIN frames
      /\ \A i \in DOMAIN frames' : frames'[i] = frames[i]
  BY TopDropped DEF PublishEnds, TypeOK
<1>2. UNCHANGED <<subs, serial>>  BY DEF PublishEnds
<1> QED  BY <1>1, <1>2 DEF Numbered, StayersAhead
-----------------------------------------------------------------------------
\* The subscribers of the process cannot touch what a connection has subscribed.
LEMMA BusStep ==
  ASSUME IInv, BusNext, UNCHANGED <<ws, connSubs>>
  PROVE  IInv'
<1> USE EventBusAssumption, ServerAssumption
<1>1. TypeOK /\ Numbered /\ StayersAhead /\ Remembered /\ IsFiniteSet(subs)
  BY DEF IInv, Remembered
<1>2. ASSUME NEW topic \in Topics, NEW h \in Handlers, Subscribe(topic, h) PROVE IInv'
  <2>1. h \notin Closures  BY DEF Closures
  <2>2. /\ subs' \subseteq AnEntry /\ serial' \in 0..MaxSerial
        /\ Numbered' /\ StayersAhead' /\ IsFiniteSet(subs')
    BY <1>1, <1>2, <2>1, SubscribeKeeps
  <2>3. PICK e : subs' = subs \cup {e} /\ e.topic = topic /\ e.handler = h
    BY <1>1, <1>2, <2>1, SubscribeKeeps
  <2>4. \A c \in Conns : Own(c)' = Own(c)  BY <2>1, <2>3 DEF Own
  <2>5. Remembered'  BY <1>1, <2>2, <2>4 DEF Remembered
  <2>6. TypeOK'  BY <1>1, <1>2, <2>2 DEF TypeOK, Subscribe
  <2> QED  BY <2>2, <2>5, <2>6 DEF IInv
<1>3. ASSUME NEW topic \in Topics, NEW h \in Handlers, Unsubscribe(topic, h) PROVE IInv'
  <2>1. /\ subs' = {e \in subs : ~(e.topic = topic /\ e.handler = h)}
        /\ UNCHANGED <<serial, frames, published>>
    BY <1>3 DEF Unsubscribe
  <2>2. Numbered' /\ StayersAhead'  BY <1>1, <2>1, UnsubscribeKeeps
  <2>3. IsFiniteSet(subs')  BY <1>1, <2>1, FS_Subset
  <2>4. \A c \in Conns : Own(c)' = Own(c)  BY <2>1 DEF Own, Closures
  <2>5. Remembered'  BY <1>1, <2>3, <2>4 DEF Remembered
  <2>6. TypeOK'  BY <1>1, <2>1 DEF TypeOK
  <2> QED  BY <2>2, <2>5, <2>6 DEF IInv
<1>4. ASSUME NEW type \in Types, PublishBegins(type) PROVE IInv'
  <2>1. frames' \in Seq(Run) /\ published' \in Nat /\ Numbered' /\ StayersAhead'
    BY <1>1, <1>4, PublishBeginsKeeps
  <2>2. UNCHANGED <<subs, serial>>  BY <1>4 DEF PublishBegins
  <2>3. Remembered'  BY <1>1, <2>2 DEF Remembered, Own
  <2>4. TypeOK'  BY <1>1, <2>1, <2>2 DEF TypeOK
  <2> QED  BY <2>1, <2>3, <2>4 DEF IInv
<1>5. ASSUME Loop PROVE IInv'
  <2>1. frames' \in Seq(Run) /\ Numbered' /\ StayersAhead'
    BY <1>1, <1>5, CallKeeps, PublishEndsKeeps DEF Loop
  <2>2. UNCHANGED <<subs, serial, published>>  BY <1>5 DEF Loop, Call, PublishEnds
  <2>3. Remembered'  BY <1>1, <2>2 DEF Remembered, Own
  <2>4. TypeOK'  BY <1>1, <2>1, <2>2 DEF TypeOK
  <2> QED  BY <2>1, <2>3, <2>4 DEF IInv
<1> QED  BY <1>2, <1>3, <1>4, <1>5 DEF BusNext

\* What a connection subscribes is new to it.
LEMMA OnSubscribeStep ==
  ASSUME IInv, NEW c \in Conns, NEW topic \in Topics, OnSubscribe(c, topic)
  PROVE  IInv'
<1> USE EventBusAssumption
<1>1. TypeOK /\ Numbered /\ StayersAhead /\ Remembered /\ IsFiniteSet(subs)
  BY DEF IInv, Remembered
<1> DEFINE h == <<c, serial + 1>>
<1>2. /\ Subscribe(topic, h) /\ ws[c] \in {"open", "closing"} /\ topic \notin TopicsOf(c)
      /\ connSubs' = [connSubs EXCEPT ![c] = @ \cup {<<topic, h>>}]
      /\ UNCHANGED <<ws, frames, published>>
  BY DEF OnSubscribe, Receives, Closure, Subscribe
<1>3. h \in Closures /\ h[1] = c /\ h[2] = serial + 1
  BY <1>1, <1>2 DEF Subscribe, TypeOK, Closures
<1>4. h[2] <= serial + 1  BY <1>1, <1>3 DEF TypeOK
<1> HIDE DEF h
<1>5. /\ subs' \subseteq AnEntry /\ serial' \in 0..MaxSerial
      /\ Numbered' /\ StayersAhead' /\ IsFiniteSet(subs')
      /\ \E e : subs' = subs \cup {e} /\ e.topic = topic /\ e.handler = h
  BY <1>1, <1>2, <1>3, <1>4, SubscribeKeeps
<1>6. PICK e : subs' = subs \cup {e} /\ e.topic = topic /\ e.handler = h  BY <1>5
<1>7. /\ connSubs'[c] = connSubs[c] \cup {<<topic, h>>}
      /\ \A d \in Conns : d # c => connSubs'[d] = connSubs[d]
      /\ connSubs' \in [Conns -> SUBSET (Topics \X Closures)]
  BY <1>1, <1>2, <1>3 DEF TypeOK
<1>8. TypeOK'  BY <1>1, <1>2, <1>5, <1>7 DEF TypeOK
<1>9. /\ Own(c)' = Own(c) \cup {e}
      /\ \A d \in Conns : d # c => Own(d)' = Own(d)
  BY <1>3, <1>6 DEF Own
<1>10. \A o \in Own(c) : o.topic # topic
  <2>1. ASSUME NEW o \in Own(c) PROVE o.topic \in TopicsOf(c)
    <3>1. <<o.topic, o.handler>> \in connSubs[c]  BY <1>1 DEF Remembered
    <3> QED  BY <3>1 DEF TopicsOf
  <2> QED  BY <1>2, <2>1
<1>11. {<<o.topic, o.handler>> : o \in Own(c)'} = connSubs'[c]
  BY <1>1, <1>6, <1>7, <1>9 DEF Remembered
<1>12. \A o, f \in Own(c)' : o.topic = f.topic => o = f
  BY <1>1, <1>6, <1>9, <1>10 DEF Remembered
<1>13. Remembered'
  <2>1. ASSUME NEW d \in Conns
        PROVE  /\ {<<o.topic, o.handler>> : o \in Own(d)'} = connSubs'[d]
               /\ ws'[d] \in {"new", "closed"} => connSubs'[d] = {}
               /\ \A o, f \in Own(d)' : o.topic = f.topic => o = f
    <3>1. CASE d = c  BY <1>2, <1>11, <1>12, <3>1
    <3>2. CASE d # c  BY <1>1, <1>2, <1>7, <1>9, <3>2 DEF Remembered
    <3> QED  BY <3>1, <3>2
  <2> QED  BY <1>5, <2>1 DEF Remembered
<1> QED  BY <1>5, <1>8, <1>13 DEF IInv

\* A connection gives up one of its subscriptions, or all of them.
LEMMA LeaveSteps ==
  ASSUME IInv, NEW c \in Conns,
         (\E topic \in Topics : OnUnsubscribe(c, topic)) \/ OnClose(c)
  PROVE  IInv'
<1>1. TypeOK /\ Numbered /\ StayersAhead /\ Remembered /\ IsFiniteSet(subs)
  BY DEF IInv, Remembered
<1>2. PICK gone \in SUBSET connSubs[c] :
        /\ subs' = {e \in subs : <<e.topic, e.handler>> \notin gone}
        /\ connSubs' = [connSubs EXCEPT ![c] = @ \ gone]
        /\ ws' = ws \/ (ws' = [ws EXCEPT ![c] = "closed"] /\ gone = connSubs[c])
        /\ ws[c] \in {"open", "closing"}
        /\ UNCHANGED <<serial, frames, published>>
  <2>1. ASSUME NEW topic \in Topics, OnUnsubscribe(c, topic) PROVE
          \E gone \in SUBSET connSubs[c] :
            /\ subs' = {e \in subs : <<e.topic, e.handler>> \notin gone}
            /\ connSubs' = [connSubs EXCEPT ![c] = @ \ gone]
            /\ ws' = ws
            /\ ws[c] \in {"open", "closing"}
            /\ UNCHANGED <<serial, frames, published>>
    <3>1. PICK sub \in connSubs[c] :
            /\ sub[1] = topic
            /\ Unsubscribe(topic, sub[2])
            /\ connSubs' = [connSubs EXCEPT ![c] = @ \ {sub}]
      BY <2>1 DEF OnUnsubscribe, Receives
    <3>2. sub = <<topic, sub[2]>>  BY <1>1, <3>1 DEF TypeOK
    <3>3. subs' = {e \in subs : <<e.topic, e.handler>> \notin {sub}}
      BY <3>1, <3>2 DEF Unsubscribe
    <3> QED  BY <2>1, <3>1, <3>3 DEF OnUnsubscribe, Receives, Unsubscribe
  <2>2. ASSUME OnClose(c) PROVE
            /\ subs' = {e \in subs : <<e.topic, e.handler>> \notin connSubs[c]}
            /\ connSubs' = [connSubs EXCEPT ![c] = @ \ connSubs[c]]
            /\ ws' = [ws EXCEPT ![c] = "closed"]
            /\ ws[c] \in {"open", "closing"}
            /\ UNCHANGED <<serial, frames, published>>
    <3>1. connSubs[c] \ connSubs[c] = {}  OBVIOUS
    <3> QED  BY <2>2, <3>1 DEF OnClose
  <2> QED  BY <2>1, <2>2
<1>3. /\ connSubs'[c] = connSubs[c] \ gone
      /\ \A d \in Conns : d # c => connSubs'[d] = connSubs[d] /\ ws'[d] = ws[d]
      /\ ws'[c] \in {"open", "closing"} \/ gone = connSubs[c]
      /\ connSubs' \in [Conns -> SUBSET (Topics \X Closures)]
      /\ ws' \in [Conns -> {"new", "open", "closing", "closed"}]
  BY <1>1, <1>2 DEF TypeOK
<1>4. TypeOK'  BY <1>1, <1>2, <1>3 DEF TypeOK
<1>5. Numbered' /\ StayersAhead'  BY <1>1, <1>2, UnsubscribeKeeps
<1>6. IsFiniteSet(subs')  BY <1>1, <1>2, FS_Subset
<1>7. Own(c)' = {e \in Own(c) : <<e.topic, e.handler>> \notin gone}
  BY <1>2 DEF Own
<1>8. \A d \in Conns : d # c => Own(d)' = Own(d)
  <2>1. ASSUME NEW d \in Conns, d # c, NEW e \in Own(d) PROVE <<e.topic, e.handler>> \notin gone
    <3>1. SUFFICES ASSUME <<e.topic, e.handler>> \in connSubs[c] PROVE FALSE  BY <1>2
    <3>2. PICK o \in Own(c) : <<o.topic, o.handler>> = <<e.topic, e.handler>>
      BY <1>1, <3>1 DEF Remembered
    <3> QED  BY <2>1, <3>2 DEF Own
  <2> QED  BY <1>2, <2>1 DEF Own
<1>9. Remembered'
  <2>1. {<<e.topic, e.handler>> : e \in Own(c)} = connSubs[c]  BY <1>1 DEF Remembered
  <2>2. {<<e.topic, e.handler>> : e \in Own(c)'} = connSubs'[c]  BY <1>3, <1>7, <2>1
  <2>3. ASSUME NEW d \in Conns
        PROVE  /\ {<<o.topic, o.handler>> : o \in Own(d)'} = connSubs'[d]
               /\ ws'[d] \in {"new", "closed"} => connSubs'[d] = {}
               /\ \A o, f \in Own(d)' : o.topic = f.topic => o = f
    <3>1. CASE d = c  BY <1>1, <1>3, <1>7, <2>2, <3>1 DEF Remembered
    <3>2. CASE d # c  BY <1>1, <1>3, <1>8, <3>2 DEF Remembered
    <3> QED  BY <3>1, <3>2
  <2> QED  BY <1>6, <2>3 DEF Remembered
<1> QED  BY <1>4, <1>5, <1>9 DEF IInv

LEMMA NextKeeps == IInv /\ [Next]_wsVars => IInv'
<1> SUFFICES ASSUME IInv, [Next]_wsVars PROVE IInv'  OBVIOUS
<1>1. CASE BusNext /\ UNCHANGED <<ws, connSubs>>  BY <1>1, BusStep
<1>2. ASSUME NEW c \in Conns, OnConnection(c) \/ Closing(c) PROVE IInv'
  <2>1. /\ \/ ws[c] = "new" /\ ws' = [ws EXCEPT ![c] = "open"]
           \/ ws[c] = "open" /\ ws' = [ws EXCEPT ![c] = "closing"]
        /\ UNCHANGED <<subs, serial, frames, published, connSubs>>
    BY <1>2 DEF OnConnection, Closing, busVars
  <2>2. TypeOK'  BY <2>1 DEF IInv, TypeOK
  <2>3. \A d \in Conns : ws'[d] \in {"new", "closed"} => ws[d] \in {"new", "closed"}
    BY <2>1 DEF IInv, TypeOK
  <2>4. Numbered' /\ StayersAhead' /\ Remembered'
    BY <2>1, <2>3 DEF IInv, Numbered, StayersAhead, Remembered, Own
  <2> QED  BY <2>2, <2>4 DEF IInv
<1>3. ASSUME NEW c \in Conns, NEW topic \in Topics, OnSubscribe(c, topic) PROVE IInv'
  BY <1>3, OnSubscribeStep
<1>4. ASSUME NEW c \in Conns, (\E topic \in Topics : OnUnsubscribe(c, topic)) \/ OnClose(c) PROVE IInv'
  BY <1>4, LeaveSteps
<1>5. CASE UNCHANGED wsVars
  BY <1>5 DEF wsVars, busVars, IInv, TypeOK, Numbered, StayersAhead, Remembered, Own
<1> QED  BY <1>1, <1>2, <1>3, <1>4, <1>5 DEF Next

\* The bus, its loops and the connections agree as IInv says, however many
\* there are.
THEOREM Invariance == Spec => []IInv
<1>1. IInv /\ [Next]_wsVars => IInv'  BY NextKeeps
<1> QED  BY <1>1, Initially, PTL DEF Spec

\* publish() calls whoever was and stayed subscribed, whatever subscribers do
\* to the bus inside it and however deep they publish themselves.
THEOREM StayersAreCalled == Spec => []EveryStayerIsCalled
<1>1. IInv => EveryStayerIsCalled
  <2> SUFFICES ASSUME IInv, NEW i \in DOMAIN frames, Ahead(frames[i]) = {},
                      NEW e \in frames[i].base \cap subs, Matches(e.topic, frames[i].type)
               PROVE  e \in frames[i].called
    BY DEF EveryStayerIsCalled
  <2>1. e \in frames[i].called \/ Before(frames[i], e)  BY DEF IInv, StayersAhead
  <2>2. ~Before(frames[i], e)  BY DEF Ahead
  <2> QED  BY <2>1, <2>2
<1> QED  BY <1>1, Invariance, PTL

\* The entries of the bus and the subscriptions the server remembers for a
\* connection are the same, and a connection that has gone has none.
THEOREM ConnectionsCleanUp == Spec => []NothingLeftBehind
<1>1. IInv => NothingLeftBehind
  <2> SUFFICES ASSUME IInv, NEW c \in Conns
               PROVE  /\ {<<e.topic, e.handler>> : e \in EntriesOf(c)} = connSubs[c]
                      /\ Cardinality(TopicsOf(c)) = Cardinality(EntriesOf(c))
                      /\ ws[c] \in {"new", "closed"} => EntriesOf(c) = {}
    BY DEF NothingLeftBehind
  <2>1. EntriesOf(c) = Own(c)  BY Entries DEF IInv
  <2>2. {<<e.topic, e.handler>> : e \in Own(c)} = connSubs[c]  BY DEF IInv, Remembered
  <2>3. ws[c] \in {"new", "closed"} => Own(c) = {}
    <3>1. ws[c] \in {"new", "closed"} => connSubs[c] = {}  BY DEF IInv, Remembered
    <3>2. \A e \in Own(c) : <<e.topic, e.handler>> \in connSubs[c]  BY <2>2
    <3> QED  BY <3>1, <3>2
  <2>4. TopicsOf(c) = {e.topic : e \in Own(c)}
    <3>1. ASSUME NEW t \in TopicsOf(c) PROVE \E e \in Own(c) : e.topic = t
      <4>1. PICK sub \in connSubs[c] : sub[1] = t  BY DEF TopicsOf
      <4>2. PICK e \in Own(c) : sub = <<e.topic, e.handler>>  BY <2>2
      <4> QED  BY <4>1, <4>2
    <3>2. ASSUME NEW e \in Own(c) PROVE e.topic \in TopicsOf(c)
      <4>1. <<e.topic, e.handler>> \in connSubs[c] /\ <<e.topic, e.handler>>[1] = e.topic
        BY <2>2
      <4> QED  BY <4>1 DEF TopicsOf
    <3> QED  BY <3>1, <3>2
  <2>5. IsFiniteSet(Own(c))  BY FS_Subset DEF IInv, Remembered, Own
  <2>6. ExistsBijection(Own(c), TopicsOf(c))
    <3> DEFINE topicOf == [e \in Own(c) |-> e.topic]
    <3>1. topicOf \in Bijection(Own(c), TopicsOf(c))
      <4>1. \A e, f \in Own(c) : e.topic = f.topic => e = f  BY DEF IInv, Remembered
      <4>2. topicOf \in [Own(c) -> TopicsOf(c)]  BY <2>4
      <4>3. \A t \in TopicsOf(c) : \E e \in Own(c) : topicOf[e] = t  BY <2>4
      <4> QED  BY <4>1, <4>2, <4>3 DEF Bijection, Injection, Surjection, IsInjective
    <3> QED  BY <3>1 DEF ExistsBijection
  <2>7. Cardinality(TopicsOf(c)) = Cardinality(Own(c))  BY <2>5, <2>6, FS_Bijection
  <2> QED  BY <2>1, <2>2, <2>3, <2>7
<1> QED  BY <1>1, Invariance, PTL

-----------------------------------------------------------------------------
(***************************************************************************)
(* Liveness: every publish() returns.                                      *)
(***************************************************************************)

\* The fairness of WsServer: subscribers return, so that the loop goes on as
\* long as a publish() is under way.
ServedSpec == Spec /\ ([]<>(frames = <<>>) \/ []<><<Loop /\ UNCHANGED <<ws, connSubs>>>>_wsVars)

\* Nobody subscribes and nobody publishes.
BusIsQuiet == UNCHANGED <<serial, published>>

\* How many subscribers the innermost publish() has still to call.
Left == IF frames = <<>> THEN 0 ELSE Cardinality(Ahead(Last(frames)))

\* True of every behaviour: a natural number that has a bound and never falls,
\* or that from some time on does not grow, changes only finitely often.  (Both
\* take induction over the number to prove, which tlapm cannot do with temporal
\* formulas.)
ClimbEnds(n, top) == [](n \in 0..top) /\ [][n' >= n]_wsVars => <>[][n' = n]_wsVars
DescentEnds(n) == [](n \in Nat) /\ <>[][n' <= n]_wsVars => <>[][n' = n]_wsVars

\* A step adds an entry, removes some, begins a publish() or goes on with one.
LEMMA StepKinds ==
  ASSUME [Next]_wsVars
  PROVE  \/ serial < MaxSerial /\ serial' = serial + 1 /\ UNCHANGED <<frames, published>>
         \/ subs' \subseteq subs /\ UNCHANGED <<serial, frames, published>>
         \/ published < MaxPublish /\ published' = published + 1 /\ UNCHANGED serial
         \/ Loop /\ UNCHANGED <<subs, serial, published>>
<1>1. ASSUME NEW topic, NEW h, Subscribe(topic, h)
      PROVE  serial < MaxSerial /\ serial' = serial + 1 /\ UNCHANGED <<frames, published>>
  BY <1>1 DEF Subscribe
<1>2. ASSUME NEW topic, NEW h, Unsubscribe(topic, h)
      PROVE  subs' \subseteq subs /\ UNCHANGED <<serial, frames, published>>
  BY <1>2 DEF Unsubscribe
<1>3. ASSUME NEW type, PublishBegins(type)
      PROVE  published < MaxPublish /\ published' = published + 1 /\ UNCHANGED serial
  BY <1>3 DEF PublishBegins
<1>4. Loop => UNCHANGED <<subs, serial, published>>  BY DEF Loop, Call, PublishEnds
<1>5. ASSUME NEW c \in Conns, OnConnection(c) \/ Closing(c) \/ OnClose(c)
      PROVE  subs' \subseteq subs /\ UNCHANGED <<serial, frames, published>>
  BY <1>5 DEF OnConnection, Closing, OnClose, busVars
<1>6. UNCHANGED wsVars => subs' \subseteq subs /\ UNCHANGED <<serial, frames, published>>
  BY DEF wsVars, busVars
<1> QED  BY <1>1, <1>2, <1>3, <1>4, <1>5, <1>6 DEF Next, BusNext, OnSubscribe, OnUnsubscribe

\* serial and published only grow, up to their bounds.
LEMMA CountsGrow == IInv /\ [Next]_wsVars => serial' >= serial /\ published' >= published
<1>1. IInv => serial \in Nat /\ published \in Nat  BY EventBusAssumption DEF IInv, TypeOK
<1> QED  BY <1>1, StepKinds

LEMMA PublishedInvariance == Spec => [](published \in 0..MaxPublish)
<1>1. Init => published \in 0..MaxPublish  BY EventBusAssumption DEF Init, BusInit
<1>2. published \in 0..MaxPublish /\ [Next]_wsVars => (published \in 0..MaxPublish)'
  BY EventBusAssumption, StepKinds
<1> QED  BY <1>1, <1>2, PTL DEF Spec

\* While the bus is quiet, entries only go, and the call stack moves by the
\* loop alone.
LEMMA QuietStep ==
  ASSUME IInv, [Next]_wsVars, BusIsQuiet
  PROVE  /\ subs' \subseteq subs
         /\ frames' = frames \/ Loop
<1>1. serial \in Nat /\ published \in Nat /\ serial' = serial /\ published' = published
  BY EventBusAssumption DEF IInv, TypeOK, BusIsQuiet
<1> QED  BY <1>1, StepKinds

LEMMA AheadFinite ==
  ASSUME IInv, NEW f
  PROVE  IsFiniteSet(Ahead(f))
BY FS_Subset DEF IInv, Remembered, Ahead

\* A call of the loop leaves one subscriber fewer ahead.
LEMMA CallPasses ==
  ASSUME IInv, Call
  PROVE  /\ Len(frames') = Len(frames) /\ frames' # <<>> /\ frames # <<>>
         /\ \E e \in Ahead(Last(frames)) : Ahead(Last(frames))' \subseteq Ahead(Last(frames)) \ {e}
<1> DEFINE f == Last(frames)
<1>1. PICK e \in Ahead(f) :
        frames' = Append(Front(frames),
                    [f EXCEPT !.set = e.set, !.place = e.place, !.called = @ \cup {e}])
  BY DEF Call
<1> DEFINE g == [f EXCEPT !.set = e.set, !.place = e.place, !.called = @ \cup {e}]
<1>2. frames # <<>> /\ subs' = subs /\ frames \in Seq(Run) /\ subs \subseteq AnEntry
  BY DEF Call, IInv, TypeOK
<1>3. e \in AnEntry /\ e.set \in Nat /\ e.place \in Nat  BY <1>2 DEF Ahead, AnEntry
<1>4. f \in Run /\ f.set \in Nat /\ f.place \in Nat
  <2>1. f = frames[Len(frames)] /\ Len(frames) \in DOMAIN frames  BY <1>2 DEF Last
  <2>2. f \in Run  BY <1>2, <2>1
  <2> QED  BY <2>2 DEF Run
<1>5. g \in Run /\ g.type = f.type /\ g.set = e.set /\ g.place = e.place
  BY <1>3, <1>4, <1>2 DEF Run, AnEntry
<1>6. frames' = Append(Front(frames), g)  BY <1>1
<1> HIDE DEF f, g
<1>7. /\ frames' \in Seq(Run) /\ Len(frames) \in Nat /\ Len(frames) >= 1
      /\ DOMAIN frames' = 1..Len(frames) /\ frames'[Len(frames)] = g
  BY <1>2, <1>5, <1>6, TopReplaced
<1>8. Len(frames') = Len(frames) /\ frames' # <<>> /\ Last(frames') = g
  <2>1. Len(frames') \in Nat /\ DOMAIN frames' = 1..Len(frames')  BY <1>7
  <2>2. Len(frames') = Len(frames)  BY <1>7, <2>1
  <2> QED  BY <1>7, <2>2 DEF Last
<1>9. ASSUME NEW o \in Ahead(g) PROVE o \in Ahead(f) \ {e}
  <2>1. o \in subs /\ Matches(o.topic, f.type) /\ Before(g, o)  BY <1>5 DEF Ahead
  <2>2. o.set \in Nat /\ o.place \in Nat  BY <1>2, <2>1 DEF AnEntry
  <2>3. Before(f, e)  BY <1>1 DEF Ahead, f
  <2>4. Before(f, o) /\ o # e  BY <1>3, <1>4, <1>5, <2>1, <2>2, <2>3 DEF Before
  <2> QED  BY <2>1, <2>4 DEF Ahead
<1>10. Ahead(Last(frames))' = Ahead(g)
  <2>1. Ahead(Last(frames))' = {x \in subs' : Matches(x.topic, Last(frames').type) /\ Before(Last(frames'), x)}
    BY DEF Ahead
  <2> QED  BY <1>2, <1>8, <2>1 DEF Ahead
<1> QED  BY <1>1, <1>2, <1>8, <1>9, <1>10 DEF f

\* A return takes its run from the call stack.
LEMMA ReturnPops ==
  ASSUME NEW S, NEW q \in Seq(S), q # <<>>
  PROVE  Len(q) \in Nat /\ Len(Front(q)) = Len(q) - 1
<1>1. Len(q) \in Nat /\ Len(q) >= 1 /\ DOMAIN q = 1..Len(q)  OBVIOUS
<1>2. /\ Front(q) \in Seq(S) /\ Len(Front(q)) = Len(q) - 1
      /\ \A i \in 1..(Len(q) - 1) : Front(q)[i] = q[i]
  BY <1>1 DEF Front
<1> QED  BY <1>1, <1>2

\* While the bus is quiet the stack does not grow; as long as it does not
\* shrink either, fewer and fewer subscribers are left.
LEMMA QuietDescends ==
  ASSUME IInv, IInv', [Next]_wsVars, BusIsQuiet
  PROVE  /\ Len(frames') <= Len(frames)
         /\ Len(frames') = Len(frames) => Left' <= Left
         /\ Loop => Len(frames') # Len(frames) \/ Left' # Left
<1>1. Len(frames) \in Nat /\ (frames = <<>> <=> Len(frames) = 0)  BY DEF IInv, TypeOK
<1>2. subs' \subseteq subs /\ (frames' = frames \/ Loop)  BY QuietStep
<1>3. CASE PublishEnds
  <2>1. frames # <<>> /\ frames \in Seq(Run) /\ frames' = Front(frames)
    BY <1>3 DEF PublishEnds, IInv, TypeOK
  <2>2. Len(frames') = Len(frames) - 1  BY <2>1, ReturnPops
  <2> QED  BY <1>1, <2>2
<1>4. CASE Call
  <2>1. /\ Len(frames') = Len(frames) /\ frames' # <<>> /\ frames # <<>>
        /\ \E e \in Ahead(Last(frames)) : Ahead(Last(frames))' \subseteq Ahead(Last(frames)) \ {e}
    BY <1>4, CallPasses
  <2>2. PICK e \in Ahead(Last(frames)) : Ahead(Last(frames))' \subseteq Ahead(Last(frames)) \ {e}
    BY <2>1
  <2>3. IsFiniteSet(Ahead(Last(frames))) /\ IsFiniteSet(Ahead(Last(frames)) \ {e})
    BY AheadFinite, FS_RemoveElement
  <2>4. /\ Cardinality(Ahead(Last(frames)) \ {e}) = Cardinality(Ahead(Last(frames))) - 1
        /\ Cardinality(Ahead(Last(frames))) \in Nat
    BY <2>3, FS_RemoveElement, FS_CardinalityType
  <2>5. /\ Cardinality(Ahead(Last(frames))') <= Cardinality(Ahead(Last(frames)) \ {e})
        /\ Cardinality(Ahead(Last(frames))') \in Nat
    BY <2>2, <2>3, FS_Subset, FS_CardinalityType
  <2>6. Left = Cardinality(Ahead(Last(frames))) /\ Left' = Cardinality(Ahead(Last(frames))')
    BY <2>1 DEF Left
  <2> QED  BY <1>1, <2>1, <2>4, <2>5, <2>6
<1>5. CASE frames' = frames /\ ~Loop
  <2>1. CASE frames = <<>>  BY <1>1, <1>5, <2>1 DEF Left
  <2>2. CASE frames # <<>>
    <3>1. Ahead(Last(frames))' \subseteq Ahead(Last(frames))
      <4>1. Ahead(Last(frames))' = {x \in subs' : Matches(x.topic, Last(frames).type) /\ Before(Last(frames), x)}
        BY <1>5 DEF Ahead
      <4> QED  BY <1>2, <4>1 DEF Ahead
    <3>2. /\ Cardinality(Ahead(Last(frames))') <= Cardinality(Ahead(Last(frames)))
      BY <3>1, AheadFinite, FS_Subset
    <3>3. Left = Cardinality(Ahead(Last(frames))) /\ Left' = Cardinality(Ahead(Last(frames))')
      BY <1>5, <2>2 DEF Left
    <3> QED  BY <1>1, <1>5, <3>2, <3>3
  <2> QED  BY <2>1, <2>2
<1> QED  BY <1>2, <1>3, <1>4, <1>5 DEF Loop

LEMMA LeftIsNumber == IInv => Len(frames) \in Nat /\ Left \in Nat
BY AheadFinite, FS_CardinalityType DEF Left, IInv, TypeOK

\* Subscribers may unsubscribe each other for ever: publish() returns all the
\* same, and so does every publish() it was called from, once nobody subscribes
\* and nobody publishes any more.
THEOREM QuietBusReturns ==
  ServedSpec /\ <>[][BusIsQuiet]_wsVars /\ DescentEnds(Len(frames)) /\ DescentEnds(Left)
    => []<>(frames = <<>>)
<1> DEFINE L == Loop /\ UNCHANGED <<ws, connSubs>>
<1>1. IInv /\ IInv' /\ [Next]_wsVars /\ [BusIsQuiet]_wsVars => [Len(frames)' <= Len(frames)]_wsVars
  BY QuietDescends
<1>2. IInv /\ IInv' /\ [Next]_wsVars /\ [BusIsQuiet]_wsVars /\ [Len(frames)' = Len(frames)]_wsVars
        => [Left' <= Left]_wsVars
  BY QuietDescends
<1>3. IInv /\ IInv' /\ [Next]_wsVars /\ [BusIsQuiet]_wsVars
        /\ [Len(frames)' = Len(frames)]_wsVars /\ [Left' = Left]_wsVars
        => ~<<L>>_wsVars
  BY QuietDescends
<1>4. DescentEnds(Len(frames)) <=>
        ([](Len(frames) \in Nat) /\ <>[][Len(frames)' <= Len(frames)]_wsVars
           => <>[][Len(frames)' = Len(frames)]_wsVars)
  BY DEF DescentEnds
<1>5. DescentEnds(Left) <=> ([](Left \in Nat) /\ <>[][Left' <= Left]_wsVars => <>[][Left' = Left]_wsVars)
  BY DEF DescentEnds
<1>6. ServedSpec => Spec /\ ([]<>(frames = <<>>) \/ []<><<L>>_wsVars)  BY DEF ServedSpec
<1> HIDE DEF L
<1> QED  BY <1>1, <1>2, <1>3, <1>4, <1>5, <1>6, LeftIsNumber, Invariance, PTL DEF Spec

\* publish() returns, also when its subscribers subscribe and publish.
THEOREM PublishesReturn ==
  /\ ServedSpec
  /\ ClimbEnds(serial, MaxSerial) /\ ClimbEnds(published, MaxPublish)
  /\ DescentEnds(Len(frames)) /\ DescentEnds(Left)
  => PublishReturns
<1>1. IInv /\ [Next]_wsVars => [serial' >= serial]_wsVars /\ [published' >= published]_wsVars
  BY CountsGrow
<1>2. IInv => serial \in 0..MaxSerial  BY DEF IInv, TypeOK
<1>3. ClimbEnds(serial, MaxSerial) <=>
        ([](serial \in 0..MaxSerial) /\ [][serial' >= serial]_wsVars => <>[][serial' = serial]_wsVars)
  BY DEF ClimbEnds
<1>4. ClimbEnds(published, MaxPublish) <=>
        ([](published \in 0..MaxPublish) /\ [][published' >= published]_wsVars
           => <>[][published' = published]_wsVars)
  BY DEF ClimbEnds
<1>5. [serial' = serial]_wsVars /\ [published' = published]_wsVars => [BusIsQuiet]_wsVars
  BY DEF BusIsQuiet
<1>6. Spec /\ ClimbEnds(serial, MaxSerial) /\ ClimbEnds(published, MaxPublish)
        => <>[][BusIsQuiet]_wsVars
  BY <1>1, <1>2, <1>3, <1>4, <1>5, Invariance, PublishedInvariance, PTL DEF Spec
<1>7. ServedSpec => Spec  BY DEF ServedSpec
<1>8. ASSUME NEW n \in 1..MaxDepth
      PROVE  []<>(frames = <<>>) => (Len(frames) >= n ~> Len(frames) < n)
  <2>1. frames = <<>> => Len(frames) < n  OBVIOUS
  <2> QED  BY <2>1, PTL
<1>9. []<>(frames = <<>>) => PublishReturns  BY <1>8 DEF PublishReturns
<1> QED  BY <1>6, <1>7, <1>9, QuietBusReturns, PTL
=============================================================================
