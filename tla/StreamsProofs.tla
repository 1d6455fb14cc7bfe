---------------------------- MODULE StreamsProofs ----------------------------
(***************************************************************************)
(* Proofs about Streams, for any number of streams, readers, invocations   *)
(* and chunks.                                                             *)
(***************************************************************************)
EXTENDS Streams, TLAPS

\* What the proofs use of sequences.
LEMMA AppendFacts ==
  ASSUME NEW S, NEW q \in Seq(S), NEW e \in S
  PROVE  /\ Append(q, e) \in Seq(S)
         /\ Len(q) \in Nat /\ Len(Append(q, e)) = Len(q) + 1
         /\ Append(q, e)[Len(q) + 1] = e
         /\ \A i \in 1..Len(q) : Append(q, e)[i] = q[i]
OBVIOUS

LEMMA TailFacts ==
  ASSUME NEW S, NEW q \in Seq(S), q # <<>>
  PROVE  /\ Tail(q) \in Seq(S) /\ Head(q) \in S /\ Head(q) = q[1]
         /\ Len(q) \in Nat /\ Len(q) >= 1 /\ Len(Tail(q)) = Len(q) - 1
         /\ \A i \in 1..(Len(q) - 1) : Tail(q)[i] = q[i + 1]
OBVIOUS

LEMMA SeqFacts ==
  ASSUME NEW S, NEW q \in Seq(S)
  PROVE  /\ Len(q) \in Nat
         /\ q = <<>> <=> Len(q) = 0
         /\ \A i \in 1..Len(q) : q[i] \in S
OBVIOUS

LEMMA ChunkFacts ==
  /\ End \in Chunk /\ Error \in Chunk
  /\ End \in Closing /\ Error \in Closing
  /\ \A n \in 0..MaxChunks : Value(n) \in Chunk /\ Value(n) \notin Closing
  /\ \A c \in Chunk : Got(c) \in {"idle", "done", "failed"}
BY StreamAssumption DEF Chunk, Closing, End, Error, Value, Got

\* What one chunk enqueued on an open session does to the queue and to the
\* histories.
LEMMA EnqueueFacts ==
  ASSUME IInv, NEW s \in Streams, NEW c \in Chunk, Enqueue(s, c)
  PROVE  /\ queue' \in [Streams -> Seq(Chunk)] /\ waiters' \in [Streams -> Seq(Readers)]
         /\ written' \in [Streams -> Seq(Chunk)] /\ taken' \in [Streams -> Seq(Chunk)]
         /\ reader' \in [Readers -> {"idle", "waiting", "done", "failed", "left"}]
         /\ written'[s] = Append(written[s], c)
         /\ \/ /\ waiters[s] # <<>> /\ queue[s] = <<>>
               /\ waiters'[s] = Tail(waiters[s])
               /\ reader' = [reader EXCEPT ![Head(waiters[s])] = Got(c)]
               /\ taken'[s] = Append(taken[s], c) /\ queue'[s] = queue[s]
            \/ /\ waiters[s] = <<>>
               /\ waiters' = waiters /\ reader' = reader
               /\ taken'[s] = taken[s] /\ queue'[s] = Append(queue[s], c)
         /\ \A u \in Streams \ {s} :
              /\ written'[u] = written[u] /\ taken'[u] = taken[u]
              /\ queue'[u] = queue[u] /\ waiters'[u] = waiters[u]
<1>1. /\ queue[s] \in Seq(Chunk) /\ waiters[s] \in Seq(Readers)
      /\ written[s] \in Seq(Chunk) /\ taken[s] \in Seq(Chunk)
  BY DEF IInv, TypeOK
<1>2. queue[s] # <<>> => waiters[s] = <<>>
  BY DEF IInv, NobodyWaitsInVain
<1>3. Append(written[s], c) \in Seq(Chunk)
  BY <1>1, AppendFacts
<1>4. CASE waiters[s] # <<>>
  <2>1. /\ Append(taken[s], c) \in Seq(Chunk)
        /\ Tail(waiters[s]) \in Seq(Readers) /\ Head(waiters[s]) \in Readers
    BY <1>1, <1>4, AppendFacts, TailFacts
  <2>2. Got(c) \in {"idle", "done", "failed"}
    BY ChunkFacts
  <2> QED
    BY <1>2, <1>3, <1>4, <2>1, <2>2 DEF Enqueue, IInv, TypeOK
<1>5. CASE waiters[s] = <<>>
  <2>1. Append(queue[s], c) \in Seq(Chunk)
    BY <1>1, AppendFacts
  <2> QED
    BY <1>3, <1>5, <2>1 DEF Enqueue, IInv, TypeOK
<1> QED
  BY <1>4, <1>5

SessionInv == Fifo /\ NobodyWaitsInVain /\ ClosedOnce

LEMMA EnqueueKeeps ==
  ASSUME IInv, NEW s \in Streams, NEW c \in Chunk, Enqueue(s, c), s \notin ended,
         ended' = IF c \in Closing THEN ended \cup {s} ELSE ended
  PROVE  SessionInv'
<1> DEFINE w == written[s]
           t == taken[s]
           q == queue[s]
<1>1. w \in Seq(Chunk) /\ t \in Seq(Chunk) /\ q \in Seq(Chunk) /\ waiters[s] \in Seq(Readers)
  BY DEF IInv, TypeOK
<1>2. /\ Len(w) \in Nat /\ Len(t) \in Nat /\ Len(q) \in Nat
      /\ Len(w) = Len(t) + Len(q)
      /\ \A i \in 1..Len(t) : t[i] = w[i]
      /\ \A i \in 1..Len(q) : q[i] = w[Len(t) + i]
      /\ q = <<>> <=> Len(q) = 0
  BY <1>1, SeqFacts DEF IInv, Fifo
<1>3. /\ Len(Append(w, c)) = Len(w) + 1
      /\ Append(w, c)[Len(w) + 1] = c
      /\ \A i \in 1..Len(w) : Append(w, c)[i] = w[i]
      /\ Len(Append(t, c)) = Len(t) + 1
      /\ Append(t, c)[Len(t) + 1] = c
      /\ \A i \in 1..Len(t) : Append(t, c)[i] = t[i]
      /\ Len(Append(q, c)) = Len(q) + 1
      /\ Append(q, c)[Len(q) + 1] = c
      /\ \A i \in 1..Len(q) : Append(q, c)[i] = q[i]
  BY <1>1, AppendFacts
<1> HIDE DEF w, t, q
<1>4. /\ written'[s] = Append(w, c)
      /\ \/ taken'[s] = Append(t, c) /\ queue'[s] = q /\ q = <<>>
         \/ taken'[s] = t /\ queue'[s] = Append(q, c)
      /\ \A u \in Streams \ {s} :
           written'[u] = written[u] /\ taken'[u] = taken[u] /\ queue'[u] = queue[u]
  BY EnqueueFacts DEF w, t, q
<1>5. Fifo'
  <2>1. /\ Len(written'[s]) = Len(taken'[s]) + Len(queue'[s])
        /\ \A i \in 1..Len(taken'[s]) : taken'[s][i] = written'[s][i]
        /\ \A i \in 1..Len(queue'[s]) : queue'[s][i] = written'[s][Len(taken'[s]) + i]
    <3>1. CASE taken'[s] = Append(t, c) /\ queue'[s] = q /\ q = <<>>
      BY <3>1, <1>2, <1>3, <1>4
    <3>2. CASE taken'[s] = t /\ queue'[s] = Append(q, c)
      <4>1. Len(written'[s]) = Len(taken'[s]) + Len(queue'[s])
        BY <3>2, <1>2, <1>3, <1>4
      <4>2. \A i \in 1..Len(t) : t[i] = Append(w, c)[i]
        BY <1>2, <1>3
      <4>3. ASSUME NEW i \in 1..(Len(q) + 1)
            PROVE  Append(q, c)[i] = Append(w, c)[Len(t) + i]
        <5>1. CASE i = Len(q) + 1
          BY <5>1, <1>2, <1>3
        <5>2. CASE i \in 1..Len(q)
          <6>1. Len(t) + i \in 1..Len(w)
            BY <5>2, <1>2
          <6> QED
            BY <5>2, <6>1, <1>2, <1>3
        <5> QED
          BY <5>1, <5>2, <1>2
      <4> QED
        BY <3>2, <4>1, <4>2, <4>3, <1>3, <1>4
    <3> QED
      BY <3>1, <3>2, <1>4
  <2>2. ASSUME NEW u \in Streams \ {s}
        PROVE  /\ Len(written'[u]) = Len(taken'[u]) + Len(queue'[u])
               /\ \A i \in 1..Len(taken'[u]) : taken'[u][i] = written'[u][i]
               /\ \A i \in 1..Len(queue'[u]) : queue'[u][i] = written'[u][Len(taken'[u]) + i]
    <3>1. written'[u] = written[u] /\ taken'[u] = taken[u] /\ queue'[u] = queue[u]
      BY <1>4
    <3> QED
      BY <3>1 DEF Fifo, IInv
  <2> QED
    BY <2>1, <2>2 DEF Fifo
<1>6. ClosedOnce'
  <2>1. \A i \in 1..Len(w) : w[i] \notin Closing
    BY DEF ClosedOnce, IInv, w
  <2>2. /\ s \in ended' <=> \E i \in 1..Len(written'[s]) : written'[s][i] \in Closing
        /\ \A i \in 1..Len(written'[s]) : written'[s][i] \in Closing => i = Len(written'[s])
    BY <2>1, <1>2, <1>3, <1>4
  <2>3. \A u \in Streams \ {s} : u \in ended' <=> u \in ended
    OBVIOUS
  <2>4. ASSUME NEW u \in Streams \ {s}
        PROVE  /\ u \in ended' <=> \E i \in 1..Len(written'[u]) : written'[u][i] \in Closing
               /\ \A i \in 1..Len(written'[u]) : written'[u][i] \in Closing => i = Len(written'[u])
    <3>1. written'[u] = written[u]
      BY <1>4
    <3> QED
      BY <2>3, <3>1 DEF ClosedOnce, IInv
  <2> QED
    BY <2>2, <2>4 DEF ClosedOnce
<1>7. NobodyWaitsInVain'
  <2>1. CASE /\ waiters[s] # <<>> /\ queue[s] = <<>>
             /\ waiters'[s] = Tail(waiters[s])
             /\ reader' = [reader EXCEPT ![Head(waiters[s])] = Got(c)]
             /\ queue'[s] = queue[s]
    <3> DEFINE v == waiters[s]
    <3>1. /\ Tail(v) \in Seq(Readers) /\ Head(v) \in Readers /\ Head(v) = v[1]
          /\ Len(v) \in Nat /\ Len(v) >= 1 /\ Len(Tail(v)) = Len(v) - 1
          /\ \A i \in 1..(Len(v) - 1) : Tail(v)[i] = v[i + 1]
      BY <2>1, <1>1, TailFacts
    <3>2. \A i \in 1..Len(v) :
            /\ reader[v[i]] = "waiting" /\ ReadsFrom[v[i]] = s /\ v[i] \in Readers
            /\ \A k \in 1..Len(v) : v[i] = v[k] => i = k
      BY <1>1, SeqFacts DEF IInv, NobodyWaitsInVain
    <3> HIDE DEF v
    <3>3. \A i \in 1..Len(Tail(v)) :
            /\ Tail(v)[i] = v[i + 1] /\ i + 1 \in 1..Len(v) /\ v[i + 1] # Head(v)
      BY <3>1, <3>2
    <3>4. \A r \in Readers \ {Head(v)} : reader'[r] = reader[r]
      BY <2>1 DEF v, IInv, TypeOK
    <3>5. \A i \in 1..Len(Tail(v)) :
            /\ reader'[Tail(v)[i]] = "waiting" /\ ReadsFrom[Tail(v)[i]] = s
            /\ \A k \in 1..Len(Tail(v)) : Tail(v)[i] = Tail(v)[k] => i = k
      BY <3>1, <3>2, <3>3, <3>4
    <3>6. ASSUME NEW u \in Streams \ {s}, NEW i \in 1..Len(waiters[u])
          PROVE  reader'[waiters[u][i]] = "waiting"
      <4>1. waiters[u] \in Seq(Readers)
        BY DEF IInv, TypeOK
      <4>2. waiters[u][i] \in Readers /\ ReadsFrom[waiters[u][i]] = u /\ reader[waiters[u][i]] = "waiting"
        BY <4>1, SeqFacts DEF IInv, NobodyWaitsInVain
      <4>3. ReadsFrom[Head(v)] = s
        BY <3>1, <3>2
      <4> QED
        BY <4>2, <4>3, <3>4
    <3>7. waiters'[s] = Tail(v) /\ queue'[s] = <<>>
      BY <2>1 DEF v
    <3>8. \A u \in Streams \ {s} : waiters'[u] = waiters[u] /\ queue'[u] = queue[u]
      BY EnqueueFacts
    <3>9. ASSUME NEW u \in Streams
          PROVE  /\ queue'[u] # <<>> => waiters'[u] = <<>>
                 /\ \A i \in 1..Len(waiters'[u]) :
                      /\ reader'[waiters'[u][i]] = "waiting"
                      /\ ReadsFrom[waiters'[u][i]] = u
                      /\ \A k \in 1..Len(waiters'[u]) : waiters'[u][i] = waiters'[u][k] => i = k
      <4>1. CASE u = s
        BY <4>1, <3>5, <3>7
      <4>2. CASE u # s
        <5>1. waiters'[u] = waiters[u] /\ queue'[u] = queue[u]
          BY <4>2, <3>8
        <5> QED
          BY <4>2, <5>1, <3>6 DEF NobodyWaitsInVain, IInv
      <4> QED
        BY <4>1, <4>2
    <3> QED
      BY <3>9 DEF NobodyWaitsInVain
  <2>2. CASE waiters[s] = <<>> /\ waiters' = waiters /\ reader' = reader
    BY <2>2, <1>4 DEF NobodyWaitsInVain, IInv
  <2> QED
    BY <2>1, <2>2, EnqueueFacts
<1> QED
  BY <1>5, <1>6, <1>7 DEF SessionInv

LEMMA CloseKeeps ==
  ASSUME IInv, NEW s \in Streams, NEW c \in {End, Error}, Close(s, c)
  PROVE  /\ SessionInv'
         /\ ended' = ended \cup {s}
         /\ queue' \in [Streams -> Seq(Chunk)] /\ waiters' \in [Streams -> Seq(Readers)]
         /\ written' \in [Streams -> Seq(Chunk)] /\ taken' \in [Streams -> Seq(Chunk)]
         /\ reader' \in [Readers -> {"idle", "waiting", "done", "failed", "left"}]
<1>1. c \in Chunk /\ c \in Closing
  BY ChunkFacts
<1>2. CASE s \in ended
  BY <1>2 DEF Close, SessionInv, IInv, TypeOK, Fifo, NobodyWaitsInVain, ClosedOnce
<1>3. CASE s \notin ended
  <2>1. Enqueue(s, c) /\ ended' = IF c \in Closing THEN ended \cup {s} ELSE ended
    BY <1>1, <1>3 DEF Close
  <2> QED
    BY <1>1, <1>3, <2>1, EnqueueFacts, EnqueueKeeps DEF Close
<1> QED
  BY <1>2, <1>3

\* dequeue().
LEMMA DequeueKeeps ==
  ASSUME IInv, NEW r \in Readers, Dequeue(r)
  PROVE  /\ SessionInv'
         /\ queue' \in [Streams -> Seq(Chunk)] /\ waiters' \in [Streams -> Seq(Readers)]
         /\ taken' \in [Streams -> Seq(Chunk)]
         /\ reader' \in [Readers -> {"idle", "waiting", "done", "failed", "left"}]
<1> DEFINE s == ReadsFrom[r]
           w == written[s]
           t == taken[s]
           q == queue[s]
           v == waiters[s]
<1>1. s \in Streams
  BY StreamAssumption
<1>2. w \in Seq(Chunk) /\ t \in Seq(Chunk) /\ q \in Seq(Chunk) /\ v \in Seq(Readers)
  BY <1>1 DEF IInv, TypeOK
<1>3. /\ Len(w) \in Nat /\ Len(t) \in Nat /\ Len(q) \in Nat /\ Len(v) \in Nat
      /\ Len(w) = Len(t) + Len(q)
      /\ \A i \in 1..Len(t) : t[i] = w[i]
      /\ \A i \in 1..Len(q) : q[i] = w[Len(t) + i]
  BY <1>1, <1>2, SeqFacts DEF IInv, Fifo
<1>4. reader[r] = "idle" /\ written' = written /\ ended' = ended
  BY DEF Dequeue
<1>5. ClosedOnce'
  BY <1>4 DEF ClosedOnce, IInv
<1>6. CASE q # <<>>
  <2> DEFINE c == q[1]
  <2>1. /\ Tail(q) \in Seq(Chunk) /\ c \in Chunk /\ Len(q) >= 1
        /\ Len(Tail(q)) = Len(q) - 1
        /\ \A i \in 1..(Len(q) - 1) : Tail(q)[i] = q[i + 1]
    BY <1>2, <1>6, TailFacts
  <2>2. /\ Append(t, c) \in Seq(Chunk) /\ Len(Append(t, c)) = Len(t) + 1
        /\ Append(t, c)[Len(t) + 1] = c /\ \A i \in 1..Len(t) : Append(t, c)[i] = t[i]
    BY <1>2, <2>1, AppendFacts
  <2>3. Got(c) \in {"idle", "done", "failed"}
    BY <2>1, ChunkFacts
  <2>4. /\ queue' = [queue EXCEPT ![s] = Tail(q)]
        /\ taken' = [taken EXCEPT ![s] = Append(t, c)]
        /\ reader' = [reader EXCEPT ![r] = Got(c)]
        /\ waiters' = waiters
    BY <1>6 DEF Dequeue, NextPlace
  <2>5. /\ queue' \in [Streams -> Seq(Chunk)] /\ waiters' \in [Streams -> Seq(Readers)]
        /\ taken' \in [Streams -> Seq(Chunk)]
        /\ reader' \in [Readers -> {"idle", "waiting", "done", "failed", "left"}]
    BY <2>1, <2>2, <2>3, <2>4 DEF IInv, TypeOK
  <2>6. queue'[s] = Tail(q) /\ taken'[s] = Append(t, c)
    BY <1>1, <2>4 DEF IInv, TypeOK
  <2>7. v = <<>>
    BY <1>1, <1>6 DEF IInv, NobodyWaitsInVain
  <2>8. \A u \in Streams \ {s} : queue'[u] = queue[u] /\ taken'[u] = taken[u]
    BY <2>4 DEF IInv, TypeOK
  <2> HIDE DEF w, t, q, c
  <2>9. Fifo'
    <3>1. /\ Len(w) = Len(Append(t, c)) + Len(Tail(q))
          /\ \A i \in 1..Len(Append(t, c)) : Append(t, c)[i] = w[i]
          /\ \A i \in 1..Len(Tail(q)) : Tail(q)[i] = w[Len(Append(t, c)) + i]
      <4>1. c = w[Len(t) + 1]
        BY <1>3, <2>1 DEF c
      <4> QED
        BY <4>1, <1>3, <2>1, <2>2
    <3>2. written'[s] = w
      BY <1>4 DEF w
    <3>3. ASSUME NEW u \in Streams
          PROVE  /\ Len(written'[u]) = Len(taken'[u]) + Len(queue'[u])
                 /\ \A i \in 1..Len(taken'[u]) : taken'[u][i] = written'[u][i]
                 /\ \A i \in 1..Len(queue'[u]) : queue'[u][i] = written'[u][Len(taken'[u]) + i]
      <4>1. CASE u = s
        BY <4>1, <3>1, <3>2, <2>6
      <4>2. CASE u # s
        BY <4>2, <2>8, <1>4 DEF IInv, Fifo
      <4> QED
        BY <4>1, <4>2
    <3> QED
      BY <3>3 DEF Fifo
  <2>10. NobodyWaitsInVain'
    <3> SUFFICES ASSUME NEW u \in Streams
                 PROVE  /\ queue'[u] # <<>> => waiters'[u] = <<>>
                        /\ \A i \in 1..Len(waiters'[u]) :
                             /\ reader'[waiters'[u][i]] = "waiting"
                             /\ ReadsFrom[waiters'[u][i]] = u
                             /\ \A k \in 1..Len(waiters'[u]) : waiters'[u][i] = waiters'[u][k] => i = k
      BY DEF NobodyWaitsInVain
    <3>1. queue'[u] # <<>> => waiters'[u] = <<>>
      BY <2>4, <2>7, <2>8 DEF IInv, NobodyWaitsInVain
    <3>2. ASSUME NEW i \in 1..Len(waiters[u])
          PROVE  reader'[waiters[u][i]] = "waiting"
      <4>1. waiters[u][i] \in Readers /\ reader[waiters[u][i]] = "waiting"
        BY SeqFacts DEF IInv, TypeOK, NobodyWaitsInVain
      <4> QED
        BY <4>1, <1>4, <2>4 DEF IInv, TypeOK
    <3> QED
      BY <3>1, <3>2, <2>4 DEF IInv, NobodyWaitsInVain
  <2> QED
    BY <1>5, <2>5, <2>9, <2>10 DEF SessionInv
<1>7. CASE q = <<>>
  <2>1. /\ queue' = queue /\ taken' = taken
        /\ waiters' = [waiters EXCEPT ![s] = Append(v, r)]
        /\ reader' = [reader EXCEPT ![r] = "waiting"]
    BY <1>7 DEF Dequeue
  <2>2. /\ Append(v, r) \in Seq(Readers) /\ Len(Append(v, r)) = Len(v) + 1
        /\ Append(v, r)[Len(v) + 1] = r /\ \A i \in 1..Len(v) : Append(v, r)[i] = v[i]
    BY <1>2, AppendFacts
  <2>3. /\ queue' \in [Streams -> Seq(Chunk)] /\ waiters' \in [Streams -> Seq(Readers)]
        /\ taken' \in [Streams -> Seq(Chunk)]
        /\ reader' \in [Readers -> {"idle", "waiting", "done", "failed", "left"}]
    BY <2>1, <2>2 DEF IInv, TypeOK
  <2>4. Fifo'
    BY <2>1, <1>4 DEF Fifo, IInv
  <2>5. /\ waiters'[s] = Append(v, r)
        /\ \A u \in Streams \ {s} : waiters'[u] = waiters[u]
    BY <2>1, <1>1 DEF IInv, TypeOK
  <2>6. ASSUME NEW u \in Streams, NEW i \in 1..Len(waiters[u])
        PROVE  /\ waiters[u][i] \in Readers /\ waiters[u][i] # r
               /\ reader'[waiters[u][i]] = "waiting" /\ ReadsFrom[waiters[u][i]] = u
    <3>1. waiters[u][i] \in Readers /\ reader[waiters[u][i]] = "waiting" /\ ReadsFrom[waiters[u][i]] = u
      BY SeqFacts DEF IInv, TypeOK, NobodyWaitsInVain
    <3> QED
      BY <3>1, <1>4, <2>1 DEF IInv, TypeOK
  <2>7. reader'[r] = "waiting" /\ ReadsFrom[r] = s
    BY <2>1 DEF IInv, TypeOK
  <2>8. \A i, k \in 1..Len(v) : v[i] = v[k] => i = k
    BY <1>1 DEF IInv, NobodyWaitsInVain
  <2>9. \A i \in 1..Len(v) : v[i] # r /\ reader'[v[i]] = "waiting" /\ ReadsFrom[v[i]] = s
    BY <1>1, <2>6
  <2> HIDE DEF v
  <2>10. \A i \in 1..(Len(v) + 1) :
           /\ reader'[Append(v, r)[i]] = "waiting" /\ ReadsFrom[Append(v, r)[i]] = s
           /\ \A k \in 1..(Len(v) + 1) : Append(v, r)[i] = Append(v, r)[k] => i = k
    <3>1. \A i \in 1..(Len(v) + 1) : i \in 1..Len(v) \/ i = Len(v) + 1
      BY <1>3
    <3> QED
      BY <3>1, <2>2, <2>7, <2>8, <2>9
  <2>11. ASSUME NEW u \in Streams
         PROVE  /\ queue'[u] # <<>> => waiters'[u] = <<>>
                /\ \A i \in 1..Len(waiters'[u]) :
                     /\ reader'[waiters'[u][i]] = "waiting"
                     /\ ReadsFrom[waiters'[u][i]] = u
                     /\ \A k \in 1..Len(waiters'[u]) : waiters'[u][i] = waiters'[u][k] => i = k
    <3>1. CASE u = s
      BY <3>1, <1>7, <2>1, <2>2, <2>5, <2>10
    <3>2. CASE u # s
      <4>1. waiters'[u] = waiters[u] /\ queue'[u] = queue[u]
        BY <3>2, <2>1, <2>5
      <4> QED
        BY <4>1, <2>6 DEF IInv, NobodyWaitsInVain
    <3> QED
      BY <3>1, <3>2
  <2> QED
    BY <1>5, <2>3, <2>4, <2>11 DEF SessionInv, NobodyWaitsInVain
<1> QED
  BY <1>6, <1>7

-----------------------------------------------------------------------------
(***************************************************************************)
(* The inductive invariant                                                 *)
(***************************************************************************)

LEMMA InitIInv == Init => IInv
<1> SUFFICES ASSUME Init PROVE IInv
  OBVIOUS
<1>1. \A s \in Streams :
        /\ written[s] = <<>> /\ taken[s] = <<>> /\ queue[s] = <<>> /\ waiters[s] = <<>>
        /\ Len(written[s]) = 0 /\ Len(taken[s]) = 0 /\ Len(queue[s]) = 0 /\ Len(waiters[s]) = 0
  BY DEF Init
<1>2. TypeOK
  BY StreamAssumption DEF Init, TypeOK
<1>3. Fifo
  <2>1. ASSUME NEW s \in Streams
        PROVE  /\ Len(written[s]) = Len(taken[s]) + Len(queue[s])
               /\ \A i \in 1..Len(taken[s]) : taken[s][i] = written[s][i]
               /\ \A i \in 1..Len(queue[s]) : queue[s][i] = written[s][Len(taken[s]) + i]
    <3>1. Len(written[s]) = 0 /\ Len(taken[s]) = 0 /\ Len(queue[s]) = 0
      BY <1>1
    <3> QED
      BY <3>1
  <2> QED
    BY <2>1 DEF Fifo
<1>4. NobodyWaitsInVain
  BY <1>1 DEF NobodyWaitsInVain
<1>5. ClosedOnce
  <2>1. ended = {}
    BY DEF Init
  <2>2. ASSUME NEW s \in Streams
        PROVE  /\ s \in ended <=> \E i \in 1..Len(written[s]) : written[s][i] \in Closing
               /\ \A i \in 1..Len(written[s]) : written[s][i] \in Closing => i = Len(written[s])
    <3>1. Len(written[s]) = 0
      BY <1>1
    <3> QED
      BY <2>1, <3>1
  <2> QED
    BY <2>2 DEF ClosedOnce
<1> QED
  BY <1>2, <1>3, <1>4, <1>5 DEF IInv

\* The session itself: push, end and error, the handler's end, the failed open,
\* the iterator.
LEMMA PushKeeps ==
  ASSUME IInv, NEW s \in Streams, Push(s)
  PROVE  IInv'
<1> DEFINE c == Value(Len(written[s]) + 1)
<1>1. c \in Chunk /\ c \notin Closing
  <2>1. Len(written[s]) + 1 \in 0..MaxChunks
    BY SeqFacts, StreamAssumption DEF Push, IInv, TypeOK
  <2> QED
    BY <2>1, ChunkFacts
<1>2. Enqueue(s, c) /\ s \notin ended /\ ended' = ended
  BY DEF Push
<1> HIDE DEF c
<1>3. SessionInv'
  BY <1>1, <1>2, EnqueueKeeps
<1>4. TypeOK'
  BY <1>1, <1>2, EnqueueFacts DEF Push, IInv, TypeOK
<1> QED
  BY <1>3, <1>4 DEF IInv, SessionInv

LEMMA ClosersKeep ==
  ASSUME IInv, NEW s \in Streams,
         \/ \E c \in {End, Error} : HandlerCloses(s, c)
         \/ Settles(s)
         \/ OpenFails(s)
  PROVE  IInv' /\ ended' = ended \cup {s}
<1>1. PICK c \in {End, Error} : Close(s, c)
  BY DEF HandlerCloses, Settles, HandlerSettles, OpenFails
<1>2. /\ SessionInv'
      /\ ended' = ended \cup {s}
      /\ queue' \in [Streams -> Seq(Chunk)] /\ waiters' \in [Streams -> Seq(Readers)]
      /\ written' \in [Streams -> Seq(Chunk)] /\ taken' \in [Streams -> Seq(Chunk)]
      /\ reader' \in [Readers -> {"idle", "waiting", "done", "failed", "left"}]
  BY <1>1, CloseKeeps
<1>3. /\ sending' \in [Streams -> {"new", "sending", "returned"}]
      /\ store' \subseteq Streams
      /\ runs' \in [Streams -> 0..MaxRuns]
      /\ running' \in [Streams -> SUBSET (1..MaxRuns)]
  <2>1. CASE \E d \in {End, Error} : HandlerCloses(s, d)
    BY <2>1 DEF HandlerCloses, IInv, TypeOK
  <2>2. CASE Settles(s)
    BY <2>2 DEF Settles, HandlerSettles, IInv, TypeOK
  <2>3. CASE OpenFails(s)
    BY <2>3 DEF OpenFails, IInv, TypeOK
  <2> QED
    BY <2>1, <2>2, <2>3
<1> QED
  BY <1>2, <1>3 DEF IInv, SessionInv, TypeOK

\* A step that leaves sessions, readers and histories alone.
LEMMA QuietStep ==
  ASSUME SessionInv, UNCHANGED <<ended, queue, waiters, reader, written, taken>>
  PROVE  SessionInv'
<1>1. Fifo'
  BY DEF SessionInv, Fifo
<1>2. NobodyWaitsInVain'
  BY DEF SessionInv, NobodyWaitsInVain
<1>3. ClosedOnce'
  BY DEF SessionInv, ClosedOnce
<1> QED
  BY <1>1, <1>2, <1>3 DEF SessionInv

LEMMA OpenersKeep ==
  ASSUME IInv, NEW s \in Streams, OpenStream(s) \/ EnterHandler(s) \/ OpenAnswered(s)
  PROVE  IInv'
<1>1. UNCHANGED <<ended, queue, waiters, reader, written, taken>>
  BY DEF OpenStream, EnterHandler, OpenAnswered
<1>2. SessionInv'
  BY <1>1, QuietStep DEF IInv, SessionInv
<1>3. TypeOK'
  <2>1. CASE OpenStream(s)
    BY <2>1 DEF OpenStream, IInv, TypeOK
  <2>2. CASE EnterHandler(s)
    <3>1. runs[s] + 1 \in 0..MaxRuns /\ runs[s] + 1 \in 1..MaxRuns
      BY <2>2, StreamAssumption DEF EnterHandler, IInv, TypeOK
    <3> QED
      BY <2>2, <3>1 DEF EnterHandler, IInv, TypeOK
  <2>3. CASE OpenAnswered(s)
    BY <2>3 DEF OpenAnswered, IInv, TypeOK
  <2> QED
    BY <2>1, <2>2, <2>3
<1> QED
  BY <1>2, <1>3 DEF IInv, SessionInv

LEMMA LeaveKeeps ==
  ASSUME IInv, NEW r \in Readers, Leave(r)
  PROVE  IInv'
<1>1. /\ UNCHANGED <<sending, store, ended, queue, waiters, runs, running, written, taken>>
      /\ reader[r] = "idle" /\ reader' = [reader EXCEPT ![r] = "left"]
  BY DEF Leave
<1>2. TypeOK' /\ Fifo' /\ ClosedOnce'
  BY <1>1 DEF IInv, TypeOK, Fifo, ClosedOnce
<1>3. ASSUME NEW u \in Streams, NEW i \in 1..Len(waiters[u])
      PROVE  reader'[waiters[u][i]] = "waiting"
  <2>1. waiters[u][i] \in Readers /\ reader[waiters[u][i]] = "waiting"
    BY SeqFacts DEF IInv, TypeOK, NobodyWaitsInVain
  <2> QED
    BY <1>1, <2>1 DEF IInv, TypeOK
<1>4. NobodyWaitsInVain'
  BY <1>1, <1>3 DEF IInv, NobodyWaitsInVain
<1> QED
  BY <1>2, <1>4 DEF IInv

LEMMA NextKeepsIInv == IInv /\ [Next]_vars => IInv'
<1> SUFFICES ASSUME IInv, [Next]_vars PROVE IInv'
  OBVIOUS
<1>1. ASSUME NEW s \in Streams, OpenStream(s) \/ EnterHandler(s) \/ OpenAnswered(s)
      PROVE  IInv'
  BY <1>1, OpenersKeep
<1>2. ASSUME NEW s \in Streams, Push(s)
      PROVE  IInv'
  BY <1>2, PushKeeps
<1>3. ASSUME NEW s \in Streams,
             (\E c \in {End, Error} : HandlerCloses(s, c)) \/ Settles(s) \/ OpenFails(s)
      PROVE  IInv'
  BY <1>3, ClosersKeep
<1>4. ASSUME NEW r \in Readers, Dequeue(r)
      PROVE  IInv'
  <2>1. /\ SessionInv'
        /\ queue' \in [Streams -> Seq(Chunk)] /\ waiters' \in [Streams -> Seq(Readers)]
        /\ taken' \in [Streams -> Seq(Chunk)]
        /\ reader' \in [Readers -> {"idle", "waiting", "done", "failed", "left"}]
    BY <1>4, DequeueKeeps
  <2>2. UNCHANGED <<sending, store, ended, runs, running, written>>
    BY <1>4 DEF Dequeue
  <2> QED
    BY <2>1, <2>2 DEF IInv, SessionInv, TypeOK
<1>5. ASSUME NEW r \in Readers, Leave(r)
      PROVE  IInv'
  BY <1>5, LeaveKeeps
<1>6. CASE UNCHANGED vars
  <2>1. SessionInv'
    BY <1>6, QuietStep DEF vars, IInv, SessionInv
  <2>2. TypeOK'
    BY <1>6 DEF vars, IInv, TypeOK
  <2> QED
    BY <2>1, <2>2 DEF IInv, SessionInv
<1> QED
  BY <1>1, <1>2, <1>3, <1>4, <1>5, <1>6 DEF Next, Returns

\* In every reachable state the sessions are well formed: queues, waiters and
\* histories agree.
THEOREM Invariance == Spec => []IInv
<1> QED
  BY InitIInv, NextKeepsIInv, PTL DEF Spec

\* Readers together take a session's chunks in the order in which the handler
\* invocations wrote them (streamSession.ts:57-70), none lost and none twice.
THEOREM ChunksStayInOrder == Spec => []Fifo
<1>1. IInv => Fifo
  BY DEF IInv
<1> QED
  BY <1>1, Invariance, PTL

\* A session has at most one closing chunk and nothing after it, whoever of the
\* handler, its wrapper (runtime.ts:376-389) and the failed open (:423) is first.
THEOREM SessionsCloseOnce == Spec => []ClosedOnce
<1>1. IInv => ClosedOnce
  BY DEF IInv
<1> QED
  BY <1>1, Invariance, PTL

\* A reader is never left waiting while its session has a chunk for it.
THEOREM NobodyStarves == Spec => []NobodyWaitsInVain
<1>1. IInv => NobodyWaitsInVain
  BY DEF IInv
<1> QED
  BY <1>1, Invariance, PTL

\* A session that has been opened and has not ended is in the store
\* (streamSession.ts:74).
THEOREM ActiveSessionsAreTracked == Spec => []ActiveIsTracked
<1>1. Init => ActiveIsTracked
  BY DEF Init, ActiveIsTracked
<1>2. ASSUME IInv, ActiveIsTracked, [Next]_vars PROVE ActiveIsTracked'
  <2>1. ASSUME NEW s \in Streams, OpenStream(s) \/ EnterHandler(s) \/ OpenAnswered(s)
        PROVE  ActiveIsTracked'
    BY <1>2, <2>1 DEF OpenStream, EnterHandler, OpenAnswered, ActiveIsTracked, IInv, TypeOK
  <2>2. ASSUME NEW s \in Streams, Push(s)
        PROVE  ActiveIsTracked'
    BY <1>2, <2>2 DEF Push, ActiveIsTracked
  <2>3. ASSUME NEW s \in Streams,
               (\E c \in {End, Error} : HandlerCloses(s, c)) \/ Settles(s) \/ OpenFails(s)
        PROVE  ActiveIsTracked'
    <3>1. ended' = ended \cup {s}
      BY <1>2, <2>3, ClosersKeep
    <3>2. \A u \in Streams \ {s} :
            /\ sending'[u] = sending[u]
            /\ u \in store' <=> u \in store
      BY <1>2, <2>3 DEF HandlerCloses, Settles, HandlerSettles, OpenFails, IInv, TypeOK
    <3> QED
      BY <1>2, <3>1, <3>2 DEF ActiveIsTracked
  <2>4. ASSUME NEW r \in Readers, Dequeue(r) \/ Leave(r)
        PROVE  ActiveIsTracked'
    BY <1>2, <2>4 DEF Dequeue, Leave, ActiveIsTracked
  <2>5. CASE UNCHANGED vars
    BY <1>2, <2>5 DEF vars, ActiveIsTracked
  <2> QED
    BY <1>2, <2>1, <2>2, <2>3, <2>4, <2>5 DEF Next, Returns
<1> QED
  BY <1>1, <1>2, Invariance, PTL DEF Spec

-----------------------------------------------------------------------------
(***************************************************************************)
(* The refinement: a session is a StreamChannel                            *)
(***************************************************************************)

ChannelStep(s) == Channel(s)!Next \/ UNCHANGED <<written[s], taken[s]>>

\* A chunk enqueued is written, or written and read at once.
LEMMA EnqueueIsChannelStep ==
  ASSUME IInv, NEW s \in Streams, NEW c \in Chunk, Enqueue(s, c), s \notin ended
  PROVE  \A u \in Streams : ChannelStep(u)
<1>1. \A i \in 1..Len(written[s]) : written[s][i] \notin Closing
  BY DEF IInv, ClosedOnce
<1>2. written'[s] = Append(written[s], c)
  BY EnqueueFacts
<1>3. \/ taken'[s] = taken[s]
      \/ taken'[s] = Append(taken[s], c) /\ Len(taken[s]) = Len(written[s])
  <2>1. CASE taken'[s] = Append(taken[s], c) /\ queue[s] = <<>>
    <3>1. Len(queue[s]) = 0 /\ Len(taken[s]) \in Nat
      BY <2>1, SeqFacts DEF IInv, TypeOK
    <3>2. Len(written[s]) = Len(taken[s]) + Len(queue[s])
      BY DEF IInv, Fifo
    <3> QED
      BY <2>1, <3>1, <3>2
  <2>2. CASE taken'[s] = taken[s]
    BY <2>2
  <2> QED
    BY <2>1, <2>2, EnqueueFacts
<1>4. Channel(s)!Open
  BY <1>1 DEF Channel!Open
<1>5. ChannelStep(s)
  BY <1>2, <1>3, <1>4 DEF ChannelStep, Channel!Next, Channel!Write, Channel!Pass
<1>6. \A u \in Streams \ {s} : written'[u] = written[u] /\ taken'[u] = taken[u]
  BY EnqueueFacts
<1> QED
  BY <1>5, <1>6 DEF ChannelStep

LEMMA DequeueIsChannelStep ==
  ASSUME IInv, NEW r \in Readers, Dequeue(r)
  PROVE  \A u \in Streams : ChannelStep(u)
<1> DEFINE s == ReadsFrom[r]
<1>1. s \in Streams
  BY StreamAssumption
<1>2. written' = written
  BY DEF Dequeue
<1>3. CASE queue[s] = <<>>
  BY <1>2, <1>3 DEF Dequeue, ChannelStep
<1>4. CASE queue[s] # <<>>
  <2>1. /\ taken[s] \in Seq(Chunk) /\ queue[s] \in Seq(Chunk)
        /\ Len(taken[s]) \in Nat /\ Len(queue[s]) \in Nat /\ Len(queue[s]) # 0
    BY <1>1, <1>4, SeqFacts DEF IInv, TypeOK
  <2>2. /\ Len(written[s]) = Len(taken[s]) + Len(queue[s])
        /\ \A i \in 1..Len(queue[s]) : queue[s][i] = written[s][Len(taken[s]) + i]
    BY <1>1 DEF IInv, Fifo
  <2>3. queue[s][1] = written[s][Len(taken[s]) + 1] /\ Len(taken[s]) < Len(written[s])
    <3>1. 1 \in 1..Len(queue[s])
      BY <2>1
    <3>2. queue[s][1] = written[s][Len(taken[s]) + 1]
      BY <2>2, <3>1
    <3>3. \A m, n, k \in Nat : k # 0 /\ m = n + k => n < m
      OBVIOUS
    <3>4. Len(written[s]) = Len(taken[s]) + Len(queue[s]) /\ Len(written[s]) \in Nat
      BY <1>1, <2>2, SeqFacts DEF IInv, TypeOK
    <3>5. Len(taken[s]) < Len(written[s])
      BY <2>1, <3>3, <3>4
    <3> QED
      BY <3>2, <3>5
  <2>4. taken' = [taken EXCEPT ![s] = Append(taken[s], queue[s][1])]
    BY <1>4 DEF Dequeue, NextPlace
  <2>5. /\ taken'[s] = Append(taken[s], queue[s][1])
        /\ \A u \in Streams \ {s} : taken'[u] = taken[u]
    BY <1>1, <2>4 DEF IInv, TypeOK
  <2>6. ChannelStep(s)
    BY <1>2, <2>3, <2>5 DEF ChannelStep, Channel!Next, Channel!Read
  <2> QED
    BY <1>2, <2>5, <2>6 DEF ChannelStep
<1> QED
  BY <1>3, <1>4

LEMMA NextIsChannelStep ==
  ASSUME IInv, [Next]_vars
  PROVE  \A u \in Streams : ChannelStep(u)
<1>1. ASSUME UNCHANGED <<written, taken>>
      PROVE  \A u \in Streams : ChannelStep(u)
  BY <1>1 DEF ChannelStep
<1>2. ASSUME NEW s \in Streams, NEW c \in {End, Error}, Close(s, c)
      PROVE  \A u \in Streams : ChannelStep(u)
  BY <1>1, <1>2, ChunkFacts, EnqueueIsChannelStep DEF Close
<1>3. ASSUME NEW s \in Streams, OpenStream(s) \/ EnterHandler(s) \/ OpenAnswered(s)
      PROVE  \A u \in Streams : ChannelStep(u)
  BY <1>1, <1>3 DEF OpenStream, EnterHandler, OpenAnswered
<1>4. ASSUME NEW s \in Streams, Push(s)
      PROVE  \A u \in Streams : ChannelStep(u)
  <2>1. Value(Len(written[s]) + 1) \in Chunk
    <3>1. Len(written[s]) + 1 \in 0..MaxChunks
      BY <1>4, SeqFacts, StreamAssumption DEF Push, IInv, TypeOK
    <3> QED
      BY <3>1, ChunkFacts
  <2> QED
    BY <1>4, <2>1, EnqueueIsChannelStep DEF Push
<1>5. ASSUME NEW s \in Streams,
             (\E c \in {End, Error} : HandlerCloses(s, c)) \/ Settles(s) \/ OpenFails(s)
      PROVE  \A u \in Streams : ChannelStep(u)
  <2>1. PICK c \in {End, Error} : Close(s, c)
    BY <1>5 DEF HandlerCloses, Settles, HandlerSettles, OpenFails
  <2> QED
    BY <1>2, <2>1
<1>6. ASSUME NEW r \in Readers, Dequeue(r) \/ Leave(r)
      PROVE  \A u \in Streams : ChannelStep(u)
  BY <1>1, <1>6, DequeueIsChannelStep DEF Leave
<1>7. CASE UNCHANGED vars
  BY <1>1, <1>7 DEF vars
<1> QED
  BY <1>3, <1>4, <1>5, <1>6, <1>7 DEF Next, Returns

\* A stream keeps what StreamChannel promises: what its readers take, together,
\* is what its handlers wrote, in that order, and nothing follows the close.
THEOREM SessionIsChannel == Spec => IsChannel
<1>1. Init => \A s \in Streams : Channel(s)!Init
  BY DEF Init, Channel!Init
<1>2. IInv /\ [Next]_vars =>
        [\A s \in Streams : Channel(s)!Next \/ UNCHANGED <<written[s], taken[s]>>]_<<written, taken>>
  BY NextIsChannelStep DEF ChannelStep
<1> QED
  BY <1>1, <1>2, Invariance, PTL DEF Spec, IsChannel

-----------------------------------------------------------------------------
(***************************************************************************)
(* Liveness: the only reader of a stream gets to its end.                  *)
(***************************************************************************)

LiveInv == IInv /\ WorkInv /\ SoleInv

LEMMA WorkStep == IInv /\ WorkInv /\ [Next]_vars => WorkInv'
<1> SUFFICES ASSUME IInv, WorkInv, [Next]_vars PROVE WorkInv'
  OBVIOUS
<1>0. /\ runs \in [Streams -> 0..MaxRuns] /\ running \in [Streams -> SUBSET (1..MaxRuns)]
      /\ sending \in [Streams -> {"new", "sending", "returned"}]
      /\ MaxRuns \in Nat
  BY StreamAssumption DEF IInv, TypeOK
<1>1. ASSUME NEW s \in Streams, OpenStream(s) \/ OpenAnswered(s)
      PROVE  WorkInv'
  BY <1>0, <1>1 DEF OpenStream, OpenAnswered, WorkInv
<1>2. ASSUME NEW s \in Streams, EnterHandler(s)
      PROVE  WorkInv'
  BY <1>0, <1>2 DEF EnterHandler, WorkInv
<1>3. ASSUME NEW s \in Streams, Push(s)
      PROVE  WorkInv'
  BY <1>0, <1>3 DEF Push, WorkInv
<1>4. ASSUME NEW s \in Streams,
             (\E c \in {End, Error} : HandlerCloses(s, c)) \/ Settles(s) \/ OpenFails(s)
      PROVE  WorkInv'
  <2>1. ended' = ended \cup {s}
    BY <1>4, ClosersKeep
  <2>2. runs' = runs /\ (runs[s] > 0 \/ sending[s] = "sending")
    BY <1>0, <1>4 DEF HandlerCloses, Settles, HandlerSettles, OpenFails, WorkInv
  <2>3. \A u \in Streams :
          /\ running'[u] \subseteq running[u]
          /\ u # s => running'[u] = running[u]
          /\ sending'[u] = sending[u] \/ sending'[u] = "returned"
    BY <1>0, <1>4 DEF HandlerCloses, Settles, HandlerSettles, OpenFails
  <2> QED
    BY <1>0, <2>1, <2>2, <2>3 DEF WorkInv
<1>5. ASSUME NEW r \in Readers, Dequeue(r) \/ Leave(r)
      PROVE  WorkInv'
  BY <1>5 DEF Dequeue, Leave, WorkInv
<1>6. CASE UNCHANGED vars
  BY <1>6 DEF vars, WorkInv
<1> QED
  BY <1>1, <1>2, <1>3, <1>4, <1>5, <1>6 DEF Next, Returns

\* A chunk that leaves its reader idle is not a closing one.
LEMMA TakenFacts ==
  ASSUME NEW t \in Seq(Chunk), NEW c \in Chunk, Got(c) \in {"idle", "waiting"},
         \A i \in 1..Len(t) : t[i] \notin Closing
  PROVE  \A i \in 1..Len(Append(t, c)) : Append(t, c)[i] \notin Closing
<1>1. c \notin Closing
  BY DEF Got, Closing, Chunk
<1> QED
  BY <1>1, AppendFacts

LEMMA EnqueueKeepsSole ==
  ASSUME IInv, SoleInv, NEW s \in Streams, NEW c \in Chunk, Enqueue(s, c)
  PROVE  SoleInv'
<1> SUFFICES ASSUME NEW r \in Readers, Sole(r)
             PROVE  /\ reader'[r] = "waiting" => waiters'[ReadsFrom[r]] # <<>>
                    /\ reader'[r] \in {"idle", "waiting"} =>
                         \A i \in 1..Len(taken'[ReadsFrom[r]]) : taken'[ReadsFrom[r]][i] \notin Closing
  BY DEF SoleInv, Sole
<1> DEFINE u == ReadsFrom[r]
<1>1. u \in Streams /\ reader \in [Readers -> {"idle", "waiting", "done", "failed", "left"}]
      /\ taken[u] \in Seq(Chunk) /\ waiters[s] \in Seq(Readers)
  BY StreamAssumption DEF IInv, TypeOK
<1>2. /\ reader[r] = "waiting" => waiters[u] # <<>>
      /\ reader[r] \in {"idle", "waiting"} => \A i \in 1..Len(taken[u]) : taken[u][i] \notin Closing
  BY DEF SoleInv
<1>3. CASE waiters[s] # <<>>
  <2>1. /\ Head(waiters[s]) \in Readers /\ ReadsFrom[Head(waiters[s])] = s
        /\ reader[Head(waiters[s])] = "waiting"
    <3>1. Head(waiters[s]) = waiters[s][1] /\ Len(waiters[s]) >= 1 /\ Head(waiters[s]) \in Readers
          /\ Len(waiters[s]) \in Nat
      BY <1>1, <1>3, TailFacts
    <3> QED
      BY <3>1 DEF IInv, NobodyWaitsInVain
  <2>2. /\ reader' = [reader EXCEPT ![Head(waiters[s])] = Got(c)]
        /\ taken'[s] = Append(taken[s], c)
        /\ \A v \in Streams \ {s} : taken'[v] = taken[v] /\ waiters'[v] = waiters[v]
    BY <1>3, EnqueueFacts
  <2>3. CASE u = s
    <3>1. r = Head(waiters[s])
      BY <2>1, <2>3 DEF Sole
    <3>2. reader'[r] = Got(c) /\ Got(c) # "waiting" /\ reader[r] = "waiting"
      BY <1>1, <2>1, <2>2, <3>1, ChunkFacts
    <3>3. Got(c) \in {"idle", "waiting"} => \A i \in 1..Len(taken'[u]) : taken'[u][i] \notin Closing
      BY <1>1, <1>2, <2>2, <2>3, <3>2, TakenFacts
    <3> QED
      BY <3>2, <3>3
  <2>4. CASE u # s
    <3>1. reader'[r] = reader[r] /\ taken'[u] = taken[u] /\ waiters'[u] = waiters[u]
      BY <1>1, <2>1, <2>2, <2>4
    <3> QED
      BY <1>2, <3>1
  <2> QED
    BY <2>3, <2>4
<1>4. CASE waiters[s] = <<>>
  <2>1. reader' = reader /\ waiters' = waiters /\ \A v \in Streams : taken'[v] = taken[v]
    BY <1>4, EnqueueFacts
  <2> QED
    BY <1>1, <1>2, <2>1
<1> QED
  BY <1>3, <1>4

LEMMA DequeueKeepsSole ==
  ASSUME IInv, SoleInv, NEW q \in Readers, Dequeue(q)
  PROVE  SoleInv'
<1> SUFFICES ASSUME NEW r \in Readers, Sole(r)
             PROVE  /\ reader'[r] = "waiting" => waiters'[ReadsFrom[r]] # <<>>
                    /\ reader'[r] \in {"idle", "waiting"} =>
                         \A i \in 1..Len(taken'[ReadsFrom[r]]) : taken'[ReadsFrom[r]][i] \notin Closing
  BY DEF SoleInv, Sole
<1> DEFINE u == ReadsFrom[r]
           s == ReadsFrom[q]
<1>1. /\ u \in Streams /\ s \in Streams
      /\ reader \in [Readers -> {"idle", "waiting", "done", "failed", "left"}]
      /\ taken \in [Streams -> Seq(Chunk)] /\ waiters \in [Streams -> Seq(Readers)]
      /\ queue[s] \in Seq(Chunk)
  BY StreamAssumption DEF IInv, TypeOK
<1>2. /\ reader[r] = "waiting" => waiters[u] # <<>>
      /\ reader[r] \in {"idle", "waiting"} => \A i \in 1..Len(taken[u]) : taken[u][i] \notin Closing
  BY DEF SoleInv
<1>3. reader[q] = "idle"
  BY DEF Dequeue
<1>4. CASE queue[s] # <<>>
  <2>1. PICK c \in Chunk : /\ reader' = [reader EXCEPT ![q] = Got(c)]
                           /\ taken' = [taken EXCEPT ![s] = Append(taken[s], c)]
                           /\ waiters' = waiters
    BY <1>1, <1>4, TailFacts DEF Dequeue, NextPlace
  <2>2. CASE u = s
    <3>1. q = r
      BY <2>2 DEF Sole
    <3>2. reader'[r] = Got(c) /\ Got(c) # "waiting" /\ taken'[u] = Append(taken[u], c)
      BY <1>1, <2>1, <2>2, <3>1, ChunkFacts
    <3>3. Got(c) \in {"idle", "waiting"} => \A i \in 1..Len(taken'[u]) : taken'[u][i] \notin Closing
      BY <1>1, <1>2, <1>3, <3>1, <3>2, TakenFacts
    <3> QED
      BY <3>2, <3>3
  <2>3. CASE u # s
    <3>1. reader'[r] = reader[r] /\ taken'[u] = taken[u]
      BY <1>1, <2>1, <2>3
    <3> QED
      BY <1>2, <2>1, <3>1
  <2> QED
    BY <2>2, <2>3
<1>5. CASE queue[s] = <<>>
  <2>1. /\ waiters' = [waiters EXCEPT ![s] = Append(waiters[s], q)]
        /\ reader' = [reader EXCEPT ![q] = "waiting"]
        /\ taken' = taken
    BY <1>5 DEF Dequeue
  <2>2. Append(waiters[s], q) # <<>>
    <3>1. /\ Append(waiters[s], q) \in Seq(Readers)
          /\ Len(waiters[s]) \in Nat /\ Len(Append(waiters[s], q)) = Len(waiters[s]) + 1
      BY <1>1, AppendFacts
    <3>2. Len(Append(waiters[s], q)) # 0
      BY <3>1
    <3> QED
      BY <3>1, <3>2, SeqFacts
  <2>3. r # q => u # s
    BY DEF Sole
  <2> QED
    BY <1>1, <1>2, <1>3, <2>1, <2>2, <2>3
<1> QED
  BY <1>4, <1>5

LEMMA SoleStep == IInv /\ SoleInv /\ [Next]_vars => SoleInv'
<1> SUFFICES ASSUME IInv, SoleInv, [Next]_vars PROVE SoleInv'
  OBVIOUS
<1>1. ASSUME UNCHANGED <<reader, waiters, taken>>
      PROVE  SoleInv'
  BY <1>1 DEF SoleInv, Sole
<1>2. ASSUME NEW s \in Streams, OpenStream(s) \/ EnterHandler(s) \/ OpenAnswered(s)
      PROVE  SoleInv'
  BY <1>1, <1>2 DEF OpenStream, EnterHandler, OpenAnswered
<1>3. ASSUME NEW s \in Streams, Push(s)
      PROVE  SoleInv'
  <2>1. Value(Len(written[s]) + 1) \in Chunk
    <3>1. Len(written[s]) + 1 \in 0..MaxChunks
      BY <1>3, SeqFacts, StreamAssumption DEF Push, IInv, TypeOK
    <3> QED
      BY <3>1, ChunkFacts
  <2> QED
    BY <1>3, <2>1, EnqueueKeepsSole DEF Push
<1>4. ASSUME NEW s \in Streams,
             (\E c \in {End, Error} : HandlerCloses(s, c)) \/ Settles(s) \/ OpenFails(s)
      PROVE  SoleInv'
  <2>1. PICK c \in {End, Error} : Close(s, c)
    BY <1>4 DEF HandlerCloses, Settles, HandlerSettles, OpenFails
  <2> QED
    BY <1>1, <2>1, ChunkFacts, EnqueueKeepsSole DEF Close
<1>5. ASSUME NEW r \in Readers, Dequeue(r)
      PROVE  SoleInv'
  BY <1>5, DequeueKeepsSole
<1>6. ASSUME NEW r \in Readers, Leave(r)
      PROVE  SoleInv'
  BY <1>6 DEF Leave, SoleInv, Sole, IInv, TypeOK
<1>7. CASE UNCHANGED vars
  BY <1>1, <1>7 DEF vars
<1> QED
  BY <1>2, <1>3, <1>4, <1>5, <1>6, <1>7 DEF Next, Returns

LEMMA LiveInvariance == Spec => []LiveInv
<1>1. Init => WorkInv /\ SoleInv
  <2> SUFFICES ASSUME Init PROVE WorkInv /\ SoleInv
    OBVIOUS
  <2>1. WorkInv
    BY DEF Init, WorkInv
  <2>2. \A s \in Streams : Len(taken[s]) = 0
    BY DEF Init
  <2> QED
    BY <2>1, <2>2, StreamAssumption DEF Init, SoleInv
<1> QED
  BY <1>1, InitIInv, NextKeepsIInv, WorkStep, SoleStep, PTL DEF Spec, LiveInv

\* The guards of the fairness that Streams states: a handler that runs settles,
\* send() returns, and a reader between two chunks asks for the next or leaves.
CanDequeue(r) == sending[ReadsFrom[r]] = "returned" /\ reader[r] = "idle"

Served(r) ==
  /\ []<>(running[ReadsFrom[r]] = {}) \/ []<><<Settles(ReadsFrom[r])>>_vars
  /\ []<>(sending[ReadsFrom[r]] # "sending") \/ []<><<Returns(ReadsFrom[r])>>_vars
  /\ []<>~CanDequeue(r) \/ []<><<Dequeue(r)>>_vars

ServedSpec == Spec /\ \A r \in Readers : Served(r)

\* True of every behaviour: a natural number that from some time on does not
\* grow changes only finitely often.  (It takes induction over the number to
\* prove, which tlapm cannot do with temporal formulas.)
QueueRunsOut(s) ==
  [](Len(queue[s]) \in Nat) /\ <>[][Len(queue'[s]) <= Len(queue[s])]_vars
    => <>[][Len(queue'[s]) = Len(queue[s])]_vars

\* What no step undoes: a session has been entered, has ended, its send() has
\* returned; and once it has ended its queue does not grow.
LEMMA SessionMoves ==
  ASSUME LiveInv, [Next]_vars, NEW s \in Streams
  PROVE  /\ runs[s] > 0 => runs'[s] > 0
         /\ s \in ended => s \in ended'
         /\ sending[s] = "returned" => sending'[s] = "returned"
         /\ s \in ended => Len(queue'[s]) <= Len(queue[s])
<1> DEFINE Goal == /\ runs[s] > 0 => runs'[s] > 0
                   /\ s \in ended => s \in ended'
                   /\ sending[s] = "returned" => sending'[s] = "returned"
                   /\ s \in ended => Len(queue'[s]) <= Len(queue[s])
<1>0. /\ runs \in [Streams -> 0..MaxRuns] /\ MaxRuns \in Nat
      /\ sending \in [Streams -> {"new", "sending", "returned"}]
      /\ queue \in [Streams -> Seq(Chunk)]
      /\ Len(queue[s]) \in Nat
      /\ IInv
  BY StreamAssumption, SeqFacts DEF LiveInv, IInv, TypeOK
<1>1. ASSUME NEW u \in Streams, OpenStream(u) \/ EnterHandler(u) \/ OpenAnswered(u)
      PROVE  Goal
  BY <1>0, <1>1 DEF OpenStream, EnterHandler, OpenAnswered
<1>2. ASSUME NEW u \in Streams, NEW c \in Chunk, Enqueue(u, c), u \notin ended
      PROVE  s \in ended => queue'[s] = queue[s]
  BY <1>0, <1>2, EnqueueFacts
<1>3. ASSUME NEW u \in Streams, Push(u)
      PROVE  Goal
  <2>1. Len(written[u]) + 1 \in 0..MaxChunks
    BY <1>0, <1>3, SeqFacts, StreamAssumption DEF Push, IInv, TypeOK
  <2>2. s \in ended => queue'[s] = queue[s]
    BY <1>2, <1>3, <2>1, ChunkFacts DEF Push
  <2> QED
    BY <1>0, <1>3, <2>2 DEF Push
<1>4. ASSUME NEW u \in Streams,
             (\E c \in {End, Error} : HandlerCloses(u, c)) \/ Settles(u) \/ OpenFails(u)
      PROVE  Goal
  <2>1. PICK c \in {End, Error} : Close(u, c)
    BY <1>4 DEF HandlerCloses, Settles, HandlerSettles, OpenFails
  <2>2. s \in ended => s \in ended' /\ queue'[s] = queue[s]
    BY <1>0, <1>2, <2>1, ChunkFacts DEF Close
  <2>3. runs' = runs /\ (sending' = sending \/ sending' = [sending EXCEPT ![u] = "returned"])
    BY <1>4 DEF HandlerCloses, Settles, HandlerSettles, OpenFails
  <2> QED
    BY <1>0, <2>2, <2>3
<1>5. ASSUME NEW r \in Readers, Dequeue(r) \/ Leave(r)
      PROVE  Goal
  <2>1. queue' = queue \/ (queue[ReadsFrom[r]] # <<>>
                           /\ queue' = [queue EXCEPT ![ReadsFrom[r]] = Tail(queue[ReadsFrom[r]])])
    BY <1>5 DEF Dequeue, Leave
  <2>2. queue[ReadsFrom[r]] # <<>> => /\ Len(Tail(queue[ReadsFrom[r]])) = Len(queue[ReadsFrom[r]]) - 1
                                      /\ Len(queue[ReadsFrom[r]]) \in Nat
    BY <1>0, TailFacts, StreamAssumption
  <2>3. Len(queue'[s]) <= Len(queue[s])
    <3>1. CASE queue'[s] = queue[s]
      BY <1>0, <3>1
    <3>2. CASE queue'[s] # queue[s]
      <4>1. s = ReadsFrom[r] /\ queue[s] # <<>> /\ queue'[s] = Tail(queue[s])
        BY <1>0, <2>1, <3>2
      <4> QED
        BY <2>2, <4>1
    <3> QED
      BY <3>1, <3>2
  <2> QED
    BY <1>0, <1>5, <2>3 DEF Dequeue, Leave
<1>6. CASE UNCHANGED vars
  BY <1>0, <1>6 DEF vars
<1> QED
  BY <1>1, <1>3, <1>4, <1>5, <1>6 DEF Next, Returns

\* At the end of its session a sole reader has a chunk to take or is through.
LEMMA ReaderIsReady ==
  ASSUME LiveInv, NEW r \in Readers, Sole(r), ReadsFrom[r] \in ended
  PROVE  \/ reader[r] \in {"done", "failed", "left"}
         \/ reader[r] = "idle" /\ queue[ReadsFrom[r]] # <<>>
<1> DEFINE s == ReadsFrom[r]
<1>1. /\ s \in Streams /\ reader[r] \in {"idle", "waiting", "done", "failed", "left"}
      /\ queue[s] \in Seq(Chunk) /\ taken[s] \in Seq(Chunk) /\ written[s] \in Seq(Chunk)
  BY StreamAssumption DEF LiveInv, IInv, TypeOK
<1>2. /\ Len(queue[s]) \in Nat /\ Len(taken[s]) \in Nat /\ Len(written[s]) \in Nat
      /\ Len(written[s]) = Len(taken[s]) + Len(queue[s])
      /\ \A i \in 1..Len(taken[s]) : taken[s][i] = written[s][i]
  BY <1>1, SeqFacts DEF LiveInv, IInv, Fifo
<1>3. PICK i \in 1..Len(written[s]) : written[s][i] \in Closing
  BY <1>1 DEF LiveInv, IInv, ClosedOnce
<1>4. ASSUME reader[r] \in {"idle", "waiting"}
      PROVE  queue[s] # <<>>
  <2>1. i \notin 1..Len(taken[s])
    BY <1>2, <1>3, <1>4 DEF LiveInv, SoleInv
  <2>2. Len(queue[s]) # 0
    <3>1. ASSUME NEW t \in Nat, NEW q \in Nat, NEW j \in 1..(t + q), j \notin 1..t
          PROVE  q # 0
      BY <3>1
    <3> QED
      BY <1>2, <2>1, <3>1
  <2> QED
    BY <1>1, <2>2, SeqFacts
<1>5. reader[r] = "waiting" => queue[s] = <<>>
  BY <1>1 DEF LiveInv, SoleInv, IInv, NobodyWaitsInVain
<1> QED
  BY <1>1, <1>4, <1>5

\* The only reader of a stream gets to its end, whatever its handlers push and
\* whichever of them, or the failed open, closes it (runtime.ts:376-389, :423).
THEOREM ReadersFinish ==
  ServedSpec /\ (\A s \in Streams : QueueRunsOut(s)) => SoleReaderFinishes
<1>1. ASSUME NEW r \in Readers, Sole(r)
      PROVE  ServedSpec /\ (\A s \in Streams : QueueRunsOut(s))
               => (runs[ReadsFrom[r]] > 0 \/ ReadsFrom[r] \in ended
                     ~> reader[r] \in {"done", "failed", "left"})
  <2> DEFINE s == ReadsFrom[r]
             P == runs[s] > 0 \/ s \in ended
             E == s \in ended
             R == running[s] = {}
             N == sending[s] # "sending"
             T == sending[s] = "returned"
             Can == CanDequeue(r)
             F == reader[r] \in {"done", "failed", "left"}
  <2>0. s \in Streams
    BY StreamAssumption
  <2>1. LiveInv /\ [Next]_vars /\ P => P'
    BY <2>0, SessionMoves
  <2>2. LiveInv /\ [Next]_vars /\ E => E'
    BY <2>0, SessionMoves
  <2>3. LiveInv /\ [Next]_vars /\ T => T'
    BY <2>0, SessionMoves
  <2>4. LiveInv /\ P => E \/ ~R
    BY <2>0 DEF LiveInv, WorkInv
  <2>5. LiveInv /\ <<Settles(s)>>_vars => E'
    BY <2>0, ClosersKeep DEF LiveInv
  <2>6. LiveInv /\ P => ~N \/ T
    BY <2>0 DEF LiveInv, WorkInv, IInv, TypeOK
  <2>7. LiveInv /\ <<Returns(s)>>_vars => T'
    BY <2>0 DEF LiveInv, IInv, TypeOK, Returns, OpenAnswered, OpenFails
  <2>8. LiveInv /\ E /\ T => F \/ Can
    BY <1>1, ReaderIsReady DEF CanDequeue
  <2>9. LiveInv /\ E /\ [Next]_vars => [Len(queue'[s]) <= Len(queue[s])]_vars
    BY <2>0, SessionMoves
  <2>10. LiveInv /\ E /\ <<Dequeue(r)>>_vars => ~[Len(queue'[s]) = Len(queue[s])]_vars
    <3> SUFFICES ASSUME LiveInv, E, Dequeue(r)
                 PROVE  Len(queue'[s]) # Len(queue[s]) /\ vars' # vars
      OBVIOUS
    <3>1. queue[s] # <<>>
      BY <1>1, ReaderIsReady DEF Dequeue
    <3>2. queue \in [Streams -> Seq(Chunk)] /\ queue[s] \in Seq(Chunk)
      BY <2>0 DEF LiveInv, IInv, TypeOK
    <3>3. queue'[s] = Tail(queue[s])
      BY <2>0, <3>1, <3>2 DEF Dequeue
    <3>4. Len(queue[s]) \in Nat /\ Len(queue'[s]) = Len(queue[s]) - 1
      BY <3>1, <3>2, <3>3, TailFacts
    <3> QED
      BY <3>4 DEF vars
  <2>11. LiveInv => Len(queue[s]) \in Nat
    BY <2>0, SeqFacts DEF LiveInv, IInv, TypeOK
  <2>12. Served(r) <=> /\ []<>R \/ []<><<Settles(s)>>_vars
                       /\ []<>N \/ []<><<Returns(s)>>_vars
                       /\ []<>~Can \/ []<><<Dequeue(r)>>_vars
    BY DEF Served
  <2>13. QueueRunsOut(s) <=>
           ([](Len(queue[s]) \in Nat) /\ <>[][Len(queue'[s]) <= Len(queue[s])]_vars
              => <>[][Len(queue'[s]) = Len(queue[s])]_vars)
    BY DEF QueueRunsOut
  <2>14. ServedSpec => Spec /\ Served(r)
    BY DEF ServedSpec
  <2>15. (\A u \in Streams : QueueRunsOut(u)) => QueueRunsOut(s)
    BY <2>0
  <2> HIDE DEF P, E, R, N, T, Can, F
  <2>16. ServedSpec /\ (\A u \in Streams : QueueRunsOut(u)) => (P ~> F)
    BY <2>1, <2>2, <2>3, <2>4, <2>5, <2>6, <2>7, <2>8, <2>9, <2>10, <2>11, <2>12, <2>13,
       <2>14, <2>15, LiveInvariance, PTL DEF Spec
  <2> QED
    BY <2>16 DEF P, F
<1> QED
  BY <1>1 DEF SoleReaderFinishes
=============================================================================
