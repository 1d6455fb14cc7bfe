------------------------------ MODULE EventBus ------------------------------
(***************************************************************************)
(* EventBus of src/core/eventBus.ts, with the live iterators of JavaScript.*)
(*                                                                         *)
(* A Map or a Set is iterated in the order of insertion.  What is removed  *)
(* before its turn is not visited, and what is added is, even by the       *)
(* subscriber the loop is just calling.  So every entry carries the serial *)
(* numbers of its insertion, and a loop remembers the last ones it visited.*)
(* A subscriber may subscribe, unsubscribe and publish, so publish() is    *)
(* reentrant: `frames` is its call stack.  That subscribers throw makes no *)
(* difference: publish() goes on to the next.                              *)
(***************************************************************************)
EXTENDS Naturals, FiniteSets, Sequences, SequencesExt

CONSTANTS
  Handlers,    \* subscriber functions
  Topics,      \* topic patterns: sequences of words, "*" is a word
  Types,       \* packet types: sequences of words
  MaxSerial,   \* bound: insertions
  MaxPublish,  \* bound: packets published
  MaxDepth     \* bound: publish() calls on the stack

ASSUME EventBusAssumption == MaxSerial \in Nat /\ MaxPublish \in Nat /\ MaxDepth \in Nat

VARIABLES
  subs,       \* the entries of the Map of Sets
  serial,     \* insertions so far
  frames,     \* publish() calls under way, the innermost last
  published   \* packets published so far

busVars == <<subs, serial, frames, published>>

\* An entry of the Set of a topic: when it, and when that Set, was inserted.
Entry == [topic : Topics, handler : Handlers, set : Nat, place : Nat]

\* A run of publish(): the type of its packet, the Set and place of the entry
\* it has visited last; and, for the properties, the entries that were there
\* when it began and those it has called.
Frame == [type : Types, set : Nat, place : Nat, base : SUBSET Entry, called : SUBSET Entry]

BusInit == subs = {} /\ serial = 0 /\ frames = <<>> /\ published = 0

\* matches(): "*", the type itself, or a prefix of its words followed by "*".
Matches(topic, type) ==
  \/ topic = <<"*">>
  \/ topic = type
  \/ Len(topic) > 1 /\ Last(topic) = "*" /\ IsPrefix(Front(topic), type)

Subscribed(topic, h) == \E e \in subs : e.topic = topic /\ e.handler = h

\* The Set of a topic that has subscribers, or a new one.
SetOf(topic) ==
  IF \E e \in subs : e.topic = topic
  THEN (CHOOSE e \in subs : e.topic = topic).set
  ELSE serial + 1

\* subscribe(): a handler is in the Set of a topic once.
Subscribe(topic, h) ==
  /\ serial < MaxSerial
  /\ ~Subscribed(topic, h)
  /\ serial' = serial + 1
  /\ subs' = subs \cup {[topic |-> topic, handler |-> h, set |-> SetOf(topic), place |-> serial + 1]}
  /\ UNCHANGED <<frames, published>>

\* The function subscribe() returned: it removes the handler, whoever added
\* it; without an entry it does nothing.
Unsubscribe(topic, h) ==
  /\ Subscribed(topic, h)
  /\ subs' = {e \in subs : ~(e.topic = topic /\ e.handler = h)}
  /\ UNCHANGED <<serial, frames, published>>

\* publish() is called, from outside or by the subscriber that is running.
PublishBegins(type) ==
  /\ published < MaxPublish
  /\ Len(frames) < MaxDepth
  /\ published' = published + 1
  /\ frames' = Append(frames, [type |-> type, set |-> 0, place |-> 0, base |-> subs, called |-> {}])
  /\ UNCHANGED <<subs, serial>>

Before(e, f) == e.set < f.set \/ (e.set = f.set /\ e.place < f.place)

\* Mutant: the loop goes on after the last insertion it has seen, so that a
\* later Set hides the rest of the earlier ones.
AheadByPlace(f) == {e \in subs : Matches(e.topic, f.type) /\ e.place > f.place}

\* What the loops of frame f have not reached yet.
Ahead(f) == {e \in subs : Matches(e.topic, f.type) /\ Before(f, e)}

\* Mutant: the loop does not move on.
CallStays ==
  /\ frames # <<>>
  /\ LET f == Last(frames)
     IN  \E e \in Ahead(f) :
           /\ \A o \in Ahead(f) : o = e \/ Before(e, o)
           /\ frames' = Append(Front(frames), [f EXCEPT !.called = @ \cup {e}])
  /\ UNCHANGED <<subs, serial, published>>

\* The innermost publish() calls the next subscriber.
Call ==
  /\ frames # <<>>
  /\ LET f == Last(frames)
     IN  \E e \in Ahead(f) :
           /\ \A o \in Ahead(f) : o = e \/ Before(e, o)
           /\ frames' = Append(Front(frames),
                          [f EXCEPT !.set = e.set, !.place = e.place, !.called = @ \cup {e}])
  /\ UNCHANGED <<subs, serial, published>>

\* The innermost publish() has no subscriber left and returns.
PublishEnds ==
  /\ frames # <<>>
  /\ Ahead(Last(frames)) = {}
  /\ frames' = Front(frames)
  /\ UNCHANGED <<subs, serial, published>>

Loop == Call \/ PublishEnds

BusNext ==
  \/ \E topic \in Topics, h \in Handlers : Subscribe(topic, h) \/ Unsubscribe(topic, h)
  \/ \E type \in Types : PublishBegins(type)
  \/ Loop

-----------------------------------------------------------------------------
(***************************************************************************)
(* Properties                                                              *)
(***************************************************************************)

\* eventBus.ts:42, "Deliver a packet to all matching subscribers": whoever has
\* stayed subscribed from the beginning to the end of a publish() is called,
\* whatever the other subscribers add, remove and publish in between.
EveryStayerIsCalled ==
  \A i \in DOMAIN frames :
    LET f == frames[i]
    IN  Ahead(f) = {} => {e \in f.base \cap subs : Matches(e.topic, f.type)} \subseteq f.called

\* publish() returns, also when subscribers subscribe: they would have to do so
\* for ever to keep it going.
PublishReturns == \A n \in 1..MaxDepth : Len(frames) >= n ~> Len(frames) < n
=============================================================================
