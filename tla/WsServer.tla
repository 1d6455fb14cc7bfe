------------------------------ MODULE WsServer ------------------------------
(***************************************************************************)
(* The subscriptions of MailmanWsServer (src/transport/wsServer.ts) on the *)
(* runtime's EventBus.  A subscription is a new closure each time, named   *)
(* here by its connection and the bus's next serial number.  Sockets are   *)
(* served between two publish() calls, never inside one; subscribers of    *)
(* the process itself may do anything at any time.                         *)
(***************************************************************************)
EXTENDS EventBus

CONSTANT Conns  \* connections, accepted and authorised

\* No subscriber of the process is the closure of a connection.
ASSUME ServerAssumption == Handlers \cap (Conns \X (1..MaxSerial)) = {}

VARIABLES
  ws,        \* each connection: "new", "open", "closing", "closed"
  connSubs   \* its subscriptions: the topic and the closure

wsVars == <<busVars, ws, connSubs>>

Init ==
  /\ BusInit
  /\ ws = [c \in Conns |-> "new"]
  /\ connSubs = [c \in Conns |-> {}]

Closure(c) == <<c, serial + 1>>

TopicsOf(c) == {sub[1] : sub \in connSubs[c]}

OnConnection(c) ==
  /\ frames = <<>>
  /\ ws[c] = "new"
  /\ ws' = [ws EXCEPT ![c] = "open"]
  /\ UNCHANGED <<busVars, connSubs>>

\* Messages are handled until the "close" event, also those that come in while
\* the closing handshake is under way.
Receives(c) == ws[c] \in {"open", "closing"}

\* op "subscribe", which a connection may do once for a topic.
OnSubscribe(c, topic) ==
  /\ frames = <<>>
  /\ Receives(c)
  /\ topic \notin TopicsOf(c)
  /\ Subscribe(topic, Closure(c))
  /\ connSubs' = [connSubs EXCEPT ![c] = @ \cup {<<topic, Closure(c)>>}]
  /\ UNCHANGED ws

\* op "unsubscribe".
OnUnsubscribe(c, topic) ==
  /\ frames = <<>>
  /\ Receives(c)
  /\ \E sub \in connSubs[c] :
       /\ sub[1] = topic
       /\ Unsubscribe(topic, sub[2])
       /\ connSubs' = [connSubs EXCEPT ![c] = @ \ {sub}]
  /\ UNCHANGED ws

\* The socket stops being open; its "close" event comes later.
Closing(c) ==
  /\ frames = <<>>
  /\ ws[c] = "open"
  /\ ws' = [ws EXCEPT ![c] = "closing"]
  /\ UNCHANGED <<busVars, connSubs>>

\* Mutant: the subscriptions outlive their connection.
CloseLeavesSubs(c) ==
  /\ frames = <<>>
  /\ ws[c] = "closing"
  /\ ws' = [ws EXCEPT ![c] = "closed"]
  /\ connSubs' = [connSubs EXCEPT ![c] = {}]
  /\ UNCHANGED busVars

\* The "close" event: every subscription of the connection is removed.
OnClose(c) ==
  /\ frames = <<>>
  /\ ws[c] = "closing"
  /\ ws' = [ws EXCEPT ![c] = "closed"]
  /\ subs' = {e \in subs : <<e.topic, e.handler>> \notin connSubs[c]}
  /\ connSubs' = [connSubs EXCEPT ![c] = {}]
  /\ UNCHANGED <<serial, frames, published>>

Next ==
  \/ BusNext /\ UNCHANGED <<ws, connSubs>>
  \/ \E c \in Conns :
       \/ OnConnection(c) \/ Closing(c) \/ OnClose(c)
       \/ \E topic \in Topics : OnSubscribe(c, topic) \/ OnUnsubscribe(c, topic)

Spec == Init /\ [][Next]_wsVars

\* Subscribers return, so publish() goes on.
FairSpec == Spec /\ WF_wsVars(Loop /\ UNCHANGED <<ws, connSubs>>)

-----------------------------------------------------------------------------
\* The entries of the bus that belong to connection c.
EntriesOf(c) == {e \in subs : \E n \in 1..serial : e.handler = <<c, n>>}

\* The bus holds one entry for every topic a live connection has subscribed,
\* and none for any other: a connection that has gone leaves nothing behind
\* that would be called, and kept in memory, for ever.
NothingLeftBehind ==
  \A c \in Conns :
    /\ {<<e.topic, e.handler>> : e \in EntriesOf(c)} = connSubs[c]
    /\ Cardinality(TopicsOf(c)) = Cardinality(EntriesOf(c))
    /\ ws[c] \in {"new", "closed"} => EntriesOf(c) = {}
=============================================================================
