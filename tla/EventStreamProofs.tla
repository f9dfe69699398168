------------------------- MODULE EventStreamProofs -------------------------
(***************************************************************************)
(* Every connection hears, for any number of pages, connections, events    *)
(* and faults.                                                             *)
(***************************************************************************)
EXTENDS EventStream, TLAPS

\* What the steps of the subscriber rely on: the shape of its records, and that it is off
\* while the API is down.
Shapes ==
    /\ conn \in [ConnIds -> [pc : {"unused", "accepted", "refused", "registered", "receiving", "ended"},
                             client : {"open", "closed"}]]
    /\ DOMAIN owed = ConnIds
    /\ DOMAIN subscriber = {"pc", "linked", "inbox"}
    /\ subscriber.pc = "broadcasting" => DOMAIN broadcast = {"event", "left", "dead"}
    /\ ~up => subscriber.pc = "off"

\* c waits for the event that is handed out.
Due(c) == subscriber.pc = "broadcasting" /\ c \in broadcast.left

\* A connection that was never registered is owed nothing and waits for nothing.
NewAreUnknown ==
    \A c \in ConnIds : conn[c].pc \in {"unused", "accepted", "refused"} =>
       c \notin registry /\ owed[c] = {} /\ ~Due(c)

Inv == Shapes /\ NewAreUnknown /\ EveryConnectionHears

\* Steps of pages and handlers that neither register a connection nor revive one leave
\* the subscriber's debts alone.
LEMMA ConnectionsEnd ==
  ASSUME Inv, Shapes',
         UNCHANGED <<subscriber, broadcast, owed>>, registry' \subseteq registry,
         \A c \in ConnIds :
            /\ Alive(c)' => Alive(c)
            /\ conn'[c].pc \in {"unused", "accepted", "refused"}
               => conn[c].pc \in {"unused", "accepted", "refused"}
  PROVE  Inv'
<1>1. NewAreUnknown'
  BY DEF Inv, NewAreUnknown, Due
<1>2. EveryConnectionHears'
  BY DEF Inv, EveryConnectionHears
<1> QED
  BY <1>1, <1>2 DEF Inv

LEMMA InitInv == Init => Inv
<1> SUFFICES ASSUME Init PROVE Inv
  OBVIOUS
<1>1. Shapes
  BY DEF Init, Shapes, Unused, Subscribed
<1>2. NewAreUnknown
  BY DEF Init, NewAreUnknown, Due, Subscribed
<1>3. EveryConnectionHears
  BY DEF Init, EveryConnectionHears, Alive, Unused
<1> QED
  BY <1>1, <1>2, <1>3 DEF Inv

\* The actions of the subscriber and of the API process.
LEMMA SubscriberStep ==
  ASSUME Inv,
         \/ StartApi \/ StopApi \/ RedisFails \/ SubscriberExits \/ TakeMessage \/ EndBroadcast
         \/ Publish
         \/ \E c \in ConnIds : Send(c)
  PROVE  Inv'
<1> USE DEF Inv
<1>1. ASSUME StartApi PROVE Inv'
  <2>1. Shapes'
    BY <1>1 DEF StartApi, Shapes, Subscribed, Exited
  <2>2. NewAreUnknown'
    BY <1>1 DEF StartApi, NewAreUnknown, Due, Subscribed, Exited
  <2>3. EveryConnectionHears'
    BY <1>1 DEF StartApi, Shapes, EveryConnectionHears, Alive, Subscribed, Exited
  <2> QED
    BY <2>1, <2>2, <2>3
<1>2. ASSUME StopApi PROVE Inv'
  <2>1. Shapes'
    BY <1>2 DEF StopApi, Shapes, Off, Unused
  <2>2. NewAreUnknown'
    BY <1>2 DEF StopApi, NewAreUnknown, Due, Off
  <2>3. EveryConnectionHears'
    BY <1>2 DEF StopApi, Shapes, EveryConnectionHears, Alive, Off, Unused
  <2> QED
    BY <2>1, <2>2, <2>3
<1>3. ASSUME RedisFails \/ Publish PROVE Inv'
  <2>1. /\ subscriber'.pc = subscriber.pc
        /\ DOMAIN subscriber' = DOMAIN subscriber
        /\ UNCHANGED <<up, broadcast, registry, owed, conn>>
    BY <1>3 DEF RedisFails, Publish, Shapes
  <2>2. Shapes'
    BY <2>1 DEF Shapes
  <2>3. NewAreUnknown'
    BY <2>1 DEF NewAreUnknown, Due
  <2>4. EveryConnectionHears'
    BY <2>1 DEF EveryConnectionHears, Alive
  <2> QED
    BY <2>2, <2>3, <2>4
<1>4. ASSUME SubscriberExits PROVE Inv'
  <2>1. Shapes'
    BY <1>4 DEF SubscriberExits, Shapes, Exited
  <2>2. NewAreUnknown'
    BY <1>4 DEF SubscriberExits, NewAreUnknown, Due, Exited
  <2>3. EveryConnectionHears'
    BY <1>4 DEF SubscriberExits, EveryConnectionHears, Alive, Exited
  <2> QED
    BY <2>1, <2>2, <2>3
<1>5. ASSUME TakeMessage PROVE Inv'
  <2> DEFINE event == Head(subscriber.inbox)
  <2>1. /\ subscriber.pc = "listening"
        /\ subscriber'.pc = IF registry = {} THEN "listening" ELSE "broadcasting"
        /\ DOMAIN subscriber' = DOMAIN subscriber
        /\ UNCHANGED <<up, registry, conn>>
    BY <1>5 DEF TakeMessage, Shapes
  <2>2. /\ broadcast' = IF registry = {} THEN None
                        ELSE [event |-> event, left |-> registry, dead |-> {}]
        /\ owed' = [c \in ConnIds |-> IF c \in registry THEN owed[c] \cup {event} ELSE owed[c]]
    BY <1>5 DEF TakeMessage
  <2> HIDE DEF event
  <2>3. Shapes'
    BY <2>1, <2>2 DEF Shapes
  <2>4. NewAreUnknown'
    BY <2>1, <2>2 DEF NewAreUnknown, Due
  <2>5. EveryConnectionHears'
    BY <2>1, <2>2 DEF EveryConnectionHears, Alive
  <2> QED
    BY <2>3, <2>4, <2>5
<1>6. ASSUME EndBroadcast PROVE Inv'
  <2>1. /\ subscriber.pc = "broadcasting" /\ broadcast.left = {}
        /\ subscriber'.pc = "listening" /\ DOMAIN subscriber' = DOMAIN subscriber
        /\ registry' \subseteq registry
        /\ UNCHANGED <<up, owed, conn>>
    BY <1>6 DEF EndBroadcast, Shapes
  <2>2. Shapes'
    BY <2>1 DEF Shapes
  <2>3. NewAreUnknown'
    BY <2>1 DEF NewAreUnknown, Due
  <2>4. EveryConnectionHears'
    BY <2>1 DEF EveryConnectionHears, Alive
  <2> QED
    BY <2>2, <2>3, <2>4
<1>7. ASSUME NEW c \in ConnIds, Send(c) PROVE Inv'
  <2>1. /\ subscriber.pc = "broadcasting" /\ c \in broadcast.left
        /\ owed' = [owed EXCEPT ![c] = @ \ {broadcast.event}]
        /\ UNCHANGED <<up, subscriber, registry, conn>>
    BY <1>7 DEF Send
  <2>2. /\ DOMAIN broadcast' = DOMAIN broadcast
        /\ broadcast'.left = broadcast.left \ {c}
        /\ broadcast'.event = broadcast.event
    BY <1>7, <2>1 DEF Send, Shapes
  <2>3. Shapes'
    BY <2>1, <2>2 DEF Shapes
  <2>4. NewAreUnknown'
    BY <2>1, <2>2 DEF NewAreUnknown, Due, Shapes
  <2>5. EveryConnectionHears'
    BY <2>1, <2>2 DEF EveryConnectionHears, Alive, Shapes
  <2> QED
    BY <2>3, <2>4, <2>5
<1> QED
  BY <1>1, <1>2, <1>3, <1>4, <1>5, <1>6, <1>7

\* The handlers of connections.
LEMMA HandlerStep ==
  ASSUME Inv, NEW c \in ConnIds,
         \/ Authenticate(c) \/ AuthenticateRaises(c) \/ Greet(c) \/ HandlerEnds(c)
         \/ LoseConnection(c)
  PROVE  Inv'
<1> USE DEF Inv
<1>1. CASE Authenticate(c)
  <2>1. /\ conn[c].pc = "accepted"
        /\ registry' \subseteq registry \cup {c}
        /\ UNCHANGED <<up, subscriber, broadcast, owed>>
        /\ \E pc \in {"registered", "refused"} : conn' = [conn EXCEPT ![c].pc = pc]
        /\ c \in registry' => conn'[c].pc = "registered"
    BY <1>1 DEF Authenticate, Shapes, NewAreUnknown
  <2>2. Shapes'
    BY <2>1 DEF Shapes
  <2>3. NewAreUnknown'
    BY <2>1 DEF NewAreUnknown, Due, Shapes
  <2>4. EveryConnectionHears'
    BY <2>1 DEF EveryConnectionHears, NewAreUnknown, Due, Alive, Shapes
  <2> QED
    BY <2>2, <2>3, <2>4
<1>2. CASE Greet(c)
  <2>1. /\ conn[c].pc = "registered" /\ conn' = [conn EXCEPT ![c].pc = "receiving"]
        /\ UNCHANGED <<up, subscriber, broadcast, owed, registry>>
    BY <1>2 DEF Greet, serverVars
  <2>2. Shapes'
    BY <2>1 DEF Shapes
  <2> QED
    BY <2>1, <2>2, ConnectionsEnd DEF Alive, Shapes
<1>3. CASE AuthenticateRaises(c) \/ HandlerEnds(c)
  <2>1. /\ conn' = [conn EXCEPT ![c].pc = "ended"]
        /\ registry' \subseteq registry
        /\ UNCHANGED <<up, subscriber, broadcast, owed>>
    BY <1>3 DEF AuthenticateRaises, HandlerEnds, serverVars
  <2>2. Shapes'
    BY <2>1 DEF Shapes
  <2> QED
    BY <2>1, <2>2, ConnectionsEnd DEF Alive, Shapes
<1>4. CASE LoseConnection(c)
  <2>1. /\ conn' = [conn EXCEPT ![c].client = "closed"]
        /\ UNCHANGED <<up, subscriber, broadcast, owed, registry>>
    BY <1>4 DEF LoseConnection, serverVars
  <2>2. Shapes'
    BY <2>1 DEF Shapes
  <2> QED
    BY <2>1, <2>2, ConnectionsEnd DEF Alive, Shapes
<1> QED
  BY <1>1, <1>2, <1>3, <1>4

\* The pages.
LEMMA PageStep ==
  ASSUME Inv, NEW p \in Pages,
         \/ Connect(p) \/ OnMessage(p) \/ OnClose(p) \/ OnLastEvent(p)
         \/ Poll(p) \/ Answer(p) \/ Show(p) \/ FetchFails(p) \/ Leave(p)
  PROVE  Inv'
<1> USE DEF Inv
<1>1. UNCHANGED <<up, subscriber, broadcast, owed, registry>>
  BY DEF Connect, OnMessage, OnClose, OnLastEvent, Poll, Answer, Show, FetchFails, Leave,
         serverVars
<1>2. CASE Connect(p)
  <2>1. \/ conn' = conn
        \/ \E c \in ConnIds :
              /\ conn[c].pc = "unused"
              /\ conn' = [conn EXCEPT ![c] = [pc |-> "accepted", client |-> "open"]]
    <3>1. ASSUME NEW c \in ConnIds, \A d \in ConnIds : conn[d] = Unused <=> d >= c
          PROVE  conn[c].pc = "unused"
      BY <3>1 DEF ConnIds, Unused
    <3> QED
      BY <1>2, <3>1 DEF Connect
  <2>2. Shapes'
    BY <1>1, <2>1 DEF Shapes
  <2> QED
    BY <1>1, <2>1, <2>2, ConnectionsEnd DEF Alive, Shapes
<1>3. CASE OnMessage(p) \/ OnLastEvent(p) \/ Poll(p) \/ Show(p) \/ FetchFails(p)
  <2>1. conn' = conn
    BY <1>3 DEF OnMessage, OnLastEvent, Poll, Show, FetchFails
  <2>2. Shapes'
    BY <1>1, <2>1 DEF Shapes
  <2> QED
    BY <1>1, <2>1, <2>2, ConnectionsEnd DEF Alive
<1>4. CASE OnClose(p) \/ Answer(p) \/ Leave(p)
  <2>1. \/ conn' = conn
        \/ conn' = [conn EXCEPT ![page[p].conn].client = "closed"]
        \/ conn' = [c \in ConnIds |-> IF page[p].conn = c THEN [conn[c] EXCEPT !.client = "closed"]
                                                        ELSE conn[c]]
    BY <1>4 DEF OnClose, Answer, Leave, Close
  <2>2. /\ conn' \in [ConnIds -> [pc : {"unused", "accepted", "refused", "registered", "receiving", "ended"},
                                  client : {"open", "closed"}]]
        /\ \A c \in ConnIds : /\ conn'[c].pc = conn[c].pc
                              /\ conn'[c].client \in {conn[c].client, "closed"}
    BY <2>1 DEF Shapes
  <2>3. Shapes'
    BY <1>1, <2>2 DEF Shapes
  <2>4. \A c \in ConnIds : Alive(c)' => Alive(c)
    BY <2>2 DEF Alive, Shapes
  <2> QED
    BY <1>1, <2>2, <2>3, <2>4, ConnectionsEnd
<1> QED
  BY <1>2, <1>3, <1>4

\* Steps of the publishers, of Redis and of the token that touch none of this.
LEMMA OtherStep ==
  ASSUME Inv, Commit \/ RedisReturns \/ Expire \/ LogOutElsewhere \/ UNCHANGED vars
  PROVE  Inv'
<1>1. UNCHANGED <<up, subscriber, broadcast, owed, registry, conn>>
  BY DEF Commit, RedisReturns, Expire, LogOutElsewhere, vars, serverVars
<1>2. Shapes'
  BY <1>1 DEF Inv, Shapes
<1> QED
  BY <1>1, <1>2, ConnectionsEnd DEF Alive

LEMMA NextInv == Inv /\ [Next]_vars => Inv'
BY SubscriberStep, HandlerStep, PageStep, OtherStep DEF Next

\* ConnectionManager.broadcast: however many connections, faults and events there are, no
\* connection that lasts is skipped.
THEOREM NobodyIsSkipped == Spec => []EveryConnectionHears
<1>1. Inv => EveryConnectionHears
  BY DEF Inv
<1> QED
  BY <1>1, InitInv, NextInv, PTL DEF Spec
===========================================================================
