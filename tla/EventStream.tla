---------------------------- MODULE EventStream ----------------------------
(***************************************************************************)
(* The event stream from the processes that change an execution's row to   *)
(* the page that lists it: Redis Pub/Sub without memory, one subscriber in *)
(* the API (api/ws.py) that hands each event to the registered connections *)
(* one after the other, and pages (useWebSocket.ts, ExecutionsPage.tsx)    *)
(* that reconnect, refetch on an event and poll.  Module JobExecution has  *)
(* what is published; here a row is the number of its committed changes.   *)
(*                                                                         *)
(* Left out: the text of events, the delay before a reconnection, pings    *)
(* (no page sends any), and a login on a page that has lost its token.     *)
(***************************************************************************)
EXTENDS Naturals, Sequences

CONSTANTS
    Pages,      \* tabs of one browser, which share its access token
    MaxConns,   \* bound of the connections
    Publications, \* what may be published after a change, as sequences of types
    MaxChanges, \* bound of the changes of the row
    MaxFaults   \* bound of the stops of the API, failures of Redis and the database and
                \* lost connections

Types == {"execution.started", "execution.completed", "alert.created"}

ASSUME StreamAssumption ==
    /\ {MaxConns, MaxChanges, MaxFaults} \subseteq Nat
    /\ Publications \subseteq Seq(Types)

VARIABLES
    row,         \* committed changes of the execution's row
    unpublished, \* events of the last change, not published yet
    redis,       \* whether Redis answers
    up,          \* whether the API runs
    subscriber,  \* redis_subscriber: its pc, whether its subscription holds, unread events
    broadcast,   \* the event handed out, to whom it has to go, and who did not take it
    registry,    \* manager._connections
    conn,        \* the handler and the client's end of each connection
    sent,        \* frames on their way to the client of each connection
    owed,        \* history: events taken for a connection that nobody tried to send it
    token,       \* the access token: whether localStorage has it, and whether the API takes it
    page,
    faults

serverVars == <<redis, up, subscriber, broadcast, registry, owed>>
vars == <<row, unpublished, serverVars, conn, sent, token, page, faults>>

None == <<>>
ConnIds == 1 .. MaxConns  \* in the order in which they are made
Unused == [pc |-> "unused", client |-> "closed"]
Off == [pc |-> "off", linked |-> FALSE, inbox |-> <<>>]
Subscribed == [pc |-> "listening", linked |-> TRUE, inbox |-> <<>>]
Exited == [pc |-> "ended", linked |-> FALSE, inbox |-> <<>>]

\* A page just mounted: its list is being fetched for the first time.
Mounted == [socket |-> "closed", conn |-> 0, last |-> "none",
            fetch |-> "asked", answer |-> {}, shown |-> {}]
Gone == [socket |-> "gone"]
Here(p) == page[p] # Gone

Init ==
    /\ row = 0
    /\ unpublished = <<>>
    /\ redis = TRUE /\ up = TRUE
    /\ subscriber = Subscribed
    /\ broadcast = None
    /\ registry = {}
    /\ conn = [c \in ConnIds |-> Unused]
    /\ sent = [c \in ConnIds |-> <<>>]
    /\ owed = [c \in ConnIds |-> {}]
    /\ token = [stored |-> TRUE, valid |-> TRUE]
    /\ page = [p \in Pages |-> Mounted]
    /\ faults = 0

---------------------------------------------------------------------------
(* Publishers: a worker, or a request handler of the API.                  *)

\* A commit of the row, and what is published after it.
Commit ==
    /\ row < MaxChanges /\ unpublished = <<>>
    /\ row' = row + 1
    /\ \E types \in Publications :
          unpublished' = [i \in DOMAIN types |-> [of |-> row + 1, type |-> types[i]]]
    /\ UNCHANGED <<serverVars, conn, sent, token, page, faults>>

\* publish_event: an error is logged and swallowed.  Redis hands the event to a
\* subscription that holds and keeps nothing.
Publish ==
    /\ unpublished # <<>>
    /\ unpublished' = Tail(unpublished)
    /\ \/ UNCHANGED subscriber
       \/ /\ redis /\ subscriber.linked
          /\ subscriber' = [subscriber EXCEPT !.inbox = Append(@, Head(unpublished))]
    /\ UNCHANGED <<row, redis, up, broadcast, registry, owed, conn, sent, token, page, faults>>

---------------------------------------------------------------------------
(* The API process.                                                        *)

\* lifespan starts the subscriber, which exits at once when Redis does not answer.
StartApi ==
    /\ ~up
    /\ up' = TRUE
    /\ subscriber' = IF redis THEN Subscribed ELSE Exited
    /\ UNCHANGED <<row, unpublished, redis, broadcast, registry, owed, conn, sent, token, page, faults>>

\* A crash, or a shutdown, which cancels the subscriber.
StopApi ==
    /\ up /\ faults < MaxFaults
    /\ up' = FALSE
    /\ faults' = faults + 1
    /\ subscriber' = Off /\ broadcast' = None /\ registry' = {}
    /\ conn' = [c \in ConnIds |-> IF conn[c] = Unused THEN Unused ELSE [conn[c] EXCEPT !.pc = "ended"]]
    /\ owed' = [c \in ConnIds |-> {}]
    /\ UNCHANGED <<row, unpublished, redis, sent, token, page>>

RedisFails ==
    /\ redis /\ faults < MaxFaults
    /\ redis' = FALSE
    /\ faults' = faults + 1
    /\ subscriber' = [subscriber EXCEPT !.linked = FALSE]
    /\ UNCHANGED <<row, unpublished, up, broadcast, registry, owed, conn, sent, token, page>>

RedisReturns ==
    /\ ~redis
    /\ redis' = TRUE
    /\ UNCHANGED <<row, unpublished, up, subscriber, broadcast, registry, owed, conn, sent, token, page, faults>>

\* pubsub.listen raises: the task ends, and nothing starts it again.
SubscriberExits ==
    /\ subscriber.pc = "listening" /\ ~subscriber.linked
    /\ subscriber' = Exited
    /\ UNCHANGED <<row, unpublished, redis, up, broadcast, registry, owed, conn, sent, token, page, faults>>

\* The copy of the registry is taken with the event.
TakeMessage ==
    /\ subscriber.pc = "listening" /\ subscriber.inbox # <<>>
    /\ LET event == Head(subscriber.inbox) IN
       /\ subscriber' = [subscriber EXCEPT
             !.pc = IF registry = {} THEN "listening" ELSE "broadcasting",
             !.inbox = Tail(@)]
       /\ broadcast' = IF registry = {} THEN None
                       ELSE [event |-> event, left |-> registry, dead |-> {}]
       /\ owed' = [c \in ConnIds |-> IF c \in registry THEN owed[c] \cup {event} ELSE owed[c]]
    /\ UNCHANGED <<row, unpublished, redis, up, registry, conn, sent, token, page, faults>>

Alive(c) == conn[c].client = "open" /\ conn[c].pc \in {"registered", "receiving"}

\* Mutant of Send: a connection that is gone ends the subscriber.
SendUncaught(c) ==
    /\ subscriber.pc = "broadcasting" /\ c \in broadcast.left
    /\ IF Alive(c)
       THEN /\ sent' = [sent EXCEPT ![c] = Append(@, broadcast.event.type)]
            /\ broadcast' = [broadcast EXCEPT !.left = @ \ {c}]
            /\ UNCHANGED subscriber
       ELSE /\ subscriber' = Exited
            /\ broadcast' = None
            /\ UNCHANGED sent
    /\ owed' = [owed EXCEPT ![c] = @ \ {broadcast.event}]
    /\ UNCHANGED <<row, unpublished, redis, up, registry, conn, token, page, faults>>

\* One connection after the other.  The frame for a client that is gone is lost, with or
\* without an exception.
Send(c) ==
    /\ subscriber.pc = "broadcasting" /\ c \in broadcast.left
    /\ IF Alive(c)
       THEN /\ sent' = [sent EXCEPT ![c] = Append(@, broadcast.event.type)]
            /\ broadcast' = [broadcast EXCEPT !.left = @ \ {c}]
       ELSE /\ \E dead \in {{}, {c}} :
                  broadcast' = [broadcast EXCEPT !.left = @ \ {c}, !.dead = @ \cup dead]
            /\ UNCHANGED sent
    /\ owed' = [owed EXCEPT ![c] = @ \ {broadcast.event}]
    /\ UNCHANGED <<row, unpublished, redis, up, subscriber, registry, conn, token, page, faults>>

EndBroadcast ==
    /\ subscriber.pc = "broadcasting" /\ broadcast.left = {}
    /\ registry' = registry \ broadcast.dead
    /\ broadcast' = None
    /\ subscriber' = [subscriber EXCEPT !.pc = "listening"]
    /\ UNCHANGED <<row, unpublished, redis, up, owed, conn, sent, token, page, faults>>

---------------------------------------------------------------------------
(* ws_events, the handler of one connection.                               *)

\* _authenticate_ws: the token came with the connection; 1008 is the code of a refusal.
Authenticate(c) ==
    /\ conn[c].pc = "accepted"
    /\ IF token.valid
       THEN /\ conn' = [conn EXCEPT ![c].pc = "registered"]
            /\ registry' = registry \cup {c}
       ELSE /\ conn' = [conn EXCEPT ![c].pc = "refused"]
            /\ UNCHANGED registry
    /\ UNCHANGED <<row, unpublished, redis, up, subscriber, broadcast, owed, sent, token, page, faults>>

\* An exception that the handler does not catch, of the database.
AuthenticateRaises(c) ==
    /\ conn[c].pc = "accepted" /\ faults < MaxFaults
    /\ faults' = faults + 1
    /\ conn' = [conn EXCEPT ![c].pc = "ended"]
    /\ UNCHANGED <<row, unpublished, serverVars, sent, token, page>>

\* The "connected" frame, which pages ignore.
Greet(c) ==
    /\ conn[c].pc = "registered"
    /\ conn' = [conn EXCEPT ![c].pc = "receiving"]
    /\ UNCHANGED <<row, unpublished, serverVars, sent, token, page, faults>>

\* send_text or receive_text raises for a client that is gone.
HandlerEnds(c) ==
    /\ conn[c].pc \in {"registered", "receiving"} /\ conn[c].client = "closed"
    /\ conn' = [conn EXCEPT ![c].pc = "ended"]
    /\ registry' = registry \ {c}
    /\ UNCHANGED <<row, unpublished, redis, up, subscriber, broadcast, owed, sent, token, page, faults>>

\* The network or a proxy drops the connection.  The page may notice, or never.
LoseConnection(c) ==
    /\ conn[c].client = "open" /\ faults < MaxFaults
    /\ faults' = faults + 1
    /\ conn' = [conn EXCEPT ![c].client = "closed"]
    /\ UNCHANGED <<row, unpublished, serverVars, sent, token, page>>

---------------------------------------------------------------------------
(* useWebSocket on page p.                                                 *)

\* connect; accept is the handler's first act.  While the API is down the page tries on.
Connect(p) ==
    /\ Here(p) /\ page[p].socket = "closed"
    /\ \/ /\ ~token.stored
          /\ page' = [page EXCEPT ![p].socket = "auth_error"]
          /\ UNCHANGED conn
       \/ /\ token.stored /\ up
          /\ \E c \in ConnIds :
                /\ \A d \in ConnIds : conn[d] = Unused <=> d >= c
                /\ conn' = [conn EXCEPT ![c] = [pc |-> "accepted", client |-> "open"]]
                /\ page' = [page EXCEPT ![p].socket = "open", ![p].conn = c]
    /\ UNCHANGED <<row, unpublished, serverVars, sent, token, faults>>

\* Frames that come before the page is rendered again leave only the last one.
OnMessage(p) ==
    /\ Here(p) /\ page[p].socket = "open"
    /\ LET c == page[p].conn IN
       /\ sent[c] # <<>>
       /\ sent' = [sent EXCEPT ![c] = Tail(@)]
       /\ page' = [page EXCEPT ![p].last = Head(sent[c])]
    /\ UNCHANGED <<row, unpublished, serverVars, conn, token, faults>>

\* Refused with 1008, or closed in another way; frames still on their way are lost.
OnClose(p) ==
    /\ Here(p) /\ page[p].socket = "open"
    /\ LET c == page[p].conn IN
       /\ \/ /\ conn[c].pc = "refused"
             /\ page' = [page EXCEPT ![p].socket = "auth_error"]
          \/ /\ conn[c].pc # "refused"
             /\ conn[c].pc = "ended" \/ conn[c].client = "closed"
             /\ page' = [page EXCEPT ![p].socket = "closed"]
       /\ conn' = [conn EXCEPT ![c].client = "closed"]
       /\ sent' = [sent EXCEPT ![c] = <<>>]
    /\ UNCHANGED <<row, unpublished, serverVars, token, faults>>

\* The connection of page p ends with the page.
Close(p) ==
    /\ conn' = [c \in ConnIds |-> IF page[p].conn = c THEN [conn[c] EXCEPT !.client = "closed"] ELSE conn[c]]
    /\ sent' = [c \in ConnIds |-> IF page[p].conn = c THEN <<>> ELSE sent[c]]

---------------------------------------------------------------------------
(* The list of ExecutionsPage and its query.                               *)

Relevant == {"execution.started", "execution.completed"}

\* invalidateQueries asks again, whatever was asked before.
OnLastEvent(p) ==
    /\ Here(p) /\ page[p].last # "none"
    /\ page' = [page EXCEPT ![p].last = "none",
                            ![p].fetch = IF page[p].last \in Relevant THEN "asked" ELSE @,
                            ![p].answer = IF page[p].last \in Relevant THEN {} ELSE @]
    /\ UNCHANGED <<row, unpublished, serverVars, conn, sent, token, faults>>

\* Mutant of Poll: no polling while the page is live.
PollUnlessLive(p) ==
    /\ Here(p) /\ page[p].fetch = "idle" /\ page[p].socket # "open"
    /\ page' = [page EXCEPT ![p].fetch = "asked"]
    /\ UNCHANGED <<row, unpublished, serverVars, conn, sent, token, faults>>

\* refetchInterval.
Poll(p) ==
    /\ Here(p) /\ page[p].fetch = "idle"
    /\ page' = [page EXCEPT ![p].fetch = "asked"]
    /\ UNCHANGED <<row, unpublished, serverVars, conn, sent, token, faults>>

\* GET /executions reads the row; 401 clears the token and leaves the page.  Without a
\* token the answer is 401 or, with the older ones of the FastAPI versions that
\* pyproject.toml allows, 403, with which the page stays.
Answer(p) ==
    /\ Here(p) /\ page[p].fetch = "asked" /\ up
    /\ IF token.stored /\ token.valid
       THEN /\ page' = [page EXCEPT ![p].fetch = "answered", ![p].answer = {row}]
            /\ UNCHANGED <<token, conn, sent>>
       ELSE /\ token' = [token EXCEPT !.stored = FALSE]
            /\ \E status \in IF token.stored THEN {401} ELSE {401, 403} :
                  IF status = 401
                  THEN page' = [page EXCEPT ![p] = Gone] /\ Close(p)
                  ELSE page' = [page EXCEPT ![p].fetch = "idle"] /\ UNCHANGED <<conn, sent>>
    /\ UNCHANGED <<row, unpublished, serverVars, faults>>

Show(p) ==
    /\ Here(p) /\ page[p].fetch = "answered"
    /\ page' = [page EXCEPT ![p].fetch = "idle", ![p].shown = page[p].answer, ![p].answer = {}]
    /\ UNCHANGED <<row, unpublished, serverVars, conn, sent, token, faults>>

\* Nobody answers; the list stays.
FetchFails(p) ==
    /\ Here(p) /\ page[p].fetch = "asked" /\ ~up
    /\ page' = [page EXCEPT ![p].fetch = "idle"]
    /\ UNCHANGED <<row, unpublished, serverVars, conn, sent, token, faults>>

\* The token's lifetime ends, or its account is deactivated.
Expire ==
    /\ token.valid
    /\ token' = [token EXCEPT !.valid = FALSE]
    /\ UNCHANGED <<row, unpublished, serverVars, conn, sent, page, faults>>

\* logout in another tab: the token is one for all of them.
LogOutElsewhere ==
    /\ token.stored
    /\ token' = [token EXCEPT !.stored = FALSE]
    /\ UNCHANGED <<row, unpublished, serverVars, conn, sent, page, faults>>

\* The user goes to another page, or logs out.
Leave(p) ==
    /\ Here(p)
    /\ page' = [page EXCEPT ![p] = Gone]
    /\ token' \in {token, [token EXCEPT !.stored = FALSE]}
    /\ Close(p)
    /\ UNCHANGED <<row, unpublished, serverVars, faults>>

---------------------------------------------------------------------------
Next ==
    \/ Commit \/ Publish
    \/ StartApi \/ StopApi \/ RedisFails \/ RedisReturns
    \/ SubscriberExits \/ TakeMessage \/ EndBroadcast
    \/ \E c \in ConnIds :
          \/ Send(c) \/ Authenticate(c) \/ AuthenticateRaises(c) \/ Greet(c)
          \/ HandlerEnds(c) \/ LoseConnection(c)
    \/ \E p \in Pages :
          \/ Connect(p) \/ OnMessage(p) \/ OnClose(p) \/ OnLastEvent(p)
          \/ Poll(p) \/ Answer(p) \/ Show(p) \/ FetchFails(p) \/ Leave(p)
    \/ Expire \/ LogOutElsewhere

\* Docker starts the API again; timers of a page go off, and what it asks is answered while
\* the API runs.  Nothing is assumed of Redis, the subscriber and the events.
Fairness ==
    /\ WF_vars(StartApi)
    /\ \A p \in Pages :
          /\ WF_vars(Connect(p)) /\ WF_vars(Poll(p))
          /\ WF_vars(Answer(p)) /\ WF_vars(Show(p)) /\ WF_vars(FetchFails(p))

Spec == Init /\ [][Next]_vars /\ Fairness

---------------------------------------------------------------------------
\* api/ws.py:63: each event the subscriber takes is sent to every connection registered by
\* then that lasts, whatever happens to the other connections while it is handed out: none
\* is skipped, and only the event of the current round is due.
EveryConnectionHears ==
    \A c \in ConnIds : Alive(c) =>
       owed[c] = IF subscriber.pc = "broadcasting" /\ c \in broadcast.left
                 THEN {broadcast.event}
                 ELSE {}

\* useExecutions.ts:9, useWebSocket.ts:59: whatever becomes of events, Redis and
\* connections, a page that stays ends up with the row's last committed state on display
\* and with its socket open, because it polls and reconnects, unless another tab logs out.
PagesCatchUp ==
    <>[](\A p \in Pages : Here(p) /\ token.stored =>
            page[p].shown = {row} /\ page[p].socket = "open")
===========================================================================
