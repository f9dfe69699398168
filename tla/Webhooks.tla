----------------------------- MODULE Webhooks -----------------------------
(***************************************************************************)
(* The webhooks of one slug: the public receiver api/webhook_receiver.py   *)
(* behind the rate limiter, and the operators' changes of api/webhooks.py. *)
(* A handler works on the row it loaded while others are served; only the  *)
(* columns that differ from that copy are written.  Names, headers and     *)
(* payloads are left out.                                                  *)
(***************************************************************************)
EXTENDS RateLimiter

CONSTANTS
    Hooks,       \* ids of webhooks, each created at most once
    Tokens,      \* secret tokens
    NoToken,     \* no secret, or no X-Webhook-Token header
    Payloads,    \* bodies of PATCH
    Deliveries,  \* calls of the receiver, each made at most once
    Changes      \* operators' calls, each made at most once

Columns == {"status", "token"}
Statuses == {"active", "paused"}
Row == [status : Statuses, token : Tokens \cup {NoToken}, received : BOOLEAN]
NoRow == <<>>
Event == [hook : Hooks, status : {"received", "reprocessed"}]
ASSUME HookAssumption == NoRow \notin Hooks

\* What PATCH may carry of either column.  A null status breaks a column constraint
\* and writes nothing.
Optional(S) == {{}} \cup {{x} : x \in S}
Updates == [status : Optional(Statuses), token : Optional(Tokens \cup {NoToken})]
ASSUME PayloadAssumption == Payloads \subseteq Updates
Creation(token) == [status |-> {"active"}, token |-> {token}]

Change == [op : {"create", "update", "delete"}, hook : Hooks, updates : Updates,
           pc : {"write", "ended"},
           loaded : Row \cup {NoRow},
           after : SUBSET Changes,  \* history: the calls that had ended when it began
           done : BOOLEAN]          \* whether it took effect and was acknowledged

Delivery == [pc : {"alert", "dispatch", "body", "refresh", "ended"},
             token : Tokens \cup {NoToken},
             hook : Hooks \cup {NoRow}, loaded : Row \cup {NoRow},
             after : SUBSET Changes,
             answer : {"none", "200", "403", "404", "429", "500"}]
NotMade == <<>>

VARIABLES
    row,       \* committed rows of webhooks
    used,      \* ids that have been given away
    events,    \* webhook_events: per delivery its row, NoRow without one
    alerts,    \* deliveries with an alert
    delivery,
    change

tables == <<row, used, events, alerts>>
vars == <<limiterVars, tables, delivery, change>>

Exists(w) == row[w] # NoRow
Made(x) == x # NotMade
EndedChanges == {c \in Changes : Made(change[c]) /\ change[c].pc = "ended"}

Init ==
    /\ LimiterInit
    /\ row = [w \in Hooks |-> NoRow]
    /\ used = {}
    /\ events = [d \in Deliveries |-> NoRow]
    /\ alerts = {}
    /\ delivery = [d \in Deliveries |-> NotMade]
    /\ change = [c \in Changes |-> NotMade]

---------------------------------------------------------------------------
Accepts(r, token) == r.status = "active" /\ (r.token = NoToken \/ r.token = token)

Live == {w \in Hooks : Exists(w)}

NewDelivery(d, token, w, pc, answer) ==
    /\ delivery[d] = NotMade
    /\ delivery' = [delivery EXCEPT ![d] =
          [pc |-> pc, token |-> token, hook |-> w,
           loaded |-> IF w = NoRow THEN NoRow ELSE row[w],
           after |-> EndedChanges, answer |-> answer]]

\* POST /webhooks/{slug}/receive.  The rate limit comes first; then the row of the slug
\* is read, or 404.  A paused webhook or a wrong token leads to an alert.
Receive(d, token) ==
    IF Live = {}
    THEN NewDelivery(d, token, NoRow, "ended", "404")
    ELSE \E w \in Live : NewDelivery(d, token, w,
            IF Accepts(row[w], token) THEN "body" ELSE "alert", "none")

Arrive(d, k, token) ==
    /\ \E skew \in 0 .. MaxSkew :
          \/ Allow(k, skew) /\ Receive(d, token)
          \/ Refuse(k, skew) /\ NewDelivery(d, token, NoRow, "ended", "429")
    /\ UNCHANGED <<tables, change>>

At(d, pc) == Made(delivery[d]) /\ delivery[d].pc = pc
Answer(d, code) ==
    delivery' = [delivery EXCEPT ![d].pc = "ended", ![d].answer = code]

\* Mutant of CreateAlert: the alert is sent without having been committed.
CreateAlertUnsaved(d) ==
    /\ At(d, "alert")
    /\ delivery' = [delivery EXCEPT ![d].pc = "dispatch"]
    /\ UNCHANGED <<limiterVars, tables, change>>

\* _create_webhook_alert commits the alert and has it sent; an error of the sending
\* becomes a 500, the refusal otherwise a 403.
CreateAlert(d) ==
    /\ At(d, "alert")
    /\ alerts' = alerts \cup {d}
    /\ delivery' = [delivery EXCEPT ![d].pc = "dispatch"]
    /\ UNCHANGED <<limiterVars, row, used, events, change>>

Dispatch(d) ==
    /\ At(d, "dispatch")
    /\ \E code \in {"403", "500"} : Answer(d, code)
    /\ UNCHANGED <<limiterVars, tables, change>>

\* The body has arrived: the event and last_received_at are committed together, or,
\* with the webhook gone, neither.
Store(d) ==
    /\ At(d, "body")
    /\ LET w == delivery[d].hook IN
       IF Exists(w)
       THEN /\ events' = [events EXCEPT ![d] = [hook |-> w, status |-> "received"]]
            /\ row' = [row EXCEPT ![w].received = TRUE]
            /\ delivery' = [delivery EXCEPT ![d].pc = "refresh"]
       ELSE /\ Answer(d, "500")
            /\ UNCHANGED <<events, row>>
    /\ UNCHANGED <<limiterVars, used, alerts, change>>

\* The event is read again before it is answered: with the event deleted meanwhile, or
\* the database failing, a committed event is answered by a 500.
Acknowledge(d) ==
    /\ At(d, "refresh")
    /\ \E code \in {"200", "500"} :
          /\ code = "200" => events[d] # NoRow
          /\ Answer(d, code)
    /\ UNCHANGED <<limiterVars, tables, change>>

\* The caller goes away before the body is complete.
Disconnect(d) ==
    /\ At(d, "body")
    /\ Answer(d, "none")
    /\ UNCHANGED <<limiterVars, tables, change>>

---------------------------------------------------------------------------
\* The operators' calls, from the moment they have read their row
Begin(c, op, w, updates) ==
    /\ change[c] = NotMade
    /\ change' = [change EXCEPT ![c] =
          [op |-> op, hook |-> w, updates |-> updates, pc |-> "write", loaded |-> row[w],
           after |-> EndedChanges, done |-> FALSE]]

ChangeAt(c, op) == Made(change[c]) /\ change[c].op = op /\ change[c].pc = "write"
End(c, done) == change' = [change EXCEPT ![c].pc = "ended", ![c].done = done]

\* POST: a taken slug is a 409.
BeginCreate(c, w, token) ==
    /\ w \notin used
    /\ Live = {}
    /\ Begin(c, "create", w, Creation(token))
    /\ used' = used \cup {w}
    /\ UNCHANGED <<limiterVars, row, events, alerts, delivery>>

\* The unique index on the slug decides between two that found it free.
CreateWebhook(c) ==
    /\ ChangeAt(c, "create")
    /\ LET q == change[c]
           token == CHOOSE t \in q.updates.token : TRUE
       IN  /\ row' = IF Live = {}
                     THEN [row EXCEPT ![q.hook] =
                             [status |-> "active", token |-> token, received |-> FALSE]]
                     ELSE row
           /\ End(c, Live = {})
    /\ UNCHANGED <<limiterVars, used, events, alerts, delivery>>

\* PATCH and DELETE /webhooks/{id}: _get_or_404.
BeginUpdate(c, w, updates) ==
    /\ Exists(w)
    /\ Begin(c, "update", w, updates)
    /\ UNCHANGED <<limiterVars, tables, delivery>>

BeginDelete(c, w) ==
    /\ Exists(w)
    /\ Begin(c, "delete", w, [f \in Columns |-> {}])
    /\ UNCHANGED <<limiterVars, tables, delivery>>

\* Mutant of Written: every column is written back as the handler holds it.
WrittenWhole(now, was, updates) ==
    [f \in DOMAIN now |->
        IF f \notin Columns THEN now[f]
        ELSE IF updates[f] = {} THEN was[f] ELSE CHOOSE x \in updates[f] : TRUE]

\* Only the columns that differ from the loaded copy are written.
Written(now, was, updates) ==
    [f \in DOMAIN now |->
        IF f \notin Columns \/ updates[f] \subseteq {was[f]}
        THEN now[f]
        ELSE CHOOSE x \in updates[f] : TRUE]

\* With the row gone the commit, or the refresh after it, fails.
UpdateWebhook(c) ==
    /\ ChangeAt(c, "update")
    /\ LET q == change[c] IN
       /\ row' = IF Exists(q.hook)
                 THEN [row EXCEPT ![q.hook] = Written(@, q.loaded, q.updates)]
                 ELSE row
       /\ End(c, Exists(q.hook))
    /\ UNCHANGED <<limiterVars, used, events, alerts, delivery>>

\* The events go with their webhook; a webhook already gone is no error.
DeleteWebhook(c) ==
    /\ ChangeAt(c, "delete")
    /\ LET w == change[c].hook IN
       /\ row' = [row EXCEPT ![w] = NoRow]
       /\ events' = [d \in Deliveries |->
                        IF events[d] # NoRow /\ events[d].hook = w THEN NoRow ELSE events[d]]
    /\ End(c, TRUE)
    /\ UNCHANGED <<limiterVars, used, alerts, delivery>>

\* Mutant of ReprocessEvent: a status the receiver's clients do not know.
ReprocessEventQueued(d) ==
    /\ events[d] # NoRow
    /\ events' = [events EXCEPT ![d].status = "queued"]
    /\ UNCHANGED <<limiterVars, row, used, alerts, delivery, change>>

\* POST .../events/{id}/reprocess: an event deleted after it was loaded fails the write.
ReprocessEvent(d) ==
    /\ events[d] # NoRow
    /\ events' = [events EXCEPT ![d].status = "reprocessed"]
    /\ UNCHANGED <<limiterVars, row, used, alerts, delivery, change>>

\* The API process is replaced: the limiter's memory and the calls under way are lost.
Restart ==
    /\ Forget
    /\ delivery' = [d \in Deliveries |->
          IF Made(delivery[d]) THEN [delivery[d] EXCEPT !.pc = "ended"] ELSE NotMade]
    /\ change' = [c \in Changes |->
          IF Made(change[c]) THEN [change[c] EXCEPT !.pc = "ended"] ELSE NotMade]
    /\ UNCHANGED tables

ClockTick == Tick /\ UNCHANGED <<tables, delivery, change>>

Next ==
    \/ \E d \in Deliveries :
          \/ \E k \in Keys, token \in Tokens \cup {NoToken} : Arrive(d, k, token)
          \/ CreateAlert(d) \/ Dispatch(d) \/ Store(d) \/ Acknowledge(d)
          \/ Disconnect(d) \/ ReprocessEvent(d)
    \/ \E c \in Changes, w \in Hooks :
          \/ \E token \in Tokens \cup {NoToken} : BeginCreate(c, w, token)
          \/ \E updates \in Payloads : BeginUpdate(c, w, updates)
          \/ BeginDelete(c, w)
    \/ \E c \in Changes :
          CreateWebhook(c) \/ UpdateWebhook(c) \/ DeleteWebhook(c)
    \/ Restart
    \/ ClockTick

Spec == Init /\ [][Next]_vars

---------------------------------------------------------------------------
TypeOK ==
    /\ LimiterTypeOK
    /\ row \in [Hooks -> Row \cup {NoRow}]
    /\ used \subseteq Hooks
    /\ events \in [Deliveries -> Event \cup {NoRow}]
    /\ alerts \subseteq Deliveries
    /\ delivery \in [Deliveries -> Delivery \cup {NotMade}]
    /\ change \in [Changes -> Change \cup {NotMade}]

\* What the receiver answered is true of what it left behind: a delivery answered 200
\* has its event for as long as its webhook exists, which also knows it was called; a
\* refused one has its alert and no event; an unknown slug or too many calls leave no
\* trace.  An event answered by a 500, or by nothing, may be there, as the read and the
\* answer come after the commit; an alert never is there beside it.
AnswerIsTrue ==
    \A d \in Deliveries : Made(delivery[d]) =>
        LET q == delivery[d] IN
        /\ events[d] # NoRow => Exists(events[d].hook) /\ row[events[d].hook].received
        /\ q.answer = "200" /\ Exists(q.hook) => events[d] # NoRow
        /\ q.answer = "403" => d \in alerts
        /\ q.answer \in {"403", "404", "429"} \/ d \in alerts => events[d] = NoRow
        /\ q.answer \in {"200", "404", "429"} => d \notin alerts

\* The calls that set column f of webhook w; a deletion takes every column away.
Sets(c, w, f) == /\ Made(change[c]) /\ change[c].done /\ change[c].hook = w
                 /\ change[c].op = "delete" \/ change[c].updates[f] # {}

\* A value of column f that is not out of date for someone who knows that the calls in
\* `ended` are over: it was set by a call that none of those came after.
Current(w, f, value, ended) ==
    \E c \in Changes :
        /\ Sets(c, w, f) /\ change[c].updates[f] = {value}
        /\ \A e \in ended : Sets(e, w, f) => c \notin change[e].after

\* Every acknowledged setting holds until a call that overlaps or follows it sets the
\* column again: the stored row shows it, and a delivery made after a token was changed
\* or the webhook paused is judged by it.
SettingsHold ==
    /\ \A w \in Hooks, f \in Columns :
          Exists(w) => Current(w, f, row[w][f], EndedChanges)
    /\ \A d \in Deliveries, f \in Columns :
          Made(delivery[d]) /\ delivery[d].answer = "200" =>
              /\ Current(delivery[d].hook, f, delivery[d].loaded[f], delivery[d].after)
              /\ delivery[d].loaded.token \in {NoToken, delivery[d].token}
===========================================================================
