--------------------------- MODULE WebhookDeliveries ---------------------------
(***************************************************************************)
(* WebhookService: events are written as one delivery per endpoint, and    *)
(* posted by publish_due(), which a background task and a route call       *)
(* (services/webhooks.py, api/webhooks.py, app.py).                        *)
(*                                                                         *)
(* A publisher lists the rows that are due, then takes them one by one:    *)
(* it reads the row, posts the payload, and writes the answer by primary   *)
(* key.  A secret that cannot be decrypted raises out of publish_due.      *)
(*                                                                         *)
(* There is no clock.  A row is due when its next_attempt_at has passed;   *)
(* `due' holds the rows in the order of that time.                         *)
(***************************************************************************)
EXTENDS Naturals, Sequences, SequencesExt, FiniteSets

CONSTANTS
  Endpoints,
  Publishers,   \* concurrent publish_due() calls
  Background,   \* the one that the application's task makes
  KeyChanges,   \* whether a start may bring another ENCRYPTION_KEY
  MaxAttempts,  \* MAX_ATTEMPTS
  MaxEvents, MaxRetries, MaxChanges, MaxRestarts,  \* bounds
  NoDelivery

VARIABLES
  endpoint,   \* endpoint[e]: the row of an endpoint
  delivery,   \* delivery[d]: the row for one endpoint and one event
  due,        \* rows whose time has come, oldest first
  publisher,  \* publisher[p]: a publish_due() call
  bounds,     \* what the bounds count
  accepted    \* deliveries that their endpoint has answered with 2xx

hookVars == <<endpoint, delivery, due, publisher, bounds, accepted>>

Deliveries == Endpoints \X (1..MaxEvents)

EndpointRow == [present : BOOLEAN, enabled : BOOLEAN, readable : BOOLEAN]
DeliveryRow == [status : {"absent", "pending", "delivered", "dead"},
                attempts : 0..MaxAttempts]

NoDeliveryRow == [status |-> "absent", attempts |-> 0]
IdlePublisher == [pc |-> "idle", rows |-> <<>>, attempt |-> 0, ok |-> FALSE]

HookTypeOK ==
  /\ endpoint \in [Endpoints -> EndpointRow]
  /\ delivery \in [Deliveries -> DeliveryRow]
  /\ Range(due) \subseteq Deliveries
  /\ Len(due) = Cardinality(Range(due))
  /\ \A p \in Publishers :
       /\ publisher[p].pc \in {"idle", "take", "post", "record"}
       /\ Range(publisher[p].rows) \subseteq Deliveries
       /\ publisher[p].attempt \in 0..MaxAttempts
  /\ accepted \subseteq Deliveries

HookInit ==
  /\ endpoint = [e \in Endpoints |->
                   [present |-> TRUE, enabled |-> TRUE, readable |-> TRUE]]
  /\ delivery = [d \in Deliveries |-> NoDeliveryRow]
  /\ due = <<>>
  /\ publisher = [p \in Publishers |-> IdlePublisher]
  /\ bounds = [events |-> 0, retries |-> 0, changes |-> 0, stops |-> 0]
  /\ accepted = {}

\* Those of the rows that are wanted, in their order.
Chosen(rows, wanted) ==
  FlattenSeq([i \in DOMAIN rows |-> IF rows[i] \in wanted THEN <<rows[i]>> ELSE <<>>])

EndpointOf(d) == d[1]
Pending(d) == delivery[d].status = "pending"

Bound(what, limit) ==
  bounds[what] < limit /\ bounds' = [bounds EXCEPT ![what] = @ + 1]

\* enqueue_event: a row for every enabled endpoint that wants the event.
Enqueue(wanting) ==
  LET n == bounds.events + 1
      new == {<<e, n>> : e \in {x \in wanting : endpoint[x].present /\ endpoint[x].enabled}}
  IN /\ Bound("events", MaxEvents)
     /\ delivery' = [d \in Deliveries |->
          IF d \in new THEN [status |-> "pending", attempts |-> 0] ELSE delivery[d]]
     /\ \E order \in SetToSeqs(new) : due' = due \o order
     /\ UNCHANGED <<endpoint, publisher, accepted>>

\* next_attempt_at of a failed delivery passes.
BecomeDue(d) ==
  /\ Pending(d)
  /\ d \notin Range(due)
  /\ due' = Append(due, d)
  /\ UNCHANGED <<endpoint, delivery, publisher, bounds, accepted>>

(***************************************************************************)
(* publish_due and _deliver.                                               *)
(***************************************************************************)
Become(p, next) == publisher' = [publisher EXCEPT ![p] = next]

Following(rows) ==
  IF Len(rows) <= 1 THEN IdlePublisher
  ELSE [pc |-> "take", rows |-> Tail(rows), attempt |-> 0, ok |-> FALSE]

ListDue(p) ==
  LET rows == Chosen(due, {d \in Deliveries : Pending(d)}) IN
  /\ publisher[p] = IdlePublisher
  /\ rows # <<>>
  /\ Become(p, [IdlePublisher EXCEPT !.pc = "take", !.rows = rows])
  /\ UNCHANGED <<endpoint, delivery, due, bounds, accepted>>

Current(p) == Head(publisher[p].rows)

\* The row is not pending any more.
Skip(p) ==
  /\ publisher[p].pc = "take"
  /\ ~Pending(Current(p))
  /\ Become(p, Following(publisher[p].rows))
  /\ UNCHANGED <<endpoint, delivery, due, bounds, accepted>>

GiveUpDisabled(p) ==
  LET d == Current(p) IN
  /\ publisher[p].pc = "take"
  /\ Pending(d)
  /\ ~endpoint[EndpointOf(d)].enabled
  /\ delivery' = [delivery EXCEPT ![d].status = "dead"]
  /\ due' = Chosen(due, Deliveries \ {d})
  /\ Become(p, Following(publisher[p].rows))
  /\ UNCHANGED <<endpoint, bounds, accepted>>

\* decrypt() raises: publish_due ends, and the task calls it again later.
SecretUnreadable(p) ==
  LET d == Current(p) IN
  /\ publisher[p].pc = "take"
  /\ Pending(d)
  /\ endpoint[EndpointOf(d)].enabled
  /\ ~endpoint[EndpointOf(d)].readable
  /\ Become(p, IdlePublisher)
  /\ UNCHANGED <<endpoint, delivery, due, bounds, accepted>>

Prepare(p) ==
  LET d == Current(p) IN
  /\ publisher[p].pc = "take"
  /\ Pending(d)
  /\ endpoint[EndpointOf(d)].enabled
  /\ endpoint[EndpointOf(d)].readable
  /\ Become(p, [publisher[p] EXCEPT !.pc = "post",
                                    !.attempt = delivery[d].attempts + 1])
  /\ UNCHANGED <<endpoint, delivery, due, bounds, accepted>>

\* The destination is checked and the payload posted.
Post(p, ok) ==
  LET d == Current(p) IN
  /\ publisher[p].pc = "post"
  /\ Become(p, [publisher[p] EXCEPT !.pc = "record", !.ok = ok])
  /\ accepted' = IF ok THEN accepted \cup {d} ELSE accepted
  /\ UNCHANGED <<endpoint, delivery, due, bounds>>

\* Mutant: the status of the row decides, not the answer.
BugOutcome(d, attempt, ok) ==
  [status |-> IF attempt >= MaxAttempts /\ ~ok THEN "dead" ELSE "delivered",
   attempts |-> attempt]

\* Mutant: a failed attempt is not counted.
BugUncounted(d, attempt, ok) ==
  [status |-> IF ok THEN "delivered" ELSE delivery[d].status,
   attempts |-> delivery[d].attempts]

\* The row after the answer.  A failure leaves the status as it finds it until
\* the attempts are used up.
Outcome(d, attempt, ok) ==
  [status |-> IF ok THEN "delivered"
              ELSE IF attempt >= MaxAttempts THEN "dead"
              ELSE delivery[d].status,
   attempts |-> attempt]

\* Nothing is written if the endpoint, and with it the row, was deleted.
Record(p) ==
  LET d == Current(p)
      me == publisher[p]
  IN /\ me.pc = "record"
     /\ IF delivery[d].status = "absent"
        THEN UNCHANGED <<delivery, due>>
        ELSE /\ delivery' = [delivery EXCEPT ![d] = Outcome(d, me.attempt, me.ok)]
             /\ due' = Chosen(due, Deliveries \ {d})
     /\ Become(p, Following(me.rows))
     /\ UNCHANGED <<endpoint, bounds, accepted>>

RetryDead(d) ==
  /\ delivery[d].status = "dead"
  /\ Bound("retries", MaxRetries)
  /\ delivery' = [delivery EXCEPT ![d] = [status |-> "pending", attempts |-> 0]]
  /\ due' = Append(Chosen(due, Deliveries \ {d}), d)
  /\ UNCHANGED <<endpoint, publisher, accepted>>

(***************************************************************************)
(* The endpoints: patch, rotate, delete (the rows go with it), and a start *)
(* of the application with another master key.                             *)
(***************************************************************************)
Patch(e, enabled) ==
  /\ endpoint[e].present
  /\ endpoint[e].enabled # enabled
  /\ Bound("changes", MaxChanges)
  /\ endpoint' = [endpoint EXCEPT ![e].enabled = enabled]
  /\ UNCHANGED <<delivery, due, publisher, accepted>>

Rotate(e) ==
  /\ endpoint[e].present
  /\ ~endpoint[e].readable
  /\ Bound("changes", MaxChanges)
  /\ endpoint' = [endpoint EXCEPT ![e].readable = TRUE]
  /\ UNCHANGED <<delivery, due, publisher, accepted>>

Delete(e) ==
  /\ endpoint[e].present
  /\ Bound("changes", MaxChanges)
  /\ endpoint' = [endpoint EXCEPT ![e].present = FALSE, ![e].enabled = FALSE]
  /\ delivery' = [d \in Deliveries |->
                    IF EndpointOf(d) = e THEN NoDeliveryRow ELSE delivery[d]]
  /\ due' = Chosen(due, {d \in Deliveries : EndpointOf(d) # e})
  /\ UNCHANGED <<publisher, accepted>>

\* The process stops and starts again, perhaps with another key: the secrets
\* that were made until then cannot be decrypted any more.
Restart(newKey) ==
  /\ Bound("stops", MaxRestarts)
  /\ publisher' = [p \in Publishers |-> IdlePublisher]
  /\ endpoint' = [e \in Endpoints |->
                    [endpoint[e] EXCEPT !.readable = @ /\ ~newKey]]
  /\ UNCHANGED <<delivery, due, accepted>>

PublishStep(p) ==
  \/ ListDue(p)
  \/ Skip(p)
  \/ GiveUpDisabled(p)
  \/ SecretUnreadable(p)
  \/ Prepare(p)
  \/ \E ok \in BOOLEAN : Post(p, ok)
  \/ Record(p)

HookStep ==
  \/ \E p \in Publishers : PublishStep(p)
  \/ \E wanting \in SUBSET Endpoints : Enqueue(wanting)
  \/ \E d \in Deliveries : BecomeDue(d) \/ RetryDead(d)
  \/ \E e \in Endpoints :
       (\E enabled \in BOOLEAN : Patch(e, enabled)) \/ Rotate(e) \/ Delete(e)
  \/ Restart(FALSE)
  \/ KeyChanges /\ Restart(TRUE)

HookSpec == HookInit /\ [][HookStep]_hookVars

\* The background task publishes again and again, and time passes.
Fairness ==
  /\ WF_hookVars(PublishStep(Background))
  /\ \A d \in Deliveries : WF_hookVars(BecomeDue(d))

FairHookSpec == HookSpec /\ Fairness

(***************************************************************************)
(* Properties.                                                             *)
(***************************************************************************)

\* What is shown as delivered was accepted by its endpoint, whoever posted it
\* and whatever another publisher wrote in between (_deliver).
DeliveredWasAccepted ==
  \A d \in Deliveries : delivery[d].status = "delivered" => d \in accepted
=============================================================================
