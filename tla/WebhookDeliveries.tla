------------------------- MODULE WebhookDeliveries -------------------------
(***************************************************************************)
(* Outbound webhooks: a venue's subscriptions, the deliveries an event puts *)
(* in the queue, and the workers that send what is due.                     *)
(*                                                                         *)
(* A worker locks a whole batch and commits after every delivery, so the    *)
(* first commit gives up all its locks while the copies it loaded, of the   *)
(* deliveries and of their subscriptions, stay in use.  A commit writes the *)
(* columns whose value differs from the copy.                               *)
(***************************************************************************)
EXTENDS Integers, FiniteSets, FiniteSetsExt

CONSTANTS
  Hooks,          \* subscriptions of one venue
  Events,         \* reservation events that are subscribed to
  Workers,
  Managers,       \* requests of the venue's owner that are served at a time
  BatchSize,      \* deliveries a worker takes at once
  MaxAttempts,    \* attempts after which a delivery fails
  MaxActive,      \* active subscriptions a venue may have
  MaxRetries,     \* bound on the retries the owner asks for
  MaxCrashes      \* bound on the workers that die

VARIABLES
  hook,           \* each subscription's state
  row,            \* the queue: a delivery per subscription and event
  batch,          \* the copies that each worker has still to send
  locked,         \* the deliveries whose rows a worker holds
  known,          \* the subscription that a worker has in memory, as it was
  sent,           \* the delivery a worker has sent and not yet saved
  desk,           \* what each request of the owner has read
  received,       \* history: deliveries the subscriber has answered with 2xx
  consented,      \* history: hooks seen active since a worker's batch began
  budget          \* how many retries and crashes there were

vars == <<hook, row, batch, locked, known, sent, desk, received, consented, budget>>

Deliveries == Hooks \X Events
NoRow == [status |-> "none", attempts |-> 0, due |-> FALSE]
NoDelivery == [id |-> <<>>, ok |-> FALSE]
Idle == [op |-> "idle"]
Queued == {"pending", "retrying"}
ActiveHooks == {h \in Hooks : hook[h] = "on"}

Init ==
  /\ hook = [h \in Hooks |-> "none"]
  /\ row = [d \in Deliveries |-> NoRow]
  /\ batch = [w \in Workers |-> <<>>]
  /\ locked = [w \in Workers |-> {}]
  /\ known = [w \in Workers |-> <<>>]
  /\ sent = [w \in Workers |-> NoDelivery]
  /\ desk = [m \in Managers |-> Idle]
  /\ received = {}
  /\ consented = [w \in Workers |-> {}]
  /\ budget = [retries |-> 0, crashes |-> 0]

workers == <<batch, locked, known, sent, received>>

-----------------------------------------------------------------------------
(* Subscriptions. *)

\* A hook that is switched on counts for every batch under way.
SetHook(h, state) ==
  /\ hook' = [hook EXCEPT ![h] = state]
  /\ consented' = [w \in Workers |->
       IF state = "on" THEN consented[w] \cup {h} ELSE consented[w]]

\* Creating or reactivating counts the active ones first, without a lock.
ActivateRead(m, h) ==
  /\ desk[m] = Idle /\ hook[h] # "on"
  /\ Cardinality(ActiveHooks) < MaxActive
  /\ desk' = [desk EXCEPT ![m] = [op |-> "activate", hook |-> h]]
  /\ UNCHANGED <<hook, row, workers, consented, budget>>

ActivateCommit(m) ==
  /\ desk[m].op = "activate"
  /\ SetHook(desk[m].hook, "on")
  /\ desk' = [desk EXCEPT ![m] = Idle]
  /\ UNCHANGED <<row, workers, budget>>

Deactivate(h) ==
  /\ hook[h] = "on" /\ SetHook(h, "off")
  /\ UNCHANGED <<row, workers, desk, budget>>

\* An event is queued for every active subscription, in the event's transaction.
Enqueue(e) ==
  /\ \A h \in Hooks : row[<<h, e>>] = NoRow
  /\ ActiveHooks # {}
  /\ row' = [d \in Deliveries |->
       IF d[2] = e /\ d[1] \in ActiveHooks
       THEN [status |-> "pending", attempts |-> 0, due |-> TRUE] ELSE row[d]]
  /\ UNCHANGED <<hook, workers, desk, consented, budget>>

-----------------------------------------------------------------------------
(* What the owner retries by hand. *)

Free(w, d) == \A v \in Workers \ {w} : d \notin locked[v]

RetryRead(m, d) ==
  /\ desk[m] = Idle /\ row[d].status \notin {"none", "delivered"}
  /\ budget.retries < MaxRetries
  /\ budget' = [budget EXCEPT !.retries = @ + 1]
  /\ desk' = [desk EXCEPT ![m] = [op |-> "retry", id |-> d, copy |-> row[d]]]
  /\ UNCHANGED <<hook, row, workers, consented>>

\* A column is written when its new value differs from the copy.
Column(new, copy, stored) == IF new # copy THEN new ELSE stored

RetryCommit(m) ==
  LET d == desk[m].id  copy == desk[m].copy IN
  /\ desk[m].op = "retry" /\ \A w \in Workers : d \notin locked[w]
  /\ row' = [row EXCEPT ![d] =
       [status |-> Column("pending", copy.status, @.status),
        attempts |-> Column(0, copy.attempts, @.attempts), due |-> TRUE]]
  /\ desk' = [desk EXCEPT ![m] = Idle]
  /\ UNCHANGED <<hook, workers, consented, budget>>

-----------------------------------------------------------------------------
(* Delivering. *)

Due == {d \in Deliveries : row[d].status \in Queued /\ row[d].due}

\* A batch skips the rows that other workers hold.
TakeBatch(w) ==
  LET open == {d \in Due : Free(w, d)} IN
  /\ batch[w] = <<>> /\ open # {}
  /\ \E b \in SUBSET open :
       /\ Cardinality(b) = Min({BatchSize, Cardinality(open)})
       /\ batch' = [batch EXCEPT ![w] = [d \in b |-> row[d]]]
       /\ locked' = [locked EXCEPT ![w] = b]
  /\ known' = [known EXCEPT ![w] = <<>>]
  /\ consented' = [consented EXCEPT ![w] = ActiveHooks]
  /\ UNCHANGED <<hook, row, sent, desk, received, budget>>

\* The session keeps the subscription of the delivery before: it is not read anew.
StateOf(w, h) == IF h \in DOMAIN known[w] THEN known[w][h] ELSE hook[h]

Remember(w, h) == known' = [known EXCEPT ![w] = [k \in {h} |-> StateOf(w, h)]]

Rest(w, d) == [e \in DOMAIN batch[w] \ {d} |-> batch[w][e]]

\* A commit, which ends the transaction and with it every lock of the batch.
Commit(w, d, new) ==
  /\ Free(w, d)
  /\ LET copy == batch[w][d] IN
     row' = [row EXCEPT ![d] =
       [status |-> Column(new.status, copy.status, @.status),
        attempts |-> Column(new.attempts, copy.attempts, @.attempts),
        due |-> IF new.status = "retrying" THEN FALSE ELSE @.due]]
  /\ batch' = [batch EXCEPT ![w] = Rest(w, d)]
  /\ locked' = [locked EXCEPT ![w] = {}]

MaySend(w, h) == StateOf(w, h) = "on"

\* The subscription is inactive: the delivery fails without being sent.
Drop(w, d) ==
  /\ d \in DOMAIN batch[w] /\ sent[w] = NoDelivery /\ ~MaySend(w, d[1])
  /\ Commit(w, d, [batch[w][d] EXCEPT !.status = "failed"])
  /\ Remember(w, d[1])
  /\ UNCHANGED <<hook, sent, desk, received, consented, budget>>

\* The request, and its answer: 2xx or anything else.
Send(w, d, ok) ==
  /\ d \in DOMAIN batch[w] /\ sent[w] = NoDelivery /\ MaySend(w, d[1])
  /\ Remember(w, d[1])
  /\ sent' = [sent EXCEPT ![w] = [id |-> d, ok |-> ok]]
  /\ received' = IF ok THEN received \cup {d} ELSE received
  /\ UNCHANGED <<hook, row, batch, locked, desk, consented, budget>>

\* Defect: one more attempt than allowed.
OneMore(copy) ==
  [copy EXCEPT !.attempts = @ + 1,
     !.status = IF copy.attempts + 1 > MaxAttempts THEN "failed" ELSE "retrying"]

Failure(copy) ==
  [copy EXCEPT !.attempts = @ + 1,
     !.status = IF copy.attempts + 1 >= MaxAttempts THEN "failed" ELSE "retrying"]

Success(copy) == [copy EXCEPT !.attempts = @ + 1, !.status = "delivered"]

Save(w) ==
  LET d == sent[w].id IN
  /\ sent[w] # NoDelivery
  /\ Commit(w, d, IF sent[w].ok THEN Success(batch[w][d]) ELSE Failure(batch[w][d]))
  /\ sent' = [sent EXCEPT ![w] = NoDelivery]
  /\ UNCHANGED <<hook, known, desk, received, consented, budget>>

BackOff(d) ==
  /\ row[d].status = "retrying" /\ ~row[d].due
  /\ row' = [row EXCEPT ![d].due = TRUE]
  /\ UNCHANGED <<hook, workers, desk, consented, budget>>

\* A worker dies: its transaction is rolled back, what it sent stays sent.
Crash(w) ==
  /\ batch[w] # <<>> /\ budget.crashes < MaxCrashes
  /\ budget' = [budget EXCEPT !.crashes = @ + 1]
  /\ batch' = [batch EXCEPT ![w] = <<>>]
  /\ locked' = [locked EXCEPT ![w] = {}]
  /\ sent' = [sent EXCEPT ![w] = NoDelivery]
  /\ UNCHANGED <<hook, row, known, desk, received, consented>>

Work(w) ==
  TakeBatch(w) \/ Save(w)
  \/ \E d \in Deliveries : Drop(w, d) \/ \E ok \in BOOLEAN : Send(w, d, ok)

Next ==
  \/ \E h \in Hooks : Deactivate(h) \/ \E m \in Managers : ActivateRead(m, h)
  \/ \E m \in Managers : ActivateCommit(m) \/ RetryCommit(m)
  \/ \E m \in Managers, d \in Deliveries : RetryRead(m, d)
  \/ \E e \in Events : Enqueue(e)
  \/ \E w \in Workers : Work(w) \/ Crash(w)
  \/ \E d \in Deliveries : BackOff(d)

\* Beat runs the job every CELERY_WEBHOOK_INTERVAL_SECONDS; waiting ends.
Fairness ==
  /\ \A w \in Workers : WF_vars(Work(w))
  /\ \A d \in Deliveries : WF_vars(BackOff(d))
  /\ \A m \in Managers : WF_vars(RetryCommit(m) \/ ActivateCommit(m))

Spec == Init /\ [][Next]_vars
LiveSpec == Spec /\ Fairness

-----------------------------------------------------------------------------
(* Properties. *)

\* However often the copies of two workers overwrite each other, a delivery that
\* nobody retries by hand never records more attempts than are allowed
\* (webhook_service.py:235).
AttemptsBounded ==
  budget.retries = 0 => \A d \in Deliveries : row[d].attempts <= MaxAttempts

\* What is recorded as delivered was answered with 2xx.
DeliveredWasReceived ==
  \A d \in Deliveries : row[d].status = "delivered" => d \in received

\* A subscription that has been switched off before a worker took its batch is
\* never sent to in that batch.
Consented ==
  \A w \in Workers, d \in Deliveries, ok \in BOOLEAN :
    Send(w, d, ok) => d[1] \in consented[w]
SentWithConsent == [][Consented]_vars

\* Queued deliveries are delivered or fail to the last, also when workers crash
\* and overwrite each other's results.
Waiting == \E d \in Deliveries : row[d].status \in Queued
QueueDrains == Waiting ~> ~Waiting
=============================================================================
