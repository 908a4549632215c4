--------------------------- MODULE SupportTickets ---------------------------
(***************************************************************************)
(* A support ticket between its customer and the administrators.  Every     *)
(* handler reads the ticket without a lock, inserts a message in a commit   *)
(* of its own, and then writes the columns in which its copy has changed.   *)
(***************************************************************************)
EXTENDS Integers

CONSTANTS
  Admins,
  Sessions,       \* requests served at a time
  MaxMessages,    \* bound on the messages of the ticket
  MaxUpdates,     \* bound on what administrators set
  None

VARIABLES
  ticket,         \* the row; the times of resolving and closing, 0 for none
  messages,       \* how many messages there are
  told,           \* how often the customer and the assigned agent were notified
  work,           \* what each session is doing
  updates         \* how many updates there were

vars == <<ticket, messages, told, work, updates>>

Idle == [op |-> "idle"]
Statuses == {"open", "in_progress", "waiting_customer", "resolved", "closed"}
Waiting == {"resolved", "waiting_customer"}

Init ==
  /\ ticket = [status |-> "open", assigned |-> None, resolved |-> 0, closed |-> 0]
  /\ messages = 1
  /\ told = [customer |-> 0, agent |-> 0]
  /\ work = [s \in Sessions |-> Idle]
  /\ updates = 0

Step(s, request) == work' = [work EXCEPT ![s] = request]
Finish(s) == Step(s, Idle)

\* The unit of work writes a column if the copy's value of it was changed.
Column(copy, new, name) ==
  IF new[name] = copy[name] THEN ticket[name] ELSE new[name]
Save(copy, new) ==
  ticket' = [name \in DOMAIN ticket |-> Column(copy, new, name)]

AcceptsMessages == ticket.status # "closed"

MessageRead(s, op) ==
  /\ work[s] = Idle /\ AcceptsMessages /\ messages < MaxMessages
  /\ Step(s, [op |-> op, copy |-> ticket])
  /\ UNCHANGED <<ticket, messages, told, updates>>

\* create_message commits on its own.
MessageInsert(s, op, next) ==
  /\ work[s].op = op
  /\ messages' = messages + 1
  /\ Step(s, [work[s] EXCEPT !.op = next])
  /\ UNCHANGED <<ticket, told, updates>>

\* A customer's message takes a ticket up again that was waiting or resolved.
CustomerSave(s) ==
  LET copy == work[s].copy
      new == IF copy.status \in Waiting
             THEN [copy EXCEPT !.status = "open", !.resolved = 0] ELSE copy
  IN /\ work[s].op = "customer_save"
     /\ Save(copy, new)
     /\ IF ticket'.assigned = None THEN Finish(s)
        ELSE Step(s, [op |-> "tell_agent"])
     /\ UNCHANGED <<messages, told, updates>>

TellAgent(s) ==
  /\ work[s].op = "tell_agent"
  /\ told' = [told EXCEPT !.agent = @ + 1]
  /\ Finish(s)
  /\ UNCHANGED <<ticket, messages, updates>>

\* The commit of the notification writes the new status with it.
AdminTell(s) ==
  /\ work[s].op = "admin_save"
  /\ Save(work[s].copy, [work[s].copy EXCEPT !.status = "waiting_customer"])
  /\ told' = [told EXCEPT !.customer = @ + 1]
  /\ Finish(s)
  /\ UNCHANGED <<messages, updates>>

\* An internal note changes nothing but the time of the last update.
AdminNote(s) ==
  /\ work[s].op = "admin_save"
  /\ Finish(s)
  /\ UNCHANGED <<ticket, messages, told, updates>>

CloseRead(s) ==
  /\ work[s] = Idle /\ ticket.status # "closed"
  /\ Step(s, [op |-> "close", copy |-> ticket])
  /\ UNCHANGED <<ticket, messages, told, updates>>

CloseCommit(s) ==
  /\ work[s].op = "close"
  /\ ticket' = [ticket EXCEPT !.status = "closed", !.closed = MaxUpdates + 1]
  /\ Finish(s)
  /\ UNCHANGED <<messages, told, updates>>

\* Assigns the ticket; a status that is given sets both times anew.
Assigned(agent) == [ticket EXCEPT !.assigned = agent]
Set(status, agent) ==
  [status |-> status, assigned |-> agent,
   resolved |-> IF status = "resolved" THEN updates + 1 ELSE 0,
   closed |-> IF status = "closed" THEN updates + 1 ELSE 0]

UpdateRead(s, new) ==
  /\ work[s] = Idle /\ updates < MaxUpdates
  /\ Step(s, [op |-> "update", copy |-> ticket, new |-> new])
  /\ updates' = updates + 1
  /\ UNCHANGED <<ticket, messages, told>>

UpdateCommit(s) ==
  /\ work[s].op = "update"
  /\ Save(work[s].copy, work[s].new)
  /\ Step(s, [op |-> "tell_customer"])
  /\ UNCHANGED <<messages, told, updates>>

TellCustomer(s) ==
  /\ work[s].op = "tell_customer"
  /\ told' = [told EXCEPT !.customer = @ + 1]
  /\ Finish(s)
  /\ UNCHANGED <<ticket, messages, updates>>

\* A lost connection or a crash between the commits of a request.
Abort(s) ==
  /\ work[s] # Idle /\ Finish(s)
  /\ UNCHANGED <<ticket, messages, told, updates>>

Next ==
  \E s \in Sessions :
    \/ MessageRead(s, "customer") \/ MessageRead(s, "admin")
    \/ MessageInsert(s, "customer", "customer_save")
    \/ MessageInsert(s, "admin", "admin_save")
    \/ CustomerSave(s) \/ TellAgent(s) \/ AdminTell(s) \/ AdminNote(s)
    \/ CloseRead(s) \/ CloseCommit(s) \/ UpdateCommit(s) \/ TellCustomer(s)
    \/ Abort(s)
    \/ \E agent \in Admins \cup {None} :
         \/ UpdateRead(s, Assigned(agent))
         \/ \E status \in Statuses : UpdateRead(s, Set(status, agent))

Spec == Init /\ [][Next]_vars

-----------------------------------------------------------------------------
(* Properties. *)

\* A message is not added to a ticket that is closed: "Closed tickets cannot be
\* updated" (_ensure_ticket_accepts_messages).
ClosedTakesNoMessages == [][messages' # messages => AcceptsMessages]_vars
=============================================================================
