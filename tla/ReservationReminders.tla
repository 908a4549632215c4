------------------------ MODULE ReservationReminders ------------------------
(***************************************************************************)
(* Reminders of hourly reservations and the inbox they arrive in.  A run of *)
(* the task reads the reservations to be reminded of; for each it commits a *)
(* notification whose key says which of the two reminders of which          *)
(* reservation it is, sends an email, and records the event.  The key       *)
(* leaves the database with the notification when the customer dismisses    *)
(* it, and it does not name the time of the reservation.                    *)
(***************************************************************************)
EXTENDS Integers, FiniteSets

CONSTANTS
  Reservations,
  Starts,         \* when reservations may start
  First, Final,   \* how long before the start the reminders are due
  LastTick,       \* bound on the clock
  Workers,
  MaxDismissals,  \* bound on what the customer dismisses
  None

VARIABLES
  now,
  reservation,    \* start of each, and whether it is confirmed
  inbox,          \* the notifications: which reminder, read or not
  mailed, audited,  \* how often each reminder was sent and recorded
  dismissed,      \* how often each was dismissed
  work            \* what each worker is doing

vars == <<now, reservation, inbox, mailed, audited, dismissed, work>>

Kinds == {"first", "final"}
Reminders == [id : Reservations, kind : Kinds]
Idle == [step |-> "idle"]

Init ==
  /\ now = 0
  /\ reservation \in [Reservations -> [start : Starts, confirmed : {TRUE}]]
  /\ inbox = {}
  /\ mailed = [k \in Reminders |-> 0] /\ audited = [k \in Reminders |-> 0]
  /\ dismissed = [k \in Reminders |-> 0]
  /\ work = [w \in Workers |-> Idle]

Sent(key) == \E note \in inbox : note.key = key

-----------------------------------------------------------------------------
(* The task. *)

\* The final reminder is due shortly before the start, the first one earlier.
Due(id, at) ==
  [id |-> id,
   kind |-> IF reservation[id].start <= at + Final THEN "final" ELSE "first"]

Candidates ==
  {id \in Reservations :
     /\ reservation[id].confirmed
     /\ now < reservation[id].start /\ reservation[id].start <= now + First
     /\ ~Sent(Due(id, now))}

\* The reservations are read once, in the order of their starts.
Run(w) ==
  /\ work[w] = Idle /\ Candidates # {}
  /\ work' = [work EXCEPT ![w] =
       [step |-> "note", left |-> {Due(id, now) : id \in Candidates},
        starts |-> [id \in Candidates |-> reservation[id].start], key |-> None]]
  /\ UNCHANGED <<now, reservation, inbox, mailed, audited, dismissed>>

\* INSERT ... ON CONFLICT DO NOTHING on the deduplication key.
KeyFree(key) == ~Sent(key)

NextOne(w) ==
  {key \in work[w].left :
     \A other \in work[w].left :
       work[w].starts[key.id] <= work[w].starts[other.id]}

\* The notification is committed before the email is sent.
Note(w) ==
  /\ work[w].step = "note"
  /\ \E key \in NextOne(w) :
       IF KeyFree(key)
       THEN /\ inbox' = inbox \cup {[key |-> key, read |-> FALSE]}
            /\ work' = [work EXCEPT ![w].left = @ \ {key}, ![w].key = key,
                                    ![w].step = "mail"]
       ELSE /\ work' = [work EXCEPT ![w].left = @ \ {key}]
            /\ UNCHANGED inbox
  /\ UNCHANGED <<now, reservation, mailed, audited, dismissed>>

Mail(w) ==
  /\ work[w].step = "mail"
  /\ mailed' = [mailed EXCEPT ![work[w].key] = @ + 1]
  /\ work' = [work EXCEPT ![w].step = "audit"]
  /\ UNCHANGED <<now, reservation, inbox, audited, dismissed>>

Audit(w) ==
  /\ work[w].step = "audit"
  /\ audited' = [audited EXCEPT ![work[w].key] = @ + 1]
  /\ work' = [work EXCEPT ![w].step = "note", ![w].key = None]
  /\ UNCHANGED <<now, reservation, inbox, mailed, dismissed>>

\* All are done, an email is refused and ends the whole run, or it crashes.
Stop(w) ==
  /\ work[w] # Idle /\ work' = [work EXCEPT ![w] = Idle]
  /\ UNCHANGED <<now, reservation, inbox, mailed, audited, dismissed>>

-----------------------------------------------------------------------------
(* The customer. *)

MarkRead(note) ==
  /\ ~note.read
  /\ inbox' = (inbox \ {note}) \cup {[note EXCEPT !.read = TRUE]}
  /\ UNCHANGED <<now, reservation, mailed, audited, dismissed, work>>

Dismiss(notes) ==
  /\ notes # {} /\ inbox' = inbox \ notes
  /\ dismissed' = [k \in Reminders |->
       dismissed[k] + Cardinality({note \in notes : note.key = k})]
  /\ \A k \in Reminders : dismissed'[k] <= MaxDismissals
  /\ UNCHANGED <<now, reservation, mailed, audited, work>>

DismissOne == \E note \in inbox : Dismiss({note})
DismissRead == Dismiss({note \in inbox : note.read})

Reschedule(id, start) ==
  /\ reservation[id].confirmed /\ start # reservation[id].start /\ start > now
  /\ reservation' = [reservation EXCEPT ![id].start = start]
  /\ UNCHANGED <<now, inbox, mailed, audited, dismissed, work>>

Cancel(id) ==
  /\ reservation[id].confirmed
  /\ reservation' = [reservation EXCEPT ![id].confirmed = FALSE]
  /\ UNCHANGED <<now, inbox, mailed, audited, dismissed, work>>

Tick ==
  /\ now < LastTick /\ now' = now + 1
  /\ UNCHANGED <<reservation, inbox, mailed, audited, dismissed, work>>

Next ==
  \/ Tick \/ DismissOne \/ DismissRead
  \/ \E note \in inbox : MarkRead(note)
  \/ \E id \in Reservations : Cancel(id) \/ \E start \in Starts : Reschedule(id, start)
  \/ \E w \in Workers : Run(w) \/ Note(w) \/ Mail(w) \/ Audit(w) \/ Stop(w)

Spec == Init /\ [][Next]_vars

-----------------------------------------------------------------------------
(* Properties. *)

\* However many runs overlap and however often the reservation moves, a
\* reminder is sent once, and once more each time the customer dismissed it;
\* no event speaks of a reminder that was not sent.
RemindedOnce ==
  \A k \in Reminders : /\ mailed[k] <= 1 + dismissed[k]
                  /\ audited[k] <= mailed[k]
=============================================================================
