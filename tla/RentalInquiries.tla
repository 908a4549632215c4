-------------------------- MODULE RentalInquiries --------------------------
(***************************************************************************)
(* Conversations about a property on offer, for rent or for sale: the       *)
(* inquiry a visitor opens, the viewing its two sides agree on, the         *)
(* messages they exchange and the reminder before the viewing.              *)
(*                                                                         *)
(* A handler locks the inquiry, loads a copy of it, decides on the copy and *)
(* writes at its commit; a request that is refused changes nothing and is   *)
(* no step.  Creation locks the visitor's own account instead, looks for an *)
(* earlier submission, and takes the listing's row only then.               *)
(***************************************************************************)
EXTENDS Integers, Sequences, FiniteSets

CONSTANTS
  Visitors, Owner, Properties,
  Inquiries,      \* inquiry rows (bound)
  Requests,       \* request identifiers of clients
  Times,          \* viewing times that are proposed
  Day,            \* how long before a viewing its reminder is due
  Sessions,       \* concurrently served requests and jobs (bound)
  MaxMessages,    \* bound on the messages of a conversation
  LastTick,       \* bound on the clock
  Ops,            \* which of update, send, read and remind occur
  None

VARIABLES
  clock,          \* the time of day
  inquiry,        \* inquiry rows
  messages,       \* the messages of each inquiry
  screen,         \* what each participant's client shows of each inquiry
  wants,          \* who has viewing reminders switched on
  reminders,      \* how often a reminder was written: inquiry, person, viewing
  work            \* what each session is doing

vars == <<clock, inquiry, messages, screen, wants, reminders, work>>

People == Visitors \cup {Owner}
Ended == {"closed", "withdrawn"}
OwnerActions == {"reply", "propose", "close"}
Actions == OwnerActions \cup {"confirm", "decline", "withdraw"}

NoInquiry == [status |-> "none", user |-> None, property |-> None,
              request |-> None, viewing |-> None, version |-> 0]
Blank == [version |-> 0, viewing |-> None, shown |-> 0]
Idle == [op |-> "idle"]

Init ==
  /\ clock = 0
  /\ inquiry = [i \in Inquiries |-> NoInquiry]
  /\ messages = [i \in Inquiries |-> <<>>]
  /\ screen = [u \in People |-> [i \in Inquiries |-> Blank]]
  /\ wants = People
  /\ reminders = [i \in Inquiries |-> [u \in People |-> [t \in Times |-> 0]]]
  /\ work = [s \in Sessions |-> Idle]

Finish(s) == work' = [work EXCEPT ![s] = Idle]
Participants(i) == {inquiry[i].user, Owner}

\* Somebody opens the inquiry and its messages in a client.
Open(u, i) ==
  /\ inquiry[i].status # "none" /\ u \in Participants(i)
  /\ screen' = [screen EXCEPT ![u][i] =
       [version |-> inquiry[i].version, viewing |-> inquiry[i].viewing,
        shown |-> Len(messages[i])]]
  /\ UNCHANGED <<clock, inquiry, messages, wants, reminders, work>>

-----------------------------------------------------------------------------
(* Opening an inquiry. *)

AccountFree(s, u) ==
  \A t \in Sessions \ {s} : work[t].op = "create" => work[t].user # u

Earlier(u, r) == \E i \in Inquiries : inquiry[i].user = u /\ inquiry[i].request = r

\* The account is locked and no earlier submission is found.
CreateLock(s, u, p, r) ==
  /\ work[s] = Idle /\ AccountFree(s, u) /\ ~Earlier(u, r)
  /\ work' = [work EXCEPT ![s] = [op |-> "create", user |-> u, property |-> p,
                                  request |-> r]]
  /\ UNCHANGED <<clock, inquiry, messages, screen, wants, reminders>>

Active(u, p) ==
  \E i \in Inquiries : /\ inquiry[i].user = u /\ inquiry[i].property = p
                       /\ inquiry[i].status \notin Ended

\* The listing is locked, and the inquiry is stored with its first message.
CreateCommit(s) ==
  LET w == work[s] IN
  /\ w.op = "create" /\ ~Active(w.user, w.property)
  /\ \E i \in Inquiries :
       /\ inquiry[i].status = "none"
       /\ inquiry' = [inquiry EXCEPT ![i] =
            [status |-> "open", user |-> w.user, property |-> w.property,
             request |-> w.request, viewing |-> None, version |-> 1]]
       /\ messages' = [messages EXCEPT ![i] =
            <<[from |-> w.user, request |-> None, read |-> FALSE]>>]
  /\ Finish(s)
  /\ UNCHANGED <<clock, screen, wants, reminders>>

\* The listing is gone or unpublished, its offer or dates do not match, or the
\* visitor already has an active inquiry.
CreateRefuse(s) ==
  /\ work[s].op = "create" /\ Finish(s)
  /\ UNCHANGED <<clock, inquiry, messages, screen, wants, reminders>>

-----------------------------------------------------------------------------
(* Handlers under the inquiry's lock. *)

InquiryFree(s, i) ==
  \A t \in Sessions \ {s} : work[t].op \notin {"idle", "create"} => work[t].row # i

Load(s, i, w) ==
  /\ w.op \in Ops
  /\ work[s] = Idle /\ inquiry[i].status # "none" /\ InquiryFree(s, i)
  /\ work' = [work EXCEPT ![s] = w]
  /\ UNCHANGED <<clock, inquiry, messages, screen, wants, reminders>>

\* Defect: the version that the client saw is not compared.
AnyVersion(u, i, action, time) ==
  /\ inquiry[i].status \notin Ended
  /\ action = "propose" => time > clock
  /\ action \in {"confirm", "decline"} => inquiry[i].status = "viewing_proposed"
  /\ action = "confirm" => inquiry[i].viewing > clock

Allowed(u, i, action, time) ==
  /\ screen[u][i].version = inquiry[i].version
  /\ inquiry[i].status \notin Ended
  /\ action = "propose" => time > clock
  /\ action \in {"confirm", "decline"} => inquiry[i].status = "viewing_proposed"
  /\ action = "confirm" => inquiry[i].viewing > clock

UpdateLock(s, u, i, action, time) ==
  /\ u = IF action \in OwnerActions THEN Owner ELSE inquiry[i].user
  /\ (time = None) <=> (action # "propose")
  /\ Allowed(u, i, action, time) /\ Len(messages[i]) < MaxMessages
  /\ Load(s, i, [op |-> "update", row |-> i, user |-> u, action |-> action,
                 time |-> time, saw |-> screen[u][i].viewing, copy |-> inquiry[i]])

Sent(i, u, r) ==
  \E n \in DOMAIN messages[i] : messages[i][n].from = u /\ messages[i][n].request = r

SendLock(s, u, i, r) ==
  /\ u \in Participants(i)
  /\ ~Sent(i, u, r) /\ inquiry[i].status \notin Ended /\ Len(messages[i]) < MaxMessages
  /\ Load(s, i, [op |-> "send", row |-> i, user |-> u, request |-> r])

ReadLock(s, u, i) ==
  /\ u \in Participants(i)
  /\ Load(s, i, [op |-> "read", row |-> i, user |-> u,
                 ids |-> 1..screen[u][i].shown])

Write(i, u, r) ==
  messages' = [messages EXCEPT ![i] =
                 Append(@, [from |-> u, request |-> r, read |-> FALSE])]

Outcome(w) ==
  CASE w.action = "reply"    -> w.copy
    [] w.action = "propose"  -> [w.copy EXCEPT !.status = "viewing_proposed",
                                               !.viewing = w.time]
    [] w.action = "confirm"  -> [w.copy EXCEPT !.status = "viewing_confirmed"]
    [] w.action = "decline"  -> [w.copy EXCEPT !.status = "open", !.viewing = None]
    [] w.action = "close"    -> [w.copy EXCEPT !.status = "closed"]
    [] w.action = "withdraw" -> [w.copy EXCEPT !.status = "withdrawn"]

UpdateCommit(s) ==
  LET w == work[s] IN
  /\ w.op = "update"
  /\ inquiry' = [inquiry EXCEPT ![w.row] = [Outcome(w) EXCEPT !.version = @ + 1]]
  /\ Write(w.row, w.user, None)
  /\ Finish(s)
  /\ UNCHANGED <<clock, screen, wants, reminders>>

\* A message changes neither the inquiry nor its version.
SendCommit(s) ==
  LET w == work[s] IN
  /\ w.op = "send" /\ Write(w.row, w.user, w.request)
  /\ Finish(s)
  /\ UNCHANGED <<clock, inquiry, screen, wants, reminders>>

Listed(w) == w.ids

ReadCommit(s) ==
  LET w == work[s] IN
  /\ w.op = "read"
  /\ messages' = [messages EXCEPT ![w.row] = [n \in DOMAIN @ |->
       IF n \in Listed(w) /\ @[n].from # w.user THEN [@[n] EXCEPT !.read = TRUE]
       ELSE @[n]]]
  /\ Finish(s)
  /\ UNCHANGED <<clock, inquiry, screen, wants, reminders>>

-----------------------------------------------------------------------------
(* Viewing reminders. *)

SetPreference(u) ==
  /\ "remind" \in Ops
  /\ wants' = (wants \ {u}) \cup ({u} \ wants)
  /\ UNCHANGED <<clock, inquiry, messages, screen, reminders, work>>

Due(i, at) ==
  /\ inquiry[i].status = "viewing_confirmed"
  /\ at < inquiry[i].viewing /\ inquiry[i].viewing <= at + Day

Awaiting(i) ==
  {u \in Participants(i) \cap wants : reminders[i][u][inquiry[i].viewing] = 0}

\* The job loads one due inquiry and who is still to be reminded of it.
RemindLock(s, i) ==
  /\ Due(i, clock) /\ Awaiting(i) # {}
  /\ Load(s, i, [op |-> "remind", row |-> i, viewing |-> inquiry[i].viewing,
                 todo |-> Awaiting(i)])

RemindCommit(s) ==
  LET w == work[s] IN
  /\ w.op = "remind"
  /\ reminders' = [reminders EXCEPT ![w.row] =
       [u \in People |-> [t \in Times |->
          IF u \in w.todo /\ t = w.viewing THEN @[u][t] + 1 ELSE @[u][t]]]]
  /\ Finish(s)
  /\ UNCHANGED <<clock, inquiry, messages, screen, wants>>

Tick ==
  /\ clock < LastTick /\ clock' = clock + 1
  /\ UNCHANGED <<inquiry, messages, screen, wants, reminders, work>>

Next ==
  \/ Tick
  \/ \E u \in People : SetPreference(u) \/ \E i \in Inquiries : Open(u, i)
  \/ \E s \in Sessions :
       \/ CreateCommit(s) \/ CreateRefuse(s) \/ UpdateCommit(s) \/ SendCommit(s)
       \/ ReadCommit(s) \/ RemindCommit(s)
       \/ \E u \in Visitors, p \in Properties, r \in Requests : CreateLock(s, u, p, r)
       \/ \E i \in Inquiries :
            \/ RemindLock(s, i)
            \/ \E u \in People :
                 \/ ReadLock(s, u, i)
                 \/ \E r \in Requests : SendLock(s, u, i, r)
                 \/ \E a \in Actions, t \in Times \cup {None} : UpdateLock(s, u, i, a, t)

Spec == Init /\ [][Next]_vars

-----------------------------------------------------------------------------
(* Properties. *)

\* A visitor never has two active inquiries about one property, whatever the
\* owner and other submissions do in between (rental_inquiry_service.py:94).
OneActiveInquiry ==
  \A i, j \in Inquiries :
    /\ i # j /\ {inquiry[i].status, inquiry[j].status} \cap (Ended \cup {"none"}) = {}
    => inquiry[i].user # inquiry[j].user \/ inquiry[i].property # inquiry[j].property

\* A client that repeats a request never runs into uq_rental_inquiry_request or
\* uq_rental_message_request: the repetition is found first.
RequestsNeverCollide ==
  /\ \A i, j \in Inquiries :
       i # j /\ inquiry[i].status # "none" =>
         <<inquiry[i].user, inquiry[i].request>> # <<inquiry[j].user, inquiry[j].request>>
  /\ \A i \in Inquiries : \A m, n \in DOMAIN messages[i] :
       m # n /\ messages[i][m].request # None =>
         \/ messages[i][m].from # messages[i][n].from
         \/ messages[i][m].request # messages[i][n].request

\* A viewing is only ever agreed at the time that the visitor's client showed:
\* a proposal that replaced it in between is refused by its version.
ViewingShown ==
  \A i \in Inquiries :
    inquiry'[i].status = "viewing_confirmed" /\ inquiry[i].status # "viewing_confirmed"
    => \E s \in Sessions : /\ work[s].op = "update" /\ work[s].row = i
                          /\ work[s].saw = inquiry'[i].viewing
AgreedViewing == [][ViewingShown]_vars

\* An ended inquiry stays as it was: neither its status nor its agreed viewing
\* changes again, and nobody adds a message to it.
EndedUntouched ==
  \A i \in Inquiries : inquiry[i].status \in Ended =>
    inquiry'[i] = inquiry[i] /\ Len(messages'[i]) = Len(messages[i])
EndedStaysQuiet == [][EndedUntouched]_vars

\* Nothing counts as read that its reader's client has never shown.
ReadWasShown ==
  \A i \in Inquiries : \A n \in DOMAIN messages[i] : messages[i][n].read =>
    \E u \in Participants(i) \ {messages[i][n].from} : n <= screen[u][i].shown

\* Two runs of the reminder job never remind a person twice of one viewing.
RemindedOnce ==
  \A i \in Inquiries, u \in People, t \in Times : reminders[i][u][t] <= 1
=============================================================================
