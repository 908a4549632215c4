----------------------- MODULE RentalInquiries_proofs -----------------------
(***************************************************************************)
(* What the conversations about a property keep, for any number of visitors, *)
(* inquiries, messages and concurrent requests.                              *)
(*                                                                         *)
(* Whoever has locked an inquiry finds it at the commit as it was loaded, and *)
(* a client that shows the current version shows the current viewing.        *)
(***************************************************************************)
EXTENDS RentalInquiries, TLAPS

Unended == {"open", "viewing_proposed", "viewing_confirmed"}
Row == [status : {"none"} \cup Unended \cup Ended, user : Visitors \cup {None},
        property : Properties \cup {None}, request : Requests \cup {None},
        viewing : Times \cup {None}, version : Nat]
Message == [from : People, request : Requests \cup {None}, read : BOOLEAN]
View == [version : Nat, viewing : Times \cup {None}, shown : Nat]

RowsOK ==
  /\ inquiry \in [Inquiries -> Row]
  /\ \A i \in Inquiries :
       IF inquiry[i].status = "none" THEN inquiry[i].version = 0
       ELSE inquiry[i].user \in Visitors
MessagesOK ==
  /\ messages \in [Inquiries -> Seq(Message)]
  /\ \A i \in Inquiries : inquiry[i].status = "none" => messages[i] = <<>>
RemindersOK == reminders \in [Inquiries -> [People -> [Times -> Nat]]]

\* What a client shows is not newer than the inquiry, and of the current version
\* it shows the current viewing.
ScreensOK ==
  /\ screen \in [People -> [Inquiries -> View]]
  /\ \A u \in People, i \in Inquiries :
       /\ screen[u][i].version <= inquiry[i].version
       /\ screen[u][i].version = inquiry[i].version =>
            screen[u][i].viewing = inquiry[i].viewing
       /\ screen[u][i].shown <= Len(messages[i])

\* What a session has found under its lock still holds.
Creating(w) ==
  /\ w.user \in Visitors /\ w.property \in Properties /\ w.request \in Requests
  /\ ~Earlier(w.user, w.request)
Updating(w) ==
  /\ w.user \in People /\ w.action \in Actions /\ w.time \in Times \cup {None}
  /\ w.copy = inquiry[w.row] /\ w.copy.status \in Unended
  /\ w.saw = w.copy.viewing
Sending(w) ==
  /\ w.user \in People /\ w.request \in Requests
  /\ inquiry[w.row].status \in Unended /\ ~Sent(w.row, w.user, w.request)
Reading(w) ==
  /\ w.user \in People /\ w.user \in Participants(w.row)
  /\ w.ids \subseteq Nat /\ \A n \in w.ids : n <= screen[w.user][w.row].shown
Reminding(w) ==
  \A u \in w.todo : reminders[w.row][u][w.viewing] = 0

Holds(w) == w.op \in {"update", "send", "read", "remind"}

Found(w) ==
  /\ w = Idle \/ w.op = "create" \/ Holds(w)
  /\ w.op = "create" => Creating(w)
  /\ Holds(w) => w.row \in Inquiries /\ inquiry[w.row].status # "none"
  /\ w.op = "update" => Updating(w)
  /\ w.op = "send" => Sending(w)
  /\ w.op = "read" => Reading(w)
  /\ w.op = "remind" => Reminding(w)

\* Two sessions hold neither one inquiry nor one account.
LocksApart ==
  /\ DOMAIN work = Sessions
  /\ \A s, t \in Sessions : s # t =>
       /\ Holds(work[s]) /\ Holds(work[t]) => work[s].row # work[t].row
       /\ work[s].op = "create" /\ work[t].op = "create" => work[s].user # work[t].user

WorkOK == \A s \in Sessions : Found(work[s])

Kept ==
  /\ OneActiveInquiry /\ RequestsNeverCollide /\ ReadWasShown /\ RemindedOnce

InquiriesInv ==
  /\ RowsOK /\ MessagesOK /\ RemindersOK /\ ScreensOK
  /\ LocksApart /\ WorkOK /\ Kept

-----------------------------------------------------------------------------
(* What one step leaves alone. *)

\* Writing the row i does not touch what others have found in other rows.
LEMMA OthersFound ==
  ASSUME NEW t \in Sessions, Found(work[t]), work'[t] = work[t],
         NEW i \in Inquiries, Holds(work[t]) => work[t].row # i,
         \A j \in Inquiries \ {i} :
           /\ inquiry'[j] = inquiry[j] /\ messages'[j] = messages[j]
           /\ reminders'[j] = reminders[j],
         work[t].op = "create" =>
           \/ inquiry'[i].user # work[t].user
           \/ inquiry'[i].request # work[t].request,
         screen' = screen
  PROVE  Found(work[t])'
  <1>1. CASE Holds(work[t])
    <2>1. /\ work[t].row \in Inquiries
          /\ inquiry'[work[t].row] = inquiry[work[t].row]
          /\ messages'[work[t].row] = messages[work[t].row]
          /\ reminders'[work[t].row] = reminders[work[t].row]
      BY <1>1 DEF Found
    <2>2. work[t].op # "create"
      BY <1>1 DEF Holds
    <2> QED
      BY <1>1, <2>1, <2>2 DEF Found, Holds, Updating, Sending, Sent, Reading,
         Participants, Reminding
  <1>2. CASE work[t].op = "create"
    <2>1. ~Earlier(work[t].user, work[t].request)'
      BY <1>2 DEF Found, Creating, Earlier
    <2> QED BY <1>2, <2>1 DEF Found, Holds, Creating
  <1>3. CASE work[t] = Idle
    BY <1>3 DEF Found, Holds, Idle
  <1> QED BY <1>1, <1>2, <1>3 DEF Found

LEMMA OthersStill ==
  ASSUME NEW t \in Sessions, Found(work[t]), work'[t] = work[t],
         UNCHANGED <<inquiry, messages, reminders, screen>>
  PROVE  Found(work[t])'
  BY DEF Found, Holds, Creating, Earlier, Updating, Sending, Sent, Reading,
     Participants, Reminding

LEMMA RowsStill ==
  ASSUME InquiriesInv, UNCHANGED <<inquiry, messages, reminders, screen>>
  PROVE  RowsOK' /\ MessagesOK' /\ RemindersOK' /\ ScreensOK' /\ Kept'
  <1>1. RowsOK' /\ MessagesOK' /\ RemindersOK' /\ ScreensOK'
    BY DEF InquiriesInv, RowsOK, MessagesOK, RemindersOK, ScreensOK
  <1>2. OneActiveInquiry' /\ RemindedOnce'
    BY DEF InquiriesInv, Kept, OneActiveInquiry, RemindedOnce
  <1>3. RequestsNeverCollide'
    BY DEF InquiriesInv, Kept, RequestsNeverCollide
  <1>4. ReadWasShown'
    BY DEF InquiriesInv, Kept, ReadWasShown, Participants
  <1> QED BY <1>1, <1>2, <1>3, <1>4 DEF Kept

\* A request begins with what it found.
LEMMA Begins ==
  ASSUME InquiriesInv, NEW s \in Sessions, NEW w,
         work' = [work EXCEPT ![s] = w], Found(w),
         Holds(w) => InquiryFree(s, w.row), w.op = "create" => AccountFree(s, w.user),
         UNCHANGED <<inquiry, messages, reminders, screen>>
  PROVE  InquiriesInv'
  <1>1. \A t \in Sessions : work'[t] = IF t = s THEN w ELSE work[t]
    BY DEF InquiriesInv, LocksApart
  <1>2. \A t \in Sessions \ {s} : Found(work[t])'
    BY <1>1, OthersStill DEF InquiriesInv, WorkOK
  <1>3. Found(w)'
    BY DEF Found, Holds, Creating, Earlier, Updating, Sending, Sent, Reading,
       Participants, Reminding
  <1>4. WorkOK'
    BY <1>1, <1>2, <1>3 DEF WorkOK
  <1>5. LocksApart'
    <2>1. \A t \in Sessions \ {s} : Holds(w) /\ Holds(work[t]) => work[t].row # w.row
      BY DEF InquiryFree, Holds
    <2>2. \A t \in Sessions \ {s} :
            w.op = "create" /\ work[t].op = "create" => work[t].user # w.user
      BY DEF AccountFree
    <2>3. DOMAIN work' = Sessions
      BY DEF InquiriesInv, LocksApart
    <2> QED
      BY <1>1, <2>1, <2>2, <2>3 DEF InquiriesInv, LocksApart
  <1> QED BY <1>4, <1>5, RowsStill DEF InquiriesInv

\* A request ends.
LEMMA Finishes ==
  ASSUME InquiriesInv, NEW s \in Sessions, Finish(s)
  PROVE  /\ LocksApart'
         /\ Found(work[s])'
         /\ \A t \in Sessions \ {s} : work'[t] = work[t]
  <1>1. \A t \in Sessions : work'[t] = IF t = s THEN Idle ELSE work[t]
    BY DEF InquiriesInv, LocksApart, Finish
  <1>2. DOMAIN work' = Sessions
    BY DEF InquiriesInv, LocksApart, Finish
  <1>3. ~Holds(Idle) /\ Idle.op # "create"
    BY DEF Holds, Idle
  <1> QED
    BY <1>1, <1>2, <1>3 DEF InquiriesInv, LocksApart, Found, Holds, Idle

LEMMA InquiriesStart == Init => InquiriesInv
  <1> SUFFICES ASSUME Init PROVE InquiriesInv
    OBVIOUS
  <1>1. RowsOK /\ RemindersOK
    BY DEF Init, RowsOK, RemindersOK, NoInquiry, Row
  <1>2. MessagesOK
    BY DEF Init, MessagesOK
  <1>3. ScreensOK
    BY DEF Init, ScreensOK, NoInquiry, Blank, View
  <1>4. LocksApart /\ WorkOK
    BY DEF Init, LocksApart, WorkOK, Found, Holds, Idle
  <1>5. Kept
    BY DEF Init, Kept, OneActiveInquiry, RequestsNeverCollide, ReadWasShown,
       RemindedOnce, NoInquiry
  <1> QED BY <1>1, <1>2, <1>3, <1>4, <1>5 DEF InquiriesInv


-----------------------------------------------------------------------------
(* What a request finds when it begins. *)

LEMMA Loads ==
  ASSUME InquiriesInv, NEW s \in Sessions, NEW i \in Inquiries, NEW w,
         Load(s, i, w), w.row = i, Holds(w), Found(w)
  PROVE  InquiriesInv'
  <1>1. w.op # "create" /\ InquiryFree(s, w.row)
    BY DEF Load, Holds
  <1>2. work' = [work EXCEPT ![s] = w]
    BY DEF Load
  <1>3. UNCHANGED <<inquiry, messages, reminders, screen>>
    BY DEF Load
  <1> QED BY <1>1, <1>2, <1>3, Begins

LEMMA CreateBegins ==
  ASSUME InquiriesInv, NEW s \in Sessions, NEW u \in Visitors, NEW p \in Properties,
         NEW r \in Requests, CreateLock(s, u, p, r)
  PROVE  InquiriesInv'
  <1>1. PICK w : w = [op |-> "create", user |-> u, property |-> p, request |-> r]
    OBVIOUS
  <1>2. w.op = "create" /\ w.user = u /\ Creating(w)
    BY <1>1 DEF CreateLock, Creating
  <1>3. Found(w) /\ ~Holds(w)
    BY <1>2 DEF Found, Holds
  <1>4. /\ work' = [work EXCEPT ![s] = w] /\ AccountFree(s, w.user)
        /\ UNCHANGED <<inquiry, messages, reminders, screen>>
    BY <1>1, <1>2 DEF CreateLock
  <1> QED BY <1>3, <1>4, Begins

\* The client's version is compared, so that what it showed is what is decided.
LEMMA UpdateBegins ==
  ASSUME InquiriesInv, NEW s \in Sessions, NEW i \in Inquiries, NEW u \in People,
         NEW a \in Actions, NEW t \in Times \cup {None}, UpdateLock(s, u, i, a, t)
  PROVE  InquiriesInv'
  <1>1. PICK w : w = [op |-> "update", row |-> i, user |-> u, action |-> a,
                      time |-> t, saw |-> screen[u][i].viewing, copy |-> inquiry[i]]
    OBVIOUS
  <1>2. Load(s, i, w)
    BY <1>1 DEF UpdateLock
  <1>3. inquiry[i].status \in Unended
    <2>1. inquiry[i].status # "none" /\ inquiry[i].status \notin Ended
      BY DEF UpdateLock, Load, Allowed
    <2> QED BY <2>1 DEF InquiriesInv, RowsOK, Row
  <1>4. screen[u][i].viewing = inquiry[i].viewing
    BY DEF UpdateLock, Allowed, InquiriesInv, ScreensOK
  <1>5. Updating(w) /\ w.row = i /\ w.op = "update"
    BY <1>1, <1>3, <1>4 DEF Updating
  <1>6. Found(w) /\ Holds(w)
    BY <1>3, <1>5 DEF Found, Holds, Unended
  <1> QED BY <1>2, <1>5, <1>6, Loads

LEMMA SendBegins ==
  ASSUME InquiriesInv, NEW s \in Sessions, NEW i \in Inquiries, NEW u \in People,
         NEW r \in Requests, SendLock(s, u, i, r)
  PROVE  InquiriesInv'
  <1>1. PICK w : w = [op |-> "send", row |-> i, user |-> u, request |-> r]
    OBVIOUS
  <1>2. Load(s, i, w)
    BY <1>1 DEF SendLock
  <1>3. inquiry[i].status \in Unended
    <2>1. inquiry[i].status # "none" /\ inquiry[i].status \notin Ended
      BY DEF SendLock, Load
    <2> QED BY <2>1 DEF InquiriesInv, RowsOK, Row
  <1>4. Sending(w) /\ w.row = i /\ w.op = "send"
    BY <1>1, <1>3 DEF Sending, SendLock
  <1>5. Found(w) /\ Holds(w)
    BY <1>3, <1>4 DEF Found, Holds, Unended
  <1> QED BY <1>2, <1>4, <1>5, Loads

LEMMA ReadBegins ==
  ASSUME InquiriesInv, NEW s \in Sessions, NEW i \in Inquiries, NEW u \in People,
         ReadLock(s, u, i)
  PROVE  InquiriesInv'
  <1>1. PICK w : w = [op |-> "read", row |-> i, user |-> u,
                      ids |-> 1..screen[u][i].shown]
    OBVIOUS
  <1>2. Load(s, i, w)
    BY <1>1 DEF ReadLock
  <1>3. inquiry[i].status # "none"
    BY <1>2 DEF Load
  <1>4. Reading(w) /\ w.row = i /\ w.op = "read"
    <2>1. screen[u][i].shown \in Nat
      BY DEF InquiriesInv, ScreensOK, View
    <2> QED BY <1>1, <2>1 DEF Reading, ReadLock
  <1>5. Found(w) /\ Holds(w)
    BY <1>3, <1>4 DEF Found, Holds
  <1> QED BY <1>2, <1>4, <1>5, Loads

LEMMA RemindBegins ==
  ASSUME InquiriesInv, NEW s \in Sessions, NEW i \in Inquiries, RemindLock(s, i)
  PROVE  InquiriesInv'
  <1>1. PICK w : w = [op |-> "remind", row |-> i, viewing |-> inquiry[i].viewing,
                      todo |-> Awaiting(i)]
    OBVIOUS
  <1>2. Load(s, i, w)
    BY <1>1 DEF RemindLock
  <1>3. inquiry[i].status # "none"
    BY <1>2 DEF Load
  <1>4. Reminding(w) /\ w.row = i /\ w.op = "remind"
    BY <1>1 DEF Reminding, Awaiting
  <1>5. Found(w) /\ Holds(w)
    BY <1>3, <1>4 DEF Found, Holds
  <1> QED BY <1>2, <1>4, <1>5, Loads

\* Nothing is written, or only what a client shows.
LEMMA RestKeeps ==
  ASSUME InquiriesInv, UNCHANGED <<inquiry, messages, reminders, screen, work>>
  PROVE  InquiriesInv'
  <1>1. WorkOK' /\ LocksApart'
    BY OthersStill DEF InquiriesInv, WorkOK, LocksApart
  <1> QED BY <1>1, RowsStill DEF InquiriesInv

LEMMA RefuseKeeps ==
  ASSUME InquiriesInv, NEW s \in Sessions, CreateRefuse(s)
  PROVE  InquiriesInv'
  <1>1. UNCHANGED <<inquiry, messages, reminders, screen>>
    BY DEF CreateRefuse
  <1>2. LocksApart' /\ Found(work[s])' /\ \A t \in Sessions \ {s} : work'[t] = work[t]
    BY Finishes DEF CreateRefuse
  <1>3. WorkOK'
    BY <1>1, <1>2, OthersStill DEF InquiriesInv, WorkOK
  <1> QED BY <1>1, <1>2, <1>3, RowsStill DEF InquiriesInv

\* A client that opens an inquiry shows at least what it showed.
LEMMA OpenKeeps ==
  ASSUME InquiriesInv, NEW u \in People, NEW i \in Inquiries, Open(u, i)
  PROVE  InquiriesInv'
  <1>1. UNCHANGED <<inquiry, messages, reminders, work>>
    BY DEF Open
  <1>2. PICK v : v = [version |-> inquiry[i].version, viewing |-> inquiry[i].viewing,
                      shown |-> Len(messages[i])]
    OBVIOUS
  <1>3. screen' = [screen EXCEPT ![u][i] = v]
    BY <1>2 DEF Open
  <1>4. inquiry[i] \in Row /\ Len(messages[i]) \in Nat
    BY DEF InquiriesInv, RowsOK, MessagesOK
  <1>5. v \in View /\ v.version = inquiry[i].version /\ v.viewing = inquiry[i].viewing
        /\ v.shown = Len(messages[i])
    BY <1>2, <1>4 DEF View, Row
  <1>6. \A t \in People, j \in Inquiries :
          screen'[t][j] = IF t = u /\ j = i THEN v ELSE screen[t][j]
    BY <1>3 DEF InquiriesInv, ScreensOK
  <1>7. screen' \in [People -> [Inquiries -> View]]
    BY <1>3, <1>5 DEF InquiriesInv, ScreensOK
  <1>8. ScreensOK'
    BY <1>1, <1>4, <1>5, <1>6, <1>7 DEF InquiriesInv, ScreensOK, Row
  <1>9. \A t \in People, j \in Inquiries : \A n \in Nat :
          n <= screen[t][j].shown => n <= screen'[t][j].shown
    <2>1. screen[u][i].shown \in Nat /\ screen[u][i].shown <= Len(messages[i])
      BY DEF InquiriesInv, ScreensOK, View
    <2> QED BY <1>4, <1>5, <1>6, <2>1
  <1>10. RowsOK' /\ MessagesOK' /\ RemindersOK' /\ LocksApart'
    BY <1>1 DEF InquiriesInv, RowsOK, MessagesOK, RemindersOK, LocksApart
  <1>11. WorkOK'
    <2> SUFFICES ASSUME NEW t \in Sessions PROVE Found(work[t])'
      BY DEF WorkOK
    <2>1. Found(work[t])
      BY DEF InquiriesInv, WorkOK
    <2>2. work[t].op = "read" => Reading(work[t])'
      BY <2>1, <1>1, <1>9 DEF Found, Holds, Reading, Participants
    <2> QED
      BY <2>1, <2>2, <1>1 DEF Found, Holds, Creating, Earlier, Updating, Sending,
         Sent, Reminding
  <1>12. Kept'
    <2>1. OneActiveInquiry' /\ RemindedOnce'
      BY <1>1 DEF InquiriesInv, Kept, OneActiveInquiry, RemindedOnce
    <2>2. RequestsNeverCollide'
      BY <1>1 DEF InquiriesInv, Kept, RequestsNeverCollide
    <2>3. ReadWasShown'
      <3>1. \A j \in Inquiries : Participants(j)' = Participants(j)
        BY <1>1 DEF Participants
      <3>2. ASSUME NEW j \in Inquiries, NEW n \in DOMAIN messages[j]
            PROVE  n \in Nat /\ Participants(j) \subseteq People
        <4>1. messages[j] \in Seq(Message) /\ messages[j] # <<>>
          BY <3>2 DEF InquiriesInv, MessagesOK
        <4>2. inquiry[j].user \in Visitors
          BY <4>1 DEF InquiriesInv, MessagesOK, RowsOK
        <4> QED BY <4>1, <4>2 DEF Participants, People
      <3> QED
        BY <1>1, <1>9, <3>1, <3>2 DEF InquiriesInv, Kept, ReadWasShown
    <2> QED BY <2>1, <2>2, <2>3 DEF Kept
  <1> QED BY <1>8, <1>10, <1>11, <1>12 DEF InquiriesInv


-----------------------------------------------------------------------------
(* Commits. *)

\* Whoever holds the inquiry writes it alone.
LEMMA HolderWrites ==
  ASSUME InquiriesInv, NEW s \in Sessions, NEW i \in Inquiries, Holds(work[s]),
         work[s].row = i, Finish(s), screen' = screen,
         \A j \in Inquiries \ {i} :
           /\ inquiry'[j] = inquiry[j] /\ messages'[j] = messages[j]
           /\ reminders'[j] = reminders[j],
         inquiry'[i].user = inquiry[i].user, inquiry'[i].request = inquiry[i].request
  PROVE  LocksApart' /\ WorkOK'
  <1>1. LocksApart' /\ Found(work[s])' /\ \A t \in Sessions \ {s} : work'[t] = work[t]
    BY Finishes
  <1>2. ASSUME NEW t \in Sessions \ {s} PROVE Found(work[t])'
    <2>1. Found(work[t]) /\ work'[t] = work[t] /\ t \in Sessions
      BY <1>1 DEF InquiriesInv, WorkOK
    <2>2. Holds(work[t]) => work[t].row # i
      BY DEF InquiriesInv, LocksApart
    <2>3. work[t].op = "create" =>
            inquiry'[i].user # work[t].user \/ inquiry'[i].request # work[t].request
      BY <2>1 DEF Found, Creating, Earlier
    <2> QED BY <2>1, <2>2, <2>3, OthersFound
  <1> QED BY <1>1, <1>2 DEF WorkOK

\* A message is added at the end.
LEMMA Appended ==
  ASSUME InquiriesInv, NEW i \in Inquiries, NEW m \in Message,
         messages' = [messages EXCEPT ![i] = Append(@, m)]
  PROVE  /\ messages' \in [Inquiries -> Seq(Message)]
         /\ \A j \in Inquiries \ {i} : messages'[j] = messages[j]
         /\ Len(messages[i]) \in Nat /\ Len(messages'[i]) = Len(messages[i]) + 1
         /\ DOMAIN messages[i] = 1..Len(messages[i])
         /\ DOMAIN messages'[i] = 1..(Len(messages[i]) + 1)
         /\ \A n \in DOMAIN messages'[i] :
              messages'[i][n] = IF n \in DOMAIN messages[i] THEN messages[i][n] ELSE m
  <1>1. messages[i] \in Seq(Message)
    BY DEF InquiriesInv, MessagesOK
  <1>2. messages'[i] = Append(messages[i], m)
    BY DEF InquiriesInv, MessagesOK
  <1>3. messages'[i] \in Seq(Message)
    BY <1>1, <1>2
  <1>4. messages' \in [Inquiries -> Seq(Message)]
    BY <1>1 DEF InquiriesInv, MessagesOK
  <1>5. \A j \in Inquiries \ {i} : messages'[j] = messages[j]
    BY DEF InquiriesInv, MessagesOK
  <1> QED BY <1>1, <1>2, <1>4, <1>5

LEMMA LongerMessages ==
  ASSUME InquiriesInv, NEW i \in Inquiries, NEW m \in Message,
         messages' = [messages EXCEPT ![i] = Append(@, m)]
  PROVE  \A j \in Inquiries : /\ Len(messages[j]) \in Nat /\ Len(messages'[j]) \in Nat
                              /\ Len(messages'[j]) >= Len(messages[j])
  <1>1. \A j \in Inquiries : Len(messages[j]) \in Nat
    BY DEF InquiriesInv, MessagesOK
  <1>2. /\ Len(messages'[i]) = Len(messages[i]) + 1
        /\ \A j \in Inquiries \ {i} : messages'[j] = messages[j]
    BY Appended
  <1> QED BY <1>1, <1>2

\* The message is no repetition, and nobody has read it.
LEMMA AppendKeeps ==
  ASSUME InquiriesInv, NEW i \in Inquiries, NEW m \in Message, ~m.read,
         m.request = None \/ ~Sent(i, m.from, m.request),
         messages' = [messages EXCEPT ![i] = Append(@, m)], screen' = screen,
         \A j \in Inquiries : inquiry'[j].user = inquiry[j].user
  PROVE  /\ ReadWasShown'
         /\ \A j \in Inquiries : \A k, n \in DOMAIN messages'[j] :
              k # n /\ messages'[j][k].request # None =>
                \/ messages'[j][k].from # messages'[j][n].from
                \/ messages'[j][k].request # messages'[j][n].request
  <1>1. \A j \in Inquiries : Participants(j)' = Participants(j)
    BY DEF Participants
  <1>2. ReadWasShown'
    BY <1>1, Appended DEF InquiriesInv, Kept, ReadWasShown
  <1>3. ASSUME NEW j \in Inquiries, NEW k \in DOMAIN messages'[j],
               NEW n \in DOMAIN messages'[j], k # n, messages'[j][k].request # None
        PROVE  \/ messages'[j][k].from # messages'[j][n].from
               \/ messages'[j][k].request # messages'[j][n].request
    <2>1. CASE j # i
      BY <1>3, <2>1, Appended DEF InquiriesInv, Kept, RequestsNeverCollide
    <2>2. CASE j = i /\ k \in DOMAIN messages[i] /\ n \in DOMAIN messages[i]
      BY <1>3, <2>2, Appended DEF InquiriesInv, Kept, RequestsNeverCollide
    <2>3. CASE j = i /\ k \notin DOMAIN messages[i]
      <3>1. messages'[j][k] = m /\ n \in DOMAIN messages[i]
        BY <1>3, <2>3, Appended
      <3>2. messages'[j][n] = messages[i][n]
        BY <2>3, <3>1, Appended
      <3> QED BY <1>3, <3>1, <3>2 DEF Sent
    <2>4. CASE j = i /\ n \notin DOMAIN messages[i]
      <3>1. messages'[j][n] = m /\ k \in DOMAIN messages[i]
        BY <1>3, <2>4, Appended
      <3>2. messages'[j][k] = messages[i][k]
        BY <2>4, <3>1, Appended
      <3> QED BY <1>3, <3>1, <3>2 DEF Sent
    <2> QED BY <2>1, <2>2, <2>3, <2>4
  <1> QED BY <1>2, <1>3

LEMMA OutcomeRow ==
  ASSUME NEW w, Updating(w), w.copy \in Row
  PROVE  /\ Outcome(w) \in Row
         /\ Outcome(w).user = w.copy.user /\ Outcome(w).property = w.copy.property
         /\ Outcome(w).request = w.copy.request
         /\ Outcome(w).version = w.copy.version
         /\ Outcome(w).status # "none"
         /\ Outcome(w).status = "viewing_confirmed" =>
              Outcome(w).viewing = w.copy.viewing
  <1>1. CASE w.action = "reply"
    BY <1>1 DEF Updating, Outcome, Row, Unended
  <1>2. CASE w.action = "propose"
    BY <1>2 DEF Updating, Outcome, Row, Unended
  <1>3. CASE w.action = "confirm"
    BY <1>3 DEF Updating, Outcome, Row, Unended
  <1>4. CASE w.action = "decline"
    BY <1>4 DEF Updating, Outcome, Row, Unended
  <1>5. CASE w.action = "close"
    BY <1>5 DEF Updating, Outcome, Row, Unended, Ended
  <1>6. CASE w.action = "withdraw"
    BY <1>6 DEF Updating, Outcome, Row, Unended, Ended
  <1> QED
    BY <1>1, <1>2, <1>3, <1>4, <1>5, <1>6 DEF Updating, Actions, OwnerActions

\* What the commit of an update writes.
LEMMA Updated ==
  ASSUME InquiriesInv, NEW s \in Sessions, UpdateCommit(s)
  PROVE  /\ work[s].row \in Inquiries /\ Holds(work[s]) /\ Updating(work[s])
         /\ \A j \in Inquiries \ {work[s].row} : inquiry'[j] = inquiry[j]
         /\ inquiry' \in [Inquiries -> Row]
         /\ LET i == work[s].row IN
            /\ inquiry[i].status \in Unended /\ inquiry'[i].status # "none"
            /\ inquiry'[i].user = inquiry[i].user
            /\ inquiry'[i].property = inquiry[i].property
            /\ inquiry'[i].request = inquiry[i].request
            /\ inquiry[i].version \in Nat
            /\ inquiry'[i].version = inquiry[i].version + 1
            /\ inquiry'[i].status = "viewing_confirmed" =>
                 inquiry'[i].viewing = inquiry[i].viewing
  <1>1. PICK w : w = work[s]
    OBVIOUS
  <1>2. w.op = "update" /\ Found(w)
    BY <1>1 DEF UpdateCommit, InquiriesInv, WorkOK
  <1>3. Updating(w) /\ Holds(w) /\ w.row \in Inquiries
    BY <1>2 DEF Found, Holds
  <1>4. w.copy = inquiry[w.row] /\ w.copy \in Row /\ w.copy.status \in Unended
    BY <1>3 DEF Updating, InquiriesInv, RowsOK
  <1>5. PICK v : v = Outcome(w)
    OBVIOUS
  <1>6. /\ v \in Row /\ v.user = w.copy.user /\ v.property = w.copy.property
        /\ v.request = w.copy.request /\ v.version = w.copy.version
        /\ v.status # "none"
        /\ v.status = "viewing_confirmed" => v.viewing = w.copy.viewing
    BY <1>3, <1>4, <1>5, OutcomeRow
  <1>7. PICK x : x = [v EXCEPT !.version = v.version + 1]
    OBVIOUS
  <1>8. /\ x \in Row /\ x.user = v.user /\ x.property = v.property
        /\ x.request = v.request /\ x.status = v.status /\ x.viewing = v.viewing
        /\ x.version = v.version + 1 /\ v.version \in Nat
    BY <1>6, <1>7 DEF Row
  <1>9. inquiry' = [inquiry EXCEPT ![w.row] = x]
    BY <1>1, <1>5, <1>6, <1>7 DEF UpdateCommit, Row
  <1>10. /\ inquiry'[w.row] = x /\ inquiry' \in [Inquiries -> Row]
         /\ \A j \in Inquiries \ {w.row} : inquiry'[j] = inquiry[j]
    BY <1>3, <1>8, <1>9 DEF InquiriesInv, RowsOK
  <1> QED BY <1>1, <1>3, <1>4, <1>6, <1>8, <1>10

LEMMA UpdateKeeps ==
  ASSUME InquiriesInv, NEW s \in Sessions, UpdateCommit(s)
  PROVE  InquiriesInv'
  <1> PICK i : i = work[s].row
    OBVIOUS
  <1>1. /\ i \in Inquiries /\ Holds(work[s])
        /\ \A j \in Inquiries \ {i} : inquiry'[j] = inquiry[j]
        /\ inquiry' \in [Inquiries -> Row]
        /\ inquiry[i].status \in Unended /\ inquiry'[i].status # "none"
        /\ inquiry'[i].user = inquiry[i].user
        /\ inquiry'[i].property = inquiry[i].property
        /\ inquiry'[i].request = inquiry[i].request
        /\ inquiry[i].version \in Nat /\ inquiry'[i].version = inquiry[i].version + 1
    BY Updated
  <1>2. inquiry[i].status \notin Ended \cup {"none"}
    BY <1>1 DEF Unended, Ended
  <1>3. UNCHANGED <<screen, reminders>> /\ Finish(s)
    BY DEF UpdateCommit
  <1>4. PICK m : m = [from |-> work[s].user, request |-> None, read |-> FALSE]
    OBVIOUS
  <1>5. work[s].user \in People
    BY Updated DEF Updating
  <1>6. m \in Message /\ m.request = None /\ ~m.read
    BY <1>4, <1>5 DEF Message
  <1>7. messages' = [messages EXCEPT ![i] = Append(@, m)]
    BY <1>4 DEF UpdateCommit, Write
  <1>8. LocksApart' /\ WorkOK'
    BY <1>1, <1>3, <1>6, <1>7, Appended, HolderWrites
  <1>9. \A j \in Inquiries : inquiry'[j].user = inquiry[j].user
    BY <1>1
  <1>10. RowsOK' /\ RemindersOK'
    BY <1>1, <1>2, <1>3 DEF InquiriesInv, RowsOK, RemindersOK
  <1>11. MessagesOK'
    <2>1. /\ messages' \in [Inquiries -> Seq(Message)]
          /\ \A j \in Inquiries \ {i} : messages'[j] = messages[j]
      BY <1>1, <1>6, <1>7, Appended
    <2> QED BY <1>1, <2>1 DEF InquiriesInv, MessagesOK
  <1>12. ScreensOK'
    <2>1. \A j \in Inquiries : Len(messages[j]) \in Nat /\ Len(messages'[j]) \in Nat
            /\ Len(messages'[j]) >= Len(messages[j])
      BY <1>1, <1>6, <1>7, LongerMessages
    <2>2. \A j \in Inquiries : inquiry[j].version \in Nat
      BY DEF InquiriesInv, RowsOK, Row
    <2>3. \A u \in People, j \in Inquiries :
            screen[u][j].version \in Nat /\ screen[u][j].shown \in Nat
      BY DEF InquiriesInv, ScreensOK, View
    <2>4. ASSUME NEW u \in People, NEW j \in Inquiries
          PROVE  /\ screen[u][j].version <= inquiry'[j].version
                 /\ screen[u][j].version = inquiry'[j].version =>
                      screen[u][j].viewing = inquiry'[j].viewing
                 /\ screen[u][j].shown <= Len(messages'[j])
      <3>1. /\ screen[u][j].version <= inquiry[j].version
            /\ screen[u][j].version = inquiry[j].version =>
                 screen[u][j].viewing = inquiry[j].viewing
            /\ screen[u][j].shown <= Len(messages[j])
        BY DEF InquiriesInv, ScreensOK
      <3>2. CASE j # i
        BY <1>1, <2>1, <2>3, <3>1, <3>2
      <3>3. CASE j = i
        <4>1. inquiry'[j].version = inquiry[j].version + 1
          BY <1>1, <3>3
        <4>2. /\ screen[u][j].version \in Nat /\ inquiry[j].version \in Nat
              /\ screen[u][j].version <= inquiry[j].version
          BY <2>2, <2>3, <3>1
        <4>3. /\ screen[u][j].version <= inquiry'[j].version
              /\ screen[u][j].version # inquiry'[j].version
          BY <4>1, <4>2
        <4>4. screen[u][j].shown <= Len(messages'[j])
          BY <2>1, <2>3, <3>1
        <4> QED BY <4>3, <4>4
      <3> QED BY <3>2, <3>3
    <2> QED
      BY <1>3, <2>4 DEF InquiriesInv, ScreensOK
  <1>13. OneActiveInquiry' /\ RemindedOnce'
    <2>1. \A j \in Inquiries :
            /\ inquiry'[j].user = inquiry[j].user
            /\ inquiry'[j].property = inquiry[j].property
            /\ inquiry[j].status \in Ended \cup {"none"} =>
                 inquiry'[j].status = inquiry[j].status
      BY <1>1, <1>2
    <2>2. OneActiveInquiry'
      <3> SUFFICES ASSUME NEW j \in Inquiries, NEW k \in Inquiries, j # k,
                          inquiry'[j].status \notin Ended \cup {"none"},
                          inquiry'[k].status \notin Ended \cup {"none"}
                   PROVE  \/ inquiry'[j].user # inquiry'[k].user
                          \/ inquiry'[j].property # inquiry'[k].property
        BY DEF OneActiveInquiry
      <3>1. /\ inquiry[j].status \notin Ended \cup {"none"}
            /\ inquiry[k].status \notin Ended \cup {"none"}
        BY <2>1
      <3>2. {inquiry[j].status, inquiry[k].status} \cap (Ended \cup {"none"}) = {}
        BY <3>1
      <3> QED BY <2>1, <3>2 DEF InquiriesInv, Kept, OneActiveInquiry
    <2> QED BY <1>3, <2>2 DEF InquiriesInv, Kept, RemindedOnce
  <1>14. RequestsNeverCollide' /\ ReadWasShown'
    <2>1. \A j \in Inquiries :
            /\ inquiry'[j].user = inquiry[j].user
            /\ inquiry'[j].request = inquiry[j].request
            /\ inquiry'[j].status # "none" => inquiry[j].status # "none"
      BY <1>1, <1>2
    <2>2. \A j, k \in Inquiries :
            j # k /\ inquiry'[j].status # "none" =>
              <<inquiry'[j].user, inquiry'[j].request>>
              # <<inquiry'[k].user, inquiry'[k].request>>
      BY <2>1 DEF InquiriesInv, Kept, RequestsNeverCollide
    <2>3. ReadWasShown'
      BY <1>1, <1>3, <1>6, <1>7, <1>9, AppendKeeps
    <2>4. \A j \in Inquiries : \A k, n \in DOMAIN messages'[j] :
              k # n /\ messages'[j][k].request # None =>
                \/ messages'[j][k].from # messages'[j][n].from
                \/ messages'[j][k].request # messages'[j][n].request
      BY <1>1, <1>3, <1>6, <1>7, <1>9, AppendKeeps
    <2> QED
      BY <2>2, <2>3, <2>4 DEF RequestsNeverCollide
  <1> QED
    BY <1>8, <1>10, <1>11, <1>12, <1>13, <1>14 DEF InquiriesInv, Kept

LEMMA SendKeeps ==
  ASSUME InquiriesInv, NEW s \in Sessions, SendCommit(s)
  PROVE  InquiriesInv'
  <1>1. PICK w : w = work[s]
    OBVIOUS
  <1>2. w.op = "send" /\ Found(w)
    BY <1>1 DEF SendCommit, InquiriesInv, WorkOK
  <1>3. Sending(w) /\ Holds(w) /\ w.row \in Inquiries
    BY <1>2 DEF Found, Holds
  <1>4. PICK i : i = w.row
    OBVIOUS
  <1>5. PICK m : m = [from |-> w.user, request |-> w.request, read |-> FALSE]
    OBVIOUS
  <1>6. m \in Message /\ ~m.read /\ ~Sent(i, m.from, m.request)
    BY <1>3, <1>4, <1>5 DEF Message, Sending
  <1>7. messages' = [messages EXCEPT ![i] = Append(@, m)]
    BY <1>1, <1>4, <1>5 DEF SendCommit, Write
  <1>8. UNCHANGED <<inquiry, screen, reminders>> /\ Finish(s)
    BY DEF SendCommit
  <1>9. i \in Inquiries /\ Holds(work[s]) /\ work[s].row = i
        /\ inquiry[i].status \in Unended
    BY <1>1, <1>3, <1>4 DEF Sending
  <1>10. LocksApart' /\ WorkOK'
    BY <1>6, <1>7, <1>8, <1>9, Appended, HolderWrites
  <1>11. RowsOK' /\ RemindersOK' /\ OneActiveInquiry' /\ RemindedOnce'
    BY <1>8 DEF InquiriesInv, RowsOK, RemindersOK, Kept, OneActiveInquiry, RemindedOnce
  <1>12. MessagesOK'
    <2>1. /\ messages' \in [Inquiries -> Seq(Message)]
          /\ \A j \in Inquiries \ {i} : messages'[j] = messages[j]
      BY <1>6, <1>7, <1>9, Appended
    <2> QED BY <1>8, <1>9, <2>1 DEF InquiriesInv, MessagesOK, Unended
  <1>13. ScreensOK'
    <2>1. \A j \in Inquiries : Len(messages[j]) \in Nat /\ Len(messages'[j]) \in Nat
            /\ Len(messages'[j]) >= Len(messages[j])
      BY <1>6, <1>7, <1>9, LongerMessages
    <2> QED
      BY <1>8, <2>1 DEF InquiriesInv, ScreensOK, View
  <1>14. ReadWasShown'
    BY <1>6, <1>7, <1>8, <1>9, AppendKeeps
  <1>15. \A j \in Inquiries : \A k, n \in DOMAIN messages'[j] :
           k # n /\ messages'[j][k].request # None =>
             \/ messages'[j][k].from # messages'[j][n].from
             \/ messages'[j][k].request # messages'[j][n].request
    BY <1>6, <1>7, <1>8, <1>9, AppendKeeps
  <1>16. RequestsNeverCollide'
    BY <1>8, <1>15 DEF InquiriesInv, Kept, RequestsNeverCollide
  <1> QED
    BY <1>10, <1>11, <1>12, <1>13, <1>14, <1>16 DEF InquiriesInv, Kept

\* Only messages that the reader's client shows become read.
LEMMA ReadKeeps ==
  ASSUME InquiriesInv, NEW s \in Sessions, ReadCommit(s)
  PROVE  InquiriesInv'
  <1>1. PICK w : w = work[s]
    OBVIOUS
  <1>2. w.op = "read" /\ Found(w)
    BY <1>1 DEF ReadCommit, InquiriesInv, WorkOK
  <1>3. Reading(w) /\ Holds(w) /\ w.row \in Inquiries
    BY <1>2 DEF Found, Holds
  <1>4. PICK i : i = w.row
    OBVIOUS
  <1>5. PICK g : g = [n \in DOMAIN messages[i] |->
          IF n \in w.ids /\ messages[i][n].from # w.user
          THEN [messages[i][n] EXCEPT !.read = TRUE] ELSE messages[i][n]]
    OBVIOUS
  <1>6. messages' = [messages EXCEPT ![i] = g]
    <2>1. i \in DOMAIN messages
      BY <1>3, <1>4 DEF InquiriesInv, MessagesOK
    <2> QED BY <1>1, <1>4, <1>5, <2>1 DEF ReadCommit, Listed
  <1>7. messages[i] \in Seq(Message)
    BY <1>3, <1>4 DEF InquiriesInv, MessagesOK
  <1>8. /\ Len(messages[i]) \in Nat /\ DOMAIN messages[i] = 1..Len(messages[i])
        /\ \A n \in DOMAIN messages[i] : messages[i][n] \in Message
    BY <1>7
  <1>9. /\ DOMAIN g = 1..Len(messages[i])
        /\ \A n \in DOMAIN g :
             /\ g[n] \in Message /\ g[n].from = messages[i][n].from
             /\ g[n].request = messages[i][n].request
             /\ g[n].read => \/ messages[i][n].read
                             \/ n \in w.ids /\ messages[i][n].from # w.user
    BY <1>5, <1>8 DEF Message
  <1>10. g \in [1..Len(messages[i]) -> Message]
    BY <1>5, <1>9
  <1>11. g \in Seq(Message) /\ Len(g) = Len(messages[i])
    BY <1>8, <1>10
  <1>12. /\ messages' \in [Inquiries -> Seq(Message)] /\ messages'[i] = g
         /\ \A j \in Inquiries \ {i} : messages'[j] = messages[j]
    BY <1>3, <1>4, <1>6, <1>11 DEF InquiriesInv, MessagesOK
  <1>13. UNCHANGED <<inquiry, screen, reminders>> /\ Finish(s)
    BY DEF ReadCommit
  <1>14. i \in Inquiries /\ Holds(work[s]) /\ work[s].row = i
         /\ inquiry[i].status # "none"
    BY <1>1, <1>2, <1>3, <1>4 DEF Found
  <1>15. LocksApart' /\ WorkOK'
    BY <1>12, <1>13, <1>14, HolderWrites
  <1>16. RowsOK' /\ RemindersOK' /\ OneActiveInquiry' /\ RemindedOnce'
    BY <1>13 DEF InquiriesInv, RowsOK, RemindersOK, Kept, OneActiveInquiry,
       RemindedOnce
  <1>17. MessagesOK'
    BY <1>12, <1>13, <1>14 DEF InquiriesInv, MessagesOK
  <1>18. ScreensOK'
    BY <1>11, <1>12, <1>13 DEF InquiriesInv, ScreensOK
  <1>19. RequestsNeverCollide'
    <2>1. ASSUME NEW j \in Inquiries, NEW k \in DOMAIN messages'[j],
                 NEW n \in DOMAIN messages'[j]
          PROVE  /\ k \in DOMAIN messages[j] /\ n \in DOMAIN messages[j]
                 /\ messages'[j][k].from = messages[j][k].from
                 /\ messages'[j][n].from = messages[j][n].from
                 /\ messages'[j][k].request = messages[j][k].request
                 /\ messages'[j][n].request = messages[j][n].request
      BY <1>8, <1>9, <1>12
    <2> QED
      BY <1>13, <2>1 DEF InquiriesInv, Kept, RequestsNeverCollide
  <1>20. ReadWasShown'
    <2> SUFFICES ASSUME NEW j \in Inquiries, NEW n \in DOMAIN messages'[j],
                        messages'[j][n].read
                 PROVE  \E u \in Participants(j) \ {messages'[j][n].from} :
                          n <= screen[u][j].shown
      BY <1>13 DEF ReadWasShown, Participants
    <2>1. CASE j # i \/ messages[j][n].read
      <3>1. messages'[j][n].from = messages[j][n].from /\ messages[j][n].read
            /\ n \in DOMAIN messages[j]
        BY <1>8, <1>9, <1>12, <2>1
      <3> QED BY <3>1 DEF InquiriesInv, Kept, ReadWasShown
    <2>2. CASE j = i /\ n \in w.ids /\ messages[i][n].from # w.user
      <3>1. messages'[j][n].from = messages[i][n].from
        BY <1>9, <1>12, <2>2
      <3> QED BY <1>3, <1>4, <2>2, <3>1 DEF Reading
    <2> QED BY <1>9, <1>12, <2>1, <2>2
  <1> QED
    BY <1>15, <1>16, <1>17, <1>18, <1>19, <1>20 DEF InquiriesInv, Kept

LEMMA RemindKeeps ==
  ASSUME InquiriesInv, NEW s \in Sessions, RemindCommit(s)
  PROVE  InquiriesInv'
  <1>1. PICK w : w = work[s]
    OBVIOUS
  <1>2. w.op = "remind" /\ Found(w)
    BY <1>1 DEF RemindCommit, InquiriesInv, WorkOK
  <1>3. Reminding(w) /\ Holds(w) /\ w.row \in Inquiries
    BY <1>2 DEF Found, Holds
  <1>4. PICK i : i = w.row
    OBVIOUS
  <1>5. reminders[i] \in [People -> [Times -> Nat]]
    BY <1>3, <1>4 DEF InquiriesInv, RemindersOK
  <1>6. PICK g : g = [u \in People |-> [t \in Times |->
          IF u \in w.todo /\ t = w.viewing THEN reminders[i][u][t] + 1
          ELSE reminders[i][u][t]]]
    OBVIOUS
  <1>7. reminders' = [reminders EXCEPT ![i] = g]
    <2>1. i \in DOMAIN reminders
      BY <1>3, <1>4 DEF InquiriesInv, RemindersOK
    <2> QED BY <1>1, <1>4, <1>6, <2>1 DEF RemindCommit
  <1>8. ASSUME NEW u \in People, NEW t \in Times
        PROVE  /\ g[u][t] \in Nat
               /\ \/ g[u][t] = reminders[i][u][t]
                  \/ reminders[i][u][t] = 0 /\ g[u][t] = 1
    BY <1>3, <1>4, <1>5, <1>6 DEF Reminding
  <1>9. g \in [People -> [Times -> Nat]]
    BY <1>6, <1>8
  <1>10. /\ reminders' \in [Inquiries -> [People -> [Times -> Nat]]]
         /\ reminders'[i] = g
         /\ \A j \in Inquiries \ {i} : reminders'[j] = reminders[j]
    BY <1>3, <1>4, <1>7, <1>9 DEF InquiriesInv, RemindersOK
  <1>11. UNCHANGED <<inquiry, messages, screen>> /\ Finish(s)
    BY DEF RemindCommit
  <1>12. i \in Inquiries /\ Holds(work[s]) /\ work[s].row = i
    BY <1>1, <1>3, <1>4
  <1>13. LocksApart' /\ WorkOK'
    BY <1>10, <1>11, <1>12, HolderWrites
  <1>14. RowsOK' /\ MessagesOK' /\ ScreensOK' /\ RemindersOK'
    BY <1>10, <1>11 DEF InquiriesInv, RowsOK, MessagesOK, ScreensOK, RemindersOK
  <1>15. OneActiveInquiry' /\ RequestsNeverCollide'
    BY <1>11 DEF InquiriesInv, Kept, OneActiveInquiry, RequestsNeverCollide
  <1>16. ReadWasShown'
    BY <1>11 DEF InquiriesInv, Kept, ReadWasShown, Participants
  <1>17. RemindedOnce'
    BY <1>8, <1>10 DEF InquiriesInv, Kept, RemindedOnce
  <1> QED
    BY <1>13, <1>14, <1>15, <1>16, <1>17 DEF InquiriesInv, Kept

\* A new inquiry takes a free row; nobody holds it, and the account's lock keeps
\* it the only one of its request and, while it is open, of its property.
LEMMA CreateKeeps ==
  ASSUME InquiriesInv, NEW s \in Sessions, CreateCommit(s)
  PROVE  InquiriesInv'
  <1>1. PICK w : w = work[s]
    OBVIOUS
  <1>2. w.op = "create" /\ Found(w)
    BY <1>1 DEF CreateCommit, InquiriesInv, WorkOK
  <1>3. Creating(w)
    BY <1>2 DEF Found
  <1>4. PICK x : x = [status |-> "open", user |-> w.user, property |-> w.property,
                      request |-> w.request, viewing |-> None, version |-> 1]
    OBVIOUS
  <1>5. PICK m : m = [from |-> w.user, request |-> None, read |-> FALSE]
    OBVIOUS
  <1>6. PICK i \in Inquiries : /\ inquiry[i].status = "none"
                               /\ inquiry' = [inquiry EXCEPT ![i] = x]
                               /\ messages' = [messages EXCEPT ![i] = <<m>>]
    BY <1>1, <1>4, <1>5 DEF CreateCommit
  <1>7. /\ x \in Row /\ x.user = w.user /\ x.property = w.property
        /\ x.request = w.request /\ x.status = "open" /\ x.version = 1
        /\ w.user \in Visitors
    BY <1>3, <1>4 DEF Creating, Row, Unended
  <1>8. m \in Message /\ ~m.read
    BY <1>5, <1>7 DEF Message, People
  <1>9. /\ inquiry' \in [Inquiries -> Row] /\ inquiry'[i] = x
        /\ \A j \in Inquiries \ {i} : inquiry'[j] = inquiry[j]
    BY <1>6, <1>7 DEF InquiriesInv, RowsOK
  <1>10. /\ <<m>> \in Seq(Message) /\ Len(<<m>>) = 1
         /\ \A n \in DOMAIN <<m>> : n = 1 /\ <<m>>[n] = m
    BY <1>8
  <1>11. /\ messages' \in [Inquiries -> Seq(Message)] /\ messages'[i] = <<m>>
         /\ \A j \in Inquiries \ {i} : messages'[j] = messages[j]
    BY <1>6, <1>10 DEF InquiriesInv, MessagesOK
  <1>12. UNCHANGED <<screen, reminders>> /\ Finish(s)
    BY DEF CreateCommit
  <1>13. \A j \in Inquiries : inquiry[j].user # w.user \/ inquiry[j].request # w.request
    BY <1>3 DEF Creating, Earlier
  <1>14. \A j \in Inquiries : \/ inquiry[j].user # w.user
                              \/ inquiry[j].property # w.property
                              \/ inquiry[j].status \in Ended
    BY <1>1 DEF CreateCommit, Active
  <1>15. LocksApart' /\ WorkOK'
    <2>1. LocksApart' /\ Found(work[s])' /\ \A t \in Sessions \ {s} : work'[t] = work[t]
      BY <1>12, Finishes
    <2>2. ASSUME NEW t \in Sessions \ {s} PROVE Found(work[t])'
      <3>1. Found(work[t]) /\ work'[t] = work[t] /\ t \in Sessions
        BY <2>1 DEF InquiriesInv, WorkOK
      <3>2. Holds(work[t]) => work[t].row # i
        BY <1>6, <3>1 DEF Found
      <3>3. work[t].op = "create" => inquiry'[i].user # work[t].user
        BY <1>1, <1>2, <1>7, <1>9 DEF InquiriesInv, LocksApart
      <3>4. /\ screen' = screen
            /\ \A j \in Inquiries \ {i} :
                 /\ inquiry'[j] = inquiry[j] /\ messages'[j] = messages[j]
                 /\ reminders'[j] = reminders[j]
        BY <1>9, <1>11, <1>12
      <3> QED BY <3>1, <3>2, <3>3, <3>4, OthersFound
    <2> QED BY <2>1, <2>2 DEF WorkOK
  <1>16. RowsOK' /\ RemindersOK'
    BY <1>7, <1>9, <1>12 DEF InquiriesInv, RowsOK, RemindersOK
  <1>17. MessagesOK'
    BY <1>7, <1>9, <1>11 DEF InquiriesInv, MessagesOK
  <1>18. ScreensOK'
    <2>1. ASSUME NEW u \in People, NEW j \in Inquiries
          PROVE  /\ screen[u][j].version <= inquiry'[j].version
                 /\ screen[u][j].version = inquiry'[j].version =>
                      screen[u][j].viewing = inquiry'[j].viewing
                 /\ screen[u][j].shown <= Len(messages'[j])
      <3>1. /\ screen[u][j].version <= inquiry[j].version
            /\ screen[u][j].version = inquiry[j].version =>
                 screen[u][j].viewing = inquiry[j].viewing
            /\ screen[u][j].shown <= Len(messages[j])
            /\ screen[u][j].version \in Nat /\ screen[u][j].shown \in Nat
        BY DEF InquiriesInv, ScreensOK, View
      <3>2. CASE j # i
        BY <1>9, <1>11, <3>1, <3>2
      <3>3. CASE j = i
        <4>1. messages[i] = <<>> /\ inquiry[i].version = 0
          BY <1>6 DEF InquiriesInv, MessagesOK, RowsOK
        <4>2. screen[u][j].version = 0 /\ screen[u][j].shown = 0
          BY <3>1, <3>3, <4>1
        <4> QED BY <1>7, <1>9, <1>10, <1>11, <3>3, <4>2
      <3> QED BY <3>2, <3>3
    <2> QED BY <1>12, <2>1 DEF InquiriesInv, ScreensOK
  <1>19. OneActiveInquiry'
    <2> SUFFICES ASSUME NEW j \in Inquiries, NEW k \in Inquiries, j # k,
                        inquiry'[j].status \notin Ended \cup {"none"},
                        inquiry'[k].status \notin Ended \cup {"none"}
                 PROVE  \/ inquiry'[j].user # inquiry'[k].user
                        \/ inquiry'[j].property # inquiry'[k].property
      BY DEF OneActiveInquiry
    <2>1. CASE j # i /\ k # i
      <3>1. {inquiry[j].status, inquiry[k].status} \cap (Ended \cup {"none"}) = {}
        BY <1>9, <2>1
      <3> QED BY <1>9, <2>1, <3>1 DEF InquiriesInv, Kept, OneActiveInquiry
    <2>2. CASE j = i
      <3>1. inquiry'[k] = inquiry[k]
        BY <1>9, <2>2
      <3> QED BY <1>7, <1>9, <1>14, <2>2, <3>1
    <2>3. CASE k = i
      <3>1. inquiry'[j] = inquiry[j]
        BY <1>9, <2>3
      <3> QED BY <1>7, <1>9, <1>14, <2>3, <3>1
    <2> QED BY <2>1, <2>2, <2>3
  <1>20. RequestsNeverCollide'
    <2>1. \A j, k \in Inquiries :
            j # k /\ inquiry'[j].status # "none" =>
              <<inquiry'[j].user, inquiry'[j].request>>
              # <<inquiry'[k].user, inquiry'[k].request>>
      BY <1>7, <1>9, <1>13 DEF InquiriesInv, Kept, RequestsNeverCollide
    <2>2. \A j \in Inquiries : \A k, n \in DOMAIN messages'[j] :
            k # n /\ messages'[j][k].request # None =>
              \/ messages'[j][k].from # messages'[j][n].from
              \/ messages'[j][k].request # messages'[j][n].request
      BY <1>10, <1>11 DEF InquiriesInv, Kept, RequestsNeverCollide
    <2> QED BY <2>1, <2>2 DEF RequestsNeverCollide
  <1>21. ReadWasShown'
    <2> SUFFICES ASSUME NEW j \in Inquiries, NEW n \in DOMAIN messages'[j],
                        messages'[j][n].read
                 PROVE  \E u \in Participants(j)' \ {messages'[j][n].from} :
                          n <= screen'[u][j].shown
      BY DEF ReadWasShown
    <2>1. j # i
      BY <1>8, <1>10, <1>11
    <2> QED
      BY <1>9, <1>11, <1>12, <2>1 DEF InquiriesInv, Kept, ReadWasShown, Participants
  <1>22. RemindedOnce'
    BY <1>12 DEF InquiriesInv, Kept, RemindedOnce
  <1> QED
    BY <1>15, <1>16, <1>17, <1>18, <1>19, <1>20, <1>21, <1>22 DEF InquiriesInv, Kept

LEMMA InquiriesStep == ASSUME InquiriesInv, Next PROVE InquiriesInv'
  <1>1. CASE Tick \/ \E u \in People : SetPreference(u)
    <2>1. UNCHANGED <<inquiry, messages, reminders, screen, work>>
      BY <1>1 DEF Tick, SetPreference
    <2> QED BY <2>1, RestKeeps
  <1>2. CASE \E u \in People, i \in Inquiries : Open(u, i)
    BY <1>2, OpenKeeps
  <1>3. ASSUME NEW s \in Sessions,
               \/ CreateCommit(s) \/ CreateRefuse(s) \/ UpdateCommit(s)
               \/ SendCommit(s) \/ ReadCommit(s) \/ RemindCommit(s)
        PROVE  InquiriesInv'
    BY <1>3, CreateKeeps, RefuseKeeps, UpdateKeeps, SendKeeps, ReadKeeps, RemindKeeps
  <1>4. ASSUME NEW s \in Sessions, NEW u \in Visitors, NEW p \in Properties,
               NEW r \in Requests, CreateLock(s, u, p, r)
        PROVE  InquiriesInv'
    BY <1>4, CreateBegins
  <1>5. ASSUME NEW s \in Sessions, NEW i \in Inquiries, NEW u \in People,
               \/ RemindLock(s, i) \/ ReadLock(s, u, i)
               \/ \E r \in Requests : SendLock(s, u, i, r)
               \/ \E a \in Actions, t \in Times \cup {None} : UpdateLock(s, u, i, a, t)
        PROVE  InquiriesInv'
    BY <1>5, RemindBegins, ReadBegins, SendBegins, UpdateBegins
  <1>6. ASSUME NEW s \in Sessions, NEW i \in Inquiries, RemindLock(s, i)
        PROVE  InquiriesInv'
    BY <1>6, RemindBegins
  <1> QED BY <1>1, <1>2, <1>3, <1>4, <1>5, <1>6 DEF Next

-----------------------------------------------------------------------------
(* What no step does. *)

\* Inquiries and messages are written by commits.
LEMMA Writes ==
  ASSUME Next
  PROVE  \/ UNCHANGED <<inquiry, messages>>
         \/ \E s \in Sessions :
              CreateCommit(s) \/ UpdateCommit(s) \/ SendCommit(s) \/ ReadCommit(s)
  <1>1. ASSUME NEW s \in Sessions, NEW i, NEW w, Load(s, i, w)
        PROVE  UNCHANGED <<inquiry, messages>>
    BY <1>1 DEF Load
  <1>2. ASSUME NEW s \in Sessions, NEW i, NEW u,
               \/ RemindLock(s, i) \/ ReadLock(s, u, i) \/ \E r : SendLock(s, u, i, r)
               \/ \E a, t : UpdateLock(s, u, i, a, t)
        PROVE  UNCHANGED <<inquiry, messages>>
    BY <1>1, <1>2 DEF RemindLock, ReadLock, SendLock, UpdateLock
  <1>3. ASSUME Tick \/ (\E u : SetPreference(u) \/ \E i : Open(u, i))
        PROVE  UNCHANGED <<inquiry, messages>>
    BY <1>3 DEF Tick, SetPreference, Open
  <1>4. ASSUME NEW s \in Sessions,
               \/ CreateRefuse(s) \/ RemindCommit(s)
               \/ \E u, p, r : CreateLock(s, u, p, r)
        PROVE  UNCHANGED <<inquiry, messages>>
    BY <1>4 DEF CreateRefuse, RemindCommit, CreateLock
  <1> QED BY <1>2, <1>3, <1>4 DEF Next

\* Who writes an inquiry that exists, or its messages, holds it.
LEMMA Writers ==
  ASSUME InquiriesInv, Next, NEW i \in Inquiries, inquiry[i].status # "none"
  PROVE  \/ inquiry'[i] = inquiry[i] /\ Len(messages'[i]) = Len(messages[i])
         \/ \E s \in Sessions : UpdateCommit(s) /\ work[s].row = i
         \/ \E s \in Sessions : SendCommit(s) /\ work[s].row = i
  <1>1. CASE UNCHANGED <<inquiry, messages>>
    BY <1>1
  <1>2. ASSUME NEW s \in Sessions, CreateCommit(s)
        PROVE  inquiry'[i] = inquiry[i] /\ messages'[i] = messages[i]
    BY <1>2 DEF CreateCommit, InquiriesInv, RowsOK, MessagesOK
  <1>3. ASSUME NEW s \in Sessions, UpdateCommit(s), work[s].row # i
        PROVE  inquiry'[i] = inquiry[i] /\ messages'[i] = messages[i]
    BY <1>3 DEF UpdateCommit, Write, InquiriesInv, RowsOK, MessagesOK
  <1>4. ASSUME NEW s \in Sessions, SendCommit(s), work[s].row # i
        PROVE  inquiry'[i] = inquiry[i] /\ messages'[i] = messages[i]
    BY <1>4 DEF SendCommit, Write, InquiriesInv, RowsOK, MessagesOK
  <1>5. ASSUME NEW s \in Sessions, ReadCommit(s)
        PROVE  inquiry'[i] = inquiry[i] /\ Len(messages'[i]) = Len(messages[i])
    <2>1. inquiry' = inquiry
      BY <1>5 DEF ReadCommit
    <2>2. messages[i] \in Seq(Message)
      BY DEF InquiriesInv, MessagesOK
    <2>3. CASE work[s].row # i
      BY <1>5, <2>1, <2>3 DEF ReadCommit, InquiriesInv, MessagesOK
    <2>4. CASE work[s].row = i
      <3>1. PICK g : g = messages'[i]
        OBVIOUS
      <3>2. DOMAIN g = DOMAIN messages[i] /\ g = [n \in DOMAIN g |-> g[n]]
        BY <1>5, <2>4, <3>1 DEF ReadCommit, InquiriesInv, MessagesOK
      <3>3. /\ DOMAIN g = 1..Len(messages[i]) /\ Len(messages[i]) \in Nat
            /\ g \in [1..Len(messages[i]) -> {g[n] : n \in 1..Len(messages[i])}]
        BY <2>2, <3>2
      <3>4. g \in Seq({g[n] : n \in 1..Len(messages[i])}) /\ Len(g) = Len(messages[i])
        BY <3>3
      <3> QED BY <2>1, <3>1, <3>4
    <2> QED BY <2>3, <2>4
  <1> QED BY <1>1, <1>2, <1>3, <1>4, <1>5, Writes

LEMMA ViewingWasShown == ASSUME InquiriesInv, Next PROVE ViewingShown
  <1> SUFFICES ASSUME NEW i \in Inquiries, inquiry'[i].status = "viewing_confirmed",
                      inquiry[i].status # "viewing_confirmed"
               PROVE  \E s \in Sessions : /\ work[s].op = "update" /\ work[s].row = i
                                         /\ work[s].saw = inquiry'[i].viewing
    BY DEF ViewingShown
  <1>1. inquiry[i].status # "none"
    <2> SUFFICES ASSUME inquiry[i].status = "none" PROVE FALSE
      OBVIOUS
    <2>1. ASSUME NEW s \in Sessions, CreateCommit(s) PROVE FALSE
      BY <2>1 DEF CreateCommit, InquiriesInv, RowsOK
    <2>2. ASSUME NEW s \in Sessions, UpdateCommit(s) PROVE FALSE
      <3>1. work[s].row # i
        BY <2>2, Updated DEF Unended
      <3> QED BY <2>2, <3>1, Updated
    <2>3. inquiry' # inquiry
      OBVIOUS
    <2> QED BY <2>1, <2>2, <2>3, Writes DEF SendCommit, ReadCommit
  <1>2. PICK s \in Sessions : UpdateCommit(s) /\ work[s].row = i
    BY <1>1, Writers DEF SendCommit
  <1>3. Updating(work[s]) /\ inquiry'[i].viewing = inquiry[i].viewing
    BY <1>2, Updated
  <1> QED BY <1>2, <1>3 DEF Updating, UpdateCommit

LEMMA EndedWereUntouched == ASSUME InquiriesInv, Next PROVE EndedUntouched
  <1> SUFFICES ASSUME NEW i \in Inquiries, inquiry[i].status \in Ended
               PROVE  inquiry'[i] = inquiry[i] /\ Len(messages'[i]) = Len(messages[i])
    BY DEF EndedUntouched
  <1>1. inquiry[i].status \notin Unended \cup {"none"}
    BY DEF Ended, Unended
  <1>2. ~\E s \in Sessions : UpdateCommit(s) /\ work[s].row = i
    BY <1>1, Updated
  <1>3. ~\E s \in Sessions : SendCommit(s) /\ work[s].row = i
    BY <1>1 DEF SendCommit, InquiriesInv, WorkOK, Found, Sending
  <1> QED BY <1>1, <1>2, <1>3, Writers

=============================================================================
