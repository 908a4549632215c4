----------------------- MODULE HomesAndPeople_proofs -----------------------
(***************************************************************************)
(* Properties of the components around homes and people, for any number of   *)
(* calendars, accounts' rows, listings' reports and concurrent requests.     *)
(***************************************************************************)
EXTENDS HomesAndPeople, RentalAgreements_proofs, TLAPS, FiniteSetTheorems,
  SequenceTheorems

-----------------------------------------------------------------------------
(* Imported calendars. *)

CalendarsInv ==
  /\ owned = [x \in Sources |-> owned[x]]
  /\ Calendars!SourcesKeepApart

LEMMA CalendarsStart == Calendars!Init => CalendarsInv
  BY DEF Calendars!Init, CalendarsInv, Calendars!SourcesKeepApart, Calendars!Free

LEMMA CalendarsStill ==
  ASSUME CalendarsInv, UNCHANGED <<owned, blocks, stays>>
  PROVE  CalendarsInv'
  BY DEF CalendarsInv, Calendars!SourcesKeepApart, Calendars!Free

\* What is imported into a source is free of everything that is not its own.
LEMMA CalendarsApply ==
  ASSUME CalendarsInv, NEW x, NEW f, Calendars!Free(f, Calendars!Others(x)),
         owned' = [owned EXCEPT ![x] = f], UNCHANGED <<blocks, stays>>
  PROVE  CalendarsInv'
  <1>1. owned' = [y \in Sources |-> owned'[y]]
    BY DEF CalendarsInv
  <1>2. \A y \in Sources : owned'[y] = IF y = x THEN f ELSE owned[y]
    BY DEF CalendarsInv
  <1>3. /\ \A r \in f, q \in stays \cup blocks : ~Calendars!Meet(r, q)
        /\ \A y \in Sources \ {x} : \A r \in f, q \in owned[y] : ~Calendars!Meet(r, q)
    BY DEF Calendars!Free, Calendars!Others
  <1>4. \A r, q : Calendars!Meet(r, q) <=> Calendars!Meet(q, r)
    BY DEF Calendars!Meet
  <1> QED
    BY <1>1, <1>2, <1>3, <1>4
    DEF CalendarsInv, Calendars!SourcesKeepApart, Calendars!Free

\* What is booked or blocked is free of every source.
LEMMA CalendarsBook ==
  ASSUME CalendarsInv, NEW f,
         Calendars!Free(f, UNION {owned[x] : x \in Sources}),
         stays' \cup blocks' \subseteq stays \cup blocks \cup f, UNCHANGED owned
  PROVE  CalendarsInv'
  <1>1. \A r, q : Calendars!Meet(r, q) <=> Calendars!Meet(q, r)
    BY DEF Calendars!Meet
  <1>2. \A x \in Sources : \A r \in f, q \in owned[x] : ~Calendars!Meet(r, q)
    BY DEF Calendars!Free
  <1> QED
    BY <1>1, <1>2 DEF CalendarsInv, Calendars!SourcesKeepApart, Calendars!Free

LEMMA CalendarsConfigure ==
  ASSUME CalendarsInv, NEW x \in Sources, Calendars!Configure(x)
  PROVE  CalendarsInv'
  <1>1. ASSUME NEW empty \in BOOLEAN, Calendars!Connect(x, empty)
        PROVE  UNCHANGED <<owned, blocks, stays>>
    BY <1>1 DEF Calendars!Connect, Calendars!calendar
  <1>2. ASSUME Calendars!Resume(x) \/ Calendars!Refresh(x) \/ Calendars!Pause(x)
               \/ Calendars!Disconnect(x)
        PROVE  UNCHANGED <<owned, blocks, stays>>
    BY <1>2 DEF Calendars!Resume, Calendars!Refresh, Calendars!Pause,
       Calendars!Disconnect, Calendars!calendar
  <1>3. ASSUME NEW f \in Feeds, Calendars!Preview(x, f)
        PROVE  UNCHANGED <<owned, blocks, stays>>
    BY <1>3 DEF Calendars!Preview, Calendars!calendar
  <1>4. ASSUME Calendars!RemoveSource(x)
        PROVE  CalendarsInv'
    <2>1. Calendars!Free({}, Calendars!Others(x))
      BY DEF Calendars!Free
    <2>2. owned' = [owned EXCEPT ![x] = {}] /\ UNCHANGED <<blocks, stays>>
      BY <1>4 DEF Calendars!RemoveSource
    <2> QED BY <2>1, <2>2, CalendarsApply
  <1>5. ASSUME Calendars!Confirm(x)
        PROVE  CalendarsInv'
    <2>1. /\ Calendars!Free(preview[x].content, Calendars!Others(x))
          /\ owned' = [owned EXCEPT ![x] = preview[x].content]
          /\ UNCHANGED <<blocks, stays>>
      BY <1>5 DEF Calendars!Confirm
    <2> QED BY <2>1, CalendarsApply
  <1> QED
    BY <1>1, <1>2, <1>3, <1>4, <1>5, CalendarsStill DEF Calendars!Configure

LEMMA CalendarsBooked ==
  ASSUME CalendarsInv, Calendars!Book
  PROVE  CalendarsInv'
  <1> DEFINE all == UNION {owned[x] : x \in Sources}
  <1>1. ASSUME NEW f \in Feeds, Calendars!ImportPlain(f)
        PROVE  CalendarsInv'
    <2> DEFINE new == f \ (blocks \cup all)
    <2>1. Calendars!Free(new, all)
      BY <1>1 DEF Calendars!ImportPlain, Calendars!Free
    <2>2. /\ stays' \cup blocks' \subseteq stays \cup blocks \cup new
          /\ UNCHANGED owned
      BY <1>1 DEF Calendars!ImportPlain
    <2> QED BY <2>1, <2>2, CalendarsBook
  <1>2. ASSUME NEW r, Calendars!Occupy(r)
        PROVE  CalendarsInv'
    <2>1. Calendars!Free({r}, all)
      BY <1>2 DEF Calendars!Occupy, Calendars!Free
    <2>2. /\ stays' \cup blocks' \subseteq stays \cup blocks \cup {r}
          /\ UNCHANGED owned
      BY <1>2 DEF Calendars!Occupy
    <2> QED BY <2>1, <2>2, CalendarsBook
  <1>3. ASSUME NEW r, Calendars!Vacate(r)
        PROVE  CalendarsInv'
    <2>1. /\ stays' \subseteq stays /\ blocks' \subseteq blocks
          /\ owned' = [x \in Sources |-> owned[x] \ {r}]
      BY <1>3 DEF Calendars!Vacate
    <2> QED
      BY <2>1 DEF CalendarsInv, Calendars!SourcesKeepApart, Calendars!Free
  <1> QED BY <1>1, <1>2, <1>3 DEF Calendars!Book

LEMMA CalendarsWork ==
  ASSUME CalendarsInv, NEW w,
         Calendars!Fetch(w) \/ Calendars!Finish(w) \/ Calendars!Crash(w)
  PROVE  CalendarsInv'
  <1>1. CASE Calendars!FinishApply(w)
    <2> DEFINE x == job[w].source
               c == job[w].content
    <2>1. /\ Calendars!Free(c.ranges, Calendars!Others(x))
          /\ owned' = [owned EXCEPT ![x] = c.ranges]
          /\ UNCHANGED <<blocks, stays>>
      BY <1>1 DEF Calendars!FinishApply
    <2> HIDE DEF x, c
    <2> QED BY <2>1, CalendarsApply
  <1>2. CASE ~Calendars!FinishApply(w)
    <2>1. UNCHANGED <<owned, blocks, stays>>
      BY <1>2 DEF Calendars!Fetch, Calendars!Finish, Calendars!Crash,
         Calendars!Discard, Calendars!FinishInactive, Calendars!FinishUnchanged,
         Calendars!calendar
    <2> QED BY <2>1, CalendarsStill
  <1> QED BY <1>1, <1>2

LEMMA CalendarsStep == ASSUME CalendarsInv, Calendars!Next PROVE CalendarsInv'
  <1>1. ASSUME NEW x \in Sources,
               Calendars!RunDue(x) \/ Calendars!LeaseRunsOut(x)
               \/ Calendars!LeaseExpires(x)
        PROVE  UNCHANGED <<owned, blocks, stays>>
    BY <1>1 DEF Calendars!RunDue, Calendars!LeaseRunsOut, Calendars!LeaseExpires,
       Calendars!calendar
  <1>2. ASSUME NEW x \in Sources, NEW w \in Fetchers,
               Calendars!Claim(w, x) \/ Calendars!ClaimInactive(w, x)
        PROVE  UNCHANGED <<owned, blocks, stays>>
    BY <1>2 DEF Calendars!Claim, Calendars!ClaimInactive, Calendars!calendar
  <1>3. ASSUME Calendars!ChangeOffer
        PROVE  UNCHANGED <<owned, blocks, stays>>
    BY <1>3 DEF Calendars!ChangeOffer, Calendars!calendar
  <1> QED
    BY <1>1, <1>2, <1>3, CalendarsStill, CalendarsConfigure, CalendarsBooked,
       CalendarsWork DEF Calendars!Next

-----------------------------------------------------------------------------
(* Imports that overtake each other.                                         *)

\* A preview of the present revision lists what its import removes.
PreviewOK(x) ==
  /\ preview[x].revision \in Nat /\ preview[x].revision <= source[x]
  /\ preview[x].revision = source[x] =>
       owned[x] \ preview[x].content \subseteq preview[x].removed

\* A worker whose source is still at its revision has not been overtaken.
JobOK(w) ==
  /\ {"source", "revision"} \subseteq DOMAIN job[w]
  /\ job[w].source \in Fetched
  /\ job[w].revision \in Nat /\ job[w].revision <= source[job[w].source]
  /\ job[w].revision = source[job[w].source] => w \in current

ImportsInv ==
  /\ source \in [Fetched -> Nat]
  /\ DOMAIN owned = Fetched /\ DOMAIN preview = Fetched /\ DOMAIN job = Sessions
  /\ \A x \in Fetched : preview[x] # None => PreviewOK(x)
  /\ \A w \in Sessions : job[w] # Imports!NoJob => JobOK(w)

LEMMA ImportsStart == Imports!Init => ImportsInv
  BY DEF Imports!Init, ImportsInv

LEMMA ImportsStill ==
  ASSUME ImportsInv, UNCHANGED <<source, owned, preview, job, current>>
  PROVE  ImportsInv'
  BY DEF ImportsInv, PreviewOK, JobOK

\* A source moves on: its previews and its workers are out of date.
LEMMA ImportsTouch ==
  ASSUME ImportsInv, NEW x \in Fetched, Imports!Touch(x),
         DOMAIN owned' = Fetched, \A y \in Fetched \ {x} : owned'[y] = owned[y],
         DOMAIN preview' = Fetched,
         \A y \in Fetched : preview'[y] \in {preview[y], None},
         DOMAIN job' = Sessions,
         \A w \in Sessions : job'[w] \in {job[w], Imports!NoJob}
  PROVE  ImportsInv'
  <1>1. /\ source' \in [Fetched -> Nat] /\ source'[x] = source[x] + 1
        /\ \A y \in Fetched \ {x} : source'[y] = source[y]
    BY DEF Imports!Touch, ImportsInv
  <1>2. ASSUME NEW y \in Fetched, preview'[y] # None PROVE PreviewOK(y)'
    <2>1. preview'[y] = preview[y] /\ PreviewOK(y)
      BY <1>2 DEF ImportsInv
    <2>2. CASE y = x
      <3>1. source[x] \in Nat
        BY DEF ImportsInv
      <3> QED BY <1>1, <2>1, <2>2, <3>1 DEF PreviewOK
    <2>3. CASE y # x
      BY <1>1, <2>1, <2>3 DEF PreviewOK
    <2> QED BY <2>2, <2>3
  <1>3. ASSUME NEW w \in Sessions, job'[w] # Imports!NoJob PROVE JobOK(w)'
    <2>1. job'[w] = job[w] /\ JobOK(w)
      BY <1>3 DEF ImportsInv
    <2>2. CASE job[w].source = x
      <3>1. source[x] \in Nat
        BY DEF ImportsInv
      <3> QED BY <1>1, <2>1, <2>2, <3>1 DEF JobOK
    <2>3. CASE job[w].source # x
      <3>1. w \in current => w \in current'
        BY <2>3 DEF Imports!Touch
      <3> QED BY <1>1, <2>1, <2>3, <3>1 DEF JobOK
    <2> QED BY <2>2, <2>3
  <1> QED BY <1>1, <1>2, <1>3 DEF ImportsInv

\* A worker begins, goes on or gives up; the sources stay as they are.
LEMMA ImportsWork ==
  ASSUME ImportsInv, NEW w \in Sessions, UNCHANGED <<source, owned, preview>>,
         DOMAIN job' = Sessions, \A u \in Sessions \ {w} : job'[u] = job[u],
         current \ {w} \subseteq current',
         job'[w] # Imports!NoJob => JobOK(w)'
  PROVE  ImportsInv'
  <1>1. ASSUME NEW u \in Sessions, job'[u] # Imports!NoJob PROVE JobOK(u)'
    <2>1. CASE u # w
      BY <1>1, <2>1 DEF ImportsInv, JobOK
    <2> QED BY <1>1, <2>1
  <1> QED BY <1>1 DEF ImportsInv, PreviewOK

LEMMA ImportsConfigure ==
  ASSUME ImportsInv, NEW x \in Fetched, Imports!Configure(x)
  PROVE  ImportsInv'
  <1>1. ASSUME NEW empty \in BOOLEAN, Imports!Connect(x, empty) PROVE ImportsInv'
    <2>1. Imports!Touch(x) /\ UNCHANGED <<owned, preview, job>>
      BY <1>1 DEF Imports!Connect, Imports!calendar
    <2> QED BY <2>1, ImportsTouch DEF ImportsInv
  <1>2. ASSUME Imports!Confirm(x) PROVE ImportsInv'
    <2>1. /\ Imports!Touch(x) /\ UNCHANGED job
          /\ owned' = [owned EXCEPT ![x] = preview[x].content]
          /\ preview' = [preview EXCEPT ![x] = None]
      BY <1>2 DEF Imports!Confirm
    <2> QED BY <2>1, ImportsTouch DEF ImportsInv
  <1>3. ASSUME NEW f \in Downloads, Imports!Preview(x, f) PROVE ImportsInv'
    <2>1. /\ UNCHANGED <<source, owned, job, current>>
          /\ preview' = [preview EXCEPT ![x] =
               [revision |-> source[x], content |-> f, removed |-> owned[x] \ f]]
      BY <1>3 DEF Imports!Preview, Imports!calendar
    <2>2. ASSUME NEW y \in Fetched, preview'[y] # None PROVE PreviewOK(y)'
      <3>1. CASE y = x
        BY <2>1, <3>1 DEF ImportsInv, PreviewOK
      <3>2. CASE y # x
        BY <2>1, <2>2, <3>2 DEF ImportsInv, PreviewOK
      <3> QED BY <3>1, <3>2
    <2> QED BY <2>1, <2>2 DEF ImportsInv, JobOK
  <1> QED
    BY <1>1, <1>2, <1>3 DEF Imports!Configure, ImportOnly

LEMMA ImportsFinish ==
  ASSUME ImportsInv, NEW w \in Sessions, Imports!Finish(w)
  PROVE  ImportsInv'
  <1>1. job' = [job EXCEPT ![w] = Imports!NoJob] /\ UNCHANGED preview
    BY DEF Imports!Finish, Imports!Discard, Imports!FinishInactive,
       Imports!FinishUnchanged, Imports!FinishApply, Imports!Done
  <1>2. CASE Imports!Discard(w) \/ Imports!FinishInactive(w) \/ Imports!FinishUnchanged(w)
    <2>1. UNCHANGED <<source, owned>> /\ current' = current \ {w}
      BY <1>2 DEF Imports!Discard, Imports!FinishInactive, Imports!FinishUnchanged,
         Imports!calendar
    <2> QED BY <1>1, <2>1, ImportsWork DEF ImportsInv
  <1>3. CASE Imports!FinishApply(w)
    <2> DEFINE x == job[w].source
    <2>1. /\ job[w].content # None
          /\ owned' = [owned EXCEPT ![x] = job[w].content.ranges]
          /\ Imports!Touch(x)
      BY <1>3 DEF Imports!FinishApply
    <2>2. x \in Fetched
      BY <2>1 DEF ImportsInv, JobOK, Imports!NoJob
    <2> HIDE DEF x
    <2> QED BY <1>1, <2>1, <2>2, ImportsTouch DEF ImportsInv
  <1> QED BY <1>2, <1>3 DEF Imports!Finish

LEMMA ImportsStep == ASSUME ImportsInv, Imports!Next PROVE ImportsInv'
  <1>1. ASSUME NEW x \in Fetched,
               \/ Imports!RunDue(x) \/ Imports!LeaseRunsOut(x) \/ Imports!LeaseExpires(x)
               \/ \E w \in Sessions : Imports!ClaimInactive(w, x)
        PROVE  ImportsInv'
    <2>1. UNCHANGED <<source, owned, preview, job, current>>
      BY <1>1 DEF Imports!RunDue, Imports!LeaseRunsOut, Imports!LeaseExpires,
         Imports!ClaimInactive, Imports!calendar
    <2> QED BY <2>1, ImportsStill
  <1>2. ASSUME NEW x \in Fetched, NEW w \in Sessions, Imports!Claim(w, x)
        PROVE  ImportsInv'
    <2>1. /\ UNCHANGED <<source, owned, preview>> /\ current' = current \cup {w}
          /\ job' = [job EXCEPT ![w] =
               [source |-> x, revision |-> source[x], content |-> None]]
      BY <1>2 DEF Imports!Claim, Imports!calendar
    <2>2. JobOK(w)'
      BY <2>1 DEF ImportsInv, JobOK
    <2> QED BY <2>1, <2>2, ImportsWork DEF ImportsInv
  <1>3. ASSUME NEW w \in Sessions, Imports!Fetch(w) PROVE ImportsInv'
    <2>1. PICK f : job' = [job EXCEPT ![w].content = f]
      BY <1>3 DEF Imports!Fetch
    <2>2. UNCHANGED <<source, owned, preview, current>> /\ job[w] # Imports!NoJob
      BY <1>3 DEF Imports!Fetch, Imports!calendar
    <2>3. JobOK(w)'
      BY <2>1, <2>2 DEF ImportsInv, JobOK
    <2> QED BY <2>1, <2>2, <2>3, ImportsWork DEF ImportsInv
  <1>4. ASSUME NEW w \in Sessions, Imports!Crash(w) PROVE ImportsInv'
    <2>1. /\ UNCHANGED <<source, owned, preview>> /\ current' = current \ {w}
          /\ job' = [job EXCEPT ![w] = Imports!NoJob]
      BY <1>4 DEF Imports!Crash, Imports!calendar
    <2> QED BY <2>1, ImportsWork DEF ImportsInv
  <1> QED
    BY <1>1, <1>2, <1>3, <1>4, ImportsConfigure, ImportsFinish
    DEF Imports!Next, Imports!Book, ImportOnly

\* What an import by hand or by a worker applies is what was seen, and current.
LEMMA ImportsAsSeen ==
  ASSUME ImportsInv, Imports!Next
  PROVE  /\ Imports!AsPreviewed /\ Imports!AppliesCurrent
         /\ Imports!AutomationKeepsBlocks
  <1>1. ASSUME NEW x \in Fetched, Imports!Confirm(x)
        PROVE  owned[x] \ owned'[x] \subseteq preview[x].removed
    BY <1>1 DEF Imports!Confirm, Imports!SameRevision, ImportsInv, PreviewOK
  <1>2. ASSUME NEW w \in Sessions, Imports!FinishApply(w)
        PROVE  w \in current
    BY <1>2 DEF Imports!FinishApply, Imports!Superseded, ImportsInv, JobOK,
       Imports!NoJob
  <1>3. ASSUME NEW x \in Fetched, owned[x] # {}, owned'[x] = {}, ~conn[x].allowEmpty,
               NEW w \in Sessions, job[w].source = x, job'[w] = Imports!NoJob
        PROVE  FALSE
    <2>1. job' # job /\ owned' # owned
      BY <1>3, FetchedAssumption DEF Imports!NoJob
    <2>2. PICK u \in Sessions : Imports!FinishApply(u)
      BY <2>1 DEF Imports!Next, Imports!Configure, ImportOnly, Imports!Connect,
         Imports!Confirm, Imports!Preview, Imports!RunDue, Imports!LeaseRunsOut,
         Imports!LeaseExpires, Imports!Claim, Imports!ClaimInactive, Imports!Fetch,
         Imports!Finish, Imports!Discard, Imports!FinishInactive,
         Imports!FinishUnchanged, Imports!Crash, Imports!Book, Imports!calendar
    <2>3. /\ ~Imports!WouldEmpty(job[u].source, job[u].content.ranges)
          /\ owned' = [owned EXCEPT ![job[u].source] = job[u].content.ranges]
      BY <2>2 DEF Imports!FinishApply
    <2> QED BY <1>3, <2>3 DEF Imports!WouldEmpty, ImportsInv
  <1> QED
    BY <1>1, <1>2, <1>3 DEF Imports!AsPreviewed, Imports!AppliesCurrent,
       Imports!AutomationKeepsBlocks

-----------------------------------------------------------------------------
(* Reminders and the review of a stay.                                       *)

HoldsStay(w) == w.op \in {"remind", "cancel", "move", "review"}

TookPlace == stay.status = "confirmed" /\ stay.dates.out < FollowUps!Day(clock)

\* What a request has found out under the stay's lock.
FollowUpOK(w) ==
  /\ w.op = "remind" =>
       /\ stay.status = "confirmed" /\ w.rows \cap delivered = {}
       /\ \A d \in w.rows : FollowUps!DateOf(d.kind) = d.date
  /\ w.op = "review" => TookPlace
  /\ w.op \in {"cancel", "move"} => ~review
  /\ w.op = "move" => w.dates \in Dates

FollowUpsInv ==
  /\ clock \in Nat
  /\ stay \in [status : {"confirmed", "cancelled"}, dates : Dates]
  /\ DOMAIN work = Sessions
  /\ \A s, t \in Sessions : s # t => ~(HoldsStay(work[s]) /\ HoldsStay(work[t]))
  /\ \A s \in Sessions : FollowUpOK(work[s])
  /\ review => TookPlace

LEMMA FollowUpsStart == FollowUps!Init => FollowUpsInv
  BY DEF FollowUps!Init, FollowUpsInv, FollowUps!Idle, HoldsStay, FollowUpOK

LEMMA FollowUpsTick ==
  ASSUME FollowUpsInv, clock' \in {clock, clock + 1},
         UNCHANGED <<stay, delivered, review, work>>
  PROVE  FollowUpsInv'
  <1>1. clock' \in Nat /\ FollowUps!Day(clock) <= FollowUps!Day(clock)'
    BY DEF FollowUpsInv, FollowUps!Day
  <1>2. FollowUps!Day(clock) \in Int /\ FollowUps!Day(clock)' \in Int
    BY <1>1 DEF FollowUpsInv, FollowUps!Day
  <1>3. stay.dates.out \in Int
    BY DatesAssumption DEF FollowUpsInv
  <1>4. TookPlace => TookPlace'
    BY <1>1, <1>2, <1>3 DEF TookPlace, FollowUps!Day
  <1>5. \A s \in Sessions : FollowUpOK(work[s])'
    BY <1>4 DEF FollowUpsInv, FollowUpOK, FollowUps!DateOf
  <1> QED BY <1>1, <1>4, <1>5 DEF FollowUpsInv, HoldsStay

\* A request goes on, and takes the stay's lock if nobody has it.
LEMMA FollowUpsWork ==
  ASSUME FollowUpsInv, NEW s \in Sessions, NEW w, work' = [work EXCEPT ![s] = w],
         HoldsStay(w) => FollowUps!StayFree, FollowUpOK(w),
         UNCHANGED <<clock, stay, delivered, review>>
  PROVE  FollowUpsInv'
  <1>1. \A t \in Sessions : work'[t] = IF t = s THEN w ELSE work[t]
    BY DEF FollowUpsInv
  <1>2. \A t, u \in Sessions : t # u => ~(HoldsStay(work'[t]) /\ HoldsStay(work'[u]))
    BY <1>1 DEF FollowUpsInv, FollowUps!StayFree, HoldsStay
  <1>3. TookPlace <=> TookPlace'
    BY DEF TookPlace, FollowUps!Day
  <1>4. ASSUME NEW u, FollowUpOK(u) PROVE FollowUpOK(u)'
    BY <1>3, <1>4 DEF FollowUpOK, FollowUps!DateOf
  <1>5. \A t \in Sessions : FollowUpOK(work[t])'
    <2> TAKE t \in Sessions
    <2>1. FollowUpOK(work'[t])
      BY <1>1 DEF FollowUpsInv
    <2>2. PICK u : u = work'[t]
      OBVIOUS
    <2> QED BY <1>4, <2>1, <2>2 DEF FollowUpOK, FollowUps!DateOf
  <1> QED BY <1>2, <1>3, <1>5 DEF FollowUpsInv, HoldsStay

\* Who holds the stay commits: nobody else relies on it.
LEMMA FollowUpsCommit ==
  ASSUME FollowUpsInv, NEW s \in Sessions, HoldsStay(work[s]),
         work' = [work EXCEPT ![s] = FollowUps!Idle], UNCHANGED clock,
         stay' \in [status : {"confirmed", "cancelled"}, dates : Dates],
         review' => TookPlace'
  PROVE  FollowUpsInv'
  <1>1. \A t \in Sessions : work'[t] = IF t = s THEN FollowUps!Idle ELSE work[t]
    BY DEF FollowUpsInv
  <1>2. \A t \in Sessions : ~HoldsStay(work'[t])
    BY <1>1 DEF FollowUpsInv, HoldsStay, FollowUps!Idle
  <1>3. ASSUME NEW t \in Sessions PROVE FollowUpOK(work[t])'
    BY <1>2 DEF FollowUpOK, HoldsStay
  <1> QED BY <1>2, <1>3 DEF FollowUpsInv, HoldsStay

LEMMA FollowUpsLock ==
  ASSUME FollowUpsInv, NEW s \in Sessions,
         \/ FollowUps!Run(s) \/ FollowUps!RemindLock(s) \/ FollowUps!Abort(s)
         \/ FollowUps!CancelLock(s) \/ FollowUps!ReviewLock(s)
         \/ \E d \in Dates : FollowUps!MoveLock(s, d)
  PROVE  FollowUpsInv'
  <1> USE DEF FollowUps!Step
  <1>1. UNCHANGED <<clock, stay, delivered, review>>
    BY DEF FollowUps!Run, FollowUps!RemindLock, FollowUps!Abort, FollowUps!CancelLock,
       FollowUps!ReviewLock, FollowUps!MoveLock
  <1>2. CASE FollowUps!Run(s)
    <2>1. work' = [work EXCEPT ![s] = [op |-> "listed", now |-> clock]]
      BY <1>2 DEF FollowUps!Run
    <2> QED BY <1>1, <2>1, FollowUpsWork DEF HoldsStay, FollowUpOK
  <1>3. CASE FollowUps!RemindLock(s)
    <2>1. PICK rows : /\ work' = [work EXCEPT ![s] = [op |-> "remind", rows |-> rows]]
                      /\ rows = FollowUps!Due(work[s].now)
      BY <1>3 DEF FollowUps!RemindLock
    <2>2. FollowUps!StayFree /\ stay.status = "confirmed"
      BY <1>3 DEF FollowUps!RemindLock
    <2>3. FollowUpOK([op |-> "remind", rows |-> rows])
      BY <2>1, <2>2 DEF FollowUpOK, FollowUps!Due
    <2> QED BY <1>1, <2>1, <2>2, <2>3, FollowUpsWork
  <1>4. CASE FollowUps!Abort(s)
    <2>1. work' = [work EXCEPT ![s] = FollowUps!Idle]
      BY <1>4 DEF FollowUps!Abort, FollowUps!Finish
    <2> QED BY <1>1, <2>1, FollowUpsWork DEF HoldsStay, FollowUpOK, FollowUps!Idle
  <1>5. ASSUME FollowUps!Day(clock) < stay.dates.in PROVE ~review
    <2>1. stay.dates.in \in Int /\ stay.dates.out \in Int
          /\ stay.dates.in < stay.dates.out /\ FollowUps!Day(clock) \in Int
      BY DatesAssumption DEF FollowUpsInv, FollowUps!Day
    <2> QED BY <1>5, <2>1 DEF FollowUpsInv, TookPlace
  <1>6. CASE FollowUps!CancelLock(s)
    <2>1. /\ work' = [work EXCEPT ![s] = [op |-> "cancel"]]
          /\ FollowUps!StayFree /\ FollowUps!Day(clock) < stay.dates.in
      BY <1>6 DEF FollowUps!CancelLock
    <2> QED BY <1>1, <1>5, <2>1, FollowUpsWork DEF FollowUpOK
  <1>7. CASE FollowUps!ReviewLock(s)
    <2>1. /\ work' = [work EXCEPT ![s] = [op |-> "review"]]
          /\ FollowUps!StayFree /\ TookPlace
      BY <1>7 DEF FollowUps!ReviewLock, TookPlace
    <2> QED BY <1>1, <2>1, FollowUpsWork DEF FollowUpOK
  <1>8. ASSUME NEW d \in Dates, FollowUps!MoveLock(s, d) PROVE FollowUpsInv'
    <2>1. /\ work' = [work EXCEPT ![s] = [op |-> "move", dates |-> d]]
          /\ FollowUps!StayFree /\ FollowUps!Day(clock) < stay.dates.in
      BY <1>8 DEF FollowUps!MoveLock
    <2> QED BY <1>1, <1>5, <2>1, FollowUpsWork DEF FollowUpOK
  <1> QED BY <1>2, <1>3, <1>4, <1>6, <1>7, <1>8

LEMMA FollowUpsStep == ASSUME FollowUpsInv, FollowUps!Next PROVE FollowUpsInv'
  <1> USE DEF FollowUps!Finish, FollowUps!Step
  <1>1. ASSUME FollowUps!Tick \/ \E u : FollowUps!SetPreference(u) PROVE FollowUpsInv'
    BY <1>1, FollowUpsTick DEF FollowUps!Tick, FollowUps!SetPreference
  <1>2. ASSUME NEW s \in Sessions, FollowUps!RemindCommit(s) PROVE FollowUpsInv'
    <2>1. /\ HoldsStay(work[s]) /\ UNCHANGED <<clock, stay, review>>
          /\ work' = [work EXCEPT ![s] = FollowUps!Idle]
      BY <1>2 DEF FollowUps!RemindCommit, HoldsStay
    <2> QED BY <2>1, FollowUpsCommit DEF FollowUpsInv, TookPlace, FollowUps!Day
  <1>3. ASSUME NEW s \in Sessions, FollowUps!CancelCommit(s) PROVE FollowUpsInv'
    <2>1. /\ HoldsStay(work[s]) /\ UNCHANGED <<clock, review>>
          /\ work' = [work EXCEPT ![s] = FollowUps!Idle]
          /\ stay' = [stay EXCEPT !.status = "cancelled"] /\ work[s].op = "cancel"
      BY <1>3 DEF FollowUps!CancelCommit, HoldsStay
    <2>2. ~review /\ stay' \in [status : {"confirmed", "cancelled"}, dates : Dates]
      BY <2>1 DEF FollowUpsInv, FollowUpOK
    <2> QED BY <2>1, <2>2, FollowUpsCommit
  <1>4. ASSUME NEW s \in Sessions, FollowUps!MoveCommit(s) PROVE FollowUpsInv'
    <2>1. /\ HoldsStay(work[s]) /\ UNCHANGED <<clock, review>>
          /\ work' = [work EXCEPT ![s] = FollowUps!Idle]
          /\ stay' = [stay EXCEPT !.dates = work[s].dates] /\ work[s].op = "move"
      BY <1>4 DEF FollowUps!MoveCommit, HoldsStay
    <2>2. ~review /\ work[s].dates \in Dates
      BY <2>1 DEF FollowUpsInv, FollowUpOK
    <2>3. stay' \in [status : {"confirmed", "cancelled"}, dates : Dates]
      BY <2>1, <2>2 DEF FollowUpsInv
    <2> QED BY <2>1, <2>2, <2>3, FollowUpsCommit
  <1>5. ASSUME NEW s \in Sessions, FollowUps!ReviewCommit(s) PROVE FollowUpsInv'
    <2>1. /\ HoldsStay(work[s]) /\ UNCHANGED <<clock, stay>>
          /\ work' = [work EXCEPT ![s] = FollowUps!Idle] /\ work[s].op = "review"
      BY <1>5 DEF FollowUps!ReviewCommit, HoldsStay
    <2>2. TookPlace'
      BY <2>1 DEF FollowUpsInv, FollowUpOK, TookPlace, FollowUps!Day
    <2> QED BY <2>1, <2>2, FollowUpsCommit DEF FollowUpsInv
  <1> HIDE DEF FollowUps!Finish, FollowUps!Step
  <1> QED
    BY <1>1, <1>2, <1>3, <1>4, <1>5, FollowUpsLock DEF FollowUps!Next

\* A reminder that is written fits the stay as it is.
LEMMA FollowUpsAsSeen ==
  ASSUME FollowUpsInv, FollowUps!Next
  PROVE  FollowUps!RemindsOfStay
  <1>1. CASE delivered' = delivered
    BY <1>1 DEF FollowUps!RemindsOfStay
  <1>2. CASE delivered' # delivered
    <2>1. PICK s \in Sessions : FollowUps!RemindCommit(s)
      BY <1>2 DEF FollowUps!Next, FollowUps!Tick, FollowUps!SetPreference,
         FollowUps!Run, FollowUps!RemindLock, FollowUps!Abort, FollowUps!CancelLock,
         FollowUps!CancelCommit, FollowUps!MoveLock, FollowUps!MoveCommit,
         FollowUps!ReviewLock, FollowUps!ReviewCommit
    <2> QED
      BY <2>1 DEF FollowUps!RemindCommit, FollowUps!RemindsOfStay, FollowUpsInv,
         FollowUpOK
  <1> QED BY <1>1, <1>2

LEMMA FollowUpsApart ==
  FollowUpsInv => FollowUps!RemindersNeverCollide /\ FollowUps!ReviewedAfterStay
  BY DEF FollowUpsInv, FollowUpOK, FollowUps!RemindersNeverCollide,
     FollowUps!ReviewedAfterStay, TookPlace

-----------------------------------------------------------------------------
(* Accounts. *)

\* A session's token is not newer than the account, and not of another role if
\* it is as new.
Proper(b) ==
  /\ b.version \in Int /\ b.version <= account.version
  /\ b.version = account.version => b.role = account.role

\* A request that goes on to issue something: who it is for, and a login's token,
\* was read before.
Issues(w) == w.op = "login" \/ (w.op = "google" /\ w.linked)
IssuesOK(w) ==
  /\ "op" \in DOMAIN w
  /\ Issues(w) \/ w.op = "key" => People!Registered
  /\ Issues(w) => Proper(w.token)

KeyOK(row) ==
  /\ {"status", "role"} \subseteq DOMAIN row
  /\ row.status = "live" => row.role = account.role /\ People!Registered

AnyRole == People!Roles \cup {None}
AccountRow == [role : AnyRole, version : Int, verified : BOOLEAN, google : BOOLEAN]

AccountsInv ==
  /\ account \in AccountRow
  /\ key = [k \in Keys |-> key[k]] /\ DOMAIN work = Sessions
  /\ account.google \/ bearer # {} => People!Registered
  /\ \A b \in bearer : Proper(b)
  /\ \A k \in Keys : KeyOK(key[k])
  /\ \A s \in Sessions : IssuesOK(work[s])

LEMMA PeopleStart == People!Init => AccountsInv
  <1> SUFFICES ASSUME People!Init PROVE AccountsInv
    OBVIOUS
  <1>1. /\ account \in AccountRow
        /\ ~account.google
    <2>1. \/ account = [role |-> None, version |-> 0, verified |-> FALSE, google |-> FALSE]
          \/ account = [role |-> "customer", version |-> 0, verified |-> TRUE,
                        google |-> FALSE]
      BY DEF People!Init, People!Nobody
    <2>2. None \in AnyRole /\ "customer" \in AnyRole
      BY DEF AnyRole, People!Roles
    <2>3. CASE account = [role |-> None, version |-> 0, verified |-> FALSE,
                          google |-> FALSE]
      BY ONLY <2>2, <2>3 DEF AccountRow
    <2>4. CASE account = [role |-> "customer", version |-> 0, verified |-> TRUE,
                          google |-> FALSE]
      BY ONLY <2>2, <2>4 DEF AccountRow
    <2>5. ~account.google
      BY ONLY <2>1
    <2> QED BY <2>1, <2>3, <2>4, <2>5
  <1>2. /\ key = [k \in Keys |-> key[k]] /\ DOMAIN work = Sessions
        /\ bearer = {}
    BY DEF People!Init
  <1>3. \A k \in Keys : KeyOK(key[k])
    BY DEF People!Init, People!NoKey, KeyOK
  <1>4. \A s \in Sessions : IssuesOK(work[s])
    BY DEF People!Init, People!Idle, IssuesOK, Issues
  <1>5. account.google \/ bearer # {} => People!Registered
    BY ONLY <1>1, <1>2
  <1>6. \A b \in bearer : Proper(b)
    BY ONLY <1>2
  <1> QED
    BY ONLY <1>1, <1>2, <1>3, <1>4, <1>5, <1>6 DEF AccountsInv

LEMMA PeopleRolesKept == AccountsInv => People!RolesNeverGrow
  BY DEF AccountsInv, People!RolesNeverGrow, People!KeyWorks, People!Live, Proper,
     KeyOK

\* A step that leaves the account's role and version alone.
LEMMA PeopleSame ==
  ASSUME AccountsInv, account' \in AccountRow,
         account'.version = account.version, account'.role = account.role,
         account'.google \/ bearer' # {} => People!Registered,
         \A b \in bearer' : Proper(b),
         key' = [k \in Keys |-> key'[k]], \A k \in Keys : KeyOK(key'[k]),
         DOMAIN work' = Sessions, \A t \in Sessions : IssuesOK(work'[t])
  PROVE  AccountsInv'
  <1>1. People!Registered <=> People!Registered'
    BY DEF People!Registered
  <1>2. \A t \in Sessions : IssuesOK(work[t])'
    BY <1>1 DEF IssuesOK, Issues, Proper
  <1>3. \A b \in bearer' : Proper(b)'
    BY DEF Proper
  <1>4. \A k \in Keys : KeyOK(key[k])'
    BY <1>1 DEF KeyOK
  <1> QED
    BY <1>1, <1>2, <1>3, <1>4 DEF AccountsInv

\* A request takes a step that changes neither the account nor its keys.
LEMMA PeopleWork ==
  ASSUME AccountsInv, NEW s \in Sessions, NEW v, IssuesOK(v),
         work' = [work EXCEPT ![s] = v], UNCHANGED <<account, key>>,
         \/ UNCHANGED bearer
         \/ \A b \in bearer' : Proper(b) /\ People!Registered
  PROVE  AccountsInv'
  <1>1. \A t \in Sessions : IssuesOK(work'[t])
    BY DEF AccountsInv
  <1>2. DOMAIN work' = Sessions
    BY DEF AccountsInv
  <1>3. /\ account' \in AccountRow
        /\ key' = [k \in Keys |-> key'[k]] /\ \A k \in Keys : KeyOK(key'[k])
        /\ account'.version = account.version /\ account'.role = account.role
    BY DEF AccountsInv
  <1>4. account'.google \/ bearer' # {} => People!Registered
    BY DEF AccountsInv
  <1>5. \A b \in bearer' : Proper(b)
    BY DEF AccountsInv
  <1> QED
    BY <1>1, <1>2, <1>3, <1>4, <1>5, PeopleSame

\* A request ends.
LEMMA PeopleEnds ==
  ASSUME AccountsInv, NEW s \in Sessions, People!Finish(s), UNCHANGED <<account, key>>,
         \/ UNCHANGED bearer
         \/ \A b \in bearer' : Proper(b) /\ People!Registered
  PROVE  AccountsInv'
  <1>1. IssuesOK(People!Idle)
    BY DEF People!Idle, IssuesOK, Issues
  <1>2. work' = [work EXCEPT ![s] = People!Idle]
    BY DEF People!Finish
  <1> QED BY <1>1, <1>2, PeopleWork

LEMMA AccountMoves ==
  ASSUME NEW a \in AccountRow, NEW b, NEW n \in Int, NEW role \in AnyRole,
         b = [a EXCEPT !.version = n, !.role = role]
  PROVE  /\ b \in AccountRow
         /\ b.version = n /\ b.role = role /\ b.google = a.google
  BY DEF AccountRow

\* The account goes to its next version, and its keys are revoked.
LEMMA PeopleNewVersion ==
  ASSUME AccountsInv, NEW role \in AnyRole,
         People!Registered => role # None,
         account' = [account EXCEPT !.version = @ + 1, !.role = role],
         key' = People!KeysRevoked, UNCHANGED bearer,
         \/ UNCHANGED work
         \/ \E s \in Sessions : work' = [work EXCEPT ![s] = People!Idle]
  PROVE  AccountsInv'
  <1>1. /\ account'.version = account.version + 1 /\ account'.role = role
        /\ account'.google = account.google /\ account.version \in Int
        /\ account' \in AccountRow
    <2>1. account \in AccountRow
      BY DEF AccountsInv
    <2>2. account.version \in Int /\ account.version + 1 \in Int
      BY ONLY <2>1 DEF AccountRow
    <2>3. account' = [account EXCEPT !.version = account.version + 1, !.role = role]
      OBVIOUS
    <2> QED BY ONLY role \in AnyRole, <2>1, <2>2, <2>3, AccountMoves
  <1>2. People!Registered => People!Registered'
    BY <1>1 DEF People!Registered
  <1>3. \A k \in Keys : {"status", "role"} \subseteq DOMAIN key'[k]
                        /\ key'[k].status # "live"
    BY DEF AccountsInv, KeyOK, People!KeysRevoked, People!Live
  <1>4. \A t \in Sessions : work'[t] = work[t] \/ work'[t] = People!Idle
    BY DEF AccountsInv
  <1>5. ASSUME NEW b, Proper(b)
        PROVE  b.version \in Int /\ b.version < account'.version
    BY <1>1, <1>5 DEF Proper
  <1>6. \A t \in Sessions :
          /\ "op" \in DOMAIN work'[t]
          /\ Issues(work'[t]) \/ work'[t].op = "key" => People!Registered'
          /\ Issues(work'[t]) =>
               /\ work'[t].token.version \in Int
               /\ work'[t].token.version < account'.version
    <2>1. /\ "op" \in DOMAIN People!Idle
          /\ ~Issues(People!Idle) /\ People!Idle.op # "key"
      BY DEF People!Idle, Issues
    <2>2. \A t \in Sessions : IssuesOK(work[t])
      BY DEF AccountsInv
    <2> QED BY <1>2, <1>4, <1>5, <2>1, <2>2 DEF IssuesOK
  <1>7. \A t \in Sessions : IssuesOK(work[t])'
    BY <1>1, <1>6 DEF IssuesOK, Issues, Proper
  <1>8. \A b \in bearer' : Proper(b)'
    BY <1>1, <1>5 DEF AccountsInv, Proper
  <1>9. \A k \in Keys : KeyOK(key[k])'
    BY <1>3 DEF KeyOK
  <1>10. account'.google \/ bearer' # {} => People!Registered'
    BY <1>1, <1>2 DEF AccountsInv
  <1>11. key' = [k \in Keys |-> key'[k]] /\ DOMAIN work' = Sessions
    BY DEF AccountsInv, People!KeysRevoked
  <1> QED
    BY <1>1, <1>7, <1>8, <1>9, <1>10, <1>11 DEF AccountsInv

LEMMA PeopleReads ==
  ASSUME AccountsInv, NEW s \in Sessions,
         \/ People!RegisterRead(s) \/ People!LoginRead(s) \/ People!GoogleRead(s)
         \/ People!ResetAsk(s) \/ \E op \in ops : People!Authenticate(s, op)
         \/ \E r \in Resets : People!ConfirmRead(s, r)
         \/ \E i \in DOMAIN application, answer \in {"approved", "rejected"} :
              People!DecideRead(s, i, answer)
  PROVE  AccountsInv'
  <1> DEFINE token == [version |-> account.version, role |-> account.role]
  <1>1. Proper(token)
    <2>1. account.version \in Int
      BY DEF AccountsInv, AccountRow
    <2> QED BY ONLY <2>1 DEF Proper
  <1>2. UNCHANGED <<account, key, bearer>>
    BY DEF People!RegisterRead, People!LoginRead, People!GoogleRead,
       People!ResetAsk, People!Authenticate, People!ConfirmRead, People!DecideRead
  <1>3. ASSUME NEW v, IssuesOK(v), People!Start(s, v)
        PROVE  AccountsInv'
    BY <1>2, <1>3, PeopleWork DEF People!Start
  <1>4. CASE People!LoginRead(s)
    <2> DEFINE v == [op |-> "login", at |-> "start", token |-> token]
    <2>1. People!Start(s, v) /\ People!Registered
      BY <1>4 DEF People!LoginRead
    <2>2. IssuesOK(v)
      BY <1>1, <2>1 DEF IssuesOK, Issues
    <2> QED BY <1>3, <2>1, <2>2
  <1>5. CASE People!GoogleRead(s)
    <2> DEFINE v == [op |-> "google", at |-> "start", found |-> People!Registered,
                     linked |-> account.google /\ account.verified, token |-> token]
    <2>1. People!Start(s, v)
      BY <1>5 DEF People!GoogleRead
    <2>2. v.linked => People!Registered
      BY DEF AccountsInv
    <2>3. "op" \in DOMAIN v /\ v.op = "google" /\ v.token = token
      OBVIOUS
    <2> HIDE DEF v
    <2>4. IssuesOK(v)
      BY <1>1, <2>2, <2>3 DEF IssuesOK, Issues
    <2> QED BY <1>3, <2>1, <2>4
  <1>6. ASSUME NEW op, People!Authenticate(s, op)
        PROVE  AccountsInv'
    <2> DEFINE v == [op |-> op, at |-> "start", version |-> account.version]
    <2>1. People!Start(s, v) /\ People!Registered
          /\ op \in {"logout", "key", "mail", "apply"}
      BY <1>6 DEF People!Authenticate
    <2>2. IssuesOK(v)
      BY <2>1 DEF IssuesOK, Issues
    <2> QED BY <1>3, <2>1, <2>2
  <1>7. CASE People!RegisterRead(s)
    <2> DEFINE v == [op |-> "register", at |-> "start"]
    <2>1. People!Start(s, v)
      BY <1>7 DEF People!RegisterRead
    <2>2. IssuesOK(v)
      BY DEF IssuesOK, Issues
    <2> QED BY <1>3, <2>1, <2>2
  <1>8. CASE People!ResetAsk(s)
    <2> DEFINE v == [op |-> "reset", at |-> "start"]
    <2>1. People!Start(s, v)
      BY <1>8 DEF People!ResetAsk
    <2>2. IssuesOK(v)
      BY DEF IssuesOK, Issues
    <2> QED BY <1>3, <2>1, <2>2
  <1>9. ASSUME NEW r, People!ConfirmRead(s, r)
        PROVE  AccountsInv'
    <2> DEFINE v == [op |-> "confirm", at |-> "start", row |-> r]
    <2>1. People!Start(s, v)
      BY <1>9 DEF People!ConfirmRead
    <2>2. IssuesOK(v)
      BY DEF IssuesOK, Issues
    <2> QED BY <1>3, <2>1, <2>2
  <1>10. ASSUME NEW i, NEW answer, People!DecideRead(s, i, answer)
         PROVE  AccountsInv'
    <2> DEFINE v == [op |-> "decide", at |-> "start", row |-> i, answer |-> answer]
    <2>1. People!Start(s, v)
      BY <1>10 DEF People!DecideRead
    <2>2. IssuesOK(v)
      BY DEF IssuesOK, Issues
    <2> QED BY <1>3, <2>1, <2>2
  <1> QED
    BY <1>4, <1>5, <1>6, <1>7, <1>8, <1>9, <1>10

LEMMA PeopleLocks ==
  ASSUME AccountsInv, NEW s \in Sessions,
         \/ People!LogoutLock(s) \/ People!KeyLock(s) \/ People!ResetLock(s)
         \/ People!MailLock(s) \/ People!ApplyLock(s)
  PROVE  AccountsInv'
  <1> DEFINE v == [work[s] EXCEPT !.at = "locked"]
  <1>1. /\ work' = [work EXCEPT ![s] = v] /\ UNCHANGED <<account, key, bearer>>
        /\ work[s].op \in {"logout", "key", "reset", "mail", "apply"}
    BY DEF People!LogoutLock, People!KeyLock, People!ResetLock, People!MailLock,
       People!ApplyLock, People!Lock, People!At
  <1>2. IssuesOK(work[s])
    BY DEF AccountsInv
  <1>3. "op" \in DOMAIN v /\ v.op = work[s].op
    BY <1>2 DEF IssuesOK
  <1>4. IssuesOK(v)
    BY <1>1, <1>2, <1>3 DEF IssuesOK, Issues
  <1> HIDE DEF v
  <1> QED BY <1>1, <1>4, PeopleWork

LEMMA PeopleCommits ==
  ASSUME AccountsInv, NEW s \in Sessions,
         \/ People!LoginIssue(s) \/ People!Abort(s) \/ People!ApplyCommit(s)
         \/ \E r \in Resets : People!ResetCommit(s, r)
         \/ \E l \in Links : People!MailCommit(s, l)
         \/ People!DecideCommit(s) /\ work[s].answer # "approved"
         \/ People!GoogleCommit(s) /\ work[s].linked
  PROVE  AccountsInv'
  <1>1. People!Finish(s) /\ UNCHANGED <<account, key>>
    BY DEF People!LoginIssue, People!Abort, People!ApplyCommit, People!ResetCommit,
       People!MailCommit, People!DecideCommit, People!GoogleCommit
  <1>2. \/ UNCHANGED bearer
        \/ Issues(work[s]) /\ bearer' = bearer \cup {work[s].token}
    BY DEF People!LoginIssue, People!Abort, People!ApplyCommit, People!ResetCommit,
       People!MailCommit, People!DecideCommit, People!GoogleCommit, People!At, Issues
  <1>3. IssuesOK(work[s]) /\ \A b \in bearer : Proper(b)
    BY DEF AccountsInv
  <1>4. UNCHANGED bearer \/ \A b \in bearer' : Proper(b) /\ People!Registered
    BY <1>2, <1>3 DEF IssuesOK
  <1> QED BY <1>1, <1>4, PeopleEnds

LEMMA PeopleKeys ==
  ASSUME AccountsInv, NEW s \in Sessions, NEW k \in Keys,
         \/ People!KeyRevoke(s, k) \/ \E until : People!KeyCommit(s, k, until)
  PROVE  AccountsInv'
  <1>1. /\ work' = [work EXCEPT ![s] = People!Idle] /\ UNCHANGED <<account, bearer>>
        /\ work[s].op = "key"
    BY DEF People!KeyRevoke, People!KeyCommit, People!Finish, People!At
  <1>2. \A i \in Keys : {"status", "role"} \subseteq DOMAIN key[i] /\ KeyOK(key[i])
    BY DEF AccountsInv, KeyOK
  <1>3. IssuesOK(People!Idle) /\ \A t \in Sessions : IssuesOK(work[t])
    BY DEF AccountsInv, People!Idle, IssuesOK, Issues
  <1>4. People!Registered
    BY <1>1, <1>3 DEF IssuesOK
  <1>5. PICK row : key' = [key EXCEPT ![k] = row] /\ KeyOK(row)
    <2>1. CASE People!KeyRevoke(s, k)
      <3> DEFINE row == [key[k] EXCEPT !.status = "revoked"]
      <3>1. key' = [key EXCEPT ![k] = row]
        BY <2>1 DEF People!KeyRevoke
      <3>2. {"status", "role"} \subseteq DOMAIN row /\ row.status = "revoked"
        BY <1>2
      <3>3. KeyOK(row)
        BY ONLY <3>2 DEF KeyOK
      <3> QED BY <3>1, <3>3
    <2>2. ASSUME NEW until, People!KeyCommit(s, k, until)
          PROVE  \E row : key' = [key EXCEPT ![k] = row] /\ KeyOK(row)
      <3> DEFINE row == [status |-> "live", until |-> until, role |-> account.role]
      <3>1. key' = [key EXCEPT ![k] = row]
        BY <2>2 DEF People!KeyCommit
      <3>2. KeyOK(row)
        BY <1>4 DEF KeyOK
      <3> QED BY <3>1, <3>2
    <2> QED BY <2>1, <2>2
  <1>6. key' = [i \in Keys |-> key'[i]] /\ \A i \in Keys : KeyOK(key'[i])
    BY <1>2, <1>5 DEF AccountsInv
  <1>7. DOMAIN work' = Sessions /\ \A t \in Sessions : IssuesOK(work'[t])
    BY <1>1, <1>3 DEF AccountsInv
  <1>8. /\ account' \in AccountRow /\ account' = account
        /\ account'.google \/ bearer' # {} => People!Registered
        /\ \A b \in bearer' : Proper(b)
    BY <1>1, <1>4 DEF AccountsInv
  <1>9. account'.version = account.version /\ account'.role = account.role
    BY ONLY <1>8
  <1> QED
    BY ONLY AccountsInv, <1>6, <1>7, <1>8, <1>9, PeopleSame

\* An account comes into being: nothing was issued for it before.
LEMMA PeopleBegin ==
  ASSUME AccountsInv, NEW s \in Sessions, NEW v, ~People!Registered,
         work' = [work EXCEPT ![s] = v], "op" \in DOMAIN v,
         v.op \notin {"login", "google", "key"},
         account' \in AccountRow, account'.role # None, UNCHANGED key,
         \A b \in bearer' : Proper(b)'
  PROVE  AccountsInv'
  <1>1. People!Registered'
    BY DEF People!Registered
  <1>2. \A t \in Sessions : t # s => IssuesOK(work[t]) /\ work'[t] = work[t]
    BY DEF AccountsInv
  <1>3. work'[s] = v /\ DOMAIN work' = Sessions
    BY DEF AccountsInv
  <1>4. ASSUME NEW t \in Sessions
        PROVE  IssuesOK(work[t])'
    <2>1. "op" \in DOMAIN work'[t] /\ ~Issues(work'[t])
      BY <1>2, <1>3 DEF IssuesOK, Issues
    <2> QED BY <1>1, <2>1 DEF IssuesOK, Issues
  <1>5. \A k \in Keys : KeyOK(key[k])'
    BY DEF AccountsInv, KeyOK
  <1>6. key' = [k \in Keys |-> key'[k]]
    BY DEF AccountsInv
  <1> QED
    BY <1>1, <1>3, <1>4, <1>5, <1>6 DEF AccountsInv

LEMMA PeopleSignsUp ==
  ASSUME AccountsInv, NEW s \in Sessions,
         \/ People!RegisterCommit(s)
         \/ People!GoogleCommit(s) /\ ~work[s].linked
  PROVE  AccountsInv'
  <1>1. /\ account \in AccountRow /\ "customer" \in AnyRole /\ "customer" # None
        /\ 0 \in Int
    BY AccountsAssumption DEF AccountsInv, AnyRole, People!Roles
  <1>2. CASE People!RegisterCommit(s)
    <2> DEFINE v == [op |-> "mail", at |-> "start", version |-> 0]
    <2>1. /\ work' = [work EXCEPT ![s] = v] /\ UNCHANGED <<bearer, key>>
          /\ ~People!Registered
      BY <1>2 DEF People!RegisterCommit
    <2>2. account' = [role |-> "customer", version |-> 0, verified |-> FALSE,
                      google |-> FALSE]
      BY <1>2 DEF People!RegisterCommit, People!Nobody
    <2>3. account' \in AccountRow /\ account'.role # None
      BY ONLY <1>1, <2>2 DEF AccountRow
    <2>4. bearer' = {}
      BY <2>1 DEF AccountsInv
    <2>5. "op" \in DOMAIN v /\ v.op \notin {"login", "google", "key"}
      OBVIOUS
    <2> HIDE DEF v
    <2> QED BY <2>1, <2>3, <2>4, <2>5, PeopleBegin
  <1>3. CASE People!GoogleCommit(s) /\ ~work[s].linked
    <2> DEFINE token == [version |-> account'.version, role |-> account'.role]
               role == IF work[s].found THEN account.role ELSE "customer"
    <2>1. /\ work' = [work EXCEPT ![s] = People!Idle] /\ UNCHANGED key
          /\ bearer' = bearer \cup {token}
          /\ work[s].found <=> People!Registered
          /\ account' = [account EXCEPT !.google = TRUE, !.verified = TRUE,
                                        !.role = role]
      BY <1>3 DEF People!GoogleCommit, People!Finish
    <2>2. role \in AnyRole
      BY <1>1 DEF AccountRow
    <2> HIDE DEF role
    <2>3. /\ account' \in AccountRow /\ account'.version = account.version
          /\ account'.role = role
      BY ONLY <1>1, <2>1, <2>2 DEF AccountRow
    <2>4. account.version \in Int
      BY ONLY <1>1 DEF AccountRow
    <2>5. IssuesOK(People!Idle) /\ \A t \in Sessions : IssuesOK(work[t])
      BY DEF AccountsInv, People!Idle, IssuesOK, Issues
    <2>6. token.version = account.version /\ token.role = role
      BY ONLY <2>3
    <2>7. CASE People!Registered
      <3>1. account'.role = account.role
        BY <2>1, <2>3, <2>7 DEF role
      <3>2. Proper(token)
        BY ONLY <2>3, <2>4, <2>6, <3>1 DEF Proper
      <3> HIDE DEF token
      <3>3. \A b \in bearer' : Proper(b)
        BY <2>1, <3>2 DEF AccountsInv
      <3>4. key' = [k \in Keys |-> key'[k]] /\ \A k \in Keys : KeyOK(key'[k])
        BY <2>1 DEF AccountsInv
      <3>5. DOMAIN work' = Sessions /\ \A t \in Sessions : IssuesOK(work'[t])
        BY <2>1, <2>5 DEF AccountsInv
      <3> QED BY <2>3, <2>7, <3>1, <3>3, <3>4, <3>5, PeopleSame
    <2>8. CASE ~People!Registered
      <3>1. account'.role = "customer"
        BY <2>1, <2>3, <2>8 DEF role
      <3>2. \A b \in bearer' : b.version = account.version /\ b.role = role
        BY <2>1, <2>6, <2>8 DEF AccountsInv
      <3>3. ASSUME NEW b \in bearer'
            PROVE  Proper(b)'
        BY ONLY <2>3, <2>4, <3>2 DEF Proper
      <3>4. \A b \in bearer' : Proper(b)'
        BY <3>3
      <3>5. /\ "op" \in DOMAIN People!Idle
            /\ People!Idle.op \notin {"login", "google", "key"}
        BY DEF People!Idle
      <3> QED BY <1>1, <2>1, <2>3, <2>8, <3>1, <3>4, <3>5, PeopleBegin
    <2> QED BY <2>7, <2>8
  <1> QED BY <1>2, <1>3

LEMMA PeopleRevokes ==
  ASSUME AccountsInv,
         \/ \E role \in People!Roles : People!Provision(role)
         \/ \E s \in Sessions :
              \/ People!LogoutCommit(s) \/ People!ConfirmCommit(s)
              \/ People!DecideCommit(s) /\ work[s].answer = "approved"
  PROVE  AccountsInv'
  <1>1. /\ account \in AccountRow /\ account.role \in AnyRole
        /\ account = [account EXCEPT !.role = account.role]
    <2>1. account \in AccountRow
      BY DEF AccountsInv
    <2> QED BY ONLY <2>1 DEF AccountRow
  <1>2. ASSUME NEW role \in People!Roles, People!NewRole(role), UNCHANGED bearer,
               \/ UNCHANGED work
               \/ \E s \in Sessions : work' = [work EXCEPT ![s] = People!Idle]
        PROVE  AccountsInv'
    <2>1. role \in AnyRole /\ role # None
      BY AccountsAssumption DEF AnyRole, People!Roles
    <2>2. /\ account' = [account EXCEPT !.version = @ + 1, !.role = role]
          /\ key' = People!KeysRevoked
      BY <1>1, <1>2 DEF People!NewRole, AccountRow
    <2> QED BY <1>2, <2>1, <2>2, PeopleNewVersion
  <1>3. ASSUME NEW s \in Sessions, People!LogoutCommit(s) \/ People!ConfirmCommit(s)
        PROVE  AccountsInv'
    <2>1. /\ account' = [account EXCEPT !.version = @ + 1]
          /\ key' = People!KeysRevoked /\ UNCHANGED bearer
          /\ work' = [work EXCEPT ![s] = People!Idle]
      BY <1>3 DEF People!LogoutCommit, People!ConfirmCommit, People!Finish
    <2>2. account' = [account EXCEPT !.version = @ + 1, !.role = account.role]
      BY ONLY <1>1, <2>1 DEF AccountRow
    <2>3. People!Registered => account.role # None
      BY DEF People!Registered
    <2> QED BY <1>1, <2>1, <2>2, <2>3, PeopleNewVersion
  <1>4. ASSUME NEW s \in Sessions, People!DecideCommit(s), work[s].answer = "approved"
        PROVE  AccountsInv'
    <2>1. /\ People!NewRole("owner") /\ UNCHANGED bearer
          /\ work' = [work EXCEPT ![s] = People!Idle]
      BY <1>4 DEF People!DecideCommit, People!Finish
    <2>2. "owner" \in People!Roles
      BY DEF People!Roles
    <2> QED BY <1>2, <2>1, <2>2
  <1>5. ASSUME NEW role \in People!Roles, People!Provision(role)
        PROVE  AccountsInv'
    <2>1. People!NewRole(role) /\ UNCHANGED <<bearer, work>>
      BY <1>5 DEF People!Provision
    <2> QED BY <1>2, <2>1
  <1> QED BY <1>3, <1>4, <1>5

\* Time passes, or the address is verified.
LEMMA PeopleRests ==
  ASSUME AccountsInv, UNCHANGED <<bearer, key, work>>,
         UNCHANGED account \/ account' = [account EXCEPT !.verified = TRUE]
  PROVE  AccountsInv'
  <1>1. account \in AccountRow
    BY DEF AccountsInv
  <1>2. /\ account' \in AccountRow /\ account'.version = account.version
        /\ account'.role = account.role /\ account'.google = account.google
    BY <1>1 DEF AccountRow
  <1> QED BY <1>2, PeopleSame DEF AccountsInv

LEMMA PeopleStep == ASSUME AccountsInv, People!Next PROVE AccountsInv'
  <1>1. CASE People!Tick
    BY <1>1, PeopleRests DEF People!Tick
  <1>2. ASSUME NEW s \in Sessions, NEW l \in Links, People!Verify(s, l)
        PROVE  AccountsInv'
    BY <1>2, PeopleRests DEF People!Verify
  <1>3. ASSUME NEW role \in People!Roles, People!Provision(role)
        PROVE  AccountsInv'
    BY <1>3, PeopleRevokes
  <1>4. ASSUME NEW s \in Sessions,
               \/ People!RegisterRead(s) \/ People!LoginRead(s) \/ People!GoogleRead(s)
               \/ People!ResetAsk(s) \/ \E op \in ops : People!Authenticate(s, op)
               \/ \E r \in Resets : People!ConfirmRead(s, r)
               \/ \E i \in DOMAIN application, answer \in {"approved", "rejected"} :
                    People!DecideRead(s, i, answer)
        PROVE  AccountsInv'
    BY <1>4, PeopleReads
  <1>5. ASSUME NEW s \in Sessions,
               \/ People!LogoutLock(s) \/ People!KeyLock(s) \/ People!ResetLock(s)
               \/ People!MailLock(s) \/ People!ApplyLock(s)
        PROVE  AccountsInv'
    BY <1>5, PeopleLocks
  <1>6. ASSUME NEW s \in Sessions,
               \/ People!LoginIssue(s) \/ People!Abort(s) \/ People!ApplyCommit(s)
               \/ \E r \in Resets : People!ResetCommit(s, r)
               \/ \E l \in Links : People!MailCommit(s, l)
        PROVE  AccountsInv'
    BY <1>6, PeopleCommits
  <1>7. ASSUME NEW s \in Sessions,
               \/ People!LogoutCommit(s) \/ People!ConfirmCommit(s)
               \/ People!DecideCommit(s) \/ People!GoogleCommit(s)
               \/ People!RegisterCommit(s)
        PROVE  AccountsInv'
    BY <1>7, PeopleCommits, PeopleRevokes, PeopleSignsUp
  <1>8. ASSUME NEW s \in Sessions, NEW k \in Keys,
               \/ People!KeyRevoke(s, k) \/ \E until : People!KeyCommit(s, k, until)
        PROVE  AccountsInv'
    BY <1>8, PeopleKeys
  <1> QED
    BY <1>1, <1>2, <1>3, <1>4, <1>5, <1>6, <1>7, <1>8 DEF People!Next

-----------------------------------------------------------------------------
(* What the lock of an account keeps single.                                 *)

LinkRow == [status : {"none", "live", "used"}, at : Int]
KeyRow == [status : {"none", "live", "revoked"}, until : Int, role : AnyRole]
ApplicationRow == [status : {"pending", "approved", "rejected"}, at : Int]

LinkRows ==
  /\ now \in Int /\ reset \in [Resets -> LinkRow] /\ link \in [Links -> LinkRow]
KeyRows == ops \in AccountMixes /\ key \in [Keys -> KeyRow]

\* At most one row is live; only the last request for the owner role is pending.
LiveOnce(rows) == \A i, j \in DOMAIN rows :
                    People!Live(rows[i]) /\ People!Live(rows[j]) => i = j
LastPending ==
  /\ application \in Seq(ApplicationRow)
  /\ \A i \in DOMAIN application :
       application[i].status = "pending" => i = Len(application)

\* What a request carries from its first read.
Carries(w) ==
  /\ {"op", "at"} \subseteq DOMAIN w
  /\ w.op = "logout" => "version" \in DOMAIN w /\ People!Registered
  /\ w.op = "confirm" => w.row \in Resets
  /\ w.op = "decide" => w.answer \in {"approved", "rejected"}

Locked(w) == w.at = "locked"

\* What a request found under the account's lock.
Found(w) ==
  /\ w.op = "logout" => account.version = w.version
  /\ w.op = "key" => Cardinality(People!ActiveKeys) < MaxKeys
  /\ w.op = "apply" =>
       \A i \in DOMAIN application : application[i].status # "pending"

RowsSingle ==
  /\ LinkRows /\ KeyRows /\ LiveOnce(reset) /\ LiveOnce(link) /\ LastPending
  /\ Cardinality(People!ActiveKeys) <= MaxKeys

SinglesInv ==
  /\ RowsSingle /\ DOMAIN work = Sessions
  /\ \A s \in Sessions : Carries(work[s])
  /\ \A s \in Sessions : Locked(work[s]) => Found(work[s])
  /\ \A s, t \in Sessions : Locked(work[s]) /\ Locked(work[t]) => s = t

LEMMA SameCardinality == \A S : People!Cardinality(S) = Cardinality(S)
  BY DEF People!Cardinality, Cardinality

LEMMA KeysCounted ==
  /\ IsFiniteSet(People!ActiveKeys) /\ Cardinality(People!ActiveKeys) \in Nat
  /\ IsFiniteSet(People!ActiveKeys') /\ Cardinality(People!ActiveKeys') \in Nat
  <1>1. People!ActiveKeys \subseteq Keys /\ People!ActiveKeys' \subseteq Keys
    BY DEF People!ActiveKeys
  <1> QED BY <1>1, KeysAssumption, FS_Subset, FS_CardinalityType

LEMMA FewerKeys ==
  ASSUME People!ActiveKeys' \subseteq People!ActiveKeys
  PROVE  Cardinality(People!ActiveKeys') <= Cardinality(People!ActiveKeys)
  BY KeysCounted, FS_Subset

LEMMA SinglesStart == People!Init => SinglesInv
  <1> SUFFICES ASSUME People!Init PROVE SinglesInv
    OBVIOUS
  <1>1. LinkRows /\ LiveOnce(reset) /\ LiveOnce(link)
    BY DEF People!Init, LinkRows, LinkRow, LiveOnce, People!NoLink, People!Live
  <1>2. KeyRows /\ People!ActiveKeys = {}
    BY DEF People!Init, KeyRows, KeyRow, AnyRole, People!NoKey, People!ActiveKeys,
       People!KeyWorks, People!Live
  <1>3. LastPending
    BY DEF People!Init, LastPending
  <1>4. Cardinality(People!ActiveKeys) <= MaxKeys
    BY <1>2, FS_EmptySet, KeysAssumption
  <1>5. \A s \in Sessions : work[s] = People!Idle
    BY DEF People!Init
  <1> QED
    BY <1>1, <1>2, <1>3, <1>4, <1>5 DEF People!Init, SinglesInv, RowsSingle, Carries,
       Locked, People!Idle

\* The rows are as they must be; requests that still hold the lock find the
\* account as they found it.
LEMMA SinglesMove ==
  ASSUME SinglesInv, RowsSingle', DOMAIN work' = Sessions,
         People!Registered => People!Registered',
         \A s \in Sessions :
           work'[s] = work[s] \/ (~Locked(work'[s]) /\ Carries(work[s])'),
         \/ \A s \in Sessions : ~Locked(work'[s])
         \/ /\ People!Registered => account'.version = account.version
            /\ application' = application
            /\ Cardinality(People!ActiveKeys') <= Cardinality(People!ActiveKeys)
  PROVE  SinglesInv'
  <1>1. ASSUME NEW s \in Sessions PROVE Carries(work[s])'
    BY DEF SinglesInv, Carries
  <1>2. ASSUME NEW s \in Sessions, Locked(work'[s]) PROVE Found(work[s])'
    <2>1. work'[s] = work[s] /\ Found(work[s]) /\ Carries(work[s])
      BY <1>2 DEF SinglesInv
    <2> QED BY <1>2, <2>1, KeysCounted, KeysAssumption DEF Found, Carries
  <1>3. \A s, t \in Sessions : Locked(work'[s]) /\ Locked(work'[t]) => s = t
    BY DEF SinglesInv
  <1> QED BY <1>1, <1>2, <1>3 DEF SinglesInv, Locked

\* A request is begun or given up.
LEMMA SinglesWork ==
  ASSUME SinglesInv, NEW s \in Sessions, NEW w, work' = [work EXCEPT ![s] = w],
         ~Locked(w), Carries(w),
         UNCHANGED <<ops, now, account, key, reset, link, application>>
  PROVE  SinglesInv'
  <1>1. RowsSingle'
    BY DEF SinglesInv, RowsSingle, LinkRows, KeyRows, LiveOnce, LastPending,
       People!ActiveKeys, People!KeyWorks, People!Live
  <1>2. People!Registered <=> People!Registered'
    BY DEF People!Registered
  <1>3. People!ActiveKeys' = People!ActiveKeys
    BY DEF People!ActiveKeys, People!KeyWorks, People!Live
  <1>4. \A t \in Sessions : work'[t] = IF t = s THEN w ELSE work[t]
    BY DEF SinglesInv
  <1>5. Carries(w)'
    BY <1>2 DEF Carries
  <1>6. \A t \in Sessions :
          work'[t] = work[t] \/ (~Locked(work'[t]) /\ Carries(work[t])')
    BY <1>4, <1>5
  <1> QED BY <1>1, <1>2, <1>3, <1>6, SinglesMove, KeysCounted DEF SinglesInv

LEMMA SinglesReads ==
  ASSUME SinglesInv, UNCHANGED ops, NEW s \in Sessions,
         \/ People!RegisterRead(s) \/ People!LoginRead(s) \/ People!GoogleRead(s)
         \/ People!ResetAsk(s) \/ People!Abort(s) \/ People!LoginIssue(s)
         \/ \E op \in ops : People!Authenticate(s, op)
         \/ \E r \in Resets : People!ConfirmRead(s, r)
         \/ \E i \in DOMAIN application, answer \in {"approved", "rejected"} :
              People!DecideRead(s, i, answer)
  PROVE  SinglesInv'
  <1> USE DEF People!Start, People!Finish
  <1>1. UNCHANGED <<ops, now, account, key, reset, link, application>>
    BY DEF People!RegisterRead, People!LoginRead, People!GoogleRead, People!ResetAsk,
       People!Abort, People!LoginIssue, People!Authenticate, People!ConfirmRead,
       People!DecideRead
  <1>2. CASE People!RegisterRead(s)
    <2>1. work' = [work EXCEPT ![s] = [op |-> "register", at |-> "start"]]
      BY <1>2 DEF People!RegisterRead
    <2>2. PICK w : w = [op |-> "register", at |-> "start"]
      OBVIOUS
    <2>3. ~Locked(w) /\ Carries(w)
      BY <2>2 DEF Locked, Carries
    <2> QED BY <1>1, <2>1, <2>2, <2>3, SinglesWork
  <1>3. CASE People!LoginRead(s)
    <2>1. PICK t : work' = [work EXCEPT ![s] =
                     [op |-> "login", at |-> "start", token |-> t]]
      BY <1>3 DEF People!LoginRead
    <2>2. PICK w : w = [op |-> "login", at |-> "start", token |-> t]
      OBVIOUS
    <2>3. ~Locked(w) /\ Carries(w)
      BY <2>2 DEF Locked, Carries
    <2> QED BY <1>1, <2>1, <2>2, <2>3, SinglesWork
  <1>4. CASE People!GoogleRead(s)
    <2>1. PICK f, l, t : work' = [work EXCEPT ![s] =
            [op |-> "google", at |-> "start", found |-> f, linked |-> l, token |-> t]]
      BY <1>4 DEF People!GoogleRead
    <2>2. PICK w : w = [op |-> "google", at |-> "start", found |-> f, linked |-> l, token |-> t]
      OBVIOUS
    <2>3. ~Locked(w) /\ Carries(w)
      BY <2>2 DEF Locked, Carries
    <2> QED BY <1>1, <2>1, <2>2, <2>3, SinglesWork
  <1>5. CASE People!ResetAsk(s)
    <2>1. work' = [work EXCEPT ![s] = [op |-> "reset", at |-> "start"]]
      BY <1>5 DEF People!ResetAsk
    <2>2. PICK w : w = [op |-> "reset", at |-> "start"]
      OBVIOUS
    <2>3. ~Locked(w) /\ Carries(w)
      BY <2>2 DEF Locked, Carries
    <2> QED BY <1>1, <2>1, <2>2, <2>3, SinglesWork
  <1>6. CASE People!Abort(s) \/ People!LoginIssue(s)
    <2>1. work' = [work EXCEPT ![s] = People!Idle]
      BY <1>6 DEF People!Abort, People!LoginIssue
    <2>2. ~Locked(People!Idle) /\ Carries(People!Idle)
      BY DEF Locked, Carries, People!Idle
    <2> QED BY <1>1, <2>1, <2>2, SinglesWork
  <1>7. ASSUME NEW op \in ops, People!Authenticate(s, op) PROVE SinglesInv'
    <2>1. /\ work' = [work EXCEPT ![s] =
               [op |-> op, at |-> "start", version |-> account.version]]
          /\ op \in {"logout", "key", "mail", "apply"} /\ People!Registered
      BY <1>7 DEF People!Authenticate
    <2>2. PICK w : w = [op |-> op, at |-> "start", version |-> account.version]
      OBVIOUS
    <2>3. ~Locked(w) /\ Carries(w)
      BY <2>1, <2>2 DEF Locked, Carries
    <2> QED BY <1>1, <2>1, <2>2, <2>3, SinglesWork
  <1>8. ASSUME NEW r \in Resets, People!ConfirmRead(s, r) PROVE SinglesInv'
    <2>1. work' = [work EXCEPT ![s] = [op |-> "confirm", at |-> "start", row |-> r]]
      BY <1>8 DEF People!ConfirmRead
    <2>2. PICK w : w = [op |-> "confirm", at |-> "start", row |-> r]
      OBVIOUS
    <2>3. ~Locked(w) /\ Carries(w)
      BY <2>2 DEF Locked, Carries
    <2> QED BY <1>1, <2>1, <2>2, <2>3, SinglesWork
  <1>9. ASSUME NEW i \in DOMAIN application, NEW answer \in {"approved", "rejected"},
               People!DecideRead(s, i, answer)
        PROVE  SinglesInv'
    <2>1. work' = [work EXCEPT ![s] =
            [op |-> "decide", at |-> "start", row |-> i, answer |-> answer]]
      BY <1>9 DEF People!DecideRead
    <2>2. PICK w : w = [op |-> "decide", at |-> "start", row |-> i, answer |-> answer]
      OBVIOUS
    <2>3. ~Locked(w) /\ Carries(w)
      BY <2>2 DEF Locked, Carries
    <2> QED BY <1>1, <2>1, <2>2, <2>3, SinglesWork
  <1> QED BY <1>2, <1>3, <1>4, <1>5, <1>6, <1>7, <1>8, <1>9

LEMMA SinglesLock ==
  ASSUME SinglesInv, UNCHANGED ops, NEW s \in Sessions,
         \/ People!LogoutLock(s) \/ People!KeyLock(s) \/ People!ResetLock(s)
         \/ People!MailLock(s) \/ People!ApplyLock(s)
  PROVE  SinglesInv'
  <1> USE DEF People!LogoutLock, People!KeyLock, People!ResetLock, People!MailLock,
          People!ApplyLock
  <1>1. /\ UNCHANGED <<ops, now, account, key, reset, link, application>>
        /\ work' = [work EXCEPT ![s].at = "locked"] /\ People!UserFree
    BY DEF People!Lock
  <1>2. RowsSingle'
    BY <1>1 DEF SinglesInv, RowsSingle, LinkRows, KeyRows, LiveOnce, LastPending,
       People!ActiveKeys, People!KeyWorks, People!Live
  <1>3. Found(work[s])
    <2>1. CASE People!LogoutLock(s)
      BY <2>1 DEF Found, People!Lock, People!At, People!SameSession
    <2>2. CASE People!KeyLock(s)
      BY <2>2, SameCardinality DEF Found, People!Lock, People!At
    <2>3. CASE People!ResetLock(s) \/ People!MailLock(s)
      BY <2>3 DEF Found, People!Lock, People!At
    <2>4. CASE People!ApplyLock(s)
      <3>1. \A i \in DOMAIN application : application[i].status # "pending"
        BY <2>4 DEF SinglesInv, RowsSingle, LastPending
      <3> QED BY <2>4, <3>1 DEF Found, People!Lock, People!At
    <2> QED BY <2>1, <2>2, <2>3, <2>4
  <1> HIDE DEF People!LogoutLock, People!KeyLock, People!ResetLock, People!MailLock,
               People!ApplyLock
  <1>4. \A t \in Sessions : work'[t] = IF t = s THEN [work[s] EXCEPT !.at = "locked"]
                                       ELSE work[t]
    BY <1>1 DEF SinglesInv
  <1>5. ASSUME NEW t \in Sessions PROVE Carries(work[t])'
    <2>1. Carries(work[t])
      BY DEF SinglesInv
    <2> QED BY <1>1, <1>4, <2>1 DEF Carries, People!Registered
  <1>6. ASSUME NEW t \in Sessions, Locked(work'[t]) PROVE t = s
    BY <1>1, <1>4, <1>6 DEF Locked, People!UserFree
  <1>7. Found(work[s])'
    <2>1. Carries(work[s])
      BY DEF SinglesInv
    <2>2. People!ActiveKeys' = People!ActiveKeys
      BY <1>1 DEF People!ActiveKeys, People!KeyWorks, People!Live
    <2> QED BY <1>1, <1>3, <1>4, <2>1, <2>2 DEF Found, Carries
  <1>8. DOMAIN work' = Sessions
    BY <1>1 DEF SinglesInv
  <1>9. ASSUME NEW t \in Sessions, Locked(work'[t]) PROVE Found(work[t])'
    BY <1>6, <1>7, <1>9
  <1>10. ASSUME NEW t \in Sessions, NEW u \in Sessions, Locked(work'[t]), Locked(work'[u])
         PROVE  t = u
    BY <1>6, <1>10
  <1> QED
    BY <1>2, <1>5, <1>8, <1>9, <1>10 DEF SinglesInv, Locked

-----------------------------------------------------------------------------
(* Commits under the account's lock. *)

LEMMA UsedRows ==
  ASSUME NEW R, NEW rows \in [R -> LinkRow]
  PROVE  /\ People!Used(rows) \in [R -> LinkRow]
         /\ \A i \in R : ~People!Live(People!Used(rows)[i])
  BY DEF People!Used, People!Live, LinkRow

\* A new link takes the place of those that were live.
LEMMA OnlyNewLink ==
  ASSUME NEW R, NEW rows \in [R -> LinkRow], NEW r \in R, NEW at \in Int
  PROVE  /\ [People!Used(rows) EXCEPT ![r] = [status |-> "live", at |-> at]]
              \in [R -> LinkRow]
         /\ LiveOnce([People!Used(rows) EXCEPT ![r] = [status |-> "live", at |-> at]])
  <1>1. People!Used(rows) \in [R -> LinkRow]
        /\ \A i \in R : ~People!Live(People!Used(rows)[i])
    BY UsedRows
  <1>2. [status |-> "live", at |-> at] \in LinkRow
    BY DEF LinkRow
  <1> QED BY <1>1, <1>2 DEF LiveOnce

\* Keys are revoked: none is active any more.
LEMMA RevokedKeys ==
  ASSUME KeyRows, key' = People!KeysRevoked, UNCHANGED <<ops, now>>
  PROVE  KeyRows' /\ People!ActiveKeys' \subseteq People!ActiveKeys
  <1>1. KeyRows'
    BY DEF KeyRows, KeyRow, People!KeysRevoked, People!Live
  <1>2. \A k \in Keys : ~People!Live(key'[k])
    BY DEF KeyRows, KeyRow, People!KeysRevoked, People!Live
  <1> QED BY <1>1, <1>2 DEF People!ActiveKeys, People!KeyWorks, People!Live

\* Who commits under the lock, or while nobody has it, leaves it free.
LEMMA SinglesCommit ==
  ASSUME SinglesInv, RowsSingle', NEW s \in Sessions,
         People!Registered => People!Registered',
         \/ Locked(work[s]) \/ People!UserFree,
         work' = [work EXCEPT ![s] = People!Idle]
  PROVE  SinglesInv'
  <1>1. \A t \in Sessions : work'[t] = IF t = s THEN People!Idle ELSE work[t]
    BY DEF SinglesInv
  <1>2. \A t \in Sessions : ~Locked(work'[t])
    BY <1>1 DEF SinglesInv, Locked, People!UserFree, People!Idle
  <1>3. Carries(People!Idle)'
    BY DEF Carries, People!Idle
  <1>4. \A t \in Sessions :
          work'[t] = work[t] \/ (~Locked(work'[t]) /\ Carries(work[t])')
    BY <1>1, <1>2, <1>3 DEF Carries, People!Idle
  <1>5. DOMAIN work' = Sessions
    BY DEF SinglesInv
  <1> QED BY <1>2, <1>4, <1>5, SinglesMove

LEMMA KeyRowsKept ==
  ASSUME KeyRows, UNCHANGED <<ops, now, key>>
  PROVE  KeyRows' /\ People!ActiveKeys' = People!ActiveKeys
  BY DEF KeyRows, People!ActiveKeys, People!KeyWorks, People!Live

LEMMA AnswerKeeps ==
  ASSUME LastPending, NEW r, NEW a \in {"approved", "rejected"},
         application' = [application EXCEPT ![r].status = a]
  PROVE  LastPending'
  <1>1. /\ DOMAIN application' = DOMAIN application
        /\ \A i \in DOMAIN application :
             application'[i] = IF i = r THEN [application[i] EXCEPT !.status = a]
                                       ELSE application[i]
    BY DEF LastPending
  <1>2. /\ Len(application) \in Nat /\ DOMAIN application = 1..Len(application)
        /\ \A i \in DOMAIN application : application[i] \in ApplicationRow
    BY DEF LastPending
  <1>3. \A i \in DOMAIN application : application'[i] \in ApplicationRow
    BY <1>1, <1>2 DEF ApplicationRow
  <1>4. application' = [i \in 1..Len(application) |-> application'[i]]
    BY <1>1, <1>2 DEF LastPending
  <1>5. application' \in Seq(ApplicationRow) /\ Len(application') = Len(application)
    <2>1. application' \in [1..Len(application) -> ApplicationRow]
      BY <1>2, <1>3, <1>4
    <2> QED BY <1>2, <2>1, SeqDef
  <1> QED BY <1>1, <1>2, <1>5 DEF LastPending, ApplicationRow

\* A logout, a reset or a change of role.
LEMMA SinglesRevokes ==
  ASSUME SinglesInv, account \in AccountRow, UNCHANGED ops, NEW s \in Sessions,
         People!LogoutCommit(s) \/ People!ConfirmCommit(s) \/ People!DecideCommit(s)
  PROVE  SinglesInv'
  <1> USE DEF People!Finish
  <1>1. /\ work' = [work EXCEPT ![s] = People!Idle]
        /\ Locked(work[s]) \/ People!UserFree
        /\ UNCHANGED <<ops, now, link>>
    <2>1. CASE People!LogoutCommit(s)
      BY <2>1 DEF People!LogoutCommit, People!At, Locked
    <2>2. CASE People!ConfirmCommit(s)
      BY <2>2 DEF People!ConfirmCommit
    <2>3. CASE People!DecideCommit(s)
      BY <2>3 DEF People!DecideCommit
    <2> QED BY <2>1, <2>2, <2>3
  <1>2. People!Registered => People!Registered'
    <2>1. CASE UNCHANGED account
      BY <2>1 DEF People!Registered
    <2>2. CASE account' = [account EXCEPT !.version = @ + 1]
      BY <2>2 DEF People!Registered, AccountRow
    <2>3. CASE account' = [account EXCEPT !.role = "owner", !.version = @ + 1]
      BY <2>3, AccountsAssumption DEF People!Registered, AccountRow
    <2> QED
      BY <2>1, <2>2, <2>3 DEF People!LogoutCommit, People!ConfirmCommit,
         People!DecideCommit, People!NewRole
  <1>3. KeyRows' /\ People!ActiveKeys' \subseteq People!ActiveKeys
    <2>1. key' = People!KeysRevoked \/ UNCHANGED key
      BY DEF People!LogoutCommit, People!ConfirmCommit, People!DecideCommit,
         People!NewRole
    <2> QED BY <1>1, <2>1, RevokedKeys, KeyRowsKept DEF SinglesInv, RowsSingle
  <1>4. LinkRows' /\ LiveOnce(reset)' /\ LiveOnce(link)'
    <2>1. reset' = People!Used(reset) \/ UNCHANGED reset
      BY DEF People!LogoutCommit, People!ConfirmCommit, People!DecideCommit
    <2>2. LinkRows /\ LiveOnce(reset) /\ LiveOnce(link)
      BY DEF SinglesInv, RowsSingle
    <2>3. /\ People!Used(reset) \in [Resets -> LinkRow]
          /\ \A i \in Resets : ~People!Live(People!Used(reset)[i])
      BY <2>2, UsedRows DEF LinkRows
    <2> QED BY <1>1, <2>1, <2>2, <2>3 DEF LinkRows, LiveOnce, People!Live
  <1>5. LastPending'
    <2>1. CASE People!DecideCommit(s)
      <3> DEFINE a == work[s].answer
      <3>1. a \in {"approved", "rejected"}
        BY <2>1 DEF SinglesInv, Carries, People!DecideCommit, People!At
      <3>2. application' = [application EXCEPT ![work[s].row].status = a]
        BY <2>1 DEF People!DecideCommit
      <3>3. LastPending
        BY DEF SinglesInv, RowsSingle
      <3> HIDE DEF a
      <3> QED BY <3>1, <3>2, <3>3, AnswerKeeps
    <2>2. CASE People!LogoutCommit(s) \/ People!ConfirmCommit(s)
      <3>1. UNCHANGED application
        BY <2>2 DEF People!LogoutCommit, People!ConfirmCommit
      <3> QED BY <3>1 DEF SinglesInv, RowsSingle, LastPending
    <2> QED BY <2>1, <2>2
  <1>6. RowsSingle'
    <2>1. Cardinality(People!ActiveKeys') <= MaxKeys
      BY <1>3, FewerKeys, KeysCounted, KeysAssumption DEF SinglesInv, RowsSingle
    <2> QED BY <1>3, <1>4, <1>5, <2>1 DEF RowsSingle
  <1> HIDE DEF People!Finish
  <1> QED BY <1>1, <1>2, <1>6, SinglesCommit

\* A new key, reset link, verification link or request for the owner role.
LEMMA SinglesInserts ==
  ASSUME SinglesInv, account \in AccountRow, UNCHANGED ops, NEW s \in Sessions,
         \/ \E k \in Keys : \/ People!KeyRevoke(s, k)
                          \/ \E until \in {now + Life, People!Forever} :
                               People!KeyCommit(s, k, until)
         \/ \E r \in Resets : People!ResetCommit(s, r)
         \/ \E l \in Links : People!MailCommit(s, l)
         \/ People!ApplyCommit(s)
  PROVE  SinglesInv'
  <1> USE DEF People!Finish
  <1>1. RowsSingle /\ now \in Int
    BY DEF SinglesInv, RowsSingle, LinkRows
  <1>2. ASSUME NEW k \in Keys, People!KeyRevoke(s, k) PROVE SinglesInv'
    <2>1. /\ key' = [key EXCEPT ![k].status = "revoked"]
          /\ work' = [work EXCEPT ![s] = People!Idle]
          /\ UNCHANGED <<now, account, reset, link, application>>
      BY <1>2 DEF People!KeyRevoke
    <2>2. KeyRows' /\ People!ActiveKeys' \subseteq People!ActiveKeys
      <3>1. KeyRows'
        BY <1>1, <2>1 DEF RowsSingle, KeyRows, KeyRow
      <3>2. \A q \in Keys : key'[q] = IF q = k THEN [key[k] EXCEPT !.status = "revoked"]
                                              ELSE key[q]
        BY <1>1, <2>1 DEF RowsSingle, KeyRows
      <3>3. key[k] \in KeyRow
        BY <1>1 DEF RowsSingle, KeyRows
      <3>4. ~People!Live([key[k] EXCEPT !.status = "revoked"])
        BY <3>3 DEF KeyRow, People!Live
      <3> QED
        BY <2>1, <3>1, <3>2, <3>4 DEF People!ActiveKeys, People!KeyWorks, People!Live
    <2>3. Cardinality(People!ActiveKeys') <= Cardinality(People!ActiveKeys)
      BY <2>2, FewerKeys
    <2>4. RowsSingle'
      <3>1. LinkRows' /\ LiveOnce(reset)' /\ LiveOnce(link)' /\ LastPending'
        BY <1>1, <2>1 DEF RowsSingle, LinkRows, LiveOnce, LastPending, People!Live
      <3>2. Cardinality(People!ActiveKeys') <= MaxKeys
        BY <1>1, <2>3, KeysCounted, KeysAssumption DEF RowsSingle
      <3> QED BY <2>2, <3>1, <3>2 DEF RowsSingle
    <2>5. \A t \in Sessions : work'[t] = IF t = s THEN People!Idle ELSE work[t]
      BY <2>1 DEF SinglesInv
    <2>6. ~Locked(People!Idle) /\ Carries(People!Idle)'
      BY DEF Locked, Carries, People!Idle
    <2>7. \A t \in Sessions :
            work'[t] = work[t] \/ (~Locked(work'[t]) /\ Carries(work[t])')
      BY <2>5, <2>6 DEF Carries, People!Idle
    <2>8. DOMAIN work' = Sessions /\ (People!Registered => People!Registered')
      BY <2>1 DEF SinglesInv, People!Registered
    <2> QED BY <2>1, <2>3, <2>4, <2>7, <2>8, SinglesMove
  <1>3. ASSUME NEW k \in Keys, NEW until \in {now + Life, People!Forever},
               People!KeyCommit(s, k, until)
        PROVE  SinglesInv'
    <2>1. /\ key' = [key EXCEPT ![k] =
               [status |-> "live", until |-> until, role |-> account.role]]
          /\ work' = [work EXCEPT ![s] = People!Idle]
          /\ UNCHANGED <<now, account, reset, link, application>>
      BY <1>3 DEF People!KeyCommit
    <2>2. Locked(work[s]) /\ work[s].op = "key"
      BY <1>3 DEF People!KeyCommit, People!At, Locked
    <2>3. Cardinality(People!ActiveKeys) < MaxKeys
      BY <2>2 DEF SinglesInv, Found
    <2>4. People!ActiveKeys' \subseteq People!ActiveKeys \cup {k}
      <3>1. \A q \in Keys \ {k} : key'[q] = key[q]
        BY <1>1, <2>1 DEF RowsSingle, KeyRows
      <3> QED
        BY <2>1, <3>1 DEF People!ActiveKeys, People!KeyWorks, People!Live
    <2>5. Cardinality(People!ActiveKeys') <= MaxKeys
      <3>1. /\ IsFiniteSet(People!ActiveKeys \cup {k})
            /\ Cardinality(People!ActiveKeys \cup {k}) \in Nat
            /\ Cardinality(People!ActiveKeys \cup {k}) <= Cardinality(People!ActiveKeys) + 1
        <4>1. IsFiniteSet(People!ActiveKeys) /\ Cardinality(People!ActiveKeys) \in Nat
          BY KeysCounted
        <4>2. /\ IsFiniteSet(People!ActiveKeys \cup {k})
              /\ \/ Cardinality(People!ActiveKeys \cup {k}) = Cardinality(People!ActiveKeys)
                 \/ Cardinality(People!ActiveKeys \cup {k})
                       = Cardinality(People!ActiveKeys) + 1
          BY <4>1, FS_AddElement
        <4> QED BY <4>1, <4>2
      <3>2. Cardinality(People!ActiveKeys') <= Cardinality(People!ActiveKeys \cup {k})
        BY <2>4, <3>1, FS_Subset
      <3> QED BY <2>3, <3>1, <3>2, KeysCounted, KeysAssumption
    <2>6. KeyRows'
      <3>1. until \in Int
        BY <1>1, KeysAssumption DEF RowsSingle, KeyRows, People!Forever
      <3>2. account.role \in AnyRole
        BY DEF AccountRow
      <3> QED BY <1>1, <2>1, <3>1, <3>2 DEF RowsSingle, KeyRows, KeyRow
    <2>7. RowsSingle'
      BY <1>1, <2>1, <2>5, <2>6
      DEF RowsSingle, LinkRows, LiveOnce, LastPending, People!Live
    <2> QED BY <2>1, <2>2, <2>7, SinglesCommit DEF People!Registered
  <1>4. ASSUME NEW r \in Resets, People!ResetCommit(s, r) PROVE SinglesInv'
    <2>1. /\ reset' = [People!Used(reset) EXCEPT ![r] = [status |-> "live", at |-> now]]
          /\ work' = [work EXCEPT ![s] = People!Idle] /\ Locked(work[s])
          /\ UNCHANGED <<now, account, key, link, application>>
      BY <1>4 DEF People!ResetCommit, People!At, Locked
    <2>2. reset' \in [Resets -> LinkRow] /\ LiveOnce(reset')
      <3>1. reset \in [Resets -> LinkRow]
        BY <1>1 DEF RowsSingle, LinkRows
      <3> QED BY <1>1, <2>1, <3>1, OnlyNewLink
    <2>3. RowsSingle'
      BY <1>1, <2>1, <2>2, KeyRowsKept
      DEF RowsSingle, LinkRows, LiveOnce, LastPending, People!Live
    <2> QED BY <2>1, <2>3, SinglesCommit DEF People!Registered
  <1>5. ASSUME NEW l \in Links, People!MailCommit(s, l) PROVE SinglesInv'
    <2>1. /\ link' = [People!Used(link) EXCEPT ![l] = [status |-> "live", at |-> now]]
          /\ work' = [work EXCEPT ![s] = People!Idle] /\ Locked(work[s])
          /\ UNCHANGED <<now, account, key, reset, application>>
      BY <1>5 DEF People!MailCommit, People!At, Locked
    <2>2. link' \in [Links -> LinkRow] /\ LiveOnce(link')
      <3>1. link \in [Links -> LinkRow]
        BY <1>1 DEF RowsSingle, LinkRows
      <3> QED BY <1>1, <2>1, <3>1, OnlyNewLink
    <2>3. RowsSingle'
      BY <1>1, <2>1, <2>2, KeyRowsKept
      DEF RowsSingle, LinkRows, LiveOnce, LastPending, People!Live
    <2> QED BY <2>1, <2>3, SinglesCommit DEF People!Registered
  <1>6. CASE People!ApplyCommit(s)
    <2>1. /\ application' = Append(application, [status |-> "pending", at |-> now])
          /\ work' = [work EXCEPT ![s] = People!Idle]
          /\ Locked(work[s]) /\ work[s].op = "apply"
          /\ UNCHANGED <<now, account, key, reset, link>>
      BY <1>6 DEF People!ApplyCommit, People!At, Locked
    <2>2. \A i \in DOMAIN application : application[i].status # "pending"
      BY <2>1 DEF SinglesInv, Found
    <2>3. LastPending'
      <3>1. [status |-> "pending", at |-> now] \in ApplicationRow
        BY <1>1 DEF ApplicationRow
      <3>2. application \in Seq(ApplicationRow)
        BY <1>1 DEF RowsSingle, LastPending
      <3>3. /\ application' \in Seq(ApplicationRow)
            /\ Len(application') = Len(application) + 1
            /\ \A i \in 1..Len(application) : application'[i] = application[i]
        BY <2>1, <3>1, <3>2, AppendProperties
      <3>4. /\ DOMAIN application = 1..Len(application) /\ Len(application) \in Nat
            /\ DOMAIN application' = 1..Len(application')
        BY <3>2, <3>3, LenProperties
      <3> QED BY <2>2, <3>3, <3>4 DEF LastPending
    <2>4. RowsSingle'
      BY <1>1, <2>1, <2>3, KeyRowsKept
      DEF RowsSingle, LinkRows, LiveOnce, People!Live
    <2> QED BY <2>1, <2>4, SinglesCommit DEF People!Registered
  <1> HIDE DEF People!Finish
  <1> QED BY <1>2, <1>3, <1>4, <1>5, <1>6

\* Signing up, linking and verifying leave the sessions' version as it is.
LEMMA SinglesSignUp ==
  ASSUME SinglesInv, account \in AccountRow, UNCHANGED ops, NEW s \in Sessions,
         \/ People!RegisterCommit(s) \/ People!GoogleCommit(s)
         \/ \E l \in Links : People!Verify(s, l)
  PROVE  SinglesInv'
  <1> USE DEF People!Finish
  <1>1. /\ UNCHANGED <<now, key, reset, application>>
        /\ link' = link \/ link' = People!Used(link)
    BY DEF People!RegisterCommit, People!GoogleCommit, People!Verify
  <1>2. RowsSingle
    BY DEF SinglesInv
  <1>3. link' \in [Links -> LinkRow] /\ LiveOnce(link')
    <2>1. link \in [Links -> LinkRow] /\ LiveOnce(link)
      BY <1>2 DEF RowsSingle, LinkRows
    <2>2. /\ People!Used(link) \in [Links -> LinkRow]
          /\ \A i \in Links : ~People!Live(People!Used(link)[i])
      BY <2>1, UsedRows
    <2> QED BY <1>1, <2>1, <2>2 DEF LiveOnce
  <1>4. RowsSingle' /\ People!ActiveKeys' = People!ActiveKeys
    BY <1>1, <1>2, <1>3, KeyRowsKept
    DEF RowsSingle, LinkRows, LiveOnce, LastPending, People!Live
  <1>5. Cardinality(People!ActiveKeys') <= Cardinality(People!ActiveKeys)
    BY <1>4, KeysCounted
  <1>6. CASE People!RegisterCommit(s)
    <2>1. PICK w : w = [op |-> "mail", at |-> "start", version |-> 0]
      OBVIOUS
    <2>2. work' = [work EXCEPT ![s] = w] /\ ~People!Registered
      BY <1>6, <2>1 DEF People!RegisterCommit
    <2>3. ~Locked(w) /\ Carries(w)'
      BY <2>1 DEF Locked, Carries
    <2>4. /\ DOMAIN work' = Sessions
          /\ \A t \in Sessions : work'[t] = IF t = s THEN w ELSE work[t]
      BY <2>2 DEF SinglesInv
    <2>5. \A t \in Sessions :
            work'[t] = work[t] \/ (~Locked(work'[t]) /\ Carries(work[t])')
      BY <2>3, <2>4 DEF Carries
    <2> QED BY <1>1, <1>4, <1>5, <2>2, <2>4, <2>5, SinglesMove
  <1>7. CASE People!GoogleCommit(s)
    <2>1. work' = [work EXCEPT ![s] = People!Idle]
      BY <1>7 DEF People!GoogleCommit
    <2>2. ~Locked(People!Idle) /\ Carries(People!Idle)'
      BY DEF Locked, Carries, People!Idle
    <2>3. /\ DOMAIN work' = Sessions
          /\ \A t \in Sessions : work'[t] = IF t = s THEN People!Idle ELSE work[t]
      BY <2>1 DEF SinglesInv
    <2>4. \A t \in Sessions :
            work'[t] = work[t] \/ (~Locked(work'[t]) /\ Carries(work[t])')
      BY <2>2, <2>3 DEF Carries, People!Idle
    <2>5. /\ account'.version = account.version
          /\ People!Registered => People!Registered'
      <3>1. CASE UNCHANGED account
        BY <3>1 DEF People!Registered
      <3>2. ASSUME NEW r, account' = [account EXCEPT !.google = TRUE, !.verified = TRUE,
                                                     !.role = r],
                   r \in {account.role, "customer"}
            PROVE  /\ account'.version = account.version
                   /\ People!Registered => People!Registered'
        BY <3>2, AccountsAssumption DEF AccountRow, People!Registered
      <3>3. \/ UNCHANGED account
            \/ account' = [account EXCEPT !.google = TRUE, !.verified = TRUE,
                            !.role = IF work[s].found THEN account.role ELSE "customer"]
        BY <1>7 DEF People!GoogleCommit
      <3> QED BY <3>1, <3>2, <3>3
    <2> QED BY <1>1, <1>4, <1>5, <2>3, <2>4, <2>5, SinglesMove
  <1>8. ASSUME NEW l \in Links, People!Verify(s, l) PROVE SinglesInv'
    <2>1. UNCHANGED work /\ account' = [account EXCEPT !.verified = TRUE]
      BY <1>8 DEF People!Verify
    <2>2. /\ account'.version = account.version
          /\ People!Registered => People!Registered'
      BY <2>1 DEF AccountRow, People!Registered
    <2>3. DOMAIN work' = Sessions /\ \A t \in Sessions : work'[t] = work[t]
      BY <2>1 DEF SinglesInv
    <2> QED BY <1>1, <1>4, <1>5, <2>2, <2>3, SinglesMove
  <1> HIDE DEF People!Finish
  <1> QED BY <1>6, <1>7, <1>8

LEMMA SinglesProvision ==
  ASSUME SinglesInv, account \in AccountRow, UNCHANGED ops, NEW role \in People!Roles,
         People!Provision(role)
  PROVE  SinglesInv'
  <1>1. /\ account' = [account EXCEPT !.role = role, !.version = @ + 1]
        /\ key' = People!KeysRevoked /\ People!UserFree
        /\ UNCHANGED <<now, reset, link, application, work>>
    BY DEF People!Provision, People!NewRole
  <1>2. RowsSingle
    BY DEF SinglesInv
  <1>3. KeyRows' /\ People!ActiveKeys' \subseteq People!ActiveKeys
    BY <1>1, <1>2, RevokedKeys DEF RowsSingle
  <1>4. Cardinality(People!ActiveKeys') <= MaxKeys
    BY <1>2, <1>3, FewerKeys, KeysCounted, KeysAssumption DEF RowsSingle
  <1>5. RowsSingle'
    BY <1>1, <1>2, <1>3, <1>4
    DEF RowsSingle, LinkRows, LiveOnce, LastPending, People!Live
  <1>6. People!Registered'
    BY <1>1, AccountsAssumption DEF People!Registered, AccountRow, People!Roles
  <1>7. \A s \in Sessions : ~Locked(work'[s]) /\ work'[s] = work[s]
    BY <1>1 DEF Locked, People!UserFree
  <1>8. DOMAIN work' = Sessions
    BY <1>1 DEF SinglesInv
  <1> QED BY <1>5, <1>6, <1>7, <1>8, SinglesMove

LEMMA SinglesTick ==
  ASSUME SinglesInv, UNCHANGED ops, People!Tick
  PROVE  SinglesInv'
  <1>1. now' = now + 1 /\ UNCHANGED <<account, key, reset, link, application, work>>
    BY DEF People!Tick
  <1>2. RowsSingle
    BY DEF SinglesInv
  <1>3. KeyRows' /\ People!ActiveKeys' \subseteq People!ActiveKeys
    <2>1. \A k \in Keys : key[k].until \in Int
      BY <1>2 DEF RowsSingle, KeyRows, KeyRow
    <2>2. now \in Int /\ KeyRows'
      BY <1>1, <1>2 DEF RowsSingle, LinkRows, KeyRows
    <2> QED
      BY <1>1, <2>1, <2>2 DEF People!ActiveKeys, People!KeyWorks, People!Live
  <1>4. Cardinality(People!ActiveKeys') <= Cardinality(People!ActiveKeys)
    BY <1>3, FewerKeys
  <1>5. RowsSingle'
    <2>1. Cardinality(People!ActiveKeys') <= MaxKeys
      BY <1>2, <1>4, KeysCounted, KeysAssumption DEF RowsSingle
    <2> QED
      BY <1>1, <1>2, <1>3, <2>1
      DEF RowsSingle, LinkRows, LiveOnce, LastPending, People!Live
  <1>6. DOMAIN work' = Sessions /\ \A t \in Sessions : work'[t] = work[t]
    BY <1>1 DEF SinglesInv
  <1> QED BY <1>1, <1>4, <1>5, <1>6, SinglesMove DEF People!Registered

LEMMA SinglesStep ==
  ASSUME SinglesInv, AccountsInv, People!Next
  PROVE  SinglesInv'
  <1>1. account \in AccountRow /\ UNCHANGED ops
    BY DEF AccountsInv, People!Next
  <1>2. ASSUME NEW role \in People!Roles, People!Provision(role) PROVE SinglesInv'
    BY <1>1, <1>2, SinglesProvision
  <1>3. CASE People!Tick
    BY <1>1, <1>3, SinglesTick
  <1>4. ASSUME NEW s \in Sessions,
               \/ People!RegisterRead(s) \/ People!LoginRead(s) \/ People!GoogleRead(s)
               \/ People!ResetAsk(s) \/ People!Abort(s) \/ People!LoginIssue(s)
               \/ \E op \in ops : People!Authenticate(s, op)
               \/ \E r \in Resets : People!ConfirmRead(s, r)
               \/ \E i \in DOMAIN application, answer \in {"approved", "rejected"} :
                    People!DecideRead(s, i, answer)
        PROVE  SinglesInv'
    BY <1>1, <1>4, SinglesReads
  <1>5. ASSUME NEW s \in Sessions,
               \/ People!LogoutLock(s) \/ People!KeyLock(s) \/ People!ResetLock(s)
               \/ People!MailLock(s) \/ People!ApplyLock(s)
        PROVE  SinglesInv'
    BY <1>1, <1>5, SinglesLock
  <1>6. ASSUME NEW s \in Sessions,
               People!LogoutCommit(s) \/ People!ConfirmCommit(s) \/ People!DecideCommit(s)
        PROVE  SinglesInv'
    BY <1>1, <1>6, SinglesRevokes
  <1>7. ASSUME NEW s \in Sessions,
               \/ \E k \in Keys : \/ People!KeyRevoke(s, k)
                                \/ \E until \in {now + Life, People!Forever} :
                                     People!KeyCommit(s, k, until)
               \/ \E r \in Resets : People!ResetCommit(s, r)
               \/ \E l \in Links : People!MailCommit(s, l)
               \/ People!ApplyCommit(s)
        PROVE  SinglesInv'
    BY <1>1, <1>7, SinglesInserts
  <1>8. ASSUME NEW s \in Sessions,
               \/ People!RegisterCommit(s) \/ People!GoogleCommit(s)
               \/ \E l \in Links : People!Verify(s, l)
        PROVE  SinglesInv'
    BY <1>1, <1>8, SinglesSignUp
  <1> QED
    BY <1>2, <1>3, <1>4, <1>5, <1>6, <1>7, <1>8 DEF People!Next

LEMMA SinglesRest ==
  ASSUME SinglesInv,
         UNCHANGED <<ops, now, account, key, reset, link, application, work>>
  PROVE  SinglesInv'
  <1>1. RowsSingle /\ People!ActiveKeys' = People!ActiveKeys
    BY DEF SinglesInv, RowsSingle, People!ActiveKeys, People!KeyWorks,
       People!Live
  <1> QED
    BY <1>1 DEF SinglesInv, RowsSingle, LinkRows, KeyRows, LiveOnce, LastPending,
       Carries, Locked, Found, People!Live, People!Registered

LEMMA AtMostOne ==
  ASSUME NEW S, \A x, y \in S : x = y
  PROVE  Cardinality(S) <= 1
  <1>1. CASE S = {}
    BY <1>1, FS_EmptySet
  <1>2. CASE S # {}
    <2>1. PICK x : S = {x}
      BY <1>2
    <2> QED BY <2>1, FS_Singleton
  <1> QED BY <1>1, <1>2

LEMMA SinglesHold == SinglesInv => People!SinglesKept
  <1> SUFFICES ASSUME SinglesInv PROVE People!SinglesKept
    OBVIOUS
  <1>1. Cardinality({i \in DOMAIN reset : People!Live(reset[i])}) <= 1
    BY AtMostOne DEF SinglesInv, RowsSingle, LiveOnce
  <1>2. Cardinality({i \in DOMAIN link : People!Live(link[i])}) <= 1
    BY AtMostOne DEF SinglesInv, RowsSingle, LiveOnce
  <1>3. Cardinality({i \in DOMAIN application : application[i].status = "pending"}) <= 1
    BY AtMostOne DEF SinglesInv, RowsSingle, LastPending
  <1>4. Cardinality(People!ActiveKeys) <= MaxKeys
    BY DEF SinglesInv, RowsSingle
  <1> QED
    BY <1>1, <1>2, <1>3, <1>4, SameCardinality DEF People!SinglesKept, People!OneLive

\* A logout ends the sessions of its version, and a link that is used is live.
LEMMA AccountsAsSeen ==
  ASSUME SinglesInv
  PROVE  People!SparesNewer /\ People!LinkStillLive
  <1>1. People!SparesNewer
    BY DEF People!SparesNewer, People!LogoutCommit, People!At, SinglesInv, Locked, Found
  <1>2. ASSUME NEW s \in Sessions, People!ConfirmCommit(s)
        PROVE  /\ People!Live(reset[work[s].row])
               /\ \A q \in Resets : q # work[s].row => ~People!Live(reset[q])
    <2>1. work[s].row \in Resets /\ People!Live(reset[work[s].row])
      BY <1>2 DEF People!ConfirmCommit, People!At, People!StillGood, SinglesInv, Carries
    <2>2. DOMAIN reset = Resets /\ LiveOnce(reset)
      BY DEF SinglesInv, RowsSingle, LinkRows
    <2> QED BY <2>1, <2>2 DEF LiveOnce
  <1> QED BY <1>1, <1>2 DEF People!LinkStillLive

-----------------------------------------------------------------------------
(* Reports about a review that comes and goes.                               *)

ReviewRow == [id : Nat, status : {"none", "visible", "hidden"}, answered : BOOLEAN]
ReviewReport == [status : {"none", "pending", "resolved", "dismissed"}, of : Nat]
Filing == [op : {"report"}, by : Readers, of : Nat \ {0}]
Ruling == [op : {"hide", "resolve", "dismiss"}, by : Readers, of : Nat \ {0}]

\* Only a review that is there is reported, and it has a number of its own.
ReportsOfReview ==
  \A p \in Readers :
    /\ report[p].status = "none" <=> report[p].of = 0
    /\ report[p].of # 0 => report[p].of = review.id

ReviewsInv ==
  /\ rated \in Nat /\ review \in ReviewRow
  /\ review.status # "none" => review.id # 0
  /\ report \in [Readers -> ReviewReport] /\ ReportsOfReview
  /\ DOMAIN work = Requests /\ DOMAIN desk = Sessions
  /\ \A w \in Requests : work[w].op = "report" => work[w] \in Filing
  /\ \A m \in Sessions : desk[m] = Reviewed!Idle \/ desk[m] \in Ruling

LEMMA ReviewsStart == Reviewed!Init => ReviewsInv
  <1> SUFFICES ASSUME Reviewed!Init PROVE ReviewsInv
    OBVIOUS
  <1>1. Reviewed!NoReport \in ReviewReport
    BY DEF Reviewed!NoReport, ReviewReport
  <1>2. review \in ReviewRow /\ review.id = 0 /\ review.status = "none" /\ rated \in Nat
    BY DEF Reviewed!Init, Reviewed!NoReview, ReviewRow
  <1>3. report \in [Readers -> ReviewReport] /\ ReportsOfReview
    BY <1>1 DEF Reviewed!Init, Reviewed!NoReport, ReportsOfReview
  <1> QED
    BY <1>2, <1>3 DEF Reviewed!Init, Reviewed!Idle, ReviewsInv

\* A request of the author, of the owner or of a reporter writes no row.
LEMMA ReviewsWork ==
  ASSUME ReviewsInv, NEW w \in Requests, NEW req,
         work' = [work EXCEPT ![w] = req], req.op = "report" => req \in Filing,
         UNCHANGED <<review, report, rated, desk>>
  PROVE  ReviewsInv'
  <1>1. ReportsOfReview'
    BY DEF ReportsOfReview, ReviewsInv
  <1>2. DOMAIN work' = Requests /\ \A x \in Requests : work'[x] = IF x = w THEN req ELSE work[x]
    BY DEF ReviewsInv
  <1> QED
    BY <1>1, <1>2 DEF ReviewsInv

\* A decision that is being made writes no row either.
LEMMA ReviewsDesk ==
  ASSUME ReviewsInv, NEW m \in Sessions, NEW req,
         desk' = [desk EXCEPT ![m] = req], req = Reviewed!Idle \/ req \in Ruling,
         UNCHANGED <<review, report, rated, work>>
  PROVE  ReviewsInv'
  <1>1. ReportsOfReview'
    BY DEF ReportsOfReview, ReviewsInv
  <1>2. DOMAIN desk' = Sessions /\ \A x \in Sessions : desk'[x] = IF x = m THEN req ELSE desk[x]
    BY DEF ReviewsInv
  <1> QED
    BY <1>1, <1>2 DEF ReviewsInv

\* The review keeps its number when other columns are written.
LEMMA ReviewsKept ==
  ASSUME ReviewsInv, review' \in ReviewRow, review'.id = review.id,
         review.id # 0, UNCHANGED <<report, rated, work>>,
         DOMAIN desk' = Sessions,
         \A m \in Sessions : desk'[m] = Reviewed!Idle \/ desk'[m] \in Ruling
  PROVE  ReviewsInv'
  <1>1. ReportsOfReview'
    BY DEF ReportsOfReview, ReviewsInv
  <1> QED
    BY <1>1 DEF ReviewsInv

\* A report is written: filed, or decided.
LEMMA ReviewsReport ==
  ASSUME ReviewsInv, NEW p \in Readers, NEW r \in ReviewReport,
         report' = [report EXCEPT ![p] = r],
         r.status # "none", r.of # 0, r.of = review.id, UNCHANGED <<review, rated>>,
         DOMAIN work' = Requests, DOMAIN desk' = Sessions,
         \A w \in Requests : work'[w].op = "report" => work'[w] \in Filing,
         \A m \in Sessions : desk'[m] = Reviewed!Idle \/ desk'[m] \in Ruling
  PROVE  ReviewsInv'
  <1>1. /\ report' \in [Readers -> ReviewReport]
        /\ \A q \in Readers : report'[q] = IF q = p THEN r ELSE report[q]
    BY DEF ReviewsInv
  <1>2. ReportsOfReview'
    BY <1>1 DEF ReportsOfReview, ReviewsInv
  <1> QED
    BY <1>1, <1>2 DEF ReviewsInv

LEMMA ReviewsFile ==
  ASSUME ReviewsInv, NEW w \in Requests, Reviewed!ReportCommit(w)
  PROVE  ReviewsInv'
  <1> DEFINE r == [status |-> "pending", of |-> work[w].of]
  <1>1. work[w] \in Filing
    BY DEF Reviewed!ReportCommit, ReviewsInv
  <1>2. /\ work[w].by \in Readers /\ r \in ReviewReport /\ r.status # "none" /\ r.of # 0
        /\ report' = [report EXCEPT ![work[w].by] = r] /\ r.of = review.id
        /\ UNCHANGED <<review, rated, desk>>
    BY <1>1 DEF Reviewed!ReportCommit, Reviewed!ReviewThere, Filing, ReviewReport
  <1>3. /\ DOMAIN work' = Requests
        /\ \A x \in Requests : work'[x] = IF x = w THEN Reviewed!Idle ELSE work[x]
    BY DEF Reviewed!ReportCommit, Reviewed!Writes, ReviewsInv
  <1>4. \A x \in Requests : work'[x].op = "report" => work'[x] \in Filing
    BY <1>3 DEF Reviewed!Idle, ReviewsInv
  <1>5. DOMAIN desk' = Sessions /\ \A m \in Sessions : desk'[m] = Reviewed!Idle \/ desk'[m] \in Ruling
    BY <1>2 DEF ReviewsInv
  <1> HIDE DEF r
  <1> QED
    BY <1>2, <1>3, <1>4, <1>5, ReviewsReport

LEMMA ReviewsDecide ==
  ASSUME ReviewsInv, NEW m \in Sessions, Reviewed!DecideCommit(m)
  PROVE  ReviewsInv'
  <1> DEFINE p == desk[m].by
             r == [report[p] EXCEPT !.status =
                     IF desk[m].op = "resolve" THEN "resolved" ELSE "dismissed"]
  <1>1. desk[m] \in Ruling
    BY DEF Reviewed!DecideCommit, Reviewed!Idle, ReviewsInv
  <1>2. p \in Readers /\ report[p].of # 0 /\ report[p] \in ReviewReport
    BY <1>1 DEF Reviewed!DecideCommit, Ruling, ReviewsInv
  <1>3. /\ r \in ReviewReport /\ r.status # "none" /\ r.of = report[p].of
        /\ report' = [report EXCEPT ![p] = r]
        /\ UNCHANGED <<review, rated, work>>
    BY <1>2 DEF Reviewed!DecideCommit, ReviewReport
  <1>4. report[p].of = review.id
    BY <1>2 DEF ReviewsInv, ReportsOfReview
  <1>5. /\ DOMAIN desk' = Sessions
        /\ \A x \in Sessions : desk'[x] = IF x = m THEN Reviewed!Idle ELSE desk[x]
    BY DEF Reviewed!DecideCommit, Reviewed!Decides, ReviewsInv
  <1>6. \A x \in Sessions : desk'[x] = Reviewed!Idle \/ desk'[x] \in Ruling
    BY <1>5 DEF ReviewsInv
  <1>7. DOMAIN work' = Requests /\ \A x \in Requests : work'[x].op = "report" => work'[x] \in Filing
    BY <1>3 DEF ReviewsInv
  <1>8. r.of # 0 /\ r.of = review.id
    BY <1>2, <1>3, <1>4
  <1> HIDE DEF p, r
  <1> QED
    BY <1>2, <1>3, <1>5, <1>6, <1>7, <1>8, ReviewsReport

LEMMA ReviewsRest ==
  ASSUME ReviewsInv, UNCHANGED <<review, report, rated, desk, work>>
  PROVE  ReviewsInv'
  BY DEF ReviewsInv, ReportsOfReview

LEMMA ReviewsStep == ASSUME ReviewsInv, Reviewed!Next PROVE ReviewsInv'
  <1>1. ASSUME NEW w \in Requests, Reviewed!CreateRead(w) \/ Reviewed!WriterEnds(w)
        PROVE  ReviewsInv'
    <2> DEFINE req == IF Reviewed!WriterEnds(w) THEN Reviewed!Idle ELSE [op |-> "create"]
    <2>1. /\ work' = [work EXCEPT ![w] = req] /\ req.op # "report"
          /\ UNCHANGED <<review, report, rated, desk>>
      BY <1>1 DEF Reviewed!CreateRead, Reviewed!WriterEnds, Reviewed!Writes, Reviewed!Idle
    <2> HIDE DEF req
    <2> QED
      BY <2>1, ReviewsWork
  <1>2. ASSUME NEW w \in Requests, NEW p \in Readers, Reviewed!ReportRead(w, p)
        PROVE  ReviewsInv'
    <2> DEFINE req == [op |-> "report", by |-> p, of |-> review.id]
    <2>1. review.id \in Nat \ {0}
      BY <1>2 DEF Reviewed!ReportRead, ReviewsInv, ReviewRow
    <2>2. /\ work' = [work EXCEPT ![w] = req] /\ req \in Filing
          /\ UNCHANGED <<review, report, rated, desk>>
      BY <1>2, <2>1 DEF Reviewed!ReportRead, Reviewed!Writes, Filing
    <2> HIDE DEF req
    <2> QED
      BY <2>2, ReviewsWork
  <1>3. ASSUME NEW w \in Requests, Reviewed!CreateCommit(w)
        PROVE  ReviewsInv'
    <2>1. /\ review' \in ReviewRow /\ review'.id # 0 /\ rated' \in Nat
          /\ UNCHANGED <<report, desk>>
      BY <1>3 DEF Reviewed!CreateCommit, ReviewRow, ReviewsInv
    <2>2. ReportsOfReview'
      BY <1>3, <2>1 DEF Reviewed!CreateCommit, ReportsOfReview, ReviewsInv
    <2>3. /\ DOMAIN work' = Requests
          /\ \A x \in Requests : work'[x] = IF x = w THEN Reviewed!Idle ELSE work[x]
      BY <1>3 DEF Reviewed!CreateCommit, Reviewed!Writes, ReviewsInv
    <2> QED
      BY <2>1, <2>2, <2>3 DEF ReviewsInv, Reviewed!Idle
  <1>4. ASSUME NEW w \in Requests, Reviewed!Delete(w)
        PROVE  ReviewsInv'
    <2>1. /\ review' \in ReviewRow /\ review'.id = 0 /\ review'.status = "none"
          /\ UNCHANGED <<rated, desk, work>>
      BY <1>4 DEF Reviewed!Delete, Reviewed!NoReview, ReviewRow
    <2>2. Reviewed!NoReport \in ReviewReport
      BY DEF Reviewed!NoReport, ReviewReport
    <2>3. report' \in [Readers -> ReviewReport] /\ ReportsOfReview'
      BY <1>4, <2>1, <2>2 DEF Reviewed!Delete, Reviewed!NoReport, ReportsOfReview
    <2> QED
      BY <2>1, <2>3 DEF ReviewsInv
  <1>5. ASSUME NEW w \in Requests, Reviewed!Respond(w)
        PROVE  ReviewsInv'
    <2>1. /\ review' \in ReviewRow /\ review'.id = review.id /\ review.id # 0
          /\ UNCHANGED <<report, rated, work>> /\ UNCHANGED desk
      BY <1>5 DEF Reviewed!Respond, ReviewRow, ReviewsInv
    <2>2. DOMAIN desk' = Sessions /\ \A m \in Sessions : desk'[m] = Reviewed!Idle \/ desk'[m] \in Ruling
      BY <2>1 DEF ReviewsInv
    <2> QED
      BY <2>1, <2>2, ReviewsKept
  <1>6. ASSUME NEW m \in Sessions, NEW status \in {"visible", "hidden"},
               Reviewed!Moderate(m, status)
        PROVE  ReviewsInv'
    <2>1. /\ review' \in ReviewRow /\ review'.id = review.id /\ review.id # 0
          /\ UNCHANGED <<report, rated, work>> /\ UNCHANGED desk
      BY <1>6 DEF Reviewed!Moderate, ReviewRow, ReviewsInv
    <2>2. DOMAIN desk' = Sessions /\ \A x \in Sessions : desk'[x] = Reviewed!Idle \/ desk'[x] \in Ruling
      BY <2>1 DEF ReviewsInv
    <2> QED
      BY <2>1, <2>2, ReviewsKept
  <1>7. ASSUME NEW m \in Sessions, Reviewed!HideReview(m)
        PROVE  ReviewsInv'
    <2>1. desk[m] \in Ruling
      BY <1>7 DEF Reviewed!HideReview, Reviewed!Idle, ReviewsInv
    <2>2. /\ review' \in ReviewRow /\ review'.id = review.id /\ review.id # 0
          /\ UNCHANGED <<report, rated, work>>
      BY <1>7, <2>1 DEF Reviewed!HideReview, ReviewRow, Ruling, ReviewsInv
    <2>3. /\ DOMAIN desk' = Sessions
          /\ \A x \in Sessions :
               desk'[x] = IF x = m THEN [desk[m] EXCEPT !.op = "resolve"] ELSE desk[x]
      BY <1>7 DEF Reviewed!HideReview, Reviewed!Decides, ReviewsInv
    <2>4. [desk[m] EXCEPT !.op = "resolve"] \in Ruling
      BY <2>1 DEF Ruling
    <2>5. \A x \in Sessions : desk'[x] = Reviewed!Idle \/ desk'[x] \in Ruling
      BY <2>3, <2>4 DEF ReviewsInv
    <2> QED
      BY <2>2, <2>3, <2>5, ReviewsKept
  <1>8. ASSUME NEW m \in Sessions, NEW p \in Readers, NEW d \in {"hide", "dismiss"},
               Reviewed!DecideRead(m, p, d)
        PROVE  ReviewsInv'
    <2> DEFINE req == [op |-> d, by |-> p, of |-> report[p].of]
    <2>1. report[p].of \in Nat \ {0}
      BY <1>8 DEF Reviewed!DecideRead, ReviewsInv, ReportsOfReview, ReviewReport
    <2>2. /\ desk' = [desk EXCEPT ![m] = req] /\ req \in Ruling
          /\ UNCHANGED <<review, report, rated, work>>
      BY <1>8, <2>1 DEF Reviewed!DecideRead, Reviewed!Decides, Ruling
    <2> HIDE DEF req
    <2> QED
      BY <2>2, ReviewsDesk
  <1>9. ASSUME NEW m \in Sessions, Reviewed!ModeratorEnds(m)
        PROVE  ReviewsInv'
    BY <1>9, ReviewsDesk DEF Reviewed!ModeratorEnds, Reviewed!Decides
  <1> QED
    BY <1>1, <1>2, <1>3, <1>4, <1>5, <1>6, <1>7, <1>8, <1>9, ReviewsFile, ReviewsDecide
    DEF Reviewed!Next

LEMMA ReviewsFollow == ReviewsInv => Reviewed!ReportsFollowReview
  BY DEF ReviewsInv, ReportsOfReview, ReviewReport, Reviewed!ReportsFollowReview

-----------------------------------------------------------------------------
(* Versions of a waiver.                                                     *)

\* The numbers have no gaps, and each is one version.
Numbered ==
  /\ \A v \in versions : v.number \in Nat
  /\ \A v, w \in versions : v.number = w.number => v = w
  /\ \A v \in versions : v.number > 1 =>
       \E w \in versions : w.number = v.number - 1
Successors == \A v, w \in versions : w.number = v.number + 1 => v.text # w.text
Present(n) == \E v \in versions : v.number = n

\* The version that a publisher read is there, and says something else.
Publishing(w) ==
  /\ w.copy.current \in Nat /\ Present(w.copy.current)
  /\ \A v \in versions : v.number = w.copy.current => v.text # w.text

WaiverInv ==
  /\ template \in [active : BOOLEAN, current : Nat] /\ Present(template.current)
  /\ Numbered /\ Successors
  /\ DOMAIN work = Sessions
  /\ \A s \in Sessions : work[s].op = "publish" => Publishing(work[s])

LEMMA WaiverStart == Waiver!Init => WaiverInv
  BY DEF Waiver!Init, Waiver!Version, Waiver!Idle, WaiverInv, Numbered, Successors,
         Present, Publishing

\* Requests that do not publish a version.
LEMMA WaiverRests ==
  ASSUME WaiverInv, UNCHANGED <<versions, work>>,
         template' \in [active : BOOLEAN, current : Nat],
         template'.current = template.current
  PROVE  WaiverInv'
  BY DEF WaiverInv, Numbered, Successors, Present, Publishing

LEMMA WaiverWork ==
  ASSUME WaiverInv, NEW s \in Sessions, NEW req, work' = [work EXCEPT ![s] = req],
         req.op = "publish" => Publishing(req), UNCHANGED versions,
         template' \in [active : BOOLEAN, current : Nat],
         template'.current = template.current
  PROVE  WaiverInv'
  <1>1. /\ DOMAIN work' = Sessions
        /\ \A t \in Sessions : work'[t] = IF t = s THEN req ELSE work[t]
    BY DEF WaiverInv
  <1>2. (Numbered /\ Successors)' /\ Present(template.current)'
    BY DEF WaiverInv, Numbered, Successors, Present
  <1>3. ASSUME NEW t \in Sessions, work'[t].op = "publish" PROVE Publishing(work[t])'
    BY <1>1, <1>3 DEF WaiverInv, Publishing, Present
  <1> QED
    BY <1>1, <1>2, <1>3 DEF WaiverInv, Present

\* Of versions with the same number there is one, so a publisher's text differs
\* from that of the version it read.
LEMMA WaiverReads ==
  ASSUME WaiverInv, NEW s \in Sessions, NEW text, Waiver!PublishRead(s, text)
  PROVE  WaiverInv'
  <1> DEFINE req == [op |-> "publish", copy |-> template, text |-> text]
             v == Waiver!CurrentVersion(template)
  <1>1. v \in versions /\ v.number = template.current
    BY DEF Waiver!CurrentVersion, WaiverInv, Present
  <1>2. v.text # text
    BY DEF Waiver!PublishRead
  <1> HIDE DEF v
  <1>3. \A w \in versions : w.number = template.current => w.text # text
    BY <1>1, <1>2 DEF WaiverInv, Numbered
  <1>4. Publishing(req)
    BY <1>3 DEF Publishing, WaiverInv
  <1>5. /\ work' = [work EXCEPT ![s] = req] /\ UNCHANGED versions /\ UNCHANGED template
    BY DEF Waiver!PublishRead, Waiver!Start
  <1>6. template' \in [active : BOOLEAN, current : Nat] /\ template'.current = template.current
    BY <1>5 DEF WaiverInv
  <1> HIDE DEF req
  <1> QED
    BY <1>4, <1>5, <1>6, WaiverWork

\* A new version takes the first number that is free.
LEMMA WaiverPublishes ==
  ASSUME WaiverInv, NEW s \in Sessions, Waiver!PublishCommit(s)
  PROVE  WaiverInv'
  <1> DEFINE c == work[s].copy.current
             new == [number |-> c + 1, text |-> work[s].text]
  <1>1. /\ c \in Nat /\ Present(c)
        /\ \A v \in versions : v.number = c => v.text # work[s].text
    BY DEF Waiver!PublishCommit, WaiverInv, Publishing
  <1>2. /\ \A v \in versions : v.number # c + 1
        /\ versions' = versions \cup {new}
        /\ template' = [template EXCEPT !.current = c + 1]
    BY DEF Waiver!PublishCommit, Waiver!NextNumber, Waiver!NumberFree, Waiver!Version
  <1>3. /\ DOMAIN work' = Sessions
        /\ \A t \in Sessions : work'[t] = IF t = s THEN Waiver!Idle ELSE work[t]
    BY DEF Waiver!PublishCommit, Waiver!Finish, WaiverInv
  <1>4. new.number = c + 1 /\ new.text = work[s].text
    OBVIOUS
  <1> HIDE DEF c, new
  <1>5. template' \in [active : BOOLEAN, current : Nat] /\ template'.current = c + 1
    BY <1>1, <1>2 DEF WaiverInv
  <1>6. \E v \in versions' : v.number = c + 1
    BY <1>2, <1>4 DEF Present
  <1>7. Numbered'
    <2>1. \A v \in versions' : v.number \in Nat
      BY <1>1, <1>2, <1>4 DEF WaiverInv, Numbered
    <2>2. \A v, w \in versions' : v.number = w.number => v = w
      BY <1>1, <1>2, <1>4 DEF WaiverInv, Numbered
    <2>3. ASSUME NEW v \in versions', v.number > 1
          PROVE  \E w \in versions' : w.number = v.number - 1
      <3>1. CASE v = new
        BY <3>1, <1>1, <1>2, <1>4 DEF Present
      <3>2. CASE v \in versions
        BY <3>2, <2>3, <1>2 DEF WaiverInv, Numbered
      <3> QED BY <3>1, <3>2, <1>2
    <2> QED BY <2>1, <2>2, <2>3 DEF Numbered
  <1>8. Successors'
    <2> SUFFICES ASSUME NEW v \in versions', NEW w \in versions', w.number = v.number + 1
                 PROVE  v.text # w.text
      BY DEF Successors
    <2>1. CASE v \in versions /\ w \in versions
      BY <2>1 DEF WaiverInv, Successors
    <2>2. CASE v \in versions /\ w = new
      <3>1. v.number \in Nat /\ v.number + 1 = c + 1
        BY <2>2, <1>4 DEF WaiverInv, Numbered
      <3>2. v.number = c
        BY <3>1, <1>1
      <3> QED BY <2>2, <3>2, <1>1, <1>4
    <2>3. CASE v = new /\ w \in versions
      <3>1. w.number \in Nat /\ w.number = c + 2 /\ w.number > 1 /\ w.number - 1 = c + 1
        BY <2>3, <1>1, <1>4
      <3>2. \E u \in versions : u.number = c + 1
        BY <2>3, <3>1 DEF WaiverInv, Numbered
      <3> QED BY <3>2, <1>2
    <2>4. CASE v = new /\ w = new
      BY <2>4, <1>1, <1>4
    <2> QED BY <2>1, <2>2, <2>3, <2>4, <1>2
  <1>9. ASSUME NEW t \in Sessions, work'[t].op = "publish" PROVE Publishing(work[t])'
    <2>1. work'[t] = work[t] /\ Publishing(work[t])
      BY <1>3, <1>9 DEF Waiver!Idle, WaiverInv
    <2>2. work[t].copy.current # c + 1
      BY <2>1, <1>2 DEF Publishing, Present
    <2> QED BY <2>1, <2>2, <1>2, <1>4 DEF Publishing, Present
  <1>10. Present(template.current)'
    BY <1>5, <1>6 DEF Present
  <1> QED
    BY <1>3, <1>5, <1>7, <1>8, <1>9, <1>10 DEF WaiverInv

LEMMA WaiverStep == ASSUME WaiverInv, Waiver!Next PROVE WaiverInv'
  <1>0. template \in [active : BOOLEAN, current : Nat]
    BY DEF WaiverInv
  <1>1. ASSUME Waiver!Requirements PROVE WaiverInv'
    BY <1>0, <1>1, WaiverRests DEF Waiver!Requirements
  <1>2. ASSUME NEW s \in Sessions,
               Waiver!PublishFail(s) \/ Waiver!ArchiveCommit(s) \/ Waiver!AcceptCommit(s)
        PROVE  WaiverInv'
    <2>1. /\ work' = [work EXCEPT ![s] = Waiver!Idle] /\ UNCHANGED versions
          /\ template' \in [active : BOOLEAN, current : Nat]
          /\ template'.current = template.current
      BY <1>0, <1>2 DEF Waiver!PublishFail, Waiver!ArchiveCommit, Waiver!AcceptCommit,
                        Waiver!Finish
    <2> QED BY <2>1, WaiverWork DEF Waiver!Idle
  <1>3. ASSUME NEW s \in Sessions, Waiver!ArchiveRead(s) PROVE WaiverInv'
    BY <1>0, <1>3, WaiverWork DEF Waiver!ArchiveRead, Waiver!Start
  <1>4. ASSUME NEW s \in Sessions, Waiver!AcceptRead(s) PROVE WaiverInv'
    BY <1>0, <1>4, WaiverWork DEF Waiver!AcceptRead, Waiver!Start
  <1> QED
    BY <1>1, <1>2, <1>3, <1>4, WaiverReads, WaiverPublishes DEF Waiver!Next

LEMMA WaiverKeeps == WaiverInv => Waiver!VersionsDiffer
  BY DEF WaiverInv, Successors, Present, Waiver!VersionsDiffer

-----------------------------------------------------------------------------
(* The log of a work order.                                                  *)

OrderRow ==
  [status : Orders!Statuses, assignee : Staff \cup {None}, resolved : BOOLEAN]
LogMark == Orders!Statuses \cup Staff \cup {None}
LogLine == [kind : {"status", "assigned"}, from : LogMark, to : LogMark]
OrderWork(w) ==
  \/ w = Orders!Idle
  \/ w \in [op : {"transition"}, copy : OrderRow, status : Orders!Statuses]
  \/ w \in [op : {"assign"}, copy : OrderRow, who : Staff \cup {None}]

ChangesIn(lines) == {n \in DOMAIN lines : lines[n].kind = "status"}
EndsWith(lines, status) ==
  ChangesIn(lines) # {} =>
    \E n \in ChangesIn(lines) :
      lines[n].to = status /\ \A m \in ChangesIn(lines) : m <= n

OrdersInv ==
  /\ order \in OrderRow /\ log \in Seq(LogLine)
  /\ DOMAIN work = Sessions /\ \A s \in Sessions : OrderWork(work[s])
  /\ EndsWith(log, order.status)

LEMMA OrdersStart == Orders!Init => OrdersInv
  <1> SUFFICES ASSUME Orders!Init PROVE OrdersInv
    OBVIOUS
  <1>1. order \in OrderRow
    BY DEF Orders!Init, OrderRow, Orders!Statuses, Orders!TRANSITIONS
  <1>2. log \in Seq(LogLine) /\ EndsWith(log, order.status)
    BY DEF Orders!Init, EndsWith, ChangesIn
  <1> QED
    BY <1>1, <1>2 DEF Orders!Init, OrdersInv, OrderWork

\* A new line changes what the log ends with, or is not about the status.
LEMMA LogGrows ==
  ASSUME NEW lines \in Seq(LogLine), NEW line \in LogLine, NEW old, NEW status,
         EndsWith(lines, old),
         IF line.kind = "status" THEN line.to = status ELSE status = old
  PROVE  EndsWith(Append(lines, line), status) /\ Append(lines, line) \in Seq(LogLine)
  <1> DEFINE longer == Append(lines, line)
             k == Len(lines) + 1
  <1>1. /\ longer \in Seq(LogLine) /\ DOMAIN longer = 1..k /\ Len(lines) \in Nat
        /\ longer[k] = line /\ DOMAIN lines = 1..(k - 1)
        /\ \A n \in 1..(k - 1) : longer[n] = lines[n]
    OBVIOUS
  <1> HIDE DEF longer
  <1>2. ASSUME line.kind = "status" PROVE EndsWith(longer, status)
    <2>1. k \in ChangesIn(longer) /\ \A m \in ChangesIn(longer) : m <= k
      BY <1>1, <1>2 DEF ChangesIn
    <2> QED BY <1>1, <1>2, <2>1 DEF EndsWith
  <1>3. ASSUME line.kind # "status" PROVE EndsWith(longer, status)
    <2>1. ChangesIn(longer) = ChangesIn(lines)
      BY <1>1, <1>3 DEF ChangesIn
    <2>2. \A n \in ChangesIn(lines) : longer[n] = lines[n]
      BY <1>1 DEF ChangesIn
    <2> QED BY <1>1, <1>3, <2>1, <2>2 DEF EndsWith
  <1> QED
    BY <1>1, <1>2, <1>3 DEF longer

LEMMA OrdersWork ==
  ASSUME OrdersInv, NEW s \in Sessions, NEW req, OrderWork(req),
         work' = [work EXCEPT ![s] = req],
         order' \in OrderRow, log' \in Seq(LogLine), EndsWith(log', order'.status)
  PROVE  OrdersInv'
  <1>1. /\ DOMAIN work' = Sessions
        /\ \A t \in Sessions : work'[t] = IF t = s THEN req ELSE work[t]
    BY DEF OrdersInv
  <1>2. \A t \in Sessions : OrderWork(work'[t])
    BY <1>1 DEF OrdersInv
  <1> QED
    BY <1>1, <1>2 DEF OrdersInv, OrderWork, EndsWith, ChangesIn

LEMMA OrdersReads ==
  ASSUME OrdersInv, NEW s \in Sessions,
         \/ \E status \in Orders!Statuses : Orders!TransitionRead(s, status)
         \/ \E who \in Staff \cup {None} : Orders!AssignRead(s, who)
  PROVE  OrdersInv'
  <1>1. PICK req : /\ work' = [work EXCEPT ![s] = req]
                   /\ \/ req \in [op : {"transition"}, copy : OrderRow, status : Orders!Statuses]
                      \/ req \in [op : {"assign"}, copy : OrderRow, who : Staff \cup {None}]
                   /\ UNCHANGED <<order, log>>
    <2>1. ASSUME NEW status \in Orders!Statuses, Orders!TransitionRead(s, status)
          PROVE  \E req :
                   /\ work' = [work EXCEPT ![s] = req]
                   /\ req \in [op : {"transition"}, copy : OrderRow, status : Orders!Statuses]
                   /\ UNCHANGED <<order, log>>
      <3> WITNESS [op |-> "transition", copy |-> order, status |-> status]
      <3> QED BY <2>1 DEF Orders!TransitionRead, Orders!Start, OrdersInv
    <2>2. ASSUME NEW who \in Staff \cup {None}, Orders!AssignRead(s, who)
          PROVE  \E req :
                   /\ work' = [work EXCEPT ![s] = req]
                   /\ req \in [op : {"assign"}, copy : OrderRow, who : Staff \cup {None}]
                   /\ UNCHANGED <<order, log>>
      <3> WITNESS [op |-> "assign", copy |-> order, who |-> who]
      <3> QED BY <2>2 DEF Orders!AssignRead, Orders!Start, OrdersInv
    <2> QED BY <2>1, <2>2
  <1>2. OrderWork(req)
    BY <1>1 DEF OrderWork
  <1>3. order' \in OrderRow /\ log' \in Seq(LogLine) /\ EndsWith(log', order'.status)
    BY <1>1 DEF OrdersInv
  <1> QED
    BY <1>1, <1>2, <1>3, OrdersWork

LEMMA OrdersTransition ==
  ASSUME OrdersInv, NEW s \in Sessions, Orders!TransitionCommit(s)
  PROVE  OrdersInv'
  <1> DEFINE w == work[s]
             line == [kind |-> "status", from |-> w.copy.status, to |-> w.status]
  <1>1. w \in [op : {"transition"}, copy : OrderRow, status : Orders!Statuses]
    BY DEF Orders!TransitionCommit, OrdersInv, OrderWork, Orders!Idle
  <1>2. line \in LogLine /\ line.kind = "status" /\ line.to = w.status
    BY <1>1 DEF LogLine, LogMark, OrderRow
  <1>3. order' \in OrderRow /\ order'.status = w.status
    BY <1>1 DEF Orders!TransitionCommit, Orders!Column, OrdersInv, OrderRow
  <1>4. log' = Append(log, line) /\ work' = [work EXCEPT ![s] = Orders!Idle]
    BY DEF Orders!TransitionCommit, Orders!Log, Orders!Finish
  <1> HIDE DEF w, line
  <1>5. log \in Seq(LogLine) /\ EndsWith(log, order.status)
    BY DEF OrdersInv
  <1>6. EndsWith(log', order'.status) /\ log' \in Seq(LogLine)
    BY <1>2, <1>3, <1>4, <1>5, LogGrows
  <1> QED
    BY <1>3, <1>4, <1>6, OrdersWork DEF OrderWork

LEMMA OrdersAssign ==
  ASSUME OrdersInv, NEW s \in Sessions, Orders!AssignCommit(s)
  PROVE  OrdersInv'
  <1> DEFINE w == work[s]
             line == [kind |-> "assigned", from |-> w.copy.assignee, to |-> w.who]
  <1>1. w \in [op : {"assign"}, copy : OrderRow, who : Staff \cup {None}]
    BY DEF Orders!AssignCommit, OrdersInv, OrderWork, Orders!Idle
  <1>2. line \in LogLine /\ line.kind = "assigned"
    BY <1>1 DEF LogLine, LogMark, OrderRow
  <1>3. order' \in OrderRow /\ order'.status = order.status
    BY <1>1 DEF Orders!AssignCommit, Orders!Column, OrdersInv, OrderRow
  <1>4. log' = Append(log, line) /\ work' = [work EXCEPT ![s] = Orders!Idle]
    BY DEF Orders!AssignCommit, Orders!Log, Orders!Finish
  <1> HIDE DEF w, line
  <1>5. log \in Seq(LogLine) /\ EndsWith(log, order.status)
    BY DEF OrdersInv
  <1>6. EndsWith(log', order'.status) /\ log' \in Seq(LogLine)
    BY <1>2, <1>3, <1>4, <1>5, LogGrows
  <1> QED
    BY <1>3, <1>4, <1>6, OrdersWork DEF OrderWork

LEMMA OrdersRest ==
  ASSUME OrdersInv, UNCHANGED <<order, log, work>> PROVE OrdersInv'
  BY DEF OrdersInv, OrderWork, EndsWith, ChangesIn

LEMMA OrdersStep == ASSUME OrdersInv, Orders!Next PROVE OrdersInv'
  <1>1. ASSUME NEW who \in Staff, Orders!Revoke(who) PROVE OrdersInv'
    BY <1>1, OrdersRest DEF Orders!Revoke
  <1> QED
    BY <1>1, OrdersReads, OrdersTransition, OrdersAssign DEF Orders!Next

LEMMA OrdersKeep == OrdersInv => Orders!LogTellsStatus
  <1> SUFFICES ASSUME OrdersInv, ChangesIn(log) # {}
               PROVE  log[CHOOSE n \in ChangesIn(log) :
                            \A m \in ChangesIn(log) : m <= n].to = order.status
    BY DEF Orders!LogTellsStatus, ChangesIn
  <1> DEFINE last == CHOOSE n \in ChangesIn(log) : \A m \in ChangesIn(log) : m <= n
  <1>1. ChangesIn(log) \subseteq Nat
    BY DEF OrdersInv, ChangesIn
  <1>2. PICK n \in ChangesIn(log) :
          log[n].to = order.status /\ \A m \in ChangesIn(log) : m <= n
    BY DEF OrdersInv, EndsWith
  <1>3. last \in ChangesIn(log) /\ \A m \in ChangesIn(log) : m <= last
    BY <1>2
  <1> HIDE DEF last
  <1>4. last = n
    BY <1>1, <1>2, <1>3
  <1> QED
    BY <1>2, <1>4 DEF last

-----------------------------------------------------------------------------
(* Photos of a listing.                                                      *)

PhotoRow == [key : Files, request : Requests, image : Images, position : Nat]
PhotoWork ==
  [op : {"upload", "undo", "delete"}, step : {"full", "thumb", "insert", "cleanup"},
   row : PhotoRow]

\* What a session has in hand belongs to no photo; an upload, which holds the
\* listing, also found room, and has stored what comes before its step.
Storing(w, rows, keys, objects) ==
  /\ w \in PhotoWork /\ w.row.key \in keys
  /\ \A p \in rows : p.key # w.row.key
  /\ w.op # "upload" => w.step = "cleanup"
  /\ w.op = "upload" =>
       /\ Cardinality(rows) < MaxPhotos
       /\ \A p \in rows :
            p.request # w.row.request /\ p.position # w.row.position
       /\ w.step \in {"thumb", "insert"} => <<w.row.key, "full">> \in objects
       /\ w.step = "insert" => <<w.row.key, "thumb">> \in objects
InHand(w, rows, keys, objects) == w = Album!Idle \/ Storing(w, rows, keys, objects)

\* Two sessions have different objects in hand, and one of them uploads.
HandsApart(v, w) ==
  v # Album!Idle /\ w # Album!Idle =>
    v.row.key # w.row.key /\ ~(v.op = "upload" /\ w.op = "upload")

PhotosApart(rows) ==
  \A p, q \in rows :
    p.key = q.key \/ p.position = q.position \/ p.request = q.request => p = q
ObjectsThere(rows, keys, objects) ==
  \A p \in rows :
    p.key \in keys /\ <<p.key, "full">> \in objects /\ <<p.key, "thumb">> \in objects
PhotosOK(rows, keys, objects) ==
  /\ rows \subseteq PhotoRow /\ IsFiniteSet(rows) /\ Cardinality(rows) <= MaxPhotos
  /\ PhotosApart(rows) /\ ObjectsThere(rows, keys, objects)

AlbumInv ==
  /\ PhotosOK(photos, used, stored)
  /\ DOMAIN work = Sessions
  /\ \A s \in Sessions : InHand(work[s], photos, used, stored)
  /\ \A s, t \in Sessions : s # t => HandsApart(work[s], work[t])

LEMMA AlbumStart == Album!Init => AlbumInv
  <1>1. PhotosOK({}, {}, {})
    BY FS_EmptySet, RowsOfSetsAssumption DEF PhotosOK, PhotosApart, ObjectsThere
  <1> QED
    BY <1>1 DEF Album!Init, AlbumInv, InHand, HandsApart

LEMMA AlbumRests ==
  ASSUME AlbumInv, UNCHANGED <<photos, used, stored, work>>
  PROVE  AlbumInv'
  BY DEF AlbumInv

\* Photos stay while only one session goes on.
LEMMA AlbumGoesOn ==
  ASSUME AlbumInv, NEW s \in Sessions, NEW w, work' = [work EXCEPT ![s] = w],
         UNCHANGED photos, used \subseteq used',
         \A p \in photos, part \in {"full", "thumb"} :
           <<p.key, part>> \in stored => <<p.key, part>> \in stored',
         \A t \in Sessions \ {s} : work[t] # Album!Idle =>
           \A part \in {"full", "thumb"} :
             <<work[t].row.key, part>> \in stored => <<work[t].row.key, part>> \in stored',
         InHand(w, photos, used', stored'),
         \A t \in Sessions \ {s} : HandsApart(w, work[t])
  PROVE  AlbumInv'
  <1>1. /\ DOMAIN work' = Sessions
        /\ \A t \in Sessions : work'[t] = IF t = s THEN w ELSE work[t]
    BY DEF AlbumInv
  <1>2. PhotosOK(photos, used', stored')
    BY DEF AlbumInv, PhotosOK, ObjectsThere
  <1>3. ASSUME NEW t \in Sessions PROVE InHand(work'[t], photos, used', stored')
    <2>1. CASE t = s
      BY <1>1, <2>1
    <2>2. CASE t # s /\ work[t] # Album!Idle
      <3>1. Storing(work[t], photos, used, stored)
        BY <2>2 DEF AlbumInv, InHand
      <3>2. /\ <<work[t].row.key, "full">> \in stored => <<work[t].row.key, "full">> \in stored'
            /\ <<work[t].row.key, "thumb">> \in stored => <<work[t].row.key, "thumb">> \in stored'
        BY <2>2
      <3>3. Storing(work[t], photos, used', stored')
        BY <3>1, <3>2 DEF Storing
      <3> QED BY <1>1, <2>2, <3>3 DEF InHand
    <2>3. CASE t # s /\ work[t] = Album!Idle
      BY <1>1, <2>3 DEF InHand
    <2> QED BY <2>1, <2>2, <2>3
  <1>4. \A x, y \in Sessions : x # y => HandsApart(work'[x], work'[y])
    BY <1>1 DEF AlbumInv, HandsApart
  <1> QED
    BY <1>1, <1>2, <1>3, <1>4 DEF AlbumInv

\* Photos change while no session uploads, and no object goes.
LEMMA AlbumChanges ==
  ASSUME AlbumInv, Album!ListingFree, NEW rows, photos' = rows, UNCHANGED <<used, stored>>,
         PhotosOK(rows, used, stored),
         \A r \in rows : \E p \in photos : p.key = r.key,
         DOMAIN work' = Sessions,
         \A t \in Sessions :
           \/ work'[t] = work[t]
           \/ Storing(work'[t], rows, used, stored) /\ work'[t].op # "upload",
         \A x, y \in Sessions : x # y => HandsApart(work'[x], work'[y])
  PROVE  AlbumInv'
  <1>1. ASSUME NEW t \in Sessions PROVE InHand(work'[t], rows, used, stored)
    <2>1. CASE work'[t] = work[t] /\ work[t] # Album!Idle
      <3>1. Storing(work[t], photos, used, stored) /\ work[t].op # "upload"
        BY <2>1 DEF AlbumInv, InHand, Album!ListingFree
      <3>2. Storing(work[t], rows, used, stored)
        BY <3>1 DEF Storing
      <3> QED BY <2>1, <3>2 DEF InHand
    <2> QED BY <2>1 DEF InHand
  <1> QED
    BY <1>1 DEF AlbumInv

\* Objects in hand are those of no photo and of no other session.
LEMMA AlbumObjects ==
  ASSUME AlbumInv, NEW s \in Sessions, work[s] # Album!Idle,
         NEW gone \in SUBSET Album!Objects(work[s].row.key), stored' = stored \ gone
  PROVE  /\ \A p \in photos, part \in {"full", "thumb"} :
              <<p.key, part>> \in stored => <<p.key, part>> \in stored'
         /\ \A t \in Sessions \ {s} : work[t] # Album!Idle =>
              \A part \in {"full", "thumb"} :
                <<work[t].row.key, part>> \in stored => <<work[t].row.key, part>> \in stored'
  <1>1. \A k, part : k # work[s].row.key => <<k, part>> \notin gone
    BY DEF Album!Objects
  <1>2. \A p \in photos : p.key # work[s].row.key
    BY DEF AlbumInv, InHand, Storing
  <1>3. \A t \in Sessions \ {s} : work[t] # Album!Idle => work[t].row.key # work[s].row.key
    BY DEF AlbumInv, HandsApart
  <1> QED
    BY <1>1, <1>2, <1>3

LEMMA IdleApart ==
  \A v : HandsApart(Album!Idle, v) /\ HandsApart(v, Album!Idle)
  BY DEF HandsApart

\* The highest position, if there is a photo.
LEMMA FiniteMax ==
  ASSUME NEW S \in SUBSET Int, IsFiniteSet(S), S # {}
  PROVE  \E m \in S : \A y \in S : m >= y
  <1> DEFINE Bad == {T \in FiniteSubsetsOf(S) :
                       T # {} /\ ~\E m \in T : \A y \in T : m >= y}
  <1> SUFFICES ASSUME Bad # {} PROVE FALSE
    BY DEF FiniteSubsetsOf
  <1>1. PICK T \in Bad : \A U \in Bad : ~(<<U, T>> \in StrictSubsetOrdering(S))
    <2> Bad \subseteq FiniteSubsetsOf(S)
      OBVIOUS
    <2> HIDE DEF Bad
    <2> QED BY FS_StrictSubsetOrderingWellFounded, WFMin
  <1>2. PICK x \in T : TRUE
    OBVIOUS
  <1>3. /\ T \in SUBSET S /\ IsFiniteSet(T) /\ x \in Int
        /\ ~\E m \in T : \A y \in T : m >= y
    BY DEF FiniteSubsetsOf
  <1>4. T \ {x} \in SUBSET S /\ IsFiniteSet(T \ {x})
    BY <1>3, FS_RemoveElement
  <1>5. <<T \ {x}, T>> \in StrictSubsetOrdering(S)
    BY <1>2, <1>3 DEF StrictSubsetOrdering
  <1>6. T \ {x} \notin Bad
    BY <1>1, <1>5
  <1>7. T \ {x} = {} \/ \E m \in T \ {x} : \A y \in T \ {x} : m >= y
    BY <1>4, <1>6 DEF FiniteSubsetsOf
  <1>8. CASE T \ {x} = {}
    <2>1. \A y \in T : x >= y
      BY <1>3, <1>8
    <2> QED BY <1>2, <1>3, <2>1
  <1>9. ASSUME NEW m \in T \ {x}, \A y \in T \ {x} : m >= y PROVE FALSE
    <2>1. m \in Int
      BY <1>3
    <2>2. CASE m >= x
      BY <1>3, <1>9, <2>2
    <2>3. CASE x >= m
      <3>1. \A y \in T : x >= y
        BY <1>3, <1>9, <2>1, <2>3
      <3> QED BY <1>2, <1>3, <3>1
    <2> QED BY <1>3, <2>1, <2>2, <2>3
  <1> QED BY <1>7, <1>8, <1>9

\* A new photo goes behind all others.
LEMMA BehindOthers ==
  ASSUME AlbumInv
  PROVE  /\ Album!LastPosition + 1 \in Nat
         /\ \A p \in photos : p.position # Album!LastPosition + 1
  <1> DEFINE S == {p.position : p \in photos} \cup {-1}
  <1>1. photos \subseteq PhotoRow /\ IsFiniteSet(photos)
    BY DEF AlbumInv, PhotosOK
  <1>2. \A p \in photos : p.position \in Nat
    BY <1>1 DEF PhotoRow
  <1>3. S \in SUBSET Int /\ -1 \in S /\ \A x \in S : x >= -1
    BY <1>2
  <1>4. IsFiniteSet(S)
    <2>1. IsFiniteSet({p.position : p \in photos})
      <3> DEFINE g == [p \in photos |-> p.position]
      <3>1. g \in Surjection(photos, {p.position : p \in photos})
        BY DEF Surjection
      <3> HIDE DEF g
      <3> QED BY <1>1, <3>1, FS_Surjection
    <2> QED BY <2>1, FS_AddElement
  <1>5. \E m \in S : \A y \in S : m >= y
    <2> HIDE DEF S
    <2> QED BY <1>3, <1>4, FiniteMax
  <1>6. Album!LastPosition \in S /\ \A y \in S : Album!LastPosition >= y
    <2>1. Album!LastPosition = CHOOSE m \in S : \A y \in S : m >= y
      BY DEF Album!LastPosition, Album!Max
    <2> HIDE DEF S
    <2> QED BY <1>5, <2>1
  <1>7. Album!LastPosition \in Int /\ Album!LastPosition >= -1
    BY <1>3, <1>6
  <1>8. \A p \in photos : Album!LastPosition >= p.position
    BY <1>6
  <1> QED
    BY <1>2, <1>7, <1>8

LEMMA AlbumCounts == \A S : Album!Cardinality(S) = Cardinality(S)
  BY DEF Album!Cardinality, Cardinality

LEMMA AlbumUploads ==
  ASSUME AlbumInv, NEW s \in Sessions, NEW r \in Requests, NEW image \in Images,
         Album!UploadStart(s, r, image)
  PROVE  AlbumInv'
  <1>1. PICK drawn \in Files \ used :
          /\ used' = used \cup {drawn}
          /\ work' = [work EXCEPT ![s] =
               [op |-> "upload", step |-> "full",
                row |-> [key |-> drawn, request |-> r, image |-> image,
                         position |-> Album!LastPosition + 1]]]
    BY DEF Album!UploadStart, Album!Start
  <1> DEFINE row == [key |-> drawn, request |-> r, image |-> image,
                     position |-> Album!LastPosition + 1]
             w == [op |-> "upload", step |-> "full", row |-> row]
  <1>2. /\ UNCHANGED <<photos, stored>> /\ Album!ListingFree
        /\ \A p \in photos : p.request # r
        /\ Cardinality(photos) < MaxPhotos
    BY AlbumCounts DEF Album!UploadStart, Album!Allowed
  <1>3. row \in PhotoRow /\ row.key = drawn /\ row.request = r
        /\ row.position = Album!LastPosition + 1
    BY BehindOthers DEF PhotoRow
  <1> HIDE DEF row
  <1>4. w \in PhotoWork /\ w.row = row /\ w.op = "upload" /\ w.step = "full"
    BY <1>3 DEF PhotoWork
  <1>5. work' = [work EXCEPT ![s] = w]
    BY <1>1 DEF row
  <1> HIDE DEF w
  <1>6. \A p \in photos : p.key # drawn
    BY <1>1 DEF AlbumInv, PhotosOK, ObjectsThere
  <1>7. Storing(w, photos, used', stored')
    BY <1>1, <1>2, <1>3, <1>4, <1>6, BehindOthers DEF Storing
  <1>8. \A t \in Sessions \ {s} : HandsApart(w, work[t])
    <2> SUFFICES ASSUME NEW t \in Sessions \ {s}, work[t] # Album!Idle
                 PROVE  work[t].row.key # drawn /\ work[t].op # "upload"
      BY <1>3, <1>4 DEF HandsApart
    <2>1. Storing(work[t], photos, used, stored)
      BY DEF AlbumInv, InHand
    <2> QED BY <1>1, <1>2, <2>1 DEF Storing, Album!ListingFree
  <1> QED
    BY <1>1, <1>2, <1>5, <1>7, <1>8, AlbumGoesOn DEF InHand

\* A session goes on with the objects that it has in hand.
LEMMA AlbumContinues ==
  ASSUME AlbumInv, NEW s \in Sessions, NEW w, work' = [work EXCEPT ![s] = w],
         work[s] # Album!Idle, UNCHANGED <<photos, used>>, stored \subseteq stored',
         Storing(w, photos, used, stored'), w.row = work[s].row,
         w.op = "upload" => work[s].op = "upload"
  PROVE  AlbumInv'
  <1>1. \A t \in Sessions \ {s} : HandsApart(w, work[t])
    BY DEF AlbumInv, HandsApart
  <1>2. InHand(w, photos, used', stored')
    BY DEF InHand
  <1> QED
    BY <1>1, <1>2, AlbumGoesOn

LEMMA AlbumPuts ==
  ASSUME AlbumInv, NEW s \in Sessions,
         Album!Put(s) \/ Album!PutFails(s) \/ Album!InsertFails(s)
  PROVE  AlbumInv'
  <1> DEFINE v == work[s]
  <1>1. v # Album!Idle /\ v.op = "upload"
    BY DEF Album!Put, Album!PutFails, Album!InsertFails, Album!Idle
  <1>2. Storing(v, photos, used, stored) /\ v \in PhotoWork
    BY <1>1 DEF AlbumInv, InHand, Storing
  <1>3. CASE Album!Put(s) /\ v.step = "full"
    <2> DEFINE w == [v EXCEPT !.step = "thumb"]
    <2>1. /\ w \in PhotoWork /\ w.op = v.op /\ w.row = v.row /\ w.step = "thumb"
          /\ work' = [work EXCEPT ![s] = w]
          /\ stored' = stored \cup {<<v.row.key, "full">>} /\ UNCHANGED <<photos, used>>
      BY <1>2, <1>3 DEF Album!Put, Album!Continue, PhotoWork
    <2> HIDE DEF w
    <2>2. Storing(w, photos, used, stored')
      BY <1>1, <1>2, <2>1 DEF Storing
    <2> QED BY <1>1, <2>1, <2>2, AlbumContinues
  <1>4. CASE Album!Put(s) /\ v.step = "thumb"
    <2> DEFINE w == [v EXCEPT !.step = "insert"]
    <2>1. /\ w \in PhotoWork /\ w.op = v.op /\ w.row = v.row /\ w.step = "insert"
          /\ work' = [work EXCEPT ![s] = w]
          /\ stored' = stored \cup {<<v.row.key, "thumb">>} /\ UNCHANGED <<photos, used>>
      BY <1>2, <1>4 DEF Album!Put, Album!Continue, PhotoWork
    <2> HIDE DEF w
    <2>2. Storing(w, photos, used, stored')
      BY <1>1, <1>2, <1>4, <2>1 DEF Storing
    <2> QED BY <1>1, <2>1, <2>2, AlbumContinues
  <1>5. CASE Album!PutFails(s)
    <2> DEFINE w == [v EXCEPT !.step = "cleanup"]
    <2>1. /\ w \in PhotoWork /\ w.op = v.op /\ w.row = v.row /\ w.step = "cleanup"
          /\ work' = [work EXCEPT ![s] = w] /\ UNCHANGED <<photos, used, stored>>
      BY <1>2, <1>5 DEF Album!PutFails, Album!Continue, PhotoWork
    <2> HIDE DEF w
    <2>2. Storing(w, photos, used, stored')
      BY <1>1, <1>2, <2>1 DEF Storing
    <2> QED BY <1>1, <2>1, <2>2, AlbumContinues
  <1>6. CASE Album!InsertFails(s)
    <2> DEFINE w == [v EXCEPT !.op = "undo", !.step = "cleanup"]
    <2>1. /\ w \in PhotoWork /\ w.op = "undo" /\ w.row = v.row /\ w.step = "cleanup"
          /\ work' = [work EXCEPT ![s] = w] /\ UNCHANGED <<photos, used, stored>>
      BY <1>2, <1>6 DEF Album!InsertFails, PhotoWork
    <2> HIDE DEF w
    <2>2. Storing(w, photos, used, stored')
      BY <1>1, <1>2, <2>1 DEF Storing
    <2> QED BY <1>1, <2>1, <2>2, AlbumContinues
  <1> QED
    BY <1>3, <1>4, <1>5, <1>6 DEF Album!Put, Album!Parts

\* The row is inserted once both objects are there.
LEMMA AlbumInserts ==
  ASSUME AlbumInv, NEW s \in Sessions, Album!Insert(s)
  PROVE  AlbumInv'
  <1> DEFINE row == work[s].row
             rows == photos \cup {row}
  <1>1. /\ work[s] # Album!Idle /\ work[s].op = "upload" /\ work[s].step = "insert"
        /\ photos' = rows /\ work' = [work EXCEPT ![s] = Album!Idle]
        /\ UNCHANGED <<stored, used>>
    BY DEF Album!Insert, Album!Finish, Album!Idle
  <1>2. Storing(work[s], photos, used, stored)
    BY <1>1 DEF AlbumInv, InHand
  <1>3. /\ row \in PhotoRow /\ row.key \in used /\ \A p \in photos : p.key # row.key
        /\ Cardinality(photos) < MaxPhotos
        /\ \A p \in photos : p.request # row.request /\ p.position # row.position
        /\ <<row.key, "full">> \in stored /\ <<row.key, "thumb">> \in stored
    BY <1>1, <1>2 DEF Storing, PhotoWork
  <1> HIDE DEF row
  <1>4. /\ photos \subseteq PhotoRow /\ IsFiniteSet(photos) /\ Cardinality(photos) <= MaxPhotos
        /\ PhotosApart(photos) /\ ObjectsThere(photos, used, stored)
    BY DEF AlbumInv, PhotosOK
  <1>5. IsFiniteSet(rows) /\ Cardinality(rows) <= MaxPhotos
    <2>1. IsFiniteSet(rows) /\ Cardinality(rows) = Cardinality(photos) + 1
      BY <1>3, <1>4, FS_AddElement
    <2>2. Cardinality(photos) \in Nat
      BY <1>4, FS_CardinalityType
    <2> HIDE DEF rows
    <2> QED BY <1>3, <2>1, <2>2, RowsOfSetsAssumption
  <1>6. PhotosApart(rows) /\ ObjectsThere(rows, used, stored) /\ rows \subseteq PhotoRow
    BY <1>3, <1>4 DEF PhotosApart, ObjectsThere
  <1>7. PhotosOK(rows, used, stored)
    BY <1>5, <1>6 DEF PhotosOK
  <1>8. /\ DOMAIN work' = Sessions
        /\ \A t \in Sessions : work'[t] = IF t = s THEN Album!Idle ELSE work[t]
    BY <1>1 DEF AlbumInv
  <1>9. ASSUME NEW t \in Sessions PROVE InHand(work'[t], rows, used, stored)
    <2>1. CASE t # s /\ work[t] # Album!Idle
      <3>1. Storing(work[t], photos, used, stored)
        BY <2>1 DEF AlbumInv, InHand
      <3>2. work[t].row.key # row.key /\ work[t].op # "upload"
        BY <1>1, <2>1 DEF AlbumInv, HandsApart, row
      <3>3. Storing(work[t], rows, used, stored)
        BY <3>1, <3>2 DEF Storing
      <3> QED BY <1>8, <2>1, <3>3 DEF InHand
    <2> QED BY <1>8, <2>1 DEF InHand
  <1>10. \A x, y \in Sessions : x # y => HandsApart(work'[x], work'[y])
    BY <1>8 DEF AlbumInv, HandsApart
  <1> QED
    BY <1>1, <1>7, <1>8, <1>9, <1>10 DEF AlbumInv

\* The client's order names each photo once.
LEMMA AlbumReorders ==
  ASSUME AlbumInv, Album!Reorder
  PROVE  AlbumInv'
  <1>1. PICK f \in Album!Orders(photos) :
          photos' = {[p EXCEPT !.position = f[p]] : p \in photos}
    BY DEF Album!Reorder
  <1> DEFINE rows == {[p EXCEPT !.position = f[p]] : p \in photos}
  <1>2. /\ photos \subseteq PhotoRow /\ IsFiniteSet(photos) /\ Cardinality(photos) <= MaxPhotos
        /\ PhotosApart(photos) /\ ObjectsThere(photos, used, stored)
    BY DEF AlbumInv, PhotosOK
  <1>3. /\ \A p \in photos : f[p] \in Nat
        /\ \A p, q \in photos : f[p] = f[q] => p = q
    <2>1. Cardinality(photos) \in Nat
      BY <1>2, FS_CardinalityType
    <2>2. f \in [photos -> 0..(Cardinality(photos) - 1)]
      BY AlbumCounts DEF Album!Orders
    <2> QED BY <2>1, <2>2 DEF Album!Orders
  <1>4. \A p \in photos :
          LET r == [p EXCEPT !.position = f[p]]
          IN  /\ r \in PhotoRow /\ r.key = p.key /\ r.request = p.request
              /\ r.position = f[p]
    BY <1>2, <1>3 DEF PhotoRow
  <1>5. IsFiniteSet(rows) /\ Cardinality(rows) <= MaxPhotos
    <2> DEFINE g == [p \in photos |-> [p EXCEPT !.position = f[p]]]
    <2>1. g \in Surjection(photos, rows)
      BY DEF Surjection
    <2>2. IsFiniteSet(rows) /\ Cardinality(rows) <= Cardinality(photos)
      <3> HIDE DEF g, rows
      <3> QED BY <1>2, <2>1, FS_Surjection
    <2>3. Cardinality(rows) \in Nat /\ Cardinality(photos) \in Nat
      BY <1>2, <2>2, FS_CardinalityType
    <2> HIDE DEF rows
    <2> QED BY <1>2, <2>2, <2>3, RowsOfSetsAssumption
  <1>6. rows \subseteq PhotoRow /\ PhotosApart(rows) /\ ObjectsThere(rows, used, stored)
    <2>1. rows \subseteq PhotoRow
      BY <1>4
    <2>2. ObjectsThere(rows, used, stored)
      BY <1>2, <1>4 DEF ObjectsThere
    <2>3. ASSUME NEW p \in photos, NEW q \in photos, NEW a, NEW b,
                 a = [p EXCEPT !.position = f[p]], b = [q EXCEPT !.position = f[q]],
                 a.key = b.key \/ a.position = b.position \/ a.request = b.request
          PROVE  a = b
      <3>1. p.key = q.key \/ f[p] = f[q] \/ p.request = q.request
        BY <1>4, <2>3
      <3>2. p = q
        BY <1>2, <1>3, <3>1 DEF PhotosApart
      <3> QED BY <2>3, <3>2
    <2> QED BY <2>1, <2>2, <2>3 DEF PhotosApart
  <1>7. PhotosOK(rows, used, stored)
    BY <1>5, <1>6 DEF PhotosOK
  <1>8. \A r \in rows : \E p \in photos : p.key = r.key
    BY <1>4
  <1>9. photos' = rows /\ UNCHANGED <<used, stored>> /\ UNCHANGED work /\ Album!ListingFree
    BY <1>1 DEF Album!Reorder
  <1>10. /\ DOMAIN work' = Sessions /\ \A t \in Sessions : work'[t] = work[t]
         /\ \A x, y \in Sessions : x # y => HandsApart(work'[x], work'[y])
    BY <1>9 DEF AlbumInv
  <1> HIDE DEF rows
  <1> QED
    BY <1>7, <1>8, <1>9, <1>10, AlbumChanges

LEMMA AlbumDeletes ==
  ASSUME AlbumInv, NEW s \in Sessions, NEW p \in photos, Album!Delete(s, p)
  PROVE  AlbumInv'
  <1> DEFINE rows == photos \ {p}
             w == [op |-> "delete", step |-> "cleanup", row |-> p]
  <1>1. /\ photos' = rows /\ UNCHANGED <<used, stored>> /\ Album!ListingFree
        /\ work' = [work EXCEPT ![s] = w]
    BY DEF Album!Delete, Album!Removed, Album!Start
  <1>2. /\ photos \subseteq PhotoRow /\ IsFiniteSet(photos) /\ Cardinality(photos) <= MaxPhotos
        /\ PhotosApart(photos) /\ ObjectsThere(photos, used, stored)
    BY DEF AlbumInv, PhotosOK
  <1>3. IsFiniteSet(rows) /\ Cardinality(rows) <= MaxPhotos
    <2>1. IsFiniteSet(rows) /\ Cardinality(rows) = Cardinality(photos) - 1
      BY <1>2, FS_RemoveElement
    <2>2. Cardinality(photos) \in Nat
      BY <1>2, FS_CardinalityType
    <2> HIDE DEF rows
    <2> QED BY <1>2, <2>1, <2>2, RowsOfSetsAssumption
  <1>4. PhotosOK(rows, used, stored)
    BY <1>2, <1>3 DEF PhotosOK, PhotosApart, ObjectsThere
  <1>5. w \in PhotoWork /\ w.op = "delete" /\ w.row = p /\ w.step = "cleanup"
    BY <1>2 DEF PhotoWork
  <1> HIDE DEF w
  <1>6. Storing(w, rows, used, stored)
    BY <1>2, <1>5 DEF Storing, PhotosApart, ObjectsThere
  <1>7. /\ DOMAIN work' = Sessions
        /\ \A t \in Sessions : work'[t] = IF t = s THEN w ELSE work[t]
    BY <1>1 DEF AlbumInv
  <1>8. \A t \in Sessions : work[t] # Album!Idle => work[t].row.key # p.key
    BY DEF AlbumInv, InHand, Storing
  <1>9. \A x, y \in Sessions : x # y => HandsApart(work'[x], work'[y])
    BY <1>5, <1>7, <1>8 DEF AlbumInv, HandsApart
  <1>10. \A r \in rows : \E q \in photos : q.key = r.key
    OBVIOUS
  <1>11. \A t \in Sessions :
           \/ work'[t] = work[t]
           \/ Storing(work'[t], rows, used, stored) /\ work'[t].op # "upload"
    BY <1>5, <1>6, <1>7
  <1> HIDE DEF rows
  <1> QED
    BY <1>1, <1>4, <1>7, <1>9, <1>10, <1>11, AlbumChanges

\* Clearing up, or a crash.
LEMMA AlbumEnds ==
  ASSUME AlbumInv, NEW s \in Sessions, Album!Cleanup(s) \/ Album!Crash(s)
  PROVE  AlbumInv'
  <1>1. /\ work[s] # Album!Idle /\ work' = [work EXCEPT ![s] = Album!Idle]
        /\ UNCHANGED <<photos, used>>
    BY DEF Album!Cleanup, Album!Crash, Album!Finish
  <1>2. PICK gone \in SUBSET Album!Objects(work[s].row.key) : stored' = stored \ gone
    <2> DEFINE all == Album!Objects(work[s].row.key)
               full == {<<work[s].row.key, "full">>}
    <2>1. full \subseteq all
      BY DEF Album!Objects, Album!Parts
    <2>2. stored' = stored \ all \/ stored' = stored \ {} \/ stored' = stored \ full
      BY DEF Album!Cleanup, Album!Crash
    <2> HIDE DEF all, full
    <2>3. {} \in SUBSET all /\ all \in SUBSET all /\ full \in SUBSET all
      BY <2>1
    <2>4. \E gone \in SUBSET all : stored' = stored \ gone
      BY <2>2, <2>3
    <2> QED BY <2>4 DEF all
  <1>3. InHand(Album!Idle, photos, used', stored')
    BY DEF InHand
  <1> QED
    BY <1>1, <1>2, <1>3, AlbumObjects, IdleApart, AlbumGoesOn

LEMMA AlbumStep == ASSUME AlbumInv, Album!Next PROVE AlbumInv'
  BY AlbumReorders, AlbumUploads, AlbumPuts, AlbumInserts, AlbumDeletes, AlbumEnds
  DEF Album!Next

LEMMA AlbumKeeps == AlbumInv => Album!PhotosStored /\ Album!AlbumInOrder
  <1> SUFFICES ASSUME AlbumInv PROVE Album!PhotosStored /\ Album!AlbumInOrder
    OBVIOUS
  <1>1. Album!PhotosStored
    <2> SUFFICES ASSUME NEW p \in photos, NEW o \in Album!Objects(p.key)
                 PROVE  o \in stored
      BY DEF Album!PhotosStored
    <2>1. o = <<p.key, "full">> \/ o = <<p.key, "thumb">>
      BY DEF Album!Objects, Album!Parts
    <2> QED BY <2>1 DEF AlbumInv, PhotosOK, ObjectsThere
  <1>2. Album!AlbumInOrder
    BY AlbumCounts DEF AlbumInv, PhotosOK, PhotosApart, Album!AlbumInOrder
  <1> QED BY <1>1, <1>2

-----------------------------------------------------------------------------
(* The warehouse.                                                            *)

\* The sum over a finite set, as MapThenSumSet computes it.
Chosen(s) == CHOOSE x \in s : TRUE
Sums(g, f, S) ==
  g = [s \in SUBSET S |-> IF s = {} THEN 0 ELSE f[Chosen(s)] + g[s \ {Chosen(s)}]]
Total(f, S, n) == (\E g : Sums(g, f, S)) /\ (\A g : Sums(g, f, S) => g[S] = n)

\* f has the sizes of parts of R that do not meet.
Sizes(f, B, S, R) == \A x \in S : B[x] \subseteq R /\ f[x] = Cardinality(B[x])
Apart(B, S) == \A x, y \in S : x # y => B[x] \cap B[y] = {}

\* The sum of the sizes of sets that do not meet is the size of their union:
\* the sizes of the unions obey the recursion, and a smallest set for which
\* another solution differs would lose its chosen element.
LEMMA SumOfParts ==
  ASSUME NEW S, IsFiniteSet(S), NEW R, IsFiniteSet(R), NEW f, NEW B,
         Sizes(f, B, S, R), Apart(B, S),
         NEW whole, whole = UNION {B[x] : x \in S}
  PROVE  Total(f, S, Cardinality(whole))
  <1> DEFINE U(s) == UNION {B[x] : x \in s}
             c == [s \in SUBSET S |-> Cardinality(U(s))]
  <1>1. \A s \in SUBSET S : U(s) \subseteq R
    BY DEF Sizes
  <1>2. \A s \in SUBSET S : IsFiniteSet(U(s)) /\ Cardinality(U(s)) \in Nat
    <2> SUFFICES ASSUME NEW s \in SUBSET S
                 PROVE  IsFiniteSet(U(s)) /\ Cardinality(U(s)) \in Nat
      OBVIOUS
    <2>1. U(s) \in SUBSET R
      BY <1>1
    <2> HIDE DEF U
    <2>2. IsFiniteSet(U(s))
      BY <2>1, FS_Subset
    <2> QED BY <2>2, FS_CardinalityType
  <1>3. Cardinality(U({})) = 0
    <2>1. U({}) = {}
      OBVIOUS
    <2> HIDE DEF U
    <2> QED BY <2>1, FS_EmptySet
  <1>4. ASSUME NEW s \in SUBSET S, s # {}
        PROVE  /\ Chosen(s) \in s
               /\ Cardinality(U(s)) = f[Chosen(s)] + Cardinality(U(s \ {Chosen(s)}))
    <2>1. Chosen(s) \in s
      BY <1>4 DEF Chosen
    <2>2. PICK x \in s : x = Chosen(s)
      BY <2>1
    <2>3. x \in S /\ s \ {x} \in SUBSET S
      OBVIOUS
    <2>4. U(s) = B[x] \cup U(s \ {x})
      OBVIOUS
    <2>5. B[x] \cap U(s \ {x}) = {}
      BY <2>3 DEF Apart
    <2>6. IsFiniteSet(B[x])
      BY <2>3, FS_Subset DEF Sizes
    <2>7. IsFiniteSet(U(s \ {x})) /\ Cardinality(U(s \ {x})) \in Nat
      BY <1>2, <2>3
    <2>8. Cardinality(B[x]) \in Nat /\ f[x] = Cardinality(B[x])
      BY <2>3, <2>6, FS_CardinalityType DEF Sizes
    <2> HIDE DEF U
    <2>9. Cardinality(B[x] \cap U(s \ {x})) = 0
      BY <2>5, FS_EmptySet
    <2>10. Cardinality(B[x] \cup U(s \ {x}))
             = Cardinality(B[x]) + Cardinality(U(s \ {x})) - Cardinality(B[x] \cap U(s \ {x}))
      BY <2>6, <2>7, FS_Union
    <2>11. Cardinality(U(s)) = f[x] + Cardinality(U(s \ {x}))
      BY <2>4, <2>7, <2>8, <2>9, <2>10
    <2> QED BY <2>1, <2>2, <2>11
  <1> HIDE DEF U
  <1>5. Sums(c, f, S)
    <2>1. ASSUME NEW s \in SUBSET S
          PROVE  c[s] = IF s = {} THEN 0 ELSE f[Chosen(s)] + c[s \ {Chosen(s)}]
      <3>1. CASE s = {}
        BY <1>3, <3>1
      <3>2. CASE s # {}
        <4>1. s \ {Chosen(s)} \in SUBSET S
          OBVIOUS
        <4> QED BY <1>4, <3>2, <4>1
      <3> QED BY <3>1, <3>2
    <2>2. c = [s \in SUBSET S |-> c[s]]
      OBVIOUS
    <2> HIDE DEF c
    <2> QED BY <2>1, <2>2 DEF Sums
  <1>6. ASSUME NEW g, Sums(g, f, S) PROVE g[S] = c[S]
    <2> DEFINE Bad == {s \in FiniteSubsetsOf(S) : g[s] # c[s]}
    <2> SUFFICES ASSUME Bad # {} PROVE FALSE
      BY DEF FiniteSubsetsOf
    <2>1. PICK T \in Bad : \A s \in Bad : ~(<<s, T>> \in StrictSubsetOrdering(S))
      <3> Bad \subseteq FiniteSubsetsOf(S)
        OBVIOUS
      <3> HIDE DEF Bad
      <3> QED BY FS_StrictSubsetOrderingWellFounded, WFMin
    <2>2. T \in SUBSET S /\ IsFiniteSet(T) /\ g[T] # c[T]
      BY DEF FiniteSubsetsOf
    <2>3. /\ g[T] = IF T = {} THEN 0 ELSE f[Chosen(T)] + g[T \ {Chosen(T)}]
          /\ c[T] = IF T = {} THEN 0 ELSE f[Chosen(T)] + c[T \ {Chosen(T)}]
      <3> HIDE DEF c
      <3> QED BY <1>5, <1>6, <2>2 DEF Sums
    <2>4. T # {} /\ Chosen(T) \in T
      BY <1>4, <2>2, <2>3
    <2> DEFINE less == T \ {Chosen(T)}
    <2>5. less \in SUBSET S /\ IsFiniteSet(less)
      BY <2>2, FS_RemoveElement
    <2>6. <<less, T>> \in StrictSubsetOrdering(S)
      BY <2>2, <2>4 DEF StrictSubsetOrdering
    <2>7. g[less] = c[less]
      BY <2>1, <2>5, <2>6 DEF FiniteSubsetsOf
    <2> QED BY <2>2, <2>3, <2>4, <2>7
  <1>7. c[S] = Cardinality(whole)
    BY DEF U
  <1> HIDE DEF c
  <1> QED BY <1>5, <1>6, <1>7 DEF Total

LEMMA CountsSummed ==
  ASSUME NEW S, NEW f, \A x \in S : f[x] = x.metrics.count,
         NEW v, Total(f, S, v)
  PROVE  Warehouse!MapThenSumSet(LAMBDA row : row.metrics.count, S) = v
  <1> DEFINE P(g) == g = [s \in SUBSET S |->
        IF s = {} THEN 0
        ELSE (CHOOSE x \in s : TRUE).metrics.count + g[s \ {CHOOSE x \in s : TRUE}]]
  <1>1. ASSUME NEW g PROVE P(g) <=> Sums(g, f, S)
    BY DEF Sums, Chosen
  <1>2. \E g : P(g)
    BY <1>1 DEF Total
  <1>3. Warehouse!MapThenSumSet(LAMBDA row : row.metrics.count, S) = (CHOOSE g : P(g))[S]
    BY Zenon DEF Warehouse!MapThenSumSet, Warehouse!MapThenFoldSet
  <1>4. P(CHOOSE g : P(g))
    BY <1>2
  <1> QED BY <1>1, <1>3, <1>4 DEF Total

LEMMA CancelledSummed ==
  ASSUME NEW S, NEW f, \A x \in S : f[x] = x.metrics.cancelled,
         NEW v, Total(f, S, v)
  PROVE  Warehouse!MapThenSumSet(LAMBDA row : row.metrics.cancelled, S) = v
  <1> DEFINE P(g) == g = [s \in SUBSET S |->
        IF s = {} THEN 0
        ELSE (CHOOSE x \in s : TRUE).metrics.cancelled + g[s \ {CHOOSE x \in s : TRUE}]]
  <1>1. ASSUME NEW g PROVE P(g) <=> Sums(g, f, S)
    BY DEF Sums, Chosen
  <1>2. \E g : P(g)
    BY <1>1 DEF Total
  <1>3. Warehouse!MapThenSumSet(LAMBDA row : row.metrics.cancelled, S) = (CHOOSE g : P(g))[S]
    BY Zenon DEF Warehouse!MapThenSumSet, Warehouse!MapThenFoldSet
  <1>4. P(CHOOSE g : P(g))
    BY <1>2
  <1> QED BY <1>1, <1>3, <1>4 DEF Total

-----------------------------------------------------------------------------
(* The two tables of a day.                                                  *)

Booking == [resource : Resources \cup {None}, day : Days \cup {None}, cancelled : BOOLEAN]

\* Rows as a refresh reads them: of reservations that lie where the rows say.
Read(rows) ==
  /\ IsFiniteSet(rows)
  /\ \A e \in rows :
       /\ e.id \in Reservations
       /\ e.day = reservations[e.id].day /\ e.resource = reservations[e.id].resource

\* What a refresh read is all there is on its days, and it deletes nothing else.
Refreshing(w) ==
  /\ DOMAIN w = {"step", "days", "run", "rows", "seen", "gone"}
  /\ Read(w.rows) /\ \A e \in w.rows : e.day \in w.days
  /\ \A i \in Reservations : reservations[i].day \in w.days =>
       \E e \in w.rows : e.id = i
  /\ w.seen # None => \A x \in w.seen : x.day \in w.days
  /\ \A x \in w.gone : x.day \in w.days

\* Both tables of a day are of the same rows.
OfOne(day) ==
  \E rows, run :
    /\ Read(rows) /\ \A e \in rows : e.day = day
    /\ {x \in resourceRows : x.day = day} = Warehouse!OfResources(rows, run)
    /\ {x \in venueRows : x.day = day} = Warehouse!OfVenue(rows, run)

WarehouseInv ==
  /\ reservations \in [Reservations -> Booking]
  /\ DOMAIN work = Sessions
  /\ \A w \in Sessions : work[w] = Warehouse!Idle \/ Refreshing(work[w])
  /\ \A day \in Days : OfOne(day)

LEMMA WarehouseStart == Warehouse!Init => WarehouseInv
  <1> SUFFICES ASSUME Warehouse!Init PROVE WarehouseInv
    OBVIOUS
  <1>1. reservations \in [Reservations -> Booking]
    <2>1. ASSUME NEW i \in Reservations PROVE reservations[i] \in Booking
      <3>1. PICK row : row = reservations[i]
        OBVIOUS
      <3>2. \/ row \in [resource : Resources, day : Days, cancelled : {FALSE}]
            \/ row = Warehouse!NotBooked
        BY <3>1 DEF Warehouse!Init
      <3>3. CASE row \in [resource : Resources, day : Days, cancelled : {FALSE}]
        BY <3>1, <3>3 DEF Booking
      <3>4. CASE row = Warehouse!NotBooked
        BY <3>1, <3>4 DEF Warehouse!NotBooked, Booking
      <3> QED BY <3>2, <3>3, <3>4
    <2>2. reservations = [i \in Reservations |-> reservations[i]]
      BY DEF Warehouse!Init
    <2> QED BY <2>1, <2>2
  <1>2. ASSUME NEW day \in Days PROVE OfOne(day)
    <2>1. Read({})
      BY FS_EmptySet DEF Read
    <2>2. Warehouse!OfResources({}, 0) = {} /\ Warehouse!OfVenue({}, 0) = {}
      BY DEF Warehouse!OfResources, Warehouse!OfVenue
    <2>3. {x \in resourceRows : x.day = day} = {} /\ {x \in venueRows : x.day = day} = {}
      BY DEF Warehouse!Init
    <2> QED BY <2>1, <2>2, <2>3 DEF OfOne
  <1> QED
    BY <1>1, <1>2 DEF Warehouse!Init, WarehouseInv

\* Reservations may be cancelled, but stay where they are.
LEMMA WarehouseKept ==
  ASSUME WarehouseInv, reservations' \in [Reservations -> Booking],
         \A i \in Reservations :
           /\ reservations'[i].day = reservations[i].day
           /\ reservations'[i].resource = reservations[i].resource,
         UNCHANGED <<resourceRows, venueRows>>,
         DOMAIN work' = Sessions,
         \A w \in Sessions :
           work'[w] = work[w] \/ work'[w] = Warehouse!Idle \/ Refreshing(work[w])'
  PROVE  WarehouseInv'
  <1>1. ASSUME NEW rows, Read(rows) PROVE Read(rows)'
    BY <1>1 DEF Read
  <1>2. ASSUME NEW day \in Days PROVE OfOne(day)'
    <2>1. PICK rows, run :
            /\ Read(rows) /\ \A e \in rows : e.day = day
            /\ {x \in resourceRows : x.day = day} = Warehouse!OfResources(rows, run)
            /\ {x \in venueRows : x.day = day} = Warehouse!OfVenue(rows, run)
      BY DEF WarehouseInv, OfOne
    <2>2. Read(rows)'
      BY <1>1, <2>1
    <2> QED BY <2>1, <2>2 DEF OfOne
  <1>3. ASSUME NEW w \in Sessions PROVE work'[w] = Warehouse!Idle \/ Refreshing(work[w])'
    <2> SUFFICES ASSUME work'[w] = work[w], work[w] # Warehouse!Idle
                 PROVE  Refreshing(work[w])'
      OBVIOUS
    <2>1. Refreshing(work[w])
      BY DEF WarehouseInv
    <2> QED BY <2>1 DEF Refreshing, Read
  <1> QED
    BY <1>2, <1>3 DEF WarehouseInv

\* The steps of a refresh before it commits.
LEMMA WarehouseRefreshes ==
  ASSUME WarehouseInv, NEW w \in Sessions, NEW days \in SUBSET Days,
         Warehouse!Refresh(w, days)
  PROVE  WarehouseInv'
  <1> DEFINE on == {j \in Reservations : reservations[j].day \in days}
             Line(i) == [id |-> i, day |-> reservations[i].day,
                         resource |-> reservations[i].resource,
                         cancelled |-> reservations[i].cancelled]
             rows == {Line(i) : i \in on}
             req == [step |-> "resources", days |-> days, run |-> runs + 1,
                     rows |-> rows, seen |-> None, gone |-> {}]
  <1>1. /\ work' = [work EXCEPT ![w] = req]
        /\ UNCHANGED <<reservations, resourceRows, venueRows>>
    BY DEF Warehouse!Refresh
  <1>2. IsFiniteSet(rows)
    <2>1. IsFiniteSet(on)
      BY FS_Subset, RowsOfSetsAssumption
    <2> DEFINE g == [i \in on |-> Line(i)]
    <2>2. g \in Surjection(on, rows)
      BY DEF Surjection
    <2> HIDE DEF on, g, rows
    <2> QED BY <2>1, <2>2, FS_Surjection
  <1>3. Read(rows) /\ \A e \in rows : e.day \in days
    BY <1>2 DEF Read
  <1>4. \A i \in Reservations : reservations[i].day \in days => \E e \in rows : e.id = i
    <2> SUFFICES ASSUME NEW i \in Reservations, reservations[i].day \in days
                 PROVE  \E e \in rows : e.id = i
      OBVIOUS
    <2>1. Line(i) \in rows /\ Line(i).id = i
      OBVIOUS
    <2> QED BY <2>1
  <1> HIDE DEF rows
  <1>5. Refreshing(req)
    BY <1>3, <1>4 DEF Refreshing
  <1>6. /\ DOMAIN work' = Sessions
        /\ \A x \in Sessions : work'[x] = IF x = w THEN req ELSE work[x]
    BY <1>1 DEF WarehouseInv
  <1>7. Refreshing(work[w])'
    <2>1. work'[w] = req
      BY <1>6
    <2> HIDE DEF req
    <2> QED BY <1>1, <1>5, <2>1 DEF Refreshing, Read
  <1>8. /\ reservations' \in [Reservations -> Booking]
        /\ \A i \in Reservations :
             /\ reservations'[i].day = reservations[i].day
             /\ reservations'[i].resource = reservations[i].resource
    BY <1>1 DEF WarehouseInv
  <1> HIDE DEF req
  <1>9. \A x \in Sessions :
          work'[x] = work[x] \/ work'[x] = Warehouse!Idle \/ Refreshing(work[x])'
    BY <1>6, <1>7
  <1> QED
    BY <1>1, <1>6, <1>8, <1>9, WarehouseKept

LEMMA WarehouseDeletes ==
  ASSUME WarehouseInv, NEW w \in Sessions,
         Warehouse!DeleteBegin(w) \/ Warehouse!DeleteEnd(w)
  PROVE  WarehouseInv'
  <1> DEFINE v == work[w]
  <1>1. Refreshing(v)
    BY DEF Warehouse!DeleteBegin, Warehouse!DeleteEnd, Warehouse!Idle, WarehouseInv
  <1>2. UNCHANGED <<reservations, resourceRows, venueRows>>
    BY DEF Warehouse!DeleteBegin, Warehouse!DeleteEnd
  <1>3. PICK seen, gone, step :
          /\ work' = [work EXCEPT ![w] = [v EXCEPT !.seen = seen, !.gone = gone, !.step = step]]
          /\ seen # None => \A x \in seen : x.day \in v.days
          /\ \A x \in gone : x.day \in v.days
    <2>1. CASE Warehouse!DeleteBegin(w)
      <3> DEFINE seen == {row \in Warehouse!Table(v.step) : row.day \in v.days}
      <3>1. work' = [work EXCEPT ![w] = [v EXCEPT !.seen = seen]]
        BY <2>1 DEF Warehouse!DeleteBegin
      <3>2. [v EXCEPT !.seen = seen]
              = [v EXCEPT !.seen = seen, !.gone = v.gone, !.step = v.step]
        BY <1>1 DEF Refreshing
      <3>3. /\ \A x \in seen : x.day \in v.days
            /\ \A x \in v.gone : x.day \in v.days
        BY <1>1 DEF Refreshing
      <3> HIDE DEF seen
      <3> QED BY <3>1, <3>2, <3>3
    <2>2. CASE Warehouse!DeleteEnd(w)
      <3> DEFINE rows == v.seen \cap Warehouse!Table(v.step)
                 next == IF v.step = "resources" THEN "venues" ELSE "insert"
      <3>1. /\ v.seen # None
            /\ work' = [work EXCEPT ![w] =
                 [v EXCEPT !.seen = None, !.gone = v.gone \cup rows, !.step = next]]
        BY <2>2, <1>1 DEF Warehouse!DeleteEnd, Refreshing
      <3>2. \A x \in v.gone \cup rows : x.day \in v.days
        BY <1>1, <3>1 DEF Refreshing
      <3> HIDE DEF rows, next
      <3> QED BY <3>1, <3>2
    <2> QED BY <2>1, <2>2
  <1> DEFINE req == [v EXCEPT !.seen = seen, !.gone = gone, !.step = step]
  <1>4. /\ DOMAIN req = {"step", "days", "run", "rows", "seen", "gone"}
        /\ req.rows = v.rows /\ req.days = v.days /\ req.seen = seen /\ req.gone = gone
    BY <1>1 DEF Refreshing
  <1>5. work' = [work EXCEPT ![w] = req]
    BY <1>3
  <1> HIDE DEF req
  <1>6. Refreshing(req)
    BY <1>1, <1>3, <1>4 DEF Refreshing
  <1>7. /\ DOMAIN work' = Sessions
        /\ \A x \in Sessions : work'[x] = IF x = w THEN req ELSE work[x]
    BY <1>5 DEF WarehouseInv
  <1>8. Refreshing(work[w])'
    <2>1. work'[w] = req
      BY <1>7
    <2> QED BY <1>2, <1>6, <2>1 DEF Refreshing, Read
  <1>9. /\ reservations' \in [Reservations -> Booking]
        /\ \A i \in Reservations :
             /\ reservations'[i].day = reservations[i].day
             /\ reservations'[i].resource = reservations[i].resource
    BY <1>2 DEF WarehouseInv
  <1>10. \A x \in Sessions :
           work'[x] = work[x] \/ work'[x] = Warehouse!Idle \/ Refreshing(work[x])'
    BY <1>7, <1>8
  <1> QED
    BY <1>2, <1>7, <1>9, <1>10, WarehouseKept

LEMMA WarehouseCancels ==
  ASSUME WarehouseInv, NEW i \in Reservations, Warehouse!Cancel(i)
  PROVE  WarehouseInv'
  <1>1. /\ reservations' = [reservations EXCEPT ![i].cancelled = TRUE]
        /\ UNCHANGED <<resourceRows, venueRows, work>>
    BY DEF Warehouse!Cancel
  <1>2. reservations \in [Reservations -> Booking] /\ reservations[i] \in Booking
    BY DEF WarehouseInv
  <1>3. PICK row : row = [reservations[i] EXCEPT !.cancelled = TRUE]
    OBVIOUS
  <1>4. row \in Booking /\ row.day = reservations[i].day /\ row.resource = reservations[i].resource
    BY <1>2, <1>3 DEF Booking
  <1>5. reservations' = [reservations EXCEPT ![i] = row]
    BY <1>1, <1>3
  <1>6. /\ reservations' \in [Reservations -> Booking]
        /\ \A j \in Reservations :
             /\ reservations'[j].day = reservations[j].day
             /\ reservations'[j].resource = reservations[j].resource
    BY <1>2, <1>4, <1>5
  <1>7. DOMAIN work' = Sessions /\ \A w \in Sessions : work'[w] = work[w]
    BY <1>1 DEF WarehouseInv
  <1> QED
    BY <1>1, <1>6, <1>7, WarehouseKept

LEMMA WarehouseAborts ==
  ASSUME WarehouseInv, NEW w \in Sessions, Warehouse!Abort(w)
  PROVE  WarehouseInv'
  <1>1. /\ work' = [work EXCEPT ![w] = Warehouse!Idle]
        /\ UNCHANGED <<reservations, resourceRows, venueRows>>
    BY DEF Warehouse!Abort
  <1>2. /\ DOMAIN work' = Sessions
        /\ \A x \in Sessions : work'[x] = work[x] \/ work'[x] = Warehouse!Idle
    BY <1>1 DEF WarehouseInv
  <1>3. /\ reservations' \in [Reservations -> Booking]
        /\ \A j \in Reservations :
             /\ reservations'[j].day = reservations[j].day
             /\ reservations'[j].resource = reservations[j].resource
    BY <1>1 DEF WarehouseInv
  <1> QED
    BY <1>1, <1>2, <1>3, WarehouseKept

-----------------------------------------------------------------------------
(* A refresh replaces both tables of its days, or neither.                   *)

LEMMA LinesOf ==
  ASSUME NEW rows, NEW run
  PROVE  /\ \A x \in Warehouse!OfResources(rows, run) : \E e \in rows :
              x.day = e.day /\ x.resource = e.resource
         /\ \A e \in rows : \E x \in Warehouse!OfResources(rows, run) :
              x.day = e.day /\ x.resource = e.resource
         /\ \A x \in Warehouse!OfVenue(rows, run) :
              "resource" \notin DOMAIN x /\ \E e \in rows : x.day = e.day
         /\ \A e \in rows : \E x \in Warehouse!OfVenue(rows, run) : x.day = e.day
  <1> DEFINE F(k) == [day |-> k.day, resource |-> k.resource, run |-> run,
               metrics |-> Warehouse!Metrics({row \in rows : row.day = k.day
                                                  /\ row.resource = k.resource})]
             G(k) == [day |-> k.day, run |-> run,
               metrics |-> Warehouse!Metrics({row \in rows : row.day = k.day})]
  <1>1. /\ Warehouse!OfResources(rows, run) = {F(k) : k \in rows}
        /\ Warehouse!OfVenue(rows, run) = {G(k) : k \in rows}
    BY DEF Warehouse!OfResources, Warehouse!OfVenue
  <1>2. ASSUME NEW k
        PROVE  /\ F(k).day = k.day /\ F(k).resource = k.resource
               /\ G(k).day = k.day /\ "resource" \notin DOMAIN G(k)
    OBVIOUS
  <1> HIDE DEF F, G
  <1> QED BY <1>1, <1>2

OfDay(rows, day) == {e \in rows : e.day = day}

\* The lines of one day come from the rows of that day.
LEMMA LinesOfDay ==
  ASSUME NEW rows, NEW run, NEW day
  PROVE  /\ OfDay(Warehouse!OfResources(rows, run), day)
              = Warehouse!OfResources(OfDay(rows, day), run)
         /\ OfDay(Warehouse!OfVenue(rows, run), day)
              = Warehouse!OfVenue(OfDay(rows, day), run)
  <1> DEFINE on == {e \in rows : e.day = day}
             A(k) == {row \in rows : row.day = k.day /\ row.resource = k.resource}
             B(k) == {row \in on : row.day = k.day /\ row.resource = k.resource}
             C(k) == {row \in rows : row.day = k.day}
             D(k) == {row \in on : row.day = k.day}
  <1>1. \A k \in on : A(k) = B(k) /\ C(k) = D(k)
    OBVIOUS
  <1> DEFINE F(k, s) == [day |-> k.day, resource |-> k.resource, run |-> run,
                         metrics |-> Warehouse!Metrics(s)]
             G(k, s) == [day |-> k.day, run |-> run, metrics |-> Warehouse!Metrics(s)]
  <1>2. /\ Warehouse!OfResources(rows, run) = {F(k, A(k)) : k \in rows}
        /\ Warehouse!OfResources(on, run) = {F(k, B(k)) : k \in on}
        /\ Warehouse!OfVenue(rows, run) = {G(k, C(k)) : k \in rows}
        /\ Warehouse!OfVenue(on, run) = {G(k, D(k)) : k \in on}
    BY DEF Warehouse!OfResources, Warehouse!OfVenue
  <1>3. \A k, s : F(k, s).day = k.day /\ G(k, s).day = k.day
    OBVIOUS
  <1> HIDE DEF A, B, C, D, F, G
  <1>4. {x \in {F(k, A(k)) : k \in rows} : x.day = day} = {F(k, B(k)) : k \in on}
    BY <1>1, <1>3
  <1>5. {x \in {G(k, C(k)) : k \in rows} : x.day = day} = {G(k, D(k)) : k \in on}
    BY <1>1, <1>3
  <1> QED BY <1>2, <1>4, <1>5 DEF OfDay

LEMMA WarehouseCommits ==
  ASSUME WarehouseInv, NEW w \in Sessions, Warehouse!Commit(w)
  PROVE  WarehouseInv'
  <1> DEFINE v == work[w]
             lines == Warehouse!OfResources(v.rows, v.run)
             line == Warehouse!OfVenue(v.rows, v.run)
  <1>1. Refreshing(v)
    BY DEF Warehouse!Commit, Warehouse!Idle, WarehouseInv
  <1>2. /\ Warehouse!KeysFree(resourceRows \ v.gone, lines)
        /\ Warehouse!KeysFree(venueRows \ v.gone, line)
        /\ resourceRows' = (resourceRows \ v.gone) \cup lines
        /\ venueRows' = (venueRows \ v.gone) \cup line
        /\ work' = [work EXCEPT ![w] = Warehouse!Idle] /\ UNCHANGED reservations
    BY DEF Warehouse!Commit
  <1>3. ASSUME NEW day \in Days PROVE OfOne(day)'
    <2>1. PICK rows, run :
            /\ Read(rows) /\ \A e \in rows : e.day = day
            /\ {x \in resourceRows : x.day = day} = Warehouse!OfResources(rows, run)
            /\ {x \in venueRows : x.day = day} = Warehouse!OfVenue(rows, run)
      BY DEF WarehouseInv, OfOne
    <2>2. CASE day \notin v.days
      <3>1. \A x \in v.gone : x.day # day
        BY <1>1, <2>2 DEF Refreshing
      <3>2. \A x \in lines \cup line : x.day # day
        BY <1>1, <2>2, LinesOf DEF Refreshing
      <3> HIDE DEF lines, line
      <3>3. /\ {x \in resourceRows' : x.day = day} = {x \in resourceRows : x.day = day}
            /\ {x \in venueRows' : x.day = day} = {x \in venueRows : x.day = day}
        BY <1>2, <3>1, <3>2
      <3>4. Read(rows)'
        BY <1>2, <2>1 DEF Read
      <3> QED BY <2>1, <3>3, <3>4 DEF OfOne
    <2>3. CASE day \in v.days
      <3>1. PICK all, number, on : all = v.rows /\ number = v.run /\ on = OfDay(all, day)
        OBVIOUS
      <3>2. lines = Warehouse!OfResources(all, number) /\ line = Warehouse!OfVenue(all, number)
        BY <3>1
      <3>3. /\ Read(all)
            /\ \A i \in Reservations : reservations[i].day = day => \E e \in all : e.id = i
        BY <1>1, <2>3, <3>1 DEF Refreshing
      <3>4. ASSUME NEW e \in rows
            PROVE  \E f \in all : f.day = day /\ f.resource = e.resource
        <4>1. /\ e.id \in Reservations /\ reservations[e.id].day = day
              /\ reservations[e.id].resource = e.resource
          BY <2>1 DEF Read
        <4>2. PICK f \in all : f.id = e.id
          BY <3>3, <4>1
        <4> QED BY <3>3, <4>1, <4>2 DEF Read
      <3> HIDE DEF lines, line
      <3>5. ASSUME NEW x \in resourceRows \ v.gone, x.day = day PROVE FALSE
        <4>1. x \in Warehouse!OfResources(rows, run)
          BY <2>1, <3>5
        <4>2. PICK e \in rows : x.resource = e.resource
          BY <4>1, LinesOf
        <4>3. PICK f \in all : f.day = day /\ f.resource = e.resource
          BY <3>4
        <4>4. PICK y \in Warehouse!OfResources(all, number) :
                y.day = f.day /\ y.resource = f.resource
          BY <4>3, LinesOf
        <4> QED BY <1>2, <3>2, <3>5, <4>2, <4>3, <4>4 DEF Warehouse!KeysFree
      <3>6. ASSUME NEW x \in venueRows \ v.gone, x.day = day PROVE FALSE
        <4>1. x \in Warehouse!OfVenue(rows, run)
          BY <2>1, <3>6
        <4>2. PICK e \in rows : "resource" \notin DOMAIN x
          BY <4>1, LinesOf
        <4>3. PICK f \in all : f.day = day
          BY <3>4
        <4>4. PICK y \in Warehouse!OfVenue(all, number) : y.day = f.day
          BY <4>3, LinesOf
        <4> QED BY <1>2, <3>2, <3>6, <4>2, <4>3, <4>4 DEF Warehouse!KeysFree
      <3>7. /\ {x \in resourceRows' : x.day = day} = {x \in lines : x.day = day}
            /\ {x \in venueRows' : x.day = day} = {x \in line : x.day = day}
        BY <1>2, <3>5, <3>6
      <3>8. on = {e \in all : e.day = day}
        BY <3>1 DEF OfDay
      <3>9. /\ {x \in resourceRows' : x.day = day} = Warehouse!OfResources(on, number)
            /\ {x \in venueRows' : x.day = day} = Warehouse!OfVenue(on, number)
        <4>1. on = OfDay(all, day)
          BY <3>1
        <4>2. /\ OfDay(lines, day) = Warehouse!OfResources(on, number)
              /\ OfDay(line, day) = Warehouse!OfVenue(on, number)
          BY <3>2, <4>1, LinesOfDay
        <4> QED BY <3>7, <4>2 DEF OfDay
      <3>10. Read(on)
        <4>1. IsFiniteSet(on)
          BY <3>3, <3>8, FS_Subset DEF Read
        <4> QED BY <3>3, <3>8, <4>1 DEF Read
      <3>11. Read(on)' /\ \A e \in on : e.day = day
        BY <1>2, <3>8, <3>10 DEF Read
      <3> QED BY <3>9, <3>11 DEF OfOne
    <2> QED BY <2>2, <2>3
  <1>4. ASSUME NEW x \in Sessions PROVE work'[x] = Warehouse!Idle \/ Refreshing(work[x])'
    <2>1. work'[x] = Warehouse!Idle \/ work'[x] = work[x]
      BY <1>2 DEF WarehouseInv
    <2> SUFFICES ASSUME work'[x] = work[x], work[x] # Warehouse!Idle
                 PROVE  Refreshing(work[x])'
      BY <2>1
    <2>2. Refreshing(work[x])
      BY DEF WarehouseInv
    <2> QED BY <1>2, <2>2 DEF Refreshing, Read
  <1> QED
    BY <1>2, <1>3, <1>4 DEF WarehouseInv

LEMMA WarehouseRests ==
  ASSUME WarehouseInv, UNCHANGED <<reservations, resourceRows, venueRows, work>>
  PROVE  WarehouseInv'
  BY DEF WarehouseInv, Refreshing, Read, OfOne

LEMMA WarehouseStep == ASSUME WarehouseInv, Warehouse!Next PROVE WarehouseInv'
  <1>1. ASSUME NEW i \in Reservations, NEW day \in Days,
               \/ Warehouse!Move(i, day)
               \/ \E r \in Resources : Warehouse!Book(i, r, day)
        PROVE  FALSE
    BY <1>1 DEF Warehouse!Move, Warehouse!Book, Cancellations
  <1> QED
    BY <1>1, WarehouseCancels, WarehouseRefreshes, WarehouseDeletes, WarehouseCommits,
       WarehouseAborts
    DEF Warehouse!Next

-----------------------------------------------------------------------------
(* Sums over the two tables.                                                 *)

LEMMA WarehouseCounts == \A S : Warehouse!Cardinality(S) = Cardinality(S)
  BY DEF Warehouse!Cardinality, Cardinality

OnDay(rows, day) == \A e \in rows : e.day = day
OfOneResource(rows, r) == {e \in rows : e.resource = r}

VenueLine(rows, run, day) == [day |-> day, run |-> run, metrics |-> Warehouse!Metrics(rows)]

\* The line of a resource counts its rows.
LEMMA LinesCount ==
  ASSUME NEW rows, NEW run, NEW day, OnDay(rows, day),
         NEW x \in Warehouse!OfResources(rows, run)
  PROVE  /\ x.metrics.count = Cardinality(OfOneResource(rows, x.resource))
         /\ x.metrics.cancelled
              = Cardinality({e \in OfOneResource(rows, x.resource) : e.cancelled})
  <1>1. PICK k \in rows :
          x = [day |-> k.day, resource |-> k.resource, run |-> run,
               metrics |-> Warehouse!Metrics({row \in rows : row.day = k.day
                                                  /\ row.resource = k.resource})]
    BY DEF Warehouse!OfResources
  <1>2. x.resource = k.resource /\ k.day = day
    BY <1>1 DEF OnDay
  <1>3. PICK part : part = OfOneResource(rows, x.resource)
    OBVIOUS
  <1>4. {row \in rows : row.day = k.day /\ row.resource = k.resource} = part
    BY <1>2, <1>3 DEF OfOneResource, OnDay
  <1>6. x.metrics = Warehouse!Metrics(part)
    BY <1>1, <1>4
  <1>7. /\ Warehouse!Metrics(part).count = Cardinality(part)
        /\ Warehouse!Metrics(part).cancelled = Cardinality({e \in part : e.cancelled})
    BY WarehouseCounts DEF Warehouse!Metrics
  <1>8. /\ x.metrics.count = Cardinality(part)
        /\ x.metrics.cancelled = Cardinality({e \in part : e.cancelled})
    BY <1>6, <1>7
  <1> QED BY <1>3, <1>8

\* No other line does.
LEMMA OneLine ==
  ASSUME NEW rows, NEW run, NEW day, OnDay(rows, day),
         NEW x \in Warehouse!OfResources(rows, run),
         NEW y \in Warehouse!OfResources(rows, run), x.resource = y.resource
  PROVE  x = y
  <1> DEFINE F(k) == [day |-> k.day, resource |-> k.resource, run |-> run,
               metrics |-> Warehouse!Metrics({row \in rows : row.day = k.day
                                                  /\ row.resource = k.resource})]
  <1>1. PICK k \in rows, l \in rows : x = F(k) /\ y = F(l)
    BY DEF Warehouse!OfResources
  <1>2. k.resource = l.resource /\ k.day = l.day
    BY <1>1 DEF OnDay
  <1>3. F(k) = F(l)
    BY <1>2
  <1> QED BY <1>1, <1>3

LEMMA LineCounts ==
  ASSUME NEW rows, NEW run, NEW day, OnDay(rows, day),
         NEW x \in Warehouse!OfVenue(rows, run)
  PROVE  /\ x = VenueLine(rows, run, day)
         /\ x.metrics.count = Cardinality(rows)
         /\ x.metrics.cancelled = Cardinality({e \in rows : e.cancelled})
  <1>1. PICK k \in rows :
          x = [day |-> k.day, run |-> run,
               metrics |-> Warehouse!Metrics({row \in rows : row.day = k.day})]
    BY DEF Warehouse!OfVenue
  <1>2. k.day = day /\ {row \in rows : row.day = k.day} = rows
    BY DEF OnDay
  <1>3. x = [day |-> day, run |-> run, metrics |-> Warehouse!Metrics(rows)]
    BY <1>1, <1>2
  <1>4. /\ Warehouse!Metrics(rows).count = Cardinality(rows)
        /\ Warehouse!Metrics(rows).cancelled = Cardinality({e \in rows : e.cancelled})
    BY WarehouseCounts DEF Warehouse!Metrics
  <1>5. x.metrics = Warehouse!Metrics(rows)
    BY <1>3
  <1> QED BY <1>3, <1>4, <1>5 DEF VenueLine

LEMMA LinesFinite ==
  ASSUME NEW rows, NEW run, IsFiniteSet(rows)
  PROVE  IsFiniteSet(Warehouse!OfResources(rows, run)) /\ IsFiniteSet(Warehouse!OfVenue(rows, run))
  <1> DEFINE F(k) == [day |-> k.day, resource |-> k.resource, run |-> run,
               metrics |-> Warehouse!Metrics({row \in rows : row.day = k.day
                                                  /\ row.resource = k.resource})]
             G(k) == [day |-> k.day, run |-> run,
               metrics |-> Warehouse!Metrics({row \in rows : row.day = k.day})]
             f == [k \in rows |-> F(k)]
             g == [k \in rows |-> G(k)]
  <1>1. /\ Warehouse!OfResources(rows, run) = {F(k) : k \in rows}
        /\ Warehouse!OfVenue(rows, run) = {G(k) : k \in rows}
    BY DEF Warehouse!OfResources, Warehouse!OfVenue
  <1> HIDE DEF F, G
  <1>2. /\ f \in Surjection(rows, {F(k) : k \in rows})
        /\ g \in Surjection(rows, {G(k) : k \in rows})
    BY DEF Surjection
  <1> HIDE DEF f, g
  <1> QED BY <1>1, <1>2, FS_Surjection

\* Over rows that are chosen by their resource alone the lines of the resources
\* add up, and so does that of the venue.
LEMMA PartsAddUp ==
  ASSUME NEW rows, NEW run, NEW day, IsFiniteSet(rows), OnDay(rows, day),
         NEW lines, lines = Warehouse!OfResources(rows, run),
         NEW line, line = Warehouse!OfVenue(rows, run),
         NEW counted, counted \subseteq rows, NEW f, NEW g,
         \A x \in lines : f[x] = Cardinality(OfOneResource(counted, x.resource)),
         \A x \in line : g[x] = Cardinality(counted)
  PROVE  Total(f, lines, Cardinality(counted)) /\ Total(g, line, Cardinality(counted))
  <1>1. IsFiniteSet(lines) /\ IsFiniteSet(line)
    BY LinesFinite
  <1>2. ASSUME NEW x \in lines, NEW y \in lines, x.resource = y.resource PROVE x = y
    <2>1. x \in Warehouse!OfResources(rows, run) /\ y \in Warehouse!OfResources(rows, run)
      OBVIOUS
    <2> QED BY <1>2, <2>1, OneLine
  <1>3. ASSUME NEW x \in line, NEW y \in line PROVE x = y
    <2>1. x \in Warehouse!OfVenue(rows, run) /\ y \in Warehouse!OfVenue(rows, run)
      OBVIOUS
    <2>2. x = VenueLine(rows, run, day)
      BY <2>1, LineCounts
    <2>3. y = VenueLine(rows, run, day)
      BY <2>1, LineCounts
    <2> QED BY <2>2, <2>3
  <1>4. \A e \in rows : /\ \E x \in lines : x.resource = e.resource
                        /\ \E x \in line : TRUE
    BY LinesOf
  <1>5. PICK B : B = [x \in lines |-> OfOneResource(counted, x.resource)]
    OBVIOUS
  <1>6. PICK C : C = [x \in line |-> counted]
    OBVIOUS
  <1>7. counted = UNION {B[x] : x \in lines} /\ counted = UNION {C[x] : x \in line}
    BY <1>4, <1>5, <1>6 DEF OfOneResource
  <1>8. IsFiniteSet(counted)
    BY FS_Subset
  <1>9. Sizes(f, B, lines, counted)
    BY <1>5 DEF Sizes, OfOneResource
  <1>10. Apart(B, lines)
    BY <1>2, <1>5 DEF Apart, OfOneResource
  <1>11. Sizes(g, C, line, counted)
    BY <1>6 DEF Sizes
  <1>12. Apart(C, line)
    BY <1>3 DEF Apart
  <1>13. Total(f, lines, Cardinality(counted))
    BY <1>1, <1>7, <1>8, <1>9, <1>10, SumOfParts
  <1>14. Total(g, line, Cardinality(counted))
    BY <1>1, <1>7, <1>8, <1>11, <1>12, SumOfParts
  <1> QED BY <1>13, <1>14

LEMMA WarehouseKeeps == WarehouseInv => Warehouse!TablesReconcile
  <1> SUFFICES ASSUME WarehouseInv, NEW day \in Days
               PROVE  LET line == {row \in venueRows : row.day = day}
                          lines == {row \in resourceRows : row.day = day}
                      IN  /\ Warehouse!MapThenSumSet(LAMBDA row : row.metrics.count, line)
                               = Warehouse!MapThenSumSet(LAMBDA row : row.metrics.count, lines)
                          /\ Warehouse!MapThenSumSet(LAMBDA row : row.metrics.cancelled, line)
                               = Warehouse!MapThenSumSet(LAMBDA row : row.metrics.cancelled, lines)
    BY DEF Warehouse!TablesReconcile
  <1>1. PICK rows, run :
          /\ Read(rows) /\ \A e \in rows : e.day = day
          /\ {x \in resourceRows : x.day = day} = Warehouse!OfResources(rows, run)
          /\ {x \in venueRows : x.day = day} = Warehouse!OfVenue(rows, run)
    BY DEF WarehouseInv, OfOne
  <1>2. PICK lines : lines = Warehouse!OfResources(rows, run)
    OBVIOUS
  <1>3. PICK line : line = Warehouse!OfVenue(rows, run)
    OBVIOUS
  <1>4. PICK off : off = {e \in rows : e.cancelled}
    OBVIOUS
  <1>5. IsFiniteSet(rows)
    BY <1>1 DEF Read
  <1>6. OnDay(rows, day)
    BY <1>1 DEF OnDay
  <1>7. ASSUME NEW x \in lines
        PROVE  /\ x.metrics.count = Cardinality(OfOneResource(rows, x.resource))
               /\ x.metrics.cancelled = Cardinality(OfOneResource(off, x.resource))
    <2>1. x \in Warehouse!OfResources(rows, run)
      BY <1>2
    <2>2. /\ x.metrics.count = Cardinality(OfOneResource(rows, x.resource))
          /\ x.metrics.cancelled
               = Cardinality({e \in OfOneResource(rows, x.resource) : e.cancelled})
      BY <1>6, <2>1, LinesCount
    <2>3. {e \in OfOneResource(rows, x.resource) : e.cancelled}
            = OfOneResource(off, x.resource)
      BY <1>4 DEF OfOneResource
    <2> QED BY <2>2, <2>3
  <1>8. ASSUME NEW x \in line
        PROVE  x.metrics.count = Cardinality(rows) /\ x.metrics.cancelled = Cardinality(off)
    <2>1. x \in Warehouse!OfVenue(rows, run)
      BY <1>3
    <2> QED BY <1>4, <1>6, <2>1, LineCounts
  <1>9. /\ Warehouse!MapThenSumSet(LAMBDA row : row.metrics.count, lines) = Cardinality(rows)
        /\ Warehouse!MapThenSumSet(LAMBDA row : row.metrics.count, line) = Cardinality(rows)
    <2>1. PICK f, g : f = [x \in lines |-> x.metrics.count] /\ g = [x \in line |-> x.metrics.count]
      OBVIOUS
    <2>2. (\A x \in lines : f[x] = x.metrics.count) /\ (\A x \in line : g[x] = x.metrics.count)
      BY <2>1
    <2>3. \A x \in lines : f[x] = Cardinality(OfOneResource(rows, x.resource))
      BY <1>7, <2>2
    <2>4. \A x \in line : g[x] = Cardinality(rows)
      BY <1>8, <2>2
    <2>5. rows \subseteq rows
      OBVIOUS
    <2>6. Total(f, lines, Cardinality(rows)) /\ Total(g, line, Cardinality(rows))
      BY <1>2, <1>3, <1>5, <1>6, <2>3, <2>4, <2>5, PartsAddUp
    <2> QED BY <2>2, <2>6, CountsSummed
  <1>10. /\ Warehouse!MapThenSumSet(LAMBDA row : row.metrics.cancelled, lines) = Cardinality(off)
         /\ Warehouse!MapThenSumSet(LAMBDA row : row.metrics.cancelled, line) = Cardinality(off)
    <2>1. PICK f, g : /\ f = [x \in lines |-> x.metrics.cancelled]
                      /\ g = [x \in line |-> x.metrics.cancelled]
      OBVIOUS
    <2>2. /\ \A x \in lines : f[x] = x.metrics.cancelled
          /\ \A x \in line : g[x] = x.metrics.cancelled
      BY <2>1
    <2>3. \A x \in lines : f[x] = Cardinality(OfOneResource(off, x.resource))
      BY <1>7, <2>2
    <2>4. \A x \in line : g[x] = Cardinality(off)
      BY <1>8, <2>2
    <2>5. off \subseteq rows
      BY <1>4
    <2>6. Total(f, lines, Cardinality(off)) /\ Total(g, line, Cardinality(off))
      BY <1>2, <1>3, <1>5, <1>6, <2>3, <2>4, <2>5, PartsAddUp
    <2> QED BY <2>2, <2>6, CancelledSummed
  <1> QED BY <1>1, <1>2, <1>3, <1>9, <1>10

-----------------------------------------------------------------------------
(* Conversations about a property, and the moderation of a listing: the       *)
(* proofs are those of their modules, whose definitions are the same.         *)

ConversationProofs == INSTANCE RentalInquiries_proofs WITH
  Inquiries <- Conversations, Requests <- Asked, Times <- TalkTimes,
  LastTick <- 0, Day <- Notice, Ops <- Talk

LEMMA ConversationSame ==
  /\ Conversation!Init <=> ConversationProofs!Init
  /\ Conversation!Next <=> ConversationProofs!Next
  /\ Conversation!RequestsNeverCollide <=> ConversationProofs!RequestsNeverCollide
  /\ Conversation!ReadWasShown <=> ConversationProofs!ReadWasShown
  /\ Conversation!ViewingShown <=> ConversationProofs!ViewingShown
  /\ Conversation!EndedUntouched <=> ConversationProofs!EndedUntouched
  BY DEF Conversation!Init, ConversationProofs!Init, Conversation!NoInquiry,
     ConversationProofs!NoInquiry, Conversation!People,
     ConversationProofs!People, Conversation!Blank, ConversationProofs!Blank,
     Conversation!Idle, ConversationProofs!Idle, Conversation!Next,
     ConversationProofs!Next, Conversation!Tick, ConversationProofs!Tick,
     Conversation!SetPreference, ConversationProofs!SetPreference,
     Conversation!Open, ConversationProofs!Open, Conversation!Participants,
     ConversationProofs!Participants, Conversation!CreateCommit,
     ConversationProofs!CreateCommit, Conversation!Active,
     ConversationProofs!Active, Conversation!Ended, ConversationProofs!Ended,
     Conversation!Finish, ConversationProofs!Finish,
     Conversation!CreateRefuse, ConversationProofs!CreateRefuse,
     Conversation!UpdateCommit, ConversationProofs!UpdateCommit,
     Conversation!Outcome, ConversationProofs!Outcome, Conversation!Write,
     ConversationProofs!Write, Conversation!SendCommit,
     ConversationProofs!SendCommit, Conversation!ReadCommit,
     ConversationProofs!ReadCommit, Conversation!Listed,
     ConversationProofs!Listed, Conversation!RemindCommit,
     ConversationProofs!RemindCommit, Conversation!CreateLock,
     ConversationProofs!CreateLock, Conversation!AccountFree,
     ConversationProofs!AccountFree, Conversation!Earlier,
     ConversationProofs!Earlier, Conversation!RemindLock,
     ConversationProofs!RemindLock, Conversation!Due, ConversationProofs!Due,
     Conversation!Awaiting, ConversationProofs!Awaiting, Conversation!Load,
     ConversationProofs!Load, Conversation!InquiryFree,
     ConversationProofs!InquiryFree, Conversation!ReadLock,
     ConversationProofs!ReadLock, Conversation!SendLock,
     ConversationProofs!SendLock, Conversation!Sent, ConversationProofs!Sent,
     Conversation!Actions, ConversationProofs!Actions,
     Conversation!OwnerActions, ConversationProofs!OwnerActions,
     Conversation!UpdateLock, ConversationProofs!UpdateLock,
     Conversation!Allowed, ConversationProofs!Allowed,
     Conversation!RequestsNeverCollide,
     ConversationProofs!RequestsNeverCollide, Conversation!ReadWasShown,
     ConversationProofs!ReadWasShown, Conversation!ViewingShown,
     ConversationProofs!ViewingShown, Conversation!EndedUntouched,
     ConversationProofs!EndedUntouched

LEMMA ConversationStarts == Conversation!Init => ConversationProofs!InquiriesInv
  BY ConversationSame, ConversationProofs!InquiriesStart

LEMMA ConversationStep == ASSUME ConversationProofs!InquiriesInv, Conversation!Next PROVE ConversationProofs!InquiriesInv'
  BY ConversationSame, ConversationProofs!InquiriesStep

LEMMA ConversationRests ==
  ASSUME ConversationProofs!InquiriesInv, UNCHANGED <<inquiry, messages, reminders, screen, work>>
  PROVE  ConversationProofs!InquiriesInv'
  BY ConversationProofs!RestKeeps

LEMMA ConversationKeeps == ConversationProofs!InquiriesInv => Conversation!RequestsNeverCollide /\ Conversation!ReadWasShown
  BY ConversationSame DEF ConversationProofs!InquiriesInv, ConversationProofs!Kept

LEMMA ConversationAsSeen ==
  ASSUME ConversationProofs!InquiriesInv, Conversation!Next
  PROVE  Conversation!ViewingShown /\ Conversation!EndedUntouched
  BY ConversationSame, ConversationProofs!ViewingWasShown, ConversationProofs!EndedWereUntouched

RepeatsProofs == INSTANCE RentalInquiries_proofs WITH
  Times <- TalkTimes, MaxMessages <- MaxRepeats, LastTick <- 0,
  Day <- Notice, Ops <- UpdateOnly

LEMMA RepeatsSame ==
  /\ Repeats!Init <=> RepeatsProofs!Init
  /\ Repeats!Next <=> RepeatsProofs!Next
  /\ Repeats!OneActiveInquiry <=> RepeatsProofs!OneActiveInquiry
  /\ Repeats!RequestsNeverCollide <=> RepeatsProofs!RequestsNeverCollide
  BY DEF Repeats!Init, RepeatsProofs!Init, Repeats!NoInquiry,
     RepeatsProofs!NoInquiry, Repeats!People, RepeatsProofs!People,
     Repeats!Blank, RepeatsProofs!Blank, Repeats!Idle, RepeatsProofs!Idle,
     Repeats!Next, RepeatsProofs!Next, Repeats!Tick, RepeatsProofs!Tick,
     Repeats!SetPreference, RepeatsProofs!SetPreference, Repeats!Open,
     RepeatsProofs!Open, Repeats!Participants, RepeatsProofs!Participants,
     Repeats!CreateCommit, RepeatsProofs!CreateCommit, Repeats!Active,
     RepeatsProofs!Active, Repeats!Ended, RepeatsProofs!Ended, Repeats!Finish,
     RepeatsProofs!Finish, Repeats!CreateRefuse, RepeatsProofs!CreateRefuse,
     Repeats!UpdateCommit, RepeatsProofs!UpdateCommit, Repeats!Outcome,
     RepeatsProofs!Outcome, Repeats!Write, RepeatsProofs!Write,
     Repeats!SendCommit, RepeatsProofs!SendCommit, Repeats!ReadCommit,
     RepeatsProofs!ReadCommit, Repeats!Listed, RepeatsProofs!Listed,
     Repeats!RemindCommit, RepeatsProofs!RemindCommit, Repeats!CreateLock,
     RepeatsProofs!CreateLock, Repeats!AccountFree, RepeatsProofs!AccountFree,
     Repeats!Earlier, RepeatsProofs!Earlier, Repeats!RemindLock,
     RepeatsProofs!RemindLock, Repeats!Due, RepeatsProofs!Due,
     Repeats!Awaiting, RepeatsProofs!Awaiting, Repeats!Load,
     RepeatsProofs!Load, Repeats!InquiryFree, RepeatsProofs!InquiryFree,
     Repeats!ReadLock, RepeatsProofs!ReadLock, Repeats!SendLock,
     RepeatsProofs!SendLock, Repeats!Sent, RepeatsProofs!Sent,
     Repeats!Actions, RepeatsProofs!Actions, Repeats!OwnerActions,
     RepeatsProofs!OwnerActions, Repeats!UpdateLock, RepeatsProofs!UpdateLock,
     Repeats!Allowed, RepeatsProofs!Allowed, Repeats!OneActiveInquiry,
     RepeatsProofs!OneActiveInquiry, Repeats!RequestsNeverCollide,
     RepeatsProofs!RequestsNeverCollide

LEMMA RepeatsStarts == Repeats!Init => RepeatsProofs!InquiriesInv
  BY RepeatsSame, RepeatsProofs!InquiriesStart

LEMMA RepeatsStep == ASSUME RepeatsProofs!InquiriesInv, Repeats!Next PROVE RepeatsProofs!InquiriesInv'
  BY RepeatsSame, RepeatsProofs!InquiriesStep

LEMMA RepeatsRests ==
  ASSUME RepeatsProofs!InquiriesInv, UNCHANGED <<inquiry, messages, reminders, screen, work>>
  PROVE  RepeatsProofs!InquiriesInv'
  BY RepeatsProofs!RestKeeps

LEMMA RepeatsKeeps == RepeatsProofs!InquiriesInv => Repeats!OneActiveInquiry /\ Repeats!RequestsNeverCollide
  BY RepeatsSame DEF RepeatsProofs!InquiriesInv, RepeatsProofs!Kept

ViewingsProofs == INSTANCE RentalInquiries_proofs WITH
  Inquiries <- Conversations, Requests <- Asked, Times <- ViewingTimes,
  LastTick <- LastViewing, Day <- Notice, Ops <- UpdateAndRemind

LEMMA ViewingsSame ==
  /\ Viewings!Init <=> ViewingsProofs!Init
  /\ Viewings!Next <=> ViewingsProofs!Next
  /\ Viewings!RemindedOnce <=> ViewingsProofs!RemindedOnce
  /\ Viewings!ViewingShown <=> ViewingsProofs!ViewingShown
  /\ Viewings!EndedUntouched <=> ViewingsProofs!EndedUntouched
  BY DEF Viewings!Init, ViewingsProofs!Init, Viewings!NoInquiry,
     ViewingsProofs!NoInquiry, Viewings!People, ViewingsProofs!People,
     Viewings!Blank, ViewingsProofs!Blank, Viewings!Idle, ViewingsProofs!Idle,
     Viewings!Next, ViewingsProofs!Next, Viewings!Tick, ViewingsProofs!Tick,
     Viewings!SetPreference, ViewingsProofs!SetPreference, Viewings!Open,
     ViewingsProofs!Open, Viewings!Participants, ViewingsProofs!Participants,
     Viewings!CreateCommit, ViewingsProofs!CreateCommit, Viewings!Active,
     ViewingsProofs!Active, Viewings!Ended, ViewingsProofs!Ended,
     Viewings!Finish, ViewingsProofs!Finish, Viewings!CreateRefuse,
     ViewingsProofs!CreateRefuse, Viewings!UpdateCommit,
     ViewingsProofs!UpdateCommit, Viewings!Outcome, ViewingsProofs!Outcome,
     Viewings!Write, ViewingsProofs!Write, Viewings!SendCommit,
     ViewingsProofs!SendCommit, Viewings!ReadCommit,
     ViewingsProofs!ReadCommit, Viewings!Listed, ViewingsProofs!Listed,
     Viewings!RemindCommit, ViewingsProofs!RemindCommit, Viewings!CreateLock,
     ViewingsProofs!CreateLock, Viewings!AccountFree,
     ViewingsProofs!AccountFree, Viewings!Earlier, ViewingsProofs!Earlier,
     Viewings!RemindLock, ViewingsProofs!RemindLock, Viewings!Due,
     ViewingsProofs!Due, Viewings!Awaiting, ViewingsProofs!Awaiting,
     Viewings!Load, ViewingsProofs!Load, Viewings!InquiryFree,
     ViewingsProofs!InquiryFree, Viewings!ReadLock, ViewingsProofs!ReadLock,
     Viewings!SendLock, ViewingsProofs!SendLock, Viewings!Sent,
     ViewingsProofs!Sent, Viewings!Actions, ViewingsProofs!Actions,
     Viewings!OwnerActions, ViewingsProofs!OwnerActions, Viewings!UpdateLock,
     ViewingsProofs!UpdateLock, Viewings!Allowed, ViewingsProofs!Allowed,
     Viewings!RemindedOnce, ViewingsProofs!RemindedOnce,
     Viewings!ViewingShown, ViewingsProofs!ViewingShown,
     Viewings!EndedUntouched, ViewingsProofs!EndedUntouched

LEMMA ViewingsStarts == Viewings!Init => ViewingsProofs!InquiriesInv
  BY ViewingsSame, ViewingsProofs!InquiriesStart

LEMMA ViewingsStep == ASSUME ViewingsProofs!InquiriesInv, Viewings!Next PROVE ViewingsProofs!InquiriesInv'
  BY ViewingsSame, ViewingsProofs!InquiriesStep

LEMMA ViewingsRests ==
  ASSUME ViewingsProofs!InquiriesInv, UNCHANGED <<inquiry, messages, reminders, screen, work>>
  PROVE  ViewingsProofs!InquiriesInv'
  BY ViewingsProofs!RestKeeps

LEMMA ViewingsKeeps == ViewingsProofs!InquiriesInv => Viewings!RemindedOnce
  BY ViewingsSame DEF ViewingsProofs!InquiriesInv, ViewingsProofs!Kept

LEMMA ViewingsAsSeen ==
  ASSUME ViewingsProofs!InquiriesInv, Viewings!Next
  PROVE  Viewings!ViewingShown /\ Viewings!EndedUntouched
  BY ViewingsSame, ViewingsProofs!ViewingWasShown, ViewingsProofs!EndedWereUntouched

ReportedProofs == INSTANCE PropertyModeration_proofs WITH MaxVersion <- MaxDecisions

LEMMA ReportedSame ==
  /\ Reported!Init <=> ReportedProofs!Init
  /\ Reported!Next <=> ReportedProofs!Next
  /\ Reported!SuspendedIsHidden <=> ReportedProofs!SuspendedIsHidden
  /\ Reported!HistoryIsLinear <=> ReportedProofs!HistoryIsLinear
  /\ Reported!OneOpenReport <=> ReportedProofs!OneOpenReport
  /\ Reported!NoMutualWait <=> ReportedProofs!NoMutualWait
  /\ Reported!DecidesOnSight <=> ReportedProofs!DecidesOnSight
  /\ Reported!OwnersPublish <=> ReportedProofs!OwnersPublish
  BY DEF Reported!Cardinality, ReportedProofs!Cardinality, Reported!Init,
     ReportedProofs!Init, Reported!NoReport, ReportedProofs!NoReport,
     Reported!Idle, ReportedProofs!Idle, Reported!Next, ReportedProofs!Next,
     Reported!ReportCommit, ReportedProofs!ReportCommit, Reported!ListingFree,
     ReportedProofs!ListingFree, Reported!HoldsListing,
     ReportedProofs!HoldsListing, Reported!PendingOf,
     ReportedProofs!PendingOf, Reported!Finish, ReportedProofs!Finish,
     Reported!ReportRefuse, ReportedProofs!ReportRefuse, Reported!LockKeys,
     ReportedProofs!LockKeys, Reported!KeyFree, ReportedProofs!KeyFree,
     Reported!HoldsUser, ReportedProofs!HoldsUser, Reported!LockListing,
     ReportedProofs!LockListing, Reported!KeysHeld, ReportedProofs!KeysHeld,
     Reported!ActCommit, ReportedProofs!ActCommit, Reported!Decidable,
     ReportedProofs!Decidable, Reported!Allowed, ReportedProofs!Allowed,
     Reported!Outcome, ReportedProofs!Outcome, Reported!ActRefuse,
     ReportedProofs!ActRefuse, Reported!EditCommit, ReportedProofs!EditCommit,
     Reported!ReportLock, ReportedProofs!ReportLock, Reported!UserFree,
     ReportedProofs!UserFree, Reported!HoldsKey, ReportedProofs!HoldsKey,
     Reported!Filed, ReportedProofs!Filed, Reported!ActRead,
     ReportedProofs!ActRead, Reported!EditLock, ReportedProofs!EditLock,
     Reported!SuspendedIsHidden, ReportedProofs!SuspendedIsHidden,
     Reported!HistoryIsLinear, ReportedProofs!HistoryIsLinear,
     Reported!OneOpenReport, ReportedProofs!OneOpenReport, Reported!Users,
     ReportedProofs!Users, Reported!NoMutualWait, ReportedProofs!NoMutualWait,
     Reported!Waits, ReportedProofs!Waits, Reported!DecidesOnSight,
     ReportedProofs!DecidesOnSight, Reported!OwnersPublish,
     ReportedProofs!OwnersPublish

LEMMA ReportedStarts == Reported!Init => ReportedProofs!ModerationInv
  BY ReportedSame, ReportedProofs!ModerationStart

LEMMA ReportedStep == ASSUME ReportedProofs!ModerationInv, Reported!Next PROVE ReportedProofs!ModerationInv'
  BY ReportedSame, ReportedProofs!ModerationStep

LEMMA ReportedRests ==
  ASSUME ReportedProofs!ModerationInv, UNCHANGED <<listing, report, events, work>>
  PROVE  ReportedProofs!ModerationInv'
  BY ReportedProofs!ModerationRests DEF ReportedProofs!vars

LEMMA ReportedKeeps ==
  ReportedProofs!ModerationInv =>
    /\ Reported!SuspendedIsHidden
    /\ Reported!HistoryIsLinear
    /\ Reported!OneOpenReport
    /\ Reported!NoMutualWait
  BY ReportedSame, ReportedProofs!HistoryAndListing, ReportedProofs!NobodyWaits, ReportedProofs!OneReport

LEMMA ReportedAsSeen ==
  ASSUME ReportedProofs!ModerationInv, Reported!Next
  PROVE  Reported!DecidesOnSight /\ Reported!OwnersPublish
  BY ReportedSame, ReportedProofs!OneIsHeard, ReportedProofs!OnlyEditsPublish

ContestedProofs == INSTANCE PropertyModeration_proofs WITH
  Reports <- Appealed, Requests <- Appeals, MaxVersion <- MaxAppeals

LEMMA ContestedSame ==
  /\ Contested!Init <=> ContestedProofs!Init
  /\ Contested!Next <=> ContestedProofs!Next
  /\ Contested!SuspendedIsHidden <=> ContestedProofs!SuspendedIsHidden
  /\ Contested!HistoryIsLinear <=> ContestedProofs!HistoryIsLinear
  /\ Contested!NoMutualWait <=> ContestedProofs!NoMutualWait
  /\ Contested!DecidesOnSight <=> ContestedProofs!DecidesOnSight
  /\ Contested!OwnersPublish <=> ContestedProofs!OwnersPublish
  BY DEF Contested!Cardinality, ContestedProofs!Cardinality, Contested!Init,
     ContestedProofs!Init, Contested!NoReport, ContestedProofs!NoReport,
     Contested!Idle, ContestedProofs!Idle, Contested!Next,
     ContestedProofs!Next, Contested!ReportCommit,
     ContestedProofs!ReportCommit, Contested!ListingFree,
     ContestedProofs!ListingFree, Contested!HoldsListing,
     ContestedProofs!HoldsListing, Contested!PendingOf,
     ContestedProofs!PendingOf, Contested!Finish, ContestedProofs!Finish,
     Contested!ReportRefuse, ContestedProofs!ReportRefuse, Contested!LockKeys,
     ContestedProofs!LockKeys, Contested!KeyFree, ContestedProofs!KeyFree,
     Contested!HoldsUser, ContestedProofs!HoldsUser, Contested!LockListing,
     ContestedProofs!LockListing, Contested!KeysHeld,
     ContestedProofs!KeysHeld, Contested!ActCommit, ContestedProofs!ActCommit,
     Contested!Decidable, ContestedProofs!Decidable, Contested!Allowed,
     ContestedProofs!Allowed, Contested!Outcome, ContestedProofs!Outcome,
     Contested!ActRefuse, ContestedProofs!ActRefuse, Contested!EditCommit,
     ContestedProofs!EditCommit, Contested!ReportLock,
     ContestedProofs!ReportLock, Contested!UserFree, ContestedProofs!UserFree,
     Contested!HoldsKey, ContestedProofs!HoldsKey, Contested!Filed,
     ContestedProofs!Filed, Contested!ActRead, ContestedProofs!ActRead,
     Contested!EditLock, ContestedProofs!EditLock,
     Contested!SuspendedIsHidden, ContestedProofs!SuspendedIsHidden,
     Contested!HistoryIsLinear, ContestedProofs!HistoryIsLinear,
     Contested!NoMutualWait, ContestedProofs!NoMutualWait, Contested!Waits,
     ContestedProofs!Waits, Contested!DecidesOnSight,
     ContestedProofs!DecidesOnSight, Contested!OwnersPublish,
     ContestedProofs!OwnersPublish

LEMMA ContestedStarts == Contested!Init => ContestedProofs!ModerationInv
  BY ContestedSame, ContestedProofs!ModerationStart

LEMMA ContestedStep == ASSUME ContestedProofs!ModerationInv, Contested!Next PROVE ContestedProofs!ModerationInv'
  BY ContestedSame, ContestedProofs!ModerationStep

LEMMA ContestedRests ==
  ASSUME ContestedProofs!ModerationInv, UNCHANGED <<listing, report, events, work>>
  PROVE  ContestedProofs!ModerationInv'
  BY ContestedProofs!ModerationRests DEF ContestedProofs!vars

LEMMA ContestedKeeps ==
  ContestedProofs!ModerationInv =>
    /\ Contested!SuspendedIsHidden
    /\ Contested!HistoryIsLinear
    /\ Contested!NoMutualWait
  BY ContestedSame, ContestedProofs!HistoryAndListing, ContestedProofs!NobodyWaits

LEMMA ContestedAsSeen ==
  ASSUME ContestedProofs!ModerationInv, Contested!Next
  PROVE  Contested!DecidesOnSight /\ Contested!OwnersPublish
  BY ContestedSame, ContestedProofs!OneIsHeard, ContestedProofs!OnlyEditsPublish

-----------------------------------------------------------------------------
(* The components together. *)

PeopleInv ==
  /\ scene = "agreements" => LetInv /\ TermsInv
  /\ scene = "conversation" => ConversationProofs!InquiriesInv
  /\ scene = "requests" => RepeatsProofs!InquiriesInv
  /\ scene = "viewings" => ViewingsProofs!InquiriesInv
  /\ scene = "follow-ups" => FollowUpsInv
  /\ scene = "accounts" => AccountsInv /\ SinglesInv
  /\ scene = "reports" => ReportedProofs!ModerationInv
  /\ scene = "appeals" => ContestedProofs!ModerationInv
  /\ scene = "calendars" => CalendarsInv
  /\ scene = "imports" => ImportsInv
  /\ scene = "reviews" => ReviewsInv
  /\ scene = "photos" => AlbumInv
  /\ scene = "work orders" => OrdersInv
  /\ scene = "warehouse" => WarehouseInv
  /\ scene = "waiver" => WaiverInv

LEMMA PeopleInvStart == PeopleInit => PeopleInv
  <1> SUFFICES ASSUME PeopleInit PROVE PeopleInv
    OBVIOUS
  <1>1. /\ scene = "agreements" => Init
        /\ scene = "conversation" => Conversation!Init
        /\ scene = "requests" => Repeats!Init
        /\ scene = "viewings" => Viewings!Init
        /\ scene = "follow-ups" => FollowUps!Init
        /\ scene = "accounts" => People!Init
        /\ scene = "reports" => Reported!Init
        /\ scene = "appeals" => Contested!Init
        /\ scene = "calendars" => Calendars!Init
        /\ scene = "imports" => Imports!Init
        /\ scene = "reviews" => Reviewed!Init
        /\ scene = "photos" => Album!Init
        /\ scene = "work orders" => Orders!Init
        /\ scene = "warehouse" => Warehouse!Init
        /\ scene = "waiver" => Waiver!Init
    BY DEF PeopleInit
  <1>2. scene = "agreements" => LetInv /\ TermsInv
    BY <1>1, LetInvInit, TermsStart
  <1>3. /\ scene = "conversation" => ConversationProofs!InquiriesInv
        /\ scene = "requests" => RepeatsProofs!InquiriesInv
        /\ scene = "viewings" => ViewingsProofs!InquiriesInv
    BY <1>1, ConversationStarts, RepeatsStarts, ViewingsStarts
  <1>4. /\ scene = "follow-ups" => FollowUpsInv
        /\ scene = "accounts" => AccountsInv /\ SinglesInv
    BY <1>1, FollowUpsStart, PeopleStart, SinglesStart
  <1>5. /\ scene = "reports" => ReportedProofs!ModerationInv
        /\ scene = "appeals" => ContestedProofs!ModerationInv
    BY <1>1, ReportedStarts, ContestedStarts
  <1>6. /\ scene = "calendars" => CalendarsInv
        /\ scene = "imports" => ImportsInv
    BY <1>1, CalendarsStart, ImportsStart
  <1>7. scene = "reviews" => ReviewsInv
    BY <1>1, ReviewsStart
  <1>8. scene = "photos" => AlbumInv
    BY <1>1, AlbumStart
  <1>9. scene = "work orders" => OrdersInv
    BY <1>1, OrdersStart
  <1>10. scene = "warehouse" => WarehouseInv
    BY <1>1, WarehouseStart
  <1>11. scene = "waiver" => WaiverInv
    BY <1>1, WaiverStart
  <1> QED
    BY <1>2, <1>3, <1>4, <1>5, <1>6, <1>7, <1>8, <1>9, <1>10, <1>11 DEF PeopleInv

\* What a step of the whole is to the component whose scene it is.
LEMMA SceneSteps ==
  ASSUME PeopleNext
  PROVE  /\ UNCHANGED scene
         /\ scene = "agreements" => Next
         /\ scene = "conversation" => Conversation!Next
         /\ scene = "requests" => Repeats!Next
         /\ scene = "viewings" => Viewings!Next
         /\ scene = "follow-ups" => FollowUps!Next
         /\ scene = "accounts" => People!Next
         /\ scene = "reports" => Reported!Next
         /\ scene = "appeals" => Contested!Next
         /\ scene = "calendars" => Calendars!Next
         /\ scene = "imports" => Imports!Next
         /\ scene = "reviews" => Reviewed!Next
         /\ scene = "photos" => Album!Next
         /\ scene = "work orders" => Orders!Next
         /\ scene = "warehouse" => Warehouse!Next
         /\ scene = "waiver" => Waiver!Next
  BY DEF PeopleNext

LEMMA PeopleInvStep == PeopleInv /\ [PeopleNext]_peopleVars => PeopleInv'
  <1>1. ASSUME PeopleInv, PeopleNext PROVE PeopleInv'
    <2>1. ASSUME LetInv, TermsInv, Next PROVE LetInv' /\ TermsInv'
      BY <2>1, LetInvStep, TermsStep
    <2>2. UNCHANGED scene
      BY <1>1, SceneSteps
    <2>3. CASE scene = "agreements"
      BY <1>1, <2>1, <2>2, <2>3, SceneSteps DEF PeopleInv
    <2>4. CASE scene = "conversation"
      BY <1>1, <2>2, <2>4, SceneSteps, ConversationStep DEF PeopleInv
    <2>5. CASE scene = "requests"
      BY <1>1, <2>2, <2>5, SceneSteps, RepeatsStep DEF PeopleInv
    <2>6. CASE scene = "viewings"
      BY <1>1, <2>2, <2>6, SceneSteps, ViewingsStep DEF PeopleInv
    <2>7. CASE scene = "follow-ups"
      BY <1>1, <2>2, <2>7, SceneSteps, FollowUpsStep DEF PeopleInv
    <2>8. CASE scene = "accounts"
      BY <1>1, <2>2, <2>8, SceneSteps, PeopleStep, SinglesStep DEF PeopleInv
    <2>9. CASE scene = "reports"
      BY <1>1, <2>2, <2>9, SceneSteps, ReportedStep DEF PeopleInv
    <2>10. CASE scene = "appeals"
      BY <1>1, <2>2, <2>10, SceneSteps, ContestedStep DEF PeopleInv
    <2>11. CASE scene = "calendars"
      BY <1>1, <2>2, <2>11, SceneSteps, CalendarsStep DEF PeopleInv
    <2>12. CASE scene = "imports"
      BY <1>1, <2>2, <2>12, SceneSteps, ImportsStep DEF PeopleInv
    <2>13. CASE scene = "reviews"
      BY <1>1, <2>2, <2>13, SceneSteps, ReviewsStep DEF PeopleInv
    <2>14. CASE scene = "photos"
      BY <1>1, <2>2, <2>14, SceneSteps, AlbumStep DEF PeopleInv
    <2>15. CASE scene = "work orders"
      BY <1>1, <2>2, <2>15, SceneSteps, OrdersStep DEF PeopleInv
    <2>16. CASE scene = "warehouse"
      BY <1>1, <2>2, <2>16, SceneSteps, WarehouseStep DEF PeopleInv
    <2>17. CASE scene = "waiver"
      BY <1>1, <2>2, <2>17, SceneSteps, WaiverStep DEF PeopleInv
    <2>18. CASE scene \notin
             {"agreements", "conversation", "requests", "viewings", "follow-ups",
              "accounts", "reports", "appeals", "calendars", "imports", "reviews",
              "photos", "work orders", "warehouse", "waiver"}
      BY <2>2, <2>18 DEF PeopleInv
    <2> QED
      BY <2>3, <2>4, <2>5, <2>6, <2>7, <2>8, <2>9, <2>10, <2>11, <2>12, <2>13, <2>14,
         <2>15, <2>16, <2>17, <2>18
  <1>2. ASSUME PeopleInv, UNCHANGED peopleVars PROVE PeopleInv'
    <2>1. /\ UNCHANGED vars /\ UNCHANGED work
          /\ UNCHANGED <<scene, inquiry, messages, reminders, screen>>
          /\ UNCHANGED <<stay, enabled, delivered, moves, clock, review>>
          /\ UNCHANGED <<ops, now, account, bearer, key, reset, link, application>>
          /\ UNCHANGED <<listing, report, events>>
          /\ UNCHANGED <<source, owned, blocks, stays, preview, job, current>>
          /\ UNCHANGED <<rated, desk, photos, stored, used, order, log>>
          /\ UNCHANGED <<reservations, resourceRows, venueRows, template, versions>>
      BY <1>2 DEF peopleVars, vars
    <2>2. LetInv /\ TermsInv => LetInv' /\ TermsInv'
      BY <2>1, LetInvStep, TermsStep
    <2>3. /\ ConversationProofs!InquiriesInv => ConversationProofs!InquiriesInv'
          /\ RepeatsProofs!InquiriesInv => RepeatsProofs!InquiriesInv'
          /\ ViewingsProofs!InquiriesInv => ViewingsProofs!InquiriesInv'
      BY <2>1, ConversationRests, RepeatsRests, ViewingsRests
    <2>4. FollowUpsInv => FollowUpsInv'
      BY <2>1, FollowUpsTick DEF FollowUpsInv
    <2>5. AccountsInv /\ SinglesInv => AccountsInv' /\ SinglesInv'
      BY <2>1, PeopleRests, SinglesRest
    <2>6. /\ ReportedProofs!ModerationInv => ReportedProofs!ModerationInv'
          /\ ContestedProofs!ModerationInv => ContestedProofs!ModerationInv'
      BY <2>1, ReportedRests, ContestedRests
    <2>7. (CalendarsInv => CalendarsInv') /\ (ImportsInv => ImportsInv')
      BY <2>1, CalendarsStill, ImportsStill
    <2>8. (ReviewsInv => ReviewsInv') /\ (AlbumInv => AlbumInv')
      BY <2>1, ReviewsRest, AlbumRests
    <2>9. (OrdersInv => OrdersInv') /\ (WarehouseInv => WarehouseInv')
      BY <2>1, OrdersRest, WarehouseRests
    <2>10. ASSUME WaiverInv PROVE WaiverInv'
      <3>1. /\ template' \in [active : BOOLEAN, current : Nat]
            /\ template'.current = template.current
        BY <2>1, <2>10 DEF WaiverInv
      <3> QED BY <2>1, <2>10, <3>1, WaiverRests
    <2>11. UNCHANGED scene
      BY <2>1
    <2>12. /\ (scene = "agreements" => LetInv /\ TermsInv)'
           /\ (scene = "conversation" => ConversationProofs!InquiriesInv)'
           /\ (scene = "requests" => RepeatsProofs!InquiriesInv)'
           /\ (scene = "viewings" => ViewingsProofs!InquiriesInv)'
           /\ (scene = "follow-ups" => FollowUpsInv)'
           /\ (scene = "accounts" => AccountsInv /\ SinglesInv)'
      BY <1>2, <2>2, <2>3, <2>4, <2>5, <2>11 DEF PeopleInv
    <2>13. /\ (scene = "reports" => ReportedProofs!ModerationInv)'
           /\ (scene = "appeals" => ContestedProofs!ModerationInv)'
           /\ (scene = "calendars" => CalendarsInv)'
           /\ (scene = "imports" => ImportsInv)'
      BY <1>2, <2>6, <2>7, <2>11 DEF PeopleInv
    <2>14. /\ (scene = "reviews" => ReviewsInv)' /\ (scene = "photos" => AlbumInv)'
           /\ (scene = "work orders" => OrdersInv)'
           /\ (scene = "warehouse" => WarehouseInv)'
           /\ (scene = "waiver" => WaiverInv)'
      BY <1>2, <2>8, <2>9, <2>10, <2>11 DEF PeopleInv
    <2> QED
      BY <2>12, <2>13, <2>14 DEF PeopleInv
  <1> QED BY <1>1, <1>2

LEMMA PeopleInvariance == PeopleSpec => []PeopleInv
  BY PeopleInvStart, PeopleInvStep, PTL DEF PeopleSpec

\* What one calendar blocks stays free of stays, of the owner's blocks and of
\* every other calendar, however imports, retries and bookings interleave.
THEOREM CalendarsKeepApartAlways == PeopleSpec => []CalendarsKeepApart
  <1>1. PeopleInv => CalendarsKeepApart
    BY DEF PeopleInv, CalendarsInv, CalendarsKeepApart
  <1> QED BY <1>1, PeopleInvariance, PTL

\* Reports, decisions and edits never wait for each other in turn.
THEOREM NoMutualWaitAlways == PeopleSpec => []NoMutualWait
  <1>1. PeopleInv => NoMutualWait
    BY ReportedKeeps, ContestedKeeps DEF PeopleInv, NoMutualWait
  <1> QED BY <1>1, PeopleInvariance, PTL

\* No session and no key works with a role it was not issued under.
THEOREM RolesNeverGrowAlways == PeopleSpec => []RolesNeverGrow
  <1>1. PeopleInv => RolesNeverGrow
    BY PeopleRolesKept DEF PeopleInv, RolesNeverGrow
  <1> QED BY <1>1, PeopleInvariance, PTL

\* Agreements and early ends, inquiries, messages and their reminders, links, keys
\* and applications of an account, open reports and the reminders of a stay stay
\* single, however often and from how many devices a request is made.
THEOREM SinglesKeptAlways == PeopleSpec => []SinglesKept
  <1>1. PeopleInv => SinglesKept
    BY ConversationKeeps, RepeatsKeeps, ViewingsKeeps, FollowUpsApart, SinglesHold,
       ReportedKeeps DEF PeopleInv, TermsInv, SinglesKept
  <1> QED BY <1>1, PeopleInvariance, PTL

\* Rows that are written apart tell one story: charges and the period, what counts
\* as read and what was shown, a review and the stay, a suspension and the listing,
\* reports and the review, photos and the store, the log and the order, the two
\* tables of the warehouse, the numbers and the texts of a waiver.
THEOREM RowsAgreeAlways == PeopleSpec => []RowsAgree
  <1>1. PeopleInv => RowsAgree
    BY ConversationKeeps, FollowUpsApart, ReportedKeeps, ContestedKeeps,
       ReviewsFollow, AlbumKeeps, OrdersKeep, WarehouseKeeps, WaiverKeeps
    DEF PeopleInv, TermsInv, RowsAgree
  <1> QED BY <1>1, PeopleInvariance, PTL

\* What is decided was on the screen and is still so when it is written: a viewing
\* is agreed, an agreement accepted, a link used, a listing decided about, a stay
\* reminded of and an import applied as the one who does it saw it.
THEOREM DecidedAsSeenAlways == PeopleSpec => DecidedAsSeen
  <1> DEFINE Seen ==
        /\ scene = "agreements" => LetWhileActive
        /\ scene = "conversation" => Conversation!ViewingShown /\ Conversation!EndedUntouched
        /\ scene = "viewings" => Viewings!ViewingShown /\ Viewings!EndedUntouched
        /\ scene = "follow-ups" => FollowUps!RemindsOfStay
        /\ scene = "accounts" => People!SparesNewer /\ People!LinkStillLive
        /\ scene = "reports" => Reported!DecidesOnSight /\ Reported!OwnersPublish
        /\ scene = "appeals" => Contested!DecidesOnSight /\ Contested!OwnersPublish
        /\ scene = "imports" =>
             Imports!AsPreviewed /\ Imports!AppliesCurrent /\ Imports!AutomationKeepsBlocks
  <1>1. ASSUME PeopleInv, PeopleNext PROVE Seen
    BY <1>1, SceneSteps, LetsWhileActive, ConversationAsSeen, ViewingsAsSeen,
       FollowUpsAsSeen, AccountsAsSeen, ReportedAsSeen, ContestedAsSeen, ImportsAsSeen
    DEF PeopleInv
  <1>2. PeopleInv /\ [PeopleNext]_peopleVars => [Seen]_peopleVars
    BY <1>1
  <1>3. PeopleSpec => [][Seen]_peopleVars
    BY <1>2, PeopleInvariance, PTL DEF PeopleSpec
  <1> QED BY <1>3 DEF DecidedAsSeen

=============================================================================
