--------------------------- MODULE OccupancySync ---------------------------
(***************************************************************************)
(* Occupancy of an apartment taken over from other calendars.  The owner    *)
(* names a source and imports its calendar by hand, or saves its address    *)
(* and lets workers fetch it: a worker claims the connection with a lease,  *)
(* downloads without any lock, and applies the result only if nothing about *)
(* the source has changed meanwhile.                                        *)
(*                                                                         *)
(* Everything but a claim runs under the listing's and the venue's lock, so *)
(* it is one step; a claim holds the connection's row, which the others     *)
(* take too.  A calendar is the set of its merged ranges of days.           *)
(***************************************************************************)
EXTENDS Integers, FiniteSets

CONSTANTS
  Sources,        \* the named calendars of one apartment
  Feeds,          \* the calendars that are downloaded or uploaded
  Workers,
  MaxRevision,    \* bound on the changes of a source
  MaxFaults,      \* bound on crashes and on leases that run out
  Doing,          \* which of configure, import and book people do
  None

VARIABLES
  source,         \* each source's revision, None once it is removed
  conn,           \* the saved connection of each source
  owned,          \* the ranges that each source blocks
  blocks,         \* the ranges that the owner blocked without a source
  stays,          \* the ranges of confirmed stays
  shortStay,      \* the listing still offers short stays
  preview,        \* what the owner's client shows before a confirmed import
  job,            \* what each worker is refreshing
  current,        \* history: workers whose source is as it was at their claim
  faults          \* how many workers crashed and leases ran out

vars == <<source, conn, owned, blocks, stays, shortStay, preview, job, current, faults>>
calendar == <<owned, blocks, stays>>

Range(a, b) == [from |-> a, to |-> b]
NoConnection == [enabled |-> FALSE, due |-> FALSE, lease |-> None, live |-> FALSE,
                 allowEmpty |-> FALSE, status |-> "unconfigured"]
NoJob == [source |-> None, revision |-> 0, content |-> None]

Init ==
  /\ source = [x \in Sources |-> 0]
  /\ conn = [x \in Sources |-> NoConnection]
  /\ owned = [x \in Sources |-> {}]
  /\ blocks = {} /\ stays = {} /\ shortStay = TRUE
  /\ preview = [x \in Sources |-> None]
  /\ job = [w \in Workers |-> NoJob]
  /\ current = {} /\ faults = 0

Connected(x) == conn[x].status # "unconfigured"

Bounded(x) == source[x] # None /\ source[x] < MaxRevision

\* The source is at its next revision; what was read before is out of date.
Touch(x) ==
  /\ source[x] # None
  /\ source' = [source EXCEPT ![x] = @ + 1]
  /\ current' = {w \in current : job[w].source # x}

-----------------------------------------------------------------------------
(* What the owner configures. *)

Queue(c) == [c EXCEPT !.enabled = TRUE, !.due = TRUE, !.lease = None, !.live = FALSE]

Connect(x, empty) ==
  /\ shortStay /\ Touch(x)
  /\ conn' = [conn EXCEPT ![x] =
       [Queue(@) EXCEPT !.allowEmpty = empty, !.status = "pending"]]
  /\ UNCHANGED <<calendar, shortStay, preview, job, faults>>

Resume(x) ==
  /\ shortStay /\ Connected(x) /\ Touch(x)
  /\ conn' = [conn EXCEPT ![x] = Queue(@)]
  /\ UNCHANGED <<calendar, shortStay, preview, job, faults>>

\* A refresh while a worker holds the connection changes nothing.
Refresh(x) == conn[x].enabled /\ ~conn[x].live /\ Resume(x)

Paused(c) == [c EXCEPT !.enabled = FALSE, !.lease = None, !.live = FALSE]

\* Both count as a change of the source even if it has no connection.
Pause(x) ==
  /\ Touch(x)
  /\ conn' = [conn EXCEPT ![x] = Paused(@)]
  /\ UNCHANGED <<calendar, shortStay, preview, job, faults>>

Disconnect(x) ==
  /\ Touch(x)
  /\ conn' = [conn EXCEPT ![x] = NoConnection]
  /\ UNCHANGED <<calendar, shortStay, preview, job, faults>>

RemoveSource(x) ==
  /\ source[x] # None
  /\ source' = [source EXCEPT ![x] = None]
  /\ current' = {w \in current : job[w].source # x}
  /\ conn' = [conn EXCEPT ![x] = NoConnection]
  /\ owned' = [owned EXCEPT ![x] = {}]
  /\ UNCHANGED <<blocks, stays, shortStay, preview, job, faults>>

-----------------------------------------------------------------------------
(* Importing a calendar. *)

Meet(r, q) == r.from < q.to /\ q.from < r.to
Free(f, taken) == \A r \in f, q \in taken : ~Meet(r, q)

\* Defect: blocks of the other sources are taken for the source's own.
StaysAndBlocks(x) == stays \cup blocks

\* Everything on the calendar that is not the source's own.
Others(x) == stays \cup blocks \cup UNION {owned[y] : y \in Sources \ {x}}

Preview(x, f) ==
  /\ source[x] # None
  /\ preview' = [preview EXCEPT ![x] =
       [revision |-> source[x], content |-> f, removed |-> owned[x] \ f]]
  /\ UNCHANGED <<source, conn, calendar, shortStay, job, current, faults>>

SameRevision(x) == preview[x].revision = source[x]

\* A conflict leaves the blocks as they were.
Confirm(x) ==
  /\ shortStay /\ preview[x] # None /\ SameRevision(x)
  /\ Free(preview[x].content, Others(x)) /\ Touch(x)
  /\ owned' = [owned EXCEPT ![x] = preview[x].content]
  /\ preview' = [preview EXCEPT ![x] = None]
  /\ UNCHANGED <<conn, blocks, stays, shortStay, job, faults>>

\* Without a source, ranges that are blocked as they stand count as imported.
ImportPlain(f) ==
  LET new == f \ (blocks \cup UNION {owned[x] : x \in Sources}) IN
  /\ shortStay /\ new # {}
  /\ Free(new, blocks \cup stays \cup UNION {owned[x] : x \in Sources})
  /\ blocks' = blocks \cup new
  /\ UNCHANGED <<source, conn, owned, stays, shortStay, preview, job, current, faults>>

-----------------------------------------------------------------------------
(* The workers. *)

\* Defect: a lease whose worker died counts for ever.
LeasedOnce(x) == conn[x].enabled /\ conn[x].due /\ conn[x].lease = None

Claimable(x) == conn[x].enabled /\ conn[x].due /\ ~conn[x].live

Claim(w, x) ==
  /\ job[w] = NoJob /\ Claimable(x) /\ shortStay
  /\ conn' = [conn EXCEPT ![x].lease = w, ![x].live = TRUE]
  /\ job' = [job EXCEPT ![w] =
       [source |-> x, revision |-> source[x], content |-> None]]
  /\ current' = current \cup {w}
  /\ UNCHANGED <<source, calendar, shortStay, preview, faults>>

Inactive(c) == [Paused(c) EXCEPT !.status = "inactive"]

ClaimInactive(w, x) ==
  /\ job[w] = NoJob /\ Claimable(x) /\ ~shortStay
  /\ conn' = [conn EXCEPT ![x] = Inactive(@)]
  /\ UNCHANGED <<source, calendar, shortStay, preview, job, current, faults>>

Failure == [ranges |-> None]

\* The download, without any lock: a calendar, or a failure.
Fetch(w) ==
  /\ job[w] # NoJob /\ job[w].content = None
  /\ \E f \in {Failure} \cup {[ranges |-> f] : f \in Feeds} :
       job' = [job EXCEPT ![w].content = f]
  /\ UNCHANGED <<source, conn, calendar, shortStay, preview, current, faults>>

Held(w) == LET c == conn[job[w].source] IN c.enabled /\ c.lease = w /\ c.live

Attempted(x, status) ==
  conn' = [conn EXCEPT ![x] =
    [@ EXCEPT !.lease = None, !.live = FALSE, !.due = FALSE, !.status = status]]

Done(w) ==
  /\ job' = [job EXCEPT ![w] = NoJob]
  /\ UNCHANGED <<shortStay, preview, faults>>

Discard(w) ==
  /\ job[w].content # None /\ ~Held(w) /\ Done(w)
  /\ current' = current \ {w}
  /\ UNCHANGED <<source, conn, calendar>>

FinishInactive(w) ==
  /\ job[w].content # None /\ Held(w) /\ ~shortStay /\ Done(w)
  /\ conn' = [conn EXCEPT ![job[w].source] = Inactive(@)]
  /\ current' = current \ {w}
  /\ UNCHANGED <<source, calendar>>

Superseded(w) == source[job[w].source] # job[w].revision

WouldEmpty(x, f) == ~conn[x].allowEmpty /\ f = {} /\ owned[x] # {}

\* Anything that keeps the source's blocks: the attempt and its outcome are kept.
FinishUnchanged(w) ==
  LET x == job[w].source  c == job[w].content IN
  /\ c # None /\ Held(w) /\ shortStay /\ Done(w)
  /\ \/ Superseded(w) /\ Attempted(x, "superseded")
     \/ ~Superseded(w) /\ c = Failure /\ Attempted(x, "fetch_error")
     \/ /\ ~Superseded(w) /\ c # Failure
        /\ \/ WouldEmpty(x, c.ranges) /\ Attempted(x, "blocked_empty")
           \/ ~Free(c.ranges, Others(x)) /\ Attempted(x, "conflict")
  /\ current' = current \ {w}
  /\ UNCHANGED <<source, calendar>>

FinishApply(w) ==
  LET x == job[w].source  c == job[w].content IN
  /\ c \notin {None, Failure} /\ Held(w) /\ shortStay /\ ~Superseded(w)
  /\ ~WouldEmpty(x, c.ranges) /\ Free(c.ranges, Others(x))
  /\ owned' = [owned EXCEPT ![x] = c.ranges]
  /\ Touch(x) /\ Attempted(x, "applied") /\ Done(w)
  /\ UNCHANGED <<blocks, stays>>

-----------------------------------------------------------------------------
(* What else happens. *)

RunDue(x) ==
  /\ conn[x].enabled /\ ~conn[x].due /\ Bounded(x)
  /\ conn' = [conn EXCEPT ![x].due = TRUE]
  /\ UNCHANGED <<source, calendar, shortStay, preview, job, current, faults>>

Fault == faults < MaxFaults /\ faults' = faults + 1

LeaseRunsOut(x) ==
  /\ Fault /\ conn[x].live
  /\ conn' = [conn EXCEPT ![x].live = FALSE]
  /\ UNCHANGED <<source, calendar, shortStay, preview, job, current>>

\* A worker dies; its lease runs out later.
Crash(w) ==
  /\ Fault /\ job[w] # NoJob
  /\ job' = [job EXCEPT ![w] = NoJob] /\ current' = current \ {w}
  /\ UNCHANGED <<source, conn, calendar, shortStay, preview>>

Orphaned(x) == conn[x].live /\ job[conn[x].lease].source # x

LeaseExpires(x) ==
  /\ Orphaned(x)
  /\ conn' = [conn EXCEPT ![x].live = FALSE]
  /\ UNCHANGED <<source, calendar, shortStay, preview, job, current, faults>>

\* Guests book and cancel, and the owner blocks and frees ranges.
Occupy(r) ==
  /\ shortStay /\ Free({r}, stays \cup blocks \cup UNION {owned[x] : x \in Sources})
  /\ \/ stays' = stays \cup {r} /\ UNCHANGED blocks
     \/ blocks' = blocks \cup {r} /\ UNCHANGED stays
  /\ UNCHANGED <<source, conn, owned, shortStay, preview, job, current, faults>>

Vacate(r) ==
  /\ r \in stays \cup blocks \cup UNION {owned[x] : x \in Sources}
  /\ stays' = stays \ {r} /\ blocks' = blocks \ {r}
  /\ owned' = [x \in Sources |-> owned[x] \ {r}]
  /\ UNCHANGED <<source, conn, shortStay, preview, job, current, faults>>

ChangeOffer ==
  /\ shortStay /\ shortStay' = FALSE
  /\ UNCHANGED <<source, conn, calendar, preview, job, current, faults>>

Configure(x) ==
  \/ Bounded(x) /\ \E empty \in BOOLEAN : Connect(x, empty)
  \/ /\ Bounded(x) /\ "configure" \in Doing
     /\ Resume(x) \/ Refresh(x) \/ Pause(x) \/ Disconnect(x)
  \/ "configure" \in Doing /\ RemoveSource(x)
  \/ /\ "import" \in Doing
     /\ (Bounded(x) /\ Confirm(x)) \/ (\E f \in Feeds : Preview(x, f))

Book ==
  /\ "book" \in Doing
  /\ \/ \E f \in Feeds : ImportPlain(f)
     \/ \E r \in UNION Feeds : Occupy(r) \/ Vacate(r)

Finish(w) == Discard(w) \/ FinishInactive(w) \/ FinishUnchanged(w) \/ FinishApply(w)

Next ==
  \/ \E x \in Sources :
       \/ Configure(x) \/ RunDue(x) \/ LeaseRunsOut(x) \/ LeaseExpires(x)
       \/ \E w \in Workers : Claim(w, x) \/ ClaimInactive(w, x)
  \/ \E w \in Workers : Fetch(w) \/ Finish(w) \/ Crash(w)
  \/ Book
  \/ "configure" \in Doing /\ ChangeOffer

\* Beat starts a run every minute, a download times out, and so does a lease.
Fairness ==
  /\ \A x \in Sources :
       /\ WF_vars(\E w \in Workers : Claim(w, x) \/ ClaimInactive(w, x))
       /\ WF_vars(LeaseExpires(x))
  /\ \A w \in Workers : WF_vars(Fetch(w)) /\ WF_vars(Finish(w))

Spec == Init /\ [][Next]_vars
LiveSpec == Spec /\ Fairness

-----------------------------------------------------------------------------
(* Properties. *)

\* What a source blocks is free of stays, of the owner's blocks and of every
\* other source, whichever of them is imported or booked first.
SourcesKeepApart ==
  \A x \in Sources :
    /\ Free(owned[x], stays \cup blocks)
    /\ \A y \in Sources \ {x} : Free(owned[x], owned[y])

\* A worker never applies a download that an import by hand, another worker, a
\* pause, a new address or the removal of the source has overtaken
\* (occupancy_sync_service.py:197-227).
AppliesCurrent == \A w \in Workers : FinishApply(w) => w \in current
OvertakenIsDiscarded == [][AppliesCurrent]_vars

\* Automation never empties a source whose owner did not allow it.
AutomationKeepsBlocks ==
  \A x \in Sources : owned[x] # {} /\ owned'[x] = {} =>
    \/ conn[x].allowEmpty
    \/ ~(\E w \in Workers : job[w].source = x /\ job'[w] = NoJob)
EmptyFeedKeepsBlocks == [][AutomationKeepsBlocks]_vars

\* A confirmed import removes no more than its preview had listed.
AsPreviewed ==
  \A x \in Sources : Confirm(x) => owned[x] \ owned'[x] \subseteq preview[x].removed
RemovesAsPreviewed == [][AsPreviewed]_vars

\* A connection that is switched on and due is tried, whatever workers crash.
DueIsTried ==
  \A x \in Sources :
    conn[x].enabled /\ conn[x].due ~> ~(conn[x].enabled /\ conn[x].due)
=============================================================================
