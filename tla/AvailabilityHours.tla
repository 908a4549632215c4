------------------------- MODULE AvailabilityHours -------------------------
(***************************************************************************)
(* When a resource can be booked on a day: inside one of the owner's rules  *)
(* and outside his exceptions.  Rules, exceptions and a booking's hours are *)
(* checked before anything is locked.  The slots a customer is shown are    *)
(* cached for a while; whoever commits a change forgets the cached answer   *)
(* afterwards.  Intervals are sets of consecutive ticks of the day; the     *)
(* resource has room for one party.                                         *)
(***************************************************************************)
EXTENDS Integers, FiniteSets, FiniteSetsExt

CONSTANTS
  Intervals,      \* those of rules, exceptions and bookings
  SlotLength,     \* of the slots a customer asks for
  Sessions,       \* requests served at a time
  MaxChanges,     \* bound on the changes
  MaxFaults,      \* bound on the requests that die half way
  Kinds,          \* what changes: "rules", "exceptions", "booked"
  None

VARIABLES
  rules, exceptions,
  booked,         \* the intervals of the active reservations
  cache,          \* the slots kept in Redis, None if there are none
  work,           \* what each session is doing
  changes, faults

vars == <<rules, exceptions, booked, cache, work, changes, faults>>

Idle == [op |-> "idle"]

Init ==
  /\ rules \in {{}, {UNION Intervals}}
  /\ exceptions = {} /\ booked = {}
  /\ cache = None
  /\ work = [s \in Sessions |-> Idle]
  /\ changes = 0 /\ faults = 0

Start(s, what) == work[s] = Idle /\ work' = [work EXCEPT ![s] = what]
Finish(s) == work' = [work EXCEPT ![s] = Idle]

\* A change is committed; its session still has to forget the cached slots.
Commit(s) ==
  /\ changes < MaxChanges /\ changes' = changes + 1
  /\ work' = [work EXCEPT ![s] = [op |-> "forget"]]
  /\ UNCHANGED <<cache, faults>>

Overlaps(interval, others) == \E other \in others : other \cap interval # {}

-----------------------------------------------------------------------------
(* Rules and exceptions of the owner. *)

AddRuleRead(s, interval) ==
  /\ "rules" \in Kinds
  /\ ~Overlaps(interval, rules)
  /\ Start(s, [op |-> "rule", interval |-> interval])
  /\ UNCHANGED <<rules, exceptions, booked, cache, changes, faults>>
\* The same interval twice is refused by a unique key.
AddRuleCommit(s) ==
  /\ work[s].op = "rule" /\ work[s].interval \notin rules
  /\ rules' = rules \cup {work[s].interval}
  /\ Commit(s) /\ UNCHANGED <<exceptions, booked>>
DeleteRule(s, interval) ==
  /\ "rules" \in Kinds /\ work[s] = Idle /\ interval \in rules
  /\ rules' = rules \ {interval}
  /\ Commit(s) /\ UNCHANGED <<exceptions, booked>>

AddExceptionRead(s, interval) ==
  /\ "exceptions" \in Kinds
  /\ ~Overlaps(interval, exceptions)
  /\ Start(s, [op |-> "exception", interval |-> interval])
  /\ UNCHANGED <<rules, exceptions, booked, cache, changes, faults>>
AddExceptionCommit(s) ==
  /\ work[s].op = "exception"
  /\ exceptions' = exceptions \cup {work[s].interval}
  /\ Commit(s) /\ UNCHANGED <<rules, booked>>
DeleteException(s, interval) ==
  /\ "exceptions" \in Kinds /\ work[s] = Idle /\ interval \in exceptions
  /\ exceptions' = exceptions \ {interval}
  /\ Commit(s) /\ UNCHANGED <<rules, booked>>

-----------------------------------------------------------------------------
(* Bookings. *)

WithinRules(interval) == \E rule \in rules : interval \subseteq rule

BookRead(s, interval) ==
  /\ "booked" \in Kinds
  /\ WithinRules(interval) /\ ~Overlaps(interval, exceptions)
  /\ Start(s, [op |-> "book", interval |-> interval])
  /\ UNCHANGED <<rules, exceptions, booked, cache, changes, faults>>
\* Only the other reservations are looked at again under the resource's row.
BookCommit(s) ==
  /\ work[s].op = "book" /\ ~Overlaps(work[s].interval, booked)
  /\ booked' = booked \cup {work[s].interval}
  /\ Commit(s) /\ UNCHANGED <<rules, exceptions>>
Cancel(s, interval) ==
  /\ "booked" \in Kinds /\ work[s] = Idle /\ interval \in booked
  /\ booked' = booked \ {interval}
  /\ Commit(s) /\ UNCHANGED <<rules, exceptions>>

-----------------------------------------------------------------------------
(* The slots and their cache. *)

\* Each rule is cut into slots from its beginning on.
SlotsOf(rule) ==
  {slot \in {t..(t + SlotLength - 1) : t \in rule} :
     slot \subseteq rule /\ (Min(slot) - Min(rule)) % SlotLength = 0}
AvailableSlots ==
  {[slot |-> slot,
    available |-> ~Overlaps(slot, booked) /\ ~Overlaps(slot, exceptions)] :
     slot \in UNION {SlotsOf(rule) : rule \in rules}}

\* Nothing is cached: the slots are read, and cached later.
SlotsRead(s) ==
  /\ cache = None
  /\ Start(s, [op |-> "slots", answer |-> AvailableSlots])
  /\ UNCHANGED <<rules, exceptions, booked, cache, changes, faults>>
SlotsCached(s) ==
  /\ work[s].op = "slots"
  /\ cache' = work[s].answer
  /\ Finish(s) /\ UNCHANGED <<rules, exceptions, booked, changes, faults>>

Forget(s) ==
  /\ work[s].op = "forget"
  /\ cache' = None
  /\ Finish(s) /\ UNCHANGED <<rules, exceptions, booked, changes, faults>>

\* Defect: cached without a time to live.
NeverExpires == FALSE
\* The answer has been in Redis for CACHE_TTL_SECONDS.
Elapsed == cache # None

CacheExpires ==
  /\ Elapsed /\ cache' = None
  /\ UNCHANGED <<rules, exceptions, booked, work, changes, faults>>

\* A request is refused, or dies and forgets nothing.
Abort(s) ==
  /\ work[s] # Idle
  /\ work[s].op = "forget" => faults < MaxFaults
  /\ faults' = IF work[s].op = "forget" THEN faults + 1 ELSE faults
  /\ Finish(s) /\ UNCHANGED <<rules, exceptions, booked, cache, changes>>

Next ==
  \/ CacheExpires
  \/ \E s \in Sessions :
       \/ \E interval \in Intervals :
            \/ AddRuleRead(s, interval) \/ AddExceptionRead(s, interval)
            \/ BookRead(s, interval)
       \/ \E rule \in rules : DeleteRule(s, rule)
       \/ \E exception \in exceptions : DeleteException(s, exception)
       \/ \E interval \in booked : Cancel(s, interval)
       \/ AddRuleCommit(s) \/ AddExceptionCommit(s) \/ BookCommit(s)
       \/ SlotsRead(s) \/ SlotsCached(s) \/ Forget(s) \/ Abort(s)

Spec == Init /\ [][Next]_vars

\* Redis forgets by itself, and a request ends.
Ends(s) == SlotsCached(s) \/ Forget(s) \/ Abort(s)
LiveSpec ==
  Spec /\ WF_vars(CacheExpires) /\ \A s \in Sessions : WF_vars(Ends(s))

-----------------------------------------------------------------------------
(* Properties. *)

\* When the hours stop changing, the slots shown are in the end those there
\* are, although a slow reader may cache older ones after they were forgotten
\* and a dying request forgets nothing.
SlotsCatchUp == <>[](cache \in {None, AvailableSlots})
=============================================================================
