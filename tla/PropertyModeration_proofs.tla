---------------------- MODULE PropertyModeration_proofs ----------------------
(***************************************************************************)
(* What reports, decisions and edits of a listing keep, for any number of    *)
(* owners, reporters, reports and concurrent requests.                       *)
(*                                                                         *)
(* Three locks matter.  A report has its user to itself, so what it found    *)
(* about him still holds; an edit and a decision have the listing to         *)
(* themselves, so what an edit found about it still holds; and a decision    *)
(* locks the users before the listing, so nobody waits in turn.              *)
(***************************************************************************)
EXTENDS PropertyModeration, TLAPS, FiniteSetTheorems

States == {"clear", "suspended", "appealed"}
Row == [published : BOOLEAN, state : States, version : Nat, owner : Owners]
ReportRow ==
  [status : {"none", "pending", "action_taken", "dismissed"},
   user : Reporters \cup Owners \cup {None}, request : Requests \cup {None}]

\* A report, an edit and a decision under way, as they were begun.
Reporting(w) ==
  /\ w.op = "report" /\ w.user \in Reporters \cup Owners /\ w.request \in Requests
  /\ ~Filed(w.user, w.request)
Editing(w) ==
  /\ w.op = "edit" /\ w.publish \in BOOLEAN /\ w.owner \in Owners
  /\ w.publish => listing.state = "clear"
Decision ==
  [op : {"act"}, user : Owners \cup Admins, action : DOMAIN Allowed,
   report : Reports \cup {None}, owner : Owners, version : Nat,
   told : SUBSET (Owners \cup Admins \cup Reporters \cup {None}),
   keys : BOOLEAN, locked : BOOLEAN]
Deciding(w) == w \in Decision /\ (w.locked => w.keys)
Under(w) == w = Idle \/ Reporting(w) \/ Editing(w) \/ Deciding(w)

\* Whose row a request has locked, and whether it has locked the listing.
OwnUser(w) == IF w.op = "report" THEN {w.user} ELSE {}
HeldKeys(w) == IF w.op = "act" /\ w.keys THEN w.told ELSE {}
OnListing(w) == w.op = "edit" \/ (w.op = "act" /\ w.locked)
Apart(v, w) ==
  /\ OwnUser(v) \cap (OwnUser(w) \cup HeldKeys(w)) = {}
  /\ ~(OnListing(v) /\ OnListing(w))

ListingOK == listing \in Row /\ SuspendedIsHidden
ReportsOK ==
  /\ report \in [Reports -> ReportRow]
  /\ \A p \in Reports : report[p].status = "none" <=> report[p] = NoReport
  /\ \A p, q \in Reports :
       p # q /\ report[p].status = "pending" /\ report[q].status = "pending" =>
         report[p].user # report[q].user
  /\ \A p, q \in Reports : p # q /\ report[p] # NoReport =>
       <<report[p].user, report[p].request>> # <<report[q].user, report[q].request>>
EventsOK ==
  /\ IsFiniteSet(events) /\ HistoryIsLinear
  /\ \A e \in events : e.report # None =>
       e.report \in Reports /\ report[e.report].status \in {"action_taken", "dismissed"}
WorkOK ==
  /\ DOMAIN work = Sessions
  /\ \A s \in Sessions : Under(work[s])
  /\ \A s, t \in Sessions : s # t => Apart(work[s], work[t])

ModerationInv == ListingOK /\ ReportsOK /\ EventsOK /\ WorkOK

LEMMA ModerationStart == Init => ModerationInv
  <1> SUFFICES ASSUME Init PROVE ModerationInv
    OBVIOUS
  <1>1. ListingOK
    <2>1. listing \in [published : {TRUE}, state : {"clear"}, version : {0}, owner : Owners]
      BY DEF Init
    <2>2. PICK o \in Owners :
            listing = [published |-> TRUE, state |-> "clear", version |-> 0, owner |-> o]
      BY ONLY <2>1
    <2>3. listing.state = "clear" /\ listing \in Row
      BY ONLY <2>2 DEF States, Row
    <2> QED BY <2>3 DEF ListingOK, Row, SuspendedIsHidden
  <1>2. ReportsOK
    BY DEF Init, ReportsOK, ReportRow, NoReport
  <1>3. EventsOK
    <2>1. events = {} /\ listing.version = 0
      BY DEF Init
    <2>2. IsFiniteSet(events) /\ Cardinality(events) = 0
      BY <2>1, FS_EmptySet
    <2>3. 1..listing.version = {}
      BY <2>1
    <2> QED BY <2>1, <2>2, <2>3 DEF EventsOK, HistoryIsLinear
  <1>4. WorkOK
    BY DEF Init, WorkOK, Under, Apart, Idle, OwnUser, OnListing
  <1> QED BY <1>1, <1>2, <1>3, <1>4 DEF ModerationInv

\* Nothing but the requests under way changes.
LEMMA RowsRest ==
  ASSUME UNCHANGED <<listing, report, events>>
  PROVE  /\ ListingOK => ListingOK'
         /\ ReportsOK => ReportsOK'
         /\ EventsOK => EventsOK'
         /\ \A w : Under(w) => Under(w)'
  <1>1. ListingOK => ListingOK'
    BY DEF ListingOK, SuspendedIsHidden
  <1>2. ReportsOK => ReportsOK'
    BY DEF ReportsOK
  <1>3. EventsOK => EventsOK'
    BY DEF EventsOK, HistoryIsLinear
  <1>4. ASSUME NEW w, Under(w) PROVE Under(w)'
    BY <1>4 DEF Under, Reporting, Editing, Deciding, Filed
  <1> QED BY <1>1, <1>2, <1>3, <1>4

LEMMA ModerationRests ==
  ASSUME ModerationInv, UNCHANGED vars
  PROVE  ModerationInv'
  <1>1. UNCHANGED <<listing, report, events>> /\ UNCHANGED work
    BY DEF vars
  <1>2. \A s \in Sessions : Under(work[s])'
    <2>1. \A s \in Sessions : Under(work[s])
      BY DEF ModerationInv, WorkOK
    <2> QED BY <1>1, <2>1 DEF Under, Reporting, Editing, Deciding, Filed
  <1>3. WorkOK'
    BY <1>1, <1>2 DEF ModerationInv, WorkOK
  <1> QED BY <1>1, <1>3, RowsRest DEF ModerationInv

\* A request takes a step, and nothing else changes.
LEMMA WorkMoves ==
  ASSUME WorkOK, NEW s \in Sessions, NEW v, work' = [work EXCEPT ![s] = v],
         \A t \in Sessions \ {s} : Under(work[t])',
         Under(v)',
         \A t \in Sessions \ {s} : Apart(v, work[t]) /\ Apart(work[t], v)
  PROVE  WorkOK'
  <1>1. DOMAIN work' = Sessions
    BY DEF WorkOK
  <1>2. work'[s] = v /\ \A t \in Sessions \ {s} : work'[t] = work[t]
    BY DEF WorkOK
  <1>3. Under(work[s])'
    BY <1>2 DEF Under, Reporting, Editing, Deciding, Filed
  <1>4. \A t, u \in Sessions : t # u => Apart(work'[t], work'[u])
    BY <1>2 DEF WorkOK
  <1>5. \A t \in Sessions : Under(work[t])'
    BY <1>3
  <1>6. \A t, u \in Sessions : t # u => Apart(work[t], work[u])'
    BY ONLY <1>4 DEF Apart, OwnUser, HeldKeys, OnListing
  <1> QED
    BY ONLY <1>1, <1>5, <1>6 DEF WorkOK

LEMMA WorkMovesAlone ==
  ASSUME ModerationInv, NEW s \in Sessions, NEW v, work' = [work EXCEPT ![s] = v],
         UNCHANGED <<listing, report, events>>, Under(v),
         \A t \in Sessions \ {s} : Apart(v, work[t]) /\ Apart(work[t], v)
  PROVE  ModerationInv'
  <1>1. WorkOK
    BY DEF ModerationInv
  <1>2. \A t \in Sessions \ {s} : work'[t] = work[t] /\ Under(work[t])
    BY DEF ModerationInv, WorkOK
  <1>3. \A t \in Sessions \ {s} : Under(work[t])'
    BY <1>2 DEF Under, Reporting, Editing, Deciding, Filed
  <1>4. Under(v)'
    BY RowsRest
  <1>5. WorkOK'
    BY <1>1, <1>3, <1>4, WorkMoves
  <1> QED BY <1>5, RowsRest DEF ModerationInv

LEMMA WorkEnds ==
  ASSUME ModerationInv, NEW s \in Sessions, Finish(s),
         \A t \in Sessions \ {s} : Under(work[t])'
  PROVE  WorkOK'
  <1>1. WorkOK /\ work' = [work EXCEPT ![s] = Idle]
    BY DEF ModerationInv, Finish
  <1>2. Under(Idle)'
    BY DEF Under
  <1>3. \A t \in Sessions \ {s} : Apart(Idle, work[t]) /\ Apart(work[t], Idle)
    BY DEF Apart, Idle, OwnUser, HeldKeys, OnListing
  <1> QED BY <1>1, <1>2, <1>3, WorkMoves

LEMMA ReportBegins ==
  ASSUME ModerationInv, NEW s \in Sessions, NEW u \in Reporters \cup Owners,
         NEW r \in Requests, ReportLock(s, u, r)
  PROVE  ModerationInv'
  <1> DEFINE v == [op |-> "report", user |-> u, request |-> r]
  <1>1. /\ work' = [work EXCEPT ![s] = v] /\ UserFree(s, u) /\ ~Filed(u, r)
        /\ UNCHANGED <<listing, report, events>>
    BY DEF ReportLock
  <1>2. /\ v.op = "report" /\ v.user = u /\ v.request = r
    OBVIOUS
  <1> HIDE DEF v
  <1>3. Under(v)
    BY <1>1, <1>2 DEF Under, Reporting
  <1>4. /\ OwnUser(v) = {u} /\ HeldKeys(v) = {} /\ ~OnListing(v)
    BY <1>2 DEF OwnUser, HeldKeys, OnListing
  <1>5. \A t \in Sessions \ {s} : u \notin OwnUser(work[t]) /\ u \notin HeldKeys(work[t])
    BY <1>1 DEF UserFree, HoldsUser, HoldsKey, OwnUser, HeldKeys
  <1>6. \A t \in Sessions \ {s} : Apart(v, work[t]) /\ Apart(work[t], v)
    BY <1>4, <1>5 DEF Apart
  <1> QED BY <1>1, <1>3, <1>6, WorkMovesAlone

LEMMA EditBegins ==
  ASSUME ModerationInv, NEW s \in Sessions, NEW publish \in BOOLEAN,
         NEW owner \in Owners, EditLock(s, publish, owner)
  PROVE  ModerationInv'
  <1> DEFINE v == [op |-> "edit", publish |-> publish, owner |-> owner]
  <1>1. /\ work' = [work EXCEPT ![s] = v] /\ ListingFree(s)
        /\ publish => listing.state = "clear"
        /\ UNCHANGED <<listing, report, events>>
    BY DEF EditLock
  <1>2. /\ v.op = "edit" /\ v.publish = publish /\ v.owner = owner
    OBVIOUS
  <1> HIDE DEF v
  <1>3. Under(v)
    BY <1>1, <1>2 DEF Under, Editing
  <1>4. /\ OwnUser(v) = {} /\ HeldKeys(v) = {}
    BY <1>2 DEF OwnUser, HeldKeys
  <1>5. \A t \in Sessions \ {s} : ~OnListing(work[t])
    BY <1>1 DEF ListingFree, HoldsListing, OnListing
  <1>6. \A t \in Sessions \ {s} : Apart(v, work[t]) /\ Apart(work[t], v)
    <2>1. ASSUME NEW t \in Sessions \ {s} PROVE Apart(v, work[t]) /\ Apart(work[t], v)
      <3>1. OwnUser(work[t]) \cap (OwnUser(v) \cup HeldKeys(v)) = {}
        BY <1>4
      <3>2. OwnUser(v) \cap (OwnUser(work[t]) \cup HeldKeys(work[t])) = {}
        BY <1>4
      <3> QED BY <1>5, <3>1, <3>2 DEF Apart
    <2> QED BY <2>1
  <1> QED BY <1>1, <1>3, <1>6, WorkMovesAlone

LEMMA DecisionBegins ==
  ASSUME ModerationInv, NEW s \in Sessions, NEW u \in Owners \cup Admins,
         NEW action \in DOMAIN Allowed, NEW p \in Reports \cup {None},
         ActRead(s, u, action, p)
  PROVE  ModerationInv'
  <1> DEFINE told == {u, listing.owner} \cup (IF p = None THEN {} ELSE {report[p].user})
             v == [op |-> "act", user |-> u, action |-> action, report |-> p,
                   owner |-> listing.owner, version |-> listing.version,
                   told |-> told, keys |-> FALSE, locked |-> FALSE]
  <1>1. /\ work' = [work EXCEPT ![s] = v]
        /\ UNCHANGED <<listing, report, events>>
    BY DEF ActRead
  <1>2. /\ v.op = "act" /\ ~v.keys /\ ~v.locked
    OBVIOUS
  <1>3. listing.owner \in Owners /\ listing.version \in Nat
    BY DEF ModerationInv, ListingOK, Row
  <1>4. told \in SUBSET (Owners \cup Admins \cup Reporters \cup {None})
    <2>1. p # None => report[p].user \in Reporters \cup Owners \cup {None}
      BY DEF ModerationInv, ReportsOK, ReportRow
    <2> QED BY <1>3, <2>1
  <1> HIDE DEF told
  <1>5. v \in Decision
    BY <1>3, <1>4 DEF Decision
  <1> HIDE DEF v
  <1>6. Under(v)
    BY <1>2, <1>5 DEF Under, Deciding
  <1>7. OwnUser(v) = {} /\ HeldKeys(v) = {} /\ ~OnListing(v)
    BY <1>2 DEF OwnUser, HeldKeys, OnListing
  <1>8. \A t \in Sessions \ {s} : Apart(v, work[t]) /\ Apart(work[t], v)
    BY <1>7 DEF Apart
  <1> QED BY <1>1, <1>6, <1>8, WorkMovesAlone

\* Of the requests under way only a decision is one.
LEMMA OpsDiffer ==
  ASSUME ModerationInv, NEW s \in Sessions
  PROVE  /\ work[s].op = "act" => Deciding(work[s])
         /\ work[s].op = "edit" => Editing(work[s])
         /\ work[s].op = "report" => Reporting(work[s])
  <1>1. Under(work[s])
    BY DEF ModerationInv, WorkOK
  <1> QED BY <1>1 DEF Under, Idle, Reporting, Editing, Deciding, Decision

LEMMA DecisionLocks ==
  ASSUME ModerationInv, NEW s \in Sessions, LockKeys(s) \/ LockListing(s)
  PROVE  ModerationInv'
  <1> DEFINE w == work[s]
  <1>1. w \in Decision /\ (w.locked => w.keys)
    BY OpsDiffer DEF LockKeys, LockListing, Deciding
  <1>2. \A t \in Sessions \ {s} : Apart(w, work[t]) /\ Apart(work[t], w)
    BY DEF ModerationInv, WorkOK
  <1>3. CASE LockKeys(s)
    <2> DEFINE v == [w EXCEPT !.keys = TRUE]
    <2>1. /\ work' = [work EXCEPT ![s] = v] /\ ~w.locked
          /\ UNCHANGED <<listing, report, events>>
          /\ \A u \in w.told : KeyFree(s, u)
      BY <1>3 DEF LockKeys
    <2>2. /\ v \in Decision /\ v.op = "act" /\ v.keys /\ v.locked = w.locked
          /\ v.told = w.told
      BY <1>1 DEF Decision
    <2> HIDE DEF v
    <2>3. Under(v)
      BY <2>2 DEF Under, Deciding
    <2>4. OwnUser(v) = {} /\ HeldKeys(v) = w.told /\ ~OnListing(v)
      BY <2>1, <2>2 DEF OwnUser, HeldKeys, OnListing
    <2>5. \A t \in Sessions \ {s} : OwnUser(work[t]) \cap w.told = {}
      BY <2>1 DEF KeyFree, HoldsUser, OwnUser
    <2>6. \A t \in Sessions \ {s} : Apart(v, work[t]) /\ Apart(work[t], v)
      <3> HIDE DEF w
      <3> QED BY <2>4, <2>5 DEF Apart
    <2> QED BY <2>1, <2>3, <2>6, WorkMovesAlone
  <1>4. CASE LockListing(s)
    <2> DEFINE v == [w EXCEPT !.locked = TRUE]
    <2>1. /\ work' = [work EXCEPT ![s] = v] /\ w.keys /\ ListingFree(s)
          /\ UNCHANGED <<listing, report, events>>
      BY <1>4 DEF LockListing, KeysHeld
    <2>2. /\ v \in Decision /\ v.op = "act" /\ v.keys /\ v.locked
          /\ v.told = w.told /\ w.op = "act"
      BY <1>1, <2>1 DEF Decision
    <2> HIDE DEF v
    <2>3. Under(v)
      BY <2>2 DEF Under, Deciding
    <2>4. OwnUser(v) = OwnUser(w) /\ HeldKeys(v) = HeldKeys(w)
      BY <2>1, <2>2 DEF OwnUser, HeldKeys
    <2>5. \A t \in Sessions \ {s} : ~OnListing(work[t])
      BY <2>1 DEF ListingFree, HoldsListing, OnListing
    <2>6. \A t \in Sessions \ {s} : Apart(v, work[t]) /\ Apart(work[t], v)
      <3> HIDE DEF w
      <3> QED BY <1>2, <2>4, <2>5 DEF Apart
    <2> QED BY <2>1, <2>3, <2>6, WorkMovesAlone
  <1> QED BY <1>3, <1>4

\* A request is refused.
LEMMA RequestRefused ==
  ASSUME ModerationInv, NEW s \in Sessions, ReportRefuse(s) \/ ActRefuse(s)
  PROVE  ModerationInv'
  <1>1. /\ work' = [work EXCEPT ![s] = Idle]
        /\ UNCHANGED <<listing, report, events>>
    BY DEF ReportRefuse, ActRefuse, Finish
  <1>2. Under(Idle)
    BY DEF Under
  <1>3. \A t \in Sessions \ {s} : Apart(Idle, work[t]) /\ Apart(work[t], Idle)
    BY DEF Apart, Idle, OwnUser, HeldKeys, OnListing
  <1> QED BY <1>1, <1>2, <1>3, WorkMovesAlone

\* A report is filed: of its user none is open, and none had this identifier.
LEMMA ReportFiled ==
  ASSUME ModerationInv, NEW s \in Sessions, ReportCommit(s)
  PROVE  ModerationInv'
  <1> DEFINE w == work[s]
  <1>1. Reporting(w)
    BY OpsDiffer DEF ReportCommit
  <1>2. PICK p \in Reports :
          /\ report[p] = NoReport
          /\ report' = [report EXCEPT ![p] =
               [status |-> "pending", user |-> w.user, request |-> w.request]]
    BY DEF ReportCommit
  <1>3. UNCHANGED <<listing, events>> /\ Finish(s) /\ PendingOf(w.user) = {}
    BY DEF ReportCommit
  <1>4. PICK new : new = [status |-> "pending", user |-> w.user, request |-> w.request]
    OBVIOUS
  <1>5. /\ new.status = "pending" /\ new.user = w.user /\ new.request = w.request
        /\ new \in ReportRow /\ new # NoReport
    BY <1>1, <1>4 DEF Reporting, ReportRow, NoReport
  <1>6. report \in [Reports -> ReportRow]
    BY DEF ModerationInv, ReportsOK
  <1>7. /\ report' \in [Reports -> ReportRow] /\ report'[p] = new
        /\ \A q \in Reports : q # p => report'[q] = report[q]
    BY <1>2, <1>4, <1>5, <1>6
  <1>8. ReportsOK'
    <2>1. \A q \in Reports : report[q].status = "pending" => report[q].user # w.user
      BY <1>3 DEF PendingOf
    <2>2. \A q \in Reports :
            <<report[q].user, report[q].request>> # <<w.user, w.request>>
      BY <1>1 DEF Reporting, Filed
    <2>3. \A q \in Reports : report'[q].status = "none" <=> report'[q] = NoReport
      BY <1>5, <1>7 DEF ModerationInv, ReportsOK
    <2>4. \A q, r \in Reports :
            q # r /\ report'[q].status = "pending" /\ report'[r].status = "pending" =>
              report'[q].user # report'[r].user
      BY <1>5, <1>7, <2>1 DEF ModerationInv, ReportsOK
    <2>5. \A q, r \in Reports : q # r /\ report'[q] # NoReport =>
            <<report'[q].user, report'[q].request>> # <<report'[r].user, report'[r].request>>
      BY <1>5, <1>7, <2>2 DEF ModerationInv, ReportsOK
    <2> QED BY <1>7, <2>3, <2>4, <2>5 DEF ReportsOK
  <1>9. EventsOK'
    <2>1. report[p].status = "none"
      BY <1>2 DEF NoReport
    <2>2. \A e \in events : e.report # None =>
            e.report \in Reports /\ report'[e.report].status \in {"action_taken", "dismissed"}
      BY <1>7, <2>1 DEF ModerationInv, EventsOK
    <2> QED BY <1>3, <2>2 DEF ModerationInv, EventsOK, HistoryIsLinear
  <1>10. ListingOK'
    BY <1>3 DEF ModerationInv, ListingOK, SuspendedIsHidden
  <1>11. \A t \in Sessions \ {s} : Under(work[t])'
    <2>1. SUFFICES ASSUME NEW t \in Sessions \ {s} PROVE Under(work[t])'
      OBVIOUS
    <2>2. /\ work'[t] = work[t] /\ Under(work[t]) /\ Apart(w, work[t])
      BY <1>3 DEF ModerationInv, WorkOK, Finish
    <2>3. CASE Reporting(work[t])
      <3>1. work[t].user # w.user
        BY <1>1, <2>2, <2>3 DEF Apart, OwnUser, Reporting
      <3>2. ~Filed(work[t].user, work[t].request)'
        BY <1>5, <1>7, <2>2, <2>3, <3>1 DEF Reporting, Filed
      <3> QED BY <2>2, <2>3, <3>2 DEF Under, Reporting
    <2>4. CASE ~Reporting(work[t])
      BY <1>3, <2>2, <2>4 DEF Under, Editing, Deciding
    <2> QED BY <2>3, <2>4
  <1> QED BY <1>3, <1>8, <1>9, <1>10, <1>11, WorkEnds DEF ModerationInv

\* An edit is written: what it found about the listing still holds.
LEMMA EditWritten ==
  ASSUME ModerationInv, NEW s \in Sessions, EditCommit(s)
  PROVE  ModerationInv'
  <1> DEFINE w == work[s]
  <1>1. Editing(w)
    BY OpsDiffer DEF EditCommit
  <1>2. /\ UNCHANGED <<report, events>> /\ Finish(s)
        /\ listing' = [listing EXCEPT !.published = w.publish, !.owner = w.owner]
    BY DEF EditCommit
  <1>3. listing \in Row /\ w.publish \in BOOLEAN /\ w.owner \in Owners
    BY <1>1 DEF ModerationInv, ListingOK, Editing
  <1> HIDE DEF w
  <1>4. /\ listing' \in Row /\ listing'.state = listing.state
        /\ listing'.version = listing.version /\ listing'.published = w.publish
    BY ONLY <1>2, <1>3 DEF Row
  <1>5. ListingOK'
    BY <1>1, <1>4 DEF ListingOK, SuspendedIsHidden, Editing
  <1>6. ReportsOK' /\ EventsOK'
    BY <1>2, <1>4 DEF ModerationInv, ReportsOK, EventsOK, HistoryIsLinear
  <1>7. \A t \in Sessions \ {s} : Under(work[t])'
    <2>1. SUFFICES ASSUME NEW t \in Sessions \ {s} PROVE Under(work[t])'
      OBVIOUS
    <2>2. /\ work'[t] = work[t] /\ Under(work[t]) /\ Apart(w, work[t])
      BY <1>2 DEF ModerationInv, WorkOK, Finish, w
    <2>3. ~Editing(work[t])
      BY <1>1, <2>2 DEF Apart, OnListing, Editing
    <2> QED BY <1>2, <2>2, <2>3 DEF Under, Reporting, Deciding, Filed
  <1> QED BY <1>2, <1>5, <1>6, <1>7, WorkEnds DEF ModerationInv

\* What a decision makes of the listing.
LEMMA OutcomeKeeps ==
  ASSUME listing \in Row, SuspendedIsHidden, NEW action \in DOMAIN Allowed,
         listing.state \in Allowed[action]
  PROVE  /\ Outcome(action) \in Row
         /\ Outcome(action).version = listing.version
         /\ Outcome(action).published => listing.published
         /\ Outcome(action).state # "clear" => ~Outcome(action).published
  <1>1. action \in {"hide", "dismiss", "appeal", "restore", "uphold"}
    BY DEF Allowed
  <1>2. CASE action = "hide"
    <2>1. Outcome(action) = [listing EXCEPT !.published = FALSE, !.state = "suspended"]
      BY <1>2 DEF Outcome
    <2> QED BY <2>1 DEF Row, States
  <1>3. CASE action = "dismiss"
    <2>1. Outcome(action) = listing
      BY <1>3 DEF Outcome
    <2> QED BY <2>1 DEF SuspendedIsHidden
  <1>4. CASE action = "appeal"
    <2>1. Outcome(action) = [listing EXCEPT !.state = "appealed"]
      BY <1>4 DEF Outcome
    <2>2. listing.state = "suspended"
      BY <1>4 DEF Allowed
    <2> QED BY <2>1, <2>2 DEF Row, States, SuspendedIsHidden
  <1>5. CASE action = "restore"
    <2>1. Outcome(action) = [listing EXCEPT !.published = FALSE, !.state = "clear"]
      BY <1>5 DEF Outcome
    <2> QED BY <2>1 DEF Row, States
  <1>6. CASE action = "uphold"
    <2>1. Outcome(action) = [listing EXCEPT !.published = FALSE, !.state = "suspended"]
      BY <1>6 DEF Outcome
    <2> QED BY <2>1 DEF Row, States
  <1> QED BY <1>1, <1>2, <1>3, <1>4, <1>5, <1>6

LEMMA DecisionMade ==
  ASSUME ModerationInv, NEW s \in Sessions, ActCommit(s)
  PROVE  /\ ModerationInv'
         /\ listing'.published => listing.published
  <1> DEFINE w == work[s]
  <1>1. w \in Decision /\ w.locked
    BY OpsDiffer DEF ActCommit, Deciding
  <1>2. /\ Decidable(w) /\ Finish(s)
        /\ listing' = [Outcome(w.action) EXCEPT !.version = @ + 1]
    BY DEF ActCommit
  <1>3. report' = IF w.report = None THEN report ELSE
          [report EXCEPT ![w.report].status =
             IF w.action = "hide" THEN "action_taken" ELSE "dismissed"]
    BY DEF ActCommit
  <1>4. events' = events \cup {[user |-> w.user, action |-> w.action,
                                version |-> listing.version + 1, report |-> w.report]}
    BY DEF ActCommit
  <1>5. /\ w.op = "act" /\ w.action \in DOMAIN Allowed /\ w.report \in Reports \cup {None}
    BY <1>1 DEF Decision
  <1>6. /\ listing.state \in Allowed[w.action]
        /\ w.report # None => report[w.report].status = "pending"
    BY <1>2 DEF Decidable
  <1>7. \A t \in Sessions \ {s} :
          work'[t] = work[t] /\ Under(work[t]) /\ ~Editing(work[t])
    BY <1>1, <1>2, <1>5 DEF ModerationInv, WorkOK, Apart, OnListing, Finish, Editing
  <1> HIDE DEF w
  <1>8. /\ listing \in Row /\ SuspendedIsHidden /\ listing.version \in Nat
    BY DEF ModerationInv, ListingOK, Row
  <1>9. /\ listing' \in Row /\ listing'.version = listing.version + 1
        /\ listing'.published => listing.published
        /\ listing'.state # "clear" => ~listing'.published
    <2> DEFINE l == Outcome(w.action)
    <2>1. /\ l \in Row /\ l.version = listing.version
          /\ l.published => listing.published
          /\ l.state # "clear" => ~l.published
      BY <1>5, <1>6, <1>8, OutcomeKeeps
    <2>2. listing' = [l EXCEPT !.version = @ + 1]
      BY <1>2
    <2> HIDE DEF l
    <2> QED BY ONLY <1>8, <2>1, <2>2 DEF Row
  <1>10. ListingOK'
    BY <1>9 DEF ListingOK, SuspendedIsHidden
  <1>11. /\ report' \in [Reports -> ReportRow]
         /\ \A q \in Reports :
              /\ report'[q].user = report[q].user
              /\ report'[q].request = report[q].request
              /\ q = w.report /\ w.report # None =>
                   report'[q].status \in {"action_taken", "dismissed"}
              /\ q # w.report \/ w.report = None => report'[q] = report[q]
    <2>1. report \in [Reports -> ReportRow]
      BY DEF ModerationInv, ReportsOK
    <2>2. CASE w.report = None
      <3>1. report' = report
        BY <1>3, <2>2
      <3> QED BY <2>1, <2>2, <3>1
    <2>3. CASE w.report # None
      <3> DEFINE new == IF w.action = "hide" THEN "action_taken" ELSE "dismissed"
      <3>1. report' = [report EXCEPT ![w.report].status = new]
        BY <1>3, <2>3
      <3>2. new \in {"action_taken", "dismissed"} /\ w.report \in Reports
        BY <1>5, <2>3
      <3> HIDE DEF new
      <3> QED BY ONLY <2>1, <2>3, <3>1, <3>2 DEF ReportRow
    <2> QED BY <2>2, <2>3
  <1>12. ReportsOK'
    <2>1. \A q \in Reports :
            /\ report'[q].status = "pending" => report[q].status = "pending"
            /\ report[q] # NoReport => report[q].status # "none"
            /\ report[q].status = "none" => report'[q] = report[q]
            /\ report'[q].status = "none" => report'[q] = report[q]
      BY <1>6, <1>11 DEF ModerationInv, ReportsOK
    <2>2. \A q \in Reports : report'[q].status = "none" <=> report'[q] = NoReport
      BY <2>1 DEF ModerationInv, ReportsOK, NoReport
    <2>3. \A q \in Reports : report'[q] # NoReport => report[q] # NoReport
      BY <2>1 DEF NoReport
    <2> QED BY <1>11, <2>1, <2>2, <2>3 DEF ModerationInv, ReportsOK
  <1>13. EventsOK'
    <2>1. PICK new : new = [user |-> w.user, action |-> w.action,
                            version |-> listing.version + 1, report |-> w.report]
      OBVIOUS
    <2>2. new.version = listing.version + 1 /\ new.report = w.report
      BY <2>1
    <2>3. events' = events \cup {new}
      BY <1>4, <2>1
    <2>4. /\ IsFiniteSet(events) /\ Cardinality(events) = listing.version
          /\ {e.version : e \in events} = 1..listing.version
          /\ \A e, f \in events : e # f /\ e.report # None => e.report # f.report
          /\ \A e \in events : e.report # None =>
               e.report \in Reports /\ report[e.report].status \in {"action_taken", "dismissed"}
      BY DEF ModerationInv, EventsOK, HistoryIsLinear
    <2>5. \A e \in events : e.version \in 1..listing.version
      BY <2>4
    <2>6. new \notin events
      BY <1>8, <2>2, <2>5
    <2>7. IsFiniteSet(events') /\ Cardinality(events') = listing'.version
      BY <1>9, <2>3, <2>4, <2>6, FS_AddElement
    <2>8. {e.version : e \in events'} = 1..listing'.version
      <3>1. {e.version : e \in events'} = {e.version : e \in events} \cup {new.version}
        BY <2>3
      <3>2. 1..listing'.version = 1..listing.version \cup {listing.version + 1}
        BY <1>8, <1>9
      <3> QED BY <2>2, <2>4, <3>1, <3>2
    <2>9. \A e \in events : e.report # None => e.report # w.report
      BY <1>6, <2>4
    <2>10. \A e, f \in events' : e # f /\ e.report # None => e.report # f.report
      BY <2>2, <2>3, <2>4, <2>9
    <2>11. \A e \in events' : e.report # None =>
             e.report \in Reports /\ report'[e.report].status \in {"action_taken", "dismissed"}
      BY <1>5, <1>11, <2>2, <2>3, <2>4, <2>9
    <2> QED BY <2>7, <2>8, <2>10, <2>11 DEF EventsOK, HistoryIsLinear
  <1>14. \A t \in Sessions \ {s} : Under(work[t])'
    <2>1. SUFFICES ASSUME NEW t \in Sessions \ {s} PROVE Under(work[t])'
      OBVIOUS
    <2>2. /\ work'[t] = work[t] /\ Under(work[t]) /\ ~Editing(work[t])
      BY <1>7
    <2>3. \A u, r : Filed(u, r)' <=> Filed(u, r)
      BY <1>11 DEF Filed
    <2> QED BY <2>2, <2>3 DEF Under, Reporting, Deciding
  <1> QED BY <1>2, <1>9, <1>10, <1>12, <1>13, <1>14, WorkEnds DEF ModerationInv

LEMMA ModerationStep == ASSUME ModerationInv, Next PROVE ModerationInv'
  <1>1. PICK s \in Sessions :
          \/ ReportCommit(s) \/ ReportRefuse(s) \/ LockKeys(s) \/ LockListing(s)
          \/ ActCommit(s) \/ ActRefuse(s) \/ EditCommit(s)
          \/ \E u \in Reporters \cup Owners, r \in Requests : ReportLock(s, u, r)
          \/ \E u \in Owners \cup Admins, a \in DOMAIN Allowed, p \in Reports \cup {None} :
               ActRead(s, u, a, p)
          \/ \E publish \in BOOLEAN, owner \in Owners : EditLock(s, publish, owner)
    BY DEF Next
  <1>2. CASE ReportCommit(s) \/ EditCommit(s) \/ ActCommit(s)
    BY <1>2, ReportFiled, EditWritten, DecisionMade
  <1>3. CASE ReportRefuse(s) \/ ActRefuse(s) \/ LockKeys(s) \/ LockListing(s)
    BY <1>3, RequestRefused, DecisionLocks
  <1>4. CASE \E u \in Reporters \cup Owners, r \in Requests : ReportLock(s, u, r)
    BY <1>4, ReportBegins
  <1>5. CASE \E u \in Owners \cup Admins, a \in DOMAIN Allowed, p \in Reports \cup {None} :
               ActRead(s, u, a, p)
    BY <1>5, DecisionBegins
  <1>6. CASE \E publish \in BOOLEAN, owner \in Owners : EditLock(s, publish, owner)
    BY <1>6, EditBegins
  <1> QED BY <1>1, <1>2, <1>3, <1>4, <1>5, <1>6

-----------------------------------------------------------------------------
(* What follows from it. *)

LEMMA OneReport == ModerationInv => OneOpenReport
  <1> SUFFICES ASSUME ModerationInv PROVE OneOpenReport
    OBVIOUS
  <1>1. ASSUME NEW u PROVE Cardinality(PendingOf(u)) <= 1
    <2>1. \A p, q \in PendingOf(u) : p = q
      BY DEF ModerationInv, ReportsOK, PendingOf
    <2>2. CASE PendingOf(u) = {}
      BY <2>2, FS_EmptySet
    <2>3. CASE PendingOf(u) # {}
      <3>1. PICK p : PendingOf(u) = {p}
        BY <2>1, <2>3
      <3> QED BY <3>1, FS_Singleton
    <2> QED BY <2>2, <2>3
  <1> QED BY <1>1 DEF ModerationInv, ReportsOK, OneOpenReport

LEMMA HistoryAndListing == ModerationInv => SuspendedIsHidden /\ HistoryIsLinear
  BY DEF ModerationInv, ListingOK, EventsOK

\* Who waits for the listing has no user that another decision waits for.
LEMMA NobodyWaits == ModerationInv => NoMutualWait
  <1> SUFFICES ASSUME ModerationInv, NEW s \in Sessions, NEW t \in Sessions, s # t,
                      Waits(s, t), Waits(t, s)
               PROVE  FALSE
    BY DEF NoMutualWait
  <1>1. /\ work[s].op = "act" => (work[s].locked => work[s].keys)
        /\ work[t].op = "act" => (work[t].locked => work[t].keys)
    BY OpsDiffer DEF Deciding
  <1>2. Apart(work[s], work[t]) /\ Apart(work[t], work[s])
    BY DEF ModerationInv, WorkOK
  <1> QED
    BY <1>1, <1>2 DEF Waits, HoldsUser, HoldsListing, Apart, OwnUser, HeldKeys, OnListing

\* Only an edit publishes.
LEMMA OnlyEditsPublish == ASSUME ModerationInv, Next PROVE OwnersPublish
  <1> SUFFICES ASSUME ~listing.published, listing'.published
               PROVE  \E s \in Sessions : work[s].op = "edit"
    BY DEF OwnersPublish
  <1>1. \A s \in Sessions : ~ActCommit(s)
    BY DecisionMade
  <1> QED
    BY <1>1 DEF Next, ReportCommit, ReportRefuse, LockKeys, LockListing, ActRefuse,
       EditCommit, ReportLock, ActRead, EditLock

LEMMA OneIsHeard == DecidesOnSight
  BY DEF DecidesOnSight, ActCommit, Decidable
=============================================================================
