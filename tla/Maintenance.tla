---------------------------- MODULE Maintenance ----------------------------
(***************************************************************************)
(* A maintenance work order, its status, its assignee and its log.  Every   *)
(* request checks the copy it read without a lock and writes the columns    *)
(* in which the copy differs from what it sets, with a line of the log in   *)
(* the same commit.                                                         *)
(***************************************************************************)
EXTENDS Integers, Sequences, FiniteSets

CONSTANTS
  Staff,          \* members of the venue's team
  Sessions,       \* requests served at a time
  MaxLog,         \* bound on the log
  None

VARIABLES
  order,          \* the work order
  team,           \* staff with a role that has not been revoked
  log,            \* its activity, oldest first
  work            \* what each session is doing

vars == <<order, team, log, work>>

TRANSITIONS ==
  [open        |-> {"in_progress", "on_hold", "cancelled"},
   in_progress |-> {"on_hold", "resolved", "cancelled"},
   on_hold     |-> {"in_progress", "cancelled"},
   resolved    |-> {"open"},
   cancelled   |-> {"open"}]
Statuses == DOMAIN TRANSITIONS

Idle == [op |-> "idle"]

Init ==
  /\ order = [status |-> "open", assignee |-> None, resolved |-> FALSE]
  /\ team = Staff
  /\ log = <<>>
  /\ work = [s \in Sessions |-> Idle]

Start(s, what) == work[s] = Idle /\ work' = [work EXCEPT ![s] = what]
Finish(s) == work' = [work EXCEPT ![s] = Idle]
Log(line) == Len(log) < MaxLog /\ log' = Append(log, line)

\* A column keeps the row's value unless the copy's changes.
Column(row, copy, new) == IF copy = new THEN row ELSE new

TransitionRead(s, status) ==
  /\ status # order.status /\ status \in TRANSITIONS[order.status]
  /\ Start(s, [op |-> "transition", copy |-> order, status |-> status])
  /\ UNCHANGED <<order, team, log>>

TransitionCommit(s) ==
  LET w == work[s] IN
  /\ w.op = "transition"
  /\ order' = [order EXCEPT
       !.status = w.status,
       !.resolved = Column(@, w.copy.resolved, w.status = "resolved")]
  /\ Log([kind |-> "status", from |-> w.copy.status, to |-> w.status])
  /\ Finish(s) /\ UNCHANGED team

AssignRead(s, who) ==
  /\ who \in team \cup {None}
  /\ Start(s, [op |-> "assign", copy |-> order, who |-> who])
  /\ UNCHANGED <<order, team, log>>

AssignCommit(s) ==
  LET w == work[s] IN
  /\ w.op = "assign"
  /\ order' = [order EXCEPT !.assignee = Column(@, w.copy.assignee, w.who)]
  /\ Log([kind |-> "assigned", from |-> w.copy.assignee, to |-> w.who])
  /\ Finish(s) /\ UNCHANGED team

\* The owner takes somebody off the venue's team.
Revoke(who) ==
  /\ who \in team /\ team' = team \ {who}
  /\ UNCHANGED <<order, log, work>>

Next ==
  \/ \E who \in Staff : Revoke(who)
  \/ \E s \in Sessions :
       \/ \E status \in Statuses : TransitionRead(s, status)
       \/ \E who \in Staff \cup {None} : AssignRead(s, who)
       \/ TransitionCommit(s) \/ AssignCommit(s)

Spec == Init /\ [][Next]_vars

-----------------------------------------------------------------------------
(* Properties. *)

\* Whatever interleaves, the last change of status in the log is the status
\* that the order has, although requests check copies they read before.
LogTellsStatus ==
  LET changes == {n \in DOMAIN log : log[n].kind = "status"}
  IN changes # {} =>
       log[CHOOSE n \in changes : \A m \in changes : m <= n].to = order.status
=============================================================================
