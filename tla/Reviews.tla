------------------------------ MODULE Reviews -------------------------------
(***************************************************************************)
(* Reviews of an hourly resource, the reports about them and what           *)
(* moderators decide.  No handler locks a row: each reads copies, and       *)
(* hiding a reported review takes two commits.                              *)
(***************************************************************************)
EXTENDS Integers, FiniteSets

CONSTANTS
  Reporters,      \* each reports a review once (unique)
  Moderators,     \* requests of administrators served at a time
  Writers,        \* requests of the author and of the owner served at a time
  MaxReviews      \* bound on the reviews the author writes one after the other

VARIABLES
  review,         \* the author's review: its identifier (0 for none), status
  report,         \* each reporter's report about it
  rated,          \* the reviews that were written
  desk,           \* what each moderator's request has read
  work            \* what each writer's request has read

vars == <<review, report, rated, desk, work>>

Idle == [op |-> "idle"]
NoReview == [id |-> 0, status |-> "none", answered |-> FALSE]
NoReport == [status |-> "none", of |-> 0]

Init ==
  /\ review = NoReview
  /\ report = [p \in Reporters |-> NoReport]
  /\ rated = 0
  /\ desk = [m \in Moderators |-> Idle]
  /\ work = [w \in Writers |-> Idle]

Writes(w, request) == work' = [work EXCEPT ![w] = request]
Decides(m, request) == desk' = [desk EXCEPT ![m] = request]

CreateRead(w) ==
  /\ work[w] = Idle /\ review.id = 0 /\ rated < MaxReviews
  /\ Writes(w, [op |-> "create"])
  /\ UNCHANGED <<review, report, rated, desk>>

\* uq_resource_review_user_resource refuses a second review of the author.
CreateCommit(w) ==
  /\ work[w].op = "create" /\ review.id = 0 /\ rated < MaxReviews
  /\ rated' = rated + 1
  /\ review' = [id |-> rated + 1, status |-> "visible", answered |-> FALSE]
  /\ Writes(w, Idle)
  /\ UNCHANGED <<report, desk>>

\* The reports go with the review (ON DELETE CASCADE).
Delete(w) ==
  /\ work[w] = Idle /\ review.id # 0
  /\ review' = NoReview
  /\ report' = [p \in Reporters |-> NoReport]
  /\ UNCHANGED <<rated, desk, work>>

\* The owner of the venue answers: no other column is written.
Respond(w) ==
  /\ work[w] = Idle /\ review.id # 0
  /\ review' = [review EXCEPT !.answered = TRUE]
  /\ UNCHANGED <<report, rated, desk, work>>

ReportRead(w, p) ==
  /\ work[w] = Idle /\ review.status = "visible" /\ report[p].status = "none"
  /\ Writes(w, [op |-> "report", by |-> p, of |-> review.id])
  /\ UNCHANGED <<review, report, rated, desk>>

\* Defect: the report names the review that the resource has by now.
AnyReview(id) == review.id # 0
\* The foreign key of the report.
ReviewThere(id) == review.id = id

\* The foreign key and uq_review_reports_review_reporter are checked again.
ReportCommit(w) ==
  LET p == work[w].by IN
  /\ work[w].op = "report" /\ ReviewThere(work[w].of) /\ report[p].status = "none"
  /\ report' = [report EXCEPT ![p] = [status |-> "pending", of |-> work[w].of]]
  /\ Writes(w, Idle)
  /\ UNCHANGED <<review, rated, desk>>

WriterEnds(w) ==
  /\ work[w] # Idle /\ Writes(w, Idle)
  /\ UNCHANGED <<review, report, rated, desk>>

-----------------------------------------------------------------------------
DecideRead(m, p, decision) ==
  /\ desk[m] = Idle /\ report[p].status = "pending"
  /\ Decides(m, [op |-> decision, by |-> p, of |-> report[p].of])
  /\ UNCHANGED <<review, report, rated, work>>

\* The review is hidden in a commit of its own.
HideReview(m) ==
  /\ desk[m].op = "hide" /\ review.id = desk[m].of
  /\ review' = [review EXCEPT !.status = "hidden"]
  /\ Decides(m, [desk[m] EXCEPT !.op = "resolve"])
  /\ UNCHANGED <<report, rated, work>>

\* The report is written by its key, whatever its status is by now.
DecideCommit(m) ==
  LET p == desk[m].by IN
  /\ desk[m].op \in {"resolve", "dismiss"} /\ report[p].of = desk[m].of
  /\ report' = [report EXCEPT ![p].status =
                  IF desk[m].op = "resolve" THEN "resolved" ELSE "dismissed"]
  /\ Decides(m, Idle)
  /\ UNCHANGED <<review, rated, work>>

\* A moderator may hide a review without a report, or show it again.
Moderate(m, status) ==
  /\ desk[m] = Idle /\ review.id # 0
  /\ review' = [review EXCEPT !.status = status]
  /\ UNCHANGED <<report, rated, desk, work>>

\* A row that has gone (StaleDataError), a lost connection or a crash.
ModeratorEnds(m) ==
  /\ desk[m] # Idle /\ Decides(m, Idle)
  /\ UNCHANGED <<review, report, rated, work>>

Next ==
  \/ \E w \in Writers :
       \/ CreateRead(w) \/ CreateCommit(w) \/ Delete(w) \/ Respond(w)
       \/ ReportCommit(w) \/ WriterEnds(w)
       \/ \E p \in Reporters : ReportRead(w, p)
  \/ \E m \in Moderators :
       \/ HideReview(m) \/ DecideCommit(m) \/ ModeratorEnds(m)
       \/ \E status \in {"visible", "hidden"} : Moderate(m, status)
       \/ \E p \in Reporters, d \in {"hide", "dismiss"} : DecideRead(m, p, d)

Spec == Init /\ [][Next]_vars

-----------------------------------------------------------------------------
(* Properties. *)

\* Every report is about the review that is there: neither a report nor a
\* decision that was under way while the author deleted his review and wrote
\* another one is put down to the new one (foreign keys, decide_report).
ReportsFollowReview ==
  \A p \in Reporters : report[p].status # "none" => report[p].of = review.id
=============================================================================
