---------------------------- MODULE EmailDigest ----------------------------
(***************************************************************************)
(* The opt-in email digest of one account: a worker claims the due          *)
(* preference under a lease, mails how many notifications are new, and      *)
(* records them as accepted if the lease is still its own.  The preference  *)
(* is changed and retried by the user while a mail is on its way.           *)
(***************************************************************************)
EXTENDS Integers, FiniteSets, FiniteSetsExt

CONSTANTS
  Workers,
  Batch,          \* notifications counted in one mail
  MaxAttempts,    \* failures after which the digest is switched off
  MaxNotes,       \* bound on the notifications
  MaxChanges,     \* bound on what the user changes
  MaxFaults       \* bound on the workers that die or are too slow

VARIABLES
  notes,          \* notifications of the account are numbered 1..notes
  verified,       \* the address is verified
  pref,           \* the preference's row
  items,          \* notifications recorded as accepted
  job,            \* what each worker is doing
  optedIn,        \* history: the last notification before the digest was enabled
  budget          \* how many changes and faults there were

vars == <<notes, verified, pref, items, job, optedIn, budget>>

NoLease == "nobody"
Idle == [step |-> "idle", ids |-> {}, ok |-> FALSE]

Init ==
  /\ notes = 0 /\ verified \in BOOLEAN
  /\ pref = [enabled |-> FALSE, cursor |-> 0, attempts |-> 0, due |-> FALSE,
             lease |-> NoLease, live |-> FALSE, status |-> "none"]
  /\ items = {}
  /\ job = [w \in Workers |-> Idle]
  /\ optedIn = 0
  /\ budget = [changes |-> 0, faults |-> 0]

Notify ==
  /\ notes < MaxNotes /\ notes' = notes + 1
  /\ UNCHANGED <<verified, pref, items, job, optedIn, budget>>

Verify ==
  /\ ~verified /\ verified' = TRUE
  /\ UNCHANGED <<notes, pref, items, job, optedIn, budget>>

-----------------------------------------------------------------------------
(* What the user does; each handler holds the locks of account and row. *)

Change ==
  /\ budget.changes < MaxChanges
  /\ budget' = [budget EXCEPT !.changes = @ + 1]
  /\ UNCHANGED <<notes, verified, items, job>>

Released(row) == [row EXCEPT !.lease = NoLease, !.live = FALSE]

\* Enabling begins after the newest notification; a repetition changes nothing.
Enable ==
  /\ Change /\ verified /\ ~pref.enabled
  /\ pref' = [Released(pref) EXCEPT !.enabled = TRUE, !.cursor = notes,
                !.due = FALSE, !.attempts = 0, !.status = "pending"]
  /\ optedIn' = notes

Disable ==
  /\ Change /\ pref.enabled
  /\ pref' = [Released(pref) EXCEPT !.enabled = FALSE]
  /\ UNCHANGED optedIn

\* Another frequency moves the next run.
ChangeInterval ==
  /\ Change /\ pref.status # "none" /\ pref' = [pref EXCEPT !.due = FALSE]
  /\ UNCHANGED optedIn

Retried(row) ==
  [Released(row) EXCEPT !.enabled = TRUE, !.attempts = 0, !.status = "pending", !.due = TRUE]

RetryFailed ==
  /\ Change /\ verified /\ pref.status = "failed" /\ ~pref.live
  /\ pref' = Retried(pref)
  /\ UNCHANGED optedIn

-----------------------------------------------------------------------------
(* The workers. *)

Unsent == {n \in 1..notes : n > pref.cursor} \ items

\* Defect: a lease whose worker died counts for ever.
NeverLeased == pref.enabled /\ pref.due /\ pref.lease = NoLease

Claimable == pref.enabled /\ pref.due /\ ~pref.live

\* Without anything new only the next run is moved.
ClaimNothing ==
  /\ Claimable /\ Unsent = {}
  /\ pref' = [pref EXCEPT !.due = FALSE]
  /\ UNCHANGED <<notes, verified, items, job, optedIn, budget>>

Claim(w) ==
  /\ job[w] = Idle /\ Claimable /\ Unsent # {}
  /\ pref' = [pref EXCEPT !.due = FALSE, !.lease = w, !.live = TRUE]
  /\ job' = [job EXCEPT ![w] =
       [step |-> "claimed", ok |-> FALSE,
        ids |-> {n \in Unsent : Cardinality({m \in Unsent : m < n}) < Batch}]]
  /\ UNCHANGED <<notes, verified, items, optedIn, budget>>

Own(w) == pref.lease = w

\* Consent and lease are checked again, without a lock, before the mail.
Send(w, ok) ==
  /\ job[w].step = "claimed" /\ pref.enabled /\ Own(w) /\ pref.live /\ verified
  /\ job' = [job EXCEPT ![w].step = "sent", ![w].ok = ok]
  /\ UNCHANGED <<notes, verified, pref, items, optedIn, budget>>

\* Before or after the mail, a lease that is gone discards the result.
Discard(w) ==
  /\ \/ job[w].step = "claimed" /\ ~(pref.enabled /\ Own(w) /\ pref.live /\ verified)
     \/ job[w].step = "sent" /\ ~Own(w)
  /\ job' = [job EXCEPT ![w] = Idle]
  /\ UNCHANGED <<notes, verified, pref, items, optedIn, budget>>

\* Defect: the lease is not compared when the result is recorded.
Anyones(w) == TRUE

Mine(w) == Own(w)

Accept(w) ==
  /\ job[w].step = "sent" /\ job[w].ok /\ Mine(w)
  /\ items' = items \cup job[w].ids
  /\ pref' = [Released(pref) EXCEPT !.attempts = 0, !.status = "accepted"]
  /\ job' = [job EXCEPT ![w] = Idle]
  /\ UNCHANGED <<notes, verified, optedIn, budget>>

Fail(w) ==
  /\ job[w].step = "sent" /\ ~job[w].ok /\ Mine(w)
  /\ pref' = [Released(pref) EXCEPT !.attempts = @ + 1, !.status = "failed",
                !.due = FALSE, !.enabled = @ /\ pref.attempts + 1 < MaxAttempts]
  /\ job' = [job EXCEPT ![w] = Idle]
  /\ UNCHANGED <<notes, verified, items, optedIn, budget>>

Crash(w) ==
  /\ job[w] # Idle /\ budget.faults < MaxFaults
  /\ budget' = [budget EXCEPT !.faults = @ + 1]
  /\ job' = [job EXCEPT ![w] = Idle]
  /\ UNCHANGED <<notes, verified, pref, items, optedIn>>

\* Ten minutes pass, which is long for a worker that is alive.
LeaseEnds ==
  /\ pref.live /\ pref' = [pref EXCEPT !.live = FALSE]
  /\ LET slow == job[pref.lease] # Idle IN
     /\ slow => budget.faults < MaxFaults
     /\ budget' = IF slow THEN [budget EXCEPT !.faults = @ + 1] ELSE budget
  /\ UNCHANGED <<notes, verified, items, job, optedIn>>

\* The time of the next run comes.
BecomeDue ==
  /\ pref.enabled /\ ~pref.due /\ pref' = [pref EXCEPT !.due = TRUE]
  /\ UNCHANGED <<notes, verified, items, job, optedIn, budget>>

Work(w) == Claim(w) \/ Discard(w) \/ Accept(w) \/ Fail(w) \/ \E ok \in BOOLEAN : Send(w, ok)

Next ==
  \/ Notify \/ Verify \/ Enable \/ Disable \/ ChangeInterval \/ RetryFailed
  \/ ClaimNothing \/ LeaseEnds \/ BecomeDue
  \/ \E w \in Workers : Work(w) \/ Crash(w)

\* Beat starts the job every five minutes; time passes; SMTP calls return.
Fairness ==
  /\ \A w \in Workers : WF_vars(Work(w))
  /\ WF_vars(ClaimNothing) /\ WF_vars(LeaseEnds) /\ WF_vars(BecomeDue)

Spec == Init /\ [][Next]_vars
LiveSpec == Spec /\ Fairness

-----------------------------------------------------------------------------
(* Properties. *)

\* A worker that lost its lease never records a notification a second time:
\* the insert under (user_id, notification_id) cannot collide (line 250).
AcceptsNew == \A w \in Workers : Accept(w) => job[w].ids \cap items = {}
ItemsNeverCollide == [][AcceptsNew]_vars

\* A mail never counts what was there before the user last opted in, although
\* its batch was chosen at another time than it is sent.
SinceOptIn ==
  \A w \in Workers, ok \in BOOLEAN :
    Send(w, ok) => \A n \in job[w].ids : n > optedIn
NothingFromBeforeOptIn == [][SinceOptIn]_vars

\* A digest that is switched on has attempts left, whoever failed and retried.
EnabledHasAttempts == pref.enabled => pref.attempts < MaxAttempts

\* New notifications are accepted for mails to the last, or the digest is switched
\* off: neither a crash nor a lost lease leaves one behind.
Behind == pref.enabled /\ (optedIn + 1)..notes \ items # {}
NotesAreMailed == Behind ~> ~Behind
=============================================================================
