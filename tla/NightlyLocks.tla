---------------------------- MODULE NightlyLocks ----------------------------
(***************************************************************************)
(* The waits-for graph of the nightly requests.  PostgreSQL notices a cycle *)
(* of sessions waiting for each other and aborts one of them; the source    *)
(* fixes an order for the locks so that this should not come to pass.       *)
(***************************************************************************)
EXTENDS NightlyStays

\* The user keys an insert shares through its foreign keys: both recipients of
\* the notifications, the creator of a block.
KeysShared(s) ==
  CASE pc[s] = "book_insert" -> {job[s].user, Owner[job[s].venue]}
    [] pc[s] \in {"cancel_commit", "change_commit"} -> Recipients(job[s].stay)
    [] pc[s] = "block_insert" -> {job[s].user}
    [] OTHER -> {}

\* Session s cannot go on before session t releases a row lock.
WaitsFor(s, t) ==
  /\ s # t
  /\ \/ held[t].user \in KeysShared(s)
     \/ /\ pc[s] \in {"book_listing", "change_listing"}
        /\ held[t].listing = job[s].listing
     \/ /\ \/ pc[s] \in {"book_venue", "block_venue", "change_venue", "edit_venue"}
           \/ /\ pc[s] = "edit_commit"
              /\ \/ listing[job[s].listing] = None
                 \/ listing[job[s].listing].venue # job[s].venue
        /\ held[t].venue = job[s].venue
     \/ pc[s] = "change_stay" /\ held[t].stay = job[s].stay

\* A session that no commit will ever let go on: it is one of a set of sessions
\* each of which waits for another of the set.
Deadlocked(s) ==
  \E C \in SUBSET Sessions :
    s \in C /\ \A t \in C : \E u \in C : WaitsFor(t, u)

-----------------------------------------------------------------------------
\* Administrators close dates and edit listings in apartments of others, and
\* what they insert then shares a key of their own account.
AdminAtWork ==
  \E s \in Sessions : job[s].op \in {"block", "edit"} /\ job[s].user \in Admins

\* A date change never waits for a deadlock, whatever guests and owners ask for
\* meanwhile: it holds the keys of both recipients before it asks for the
\* inventory, so nothing that holds one of its inventory rows can be waiting
\* for it (the comment at stay_date_change_service.py:28).
ChangesNeverDeadlock ==
  ~AdminAtWork =>
    \A s \in Sessions : job[s].op \in {"propose"} \cup Deciding => ~Deadlocked(s)

\* The lock order rules out every deadlock between nightly requests.
NoDeadlock == \A s \in Sessions : ~Deadlocked(s)
=============================================================================
