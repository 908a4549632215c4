------------------------------ MODULE MCWorkers ------------------------------
(* A small instance of BackgroundJobs for TLC.                               *)
EXTENDS BackgroundJobs, TLC

CONSTANTS feed, w1, w2, h1, e1, e2, owner, q1, l1, l2, s1, s2, caller, address,
  account

\* A calendar that is emptied.
EmptyOrADay == {{}, {[from |-> 0, to |-> 1]}}

\* Two intervals of the day that meet.
MeetingHours == {1..2, 2..3}

OneAddress == caller :> address
OneAccount == caller :> account
=============================================================================
