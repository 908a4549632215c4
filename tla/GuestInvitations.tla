-------------------------- MODULE GuestInvitations --------------------------
(***************************************************************************)
(* Invitations of guests to a reservation.  A guest's answer is one         *)
(* conditional UPDATE after an unlocked look; the owner revokes from an      *)
(* unlocked copy.                                                           *)
(***************************************************************************)
CONSTANTS
  Guests,         \* the invited addresses: one invitation each (unique)
  Sessions        \* requests served at a time

VARIABLES
  invitation,     \* status, and whether the time to answer is over
  live,           \* the reservation is pending or confirmed
  work            \* what each session is doing

vars == <<invitation, live, work>>

Idle == [op |-> "idle"]
Answers == {"accepted", "declined"}

Init ==
  /\ invitation = [g \in Guests |-> [status |-> "none", late |-> FALSE]]
  /\ live = TRUE
  /\ work = [s \in Sessions |-> Idle]

Finish(s) == work' = [work EXCEPT ![s] = Idle]

End == live /\ live' = FALSE /\ UNCHANGED <<invitation, work>>

InviteRead(s, g) ==
  /\ work[s] = Idle /\ live
  /\ work' = [work EXCEPT ![s] = [op |-> "invite", guest |-> g]]
  /\ UNCHANGED <<invitation, live>>

\* uq_guest_invitation_reservation_email refuses a second invitation.
InviteCommit(s) ==
  LET g == work[s].guest IN
  /\ work[s].op = "invite"
  /\ invitation' = IF invitation[g].status # "none" THEN invitation
                   ELSE [invitation EXCEPT ![g].status = "pending"]
  /\ Finish(s)
  /\ UNCHANGED live

TimeOver(g) ==
  /\ invitation[g].status = "pending" /\ ~invitation[g].late
  /\ invitation' = [invitation EXCEPT ![g].late = TRUE]
  /\ UNCHANGED <<live, work>>

Open(g) == invitation[g].status = "pending" /\ ~invitation[g].late

RespondRead(s, g, answer) ==
  /\ work[s] = Idle /\ Open(g)
  /\ work' = [work EXCEPT ![s] = [op |-> "respond", guest |-> g, answer |-> answer]]
  /\ UNCHANGED <<invitation, live>>

StillOpen(g) == Open(g)

RespondCommit(s) ==
  LET g == work[s].guest IN
  /\ work[s].op = "respond"
  /\ invitation' = IF ~StillOpen(g) THEN invitation
                   ELSE [invitation EXCEPT ![g].status = work[s].answer]
  /\ Finish(s)
  /\ UNCHANGED live

RevokeRead(s, g) ==
  /\ work[s] = Idle /\ invitation[g].status = "pending"
  /\ work' = [work EXCEPT ![s] = [op |-> "revoke", guest |-> g]]
  /\ UNCHANGED <<invitation, live>>

RevokeCommit(s) ==
  /\ work[s].op = "revoke"
  /\ invitation' = [invitation EXCEPT ![work[s].guest].status = "revoked"]
  /\ Finish(s)
  /\ UNCHANGED live

Next ==
  \/ End
  \/ \E g \in Guests : TimeOver(g)
  \/ \E s \in Sessions :
       \/ InviteCommit(s) \/ RespondCommit(s) \/ RevokeCommit(s)
       \/ \E g \in Guests :
            \/ InviteRead(s, g) \/ RevokeRead(s, g)
            \/ \E answer \in Answers : RespondRead(s, g, answer)

Spec == Init /\ [][Next]_vars

-----------------------------------------------------------------------------
(* Properties. *)

\* Of several answers the first counts: nothing but a revocation replaces it,
\* and a revoked or overdue invitation is never answered.
AnswersOpenOnly ==
  \A g \in Guests :
    invitation'[g].status \in Answers /\ invitation'[g] # invitation[g] => Open(g)
FirstAnswerCounts == [][AnswersOpenOnly]_vars
=============================================================================
