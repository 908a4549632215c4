------------------------------ MODULE Waivers ------------------------------
(***************************************************************************)
(* The waiver of a venue, the versions its owner publishes, and the         *)
(* signatures of one guest for one reservation.  Nothing is locked: a       *)
(* request works with the copy of the template it read, writes the columns  *)
(* it changed, and relies on the unique index over the version numbers.     *)
(***************************************************************************)
EXTENDS Integers, FiniteSets

CONSTANTS
  Texts,          \* wordings of the waiver
  Sessions,       \* requests served at a time
  MaxVersion,     \* bound on the versions
  None

VARIABLES
  template,       \* the row of the waiver
  versions,       \* published versions
  signed,         \* signatures, by version number
  shown,          \* the version the guest was last asked to sign
  work            \* what each session is doing

vars == <<template, versions, signed, shown, work>>

Idle == [op |-> "idle"]
Version(n, text) == [number |-> n, text |-> text]
Signature(v) == [number |-> v.number, text |-> v.text]

\* Both rows are created in one commit.
Init ==
  /\ template = [active |-> TRUE, current |-> 1]
  /\ \E text \in Texts : versions = {Version(1, text)}
  /\ signed = {} /\ shown = None
  /\ work = [s \in Sessions |-> Idle]

Start(s, what) == work[s] = Idle /\ work' = [work EXCEPT ![s] = what]
Finish(s) == work' = [work EXCEPT ![s] = Idle]

-----------------------------------------------------------------------------
(* The owner. *)

CurrentVersion(copy) == CHOOSE v \in versions : v.number = copy.current

PublishRead(s, text) ==
  /\ template.active /\ template.current < MaxVersion
  /\ CurrentVersion(template).text # text
  /\ Start(s, [op |-> "publish", copy |-> template, text |-> text])
  /\ UNCHANGED <<template, versions, signed, shown>>

NextNumber(copy) == copy.current + 1

NumberFree(n) == \A v \in versions : v.number # n

PublishCommit(s) ==
  /\ work[s].op = "publish"
  /\ LET n == NextNumber(work[s].copy) IN
     /\ n <= MaxVersion /\ NumberFree(n)
     /\ versions' = versions \cup {Version(n, work[s].text)}
     /\ template' = [template EXCEPT !.current = n]
  /\ Finish(s) /\ UNCHANGED <<signed, shown>>

\* The index refuses the number: nothing of the request is kept.
PublishFail(s) ==
  /\ work[s].op = "publish" /\ ~NumberFree(NextNumber(work[s].copy))
  /\ Finish(s) /\ UNCHANGED <<template, versions, signed, shown>>

ArchiveRead(s) ==
  /\ template.active /\ Start(s, [op |-> "archive"])
  /\ UNCHANGED <<template, versions, signed, shown>>
ArchiveCommit(s) ==
  /\ work[s].op = "archive" /\ template' = [template EXCEPT !.active = FALSE]
  /\ Finish(s) /\ UNCHANGED <<versions, signed, shown>>

-----------------------------------------------------------------------------
(* The guest. *)

Requirements ==
  /\ template.active /\ shown' = CurrentVersion(template)
  /\ UNCHANGED <<template, versions, signed, work>>

\* A newer version has to be read and signed instead.
Newest(v) == v.number = template.current

AcceptRead(s) ==
  /\ shown # None /\ template.active /\ Newest(shown)
  /\ Start(s, [op |-> "accept", version |-> shown])
  /\ UNCHANGED <<template, versions, signed, shown>>

\* A repeated signature is answered with the first one.
AcceptCommit(s) ==
  /\ work[s].op = "accept"
  /\ signed' = signed \cup {Signature(work[s].version)}
  /\ Finish(s) /\ UNCHANGED <<template, versions, shown>>

Next ==
  \/ Requirements
  \/ \E s \in Sessions :
       \/ \E text \in Texts : PublishRead(s, text)
       \/ PublishCommit(s) \/ PublishFail(s)
       \/ ArchiveRead(s) \/ ArchiveCommit(s)
       \/ AcceptRead(s) \/ AcceptCommit(s)

Spec == Init /\ [][Next]_vars

-----------------------------------------------------------------------------
(* Properties. *)

\* However the requests of two publishers interleave, a version says something
\* else than the version before it, and the waiver's current version exists.
VersionsDiffer ==
  /\ \A v, w \in versions : w.number = v.number + 1 => v.text # w.text
  /\ \E v \in versions : v.number = template.current
=============================================================================
