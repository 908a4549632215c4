--------------------------- MODULE ListingPhotos ---------------------------
(***************************************************************************)
(* The photos of one listing: rows in the database and objects in the       *)
(* store.  An upload holds the listing's row while it writes the image and  *)
(* its thumbnail and then the row of the photo; a deletion commits before   *)
(* it removes the objects.  The store may fail at any call, and a request   *)
(* may die between two steps.                                               *)
(***************************************************************************)
EXTENDS Integers, FiniteSets, FiniteSetsExt

CONSTANTS
  Keys,           \* names of stored images (bound on the uploads)
  Requests,       \* request identifiers of the clients
  Images,         \* what is uploaded
  Sessions,       \* requests served at a time
  MaxPhotos,
  MaxFaults,      \* bound on the failures of the store
  None

VARIABLES
  photos,         \* rows of the listing's photos
  stored,         \* objects of the store: <<key, part>>
  used,           \* keys that were drawn
  work,           \* what each session is doing
  faults          \* failures so far

vars == <<photos, stored, used, work, faults>>

Parts == {"full", "thumb"}
Objects(key) == {key} \X Parts
Idle == [op |-> "idle"]

Init ==
  /\ photos = {} /\ stored = {} /\ used = {} /\ faults = 0
  /\ work = [s \in Sessions |-> Idle]

Start(s, what) == work[s] = Idle /\ work' = [work EXCEPT ![s] = what]
Finish(s) == work' = [work EXCEPT ![s] = Idle]
Continue(s, step) == work' = [work EXCEPT ![s].step = step]
Fault == faults < MaxFaults /\ faults' = faults + 1

\* A session keeps the listing's row until it commits or gives up.
ListingFree == \A s \in Sessions : work[s].op # "upload"

-----------------------------------------------------------------------------
(* Uploading. *)

\* A repeated request is answered with its photo and changes nothing.
Allowed(r) ==
  /\ \A p \in photos : p.request # r
  /\ Cardinality(photos) < MaxPhotos

\* New photos go behind all others; position 0 is the cover.
LastPosition == Max({p.position : p \in photos} \cup {-1})

UploadStart(s, r, image) ==
  /\ ListingFree /\ Allowed(r)
  /\ \E key \in Keys \ used :
       /\ used' = used \cup {key}
       /\ Start(s, [op |-> "upload", step |-> "full",
                    row |-> [key |-> key, request |-> r, image |-> image,
                             position |-> LastPosition + 1]])
  /\ UNCHANGED <<photos, stored, faults>>

Put(s) ==
  /\ work[s].op = "upload" /\ work[s].step \in Parts
  /\ stored' = stored \cup {<<work[s].row.key, work[s].step>>}
  /\ Continue(s, IF work[s].step = "full" THEN "thumb" ELSE "insert")
  /\ UNCHANGED <<photos, used, faults>>

PutFails(s) ==
  /\ work[s].op = "upload" /\ work[s].step \in Parts
  /\ Fault /\ Continue(s, "cleanup")
  /\ UNCHANGED <<photos, stored, used>>

Insert(s) ==
  /\ work[s].op = "upload" /\ work[s].step = "insert"
  /\ photos' = photos \cup {work[s].row}
  /\ Finish(s) /\ UNCHANGED <<stored, used, faults>>

\* A commit that fails; that the row is not there is taken for granted.
InsertFails(s) ==
  /\ work[s].op = "upload" /\ work[s].step = "insert"
  /\ Fault /\ work' = [work EXCEPT ![s].op = "undo", ![s].step = "cleanup"]
  /\ UNCHANGED <<photos, stored, used>>

-----------------------------------------------------------------------------
(* Reordering and deleting. *)

Orders(rows) ==
  {f \in [rows -> 0..(Cardinality(rows) - 1)] :
     \A p, q \in rows : f[p] = f[q] => p = q}

\* The client names every photo of the listing once.
Reorder ==
  /\ ListingFree
  /\ \E f \in Orders(photos) :
       photos' = {[p EXCEPT !.position = f[p]] : p \in photos}
  /\ UNCHANGED <<stored, used, work, faults>>

Removed(s, p) ==
  /\ photos' = photos \ {p} /\ stored' = stored
  /\ Start(s, [op |-> "delete", step |-> "cleanup", row |-> p])

Delete(s, p) ==
  /\ p \in photos /\ ListingFree /\ Removed(s, p)
  /\ UNCHANGED <<used, faults>>

\* Objects that the store keeps after a failure stay there for ever.
Cleanup(s) ==
  /\ work[s] # Idle /\ work[s].step = "cleanup"
  /\ \/ stored' = stored \ Objects(work[s].row.key) /\ faults' = faults
     \/ Fault /\ stored' \in {stored, stored \ {<<work[s].row.key, "full">>}}
  /\ Finish(s) /\ UNCHANGED <<photos, used>>

Crash(s) == work[s] # Idle /\ Fault /\ Finish(s) /\ UNCHANGED <<photos, stored, used>>

Next ==
  \/ Reorder
  \/ \E s \in Sessions :
       \/ \E r \in Requests, image \in Images : UploadStart(s, r, image)
       \/ Put(s) \/ PutFails(s) \/ Insert(s) \/ InsertFails(s)
       \/ \E p \in photos : Delete(s, p)
       \/ Cleanup(s) \/ Crash(s)

Spec == Init /\ [][Next]_vars

-----------------------------------------------------------------------------
(* Properties. *)

\* Whatever fails, every photo that a listing shows is in the store with its
\* thumbnail; only objects without a row may be left over.
PhotosStored == \A p \in photos : Objects(p.key) \subseteq stored

\* The album keeps its size and its order, and a request is one photo.
AlbumInOrder ==
  /\ Cardinality(photos) <= MaxPhotos
  /\ \A p, q \in photos :
       p.position = q.position \/ p.request = q.request => p = q
=============================================================================
