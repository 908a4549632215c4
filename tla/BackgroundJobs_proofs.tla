----------------------- MODULE BackgroundJobs_proofs -----------------------
(***************************************************************************)
(* What the jobs of the beat count and what they drop, for any number of     *)
(* workers, rows, revisions, batches and faults: one invariant for each of   *)
(* the components whose workers may overtake each other.                     *)
(***************************************************************************)
EXTENDS BackgroundJobs, TLAPS

-----------------------------------------------------------------------------
(* Imported calendars. *)

Contents == {None, Sync!Failure} \cup {[ranges |-> f] : f \in Feeds}
Downloads ==
  [source : Sources \cup {None}, revision : Nat \cup {None}, content : Contents]

\* A worker's download is of a revision its source is at or has left behind, and
\* nothing has changed if the source still is at that revision.
DownloadOK(w, x, revision) ==
  revision \in Nat /\ source[x] \in Nat =>
    revision <= source[x] /\ (revision = source[x] => w \in current)

SyncInv ==
  /\ source \in [Sources -> Nat \cup {None}]
  /\ preview = [x \in Sources |-> None]
  /\ fetching \in [Workers -> Downloads]
  /\ \A w \in Workers :
       fetching[w].source \in Sources =>
         DownloadOK(w, fetching[w].source, fetching[w].revision)
  /\ \A w \in Workers : fetching[w] # Sync!NoJob => fetching[w].source \in Sources

LEMMA SyncStart == Sync!Init => SyncInv
  <1> SUFFICES ASSUME Sync!Init PROVE SyncInv
    OBVIOUS
  <1>1. Sync!NoJob \in Downloads /\ Sync!NoJob.source = None /\ Sync!NoJob.content = None
    BY DEF Downloads, Contents, Sync!NoJob
  <1>2. fetching = [w \in Workers |-> Sync!NoJob]
    BY DEF Sync!Init
  <1>3. fetching \in [Workers -> Downloads]
    BY <1>1, <1>2
  <1> QED
    BY <1>1, <1>2, <1>3, JobsAssumption DEF Sync!Init, SyncInv

LEMMA SyncStill ==
  ASSUME SyncInv, UNCHANGED <<source, preview, fetching, current>>
  PROVE  SyncInv'
  BY DEF SyncInv, DownloadOK

\* A source moves on or is removed: its workers are out of date.
LEMMA SyncTouch ==
  ASSUME SyncInv, NEW x \in Sources, NEW to,
         source' = [source EXCEPT ![x] = to],
         source[x] # None,
         to = source[x] + 1 \/ to = None,
         current' = {w \in current : fetching[w].source # x},
         UNCHANGED <<preview, fetching>>
  PROVE  SyncInv'
  <1>1. source[x] \in Nat /\ to \in Nat \cup {None}
    BY DEF SyncInv
  <1>2. source' \in [Sources -> Nat \cup {None}]
    BY <1>1 DEF SyncInv
  <1>3. source'[x] = to /\ \A y \in Sources \ {x} : source'[y] = source[y]
    BY DEF SyncInv
  <1>4. ASSUME NEW w \in Workers, fetching[w].source \in Sources
        PROVE  DownloadOK(w, fetching[w].source, fetching[w].revision)'
    <2>1. DownloadOK(w, fetching[w].source, fetching[w].revision)
      BY <1>4 DEF SyncInv
    <2>2. CASE fetching[w].source = x
      <3>1. to \in Nat => to = source[x] + 1
        BY JobsAssumption
      <3> QED BY <1>1, <1>3, <2>1, <2>2, <3>1 DEF DownloadOK
    <2>3. CASE fetching[w].source # x
      <3>1. w \in current => w \in current'
        BY <2>3
      <3> QED BY <1>3, <1>4, <2>1, <2>3, <3>1 DEF DownloadOK
    <2> QED BY <2>2, <2>3
  <1> QED BY <1>2, <1>4 DEF SyncInv

\* A worker begins, goes on or gives up; the sources stay as they are.
LEMMA SyncWork ==
  ASSUME SyncInv, NEW w \in Workers, NEW job,
         UNCHANGED <<source, preview>>,
         fetching' = [fetching EXCEPT ![w] = job], job \in Downloads,
         current \ {w} \subseteq current',
         job.source \in Sources => DownloadOK(w, job.source, job.revision)',
         job # Sync!NoJob => job.source \in Sources
  PROVE  SyncInv'
  <1>1. fetching' \in [Workers -> Downloads]
    BY DEF SyncInv
  <1>2. fetching'[w] = job /\ \A v \in Workers \ {w} : fetching'[v] = fetching[v]
    BY DEF SyncInv
  <1>3. ASSUME NEW v \in Workers, fetching'[v].source \in Sources
        PROVE  DownloadOK(v, fetching[v].source, fetching[v].revision)'
    <2>1. CASE v = w
      BY <1>2, <1>3, <2>1 DEF DownloadOK
    <2>2. CASE v # w
      <3>1. fetching'[v] = fetching[v]
        BY <1>2, <2>2
      <3>2. DownloadOK(v, fetching[v].source, fetching[v].revision)
        BY <1>3, <3>1 DEF SyncInv
      <3>3. v \in current => v \in current'
        BY <2>2
      <3> QED BY <3>1, <3>2, <3>3 DEF DownloadOK
    <2> QED BY <2>1, <2>2
  <1>4. \A v \in Workers :
         fetching'[v] # Sync!NoJob => fetching'[v].source \in Sources
    BY <1>2 DEF SyncInv
  <1> QED BY <1>1, <1>3, <1>4 DEF SyncInv

\* A worker that is done forgets its download.
LEMMA SyncDone ==
  ASSUME SyncInv, NEW w \in Workers, UNCHANGED <<source, preview>>,
         fetching' = [fetching EXCEPT ![w] = Sync!NoJob],
         current \ {w} \subseteq current'
  PROVE  SyncInv'
  <1>1. Sync!NoJob \in Downloads /\ Sync!NoJob.source = None /\ Sync!NoJob.content = None
    BY DEF Downloads, Contents, Sync!NoJob
  <1>2. Sync!NoJob.source \notin Sources
    BY <1>1, JobsAssumption
  <1> QED BY <1>1, <1>2, SyncWork

LEMMA SyncConfigure ==
  ASSUME SyncInv, NEW x \in Sources, Sync!Configure(x)
  PROVE  SyncInv'
  <1>1. CASE Sync!RemoveSource(x)
    <2>1. /\ source' = [source EXCEPT ![x] = None] /\ source[x] # None
          /\ current' = {w \in current : fetching[w].source # x}
          /\ UNCHANGED <<preview, fetching>>
      BY <1>1 DEF Sync!RemoveSource
    <2> QED BY <2>1, SyncTouch
  <1>2. CASE \/ \E empty \in BOOLEAN : Sync!Connect(x, empty)
             \/ Sync!Resume(x) \/ Sync!Refresh(x) \/ Sync!Pause(x) \/ Sync!Disconnect(x)
    <2>1. Sync!Touch(x) /\ UNCHANGED <<preview, fetching>>
      BY <1>2 DEF Sync!Connect, Sync!Resume, Sync!Refresh, Sync!Pause, Sync!Disconnect
    <2>2. /\ source' = [source EXCEPT ![x] = source[x] + 1] /\ source[x] # None
          /\ current' = {w \in current : fetching[w].source # x}
      BY <2>1 DEF Sync!Touch
    <2> QED BY <2>1, <2>2, SyncTouch
  <1> QED BY <1>1, <1>2 DEF Sync!Configure, ConfigureOnly

LEMMA SyncFinish ==
  ASSUME SyncInv, NEW w \in Workers, Sync!Finish(w)
  PROVE  SyncInv'
  <1>1. fetching' = [fetching EXCEPT ![w] = Sync!NoJob] /\ UNCHANGED preview
    BY DEF Sync!Finish, Sync!Discard, Sync!FinishInactive,
       Sync!FinishUnchanged, Sync!FinishApply, Sync!Done
  <1>2. CASE Sync!Discard(w) \/ Sync!FinishInactive(w) \/ Sync!FinishUnchanged(w)
    <2>1. UNCHANGED source /\ current' = current \ {w}
      BY <1>2 DEF Sync!Discard, Sync!FinishInactive, Sync!FinishUnchanged
    <2> QED BY <1>1, <2>1, SyncDone
  <1>3. CASE Sync!FinishApply(w)
    <2> DEFINE x == fetching[w].source
    <2>1. fetching[w].content # None /\ Sync!Touch(x)
      BY <1>3 DEF Sync!FinishApply
    <2>2. x \in Sources
      BY <2>1 DEF SyncInv, Sync!NoJob
    <2>3. /\ source' = [source EXCEPT ![x] = source[x] + 1] /\ source[x] # None
          /\ current' = {v \in current : fetching[v].source # x}
      BY <2>1 DEF Sync!Touch
    <2> HIDE DEF x
    <2>4. source[x] \in Nat
      BY <2>2, <2>3 DEF SyncInv
    <2>5. /\ source' \in [Sources -> Nat \cup {None}] /\ source'[x] = source[x] + 1
          /\ \A y \in Sources \ {x} : source'[y] = source[y]
      BY <2>2, <2>3, <2>4 DEF SyncInv
    <2>6. fetching' \in [Workers -> Downloads]
      BY <1>1 DEF SyncInv, Downloads, Contents, Sync!NoJob
    <2>7. fetching'[w] = Sync!NoJob /\ \A v \in Workers \ {w} : fetching'[v] = fetching[v]
      BY <1>1 DEF SyncInv
    <2>8. Sync!NoJob.source \notin Sources /\ Sync!NoJob.content = None
      BY JobsAssumption DEF Sync!NoJob
    <2>9. ASSUME NEW v \in Workers, fetching'[v].source \in Sources
          PROVE  DownloadOK(v, fetching[v].source, fetching[v].revision)'
      <3>1. v # w /\ fetching'[v] = fetching[v]
        BY <2>7, <2>8, <2>9
      <3>2. DownloadOK(v, fetching[v].source, fetching[v].revision)
        BY <2>9, <3>1 DEF SyncInv
      <3>3. CASE fetching[v].source = x
        BY <2>4, <2>5, <3>1, <3>2, <3>3 DEF DownloadOK
      <3>4. CASE fetching[v].source # x
        <4>1. v \in current => v \in current'
          BY <2>3, <3>4
        <4> QED BY <2>5, <2>9, <3>1, <3>2, <3>4, <4>1 DEF DownloadOK
      <3> QED BY <3>3, <3>4
    <2>10. \A v \in Workers :
             fetching'[v] # Sync!NoJob => fetching'[v].source \in Sources
      BY <2>7, <2>8 DEF SyncInv
    <2> QED BY <1>1, <2>5, <2>6, <2>9, <2>10 DEF SyncInv
  <1> QED BY <1>2, <1>3 DEF Sync!Finish

LEMMA SyncStep == ASSUME SyncInv, Sync!Next PROVE SyncInv'
  <1>1. ASSUME NEW x \in Sources,
               \/ Sync!RunDue(x) \/ Sync!LeaseRunsOut(x) \/ Sync!LeaseExpires(x)
               \/ \E w \in Workers : Sync!ClaimInactive(w, x)
        PROVE  SyncInv'
    <2>1. UNCHANGED <<source, preview, fetching, current>>
      BY <1>1 DEF Sync!RunDue, Sync!LeaseRunsOut, Sync!LeaseExpires, Sync!ClaimInactive
    <2> QED BY <2>1, SyncStill
  <1>2. ASSUME NEW x \in Sources, NEW w \in Workers, Sync!Claim(w, x)
        PROVE  SyncInv'
    <2>1. PICK job : job = [source |-> x, revision |-> source[x], content |-> None]
      OBVIOUS
    <2>2. /\ UNCHANGED <<source, preview>> /\ current' = current \cup {w}
          /\ fetching' = [fetching EXCEPT ![w] = job]
      BY <1>2, <2>1 DEF Sync!Claim
    <2>3. /\ job.source = x /\ job.revision = source[x] /\ job.content = None
          /\ job \in Downloads
      BY <2>1 DEF Downloads, Contents, SyncInv
    <2>4. DownloadOK(w, job.source, job.revision)'
      BY <2>2, <2>3 DEF DownloadOK
    <2>5. current \ {w} \subseteq current'
      BY <2>2
    <2> QED BY <2>2, <2>3, <2>4, <2>5, SyncWork
  <1>3. ASSUME NEW w \in Workers, Sync!Fetch(w) PROVE SyncInv'
    <2>1. PICK f \in {Sync!Failure} \cup {[ranges |-> g] : g \in Feeds} :
            fetching' = [fetching EXCEPT ![w].content = f]
      BY <1>3 DEF Sync!Fetch
    <2>2. PICK job : job = [fetching[w] EXCEPT !.content = f]
      OBVIOUS
    <2>3. /\ fetching[w] \in Downloads /\ f \in Contents
      BY <2>1 DEF SyncInv, Contents
    <2>4. /\ job \in Downloads /\ job.source = fetching[w].source
          /\ job.revision = fetching[w].revision
      BY <2>2, <2>3 DEF Downloads
    <2>5. /\ UNCHANGED <<source, preview, current>> /\ fetching[w] # Sync!NoJob
          /\ fetching[w].content = None
      BY <1>3 DEF Sync!Fetch
    <2>6. fetching' = [fetching EXCEPT ![w] = job]
      BY <2>1, <2>2
    <2>7. job.source \in Sources
      BY <2>4, <2>5 DEF SyncInv
    <2>8. DownloadOK(w, job.source, job.revision)
      BY <2>4, <2>7 DEF SyncInv
    <2>9. DownloadOK(w, job.source, job.revision)'
      BY <2>5, <2>8 DEF DownloadOK
    <2>10. current \ {w} \subseteq current'
      BY <2>5
    <2> QED BY <2>4, <2>5, <2>6, <2>7, <2>9, <2>10, SyncWork
  <1>4. ASSUME NEW w \in Workers, Sync!Crash(w) PROVE SyncInv'
    <2>1. /\ UNCHANGED <<source, preview>> /\ current' = current \ {w}
          /\ fetching' = [fetching EXCEPT ![w] = Sync!NoJob]
      BY <1>4 DEF Sync!Crash
    <2> QED BY <2>1, SyncDone
  <1>5. ASSUME Sync!ChangeOffer PROVE SyncInv'
    <2>1. UNCHANGED <<source, preview, fetching, current>>
      BY <1>5 DEF Sync!ChangeOffer
    <2> QED BY <2>1, SyncStill
  <1> QED
    BY <1>1, <1>2, <1>3, <1>4, <1>5, SyncConfigure, SyncFinish
    DEF Sync!Next, Sync!Book, ConfigureOnly

\* What a worker applies is current, and empties a source only where its owner
\* allows it; nothing is imported by hand.
LEMMA SyncDropsStale ==
  ASSUME SyncInv, Sync!Next \/ UNCHANGED syncVars
  PROVE  /\ Sync!AppliesCurrent /\ Sync!AutomationKeepsBlocks /\ Sync!AsPreviewed
  <1>1. ASSUME NEW x \in Sources, Sync!Confirm(x)
        PROVE  owned[x] \ owned'[x] \subseteq preview[x].removed
    BY <1>1 DEF Sync!Confirm, SyncInv
  <1>2. ASSUME NEW w \in Workers, Sync!FinishApply(w)
        PROVE  w \in current
    <2>1. /\ fetching[w].content # None /\ source[fetching[w].source] # None
          /\ source[fetching[w].source] = fetching[w].revision
      BY <1>2 DEF Sync!FinishApply, Sync!Superseded, Sync!Touch
    <2>2. fetching[w].source \in Sources
      BY <2>1 DEF SyncInv, Sync!NoJob
    <2>3. DownloadOK(w, fetching[w].source, fetching[w].revision)
      BY <2>2 DEF SyncInv
    <2>4. source[fetching[w].source] \in Nat
      BY <2>1, <2>2 DEF SyncInv
    <2> QED BY <2>1, <2>3, <2>4 DEF DownloadOK
  <1>3. ASSUME NEW x \in Sources, owned[x] # {}, owned'[x] = {}, ~conn[x].allowEmpty,
               NEW w \in Workers, fetching[w].source = x, fetching'[w] = Sync!NoJob
        PROVE  FALSE
    <2>1. fetching' # fetching /\ owned' # owned
      BY <1>3, JobsAssumption DEF Sync!NoJob
    <2>2. Sync!Next
      BY <2>1 DEF syncVars
    <2>3. PICK v \in Workers : Sync!FinishApply(v)
      BY <2>1, <2>2 DEF Sync!Next, Sync!Configure, ConfigureOnly, Sync!Connect,
         Sync!Resume, Sync!Refresh, Sync!Pause, Sync!Disconnect, Sync!RemoveSource,
         Sync!ChangeOffer, Sync!RunDue, Sync!LeaseRunsOut,
         Sync!LeaseExpires, Sync!Claim, Sync!ClaimInactive, Sync!Fetch,
         Sync!Finish, Sync!Discard, Sync!FinishInactive,
         Sync!FinishUnchanged, Sync!Crash, Sync!Book, Sync!calendar
    <2>4. /\ ~Sync!WouldEmpty(fetching[v].source, fetching[v].content.ranges)
          /\ owned' = [owned EXCEPT ![fetching[v].source] = fetching[v].content.ranges]
      BY <2>3 DEF Sync!FinishApply
    <2> QED BY <1>3, <2>4 DEF Sync!WouldEmpty, SyncInv
  <1> QED
    BY <1>1, <1>2, <1>3 DEF Sync!AsPreviewed, Sync!AppliesCurrent,
       Sync!AutomationKeepsBlocks

-----------------------------------------------------------------------------
(* Webhooks. *)

Rows ==
  [status : {"none", "pending", "retrying", "failed", "delivered"},
   attempts : Nat, due : BOOLEAN]

\* A delivery in the queue has attempts left, and a delivered one was answered.
RecordedOK(r, d, answered, retries) ==
  /\ r \in Rows
  /\ r.status = "delivered" => d \in answered
  /\ retries = 0 =>
       /\ r.attempts <= MaxAttempts
       /\ r.status \in Webhooks!Queued => r.attempts < MaxAttempts

\* So has the copy that a worker has still to send.
CopyOK(c, retries) ==
  /\ c \in Rows /\ c.status \in Webhooks!Queued
  /\ retries = 0 => c.attempts < MaxAttempts

RowsKept ==
  /\ DOMAIN row = Webhooks!Deliveries
  /\ \A d \in Webhooks!Deliveries : RecordedOK(row[d], d, received, crashes.retries)

CopiesKept ==
  /\ DOMAIN batch = Workers
  /\ \A w \in Workers : \A d \in DOMAIN batch[w] :
       d \in Webhooks!Deliveries /\ CopyOK(batch[w][d], crashes.retries)

SentKept ==
  /\ DOMAIN sent = Workers
  /\ \A w \in Workers :
       /\ sent[w] # Webhooks!NoDelivery => sent[w].id \in DOMAIN batch[w]
       /\ sent[w].ok => sent[w].id \in received

ConsentKept ==
  /\ DOMAIN hook = Hooks /\ DOMAIN known = Workers /\ DOMAIN consented = Workers
  /\ \A w \in Workers :
       /\ \A h \in Hooks : hook[h] = "on" => h \in consented[w]
       /\ \A h \in DOMAIN known[w] : known[w][h] = "on" => h \in consented[w]

DeskKept ==
  /\ crashes \in [retries : Nat, crashes : Nat] /\ DOMAIN desk = Managers
  /\ \A m \in Managers :
       /\ desk[m].op = "activate" => desk[m].hook \in Hooks
       /\ desk[m].op = "retry" => crashes.retries # 0

WebhooksInv == RowsKept /\ CopiesKept /\ SentKept /\ ConsentKept /\ DeskKept

LEMMA WebhooksStart == Webhooks!Init => WebhooksInv
  <1> SUFFICES ASSUME Webhooks!Init PROVE WebhooksInv
    OBVIOUS
  <1>1. RowsKept
    <2>1. Webhooks!NoRow \in Rows /\ Webhooks!NoRow.status = "none"
          /\ Webhooks!NoRow.attempts = 0
      BY DEF Webhooks!NoRow, Rows
    <2>2. row = [d \in Webhooks!Deliveries |-> Webhooks!NoRow]
      BY DEF Webhooks!Init
    <2> QED BY <2>1, <2>2, JobsAssumption DEF RowsKept, RecordedOK
  <1>2. CopiesKept
    <2>1. batch = [w \in Workers |-> <<>>] /\ DOMAIN <<>> = {}
      BY DEF Webhooks!Init
    <2> QED BY <2>1 DEF CopiesKept
  <1>3. SentKept
    BY DEF Webhooks!Init, SentKept, Webhooks!NoDelivery
  <1>4. ConsentKept
    <2>1. known = [w \in Workers |-> <<>>] /\ DOMAIN <<>> = {}
      BY DEF Webhooks!Init
    <2>2. hook = [h \in Hooks |-> "none"] /\ DOMAIN consented = Workers
      BY DEF Webhooks!Init
    <2> QED BY <2>1, <2>2 DEF ConsentKept
  <1>5. DeskKept
    BY DEF Webhooks!Init, DeskKept, Webhooks!Idle
  <1> QED BY <1>1, <1>2, <1>3, <1>4, <1>5 DEF WebhooksInv

LEMMA WebhooksStill == ASSUME WebhooksInv, UNCHANGED webhookVars PROVE WebhooksInv'
  BY DEF WebhooksInv, RowsKept, CopiesKept, SentKept, ConsentKept, DeskKept,
     webhookVars

\* What a worker writes over what is stored, from its copy.
Written(new, copy, stored) ==
  [status |-> Webhooks!Column(new.status, copy.status, stored.status),
   attempts |-> Webhooks!Column(new.attempts, copy.attempts, stored.attempts),
   due |-> IF new.status = "retrying" THEN FALSE ELSE stored.due]

LEMMA WrittenIsRecorded ==
  ASSUME NEW d, NEW answered, NEW retries, NEW copy, NEW stored, NEW new,
         CopyOK(copy, retries), RecordedOK(stored, d, answered, retries),
         \/ new = [copy EXCEPT !.status = "failed"]
         \/ new = Webhooks!Success(copy) /\ d \in answered
         \/ new = Webhooks!Failure(copy)
  PROVE  RecordedOK(Written(new, copy, stored), d, answered, retries)
  <1>1. /\ copy \in Rows /\ stored \in Rows /\ copy.attempts \in Nat
        /\ stored.attempts \in Nat /\ stored.due \in BOOLEAN
        /\ copy.status \in Webhooks!Queued
        /\ copy = [status |-> copy.status, attempts |-> copy.attempts, due |-> copy.due]
    BY DEF CopyOK, RecordedOK, Rows
  <1>2. CASE new = [copy EXCEPT !.status = "failed"]
    <2>1. new.status = "failed" /\ new.attempts = copy.attempts
      BY <1>1, <1>2
    <2>2. PICK r : r = Written(new, copy, stored)
      OBVIOUS
    <2>3. /\ r.status = "failed" /\ r.attempts = stored.attempts /\ r \in Rows
      BY <1>1, <2>1, <2>2 DEF Written, Webhooks!Column, Rows, Webhooks!Queued
    <2> QED BY <2>2, <2>3 DEF RecordedOK, Webhooks!Queued
  <1>3. CASE new = Webhooks!Success(copy) /\ d \in answered
    <2>1. new.status = "delivered" /\ new.attempts = copy.attempts + 1
      BY <1>1, <1>3 DEF Webhooks!Success
    <2>2. PICK r : r = Written(new, copy, stored)
      OBVIOUS
    <2>3. /\ r.status = "delivered" /\ r.attempts = copy.attempts + 1 /\ r \in Rows
      BY <1>1, <2>1, <2>2 DEF Written, Webhooks!Column, Rows, Webhooks!Queued
    <2> QED BY <1>1, <1>3, <2>2, <2>3, JobsAssumption DEF RecordedOK, CopyOK, Webhooks!Queued
  <1>4. CASE new = Webhooks!Failure(copy)
    <2>1. /\ new.status = IF copy.attempts + 1 >= MaxAttempts THEN "failed" ELSE "retrying"
          /\ new.attempts = copy.attempts + 1
      BY <1>1, <1>4 DEF Webhooks!Failure
    <2>2. PICK r : r = Written(new, copy, stored)
      OBVIOUS
    <2>3. /\ r.attempts = copy.attempts + 1 /\ r \in Rows
          /\ r.status \in {"failed", "retrying", stored.status}
          /\ copy.attempts + 1 >= MaxAttempts => r.status = "failed"
      <3>1. /\ r.status = Webhooks!Column(new.status, copy.status, stored.status)
            /\ r.attempts = Webhooks!Column(new.attempts, copy.attempts, stored.attempts)
            /\ r.due = IF new.status = "retrying" THEN FALSE ELSE stored.due
            /\ r = [status |-> r.status, attempts |-> r.attempts, due |-> r.due]
        BY <2>2 DEF Written
      <3>2. r.attempts = copy.attempts + 1
        BY <1>1, <2>1, <3>1 DEF Webhooks!Column
      <3>3. r.status \in {"failed", "retrying", stored.status}
        BY <2>1, <3>1 DEF Webhooks!Column
      <3>4. ASSUME copy.attempts + 1 >= MaxAttempts PROVE r.status = "failed"
        BY <1>1, <2>1, <3>1, <3>4 DEF Webhooks!Column, Webhooks!Queued
      <3>5. r.due \in BOOLEAN
        BY <1>1, <3>1
      <3>6. r.status \in {"none", "pending", "retrying", "failed", "delivered"}
        BY <1>1, <3>3 DEF Rows
      <3>7. r.attempts \in Nat
        BY <1>1, <3>2
      <3>8. r \in Rows
        BY <3>1, <3>5, <3>6, <3>7 DEF Rows
      <3> QED BY <3>2, <3>3, <3>4, <3>8
    <2> QED BY <1>1, <2>2, <2>3, JobsAssumption DEF RecordedOK, CopyOK, Webhooks!Queued
  <1> QED BY <1>2, <1>3, <1>4

\* Where no worker takes, sends or saves anything.
LEMMA WebhooksElsewhere ==
  ASSUME WebhooksInv, UNCHANGED <<row, batch, sent, received>>,
         crashes'.retries \in {crashes.retries} \cup (Nat \ {0})
  PROVE  RowsKept' /\ CopiesKept' /\ SentKept'
  <1>1. crashes'.retries = 0 => crashes.retries = 0
    BY DEF WebhooksInv, DeskKept
  <1>2. RowsKept'
    BY <1>1 DEF WebhooksInv, RowsKept, RecordedOK
  <1>3. CopiesKept'
    BY <1>1 DEF WebhooksInv, CopiesKept, CopyOK
  <1> QED BY <1>2, <1>3 DEF WebhooksInv, SentKept

LEMMA WebhooksSetHook ==
  ASSUME ConsentKept, NEW h \in Hooks, NEW state, Webhooks!SetHook(h, state),
         UNCHANGED known
  PROVE  ConsentKept'
  <1>1. DOMAIN hook' = Hooks /\ hook'[h] = state
        /\ \A k \in Hooks \ {h} : hook'[k] = hook[k]
    BY DEF Webhooks!SetHook, ConsentKept
  <1>2. /\ DOMAIN consented' = Workers
        /\ \A w \in Workers : consented[w] \subseteq consented'[w]
        /\ state = "on" => \A w \in Workers : h \in consented'[w]
    BY DEF Webhooks!SetHook
  <1>3. ASSUME NEW w \in Workers, NEW k \in Hooks, hook'[k] = "on"
        PROVE  k \in consented'[w]
    BY <1>1, <1>2, <1>3 DEF ConsentKept
  <1> QED BY <1>1, <1>2, <1>3 DEF ConsentKept

LEMMA WebhooksDesk ==
  ASSUME WebhooksInv, NEW m \in Managers,
         \/ \E h \in Hooks : Webhooks!ActivateRead(m, h)
         \/ Webhooks!ActivateCommit(m)
         \/ \E d \in Webhooks!Deliveries : Webhooks!RetryRead(m, d)
         \/ Webhooks!RetryCommit(m)
  PROVE  WebhooksInv'
  <1>1. ASSUME NEW h \in Hooks, Webhooks!ActivateRead(m, h) PROVE WebhooksInv'
    <2>1. PICK req : req = [op |-> "activate", hook |-> h]
      OBVIOUS
    <2>2. /\ desk' = [desk EXCEPT ![m] = req] /\ req.op # "retry"
          /\ req.op = "activate" /\ req.hook \in Hooks
          /\ UNCHANGED <<hook, row, batch, known, sent, received, consented, crashes>>
      BY <1>1, <2>1 DEF Webhooks!ActivateRead, Webhooks!workers
    <2>3. DeskKept'
      BY <2>2 DEF WebhooksInv, DeskKept
    <2>4. ConsentKept'
      BY <2>2 DEF WebhooksInv, ConsentKept
    <2> QED BY <2>2, <2>3, <2>4, WebhooksElsewhere DEF WebhooksInv
  <1>2. ASSUME Webhooks!ActivateCommit(m) PROVE WebhooksInv'
    <2>1. /\ desk' = [desk EXCEPT ![m] = Webhooks!Idle]
          /\ desk[m].op = "activate" /\ Webhooks!SetHook(desk[m].hook, "on")
          /\ UNCHANGED <<row, batch, known, sent, received, crashes>>
      BY <1>2 DEF Webhooks!ActivateCommit, Webhooks!workers
    <2>2. DeskKept'
      BY <2>1 DEF WebhooksInv, DeskKept, Webhooks!Idle
    <2>3. ConsentKept'
      <3>1. desk[m].hook \in Hooks
        BY <2>1 DEF WebhooksInv, DeskKept
      <3> QED BY <2>1, <3>1, WebhooksSetHook DEF WebhooksInv
    <2> QED BY <2>1, <2>2, <2>3, WebhooksElsewhere DEF WebhooksInv
  <1>3. ASSUME NEW d \in Webhooks!Deliveries, Webhooks!RetryRead(m, d)
        PROVE  WebhooksInv'
    <2>1. PICK req : req = [op |-> "retry", id |-> d, copy |-> row[d]]
      OBVIOUS
    <2>2. /\ desk' = [desk EXCEPT ![m] = req]
          /\ crashes' = [crashes EXCEPT !.retries = @ + 1]
          /\ UNCHANGED <<hook, row, batch, known, sent, received, consented>>
      BY <1>3, <2>1 DEF Webhooks!RetryRead, Webhooks!workers
    <2>3. crashes'.retries = crashes.retries + 1
      BY <2>2 DEF WebhooksInv, DeskKept
    <2>4. crashes'.retries \in Nat \ {0}
      BY <2>3 DEF WebhooksInv, DeskKept
    <2>5. DeskKept'
      <3>1. crashes' \in [retries : Nat, crashes : Nat]
        BY <2>2 DEF WebhooksInv, DeskKept
      <3>2. req.op = "retry"
        BY <2>1
      <3> QED BY <2>2, <2>4, <3>1, <3>2 DEF WebhooksInv, DeskKept
    <2>6. ConsentKept'
      BY <2>2 DEF WebhooksInv, ConsentKept
    <2> QED BY <2>2, <2>4, <2>5, <2>6, WebhooksElsewhere DEF WebhooksInv
  <1>4. ASSUME Webhooks!RetryCommit(m) PROVE WebhooksInv'
    <2> DEFINE d == desk[m].id
               copy == desk[m].copy
    <2>1. PICK r :
            r = [status |-> Webhooks!Column("pending", copy.status, row[d].status),
                 attempts |-> Webhooks!Column(0, copy.attempts, row[d].attempts),
                 due |-> TRUE]
      OBVIOUS
    <2>2. /\ row' = [row EXCEPT ![d] = r] /\ desk[m].op = "retry"
          /\ desk' = [desk EXCEPT ![m] = Webhooks!Idle]
          /\ UNCHANGED <<hook, batch, known, sent, received, consented, crashes>>
      BY <1>4, <2>1 DEF Webhooks!RetryCommit, Webhooks!workers
    <2>3. crashes.retries # 0
      BY <2>2 DEF WebhooksInv, DeskKept
    <2>4. ASSUME d \in Webhooks!Deliveries
          PROVE  RecordedOK(r, d, received, crashes.retries)
      <3>1. row[d] \in Rows /\ (row[d].status = "delivered" => d \in received)
        BY <2>4 DEF WebhooksInv, RowsKept, RecordedOK
      <3>2. /\ r.status \in {"pending", row[d].status} /\ r.due = TRUE
            /\ r.attempts \in {0, row[d].attempts}
            /\ r = [status |-> r.status, attempts |-> r.attempts, due |-> r.due]
        BY <2>1 DEF Webhooks!Column
      <3>3. /\ row[d].status \in {"none", "pending", "retrying", "failed", "delivered"}
            /\ row[d].attempts \in Nat
        BY <3>1 DEF Rows
      <3>4. /\ r.status \in {"none", "pending", "retrying", "failed", "delivered"}
            /\ r.attempts \in Nat
        BY <3>2, <3>3
      <3>5. r.due \in BOOLEAN
        BY <3>2
      <3>6. r \in Rows
        BY <3>2, <3>4, <3>5 DEF Rows
      <3> QED BY <2>3, <3>1, <3>2, <3>6 DEF RecordedOK
    <2> HIDE DEF d, copy
    <2>5. RowsKept'
      <3>1. DOMAIN row' = Webhooks!Deliveries
        BY <2>2 DEF WebhooksInv, RowsKept
      <3>2. ASSUME NEW e \in Webhooks!Deliveries
            PROVE  RecordedOK(row'[e], e, received, crashes.retries)
        BY <2>2, <2>4 DEF WebhooksInv, RowsKept
      <3> QED BY <2>2, <3>1, <3>2 DEF RowsKept
    <2>6. DeskKept'
      BY <2>2 DEF WebhooksInv, DeskKept, Webhooks!Idle
    <2>7. CopiesKept' /\ SentKept' /\ ConsentKept'
      BY <2>2 DEF WebhooksInv, CopiesKept, SentKept, ConsentKept
    <2> QED BY <2>5, <2>6, <2>7 DEF WebhooksInv
  <1> QED BY <1>1, <1>2, <1>3, <1>4

\* An event is queued, and a delivery becomes due again.
LEMMA WebhooksQueue ==
  ASSUME WebhooksInv,
         \/ \E e \in Events : Webhooks!Enqueue(e)
         \/ \E d \in Webhooks!Deliveries : Webhooks!BackOff(d)
  PROVE  WebhooksInv'
  <1>1. UNCHANGED <<hook, batch, known, sent, desk, received, consented, crashes>>
    BY DEF Webhooks!Enqueue, Webhooks!BackOff, Webhooks!workers
  <1>2. ASSUME NEW e \in Events, Webhooks!Enqueue(e) PROVE RowsKept'
    <2>1. PICK r : r = [status |-> "pending", attempts |-> 0, due |-> TRUE]
      OBVIOUS
    <2>2. row' = [d \in Webhooks!Deliveries |->
                    IF d[2] = e /\ d[1] \in Webhooks!ActiveHooks THEN r ELSE row[d]]
      BY <1>2, <2>1 DEF Webhooks!Enqueue
    <2>3. r \in Rows /\ r.status = "pending" /\ r.attempts = 0
      BY <2>1 DEF Rows
    <2>4. ASSUME NEW d \in Webhooks!Deliveries
          PROVE  RecordedOK(row'[d], d, received, crashes.retries)
      <3>1. row'[d] = r \/ row'[d] = row[d]
        BY <2>2
      <3>2. RecordedOK(r, d, received, crashes.retries)
        BY <2>3, JobsAssumption DEF RecordedOK
      <3> QED BY <3>1, <3>2 DEF WebhooksInv, RowsKept
    <2> QED BY <1>1, <2>2, <2>4 DEF RowsKept
  <1>3. ASSUME NEW d \in Webhooks!Deliveries, Webhooks!BackOff(d) PROVE RowsKept'
    <2>1. PICK r : r = [row[d] EXCEPT !.due = TRUE]
      OBVIOUS
    <2>2. row' = [row EXCEPT ![d] = r]
      BY <1>3, <2>1 DEF Webhooks!BackOff
    <2>3. RecordedOK(row[d], d, received, crashes.retries)
      BY DEF WebhooksInv, RowsKept
    <2>4. r \in Rows /\ r.status = row[d].status /\ r.attempts = row[d].attempts
      BY <2>1, <2>3 DEF RecordedOK, Rows
    <2>5. RecordedOK(r, d, received, crashes.retries)
      BY <2>3, <2>4 DEF RecordedOK
    <2> QED BY <1>1, <2>2, <2>5 DEF WebhooksInv, RowsKept
  <1>4. CopiesKept' /\ SentKept' /\ ConsentKept' /\ DeskKept'
    BY <1>1 DEF WebhooksInv, CopiesKept, SentKept, ConsentKept, DeskKept
  <1> QED BY <1>2, <1>3, <1>4 DEF WebhooksInv

LEMMA WebhooksTakeBatch ==
  ASSUME WebhooksInv, NEW w \in Workers, Webhooks!TakeBatch(w)
  PROVE  WebhooksInv'
  <1>1. PICK b \in SUBSET Webhooks!Due : batch' = [batch EXCEPT ![w] = [d \in b |-> row[d]]]
    BY DEF Webhooks!TakeBatch
  <1>2. /\ batch[w] = <<>> /\ known' = [known EXCEPT ![w] = <<>>]
        /\ consented' = [consented EXCEPT ![w] = Webhooks!ActiveHooks]
        /\ UNCHANGED <<hook, row, sent, desk, received, crashes>>
    BY DEF Webhooks!TakeBatch
  <1>3. DOMAIN <<>> = {}
    OBVIOUS
  <1>4. RowsKept' /\ DeskKept'
    BY <1>2 DEF WebhooksInv, RowsKept, DeskKept
  <1>5. CopiesKept'
    <2>1. \A d \in b : d \in Webhooks!Deliveries /\ CopyOK(row[d], crashes.retries)
      BY <1>1 DEF WebhooksInv, RowsKept, RecordedOK, CopyOK, Webhooks!Due
    <2>2. PICK copies : copies = [d \in b |-> row[d]]
      OBVIOUS
    <2>3. batch' = [batch EXCEPT ![w] = copies]
      BY <1>1, <2>2
    <2>4. DOMAIN batch' = Workers
      BY <2>3 DEF WebhooksInv, CopiesKept
    <2>5. batch'[w] = copies /\ \A v \in Workers \ {w} : batch'[v] = batch[v]
      BY <2>3 DEF WebhooksInv, CopiesKept
    <2>6. \A d \in DOMAIN copies :
            d \in Webhooks!Deliveries /\ CopyOK(copies[d], crashes.retries)
      BY <2>1, <2>2
    <2>7. ASSUME NEW v \in Workers, NEW d \in DOMAIN batch'[v]
          PROVE  d \in Webhooks!Deliveries /\ CopyOK(batch'[v][d], crashes.retries)
      BY <2>5, <2>6 DEF WebhooksInv, CopiesKept
    <2> QED BY <1>2, <2>4, <2>7 DEF CopiesKept
  <1>6. SentKept'
    <2>1. sent[w] = Webhooks!NoDelivery
      BY <1>2, <1>3 DEF WebhooksInv, SentKept
    <2>2. \A v \in Workers \ {w} : batch'[v] = batch[v]
      BY <1>1 DEF WebhooksInv, CopiesKept
    <2>3. ASSUME NEW v \in Workers, sent'[v] # Webhooks!NoDelivery
          PROVE  sent'[v].id \in DOMAIN batch'[v]
      BY <1>2, <2>1, <2>2, <2>3 DEF WebhooksInv, SentKept
    <2> QED BY <1>2, <2>3 DEF WebhooksInv, SentKept
  <1>7. ConsentKept'
    <2>1. /\ DOMAIN known' = Workers /\ known'[w] = <<>>
          /\ DOMAIN consented' = Workers /\ consented'[w] = Webhooks!ActiveHooks
          /\ \A v \in Workers \ {w} : known'[v] = known[v] /\ consented'[v] = consented[v]
      BY <1>2 DEF WebhooksInv, ConsentKept
    <2> QED BY <1>2, <1>3, <2>1 DEF WebhooksInv, ConsentKept, Webhooks!ActiveHooks
  <1> QED BY <1>4, <1>5, <1>6, <1>7 DEF WebhooksInv

\* What the worker remembers of a subscription it saw active before, or sees so now.
LEMMA WebhooksRemember ==
  ASSUME ConsentKept, NEW w \in Workers, NEW h \in Hooks, Webhooks!Remember(w, h),
         UNCHANGED <<hook, consented>>
  PROVE  ConsentKept' /\ (Webhooks!MaySend(w, h) => h \in consented[w])
  <1>1. PICK state : state = Webhooks!StateOf(w, h)
    OBVIOUS
  <1>2. state = "on" => h \in consented[w]
    BY <1>1 DEF Webhooks!StateOf, ConsentKept
  <1>3. /\ DOMAIN known' = Workers
        /\ \A v \in Workers \ {w} : known'[v] = known[v]
        /\ known'[w] = [k \in {h} |-> state]
    BY <1>1 DEF Webhooks!Remember, ConsentKept
  <1>4. \A k \in DOMAIN known'[w] : known'[w][k] = "on" => k \in consented[w]
    BY <1>2, <1>3
  <1>5. ASSUME NEW v \in Workers, NEW k \in DOMAIN known'[v], known'[v][k] = "on"
        PROVE  k \in consented[v]
    BY <1>3, <1>4, <1>5 DEF ConsentKept
  <1>6. Webhooks!MaySend(w, h) => h \in consented[w]
    BY <1>1, <1>2 DEF Webhooks!MaySend
  <1> QED BY <1>3, <1>5, <1>6 DEF ConsentKept

LEMMA WebhooksSend ==
  ASSUME WebhooksInv, NEW w \in Workers, NEW d \in Webhooks!Deliveries,
         NEW ok \in BOOLEAN, Webhooks!Send(w, d, ok)
  PROVE  WebhooksInv' /\ d[1] \in consented[w]
  <1>1. PICK s : s = [id |-> d, ok |-> ok]
    OBVIOUS
  <1>2. /\ sent' = [sent EXCEPT ![w] = s] /\ d \in DOMAIN batch[w]
        /\ received' = IF ok THEN received \cup {d} ELSE received
        /\ Webhooks!Remember(w, d[1]) /\ Webhooks!MaySend(w, d[1])
        /\ UNCHANGED <<hook, row, batch, desk, consented, crashes>>
    BY <1>1 DEF Webhooks!Send
  <1>3. d[1] \in Hooks
    BY DEF Webhooks!Deliveries
  <1>4. ConsentKept' /\ d[1] \in consented[w]
    BY <1>2, <1>3, WebhooksRemember DEF WebhooksInv
  <1>5. received \subseteq received' /\ (ok => d \in received')
    BY <1>2
  <1>6. RowsKept'
    BY <1>2, <1>5 DEF WebhooksInv, RowsKept, RecordedOK
  <1>7. CopiesKept' /\ DeskKept'
    BY <1>2 DEF WebhooksInv, CopiesKept, DeskKept
  <1>8. SentKept'
    <2>1. s.id = d /\ (s.ok => d \in received')
      BY <1>1, <1>5
    <2>2. /\ DOMAIN sent' = Workers /\ sent'[w] = s
          /\ \A v \in Workers \ {w} : sent'[v] = sent[v]
      BY <1>2 DEF WebhooksInv, SentKept
    <2>3. ASSUME NEW v \in Workers
          PROVE  /\ sent'[v] # Webhooks!NoDelivery => sent'[v].id \in DOMAIN batch'[v]
                 /\ sent'[v].ok => sent'[v].id \in received'
      <3>1. CASE v = w
        BY <1>2, <2>1, <2>2, <3>1
      <3>2. CASE v # w
        BY <1>2, <1>5, <2>2, <3>2 DEF WebhooksInv, SentKept
      <3> QED BY <3>1, <3>2
    <2> QED BY <2>2, <2>3 DEF SentKept
  <1> QED BY <1>4, <1>6, <1>7, <1>8 DEF WebhooksInv

\* A commit of what a worker dropped, or of the answer that it got.
LEMMA WebhooksCommit ==
  ASSUME WebhooksInv, NEW w \in Workers, NEW d \in DOMAIN batch[w], NEW new,
         Webhooks!Commit(w, d, new),
         \/ new = [batch[w][d] EXCEPT !.status = "failed"]
         \/ new = Webhooks!Success(batch[w][d]) /\ d \in received
         \/ new = Webhooks!Failure(batch[w][d]),
         UNCHANGED <<received, crashes>>
  PROVE  RowsKept' /\ CopiesKept'
  <1>1. PICK copy : copy = batch[w][d]
    OBVIOUS
  <1>2. d \in Webhooks!Deliveries /\ CopyOK(copy, crashes.retries)
    BY <1>1 DEF WebhooksInv, CopiesKept
  <1>3. PICK stored : stored = row[d]
    OBVIOUS
  <1>4. RecordedOK(stored, d, received, crashes.retries)
    BY <1>2, <1>3 DEF WebhooksInv, RowsKept
  <1>5. PICK r : r = Written(new, copy, stored)
    OBVIOUS
  <1>6. row' = [row EXCEPT ![d] = r]
    BY <1>1, <1>3, <1>5 DEF Webhooks!Commit, Written
  <1>7. RecordedOK(r, d, received, crashes.retries)
    <2>1. \/ new = [copy EXCEPT !.status = "failed"]
          \/ new = Webhooks!Success(copy) /\ d \in received
          \/ new = Webhooks!Failure(copy)
      BY <1>1
    <2> QED BY <1>2, <1>4, <1>5, <2>1, WrittenIsRecorded
  <1>8. RowsKept'
    BY <1>2, <1>6, <1>7 DEF WebhooksInv, RowsKept
  <1>9. PICK rest : rest = [e \in DOMAIN batch[w] \ {d} |-> batch[w][e]]
    OBVIOUS
  <1>10. batch' = [batch EXCEPT ![w] = rest]
    BY <1>9 DEF Webhooks!Commit, Webhooks!Rest
  <1>11. /\ DOMAIN batch' = Workers /\ batch'[w] = rest
         /\ \A v \in Workers \ {w} : batch'[v] = batch[v]
    BY <1>10 DEF WebhooksInv, CopiesKept
  <1>12. ASSUME NEW v \in Workers, NEW e \in DOMAIN batch'[v]
         PROVE  e \in DOMAIN batch[v] /\ batch'[v][e] = batch[v][e]
    BY <1>9, <1>11
  <1> QED BY <1>8, <1>11, <1>12 DEF WebhooksInv, CopiesKept

\* The others' copies are as they were.
LEMMA WebhooksOthersSent ==
  ASSUME WebhooksInv, NEW w \in Workers, sent'[w] = Webhooks!NoDelivery,
         DOMAIN sent' = Workers,
         \A v \in Workers \ {w} : sent'[v] = sent[v] /\ batch'[v] = batch[v],
         UNCHANGED received
  PROVE  SentKept'
  <1>1. Webhooks!NoDelivery.ok = FALSE
    BY DEF Webhooks!NoDelivery
  <1>2. ASSUME NEW v \in Workers
        PROVE  /\ sent'[v] # Webhooks!NoDelivery => sent'[v].id \in DOMAIN batch'[v]
               /\ sent'[v].ok => sent'[v].id \in received'
    <2>1. CASE v = w
      BY <1>1, <2>1
    <2>2. CASE v # w
      BY <2>2 DEF WebhooksInv, SentKept
    <2> QED BY <2>1, <2>2
  <1> QED BY <1>2 DEF SentKept

LEMMA WebhooksDrop ==
  ASSUME WebhooksInv, NEW w \in Workers, NEW d \in Webhooks!Deliveries,
         Webhooks!Drop(w, d)
  PROVE  WebhooksInv'
  <1>1. /\ d \in DOMAIN batch[w] /\ sent[w] = Webhooks!NoDelivery
        /\ Webhooks!Commit(w, d, [batch[w][d] EXCEPT !.status = "failed"])
        /\ Webhooks!Remember(w, d[1])
        /\ UNCHANGED <<hook, sent, desk, received, consented, crashes>>
    BY DEF Webhooks!Drop
  <1>2. RowsKept' /\ CopiesKept'
    BY <1>1, WebhooksCommit
  <1>3. ConsentKept'
    <2>1. d[1] \in Hooks
      BY DEF Webhooks!Deliveries
    <2> QED BY <1>1, <2>1, WebhooksRemember DEF WebhooksInv
  <1>4. SentKept'
    <2>1. \A v \in Workers \ {w} : batch'[v] = batch[v]
      BY <1>1 DEF Webhooks!Commit, WebhooksInv, CopiesKept
    <2>2. DOMAIN sent' = Workers
      BY <1>1 DEF WebhooksInv, SentKept
    <2> QED BY <1>1, <2>1, <2>2, WebhooksOthersSent
  <1>5. DeskKept'
    BY <1>1 DEF WebhooksInv, DeskKept
  <1> QED BY <1>2, <1>3, <1>4, <1>5 DEF WebhooksInv

LEMMA WebhooksSave ==
  ASSUME WebhooksInv, NEW w \in Workers, Webhooks!Save(w)
  PROVE  WebhooksInv'
  <1>1. PICK d : d = sent[w].id
    OBVIOUS
  <1>2. PICK new :
          new = IF sent[w].ok THEN Webhooks!Success(batch[w][d])
                ELSE Webhooks!Failure(batch[w][d])
    OBVIOUS
  <1>3. /\ Webhooks!Commit(w, d, new) /\ sent[w] # Webhooks!NoDelivery
        /\ sent' = [sent EXCEPT ![w] = Webhooks!NoDelivery]
        /\ UNCHANGED <<hook, known, desk, received, consented, crashes>>
    BY <1>1, <1>2 DEF Webhooks!Save
  <1>4. d \in DOMAIN batch[w] /\ (sent[w].ok => d \in received)
    BY <1>1, <1>3 DEF WebhooksInv, SentKept
  <1>5. RowsKept' /\ CopiesKept'
    <2>1. \/ new = Webhooks!Success(batch[w][d]) /\ d \in received
          \/ new = Webhooks!Failure(batch[w][d])
      BY <1>2, <1>4
    <2> QED BY <1>3, <1>4, <2>1, WebhooksCommit
  <1>6. SentKept'
    <2>1. \A v \in Workers \ {w} : batch'[v] = batch[v]
      BY <1>3 DEF Webhooks!Commit, WebhooksInv, CopiesKept
    <2>2. /\ DOMAIN sent' = Workers /\ sent'[w] = Webhooks!NoDelivery
          /\ \A v \in Workers \ {w} : sent'[v] = sent[v]
      BY <1>3 DEF WebhooksInv, SentKept
    <2> QED BY <1>3, <2>1, <2>2, WebhooksOthersSent
  <1>7. ConsentKept' /\ DeskKept'
    BY <1>3 DEF WebhooksInv, ConsentKept, DeskKept
  <1> QED BY <1>5, <1>6, <1>7 DEF WebhooksInv

LEMMA WebhooksCrash ==
  ASSUME WebhooksInv, NEW w \in Workers, Webhooks!Crash(w)
  PROVE  WebhooksInv'
  <1>1. /\ crashes' = [crashes EXCEPT !.crashes = @ + 1]
        /\ batch' = [batch EXCEPT ![w] = <<>>]
        /\ sent' = [sent EXCEPT ![w] = Webhooks!NoDelivery]
        /\ UNCHANGED <<hook, row, known, desk, received, consented>>
    BY DEF Webhooks!Crash
  <1>2. crashes'.retries = crashes.retries
        /\ crashes' \in [retries : Nat, crashes : Nat]
    BY <1>1 DEF WebhooksInv, DeskKept
  <1>3. /\ DOMAIN batch' = Workers /\ batch'[w] = <<>>
        /\ \A v \in Workers \ {w} : batch'[v] = batch[v]
    BY <1>1 DEF WebhooksInv, CopiesKept
  <1>4. DOMAIN <<>> = {}
    OBVIOUS
  <1>5. CopiesKept'
    <2>1. ASSUME NEW v \in Workers, NEW e \in DOMAIN batch'[v]
          PROVE  e \in DOMAIN batch[v] /\ batch'[v] = batch[v]
      BY <1>3, <1>4
    <2> QED BY <1>2, <1>3, <2>1 DEF WebhooksInv, CopiesKept
  <1>6. RowsKept' /\ DeskKept' /\ ConsentKept'
    BY <1>1, <1>2 DEF WebhooksInv, RowsKept, DeskKept, ConsentKept
  <1>7. SentKept'
    <2>1. /\ DOMAIN sent' = Workers /\ sent'[w] = Webhooks!NoDelivery
          /\ \A v \in Workers \ {w} : sent'[v] = sent[v]
      BY <1>1 DEF WebhooksInv, SentKept
    <2> QED BY <1>1, <1>3, <2>1, WebhooksOthersSent
  <1> QED BY <1>5, <1>6, <1>7 DEF WebhooksInv

LEMMA WebhooksStep == ASSUME WebhooksInv, Webhooks!Next PROVE WebhooksInv'
  <1>1. ASSUME NEW h \in Hooks, Webhooks!Deactivate(h) PROVE WebhooksInv'
    <2>1. /\ Webhooks!SetHook(h, "off")
          /\ UNCHANGED <<row, batch, known, sent, desk, received, crashes>>
      BY <1>1 DEF Webhooks!Deactivate, Webhooks!workers
    <2>2. ConsentKept'
      BY <2>1, WebhooksSetHook DEF WebhooksInv
    <2>3. RowsKept' /\ CopiesKept' /\ SentKept' /\ DeskKept'
      BY <2>1 DEF WebhooksInv, RowsKept, CopiesKept, SentKept, DeskKept
    <2> QED BY <2>2, <2>3 DEF WebhooksInv
  <1>2. ASSUME NEW w \in Workers, Webhooks!Work(w) \/ Webhooks!Crash(w)
        PROVE  WebhooksInv'
    BY <1>2, WebhooksTakeBatch, WebhooksSave, WebhooksDrop, WebhooksSend, WebhooksCrash
    DEF Webhooks!Work
  <1> QED BY <1>1, <1>2, WebhooksDesk, WebhooksQueue DEF Webhooks!Next

LEMMA WebhooksCount ==
  WebhooksInv => Webhooks!AttemptsBounded /\ Webhooks!DeliveredWasReceived
  BY DEF WebhooksInv, RowsKept, RecordedOK, Webhooks!AttemptsBounded,
     Webhooks!DeliveredWasReceived

LEMMA WebhooksConsent == WebhooksInv => Webhooks!Consented
  BY WebhooksSend DEF Webhooks!Consented

-----------------------------------------------------------------------------
(* The email digest. *)

Preference ==
  [enabled : BOOLEAN, cursor : Nat, attempts : Nat, due : BOOLEAN,
   lease : Workers \cup {"nobody"}, live : BOOLEAN,
   status : {"none", "pending", "failed", "accepted"}]
Mailing == [step : {"idle", "claimed", "sent"}, ids : SUBSET Nat, ok : BOOLEAN]

\* An enabled digest has attempts left and counts from the last opt-in.
PreferenceOK(p, since) ==
  /\ p \in Preference
  /\ p.enabled => p.attempts < MaxFailures
  /\ p.cursor = since

\* What a worker is about to mail under its lease is new and from after the opt-in.
MailingOK(w, mail, p, accepted, since) ==
  mail.step # "idle" /\ p.lease = w =>
    mail.ids \cap accepted = {} /\ \A n \in mail.ids : n > since

DigestInv ==
  /\ notes \in Nat /\ PreferenceOK(pref, optedIn)
  /\ mailing \in [Workers -> Mailing]
  /\ \A w \in Workers : MailingOK(w, mailing[w], pref, items, optedIn)

LEMMA DigestStart == Digest!Init => DigestInv
  <1> SUFFICES ASSUME Digest!Init PROVE DigestInv
    OBVIOUS
  <1>1. PICK p :
          p = [enabled |-> FALSE, cursor |-> 0, attempts |-> 0, due |-> FALSE,
               lease |-> "nobody", live |-> FALSE, status |-> "none"]
    OBVIOUS
  <1>2. p \in Preference /\ p.enabled = FALSE /\ p.cursor = 0
    BY <1>1 DEF Preference
  <1>3. PICK m : m = Digest!Idle
    OBVIOUS
  <1>4. m \in Mailing /\ m.step = "idle"
    BY <1>3 DEF Mailing, Digest!Idle
  <1>5. /\ notes = 0 /\ optedIn = 0 /\ pref = p
        /\ mailing = [w \in Workers |-> m]
    BY <1>1, <1>3 DEF Digest!Init, Digest!NoLease
  <1> QED BY <1>2, <1>4, <1>5 DEF DigestInv, PreferenceOK, MailingOK

LEMMA DigestStill == ASSUME DigestInv, UNCHANGED digestVars PROVE DigestInv'
  BY DEF DigestInv, digestVars

\* The row is written while nobody mails under its lease.
LEMMA DigestWithoutLease ==
  ASSUME NEW p, PreferenceOK(p, optedIn'), p.lease = "nobody",
         pref' = p, notes' \in Nat, mailing' \in [Workers -> Mailing]
  PROVE  DigestInv'
  BY JobsAssumption DEF DigestInv, MailingOK

\* The row is written, and the lease and its count of failures stay.
LEMMA DigestKeepsLease ==
  ASSUME DigestInv, NEW p, pref' = p, p \in Preference,
         p.lease = pref.lease, p.enabled = pref.enabled, p.attempts = pref.attempts,
         p.cursor = pref.cursor, UNCHANGED <<notes, mailing, items, optedIn>>
  PROVE  DigestInv'
  BY DEF DigestInv, PreferenceOK, MailingOK

\* A worker goes on with the same mail, or is idle.
LEMMA DigestGoesOn ==
  ASSUME DigestInv, NEW w \in Workers, NEW m \in Mailing,
         mailing' = [mailing EXCEPT ![w] = m],
         m.step = "idle" \/ (m.ids = mailing[w].ids /\ mailing[w].step # "idle"),
         UNCHANGED <<notes, pref, items, optedIn>>
  PROVE  DigestInv'
  <1>1. mailing' \in [Workers -> Mailing]
    BY DEF DigestInv
  <1>2. ASSUME NEW v \in Workers PROVE MailingOK(v, mailing'[v], pref, items, optedIn)
    BY DEF DigestInv, MailingOK
  <1> QED BY <1>1, <1>2 DEF DigestInv

LEMMA DigestIdle == Digest!Idle \in Mailing /\ Digest!Idle.step = "idle"
  BY DEF Digest!Idle, Mailing

\* A lease that is given up.
LEMMA DigestReleased ==
  ASSUME PreferenceOK(pref, optedIn)
  PROVE  /\ Digest!Released(pref) \in Preference
         /\ Digest!Released(pref).lease = "nobody"
         /\ Digest!Released(pref).enabled = pref.enabled
         /\ Digest!Released(pref).attempts = pref.attempts
         /\ Digest!Released(pref).cursor = pref.cursor
  BY DEF Digest!Released, Digest!NoLease, PreferenceOK, Preference

LEMMA DigestUser ==
  ASSUME DigestInv,
         Digest!Enable \/ Digest!Disable \/ Digest!ChangeInterval \/ Digest!RetryFailed
  PROVE  DigestInv'
  <1>1. PICK r : r = Digest!Released(pref)
    OBVIOUS
  <1>2. /\ r \in Preference /\ r.lease = "nobody" /\ r.enabled = pref.enabled
        /\ r.attempts = pref.attempts /\ r.cursor = pref.cursor
    BY <1>1, DigestReleased DEF DigestInv
  <1>3. UNCHANGED <<notes, mailing, items>>
    BY DEF Digest!Enable, Digest!Disable, Digest!ChangeInterval, Digest!RetryFailed,
       Digest!Change
  <1>4. ASSUME Digest!Enable PROVE DigestInv'
    <2>1. PICK p : p = [r EXCEPT !.enabled = TRUE, !.cursor = notes, !.due = FALSE,
                          !.attempts = 0, !.status = "pending"]
      OBVIOUS
    <2>2. pref' = p /\ optedIn' = notes
      BY <1>1, <1>4, <2>1 DEF Digest!Enable
    <2>3. /\ p \in Preference /\ p.lease = "nobody" /\ p.attempts = 0
          /\ p.cursor = notes
      BY <1>2, <2>1 DEF Preference, DigestInv
    <2>4. PreferenceOK(p, optedIn')
      BY <2>2, <2>3, JobsAssumption DEF PreferenceOK
    <2> QED BY <1>3, <2>2, <2>3, <2>4, DigestWithoutLease DEF DigestInv
  <1>5. ASSUME Digest!Disable PROVE DigestInv'
    <2>1. PICK p : p = [r EXCEPT !.enabled = FALSE]
      OBVIOUS
    <2>2. pref' = p /\ optedIn' = optedIn
      BY <1>1, <1>5, <2>1 DEF Digest!Disable
    <2>3. /\ p \in Preference /\ p.lease = "nobody" /\ p.enabled = FALSE
          /\ p.cursor = pref.cursor
      BY <1>2, <2>1 DEF Preference
    <2>4. PreferenceOK(p, optedIn')
      BY <2>2, <2>3 DEF PreferenceOK, DigestInv
    <2> QED BY <1>3, <2>2, <2>3, <2>4, DigestWithoutLease DEF DigestInv
  <1>6. ASSUME Digest!ChangeInterval PROVE DigestInv'
    <2>1. PICK p : p = [pref EXCEPT !.due = FALSE]
      OBVIOUS
    <2>2. pref' = p /\ optedIn' = optedIn
      BY <1>6, <2>1 DEF Digest!ChangeInterval
    <2>3. /\ p \in Preference /\ p.lease = pref.lease /\ p.enabled = pref.enabled
          /\ p.attempts = pref.attempts /\ p.cursor = pref.cursor
      BY <2>1 DEF Preference, DigestInv, PreferenceOK
    <2> QED BY <1>3, <2>2, <2>3, DigestKeepsLease
  <1>7. ASSUME Digest!RetryFailed PROVE DigestInv'
    <2>1. PICK p : p = [r EXCEPT !.enabled = TRUE, !.attempts = 0, !.status = "pending",
                          !.due = TRUE]
      OBVIOUS
    <2>2. pref' = p /\ optedIn' = optedIn
      BY <1>1, <1>7, <2>1 DEF Digest!RetryFailed, Digest!Retried
    <2>3. /\ p \in Preference /\ p.lease = "nobody" /\ p.attempts = 0
          /\ p.cursor = pref.cursor
      BY <1>2, <2>1 DEF Preference
    <2>4. PreferenceOK(p, optedIn')
      BY <2>2, <2>3, JobsAssumption DEF PreferenceOK, DigestInv
    <2> QED BY <1>3, <2>2, <2>3, <2>4, DigestWithoutLease DEF DigestInv
  <1> QED BY <1>4, <1>5, <1>6, <1>7

\* The clock, and a run that finds nothing new.
LEMMA DigestTime ==
  ASSUME DigestInv, Digest!ClaimNothing \/ Digest!LeaseEnds \/ Digest!BecomeDue
  PROVE  DigestInv'
  <1>1. UNCHANGED <<notes, mailing, items, optedIn>>
    BY DEF Digest!ClaimNothing, Digest!LeaseEnds, Digest!BecomeDue
  <1>2. PICK p : \/ p = [pref EXCEPT !.due = FALSE] /\ pref' = p
                 \/ p = [pref EXCEPT !.live = FALSE] /\ pref' = p
                 \/ p = [pref EXCEPT !.due = TRUE] /\ pref' = p
    BY DEF Digest!ClaimNothing, Digest!LeaseEnds, Digest!BecomeDue
  <1>3. /\ p \in Preference /\ p.lease = pref.lease /\ p.enabled = pref.enabled
        /\ p.attempts = pref.attempts /\ p.cursor = pref.cursor
    BY <1>2 DEF Preference, DigestInv, PreferenceOK
  <1> QED BY <1>1, <1>2, <1>3, DigestKeepsLease

LEMMA DigestClaim ==
  ASSUME DigestInv, NEW w \in Workers, Digest!Claim(w)
  PROVE  DigestInv'
  <1>1. PICK p : p = [pref EXCEPT !.due = FALSE, !.lease = w, !.live = TRUE]
    OBVIOUS
  <1>2. PICK ids \in SUBSET Digest!Unsent :
          mailing' = [mailing EXCEPT ![w] =
            [step |-> "claimed", ok |-> FALSE, ids |-> ids]]
    BY DEF Digest!Claim
  <1>3. PICK m : m = [step |-> "claimed", ok |-> FALSE, ids |-> ids]
    OBVIOUS
  <1>4. /\ pref' = p /\ mailing' = [mailing EXCEPT ![w] = m]
        /\ UNCHANGED <<notes, items, optedIn>>
    BY <1>1, <1>2, <1>3 DEF Digest!Claim
  <1>5. PreferenceOK(p, optedIn) /\ p.lease = w
    BY <1>1 DEF DigestInv, PreferenceOK, Preference
  <1>6. ids \subseteq Nat /\ ids \cap items = {} /\ \A n \in ids : n > optedIn
    <2>1. \A n \in ids : n \in 1..notes /\ n > pref.cursor /\ n \notin items
      BY DEF Digest!Unsent
    <2>2. notes \in Nat /\ pref.cursor = optedIn
      BY DEF DigestInv, PreferenceOK
    <2>3. ids \subseteq Nat
      BY <2>1, <2>2
    <2> QED BY <2>1, <2>2, <2>3
  <1>7. m \in Mailing /\ m.ids = ids
    BY <1>3, <1>6 DEF Mailing
  <1>8. mailing' \in [Workers -> Mailing]
    BY <1>4, <1>7 DEF DigestInv
  <1>9. ASSUME NEW v \in Workers PROVE MailingOK(v, mailing'[v], p, items, optedIn)
    <2>1. CASE v = w
      BY <1>4, <1>6, <1>7, <2>1 DEF DigestInv, MailingOK
    <2>2. CASE v # w
      BY <1>5, <2>2 DEF MailingOK
    <2> QED BY <2>1, <2>2
  <1> QED BY <1>4, <1>5, <1>8, <1>9 DEF DigestInv

\* What is recorded is recorded by the worker that gives up its lease with it.
LEMMA DigestRecord ==
  ASSUME DigestInv, NEW w \in Workers, Digest!Accept(w) \/ Digest!Fail(w)
  PROVE  DigestInv'
  <1>1. PICK r : r = Digest!Released(pref)
    OBVIOUS
  <1>2. /\ r \in Preference /\ r.lease = "nobody" /\ r.enabled = pref.enabled
        /\ r.attempts = pref.attempts /\ r.cursor = pref.cursor
    BY <1>1, DigestReleased DEF DigestInv
  <1>3. /\ UNCHANGED <<notes, optedIn>>
        /\ mailing' = [mailing EXCEPT ![w] = Digest!Idle]
    BY DEF Digest!Accept, Digest!Fail
  <1>4. mailing' \in [Workers -> Mailing]
    BY <1>3, DigestIdle DEF DigestInv
  <1>5. ASSUME Digest!Accept(w) PROVE DigestInv'
    <2>1. PICK p : p = [r EXCEPT !.attempts = 0, !.status = "accepted"]
      OBVIOUS
    <2>2. pref' = p
      BY <1>1, <1>5, <2>1 DEF Digest!Accept
    <2>3. /\ p \in Preference /\ p.lease = "nobody" /\ p.attempts = 0
          /\ p.cursor = pref.cursor
      BY <1>2, <2>1 DEF Preference
    <2>4. PreferenceOK(p, optedIn')
      BY <1>3, <2>3, JobsAssumption DEF PreferenceOK, DigestInv
    <2> QED BY <1>3, <1>4, <2>2, <2>3, <2>4, DigestWithoutLease DEF DigestInv
  <1>6. ASSUME Digest!Fail(w) PROVE DigestInv'
    <2>1. PICK on : on = (pref.enabled /\ pref.attempts + 1 < MaxFailures)
      OBVIOUS
    <2>2. PICK p : p = [r EXCEPT !.attempts = pref.attempts + 1, !.status = "failed",
                          !.due = FALSE, !.enabled = on]
      OBVIOUS
    <2>3. pref' = p
      BY <1>1, <1>2, <1>6, <2>1, <2>2 DEF Digest!Fail
    <2>4. on \in BOOLEAN /\ pref.attempts \in Nat
      BY <2>1 DEF DigestInv, PreferenceOK, Preference
    <2>5. /\ p \in Preference /\ p.lease = "nobody" /\ p.attempts = pref.attempts + 1
          /\ p.cursor = pref.cursor /\ p.enabled = on
      <3>1. PICK n \in Nat : n = pref.attempts + 1
        BY <2>4
      <3>2. p = [r EXCEPT !.attempts = n, !.status = "failed", !.due = FALSE,
                   !.enabled = on]
        BY <2>2, <3>1
      <3>3. p \in Preference
        BY <1>2, <2>4, <3>2 DEF Preference
      <3>4. p.lease = "nobody" /\ p.attempts = n /\ p.cursor = pref.cursor
        BY <1>2, <3>2 DEF Preference
      <3>5. p.enabled = on
        BY <1>2, <3>2 DEF Preference
      <3> QED BY <3>1, <3>3, <3>4, <3>5
    <2>6. PreferenceOK(p, optedIn')
      BY <1>3, <2>1, <2>5 DEF PreferenceOK, DigestInv
    <2> QED BY <1>3, <1>4, <2>3, <2>5, <2>6, DigestWithoutLease DEF DigestInv
  <1> QED BY <1>5, <1>6

LEMMA DigestStep == ASSUME DigestInv, Digest!Next PROVE DigestInv'
  <1>1. ASSUME Digest!Notify PROVE DigestInv'
    <2>1. notes' = notes + 1 /\ UNCHANGED <<pref, items, mailing, optedIn>>
      BY <1>1 DEF Digest!Notify
    <2> QED BY <2>1 DEF DigestInv
  <1>2. ASSUME Digest!Verify PROVE DigestInv'
    BY <1>2 DEF Digest!Verify, DigestInv
  <1>3. ASSUME NEW w \in Workers, NEW ok \in BOOLEAN, Digest!Send(w, ok)
        PROVE  DigestInv'
    <2>1. PICK m : m = [mailing[w] EXCEPT !.step = "sent", !.ok = ok]
      OBVIOUS
    <2>2. mailing' = [mailing EXCEPT ![w] = m]
      BY <1>3, <2>1 DEF Digest!Send, DigestInv
    <2>3. m \in Mailing /\ m.ids = mailing[w].ids
      BY <2>1 DEF DigestInv, Mailing
    <2>4. mailing[w].step # "idle" /\ UNCHANGED <<notes, pref, items, optedIn>>
      BY <1>3 DEF Digest!Send
    <2> QED BY <2>2, <2>3, <2>4, DigestGoesOn
  <1>4. ASSUME NEW w \in Workers, Digest!Discard(w) \/ Digest!Crash(w)
        PROVE  DigestInv'
    <2>1. /\ mailing' = [mailing EXCEPT ![w] = Digest!Idle]
          /\ UNCHANGED <<notes, pref, items, optedIn>>
      BY <1>4 DEF Digest!Discard, Digest!Crash
    <2> QED BY <2>1, DigestIdle, DigestGoesOn
  <1> QED
    BY <1>1, <1>2, <1>3, <1>4, DigestUser, DigestTime, DigestClaim, DigestRecord
    DEF Digest!Next, Digest!Work

LEMMA DigestCounts == DigestInv => Digest!EnabledHasAttempts
  BY DEF DigestInv, PreferenceOK, Digest!EnabledHasAttempts

LEMMA DigestDropsStale == DigestInv => Digest!AcceptsNew /\ Digest!SinceOptIn
  BY DEF DigestInv, MailingOK, Digest!AcceptsNew, Digest!SinceOptIn, Digest!Accept,
     Digest!Send, Digest!Mine, Digest!Own

-----------------------------------------------------------------------------
(* Saved searches. *)

Publication == [stamp : Nat, visible : BOOLEAN, fits : BOOLEAN]
SearchRow == [state : {"none", "saved", "removed"}, on : BOOLEAN, since : Nat]

\* The listings that others see were stamped before.
ListingsOK ==
  /\ listing \in [Listings -> Publication]
  /\ \A l \in Listings : listing[l].visible => listing[l].stamp # 0

\* Only a saved search is switched on, and it begins at its last opt-in.
SearchesOK ==
  /\ search \in [Searches -> SearchRow] /\ optIn \in [Searches -> Nat]
  /\ \A q \in Searches :
       /\ search[q].on => search[q].state = "saved"
       /\ search[q].since = optIn[q]

\* What a search told about is decided while the search is there.
AlertsOK ==
  /\ decided \in [Searches -> SUBSET Listings]
  /\ alerts \in [Searches -> [Listings -> {0, 1}]]
  /\ \A q \in Searches, l \in Listings :
       alerts[q][l] = 1 => l \in decided[q] \/ search[q].state = "removed"

\* What a run is about to decide is undecided and not from before the opt-in.
RunOK(w) ==
  w.op = "process" =>
    /\ w.search \in Searches /\ search[w.search].on
    /\ \A l \in w.todo :
         /\ l \in Listings /\ listing[l].visible /\ l \notin decided[w.search]
         /\ listing[l].stamp >= optIn[w.search]

RequestsOK ==
  /\ DOMAIN request = Sessions
  /\ \A s \in Sessions : RunOK(request[s])
  /\ \A s, t \in Sessions : s # t => request[s] = Saved!Idle \/ request[t] = Saved!Idle

SavedInv == clock \in Nat \ {0} /\ ListingsOK /\ SearchesOK /\ AlertsOK /\ RequestsOK

LEMMA SavedStart == Saved!Init => SavedInv
  <1> SUFFICES ASSUME Saved!Init PROVE SavedInv
    OBVIOUS
  <1>1. PICK p : p = [stamp |-> 0, visible |-> FALSE, fits |-> TRUE]
    OBVIOUS
  <1>2. p \in Publication /\ p.visible = FALSE
    BY <1>1 DEF Publication
  <1>3. PICK r : r = [state |-> "none", on |-> FALSE, since |-> 0]
    OBVIOUS
  <1>4. r \in SearchRow /\ r.on = FALSE /\ r.since = 0
    BY <1>3 DEF SearchRow
  <1>5. /\ listing = [l \in Listings |-> p] /\ search = [q \in Searches |-> r]
        /\ clock = 1 /\ decided = [q \in Searches |-> {}]
        /\ alerts = [q \in Searches |-> [l \in Listings |-> 0]]
        /\ optIn = [q \in Searches |-> 0]
        /\ request = [s \in Sessions |-> Saved!Idle]
    BY <1>1, <1>3 DEF Saved!Init
  <1>6. ListingsOK
    BY <1>2, <1>5 DEF ListingsOK
  <1>7. SearchesOK
    BY <1>4, <1>5 DEF SearchesOK
  <1>8. AlertsOK
    BY <1>5 DEF AlertsOK
  <1>9. RequestsOK
    BY <1>5 DEF RequestsOK, RunOK, Saved!Idle
  <1> QED BY <1>5, <1>6, <1>7, <1>8, <1>9 DEF SavedInv

LEMMA SavedStill == ASSUME SavedInv, UNCHANGED searchVars PROVE SavedInv'
  BY DEF SavedInv, ListingsOK, SearchesOK, AlertsOK, RequestsOK, RunOK, searchVars

\* A session begins or ends, and writes nothing else.
LEMMA SavedRequest ==
  ASSUME SavedInv, NEW s \in Sessions, NEW w, request' = [request EXCEPT ![s] = w],
         w = Saved!Idle \/ (RunOK(w) /\ \A t \in Sessions \ {s} : request[t] = Saved!Idle),
         UNCHANGED <<clock, listing, search, decided, alerts, optIn>>
  PROVE  SavedInv'
  <1>1. /\ DOMAIN request' = Sessions /\ request'[s] = w
        /\ \A t \in Sessions \ {s} : request'[t] = request[t]
    BY DEF SavedInv, RequestsOK
  <1>2. RunOK(w)
    BY DEF RunOK, Saved!Idle
  <1>3. ASSUME NEW t \in Sessions PROVE RunOK(request[t])'
    <2>1. RunOK(request'[t])
      BY <1>1, <1>2 DEF SavedInv, RequestsOK
    <2> QED BY <2>1 DEF RunOK
  <1>4. \A t, u \in Sessions : t # u => request'[t] = Saved!Idle \/ request'[u] = Saved!Idle
    BY <1>1 DEF SavedInv, RequestsOK
  <1>5. RequestsOK'
    BY <1>1, <1>3, <1>4 DEF RequestsOK
  <1> QED BY <1>5 DEF SavedInv, ListingsOK, SearchesOK, AlertsOK

\* A listing is stamped once, before it comes into sight.
LEMMA SavedListing ==
  ASSUME SavedInv, NEW l \in Listings, NEW p \in Publication,
         listing' = [listing EXCEPT ![l] = p], p.visible => p.stamp # 0,
         listing[l].visible => p.visible /\ p.stamp = listing[l].stamp,
         UNCHANGED <<clock, search, decided, alerts, optIn, request>>
  PROVE  SavedInv'
  <1>1. /\ listing' \in [Listings -> Publication] /\ listing'[l] = p
        /\ \A k \in Listings \ {l} : listing'[k] = listing[k]
    BY DEF SavedInv, ListingsOK
  <1>2. ListingsOK'
    BY <1>1 DEF SavedInv, ListingsOK
  <1>3. \A k \in Listings : listing[k].visible =>
          listing'[k].visible /\ listing'[k].stamp = listing[k].stamp
    BY <1>1
  <1>4. RequestsOK'
    BY <1>3 DEF SavedInv, RequestsOK, RunOK
  <1> QED BY <1>2, <1>4 DEF SavedInv, SearchesOK, AlertsOK

\* A search changes while no run is under way.
LEMMA SavedSearch ==
  ASSUME SavedInv, NEW q \in Searches, NEW r \in SearchRow, NEW since \in Nat,
         NEW left \in SUBSET Listings,
         search' = [search EXCEPT ![q] = r], optIn' = [optIn EXCEPT ![q] = since],
         decided' = [decided EXCEPT ![q] = left],
         r.on => r.state = "saved", r.since = since,
         \/ r.state = "removed"
         \/ left = decided[q] /\ search[q].state # "removed",
         DOMAIN request' = Sessions, \A s \in Sessions : request'[s] = Saved!Idle,
         UNCHANGED <<clock, listing, alerts>>
  PROVE  SavedInv'
  <1>1. /\ search' \in [Searches -> SearchRow] /\ search'[q] = r
        /\ \A k \in Searches \ {q} : search'[k] = search[k]
    BY DEF SavedInv, SearchesOK
  <1>2. /\ optIn' \in [Searches -> Nat] /\ optIn'[q] = since
        /\ \A k \in Searches \ {q} : optIn'[k] = optIn[k]
    BY DEF SavedInv, SearchesOK
  <1>3. /\ decided' \in [Searches -> SUBSET Listings] /\ decided'[q] = left
        /\ \A k \in Searches \ {q} : decided'[k] = decided[k]
    BY DEF SavedInv, AlertsOK
  <1>4. SearchesOK'
    <2>1. ASSUME NEW k \in Searches
          PROVE  (search'[k].on => search'[k].state = "saved")
                 /\ search'[k].since = optIn'[k]
      BY <1>1, <1>2 DEF SavedInv, SearchesOK
    <2> QED BY <1>1, <1>2, <2>1 DEF SearchesOK
  <1>5. AlertsOK'
    <2>1. ASSUME NEW k \in Searches, NEW l \in Listings, alerts[k][l] = 1
          PROVE  l \in decided'[k] \/ search'[k].state = "removed"
      BY <1>1, <1>3, <2>1 DEF SavedInv, AlertsOK
    <2> QED BY <1>3, <2>1 DEF SavedInv, AlertsOK
  <1>6. RequestsOK'
    BY DEF RequestsOK, RunOK, Saved!Idle
  <1> QED BY <1>4, <1>5, <1>6 DEF SavedInv, ListingsOK

LEMMA SavedSaveCommit ==
  ASSUME SavedInv, NEW s \in Sessions, Saved!SaveCommit(s)
  PROVE  SavedInv'
  <1>1. PICK q \in Searches :
          search[q].state = "none" /\ search' = [search EXCEPT ![q].state = "saved"]
    BY DEF Saved!SaveCommit
  <1>2. /\ request[s].op = "save" /\ request' = [request EXCEPT ![s] = Saved!Idle]
        /\ UNCHANGED <<clock, listing, decided, alerts, optIn>>
    BY DEF Saved!SaveCommit
  <1>3. PICK r : r = [search[q] EXCEPT !.state = "saved"]
    OBVIOUS
  <1>4. search' = [search EXCEPT ![q] = r]
    BY <1>1, <1>3
  <1>5. r \in SearchRow /\ r.state = "saved" /\ r.since = optIn[q]
    BY <1>3 DEF SavedInv, SearchesOK, SearchRow
  <1>6. optIn' = [optIn EXCEPT ![q] = optIn[q]] /\ optIn[q] \in Nat
    BY <1>2 DEF SavedInv, SearchesOK
  <1>7. decided' = [decided EXCEPT ![q] = decided[q]] /\ decided[q] \subseteq Listings
    BY <1>2 DEF SavedInv, AlertsOK
  <1>8. request[s] # Saved!Idle
    BY <1>2 DEF Saved!Idle
  <1>9. DOMAIN request' = Sessions /\ \A t \in Sessions : request'[t] = Saved!Idle
    BY <1>2, <1>8 DEF SavedInv, RequestsOK
  <1>10. search[q].state # "removed"
    BY <1>1
  <1> QED BY <1>2, <1>4, <1>5, <1>6, <1>7, <1>9, <1>10, SavedSearch

LEMMA SavedSetAlerts ==
  ASSUME SavedInv, NEW q \in Searches, NEW on \in BOOLEAN, Saved!SetAlerts(q, on)
  PROVE  SavedInv'
  <1>1. PICK r : r = Saved!Switched(search[q], on)
    OBVIOUS
  <1>2. PICK since : since = IF on THEN clock ELSE optIn[q]
    OBVIOUS
  <1>3. /\ search' = [search EXCEPT ![q] = r] /\ optIn' = [optIn EXCEPT ![q] = since]
        /\ search[q].state = "saved" /\ search[q].on # on
        /\ \A s \in Sessions : request[s] = Saved!Idle
        /\ UNCHANGED <<clock, listing, decided, alerts, request>>
    BY <1>1, <1>2 DEF Saved!SetAlerts, Saved!Saved
  <1>4. /\ search[q] \in SearchRow /\ search[q].since = optIn[q] /\ optIn[q] \in Nat
        /\ clock \in Nat
    BY DEF SavedInv, SearchesOK
  <1>5. since \in Nat
    BY <1>2, <1>4
  <1>6. r \in SearchRow /\ r.state = "saved" /\ r.since = since
    <2>1. CASE on
      <3>1. ~search[q].on
        BY <1>3, <1>4, <2>1 DEF SearchRow
      <3>2. r = [search[q] EXCEPT !.on = on, !.since = clock]
        BY <1>1, <2>1, <3>1 DEF Saved!Switched
      <3> QED BY <1>2, <1>3, <1>4, <2>1, <3>2 DEF SearchRow
    <2>2. CASE ~on
      <3>1. r = [search[q] EXCEPT !.on = on, !.since = search[q].since]
        BY <1>1, <2>2 DEF Saved!Switched
      <3> QED BY <1>2, <1>3, <1>4, <2>2, <3>1 DEF SearchRow
    <2> QED BY <2>1, <2>2
  <1>7. decided' = [decided EXCEPT ![q] = decided[q]] /\ decided[q] \subseteq Listings
    BY <1>3 DEF SavedInv, AlertsOK
  <1>8. DOMAIN request' = Sessions /\ \A s \in Sessions : request'[s] = Saved!Idle
    BY <1>3 DEF SavedInv, RequestsOK
  <1>9. search[q].state # "removed"
    BY <1>3
  <1> QED BY <1>3, <1>5, <1>6, <1>7, <1>8, <1>9, SavedSearch

LEMMA SavedRemove ==
  ASSUME SavedInv, NEW q \in Searches, Saved!Remove(q)
  PROVE  SavedInv'
  <1>1. /\ search' = [search EXCEPT ![q].state = "removed", ![q].on = FALSE]
        /\ decided' = [decided EXCEPT ![q] = {}]
        /\ \A s \in Sessions : request[s] = Saved!Idle
        /\ UNCHANGED <<clock, listing, alerts, optIn, request>>
    BY DEF Saved!Remove
  <1>2. PICK r : r = [search[q] EXCEPT !.state = "removed", !.on = FALSE]
    OBVIOUS
  <1>3. search' = [search EXCEPT ![q] = r]
    BY <1>1, <1>2 DEF SavedInv, SearchesOK
  <1>4. r \in SearchRow /\ r.state = "removed" /\ r.on = FALSE /\ r.since = optIn[q]
    BY <1>2 DEF SavedInv, SearchesOK, SearchRow
  <1>5. optIn' = [optIn EXCEPT ![q] = optIn[q]] /\ optIn[q] \in Nat
    BY <1>1 DEF SavedInv, SearchesOK
  <1>6. DOMAIN request' = Sessions /\ \A s \in Sessions : request'[s] = Saved!Idle
    BY <1>1 DEF SavedInv, RequestsOK
  <1>7. {} \in SUBSET Listings
    OBVIOUS
  <1> QED BY <1>1, <1>3, <1>4, <1>5, <1>6, <1>7, SavedSearch

\* What a run decides was undecided, so nothing is told twice.
LEMMA SavedProcessCommit ==
  ASSUME SavedInv, NEW s \in Sessions, Saved!ProcessCommit(s)
  PROVE  SavedInv' /\ Saved!SinceOptIn
  <1>1. PICK q, todo : q = request[s].search /\ todo = request[s].todo
    OBVIOUS
  <1>2. PICK told : told = [l \in Listings |->
          IF l \in todo /\ Saved!Matched(l) THEN alerts[q][l] + 1 ELSE alerts[q][l]]
    OBVIOUS
  <1>3. /\ request[s].op = "process"
        /\ decided' = [decided EXCEPT ![q] = decided[q] \cup todo]
        /\ alerts' = [alerts EXCEPT ![q] = told]
        /\ request' = [request EXCEPT ![s] = Saved!Idle]
        /\ UNCHANGED <<clock, listing, search, optIn>>
    BY <1>1, <1>2 DEF Saved!ProcessCommit
  <1>4. /\ q \in Searches /\ search[q].on
        /\ \A l \in todo : l \in Listings /\ l \notin decided[q]
                           /\ listing[l].stamp >= optIn[q]
    BY <1>1, <1>3 DEF SavedInv, RequestsOK, RunOK
  <1>5. search[q].state = "saved"
    BY <1>4 DEF SavedInv, SearchesOK
  <1>6. \A l \in Listings : alerts[q][l] \in {0, 1} /\ (alerts[q][l] = 1 => l \in decided[q])
    BY <1>4, <1>5 DEF SavedInv, AlertsOK
  <1>7. ASSUME NEW l \in Listings
        PROVE  /\ told[l] \in {0, 1} /\ (told[l] = 1 => l \in decided[q] \cup todo)
               /\ told[l] > alerts[q][l] => l \in todo
    <2>1. CASE l \in todo /\ Saved!Matched(l)
      <3>1. told[l] = alerts[q][l] + 1 /\ alerts[q][l] = 0
        BY <1>2, <1>4, <1>6, <2>1
      <3> QED BY <2>1, <3>1
    <2>2. CASE ~(l \in todo /\ Saved!Matched(l))
      <3>1. told[l] = alerts[q][l]
        BY <1>2, <2>2
      <3> QED BY <1>6, <3>1
    <2> QED BY <2>1, <2>2
  <1>8. told \in [Listings -> {0, 1}]
    BY <1>2, <1>7
  <1>9. /\ alerts' \in [Searches -> [Listings -> {0, 1}]] /\ alerts'[q] = told
        /\ \A k \in Searches \ {q} : alerts'[k] = alerts[k]
    BY <1>3, <1>4, <1>8 DEF SavedInv, AlertsOK
  <1>10. /\ decided' \in [Searches -> SUBSET Listings] /\ decided'[q] = decided[q] \cup todo
         /\ \A k \in Searches \ {q} : decided'[k] = decided[k]
    BY <1>3, <1>4 DEF SavedInv, AlertsOK
  <1>11. AlertsOK'
    <2>1. ASSUME NEW k \in Searches, NEW l \in Listings, alerts'[k][l] = 1
          PROVE  l \in decided'[k] \/ search'[k].state = "removed"
      <3>1. CASE k = q
        BY <1>7, <1>9, <1>10, <2>1, <3>1
      <3>2. CASE k # q
        BY <1>3, <1>9, <1>10, <2>1, <3>2 DEF SavedInv, AlertsOK
      <3> QED BY <3>1, <3>2
    <2> QED BY <1>9, <1>10, <2>1 DEF AlertsOK
  <1>12. RequestsOK'
    <2>1. request[s] # Saved!Idle
      BY <1>3 DEF Saved!Idle
    <2>2. DOMAIN request' = Sessions /\ \A t \in Sessions : request'[t] = Saved!Idle
      BY <1>3, <2>1 DEF SavedInv, RequestsOK
    <2> QED BY <2>2 DEF RequestsOK, RunOK, Saved!Idle
  <1>13. SavedInv'
    BY <1>3, <1>11, <1>12 DEF SavedInv, ListingsOK, SearchesOK
  <1>14. ASSUME NEW k \in Searches, NEW l \in Listings, alerts'[k][l] > alerts[k][l]
         PROVE  search[k].on /\ listing[l].stamp >= optIn[k]
    <2>1. CASE k = q
      BY <1>4, <1>7, <1>9, <1>14, <2>1
    <2>2. CASE k # q
      <3>1. alerts'[k][l] = alerts[k][l] /\ alerts[k][l] \in {0, 1}
        BY <1>9, <2>2 DEF SavedInv, AlertsOK
      <3> QED BY <1>14, <3>1
    <2> QED BY <2>1, <2>2
  <1> QED BY <1>13, <1>14 DEF Saved!SinceOptIn

\* Nothing else tells about a listing.
LEMMA SavedTellsNothing ==
  ASSUME SavedInv, UNCHANGED alerts PROVE Saved!SinceOptIn
  <1>1. \A q \in Searches, l \in Listings : alerts[q][l] \in {0, 1}
    BY DEF SavedInv, AlertsOK
  <1>2. \A q \in Searches, l \in Listings : ~(alerts'[q][l] > alerts[q][l])
    BY <1>1
  <1> QED BY <1>2 DEF Saved!SinceOptIn

LEMMA SavedListings ==
  ASSUME SavedInv, NEW l \in Listings,
         Saved!PublishDecide(l) \/ Saved!PublishCommit(l) \/ Saved!Edit(l)
  PROVE  SavedInv'
  <1>1. UNCHANGED <<clock, search, decided, alerts, optIn, request>>
    BY DEF Saved!PublishDecide, Saved!PublishCommit, Saved!Edit
  <1>2. /\ listing[l] \in Publication /\ (listing[l].visible => listing[l].stamp # 0)
        /\ clock \in Nat \ {0} /\ listing[l].fits \in BOOLEAN
    BY DEF SavedInv, ListingsOK, Publication
  <1>3. PICK p :
          \/ /\ listing[l].stamp = 0 /\ p = [listing[l] EXCEPT !.stamp = clock]
             /\ listing' = [listing EXCEPT ![l] = p]
          \/ /\ listing[l].stamp # 0 /\ p = [listing[l] EXCEPT !.visible = TRUE]
             /\ listing' = [listing EXCEPT ![l] = p]
          \/ /\ p = [listing[l] EXCEPT !.fits = ~listing[l].fits]
             /\ listing' = [listing EXCEPT ![l] = p]
    BY DEF Saved!PublishDecide, Saved!PublishCommit, Saved!Edit
  <1>4. /\ p \in Publication /\ (p.visible => p.stamp # 0)
        /\ listing[l].visible => p.visible /\ p.stamp = listing[l].stamp
    <2>1. CASE listing[l].stamp = 0 /\ p = [listing[l] EXCEPT !.stamp = clock]
      BY <1>2, <2>1 DEF Publication
    <2>2. CASE listing[l].stamp # 0 /\ p = [listing[l] EXCEPT !.visible = TRUE]
      BY <1>2, <2>2 DEF Publication
    <2>3. CASE p = [listing[l] EXCEPT !.fits = ~listing[l].fits]
      BY <1>2, <2>3 DEF Publication
    <2> QED BY <1>3, <2>1, <2>2, <2>3
  <1>5. listing' = [listing EXCEPT ![l] = p]
    BY <1>3
  <1> QED BY <1>1, <1>4, <1>5, SavedListing

LEMMA SavedProcessLock ==
  ASSUME SavedInv, NEW s \in Sessions, NEW q \in Searches, Saved!ProcessLock(s, q)
  PROVE  SavedInv'
  <1>1. PICK w : w = [op |-> "process", search |-> q, todo |-> Saved!Pending(q)]
    OBVIOUS
  <1>2. /\ request' = [request EXCEPT ![s] = w] /\ search[q].on
        /\ \A t \in Sessions \ {s} : request[t] = Saved!Idle
        /\ UNCHANGED <<clock, listing, search, decided, alerts, optIn>>
    BY <1>1 DEF Saved!ProcessLock, Saved!UserFree
  <1>3. RunOK(w)
    <2>1. w.search = q /\ w.todo = Saved!Pending(q)
      BY <1>1
    <2>2. search[q].since = optIn[q]
      BY DEF SavedInv, SearchesOK
    <2> QED BY <1>2, <2>1, <2>2 DEF RunOK, Saved!Pending
  <1> QED BY <1>2, <1>3, SavedRequest

LEMMA SavedStep == ASSUME SavedInv, Saved!Next PROVE SavedInv' /\ Saved!SinceOptIn
  <1>1. ASSUME Saved!Tick PROVE SavedInv'
    BY <1>1 DEF Saved!Tick, SavedInv, ListingsOK, SearchesOK, AlertsOK, RequestsOK, RunOK
  <1>2. ASSUME NEW s \in Sessions, Saved!SaveLock(s) PROVE SavedInv'
    <2>1. PICK w : w = [op |-> "save"]
      OBVIOUS
    <2>2. /\ request' = [request EXCEPT ![s] = w]
          /\ \A t \in Sessions \ {s} : request[t] = Saved!Idle
          /\ UNCHANGED <<clock, listing, search, decided, alerts, optIn>>
      BY <1>2, <2>1 DEF Saved!SaveLock, Saved!UserFree
    <2>3. RunOK(w)
      BY <2>1 DEF RunOK
    <2> QED BY <2>2, <2>3, SavedRequest
  <1>3. ASSUME NEW s \in Sessions, Saved!Abort(s) PROVE SavedInv'
    BY <1>3, SavedRequest DEF Saved!Abort
  <1>4. ASSUME ~\E s \in Sessions : Saved!ProcessCommit(s) PROVE UNCHANGED alerts
    BY <1>4 DEF Saved!Next, Saved!Tick, Saved!PublishDecide, Saved!PublishCommit,
       Saved!Edit, Saved!Remove, Saved!SetAlerts, Saved!SaveLock, Saved!SaveCommit,
       Saved!Abort, Saved!ProcessLock
  <1>5. SavedInv'
    BY <1>1, <1>2, <1>3, SavedListings, SavedSetAlerts, SavedRemove, SavedSaveCommit,
       SavedProcessLock, SavedProcessCommit DEF Saved!Next
  <1>6. Saved!SinceOptIn
    BY <1>4, SavedProcessCommit, SavedTellsNothing
  <1> QED BY <1>5, <1>6

LEMMA SavedCounts == SavedInv => Saved!AlertedOnce
  BY DEF SavedInv, AlertsOK, Saved!AlertedOnce

-----------------------------------------------------------------------------
(* The jobs together. *)

JobsInv == SyncInv /\ WebhooksInv /\ DigestInv /\ SavedInv

LEMMA JobsStart == JobsInit => JobsInv
  BY SyncStart, WebhooksStart, DigestStart, SavedStart DEF JobsInit, JobsInv

\* A component goes on in its scene and rests in the others.
LEMMA JobsSteps ==
  ASSUME [JobsNext]_jobsVars
  PROVE  /\ Sync!Next \/ UNCHANGED syncVars
         /\ Webhooks!Next \/ UNCHANGED webhookVars
         /\ Digest!Next \/ UNCHANGED digestVars
         /\ Saved!Next \/ UNCHANGED searchVars
  BY DEF JobsNext, jobsVars

\* In the scenes of the others, what a listing's search has told stays.
LEMMA SavedRests ==
  ASSUME SavedInv, UNCHANGED searchVars PROVE SavedInv' /\ Saved!SinceOptIn
  BY SavedStill, SavedTellsNothing DEF searchVars

LEMMA JobsStep == ASSUME JobsInv, [JobsNext]_jobsVars PROVE JobsInv'
  <1>1. SyncInv'
    <2>1. UNCHANGED syncVars => UNCHANGED <<source, preview, fetching, current>>
      BY DEF syncVars
    <2> QED BY <2>1, JobsSteps, SyncStep, SyncStill DEF JobsInv
  <1>2. WebhooksInv'
    BY JobsSteps, WebhooksStep, WebhooksStill DEF JobsInv
  <1>3. DigestInv'
    BY JobsSteps, DigestStep, DigestStill DEF JobsInv
  <1>4. SavedInv'
    BY JobsSteps, SavedStep, SavedRests DEF JobsInv
  <1> QED BY <1>1, <1>2, <1>3, <1>4 DEF JobsInv

LEMMA JobsInvariance == JobsSpec => []JobsInv
  <1>1. JobsInv /\ [JobsNext]_jobsVars => JobsInv'
    BY JobsStep
  <1> QED BY <1>1, JobsStart, PTL DEF JobsSpec

\* However often workers overwrite each other's results, a delivery has no more
\* attempts than allowed and was answered if it is recorded as delivered, a digest
\* that is switched on has attempts left, and a listing is told about once.
THEOREM CountsKeptAlways == JobsSpec => []CountsKept
  <1>1. JobsInv => CountsKept
    BY WebhooksCount, DigestCounts, SavedCounts DEF JobsInv, CountsKept
  <1> QED BY <1>1, JobsInvariance, PTL

\* What was fetched, chosen or sent under a consent, a lease or a revision that is
\* gone changes nothing when it arrives.
THEOREM StaleWorkIsDroppedAlways == JobsSpec => StaleWorkIsDropped
  <1> DEFINE Dropped ==
        /\ Sync!AppliesCurrent /\ Sync!AutomationKeepsBlocks /\ Sync!AsPreviewed
        /\ Webhooks!Consented
        /\ Digest!AcceptsNew /\ Digest!SinceOptIn
        /\ Saved!SinceOptIn
  <1>1. ASSUME JobsInv, [JobsNext]_jobsVars PROVE Dropped
    <2>1. Sync!AppliesCurrent /\ Sync!AutomationKeepsBlocks /\ Sync!AsPreviewed
      BY <1>1, JobsSteps, SyncDropsStale DEF JobsInv
    <2>2. Webhooks!Consented
      BY <1>1, WebhooksConsent DEF JobsInv
    <2>3. Digest!AcceptsNew /\ Digest!SinceOptIn
      BY <1>1, DigestDropsStale DEF JobsInv
    <2>4. Saved!SinceOptIn
      BY <1>1, JobsSteps, SavedStep, SavedRests DEF JobsInv
    <2> QED BY <2>1, <2>2, <2>3, <2>4
  <1>2. JobsInv /\ [JobsNext]_jobsVars => [Dropped]_jobsVars
    BY <1>1
  <1>3. StaleWorkIsDropped <=> [][Dropped]_jobsVars
    BY DEF StaleWorkIsDropped
  <1> HIDE DEF Dropped
  <1> QED BY <1>2, <1>3, JobsInvariance, PTL DEF JobsSpec
=============================================================================
