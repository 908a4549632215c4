---------------------------- MODULE BackgroundJobs ----------------------------
(***************************************************************************)
(* The jobs that Celery's beat starts over and over, and the copies that     *)
(* expire by themselves: imported calendars, webhooks, the email digest,     *)
(* alerts of saved searches, the cache of free slots and budgets of requests. *)
(* The components share no rows, so each runs alone over its own variables:  *)
(* the variable scene, chosen at the start, says which.                      *)
(***************************************************************************)
EXTENDS Integers, FiniteSets

CONSTANTS
  Workers, Sessions,
  None,
  MaxFaults,      \* bound on the crashes and failures of a component
  \* Imported calendars.
  Sources, Feeds, MaxRevision,
  \* Webhooks.
  Hooks, Events, Managers, BatchSize, MaxAttempts, MaxActive, MaxRetries,
  MaxCrashes,
  \* The email digest.
  Batch, MaxFailures, MaxNotes, MaxChanges,
  \* Saved searches and the listings they tell about.
  Searches, MaxSaved, Listings, OwnListings, LastTick,
  \* The hours of a resource.
  Intervals, SlotLength, MaxEdits,
  \* Budgets of requests.
  Callers, HostOf, AccountOf, Hosts, Accounts, HostLimit, AccountLimit, Window,
  MaxSilences

\* None stands for what is absent, and is neither a source nor a revision; a
\* delivery and a digest are tried at least once; nobody is not a worker.
ASSUME JobsAssumption ==
  /\ None \notin Sources \cup Nat
  /\ MaxAttempts \in Nat \ {0} /\ MaxFailures \in Nat \ {0}
  /\ "nobody" \notin Workers

VARIABLES
  scene,
  source, conn, owned, blocks, stays, shortStay, preview, fetching, current,
  slips,
  hook, row, batch, locked, known, sent, desk, received, consented, crashes,
  notes, verified, pref, items, mailing, optedIn, turns,
  clock, listing, search, decided, alerts, optIn, request, rollbacks,
  rules, exceptions, booked, cache, call, changes, deaths,
  budget, attempt, answer, silences

syncVars ==
  <<source, conn, owned, blocks, stays, shortStay, preview, fetching, current,
    slips>>
webhookVars ==
  <<hook, row, batch, locked, known, sent, desk, received, consented, crashes>>
digestVars == <<notes, verified, pref, items, mailing, optedIn, turns>>
searchVars ==
  <<clock, listing, search, decided, alerts, optIn, request, rollbacks>>
hoursVars == <<rules, exceptions, booked, cache, call, changes, deaths>>
ratesVars == <<budget, attempt, answer, silences>>

jobsVars ==
  <<scene, syncVars, webhookVars, digestVars, searchVars, hoursVars, ratesVars>>

-----------------------------------------------------------------------------
(* The instances. *)

ConfigureOnly == {"configure"}
Sync == INSTANCE OccupancySync WITH
  Doing <- ConfigureOnly, job <- fetching, faults <- slips

Webhooks == INSTANCE WebhookDeliveries WITH budget <- crashes

Digest == INSTANCE EmailDigest WITH
  MaxAttempts <- MaxFailures, job <- mailing, budget <- turns

Saved == INSTANCE SavedSearchAlerts WITH
  Own <- OwnListings, work <- request, faults <- rollbacks

\* Every kind of change.
EveryKind == {"rules", "exceptions", "booked"}
Hours == INSTANCE AvailabilityHours WITH
  MaxChanges <- MaxEdits, Kinds <- EveryKind, work <- call, faults <- deaths

AddressOf(c) == HostOf[c]
UserOf(c) == AccountOf[c]
Rates == INSTANCE RateLimits WITH
  Host <- AddressOf, Account <- UserOf, MaxFaults <- MaxSilences,
  request <- attempt, faults <- silences

-----------------------------------------------------------------------------
(* The scenes. *)

\* All begin as they do by themselves; where a component's beginning is open,
\* only its own scene tries every way.
JobsInit ==
  /\ scene \in {"calendars", "webhooks", "digest", "searches", "hours", "limits"}
  /\ Sync!Init /\ Webhooks!Init /\ Digest!Init /\ Saved!Init /\ Hours!Init
  /\ Rates!Init
  /\ scene # "digest" => verified
  /\ scene # "hours" => rules = {}

JobsNext ==
  /\ UNCHANGED scene
  /\ \/ /\ scene = "calendars" /\ Sync!Next
        /\ UNCHANGED <<webhookVars, digestVars, searchVars, hoursVars, ratesVars>>
     \/ /\ scene = "webhooks" /\ Webhooks!Next
        /\ UNCHANGED <<syncVars, digestVars, searchVars, hoursVars, ratesVars>>
     \/ /\ scene = "digest" /\ Digest!Next
        /\ UNCHANGED <<syncVars, webhookVars, searchVars, hoursVars, ratesVars>>
     \/ /\ scene = "searches" /\ Saved!Next
        /\ UNCHANGED <<syncVars, webhookVars, digestVars, hoursVars, ratesVars>>
     \/ /\ scene = "hours" /\ Hours!Next
        /\ UNCHANGED <<syncVars, webhookVars, digestVars, searchVars, ratesVars>>
     \/ /\ scene = "limits" /\ Rates!Next
        /\ UNCHANGED <<syncVars, webhookVars, digestVars, searchVars, hoursVars>>

\* The fairness of the components, each in its scene.
SyncFairness ==
  /\ \A x \in Sources :
       /\ WF_syncVars(scene = "calendars"
            /\ \E w \in Workers : Sync!Claim(w, x) \/ Sync!ClaimInactive(w, x))
       /\ WF_syncVars(scene = "calendars" /\ Sync!LeaseExpires(x))
  /\ \A w \in Workers :
       /\ WF_syncVars(scene = "calendars" /\ Sync!Fetch(w))
       /\ WF_syncVars(scene = "calendars" /\ Sync!Finish(w))

WebhookFairness ==
  /\ \A w \in Workers : WF_webhookVars(scene = "webhooks" /\ Webhooks!Work(w))
  /\ \A d \in Hooks \X Events :
       WF_webhookVars(scene = "webhooks" /\ Webhooks!BackOff(d))

DigestFairness ==
  /\ \A w \in Workers : WF_digestVars(scene = "digest" /\ Digest!Work(w))
  /\ WF_digestVars(scene = "digest" /\ Digest!ClaimNothing)
  /\ WF_digestVars(scene = "digest" /\ Digest!LeaseEnds)
  /\ WF_digestVars(scene = "digest" /\ Digest!BecomeDue)

SearchFairness ==
  /\ \A s \in Sessions :
       /\ WF_searchVars(scene = "searches" /\ Saved!ProcessCommit(s))
       /\ WF_searchVars(scene = "searches" /\ Saved!SaveCommit(s))
  /\ \A q \in Searches :
       SF_searchVars(scene = "searches" /\ \E s \in Sessions : Saved!ProcessLock(s, q))

HoursFairness ==
  /\ WF_hoursVars(scene = "hours" /\ Hours!CacheExpires)
  /\ \A s \in Sessions : WF_hoursVars(scene = "hours" /\ Hours!Ends(s))

RatesFairness ==
  /\ WF_ratesVars(scene = "limits" /\ Rates!Tick)
  /\ \A c \in Callers :
       /\ WF_ratesVars(scene = "limits" /\ Rates!AtHost(c))
       /\ WF_ratesVars(scene = "limits" /\ Rates!AtAccount(c))

JobsSpec ==
  /\ JobsInit /\ [][JobsNext]_jobsVars
  /\ SyncFairness /\ WebhookFairness /\ DigestFairness /\ SearchFairness
  /\ HoursFairness /\ RatesFairness

-----------------------------------------------------------------------------
(* Properties of the components. *)

\* Workers that overwrite each other's results count right: a delivery has no
\* more attempts than allowed and was answered if it is recorded as delivered
\* (WebhookDeliveries), a digest that is switched on has attempts left
\* (EmailDigest), and a search tells about a listing once (SavedSearchAlerts).
CountsKept ==
  /\ Webhooks!AttemptsBounded /\ Webhooks!DeliveredWasReceived
  /\ Digest!EnabledHasAttempts
  /\ Saved!AlertedOnce

\* What was fetched, chosen or sent under a consent, a lease or a revision that
\* is gone changes nothing: a download is applied to the source as it was at the
\* claim and keeps the blocks the owner wants kept (OccupancySync), a
\* subscription that was off before the batch gets nothing (WebhookDeliveries),
\* no notification is accepted twice, and neither a mail nor an alert reaches
\* back before the last opt-in (EmailDigest, SavedSearchAlerts).
StaleWorkIsDropped ==
  [][/\ Sync!AppliesCurrent /\ Sync!AutomationKeepsBlocks /\ Sync!AsPreviewed
     /\ Webhooks!Consented
     /\ Digest!AcceptsNew /\ Digest!SinceOptIn
     /\ Saved!SinceOptIn]_jobsVars

\* A calendar that is switched on and due is tried, whatever workers crash
\* (OccupancySync).
DueIsTried == Sync!DueIsTried

\* Every queued delivery is delivered or fails, and every new notification is
\* accepted for a mail unless the digest is switched off: neither a crash nor a
\* lost lease leaves one behind (WebhookDeliveries, EmailDigest).
QueuesDrain ==
  /\ Webhooks!QueueDrains
  /\ Digest!NotesAreMailed

\* A publication that commits late is processed by the searches that are
\* switched on (SavedSearchAlerts).
LateCommitsAreSeen == Saved!LateCommitsAreSeen

\* When the hours stop changing, the slots that are shown are in the end those
\* there are (AvailabilityHours).
SlotsCatchUp == Hours!SlotsCatchUp

\* A caller who keeps trying is served again and again (RateLimits).
RetriersAreServed == scene = "limits" => Rates!RetriersAreServed
=============================================================================
