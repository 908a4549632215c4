--------------------------- MODULE HomesAndPeople ---------------------------
(***************************************************************************)
(* Long lets, their agreements first, and what surrounds homes and people:   *)
(* inquiries, the reminders and the review of a stay, accounts, moderation,  *)
(* reviews, photos, work orders, the warehouse, waivers and imported         *)
(* calendars.  The components share no rows that their properties tell       *)
(* apart, so each runs alone over its own variables: the variable scene,     *)
(* chosen at the start, says which.                                          *)
(***************************************************************************)
EXTENDS RentalAgreements

CONSTANTS
  \* Inquiries, in three scenes.
  Visitors, Owner, Properties, Conversations, Asked, TalkTimes, ViewingTimes,
  Notice, MaxMessages, MaxRepeats, LastViewing,
  \* Reminders and the review of a stay.
  Guest, Host, Dates, MaxMoves, LastDay,
  \* Accounts.
  Keys, Resets, Links, MaxKeys, Life, Cooldown, Wait, MaxVersion, MaxRequests,
  LastTick,
  \* Moderation of listings, with two reports and with a longer history.
  Owners, Reporters, Admins, Reports, MaxDecisions, Appealed, Appeals, MaxAppeals,
  \* Reviews, photos, work orders, the warehouse, and waivers.
  Readers, MaxReviews, Files, Images, MaxPhotos, MaxFaults, Staff, MaxLog,
  Reservations, Resources, Days, MaxRuns, Texts, MaxTexts,
  \* Imported calendars: several of them, and those that workers fetch.
  Sources, Feeds, Fetchers, MaxRevision, MaxSlips, Fetched, Downloads, MaxImports

ASSUME AccountsAssumption == None \notin {"customer", "owner"}
ASSUME DatesAssumption ==
  \A d \in Dates : d \in [in : Nat, out : Nat] /\ d.in < d.out
ASSUME FetchedAssumption == None \notin Fetched
ASSUME RowsOfSetsAssumption == MaxPhotos \in Nat /\ IsFiniteSet(Reservations)

VARIABLES
  scene, inquiry, messages, screen, wants, reminders, stay, enabled,
  delivered, moves, ops, now, account, bearer, key, reset, link, application,
  listing, events, rated, desk, photos, stored, used, order, team, log,
  reservations, resourceRows, venueRows, runs, template, versions, signed,
  shown, source, conn, owned, blocks, stays, shortStay, preview, job, current,
  clock, review, report, faults

peopleVars ==
  <<vars, scene,
    inquiry, messages, screen, wants, reminders, stay, enabled, delivered,
    moves, ops, now, account, bearer, key, reset, link, application, listing,
    events, rated, desk, photos, stored, used, order, team, log, reservations,
    resourceRows, venueRows, runs, template, versions, signed, shown, source,
    conn, owned, blocks, stays, shortStay, preview, job, current, clock,
    review, report, faults>>

-----------------------------------------------------------------------------
(* The components. *)

Talk == {"update", "send", "read"}
Conversation == INSTANCE RentalInquiries WITH
  Inquiries <- Conversations, Requests <- Asked, Times <- TalkTimes,
  LastTick <- 0, Day <- Notice, Ops <- Talk

UpdateOnly == {"update"}
Repeats == INSTANCE RentalInquiries WITH
  Times <- TalkTimes, MaxMessages <- MaxRepeats, LastTick <- 0,
  Day <- Notice, Ops <- UpdateOnly

UpdateAndRemind == {"update", "remind"}
Viewings == INSTANCE RentalInquiries WITH
  Inquiries <- Conversations, Requests <- Asked, Times <- ViewingTimes,
  LastTick <- LastViewing, Day <- Notice, Ops <- UpdateAndRemind

FollowUps == INSTANCE StayFollowUps WITH LastTick <- LastDay

\* Sessions and links, roles, and signing up.
SessionOps == {"login", "logout", "key", "reset"}
RoleOps == {"login", "key", "apply", "provision"}
SignUpOps == {"register", "google", "login", "mail"}
AccountMixes == {SessionOps, RoleOps, SignUpOps}
People == INSTANCE Accounts WITH Mixes <- AccountMixes

ASSUME KeysAssumption ==
  /\ IsFiniteSet(Keys) /\ MaxKeys \in Nat
  /\ Life \in Nat /\ LastTick \in [AccountMixes -> Nat]

Reported == INSTANCE PropertyModeration WITH MaxVersion <- MaxDecisions
Contested == INSTANCE PropertyModeration WITH
  Reports <- Appealed, Requests <- Appeals, MaxVersion <- MaxAppeals

Reviewed == INSTANCE Reviews WITH
  Reporters <- Readers, Moderators <- Sessions, Writers <- Requests

Album == INSTANCE ListingPhotos WITH Keys <- Files

Orders == INSTANCE Maintenance

Cancellations == {"cancel"}
Warehouse == INSTANCE AnalyticsPipeline WITH
  Workers <- Sessions, Changes <- Cancellations

Waiver == INSTANCE Waivers WITH MaxVersion <- MaxTexts

\* Several calendars, and what else is booked.
ImportAndBook == {"import", "book"}
Calendars == INSTANCE OccupancySync WITH
  Workers <- Fetchers, MaxFaults <- MaxSlips, Doing <- ImportAndBook

\* Imports by hand and by workers, which overtake each other.
ImportOnly == {"import"}
Imports == INSTANCE OccupancySync WITH
  Sources <- Fetched, Feeds <- Downloads, Workers <- Sessions,
  MaxRevision <- MaxImports, Doing <- ImportOnly

-----------------------------------------------------------------------------
(* The scenes. *)

Talks == {"conversation", "requests", "viewings"}
Moderated == {"reports", "appeals"}
Occupied == {"calendars", "imports"}

\* No agreement has been made.
NoAgreements ==
  /\ today = 0 /\ active = Inquiries
  /\ agreement = [a \in Agreements |-> NoAgreement]
  /\ charge = [a \in Agreements |-> <<>>] /\ ends = [a \in Agreements |-> <<>>]
NoInquiries ==
  /\ inquiry = None /\ messages = None /\ screen = None /\ wants = None
  /\ reminders = None
NoFollowUps ==
  /\ stay = None /\ enabled = None /\ delivered = None /\ moves = None
NoAccounts ==
  /\ ops = None /\ now = None /\ account = None /\ bearer = None /\ key = None
  /\ reset = None /\ link = None /\ application = None
NoModeration == listing = None /\ events = None
NoReviews == rated = None /\ desk = None
NoPhotos == photos = None /\ stored = None /\ used = None
NoMaintenance == order = None /\ team = None /\ log = None
NoAnalytics ==
  /\ reservations = None /\ resourceRows = None /\ venueRows = None
  /\ runs = None
NoWaivers ==
  /\ template = None /\ versions = None /\ signed = None /\ shown = None
NoOccupancy ==
  /\ source = None /\ conn = None /\ owned = None /\ blocks = None
  /\ stays = None /\ shortStay = None /\ preview = None /\ job = None
  /\ current = None

PeopleInit ==
  /\ \/ scene = "agreements" /\ Init
     \/ scene = "conversation" /\ Conversation!Init
     \/ scene = "requests" /\ Repeats!Init
     \/ scene = "viewings" /\ Viewings!Init
     \/ scene = "follow-ups" /\ FollowUps!Init
     \/ scene = "accounts" /\ People!Init
     \/ scene = "reports" /\ Reported!Init
     \/ scene = "appeals" /\ Contested!Init
     \/ scene = "reviews" /\ Reviewed!Init
     \/ scene = "photos" /\ Album!Init
     \/ scene = "work orders" /\ Orders!Init
     \/ scene = "warehouse" /\ Warehouse!Init
     \/ scene = "waiver" /\ Waiver!Init
     \/ scene = "calendars" /\ Calendars!Init
     \/ scene = "imports" /\ Imports!Init
  /\ scene # "agreements" => NoAgreements
  /\ scene \notin Talks => NoInquiries
  /\ scene # "follow-ups" => NoFollowUps
  /\ scene # "accounts" => NoAccounts
  /\ scene \notin Moderated => NoModeration
  /\ scene # "reviews" => NoReviews
  /\ scene # "photos" => NoPhotos
  /\ scene # "work orders" => NoMaintenance
  /\ scene # "warehouse" => NoAnalytics
  /\ scene # "waiver" => NoWaivers
  /\ scene \notin Occupied => NoOccupancy
  /\ scene \notin Talks \cup {"follow-ups"} => clock = None
  /\ scene \notin {"follow-ups", "reviews"} => review = None
  /\ scene \notin Moderated \cup {"reviews"} => report = None
  /\ scene \notin Occupied \cup {"photos"} => faults = None
  /\ scene \in Occupied => work = None

PeopleNext ==
  /\ UNCHANGED scene
  /\ \/ scene = "agreements" /\ Next
     \/ scene = "conversation" /\ Conversation!Next
     \/ scene = "requests" /\ Repeats!Next
     \/ scene = "viewings" /\ Viewings!Next
     \/ scene = "follow-ups" /\ FollowUps!Next
     \/ scene = "accounts" /\ People!Next
     \/ scene = "reports" /\ Reported!Next
     \/ scene = "appeals" /\ Contested!Next
     \/ scene = "reviews" /\ Reviewed!Next
     \/ scene = "photos" /\ Album!Next
     \/ scene = "work orders" /\ Orders!Next
     \/ scene = "warehouse" /\ Warehouse!Next
     \/ scene = "waiver" /\ Waiver!Next
     \/ scene = "calendars" /\ Calendars!Next
     \/ scene = "imports" /\ Imports!Next
  /\ scene # "agreements" => UNCHANGED <<today, active, agreement, charge, ends>>
  /\ scene \notin Talks => UNCHANGED <<inquiry, messages, screen, wants, reminders>>
  /\ scene # "follow-ups" => UNCHANGED <<stay, enabled, delivered, moves>>
  /\ scene # "accounts" =>
       UNCHANGED <<ops, now, account, bearer, key, reset, link, application>>
  /\ scene \notin Moderated => UNCHANGED <<listing, events>>
  /\ scene # "reviews" => UNCHANGED <<rated, desk>>
  /\ scene # "photos" => UNCHANGED <<photos, stored, used>>
  /\ scene # "work orders" => UNCHANGED <<order, team, log>>
  /\ scene # "warehouse" =>
       UNCHANGED <<reservations, resourceRows, venueRows, runs>>
  /\ scene # "waiver" => UNCHANGED <<template, versions, signed, shown>>
  /\ scene \notin Occupied =>
       UNCHANGED <<source, conn, owned, blocks, stays, shortStay, preview, job,
                   current>>
  /\ scene \notin Talks \cup {"follow-ups"} => UNCHANGED clock
  /\ scene \notin {"follow-ups", "reviews"} => UNCHANGED review
  /\ scene \notin Moderated \cup {"reviews"} => UNCHANGED report
  /\ scene \notin Occupied \cup {"photos"} => UNCHANGED faults
  /\ scene \in Occupied => UNCHANGED work

PeopleSpec == PeopleInit /\ [][PeopleNext]_peopleVars

-----------------------------------------------------------------------------
(* Properties of the components, besides those of RentalAgreements. *)

\* Rows that are written apart tell one story: the charges of an agreement are
\* those of its period (RentalAgreements), a suspended listing is hidden and
\* its history numbered (PropertyModeration), a report is about the review
\* that is there (Reviews), photos are in the store and in order
\* (ListingPhotos), the log ends with the order's status (Maintenance), the
\* warehouse's two tables agree on days that are past (AnalyticsPipeline),
\* the versions of a waiver differ (Waivers), a review is of a stay that took
\* place (StayFollowUps) and what counts as read was shown (RentalInquiries).
RowsAgree ==
  /\ scene = "agreements" => ChargesMatchPeriod
  /\ scene = "conversation" => Conversation!ReadWasShown
  /\ scene = "follow-ups" => FollowUps!ReviewedAfterStay
  /\ scene = "reports" => Reported!SuspendedIsHidden /\ Reported!HistoryIsLinear
  /\ scene = "appeals" => Contested!SuspendedIsHidden /\ Contested!HistoryIsLinear
  /\ scene = "reviews" => Reviewed!ReportsFollowReview
  /\ scene = "photos" => Album!PhotosStored /\ Album!AlbumInOrder
  /\ scene = "work orders" => Orders!LogTellsStatus
  /\ scene = "warehouse" => Warehouse!TablesReconcile
  /\ scene = "waiver" => Waiver!VersionsDiffer

\* What there is to be one of stays single, and no repeated or simultaneous
\* request runs into a unique index: agreements and early ends, inquiries,
\* messages and viewing reminders, links, keys and applications of an account,
\* open reports, and the reminders of a stay.
SinglesKept ==
  /\ scene = "agreements" => UniqueRows
  /\ scene = "conversation" => Conversation!RequestsNeverCollide
  /\ scene = "requests" => Repeats!OneActiveInquiry /\ Repeats!RequestsNeverCollide
  /\ scene = "viewings" => Viewings!RemindedOnce
  /\ scene = "follow-ups" => FollowUps!RemindersNeverCollide
  /\ scene = "accounts" => People!SinglesKept
  /\ scene = "reports" => Reported!OneOpenReport

\* Who decides, decides about what was on the screen and still is so when the
\* decision is written: a viewing that was replaced is not agreed, an ended
\* inquiry gets neither messages nor an agreement, a logout spares newer
\* sessions, an overtaken link changes no password, of two decisions about a
\* listing one is heard and only its owner publishes it, a reminder fits the
\* stay it is about, and an import removes what its preview listed.
DecidedAsSeen ==
  [][/\ scene = "agreements" => LetWhileActive
     /\ scene = "conversation" => Conversation!ViewingShown /\ Conversation!EndedUntouched
     /\ scene = "viewings" => Viewings!ViewingShown /\ Viewings!EndedUntouched
     /\ scene = "follow-ups" => FollowUps!RemindsOfStay
     /\ scene = "accounts" => People!SparesNewer /\ People!LinkStillLive
     /\ scene = "reports" => Reported!DecidesOnSight /\ Reported!OwnersPublish
     /\ scene = "appeals" => Contested!DecidesOnSight /\ Contested!OwnersPublish
     /\ scene = "imports" =>
          Imports!AsPreviewed /\ Imports!AppliesCurrent /\ Imports!AutomationKeepsBlocks]_peopleVars

\* No session and no key works with a role it was not issued under (Accounts).
RolesNeverGrow == scene = "accounts" => People!RolesNeverGrow

\* Reports, decisions and edits never wait for each other (PropertyModeration).
NoMutualWait ==
  /\ scene = "reports" => Reported!NoMutualWait
  /\ scene = "appeals" => Contested!NoMutualWait

\* What one calendar blocks is free of stays, of the owner's blocks and of every
\* other calendar, whichever came first (OccupancySync).
CalendarsKeepApart == scene = "calendars" => Calendars!SourcesKeepApart
=============================================================================
