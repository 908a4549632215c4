------------------------------ MODULE Accounts ------------------------------
(***************************************************************************)
(* One account: its registration, sessions, API keys, mailed links, the     *)
(* request for the owner role and what administrators make of it.           *)
(*                                                                          *)
(* A request is authenticated first and locks the account's row later, so   *)
(* that others are served in between.  A handler decides at its lock step   *)
(* and writes at its commit; a refused or lost request ends (Abort) and     *)
(* changes nothing.                                                         *)
(***************************************************************************)
EXTENDS Integers, Sequences, FiniteSets

CONSTANTS
  Keys, Resets, Links,  \* rows of API keys, reset and verification tokens (bounds)
  Sessions,       \* requests served at a time
  MaxKeys,        \* active keys an account may have
  Life,           \* how long a key with an end, or a link, is good
  Cooldown,       \* the time between two verification mails
  Wait,           \* the time between two requests for the owner role
  MaxVersion, MaxRequests,  \* bounds
  Mixes,          \* which requests occur together
  LastTick,       \* bound on the time, for each of Mixes
  None

VARIABLES
  ops,            \* the requests that occur, one of Mixes
  now,
  account,        \* the row: role, version of its sessions, verified
  bearer,         \* the sessions that clients hold: version, and role (history)
  key, reset, link,
  application,    \* requests for the owner role, in the order of their rows
  work            \* what each session is doing

vars == <<ops, now, account, bearer, key, reset, link, application, work>>

Idle == [op |-> "idle", at |-> "done"]
NoKey == [status |-> "none", until |-> 0, role |-> None]
NoLink == [status |-> "none", at |-> 0]
Nobody == [role |-> None, version |-> 0, verified |-> FALSE, google |-> FALSE]
Roles == {"customer", "owner"}
Forever == LastTick[ops] + 1

Init ==
  /\ ops \in Mixes
  /\ now = 0
  /\ account = IF "register" \in ops THEN Nobody
               ELSE [Nobody EXCEPT !.role = "customer", !.verified = TRUE]
  /\ bearer = {}
  /\ key = [k \in Keys |-> NoKey]
  /\ reset = [r \in Resets |-> NoLink]
  /\ link = [l \in Links |-> NoLink]
  /\ application = <<>>
  /\ work = [s \in Sessions |-> Idle]

Registered == account.role # None
Live(row) == row.status = "live"
Unexpired(row) == now < row.at + Life
Used(rows) == [i \in DOMAIN rows |->
                 IF Live(rows[i]) THEN [rows[i] EXCEPT !.status = "used"]
                                  ELSE rows[i]]
KeyWorks(k) == Live(key[k]) /\ now < key[k].until
ActiveKeys == {k \in Keys : KeyWorks(k)}
KeysRevoked == [k \in Keys |-> IF Live(key[k])
                               THEN [key[k] EXCEPT !.status = "revoked"] ELSE key[k]]

Finish(s) == work' = [work EXCEPT ![s] = Idle]
At(s, op, at) == work[s].op = op /\ work[s].at = at
Start(s, request) == work[s] = Idle /\ work' = [work EXCEPT ![s] = request]

\* Defect: nobody waits for the account's row.
Unlocked == TRUE
UserFree == \A t \in Sessions : work[t].at # "locked"

Lock(s, op) ==
  /\ At(s, op, "start") /\ op \in ops /\ UserFree
  /\ work' = [work EXCEPT ![s].at = "locked"]

\* A refusal, a rollback or a lost connection.
Abort(s) ==
  /\ work[s] # Idle /\ Finish(s)
  /\ UNCHANGED <<now, account, bearer, key, reset, link, application>>

-----------------------------------------------------------------------------
(* Signing up and in. *)

RegisterRead(s) ==
  /\ "register" \in ops /\ ~Registered
  /\ Start(s, [op |-> "register", at |-> "start"])
  /\ UNCHANGED <<now, account, bearer, key, reset, link, application>>

\* The unique index on the address refuses the second of two.  The handler goes
\* on to ask for the verification mail.
RegisterCommit(s) ==
  /\ At(s, "register", "start") /\ ~Registered
  /\ account' = [Nobody EXCEPT !.role = "customer"]
  /\ work' = [work EXCEPT ![s] = [op |-> "mail", at |-> "start", version |-> 0]]
  /\ UNCHANGED <<now, bearer, key, reset, link, application>>

LoginRead(s) ==
  /\ "login" \in ops /\ Registered
  /\ Start(s, [op |-> "login", at |-> "start",
               token |-> [version |-> account.version, role |-> account.role]])
  /\ UNCHANGED <<now, account, bearer, key, reset, link, application>>

LoginIssue(s) ==
  /\ At(s, "login", "start")
  /\ bearer' = bearer \cup {work[s].token}
  /\ Finish(s)
  /\ UNCHANGED <<now, account, key, reset, link, application>>

\* The provider has answered; the handler looks the account up.
GoogleRead(s) ==
  /\ "google" \in ops
  /\ Start(s, [op |-> "google", at |-> "start", found |-> Registered,
               linked |-> account.google /\ account.verified,
               token |-> [version |-> account.version, role |-> account.role]])
  /\ UNCHANGED <<now, account, bearer, key, reset, link, application>>

\* An account that is linked already is left alone, any other is linked or made,
\* and the token is then made from the refreshed row.
GoogleCommit(s) ==
  /\ At(s, "google", "start")
  /\ IF work[s].linked
     THEN bearer' = bearer \cup {work[s].token} /\ UNCHANGED account
     ELSE /\ UserFree /\ (work[s].found <=> Registered)
          /\ account' = [account EXCEPT !.google = TRUE, !.verified = TRUE,
                          !.role = IF work[s].found THEN @ ELSE "customer"]
          /\ bearer' = bearer \cup
                         {[version |-> account'.version, role |-> account'.role]}
  /\ Finish(s)
  /\ UNCHANGED <<now, key, reset, link, application>>

\* get_current_user: a session of the account's version, or a working key.
Authenticate(s, op) ==
  /\ op \in ops \cap {"logout", "key", "mail", "apply"} /\ Registered
  /\ ActiveKeys # {} \/ \E b \in bearer : b.version = account.version
  /\ Start(s, [op |-> op, at |-> "start", version |-> account.version])
  /\ UNCHANGED <<now, account, bearer, key, reset, link, application>>

-----------------------------------------------------------------------------
(* Sessions and keys. *)

SameSession(s) == account.version = work[s].version

LogoutLock(s) ==
  /\ Lock(s, "logout") /\ SameSession(s) /\ account.version < MaxVersion
  /\ UNCHANGED <<now, account, bearer, key, reset, link, application>>

LogoutCommit(s) ==
  /\ At(s, "logout", "locked")
  /\ account' = [account EXCEPT !.version = @ + 1]
  /\ key' = KeysRevoked
  /\ Finish(s)
  /\ UNCHANGED <<now, bearer, reset, link, application>>

KeyLock(s) ==
  /\ Lock(s, "key") /\ Cardinality(ActiveKeys) < MaxKeys
  /\ UNCHANGED <<now, account, bearer, key, reset, link, application>>

KeyCommit(s, k, until) ==
  /\ At(s, "key", "locked") /\ key[k].status = "none"
  /\ key' = [key EXCEPT ![k] =
               [status |-> "live", until |-> until, role |-> account.role]]
  /\ Finish(s)
  /\ UNCHANGED <<now, account, bearer, reset, link, application>>

KeyRevoke(s, k) ==
  /\ At(s, "key", "start") /\ Live(key[k])
  /\ key' = [key EXCEPT ![k].status = "revoked"]
  /\ Finish(s)
  /\ UNCHANGED <<now, account, bearer, reset, link, application>>

-----------------------------------------------------------------------------
(* Mailed links: a newer one ends the older ones, and each is used once. *)

ResetAsk(s) ==
  /\ "reset" \in ops /\ Registered
  /\ Start(s, [op |-> "reset", at |-> "start"])
  /\ UNCHANGED <<now, account, bearer, key, reset, link, application>>

ResetLock(s) ==
  /\ Lock(s, "reset")
  /\ UNCHANGED <<now, account, bearer, key, reset, link, application>>

\* What was live when the lock was granted is used up, and a new row inserted.
ResetCommit(s, r) ==
  /\ At(s, "reset", "locked") /\ reset[r].status = "none"
  /\ reset' = [Used(reset) EXCEPT ![r] = [status |-> "live", at |-> now]]
  /\ Finish(s)
  /\ UNCHANGED <<now, account, bearer, key, link, application>>

ConfirmRead(s, r) ==
  /\ "reset" \in ops /\ Live(reset[r]) /\ Unexpired(reset[r])
  /\ Start(s, [op |-> "confirm", at |-> "start", row |-> r])
  /\ UNCHANGED <<now, account, bearer, key, reset, link, application>>

StillGood(r) == Live(reset[r]) /\ Unexpired(reset[r])

\* consume_and_change_password waits for the row and repeats the condition.
ConfirmCommit(s) ==
  /\ At(s, "confirm", "start") /\ UserFree /\ StillGood(work[s].row)
  /\ account.version < MaxVersion
  /\ account' = [account EXCEPT !.version = @ + 1]
  /\ reset' = Used(reset)
  /\ key' = KeysRevoked
  /\ Finish(s)
  /\ UNCHANGED <<now, bearer, link, application>>

MailLock(s) ==
  /\ Lock(s, "mail") /\ ~account.verified
  /\ \A l \in Links : link[l].status # "none" => link[l].at + Cooldown <= now
  /\ UNCHANGED <<now, account, bearer, key, reset, link, application>>

MailCommit(s, l) ==
  /\ At(s, "mail", "locked") /\ link[l].status = "none"
  /\ link' = [Used(link) EXCEPT ![l] = [status |-> "live", at |-> now]]
  /\ Finish(s)
  /\ UNCHANGED <<now, account, bearer, key, reset, application>>

\* confirm reads the token, locks the account and refreshes the token: nothing
\* but the state at the lock matters.
Verify(s, l) ==
  /\ "mail" \in ops /\ work[s] = Idle /\ UserFree
  /\ Live(link[l]) /\ Unexpired(link[l])
  /\ account' = [account EXCEPT !.verified = TRUE]
  /\ link' = Used(link)
  /\ UNCHANGED <<now, bearer, key, reset, application, work>>

-----------------------------------------------------------------------------
(* The owner role. *)

ApplyLock(s) ==
  /\ Lock(s, "apply") /\ account.role = "customer" /\ account.verified
  /\ application # <<>> =>
       /\ application[Len(application)].status # "pending"
       /\ application[Len(application)].at + Wait <= now
  /\ Len(application) < MaxRequests
  /\ UNCHANGED <<now, account, bearer, key, reset, link, application>>

ApplyCommit(s) ==
  /\ At(s, "apply", "locked")
  /\ application' = Append(application, [status |-> "pending", at |-> now])
  /\ Finish(s)
  /\ UNCHANGED <<now, account, bearer, key, reset, link>>

\* An administrator's screen shows a request.
DecideRead(s, i, answer) ==
  /\ "apply" \in ops
  /\ Start(s, [op |-> "decide", at |-> "start", row |-> i, answer |-> answer])
  /\ UNCHANGED <<now, account, bearer, key, reset, link, application>>

\* What a change of role does to the account and its keys.
\* Defect: the sessions of the old role go on.
RoleAlone(role) == /\ account' = [account EXCEPT !.role = role]
                   /\ key' = key
NewRole(role) == /\ account' = [account EXCEPT !.role = role, !.version = @ + 1]
                 /\ key' = KeysRevoked

DecideCommit(s) ==
  LET i == work[s].row IN
  /\ At(s, "decide", "start") /\ UserFree /\ application[i].status = "pending"
  /\ work[s].answer = "approved" =>
       account.role = "customer" /\ account.verified /\ account.version < MaxVersion
  /\ application' = [application EXCEPT ![i].status = work[s].answer]
  /\ IF work[s].answer = "approved" THEN NewRole("owner")
                                    ELSE UNCHANGED <<account, key>>
  /\ Finish(s)
  /\ UNCHANGED <<now, bearer, reset, link>>

\* change_role: an operator names the role he expects and the new one.
Provision(role) ==
  /\ "provision" \in ops /\ UserFree /\ Registered
  /\ role # account.role /\ account.version < MaxVersion
  /\ NewRole(role)
  /\ UNCHANGED <<now, bearer, reset, link, application, work>>

-----------------------------------------------------------------------------
Tick ==
  /\ now < LastTick[ops] /\ now' = now + 1
  /\ UNCHANGED <<account, bearer, key, reset, link, application, work>>

Next ==
  /\ UNCHANGED ops
  /\ \/ Tick
     \/ \E role \in Roles : Provision(role)
     \/ \E s \in Sessions :
          \/ RegisterRead(s) \/ RegisterCommit(s) \/ LoginRead(s) \/ LoginIssue(s)
          \/ GoogleRead(s) \/ GoogleCommit(s) \/ Abort(s)
          \/ LogoutLock(s) \/ LogoutCommit(s) \/ KeyLock(s)
          \/ ResetAsk(s) \/ ResetLock(s) \/ ConfirmCommit(s) \/ MailLock(s)
          \/ ApplyLock(s) \/ ApplyCommit(s) \/ DecideCommit(s)
          \/ \E op \in ops : Authenticate(s, op)
          \/ \E k \in Keys :
               \/ KeyRevoke(s, k)
               \/ \E until \in {now + Life, Forever} : KeyCommit(s, k, until)
          \/ \E r \in Resets : ResetCommit(s, r) \/ ConfirmRead(s, r)
          \/ \E l \in Links : MailCommit(s, l) \/ Verify(s, l)
          \/ \E i \in DOMAIN application, answer \in {"approved", "rejected"} :
               DecideRead(s, i, answer)

Spec == Init /\ [][Next]_vars

-----------------------------------------------------------------------------
(* Properties. *)

\* What the row lock of the account keeps single although requests race: the
\* live link of each kind, the pending request, and the keys up to their limit
\* (replace_active_token, EmailVerificationService.request, create_if_below_limit,
\* OwnerAccessService.create).
OneLive(rows) == Cardinality({i \in DOMAIN rows : Live(rows[i])}) <= 1
SinglesKept ==
  /\ OneLive(reset) /\ OneLive(link)
  /\ Cardinality(ActiveKeys) <= MaxKeys
  /\ Cardinality({i \in DOMAIN application : application[i].status = "pending"}) <= 1

\* No session and no key works with a role it was not issued under: a change of
\* role, by approval or by an operator, ends what was issued before, also when a
\* login or the creation of a key is under way (decide, change_role).
RolesNeverGrow ==
  /\ \A b \in bearer : b.version = account.version => b.role = account.role
  /\ \A k \in Keys : KeyWorks(k) => key[k].role = account.role

\* A logout of all devices that has waited for the row ends no session issued
\* after another revocation, reset or change of role (SessionService.revoke_all).
SparesNewer ==
  \A s \in Sessions : LogoutCommit(s) => account.version = work[s].version
LogoutSparesNewer == [][SparesNewer]_vars

\* A used or overtaken reset link never changes the password.
LinkStillLive ==
  \A s \in Sessions : ConfirmCommit(s) =>
    LET r == work[s].row IN
    Live(reset[r]) /\ \A q \in Resets : q # r => ~Live(reset[q])
LinksWorkOnce == [][LinkStillLive]_vars
=============================================================================
