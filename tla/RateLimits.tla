----------------------------- MODULE RateLimits -----------------------------
(***************************************************************************)
(* Budgets of writes, kept in Redis: one for the address a request comes    *)
(* from, taken before anything else, and one for its account, taken when    *)
(* the account is known.  A script takes a unit of a budget atomically: the *)
(* first one opens a window, at its end the key expires.                    *)
(***************************************************************************)
EXTENDS Integers

CONSTANTS
  Callers,
  Host(_),        \* the address a caller's requests come from
  Account(_),
  Hosts, Accounts,
  HostLimit, AccountLimit,
  Window,         \* ticks before a budget's key expires
  MaxFaults,      \* bound on the calls that Redis does not answer
  None

Limit(key) == IF key \in Hosts THEN HostLimit ELSE AccountLimit

VARIABLES
  budget,         \* requests counted in the key's window, ticks left of it
  request,        \* where each caller's request is
  answer,         \* the last answer each caller got
  faults          \* how many calls Redis did not answer

vars == <<budget, request, answer, faults>>

NoKey == [count |-> 0, left |-> 0]

Init ==
  /\ budget = [key \in Hosts \cup Accounts |-> NoKey]
  /\ request = [c \in Callers |-> "host"]
  /\ answer = [c \in Callers |-> None]
  /\ faults = 0

\* Defect: a refused request begins a new window.
Extended(key) == [budget[key] EXCEPT !.left = Window]
\* A refused request neither counts nor makes the caller wait longer.
Refused(key) == budget[key]

\* The script: a budget whose key has expired begins again.
Consumed(key) ==
  IF budget[key].left = 0 THEN [count |-> 1, left |-> Window]
  ELSE IF budget[key].count >= Limit(key) THEN Refused(key)
  ELSE [budget[key] EXCEPT !.count = @ + 1]
Allowed(key) == budget[key].left = 0 \/ budget[key].count < Limit(key)

\* Each caller tries again for ever, each time he has his answer.
Answer(c, what) ==
  /\ answer' = [answer EXCEPT ![c] = what]
  /\ request' = [request EXCEPT ![c] = "host"]

AtHost(c) ==
  LET key == Host(c) IN
  /\ request[c] = "host"
  /\ budget' = [budget EXCEPT ![key] = Consumed(key)]
  /\ IF Allowed(key)
     THEN request' = [request EXCEPT ![c] = "account"] /\ UNCHANGED answer
     ELSE Answer(c, "wait")
  /\ UNCHANGED faults

AtAccount(c) ==
  LET key == Account(c) IN
  /\ request[c] = "account"
  /\ budget' = [budget EXCEPT ![key] = Consumed(key)]
  /\ Answer(c, IF Allowed(key) THEN "served" ELSE "wait")
  /\ UNCHANGED faults

\* Redis does not answer: the request is refused, never let through.
Unavailable(c) ==
  /\ faults < MaxFaults /\ faults' = faults + 1
  /\ Answer(c, "unavailable") /\ UNCHANGED budget

Tick ==
  /\ \E key \in DOMAIN budget : budget[key].left > 0
  /\ budget' = [key \in DOMAIN budget |->
       IF budget[key].left <= 1 THEN NoKey
       ELSE [budget[key] EXCEPT !.left = @ - 1]]
  /\ UNCHANGED <<request, answer, faults>>

Next ==
  \/ Tick
  \/ \E c \in Callers : AtHost(c) \/ AtAccount(c) \/ Unavailable(c)

Spec == Init /\ [][Next]_vars

\* Time passes, and callers try again.
Fairness ==
  /\ WF_vars(Tick)
  /\ \A c \in Callers : WF_vars(AtHost(c)) /\ WF_vars(AtAccount(c))

LiveSpec == Spec /\ Fairness

-----------------------------------------------------------------------------
(* Properties. *)

\* A caller who keeps trying is served again and again, although he tries
\* while he has to wait: as long as nobody else shares his budgets.
RetriersAreServed ==
  \A c \in Callers : []<>(answer[c] = "served")
=============================================================================
