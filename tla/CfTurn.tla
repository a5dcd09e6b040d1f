------------------------------- MODULE CfTurn -------------------------------
(***************************************************************************)
(* The TURN credentials every call shares: one cached set, fetched from    *)
(* the provider inline by whoever finds nothing usable, and refreshed in   *)
(* the background before it runs out.  The mutex guards the fields, never  *)
(* a fetch, so fetches overlap, fail, and end in any order.  Time is a     *)
(* clock; a set is known by the time it was issued, and the provider       *)
(* honours it for TTL from then, not from when it was stored.              *)
(***************************************************************************)
EXTENDS Requests

CONSTANTS
    TTL,            \* cfTURNTTL
    RefreshBefore,  \* cfTURNRefreshBefore
    RetryAfter,     \* cfTURNRetryAfter
    Timeout,        \* the longest a fetch takes: http.Client's Timeout
    MaxTime         \* a bound: the clock stops here

ASSUME CfTurnAssumption ==
    /\ {TTL, RefreshBefore, RetryAfter, Timeout, MaxTime} \subseteq Nat
    /\ RefreshBefore + Timeout < TTL
    /\ RetryAfter < MaxTime

VARIABLES
    now,
    cached, expires,   \* the set (its issue time, 0 without one), and when it is given up
    lastFail, refreshing,
    fetches,           \* fetches under way: for whom, in its own time or not, since when, and when the set was issued
    given              \* the last answer of a request: the set and the time, or that there was none

cvars == <<now, cached, expires, lastFail, refreshing, fetches, given>>
fields == <<cached, expires, lastFail, refreshing>>

None == 0

CTypeOK ==
    /\ now \in RetryAfter + 1 .. MaxTime
    /\ cached \in Nat /\ expires \in Nat /\ lastFail \in Nat
    /\ refreshing \in BOOLEAN
    /\ \A f \in fetches : /\ f.by \in Reqs /\ f.inline \in BOOLEAN
                          /\ f.since <= f.issued /\ f.issued <= now
    /\ given.set \in Nat /\ given.at \in Nat /\ given.usable \in BOOLEAN

\* The zero time of lastFail is long ago.
CInit ==
    /\ now = RetryAfter + 1
    /\ cached = None /\ expires = 0 /\ lastFail = 0
    /\ refreshing = FALSE
    /\ fetches = {}
    /\ given = [set |-> None, at |-> 0, usable |-> FALSE]

-----------------------------------------------------------------------------
\* Mutant: whatever is cached is used.
usable_Cached == cached # None

\* c.cached != nil && now.Before(c.expires)
usable == cached # None /\ now < expires

answers(set) == given' = [set |-> set, at |-> now, usable |-> cached # None /\ now < expires]

\* Mutant: a refresh under way is not looked at.
dueForRefresh_Again == expires - now < RefreshBefore /\ now - lastFail > RetryAfter

dueForRefresh ==
    expires - now < RefreshBefore /\ ~refreshing /\ now - lastFail > RetryAfter

starts(r, inline) == fetches' = fetches \cup {[by |-> r, inline |-> inline, since |-> now, issued |-> now]}

idle(r) == \A f \in fetches : f.inline => f.by # r

\* Config, with a set to give: at once, and a refresh started if it is getting old.
ConfigCached(r) ==
    /\ idle(r) /\ usable
    /\ answers(cached)
    /\ IF dueForRefresh
       THEN refreshing' = TRUE /\ starts(r, FALSE)
       ELSE UNCHANGED <<refreshing, fetches>>
    /\ UNCHANGED <<now, cached, expires, lastFail>>

\* Config, with nothing usable, soon after a failure.
ConfigNone(r) ==
    /\ idle(r) /\ ~usable
    /\ now - lastFail < RetryAfter
    /\ answers(None)
    /\ UNCHANGED <<now, fields, fetches>>

\* Config, with nothing usable: refresh on the caller's own time.
ConfigFetch(r) ==
    /\ idle(r) /\ ~usable
    /\ now - lastFail >= RetryAfter
    /\ starts(r, TRUE)
    /\ UNCHANGED <<now, fields, given>>

\* fetch: the provider issues the set some time after it was asked.
Issue(f) ==
    /\ f.issued < now
    /\ fetches' = (fetches \ {f}) \cup {[f EXCEPT !.issued = now]}
    /\ UNCHANGED <<now, fields, given>>

\* Mutant: a failure is answered by nothing.
fallback_None == None

\* What a failed refresh returns.
fallback == IF usable THEN cached ELSE None

replies(f, set) == IF f.inline THEN answers(set) ELSE UNCHANGED given

\* refresh, after a fetch that failed: an HTTP error, a deadline, an answer
\* turnConfigFromICE finds no TURN server with credentials in.
RefreshFailed(f) ==
    /\ fetches' = fetches \ {f}
    /\ refreshing' = FALSE
    /\ lastFail' = now
    /\ replies(f, fallback)
    /\ UNCHANGED <<now, cached, expires>>

\* refresh, after a fetch that brought a set.
RefreshOK(f) ==
    /\ fetches' = fetches \ {f}
    /\ refreshing' = FALSE
    /\ cached' = f.issued
    /\ expires' = now + TTL
    /\ replies(f, f.issued)
    /\ UNCHANGED <<now, lastFail>>

Tick ==
    /\ now < MaxTime
    /\ \A f \in fetches : now < f.since + Timeout
    /\ now' = now + 1
    /\ UNCHANGED <<fields, fetches, given>>

CNext ==
    \/ Tick
    \/ \E r \in Reqs : ConfigCached(r) \/ ConfigNone(r) \/ ConfigFetch(r)
    \/ \E f \in fetches : Issue(f) \/ RefreshFailed(f) \/ RefreshOK(f)

CSpec == CInit /\ [][CNext]_cvars

-----------------------------------------------------------------------------
(* Properties. *)

(***************************************************************************)
(* Nobody is given credentials the provider has given up: the set of an    *)
(* answer is at most TTL old, but for the time its fetch took, however the *)
(* fetches overlapped and failed and whichever of them ended last.         *)
(***************************************************************************)
GivenStillGood == given.set # None => given.at <= given.set + TTL + Timeout

(***************************************************************************)
(* A failed fetch costs nobody a set that is there: who is given nothing,  *)
(* though others may have failed or succeeded while they waited, asked     *)
(* when there was nothing to give.                                         *)
(***************************************************************************)
NoneOnlyWithout == given.set = None => ~given.usable

(***************************************************************************)
(* One background refresh at a time.  Every refresh clears the flag, the   *)
(* inline ones too, while a background one may still be under way; that    *)
(* starts no second one because the flag is only looked at with a set that *)
(* is usable and old, which none is that an inline fetch has just stored.  *)
(***************************************************************************)
OneBackgroundRefresh ==
    \A f, g \in fetches : f.inline \/ g.inline \/ f = g

(***************************************************************************)
(* The credentials that are given out are good, are given whenever there   *)
(* are some, and are refreshed in the background by one fetch at a time.   *)
(***************************************************************************)
CfTurnSafe ==
    /\ CTypeOK
    /\ GivenStillGood
    /\ NoneOnlyWithout
    /\ OneBackgroundRefresh
=============================================================================
