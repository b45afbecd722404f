----------------------------- MODULE ProxyTrail -----------------------------
(***************************************************************************)
(* Proxy with a history: which keys the current request of each connection *)
(* was tried with, when, and what came of it; and on which day a response  *)
(* last said that the quota of a key was used up.  It decides nothing.     *)
(***************************************************************************)
EXTENDS Proxy, Sequences

VARIABLES
    trail,   \* the attempts of the request being served, in order
    spent    \* spent[k]: the last day whose quota of key k was said to be used up

trailVars == <<keys, now, handle, pc, attempts, gone, reply, answer, retryAfter, trail, spent>>

NoDay == -1

TrailInit ==
    /\ Init
    /\ trail = [c \in Callers |-> <<>>]
    /\ spent = [k \in Positions |-> NoDay]

Attempt(k) == [key |-> k, from |-> now, until |-> now, result |-> "pending"]

\* What is known of an attempt once its reply has been handled.
Result(r) == IF r.cause = "local" THEN "unsent" ELSE Outcome(r)

Settled(c) ==
    [trail[c] EXCEPT ![Len(trail[c])] = [@ EXCEPT !.until = now, !.result = Result(reply[c])]]

Record(c) ==
    IF pc'[c] \notin {"loop", "calling", "settle", "tail"} THEN <<>>
    ELSE IF pc[c] = "loop" /\ pc'[c] = "calling" THEN Append(trail[c], Attempt(handle'[c]))
    ELSE IF pc[c] = "settle" /\ pc'[c] = "loop" THEN Settled(c)
    ELSE trail[c]

\* The response that is relayed says that little is left of its key's quota.
SaysSpent(c, k) ==
    /\ pc[c] = "settle" /\ pc'[c] = "done"
    /\ handle[c] = k
    /\ reply[c].snap.hasDaily
    /\ reply[c].snap.dailyRemaining <= SwitchThreshold

TrailNext ==
    /\ Next
    /\ trail' = [c \in Callers |-> Record(c)]
    /\ spent' = [k \in Positions |->
                    IF \E c \in Callers : SaysSpent(c, k) THEN Day(now) ELSE spent[k]]

TrailSpec == TrailInit /\ [][TrailNext]_trailVars
-----------------------------------------------------------------------------
(* Properties. *)

Cooldown(result) == IF result = "rate_limited" THEN RateLimitCooldown ELSE ErrorCooldown

\* A key that answered 429, 401 or 403 is not tried again for the same request
\* before its cooldown is over (one caller; see the straggler run for more).
NoReuseInCooldown ==
    \A c \in Callers : \A i, j \in 1..Len(trail[c]) :
        /\ i < j
        /\ trail[c][i].key = trail[c][j].key
        /\ trail[c][i].result \in {"rate_limited", "key_invalid"}
        => trail[c][j].from > trail[c][i].until + Cooldown(trail[c][i].result)

\* No request calls the upstream with a key whose quota a response of the same
\* day said was used up (design 4.2; one caller: a late success of another call
\* puts the key back).
SpentKeyRests ==
    [][\A c \in Callers : (pc[c] = "loop" /\ pc'[c] = "calling")
            => spent[handle'[c]] # Day(now)]_trailVars

\* design 6.2: every retry takes another key.
EveryRetryTakesAnotherKey ==
    \A c \in Callers : \A i, j \in 1..Len(trail[c]) :
        i < j => trail[c][i].key # trail[c][j].key
=============================================================================
