------------------------------ MODULE KeyPool ------------------------------
(***************************************************************************)
(* The credential pool of internal/keypool/keypool.go: the keys of one     *)
(* pool, the callers that hold a handle on one of them, and the clock.     *)
(*                                                                         *)
(* Every exported method of Pool takes the lock for its whole body, so     *)
(* each is one action.  What is NOT atomic is a caller's use of the pool:  *)
(* between Acquire and the Mark* / UpdateFromUpstream call that reports    *)
(* the outcome, any number of other callers and any amount of time pass.   *)
(*                                                                         *)
(* Abstracted: the secret, the displayed limits and lastError, which no    *)
(* decision of the pool reads.  Time is counted in ticks; a day boundary   *)
(* is a multiple of DayLength and ZeroTime stands for time.Time{}.         *)
(***************************************************************************)
EXTENDS Integers

CONSTANTS
    NumKeys,            \* number of keys, in configuration order
    Label,              \* the label of each key; nothing makes them distinct
    Callers,            \* goroutines that use the pool, one handle at a time
    Remaining,          \* daily-remaining values an upstream may report
    SwitchThreshold,    \* Options.SwitchThreshold
    RateLimitCooldown,  \* Options.RateLimitCooldown, in ticks
    ErrorCooldown,      \* Options.ErrorCooldown, in ticks
    MaxErrorCount,      \* Options.MaxErrorCount; 0 never trips
    DefaultRetryAfter,  \* defaultRetryAfterSeconds
    TicksPerSecond,     \* resolution of the clock
    DayLength,          \* ticks in a UTC day
    MaxTime,            \* bound: the clock stops here
    ErrorCountBound     \* bound: keys with more errors are not marked exhausted by hand

Positions == 1..NumKeys

ASSUME PoolAssumption ==
    /\ NumKeys \in Nat \ {0}
    /\ DOMAIN Label = Positions
    /\ Remaining \subseteq Int
    /\ SwitchThreshold \in Int
    /\ RateLimitCooldown \in Nat
    /\ ErrorCooldown \in Nat
    /\ MaxErrorCount \in Nat
    /\ DefaultRetryAfter \in Nat \ {0}
    /\ TicksPerSecond \in Nat \ {0}
    /\ DayLength \in Nat \ {0}
    /\ MaxTime \in Nat
    /\ ErrorCountBound \in Nat

VARIABLES
    keys,    \* keys[k]: the keyState at position k
    now,     \* the clock every method reads under the lock
    handle   \* handle[c]: the position caller c acquired, NoKey if none

poolVars == <<keys, now, handle>>

-----------------------------------------------------------------------------
NoKey == 0
ZeroTime == -1
Times == {ZeroTime} \cup Nat
Statuses == {"active", "exhausted", "rate_limited", "error"}

KeyStates == [status        : Statuses,
              cooldownUntil : Times,
              lastUpdated   : Times,
              errorCount    : Nat]

\* What ParseRateLimit found in the headers: a daily quota, or none.
Snapshots == {[hasDaily |-> FALSE, dailyRemaining |-> 0]}
                \cup {[hasDaily |-> TRUE, dailyRemaining |-> n] : n \in Remaining}

Day(t) == t \div DayLength

SameUTCDate(a, b) == Day(a) = Day(b)

Cooling(key) == key.status \in {"rate_limited", "error"}

\* Mutant: the comparison of a cooldown is not strict.
ExpiredAtDeadline(key, t) ==
    Cooling(key) /\ key.cooldownUntil # ZeroTime /\ t >= key.cooldownUntil

Expired(key, t) ==
    Cooling(key) /\ key.cooldownUntil # ZeroTime /\ t > key.cooldownUntil

\* Mutant: an exhausted key waits for a snapshot that only a call could bring.
NewDayNever(key, t) ==
    key.status = "exhausted" /\ key.lastUpdated > t /\ ~SameUTCDate(key.lastUpdated, t)

NewDay(key, t) ==
    key.status = "exhausted" /\ key.lastUpdated # ZeroTime /\ ~SameUTCDate(key.lastUpdated, t)

\* Mutant: a key comes back from its cooldown with its errors still counted.
RefreshKeepsErrors(key, t) ==
    IF Expired(key, t) \/ NewDay(key, t) THEN [key EXCEPT !.status = "active"] ELSE key

\* Mutant: a recovery forgives one error instead of forgetting them all.
RefreshForgivesOne(key, t) ==
    IF Expired(key, t) THEN [key EXCEPT !.status = "active", !.errorCount = @ - 1]
    ELSE IF NewDay(key, t) THEN [key EXCEPT !.status = "active"]
    ELSE key

\* refreshLocked: a key whose cooldown is over, or whose quota is of another day.
Refresh(key, t) ==
    IF Expired(key, t) THEN [key EXCEPT !.status = "active", !.errorCount = 0]
    ELSE IF NewDay(key, t) THEN [key EXCEPT !.status = "active"]
    ELSE key

\* A key that Acquire would hand out at time t.
Usable(key, t) == Refresh(key, t).status = "active"

\* Mutant: the key acquired is the last usable one.
FirstUsableFromBack ==
    CHOOSE k \in Positions : /\ Usable(keys[k], now)
                             /\ \A j \in Positions : Usable(keys[j], now) => j <= k

FirstUsable ==
    CHOOSE k \in Positions : /\ Usable(keys[k], now)
                             /\ \A j \in 1..(k-1) : ~Usable(keys[j], now)

\* Mutant: only keys that need no refresh are looked at.
AnyActive == \E k \in Positions : keys[k].status = "active"

AnyUsable == \E k \in Positions : Usable(keys[k], now)

\* findLocked: the first key that carries the label.
Find(label) ==
    CHOOSE k \in Positions : /\ Label[k] = label
                             /\ \A j \in 1..(k-1) : Label[j] # label

\* The key a report of caller c is charged to.
Charged(c) == Find(Label[handle[c]])

Holding(c) == handle[c] # NoKey
-----------------------------------------------------------------------------
NewKey == [status |-> "active", cooldownUntil |-> ZeroTime,
           lastUpdated |-> ZeroTime, errorCount |-> 0]

\* A pool starts at any time of the day.
PoolInit ==
    /\ keys = [k \in Positions |-> NewKey]
    /\ now \in 0..MaxTime
    /\ now < DayLength
    /\ handle = [c \in Callers |-> NoKey]

\* The keys that Acquire looked at, up to the one it returns, are refreshed.
RefreshUpTo(upTo) == [k \in Positions |-> IF k <= upTo THEN Refresh(keys[k], now) ELSE keys[k]]

Acquire(c) ==
    /\ ~Holding(c)
    /\ AnyUsable
    /\ handle' = [handle EXCEPT ![c] = FirstUsable]
    /\ keys' = RefreshUpTo(FirstUsable)
    /\ UNCHANGED now

\* ErrNoKeyAvailable: every key was refreshed and none came back.
AcquireFails(c) ==
    /\ ~Holding(c)
    /\ ~AnyUsable
    /\ keys' = RefreshUpTo(NumKeys)
    /\ UNCHANGED <<now, handle>>

\* The caller is done with its handle, and its report changes one key.
Report(c, key) ==
    /\ keys' = [keys EXCEPT ![Charged(c)] = key]
    /\ handle' = [handle EXCEPT ![c] = NoKey]
    /\ UNCHANGED now

RateLimited(key, t) ==
    [key EXCEPT !.status = "rate_limited", !.cooldownUntil = t + RateLimitCooldown]

ErrorCounted(key, t) ==
    LET count == key.errorCount + 1 IN
    IF MaxErrorCount > 0 /\ count >= MaxErrorCount
    THEN [key EXCEPT !.errorCount = count, !.status = "error", !.cooldownUntil = t + ErrorCooldown]
    ELSE [key EXCEPT !.errorCount = count]

\* Mutant: a key found invalid keeps the deadline of an earlier cooldown.
InvalidKeepsDeadline(key, t) == [key EXCEPT !.status = "error"]

Invalid(key, t) == [key EXCEPT !.status = "error", !.cooldownUntil = t + ErrorCooldown]

\* Mutant: only the first snapshot of a key sets the time, as in MarkExhausted.
UpdatedKeepsFirstTime(key, t, snap) ==
    [key EXCEPT !.lastUpdated = IF @ = ZeroTime THEN t ELSE @,
                !.errorCount = 0,
                !.status = IF snap.hasDaily /\ snap.dailyRemaining <= SwitchThreshold
                           THEN "exhausted" ELSE "active"]

Updated(key, t, snap) ==
    [key EXCEPT !.lastUpdated = t,
                !.errorCount = 0,
                !.status = IF snap.hasDaily /\ snap.dailyRemaining <= SwitchThreshold
                           THEN "exhausted" ELSE "active"]

MarkRateLimited(c) == Holding(c) /\ Report(c, RateLimited(keys[Charged(c)], now))

MarkError(c) == Holding(c) /\ Report(c, ErrorCounted(keys[Charged(c)], now))

MarkKeyInvalid(c) == Holding(c) /\ Report(c, Invalid(keys[Charged(c)], now))

UpdateFromUpstream(c, snap) == Holding(c) /\ Report(c, Updated(keys[Charged(c)], now, snap))

\* A caller gives up without reporting (the client went away).
Abandon(c) ==
    /\ Holding(c)
    /\ handle' = [handle EXCEPT ![c] = NoKey]
    /\ UNCHANGED <<keys, now>>

\* Exported, called by no other package: any label, with or without a handle.
MarkExhausted(k) ==
    LET key == keys[Find(Label[k])] IN
    /\ key.errorCount <= ErrorCountBound
    /\ keys' = [keys EXCEPT ![Find(Label[k])] =
                  [key EXCEPT !.status = "exhausted",
                              !.lastUpdated = IF @ = ZeroTime THEN now ELSE @]]
    /\ UNCHANGED <<now, handle>>

Tick ==
    /\ now < MaxTime
    /\ now' = now + 1
    /\ UNCHANGED <<keys, handle>>

CallerStep(c) ==
    \/ Acquire(c)
    \/ AcquireFails(c)
    \/ MarkRateLimited(c)
    \/ MarkError(c)
    \/ MarkKeyInvalid(c)
    \/ \E snap \in Snapshots : UpdateFromUpstream(c, snap)
    \/ Abandon(c)

PoolNext == Tick \/ \E c \in Callers : CallerStep(c)

\* The pool as the gateway uses it.
PoolSpec == PoolInit /\ [][PoolNext]_poolVars

\* The pool as its exported interface allows it to be used.
APINext == PoolNext \/ \E k \in Positions : MarkExhausted(k)

APISpec == PoolInit /\ [][APINext]_poolVars
-----------------------------------------------------------------------------
\* EarliestRecoverySeconds: what one key contributes, and the least of them.
AtLeastOne(n) == IF n < 1 THEN 1 ELSE n

\* Mutant: one second too many is taken off.
SecondsUntilShort(key, t) ==
    IF Cooling(key) /\ key.cooldownUntil # ZeroTime
    THEN AtLeastOne((key.cooldownUntil - t) \div TicksPerSecond - 1)
    ELSE DefaultRetryAfter

\* Go truncates the quotient; a negative one is clamped, so \div agrees.  As no
\* key contributes less than 1, the last clamp of the code (best < 1) never acts.
SecondsUntil(key, t) ==
    IF Cooling(key) /\ key.cooldownUntil # ZeroTime
    THEN AtLeastOne((key.cooldownUntil - t) \div TicksPerSecond)
    ELSE DefaultRetryAfter

\* Mutant: a key whose cooldown is over counts as recovered already.
EarliestIfUsable ==
    IF AnyUsable THEN 0
    ELSE CHOOSE s \in {SecondsUntil(keys[k], now) : k \in Positions} :
            \A k \in Positions : s <= SecondsUntil(keys[k], now)

\* It reads the statuses as they are: nothing is refreshed here.
EarliestRecoverySeconds ==
    IF \E k \in Positions : keys[k].status = "active" THEN 0
    ELSE CHOOSE s \in {SecondsUntil(keys[k], now) : k \in Positions} :
            \A k \in Positions : s <= SecondsUntil(keys[k], now)
-----------------------------------------------------------------------------
(* Properties. *)

PoolTypeOK ==
    /\ keys \in [Positions -> KeyStates]
    /\ now \in Nat
    /\ handle \in [Callers -> {NoKey} \cup Positions]

\* The table of key states says when a benched key may serve again: after its
\* cooldown, or on the next UTC day.  Stated without the code's Refresh.
Quarantined(key, t) ==
    \/ key.status \in {"rate_limited", "error"} /\ t <= key.cooldownUntil
    \/ key.status = "exhausted" /\ SameUTCDate(key.lastUpdated, t)

Holders(k) == {c \in Callers : handle[c] = k}

Longest(a, b) == IF a >= b THEN a ELSE b

\* One more than the longest cooldown, or a day: whatever happened so far.
Horizon == Longest(DayLength, 1 + Longest(RateLimitCooldown, ErrorCooldown))

\* Why nothing is stranded: a benched key always has the time its release is
\* computed from, and that time is never further ahead than one cooldown.
Clocked ==
    \A k \in Positions :
        /\ keys[k].lastUpdated <= now
        /\ keys[k].cooldownUntil <= now + Longest(RateLimitCooldown, ErrorCooldown)
        /\ Cooling(keys[k]) => keys[k].cooldownUntil # ZeroTime
        /\ keys[k].status = "exhausted" => keys[k].lastUpdated # ZeroTime

\* No sequence of calls strands a key: if every caller falls silent now, each
\* key can be acquired again once Horizon has passed (refreshLocked needs a
\* non-zero time that the Mark* methods and UpdateFromUpstream must have set).
RecoveryBounded == \A k \in Positions : Usable(keys[k], now + Horizon)

\* A key in rotation, or waiting for the next day, never carries a count that
\* already reached MaxErrorCount: it would trip on its next error, or never.
ActiveHasErrorBudget ==
    MaxErrorCount > 0 =>
        \A k \in Positions :
            keys[k].status \in {"active", "exhausted"} => keys[k].errorCount < MaxErrorCount

\* Nobody acquires a key that the state table still holds back, whatever late
\* report has been applied to it in the meantime.
NoNewTrafficOnQuarantined ==
    [][\A k \in Positions : Quarantined(keys[k], now) => Holders(k)' \subseteq Holders(k)]_poolVars

\* At any moment, Acquire would return ErrNoKeyAvailable only if the state table
\* holds back every key.
WorkConserving == ~AnyUsable => \A k \in Positions : Quarantined(keys[k], now)

\* Ordered exhaustion: a key is acquired only while every key before it is held back.
SequentialExhaustion ==
    [][\A c \in Callers : Acquire(c) =>
          \A j \in 1..(handle'[c] - 1) : Quarantined(keys[j], now)]_poolVars

\* design 4.2: a key that is cooling down becomes active again only when its
\* cooldown is over.
CooldownIsServedOut ==
    [][\A k \in Positions :
          (Cooling(keys[k]) /\ now <= keys[k].cooldownUntil) => keys'[k].status # "active"]_poolVars

NoExhaustedKey == \A k \in Positions : keys[k].status # "exhausted"

\* One second after the Retry-After that a client was given, some key serves
\* again (unless a key is exhausted: its recovery is never computed).
RetryOneSecondLater ==
    (NoExhaustedKey /\ EarliestRecoverySeconds > 0) =>
        \E k \in Positions : Usable(keys[k], now + (EarliestRecoverySeconds + 1) * TicksPerSecond)
=============================================================================
