--------------------------- MODULE KeyPoolProofs ---------------------------
(***************************************************************************)
(* What holds of a pool of any size, with any labels, cooldowns, callers   *)
(* and length of the day.  The inductive invariant is PoolTypeOK, Clocked  *)
(* and, for the pool as the gateway uses it, ActiveHasErrorBudget.         *)
(***************************************************************************)
EXTENDS KeyPool, TLAPS, WellFoundedInduction, NaturalsInduction

-----------------------------------------------------------------------------
(* The operators of the pool. *)

\* A set of positions that is not empty has a first member.
LEMMA FirstExists ==
    ASSUME NEW S \in SUBSET Positions, S # {}
    PROVE  \E k \in S : \A j \in 1..(k-1) : j \notin S
<1>1. S \subseteq Nat
  BY DEF Positions
<1>2. PICK k \in S : \A j \in S : <<j, k>> \notin OpToRel(<, Nat)
  BY <1>1, WFMin, NatLessThanWellFounded, Zenon
<1>3. \A j \in S : ~(j < k)
  BY <1>1, <1>2 DEF OpToRel
<1>4. \A j \in 1..(k-1) : j \notin S
  BY <1>1, <1>3
<1>. QED
  BY <1>4

\* Acquire hands out the first usable key, if there is one.
LEMMA FirstUsableIsFirst ==
    ASSUME AnyUsable
    PROVE  /\ FirstUsable \in Positions
           /\ Usable(keys[FirstUsable], now)
           /\ \A j \in 1..(FirstUsable - 1) : ~Usable(keys[j], now)
<1>. DEFINE S == {k \in Positions : Usable(keys[k], now)}
<1>1. PICK k \in S : \A j \in 1..(k-1) : j \notin S
  <2>1. S \in SUBSET Positions /\ S # {}
    BY DEF AnyUsable
  <2>. HIDE DEF S
  <2>. QED
    BY <2>1, FirstExists
<1>2. \A j \in 1..(k-1) : j \in Positions
  BY PoolAssumption DEF Positions
<1>3. \A j \in 1..(k-1) : ~Usable(keys[j], now)
  BY <1>1, <1>2
<1>. QED
  BY <1>1, <1>3 DEF FirstUsable

\* A report always finds a key: some key carries the label of the handle.
LEMMA FindsTheLabel ==
    ASSUME NEW k \in Positions
    PROVE  Find(Label[k]) \in Positions /\ Label[Find(Label[k])] = Label[k]
<1>. DEFINE S == {j \in Positions : Label[j] = Label[k]}
<1>1. PICK f \in S : \A j \in 1..(f-1) : j \notin S
  <2>1. S \in SUBSET Positions /\ S # {}
    OBVIOUS
  <2>. HIDE DEF S
  <2>. QED
    BY <2>1, FirstExists
<1>2. \A j \in 1..(f-1) : j \in Positions
  BY PoolAssumption DEF Positions
<1>3. \A j \in 1..(f-1) : Label[j] # Label[k]
  BY <1>1, <1>2
<1>. QED
  BY <1>1, <1>3 DEF Find

LEMMA ChargedIsPosition ==
    ASSUME PoolTypeOK, NEW c \in Callers, Holding(c)
    PROVE  Charged(c) \in Positions
BY FindsTheLabel DEF Charged, Holding, PoolTypeOK

\* Two moments a day or more apart are on different days.
LEMMA DayAdvances ==
    ASSUME NEW s \in Int, NEW t \in Int, t - s >= DayLength
    PROVE  ~SameUTCDate(s, t)
BY PoolAssumption DEF SameUTCDate, Day

LEMMA LongestIsLongest ==
    ASSUME NEW m \in Nat, NEW n \in Nat
    PROVE  Longest(m, n) \in Nat /\ Longest(m, n) >= m /\ Longest(m, n) >= n
BY DEF Longest

LEMMA RefreshType ==
    ASSUME NEW key \in KeyStates, NEW t \in Nat
    PROVE  Refresh(key, t) \in KeyStates
BY DEF Refresh, KeyStates, Statuses

\* What the state table holds back is not usable: Refresh releases no key early.
LEMMA QuarantinedIsNotUsable ==
    ASSUME NEW key \in KeyStates, NEW t \in Nat, Quarantined(key, t)
    PROVE  ~Usable(key, t)
BY DEF Quarantined, Usable, Refresh, Expired, NewDay, Cooling, KeyStates, Times, ZeroTime
-----------------------------------------------------------------------------
(* Types. *)

\* Each report of a caller turns a key state into a key state.
LEMMA ReportTypes ==
    ASSUME NEW key \in KeyStates, NEW t \in Nat, NEW snap \in Snapshots
    PROVE  /\ RateLimited(key, t) \in KeyStates
           /\ ErrorCounted(key, t) \in KeyStates
           /\ Invalid(key, t) \in KeyStates
           /\ Updated(key, t, snap) \in KeyStates
<1>1. t + RateLimitCooldown \in Times /\ t + ErrorCooldown \in Times /\ t \in Times
  BY PoolAssumption DEF Times
<1>2. RateLimited(key, t) \in KeyStates
  BY <1>1 DEF RateLimited, KeyStates, Statuses
<1>3. ErrorCounted(key, t) \in KeyStates
  <2>1. key.errorCount + 1 \in Nat
    BY DEF KeyStates
  <2>2. CASE MaxErrorCount > 0 /\ key.errorCount + 1 >= MaxErrorCount
    BY <1>1, <2>1, <2>2 DEF ErrorCounted, KeyStates, Statuses
  <2>3. CASE ~(MaxErrorCount > 0 /\ key.errorCount + 1 >= MaxErrorCount)
    BY <2>1, <2>3 DEF ErrorCounted, KeyStates, Statuses
  <2>. QED
    BY <2>2, <2>3
<1>4. Invalid(key, t) \in KeyStates
  BY <1>1 DEF Invalid, KeyStates, Statuses
<1>5. Updated(key, t, snap) \in KeyStates
  BY <1>1 DEF Updated, KeyStates, Statuses
<1>. QED
  BY <1>2, <1>3, <1>4, <1>5

\* Typing is preserved by every action of the exported interface.
LEMMA TypeStep ==
    ASSUME PoolTypeOK, [APINext]_poolVars
    PROVE  PoolTypeOK'
<1>. USE DEF PoolTypeOK
<1>1. CASE UNCHANGED poolVars
  BY <1>1 DEF poolVars
<1>2. CASE Tick
  BY <1>2 DEF Tick
<1>3. ASSUME NEW c \in Callers, CallerStep(c)
      PROVE  PoolTypeOK'
  <2>1. CASE Acquire(c)
    <3>1. FirstUsable \in Positions
      BY <2>1, FirstUsableIsFirst DEF Acquire
    <3>2. keys' \in [Positions -> KeyStates]
      BY <2>1, RefreshType DEF Acquire, RefreshUpTo
    <3>. QED
      BY <2>1, <3>1, <3>2 DEF Acquire
  <2>2. CASE AcquireFails(c)
    BY <2>2, RefreshType DEF AcquireFails, RefreshUpTo
  <2>3. ASSUME NEW key \in KeyStates, Report(c, key)
        PROVE  PoolTypeOK'
    BY <2>3 DEF Report, NoKey
  <2>4. ASSUME Holding(c)
        PROVE  keys[Charged(c)] \in KeyStates
    BY <2>4, ChargedIsPosition
  <2>5. CASE MarkRateLimited(c)
    BY <2>3, <2>4, <2>5, ReportTypes DEF MarkRateLimited, Snapshots
  <2>6. CASE MarkError(c)
    BY <2>3, <2>4, <2>6, ReportTypes DEF MarkError, Snapshots
  <2>7. CASE MarkKeyInvalid(c)
    BY <2>3, <2>4, <2>7, ReportTypes DEF MarkKeyInvalid, Snapshots
  <2>8. ASSUME NEW snap \in Snapshots, UpdateFromUpstream(c, snap)
        PROVE  PoolTypeOK'
    BY <2>3, <2>4, <2>8, ReportTypes DEF UpdateFromUpstream
  <2>9. CASE Abandon(c)
    BY <2>9 DEF Abandon, NoKey
  <2>. QED
    BY <1>3, <2>1, <2>2, <2>5, <2>6, <2>7, <2>8, <2>9 DEF CallerStep
<1>4. ASSUME NEW k \in Positions, MarkExhausted(k)
      PROVE  PoolTypeOK'
  <2>1. Find(Label[k]) \in Positions
    BY FindsTheLabel
  <2>2. now \in Times
    BY DEF Times
  <2>. QED
    BY <1>4, <2>1, <2>2 DEF MarkExhausted, KeyStates, Statuses
<1>. QED
  BY <1>1, <1>2, <1>3, <1>4 DEF APINext, PoolNext

LEMMA TypeInit ==
    ASSUME PoolInit
    PROVE  PoolTypeOK
BY PoolAssumption DEF PoolInit, PoolTypeOK, NewKey, KeyStates, Statuses, Times, ZeroTime, NoKey

\* However the exported methods are called, the pool's state keeps its types.
THEOREM InterfaceTypes == APISpec => []PoolTypeOK
BY TypeInit, TypeStep, PTL DEF APISpec

\* The gateway uses a part of the interface: it never marks a key exhausted.
LEMMA GatewayUsesInterface == PoolSpec => APISpec
<1>1. [PoolNext]_poolVars => [APINext]_poolVars
  BY DEF APINext
<1>. QED
  BY <1>1, PTL DEF PoolSpec, APISpec

\* The pool as the gateway uses it keeps its types.
THEOREM PoolTypes == PoolSpec => []PoolTypeOK
BY InterfaceTypes, GatewayUsesInterface, PTL
-----------------------------------------------------------------------------
(* No key is stranded. *)

\* What Clocked says of one key at time t.
ClockedKey(key, t) ==
    /\ key.lastUpdated <= t
    /\ key.cooldownUntil <= t + Longest(RateLimitCooldown, ErrorCooldown)
    /\ Cooling(key) => key.cooldownUntil # ZeroTime
    /\ key.status = "exhausted" => key.lastUpdated # ZeroTime

LEMMA ClockedByKey == Clocked <=> \A k \in Positions : ClockedKey(keys[k], now)
BY DEF Clocked, ClockedKey

LEMMA ClockedRefresh ==
    ASSUME NEW key \in KeyStates, NEW t \in Nat, ClockedKey(key, t)
    PROVE  ClockedKey(Refresh(key, t), t)
BY DEF ClockedKey, Refresh, Cooling, KeyStates, Statuses

\* Whatever is reported, the new state carries the time of its release.
LEMMA ClockedReports ==
    ASSUME NEW key \in KeyStates, NEW t \in Nat, NEW snap \in Snapshots, ClockedKey(key, t)
    PROVE  /\ ClockedKey(RateLimited(key, t), t)
           /\ ClockedKey(ErrorCounted(key, t), t)
           /\ ClockedKey(Invalid(key, t), t)
           /\ ClockedKey(Updated(key, t, snap), t)
<1>. DEFINE ahead == Longest(RateLimitCooldown, ErrorCooldown)
<1>1. /\ RateLimitCooldown \in Nat /\ ErrorCooldown \in Nat /\ ahead \in Nat
      /\ RateLimitCooldown <= ahead /\ ErrorCooldown <= ahead
  BY PoolAssumption, LongestIsLongest
<1>. HIDE DEF ahead
<1>. USE <1>1 DEF ClockedKey, Cooling, KeyStates, Times, ZeroTime
<1>2. ClockedKey(RateLimited(key, t), t)
  BY DEF RateLimited, ahead
<1>3. ClockedKey(ErrorCounted(key, t), t)
  BY DEF ErrorCounted, ahead
<1>4. ClockedKey(Invalid(key, t), t)
  BY DEF Invalid, ahead
<1>5. ClockedKey(Updated(key, t, snap), t)
  BY DEF Updated, ahead
<1>. QED
  BY <1>2, <1>3, <1>4, <1>5

LEMMA ClockedStep ==
    ASSUME PoolTypeOK, Clocked, [APINext]_poolVars
    PROVE  Clocked'
<1>. DEFINE ahead == Longest(RateLimitCooldown, ErrorCooldown)
<1>a. ahead \in Nat
  BY PoolAssumption, LongestIsLongest
<1>b. \A k \in Positions : keys[k] \in KeyStates /\ ClockedKey(keys[k], now)
  BY ClockedByKey DEF PoolTypeOK
<1>c. now \in Nat
  BY DEF PoolTypeOK
\* It is enough to show it key by key.
<1>d. SUFFICES \A k \in Positions : ClockedKey(keys'[k], now')
  BY DEF Clocked, ClockedKey
<1>1. CASE UNCHANGED poolVars
  BY <1>1, <1>b DEF poolVars
<1>2. CASE Tick
  <2>1. now' = now + 1 /\ keys' = keys
    BY <1>2 DEF Tick
  <2>2. ASSUME NEW key \in KeyStates, ClockedKey(key, now)
        PROVE  ClockedKey(key, now + 1)
    <3>. HIDE DEF ahead
    <3>. QED
      BY <1>a, <1>c, <2>2 DEF ClockedKey, KeyStates, Times, ZeroTime, ahead
  <2>. QED
    BY <1>b, <2>1, <2>2
<1>3. ASSUME NEW c \in Callers, CallerStep(c)
      PROVE  \A k \in Positions : ClockedKey(keys'[k], now')
  <2>1. ASSUME NEW n, keys' = RefreshUpTo(n), now' = now
        PROVE  \A k \in Positions : ClockedKey(keys'[k], now')
    BY <1>b, <1>c, <2>1, ClockedRefresh DEF RefreshUpTo
  <2>2. CASE Acquire(c) \/ AcquireFails(c)
    BY <2>1, <2>2 DEF Acquire, AcquireFails
  <2>3. ASSUME NEW key, Report(c, key), ClockedKey(key, now)
        PROVE  \A k \in Positions : ClockedKey(keys'[k], now')
    BY <1>b, <2>3 DEF Report, PoolTypeOK
  <2>4. ASSUME Holding(c)
        PROVE  keys[Charged(c)] \in KeyStates /\ ClockedKey(keys[Charged(c)], now)
    BY <1>b, <2>4, ChargedIsPosition
  <2>5. CASE MarkRateLimited(c)
    BY <1>c, <2>3, <2>4, <2>5, ClockedReports DEF MarkRateLimited, Snapshots
  <2>6. CASE MarkError(c)
    BY <1>c, <2>3, <2>4, <2>6, ClockedReports DEF MarkError, Snapshots
  <2>7. CASE MarkKeyInvalid(c)
    BY <1>c, <2>3, <2>4, <2>7, ClockedReports DEF MarkKeyInvalid, Snapshots
  <2>8. ASSUME NEW snap \in Snapshots, UpdateFromUpstream(c, snap)
        PROVE  \A k \in Positions : ClockedKey(keys'[k], now')
    BY <1>c, <2>3, <2>4, <2>8, ClockedReports DEF UpdateFromUpstream
  <2>9. CASE Abandon(c)
    BY <1>b, <2>9 DEF Abandon
  <2>. QED
    BY <1>3, <2>2, <2>5, <2>6, <2>7, <2>8, <2>9 DEF CallerStep
<1>4. ASSUME NEW m \in Positions, MarkExhausted(m)
      PROVE  \A k \in Positions : ClockedKey(keys'[k], now')
  <2>. DEFINE f == Find(Label[m])
              key == [keys[f] EXCEPT !.status = "exhausted",
                                     !.lastUpdated = IF @ = ZeroTime THEN now ELSE @]
  <2>1. f \in Positions
    BY FindsTheLabel
  <2>2. ClockedKey(key, now)
    BY <1>b, <1>c, <2>1 DEF ClockedKey, Cooling, KeyStates, Times, ZeroTime
  <2>3. keys' = [keys EXCEPT ![f] = key] /\ now' = now
    BY <1>4 DEF MarkExhausted
  <2>. HIDE DEF f, key
  <2>. QED
    BY <1>b, <2>1, <2>2, <2>3 DEF PoolTypeOK
<1>. QED
  BY <1>1, <1>2, <1>3, <1>4 DEF APINext, PoolNext

LEMMA ClockedInit ==
    ASSUME PoolInit
    PROVE  Clocked
<1>1. Longest(RateLimitCooldown, ErrorCooldown) \in Nat
  BY PoolAssumption, LongestIsLongest
<1>2. now \in Nat /\ keys = [k \in Positions |-> NewKey]
  BY PoolAssumption DEF PoolInit
<1>. QED
  BY <1>1, <1>2 DEF Clocked, Cooling, NewKey, ZeroTime

\* Every benched key carries the time its release is computed from.
THEOREM InterfaceClocked == APISpec => []Clocked
<1>1. PoolInit => PoolTypeOK /\ Clocked
  BY TypeInit, ClockedInit
<1>2. PoolTypeOK /\ Clocked /\ [APINext]_poolVars => (PoolTypeOK /\ Clocked)'
  BY TypeStep, ClockedStep
<1>. QED
  BY <1>1, <1>2, PTL DEF APISpec

\* A key whose times are in order is usable once Horizon has passed.
LEMMA UsableAfterHorizon ==
    ASSUME NEW key \in KeyStates, NEW t \in Nat, ClockedKey(key, t)
    PROVE  Usable(key, t + Horizon)
<1>. DEFINE ahead == Longest(RateLimitCooldown, ErrorCooldown)
<1>1. ahead \in Nat /\ DayLength \in Nat /\ Horizon = Longest(DayLength, 1 + ahead)
  BY PoolAssumption, LongestIsLongest DEF Horizon
<1>. HIDE DEF ahead
<1>2. Horizon \in Nat /\ Horizon >= DayLength /\ Horizon >= 1 + ahead
  <2>1. 1 + ahead \in Nat
    BY <1>1
  <2>. QED
    BY <1>1, <2>1, LongestIsLongest
<1>3. CASE key.status = "active"
  BY <1>3 DEF Usable, Refresh, Expired, NewDay, Cooling
<1>4. CASE Cooling(key)
  <2>1. key.cooldownUntil \in Int /\ key.cooldownUntil < t + Horizon
    BY <1>1, <1>2, <1>4 DEF ClockedKey, KeyStates, Times, ZeroTime, ahead
  <2>2. Expired(key, t + Horizon)
    BY <1>2, <1>4, <2>1 DEF Expired, ClockedKey
  <2>. QED
    BY <2>2 DEF Usable, Refresh, KeyStates
<1>5. CASE key.status = "exhausted"
  <2>1. key.lastUpdated \in Int /\ t + Horizon - key.lastUpdated >= DayLength
    BY <1>1, <1>2 DEF ClockedKey, KeyStates, Times, ZeroTime
  <2>2. NewDay(key, t + Horizon)
    BY <1>2, <1>5, <2>1, DayAdvances DEF NewDay, ClockedKey
  <2>. QED
    BY <2>2 DEF Usable, Refresh, KeyStates
<1>. QED
  BY <1>3, <1>4, <1>5 DEF Cooling, KeyStates, Statuses

LEMMA ClockedImpliesBounded ==
    ASSUME PoolTypeOK, Clocked
    PROVE  RecoveryBounded
BY UsableAfterHorizon, ClockedByKey DEF RecoveryBounded, PoolTypeOK

\* No calls in any order can strand a key: from every reachable state each key
\* is usable again after one cooldown or one day, whichever is longer.
THEOREM InterfaceNeverStrands == APISpec => []RecoveryBounded
<1>1. PoolTypeOK /\ Clocked => RecoveryBounded
  BY ClockedImpliesBounded
<1>. QED
  BY <1>1, InterfaceTypes, InterfaceClocked, PTL

\* The same of the pool as the gateway uses it.
THEOREM PoolNeverStrands == PoolSpec => []RecoveryBounded
BY InterfaceNeverStrands, GatewayUsesInterface, PTL
-----------------------------------------------------------------------------
(* Errors and the order of use, for the pool as the gateway uses it. *)

\* All that a step can do to one key.
LEMMA KeyChanges ==
    ASSUME PoolTypeOK, [PoolNext]_poolVars, NEW k \in Positions
    PROVE  \/ keys'[k] = keys[k]
           \/ keys'[k] \in {Refresh(keys[k], now), RateLimited(keys[k], now),
                            ErrorCounted(keys[k], now), Invalid(keys[k], now)}
           \/ \E snap \in Snapshots : keys'[k] = Updated(keys[k], now, snap)
<1>1. CASE UNCHANGED poolVars \/ Tick
  BY <1>1 DEF poolVars, Tick
<1>2. ASSUME NEW c \in Callers, CallerStep(c)
      PROVE  \/ keys'[k] = keys[k]
             \/ keys'[k] \in {Refresh(keys[k], now), RateLimited(keys[k], now),
                              ErrorCounted(keys[k], now), Invalid(keys[k], now)}
             \/ \E snap \in Snapshots : keys'[k] = Updated(keys[k], now, snap)
  <2>1. CASE Acquire(c) \/ AcquireFails(c)
    BY <2>1 DEF Acquire, AcquireFails, RefreshUpTo
  <2>2. ASSUME NEW key, Report(c, key)
        PROVE  keys'[k] = keys[k] \/ (k = Charged(c) /\ keys'[k] = key)
    BY <2>2 DEF Report, PoolTypeOK
  <2>3. CASE MarkRateLimited(c) \/ MarkError(c) \/ MarkKeyInvalid(c)
    BY <2>2, <2>3 DEF MarkRateLimited, MarkError, MarkKeyInvalid
  <2>4. ASSUME NEW snap \in Snapshots, UpdateFromUpstream(c, snap)
        PROVE  keys'[k] = keys[k] \/ keys'[k] = Updated(keys[k], now, snap)
    BY <2>2, <2>4 DEF UpdateFromUpstream
  <2>5. CASE Abandon(c)
    BY <2>5 DEF Abandon
  <2>. QED
    BY <1>2, <2>1, <2>3, <2>4, <2>5 DEF CallerStep
<1>. QED
  BY <1>1, <1>2 DEF PoolNext

LEMMA BudgetStep ==
    ASSUME PoolTypeOK, ActiveHasErrorBudget, [PoolNext]_poolVars
    PROVE  ActiveHasErrorBudget'
<1>. SUFFICES ASSUME MaxErrorCount > 0, NEW k \in Positions,
                     keys'[k].status \in {"active", "exhausted"}
              PROVE  keys'[k].errorCount < MaxErrorCount
  BY DEF ActiveHasErrorBudget
<1>1. /\ keys[k] \in KeyStates /\ MaxErrorCount \in Nat /\ now \in Nat
      /\ keys[k].status \in {"active", "exhausted"} => keys[k].errorCount < MaxErrorCount
  BY PoolAssumption DEF PoolTypeOK, ActiveHasErrorBudget
<1>2. CASE keys'[k] = keys[k]
  BY <1>1, <1>2
<1>3. CASE keys'[k] = Refresh(keys[k], now)
  BY <1>1, <1>3 DEF Refresh, NewDay, KeyStates
<1>4. CASE keys'[k] = RateLimited(keys[k], now) \/ keys'[k] = Invalid(keys[k], now)
  BY <1>1, <1>4 DEF RateLimited, Invalid, KeyStates
<1>5. CASE keys'[k] = ErrorCounted(keys[k], now)
  <2>1. CASE keys[k].errorCount + 1 >= MaxErrorCount
    BY <1>1, <1>5, <2>1 DEF ErrorCounted, KeyStates
  <2>2. CASE ~(keys[k].errorCount + 1 >= MaxErrorCount)
    BY <1>1, <1>5, <2>2 DEF ErrorCounted, KeyStates
  <2>. QED
    BY <2>1, <2>2
<1>6. ASSUME NEW snap \in Snapshots, keys'[k] = Updated(keys[k], now, snap)
      PROVE  keys'[k].errorCount < MaxErrorCount
  BY <1>1, <1>6 DEF Updated, KeyStates
<1>. QED
  BY <1>2, <1>3, <1>4, <1>5, <1>6, KeyChanges

LEMMA BudgetInit ==
    ASSUME PoolInit
    PROVE  ActiveHasErrorBudget
BY PoolAssumption DEF PoolInit, NewKey, ActiveHasErrorBudget

\* No key in rotation carries a count at or above the limit, for any limit: it
\* trips exactly when the limit is reached, and comes back with a clean count.
THEOREM PoolKeepsErrorBudget == PoolSpec => []ActiveHasErrorBudget
BY PoolTypes, BudgetInit, BudgetStep, PTL DEF PoolSpec

\* A key that the state table holds back gains no new holder in a step.
LEMMA HoldersStep ==
    ASSUME PoolTypeOK, [APINext]_poolVars, NEW k \in Positions, Quarantined(keys[k], now)
    PROVE  Holders(k)' \subseteq Holders(k)
<1>. SUFFICES ASSUME NEW d \in Callers, handle'[d] = k
              PROVE  handle[d] = k
  BY DEF Holders
<1>0. k # NoKey /\ ~Usable(keys[k], now)
  BY QuarantinedIsNotUsable DEF PoolTypeOK, Positions, NoKey
<1>1. CASE UNCHANGED handle
  BY <1>1
<1>2. ASSUME NEW c \in Callers, Acquire(c)
      PROVE  handle[d] = k
  <2>1. Usable(keys[FirstUsable], now)
    BY <1>2, FirstUsableIsFirst DEF Acquire
  <2>. QED
    BY <1>0, <1>2, <2>1 DEF Acquire, PoolTypeOK
<1>3. ASSUME NEW c \in Callers, handle' = [handle EXCEPT ![c] = NoKey]
      PROVE  handle[d] = k
  BY <1>0, <1>3 DEF PoolTypeOK
<1>4. ASSUME NEW c \in Callers, CallerStep(c)
      PROVE  Acquire(c) \/ UNCHANGED handle \/ handle' = [handle EXCEPT ![c] = NoKey]
  BY <1>4 DEF CallerStep, AcquireFails, MarkRateLimited, MarkError, MarkKeyInvalid,
              UpdateFromUpstream, Abandon, Report
<1>. QED
  BY <1>1, <1>2, <1>3, <1>4 DEF APINext, PoolNext, Tick, MarkExhausted, poolVars

\* Whatever order calls and late reports come in, nobody acquires a key that is
\* cooling down or exhausted for the day.
THEOREM InterfaceHoldsBack == APISpec => NoNewTrafficOnQuarantined
<1>1. PoolTypeOK /\ [APINext]_poolVars =>
        [\A k \in Positions : Quarantined(keys[k], now) => Holders(k)' \subseteq Holders(k)]_poolVars
  BY HoldersStep
<1>. QED
  BY <1>1, InterfaceTypes, PTL DEF APISpec, NoNewTrafficOnQuarantined

\* The same of the pool as the gateway uses it.
THEOREM PoolHoldsBack == PoolSpec => NoNewTrafficOnQuarantined
BY InterfaceHoldsBack, GatewayUsesInterface, PTL

\* A key whose times are in order and that is not usable is held back by the
\* state table: the pool idles no key without a reason.
LEMMA IdleOnlyIfQuarantined ==
    ASSUME NEW key \in KeyStates, NEW t \in Nat, ClockedKey(key, t), ~Usable(key, t)
    PROVE  Quarantined(key, t)
<1>1. CASE Cooling(key)
  <2>1. ~Expired(key, t)
    BY <1>1 DEF Usable, Refresh, Expired, NewDay, Cooling, KeyStates
  <2>. QED
    BY <1>1, <2>1 DEF Expired, ClockedKey, Quarantined, Cooling, KeyStates, Times, ZeroTime
<1>2. CASE key.status = "exhausted"
  <2>1. ~NewDay(key, t)
    BY <1>2 DEF Usable, Refresh, Expired, NewDay, Cooling, KeyStates
  <2>. QED
    BY <1>2, <2>1 DEF NewDay, ClockedKey, Quarantined
<1>. QED
  BY <1>1, <1>2 DEF Usable, Refresh, Expired, NewDay, Cooling, KeyStates, Statuses

\* ErrNoKeyAvailable is returned only while every key is cooling down or
\* exhausted for the day.
THEOREM InterfaceIsWorkConserving == APISpec => []WorkConserving
<1>1. PoolTypeOK /\ Clocked => WorkConserving
  BY IdleOnlyIfQuarantined, ClockedByKey DEF AnyUsable, PoolTypeOK, WorkConserving
<1>. QED
  BY <1>1, InterfaceTypes, InterfaceClocked, PTL

\* The same of the pool as the gateway uses it.
THEOREM PoolIsWorkConserving == PoolSpec => []WorkConserving
BY InterfaceIsWorkConserving, GatewayUsesInterface, PTL

\* A key is acquired only while every key before it is held back: the keys are
\* used up in the configured order.
THEOREM PoolExhaustsInOrder == PoolSpec => SequentialExhaustion
<1>1. ASSUME PoolTypeOK, Clocked, NEW c \in Callers, Acquire(c),
             NEW j \in 1..(handle'[c] - 1)
      PROVE  Quarantined(keys[j], now)
  <2>1. handle'[c] = FirstUsable /\ FirstUsable \in Positions
    BY <1>1, FirstUsableIsFirst DEF Acquire, PoolTypeOK
  <2>2. j \in Positions /\ ~Usable(keys[j], now)
    BY <1>1, <2>1, FirstUsableIsFirst, PoolAssumption DEF Acquire, Positions
  <2>. QED
    BY <1>1, <2>2, IdleOnlyIfQuarantined, ClockedByKey DEF PoolTypeOK
<1>2. PoolTypeOK /\ Clocked =>
        [\A c \in Callers : Acquire(c) =>
            \A j \in 1..(handle'[c] - 1) : Quarantined(keys[j], now)]_poolVars
  BY <1>1
<1>. QED
  BY <1>2, InterfaceTypes, InterfaceClocked, GatewayUsesInterface, PTL DEF SequentialExhaustion
-----------------------------------------------------------------------------
(* Retry-After. *)

\* Rounding the wait down to seconds loses less than one second.
LEMMA OneSecondMore ==
    ASSUME NEW d \in Int, NEW s \in Nat, s >= d \div TicksPerSecond
    PROVE  (s + 1) * TicksPerSecond > d
<1>. DEFINE q == d \div TicksPerSecond
<1>1. TicksPerSecond \in Nat \ {0}
  BY PoolAssumption
<1>2. q \in Int /\ d < TicksPerSecond * q + TicksPerSecond
  BY <1>1
<1>3. s * TicksPerSecond >= q * TicksPerSecond
  <2>1. (s - q) \in Nat
    BY <1>2
  <2>2. (s - q) * TicksPerSecond >= 0
    BY <1>1, <2>1
  <2>. HIDE DEF q
  <2>. QED
    BY <1>1, <1>2, <2>2
<1>. HIDE DEF q
<1>. QED
  BY <1>1, <1>2, <1>3

LEMMA SecondsType ==
    ASSUME NEW key \in KeyStates, NEW t \in Nat
    PROVE  SecondsUntil(key, t) \in Nat /\ SecondsUntil(key, t) >= 1
<1>1. (key.cooldownUntil - t) \div TicksPerSecond \in Int
  BY PoolAssumption DEF KeyStates, Times, ZeroTime
<1>2. DefaultRetryAfter \in Nat /\ DefaultRetryAfter >= 1
  BY PoolAssumption
<1>. QED
  BY <1>1, <1>2 DEF SecondsUntil, AtLeastOne

\* Without an active key, the answer is the wait for one of the keys.
LEMMA EarliestIsSomeKey ==
    ASSUME PoolTypeOK, \A k \in Positions : keys[k].status # "active"
    PROVE  \E k \in Positions : EarliestRecoverySeconds = SecondsUntil(keys[k], now)
<1>. DEFINE W == {SecondsUntil(keys[k], now) : k \in Positions}
<1>1. \A k \in Positions : SecondsUntil(keys[k], now) \in Nat
  BY SecondsType DEF PoolTypeOK
<1>2. W \subseteq Nat /\ W # {}
  BY <1>1, PoolAssumption DEF Positions
<1>3. PICK m \in W : \A s \in W : <<s, m>> \notin OpToRel(<, Nat)
  <2>. HIDE DEF W
  <2>. QED
    BY <1>2, WFMin, NatLessThanWellFounded, Zenon
<1>4. \A s \in W : m <= s
  <2>1. ASSUME NEW s \in W
        PROVE  m <= s
    <3>. HIDE DEF W
    <3>1. s \in Nat /\ m \in Nat /\ <<s, m>> \notin OpToRel(<, Nat)
      BY <1>2, <1>3, <2>1
    <3>. QED
      BY <3>1 DEF OpToRel
  <2>. QED
    BY <2>1
<1>5. \A k \in Positions : m <= SecondsUntil(keys[k], now)
  BY <1>4
<1>6. EarliestRecoverySeconds = CHOOSE s \in W : \A k \in Positions : s <= SecondsUntil(keys[k], now)
  BY DEF EarliestRecoverySeconds
<1>7. EarliestRecoverySeconds \in W
  <2>. HIDE DEF W
  <2>. QED
    BY <1>3, <1>5, <1>6
<1>. QED
  BY <1>7

\* For every cooldown and clock resolution, a client that waits one second
\* longer than it was told finds a usable key.
THEOREM InterfaceRetryOneSecondLater == APISpec => []RetryOneSecondLater
<1>1. ASSUME PoolTypeOK, Clocked, NoExhaustedKey, EarliestRecoverySeconds > 0
      PROVE  \E k \in Positions :
                Usable(keys[k], now + (EarliestRecoverySeconds + 1) * TicksPerSecond)
  <2>1. \A k \in Positions : keys[k].status # "active"
    BY <1>1 DEF EarliestRecoverySeconds
  <2>2. PICK k \in Positions : EarliestRecoverySeconds = SecondsUntil(keys[k], now)
    BY <1>1, <2>1, EarliestIsSomeKey
  <2>. DEFINE key == keys[k]
              s == SecondsUntil(key, now)
              d == key.cooldownUntil - now
              later == now + (s + 1) * TicksPerSecond
  <2>3. key \in KeyStates /\ now \in Nat /\ d \in Int /\ s \in Nat
    BY <1>1, SecondsType DEF PoolTypeOK, KeyStates, Times, ZeroTime
  <2>4. Cooling(key) /\ key.cooldownUntil # ZeroTime
    BY <1>1, <2>1, <2>3 DEF NoExhaustedKey, Clocked, Cooling, KeyStates, Statuses
  <2>5. s >= d \div TicksPerSecond
    <3>1. d \div TicksPerSecond \in Int
      BY <2>3, PoolAssumption
    <3>. QED
      BY <2>4, <3>1 DEF SecondsUntil, AtLeastOne
  <2>6. (s + 1) * TicksPerSecond > d
    BY <2>3, <2>5, OneSecondMore
  <2>7. later > key.cooldownUntil
    <3>1. (s + 1) * TicksPerSecond \in Int
      BY <2>3, PoolAssumption
    <3>. HIDE DEF s, key
    <3>. QED
      BY <2>3, <2>6, <3>1 DEF KeyStates, Times, ZeroTime
  <2>8. Usable(key, later)
    BY <2>3, <2>4, <2>7 DEF Usable, Refresh, Expired, KeyStates
  <2>. QED
    BY <2>2, <2>8
<1>2. PoolTypeOK /\ Clocked => RetryOneSecondLater
  BY <1>1 DEF RetryOneSecondLater
<1>. QED
  BY <1>2, InterfaceTypes, InterfaceClocked, PTL
=============================================================================
