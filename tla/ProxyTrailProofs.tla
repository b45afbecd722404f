-------------------------- MODULE ProxyTrailProofs --------------------------
(***************************************************************************)
(* A connection that has the pool to itself never tries a key again before *)
(* the cooldown its own 429, 401 or 403 started is over, nor on the day on *)
(* which a response said that its quota was used up.  The properties speak *)
(* of the past and are not inductive: what carries them from step to step  *)
(* is TrailInv and RestInv, which tie the history to the state each key is *)
(* in now.                                                                 *)
(***************************************************************************)
EXTENDS ProxyTrail, ProxyProofs

DistinctLabels == \A j, k \in Positions : Label[j] = Label[k] => j = k

Results == {"pending", "unsent", "success", "client_error",
            "rate_limited", "key_invalid", "server_error"}

Tries == [key : Positions, from : Nat, until : Nat, result : Results]

Refused(tried) == tried.result \in {"rate_limited", "key_invalid"}

\* The end of the cooldown that a refused attempt started.
Due(tried) == tried.until + Cooldown(tried.result)

\* Until then the key is cooling down, no shorter, and nobody holds it.
StillBenched(c, tried) ==
    Refused(tried) =>
        \/ now > Due(tried)
        \/ /\ Cooling(keys[tried.key])
           /\ keys[tried.key].cooldownUntil >= Due(tried)
           /\ handle[c] # tried.key

\* During a call the last attempt is that call, made with the key held.
LastIsPending(c) ==
    pc[c] \in {"calling", "settle"} =>
        /\ Len(trail[c]) > 0
        /\ trail[c][Len(trail[c])].key = handle[c]
        /\ trail[c][Len(trail[c])].result = "pending"

NoReuse(c) ==
    \A i, j \in 1..Len(trail[c]) :
        i < j /\ trail[c][i].key = trail[c][j].key /\ Refused(trail[c][i])
            => trail[c][j].from > Due(trail[c][i])

TrailOf(c) ==
    /\ trail[c] \in Seq(Tries)
    /\ LastIsPending(c)
    /\ \A i \in 1..Len(trail[c]) : StillBenched(c, trail[c][i])
    /\ NoReuse(c)

TrailInv ==
    /\ DOMAIN trail = Callers
    /\ \A c \in Callers : TrailOf(c)
-----------------------------------------------------------------------------
LEMMA DueType ==
    ASSUME NEW tried \in Tries
    PROVE  Due(tried) \in Nat
BY PoolAssumption DEF Due, Tries, Cooldown

\* Before its cooldown is over Refresh leaves a key alone, and it is not usable.
LEMMA BenchedIsLeftAlone ==
    ASSUME NEW key \in KeyStates, NEW t \in Nat, Cooling(key), key.cooldownUntil >= t
    PROVE  Refresh(key, t) = key /\ ~Usable(key, t)
BY DEF Cooling, Refresh, Expired, NewDay, Usable, KeyStates, Times, ZeroTime

\* With distinct labels a report is charged to the key of its own call.
LEMMA ChargedIsHeld ==
    ASSUME DistinctLabels, PoolTypeOK, NEW c \in Callers, Holding(c)
    PROVE  Charged(c) = handle[c]
<1>1. handle[c] \in Positions
  BY DEF Holding, PoolTypeOK
<1>2. Find(Label[handle[c]]) \in Positions /\ Label[Find(Label[handle[c]])] = Label[handle[c]]
  BY <1>1, FindsTheLabel
<1>. QED
  BY <1>1, <1>2 DEF Charged, DistinctLabels

LEMMA TrailVarsChange ==
    ASSUME [TrailNext]_trailVars
    PROVE  [Next]_vars
BY DEF TrailNext, trailVars, vars

\* A refused attempt stays benched, or due, if the clock does not go back, its
\* key is refreshed at most, and what is acquired is usable.
LEMMA BenchedStep ==
    ASSUME ProxyTypeOK, NEW c \in Callers, NEW tried \in Tries, StillBenched(c, tried),
           now' \in Nat, now' >= now,
           keys'[tried.key] \in {keys[tried.key], Refresh(keys[tried.key], now)},
           handle'[c] = tried.key => handle[c] = tried.key \/ Usable(keys[tried.key], now)
    PROVE  StillBenched(c, tried)'
<1>1. CASE ~Refused(tried)
  BY <1>1 DEF StillBenched, Refused
<1>2. CASE now > Due(tried)
  BY <1>2, DueType DEF StillBenched, ProxyTypeOK, PoolTypeOK, Due, Cooldown
<1>3. CASE Refused(tried) /\ ~(now > Due(tried))
  <2>1. keys[tried.key] \in KeyStates /\ now \in Nat /\ Due(tried) \in Nat
    BY DueType DEF ProxyTypeOK, PoolTypeOK, Tries
  <2>2. /\ Cooling(keys[tried.key]) /\ keys[tried.key].cooldownUntil >= Due(tried)
        /\ handle[c] # tried.key
    BY <1>3 DEF StillBenched
  <2>3. keys[tried.key].cooldownUntil >= now
    BY <1>3, <2>1, <2>2 DEF KeyStates, Times, ZeroTime
  <2>4. Refresh(keys[tried.key], now) = keys[tried.key] /\ ~Usable(keys[tried.key], now)
    BY <2>1, <2>2, <2>3, BenchedIsLeftAlone
  <2>5. keys'[tried.key] = keys[tried.key] /\ handle'[c] # tried.key
    BY <2>2, <2>4
  <2>. QED
    BY <2>2, <2>5 DEF StillBenched, Cooling, Due, Cooldown
<1>. QED
  BY <1>1, <1>2, <1>3
-----------------------------------------------------------------------------
(* One lemma for each thing a step does to the trail of the connection. *)

\* Nothing is tried and nothing is settled.
LEMMA TrailKept ==
    ASSUME ProxyTypeOK, NEW c \in Callers, TrailOf(c),
           trail'[c] = trail[c], handle'[c] = handle[c], now' \in Nat, now' >= now,
           \A k \in Positions : keys'[k] \in {keys[k], Refresh(keys[k], now)},
           pc'[c] \in {"calling", "settle"} => pc[c] \in {"calling", "settle"}
    PROVE  TrailOf(c)'
<1>1. trail'[c] \in Seq(Tries) /\ LastIsPending(c)' /\ NoReuse(c)'
  BY DEF TrailOf, LastIsPending, NoReuse, Refused, Due, Cooldown
<1>2. ASSUME NEW i \in 1..Len(trail[c]), NEW tried, tried = trail[c][i]
      PROVE  StillBenched(c, tried)'
  <2>1. trail[c] \in Seq(Tries) /\ StillBenched(c, tried)
    BY <1>2 DEF TrailOf
  <2>2. tried \in Tries
    BY <1>2, <2>1
  <2>3. tried.key \in Positions
    BY <2>2 DEF Tries
  <2>. QED
    BY <2>1, <2>2, <2>3, BenchedStep
<1>3. \A i \in 1..Len(trail[c]) : StillBenched(c, trail[c][i])'
  BY <1>2 DEF StillBenched, Refused, Due, Cooldown
<1>. QED
  BY <1>1, <1>3 DEF TrailOf

\* The request is over.
LEMMA TrailForgotten ==
    ASSUME NEW c \in Callers, trail'[c] = <<>>, pc'[c] \notin {"calling", "settle"}
    PROVE  TrailOf(c)'
BY DEF TrailOf, LastIsPending, NoReuse

\* A key is tried: it is usable, so the cooldown of any earlier refusal is over.
LEMMA TrailGrows ==
    ASSUME ProxyTypeOK, ProxyTypeOK', NEW c \in Callers, TrailOf(c), TryKey(c),
           trail'[c] = Append(trail[c], Attempt(handle'[c]))
    PROVE  TrailOf(c)'
<1>. DEFINE k == FirstUsable
            new == [key |-> k, from |-> now, until |-> now, result |-> "pending"]
<1>1. k \in Positions /\ Usable(keys[k], now)
  BY FirstUsableIsFirst DEF TryKey, Acquire
<1>2. /\ handle'[c] = k /\ now' = now /\ now \in Nat /\ pc'[c] = "calling"
      /\ \A j \in Positions : keys'[j] \in {keys[j], Refresh(keys[j], now)}
  BY DEF TryKey, Acquire, RefreshUpTo, Goto, ProxyTypeOK, PoolTypeOK
<1>3. new \in Tries /\ trail'[c] = Append(trail[c], new) /\ trail[c] \in Seq(Tries)
  BY <1>1, <1>2 DEF Tries, Results, Attempt, TrailOf
<1>. HIDE DEF k
<1>4. /\ trail'[c] \in Seq(Tries) /\ Len(trail'[c]) = Len(trail[c]) + 1
      /\ Len(trail[c]) \in Nat /\ trail'[c][Len(trail[c]) + 1] = new
      /\ \A i \in 1..Len(trail[c]) : trail'[c][i] = trail[c][i]
  <2>. HIDE DEF new
  <2>. QED
    BY <1>3
<1>5. LastIsPending(c)'
  BY <1>2, <1>4 DEF LastIsPending
<1>6. ASSUME NEW i \in 1..Len(trail[c]), NEW tried, tried = trail[c][i]
      PROVE  /\ StillBenched(c, tried)'
             /\ tried.key = k /\ Refused(tried) => now > Due(tried)
  <2>1. StillBenched(c, tried) /\ tried \in Tries
    BY <1>3, <1>6 DEF TrailOf
  <2>2. tried.key \in Positions
    BY <2>1 DEF Tries
  <2>3. StillBenched(c, tried)'
    BY <1>1, <1>2, <2>1, <2>2, BenchedStep
  <2>4. ASSUME tried.key = k, Refused(tried)
        PROVE  now > Due(tried)
    BY <1>2, <2>3, <2>4 DEF StillBenched, Refused, Due, Cooldown
  <2>. QED
    BY <2>3, <2>4
<1>7. \A i \in 1..Len(trail'[c]) : StillBenched(c, trail[c][i])'
  <2>1. SUFFICES ASSUME NEW i \in 1..Len(trail'[c])
                 PROVE  StillBenched(c, trail[c][i])'
    OBVIOUS
  <2>2. CASE i \in 1..Len(trail[c])
    BY <1>4, <1>6, <2>2 DEF StillBenched, Refused, Due, Cooldown
  <2>3. CASE i = Len(trail[c]) + 1
    BY <1>4, <2>3 DEF StillBenched, Refused
  <2>. QED
    BY <1>4, <2>2, <2>3
<1>8. NoReuse(c)'
  <2>1. SUFFICES ASSUME NEW i \in 1..Len(trail'[c]), NEW j \in 1..Len(trail'[c]), i < j,
                        trail'[c][i].key = trail'[c][j].key, Refused(trail'[c][i])
                 PROVE  trail'[c][j].from > Due(trail'[c][i])
    BY DEF NoReuse, Refused, Due, Cooldown
  <2>2. i \in 1..Len(trail[c]) /\ trail'[c][i] = trail[c][i]
    BY <1>4, <2>1
  <2>3. CASE j \in 1..Len(trail[c])
    BY <1>4, <2>1, <2>2, <2>3 DEF TrailOf, NoReuse
  <2>4. CASE j = Len(trail[c]) + 1
    BY <1>4, <1>6, <2>1, <2>2, <2>4
  <2>. QED
    BY <1>4, <2>3, <2>4
<1>. QED
  BY <1>4, <1>5, <1>7, <1>8 DEF TrailOf

\* What a report does to the key it is charged to, and the result recorded: a
\* refusal of the upstream, and nothing else, starts the cooldown of its kind.
LEMMA RefusalBenches ==
    ASSUME ProxyTypeOK, NEW c \in Callers, handle[c] \in Positions, Charged(c) = handle[c],
           OnRateLimited(c) \/ OnKeyInvalid(c) \/ OnServerError(c)
    PROVE  /\ Result(reply[c]) \in Results
           /\ Result(reply[c]) \in {"rate_limited", "key_invalid"} =>
                 /\ Cooling(keys'[handle[c]])
                 /\ keys'[handle[c]].cooldownUntil = now + Cooldown(Result(reply[c]))
<1>1. CASE OnRateLimited(c)
  <2>1. Outcome(reply[c]) = "rate_limited" /\ reply[c].cause = "status"
    BY <1>1 DEF OnRateLimited, Settles, Outcome
  <2>2. keys' = [keys EXCEPT ![handle[c]] = RateLimited(keys[handle[c]], now)]
    BY <1>1 DEF OnRateLimited, MarkRateLimited, Report
  <2>. QED
    BY <2>1, <2>2 DEF Result, Results, RateLimited, Cooling, Cooldown, ProxyTypeOK, PoolTypeOK,
                      KeyStates
<1>2. CASE OnKeyInvalid(c)
  <2>1. Outcome(reply[c]) = "key_invalid" /\ reply[c].cause = "status"
    BY <1>2 DEF OnKeyInvalid, Settles, Outcome
  <2>2. keys' = [keys EXCEPT ![handle[c]] = Invalid(keys[handle[c]], now)]
    BY <1>2 DEF OnKeyInvalid, MarkKeyInvalid, Report
  <2>. QED
    BY <2>1, <2>2 DEF Result, Results, Invalid, Cooling, Cooldown, ProxyTypeOK, PoolTypeOK,
                      KeyStates
<1>3. CASE OnServerError(c)
  BY <1>3 DEF OnServerError, Settles, Result, Results
<1>. QED
  BY <1>1, <1>2, <1>3

\* A reply is handled: the last attempt gets its result, and only its key changes.
LEMMA TrailSettles ==
    ASSUME ProxyInv, DistinctLabels, NEW c \in Callers, TrailOf(c), trail'[c] = Settled(c),
           OnRateLimited(c) \/ OnKeyInvalid(c) \/ OnServerError(c)
    PROVE  TrailOf(c)'
<1>. DEFINE n == Len(trail[c])
            last == [trail[c][n] EXCEPT !.until = now, !.result = Result(reply[c])]
<1>1. pc[c] = "settle" /\ Holding(c) /\ handle[c] \in Positions /\ ProxyTypeOK
  BY DEF OnRateLimited, OnKeyInvalid, OnServerError, Settles, ProxyInv, HandleMatchesCall,
         Holding, ProxyTypeOK, PoolTypeOK
<1>2. Charged(c) = handle[c]
  BY <1>1, ChargedIsHeld DEF ProxyTypeOK
<1>3. /\ now' = now /\ now \in Nat /\ handle'[c] = NoKey /\ pc'[c] = "loop"
      /\ \A k \in Positions : k # handle[c] => keys'[k] = keys[k]
  BY <1>1, <1>2 DEF OnRateLimited, OnKeyInvalid, OnServerError, MarkRateLimited, MarkKeyInvalid,
                    MarkError, Report, Retry, Goto, ProxyTypeOK, PoolTypeOK
<1>4. /\ trail[c] \in Seq(Tries) /\ n \in Nat /\ n > 0 /\ trail[c][n] \in Tries
      /\ trail[c][n].key = handle[c] /\ trail[c][n].result = "pending"
  <2>1. trail[c] \in Seq(Tries) /\ LastIsPending(c)
    BY DEF TrailOf
  <2>. QED
    BY <1>1, <2>1 DEF LastIsPending
<1>5. Result(reply[c]) \in Results
  BY <1>1, <1>2, RefusalBenches
<1>6. /\ last \in Tries /\ last.key = handle[c] /\ last.until = now
      /\ last.result = Result(reply[c]) /\ last.from = trail[c][n].from
  BY <1>3, <1>4, <1>5 DEF Tries
<1>7. trail'[c] = [trail[c] EXCEPT ![n] = last]
  BY DEF Settled
<1>. HIDE DEF last
<1>8. /\ trail'[c] \in Seq(Tries) /\ Len(trail'[c]) = n /\ trail'[c][n] = last
      /\ \A i \in 1..n : i # n => trail'[c][i] = trail[c][i]
  BY <1>4, <1>6, <1>7
<1>. HIDE DEF n
<1>9. LastIsPending(c)'
  BY <1>3 DEF LastIsPending
<1>10. ASSUME NEW i \in 1..n
       PROVE  StillBenched(c, trail[c][i])'
  <2>1. CASE i = n
    <3>1. Refused(last) => Cooling(keys'[last.key]) /\ keys'[last.key].cooldownUntil = Due(last)
      BY <1>1, <1>2, <1>6, RefusalBenches DEF Refused, Due
    <3>2. keys'[handle[c]].cooldownUntil = Due(last) => keys'[handle[c]].cooldownUntil >= Due(last)
      BY <1>6, DueType
    <3>3. handle'[c] # last.key
      BY <1>1, <1>3, <1>6 DEF Positions, NoKey
    <3>. QED
      BY <1>6, <1>8, <2>1, <3>1, <3>2, <3>3 DEF StillBenched, Refused, Due, Cooldown, Cooling
  <2>2. ASSUME i # n, NEW tried, tried = trail[c][i]
        PROVE  StillBenched(c, tried)'
    <3>1. StillBenched(c, tried) /\ tried \in Tries
      BY <1>4, <2>2 DEF TrailOf, n
    <3>2. tried.key \in Positions
      BY <3>1 DEF Tries
    <3>3. CASE tried.key = handle[c]
      BY <1>3, <3>1, <3>3 DEF StillBenched, Refused, Due, Cooldown
    <3>4. CASE tried.key # handle[c]
      <4>1. keys'[tried.key] = keys[tried.key] /\ handle'[c] # tried.key
        BY <1>3, <3>2, <3>4 DEF Positions, NoKey
      <4>2. now' >= now
        BY <1>3
      <4>. QED
        BY <1>1, <1>3, <3>1, <4>1, <4>2, BenchedStep
    <3>. QED
      BY <3>3, <3>4
  <2>3. CASE i # n
    BY <1>8, <2>2, <2>3 DEF StillBenched, Refused, Due, Cooldown
  <2>. QED
    BY <2>1, <2>3
<1>11. NoReuse(c)'
  <2>1. SUFFICES ASSUME NEW i \in 1..n, NEW j \in 1..n, i < j,
                        trail'[c][i].key = trail'[c][j].key, Refused(trail'[c][i])
                 PROVE  trail'[c][j].from > Due(trail'[c][i])
    BY <1>8 DEF NoReuse, Refused, Due, Cooldown
  <2>2. i # n /\ trail'[c][i] = trail[c][i]
    BY <1>4, <1>8, <2>1
  <2>3. trail'[c][j].key = trail[c][j].key /\ trail'[c][j].from = trail[c][j].from
    BY <1>4, <1>6, <1>8
  <2>. QED
    BY <2>1, <2>2, <2>3 DEF TrailOf, NoReuse, n
<1>. QED
  BY <1>8, <1>9, <1>10, <1>11 DEF TrailOf
-----------------------------------------------------------------------------
LEMMA TrailStarts ==
    ASSUME TrailInit
    PROVE  TrailInv
BY DEF TrailInit, Init, TrailInv, TrailOf, LastIsPending, NoReuse

LEMMA TrailStep ==
    ASSUME LoneCaller, DistinctLabels, ProxyInv, ProxyInv', TrailInv, [TrailNext]_trailVars
    PROVE  TrailInv'
<1>. USE DEF TrailInv
<1>1. CASE UNCHANGED trailVars
  BY <1>1 DEF trailVars, TrailOf, LastIsPending, StillBenched, NoReuse, Refused, Due, Cooldown,
              Cooling
<1>2. CASE TrailNext
  <2>. SUFFICES ASSUME NEW c \in Callers
                PROVE  TrailOf(c)'
    BY <1>2 DEF TrailNext
  <2>1. /\ TrailOf(c) /\ trail'[c] = Record(c) /\ ProxyTypeOK /\ ProxyTypeOK'
        /\ \A d \in Callers : d = c
    BY <1>2 DEF TrailNext, LoneCaller, ProxyInv
  <2>2. now \in Nat /\ now' \in Nat /\ c \in DOMAIN pc
    BY <2>1 DEF ProxyTypeOK, PoolTypeOK
  <2>3. CASE TickProxy
    <3>1. now' >= now
      BY <2>2, <2>3 DEF TickProxy, Tick
    <3>2. trail'[c] = trail[c] \/ (trail'[c] = <<>> /\ pc'[c] \notin {"calling", "settle"})
      BY <2>1, <2>3 DEF TickProxy, handlerVars, Record
    <3>. QED
      BY <2>1, <2>2, <2>3, <3>1, <3>2, TrailKept, TrailForgotten
         DEF TickProxy, Tick, handlerVars
  <2>4. ASSUME \/ Reject(c) \/ OnSuccess(c) \/ OnClientError(c) \/ OnDisconnected(c)
               \/ Unavailable(c)
        PROVE  TrailOf(c)'
    <3>1. pc'[c] \in {"done", "aborted"}
      BY <2>2, <2>4 DEF Reject, OnSuccess, OnClientError, OnDisconnected, Unavailable, Relay,
                        Return, Goto
    <3>2. trail'[c] = <<>>
      BY <2>1, <3>1 DEF Record
    <3>. QED
      BY <3>1, <3>2, TrailForgotten
  <2>5. ASSUME Arrive(c) \/ NoKeyLeft(c) \/ UpstreamReplies(c) \/ Disconnect(c)
        PROVE  TrailOf(c)'
    <3>1. /\ now' = now /\ now' >= now /\ handle' = handle
          /\ \A k \in Positions : keys'[k] \in {keys[k], Refresh(keys[k], now)}
      BY <2>2, <2>5 DEF Arrive, Begin, NoKeyLeft, AcquireFails, RefreshUpTo, UpstreamReplies,
                        Disconnect
    <3>2. trail'[c] = trail[c] /\ (pc'[c] \in {"calling", "settle"} => pc[c] \in {"calling", "settle"})
      BY <2>1, <2>2, <2>5 DEF Arrive, Begin, NoKeyLeft, UpstreamReplies, Disconnect, Goto, Serving,
                              Record
    <3>. QED
      BY <2>1, <2>2, <3>1, <3>2, TrailKept
  <2>6. ASSUME TryKey(c)
        PROVE  TrailOf(c)'
    <3>1. trail'[c] = Append(trail[c], Attempt(handle'[c]))
      BY <2>1, <2>2, <2>6 DEF TryKey, Goto, Record
    <3>. QED
      BY <2>1, <2>6, <3>1, TrailGrows
  <2>7. ASSUME OnRateLimited(c) \/ OnKeyInvalid(c) \/ OnServerError(c)
        PROVE  TrailOf(c)'
    <3>1. trail'[c] = Settled(c)
      BY <2>1, <2>2, <2>7 DEF OnRateLimited, OnKeyInvalid, OnServerError, Settles, Retry, Goto,
                              Record
    <3>. QED
      BY <2>1, <2>7, <3>1, TrailSettles
  <2>. QED
    BY <1>2, <2>1, <2>3, <2>4, <2>5, <2>6, <2>7 DEF TrailNext, Next, Handle
<1>. QED
  BY <1>1, <1>2

\* The history decides nothing: with it the pipeline does what it did without.
LEMMA TrailDecidesNothing == TrailSpec => Init /\ [][Next]_vars
<1>1. TrailInit => Init
  BY DEF TrailInit
<1>2. [TrailNext]_trailVars => [Next]_vars
  BY TrailVarsChange
<1>. QED
  BY <1>1, <1>2, PTL DEF TrailSpec

LEMMA TrailInvariant ==
    ASSUME LoneCaller, DistinctLabels
    PROVE  TrailSpec => [](ProxyInv /\ TrailInv)
<1>1. TrailInit => ProxyInv /\ TrailInv
  BY ProxyTypeInit, MatchInit, TrailStarts DEF TrailInit, ProxyInv
<1>2. ProxyInv /\ TrailInv /\ [TrailNext]_trailVars => (ProxyInv /\ TrailInv)'
  <2>1. ASSUME ProxyInv, [TrailNext]_trailVars
        PROVE  ProxyInv'
    BY <2>1, TrailVarsChange, ProxyTypeStep, MatchStep DEF ProxyInv
  <2>. QED
    BY <2>1, TrailStep
<1>. QED
  BY <1>1, <1>2, PTL DEF TrailSpec

\* A connection alone with a pool of distinct labels never tries a key that
\* answered 429, 401 or 403 again, for the same request, before that key's
\* cooldown is over: for any number of keys and attempts and any cooldowns.
\* Both hypotheses are needed: a late report of another connection puts the
\* key back into rotation, and with a repeated label another key is benched.
THEOREM LoneRequestNeverReusesInCooldown ==
    ASSUME LoneCaller, DistinctLabels
    PROVE  TrailSpec => []NoReuseInCooldown
<1>1. TrailInv => NoReuseInCooldown
  BY DEF TrailInv, TrailOf, NoReuse, NoReuseInCooldown, Refused, Due
<1>. QED
  BY <1>1, TrailInvariant, PTL
-----------------------------------------------------------------------------
(* The quota of a day. *)

\* The key is exhausted for today, and nobody holds it.
Rests(k) ==
    /\ keys[k].status = "exhausted"
    /\ SameUTCDate(keys[k].lastUpdated, now)
    /\ \A c \in Callers : handle[c] # k

SpentNow(k) == \E c \in Callers : SaysSpent(c, k)

RestInv ==
    /\ spent \in [Positions -> Int]
    /\ \A k \in Positions :
          /\ spent[k] <= Day(now)
          /\ spent[k] = Day(now) => Rests(k)

LEMMA DayType ==
    ASSUME NEW t \in Nat
    PROVE  Day(t) \in Nat
BY PoolAssumption DEF Day

LEMMA DaysGoForward ==
    ASSUME NEW t \in Nat
    PROVE  Day(t) <= Day(t + 1)
BY PoolAssumption DEF Day

\* On the day of its snapshot Refresh leaves an exhausted key alone.
LEMMA ExhaustedIsLeftAlone ==
    ASSUME NEW key \in KeyStates, NEW t, key.status = "exhausted", SameUTCDate(key.lastUpdated, t)
    PROVE  Refresh(key, t) = key /\ ~Usable(key, t)
BY DEF Refresh, Expired, NewDay, Cooling, Usable

LEMMA RestStarts ==
    ASSUME TrailInit
    PROVE  RestInv
<1>1. now \in Nat
  BY PoolAssumption DEF TrailInit, Init, PoolInit
<1>. QED
  BY <1>1, DayType DEF TrailInit, RestInv, NoDay

\* While the clock stands still it is enough that each key said to be used up
\* today, before or in this step, rests afterwards.
LEMMA RestKept ==
    ASSUME RestInv, now \in Nat, now' = now,
           spent' = [k \in Positions |-> IF SpentNow(k) THEN Day(now) ELSE spent[k]],
           \A k \in Positions : SpentNow(k) \/ spent[k] = Day(now) => Rests(k)'
    PROVE  RestInv'
<1>1. Day(now) \in Nat /\ Day(now)' = Day(now)
  BY DayType DEF Day
<1>. QED
  BY <1>1 DEF RestInv

\* Only a relayed response speaks of the quota.
LEMMA OnlyRelaysSpeak ==
    ASSUME NEW k \in Positions, NEW c \in Callers, \A d \in Callers : d = c,
           pc[c] # "settle" \/ pc'[c] # "done"
    PROVE  ~SpentNow(k)
BY DEF SpentNow, SaysSpent

\* A key that rests is not acquired, not refreshed and not reported on.
LEMMA RestingIsLeftAlone ==
    ASSUME LoneCaller, DistinctLabels, PoolTypeOK, NEW c \in Callers, CallerStep(c),
           NEW k \in Positions, Rests(k)
    PROVE  Rests(k)'
<1>1. /\ keys[k] \in KeyStates /\ now \in Nat /\ \A d \in Callers : d = c
      /\ Refresh(keys[k], now) = keys[k] /\ ~Usable(keys[k], now) /\ handle[c] # k
  BY ExhaustedIsLeftAlone DEF PoolTypeOK, Rests, LoneCaller
<1>2. CASE Acquire(c)
  <2>1. FirstUsable # k
    BY <1>1, <1>2, FirstUsableIsFirst DEF Acquire
  <2>. QED
    BY <1>1, <1>2, <2>1 DEF Acquire, RefreshUpTo, Rests, PoolTypeOK
<1>3. CASE AcquireFails(c)
  BY <1>1, <1>3 DEF AcquireFails, RefreshUpTo, Rests, PoolTypeOK
<1>4. ASSUME NEW key, Holding(c), Report(c, key)
      PROVE  Rests(k)'
  <2>1. Charged(c) # k
    BY <1>1, <1>4, ChargedIsHeld
  <2>2. NoKey # k
    BY DEF NoKey, Positions
  <2>. QED
    BY <1>1, <1>4, <2>1, <2>2 DEF Report, Rests, PoolTypeOK
<1>5. CASE MarkRateLimited(c) \/ MarkError(c) \/ MarkKeyInvalid(c)
  BY <1>4, <1>5 DEF MarkRateLimited, MarkError, MarkKeyInvalid
<1>6. CASE \E snap \in Snapshots : UpdateFromUpstream(c, snap)
  BY <1>4, <1>6 DEF UpdateFromUpstream
<1>7. CASE Abandon(c)
  <2>1. NoKey # k
    BY DEF NoKey, Positions
  <2>. QED
    BY <1>1, <1>7, <2>1 DEF Abandon, Rests, PoolTypeOK
<1>. QED
  BY <1>2, <1>3, <1>5, <1>6, <1>7 DEF CallerStep

\* A relayed response that speaks of the quota puts its key to rest.
LEMMA SpentIsPutToRest ==
    ASSUME LoneCaller, DistinctLabels, PoolTypeOK, NEW c \in Callers, Relay(c),
           NEW k \in Positions, SaysSpent(c, k)
    PROVE  Rests(k)'
<1>1. Holding(c) /\ handle[c] = k /\ \A d \in Callers : d = c
  BY DEF Relay, UpdateFromUpstream, SaysSpent, LoneCaller
<1>2. Charged(c) = k /\ NoKey # k
  BY <1>1, ChargedIsHeld DEF NoKey, Positions
<1>3. /\ keys' = [keys EXCEPT ![k] = Updated(keys[k], now, reply[c].snap)]
      /\ handle' = [handle EXCEPT ![c] = NoKey] /\ now' = now
  BY <1>2 DEF Relay, UpdateFromUpstream, Report
<1>4. Updated(keys[k], now, reply[c].snap).status = "exhausted"
      /\ Updated(keys[k], now, reply[c].snap).lastUpdated = now
  BY DEF Updated, SaysSpent, PoolTypeOK, KeyStates
<1>. QED
  BY <1>1, <1>2, <1>3, <1>4 DEF Rests, SameUTCDate, PoolTypeOK

LEMMA RelaysAreSteps ==
    ASSUME ProxyTypeOK, NEW c \in Callers, Relay(c)
    PROVE  CallerStep(c)
<1>1. reply[c].snap \in Snapshots
  BY ReplyTypes DEF ProxyTypeOK
<1>. QED
  BY <1>1 DEF Relay, CallerStep

\* An upstream call begins with a key that was acquired for it.
LEMMA OnlyTryKeyCalls ==
    ASSUME ProxyTypeOK, [Next]_vars, NEW c \in Callers, pc[c] = "loop", pc'[c] = "calling"
    PROVE  TryKey(c)
<1>1. c \in DOMAIN pc
  BY DEF ProxyTypeOK
<1>2. CASE UNCHANGED vars \/ TickProxy
  BY <1>2 DEF vars, TickProxy, handlerVars
<1>3. ASSUME NEW d \in Callers,
             Arrive(d) \/ Reject(d) \/ Disconnect(d) \/ UpstreamReplies(d) \/ Handle(d)
      PROVE  d = c /\ TryKey(d)
  BY <1>1, <1>3 DEF Arrive, Reject, Begin, Serving, Disconnect, UpstreamReplies, Handle, TryKey,
        NoKeyLeft, Unavailable, OnSuccess, OnClientError, OnRateLimited, OnKeyInvalid,
        OnServerError, OnDisconnected, Settles, Relay, Retry, Return, Goto
<1>. QED
  BY <1>2, <1>3 DEF Next

LEMMA RestStep ==
    ASSUME LoneCaller, DistinctLabels, ProxyInv, RestInv, [TrailNext]_trailVars
    PROVE  RestInv'
<1>1. now \in Nat /\ PoolTypeOK
  BY DEF ProxyInv, ProxyTypeOK, PoolTypeOK
<1>2. CASE UNCHANGED trailVars
  BY <1>2 DEF trailVars, RestInv, Rests
<1>3. CASE TrailNext
  <2>1. spent' = [k \in Positions |-> IF SpentNow(k) THEN Day(now) ELSE spent[k]]
    BY <1>3 DEF TrailNext, SpentNow
  <2>2. CASE TickProxy
    <3>1. now' = now + 1 /\ keys' = keys /\ handle' = handle /\ pc' = pc
      BY <2>2 DEF TickProxy, Tick, handlerVars
    <3>2. \A k \in Positions : ~SpentNow(k)
      BY <3>1 DEF SpentNow, SaysSpent
    <3>3. spent' = spent
      BY <2>1, <3>2 DEF RestInv
    <3>4. Day(now) <= Day(now') /\ Day(now) \in Nat /\ Day(now') \in Nat
      BY <1>1, <3>1, DayType, DaysGoForward
    <3>5. ASSUME NEW k \in Positions
          PROVE  spent'[k] <= Day(now)' /\ (spent'[k] = Day(now)' => Rests(k)')
      <4>1. spent[k] \in Int /\ spent[k] <= Day(now) /\ Day(now)' = Day(now')
        BY DEF RestInv, Day
      <4>2. spent[k] <= Day(now')
        BY <3>4, <4>1
      <4>3. ASSUME spent[k] = Day(now')
            PROVE  Rests(k)'
        <5>1. spent[k] = Day(now) /\ Day(now) = Day(now')
          BY <3>4, <4>1, <4>3
        <5>2. Rests(k)
          BY <5>1 DEF RestInv
        <5>. QED
          BY <3>1, <5>1, <5>2 DEF Rests, SameUTCDate
      <4>. QED
        BY <3>3, <4>1, <4>2, <4>3
    <3>. QED
      BY <3>3, <3>5 DEF RestInv
  <2>3. ASSUME NEW c \in Callers,
               \/ Arrive(c) \/ Reject(c) \/ Disconnect(c) \/ UpstreamReplies(c) \/ Handle(c)
        PROVE  RestInv'
    <3>1. now' = now /\ c \in DOMAIN pc /\ \A d \in Callers : d = c
      BY <2>3 DEF Arrive, Reject, Begin, Disconnect, UpstreamReplies, Handle, TryKey, NoKeyLeft,
                  Unavailable, OnSuccess, OnClientError, OnRateLimited, OnKeyInvalid, OnServerError,
                  OnDisconnected, Relay, Acquire, AcquireFails, MarkRateLimited, MarkKeyInvalid,
                  MarkError, UpdateFromUpstream, Report, Abandon, LoneCaller, ProxyInv, ProxyTypeOK
    <3>2. ASSUME NEW k \in Positions, SpentNow(k) \/ spent[k] = Day(now)
          PROVE  Rests(k)'
      <4>1. CASE OnSuccess(c) \/ OnClientError(c)
        <5>1. Relay(c)
          BY <4>1 DEF OnSuccess, OnClientError
        <5>2. CASE SpentNow(k)
          BY <1>1, <3>1, <5>1, <5>2, SpentIsPutToRest DEF SpentNow
        <5>3. CASE spent[k] = Day(now)
          <6>1. CallerStep(c)
            BY <5>1, RelaysAreSteps DEF ProxyInv
          <6>. QED
            BY <1>1, <5>3, <6>1, RestingIsLeftAlone DEF RestInv
        <5>. QED
          BY <3>2, <5>2, <5>3
      <4>2. CASE ~(OnSuccess(c) \/ OnClientError(c))
        <5>1. pc[c] # "settle" \/ pc'[c] # "done"
          BY <2>3, <3>1, <4>2 DEF Arrive, Reject, Begin, Serving, Disconnect, UpstreamReplies,
                Handle, TryKey, NoKeyLeft, Unavailable, OnRateLimited, OnKeyInvalid,
                OnServerError, OnDisconnected, Settles, Retry, Return, Goto
        <5>2. Rests(k)
          BY <3>1, <3>2, <5>1, OnlyRelaysSpeak DEF RestInv
        <5>3. CallerStep(c) \/ UNCHANGED <<keys, handle>>
          BY <2>3, <4>2 DEF Arrive, Reject, Begin, Disconnect, UpstreamReplies,
                Handle, TryKey, NoKeyLeft, Unavailable, OnRateLimited, OnKeyInvalid,
                OnServerError, OnDisconnected, CallerStep
        <5>4. CASE UNCHANGED <<keys, handle>>
          BY <3>1, <5>2, <5>4 DEF Rests
        <5>. QED
          BY <1>1, <5>2, <5>3, <5>4, RestingIsLeftAlone
      <4>. QED
        BY <4>1, <4>2
    <3>. QED
      BY <1>1, <2>1, <3>1, <3>2, RestKept
  <2>. QED
    BY <1>3, <2>2, <2>3 DEF TrailNext, Next
<1>. QED
  BY <1>2, <1>3

\* A connection alone with a pool of distinct labels never calls the upstream
\* with a key whose quota a response of the same UTC day said was used up: for
\* any number of keys, any threshold and length of the day.
THEOREM LoneRequestsLetSpentKeysRest ==
    ASSUME LoneCaller, DistinctLabels
    PROVE  TrailSpec => SpentKeyRests
<1>1. TrailInit => ProxyInv /\ RestInv
  BY ProxyTypeInit, MatchInit, RestStarts DEF TrailInit, ProxyInv
<1>2. ProxyInv /\ RestInv /\ [TrailNext]_trailVars => (ProxyInv /\ RestInv)'
  BY TrailVarsChange, ProxyTypeStep, MatchStep, RestStep DEF ProxyInv
<1>3. ASSUME ProxyInv, RestInv, [TrailNext]_trailVars, NEW c \in Callers,
             pc[c] = "loop", pc'[c] = "calling"
      PROVE  spent[handle'[c]] # Day(now)
  <2>1. TryKey(c)
    BY <1>3, OnlyTryKeyCalls, TrailVarsChange DEF ProxyInv
  <2>2. FirstUsable \in Positions /\ Usable(keys[FirstUsable], now) /\ handle'[c] = FirstUsable
    BY <1>3, <2>1, FirstUsableIsFirst DEF TryKey, Acquire, ProxyInv, ProxyTypeOK, PoolTypeOK
  <2>3. keys[FirstUsable] \in KeyStates
    BY <1>3, <2>2 DEF ProxyInv, ProxyTypeOK, PoolTypeOK
  <2>. QED
    BY <1>3, <2>2, <2>3, ExhaustedIsLeftAlone DEF RestInv, Rests
<1>4. ProxyInv /\ RestInv =>
        ([TrailNext]_trailVars =>
            [\A c \in Callers : (pc[c] = "loop" /\ pc'[c] = "calling")
                => spent[handle'[c]] # Day(now)]_trailVars)
  BY <1>3
<1>. QED
  BY <1>1, <1>2, <1>4, PTL DEF TrailSpec, SpentKeyRests
=============================================================================
