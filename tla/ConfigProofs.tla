---------------------------- MODULE ConfigProofs ----------------------------
(***************************************************************************)
(* What holds of every configuration that runs, for any names, labels,     *)
(* environments, hand-written files and edits.                             *)
(***************************************************************************)
EXTENDS Config, TLAPS

LEMMA GivenFacts ==
    ASSUME NEW v \in Text, NEW w \in Text
    PROVE  /\ Given(v, w) \in Text
           /\ w # "" => Given(v, w) # ""
           /\ Given(v, w) \in {v, w}
           /\ Given(Given(v, w), w) = Given(v, w)
BY DEF Given

LEMMA NumberedFacts == MaxKeys \in Nat /\ \A i \in 1..MaxKeys : Numbered[i] \in Text /\ Numbered[i] # ""
BY ConfigAssumption

LEMMA WithinNumbered ==
    ASSUME NEW keys, IsKeys(keys), NEW i \in DOMAIN keys
    PROVE  i \in 1..MaxKeys
<1>1. PICK n \in 0..MaxKeys : DOMAIN keys = 1..n
  BY DEF IsKeys
<1>2. i \in 1..n /\ MaxKeys \in Nat
  BY <1>1, NumberedFacts
<1>. HIDE <1>1
<1>. QED
  BY <1>2

\* Labels are given where they are missing, and nothing else changes.
LEMMA LabelledFacts ==
    ASSUME NEW keys, IsKeys(keys)
    PROVE  /\ IsKeys(Labelled(keys))
           /\ DOMAIN Labelled(keys) = DOMAIN keys
           /\ \A i \in DOMAIN keys :
                 /\ Labelled(keys)[i].label # ""
                 /\ Labelled(keys)[i].key = keys[i].key
                 /\ keys[i].label # "" => Labelled(keys)[i] = keys[i]
<1>2. ASSUME NEW i \in DOMAIN keys
      PROVE  /\ Labelled(keys)[i] \in Key
             /\ Labelled(keys)[i].label # ""
             /\ Labelled(keys)[i].key = keys[i].key
             /\ keys[i].label # "" => Labelled(keys)[i] = keys[i]
  <2>1. i \in 1..MaxKeys
    BY WithinNumbered
  <2>2. Numbered[i] \in Text /\ Numbered[i] # ""
    BY <2>1, NumberedFacts
  <2>3. keys[i] \in Key
    BY DEF IsKeys
  <2>4. Labelled(keys)[i] = [label |-> Given(keys[i].label, Numbered[i]), key |-> keys[i].key]
    BY DEF Labelled
  <2>6. Given(keys[i].label, Numbered[i]) \in Text /\ Given(keys[i].label, Numbered[i]) # ""
    BY <2>2, <2>3 DEF Given, Key
  <2>7. keys[i].label # "" => Given(keys[i].label, Numbered[i]) = keys[i].label
    BY DEF Given
  <2>. DEFINE l == Given(keys[i].label, Numbered[i])
              k == keys[i]
              x == Labelled(keys)[i]
  <2>. HIDE DEF l, k, x
  <2>8. k \in Key /\ x = [label |-> l, key |-> k.key]
    BY <2>3, <2>4 DEF l, k, x
  <2>9. l \in Text /\ l # "" /\ (k.label # "" => l = k.label)
    BY <2>6, <2>7 DEF l, k
  <2>10. x \in Key /\ x.label # "" /\ x.key = k.key /\ (k.label # "" => x = k)
    BY <2>8, <2>9 DEF Key
  <2>. QED
    BY <2>10 DEF k, x
<1>3. DOMAIN Labelled(keys) = DOMAIN keys
  BY DEF Labelled
<1>4. Labelled(keys) \in [DOMAIN keys -> Key]
  <2>1. Labelled(keys) = [i \in DOMAIN keys |-> Labelled(keys)[i]]
    BY DEF Labelled
  <2>. QED
    BY <1>2, <2>1
<1>5. IsKeys(Labelled(keys))
  BY <1>3, <1>4 DEF IsKeys
<1>. QED
  BY <1>2, <1>3, <1>5

\* Labelling twice is labelling once.
LEMMA LabelledTwice ==
    ASSUME NEW keys, IsKeys(keys)
    PROVE  Labelled(Labelled(keys)) = Labelled(keys)
<1>1. IsKeys(Labelled(keys)) /\ DOMAIN Labelled(keys) = DOMAIN keys
      /\ \A i \in DOMAIN keys : Labelled(keys)[i].label # ""
  BY LabelledFacts
<1>2. DOMAIN Labelled(Labelled(keys)) = DOMAIN keys
      /\ \A i \in DOMAIN keys : Labelled(Labelled(keys))[i] = Labelled(keys)[i]
  BY <1>1, LabelledFacts
<1>3. Labelled(keys) \in [DOMAIN keys -> Key] /\ Labelled(Labelled(keys)) \in [DOMAIN keys -> Key]
  BY <1>1, <1>2, LabelledFacts DEF IsKeys
<1>. QED
  BY <1>2, <1>3

LEMMA TextFacts == {"", Default, "0.0.0.0", "logs/gateway.jsonl", "info", "api_sports"} \subseteq Text
BY ConfigAssumption DEF Providers

LEMMA PoolsOfType ==
    ASSUME NEW c, IsConfig(c)
    PROVE  DOMAIN PoolsOf(c) \subseteq Names /\ \A p \in DOMAIN PoolsOf(c) : IsKeys(PoolsOf(c)[p])
BY ConfigAssumption DEF IsConfig, PoolsOf

LEMMA PlatformsOfType ==
    ASSUME NEW c, IsConfig(c)
    PROVE  IsMap(PlatformsOf(c), Platform)
<1>1. CASE DOMAIN c.platforms # {}
  BY <1>1 DEF IsConfig, PlatformsOf
<1>2. CASE DOMAIN c.platforms = {}
  <2>1. \A w \in DOMAIN c.workspaces : c.workspaces[w] \in Workspace
    BY DEF IsConfig, IsMap
  <2>2. \A w \in DOMAIN c.workspaces : PlatformsOf(c)[w] \in Platform
    BY <1>2, <2>1, TextFacts DEF PlatformsOf, Platform, Workspace
  <2>3. DOMAIN PlatformsOf(c) = DOMAIN c.workspaces
        /\ PlatformsOf(c) = [w \in DOMAIN c.workspaces |-> PlatformsOf(c)[w]]
    BY <1>2 DEF PlatformsOf
  <2>. QED
    BY <2>2, <2>3 DEF IsConfig, IsMap
<1>. QED
  BY <1>1, <1>2

LEMMA PlatformRecord ==
    ASSUME NEW a \in Text, NEW b \in Text, NEW t \in Int, NEW l \in Text, NEW h \in Text
    PROVE  [type |-> a, base |-> b, timeout |-> t, pool |-> l, header |-> h] \in Platform
BY DEF Platform

LEMMA PlacedFacts ==
    ASSUME NEW p \in Platform
    PROVE  /\ Placed(p) \in Platform
           /\ Placed(p).timeout > 0 /\ Placed(p).pool = Given(p.pool, Default) /\ Placed(p).pool # ""
           /\ Placed(p).type = p.type /\ Placed(p).base = p.base /\ Placed(p).header = p.header
           /\ (p.timeout > 0 /\ p.pool # "") => Placed(p) = p
<1>1. AtLeastOne(p.timeout, 30) \in Int /\ AtLeastOne(p.timeout, 30) > 0
      /\ (p.timeout > 0 => AtLeastOne(p.timeout, 30) = p.timeout)
  BY DEF Platform, AtLeastOne
<1>2. Given(p.pool, Default) \in Text /\ Given(p.pool, Default) # ""
      /\ (p.pool # "" => Given(p.pool, Default) = p.pool)
  BY TextFacts DEF Platform, Given, Default
<1>3. /\ p = [type |-> p.type, base |-> p.base, timeout |-> p.timeout, pool |-> p.pool, header |-> p.header]
      /\ p.type \in Text /\ p.base \in Text /\ p.header \in Text
  BY DEF Platform
<1>4. Placed(p) = [type |-> p.type, base |-> p.base, timeout |-> AtLeastOne(p.timeout, 30),
                   pool |-> Given(p.pool, Default), header |-> p.header]
  BY DEF Placed
<1>5. /\ Placed(p).timeout = AtLeastOne(p.timeout, 30) /\ Placed(p).pool = Given(p.pool, Default)
      /\ Placed(p).type = p.type /\ Placed(p).base = p.base /\ Placed(p).header = p.header
  BY <1>4
<1>6. Placed(p) \in Platform
  <2>. DEFINE t == AtLeastOne(p.timeout, 30)
              l == Given(p.pool, Default)
  <2>1. t \in Int /\ l \in Text
    BY <1>1, <1>2
  <2>2. Placed(p) = [type |-> p.type, base |-> p.base, timeout |-> t, pool |-> l, header |-> p.header]
    BY <1>4
  <2>. HIDE DEF t, l
  <2>3. [type |-> p.type, base |-> p.base, timeout |-> t, pool |-> l, header |-> p.header] \in Platform
    BY <1>3, <2>1, PlatformRecord
  <2>. QED
    BY <2>2, <2>3, Zenon
<1>7. (p.timeout > 0 /\ p.pool # "") => Placed(p) = p
  <2>. SUFFICES ASSUME p.timeout > 0, p.pool # "" PROVE Placed(p) = p
    OBVIOUS
  <2>1. AtLeastOne(p.timeout, 30) = p.timeout /\ Given(p.pool, Default) = p.pool
    BY <1>1, <1>2, Zenon
  <2>. QED
    BY <1>3, <1>4, <2>1, Zenon
<1>. QED
  BY <1>1, <1>2, <1>5, <1>6, <1>7

\* Filling in defaults a second time changes nothing.
LEMMA FilledFacts ==
    ASSUME NEW s \in Settings
    PROVE  Filled(s) \in Settings /\ Filled(Filled(s)) = Filled(s)
<1>1. /\ Given(s.host, "0.0.0.0") \in Text /\ Given(s.host, "0.0.0.0") # ""
      /\ Given(s.log_file, "logs/gateway.jsonl") \in Text /\ Given(s.log_file, "logs/gateway.jsonl") # ""
      /\ Given(s.level, "info") \in Text /\ Given(s.level, "info") # ""
  BY TextFacts DEF Settings, Given
<1>2. /\ Filled(s).switch_threshold \in Int /\ Filled(s).switch_threshold >= 0
      /\ Filled(s).rate_limit_cooldown_seconds \in Int /\ Filled(s).rate_limit_cooldown_seconds > 0
      /\ Filled(s).error_cooldown_seconds \in Int /\ Filled(s).error_cooldown_seconds > 0
      /\ Filled(s).max_error_count \in Int /\ Filled(s).max_error_count > 0
      /\ Filled(s).max_retries \in Int /\ Filled(s).max_retries > 0
      /\ Filled(s).log_read_limit \in Int /\ Filled(s).log_read_limit > 0
  BY DEF Filled, Settings, AtLeastOne
<1>3. /\ Filled(s).host \in Text /\ Filled(s).host # ""
      /\ Filled(s).log_file \in Text /\ Filled(s).log_file # ""
      /\ Filled(s).level \in Text /\ Filled(s).level # ""
  BY <1>1 DEF Filled
<1>4. Filled(s) = [host |-> Filled(s).host,
                   switch_threshold |-> Filled(s).switch_threshold,
                   rate_limit_cooldown_seconds |-> Filled(s).rate_limit_cooldown_seconds,
                   error_cooldown_seconds |-> Filled(s).error_cooldown_seconds,
                   max_error_count |-> Filled(s).max_error_count,
                   max_retries |-> Filled(s).max_retries,
                   log_file |-> Filled(s).log_file,
                   log_read_limit |-> Filled(s).log_read_limit,
                   level |-> Filled(s).level]
  BY DEF Filled
<1>5. Filled(s) \in Settings
  BY <1>2, <1>3, <1>4 DEF Settings
<1>. DEFINE t == Filled(s)
<1>6. Filled(t) = [host |-> t.host,
                   switch_threshold |-> t.switch_threshold,
                   rate_limit_cooldown_seconds |-> t.rate_limit_cooldown_seconds,
                   error_cooldown_seconds |-> t.error_cooldown_seconds,
                   max_error_count |-> t.max_error_count,
                   max_retries |-> t.max_retries,
                   log_file |-> t.log_file,
                   log_read_limit |-> t.log_read_limit,
                   level |-> t.level]
  <2>. HIDE DEF t
  <2>1. t.host # "" /\ t.log_file # "" /\ t.level # ""
    BY <1>3 DEF t
  <2>2. /\ ~(t.switch_threshold < 0) /\ ~(t.rate_limit_cooldown_seconds <= 0)
        /\ ~(t.error_cooldown_seconds <= 0) /\ ~(t.max_error_count <= 0)
        /\ ~(t.max_retries <= 0) /\ ~(t.log_read_limit <= 0)
    BY <1>2 DEF t
  <2>. QED
    BY <2>1, <2>2, Zenon DEF Filled, Given, AtLeastOne
<1>. QED
  BY <1>4, <1>5, <1>6

\* Complete settings stay complete when the log file is another.
LEMMA FilledKeepsLogFile ==
    ASSUME NEW s \in Settings, Filled(s) = s, NEW t \in Settings, t.log_file # "",
           t.host = s.host, t.switch_threshold = s.switch_threshold,
           t.rate_limit_cooldown_seconds = s.rate_limit_cooldown_seconds,
           t.error_cooldown_seconds = s.error_cooldown_seconds,
           t.max_error_count = s.max_error_count, t.max_retries = s.max_retries,
           t.log_read_limit = s.log_read_limit, t.level = s.level
    PROVE  Filled(t) = t
<1>1. /\ Given(s.host, "0.0.0.0") = s.host
      /\ (IF s.switch_threshold < 0 THEN 1 ELSE s.switch_threshold) = s.switch_threshold
      /\ AtLeastOne(s.rate_limit_cooldown_seconds, 60) = s.rate_limit_cooldown_seconds
      /\ AtLeastOne(s.error_cooldown_seconds, 30) = s.error_cooldown_seconds
      /\ AtLeastOne(s.max_error_count, 3) = s.max_error_count
      /\ AtLeastOne(s.max_retries, 3) = s.max_retries
      /\ AtLeastOne(s.log_read_limit, 500) = s.log_read_limit
      /\ Given(s.level, "info") = s.level
  <2>1. /\ Filled(s).host = Given(s.host, "0.0.0.0")
        /\ Filled(s).switch_threshold = IF s.switch_threshold < 0 THEN 1 ELSE s.switch_threshold
        /\ Filled(s).rate_limit_cooldown_seconds = AtLeastOne(s.rate_limit_cooldown_seconds, 60)
        /\ Filled(s).error_cooldown_seconds = AtLeastOne(s.error_cooldown_seconds, 30)
        /\ Filled(s).max_error_count = AtLeastOne(s.max_error_count, 3)
        /\ Filled(s).max_retries = AtLeastOne(s.max_retries, 3)
        /\ Filled(s).log_read_limit = AtLeastOne(s.log_read_limit, 500)
        /\ Filled(s).level = Given(s.level, "info")
    BY DEF Filled
  <2>2. /\ Filled(s).host = s.host /\ Filled(s).switch_threshold = s.switch_threshold
        /\ Filled(s).rate_limit_cooldown_seconds = s.rate_limit_cooldown_seconds
        /\ Filled(s).error_cooldown_seconds = s.error_cooldown_seconds
        /\ Filled(s).max_error_count = s.max_error_count
        /\ Filled(s).max_retries = s.max_retries
        /\ Filled(s).log_read_limit = s.log_read_limit /\ Filled(s).level = s.level
    BY Zenon
  <2>3. (IF s.switch_threshold < 0 THEN 1 ELSE s.switch_threshold) = s.switch_threshold
    BY <2>1, <2>2, Zenon
  <2>4. /\ Given(s.host, "0.0.0.0") = s.host /\ Given(s.level, "info") = s.level
    BY <2>1, <2>2, Zenon
  <2>5. /\ AtLeastOne(s.rate_limit_cooldown_seconds, 60) = s.rate_limit_cooldown_seconds
        /\ AtLeastOne(s.error_cooldown_seconds, 30) = s.error_cooldown_seconds
    BY <2>1, <2>2, Zenon
  <2>6. /\ AtLeastOne(s.max_error_count, 3) = s.max_error_count
        /\ AtLeastOne(s.max_retries, 3) = s.max_retries
    BY <2>1, <2>2, Zenon
  <2>7. AtLeastOne(s.log_read_limit, 500) = s.log_read_limit
    BY <2>1, <2>2, Zenon
  <2>. QED
    BY <2>3, <2>4, <2>5, <2>6, <2>7
<1>2. Given(t.log_file, "logs/gateway.jsonl") = t.log_file
  BY DEF Given
<1>3. t = [host |-> t.host, switch_threshold |-> t.switch_threshold,
           rate_limit_cooldown_seconds |-> t.rate_limit_cooldown_seconds,
           error_cooldown_seconds |-> t.error_cooldown_seconds,
           max_error_count |-> t.max_error_count, max_retries |-> t.max_retries,
           log_file |-> t.log_file, log_read_limit |-> t.log_read_limit, level |-> t.level]
  BY DEF Settings
<1>4. Filled(t) = [host |-> t.host, switch_threshold |-> t.switch_threshold,
                   rate_limit_cooldown_seconds |-> t.rate_limit_cooldown_seconds,
                   error_cooldown_seconds |-> t.error_cooldown_seconds,
                   max_error_count |-> t.max_error_count, max_retries |-> t.max_retries,
                   log_file |-> t.log_file, log_read_limit |-> t.log_read_limit,
                   level |-> t.level]
  <2>1. /\ Given(t.host, "0.0.0.0") = t.host
        /\ (IF t.switch_threshold < 0 THEN 1 ELSE t.switch_threshold) = t.switch_threshold
        /\ AtLeastOne(t.rate_limit_cooldown_seconds, 60) = t.rate_limit_cooldown_seconds
        /\ AtLeastOne(t.error_cooldown_seconds, 30) = t.error_cooldown_seconds
        /\ AtLeastOne(t.max_error_count, 3) = t.max_error_count
        /\ AtLeastOne(t.max_retries, 3) = t.max_retries
        /\ AtLeastOne(t.log_read_limit, 500) = t.log_read_limit
        /\ Given(t.level, "info") = t.level
    BY <1>1
  <2>. QED
    BY <1>2, <2>1, Zenon DEF Filled
<1>. QED
  BY <1>3, <1>4, Zenon

\* What validation gives is a configuration.
LEMMA ValidatedType ==
    ASSUME NEW c, IsConfig(c)
    PROVE  IsConfig(Validated(c))
<1>. DEFINE v == Validated(c)
<1>1. DOMAIN v.pools \subseteq Names /\ \A p \in DOMAIN v.pools : IsKeys(v.pools[p])
  BY PoolsOfType, LabelledFacts DEF Validated, LabelledPools
<1>2. IsMap(v.platforms, Platform)
  <2>1. /\ DOMAIN PlatformsOf(c) \subseteq Names
        /\ \A p \in DOMAIN PlatformsOf(c) : PlatformsOf(c)[p] \in Platform
    BY PlatformsOfType DEF IsMap
  <2>2. v.platforms = [p \in DOMAIN PlatformsOf(c) |-> Placed(PlatformsOf(c)[p])]
    BY DEF Validated, PlacedPlatforms
  <2>3. \A p \in DOMAIN PlatformsOf(c) : Placed(PlatformsOf(c)[p]) \in Platform
    BY <2>1, PlacedFacts, Zenon
  <2>. HIDE DEF v
  <2>. QED
    BY <2>1, <2>2, <2>3, Zenon DEF IsMap
<1>3. IsMap(v.workspaces, Workspace)
  <2>1. ASSUME NEW w \in DOMAIN c.workspaces
        PROVE  TimedWorkspaces(c)[w] \in Workspace
    <3>1. c.workspaces[w] \in Workspace
      BY DEF IsConfig, IsMap
    <3>2. CASE w \in DOMAIN PlatformsOf(c)
      <4>1. PlacedPlatforms(c)[w].timeout \in Int
        BY <3>2, PlatformsOfType, PlacedFacts DEF PlacedPlatforms, IsMap, Platform
      <4>. QED
        BY <3>1, <3>2, <4>1 DEF TimedWorkspaces, Workspace, AtLeastOne
    <3>3. CASE w \notin DOMAIN PlatformsOf(c)
      BY <3>1, <3>3 DEF TimedWorkspaces, Workspace
    <3>. QED
      BY <3>2, <3>3
  <2>2. TimedWorkspaces(c) = [w \in DOMAIN c.workspaces |-> TimedWorkspaces(c)[w]]
    BY DEF TimedWorkspaces
  <2>3. v.workspaces = TimedWorkspaces(c)
    BY DEF Validated
  <2>. QED
    BY <2>1, <2>2, <2>3 DEF IsConfig, IsMap
<1>4. v.settings \in Settings
  BY FilledFacts DEF Validated, IsConfig
<1>5. IsKeys(v.keys)
  BY PoolsOfType, LabelledFacts DEF Validated, Mirrored, LabelledPools, IsConfig
<1>6. /\ DOMAIN v = {"port", "platforms", "pools", "settings", "admin_key", "workspaces", "keys"}
      /\ v.port \in Int /\ v.admin_key \in Text
  BY DEF Validated, IsConfig
<1>. QED
  BY <1>1, <1>2, <1>3, <1>4, <1>5, <1>6 DEF IsConfig
-----------------------------------------------------------------------------
(* What an accepted configuration becomes. *)

LEMMA AcceptedFacts ==
    ASSUME NEW c, Accepted(c)
    PROVE  /\ c.port > 0 /\ c.port <= MaxPort
           /\ DOMAIN PlatformsOf(c) # {} /\ DOMAIN PoolsOf(c) # {}
           /\ \A p \in DOMAIN PoolsOf(c) : PoolAccepted(p, PoolsOf(c)[p])
           /\ \A p \in DOMAIN PlatformsOf(c) : PlatformAccepted(p, PlatformsOf(c)[p], PoolsOf(c))
BY Zenon DEF Accepted

\* Every part of a validated configuration is served: see RunningIsServable.
Servable(c) ==
    /\ DOMAIN Runtime(c) # {}
    /\ \A p \in DOMAIN Runtime(c) :
          LET upstream == Runtime(c)[p] IN
          /\ p \notin Unroutable /\ upstream.base # "" /\ upstream.timeout > 0
          /\ upstream.credential # ""
          /\ DOMAIN upstream.keys # {}
          /\ \A i \in DOMAIN upstream.keys : upstream.keys[i].label # "" /\ upstream.keys[i].key # ""

LEMMA ValidatedIsServable ==
    ASSUME NEW c, IsConfig(c), Accepted(c)
    PROVE  Servable(Validated(c))
<1>. DEFINE v == Validated(c)
<1>1. DOMAIN Runtime(v) = DOMAIN PlatformsOf(c)
  BY DEF Runtime, Validated, PlacedPlatforms
<1>2. ASSUME NEW p \in DOMAIN PlatformsOf(c)
      PROVE  LET upstream == Runtime(v)[p] IN
             /\ p \notin Unroutable /\ upstream.base # "" /\ upstream.timeout > 0
             /\ upstream.credential # ""
             /\ DOMAIN upstream.keys # {}
             /\ \A i \in DOMAIN upstream.keys : upstream.keys[i].label # "" /\ upstream.keys[i].key # ""
  <2>. DEFINE q == PlatformsOf(c)[p]
              pool == Given(q.pool, Default)
  <2>1. PlatformAccepted(p, q, PoolsOf(c))
    BY <1>2, AcceptedFacts, Zenon
  <2>2. q \in Platform
    BY PlatformsOfType DEF IsMap
  <2>3. v.platforms[p] = Placed(q) /\ p \in DOMAIN v.platforms
    BY <1>2 DEF Validated, PlacedPlatforms
  <2>4. pool \in DOMAIN PoolsOf(c) /\ PoolAccepted(pool, PoolsOf(c)[pool]) /\ IsKeys(PoolsOf(c)[pool])
    <3>1. pool \in DOMAIN PoolsOf(c)
      BY <2>1, Zenon DEF PlatformAccepted
    <3>. QED
      BY <3>1, AcceptedFacts, PoolsOfType, Zenon
  <2>5. v.pools = LabelledPools(c) /\ DOMAIN v.pools = DOMAIN PoolsOf(c)
        /\ v.pools[pool] = Labelled(PoolsOf(c)[pool])
    BY <2>4 DEF Validated, LabelledPools
  <2>6. /\ Placed(q).timeout > 0 /\ Placed(q).pool = pool
        /\ Placed(q).type = q.type /\ Placed(q).base = q.base /\ Placed(q).header = q.header
    BY <2>2, PlacedFacts
  <2>7. Runtime(v)[p] = [base |-> q.base, timeout |-> Placed(q).timeout,
                         credential |-> IF q.type = "api_sports" THEN "x-apisports-key" ELSE q.header,
                         keys |-> Labelled(PoolsOf(c)[pool])]
    BY <2>3, <2>4, <2>5, <2>6 DEF Runtime
  <2>8. (IF q.type = "api_sports" THEN "x-apisports-key" ELSE q.header) # ""
    BY <2>1 DEF PlatformAccepted, Providers
  <2>9. /\ DOMAIN Labelled(PoolsOf(c)[pool]) # {}
        /\ \A i \in DOMAIN Labelled(PoolsOf(c)[pool]) :
              /\ Labelled(PoolsOf(c)[pool])[i].label # ""
              /\ Labelled(PoolsOf(c)[pool])[i].key # ""
    BY <2>4, LabelledFacts DEF PoolAccepted
  <2>10. p \notin Unroutable /\ q.base # ""
    BY <2>1 DEF PlatformAccepted
  <2>11. /\ Runtime(v)[p].base = q.base /\ Runtime(v)[p].timeout = Placed(q).timeout
         /\ Runtime(v)[p].credential = IF q.type = "api_sports" THEN "x-apisports-key" ELSE q.header
         /\ Runtime(v)[p].keys = Labelled(PoolsOf(c)[pool])
    BY <2>7
  <2>. HIDE DEF q, pool, v
  <2>. QED
    BY <2>6, <2>8, <2>9, <2>10, <2>11, Zenon
<1>3. DOMAIN PlatformsOf(c) # {}
  BY AcceptedFacts, Zenon
<1>. QED
  BY <1>1, <1>2, <1>3 DEF Servable

\* The platforms of the result are accepted as they are.
LEMMA ValidatedPlatforms ==
    ASSUME NEW c, IsConfig(c), Accepted(c)
    PROVE  LET v == Validated(c) IN
           /\ PlatformsOf(v) = v.platforms /\ PoolsOf(v) = v.pools
           /\ DOMAIN v.platforms # {} /\ DOMAIN v.pools # {}
           /\ \A p \in DOMAIN v.platforms : Placed(v.platforms[p]) = v.platforms[p]
           /\ \A p \in DOMAIN v.pools : Labelled(v.pools[p]) = v.pools[p]
<1>. DEFINE v == Validated(c)
<1>1. /\ v.platforms = PlacedPlatforms(c) /\ v.pools = LabelledPools(c)
      /\ DOMAIN v.platforms = DOMAIN PlatformsOf(c) /\ DOMAIN v.pools = DOMAIN PoolsOf(c)
  BY DEF Validated, PlacedPlatforms, LabelledPools
<1>2. DOMAIN v.platforms # {} /\ DOMAIN v.pools # {}
  BY <1>1, AcceptedFacts, Zenon
<1>3. PlatformsOf(v) = v.platforms /\ PoolsOf(v) = v.pools
  BY <1>2 DEF PlatformsOf, PoolsOf
<1>4. ASSUME NEW p \in DOMAIN v.platforms
      PROVE  Placed(v.platforms[p]) = v.platforms[p]
  <2>1. PlatformsOf(c)[p] \in Platform
    BY <1>1, PlatformsOfType DEF IsMap
  <2>2. v.platforms[p] = Placed(PlatformsOf(c)[p])
    BY <1>1 DEF PlacedPlatforms
  <2>. QED
    BY <2>1, <2>2, PlacedFacts
<1>5. ASSUME NEW p \in DOMAIN v.pools
      PROVE  Labelled(v.pools[p]) = v.pools[p]
  <2>1. v.pools[p] = Labelled(PoolsOf(c)[p])
    BY <1>1 DEF LabelledPools
  <2>. QED
    BY <1>1, <2>1, PoolsOfType, LabelledTwice
<1>. QED
  BY <1>2, <1>3, <1>4, <1>5

\* Validation accepts its own result and changes nothing in it.
LEMMA ValidatedAgain ==
    ASSUME NEW c, IsConfig(c), Accepted(c)
    PROVE  Accepted(Validated(c)) /\ Validated(Validated(c)) = Validated(c)
<1>. DEFINE v == Validated(c)
<1>1. /\ PlatformsOf(v) = v.platforms /\ PoolsOf(v) = v.pools
      /\ DOMAIN v.platforms # {} /\ DOMAIN v.pools # {}
      /\ \A p \in DOMAIN v.platforms : Placed(v.platforms[p]) = v.platforms[p]
      /\ \A p \in DOMAIN v.pools : Labelled(v.pools[p]) = v.pools[p]
  BY ValidatedPlatforms
<1>2. /\ v.platforms = PlacedPlatforms(c) /\ v.pools = LabelledPools(c) /\ v.port = c.port
      /\ DOMAIN v.platforms = DOMAIN PlatformsOf(c) /\ DOMAIN v.pools = DOMAIN PoolsOf(c)
      /\ v.keys = Mirrored(c) /\ v.workspaces = TimedWorkspaces(c)
      /\ v.settings = Filled(c.settings)
  BY DEF Validated, PlacedPlatforms, LabelledPools
<1>3. ASSUME NEW p \in DOMAIN v.pools
      PROVE  PoolAccepted(p, v.pools[p])
  <2>1. PoolAccepted(p, PoolsOf(c)[p]) /\ IsKeys(PoolsOf(c)[p])
    BY <1>2, AcceptedFacts, PoolsOfType, Zenon
  <2>2. v.pools[p] = Labelled(PoolsOf(c)[p])
    BY <1>2 DEF LabelledPools
  <2>3. /\ DOMAIN v.pools[p] = DOMAIN PoolsOf(c)[p]
        /\ \A i \in DOMAIN PoolsOf(c)[p] : v.pools[p][i].key = PoolsOf(c)[p][i].key
    BY <2>1, <2>2, LabelledFacts
  <2>. HIDE DEF v
  <2>. QED
    BY <2>1, <2>3, Zenon DEF PoolAccepted
<1>4. ASSUME NEW p \in DOMAIN v.platforms
      PROVE  PlatformAccepted(p, v.platforms[p], v.pools)
  <2>. DEFINE q == PlatformsOf(c)[p]
  <2>1. PlatformAccepted(p, q, PoolsOf(c)) /\ q \in Platform
    BY <1>2, AcceptedFacts, PlatformsOfType, Zenon DEF IsMap
  <2>2. v.platforms[p] = Placed(q)
    BY <1>2 DEF PlacedPlatforms
  <2>3. /\ Placed(q).pool = Given(q.pool, Default) /\ Placed(q).pool # ""
        /\ Placed(q).type = q.type /\ Placed(q).base = q.base /\ Placed(q).header = q.header
    BY <2>1, PlacedFacts
  <2>4. Given(Placed(q).pool, Default) = Given(q.pool, Default)
    BY <2>3 DEF Given
  <2>. HIDE DEF q
  <2>. QED
    BY <1>2, <2>1, <2>2, <2>3, <2>4, Zenon DEF PlatformAccepted
<1>5. Accepted(v)
  BY <1>1, <1>2, <1>3, <1>4, AcceptedFacts, Zenon DEF Accepted
<1>6. PlacedPlatforms(v) = v.platforms
  <2>1. v.platforms = [p \in DOMAIN v.platforms |-> v.platforms[p]]
    BY <1>2 DEF PlacedPlatforms
  <2>2. PlacedPlatforms(v) = [p \in DOMAIN v.platforms |-> Placed(v.platforms[p])]
    BY <1>1 DEF PlacedPlatforms
  <2>. QED
    BY <1>1, <2>1, <2>2
<1>7. LabelledPools(v) = v.pools
  <2>1. v.pools = [p \in DOMAIN v.pools |-> v.pools[p]]
    BY <1>2 DEF LabelledPools
  <2>2. LabelledPools(v) = [p \in DOMAIN v.pools |-> Labelled(v.pools[p])]
    BY <1>1 DEF LabelledPools
  <2>. QED
    BY <1>1, <2>1, <2>2
<1>8. Mirrored(v) = v.keys
  <2>1. CASE Default \in DOMAIN PoolsOf(c)
    BY <1>1, <1>2, <1>7, <2>1 DEF Mirrored
  <2>2. CASE Default \notin DOMAIN PoolsOf(c)
    <3>1. v.keys = Labelled(c.keys) /\ Mirrored(v) = Labelled(v.keys)
      BY <1>1, <1>2, <2>2 DEF Mirrored
    <3>. QED
      BY <3>1, LabelledTwice DEF IsConfig
  <2>. QED
    BY <2>1, <2>2
<1>9. TimedWorkspaces(v) = v.workspaces
  <2>1. DOMAIN v.workspaces = DOMAIN c.workspaces
        /\ v.workspaces = [w \in DOMAIN c.workspaces |-> v.workspaces[w]]
        /\ TimedWorkspaces(v) = [w \in DOMAIN c.workspaces |-> TimedWorkspaces(v)[w]]
    BY <1>2 DEF TimedWorkspaces
  <2>2. ASSUME NEW w \in DOMAIN c.workspaces
        PROVE  TimedWorkspaces(v)[w] = v.workspaces[w]
    <3>1. c.workspaces[w].timeout \in Int
      BY DEF IsConfig, IsMap, Workspace
    <3>2. CASE w \in DOMAIN v.platforms
      <4>1. v.platforms[w].timeout \in Int /\ v.platforms[w].timeout > 0
        <5>1. PlatformsOf(c)[w] \in Platform
          BY <1>2, <3>2, PlatformsOfType DEF IsMap
        <5>2. v.platforms[w] = Placed(PlatformsOf(c)[w])
          BY <1>2, <3>2 DEF PlacedPlatforms
        <5>. QED
          BY <5>1, <5>2, PlacedFacts DEF Platform
      <4>2. v.workspaces[w] = [base |-> c.workspaces[w].base,
                               timeout |-> AtLeastOne(c.workspaces[w].timeout, v.platforms[w].timeout)]
        BY <1>2, <3>2 DEF TimedWorkspaces
      <4>3. TimedWorkspaces(v)[w] = [base |-> v.workspaces[w].base,
                                     timeout |-> AtLeastOne(v.workspaces[w].timeout, v.platforms[w].timeout)]
        BY <1>1, <1>6, <2>1, <3>2 DEF TimedWorkspaces
      <4>4. v.workspaces[w].base = c.workspaces[w].base
            /\ v.workspaces[w].timeout = AtLeastOne(c.workspaces[w].timeout, v.platforms[w].timeout)
        BY <4>2
      <4>5. AtLeastOne(v.workspaces[w].timeout, v.platforms[w].timeout) = v.workspaces[w].timeout
        BY <3>1, <4>1, <4>4 DEF AtLeastOne
      <4>. QED
        BY <4>2, <4>3, <4>4, <4>5
    <3>3. CASE w \notin DOMAIN v.platforms
      <4>1. v.workspaces[w] = [base |-> c.workspaces[w].base, timeout |-> c.workspaces[w].timeout]
        BY <1>2, <3>3 DEF TimedWorkspaces
      <4>2. TimedWorkspaces(v)[w] = [base |-> v.workspaces[w].base, timeout |-> v.workspaces[w].timeout]
        BY <1>1, <2>1, <3>3 DEF TimedWorkspaces
      <4>. QED
        BY <4>1, <4>2
    <3>. QED
      BY <3>2, <3>3
  <2>. HIDE DEF v
  <2>. QED
    BY <2>1, <2>2
<1>10. Filled(v.settings) = v.settings
  BY <1>2, FilledFacts DEF IsConfig
<1>11. Validated(v) = [port |-> v.port, platforms |-> v.platforms, pools |-> v.pools,
                       settings |-> v.settings, admin_key |-> v.admin_key,
                       workspaces |-> v.workspaces, keys |-> v.keys]
  <2>. HIDE DEF v
  <2>. QED
    BY <1>6, <1>7, <1>8, <1>9, <1>10 DEF Validated
<1>12. v = [port |-> v.port, platforms |-> v.platforms, pools |-> v.pools,
            settings |-> v.settings, admin_key |-> v.admin_key,
            workspaces |-> v.workspaces, keys |-> v.keys]
  BY DEF Validated
<1>. QED
  BY <1>5, <1>11, <1>12
-----------------------------------------------------------------------------
(* The environment. *)

LEMMA WithKeysFacts ==
    ASSUME NEW keys, IsKeys(keys), NEW supplied, \A i \in DOMAIN keys : supplied[i] \in Text
    PROVE  /\ IsKeys(WithKeys(keys, supplied))
           /\ DOMAIN WithKeys(keys, supplied) = DOMAIN keys
           /\ \A i \in DOMAIN keys :
                 WithKeys(keys, supplied)[i] = [label |-> keys[i].label,
                                                key |-> Given(supplied[i], keys[i].key)]
BY DEF WithKeys, IsKeys, Given, Key

LEMMA GetenvType ==
    ASSUME NEW e, IsEnvironment(e), NEW name
    PROVE  Getenv(e, name) \in Text
BY TextFacts DEF Getenv, IsEnvironment

LEMMA SuppliedType ==
    ASSUME NEW e, IsEnvironment(e), NEW p, NEW l
    PROVE  Supplied(e, p, l) \in Text
BY GetenvType, TextFacts DEF Supplied, Given

\* What the environment makes of a configuration: other keys, and little else.
Overridden(o, c, e) ==
    /\ IsConfig(o)
    /\ o.platforms = c.platforms /\ o.workspaces = c.workspaces
    /\ o.port = IF e.port = Unset THEN c.port ELSE e.port
    /\ o.admin_key = Given(e.admin_key, c.admin_key)
    /\ o.settings = [c.settings EXCEPT !.log_file = Given(e.log_file, c.settings.log_file)]
    /\ DOMAIN o.pools = DOMAIN c.pools
    /\ \A p \in DOMAIN c.pools :
          /\ DOMAIN o.pools[p] = DOMAIN c.pools[p]
          /\ \A i \in DOMAIN c.pools[p] :
                o.pools[p][i] = [label |-> c.pools[p][i].label,
                                 key |-> Given(Supplied(e, p, c.pools[p][i].label), c.pools[p][i].key)]

LEMMA OverrideFacts ==
    ASSUME NEW c, IsConfig(c), NEW e, IsEnvironment(e), e.port # NotANumber
    PROVE  Overridden(Override(c, e), c, e)
<1>. DEFINE o == Override(c, e)
<1>1. /\ DOMAIN o = {"port", "platforms", "pools", "settings", "admin_key", "workspaces", "keys"}
      /\ o.platforms = c.platforms /\ o.workspaces = c.workspaces
      /\ o.port = IF e.port = Unset THEN c.port ELSE e.port
      /\ o.admin_key = Given(e.admin_key, c.admin_key)
      /\ o.settings = [c.settings EXCEPT !.log_file = Given(e.log_file, @)]
      /\ o.pools = [p \in DOMAIN c.pools |->
                      WithKeys(c.pools[p], [i \in DOMAIN c.pools[p] |-> Supplied(e, p, c.pools[p][i].label)])]
      /\ o.keys = WithKeys(c.keys, [i \in DOMAIN c.keys |-> Getenv(e, KeyVar(c.keys[i].label))])
  BY DEF Override
<1>2. o.port \in Int
  BY <1>1 DEF IsConfig, IsEnvironment
<1>3. o.admin_key \in Text
  BY <1>1 DEF IsConfig, IsEnvironment, Given
<1>4. /\ o.settings \in Settings
      /\ o.settings = [c.settings EXCEPT !.log_file = Given(e.log_file, c.settings.log_file)]
  <2>1. c.settings \in Settings /\ e.log_file \in Text
    BY DEF IsConfig, IsEnvironment
  <2>. QED
    BY <1>1, <2>1 DEF Settings, Given
<1>5. ASSUME NEW p \in DOMAIN c.pools
      PROVE  /\ IsKeys(o.pools[p]) /\ DOMAIN o.pools[p] = DOMAIN c.pools[p]
             /\ \A i \in DOMAIN c.pools[p] :
                   o.pools[p][i] = [label |-> c.pools[p][i].label,
                                    key |-> Given(Supplied(e, p, c.pools[p][i].label), c.pools[p][i].key)]
  <2>. DEFINE given == [i \in DOMAIN c.pools[p] |-> Supplied(e, p, c.pools[p][i].label)]
  <2>1. \A i \in DOMAIN c.pools[p] : given[i] \in Text
    BY SuppliedType
  <2>2. o.pools[p] = WithKeys(c.pools[p], given) /\ IsKeys(c.pools[p])
    BY <1>1 DEF IsConfig
  <2>3. \A i \in DOMAIN c.pools[p] : given[i] = Supplied(e, p, c.pools[p][i].label)
    OBVIOUS
  <2>. DEFINE pool == c.pools[p]
  <2>. HIDE DEF given, o, pool
  <2>4. IsKeys(pool) /\ o.pools[p] = WithKeys(pool, given) /\ \A i \in DOMAIN pool : given[i] \in Text
    BY <2>1, <2>2 DEF pool
  <2>5. /\ IsKeys(WithKeys(pool, given)) /\ DOMAIN WithKeys(pool, given) = DOMAIN pool
        /\ \A i \in DOMAIN pool :
              WithKeys(pool, given)[i] = [label |-> pool[i].label, key |-> Given(given[i], pool[i].key)]
    BY <2>4, WithKeysFacts
  <2>. QED
    BY <2>3, <2>4, <2>5 DEF pool
<1>6. IsKeys(o.keys)
  <2>. DEFINE given == [i \in DOMAIN c.keys |-> Getenv(e, KeyVar(c.keys[i].label))]
  <2>1. \A i \in DOMAIN c.keys : given[i] \in Text
    BY GetenvType
  <2>2. o.keys = WithKeys(c.keys, given) /\ IsKeys(c.keys)
    BY <1>1 DEF IsConfig
  <2>. QED
    BY <2>1, <2>2, WithKeysFacts
<1>7. DOMAIN o.pools = DOMAIN c.pools
  BY <1>1
<1>. HIDE DEF o
<1>8. IsConfig(o)
  BY <1>1, <1>2, <1>3, <1>4, <1>5, <1>6, <1>7 DEF IsConfig
<1>. QED
  BY <1>1, <1>4, <1>5, <1>7, <1>8 DEF o, Overridden

LEMMA KeyNotBlank ==
    ASSUME NEW l, NEW k, NEW x, x = [label |-> l, key |-> k], k # ""
    PROVE  x.key # ""
OBVIOUS

\* What the environment supplies may be blank, what it replaces may not.
LEMMA OverrideAccepted ==
    ASSUME NEW c, IsConfig(c), Accepted(c), NEW e, IsEnvironment(e), e.port # NotANumber,
           e.port # Unset => e.port > 0 /\ e.port <= MaxPort,
           PlatformsOf(c) = c.platforms, PoolsOf(c) = c.pools
    PROVE  LET o == Override(c, e) IN
           Accepted(o) /\ PlatformsOf(o) = c.platforms /\ PoolsOf(o) = o.pools
<1>. DEFINE o == Override(c, e)
<1>1. /\ IsConfig(o) /\ o.platforms = c.platforms
      /\ o.port = IF e.port = Unset THEN c.port ELSE e.port
      /\ DOMAIN o.pools = DOMAIN c.pools
      /\ \A p \in DOMAIN c.pools :
            /\ DOMAIN o.pools[p] = DOMAIN c.pools[p]
            /\ \A i \in DOMAIN c.pools[p] :
                  o.pools[p][i] = [label |-> c.pools[p][i].label,
                                   key |-> Given(Supplied(e, p, c.pools[p][i].label), c.pools[p][i].key)]
  <2>1. Overridden(o, c, e)
    BY OverrideFacts
  <2>. HIDE DEF o
  <2>. QED
    BY <2>1, Zenon DEF Overridden
<1>. HIDE DEF o
<1>2. /\ c.port > 0 /\ c.port <= MaxPort
      /\ DOMAIN c.platforms # {} /\ DOMAIN c.pools # {}
      /\ \A p \in DOMAIN c.pools : PoolAccepted(p, c.pools[p])
      /\ \A p \in DOMAIN c.platforms : PlatformAccepted(p, c.platforms[p], c.pools)
  BY AcceptedFacts, Zenon
<1>3. PlatformsOf(o) = c.platforms /\ PoolsOf(o) = o.pools
  BY <1>1, <1>2 DEF PlatformsOf, PoolsOf
<1>4. o.port > 0 /\ o.port <= MaxPort
  BY <1>1, <1>2, Zenon
<1>5. ASSUME NEW p \in DOMAIN o.pools
      PROVE  PoolAccepted(p, o.pools[p])
  <2>1. PoolAccepted(p, c.pools[p]) /\ DOMAIN o.pools[p] = DOMAIN c.pools[p]
    BY <1>1, <1>2, Zenon
  <2>2. ASSUME NEW i \in DOMAIN c.pools[p]
        PROVE  o.pools[p][i].key # ""
    <3>. DEFINE before == c.pools[p][i]
                after == Given(Supplied(e, p, before.label), before.key)
    <3>1. o.pools[p][i] = [label |-> before.label, key |-> after]
      BY <1>1
    <3>2. before.key # ""
      BY <2>1 DEF PoolAccepted
    <3>3. after # ""
      BY <3>2 DEF Given
    <3>. HIDE DEF before, after
    <3>. QED
      BY <3>1, <3>3, KeyNotBlank
  <2>. QED
    BY <2>1, <2>2, Zenon DEF PoolAccepted
<1>6. ASSUME NEW p \in DOMAIN c.platforms
      PROVE  PlatformAccepted(p, c.platforms[p], o.pools)
  BY <1>1, <1>2, Zenon DEF PlatformAccepted
<1>7. Accepted(o)
  BY <1>1, <1>2, <1>3, <1>4, <1>5, <1>6, Zenon DEF Accepted
<1>. QED
  BY <1>3, <1>7 DEF o

LEMMA ValidatedIsBuildable ==
    ASSUME NEW c, IsConfig(c), Accepted(c)
    PROVE  Buildable(Validated(c))
<1>. DEFINE v == Validated(c)
<1>1. ASSUME NEW p \in DOMAIN v.platforms
      PROVE  v.platforms[p].type \in Providers /\ (v.platforms[p].type = "generic_http" => v.platforms[p].header # "")
  <2>. DEFINE q == PlatformsOf(c)[p]
  <2>1. p \in DOMAIN PlatformsOf(c) /\ v.platforms[p] = Placed(q)
    BY DEF Validated, PlacedPlatforms
  <2>2. PlatformAccepted(p, q, PoolsOf(c)) /\ q \in Platform
    BY <2>1, AcceptedFacts, PlatformsOfType, Zenon DEF IsMap
  <2>3. Placed(q).type = q.type /\ Placed(q).header = q.header
    BY <2>2, PlacedFacts
  <2>. HIDE DEF q, v
  <2>. QED
    BY <2>1, <2>2, <2>3, Zenon DEF PlatformAccepted
<1>. QED
  BY <1>1 DEF Buildable
-----------------------------------------------------------------------------
(* The inductive invariant. *)

\* What runs is a validated configuration: the one that starting again would give,
\* or, after a save, the one in the file.  The environment is one that the process
\* could start in.
Origin ==
    running # NotRunning =>
        /\ env.port # NotANumber /\ (env.port # Unset => env.port > 0 /\ env.port <= MaxPort)
        /\ running \in Loads(file, env) \/ running = file
        /\ \E c : IsConfig(c) /\ Accepted(c) /\ running = Validated(c)

\* The process is where its environment put it, and it could be put there.
InPlace ==
    running # NotRunning =>
        /\ Granted(place)
        /\ env.port # Unset => place.port = env.port
        /\ env.log_file # "" => place.log_file = env.log_file

ConfigInv == ConfigTypeOK /\ Origin /\ InPlace

LEMMA LoadsFacts ==
    ASSUME NEW f, IsConfig(f), NEW e, IsEnvironment(e), NEW c \in Loads(f, e)
    PROVE  /\ c = Validated(Override(f, e)) /\ Loads(f, e) = {c}
           /\ IsConfig(Override(f, e)) /\ Accepted(Override(f, e)) /\ IsConfig(c)
           /\ e.port # NotANumber
           /\ e.port # Unset => e.port > 0 /\ e.port <= MaxPort
<1>1. /\ e.port # NotANumber /\ Accepted(Override(f, e))
      /\ c = Validated(Override(f, e)) /\ Loads(f, e) = {c}
  BY DEF Loads
<1>2. IsConfig(Override(f, e)) /\ Override(f, e).port = IF e.port = Unset THEN f.port ELSE e.port
  <2>1. Overridden(Override(f, e), f, e)
    BY <1>1, OverrideFacts
  <2>. QED
    BY <2>1, Zenon DEF Overridden
<1>3. IsConfig(c)
  BY <1>1, <1>2, ValidatedType
<1>4. Override(f, e).port > 0 /\ Override(f, e).port <= MaxPort
  BY <1>1, AcceptedFacts
<1>. QED
  BY <1>1, <1>2, <1>3, <1>4, Zenon

LEMMA EnvironmentType ==
    ASSUME NEW e \in Environments
    PROVE  IsEnvironment(e)
BY ConfigAssumption

LEMMA InitConfigInv == Init => ConfigInv
<1>. SUFFICES ASSUME Init PROVE ConfigInv
  OBVIOUS
<1>1. IsConfig(file)
  BY ConfigAssumption DEF Init
<1>. QED
  BY <1>1 DEF Init, ConfigInv, ConfigTypeOK, Origin, InPlace

LEMMA StepConfigInv == ConfigInv /\ [Next]_vars => ConfigInv'
<1>. SUFFICES ASSUME ConfigInv, [Next]_vars PROVE ConfigInv'
  OBVIOUS
<1>. USE DEF ConfigInv
<1>1. CASE HandEdit
  <2>1. IsConfig(file')
    BY <1>1, ConfigAssumption DEF HandEdit
  <2>2. running' = running /\ running = NotRunning /\ env' = env /\ draft' = draft
    BY <1>1 DEF HandEdit
  <2>. QED
    BY <2>1, <2>2 DEF ConfigTypeOK, Origin, InPlace
<1>2. CASE Stop
  <2>1. running' = NotRunning /\ file' = file /\ env' = env /\ draft' = draft
    BY <1>2 DEF Stop
  <2>. QED
    BY <2>1 DEF ConfigTypeOK, Origin, InPlace
<1>3. ASSUME NEW e \in Environments, Start(e)
      PROVE  ConfigInv'
  <2>1. /\ running' \in Loads(file, e) /\ env' = e /\ file' = file /\ draft' = draft
        /\ place' = Place(running') /\ Granted(place')
    BY <1>3 DEF Start, Starts
  <2>2. IsConfig(file) /\ IsEnvironment(e)
    BY <1>3, EnvironmentType DEF ConfigTypeOK
  <2>3. /\ running' = Validated(Override(file, e)) /\ IsConfig(running')
        /\ IsConfig(Override(file, e)) /\ Accepted(Override(file, e))
        /\ e.port # NotANumber /\ (e.port # Unset => e.port > 0 /\ e.port <= MaxPort)
    BY <2>1, <2>2, LoadsFacts, Zenon
  <2>4. ConfigTypeOK'
    BY <2>1, <2>2, <2>3 DEF ConfigTypeOK, Granted
  <2>5. Origin'
    BY <2>1, <2>3, Zenon DEF Origin
  <2>6. InPlace'
    <3>1. place'.port = running'.port /\ place'.log_file = running'.settings.log_file
      BY <2>1 DEF Place
    <3>2. /\ running'.port = IF e.port = Unset THEN file.port ELSE e.port
          /\ running'.settings.log_file =
                Given(Given(e.log_file, file.settings.log_file), "logs/gateway.jsonl")
      <4>1. file.settings \in Settings
        BY <2>2 DEF IsConfig
      <4>. QED
        BY <2>3, <4>1 DEF Validated, Override, Filled, Settings
    <3>. QED
      BY <2>1, <3>1, <3>2 DEF InPlace, Given, Granted
  <2>. QED
    BY <2>4, <2>5, <2>6
<1>4. ASSUME NEW a \in Administrators, Get(a)
      PROVE  ConfigInv'
  <2>1. /\ running # NotRunning /\ running' = running /\ file' = file /\ env' = env /\ place' = place
        /\ draft' = [draft EXCEPT ![a] = [config |-> running, key |-> running.admin_key]]
    BY <1>4 DEF Get
  <2>2. IsConfig(running) /\ running.admin_key \in Text
    BY <2>1 DEF ConfigTypeOK, IsConfig
  <2>3. Origin'
    BY <2>1 DEF Origin
  <2>4. ASSUME NEW b \in Administrators, draft'[b] # NoDraft
        PROVE  IsConfig(draft'[b].config) /\ draft'[b].key \in Text
    <3>1. draft'[b] = draft[b] \/ draft'[b] = [config |-> running, key |-> running.admin_key]
      BY <2>1
    <3>. QED
      BY <2>2, <2>4, <3>1 DEF ConfigTypeOK
  <2>5. ConfigTypeOK'
    BY <2>1, <2>4 DEF ConfigTypeOK, Granted
  <2>6. InPlace'
    BY <2>1 DEF InPlace, Granted
  <2>. QED
    BY <2>3, <2>5, <2>6
<1>5. ASSUME NEW a \in Administrators, Put(a)
      PROVE  ConfigInv'
  <2>1. PICK c \in Edits(draft[a].config) :
           IsConfig(c) /\ Accepted(c) /\ running' = Validated(c) /\ file' = Validated(Validated(c))
    BY <1>5 DEF Put
  <2>2. /\ env' = env /\ place' = place /\ draft' = [draft EXCEPT ![a] = NoDraft]
        /\ draft[a] # NoDraft /\ running # NotRunning
    BY <1>5 DEF Put, Admits
  <2>3. IsConfig(running') /\ file' = running'
    BY <2>1, ValidatedType, ValidatedAgain
  <2>4. Origin'
    BY <2>1, <2>2, <2>3, Zenon DEF Origin
  <2>5. ASSUME NEW b \in Administrators, draft'[b] # NoDraft
        PROVE  IsConfig(draft'[b].config) /\ draft'[b].key \in Text
    <3>1. draft'[b] = draft[b]
      BY <2>2, <2>5
    <3>. QED
      BY <2>5, <3>1 DEF ConfigTypeOK
  <2>6. InPlace'
    BY <2>2 DEF InPlace, Granted
  <2>7. ConfigTypeOK'
    BY <2>2, <2>3, <2>5, <2>6 DEF ConfigTypeOK, InPlace
  <2>. QED
    BY <2>4, <2>6, <2>7
<1>6. CASE UNCHANGED vars
  BY <1>6 DEF vars, ConfigTypeOK, Origin, InPlace, Granted
<1>. QED
  BY <1>1, <1>2, <1>3, <1>4, <1>5, <1>6, Zenon DEF Next

\* The configuration that runs is always one that validation made.
THEOREM ConfigInvariant == Spec => []ConfigInv
BY InitConfigInv, StepConfigInv, PTL DEF Spec

\* Files, running configurations and drafts are what YAML and JSON decode.
THEOREM ConfigTypeCorrect == Spec => []ConfigTypeOK
BY ConfigInvariant, PTL DEF ConfigInv

\* Whatever was loaded or sent, every platform that runs has a name that is one
\* segment of a path, a credential header, a time limit, and keys that are not
\* blank.
THEOREM AlwaysServable == Spec => []RunningIsServable
<1>1. ConfigInv => RunningIsServable
  <2>. SUFFICES ASSUME ConfigInv, running # NotRunning
                PROVE  Servable(running)
    BY DEF RunningIsServable, Servable
  <2>1. PICK c : IsConfig(c) /\ Accepted(c) /\ running = Validated(c)
    BY DEF ConfigInv, Origin
  <2>. QED
    BY <2>1, ValidatedIsServable
<1>. QED
  BY <1>1, ConfigInvariant, PTL

\* What the configuration page was shown can be sent back unchanged.
THEOREM RoundTripIsNeutral == Spec => []SavingBackChangesNothing
<1>1. ConfigInv => SavingBackChangesNothing
  <2>. SUFFICES ASSUME ConfigInv, running # NotRunning
                PROVE  Accepted(running) /\ Validated(running) = running
    BY DEF SavingBackChangesNothing
  <2>1. PICK c : IsConfig(c) /\ Accepted(c) /\ running = Validated(c)
    BY DEF ConfigInv, Origin
  <2>. QED
    BY <2>1, ValidatedAgain
<1>. QED
  BY <1>1, ConfigInvariant, PTL
-----------------------------------------------------------------------------
(* Starting again. *)

LEMMA SuppliedKey ==
    ASSUME NEW k \in Key, NEW s, NEW x, x = [label |-> k.label, key |-> Given(s, k.key)]
    PROVE  /\ x.label = k.label
           /\ x = k \/ x = [label |-> k.label, key |-> s]
BY DEF Key, Given

\* c differs from v in what e names alone: see RestartChangesOnlyTheNamed.
DiffersAsNamed(c, v, e) ==
    /\ c.platforms = v.platforms /\ c.workspaces = v.workspaces
    /\ e.port = Unset => c.port = v.port
    /\ e.admin_key = "" => c.admin_key = v.admin_key
    /\ c.settings = [v.settings EXCEPT !.log_file = c.settings.log_file]
    /\ e.log_file = "" => c.settings.log_file = v.settings.log_file
    /\ DOMAIN c.pools = DOMAIN v.pools
    /\ \A p \in DOMAIN c.pools :
          /\ DOMAIN c.pools[p] = DOMAIN v.pools[p]
          /\ \A i \in DOMAIN c.pools[p] :
                \/ c.pools[p][i] = v.pools[p][i]
                \/ c.pools[p][i] = [label |-> v.pools[p][i].label,
                                    key |-> Supplied(e, p, v.pools[p][i].label)]

\* Where a process goes that starts with v in the environment e.
MovedBy(v, e) ==
    [host |-> v.settings.host,
     port |-> IF e.port = Unset THEN v.port ELSE e.port,
     log_file |-> Given(e.log_file, v.settings.log_file)]

\* A start from a file that was saved gives that configuration again, the
\* environment aside.
LEMMA StartFromSaved ==
    ASSUME NEW c, IsConfig(c), Accepted(c), NEW e, IsEnvironment(e), e.port # NotANumber,
           e.port # Unset => e.port > 0 /\ e.port <= MaxPort
    PROVE  LET v == Validated(c)
               w == Validated(Override(v, e))
           IN  Loads(v, e) = {w} /\ DiffersAsNamed(w, v, e) /\ Place(w) = MovedBy(v, e)
<1>. DEFINE v == Validated(c)
            o == Override(v, e)
            w == Validated(o)
<1>1. IsConfig(v) /\ Accepted(v) /\ Validated(v) = v
  BY ValidatedType, ValidatedAgain
<1>2. /\ PlatformsOf(v) = v.platforms /\ PoolsOf(v) = v.pools
      /\ \A p \in DOMAIN v.pools : Labelled(v.pools[p]) = v.pools[p]
  BY ValidatedPlatforms
<1>. HIDE DEF v
<1>3. /\ IsConfig(o) /\ o.platforms = v.platforms /\ o.workspaces = v.workspaces
      /\ o.port = IF e.port = Unset THEN v.port ELSE e.port
      /\ o.admin_key = Given(e.admin_key, v.admin_key)
      /\ o.settings = [v.settings EXCEPT !.log_file = Given(e.log_file, v.settings.log_file)]
      /\ DOMAIN o.pools = DOMAIN v.pools
      /\ \A p \in DOMAIN v.pools :
            /\ DOMAIN o.pools[p] = DOMAIN v.pools[p]
            /\ \A i \in DOMAIN v.pools[p] :
                  o.pools[p][i] = [label |-> v.pools[p][i].label,
                                   key |-> Given(Supplied(e, p, v.pools[p][i].label), v.pools[p][i].key)]
  <2>1. Overridden(o, v, e)
    BY <1>1, OverrideFacts
  <2>. HIDE DEF o
  <2>. QED
    BY <2>1, Zenon DEF Overridden
<1>4. Accepted(o) /\ PlatformsOf(o) = v.platforms /\ PoolsOf(o) = o.pools
  BY <1>1, <1>2, OverrideAccepted
<1>. HIDE DEF o
<1>5. /\ w.platforms = PlacedPlatforms(o) /\ w.workspaces = TimedWorkspaces(o)
      /\ w.port = o.port /\ w.admin_key = o.admin_key /\ w.settings = Filled(o.settings)
      /\ w.pools = LabelledPools(o)
  BY DEF Validated
<1>6. /\ v.platforms = PlacedPlatforms(v) /\ v.workspaces = TimedWorkspaces(v)
      /\ v.settings = Filled(v.settings)
  <2>1. /\ Validated(v).platforms = PlacedPlatforms(v) /\ Validated(v).workspaces = TimedWorkspaces(v)
        /\ Validated(v).settings = Filled(v.settings)
    BY DEF Validated
  <2>. QED
    BY <1>1, <2>1
<1>7. PlacedPlatforms(o) = PlacedPlatforms(v)
  BY <1>2, <1>4 DEF PlacedPlatforms
<1>8. TimedWorkspaces(o) = TimedWorkspaces(v)
  BY <1>2, <1>3, <1>4, <1>7 DEF TimedWorkspaces
<1>9. Loads(v, e) = {w}
  BY <1>3, <1>4, ValidatedIsBuildable DEF Loads, o
<1>. HIDE DEF w
<1>10. e.admin_key = "" => w.admin_key = v.admin_key
  BY <1>3, <1>5 DEF Given
<1>11. DOMAIN w.pools = DOMAIN v.pools
  BY <1>3, <1>4, <1>5 DEF LabelledPools
<1>12. ASSUME NEW p \in DOMAIN v.pools
       PROVE  /\ DOMAIN w.pools[p] = DOMAIN v.pools[p]
              /\ \A i \in DOMAIN v.pools[p] :
                    \/ w.pools[p][i] = v.pools[p][i]
                    \/ w.pools[p][i] = [label |-> v.pools[p][i].label,
                                        key |-> Supplied(e, p, v.pools[p][i].label)]
  <2>. DEFINE old == v.pools[p]
              new == o.pools[p]
  <2>1. IsKeys(old) /\ IsKeys(new) /\ Labelled(old) = old /\ DOMAIN new = DOMAIN old
    BY <1>1, <1>2, <1>3 DEF IsConfig
  <2>2. w.pools[p] = Labelled(new)
    BY <1>3, <1>4, <1>5 DEF LabelledPools
  <2>3. DOMAIN Labelled(new) = DOMAIN old
        /\ \A i \in DOMAIN old : new[i].label # "" => Labelled(new)[i] = new[i]
    BY <2>1, LabelledFacts
  <2>4. \A i \in DOMAIN old :
           new[i] = [label |-> old[i].label, key |-> Given(Supplied(e, p, old[i].label), old[i].key)]
    BY <1>3
  <2>5. \A i \in DOMAIN old : old[i] \in Key
    BY <2>1 DEF IsKeys
  <2>6. \A i \in DOMAIN old : old[i].label # ""
    BY <2>1, LabelledFacts
  <2>. HIDE DEF old, new
  <2>7. ASSUME NEW i \in DOMAIN old
        PROVE  \/ Labelled(new)[i] = old[i]
               \/ Labelled(new)[i] = [label |-> old[i].label, key |-> Supplied(e, p, old[i].label)]
    <3>. DEFINE s == Supplied(e, p, old[i].label)
    <3>1. new[i] = [label |-> old[i].label, key |-> Given(s, old[i].key)]
      BY <2>4
    <3>. HIDE DEF s
    <3>2. /\ new[i].label = old[i].label
          /\ new[i] = old[i] \/ new[i] = [label |-> old[i].label, key |-> s]
      BY <2>5, <3>1, SuppliedKey
    <3>3. Labelled(new)[i] = new[i]
      BY <2>3, <2>6, <3>2
    <3>. QED
      BY <3>2, <3>3 DEF s
  <2>. QED
    BY <2>2, <2>3, <2>7 DEF old
<1>13. /\ w.settings.log_file = Given(e.log_file, v.settings.log_file)
       /\ w.settings.host = v.settings.host
       /\ w.settings = [v.settings EXCEPT !.log_file = w.settings.log_file]
  <2>. DEFINE l == Given(e.log_file, v.settings.log_file)
  <2>1. v.settings \in Settings /\ e.log_file \in Text /\ Filled(v.settings) = v.settings
    BY <1>1, <1>6 DEF IsConfig, IsEnvironment
  <2>2. v.settings.log_file # "" /\ v.settings.log_file \in Text
    <3>1. Filled(v.settings).log_file = Given(v.settings.log_file, "logs/gateway.jsonl")
      BY DEF Filled
    <3>. QED
      BY <2>1, <3>1 DEF Given, Settings
  <2>3. l \in Text /\ l # ""
    BY <2>1, <2>2 DEF Given
  <2>. DEFINE s == v.settings
              t == o.settings
  <2>. HIDE DEF l
  <2>4. s \in Settings /\ Filled(s) = s /\ t = [s EXCEPT !.log_file = l]
    BY <1>3, <2>1 DEF l
  <2>. HIDE DEF s, t
  <2>5. /\ t \in Settings /\ t.log_file = l /\ t.host = s.host
        /\ t.switch_threshold = s.switch_threshold
        /\ t.rate_limit_cooldown_seconds = s.rate_limit_cooldown_seconds
        /\ t.error_cooldown_seconds = s.error_cooldown_seconds
        /\ t.max_error_count = s.max_error_count /\ t.max_retries = s.max_retries
        /\ t.log_read_limit = s.log_read_limit /\ t.level = s.level
    BY <2>3, <2>4 DEF Settings
  <2>6. Filled(t) = t
    BY <2>3, <2>4, <2>5, FilledKeepsLogFile
  <2>7. w.settings = t
    BY <1>5, <2>6 DEF t
  <2>8. t = [s EXCEPT !.log_file = t.log_file]
    BY <2>4, <2>5
  <2>. QED
    BY <2>5, <2>7, <2>8 DEF l, s
<1>14. Place(w) = MovedBy(v, e)
  BY <1>3, <1>5, <1>13 DEF Place, MovedBy
<1>15. e.log_file = "" => w.settings.log_file = v.settings.log_file
  BY <1>13 DEF Given
<1>16. w.port = IF e.port = Unset THEN v.port ELSE e.port
  BY <1>3, <1>5
<1>17. w.platforms = v.platforms /\ w.workspaces = v.workspaces
  BY <1>5, <1>6, <1>7, <1>8
<1>18. e.port = Unset => w.port = v.port
  BY <1>16
<1>19. DiffersAsNamed(w, v, e)
  <2>. HIDE DEF v, o, w
  <2>1. \A p \in DOMAIN w.pools :
           /\ DOMAIN w.pools[p] = DOMAIN v.pools[p]
           /\ \A i \in DOMAIN v.pools[p] :
                 \/ w.pools[p][i] = v.pools[p][i]
                 \/ w.pools[p][i] = [label |-> v.pools[p][i].label,
                                     key |-> Supplied(e, p, v.pools[p][i].label)]
    BY <1>11, <1>12, Zenon
  <2>2. \A p \in DOMAIN w.pools :
           /\ DOMAIN w.pools[p] = DOMAIN v.pools[p]
           /\ \A i \in DOMAIN w.pools[p] :
                 \/ w.pools[p][i] = v.pools[p][i]
                 \/ w.pools[p][i] = [label |-> v.pools[p][i].label,
                                     key |-> Supplied(e, p, v.pools[p][i].label)]
    BY <2>1, Zenon
  <2>3. w.settings = [v.settings EXCEPT !.log_file = w.settings.log_file]
    BY <1>13, Zenon
  <2>. QED
    BY <1>10, <1>11, <1>15, <1>17, <1>18, <2>2, <2>3, Zenon DEF DiffersAsNamed
<1>. QED
  BY <1>9, <1>14, <1>19 DEF v, o, w

\* Where the next start finds what the running configuration came from, or found.
LEMMA RestartCases ==
    ASSUME ConfigInv, running # NotRunning
    PROVE  \/ Loads(file, env) = {running}
           \/ \E c : IsConfig(c) /\ Accepted(c) /\ file = Validated(c) /\ running = file
<1>1. IsConfig(file) /\ IsEnvironment(env)
  BY EnvironmentType DEF ConfigInv, ConfigTypeOK
<1>2. CASE running \in Loads(file, env)
  BY <1>1, <1>2, LoadsFacts
<1>3. CASE running = file
  BY <1>3 DEF ConfigInv, Origin
<1>. QED
  BY <1>2, <1>3 DEF ConfigInv, Origin

\* No save leaves a file that does not load in the same environment; and a start
\* fails for want of a log file or an address only if a save moved the gateway
\* away from where its process has been since it was started.
THEOREM AlwaysRestarts == Spec => []RestartsAgain
<1>1. ConfigInv => RestartsAgain
  <2>. SUFFICES ASSUME ConfigInv, running # NotRunning
                PROVE  \E c \in Loads(file, env) :
                          Place(running) = place => Granted(Place(c))
    BY DEF RestartsAgain, Starts
  <2>1. Granted(place)
    BY DEF ConfigInv, InPlace
  <2>2. CASE Loads(file, env) = {running}
    BY <2>1, <2>2
  <2>3. ASSUME NEW c, IsConfig(c), Accepted(c), file = Validated(c), running = file
        PROVE  \E w \in Loads(file, env) : Place(running) = place => Granted(Place(w))
    <3>1. /\ IsEnvironment(env) /\ env.port # NotANumber
          /\ env.port # Unset => env.port > 0 /\ env.port <= MaxPort
      BY EnvironmentType DEF ConfigInv, ConfigTypeOK, Origin
    <3>2. PICK w : Loads(file, env) = {w} /\ Place(w) = MovedBy(running, env)
      BY <2>3, <3>1, StartFromSaved
    <3>3. ASSUME Place(running) = place
          PROVE  MovedBy(running, env) = Place(running)
      <4>1. /\ env.port # Unset => running.port = env.port
            /\ env.log_file # "" => running.settings.log_file = env.log_file
        BY <3>3 DEF ConfigInv, InPlace, Place
      <4>. QED
        BY <4>1 DEF MovedBy, Place, Given
    <3>. QED
      BY <2>1, <3>2, <3>3
  <2>. QED
    BY <2>2, <2>3, RestartCases
<1>. QED
  BY <1>1, ConfigInvariant, PTL

\* Starting again in the same environment changes nothing that runs but what the
\* environment names.
THEOREM RestartIsNeutral == Spec => []RestartChangesOnlyTheNamed
<1>1. ConfigInv => RestartChangesOnlyTheNamed
  <2>. SUFFICES ASSUME ConfigInv, running # NotRunning
                PROVE  RestartChangesOnlyTheNamed
    BY DEF RestartChangesOnlyTheNamed
  <2>1. CASE Loads(file, env) = {running}
    <3>1. running.settings \in Settings
      BY DEF ConfigInv, ConfigTypeOK, IsConfig
    <3>2. running.settings = [running.settings EXCEPT !.log_file = running.settings.log_file]
      BY <3>1 DEF Settings
    <3>. QED
      BY <2>1, <3>2 DEF RestartChangesOnlyTheNamed
  <2>2. ASSUME NEW c, IsConfig(c), Accepted(c), file = Validated(c), running = file
        PROVE  RestartChangesOnlyTheNamed
    <3>1. /\ IsEnvironment(env) /\ env.port # NotANumber
          /\ env.port # Unset => env.port > 0 /\ env.port <= MaxPort
      BY EnvironmentType DEF ConfigInv, ConfigTypeOK, Origin
    <3>2. \E w : Loads(running, env) = {w} /\ DiffersAsNamed(w, running, env)
      BY <2>2, <3>1, StartFromSaved
    <3>3. \A w \in Loads(file, env) : DiffersAsNamed(w, running, env)
      BY <2>2, <3>2
    <3>. QED
      BY <3>3, Zenon DEF RestartChangesOnlyTheNamed, DiffersAsNamed
  <2>. QED
    BY <2>1, <2>2, RestartCases
<1>. QED
  BY <1>1, ConfigInvariant, PTL
=============================================================================
