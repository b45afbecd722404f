------------------------------- MODULE Config -------------------------------
(***************************************************************************)
(* What a configuration goes through: internal/config (the environment,    *)
(* the fields of the old format, the checks, the defaults), the runtime    *)
(* that internal/gateway builds from it, and the round trip between the    *)
(* file, the running gateway and administrators who read the configuration *)
(* (GET), change it and send all of it back (PUT).                         *)
(*                                                                         *)
(* A save is one step here; what overlapping saves and crashes do to the   *)
(* file is Gateway.  A start can be refused by the machine as well: the    *)
(* log file cannot be made, or the address is not to be had.               *)
(* Left out of a configuration: what no step of this module reads or       *)
(* changes (credential prefix, quota headers, client tokens).  A blank     *)
(* string is a field that is not there.                                    *)
(***************************************************************************)
EXTENDS Integers, Sequences

CONSTANTS
    Administrators,
    Text,          \* strings
    Names,         \* of pools, platforms and workspaces
    Unroutable,    \* the names that are empty or contain a slash
    MaxKeys,       \* bound: keys of a pool
    Numbered,      \* the label that validation gives to the i-th key, "key-i"
    Sanitize(_),   \* sanitizeEnvLabel
    Unset,         \* GW_SERVER_PORT is not set
    NotANumber,    \* GW_SERVER_PORT does not parse
    NotRunning,
    NoDraft,
    Environments,  \* those the process may be started in
    LogFiles,      \* the log files that the machine lets the process make
    Addresses,     \* the hosts and ports on which it lets it listen
    HandWritten,   \* configuration files written by hand
    Edits(_)       \* what an administrator may send who was shown this

MaxPort == 65535
Default == "default"
Providers == {"api_sports", "generic_http"}

Key == [label : Text, key : Text]
Platform == [type : Text, base : Text, timeout : Int, pool : Text, header : Text]
Workspace == [base : Text, timeout : Int]
Settings ==
    [host : Text, switch_threshold : Int, rate_limit_cooldown_seconds : Int,
     error_cooldown_seconds : Int, max_error_count : Int, max_retries : Int,
     log_file : Text, log_read_limit : Int, level : Text]

IsKeys(keys) == DOMAIN keys \in {1..n : n \in 0..MaxKeys} /\ keys \in [DOMAIN keys -> Key]

\* f gives values of S to some of the names.
IsMap(f, S) == DOMAIN f \subseteq Names /\ f \in [DOMAIN f -> S]

\* What YAML and JSON can decode.
IsConfig(c) ==
    /\ DOMAIN c = {"port", "platforms", "pools", "settings", "admin_key", "workspaces", "keys"}
    /\ c.port \in Int
    /\ IsMap(c.platforms, Platform)
    /\ DOMAIN c.pools \subseteq Names /\ \A p \in DOMAIN c.pools : IsKeys(c.pools[p])
    /\ c.settings \in Settings
    /\ c.admin_key \in Text
    /\ IsMap(c.workspaces, Workspace)
    /\ IsKeys(c.keys)

IsEnvironment(e) ==
    /\ e.port \in Int \cup {Unset, NotANumber}
    /\ \A v \in DOMAIN e.vars : e.vars[v] \in Text
    /\ e.admin_key \in Text /\ e.log_file \in Text

ASSUME ConfigAssumption ==
    /\ {"", Default, "0.0.0.0", "logs/gateway.jsonl", "info"} \cup Providers \subseteq Text
    /\ Default \in Names /\ Default \notin Unroutable
    /\ MaxKeys \in Nat
    /\ Numbered \in [1..MaxKeys -> Text]
    /\ \A i \in 1..MaxKeys : Numbered[i] # ""
    /\ Unset \notin Int /\ NotANumber \notin Int /\ Unset # NotANumber
    /\ \A f \in HandWritten : IsConfig(f)
    /\ \A e \in Environments : IsEnvironment(e)

VARIABLES
    file,     \* the configuration file
    running,  \* Manager.cfg, or NotRunning
    env,      \* the environment of the process, since its last start
    place,    \* Server.Addr and Store.path, or NotRunning
    draft     \* what each administrator was shown, and the key used to log in

vars == <<file, running, env, place, draft>>
-----------------------------------------------------------------------------
(* applyEnvOverrides: a variable that is set wins over the file. *)

Given(value, otherwise) == IF value = "" THEN otherwise ELSE value

Getenv(e, name) == IF name \in DOMAIN e.vars THEN e.vars[name] ELSE ""

KeyVar(label) == "GW_KEY_" \o Sanitize(label)
PoolVar(pool, label) == "GW_KEY_" \o Sanitize(pool) \o "_" \o Sanitize(label)

\* What the environment says of a key, blank if nothing: the variable of the old
\* format counts for the default pool.
Supplied(e, pool, label) ==
    Given(Getenv(e, PoolVar(pool, label)),
          IF pool = Default THEN Getenv(e, KeyVar(label)) ELSE "")

\* Each key with what is supplied for it.
WithKeys(keys, supplied) ==
    [i \in DOMAIN keys |-> [label |-> keys[i].label, key |-> Given(supplied[i], keys[i].key)]]

Override(c, e) ==
    [port |-> IF e.port = Unset THEN c.port ELSE e.port,
     platforms |-> c.platforms,
     pools |-> [p \in DOMAIN c.pools |->
                   WithKeys(c.pools[p], [i \in DOMAIN c.pools[p] |-> Supplied(e, p, c.pools[p][i].label)])],
     settings |-> [c.settings EXCEPT !.log_file = Given(e.log_file, @)],
     admin_key |-> Given(e.admin_key, c.admin_key),
     workspaces |-> c.workspaces,
     keys |-> WithKeys(c.keys, [i \in DOMAIN c.keys |-> Getenv(e, KeyVar(c.keys[i].label))])]
-----------------------------------------------------------------------------
(* Validate: normalizeLegacyConfig, the checks and the defaults. *)

Labelled(keys) ==
    [i \in DOMAIN keys |-> [label |-> Given(keys[i].label, Numbered[i]), key |-> keys[i].key]]

\* The old format, where the new one is absent: its keys are the default pool.
PoolsOf(c) ==
    IF DOMAIN c.pools = {} /\ DOMAIN c.keys # {} THEN [p \in {Default} |-> c.keys] ELSE c.pools

\* Its workspaces are platforms.
PlatformsOf(c) ==
    IF DOMAIN c.platforms # {} THEN c.platforms
    ELSE [w \in DOMAIN c.workspaces |->
             [type |-> "api_sports", base |-> c.workspaces[w].base,
              timeout |-> c.workspaces[w].timeout, pool |-> Default, header |-> ""]]

PoolAccepted(name, keys) ==
    /\ name \notin Unroutable
    /\ DOMAIN keys # {}
    /\ \A i \in DOMAIN keys : keys[i].key # ""

\* Mutant: the pool of a platform is not looked up.
PlatformAcceptedAnyPool(name, platform, pools) ==
    /\ name \notin Unroutable
    /\ platform.type \in Providers
    /\ platform.base # ""
    /\ platform.type = "generic_http" => platform.header # ""

PlatformAccepted(name, platform, pools) ==
    /\ name \notin Unroutable
    /\ platform.type \in Providers
    /\ platform.base # ""
    /\ Given(platform.pool, Default) \in DOMAIN pools
    /\ platform.type = "generic_http" => platform.header # ""

Accepted(c) ==
    /\ c.port > 0 /\ c.port <= MaxPort
    /\ DOMAIN PlatformsOf(c) # {}
    /\ DOMAIN PoolsOf(c) # {}
    /\ \A p \in DOMAIN PoolsOf(c) : PoolAccepted(p, PoolsOf(c)[p])
    /\ \A p \in DOMAIN PlatformsOf(c) : PlatformAccepted(p, PlatformsOf(c)[p], PoolsOf(c))

\* What is not positive is not set.
AtLeastOne(value, default) == IF value <= 0 THEN default ELSE value

Filled(s) ==
    [host |-> Given(s.host, "0.0.0.0"),
     switch_threshold |-> IF s.switch_threshold < 0 THEN 1 ELSE s.switch_threshold,
     rate_limit_cooldown_seconds |-> AtLeastOne(s.rate_limit_cooldown_seconds, 60),
     error_cooldown_seconds |-> AtLeastOne(s.error_cooldown_seconds, 30),
     max_error_count |-> AtLeastOne(s.max_error_count, 3),
     max_retries |-> AtLeastOne(s.max_retries, 3),
     log_file |-> Given(s.log_file, "logs/gateway.jsonl"),
     log_read_limit |-> AtLeastOne(s.log_read_limit, 500),
     level |-> Given(s.level, "info")]

Placed(platform) ==
    [type |-> platform.type, base |-> platform.base,
     timeout |-> AtLeastOne(platform.timeout, 30), pool |-> Given(platform.pool, Default),
     header |-> platform.header]

LabelledPools(c) == [p \in DOMAIN PoolsOf(c) |-> Labelled(PoolsOf(c)[p])]
PlacedPlatforms(c) == [p \in DOMAIN PlatformsOf(c) |-> Placed(PlatformsOf(c)[p])]

\* A workspace without a timeout takes that of the platform of its name.
TimedWorkspaces(c) ==
    [w \in DOMAIN c.workspaces |->
        [base |-> c.workspaces[w].base,
         timeout |-> IF w \in DOMAIN PlatformsOf(c)
                     THEN AtLeastOne(c.workspaces[w].timeout, PlacedPlatforms(c)[w].timeout)
                     ELSE c.workspaces[w].timeout]]

\* Mutant: the keys of the default pool are added to those of the old format.
MirroredAppending(c) ==
    IF Default \in DOMAIN PoolsOf(c) THEN Labelled(c.keys) \o LabelledPools(c)[Default]
    ELSE Labelled(c.keys)

\* The keys of the old format follow the default pool, if there is one.
Mirrored(c) ==
    IF Default \in DOMAIN PoolsOf(c) THEN LabelledPools(c)[Default] ELSE Labelled(c.keys)

Validated(c) ==
    [port |-> c.port,
     platforms |-> PlacedPlatforms(c),
     pools |-> LabelledPools(c),
     settings |-> Filled(c.settings),
     admin_key |-> c.admin_key,
     workspaces |-> TimedWorkspaces(c),
     keys |-> Mirrored(c)]
-----------------------------------------------------------------------------
(* buildProxy *)

\* provider.New succeeds for every platform.
Buildable(c) ==
    \A p \in DOMAIN c.platforms :
        /\ c.platforms[p].type \in Providers
        /\ c.platforms[p].type = "generic_http" => c.platforms[p].header # ""

\* The upstream of each platform.  A pool that does not exist is nil, which
\* stands here for no keys at all.
Runtime(c) ==
    [p \in DOMAIN c.platforms |->
        LET pool == c.platforms[p].pool IN
        [base |-> c.platforms[p].base,
         timeout |-> c.platforms[p].timeout,
         credential |-> IF c.platforms[p].type = "api_sports" THEN "x-apisports-key"
                        ELSE c.platforms[p].header,
         keys |-> IF pool \in DOMAIN c.pools THEN c.pools[pool] ELSE <<>>]]

\* config.Load, and gateway.New after it: at most one configuration.
Loads(f, e) ==
    IF e.port # NotANumber /\ Accepted(Override(f, e)) /\ Buildable(Validated(Override(f, e)))
    THEN {Validated(Override(f, e))} ELSE {}

\* Where a process that starts with c listens, and what it writes its log to.
Place(c) == [host |-> c.settings.host, port |-> c.port, log_file |-> c.settings.log_file]

\* logstore.New and ListenAndServe succeed.
Granted(p) == p.log_file \in LogFiles /\ <<p.host, p.port>> \in Addresses

\* What main ends up running, unless it exits.
Starts(f, e) == {c \in Loads(f, e) : Granted(Place(c))}
-----------------------------------------------------------------------------
Init ==
    /\ file \in HandWritten
    /\ running = NotRunning
    /\ place = NotRunning
    /\ env \in Environments
    /\ draft = [a \in Administrators |-> NoDraft]

\* External: an operator edits the file of a gateway that is stopped.
HandEdit ==
    /\ running = NotRunning
    /\ file' \in HandWritten
    /\ UNCHANGED <<running, env, place, draft>>

\* main, in some environment.
Start(e) ==
    /\ running = NotRunning
    /\ running' \in Starts(file, e)
    /\ place' = Place(running')
    /\ env' = e
    /\ UNCHANGED <<file, draft>>

Stop ==
    /\ running # NotRunning
    /\ running' = NotRunning
    /\ place' = NotRunning
    /\ UNCHANGED <<file, env, draft>>

\* Nobody logs in where the key is blank.
Admits(key) == running # NotRunning /\ running.admin_key # "" /\ key = running.admin_key

\* An administrator logs in and is shown the configuration.
Get(a) ==
    /\ running # NotRunning
    /\ Admits(running.admin_key)
    /\ draft' = [draft EXCEPT ![a] = [config |-> running, key |-> running.admin_key]]
    /\ UNCHANGED <<file, running, env, place>>

\* Mutant: what does not validate is installed all the same.
PutUnchecked(a) ==
    /\ draft[a] # NoDraft
    /\ Admits(draft[a].key)
    /\ \E c \in Edits(draft[a].config) :
          /\ IsConfig(c)
          /\ running' = Validated(c)
          /\ file' = Validated(c)
    /\ draft' = [draft EXCEPT ![a] = NoDraft]
    /\ UNCHANGED <<env, place>>

\* Mutant: the configuration that is being replaced is saved.
PutSavesOld(a) ==
    /\ draft[a] # NoDraft
    /\ Admits(draft[a].key)
    /\ \E c \in Edits(draft[a].config) :
          /\ IsConfig(c)
          /\ Accepted(c)
          /\ Buildable(Validated(c))
          /\ running' = Validated(c)
          /\ file' = running
    /\ draft' = [draft EXCEPT ![a] = NoDraft]
    /\ UNCHANGED <<env, place>>

\* PUT: handleConfig and ReplaceConfig.  Save validates what it writes once more.
\* A body that does not decode, validate or build is refused.  The server and the
\* log store stay those of the start.
Put(a) ==
    /\ draft[a] # NoDraft
    /\ Admits(draft[a].key)
    /\ \E c \in Edits(draft[a].config) :
          /\ IsConfig(c)
          /\ Accepted(c)
          /\ Buildable(Validated(c))
          /\ running' = Validated(c)
          /\ file' = Validated(Validated(c))
    /\ draft' = [draft EXCEPT ![a] = NoDraft]
    /\ UNCHANGED <<env, place>>

Next ==
    \/ HandEdit \/ Stop
    \/ \E e \in Environments : Start(e)
    \/ \E a \in Administrators : Get(a) \/ Put(a)

Spec == Init /\ [][Next]_vars
-----------------------------------------------------------------------------
(* Properties. *)

ConfigTypeOK ==
    /\ IsConfig(file)
    /\ running # NotRunning => IsConfig(running)
    /\ env \in Environments
    /\ running # NotRunning => Granted(place)
    /\ \A a \in Administrators :
          draft[a] # NoDraft => IsConfig(draft[a].config) /\ draft[a].key \in Text

\* Whatever was loaded or sent, every platform that runs has a name that is one
\* segment of a path, a credential header and a time limit, and has keys to use,
\* none of them blank.
RunningIsServable ==
    running # NotRunning =>
        /\ DOMAIN Runtime(running) # {}
        /\ \A p \in DOMAIN Runtime(running) :
              LET upstream == Runtime(running)[p] IN
              /\ p \notin Unroutable /\ upstream.base # "" /\ upstream.timeout > 0
              /\ upstream.credential # ""
              /\ DOMAIN upstream.keys # {}
              /\ \A i \in DOMAIN upstream.keys : upstream.keys[i].label # "" /\ upstream.keys[i].key # ""

\* No save leaves a file that does not load in the same environment; and the next
\* start can fail for want of a log file or an address only if a save moved the
\* gateway away from where the process has been running all along.
RestartsAgain ==
    running # NotRunning =>
        /\ Loads(file, env) # {}
        /\ Place(running) = place => Starts(file, env) # {}

\* Starting again changes nothing of what runs but what the environment names.
RestartChangesOnlyTheNamed ==
    running # NotRunning => \A c \in Loads(file, env) :
        /\ c.platforms = running.platforms /\ c.workspaces = running.workspaces
        /\ env.port = Unset => c.port = running.port
        /\ env.admin_key = "" => c.admin_key = running.admin_key
        /\ c.settings = [running.settings EXCEPT !.log_file = c.settings.log_file]
        /\ env.log_file = "" => c.settings.log_file = running.settings.log_file
        /\ DOMAIN c.pools = DOMAIN running.pools
        /\ \A p \in DOMAIN c.pools :
              /\ DOMAIN c.pools[p] = DOMAIN running.pools[p]
              /\ \A i \in DOMAIN c.pools[p] :
                    \/ c.pools[p][i] = running.pools[p][i]
                    \/ c.pools[p][i] = [label |-> running.pools[p][i].label,
                                        key |-> Supplied(env, p, running.pools[p][i].label)]

\* What an administrator is shown can be sent back as it is, and changes nothing.
SavingBackChangesNothing ==
    running # NotRunning => Accepted(running) /\ Validated(running) = running
=============================================================================
