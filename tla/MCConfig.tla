------------------------------ MODULE MCConfig ------------------------------
(* Constants of the runs of the configuration. *)
EXTENDS Config, TLC, SequencesExt, Functions

CONSTANT a1

AnyText == STRING

Labels == <<"key-1", "key-2">>
Upper == [n \in {"", "default", "weather", "primary", "key-1", "key-2"} |->
             CASE n = "default" -> "DEFAULT" [] n = "weather" -> "WEATHER"
               [] n = "primary" -> "PRIMARY" [] n = "key-1" -> "KEY_1"
               [] n = "key-2" -> "KEY_2" [] OTHER -> ""]
Uppercase(name) == Upper[name]

K(label, key) == [label |-> label, key |-> key]
Plain == [host |-> "", switch_threshold |-> -1, rate_limit_cooldown_seconds |-> 0,
          error_cooldown_seconds |-> 0, max_error_count |-> 0, max_retries |-> 0,
          log_file |-> "", log_read_limit |-> 0, level |-> ""]
Sports(pool) == [type |-> "api_sports", base |-> "sports.example", timeout |-> 0,
                 pool |-> pool, header |-> ""]
Weather(header) == [type |-> "generic_http", base |-> "weather.example", timeout |-> 5,
                    pool |-> "weather", header |-> header]

\* A file of the old format, one of the new, and one that is refused.
Old == [port |-> 8080, platforms |-> <<>>, pools |-> <<>>, settings |-> Plain, admin_key |-> "admin",
        workspaces |-> "sports" :> [base |-> "sports.example", timeout |-> 0],
        keys |-> <<K("", "s1")>>]
New == [port |-> 8080, admin_key |-> "admin", workspaces |-> <<>>, keys |-> <<>>,
        platforms |-> "sports" :> Sports("") @@ "weather" :> Weather("Authorization"),
        pools |-> "default" :> <<K("", "s1")>> @@ "weather" :> <<K("primary", "s2"), K("", "s3")>>,
        settings |-> [Plain EXCEPT !.host = "127.0.0.1", !.max_retries = 1]]
Refused == [New EXCEPT !.platforms = "weather" :> Weather("")]
Files == {Old, New, Refused}

Nothing == [port |-> Unset, admin_key |-> "", log_file |-> "", vars |-> <<>>]
Secrets == [Nothing EXCEPT !.admin_key = "env-admin", !.port = 9090, !.log_file = "own.jsonl",
            !.vars = "GW_KEY_KEY_1" :> "e1" @@ "GW_KEY_WEATHER_PRIMARY" :> "e2"]
BadPort == [Nothing EXCEPT !.port = NotANumber]
Worlds == {Nothing, Secrets, BadPort}

\* The machine has two addresses, no other process on two ports, and a disk on
\* which there is no way to /proc/log.jsonl.
Free == {"0.0.0.0", "127.0.0.1"} \X {8080, 9090}
Writable == {"logs/gateway.jsonl", "own.jsonl"}

Without(f, x) == Restrict(f, DOMAIN f \ {x})

\* A body as it was shown, or with one edit: of the console's forms, or of where
\* the gateway listens and writes its log.
OneEdit(c) ==
    {c, [c EXCEPT !.port = 0], [c EXCEPT !.admin_key = ""], [c EXCEPT !.admin_key = "rotated"],
     [c EXCEPT !.pools = ("a/b" :> <<K("", "s9")>>) @@ @]}
    \cup {[c EXCEPT !.port = 80], [c EXCEPT !.settings.log_file = "/proc/log.jsonl"]}
    \cup {[c EXCEPT !.pools = Without(@, p)] : p \in DOMAIN c.pools}
    \cup {[c EXCEPT !.platforms = Without(@, p)] : p \in DOMAIN c.platforms}
    \cup {[c EXCEPT !.pools[p] = Tail(@)] : p \in DOMAIN c.pools}
    \cup {[c EXCEPT !.pools[p] = Append(@, K("", "s4"))] : p \in DOMAIN c.pools}
    \cup {[c EXCEPT !.pools[p][1].key = k] : k \in {"", "s5"}, p \in {q \in DOMAIN c.pools : c.pools[q] # <<>>}}
    \cup {[c EXCEPT !.platforms[p].pool = q] : p \in DOMAIN c.platforms, q \in {"", "weather"}}
    \cup {[c EXCEPT !.platforms[p].type = "generic_http"] : p \in DOMAIN c.platforms}
=============================================================================
