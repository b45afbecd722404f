----------------------------- MODULE MCExchange -----------------------------
(* Constants of the runs of the exchange. *)
EXTENDS Exchange, TLC

Names == [n \in {"x-apisports-key", "x-api-key", "authorization", "X-Admin-Key", "Authorization",
                 "X-Apisports-Key", "X-Api-Key"} |->
             CASE n = "x-apisports-key" -> "X-Apisports-Key" [] n = "x-api-key" -> "X-Api-Key"
               [] n = "authorization" -> "Authorization" [] OTHER -> n]
CanonicalName(n) == Names[n]
AnyWord == STRING

Sports == [type |-> "api_sports", base |-> "sports.example", header |-> "", prefix |-> <<>>,
           keys |-> {<<"s1">>, <<"s2">>}]
Generic(header, prefix) ==
    [type |-> "generic_http", base |-> "weather.example", header |-> header, prefix |-> prefix,
     keys |-> {<<"w1">>, <<"w2">>}]

Guarded(platforms) ==
    [platforms |-> platforms, auth_enabled |-> TRUE, tokens |-> {<<"", "t1">>, <<"">>},
     admin_key |-> <<"admin">>, max_retries |-> 2]

First == Guarded("sports" :> Sports @@ "weather" :> Generic("authorization", <<"Bearer">>))
Second == [Guarded("sports" :> Generic("x-api-key", <<>>) @@ "weather" :> Generic("authorization", <<>>))
              EXCEPT !.tokens = {}, !.admin_key = <<"rotated", "key">>, !.max_retries = 0]
Third == [Guarded("sports" :> Generic("x-api-key", <<>>)) EXCEPT !.auth_enabled = FALSE, !.admin_key = <<"", "admin">>]
TokenScheme == Guarded("sports" :> Generic("authorization", <<"Token">>))
Standard == {First, Second, Third}
WithTokenScheme == Standard \cup {TokenScheme}

H(name, value) == name :> <<value>>
Shown ==
    {<<>>} \cup {H(n, v) : n \in {"Authorization", "X-Apisports-Key", "X-Api-Key"},
                           v \in {<<"t1">>, <<"bearer", "", "t1">>, <<"Token", "t1">>, <<"t2">>}}
    \cup {H("X-Api-Key", <<"t1">>) @@ H("X-Apisports-Key", <<"t1">>) @@ H("Authorization", <<"Bearer", "t1">>)
          @@ H("Connection", <<"close">>) @@ "Accept" :> <<<<"json">>, <<"xml">>>>}

Request(method, segment, rest, headers, body) ==
    [method |-> method, segment |-> segment, rest |-> rest, query |-> <<>>, headers |-> headers, body |-> body]

\* Each escape alone, and beside what makes a difference to it.
Paths ==
    {<<"/", "a", e, "b">> : e \in {"c", "/", "%20", "%2F", "%252F", "%3F", "%23", "%25", "%0A"}}
    \cup {<<"/", d, e>> : d \in {"%20", "%23"}, e \in {"%252F", "%25", "%0A", "%3F"}} \cup {<<"/", "%3F", "%25">>}

Forwarded ==
    {Request("POST", n, <<"/", "path">>, h, <<"body">>) : n \in {"sports", "weather", "other"}, h \in Shown}
    \cup {[Request("GET", "sports", p, H("X-Apisports-Key", <<"t1">>), <<>>) EXCEPT !.query = q] :
             p \in Paths, q \in {<<>>, <<"a", "?", "%">>}}
Documented(configs) ==
    UNION {{Request("GET", n, <<"/">>, AsDocumented(d.platforms[n], <<"t1">>), <<>>) : n \in DOMAIN d.platforms} :
               d \in configs}
Keys == {<<"admin">>, <<"", "admin">>, <<"rotated", "key">>, <<>>}
Administration ==
    {Request(m, "__gateway", Session, <<>>, k) : m \in {"GET", "POST"}, k \in Keys}
    \cup {Request(m, "__gateway", p, H("Authorization", <<"Bearer">> \o Trim(k)), <<>>) :
             m \in {"GET", "PUT", "DELETE"}, p \in Endpoints \ {Session}, k \in Keys}
    \cup {Request("GET", "__gateway", <<"/admin/logs">>, H("X-Admin-Key", <<"admin">>), <<>>),
          Request("GET", "__gateway", <<"/other">>, <<>>, <<>>), Request("GET", "__admin", <<"/">>, <<>>, <<>>)}

AllRequests == Forwarded \cup Documented(WithTokenScheme) \cup Administration
=============================================================================
