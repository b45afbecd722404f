------------------------------ MODULE Exchange ------------------------------
(***************************************************************************)
(* What is in the requests: how the multiplexer of main.go, the            *)
(* administration (internal/admin) and the proxy handler tell them apart,  *)
(* which credential a client must show and where (internal/auth), what of  *)
(* a request an upstream is sent, and with which credential                *)
(* (internal/provider, internal/proxy/transport.go).                       *)
(*                                                                         *)
(* Which key an attempt gets, when attempts end and what they do to the    *)
(* keys is KeyPool and Proxy: here an attempt gets any key of its pool.    *)
(* What the administration does once it lets a request in is Config,       *)
(* Gateway and LogStore.                                                   *)
(*                                                                         *)
(* Text whose words matter is the sequence of its words, split at each     *)
(* blank: " k" is <<"", "k">>, and the empty text is <<>>.  Headers map    *)
(* canonical names to sequences of values.  Paths and queries are the      *)
(* sequences of what stands in them, and an escape is one thing: /a%2Fb is *)
(* <<"/", "a", "%2F", "b">>.  A path of the administration is one thing.   *)
(***************************************************************************)
EXTENDS Integers, Sequences, FiniteSetsExt

CONSTANTS
    Clients,
    Requests,      \* those that clients may send
    Configs,       \* those that may run
    Statuses,      \* those that upstreams answer
    Canonical(_),  \* http.CanonicalHeaderKey of a trimmed name
    Words,         \* what text consists of
    Bearers,       \* the spellings of "Bearer"
    None

Answers == [by : {"admin", "gateway", "upstream"}, status : 200..599]

Blank == ""
Text == Seq(Words)

ASSUME ExchangeAssumption ==
    /\ None \notin Requests \cup Configs \cup Answers
    /\ \A c \in Configs : c.max_retries \in Int
    /\ Statuses \subseteq 200..599

\* A header that is there has a value.
ASSUME TextAssumption ==
    /\ Bearers \subseteq Words \ {Blank}
    /\ \A c \in Configs : c.tokens \subseteq Text /\ c.admin_key \in Text
    /\ \A q \in Requests : \A n \in DOMAIN q.headers : q.headers[n] \in Seq(Text) \ {<<>>}

\* On the way to the gateway all that has to be escaped is.
ASSUME PathAssumption ==
    \A q \in Requests :
        /\ q.rest \in Text /\ \A i \in DOMAIN q.rest : q.rest[i] \notin {"?", "#", "%", " ", "LF"}
        /\ q.query \in Text /\ \A i \in DOMAIN q.query : q.query[i] # "#"

VARIABLES
    config,   \* Manager.proxy and Manager.cfg
    request,  \* of each client: the request that is being handled, or None
    under,    \* the configuration whose handler it runs on
    calls,    \* what upstreams were sent for it
    answer,   \* who answered it and with which status, or None
    session   \* the key that a client logged in with last, or None

vars == <<config, request, under, calls, answer, session>>
-----------------------------------------------------------------------------
(* Text and headers. *)

Trim(v) ==
    LET full == {i \in DOMAIN v : v[i] # Blank} IN
    IF full = {} THEN <<>> ELSE SubSeq(v, Min(full), Max(full))

\* Header.Get: the first value.
Get(headers, name) ==
    IF Canonical(name) \in DOMAIN headers THEN Head(headers[Canonical(name)]) ELSE <<>>

\* extractBearer: blank unless the scheme is Bearer.
Bearer(value) ==
    IF Len(value) >= 2 /\ Head(value) \in Bearers THEN Trim(Tail(value)) ELSE <<>>
-----------------------------------------------------------------------------
(* provider.New and the headers of its platform. *)

CredentialHeader(p) == Canonical(IF p.type = "api_sports" THEN "x-apisports-key" ELSE p.header)

\* The canonical name of a canonical name is that name.
ASSUME CanonicalAssumption ==
    /\ \A name \in {"Authorization", "X-Admin-Key"} : Canonical(name) = name
    /\ \A c \in Configs : \A n \in DOMAIN c.platforms :
          Canonical(CredentialHeader(c.platforms[n])) = CredentialHeader(c.platforms[n])

Prefix(p) == IF p.type = "api_sports" THEN <<>> ELSE p.prefix
WithPrefix(p, key) == Trim(Prefix(p)) \o key
-----------------------------------------------------------------------------
(* internal/auth *)

\* The token is looked for where the upstream of the platform takes its credential.
\* Mutant: the scheme of Authorization stays a part of it.
ClientTokenUnstripped(p, headers) == Trim(Get(headers, CredentialHeader(p)))

ClientToken(p, headers) ==
    LET value == Trim(Get(headers, CredentialHeader(p))) IN
    IF CredentialHeader(p) = "Authorization" /\ Bearer(value) # <<>> THEN Bearer(value) ELSE value

Whitelist(c) == {Trim(t) : t \in c.tokens} \ {<<>>}

\* Mutant: nobody is refused where no token is configured.
AuthorizedWithoutTokens(c, p, headers) ==
    c.auth_enabled /\ Whitelist(c) # {} => ClientToken(p, headers) \in Whitelist(c)

Authorized(c, p, headers) == c.auth_enabled => ClientToken(p, headers) \in Whitelist(c)
-----------------------------------------------------------------------------
(* internal/admin *)

\* Mutant: the scheme stays a part of the token.
AdminTokenUnstripped(headers) ==
    LET own == Trim(Get(headers, "X-Admin-Key")) IN
    IF own # <<>> THEN own ELSE Trim(Get(headers, "Authorization"))

AdminToken(headers) ==
    LET own == Trim(Get(headers, "X-Admin-Key")) IN
    IF own # <<>> THEN own ELSE Bearer(Trim(Get(headers, "Authorization")))

\* The key is compared as it is configured.
ValidAdminKey(c, got) == c.admin_key # <<>> /\ got = c.admin_key

Session == <<"/admin/session">>
Protected == {<<"/admin/overview">>, <<"/admin/config">>, <<"/admin/logs">>}
Endpoints == Protected \cup {Session, <<"/status">>, <<"/health">>, <<"/docs">>}

Allowed(path, method) ==
    /\ path \in {<<"/docs">>, <<"/admin/overview">>} => method = "GET"
    /\ path = Session => method = "POST"
    /\ path = <<"/admin/config">> => method \in {"GET", "PUT"}
    /\ path = <<"/admin/logs">> => method \in {"GET", "DELETE"}

\* 200 stands for whatever the endpoint answers to those it lets in.
AdminStatus(c, q) ==
    CASE q.segment # "__gateway" -> 200  \* a page of the console
      [] q.segment = "__gateway" /\ q.rest \notin Endpoints -> 404
      [] q.segment = "__gateway" /\ q.rest \in Protected /\ ~ValidAdminKey(c, AdminToken(q.headers)) -> 401
      [] q.segment = "__gateway" /\ q.rest = Session /\ q.method = "POST" /\ ~ValidAdminKey(c, q.body) -> 401
      [] OTHER -> IF Allowed(q.rest, q.method) THEN 200 ELSE 405
-----------------------------------------------------------------------------
(* internal/proxy *)

\* NewHandler: at least one attempt.
MaxRetries(c) == IF c.max_retries < 1 THEN 1 ELSE c.max_retries

Blocked ==
    {"Authorization", "Connection", "Proxy-Connection", "Keep-Alive", "Transfer-Encoding",
     "Upgrade", "Host", "X-Apisports-Key"}

\* Mutant: the credential is added to what the client sent under its name.
UpstreamHeadersAdded(p, headers, key) ==
    LET own == CredentialHeader(p) IN
    [n \in (DOMAIN headers \ Blocked) \cup {own} |->
        IF n # own THEN headers[n]
        ELSE (IF n \in DOMAIN headers \ Blocked THEN headers[n] ELSE <<>>) \o <<WithPrefix(p, key)>>]

\* copySafeRequestHeaders and InjectCredential.
UpstreamHeaders(p, headers, key) ==
    LET own == CredentialHeader(p) IN
    [n \in (DOMAIN headers \ Blocked) \cup {own} |->
        IF n = own THEN <<WithPrefix(p, key)>> ELSE headers[n]]

\* net/http decodes a path before any handler sees it.  %252F stands for whatever is
\* an escape once more, %25 for a percent sign that is none, LF for what no URL may
\* hold, and a blank for all that is escaped again when it is sent.
Unescaped(u) ==
    CASE u = "%2F" -> "/" [] u = "%3F" -> "?" [] u = "%23" -> "#"
      [] u = "%252F" -> "%2F" [] u = "%25" -> "%" [] u = "%0A" -> "LF" [] u = "%20" -> " " [] OTHER -> u

Decoded(path) == [i \in DOMAIN path |-> Unescaped(path[i])]

\* strings.Cut
Places(t, u) == {i \in DOMAIN t : t[i] = u}
Before(t, u) == IF Places(t, u) = {} THEN t ELSE SubSeq(t, 1, Min(Places(t, u)) - 1)
After(t, u) == IF Places(t, u) = {} THEN <<>> ELSE SubSeq(t, Min(Places(t, u)) + 1, Len(t))

\* rawURL, without the address: the decoded path, and the query as it came.
RawURL(q) == Decoded(q.rest) \o (IF q.query = <<>> THEN <<>> ELSE <<"?">> \o q.query)

\* URL.EscapedPath: escapes stay as they are where nothing has to be escaped; where
\* something has, those of what needs none are gone.
Escaped(path) ==
    [i \in DOMAIN path |->
        CASE path[i] = " " -> "%20"
          [] path[i] = "%2F" /\ Places(path, " ") # {} -> "/"
          [] OTHER -> path[i]]

\* url.Parse reads it once more, and no fragment is sent.
Target(q) ==
    LET whole == Before(RawURL(q), "#")
    IN  [path |-> Escaped(Before(whole, "?")), query |-> After(whole, "?")]

\* NewRequestWithContext accepts it.
Sendable(q) ==
    LET whole == Before(RawURL(q), "#") IN
    /\ Places(whole, "LF") = {}
    /\ Places(Before(whole, "?"), "%") = {} /\ Places(After(RawURL(q), "#"), "%") = {}

\* What transport.do sends.
Call(p, q, key) ==
    [to |-> p.base, method |-> q.method, path |-> Target(q).path, query |-> Target(q).query,
     body |-> q.body, headers |-> UpstreamHeaders(p, q.headers, key)]

\* A status that is no reason to try another key.
Relayed(status) == status < 500 /\ status \notin {401, 403, 429}
-----------------------------------------------------------------------------
Reserved == {"__admin", "__docs", "__gateway"}  \* the patterns of the multiplexer

By(who, status) == [by |-> who, status |-> status]

\* The answer to a request that is not forwarded, or None.  (Validation leaves no
\* platform without a pool: Config.)
Gate(c, q) ==
    IF q.segment \in Reserved THEN By("admin", AdminStatus(c, q))
    ELSE IF q.segment \notin DOMAIN c.platforms THEN By("gateway", 404)
    ELSE IF ~Authorized(c, c.platforms[q.segment], q.headers) THEN By("gateway", 401)
    ELSE None

Init ==
    /\ config \in Configs
    /\ request = [c \in Clients |-> None]
    /\ under = [c \in Clients |-> config]
    /\ calls = [c \in Clients |-> <<>>]
    /\ answer = [c \in Clients |-> None]
    /\ session = [c \in Clients |-> None]

\* ReplaceConfig.
Reload ==
    /\ config' \in Configs \ {config}
    /\ UNCHANGED <<request, under, calls, answer, session>>

\* A request arrives, and the handlers that run now decide what it is.
Arrive(c, q) ==
    /\ request[c] = None
    /\ request' = [request EXCEPT ![c] = q]
    /\ under' = [under EXCEPT ![c] = config]
    /\ calls' = [calls EXCEPT ![c] = <<>>]
    /\ answer' = [answer EXCEPT ![c] = Gate(config, q)]
    /\ session' = IF Gate(config, q) = By("admin", 200) /\ q.segment = "__gateway" /\ q.rest = Session
                  THEN [session EXCEPT ![c] = q.body] ELSE session
    /\ UNCHANGED config

Forwarding(c) == request[c] # None /\ answer[c] = None
PlatformOf(c) == under[c].platforms[request[c].segment]

\* Mutant: the body is read once and not kept.
ForwardUnbuffered(c, key) ==
    /\ Forwarding(c)
    /\ Len(calls[c]) < MaxRetries(under[c])
    /\ key \in PlatformOf(c).keys
    /\ LET body == IF calls[c] = <<>> THEN request[c].body ELSE <<>> IN
       calls' = [calls EXCEPT ![c] = Append(@, Call(PlatformOf(c), [request[c] EXCEPT !.body = body], key))]
    /\ \/ answer' = answer
       \/ \E s \in Statuses : Relayed(s) /\ answer' = [answer EXCEPT ![c] = By("upstream", s)]
    /\ UNCHANGED <<config, request, under, session>>

\* Mutant: one attempt more than there may be.
ForwardOnceMore(c, key) ==
    /\ Forwarding(c)
    /\ Len(calls[c]) <= MaxRetries(under[c])
    /\ key \in PlatformOf(c).keys
    /\ calls' = [calls EXCEPT ![c] = Append(@, Call(PlatformOf(c), request[c], key))]
    /\ \/ answer' = answer
       \/ \E s \in Statuses : Relayed(s) /\ answer' = [answer EXCEPT ![c] = By("upstream", s)]
    /\ UNCHANGED <<config, request, under, session>>

\* One attempt, and what the upstream makes of it: an answer, or a reason to go on.
\* What cannot be sent is counted like an upstream that fails, and is no call.
Forward(c, key) ==
    /\ Forwarding(c)
    /\ Sendable(request[c])
    /\ Len(calls[c]) < MaxRetries(under[c])
    /\ key \in PlatformOf(c).keys
    /\ calls' = [calls EXCEPT ![c] = Append(@, Call(PlatformOf(c), request[c], key))]
    /\ \/ answer' = answer
       \/ \E s \in Statuses : Relayed(s) /\ answer' = [answer EXCEPT ![c] = By("upstream", s)]
    /\ UNCHANGED <<config, request, under, session>>

\* The body cannot be read, or no attempt is left or no key.
GiveUp(c) ==
    /\ Forwarding(c)
    /\ \/ calls[c] = <<>> /\ answer' = [answer EXCEPT ![c] = By("gateway", 400)]
       \/ answer' = [answer EXCEPT ![c] = By("gateway", 503)]
    /\ UNCHANGED <<config, request, under, calls, session>>

\* The client has its answer, or has gone.
Leave(c) ==
    /\ request[c] # None
    /\ request' = [request EXCEPT ![c] = None]
    /\ answer' = [answer EXCEPT ![c] = None]
    /\ calls' = [calls EXCEPT ![c] = <<>>]
    /\ UNCHANGED <<config, under, session>>

Next ==
    \/ Reload
    \/ \E c \in Clients :
          \/ \E q \in Requests : Arrive(c, q)
          \/ \E key \in UNION {p.keys : p \in UNION {{d.platforms[n] : n \in DOMAIN d.platforms} : d \in Configs}} :
                Forward(c, key)
          \/ GiveUp(c) \/ Leave(c)

Spec == Init /\ [][Next]_vars
-----------------------------------------------------------------------------
(* Manager.APIDocs: how clients are told to authenticate. *)

DocValue(p, token) == IF p.type = "generic_http" THEN p.prefix \o token ELSE token

\* The headers of a request that follows the documentation of a platform.
AsDocumented(p, token) == [n \in {CredentialHeader(p)} |-> <<DocValue(p, token)>>]
-----------------------------------------------------------------------------
(* Properties. *)

ExchangeTypeOK ==
    /\ config \in Configs
    /\ request \in [Clients -> Requests \cup {None}]
    /\ under \in [Clients -> Configs]
    /\ answer \in [Clients -> Answers \cup {None}]
    /\ \A c \in Clients :
          /\ Len(calls[c]) <= MaxRetries(under[c])
          /\ answer[c] # None => request[c] # None
          /\ calls[c] # <<>> => request[c] # None /\ request[c].segment \in DOMAIN under[c].platforms

\* README, credential isolation: where its platform takes its credential an upstream
\* sees one, of its own pool, and neither Authorization nor X-Apisports-Key besides.
\* A reload does not change the pool of a request that is under way.  (Headers in which
\* other platforms take theirs, or X-Admin-Key, are headers like any other.)
CredentialsStayApart ==
    \A c \in Clients : \A i \in DOMAIN calls[c] :
        LET own == CredentialHeader(PlatformOf(c)) IN
        /\ \E key \in PlatformOf(c).keys : calls[c][i].headers[own] = <<WithPrefix(PlatformOf(c), key)>>
        /\ DOMAIN calls[c][i].headers \cap {"Authorization", "X-Apisports-Key"} \subseteq {own}

\* No escape of a path stands for what has a meaning in a URL, or is not allowed there.
Plain(path) ==
    \A i \in DOMAIN path : path[i] \notin {"%2F", "%3F", "%23", "%25", "%252F", "%0A"}

\* Every attempt, the last like the first, is the whole request of the client, and
\* goes to the platform that was asked for; path and query are those that came, if
\* the path is plain.
EveryAttemptIsTheRequest ==
    \A c \in Clients : \A i \in DOMAIN calls[c] :
        LET call == calls[c][i]
            own == CredentialHeader(PlatformOf(c))
        IN  /\ call.to = PlatformOf(c).base /\ call.method = request[c].method
            /\ call.body = request[c].body
            /\ Plain(request[c].rest) => call.path = request[c].rest /\ call.query = request[c].query
            /\ \A n \in DOMAIN request[c].headers \ (Blocked \cup {own}) :
                  call.headers[n] = request[c].headers[n]

\* Where tokens are checked, no upstream is sent a request of a client that shows
\* none of those in force when the request came.
OnlyTheAdmittedAreForwarded ==
    \A c \in Clients :
        calls[c] # <<>> /\ under[c].auth_enabled =>
            LET shown == Trim(Get(request[c].headers, CredentialHeader(PlatformOf(c)))) IN
            \E token \in Whitelist(under[c]) :
                /\ Len(token) <= Len(shown)
                /\ SubSeq(shown, Len(shown) - Len(token) + 1, Len(shown)) = token

\* A client that follows the documentation of platform p.
FollowsDocs(c, name, token) ==
    /\ request[c] # None
    /\ request[c].segment = name /\ name \in DOMAIN under[c].platforms
    /\ token \in Whitelist(under[c])
    /\ request[c].headers = AsDocumented(under[c].platforms[name], token)

TurnedAway(c) == answer[c] # None /\ answer[c].by # "upstream" /\ answer[c].status \in {401, 404}

\* A client that authenticates as the documentation says is let in, where the
\* documented prefix is none, or Bearer in Authorization, and its token is one word.
DocumentedIsAdmitted ==
    \A c \in Clients : \A token \in UNION {Whitelist(d) : d \in Configs} :
        \A name \in DOMAIN under[c].platforms \ Reserved :
            LET p == under[c].platforms[name] IN
            /\ FollowsDocs(c, name, token) /\ Len(token) = 1
            /\ Prefix(p) = <<>> \/ (CredentialHeader(p) = "Authorization" /\ \E b \in Bearers : Prefix(p) = <<b>>)
            => ~TurnedAway(c)

\* README, client_auth.tokens, and config.example.yaml, line 60: clients keep to the
\* way of authentication of the site.
DocumentedWayWorks ==
    \A c \in Clients : \A token \in UNION {Whitelist(d) : d \in Configs} :
        \A name \in DOMAIN under[c].platforms \ Reserved :
            FollowsDocs(c, name, token) => ~TurnedAway(c)

\* Who could log in is let in with what the login returned, until the key is
\* changed.  (Not so for a key with blanks around it: a header loses them.)
LoginMeansAccess ==
    \A c \in Clients :
        /\ request[c] # None /\ session[c] # None
        /\ session[c] = under[c].admin_key /\ Trim(session[c]) = session[c]
        /\ \E b \in Bearers : request[c].headers = [n \in {"Authorization"} |-> <<<<b>> \o session[c]>>]
        /\ request[c].segment = "__gateway" /\ request[c].rest \in Protected
        => answer[c].status # 401
=============================================================================
