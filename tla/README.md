# Verification of the all2api gateway

all2api forwards `/<namespace>/<path>` to an upstream API, puts one of the
operator's credentials into the request, and moves to another credential when
one is exhausted, rate limited or broken. This directory holds TLA+ models of
that program, the TLC configurations that check them, and proofs that TLAPS
checks. Paths are relative to the repository (`src/`).

## 1. Inventory

| component | state | operations | hard parts |
|---|---|---|---|
| **Key pool** `internal/keypool/keypool.go` | per key: status, cooldown deadline, time of the last quota snapshot, error count; one `RWMutex` per pool | `Acquire`, `MarkRateLimited`, `MarkError`, `MarkKeyInvalid`, `UpdateFromUpstream`, `MarkExhausted`, `Snapshot`, `EarliestRecoverySeconds` | each method is atomic, a *use* of the pool is not: between `Acquire` and the report other requests and time pass; deadlines, UTC days, counters at their limit |
| **Request pipeline** `internal/proxy/handler.go` | locals of one goroutine per request: attempts, handle, result | `ServeHTTP`: gates, retry loop, relay, 503 | races on the pool, retries, clients that hang up, what the client sees |
| **Transport** `internal/proxy/transport.go` | connection pool of `http.Client` | `do`: build, send, read whole body, classify | one call with four kinds of failure; the client timeout |
| **Provider** `internal/provider/provider.go` | none | classify a status, inject the credential, read quota headers | the header of the credential may be one the client sets |
| **Quota headers** `internal/keypool/ratelimit.go` | none | `ParseRateLimit` | pure |
| **Gateway manager** `internal/gateway/manager.go` | current config, handler, pools (one `RWMutex`); the config file | `ServeHTTP`, `ReplaceConfig`, `Config`, `Pools`, `Overview`, `APIDocs` | hot reload under traffic, file and memory, two administrators, crash while writing |
| **Configuration** `internal/config/config.go` | the file | `Load`, `Save`, `Validate`, `Clone`, environment overrides | legacy conversion and its mirror, defaults, overrides, and all of them again at every load, PUT and save |
| **Log store** `internal/logstore/logstore.go` | a JSONL file, one `Mutex` | `Record`, `Append`, `Read`, `Clear` | torn lines, long lines, the window of `Read` |
| **Client auth** `internal/auth/auth.go` | a token set | `Authorize` | which header, which scheme, what is trimmed on which side |
| **Admin API** `internal/admin/admin.go` | none of its own | session, overview, config, logs, docs | reads several parts of the state one after another; two ways to show one key |
| **Admin console** `internal/admin/static/app.js` | config being edited, dirty flag, logs, filters | edit, save, refresh, filter | answers out of order, edits during a save, two consoles |
| **Process** `cmd/gateway/main.go` | | start, signal, `Shutdown` with 10 s | the deadline against long retries |

How they interact: `main` builds the manager, which builds one `proxy.Handler`
and one `keypool.Pool` per credential pool from the configuration. A request
enters `Manager.ServeHTTP`, which reads the current handler under a lock and
calls it; the handler and the transport work on the pool by `Acquire` and one
report per call. The admin API reads pools and configuration, and replaces all
of them together. Handler and admin API write events to the log store.

What makes each correct: the **pool** never hands out a key its state table
holds back, never holds one back for ever, and uses keys in order; the
**pipeline** gives up only when it must, never shows the client a failure it
should have hidden, charges a key only for what its upstream did, and closes
every request; the **manager** keeps file and memory together and serves every
request with one generation of handler and pools; the **configuration** that
was accepted once is accepted again and stays what it is, through the file and
through the console; **authentication and transport** keep the client's
credential and the operator's apart and send the request as it came (a path only
as far as its escapes survive being decoded and parsed again); the **log store**
returns what was recorded, newest first.

## 2. Modules

```
KeyPool ──────────── the pool, its callers as handles, the clock
  ├─ KeyPoolProofs    theorems for every value of the constants
  ├─ MCKeyPool        constants of its runs
  └─ Proxy ────────── Handler.ServeHTTP, one program counter per connection
       │  INSTANCE Delivery       the contract with the client (abstract)
       ├─ ProxyTrail              Proxy with a history of the attempts
       ├─ ProxyProofs             theorems, EXTENDS KeyPoolProofs
       ├─ ProxyTrailProofs        theorem about the history, EXTENDS ProxyTrail and ProxyProofs
       └─ MCProxy, MCProxyTrail   constants of their runs
Gateway ──────────── the runtime that is replaced under traffic, its file, crash, stop and start
  ├─ GatewayProofs    theorems for every value of the constants
  └─ MCGateway        constants of its runs
Config ───────────── what a configuration goes through: environment, validation, file, console
  ├─ ConfigProofs     theorems for every value of the constants
  └─ MCConfig         constants of its runs
Exchange ─────────── what is in the requests: routing, credentials, what is forwarded
  ├─ ExchangeProofs   theorems for every value of the constants
  └─ MCExchange       constants of its runs
LogStore ─────────── the event log
  ├─ LogStoreProofs   theorems for every value of the constants
  └─ MCLogStore       constants of its run
```

**KeyPool.** `keys[k]` is the `keyState` at position `k` without the fields no
decision reads (secret, displayed limits, `lastError`). Every exported method
holds the lock for its whole body and is one action. A caller is a goroutine;
`handle[c]` is the key it acquired. Reports go through `Find`, as the code
finds a key by its label: with two equal labels the report of the second key
changes the first, and `Label` is a constant so that this can happen.
`Refresh` is `refreshLocked`; `Acquire` refreshes the keys up to the one it
returns, `AcquireFails` all of them. The clock is a number of ticks, a UTC day
`DayLength` ticks, and `TicksPerSecond` gives the truncation in
`EarliestRecoverySeconds` something to cut off. `PoolSpec` is the pool as the
gateway uses it, `APISpec` adds `MarkExhausted`, which is exported but called
only by tests.

**Proxy.** A caller of the pool is a connection that serves one request after
another. `pc` is where its handler is: `loop` (head of the retry loop),
`calling` (inside `transport.do`), `settle` (the `switch` on the outcome),
`tail` (after the loop). One action for each step that others can notice: the
pool calls, the start and end of the upstream call, the answer. The upstream is
external: any status in `UpstreamStatuses`, or a failure with its cause. The
cause is kept although the code turns all of them into `outcomeServerError`,
because what the code should do depends on it. `Disconnect` cancels the
request's context at any time; the code looks at it in one place
(`OnDisconnected`). Paths, headers and bodies are Exchange; the gates before the
loop are one choice (`Reject`).

**Delivery** is what a client may rely on, without keys or clocks: at most
`MaxCalls` calls, a final response is relayed and never retried, a response
worth a retry is never relayed, every open request is closed. `Proxy` implements
it under the mapping `Phase`, `attempts`, `Verdict`.

**ProxyTrail** adds two history variables: `trail`, the keys a request was tried
with, when, and with what result, for the properties about one request's
attempts; and `spent`, the last day on which a response said that little was left
of a key's quota, for the one about a key from request to request.

**Gateway** is `gateway.Manager` with the file behind it. A save is a PUT of
the admin API followed through `ReplaceConfig`: `Put` (decode, validate, build,
nothing shared), `Truncate` and `Write` (the two system calls of
`os.WriteFile`, outside the lock), `Swap` (under the lock), `Acknowledge` (the
answer); `OpenFails` and `WriteFails` are its error paths. `Enter` and `Leave`
are `ServeHTTP`, which reads the handler under the lock and runs on it without.
`ReadConfig`, `ReadPools` and `Show` are `Overview`. `Start` is `main` with
`Load` and `New`, `Crash` the end of the process at any time. `Signal` is the
SIGTERM that main waits for: `Shutdown` closes the listener, and the process
ends when every request, save and view has had its answer (`Drained`) or after
ten seconds, over whatever is in flight (`DeadlinePasses`). What was accepted
before the signal may still enter its handler. A configuration
is a value and the length of its YAML, since a shorter file written over a
longer one keeps the longer one's end; a damaged file parses, if at all, as
`Foreign`. A handler and its pools are the number of the swap that installed
them (`generation`). What the environment overrides is the constant `Override`:
it applies when a file is loaded and not when one is saved; that applying it
twice is applying it once, which `GatewayAssumption` asks for, is so in Config:
a variable that is set gives the same value again. `acked`, `owed` and
`calm` are history: what was acknowledged, what ran and was being saved when
the process died, and whether the save that began last was alone and whole.

**Config** has the contents that Gateway leaves out. `Override` is
`applyEnvOverrides`, with the order of the variables and the fallback to those
of the old format; `Accepted` is what makes `Validate` return an error or none,
`Validated` what it turns the configuration into (labels, defaults, the old
format converted where the new one is absent, the mirror of the default pool in
the old key list); `Buildable` and `Runtime` are `buildProxy`; `Loads` is `Load`
followed by `New`. A state is the file, the configuration that runs, the
environment of the process, where it listens and logs (`place`), and what each
administrator was shown. A start needs more than a file that loads (`Starts`): the
log file can be made (`LogFiles`) and the address can be had (`Addresses`), which
the machine decides. Address and log store stay those of the start, whatever is
saved later. `Start`,
`Stop` and `HandEdit` are the operator's, `Get` and `Put` the administrator's:
a `Put` sends the draft back with an edit, in one step, since what a save does
on the way is Gateway. A draft may be older than a restart and is still sent, if
the administrator's key is the one that runs. The maps of Go are iterated in any
order; the checks and conversions of different names do not read each other, so
the model has no order either. Left out: fields that validation does not look at.

**Exchange** has the contents that Proxy leaves out. `Gate` is the multiplexer
of `main`, the switch of `admin.Handler` and the gates of `proxy.ServeHTTP`,
in their order; `Authorized` with `ClientToken`, `Bearer`, `Whitelist` is
package `auth`, `AdminToken` and `ValidAdminKey` are the administration's.
`Forward` is one attempt: `Call` is what `transport.do` sends, with
`UpstreamHeaders` for the filter of headers and the injected credential. A text
whose words matter is the sequence of its words, so that trimming, splitting at
a blank and putting a prefix before a key are what they do and not a name for
it. Paths and queries are sequences, too, and an escape is one element. `Target`
is what becomes of them: `net/http` decodes the path (`Decoded`), the handler and
`transport.do` put the query behind it (`RawURL`), `NewRequestWithContext` parses
the whole again, and what is sent is escaped where it must be (`Escaped`). The
functions of `net/url` are external; `PathAssumption` says that a path comes to
the gateway with everything escaped that has to be. What does not parse
(`Sendable`) is no call. `under` is the configuration whose handler a request runs on (`Reload` may
have replaced it since). Which key an attempt gets is any key of the pool, and
when attempts end is left to `GiveUp` and the statuses: both are Proxy.
`AsDocumented` is how `APIDocs` tells clients to authenticate.

**LogStore** is `logstore.Store` with the two methods of the log endpoint.
`Record` is the one of that name, which swallows errors: a write that fails
leaves any number of bytes, and the next event continues that line (`Joined`),
so that neither parses; without only its newline an event is still read until
the next one comes. `StartRead`, `ScanLine` and `Answer` are `Read` line by
line under the lock, with the window that is cut when it exceeds three times the
limit; `Clear` and `RecordClear` are the DELETE. Lengths count: the scanner gives
up on a line of `MaxToken` bytes. `written` is history.

## 3. Runs

The instances of pool and pipeline have two keys (`MCProxy_contract`: one) and
one or two callers. Two callers suffice for every race of the code: each shared
step concerns one key and one report, so a third caller can only repeat what a
second one does to the first. A cooldown of one tick that the clock runs past
(the longer one of `MCKeyPool_interface`, four ticks, tells the two apart), and
days of two or three ticks put a deadline, a midnight, and a report that
overtakes them into reach; every action fires.

| run | shows |
|---|---|
| `MCKeyPool_interface` | two racing callers and `MarkExhausted`: no key stranded, none handed out while held back, none refused while usable, used in order, Retry-After off by at most one second |
| `MCProxyTrail_serial` | every class of status and failure, one connection: types, attempts within `MaxRetries`, no failure relayed, error count within its budget, given up only when every key is held back, Retry-After present when no key was left, no reuse of a key during its cooldown within one request, and from request to request no use of a key on a day on which a response said that its quota is used up. The error counts of stragglers need a second connection and are covered by the theorem only |
| `MCProxy_contract` | two connections on one key: the pipeline refines `PoolSpec` and, with liveness, `Delivery`; every request closes; a hang-up charges no key. `max_error_count` is 1 here, so that errors bench at once; 401 stands for the statuses that bench the key, 404 for those that are relayed without success |
| `MCGateway_reload` | two administrators, three configurations of two lengths (one of them changed by the environment), unreliable disk, a request, a viewer, two crashes or signals: no request runs on what an acknowledged save replaced; the overview's two locks are in the right order; a save that ran alone and whole leaves the file as what runs; a crash brings back what ran or what was being saved, or, if it stopped a save half-way, leaves a file that is empty or cut short and does not load; a stop that drained in time changes nothing |
| `MCConfig_roundtrip` | a file of each format and one that is refused, three environments (one with a port that does not parse), one administrator with the edits of the console's forms and others of the port and the log file: what runs can serve; it loads again, and starts again unless a save moved the gateway from where it has been running; it is after a restart what it was but for what the environment names; and it can be sent back unchanged |
| `MCExchange_forward` | three configurations that are reloaded at any time; tokens right and wrong, with and without a scheme, in three headers; clients that follow the documentation; administrators: an upstream sees one credential, of its pool; every attempt is the whole request, with path and query as they came where the path is plain (seven escapes stand for all there are); nobody is forwarded who showed no valid token; who follows the documentation is let in (where its prefix is none, or Bearer); who can log in has access |
| `MCLogStore_read` | a read answers with exactly the newest matching events of that moment, in order, whatever its window threw away and whoever waits for the lock; a failed write costs at most its event and the next; reads fail only on lines that are too long, and do fail on an event that is |

Bounds: `MaxTime` stops the clock (every run still passes each deadline it can
set early on), `ErrorCountBound` keeps `MarkExhausted` from keys whose count has
grown beyond it; error counts themselves are bounded by the clock and by
`MaxErrorCount`. `Remaining` holds one value at most the threshold and, where it
matters, one above. Symmetry of the callers is used only in the run of the pool,
which has no liveness and whose properties speak of all callers alike. `MaxSwaps` (3: the start and two more, the least with which two saves
overlap and a third configuration is left behind) and `MaxEnds` (2: a signal, and
a crash before or after it) bound
the runs of `Gateway`, which stop there; their cfgs say `CHECK_DEADLOCK FALSE`
because the gateway does stop when its file does not load. `MCLogStore_read`
has five events and a limit of one, the least with which the window is cut
before the file ends, and one failed write; lengths 1, 2 and 3 against a buffer
of 3 make an event that fits by a byte, one that does not, and joins of both
sorts. `MCConfig` has one administrator: `Put` is one step, so a second one's
saves lie before or after the first one's and differ from hand edits between
them in nothing the properties see; pools have at most two keys (`MaxKeys`), the
least with which labels are numbered apart. `MCExchange` has one client: requests
share nothing but the configuration, which a reload changes under any of them;
two keys in a pool and two attempts tell a second attempt from the first. Both
say `CHECK_DEADLOCK FALSE`, for a gateway that does not start and for a client
that sends nothing more. `MCGateway_two_saves`
has no crash and a healthy disk, so that nothing but the overlap can be the
cause. In the specifications where it matters, that the clock stops is no
deadlock: requests can always arrive.

Fairness (`Proxy!Fairness`): the Go scheduler runs a goroutine that can run
(`WF Handle`), and an upstream call returns, at the latest by the timeout of
`http.Client`, which configuration makes positive (`WF UpstreamReplies`).
Clients and the clock owe nothing.

### Violations

Each of these runs checks one statement of a document, comment or test, which
the code does not keep; `PROJECT.json` quotes the lines.

| run | the code |
|---|---|
| `MCKeyPool_straggler` | the late success of one request ends the cooldown that another request's 429 started |
| `MCProxyTrail_same_key` | after a server error below `max_error_count` the retry takes the same key again, where the design promises a different one |
| `MCProxy_missing_retry_after` | a 503 after exhausted attempts has no Retry-After if a key is active |
| `MCGateway_two_saves` | two overlapping saves, both acknowledged, leave one configuration in the file and the other running |
| `MCExchange_documented` | a client that puts its platform's prefix before its token, as the documentation shows, is refused unless the prefix is Bearer in Authorization |

Three more departures from the documents are steps of the models and have no run
of their own:

- A key that the environment supplies is in the file after the next save (Config:
  `Override`, `Put`), although the design (2026-06-07, line 168) lets keys come from
  the environment so that they are not on the disk.
- A save of another host, port or log file is answered ok and has no effect before
  the next start, which may then fail (Config: `place`, `Starts`), although README,
  line 199, and `manager.go`, line 79, speak of a hot reload; the overview shows the
  log file that was saved and not the one that is written.
- An escaped slash, question mark, hash or percent sign in a path reaches the
  upstream as a separator, or not at all (Exchange: `Target`, `Sendable`), although
  README, line 3, promises routing by the original path.

## 4. Proofs

For every number of keys, every labelling (equal labels included), any set of
callers, any cooldowns, thresholds and clock resolution. Assumptions:
`PoolAssumption` and `ProxyAssumption`, which only say that the constants are
numbers of the right kind (`config.Validate` makes them positive; the theorems
do not need that).

- **Types** (`InterfaceTypes`, `PoolTypes`, `ProxyTypes`): one case per action;
  the lemmas say what the reports and `Refresh` return, and that `FirstUsable`
  and `Find` choose a position (the least element of a non-empty set of
  naturals).
- **No key is stranded** (`PoolNeverStrands`). `RecoveryBounded` is not
  inductive: that a key is usable after the horizon follows from the deadline
  it carries, which must be known to exist and not to be too far ahead. The
  strengthening is `Clocked`: it is inductive with the type invariant, for the
  whole exported interface, and implies `RecoveryBounded` by arithmetic on days
  (`DayAdvances`).
- **Nothing handed out early, nothing refused wrongly**
  (`PoolHoldsBack`, `PoolIsWorkConserving`, `PoolExhaustsInOrder`): the state table is stated without `Refresh`
  (`Quarantined`); the lemma `QuarantinedIsNotUsable` and, with `Clocked`, its
  converse connect the two.
- **Error budget** (`PoolKeepsErrorBudget`): inductive with the type invariant,
  for the gateway's use only (`MarkExhausted` may break it).
- **Retry-After** (`InterfaceRetryOneSecondLater`): what truncation loses is
  less than a second (`OneSecondMore`).
- **The pipeline keeps the pool's contract** (`ProxyKeepsPoolContract`): every
  action of `Proxy` is an action of `PoolSpec` or leaves the pool alone, so the
  pool's theorems hold in the gateway (`ProxyNeverStrands`).
- **Pipeline** (`ProxyHoldsWhileCalling`, `ProxyKeepsFailuresInside`,
  `ProxyNeverChargesCancellation`, `ProxyGivesUpJustly`): from the invariant
  that a handler holds a key exactly while it is `calling` or `settle`, and a
  reply exactly at `settle`.
- **Refinement** (`ProxyDeliversByContract`): the initial states and every step
  of `Proxy` map to `Delivery!Contract`; needs in addition that attempts are
  counted from zero outside a request (`AttemptsMatch`).
- **Reload** (`AcknowledgedSavesAreLive`, `ViewsAreInOrder`):
  for any number of administrators, requests, viewers, reloads and crashes, from
  `GenerationsInOrder`: configuration, handler and pools are of the newest
  generation, and nothing that was acknowledged, entered or read is newer. Neither
  is inductive alone: that a request enters no older handler than
  the one acknowledged needs that every generation a save remembers was
  installed before.
- **File** (`FileIsWhatRuns`, `CrashesKeepTheConfig`): from `SavesInOrder`,
  which follows the file through a save that is alone: empty once it is
  truncated, exactly its configuration once it is written, and after a crash
  one of these. `GatewayAssumption` says that a YAML is not empty, that the
  environment applied twice is the environment applied once, and that damage
  does not parse as a configuration that somebody saved.
  `DrainedStopsAreHarmless` adds that nothing was being saved when a process
  that drained came to its end (`DrainedIdle`).

- **Configuration** (`RoundTripIsNeutral`, `AlwaysRestarts`,
  `RestartIsNeutral`, `AlwaysServable`): for every file,
  environment, naming and edit. The core is that validation is neutral the
  second time (`ValidatedAgain`: labels and defaults are filled, the old format
  is converted, the keys of the old format are those of the default pool) and that the environment leaves what it is
  applied to acceptable (`OverrideAccepted`). The invariant is `Origin`: what
  runs was validated, in an environment that can start, and is what the file
  would load as or what the file holds. That a restart changes only what is
  named needs both cases: after a start the file is as it was, after a save it
  has labels that the environment is asked for the first time
  (`StartFromSaved`). That a start can fail for the log file or the address only if
  a save moved them rests on `InPlace`: a running process has both, and they are
  those of its environment where the environment sets them.
- **Exchange** (`CredentialsAlwaysApart`, `AttemptsAreTheRequest`,
  `OnlyTheAuthorizedAreForwarded`): for every set of requests and
  configurations, from `ExchangeInv`: what was sent is `Call` of the request on
  its platform with a key of its pool (`Faithful`), and the request passed the
  gate of the configuration it came in with (`Passed`). That a plain path is sent
  as it came is `PlainIsSent`: decoding leaves no question mark and no hash in it,
  so the second parse cuts path and query where they were joined (`CutOnce`), and
  escaping undoes what decoding did.
- **Who is let in** (`OnlyTokenHoldersAreForwarded`, `DocumentedIsAlwaysAdmitted`,
  `LoginAlwaysMeansAccess`): these turn on the words of a header. What `Trim`
  yields neither begins nor ends with a blank, and a text that does neither is
  left as it is (`TrimIsTrimmed`, `TrimmedStays`); what `Bearer` yields is the end
  of the trimmed header, and of a scheme put before a key it is that key
  (`BearerIsTheEnd`, `SchemeFacts`). The invariant is `AnswerInv`: the answer a
  client has is the gate's answer under the configuration its request came in
  with or, behind the gate, an upstream's, a 400 or a 503, and nobody is logged in
  with an empty key. `ExchangeAssumption`, `TextAssumption` and
  `CanonicalAssumption` say that tokens, keys and headers are text and no spelling
  of Bearer is blank, that a header that is there has a value, and that the
  canonical form of a canonical header name is that name.
- **One connection alone** (`LoneUnavailableSaysWhen`,
  `LoneRequestNeverReusesInCooldown`, `LoneRequestsLetSpentKeysRest`). All are false
  for two connections, whose late reports put a key back into rotation (TLC finds
  that at once), so they assume `LoneCaller`. The
  first rests on `TailBenched`: from the failed `Acquire` to the answer no key is
  active, so that the recovery time is computed and is never 0. The second
  compares two attempts of the past; `TrailInv` ties each attempt to the present.
  As long as the cooldown that a refused attempt started is not over, its key is
  cooling down, for no shorter time, and not held (`StillBenched`); hence the key
  that `Acquire` returns is none of these. A report changes only the key of the
  call that is pending at the end of the trail (`LastIsPending`), because labels
  are distinct: with equal ones another key is benched, so this is assumed, too.
  The third has a key's rest in its invariant (`RestInv`): as long as the day lasts
  on which its quota was said to be used up, the key is exhausted since that day
  and nobody holds it, so that no report can touch it.
  Nothing is assumed of the cooldowns, the keys, the attempts or the statuses.
- **Event log** (`LogTypesAlwaysOK`, `AnswerIsAlwaysNewest`,
  `FailureAlwaysCostsAtMostNext`, `LongEventAlwaysBlocksReading`): for any number
  of readers, administrators, kinds, lengths, limits and failed writes.
  `LogInv` has four parts. `LinesInOrder`: lines begin with events in the order
  of their numbers. `FileKeepsWritten`: an event that was written whole, after one
  that was, has a line of its own that parses and will not be continued.
  `LengthsFromWritten`: how long the lines are. `ScanIsNewest`: half way through
  the file, a read has passed no line that is too long, and its window has every
  matching event seen so far or at least the limit of them, the newest, in order.
  The window is cut only when it is three times as long as the limit, which is
  why the cut keeps enough (`NewestCut`). That the answer is then exactly the
  newest of all that match is `AnswerLeavesOutOlder`, a count of events in order.

Only model-checked: liveness (`EveryRequestCloses`, `DeliversAsPromised`), which
needs ENABLED and is out of the prover's reach; every other property of a run is
stated by a theorem. The violations are TLC's as well. The inductive invariants
of Gateway, of LogStore, of ProxyTrail, `TailBenched`, and `Origin` and `InPlace` of
Config were checked with TLC, on
the constants of the runs, before they were proved.

## 5. Not modelled, and what could follow

Could follow, in this order:

1. **Two connections**: what is left of `UnavailableSaysWhen`, `NoReuseInCooldown`
   and `SpentKeyRests` when others use the pool: until when a refused key stays
   benched if no report of an older call is applied to it.
2. **An upstream that counts**: quota per key and day, its reset, responses that
   overtake each other. Today any quota may be reported at any time, which
   includes these orders but cannot blame one.

Not modelled:

- **Several pools or generations of pools side by side.** No state passes
  between two pools: each is a `KeyPool` of its own, and a reload makes new ones.
- **The admin console** (`app.js`). What it can send is an input of Config and
  LogStore; what it shows and forgets is the state of a page in a browser.
- **Redirects**, which `http.Client` follows by itself; escapes in the first segment
  of a path and the multiplexer's cleaning of paths; how numbers are read from quota
  headers: conversions without a state.
- **Status, health, the contents of the overview, the endpoint catalogue** of
  `manager.go`: they show what other modules hold.
- **The time of a log event**, taken before the lock: events are ordered by
  their writes, which is how they are read.
- `docs.js`, style sheets, HTML, scripts and container files: presentation and
  packaging.
