------------------------------- MODULE Proxy -------------------------------
(***************************************************************************)
(* The request pipeline of internal/proxy: Handler.ServeHTTP, which takes  *)
(* a key, calls the upstream and retries, running in one goroutine per     *)
(* request against the pool of KeyPool.  A caller of the pool is a         *)
(* connection: it serves one request after another.                        *)
(*                                                                         *)
(* The steps are those at which others can tell the difference: a call of  *)
(* the pool, the upstream call (which takes any time, and any number of    *)
(* other steps), and the answer.  What happens between them is local and   *)
(* belongs to the step.  External: the upstream and the client.            *)
(*                                                                         *)
(* Abstracted: paths, headers and bodies, the log, and the key list in the *)
(* body of a 503 (a second read of the pool that changes nothing).         *)
(***************************************************************************)
EXTENDS KeyPool

CONSTANTS
    ConfiguredRetries,  \* Config.MaxRetries
    UpstreamStatuses    \* the status codes an upstream may answer with

ASSUME ProxyAssumption ==
    /\ ConfiguredRetries \in Int
    /\ UpstreamStatuses \subseteq Nat

VARIABLES
    pc,          \* where the handler of the connection is
    attempts,    \* upstream calls made for the request
    gone,        \* the client went away: r.Context() is cancelled
    reply,       \* what transport.do returned, while it is being handled
    answer,      \* who answered the client, and with which status
    retryAfter   \* the Retry-After of a 503; 0 means the header is missing

handlerVars == <<pc, attempts, gone, reply, answer, retryAfter>>
vars == <<keys, now, handle, pc, attempts, gone, reply, answer, retryAfter>>
-----------------------------------------------------------------------------
\* NewHandler: at least one attempt.
MaxRetries == IF ConfiguredRetries < 1 THEN 1 ELSE ConfiguredRetries

NoSnapshot == [hasDaily |-> FALSE, dailyRemaining |-> 0]

NoReply == [status |-> 0, cause |-> "none", snap |-> NoSnapshot]

NoAnswer == [by |-> "nobody", status |-> 0]

\* Mutant: only 401 is taken for a bad key.
ClassifyForbiddenAsClient(status) ==
    IF status >= 200 /\ status < 300 THEN "success"
    ELSE IF status = 429 THEN "rate_limited"
    ELSE IF status = 401 THEN "key_invalid"
    ELSE IF status >= 500 THEN "server_error"
    ELSE "client_error"

\* HeaderProvider.ClassifyStatus.
ClassifyStatus(status) ==
    IF status >= 200 /\ status < 300 THEN "success"
    ELSE IF status = 429 THEN "rate_limited"
    ELSE IF status \in {401, 403} THEN "key_invalid"
    ELSE IF status >= 500 THEN "server_error"
    ELSE "client_error"

\* upstreamResult.kind: an error of any cause counts as one of the server.
Outcome(r) == IF r.cause = "status" THEN ClassifyStatus(r.status) ELSE "server_error"

\* A complete response; its quota headers matter only if it is relayed.
Responses ==
    {r \in [status : UpstreamStatuses, cause : {"status"}, snap : Snapshots] :
        Outcome(r) \in {"success", "client_error"} \/ r.snap = NoSnapshot}

\* client.Do or reading the body failed ("network"), the context was
\* cancelled, or the upstream request could not even be built ("local").
Failures == {[status |-> 0, cause |-> why, snap |-> NoSnapshot] :
                why \in {"network", "cancelled", "local"}}

Answers == [by : {"nobody", "gateway", "upstream"}, status : Nat]

Serving(c) == pc[c] \in {"loop", "calling", "settle", "tail"}
-----------------------------------------------------------------------------
Init ==
    /\ PoolInit
    /\ pc = [c \in Callers |-> "idle"]
    /\ attempts = [c \in Callers |-> 0]
    /\ gone = [c \in Callers |-> FALSE]
    /\ reply = [c \in Callers |-> NoReply]
    /\ answer = [c \in Callers |-> NoAnswer]
    /\ retryAfter = [c \in Callers |-> 0]

Goto(c, label) == pc' = [pc EXCEPT ![c] = label]

Answer(c, who, status) == answer' = [answer EXCEPT ![c] = [by |-> who, status |-> status]]

Begin(c) ==
    /\ ~Serving(c)
    /\ retryAfter' = [retryAfter EXCEPT ![c] = 0]
    /\ UNCHANGED <<keys, now, handle, attempts, gone, reply>>

\* ServeHTTP returns: its locals and the request's context are no more.
Return(c, label) ==
    /\ Goto(c, label)
    /\ attempts' = [attempts EXCEPT ![c] = 0]
    /\ gone' = [gone EXCEPT ![c] = FALSE]

\* A request passes the gates and its body is buffered.
Arrive(c) ==
    /\ Begin(c)
    /\ answer' = [answer EXCEPT ![c] = NoAnswer]
    /\ Goto(c, "loop")

\* Unknown platform, unauthorized client, no pool, or an unreadable body.
Reject(c) ==
    /\ Begin(c)
    /\ \E status \in {404, 401, 500, 400} : Answer(c, "gateway", status)
    /\ Goto(c, "done")

\* Mutant: the loop makes one attempt too many.
TryKeyOnceMore(c) ==
    /\ pc[c] = "loop"
    /\ attempts[c] <= MaxRetries
    /\ Acquire(c)
    /\ attempts' = [attempts EXCEPT ![c] = @ + 1]
    /\ Goto(c, "calling")
    /\ UNCHANGED <<gone, reply, answer, retryAfter>>

\* The head of the loop: a key is acquired and the upstream is called.
TryKey(c) ==
    /\ pc[c] = "loop"
    /\ attempts[c] < MaxRetries
    /\ Acquire(c)
    /\ attempts' = [attempts EXCEPT ![c] = @ + 1]
    /\ Goto(c, "calling")
    /\ UNCHANGED <<gone, reply, answer, retryAfter>>

\* Mutant: without a key the loop tries again instead of breaking off.
NoKeyLeftSpins(c) ==
    /\ pc[c] = "loop"
    /\ attempts[c] < MaxRetries
    /\ AcquireFails(c)
    /\ UNCHANGED handlerVars

\* ErrNoKeyAvailable breaks the loop.
NoKeyLeft(c) ==
    /\ pc[c] = "loop"
    /\ attempts[c] < MaxRetries
    /\ AcquireFails(c)
    /\ Goto(c, "tail")
    /\ UNCHANGED <<attempts, gone, reply, answer, retryAfter>>

\* transport.do returns (external: any response, at any time; at the latest
\* the client timeout, which is a network failure).
UpstreamReplies(c) ==
    /\ pc[c] = "calling"
    /\ \E r \in Responses \cup Failures :
          /\ r.cause = "cancelled" => gone[c]
          /\ reply' = [reply EXCEPT ![c] = r]
    /\ Goto(c, "settle")
    /\ UNCHANGED <<keys, now, handle, attempts, gone, answer, retryAfter>>

\* External: the client closes its connection.
Disconnect(c) ==
    /\ Serving(c)
    /\ ~gone[c]
    /\ gone' = [gone EXCEPT ![c] = TRUE]
    /\ UNCHANGED <<keys, now, handle, pc, attempts, reply, answer, retryAfter>>

Settles(c, kind) ==
    /\ pc[c] = "settle"
    /\ Outcome(reply[c]) = kind
    /\ reply' = [reply EXCEPT ![c] = NoReply]

\* The response updates the key it was made with and goes to the client.
Relay(c) ==
    /\ UpdateFromUpstream(c, reply[c].snap)
    /\ Answer(c, "upstream", reply[c].status)
    /\ Return(c, "done")
    /\ UNCHANGED retryAfter

Retry(c) ==
    /\ Goto(c, "loop")
    /\ UNCHANGED <<attempts, gone, answer, retryAfter>>

OnSuccess(c) == Settles(c, "success") /\ Relay(c)

OnClientError(c) == Settles(c, "client_error") /\ Relay(c)

OnRateLimited(c) == Settles(c, "rate_limited") /\ MarkRateLimited(c) /\ Retry(c)

OnKeyInvalid(c) == Settles(c, "key_invalid") /\ MarkKeyInvalid(c) /\ Retry(c)

\* Mutant: the error is charged before anyone asks whether the client left.
ServerErrorUnchecked(c) == Settles(c, "server_error") /\ MarkError(c) /\ Retry(c)

\* Mutant: the error is counted by the transport and again by the handler.
ServerErrorTwice(c) ==
    /\ Settles(c, "server_error")
    /\ ~gone[c]
    /\ Holding(c)
    /\ Report(c, ErrorCounted(ErrorCounted(keys[Charged(c)], now), now))
    /\ Retry(c)

OnServerError(c) == Settles(c, "server_error") /\ ~gone[c] /\ MarkError(c) /\ Retry(c)

\* The client is gone: no charge, no retry, no answer.
OnDisconnected(c) ==
    /\ Settles(c, "server_error")
    /\ gone[c]
    /\ Abandon(c)
    /\ Return(c, "aborted")
    /\ UNCHANGED <<answer, retryAfter>>

\* The loop is over without a response.
Unavailable(c) ==
    /\ pc[c] = "tail" \/ (pc[c] = "loop" /\ attempts[c] >= MaxRetries)
    /\ retryAfter' = [retryAfter EXCEPT ![c] = EarliestRecoverySeconds]
    /\ Answer(c, "gateway", 503)
    /\ Return(c, "done")
    /\ UNCHANGED <<keys, now, handle, reply>>

Handle(c) ==
    \/ TryKey(c) \/ NoKeyLeft(c) \/ Unavailable(c)
    \/ OnSuccess(c) \/ OnClientError(c) \/ OnRateLimited(c) \/ OnKeyInvalid(c)
    \/ OnServerError(c) \/ OnDisconnected(c)

TickProxy == Tick /\ UNCHANGED handlerVars

Next ==
    \/ TickProxy
    \/ \E c \in Callers :
          Arrive(c) \/ Reject(c) \/ Disconnect(c) \/ UpstreamReplies(c) \/ Handle(c)

\* A goroutine that can run does; an upstream call ends, at the latest by the
\* timeout of http.Client.  Neither clients nor the clock owe anything.
Fairness == \A c \in Callers : WF_vars(Handle(c)) /\ WF_vars(UpstreamReplies(c))

Spec == Init /\ [][Next]_vars /\ Fairness
-----------------------------------------------------------------------------
(* Properties. *)

ProxyTypeOK ==
    /\ PoolTypeOK
    /\ pc \in [Callers -> {"idle", "loop", "calling", "settle", "tail", "done", "aborted"}]
    /\ attempts \in [Callers -> 0..MaxRetries]
    /\ gone \in [Callers -> BOOLEAN]
    /\ reply \in [Callers -> Responses \cup Failures \cup {NoReply}]
    /\ answer \in [Callers -> Answers]
    /\ retryAfter \in [Callers -> Nat]

\* The handler goes from one key to the next without ever leaking a handle or
\* using one it gave back: it holds a key exactly while a call is its own.
HandleMatchesCall ==
    \A c \in Callers :
        /\ Holding(c) <=> pc[c] \in {"calling", "settle"}
        /\ reply[c] # NoReply <=> pc[c] = "settle"

\* design 3.3: a failure of the upstream (429, a bad key, 5xx) never reaches
\* the client as the upstream sent it.
FailuresStayInside ==
    \A c \in Callers : answer[c].by = "upstream" =>
        answer[c].status \notin {401, 403, 429} /\ answer[c].status < 500

\* A client that hangs up costs no key anything: a call that failed because
\* its context was cancelled leaves the pool as it is.
CancellationNeverCharged ==
    [][\A c \in Callers :
          (reply[c].cause = "cancelled" /\ reply'[c] # reply[c]) => keys' = keys]_vars

\* A 503 before any attempt, or while attempts are left, means that the state
\* table holds back every key at the moment the handler stops looking.
GiveUpJustified ==
    [][\A c \in Callers :
          (/\ pc[c] = "loop" /\ pc'[c] \in {"tail", "done"}
           /\ attempts[c] = 0 \/ attempts[c] < ConfiguredRetries)
              => \A k \in Positions : Quarantined(keys[k], now)]_vars

\* When no key was left, the 503 says when to come back.
UnavailableSaysWhen ==
    [][\A c \in Callers : (pc[c] = "tail" /\ pc'[c] = "done") => retryAfter'[c] > 0]_vars

\* design 6.3: a 503 carries the time of the earliest recovery, always.
EveryUnavailableSaysWhen ==
    \A c \in Callers : answer[c] = [by |-> "gateway", status |-> 503] => retryAfter[c] > 0

\* Every request that passes the gates is answered or given up with its client.
EveryRequestCloses == \A c \in Callers : Serving(c) ~> ~Serving(c)

\* The pool sees the handler as a caller that keeps its contract: all that is
\* proved of the pool holds here.
PoolContract == PoolSpec

\* The client's view of the handler.
Phase(c) ==
    IF Serving(c) THEN "open"
    ELSE IF pc[c] = "idle" THEN "idle"
    ELSE IF pc[c] = "aborted" THEN "dropped"
    ELSE IF answer[c].by = "upstream" THEN "relayed"
    ELSE IF answer[c].status = 503 THEN "unavailable"
    ELSE "refused"

Verdict(c) ==
    IF pc[c] = "calling" THEN "pending"
    ELSE IF pc[c] = "settle" /\ Outcome(reply[c]) \in {"success", "client_error"} THEN "final"
    ELSE IF attempts[c] = 0 THEN "none"
    ELSE "retry"

D == INSTANCE Delivery WITH
        Clients  <- Callers,
        MaxCalls <- MaxRetries,
        phase    <- [c \in Callers |-> Phase(c)],
        calls    <- attempts,
        verdict  <- [c \in Callers |-> Verdict(c)]

\* What the handler does for a client is what the contract allows.
DeliversByContract == D!Contract

\* The handler implements the contract with the client, liveness included.
DeliversAsPromised == D!Promise
=============================================================================
