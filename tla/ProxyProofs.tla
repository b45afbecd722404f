----------------------------- MODULE ProxyProofs -----------------------------
(***************************************************************************)
(* What holds of the request pipeline for any number of connections, keys, *)
(* attempts and status codes.  The pipeline uses the pool as PoolSpec      *)
(* says, so the theorems about the pool carry over; its own inductive      *)
(* invariant is ProxyTypeOK, HandleMatchesCall and CancelledIsGone.        *)
(***************************************************************************)
EXTENDS Proxy, KeyPoolProofs

-----------------------------------------------------------------------------
(* The pipeline keeps the contract of the pool. *)

LEMMA ReplyTypes ==
    ASSUME NEW r \in Responses \cup Failures \cup {NoReply}
    PROVE  /\ r.snap \in Snapshots
           /\ r.status \in Nat
<1>1. NoSnapshot \in Snapshots
  BY DEF NoSnapshot, Snapshots
<1>2. CASE r \in Responses
  BY <1>2, ProxyAssumption DEF Responses
<1>3. CASE r \in Failures \cup {NoReply}
  BY <1>1, <1>3 DEF Failures, NoReply
<1>. QED
  BY <1>2, <1>3

\* A step of the pipeline is a step of the pool, or leaves the pool alone.
LEMMA StepsUseThePool ==
    ASSUME ProxyTypeOK, [Next]_vars
    PROVE  [PoolNext]_poolVars
<1>1. CASE UNCHANGED vars
  BY <1>1 DEF vars, poolVars
<1>2. CASE TickProxy
  BY <1>2 DEF TickProxy, PoolNext
<1>3. ASSUME NEW c \in Callers, Arrive(c) \/ Reject(c)
      PROVE  UNCHANGED poolVars
  BY <1>3 DEF Arrive, Reject, Begin, poolVars
<1>4. ASSUME NEW c \in Callers, Disconnect(c) \/ UpstreamReplies(c) \/ Unavailable(c)
      PROVE  UNCHANGED poolVars
  BY <1>4 DEF Disconnect, UpstreamReplies, Unavailable, poolVars
<1>5. ASSUME NEW c \in Callers, TryKey(c) \/ NoKeyLeft(c)
      PROVE  CallerStep(c)
  BY <1>5 DEF TryKey, NoKeyLeft, CallerStep
<1>6. ASSUME NEW c \in Callers, OnSuccess(c) \/ OnClientError(c)
      PROVE  CallerStep(c)
  <2>1. reply[c].snap \in Snapshots
    BY ReplyTypes DEF ProxyTypeOK
  <2>. QED
    BY <1>6, <2>1 DEF OnSuccess, OnClientError, Relay, CallerStep
<1>7. ASSUME NEW c \in Callers,
             OnRateLimited(c) \/ OnKeyInvalid(c) \/ OnServerError(c) \/ OnDisconnected(c)
      PROVE  CallerStep(c)
  BY <1>7 DEF OnRateLimited, OnKeyInvalid, OnServerError, OnDisconnected, CallerStep
<1>. QED
  BY <1>1, <1>2, <1>3, <1>4, <1>5, <1>6, <1>7 DEF Next, Handle, PoolNext
-----------------------------------------------------------------------------
(* Types. *)

LEMMA RetriesType == MaxRetries \in Nat /\ MaxRetries >= 1
BY ProxyAssumption DEF MaxRetries

LEMMA EarliestType ==
    ASSUME PoolTypeOK
    PROVE  EarliestRecoverySeconds \in Nat
<1>1. CASE \E k \in Positions : keys[k].status = "active"
  BY <1>1 DEF EarliestRecoverySeconds
<1>2. CASE \A k \in Positions : keys[k].status # "active"
  BY <1>2, EarliestIsSomeKey, SecondsType DEF PoolTypeOK
<1>. QED
  BY <1>1, <1>2

LEMMA AnswerType ==
    ASSUME NEW c \in Callers, NEW who \in {"gateway", "upstream"}, NEW status \in Nat,
           answer \in [Callers -> Answers], Answer(c, who, status)
    PROVE  answer' \in [Callers -> Answers]
<1>1. [by |-> who, status |-> status] \in Answers
  BY DEF Answers
<1>. QED
  BY <1>1 DEF Answer

LEMMA ReturnTypes ==
    ASSUME ProxyTypeOK, NEW c \in Callers, NEW label \in {"done", "aborted"}, Return(c, label)
    PROVE  (/\ pc \in [Callers -> {"idle", "loop", "calling", "settle", "tail", "done", "aborted"}]
            /\ attempts \in [Callers -> 0..MaxRetries]
            /\ gone \in [Callers -> BOOLEAN])'
BY RetriesType DEF ProxyTypeOK, Return, Goto

LEMMA ProxyTypeInit ==
    ASSUME Init
    PROVE  ProxyTypeOK
BY TypeInit, RetriesType DEF Init, ProxyTypeOK, NoAnswer, Answers

LEMMA ProxyTypeStep ==
    ASSUME ProxyTypeOK, [Next]_vars
    PROVE  ProxyTypeOK'
<1>1. PoolTypeOK'
  <2>1. [APINext]_poolVars
    BY StepsUseThePool DEF APINext
  <2>. QED
    BY <2>1, TypeStep DEF ProxyTypeOK
<1>. USE RetriesType DEF ProxyTypeOK
<1>2. CASE UNCHANGED vars \/ TickProxy
  BY <1>1, <1>2 DEF vars, TickProxy, handlerVars
<1>3. ASSUME NEW c \in Callers, Arrive(c) \/ Reject(c)
      PROVE  ProxyTypeOK'
  <2>1. CASE Arrive(c)
    <3>1. NoAnswer \in Answers
      BY DEF NoAnswer, Answers
    <3>. QED
      BY <1>1, <2>1, <3>1 DEF Arrive, Begin, Goto
  <2>2. CASE Reject(c)
    <3>1. answer' \in [Callers -> Answers]
      BY <2>2, AnswerType DEF Reject
    <3>. QED
      BY <1>1, <2>2, <3>1 DEF Reject, Begin, Goto
  <2>. QED
    BY <1>3, <2>1, <2>2
<1>4. ASSUME NEW c \in Callers, TryKey(c) \/ NoKeyLeft(c)
      PROVE  ProxyTypeOK'
  BY <1>1, <1>4 DEF TryKey, NoKeyLeft, Goto
<1>5. ASSUME NEW c \in Callers, UpstreamReplies(c) \/ Disconnect(c)
      PROVE  ProxyTypeOK'
  BY <1>1, <1>5 DEF UpstreamReplies, Disconnect, Goto
<1>6. ASSUME NEW c \in Callers, OnSuccess(c) \/ OnClientError(c)
      PROVE  ProxyTypeOK'
  <2>1. reply[c].status \in Nat
    BY ReplyTypes
  <2>2. answer' \in [Callers -> Answers]
    BY <1>6, <2>1, AnswerType DEF OnSuccess, OnClientError, Relay
  <2>. QED
    BY <1>1, <1>6, <2>2, ReturnTypes DEF OnSuccess, OnClientError, Settles, Relay
<1>7. ASSUME NEW c \in Callers, OnRateLimited(c) \/ OnKeyInvalid(c) \/ OnServerError(c)
      PROVE  ProxyTypeOK'
  BY <1>1, <1>7 DEF OnRateLimited, OnKeyInvalid, OnServerError, Settles, Retry, Goto
<1>8. ASSUME NEW c \in Callers, OnDisconnected(c)
      PROVE  ProxyTypeOK'
  BY <1>1, <1>8 DEF OnDisconnected, Settles, Return, Goto
<1>9. ASSUME NEW c \in Callers, Unavailable(c)
      PROVE  ProxyTypeOK'
  <2>1. answer' \in [Callers -> Answers]
    BY <1>9, AnswerType DEF Unavailable
  <2>2. retryAfter' \in [Callers -> Nat]
    BY <1>9, EarliestType DEF Unavailable
  <2>. QED
    BY <1>1, <1>9, <2>1, <2>2, ReturnTypes DEF Unavailable
<1>. QED
  BY <1>2, <1>3, <1>4, <1>5, <1>6, <1>7, <1>8, <1>9 DEF Next, Handle

\* The pipeline keeps its types.
THEOREM ProxyTypes == Spec => []ProxyTypeOK
BY ProxyTypeInit, ProxyTypeStep, PTL DEF Spec

\* For any number of connections and keys the pipeline is a caller that keeps
\* the contract of the pool: it holds at most one handle and reports once.
THEOREM ProxyKeepsPoolContract == Spec => PoolContract
<1>1. Init => PoolInit
  BY DEF Init
<1>2. ProxyTypeOK /\ [Next]_vars => [PoolNext]_poolVars
  BY StepsUseThePool
<1>. QED
  BY <1>1, <1>2, ProxyTypes, PTL DEF Spec, PoolContract, PoolSpec

\* The theorems about the pool hold inside the gateway: no traffic strands a key.
THEOREM ProxyNeverStrands == Spec => []RecoveryBounded
BY ProxyKeepsPoolContract, PoolNeverStrands, PTL DEF PoolContract
-----------------------------------------------------------------------------
(* A handle is held exactly during a call, and only a client that left cancels. *)

\* A call fails with a cancelled context only if the client is gone.
CancelledIsGone == \A c \in Callers : reply[c].cause = "cancelled" => gone[c]

ProxyInv == ProxyTypeOK /\ HandleMatchesCall /\ CancelledIsGone

LEMMA RepliesAreReal ==
    ASSUME NEW r \in Responses \cup Failures
    PROVE  r # NoReply
BY DEF Responses, Failures, NoReply

LEMMA MatchInit ==
    ASSUME Init
    PROVE  HandleMatchesCall /\ CancelledIsGone
BY DEF Init, PoolInit, HandleMatchesCall, CancelledIsGone, Holding, NoReply

LEMMA MatchStep ==
    ASSUME ProxyInv, [Next]_vars
    PROVE  (HandleMatchesCall /\ CancelledIsGone)'
<1>. USE DEF ProxyInv, ProxyTypeOK, PoolTypeOK, HandleMatchesCall, CancelledIsGone, Holding
<1>1. CASE UNCHANGED vars \/ TickProxy
  BY <1>1 DEF vars, TickProxy, Tick, handlerVars
<1>2. ASSUME NEW c \in Callers, Arrive(c) \/ Reject(c)
      PROVE  (HandleMatchesCall /\ CancelledIsGone)'
  BY <1>2 DEF Arrive, Reject, Begin, Goto, Serving
<1>3. ASSUME NEW c \in Callers, TryKey(c)
      PROVE  (HandleMatchesCall /\ CancelledIsGone)'
  <2>1. FirstUsable \in Positions /\ FirstUsable # NoKey
    BY <1>3, FirstUsableIsFirst DEF TryKey, Acquire, Positions, NoKey
  <2>. QED
    BY <1>3, <2>1 DEF TryKey, Acquire, Goto
<1>4. ASSUME NEW c \in Callers, NoKeyLeft(c)
      PROVE  (HandleMatchesCall /\ CancelledIsGone)'
  BY <1>4 DEF NoKeyLeft, AcquireFails, Goto
<1>5. ASSUME NEW c \in Callers, UpstreamReplies(c)
      PROVE  (HandleMatchesCall /\ CancelledIsGone)'
  BY <1>5, RepliesAreReal DEF UpstreamReplies, Goto
<1>6. ASSUME NEW c \in Callers, Disconnect(c)
      PROVE  (HandleMatchesCall /\ CancelledIsGone)'
  BY <1>6 DEF Disconnect
\* The branches of the switch: the handle is given back and the reply is gone.
<1>7. ASSUME NEW c \in Callers, NEW label \in {"loop", "done", "aborted"},
             Goto(c, label),
             handle' = [handle EXCEPT ![c] = NoKey],
             reply' = [reply EXCEPT ![c] = NoReply],
             gone' = gone \/ gone' = [gone EXCEPT ![c] = FALSE]
      PROVE  (HandleMatchesCall /\ CancelledIsGone)'
  BY <1>7 DEF Goto, NoReply
<1>8. ASSUME NEW c \in Callers, OnSuccess(c) \/ OnClientError(c)
      PROVE  (HandleMatchesCall /\ CancelledIsGone)'
  <2>1. Return(c, "done") /\ reply' = [reply EXCEPT ![c] = NoReply]
    BY <1>8 DEF OnSuccess, OnClientError, Settles, Relay
  <2>2. handle' = [handle EXCEPT ![c] = NoKey]
    BY <1>8 DEF OnSuccess, OnClientError, Relay, UpdateFromUpstream, Report
  <2>. QED
    BY <1>7, <2>1, <2>2 DEF Return
<1>9. ASSUME NEW c \in Callers, OnRateLimited(c) \/ OnKeyInvalid(c) \/ OnServerError(c)
      PROVE  (HandleMatchesCall /\ CancelledIsGone)'
  <2>1. Retry(c) /\ reply' = [reply EXCEPT ![c] = NoReply]
    BY <1>9 DEF OnRateLimited, OnKeyInvalid, OnServerError, Settles
  <2>2. handle' = [handle EXCEPT ![c] = NoKey]
    BY <1>9 DEF OnRateLimited, OnKeyInvalid, OnServerError, MarkRateLimited, MarkKeyInvalid,
                MarkError, Report
  <2>. QED
    BY <1>7, <2>1, <2>2 DEF Retry
<1>10. ASSUME NEW c \in Callers, OnDisconnected(c)
       PROVE  (HandleMatchesCall /\ CancelledIsGone)'
  <2>1. Return(c, "aborted") /\ reply' = [reply EXCEPT ![c] = NoReply]
    BY <1>10 DEF OnDisconnected, Settles
  <2>2. handle' = [handle EXCEPT ![c] = NoKey]
    BY <1>10 DEF OnDisconnected, Abandon
  <2>. QED
    BY <1>7, <2>2, <2>1 DEF Return
<1>11. ASSUME NEW c \in Callers, Unavailable(c)
       PROVE  (HandleMatchesCall /\ CancelledIsGone)'
  <2>1. /\ pc[c] \in {"tail", "loop"} /\ pc' = [pc EXCEPT ![c] = "done"]
        /\ gone' = [gone EXCEPT ![c] = FALSE] /\ UNCHANGED <<handle, reply>>
    BY <1>11 DEF Unavailable, Return, Goto
  <2>2. HandleMatchesCall'
    BY <2>1
  <2>3. reply[c] = NoReply
    BY <2>1
  <2>4. CancelledIsGone'
    BY <2>1, <2>3 DEF NoReply
  <2>. QED
    BY <2>2, <2>4
<1>. QED
  BY <1>1, <1>2, <1>3, <1>4, <1>5, <1>6, <1>8, <1>9, <1>10, <1>11 DEF Next, Handle

LEMMA ProxyInvariant == Spec => []ProxyInv
<1>1. Init => ProxyInv
  BY ProxyTypeInit, MatchInit DEF ProxyInv
<1>2. ProxyInv /\ [Next]_vars => ProxyInv'
  BY ProxyTypeStep, MatchStep DEF ProxyInv
<1>. QED
  BY <1>1, <1>2, PTL DEF Spec

\* No path through the retry loop leaks a handle or uses one given back.
THEOREM ProxyHoldsWhileCalling == Spec => []HandleMatchesCall
BY ProxyInvariant, PTL DEF ProxyInv
-----------------------------------------------------------------------------
(* What reaches the client, and what reaches the pool. *)

LEMMA RelayedIsFinal ==
    ASSUME NEW r, Outcome(r) \in {"success", "client_error"}, r.status \in Nat
    PROVE  r.status \notin {401, 403, 429} /\ r.status < 500
BY DEF Outcome, ClassifyStatus

LEMMA InsideStep ==
    ASSUME ProxyTypeOK, FailuresStayInside, [Next]_vars
    PROVE  FailuresStayInside'
<1>. USE DEF FailuresStayInside
<1>1. CASE UNCHANGED answer
  BY <1>1
<1>2. ASSUME NEW c \in Callers, OnSuccess(c) \/ OnClientError(c)
      PROVE  FailuresStayInside'
  <2>1. /\ answer' = [answer EXCEPT ![c] = [by |-> "upstream", status |-> reply[c].status]]
        /\ Outcome(reply[c]) \in {"success", "client_error"}
    BY <1>2 DEF OnSuccess, OnClientError, Settles, Relay, Answer
  <2>2. reply[c].status \notin {401, 403, 429} /\ reply[c].status < 500
    BY <2>1, RelayedIsFinal, ReplyTypes DEF ProxyTypeOK
  <2>. QED
    BY <2>1, <2>2 DEF ProxyTypeOK
<1>3. ASSUME NEW c \in Callers, NEW a, answer' = [answer EXCEPT ![c] = a], a.by # "upstream"
      PROVE  FailuresStayInside'
  BY <1>3 DEF ProxyTypeOK
<1>4. ASSUME NEW c \in Callers, Arrive(c) \/ Reject(c) \/ Unavailable(c)
      PROVE  FailuresStayInside'
  <2>1. ASSUME NEW status, Answer(c, "gateway", status)
        PROVE  FailuresStayInside'
    BY <1>3, <2>1 DEF Answer
  <2>2. CASE Arrive(c)
    BY <1>3, <2>2 DEF Arrive, NoAnswer
  <2>. QED
    BY <1>4, <2>1, <2>2 DEF Reject, Unavailable
<1>5. ASSUME NEW c \in Callers,
             \/ TryKey(c) \/ NoKeyLeft(c) \/ UpstreamReplies(c) \/ Disconnect(c)
             \/ OnRateLimited(c) \/ OnKeyInvalid(c) \/ OnServerError(c) \/ OnDisconnected(c)
      PROVE  UNCHANGED answer
  BY <1>5 DEF TryKey, NoKeyLeft, UpstreamReplies, Disconnect, OnRateLimited, OnKeyInvalid,
              OnServerError, OnDisconnected, Retry
<1>6. CASE UNCHANGED vars \/ TickProxy
  BY <1>1, <1>6 DEF vars, TickProxy, handlerVars
<1>. QED
  BY <1>1, <1>2, <1>4, <1>5, <1>6 DEF Next, Handle

\* Whatever an upstream answers, its 429, 401, 403 and 5xx never reach a client.
THEOREM ProxyKeepsFailuresInside == Spec => []FailuresStayInside
<1>1. Init => FailuresStayInside
  BY DEF Init, FailuresStayInside, NoAnswer
<1>. QED
  BY <1>1, InsideStep, ProxyTypes, PTL DEF Spec

\* A call cancelled by its client changes no key.
THEOREM ProxyNeverChargesCancellation == Spec => CancellationNeverCharged
<1>1. ASSUME ProxyInv, [Next]_vars, NEW d \in Callers,
             reply[d].cause = "cancelled", reply'[d] # reply[d]
      PROVE  keys' = keys
  <2>1. gone[d] /\ Outcome(reply[d]) = "server_error" /\ pc[d] = "settle"
    BY <1>1 DEF ProxyInv, CancelledIsGone, HandleMatchesCall, Outcome, NoReply
  <2>2. ASSUME NEW c \in Callers, UpstreamReplies(c)
        PROVE  FALSE
    BY <1>1, <2>1, <2>2 DEF UpstreamReplies, ProxyInv, ProxyTypeOK
  <2>3. ASSUME NEW c \in Callers, NEW kind, Settles(c, kind)
        PROVE  c = d /\ kind = "server_error"
    BY <1>1, <2>1, <2>3 DEF Settles, ProxyInv, ProxyTypeOK
  <2>4. ASSUME NEW c \in Callers, OnDisconnected(c)
        PROVE  keys' = keys
    BY <2>4 DEF OnDisconnected, Abandon
  <2>5. ASSUME NEW c \in Callers,
               \/ OnSuccess(c) \/ OnClientError(c) \/ OnRateLimited(c) \/ OnKeyInvalid(c)
               \/ OnServerError(c)
        PROVE  FALSE
    BY <2>1, <2>3, <2>5 DEF OnSuccess, OnClientError, OnRateLimited, OnKeyInvalid, OnServerError
  <2>6. ASSUME NEW c \in Callers,
               \/ Arrive(c) \/ Reject(c) \/ TryKey(c) \/ NoKeyLeft(c) \/ Disconnect(c)
               \/ Unavailable(c)
        PROVE  UNCHANGED reply
    BY <2>6 DEF Arrive, Reject, Begin, TryKey, NoKeyLeft, Disconnect, Unavailable
  <2>7. CASE UNCHANGED vars \/ TickProxy
    BY <2>7 DEF vars, TickProxy, Tick
  <2>. QED
    BY <1>1, <2>2, <2>4, <2>5, <2>6, <2>7 DEF Next, Handle
<1>2. ProxyInv /\ [Next]_vars =>
        [\A c \in Callers : (reply[c].cause = "cancelled" /\ reply'[c] # reply[c])
                                => keys' = keys]_vars
  BY <1>1
<1>. QED
  BY <1>2, ProxyInvariant, PTL DEF Spec, CancellationNeverCharged

\* A handler stops looking for a key, with attempts left, only while every key
\* is cooling down or exhausted for the day.
THEOREM ProxyGivesUpJustly == Spec => GiveUpJustified
<1>1. ASSUME ProxyInv, Clocked, [Next]_vars, NEW d \in Callers, NEW k \in Positions,
             pc[d] = "loop", pc'[d] \in {"tail", "done"},
             attempts[d] = 0 \/ attempts[d] < ConfiguredRetries
      PROVE  Quarantined(keys[k], now)
  <2>1. attempts[d] < MaxRetries
    BY <1>1, ProxyAssumption DEF MaxRetries, ProxyInv, ProxyTypeOK
  <2>2. CASE NoKeyLeft(d)
    BY <1>1, <2>2, IdleOnlyIfQuarantined, ClockedByKey
       DEF NoKeyLeft, AcquireFails, AnyUsable, ProxyInv, ProxyTypeOK, PoolTypeOK
  <2>3. ~Unavailable(d)
    <3>1. attempts[d] \in Nat
      BY <1>1, RetriesType DEF ProxyInv, ProxyTypeOK
    <3>. QED
      BY <1>1, <2>1, <3>1, RetriesType DEF Unavailable
  <2>4. ASSUME NEW c \in Callers, NEW label, Goto(c, label)
        PROVE  c = d /\ label \in {"tail", "done"}
    BY <1>1, <2>4 DEF Goto, ProxyInv, ProxyTypeOK
  <2>5. pc' # pc
    BY <1>1
  <2>6. ASSUME NEW c \in Callers, Disconnect(c)
        PROVE  FALSE
    BY <2>5, <2>6 DEF Disconnect
  \* Every other action leads elsewhere, or starts elsewhere.
  <2>7. ASSUME NEW c \in Callers, Arrive(c) \/ Reject(c)
        PROVE  FALSE
    BY <1>1, <2>4, <2>7 DEF Arrive, Reject, Begin, Serving
  <2>8. ASSUME NEW c \in Callers,
               \/ TryKey(c) \/ UpstreamReplies(c) \/ OnRateLimited(c) \/ OnKeyInvalid(c)
               \/ OnServerError(c) \/ OnDisconnected(c)
        PROVE  FALSE
    BY <2>4, <2>8 DEF TryKey, UpstreamReplies, OnRateLimited, OnKeyInvalid, OnServerError,
                      OnDisconnected, Retry, Return
  <2>9. ASSUME NEW c \in Callers, OnSuccess(c) \/ OnClientError(c)
        PROVE  FALSE
    BY <1>1, <2>4, <2>9 DEF OnSuccess, OnClientError, Settles, Relay, Return
  <2>10. ASSUME NEW c \in Callers, NoKeyLeft(c) \/ Unavailable(c)
         PROVE  c = d
    BY <2>4, <2>10 DEF NoKeyLeft, Unavailable, Return
  <2>11. ~(UNCHANGED vars \/ TickProxy)
    BY <2>5 DEF vars, TickProxy, handlerVars
  <2>. QED
    BY <1>1, <2>2, <2>3, <2>6, <2>7, <2>8, <2>9, <2>10, <2>11 DEF Next, Handle
<1>2. ProxyInv /\ Clocked /\ [Next]_vars =>
        [\A c \in Callers :
            (/\ pc[c] = "loop" /\ pc'[c] \in {"tail", "done"}
             /\ attempts[c] = 0 \/ attempts[c] < ConfiguredRetries)
                => \A k \in Positions : Quarantined(keys[k], now)]_vars
  BY <1>1
<1>3. Spec => []Clocked
  BY ProxyKeepsPoolContract, GatewayUsesInterface, InterfaceClocked, PTL DEF PoolContract
<1>. QED
  BY <1>2, <1>3, ProxyInvariant, PTL DEF Spec, GiveUpJustified
-----------------------------------------------------------------------------
(* The pipeline implements the contract with the client. *)

\* The count of attempts lives as long as the request, and a call is counted.
AttemptsMatch ==
    \A c \in Callers :
        /\ ~Serving(c) => attempts[c] = 0
        /\ pc[c] \in {"calling", "settle"} => attempts[c] > 0

LEMMA AttemptsStep ==
    ASSUME ProxyTypeOK, AttemptsMatch, [Next]_vars
    PROVE  AttemptsMatch'
<1>. USE RetriesType DEF ProxyTypeOK, AttemptsMatch, Serving
<1>1. CASE UNCHANGED <<pc, attempts>>
  BY <1>1
<1>2. ASSUME NEW c \in Callers, Arrive(c) \/ Reject(c)
      PROVE  AttemptsMatch'
  BY <1>2 DEF Arrive, Reject, Begin, Goto
<1>3. ASSUME NEW c \in Callers, TryKey(c) \/ NoKeyLeft(c)
      PROVE  AttemptsMatch'
  BY <1>3 DEF TryKey, NoKeyLeft, Goto
<1>4. ASSUME NEW c \in Callers, UpstreamReplies(c)
      PROVE  AttemptsMatch'
  BY <1>4 DEF UpstreamReplies, Goto
<1>5. ASSUME NEW c \in Callers, NEW label \in {"done", "aborted"}, Return(c, label)
      PROVE  AttemptsMatch'
  BY <1>5 DEF Return, Goto
<1>6. ASSUME NEW c \in Callers, Retry(c)
      PROVE  AttemptsMatch'
  BY <1>6 DEF Retry, Goto
<1>7. ASSUME NEW c \in Callers, Handle(c)
      PROVE  AttemptsMatch'
  <2>. HIDE DEF AttemptsMatch, ProxyTypeOK, Serving
  <2>. QED
    BY <1>3, <1>5, <1>6, <1>7 DEF Handle, Unavailable, OnSuccess, OnClientError, Relay,
         OnRateLimited, OnKeyInvalid, OnServerError, OnDisconnected
<1>8. CASE UNCHANGED vars \/ TickProxy
  BY <1>1, <1>8 DEF vars, TickProxy, handlerVars
<1>9. ASSUME NEW c \in Callers, Disconnect(c)
      PROVE  AttemptsMatch'
  BY <1>1, <1>9 DEF Disconnect
<1>. QED
  BY <1>2, <1>4, <1>7, <1>8, <1>9 DEF Next

LEMMA ProxyCountsAttempts == Spec => []AttemptsMatch
<1>1. Init => AttemptsMatch
  BY DEF Init, AttemptsMatch
<1>. QED
  BY <1>1, AttemptsStep, ProxyTypes, PTL DEF Spec

\* A request that a step does not touch looks the same to its client.
LEMMA Untouched ==
    ASSUME NEW d \in Callers, pc'[d] = pc[d], attempts'[d] = attempts[d],
           reply'[d] = reply[d], answer'[d] = answer[d]
    PROVE  Phase(d)' = Phase(d) /\ Verdict(d)' = Verdict(d)
BY DEF Phase, Verdict, Serving

\* A step that touches one request only is a move of the contract.
LEMMA MovesOne ==
    ASSUME ProxyTypeOK, NEW c \in Callers, NEW ph, NEW n, NEW v,
           attempts' = [attempts EXCEPT ![c] = n],
           Phase(c)' = ph, Verdict(c)' = v,
           \A d \in Callers \ {c} :
              pc'[d] = pc[d] /\ reply'[d] = reply[d] /\ answer'[d] = answer[d]
    PROVE  D!Move(c, ph, n, v)
<1>1. \A d \in Callers \ {c} : Phase(d)' = Phase(d) /\ Verdict(d)' = Verdict(d)
  BY Untouched DEF ProxyTypeOK
<1>. QED
  BY <1>1 DEF D!Move

LEMMA StutterOfContract ==
    ASSUME UNCHANGED attempts,
           \A d \in Callers : Phase(d)' = Phase(d) /\ Verdict(d)' = Verdict(d)
    PROVE  UNCHANGED D!contract
BY DEF D!contract

LEMMA ContractStep ==
    ASSUME ProxyInv, AttemptsMatch, [Next]_vars
    PROVE  [\E c \in Callers : D!Step(c)]_(D!contract)
<1>. USE DEF ProxyInv, ProxyTypeOK, AttemptsMatch
<1>1. ASSUME NEW c \in Callers, Arrive(c)
      PROVE  D!Step(c)
  <2>1. /\ attempts' = [attempts EXCEPT ![c] = 0]
        /\ Phase(c) \in D!Closed /\ Phase(c)' = "open" /\ Verdict(c)' = "none"
    BY <1>1 DEF Arrive, Begin, Goto, Answer, NoAnswer, Serving, Phase, Verdict, D!Closed
  <2>2. D!Move(c, "open", 0, "none")
    BY <1>1, <2>1, MovesOne DEF Arrive, Begin, Goto
  <2>. QED
    BY <2>1, <2>2 DEF D!Step, D!Open
<1>2. ASSUME NEW c \in Callers, Reject(c)
      PROVE  D!Step(c)
  <2>1. /\ attempts' = [attempts EXCEPT ![c] = 0]
        /\ Phase(c) \in D!Closed /\ Phase(c)' = "refused" /\ Verdict(c)' = "none"
    BY <1>2 DEF Reject, Begin, Goto, Answer, Serving, Phase, Verdict, D!Closed
  <2>2. D!Move(c, "refused", 0, "none")
    <3>1. \A d \in Callers \ {c} :
             pc'[d] = pc[d] /\ reply'[d] = reply[d] /\ answer'[d] = answer[d]
      BY <1>2 DEF Reject, Begin, Goto, Answer
    <3>. QED
      BY <2>1, <3>1, MovesOne
  <2>. QED
    BY <2>1, <2>2 DEF D!Step, D!Refuse, D!Close
<1>3. ASSUME NEW c \in Callers, TryKey(c)
      PROVE  D!Step(c)
  <2>1. /\ attempts' = [attempts EXCEPT ![c] = attempts[c] + 1] /\ attempts[c] < MaxRetries
        /\ Phase(c) = "open" /\ Verdict(c) \in {"none", "retry"}
        /\ Phase(c)' = "open" /\ Verdict(c)' = "pending"
    BY <1>3 DEF TryKey, Goto, Serving, Phase, Verdict
  <2>2. D!Move(c, "open", attempts[c] + 1, "pending")
    BY <1>3, <2>1, MovesOne DEF TryKey, Goto
  <2>. QED
    BY <2>1, <2>2 DEF D!Step, D!Work, D!Call
<1>4. ASSUME NEW c \in Callers, UpstreamReplies(c)
      PROVE  D!Step(c)
  <2>1. /\ attempts' = [attempts EXCEPT ![c] = attempts[c]]
        /\ Phase(c) = "open" /\ Verdict(c) = "pending"
        /\ Phase(c)' = "open" /\ Verdict(c)' \in {"final", "retry"}
    BY <1>4 DEF UpstreamReplies, Goto, Serving, Phase, Verdict
  <2>2. D!Move(c, "open", attempts[c], Verdict(c)')
    BY <1>4, <2>1, MovesOne DEF UpstreamReplies, Goto
  <2>. QED
    BY <2>1, <2>2 DEF D!Step, D!Work, D!Judge
<1>5. ASSUME NEW c \in Callers, OnSuccess(c) \/ OnClientError(c)
      PROVE  D!Step(c)
  <2>1. /\ Outcome(reply[c]) \in {"success", "client_error"} /\ pc[c] = "settle"
        /\ reply' = [reply EXCEPT ![c] = NoReply] /\ Relay(c)
    BY <1>5 DEF OnSuccess, OnClientError, Settles
  <2>2. /\ attempts' = [attempts EXCEPT ![c] = 0]
        /\ Phase(c) = "open" /\ Verdict(c) = "final"
        /\ Phase(c)' = "relayed" /\ Verdict(c)' = "none"
    BY <2>1 DEF Relay, Return, Goto, Answer, Serving, Phase, Verdict
  <2>3. D!Move(c, "relayed", 0, "none")
    BY <2>1, <2>2, MovesOne DEF Relay, Return, Goto, Answer
  <2>. QED
    BY <2>2, <2>3 DEF D!Step, D!Work, D!Relay, D!Close
<1>6. ASSUME NEW c \in Callers, OnRateLimited(c) \/ OnKeyInvalid(c) \/ OnServerError(c)
      PROVE  UNCHANGED D!contract
  <2>1. /\ Outcome(reply[c]) \notin {"success", "client_error"} /\ pc[c] = "settle"
        /\ reply' = [reply EXCEPT ![c] = NoReply] /\ Retry(c)
    BY <1>6 DEF OnRateLimited, OnKeyInvalid, OnServerError, Settles
  <2>2. /\ attempts' = attempts
        /\ Phase(c)' = Phase(c) /\ Verdict(c)' = Verdict(c)
    BY <2>1 DEF Retry, Goto, Serving, Phase, Verdict
  <2>3. \A d \in Callers \ {c} : Phase(d)' = Phase(d) /\ Verdict(d)' = Verdict(d)
    BY <2>1, Untouched DEF Retry, Goto
  <2>. QED
    BY <2>2, <2>3, StutterOfContract
<1>7. ASSUME NEW c \in Callers, OnDisconnected(c)
      PROVE  D!Step(c)
  <2>1. /\ Outcome(reply[c]) = "server_error" /\ pc[c] = "settle"
        /\ reply' = [reply EXCEPT ![c] = NoReply] /\ Return(c, "aborted") /\ answer' = answer
    BY <1>7 DEF OnDisconnected, Settles
  <2>2. /\ attempts' = [attempts EXCEPT ![c] = 0]
        /\ Phase(c) = "open" /\ Verdict(c) = "retry"
        /\ Phase(c)' = "dropped" /\ Verdict(c)' = "none"
    BY <2>1 DEF Return, Goto, Serving, Phase, Verdict
  <2>3. D!Move(c, "dropped", 0, "none")
    BY <2>1, <2>2, MovesOne DEF Return, Goto
  <2>. QED
    BY <2>2, <2>3 DEF D!Step, D!Work, D!Drop, D!Close
<1>8. ASSUME NEW c \in Callers, Unavailable(c)
      PROVE  D!Step(c)
  <2>1. /\ pc[c] \in {"tail", "loop"} /\ reply' = reply
        /\ Answer(c, "gateway", 503) /\ Return(c, "done")
    BY <1>8 DEF Unavailable
  <2>2. /\ attempts' = [attempts EXCEPT ![c] = 0]
        /\ Phase(c) = "open" /\ Verdict(c) \in {"none", "retry"}
        /\ Phase(c)' = "unavailable" /\ Verdict(c)' = "none"
    BY <2>1 DEF Return, Goto, Answer, Serving, Phase, Verdict
  <2>3. D!Move(c, "unavailable", 0, "none")
    BY <2>1, <2>2, MovesOne DEF Return, Goto, Answer
  <2>. QED
    BY <2>2, <2>3 DEF D!Step, D!Work, D!GiveUp, D!Close
<1>9. ASSUME NEW c \in Callers, NoKeyLeft(c)
      PROVE  UNCHANGED D!contract
  <2>1. \A d \in Callers \ {c} : Phase(d)' = Phase(d) /\ Verdict(d)' = Verdict(d)
    BY <1>9, Untouched DEF NoKeyLeft, Goto
  <2>2. Phase(c)' = Phase(c) /\ Verdict(c)' = Verdict(c)
    BY <1>9 DEF NoKeyLeft, Goto, Serving, Phase, Verdict
  <2>. QED
    BY <1>9, <2>1, <2>2, StutterOfContract DEF NoKeyLeft
<1>10. CASE UNCHANGED vars \/ TickProxy \/ (\E c \in Callers : Disconnect(c))
  <2>1. UNCHANGED <<pc, attempts, reply, answer>>
    BY <1>10 DEF vars, TickProxy, handlerVars, Disconnect
  <2>. QED
    BY <2>1, Untouched, StutterOfContract
<1>. QED
  BY <1>1, <1>2, <1>3, <1>4, <1>5, <1>6, <1>7, <1>8, <1>9, <1>10 DEF Next, Handle

\* A client of the gateway sees what the contract allows and nothing else: at
\* most MaxRetries calls, no retry of a final response, no relay of another.
THEOREM ProxyDeliversByContract == Spec => DeliversByContract
<1>1. ASSUME Init
      PROVE  D!Start
  BY <1>1 DEF Init, D!Start, Phase, Verdict, Serving
<1>2. ProxyInv /\ AttemptsMatch /\ [Next]_vars => [\E c \in Callers : D!Step(c)]_(D!contract)
  BY ContractStep
<1>. QED
  BY <1>1, <1>2, ProxyInvariant, ProxyCountsAttempts, PTL DEF Spec, DeliversByContract, D!Contract
-----------------------------------------------------------------------------
(* What a 503 says, when one connection uses the pool. *)

LoneCaller == \A c, d \in Callers : c = d

\* While the answer to ErrNoKeyAvailable is on its way, no key is active: the
\* recovery time it asks for is never the 0 that leaves the header out.
TailBenched ==
    \A c \in Callers : pc[c] = "tail" => \A k \in Positions : keys[k].status # "active"

\* A failed Acquire refreshed every key and left none active.
LEMMA FailureBenchesAll ==
    ASSUME PoolTypeOK, NEW c \in Callers, AcquireFails(c)
    PROVE  \A k \in Positions : keys'[k].status # "active"
<1>. SUFFICES ASSUME NEW k \in Positions
              PROVE  keys'[k].status # "active"
  OBVIOUS
<1>1. k <= NumKeys
  BY PoolAssumption DEF Positions
<1>2. keys'[k] = Refresh(keys[k], now)
  BY <1>1 DEF AcquireFails, RefreshUpTo
<1>. QED
  BY <1>2 DEF AcquireFails, AnyUsable, Usable

LEMMA TailStep ==
    ASSUME LoneCaller, ProxyTypeOK, TailBenched, [Next]_vars
    PROVE  TailBenched'
<1>. USE DEF LoneCaller, TailBenched
<1>1. CASE UNCHANGED <<keys, pc>>
  BY <1>1
<1>2. ASSUME NEW c \in Callers, NEW label, label # "tail", Goto(c, label)
      PROVE  TailBenched'
  BY <1>2 DEF Goto, ProxyTypeOK
<1>3. ASSUME NEW c \in Callers, NoKeyLeft(c)
      PROVE  TailBenched'
  BY <1>3, FailureBenchesAll DEF NoKeyLeft, ProxyTypeOK
<1>4. ASSUME NEW c \in Callers, Disconnect(c)
      PROVE  UNCHANGED <<keys, pc>>
  BY <1>4 DEF Disconnect
<1>5. CASE UNCHANGED vars \/ TickProxy
  BY <1>1, <1>5 DEF vars, TickProxy, Tick, handlerVars
<1>6. ASSUME NEW c \in Callers, Arrive(c) \/ Reject(c) \/ TryKey(c) \/ UpstreamReplies(c)
      PROVE  \E label \in {"loop", "done", "calling", "settle"} : Goto(c, label)
  BY <1>6 DEF Arrive, Reject, TryKey, UpstreamReplies
<1>7. ASSUME NEW c \in Callers,
             \/ OnSuccess(c) \/ OnClientError(c) \/ OnRateLimited(c) \/ OnKeyInvalid(c)
             \/ OnServerError(c) \/ OnDisconnected(c) \/ Unavailable(c)
      PROVE  \E label \in {"loop", "done", "aborted"} : Goto(c, label)
  BY <1>7 DEF OnSuccess, OnClientError, OnRateLimited, OnKeyInvalid, OnServerError,
              OnDisconnected, Unavailable, Relay, Retry, Return
<1>. QED
  BY <1>1, <1>2, <1>3, <1>4, <1>5, <1>6, <1>7 DEF Next, Handle

\* With one connection at a time, a 503 for want of a key says when to come
\* back, whatever the keys, the cooldowns and the clock.  With two it may not:
\* a report of the other makes a key active before the recovery time is read.
THEOREM LoneUnavailableSaysWhen ==
    ASSUME LoneCaller
    PROVE  Spec => UnavailableSaysWhen
<1>1. Init => TailBenched
  BY DEF Init, TailBenched
<1>2. ProxyTypeOK /\ TailBenched /\ [Next]_vars => TailBenched'
  BY TailStep
<1>3. Spec => []TailBenched
  BY <1>1, <1>2, ProxyTypes, PTL DEF Spec
<1>4. ASSUME ProxyTypeOK, TailBenched, [Next]_vars,
             NEW c \in Callers, pc[c] = "tail", pc'[c] = "done"
      PROVE  retryAfter'[c] > 0
  <2>1. \A k \in Positions : keys[k].status # "active"
    BY <1>4 DEF TailBenched
  <2>2. EarliestRecoverySeconds \in Nat /\ EarliestRecoverySeconds > 0
    BY <1>4, <2>1, EarliestType, EarliestIsSomeKey, SecondsType DEF ProxyTypeOK, PoolTypeOK
  <2>3. Unavailable(c)
    <3>1. pc'[c] # pc[c]
      BY <1>4
    <3>2. \A d \in Callers : d = c
      BY DEF LoneCaller
    <3>3. Arrive(c) \/ Reject(c) => FALSE
      BY <1>4 DEF Arrive, Reject, Begin, Serving
    <3>4. TryKey(c) \/ NoKeyLeft(c) \/ UpstreamReplies(c) => FALSE
      BY <1>4 DEF TryKey, NoKeyLeft, UpstreamReplies
    <3>5. Disconnect(c) \/ TickProxy \/ UNCHANGED vars => FALSE
      BY <3>1 DEF Disconnect, TickProxy, Tick, handlerVars, vars
    <3>6. ASSUME NEW kind, Settles(c, kind)
          PROVE  FALSE
      BY <1>4, <3>6 DEF Settles
    <3>7. \/ OnSuccess(c) \/ OnClientError(c) \/ OnRateLimited(c) \/ OnKeyInvalid(c)
          \/ OnServerError(c) \/ OnDisconnected(c)
          => FALSE
      BY <3>6 DEF OnSuccess, OnClientError, OnRateLimited, OnKeyInvalid, OnServerError,
                  OnDisconnected
    <3>. QED
      BY <1>4, <3>2, <3>3, <3>4, <3>5, <3>7 DEF Next, Handle
  <2>. QED
    BY <1>4, <2>2, <2>3 DEF Unavailable, ProxyTypeOK
<1>5. ProxyTypeOK /\ TailBenched /\ [Next]_vars =>
        [\A c \in Callers : (pc[c] = "tail" /\ pc'[c] = "done") => retryAfter'[c] > 0]_vars
  BY <1>4
<1>. QED
  BY <1>3, <1>5, ProxyTypes, PTL DEF Spec, UnavailableSaysWhen
=============================================================================
