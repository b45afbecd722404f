--------------------------- MODULE ExchangeProofs ---------------------------
(***************************************************************************)
(* What upstreams are sent and how requests are answered, for any requests,*)
(* configurations and reloads.  ExchangeInv says what the calls of a       *)
(* request are, AnswerInv what its answer is; that the gate is right about *)
(* credentials needs what trimming does to text, for text of any length.   *)
(***************************************************************************)
EXTENDS Exchange, TLAPS, SequenceTheorems, NaturalsInduction, WellFoundedInduction

\* The calls that a request may lead to.
CallsOf(p, q) == {Call(p, q, key) : key \in p.keys}

\* What was sent for a request is that request, with a key of the pool that its
\* configuration gives the platform.
Faithful(c) == calls[c] \in Seq(CallsOf(PlatformOf(c), request[c]))

\* Only what the gate let through is forwarded.
Passed(c) == Forwarding(c) \/ calls[c] # <<>> => request[c] # None /\ Gate(under[c], request[c]) = None

\* Without the request, and the calls that come with it, nothing is known.
Idle(c) == request[c] = None => calls[c] = <<>> /\ answer[c] = None

ExchangeTypes ==
    /\ config \in Configs
    /\ request \in [Clients -> Requests \cup {None}]
    /\ under \in [Clients -> Configs]
    /\ answer \in [Clients -> Answers \cup {None}]
    /\ DOMAIN calls = Clients
    /\ calls = [c \in Clients |-> calls[c]]

Bounded(c) == Len(calls[c]) <= MaxRetries(under[c])

Sound(c) == Faithful(c) /\ Passed(c) /\ Idle(c) /\ Bounded(c)

ExchangeInv == ExchangeTypes /\ \A c \in Clients : Sound(c)

LEMMA ByAnswers ==
    ASSUME NEW who \in {"admin", "gateway", "upstream"}, NEW status \in 200..599
    PROVE  By(who, status) \in Answers /\ By(who, status) # None
BY ExchangeAssumption DEF By, Answers

\* The gate answers, or the request is one of an admitted client for a platform.
LEMMA GateFacts ==
    ASSUME NEW d, NEW q
    PROVE  /\ Gate(d, q) = None =>
                 /\ q.segment \notin Reserved /\ q.segment \in DOMAIN d.platforms
                 /\ Authorized(d, d.platforms[q.segment], q.headers)
           /\ Gate(d, q) \in Answers \cup {None}
<1>1. AdminStatus(d, q) \in 200..599
  BY DEF AdminStatus
<1>2. By("admin", AdminStatus(d, q)) \in Answers /\ By("admin", AdminStatus(d, q)) # None
  BY <1>1, ByAnswers
<1>3. /\ By("gateway", 404) \in Answers /\ By("gateway", 404) # None
      /\ By("gateway", 401) \in Answers /\ By("gateway", 401) # None
  BY ByAnswers
<1>. QED
  BY <1>2, <1>3, Zenon DEF Gate

LEMMA RetriesFacts ==
    ASSUME NEW d \in Configs
    PROVE  MaxRetries(d) \in Int /\ MaxRetries(d) >= 1
BY ExchangeAssumption DEF MaxRetries

LEMMA InitExchangeInv == Init => ExchangeInv
<1>. SUFFICES ASSUME Init PROVE ExchangeInv
  OBVIOUS
<1>1. ExchangeTypes
  BY DEF Init, ExchangeTypes
<1>2. ASSUME NEW c \in Clients PROVE Sound(c)
  <2>1. /\ request[c] = None /\ calls[c] = <<>> /\ answer[c] = None
        /\ under[c] \in Configs
    BY DEF Init
  <2>2. Faithful(c)
    BY <2>1 DEF Faithful
  <2>3. Bounded(c)
    BY <2>1, RetriesFacts DEF Bounded
  <2>. QED
    BY <2>1, <2>2, <2>3 DEF Sound, Passed, Idle, Forwarding
<1>. QED
  BY <1>1, <1>2 DEF ExchangeInv

\* A client whose exchange a step leaves alone.
LEMMA Untouched ==
    ASSUME NEW c \in Clients, Sound(c), request'[c] = request[c], under'[c] = under[c],
           calls'[c] = calls[c], answer'[c] = answer[c]
    PROVE  Sound(c)'
<1>1. PlatformOf(c)' = PlatformOf(c) /\ Forwarding(c)' = Forwarding(c)
  BY DEF PlatformOf, Forwarding
<1>. QED
  BY <1>1 DEF Sound, Faithful, Passed, Idle, Bounded

LEMMA StepExchangeInv == ExchangeInv /\ [Next]_vars => ExchangeInv'
<1>. SUFFICES ASSUME ExchangeInv, [Next]_vars PROVE ExchangeInv'
  OBVIOUS
<1>0. ExchangeTypes /\ \A c \in Clients : Sound(c)
  BY DEF ExchangeInv
<1>1. CASE Reload
  <2>1. ExchangeTypes'
    BY <1>0, <1>1 DEF Reload, ExchangeTypes
  <2>2. \A c \in Clients : Sound(c)'
    BY <1>0, <1>1, Untouched DEF Reload
  <2>. QED
    BY <2>1, <2>2 DEF ExchangeInv
<1>2. ASSUME NEW c \in Clients, NEW q \in Requests, Arrive(c, q)
      PROVE  ExchangeInv'
  <2>1. /\ request' = [request EXCEPT ![c] = q] /\ under' = [under EXCEPT ![c] = config]
        /\ calls' = [calls EXCEPT ![c] = <<>>] /\ answer' = [answer EXCEPT ![c] = Gate(config, q)]
        /\ config' = config
    BY <1>2 DEF Arrive
  <2>2. ExchangeTypes'
    BY <1>0, <2>1, GateFacts DEF ExchangeTypes
  <2>3. Sound(c)'
    <3>1. /\ request'[c] = q /\ under'[c] = config /\ calls'[c] = <<>> /\ answer'[c] = Gate(config, q)
          /\ q # None /\ config \in Configs
      BY <1>0, <2>1, ExchangeAssumption DEF ExchangeTypes
    <3>2. Faithful(c)'
      BY <3>1 DEF Faithful
    <3>3. Bounded(c)'
      BY <3>1, RetriesFacts DEF Bounded
    <3>4. Passed(c)' /\ Idle(c)'
      BY <3>1 DEF Passed, Idle, Forwarding
    <3>. QED
      BY <3>2, <3>3, <3>4 DEF Sound
  <2>4. ASSUME NEW d \in Clients, d # c PROVE Sound(d)'
    BY <1>0, <2>1, <2>4, Untouched DEF ExchangeTypes
  <2>. QED
    BY <2>2, <2>3, <2>4 DEF ExchangeInv
<1>3. ASSUME NEW c \in Clients, NEW key, Forward(c, key)
      PROVE  ExchangeInv'
  <2>. DEFINE call == Call(PlatformOf(c), request[c], key)
  <2>1. /\ request' = request /\ under' = under /\ config' = config
        /\ calls' = [calls EXCEPT ![c] = Append(@, call)]
        /\ Forwarding(c) /\ Len(calls[c]) < MaxRetries(under[c]) /\ key \in PlatformOf(c).keys
    BY <1>3 DEF Forward
  <2>2. /\ answer' \in [Clients -> Answers \cup {None}]
        /\ \A d \in Clients : d # c => answer'[d] = answer[d]
    <3>1. ASSUME NEW s \in Statuses PROVE By("upstream", s) \in Answers
      BY ExchangeAssumption, ByAnswers
    <3>2. \/ answer' = answer
          \/ \E s \in Statuses : answer' = [answer EXCEPT ![c] = By("upstream", s)]
      BY <1>3 DEF Forward
    <3>. QED
      BY <1>0, <3>1, <3>2 DEF ExchangeTypes
  <2>3. ExchangeTypes'
    BY <1>0, <2>1, <2>2 DEF ExchangeTypes
  <2>4. Sound(c)'
    <3>1. /\ calls[c] \in Seq(CallsOf(PlatformOf(c), request[c])) /\ call \in CallsOf(PlatformOf(c), request[c])
          /\ request[c] # None /\ Gate(under[c], request[c]) = None /\ under[c] \in Configs
      BY <1>0, <2>1 DEF Sound, Faithful, Passed, CallsOf, ExchangeTypes
    <3>. HIDE DEF call
    <3>2. calls'[c] = Append(calls[c], call) /\ PlatformOf(c)' = PlatformOf(c)
      BY <1>0, <2>1 DEF ExchangeTypes, PlatformOf
    <3>3. /\ calls'[c] \in Seq(CallsOf(PlatformOf(c), request[c]))
          /\ calls'[c] # <<>> /\ Len(calls'[c]) = Len(calls[c]) + 1 /\ Len(calls[c]) \in Nat
      BY <3>1, <3>2
    <3>4. Faithful(c)'
      BY <2>1, <3>2, <3>3 DEF Faithful
    <3>5. Bounded(c)'
      BY <2>1, <3>1, <3>3, RetriesFacts DEF Bounded
    <3>6. Passed(c)' /\ Idle(c)'
      BY <2>1, <3>1, <3>3 DEF Passed, Idle
    <3>. QED
      BY <3>4, <3>5, <3>6 DEF Sound
  <2>5. ASSUME NEW d \in Clients, d # c PROVE Sound(d)'
    BY <1>0, <2>1, <2>2, <2>5, Untouched DEF ExchangeTypes
  <2>. QED
    BY <2>3, <2>4, <2>5 DEF ExchangeInv
<1>4. ASSUME NEW c \in Clients, GiveUp(c)
      PROVE  ExchangeInv'
  <2>1. /\ request' = request /\ under' = under /\ calls' = calls /\ config' = config /\ Forwarding(c)
        /\ \/ answer' = [answer EXCEPT ![c] = By("gateway", 400)]
           \/ answer' = [answer EXCEPT ![c] = By("gateway", 503)]
    BY <1>4 DEF GiveUp
  <2>2. By("gateway", 400) \in Answers /\ By("gateway", 503) \in Answers
    BY ByAnswers
  <2>3. ExchangeTypes'
    BY <1>0, <2>1, <2>2 DEF ExchangeTypes
  <2>4. Sound(c)'
    <3>1. PlatformOf(c)' = PlatformOf(c) /\ request[c] # None
      BY <2>1 DEF PlatformOf, Forwarding
    <3>. QED
      BY <1>0, <2>1, <3>1 DEF Sound, Faithful, Passed, Idle, Bounded
  <2>5. ASSUME NEW d \in Clients, d # c PROVE Sound(d)'
    BY <1>0, <2>1, <2>5, Untouched DEF ExchangeTypes
  <2>. QED
    BY <2>3, <2>4, <2>5 DEF ExchangeInv
<1>5. ASSUME NEW c \in Clients, Leave(c)
      PROVE  ExchangeInv'
  <2>1. /\ request' = [request EXCEPT ![c] = None] /\ answer' = [answer EXCEPT ![c] = None]
        /\ calls' = [calls EXCEPT ![c] = <<>>] /\ under' = under /\ config' = config
    BY <1>5 DEF Leave
  <2>2. ExchangeTypes'
    BY <1>0, <2>1 DEF ExchangeTypes
  <2>3. Sound(c)'
    <3>1. request'[c] = None /\ calls'[c] = <<>> /\ answer'[c] = None /\ under'[c] \in Configs
      BY <1>0, <2>1 DEF ExchangeTypes
    <3>2. Bounded(c)'
      BY <3>1, RetriesFacts DEF Bounded
    <3>. QED
      BY <3>1, <3>2 DEF Sound, Faithful, Passed, Idle, Forwarding
  <2>4. ASSUME NEW d \in Clients, d # c PROVE Sound(d)'
    BY <1>0, <2>1, <2>4, Untouched DEF ExchangeTypes
  <2>. QED
    BY <2>2, <2>3, <2>4 DEF ExchangeInv
<1>6. CASE UNCHANGED vars
  <2>1. ExchangeTypes'
    BY <1>0, <1>6 DEF vars, ExchangeTypes
  <2>2. \A c \in Clients : Sound(c)'
    BY <1>0, <1>6, Untouched DEF vars
  <2>. QED
    BY <2>1, <2>2 DEF ExchangeInv
<1>. QED
  BY <1>1, <1>2, <1>3, <1>4, <1>5, <1>6, Zenon DEF Next

\* What is under way keeps to its request and to the configuration it came under.
THEOREM ExchangeInvariant == Spec => []ExchangeInv
BY InitExchangeInv, StepExchangeInv, PTL DEF Spec

\* No request leads to more calls than its configuration allows, none is answered
\* that nobody sent, and only requests for a platform lead to calls.
THEOREM ExchangeTypeCorrect == Spec => []ExchangeTypeOK
<1>1. ExchangeInv => ExchangeTypeOK
  <2>. SUFFICES ASSUME ExchangeInv PROVE ExchangeTypeOK
    OBVIOUS
  <2>1. ASSUME NEW c \in Clients
        PROVE  /\ Len(calls[c]) <= MaxRetries(under[c])
               /\ answer[c] # None => request[c] # None
               /\ calls[c] # <<>> => request[c] # None /\ request[c].segment \in DOMAIN under[c].platforms
    BY GateFacts DEF ExchangeInv, Sound, Bounded, Idle, Passed
  <2>. QED
    BY <2>1 DEF ExchangeInv, ExchangeTypes, ExchangeTypeOK
<1>. QED
  BY <1>1, ExchangeInvariant, PTL

LEMMA SentFacts ==
    ASSUME ExchangeInv, NEW c \in Clients, NEW i \in DOMAIN calls[c]
    PROVE  \E key \in PlatformOf(c).keys : calls[c][i] = Call(PlatformOf(c), request[c], key)
<1>1. calls[c] \in Seq(CallsOf(PlatformOf(c), request[c]))
  BY DEF ExchangeInv, Sound, Faithful
<1>2. calls[c][i] \in CallsOf(PlatformOf(c), request[c])
  BY <1>1
<1>. QED
  BY <1>2 DEF CallsOf

\* An upstream is sent exactly one credential, a key of the pool of its platform
\* under the configuration that the request came under, and nothing that the client
\* sent where credentials are looked for.
THEOREM CredentialsAlwaysApart == Spec => []CredentialsStayApart
<1>1. ExchangeInv => CredentialsStayApart
  <2>. SUFFICES ASSUME ExchangeInv, NEW c \in Clients, NEW i \in DOMAIN calls[c]
                PROVE  LET own == CredentialHeader(PlatformOf(c)) IN
                       /\ \E key \in PlatformOf(c).keys :
                             calls[c][i].headers[own] = <<WithPrefix(PlatformOf(c), key)>>
                       /\ DOMAIN calls[c][i].headers \cap {"Authorization", "X-Apisports-Key"} \subseteq {own}
    BY DEF CredentialsStayApart
  <2>1. PICK key \in PlatformOf(c).keys : calls[c][i] = Call(PlatformOf(c), request[c], key)
    BY SentFacts
  <2>2. calls[c][i].headers = UpstreamHeaders(PlatformOf(c), request[c].headers, key)
    BY <2>1 DEF Call
  <2>. QED
    BY <2>2 DEF UpstreamHeaders, Blocked
<1>. QED
  BY <1>1, ExchangeInvariant, PTL

\* An upstream is sent a request only if its client showed a token in force when it
\* came, whatever is reloaded meanwhile: what the gate decided is not revised.
THEOREM OnlyTheAuthorizedAreForwarded ==
    Spec => [](\A c \in Clients :
                  calls[c] # <<>> => Authorized(under[c], PlatformOf(c), request[c].headers))
<1>1. ExchangeInv => \A c \in Clients :
                        calls[c] # <<>> => Authorized(under[c], PlatformOf(c), request[c].headers)
  BY GateFacts, Zenon DEF ExchangeInv, Sound, Passed, PlatformOf
<1>. QED
  BY <1>1, ExchangeInvariant, PTL
-----------------------------------------------------------------------------
(* Text. *)

LEMMA SmallestExists ==
    ASSUME NEW S \in SUBSET Nat, S # {}
    PROVE  Min(S) \in S /\ \A j \in S : Min(S) <= j
<1>1. PICK k \in S : \A j \in S : <<j, k>> \notin OpToRel(<, Nat)
  BY WFMin, NatLessThanWellFounded, Zenon
<1>2. S \subseteq Nat /\ \A j \in S : ~(j < k)
  BY <1>1 DEF OpToRel
<1>3. \A j \in S : k <= j
  BY <1>2
<1>. QED
  BY <1>3 DEF Min

LEMMA LargestExists ==
    ASSUME NEW n \in Nat, NEW S \in SUBSET (1..n), S # {}
    PROVE  Max(S) \in S /\ \A j \in S : j <= Max(S)
<1>. DEFINE above == {k \in Nat : \A j \in S : j <= k}
<1>1. above \in SUBSET Nat /\ above # {}
  <2>1. n \in above
    OBVIOUS
  <2>. QED
    BY <2>1
<1>. HIDE DEF above
<1>2. PICK k \in Nat : k \in above /\ \A j \in above : k <= j
  BY <1>1, SmallestExists
<1>3. \A j \in S : j <= k
  BY <1>2 DEF above
<1>4. k \in S
  <2>1. SUFFICES ASSUME k \notin S PROVE FALSE
    OBVIOUS
  <2>2. PICK j \in S : TRUE
    OBVIOUS
  <2>3. k >= 1 /\ k - 1 \in Nat
    BY <1>3, <2>2
  <2>4. \A i \in S : i <= k - 1
    BY <1>3, <2>1
  <2>5. k - 1 \in above
    BY <2>3, <2>4 DEF above
  <2>. QED
    BY <1>2, <2>5
<1>. QED
  BY <1>3, <1>4 DEF Max

\* What is between the first and the last word that is not blank.
LEMMA TrimFacts ==
    ASSUME NEW v \in Text
    PROVE  \/ Trim(v) = <<>> /\ \A i \in 1..Len(v) : v[i] = Blank
           \/ \E m, n \in 1..Len(v) :
                 /\ m <= n /\ v[m] # Blank /\ v[n] # Blank
                 /\ \A i \in 1..Len(v) : v[i] # Blank => m <= i /\ i <= n
                 /\ Trim(v) = SubSeq(v, m, n)
                 /\ Trim(v) \in Text /\ Len(Trim(v)) = n - m + 1
                 /\ \A i \in 1..(n - m + 1) : Trim(v)[i] = v[m + i - 1]
<1>. DEFINE full == {i \in DOMAIN v : v[i] # Blank}
<1>1. v \in Seq(Words) /\ Len(v) \in Nat /\ DOMAIN v = 1..Len(v) /\ \A i \in 1..Len(v) : v[i] \in Words
  BY LenProperties, ElementOfSeq DEF Text
<1>2. CASE full = {}
  BY <1>1, <1>2 DEF Trim
<1>3. CASE full # {}
  <2>. DEFINE m == Min(full)
              n == Max(full)
  <2>0. full \in SUBSET (1..Len(v))
    BY <1>1
  <2>1. m \in full /\ \A i \in full : m <= i
    <3>1. full \in SUBSET Nat
      BY <1>1, <2>0
    <3>. HIDE DEF full
    <3>. QED
      BY <1>3, <3>1, SmallestExists
  <2>2. n \in full /\ \A i \in full : i <= n
    <3>. HIDE DEF full
    <3>. QED
      BY <1>1, <1>3, <2>0, LargestExists
  <2>3. Trim(v) = SubSeq(v, m, n)
    BY <1>3 DEF Trim
  <2>. HIDE DEF m, n
  <2>4. m \in 1..Len(v) /\ n \in 1..Len(v) /\ m <= n /\ v[m] # Blank /\ v[n] # Blank
    BY <1>1, <2>1, <2>2
  <2>5. \A i \in 1..Len(v) : v[i] # Blank => m <= i /\ i <= n
    BY <1>1, <2>1, <2>2
  <2>6. /\ SubSeq(v, m, n) \in Seq(Words)
        /\ Len(SubSeq(v, m, n)) = n - m + 1
        /\ \A i \in 1..(n - m + 1) : SubSeq(v, m, n)[i] = v[m + i - 1]
    <3>0. m \in Int /\ n \in Int /\ \A i \in m..n : i \in 1..Len(v)
      BY <1>1, <2>4
    <3>1. \A i \in m..n : v[i] \in Words
      BY <1>1, <3>0
    <3>2. /\ SubSeq(v, m, n) \in Seq(Words)
          /\ Len(SubSeq(v, m, n)) = IF m <= n THEN n - m + 1 ELSE 0
          /\ \A i \in 1..(n - m + 1) : SubSeq(v, m, n)[i] = v[m + i - 1]
      BY <3>0, <3>1, SubSeqProperties
    <3>. QED
      BY <2>4, <3>2
  <2>. QED
    BY <2>3, <2>4, <2>5, <2>6 DEF Text
<1>. QED
  BY <1>2, <1>3

\* Text that neither begins nor ends with a blank stays as it is.
LEMMA TrimmedStays ==
    ASSUME NEW v \in Text, v = <<>> \/ (v[1] # Blank /\ v[Len(v)] # Blank)
    PROVE  Trim(v) = v
<1>1. Len(v) \in Nat /\ (v # <<>> => Len(v) > 0) /\ v \in Seq(Words)
  <2>1. v \in Seq(Words)
    BY DEF Text
  <2>2. Len(v) \in Nat /\ (v # <<>> => Len(v) \in Nat \ {0})
    BY <2>1, LenProperties, EmptySeq
  <2>. QED
    BY <2>1, <2>2
<1>2. CASE v = <<>>
  BY <1>2 DEF Trim
<1>3. CASE v # <<>>
  <2>1. 1 \in 1..Len(v) /\ Len(v) \in 1..Len(v)
    BY <1>1, <1>3
  <2>2. PICK m \in 1..Len(v), n \in 1..Len(v) :
           /\ \A i \in 1..Len(v) : v[i] # Blank => m <= i /\ i <= n
           /\ Trim(v) = SubSeq(v, m, n)
    BY <1>3, <2>1, TrimFacts
  <2>3. m = 1 /\ n = Len(v)
    BY <1>1, <1>3, <2>1, <2>2
  <2>4. SubSeq(v, 1, Len(v)) = v
    BY <1>1, SubSeqFull
  <2>. QED
    BY <2>2, <2>3, <2>4
<1>. QED
  BY <1>2, <1>3

\* What is trimmed neither begins nor ends with a blank.
LEMMA TrimIsTrimmed ==
    ASSUME NEW v \in Text
    PROVE  /\ Trim(v) \in Text
           /\ Trim(v) # <<>> => Trim(v)[1] # Blank /\ Trim(v)[Len(Trim(v))] # Blank
<1>1. CASE Trim(v) = <<>>
  BY <1>1, EmptySeq DEF Text
<1>2. CASE Trim(v) # <<>>
  <2>0. Len(v) \in Nat
    BY LenProperties DEF Text
  <2>1. PICK m \in 1..Len(v), n \in 1..Len(v) :
           /\ m <= n /\ v[m] # Blank /\ v[n] # Blank
           /\ Trim(v) \in Text /\ Len(Trim(v)) = n - m + 1
           /\ \A i \in 1..(n - m + 1) : Trim(v)[i] = v[m + i - 1]
    BY <1>2, TrimFacts
  <2>2. 1 \in 1..(n - m + 1) /\ n - m + 1 \in 1..(n - m + 1) /\ m + 1 - 1 = m /\ m + (n - m + 1) - 1 = n
    BY <2>0, <2>1
  <2>. QED
    BY <2>1, <2>2
<1>. QED
  BY <1>1, <1>2

LEMMA TailFacts ==
    ASSUME NEW v \in Text, Len(v) >= 2
    PROVE  /\ Tail(v) \in Text /\ Len(Tail(v)) = Len(v) - 1 /\ Len(v) \in Nat
           /\ \A i \in 1..(Len(v) - 1) : Tail(v)[i] = v[i + 1]
<1>1. v \in Seq(Words) /\ v # <<>> /\ Len(v) \in Nat
  BY DEF Text
<1>. QED
  BY <1>1, HeadTailProperties DEF Text

\* A token is the end of what is shown.
EndsWith(s, t) == Len(t) <= Len(s) /\ SubSeq(s, Len(s) - Len(t) + 1, Len(s)) = t

LEMMA EndsWithItself ==
    ASSUME NEW v \in Text
    PROVE  EndsWith(v, v)
<1>1. v \in Seq(Words) /\ Len(v) \in Nat /\ Len(v) - Len(v) + 1 = 1
  BY DEF Text
<1>. QED
  BY <1>1, SubSeqFull DEF EndsWith

LEMMA BearerIsTheEnd ==
    ASSUME NEW v \in Text, NEW value, value = Trim(v), Bearer(value) # <<>>
    PROVE  EndsWith(value, Bearer(value))
<1>1. value \in Text
  BY TrimIsTrimmed
<1>2. Len(value) >= 2 /\ Bearer(value) = Trim(Tail(value))
  BY DEF Bearer
<1>. DEFINE t == Tail(value)
            L == Len(value)
<1>3. /\ t \in Text /\ Len(t) = L - 1 /\ L \in Nat /\ L >= 2
      /\ \A i \in 1..(L - 1) : t[i] = value[i + 1]
  BY <1>1, <1>2, TailFacts
<1>4. value[L] # Blank
  <2>1. value # <<>>
    BY <1>2
  <2>. QED
    BY <2>1, TrimIsTrimmed
<1>. HIDE DEF t, L
<1>5. t[L - 1] # Blank
  <2>1. L - 1 \in 1..(L - 1) /\ L - 1 + 1 = L
    BY <1>3
  <2>. QED
    BY <1>3, <1>4, <2>1
<1>6. PICK m \in 1..(L - 1), n \in 1..(L - 1) :
         /\ m <= n
         /\ \A i \in 1..(L - 1) : t[i] # Blank => m <= i /\ i <= n
         /\ Trim(t) \in Text /\ Len(Trim(t)) = n - m + 1
         /\ \A i \in 1..(n - m + 1) : Trim(t)[i] = t[m + i - 1]
  <2>1. L - 1 \in 1..Len(t) /\ 1..(L - 1) = 1..Len(t)
    BY <1>3
  <2>. QED
    <3>1. ~(\A i \in 1..Len(t) : t[i] = Blank)
      BY <1>5, <2>1
    <3>2. \E m, n \in 1..Len(t) :
             /\ m <= n
             /\ \A i \in 1..Len(t) : t[i] # Blank => m <= i /\ i <= n
             /\ Trim(t) \in Text /\ Len(Trim(t)) = n - m + 1
             /\ \A i \in 1..(n - m + 1) : Trim(t)[i] = t[m + i - 1]
      BY <1>3, <3>1, TrimFacts, Zenon
    <3>. QED
      BY <2>1, <3>2, Zenon
<1>7. n = L - 1
  BY <1>3, <1>5, <1>6
<1>. DEFINE k == L - m
<1>8. k \in Nat /\ k <= L /\ L - k + 1 \in 1..L /\ Len(Trim(t)) = k /\ L - k = m
  BY <1>3, <1>6, <1>7
<1>9. \A i \in 1..k : Trim(t)[i] = value[L - k + 1 + i - 1]
  <2>1. ASSUME NEW i \in 1..k PROVE Trim(t)[i] = value[m + 1 + i - 1]
    <3>1. i \in 1..(n - m + 1) /\ m + i - 1 \in 1..(L - 1) /\ m + i - 1 + 1 = m + 1 + i - 1
      BY <1>3, <1>6, <1>7
    <3>. QED
      BY <1>3, <1>6, <3>1
  <2>. QED
    BY <1>8, <2>1
<1>. HIDE DEF k
<1>10. SubSeq(value, L - k + 1, L) = Trim(t)
  <2>. DEFINE s == SubSeq(value, L - k + 1, L)
  <2>0. value \in Seq(Words) /\ L = Len(value) /\ Trim(t) \in Seq(Words)
    BY <1>1, <1>6 DEF Text, L
  <2>1. \A i \in (L - k + 1)..L : value[i] \in Words
    <3>1. \A i \in (L - k + 1)..L : i \in 1..Len(value)
      BY <1>3, <1>8, <2>0
    <3>. QED
      BY <2>0, <3>1, ElementOfSeq
  <2>2. /\ s \in Seq(Words)
        /\ Len(s) = IF L - k + 1 <= L THEN L - (L - k + 1) + 1 ELSE 0
        /\ \A i \in 1..(L - (L - k + 1) + 1) : s[i] = value[L - k + 1 + i - 1]
    <3>1. L - k + 1 \in Int /\ L \in Int
      BY <1>3, <1>8
    <3>. QED
      BY <2>1, <3>1, SubSeqProperties
  <2>3. Len(s) = k /\ \A i \in 1..k : s[i] = value[L - k + 1 + i - 1]
    <3>1. L - (L - k + 1) + 1 = k
      BY <1>3, <1>8
    <3>2. k > 0 => L - k + 1 <= L
      BY <1>3, <1>8
    <3>3. ~(L - k + 1 <= L) => k = 0
      BY <1>3, <1>8
    <3>. QED
      BY <2>2, <3>1, <3>3
  <2>. HIDE DEF s
  <2>4. s = Trim(t)
    BY <1>8, <1>9, <2>0, <2>2, <2>3, SeqEqual
  <2>. QED
    BY <2>4 DEF s
<1>. QED
  BY <1>2, <1>8, <1>10 DEF EndsWith, t, L

LEMMA GetIsText ==
    ASSUME NEW q \in Requests, NEW name
    PROVE  Get(q.headers, name) \in Text
<1>1. CASE Canonical(name) \in DOMAIN q.headers
  <2>1. q.headers[Canonical(name)] \in Seq(Text) /\ q.headers[Canonical(name)] # <<>>
    BY <1>1, TextAssumption
  <2>. QED
    BY <1>1, <2>1, HeadTailProperties DEF Get
<1>2. CASE Canonical(name) \notin DOMAIN q.headers
  BY <1>2, EmptySeq DEF Get, Text
<1>. QED
  BY <1>1, <1>2
-----------------------------------------------------------------------------
(* Who is let in. *)

\* Where tokens are checked, no upstream is sent a request of a client that shows
\* none of those in force when it came, at the end of the header that the platform
\* takes its credential from.
THEOREM OnlyTokenHoldersAreForwarded == Spec => []OnlyTheAdmittedAreForwarded
<1>1. ExchangeInv => OnlyTheAdmittedAreForwarded
  <2>. SUFFICES ASSUME ExchangeInv, NEW c \in Clients, calls[c] # <<>>, under[c].auth_enabled
                PROVE  \E token \in Whitelist(under[c]) :
                          EndsWith(Trim(Get(request[c].headers, CredentialHeader(PlatformOf(c)))), token)
    BY DEF OnlyTheAdmittedAreForwarded, EndsWith
  <2>. DEFINE p == PlatformOf(c)
              got == Get(request[c].headers, CredentialHeader(p))
              token == ClientToken(p, request[c].headers)
  <2>1. token \in Whitelist(under[c]) /\ request[c] \in Requests
    BY GateFacts DEF ExchangeInv, ExchangeTypes, Sound, Passed, PlatformOf, Authorized
  <2>2. got \in Text
    BY <2>1, GetIsText
  <2>3. token = Trim(got) \/ (token = Bearer(Trim(got)) /\ Bearer(Trim(got)) # <<>>)
    BY DEF ClientToken
  <2>. HIDE DEF got, token
  <2>4. EndsWith(Trim(got), token)
    BY <2>2, <2>3, TrimIsTrimmed, EndsWithItself, BearerIsTheEnd
  <2>. QED
    BY <2>1, <2>4 DEF got
<1>. QED
  BY <1>1, ExchangeInvariant, PTL
-----------------------------------------------------------------------------
(* Paths. *)

LEMMA NothingToCut ==
    ASSUME NEW S, NEW t \in Seq(S), NEW u, \A i \in DOMAIN t : t[i] # u
    PROVE  Before(t, u) = t /\ After(t, u) = <<>>
<1>1. Places(t, u) = {}
  BY DEF Places
<1>. QED
  BY <1>1 DEF Before, After

LEMMA Joined ==
    ASSUME NEW S, NEW t \in Seq(S), NEW rest \in Seq(S), NEW u \in S
    PROVE  LET whole == t \o (<<u>> \o rest) IN
           /\ whole \in Seq(S) /\ Len(whole) = Len(t) + Len(rest) + 1
           /\ \A i \in 1..Len(t) : whole[i] = t[i]
           /\ whole[Len(t) + 1] = u
           /\ \A i \in 1..Len(rest) : whole[Len(t) + 1 + i] = rest[i]
<1>. DEFINE m == Len(t)
            n == Len(rest)
            tail == <<u>> \o rest
            whole == t \o tail
<1>1. m \in Nat /\ n \in Nat
  OBVIOUS
<1>2. /\ tail \in Seq(S) /\ Len(tail) = n + 1 /\ tail[1] = u
      /\ \A i \in 1..n : tail[i + 1] = rest[i]
  <2>1. <<u>> \in Seq(S) /\ Len(<<u>>) = 1 /\ <<u>>[1] = u
    OBVIOUS
  <2>2. /\ tail \in Seq(S) /\ Len(tail) = 1 + n
        /\ \A i \in 1..(1 + n) : tail[i] = IF i <= 1 THEN <<u>>[i] ELSE rest[i - 1]
    BY <2>1, ConcatProperties
  <2>3. \A i \in 1..n : i + 1 \in 1..(1 + n) /\ ~(i + 1 <= 1) /\ i + 1 - 1 = i
    BY <1>1
  <2>4. 1 \in 1..(1 + n)
    BY <1>1
  <2>. QED
    BY <1>1, <2>1, <2>2, <2>3, <2>4
<1>. HIDE DEF tail
<1>3. /\ whole \in Seq(S) /\ Len(whole) = m + Len(tail)
      /\ \A i \in 1..(m + Len(tail)) : whole[i] = IF i <= m THEN t[i] ELSE tail[i - m]
  BY <1>2, ConcatProperties
<1>. HIDE DEF whole, m, n
<1>4. Len(whole) = m + n + 1 /\ Len(tail) = n + 1
  BY <1>1, <1>2, <1>3
<1>5. ASSUME NEW i \in 1..m PROVE whole[i] = t[i]
  <2>1. i \in 1..(m + Len(tail)) /\ i <= m
    BY <1>1, <1>4
  <2>. QED
    BY <1>3, <2>1, Zenon
<1>6. ASSUME NEW i, i = m + 1 PROVE whole[i] = u
  <2>1. i \in 1..(m + Len(tail)) /\ ~(i <= m) /\ i - m = 1
    BY <1>1, <1>4, <1>6
  <2>2. whole[i] = tail[i - m]
    BY <1>3, <2>1, Zenon
  <2>. QED
    BY <1>2, <2>1, <2>2, Zenon
<1>7. ASSUME NEW i \in 1..n, NEW k, k = m + 1 + i PROVE whole[k] = rest[i]
  <2>1. k \in 1..(m + Len(tail)) /\ ~(k <= m) /\ k - m = i + 1
    BY <1>1, <1>4, <1>7
  <2>2. whole[k] = tail[k - m]
    BY <1>3, <2>1, Zenon
  <2>. QED
    BY <1>2, <2>1, <2>2, Zenon
<1>. QED
  BY <1>3, <1>4, <1>5, <1>6, <1>7 DEF whole, tail, m, n

LEMMA CutOnce ==
    ASSUME NEW S, NEW t \in Seq(S), NEW rest \in Seq(S), NEW u \in S, \A i \in DOMAIN t : t[i] # u
    PROVE  LET whole == t \o (<<u>> \o rest) IN
           /\ whole \in Seq(S) /\ Before(whole, u) = t /\ After(whole, u) = rest
           /\ \A i \in DOMAIN whole : whole[i] = u \/ (\E j \in DOMAIN t : whole[i] = t[j])
                                                 \/ (\E j \in DOMAIN rest : whole[i] = rest[j])
<1>. DEFINE m == Len(t)
            n == Len(rest)
            whole == t \o (<<u>> \o rest)
<1>1. m \in Nat /\ n \in Nat /\ DOMAIN t = 1..m /\ DOMAIN rest = 1..n
  OBVIOUS
<1>2. /\ whole \in Seq(S) /\ Len(whole) = m + n + 1
      /\ \A i \in 1..m : whole[i] = t[i]
      /\ whole[m + 1] = u
      /\ \A i \in 1..n : whole[m + 1 + i] = rest[i]
  BY Joined
<1>. HIDE DEF whole, m, n
<1>3. /\ Len(whole) = m + n + 1 /\ DOMAIN whole = 1..(m + n + 1)
      /\ \A i \in 1..m : whole[i] = t[i]
      /\ whole[m + 1] = u
      /\ \A i \in 1..n : whole[m + 1 + i] = rest[i]
      /\ whole \in Seq(S)
  BY <1>1, <1>2
<1>4. \A i \in DOMAIN whole : i \in 1..m \/ i = m + 1 \/ (\E j \in 1..n : m + 1 + j = i)
  <2>. SUFFICES ASSUME NEW i \in 1..(m + n + 1), i \notin 1..m, i # m + 1
                PROVE  \E j \in 1..n : m + 1 + j = i
    BY <1>3
  <2>1. i - (m + 1) \in 1..n /\ m + 1 + (i - (m + 1)) = i
    BY <1>1
  <2>. QED
    BY <2>1
<1>5. Places(whole, u) # {} /\ Min(Places(whole, u)) = m + 1
  <2>1. m + 1 \in Places(whole, u)
    BY <1>1, <1>3 DEF Places
  <2>2. Places(whole, u) \in SUBSET Nat
    BY <1>1, <1>3 DEF Places
  <2>3. /\ Min(Places(whole, u)) \in Places(whole, u)
        /\ \A j \in Places(whole, u) : Min(Places(whole, u)) <= j
    BY <2>1, <2>2, SmallestExists
  <2>4. ASSUME NEW j \in Places(whole, u) PROVE j >= m + 1
    <3>1. j \in 1..(m + n + 1) /\ whole[j] = u
      BY <1>3 DEF Places
    <3>2. j \notin 1..m
      BY <1>1, <1>3, <3>1
    <3>. QED
      BY <1>1, <3>1, <3>2
  <2>. QED
    BY <1>1, <2>1, <2>2, <2>3, <2>4
<1>6. Before(whole, u) = t
  <2>1. Before(whole, u) = SubSeq(whole, 1, m)
    BY <1>1, <1>5 DEF Before
  <2>2. /\ SubSeq(whole, 1, m) \in Seq(S) /\ Len(SubSeq(whole, 1, m)) = m
        /\ \A i \in 1..m : SubSeq(whole, 1, m)[i] = whole[i]
    BY <1>1, <1>3
  <2>. QED
    BY <1>1, <1>3, <2>1, <2>2, SeqEqual DEF m
<1>7. After(whole, u) = rest
  <2>. DEFINE s == SubSeq(whole, m + 1 + 1, m + n + 1)
  <2>1. After(whole, u) = s
    BY <1>1, <1>3, <1>5 DEF After
  <2>2. /\ s \in Seq(S) /\ Len(s) = n
        /\ \A i \in 1..n : s[i] = whole[m + 1 + i]
    <3>1. /\ m + 1 + 1 \in 1..(Len(whole) + 1) /\ m + n + 1 \in (m + 1)..Len(whole)
          /\ m + n + 1 - (m + 1 + 1) + 1 = n
          /\ \A i \in 1..n : m + 1 + 1 + i - 1 = m + 1 + i
      BY <1>1, <1>3
    <3>2. /\ s \in Seq(S)
          /\ Len(s) = IF m + 1 + 1 <= m + n + 1 THEN m + n + 1 - (m + 1 + 1) + 1 ELSE 0
          /\ \A i \in 1..(m + n + 1 - (m + 1 + 1) + 1) : s[i] = whole[m + 1 + 1 + i - 1]
      BY <1>1, <1>3, <3>1, SubSeqProperties
    <3>. HIDE DEF s
    <3>3. Len(s) = n
      BY <1>1, <3>2
    <3>. QED
      BY <1>1, <3>1, <3>2, <3>3
  <2>. HIDE DEF s
  <2>3. Len(s) = Len(rest) /\ \A i \in 1..Len(s) : s[i] = rest[i]
    BY <1>3, <2>2, Zenon DEF n
  <2>. QED
    BY <2>1, <2>2, <2>3, SeqEqual
<1>8. \A i \in DOMAIN whole : whole[i] = u \/ (\E j \in DOMAIN t : whole[i] = t[j])
                                          \/ (\E j \in DOMAIN rest : whole[i] = rest[j])
  <2>. SUFFICES ASSUME NEW i \in DOMAIN whole
                PROVE  \/ whole[i] = u \/ (\E j \in DOMAIN t : whole[i] = t[j])
                       \/ (\E j \in DOMAIN rest : whole[i] = rest[j])
    OBVIOUS
  <2>1. ASSUME i \in 1..m PROVE \E j \in DOMAIN t : whole[i] = t[j]
    BY <1>1, <1>3, <2>1
  <2>2. ASSUME NEW j \in 1..n, m + 1 + j = i PROVE \E k \in DOMAIN rest : whole[i] = rest[k]
    BY <1>1, <1>3, <2>2
  <2>. QED
    BY <1>3, <1>4, <2>1, <2>2
<1>. QED
  BY <1>2, <1>6, <1>7, <1>8 DEF whole

\* A plain path comes out of the decoding and the parsing as it went in.
LEMMA PlainIsSent ==
    ASSUME NEW q \in Requests, Plain(q.rest)
    PROVE  Target(q).path = q.rest /\ Target(q).query = q.query
<1>. DEFINE S == Words \cup {" ", "?"}
            rest == q.rest
            d == Decoded(rest)
            n == Len(rest)
<1>0. rest \in Seq(Words) /\ q.query \in Seq(Words)
  BY PathAssumption DEF Text
<1>1. /\ \A i \in DOMAIN rest : rest[i] \notin {"?", "#", "%", " ", "LF"}
      /\ \A i \in DOMAIN q.query : q.query[i] # "#"
      /\ \A i \in DOMAIN rest : rest[i] \notin {"%2F", "%3F", "%23", "%25", "%252F", "%0A"}
  BY PathAssumption DEF Plain
<1>. HIDE DEF rest
<1>2. \A i \in DOMAIN rest : Unescaped(rest[i]) = IF rest[i] = "%20" THEN " " ELSE rest[i]
  BY <1>1 DEF Unescaped
<1>3. /\ d = [i \in DOMAIN rest |-> d[i]]
      /\ \A i \in DOMAIN rest : d[i] = IF rest[i] = "%20" THEN " " ELSE rest[i]
  BY <1>2 DEF Decoded
<1>. HIDE DEF d
<1>4. n \in Nat /\ DOMAIN rest = 1..n /\ DOMAIN d = 1..n
      /\ rest = [i \in 1..n |-> rest[i]]
      /\ \A i \in 1..n : rest[i] \in Words
  <2>1. n \in Nat /\ DOMAIN rest = 1..n /\ \A i \in 1..n : rest[i] \in Words
    BY <1>0
  <2>2. rest = [i \in DOMAIN rest |-> rest[i]]
    BY <1>0
  <2>. QED
    BY <1>3, <2>1, <2>2
<1>. HIDE DEF n
<1>5. d \in Seq(S) /\ \A i \in DOMAIN d : d[i] \notin {"?", "#", "%2F"}
  <2>1. \A i \in 1..n : d[i] \in S
    BY <1>3, <1>4
  <2>2. \A i \in 1..n : d[i] \notin {"?", "#", "%2F"}
    BY <1>1, <1>3, <1>4
  <2>3. d = [i \in 1..n |-> d[i]]
    BY <1>3, <1>4
  <2>. HIDE DEF S
  <2>. QED
    BY <1>4, <2>1, <2>2, <2>3
<1>. HIDE DEF S
<1>6. Escaped(d) = rest
  <2>1. \A i \in 1..n : (CASE d[i] = " " -> "%20"
                          [] d[i] = "%2F" /\ Places(d, " ") # {} -> "/"
                          [] OTHER -> d[i]) = rest[i]
    BY <1>1, <1>3, <1>4, <1>5
  <2>2. Escaped(d) = [i \in 1..n |-> rest[i]]
    BY <1>4, <2>1 DEF Escaped
  <2>. QED
    BY <1>4, <2>2
<1>7. CASE q.query = <<>>
  <2>1. RawURL(q) = d
    <3>1. RawURL(q) = d \o <<>>
      BY <1>7 DEF RawURL, d, rest
    <3>. QED
      BY <1>5, <3>1, ConcatEmptySeq, Zenon
  <2>2. Before(d, "#") = d /\ Before(d, "?") = d /\ After(d, "?") = <<>>
    BY <1>5, NothingToCut
  <2>. QED
    BY <1>6, <1>7, <2>1, <2>2 DEF Target, rest
<1>8. CASE q.query # <<>>
  <2>. DEFINE query == q.query
              mark == "?"
              whole == d \o (<<mark>> \o query)
  <2>1. RawURL(q) = whole
    BY <1>8 DEF RawURL, d, rest
  <2>2. query \in Seq(S)
    <3>1. Words \subseteq S
      BY DEF S
    <3>2. \A t \in Seq(Words) : t \in Seq(S)
      BY <3>1
    <3>. QED
      BY <1>0, <3>2, Zenon
  <2>3. mark \in S /\ \A i \in DOMAIN d : d[i] # mark
    BY <1>5 DEF S
  <2>. HIDE DEF query, mark
  <2>5. /\ whole \in Seq(S) /\ Before(whole, mark) = d /\ After(whole, mark) = query
        /\ \A i \in DOMAIN whole :
              whole[i] = mark \/ (\E j \in DOMAIN d : whole[i] = d[j])
                              \/ (\E j \in DOMAIN query : whole[i] = query[j])
    BY <1>5, <2>2, <2>3, CutOnce
  <2>. HIDE DEF whole
  <2>6. \A i \in DOMAIN whole : whole[i] # "#"
    <3>1. /\ mark # "#" /\ \A j \in DOMAIN d : d[j] # "#"
          /\ \A j \in DOMAIN query : query[j] # "#"
      BY <1>1, <1>3 DEF query, mark
    <3>. QED
      BY <2>5, <3>1, Zenon
  <2>7. Before(whole, "#") = whole
    BY <2>5, <2>6, NothingToCut
  <2>. QED
    BY <1>6, <2>1, <2>5, <2>7 DEF Target, rest, query, mark
<1>. QED
  BY <1>7, <1>8

\* Every attempt carries the whole request to the platform that was asked for, with
\* its path and query as they came if the path is plain.
THEOREM AttemptsAreTheRequest == Spec => []EveryAttemptIsTheRequest
<1>1. ExchangeInv => EveryAttemptIsTheRequest
  <2>. SUFFICES ASSUME ExchangeInv, NEW c \in Clients, NEW i \in DOMAIN calls[c]
                PROVE  LET call == calls[c][i]
                           own == CredentialHeader(PlatformOf(c))
                       IN  /\ call.to = PlatformOf(c).base /\ call.method = request[c].method
                           /\ call.body = request[c].body
                           /\ Plain(request[c].rest) =>
                                 call.path = request[c].rest /\ call.query = request[c].query
                           /\ \A n \in DOMAIN request[c].headers \ (Blocked \cup {own}) :
                                 call.headers[n] = request[c].headers[n]
    BY DEF EveryAttemptIsTheRequest
  <2>1. PICK key \in PlatformOf(c).keys : calls[c][i] = Call(PlatformOf(c), request[c], key)
    BY SentFacts
  <2>2. /\ calls[c][i].headers = UpstreamHeaders(PlatformOf(c), request[c].headers, key)
        /\ calls[c][i].to = PlatformOf(c).base /\ calls[c][i].method = request[c].method
        /\ calls[c][i].path = Target(request[c]).path /\ calls[c][i].query = Target(request[c]).query
        /\ calls[c][i].body = request[c].body
    BY <2>1 DEF Call
  <2>3. request[c] \in Requests
    <3>1. calls[c] # <<>>
      OBVIOUS
    <3>. QED
      BY <3>1 DEF ExchangeInv, ExchangeTypes, Sound, Passed
  <2>. QED
    BY <2>2, <2>3, PlainIsSent DEF UpstreamHeaders
<1>. QED
  BY <1>1, ExchangeInvariant, PTL
-----------------------------------------------------------------------------
(* How requests are answered. *)

\* The gate's answer stands; behind the gate upstreams answer, or nobody could be
\* asked.
Answered(c) ==
    request[c] # None =>
       IF Gate(under[c], request[c]) = None
       THEN answer[c] = None \/ answer[c].by = "upstream" \/ answer[c].status \in {400, 503}
       ELSE answer[c] = Gate(under[c], request[c])

\* Nobody logs in with an empty key.
LoggedIn(c) == session[c] # None => session[c] # <<>>

AnswerInv ==
    /\ ExchangeTypes
    /\ session \in [Clients -> Text \cup {None}]
    /\ \A c \in Clients : Answered(c) /\ LoggedIn(c)

LEMMA LoginFacts ==
    ASSUME NEW d \in Configs, NEW q, Gate(d, q) = By("admin", 200),
           q.segment = "__gateway", q.rest = Session
    PROVE  q.body \in Text /\ q.body # <<>>
<1>1. AdminStatus(d, q) = 200
  BY DEF Gate, By, Reserved
<1>2. ValidAdminKey(d, q.body)
  <2>1. q.rest \in Endpoints /\ q.rest \notin Protected
    BY DEF Endpoints, Protected, Session
  <2>2. q.method = "POST"
    BY <1>1, <2>1 DEF AdminStatus, Allowed
  <2>. QED
    BY <1>1, <2>1, <2>2 DEF AdminStatus
<1>. QED
  BY <1>2, TextAssumption DEF ValidAdminKey

LEMMA AnswerInvInit == Init => AnswerInv
<1>. SUFFICES ASSUME Init PROVE AnswerInv
  OBVIOUS
<1>1. ExchangeTypes
  BY InitExchangeInv DEF ExchangeInv
<1>. QED
  BY <1>1 DEF AnswerInv, Answered, LoggedIn, Init

LEMMA AnsweredStays ==
    ASSUME NEW c \in Clients, Answered(c), request'[c] = request[c], under'[c] = under[c],
           answer'[c] = answer[c]
    PROVE  Answered(c)'
BY DEF Answered

LEMMA AnswerInvStep == AnswerInv /\ ExchangeInv' /\ [Next]_vars => AnswerInv'
<1>. SUFFICES ASSUME AnswerInv, ExchangeInv', [Next]_vars PROVE AnswerInv'
  OBVIOUS
<1>0. /\ request \in [Clients -> Requests \cup {None}] /\ under \in [Clients -> Configs]
      /\ answer \in [Clients -> Answers \cup {None}] /\ config \in Configs
      /\ session \in [Clients -> Text \cup {None}]
      /\ \A c \in Clients : Answered(c) /\ LoggedIn(c)
      /\ ExchangeTypes'
  BY DEF AnswerInv, ExchangeTypes, ExchangeInv
<1>. SUFFICES /\ session' \in [Clients -> Text \cup {None}]
              /\ \A c \in Clients : Answered(c)' /\ LoggedIn(c)'
  BY <1>0 DEF AnswerInv
<1>1. CASE UNCHANGED <<request, under, answer, session>>
  BY <1>0, <1>1, AnsweredStays DEF LoggedIn
<1>2. ASSUME NEW c \in Clients, NEW q \in Requests, Arrive(c, q)
      PROVE  /\ session' \in [Clients -> Text \cup {None}]
             /\ \A d \in Clients : Answered(d)' /\ LoggedIn(d)'
  <2>1. /\ request' = [request EXCEPT ![c] = q] /\ under' = [under EXCEPT ![c] = config]
        /\ answer' = [answer EXCEPT ![c] = Gate(config, q)]
        /\ session' = IF Gate(config, q) = By("admin", 200) /\ q.segment = "__gateway" /\ q.rest = Session
                      THEN [session EXCEPT ![c] = q.body] ELSE session
    BY <1>2 DEF Arrive
  <2>2. Answered(c)'
    BY <1>0, <2>1 DEF Answered
  <2>3. ASSUME NEW d \in Clients, d # c PROVE Answered(d)'
    BY <1>0, <2>1, <2>3, AnsweredStays
  <2>4. CASE Gate(config, q) = By("admin", 200) /\ q.segment = "__gateway" /\ q.rest = Session
    <3>1. q.body \in Text /\ q.body # <<>>
      BY <1>0, <2>4, LoginFacts
    <3>2. session' = [session EXCEPT ![c] = q.body]
      BY <2>1, <2>4
    <3>3. session' \in [Clients -> Text \cup {None}]
      BY <1>0, <3>1, <3>2
    <3>4. \A d \in Clients : LoggedIn(d)'
      BY <1>0, <3>1, <3>2 DEF LoggedIn
    <3>. QED
      BY <2>2, <2>3, <3>3, <3>4
  <2>5. CASE session' = session
    <3>1. \A d \in Clients : LoggedIn(d)'
      BY <1>0, <2>5 DEF LoggedIn
    <3>. QED
      BY <1>0, <2>2, <2>3, <2>5, <3>1
  <2>. QED
    BY <2>1, <2>4, <2>5
<1>3. ASSUME NEW c \in Clients, UNCHANGED <<request, under, session>>, Forwarding(c),
             Gate(under[c], request[c]) = None,
             NEW a, answer' = [answer EXCEPT ![c] = a], a.by = "upstream" \/ a.status \in {400, 503}
      PROVE  /\ session' \in [Clients -> Text \cup {None}]
             /\ \A d \in Clients : Answered(d)' /\ LoggedIn(d)'
  <2>1. Answered(c)'
    BY <1>0, <1>3 DEF Answered
  <2>2. ASSUME NEW d \in Clients, d # c PROVE Answered(d)'
    BY <1>0, <1>3, <2>2, AnsweredStays
  <2>3. \A d \in Clients : LoggedIn(d)'
    BY <1>0, <1>3 DEF LoggedIn
  <2>. QED
    BY <1>0, <1>3, <2>1, <2>2, <2>3
<1>4. ASSUME NEW c \in Clients, Forwarding(c)
      PROVE  Gate(under[c], request[c]) = None
  BY <1>0, <1>4 DEF Answered, Forwarding
<1>5. ASSUME NEW c \in Clients, NEW key, Forward(c, key)
      PROVE  /\ session' \in [Clients -> Text \cup {None}]
             /\ \A d \in Clients : Answered(d)' /\ LoggedIn(d)'
  <2>1. Forwarding(c) /\ UNCHANGED <<request, under, session>>
    BY <1>5 DEF Forward
  <2>2. CASE answer' = answer
    BY <1>1, <2>1, <2>2
  <2>3. ASSUME NEW s \in Statuses, answer' = [answer EXCEPT ![c] = By("upstream", s)]
        PROVE  /\ session' \in [Clients -> Text \cup {None}]
               /\ \A d \in Clients : Answered(d)' /\ LoggedIn(d)'
    <3>1. By("upstream", s).by = "upstream"
      BY DEF By
    <3>. QED
      BY <1>3, <1>4, <2>1, <2>3, <3>1
  <2>. QED
    BY <1>5, <2>2, <2>3 DEF Forward
<1>6. ASSUME NEW c \in Clients, GiveUp(c)
      PROVE  /\ session' \in [Clients -> Text \cup {None}]
             /\ \A d \in Clients : Answered(d)' /\ LoggedIn(d)'
  <2>1. /\ Forwarding(c) /\ UNCHANGED <<request, under, session>>
        /\ \E s \in {400, 503} : answer' = [answer EXCEPT ![c] = By("gateway", s)]
    BY <1>6 DEF GiveUp
  <2>2. PICK s \in {400, 503} : answer' = [answer EXCEPT ![c] = By("gateway", s)]
    BY <2>1
  <2>3. By("gateway", s).status \in {400, 503}
    BY DEF By
  <2>. QED
    BY <1>3, <1>4, <2>1, <2>2, <2>3
<1>7. ASSUME NEW c \in Clients, Leave(c)
      PROVE  /\ session' \in [Clients -> Text \cup {None}]
             /\ \A d \in Clients : Answered(d)' /\ LoggedIn(d)'
  <2>1. /\ request' = [request EXCEPT ![c] = None] /\ answer' = [answer EXCEPT ![c] = None]
        /\ UNCHANGED <<under, session>>
    BY <1>7 DEF Leave
  <2>2. Answered(c)'
    BY <1>0, <2>1 DEF Answered
  <2>3. ASSUME NEW d \in Clients, d # c PROVE Answered(d)'
    BY <1>0, <2>1, <2>3, AnsweredStays
  <2>4. \A d \in Clients : LoggedIn(d)'
    BY <1>0, <2>1 DEF LoggedIn
  <2>. QED
    BY <1>0, <2>1, <2>2, <2>3, <2>4
<1>8. Reload => UNCHANGED <<request, under, answer, session>>
  BY DEF Reload
<1>. QED
  BY <1>1, <1>2, <1>5, <1>6, <1>7, <1>8 DEF Next, vars

LEMMA AnswersInvariant == Spec => []AnswerInv
BY AnswerInvInit, AnswerInvStep, ExchangeInvariant, PTL DEF Spec


\* The key of a login comes out of the header as it went in.
LEMMA SchemeFacts ==
    ASSUME NEW key \in Text, key # <<>>, Trim(key) = key, NEW b \in Bearers
    PROVE  /\ Trim(<<b>> \o key) = <<b>> \o key
           /\ Bearer(<<b>> \o key) = key
<1>. DEFINE v == <<b>> \o key
            n == Len(key)
<1>1. key \in Seq(Words) /\ n \in Nat /\ n > 0 /\ b \in Words /\ b # Blank
  <2>1. key \in Seq(Words)
    BY DEF Text
  <2>2. n \in Nat \ {0}
    BY <2>1, EmptySeq
  <2>. QED
    BY <2>1, <2>2, TextAssumption
<1>2. <<b>> \in Seq(Words) /\ Len(<<b>>) = 1 /\ <<b>>[1] = b
  BY <1>1
<1>3. /\ v \in Seq(Words) /\ Len(v) = n + 1 /\ v[1] = b
      /\ \A i \in 1..n : v[i + 1] = key[i]
  <2>1. /\ v \in Seq(Words) /\ Len(v) = 1 + n
        /\ \A i \in 1..(1 + n) : v[i] = IF i <= 1 THEN <<b>>[i] ELSE key[i - 1]
    BY <1>1, <1>2, ConcatProperties
  <2>2. \A i \in 1..n : i + 1 \in 1..(1 + n) /\ ~(i + 1 <= 1) /\ i + 1 - 1 = i
    BY <1>1
  <2>3. 1 \in 1..(1 + n)
    BY <1>1
  <2>. QED
    BY <1>1, <1>2, <2>1, <2>2, <2>3
<1>4. key[n] # Blank
  BY TrimIsTrimmed
<1>. HIDE DEF v, n
<1>5. v[n + 1] # Blank
  <2>1. n \in 1..n
    BY <1>1
  <2>. QED
    BY <1>3, <1>4, <2>1
<1>6. Trim(v) = v
  BY <1>1, <1>3, <1>5, TrimmedStays DEF Text
<1>7. Bearer(v) = key
  <2>1. v # <<>>
    BY <1>1, <1>3
  <2>2. Head(v) = b
    BY <1>3, <2>1
  <2>3. Tail(v) = key
    <3>1. /\ Tail(v) \in Seq(Words) /\ Len(Tail(v)) = Len(v) - 1
          /\ \A i \in 1..Len(Tail(v)) : Tail(v)[i] = v[i + 1]
      BY <1>3, <2>1, HeadTailProperties
    <3>2. Len(Tail(v)) = n
      BY <1>1, <1>3, <3>1
    <3>. QED
      BY <1>1, <1>3, <3>1, <3>2, SeqEqual DEF n
  <2>4. Len(v) >= 2
    BY <1>1, <1>3
  <2>. QED
    BY <2>2, <2>3, <2>4 DEF Bearer
<1>. QED
  BY <1>6, <1>7 DEF v

\* Where the documented prefix is none, or Bearer in Authorization, who follows
\* the documentation is taken for who he is.
LEMMA DocumentedIsToken ==
    ASSUME NEW d \in Configs, NEW name \in DOMAIN d.platforms, NEW p, p = d.platforms[name],
           NEW token \in Text, Len(token) = 1, Trim(token) = token,
           Prefix(p) = <<>> \/ (CredentialHeader(p) = "Authorization" /\ \E b \in Bearers : Prefix(p) = <<b>>)
    PROVE  ClientToken(p, AsDocumented(p, token)) = token
<1>. DEFINE own == CredentialHeader(p)
            value == DocValue(p, token)
<1>1. Canonical(own) = own
  BY CanonicalAssumption
<1>2. Get(AsDocumented(p, token), own) = value
  <2>. HIDE DEF own, value
  <2>1. AsDocumented(p, token) = [n \in {own} |-> <<value>>]
    BY DEF AsDocumented, own, value
  <2>. QED
    BY <1>1, <2>1 DEF Get
<1>3. token \in Seq(Words) /\ <<>> \o token = token /\ token # <<>>
  <2>1. token \in Seq(Words)
    BY DEF Text
  <2>2. <<>> \o token = token
    BY <2>1, ConcatEmptySeq, Zenon
  <2>3. token # <<>>
    BY <2>1
  <2>. QED
    BY <2>1, <2>2, <2>3
<1>4. value = token \/ (own = "Authorization" /\ \E b \in Bearers : value = <<b>> \o token)
  <2>1. p.type = "generic_http" => Prefix(p) = p.prefix
    BY DEF Prefix
  <2>2. value = token \/ value = Prefix(p) \o token
    BY <2>1 DEF DocValue
  <2>. QED
    BY <1>3, <2>2
<1>. HIDE DEF own, value
<1>5. CASE value = token
  <2>1. Bearer(token) = <<>>
    BY DEF Bearer
  <2>. QED
    BY <1>2, <1>5, <2>1 DEF ClientToken, own
<1>6. ASSUME NEW b \in Bearers, own = "Authorization", value = <<b>> \o token
      PROVE  ClientToken(p, AsDocumented(p, token)) = token
  <2>1. Trim(value) = value /\ Bearer(value) = token
    BY <1>3, <1>6, SchemeFacts
  <2>. QED
    BY <1>2, <1>3, <1>6, <2>1 DEF ClientToken, own
<1>. QED
  BY <1>4, <1>5, <1>6

\* The documentation of a platform tells clients the truth, where the prefix is
\* none or Bearer, whatever is reloaded while they are served.
THEOREM DocumentedIsAlwaysAdmitted == Spec => []DocumentedIsAdmitted
<1>1. AnswerInv => DocumentedIsAdmitted
  <2>. SUFFICES ASSUME AnswerInv, NEW c \in Clients, NEW token \in UNION {Whitelist(d) : d \in Configs},
                       NEW name \in DOMAIN under[c].platforms \ Reserved,
                       FollowsDocs(c, name, token), Len(token) = 1,
                       NEW p, p = under[c].platforms[name],
                       \/ Prefix(p) = <<>>
                       \/ CredentialHeader(p) = "Authorization" /\ \E b \in Bearers : Prefix(p) = <<b>>
                PROVE  ~TurnedAway(c)
    BY Zenon DEF DocumentedIsAdmitted
  <2>1. /\ request[c] # None /\ request[c].segment = name /\ name \in DOMAIN under[c].platforms
        /\ token \in Whitelist(under[c])
        /\ request[c].headers = AsDocumented(p, token)
        /\ under[c] \in Configs
    BY DEF FollowsDocs, AnswerInv, ExchangeTypes
  <2>2. token \in Text /\ Trim(token) = token
    <3>1. PICK t \in under[c].tokens : token = Trim(t) /\ t \in Text
      BY <2>1, TextAssumption DEF Whitelist
    <3>. QED
      BY <3>1, TrimIsTrimmed, TrimmedStays
  <2>3. Authorized(under[c], p, request[c].headers)
    BY <2>1, <2>2, DocumentedIsToken DEF Authorized
  <2>4. Gate(under[c], request[c]) = None
    BY <2>1, <2>3 DEF Gate
  <2>5. answer[c] = None \/ answer[c].by = "upstream" \/ answer[c].status \in {400, 503}
    BY <2>1, <2>4 DEF AnswerInv, Answered
  <2>. QED
    BY <2>5 DEF TurnedAway
<1>. QED
  BY <1>1, AnswersInvariant, PTL

\* Who could log in is let in with what the login returned, until the key changes.
THEOREM LoginAlwaysMeansAccess == Spec => []LoginMeansAccess
<1>1. AnswerInv => LoginMeansAccess
  <2>. SUFFICES ASSUME AnswerInv, NEW c \in Clients, request[c] # None, session[c] # None,
                       session[c] = under[c].admin_key, Trim(session[c]) = session[c],
                       \E b \in Bearers :
                          request[c].headers = [n \in {"Authorization"} |-> <<<<b>> \o session[c]>>],
                       request[c].segment = "__gateway", request[c].rest \in Protected
                PROVE  answer[c].status # 401
    BY Zenon DEF LoginMeansAccess
  <2>0. PICK b \in Bearers : request[c].headers = [n \in {"Authorization"} |-> <<<<b>> \o session[c]>>]
    OBVIOUS
  <2>. DEFINE key == session[c]
              value == <<b>> \o key
              headers == request[c].headers
  <2>1. key \in Text /\ key # <<>>
    BY DEF AnswerInv, LoggedIn
  <2>2. Trim(value) = value /\ Bearer(value) = key
    BY <2>1, SchemeFacts
  <2>. HIDE DEF value
  <2>3. Get(headers, "X-Admin-Key") = <<>> /\ Get(headers, "Authorization") = value
    <3>1. headers = [n \in {"Authorization"} |-> <<value>>]
      BY <2>0 DEF value
    <3>. HIDE DEF headers
    <3>. QED
      BY <3>1, CanonicalAssumption DEF Get
  <2>4. Trim(<<>>) = <<>>
    BY DEF Trim
  <2>5. AdminToken(headers) = key
    BY <2>2, <2>3, <2>4 DEF AdminToken
  <2>6. ValidAdminKey(under[c], AdminToken(headers))
    BY <2>1, <2>5 DEF ValidAdminKey
  <2>7. AdminStatus(under[c], request[c]) \in {200, 405}
    <3>1. request[c].rest \in Endpoints /\ request[c].rest # Session
      BY DEF Endpoints, Protected, Session
    <3>. QED
      BY <2>6, <3>1 DEF AdminStatus
  <2>8. Gate(under[c], request[c]) = By("admin", AdminStatus(under[c], request[c]))
    BY DEF Gate, Reserved
  <2>9. answer[c] = By("admin", AdminStatus(under[c], request[c]))
    <3>1. By("admin", AdminStatus(under[c], request[c])) # None
      <4>1. AdminStatus(under[c], request[c]) \in 200..599
        BY <2>7
      <4>. QED
        BY <4>1, ByAnswers
    <3>. QED
      BY <2>8, <3>1 DEF AnswerInv, Answered
  <2>. QED
    BY <2>7, <2>9 DEF By
<1>. QED
  BY <1>1, AnswersInvariant, PTL
=============================================================================
