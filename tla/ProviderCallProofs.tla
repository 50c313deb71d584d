------------------------- MODULE ProviderCallProofs -------------------------
(***************************************************************************)
(* Capabilities and errors of ProviderCall, for every provider, policy,    *)
(* status and older build.  The inductive invariant counts the requests    *)
(* sent by the attempt and the point the call has reached, and says what   *)
(* an error that is left behind means there.                               *)
(***************************************************************************)
EXTENDS ProviderCall, RecursionLemmas

Methods == {"generate_once", "generate_structured_once", "stream_wire_events"}
Points == {"send", "reply", "backoff", "answered", "failed", "panicked"}
Configs == [json_schema : BOOLEAN, json_mode : BOOLEAN, prompt_caching : {FALSE}]

\* The delays a call may sleep.
Delays == UNION {DelaysForAttempt(p, n) : p \in Policies, n \in Nat}

\* What the call was given, and its histories.
CallTypes ==
  /\ entry \in Methods
  /\ provider \in Providers
  /\ declared \subseteq Capabilities
  /\ provider # "OpenAICompatible" => declared = Capabilities
  /\ config \in Configs
  /\ tools \in {<<>>, <<"add">>}
  /\ policy \in Policies
  /\ pc \in Points
  /\ attempt \in Nat
  /\ carried \in Seq(SUBSET Capabilities)
  /\ waits \in Seq(Delays)

\* A refusal comes before the first request, and always or never.
Refusing == provider = "OpenAICompatible" /\ IsSome(Refused)

\* The requests sent and the delays slept, at each point.
Counting ==
  /\ Len(waits) = attempt
  /\ attempt <= policy.max_retries
  /\ pc = "backoff" => attempt < policy.max_retries
  /\ Refusing => pc \in {"send", "failed"} /\ carried = <<>> /\ attempt = 0
  /\ pc = "send" => Len(carried) = attempt
  /\ ~ Refusing /\ pc # "send" => Len(carried) = attempt + 1
  /\ \A i \in 1..Len(carried) : carried[i] \subseteq declared

\* What is known of the error once the call has failed.
Failing ==
  /\ pc = "failed" => error # None
  /\ error # None /\ error[1].capability # None =>
       /\ pc = "failed"
       /\ error[1].capability[1] \in Needs(Payload)
       /\ Refusing \/ error[1].capability[1] \in declared
  /\ pc = "failed" /\ IsRetryable(error[1]) => ~ Refusing /\ attempt = policy.max_retries
  /\ forwarded # None =>
       /\ pc = "failed"
       /\ forwarded = Some(Received(WireErrorOf(error[1]), OlderKinds))

CallInv == CallTypes /\ Counting /\ Failing

-----------------------------------------------------------------------------

\* What a compatible endpoint is asked for is what the request depends on.
LEMMA RequestedIsNeeded ==
  ASSUME config \in Configs, provider = "OpenAICompatible"
  PROVE  Requested = Needs(Payload)
<1>1. Payload.tools = EffectiveTools
  BY DEF Payload, Chat!ChatRequest
<1>2. Payload.format = Chat!ResponseFormat(EffectiveConfig)
  BY DEF Payload, Chat!ChatRequest
<1>3. EffectiveConfig.json_schema \in BOOLEAN /\ EffectiveConfig.json_mode \in BOOLEAN
  BY DEF EffectiveConfig, Configs
<1>4. Payload.format # "none" <=> EffectiveConfig.json_schema \/ EffectiveConfig.json_mode
  BY <1>2, <1>3 DEF Chat!ResponseFormat
<1> QED
  BY <1>1, <1>4 DEF Requested, Needs

\* An endpoint that is not refused was declared to serve the request.
LEMMA SentIsDeclared ==
  ASSUME CallTypes, ~ Refusing
  PROVE  Needs(Payload) \subseteq declared
<1>1. CASE provider # "OpenAICompatible"
  BY <1>1 DEF CallTypes, Needs
<1>2. CASE provider = "OpenAICompatible"
  <2>1. ~ IsSome(Refused)
    BY <1>2 DEF Refusing
  <2>2. Requested \subseteq declared
    BY <2>1 DEF Refused, FirstOf, IsSome, Some, None, Requested, Capabilities
  <2> QED
    BY <1>2, <2>2, RequestedIsNeeded DEF CallTypes
<1> QED
  BY <1>1, <1>2

\* The first of several capabilities is one of them.
LEMMA FirstIsOne ==
  ASSUME NEW capabilities, IsSome(FirstOf(capabilities))
  PROVE  /\ FirstOf(capabilities)[1] \in capabilities
         /\ FirstOf(capabilities) = Some(FirstOf(capabilities)[1])
BY DEF FirstOf, IsSome, Some, None

\* A refused capability is one the request depends on.
LEMMA RefusedIsNeeded ==
  ASSUME CallTypes, Refusing
  PROVE  Refused[1] \in Needs(Payload)
<1>1. Refused[1] \in Requested
  BY FirstIsOne DEF Refusing, Refused
<1> QED
  BY <1>1, RequestedIsNeeded DEF CallTypes, Refusing
-----------------------------------------------------------------------------

\* A call about to send its first request satisfies the invariant.
LEMMA CallInvInit == Init => CallInv
<1> SUFFICES ASSUME Init PROVE CallInv
  OBVIOUS
<1>1. CallTypes
  <2>1. declared \subseteq Capabilities /\ (provider # "OpenAICompatible" => declared = Capabilities)
    BY DEF Init
  <2>2. carried \in Seq(SUBSET Capabilities) /\ waits \in Seq(Delays)
    BY DEF Init
  <2>3. entry \in Methods /\ config \in Configs /\ tools \in {<<>>, <<"add">>}
    BY Zenon DEF Init, Methods, Configs
  <2>4. provider \in Providers /\ policy \in Policies /\ attempt \in Nat /\ pc \in Points
    BY DEF Init, Points
  <2> QED
    BY <2>1, <2>2, <2>3, <2>4 DEF CallTypes
<1>2. policy.max_retries \in Nat
  BY ProviderCallAssumption DEF Init, RetryConfig
<1>3. Counting
  BY <1>2 DEF Init, Counting
<1>4. Failing
  BY DEF Init, Failing, None
<1> QED
  BY <1>1, <1>3, <1>4 DEF CallInv

\* What was given stays, and so does all that is derived from it.
LEMMA GivenStays ==
  ASSUME UNCHANGED given
  PROVE  UNCHANGED <<Refusing, Needs(Payload)>>
<1>1. UNCHANGED <<EffectiveConfig, EffectiveTools>>
  BY DEF given, EffectiveConfig, EffectiveTools
<1>2. UNCHANGED Requested
  BY <1>1 DEF Requested
<1>3. UNCHANGED Refused
  BY <1>2 DEF given, Refused
<1>4. UNCHANGED Payload
  BY <1>1 DEF given, Payload
<1> QED
  BY <1>3, <1>4 DEF given, Refusing, Needs

\* An error that comes back leaves the call in backoff, or failed for good.
LEMMA HandleKeepsCallInv ==
  ASSUME CallInv, pc = "reply", NEW e, Handle(e),
         UNCHANGED <<given, attempt, forwarded, carried, waits>>,
         e.capability # None =>
           /\ e.capability[1] \in Needs(Payload) \cap declared
           /\ ~ IsRetryable(e)
  PROVE  CallInv'
<1> USE DEF CallInv
<1>1. ~ Refusing
  BY DEF Counting
<1>2. error' = Some(e) /\ error'[1] = e /\ error' # None
  BY DEF Handle, Some, None
<1>3. policy.max_retries \in Nat
  BY ProviderCallAssumption DEF CallTypes, RetryConfig
<1>4. /\ pc' \in {"backoff", "failed"}
      /\ pc' = "backoff" => attempt < policy.max_retries
      /\ pc' = "failed" => ~ IsRetryable(e) \/ attempt >= policy.max_retries
      /\ ~ IsRetryable(e) => pc' = "failed"
  BY <1>3 DEF Handle, CallTypes
<1>5. CallTypes'
  BY <1>4 DEF CallTypes, given, Points
<1>6. Counting'
  BY <1>1, <1>4, GivenStays DEF Counting, given
<1>7. Failing'
  <2>1. forwarded' = None
    BY DEF Failing
  <2>2. pc' = "failed" /\ IsRetryable(e) => attempt' = policy'.max_retries
    BY <1>3, <1>4 DEF Counting, CallTypes, given
  <2> QED
    BY <1>1, <1>2, <1>4, <2>1, <2>2, GivenStays DEF Failing, given
<1> QED
  BY <1>5, <1>6, <1>7

\* A capability that a reply is classified to lack is one the request that was
\* sent depends on, and no reason to retry.
LEMMA ClassifiedIsNeeded ==
  ASSUME CallInv, pc = "reply", NEW status, NEW body \in ErrorBodies,
         Classify(status, body).capability # None
  PROVE  /\ Classify(status, body).capability[1] \in Needs(Payload) \cap declared
         /\ ~ IsRetryable(Classify(status, body))
<1>1. \A kind : Failure(kind, provider).capability = None
  BY DEF Failure
<1>2. \A n : ParseError(n).capability = None
  BY <1>1 DEF ParseError
<1>3. /\ provider = "OpenAICompatible"
      /\ Classify(status, body) = ParseCompatibleError(status, body)
  BY <1>1, <1>2 DEF Classify, ErrorBodies
<1>4. PICK c \in Requested :
        Classify(status, body) = Unsupported(provider, c)
  <2>1. PICK rejected : rejected = FirstOf(Requested \cap body.mentions)
    OBVIOUS
  <2>2. status \in RejectionStatuses /\ IsSome(rejected)
    BY <1>2, <1>3, <2>1 DEF ParseCompatibleError
  <2>3. rejected[1] \in Requested
    BY <2>1, <2>2, FirstIsOne
  <2> QED
    BY <1>3, <2>1, <2>2, <2>3 DEF ParseCompatibleError
<1>5. Unsupported(provider, c).kind = "capability_unsupported"
      /\ Unsupported(provider, c).capability = Some(c)
  BY DEF Unsupported, Failure
<1>6. c \in Needs(Payload) /\ Needs(Payload) \subseteq declared
  BY <1>3, RequestedIsNeeded, SentIsDeclared DEF CallInv, CallTypes, Counting
<1> QED
  BY <1>4, <1>5, <1>6 DEF IsRetryable, Some

\* Every step of a call preserves the invariant.
LEMMA CallInvStep == CallInv /\ [Next]_vars => CallInv'
<1> SUFFICES ASSUME CallInv, [Next]_vars
             PROVE  CallInv'
  OBVIOUS
<1> USE DEF CallInv
<1>0. policy.max_retries \in Nat
  BY ProviderCallAssumption DEF CallTypes, RetryConfig
<1>1. CASE Refuse
  <2> DEFINE e == Unsupported(provider, Refused[1])
  <2>1. Refusing /\ carried = <<>>
    BY <1>1 DEF Refuse, Refusing, Counting
  <2>2. e.kind = "capability_unsupported" /\ e.capability = Some(Refused[1])
    BY DEF Unsupported, Failure
  <2>3. ~ IsRetryable(e) /\ e.capability[1] = Refused[1]
    BY <2>2 DEF IsRetryable, Some
  <2>4. error' = Some(e) /\ error'[1] = e /\ error' # None /\ pc' = "failed"
    BY <1>1, <2>3 DEF Refuse, Handle, Some, None
  <2>5. CallTypes'
    BY <1>1, <2>4 DEF Refuse, CallTypes, given, Points
  <2>6. Counting'
    BY <1>1, <2>1, <2>4, GivenStays DEF Refuse, Counting, given
  <2>7. Failing'
    BY <1>1, <2>1, <2>3, <2>4, GivenStays, RefusedIsNeeded DEF Refuse, Failing
  <2> QED
    BY <2>5, <2>6, <2>7
<1>2. CASE Send
  <2>1. ~ Refusing
    BY <1>2 DEF Send, Refusing
  <2>2. Needs(Payload) \in SUBSET Capabilities
    BY DEF Needs
  <2>3. carried' \in Seq(SUBSET Capabilities) /\ Len(carried') = Len(carried) + 1
    BY <1>2, <2>2 DEF Send, CallTypes
  <2>4. CallTypes'
    BY <1>2, <2>3 DEF Send, CallTypes, given, Points
  <2>5. \A i \in 1..Len(carried') : carried'[i] \subseteq declared
    BY <1>2, <2>1, <2>2, SentIsDeclared DEF Send, CallTypes, Counting
  <2>6. Counting'
    BY <1>2, <2>1, <2>3, <2>5, GivenStays DEF Send, Counting, given
  <2>7. Failing'
    BY <1>2, GivenStays DEF Send, Failing
  <2> QED
    BY <2>4, <2>6, <2>7
<1>3. CASE TransportFails
  <2> DEFINE e == Failure("http", provider)
  <2>1. e.capability = None
    BY DEF Failure
  <2> QED
    BY <1>3, <2>1, HandleKeepsCallInv DEF TransportFails
<1>4. ASSUME NEW status \in Statuses, NEW body \in ErrorBodies, ReplyIsError(status, body)
      PROVE  CallInv'
  <2> DEFINE e == Classify(status, body)
  <2>1. e.capability # None => /\ e.capability[1] \in Needs(Payload) \cap declared
                               /\ ~ IsRetryable(e)
    BY <1>4, ClassifiedIsNeeded DEF ReplyIsError
  <2> QED
    BY <1>4, <2>1, HandleKeepsCallInv DEF ReplyIsError
<1>5. CASE ReplyIsUnusable
  <2> DEFINE e == Failure("request", provider)
  <2>1. e.capability = None
    BY DEF Failure
  <2> QED
    BY <1>5, <2>1, HandleKeepsCallInv DEF ReplyIsUnusable
<1>6. ASSUME NEW text \in Texts, ReplyIsResponse(text)
      PROVE  CallInv'
  <2> DEFINE e == Failure("structured_output", provider)
  <2>1. e.capability = None /\ ~ IsRetryable(e)
    BY DEF Failure, IsRetryable
  <2>2. \/ pc' = "failed" /\ error' = Some(e) /\ error'[1] = e /\ error' # None
        \/ pc' = "answered" /\ error' = None
    BY <1>6 DEF ReplyIsResponse, Some, None
  <2>3. CallTypes'
    BY <1>6, <2>2 DEF ReplyIsResponse, CallTypes, given, Points
  <2>4. Counting'
    BY <1>6, <2>2, GivenStays DEF ReplyIsResponse, Counting, given
  <2>5. Failing'
    BY <1>6, <2>1, <2>2, GivenStays DEF ReplyIsResponse, Failing
  <2> QED
    BY <2>3, <2>4, <2>5
<1>7. CASE ReplyOpensStream
  <2>1. CallTypes'
    BY <1>7 DEF ReplyOpensStream, CallTypes, given, Points
  <2>2. Counting'
    BY <1>7, GivenStays DEF ReplyOpensStream, Counting, given
  <2>3. Failing'
    BY <1>7, GivenStays DEF ReplyOpensStream, Failing
  <2> QED
    BY <2>1, <2>2, <2>3
<1>8. CASE Backoff
  <2>1. ~ Refusing
    BY <1>8 DEF Backoff, Counting
  <2>2. CASE pc' = "panicked" /\ UNCHANGED <<attempt, waits>>
    <3>1. CallTypes'
      BY <1>8, <2>2 DEF Backoff, CallTypes, given, Points
    <3>2. Counting'
      BY <1>8, <2>1, <2>2, GivenStays DEF Backoff, Counting, given
    <3>3. Failing'
      BY <1>8, <2>2, GivenStays DEF Backoff, Failing
    <3> QED
      BY <3>1, <3>2, <3>3
  <2>3. ASSUME NEW d \in DelaysForAttempt(policy, attempt), waits' = Append(waits, d),
               attempt' = attempt + 1, pc' = "send"
        PROVE  CallInv'
    <3>1. d \in Delays
      BY <2>3 DEF Delays, CallTypes
    <3>2. waits' \in Seq(Delays) /\ Len(waits') = Len(waits) + 1
      BY <2>3, <3>1 DEF CallTypes
    <3>3. CallTypes'
      BY <1>8, <2>3, <3>2 DEF Backoff, CallTypes, given, Points
    <3>4. Counting'
      BY <1>0, <1>8, <2>1, <2>3, <3>2, GivenStays DEF Backoff, Counting, CallTypes, given
    <3>5. Failing'
      BY <1>8, <2>3, GivenStays DEF Backoff, Failing
    <3> QED
      BY <3>3, <3>4, <3>5
  <2> QED
    BY <1>8, <2>2, <2>3 DEF Backoff
<1>9. CASE Forward
  <2>1. CallTypes'
    BY <1>9 DEF Forward, CallTypes, given
  <2>2. Counting'
    BY <1>9, GivenStays DEF Forward, Counting, given
  <2>3. Failing'
    BY <1>9, GivenStays DEF Forward, Failing, given
  <2> QED
    BY <2>1, <2>2, <2>3
<1>10. CASE UNCHANGED vars
  <2>1. UNCHANGED given /\ UNCHANGED <<pc, attempt, error, forwarded, carried, waits>>
    BY <1>10 DEF vars, given
  <2>2. CallTypes'
    BY <2>1 DEF CallTypes, given
  <2>3. Counting'
    BY <2>1, GivenStays DEF Counting, given
  <2>4. Failing'
    BY <2>1, GivenStays DEF Failing, given
  <2> QED
    BY <2>2, <2>3, <2>4
<1> QED
  BY <1>1, <1>2, <1>3, <1>4, <1>5, <1>6, <1>7, <1>8, <1>9, <1>10 DEF Next

\* The inductive invariant of a provider call.
THEOREM CallInvariant == Spec => []CallInv
<1> QED
  BY CallInvInit, CallInvStep, PTL DEF Spec

-----------------------------------------------------------------------------

\* An endpoint is never sent a request that needs what it was declared to lack,
\* and a capability is reported as unsupported only when the request depends on
\* it, without a retry: for every endpoint, request, policy and reply.
THEOREM CapabilitiesAreKept == Spec => []CapabilitiesAreRespected
<1>1. CallInv => CapabilitiesAreRespected
  <2> SUFFICES ASSUME CallInv PROVE CapabilitiesAreRespected
    OBVIOUS
  <2> USE DEF CallInv
  <2>1. \A i \in 1..Len(carried) : carried[i] \subseteq declared
    BY DEF Counting
  <2>2. ASSUME error # None, error[1].capability # None
        PROVE  /\ pc = "failed"
               /\ error[1].capability[1] \in Needs(Payload)
               /\ carried = <<>> \/ error[1].capability[1] \in declared
               /\ Len(carried) <= Len(waits) + 1
    <3>1. CASE Refusing
      BY <2>2, <3>1 DEF Failing, Counting, CallTypes
    <3>2. CASE ~ Refusing
      BY <2>2, <3>2 DEF Failing, Counting, CallTypes
    <3> QED
      BY <3>1, <3>2
  <2> QED
    BY <2>1, <2>2 DEF CapabilitiesAreRespected
<1> QED
  BY <1>1, CallInvariant, PTL

\* An error keeps its kind through parsing and forwarding by any build.
LEMMA KindSurvives ==
  ASSUME NEW kind, NEW known, NEW older
  PROVE  KindString(WireKind(KindString(WireKind(kind, known)), older)) = kind
<1>1. ASSUME NEW k, NEW ks PROVE KindString(WireKind(k, ks)) = k
  BY DEF KindString, WireKind, OrDefault, IsSome, Some, None
<1> QED
  BY <1>1

\* A remote client of any age is told the kind, the provider and the retry hint
\* of the local error, and only what was retried to the end is worth a retry.
THEOREM ErrorsAreForwardedWhole == Spec => []ErrorsSurviveTheWire
<1>1. CallInv => ErrorsSurviveTheWire
  <2> SUFFICES ASSUME CallInv, forwarded # None
               PROVE  /\ KindString(forwarded[1].kind) = error[1].kind
                      /\ forwarded[1].provider = error[1].provider
                      /\ forwarded[1].retryable <=> IsRetryable(error[1])
                      /\ forwarded[1].retryable => Len(carried) = policy.max_retries + 1
    BY DEF ErrorsSurviveTheWire
  <2> USE DEF CallInv
  <2> DEFINE wire == WireErrorOf(error[1])
             read == Received(wire, OlderKinds)
  <2>1. pc = "failed" /\ forwarded = Some(read)
    BY DEF Failing
  <2>2. forwarded[1] = read
    BY <2>1 DEF Some
  <2>3. wire = [kind |-> WireKind(error[1].kind, Kinds), provider |-> error[1].provider,
                retryable |-> IsRetryable(error[1])]
    BY DEF WireErrorOf
  <2>4. /\ read.kind = WireKind(KindString(wire.kind), OlderKinds)
        /\ read.provider = wire.provider
        /\ read.retryable = wire.retryable
    BY <2>3 DEF Received
  <2>5. KindString(read.kind) = error[1].kind
    BY <2>3, <2>4, KindSurvives
  <2>6. read.retryable <=> IsRetryable(error[1])
    BY <2>3, <2>4
  <2>7. IsRetryable(error[1]) => Len(carried) = policy.max_retries + 1
    BY <2>1 DEF Failing, Counting
  <2> QED
    BY <2>2, <2>3, <2>4, <2>5, <2>6, <2>7
<1> QED
  BY <1>1, CallInvariant, PTL

-----------------------------------------------------------------------------

\* The step from a power to the next.
Factors(base, n) == [x \in Int \X (1..n) |-> base * x[1]]

\* Power is determined by its equation.
LEMMA PowerIterates ==
  ASSUME NEW base \in Int, NEW n \in Nat
  PROVE  \E f \in [0..n -> Int] : /\ Iterates(f, 1, Factors(base, n), n)
                                  /\ Power(base, n) = f[n]
<1> DEFINE Step(g) == [k \in 0..n |-> IF k = 0 THEN 1 ELSE base * g[k - 1]]
           power == CHOOSE g : g = Step(g)
           G == Factors(base, n)
<1>1. G \in [Int \X (1..n) -> Int] /\ \A x \in Int : \A k \in 1..n : G[<<x, k>>] = base * x
  <2>1. \A p \in Int \X (1..n) : base * p[1] \in Int
    OBVIOUS
  <2> QED
    BY <2>1 DEF Factors
<1>2. PICK f \in [0..n -> Int] : Iterates(f, 1, G, n)
  <2> HIDE DEF G
  <2>1. 1 \in Int /\ G \in [Int \X (1..n) -> Int]
    BY <1>1
  <2>2. \E f \in [0..n -> Int] : Iterates(f, 1, G, n)
    BY ONLY <2>1, n \in Nat, Recursion
  <2> QED
    BY <2>2
<1>3. ASSUME NEW k \in 1..n PROVE f[k] = base * f[k - 1]
  <2>1. k - 1 \in 0..n /\ f[k - 1] \in Int
    OBVIOUS
  <2>2. f[k] = G[<<f[k - 1], k>>]
    BY <1>2 DEF Iterates
  <2> HIDE DEF G
  <2> QED
    BY <1>1, <2>1, <2>2
<1>4. f = Step(f)
  <2>1. f[0] = 1
    BY <1>2 DEF Iterates
  <2>2. ASSUME NEW k \in 0..n PROVE f[k] = IF k = 0 THEN 1 ELSE base * f[k - 1]
    BY <1>3, <2>1
  <2> QED
    BY <2>2
<1>5. power = Step(power)
  BY <1>4
<1>6. power[0] = 1 /\ f[0] = 1
  <2> HIDE DEF power
  <2> QED
    BY <1>2, <1>5 DEF Iterates
<1>7. StepAlike(f, power, n)
  <2> HIDE DEF power
  <2> QED
    BY <1>3, <1>5 DEF StepAlike
<1>8. f[n] = power[n]
  <2> HIDE DEF power
  <2> QED
    BY <1>6, <1>7, Agreement DEF Agree
<1>9. Power(base, n) = power[n]
  BY DEF Power
<1> QED
  BY <1>2, <1>8, <1>9

\* One more factor.
LEMMA PowerStep ==
  ASSUME NEW base \in Int, NEW n \in Nat
  PROVE  Power(base, n) \in Int /\ Power(base, n + 1) = base * Power(base, n)
<1>1. PICK m \in Nat : m = n + 1
  OBVIOUS
<1>2. PICK f \in [0..n -> Int] : Iterates(f, 1, Factors(base, n), n) /\ Power(base, n) = f[n]
  BY PowerIterates
<1>3. PICK g \in [0..m -> Int] : Iterates(g, 1, Factors(base, m), m) /\ Power(base, m) = g[m]
  BY PowerIterates
<1>4. \A k \in 1..n : f[k] = base * f[k - 1]
  <2>1. \A k \in 1..n : f[k - 1] \in Int /\ <<f[k - 1], k>> \in Int \X (1..n)
    OBVIOUS
  <2> QED
    BY <1>2, <2>1 DEF Iterates, Factors
<1>5. \A k \in 1..m : g[k] = base * g[k - 1]
  <2>1. \A k \in 1..m : g[k - 1] \in Int /\ <<g[k - 1], k>> \in Int \X (1..m)
    OBVIOUS
  <2> QED
    BY <1>3, <2>1 DEF Iterates, Factors
<1>6. f[0] = g[0] /\ StepAlike(f, g, n)
  <2>1. f[0] = g[0]
    BY <1>2, <1>3 DEF Iterates
  <2>2. ASSUME NEW k \in 1..n, f[k - 1] = g[k - 1] PROVE f[k] = g[k]
    <3>1. k \in 1..m
      BY <1>1
    <3>2. f[k] = base * f[k - 1] /\ g[k] = base * g[k - 1]
      BY <1>4, <1>5, <3>1
    <3> QED
      BY <2>2, <3>2
  <2> QED
    BY <2>1, <2>2 DEF StepAlike
<1>7. f[n] = g[n]
  <2>1. Agree(f, g, n)
    BY <1>6, Agreement
  <2> QED
    BY <2>1 DEF Agree
<1>8. m \in 1..m /\ m - 1 = n
  BY <1>1
<1>9. g[m] = base * g[n]
  BY <1>5, <1>8
<1> QED
  BY <1>1, <1>2, <1>3, <1>7, <1>9

\* No factor.
LEMMA PowerZero ==
  ASSUME NEW base \in Int
  PROVE  Power(base, 0) = 1
<1>1. PICK f \in [0..0 -> Int] : Iterates(f, 1, Factors(base, 0), 0) /\ Power(base, 0) = f[0]
  BY PowerIterates
<1> QED
  BY <1>1 DEF Iterates

\* A larger factor is no smaller.
LEMMA ProductGrows ==
  ASSUME NEW a \in Nat, NEW b \in Int, NEW c \in Int, b <= c
  PROVE  a * b \in Int /\ a * b <= a * c
OBVIOUS

\* The powers of a natural number are natural, and not zero unless it is.
LEMMA PowerIsNatural ==
  ASSUME NEW base \in Nat, NEW n \in Nat
  PROVE  Power(base, n) \in Nat /\ (base # 0 => Power(base, n) # 0)
<1> DEFINE Good(k) == Power(base, k) \in Nat /\ (base # 0 => Power(base, k) # 0)
           S == {k \in 0..n : Good(k)}
<1>1. 0 \in S
  BY PowerZero
<1>2. ASSUME NEW k \in 1..n, k - 1 \in S PROVE k \in S
  <2>1. PICK j \in Nat : j = k - 1 /\ k = j + 1
    OBVIOUS
  <2>2. PICK p \in Nat : p = Power(base, j) /\ (base # 0 => p # 0)
    BY <1>2, <2>1
  <2>3. Power(base, k) = base * p
    BY <2>1, <2>2, PowerStep
  <2>4. base * p \in Nat /\ (base # 0 => base * p # 0)
    BY <2>2
  <2>5. k \in 0..n
    OBVIOUS
  <2> QED
    BY <2>3, <2>4, <2>5
<1>3. n \in S
  <2> HIDE DEF S
  <2> QED
    BY <1>1, <1>2, InductionUpTo
<1> QED
  BY <1>3

\* The powers of a fraction of one or more never fall: (a/b)^m is at most (a/b)^n.
LEMMA PowersCross ==
  ASSUME NEW a \in Nat, NEW b \in Nat, b <= a, NEW n \in Nat, NEW m \in 0..n
  PROVE  Power(a, m) * Power(b, n) <= Power(a, n) * Power(b, m)
<1> DEFINE Good(k) == m <= k => Power(a, m) * Power(b, k) <= Power(a, k) * Power(b, m)
           S == {k \in 0..n : Good(k)}
<1>1. PICK u \in Nat, v \in Nat : u = Power(a, m) /\ v = Power(b, m)
  <2>1. m \in Nat
    OBVIOUS
  <2> QED
    BY <2>1, PowerIsNatural
<1>2. Good(m)
  BY <1>1
<1>3. 0 \in S
  <2>1. m <= 0 => m = 0
    OBVIOUS
  <2> QED
    BY <1>2, <2>1
<1>4. ASSUME NEW k \in 1..n, k - 1 \in S PROVE k \in S
  <2>1. PICK j \in Nat : j = k - 1 /\ k = j + 1
    OBVIOUS
  <2>2. ASSUME m <= k PROVE u * Power(b, k) <= Power(a, k) * v
    <3>1. CASE m = k
      BY <1>1, <1>2, <3>1
    <3>2. CASE m # k
      <4>1. m <= j
        BY <2>1, <2>2, <3>2
      <4>2. PICK p \in Nat, q \in Nat : p = Power(a, j) /\ q = Power(b, j)
        BY PowerIsNatural
      <4>3. u * q <= p * v
        BY <1>1, <1>4, <2>1, <4>1, <4>2
      <4>4. Power(a, k) = a * p /\ Power(b, k) = b * q
        BY <2>1, <4>2, PowerStep
      <4>5. PICK x \in Nat, y \in Nat : x = u * q /\ y = p * v
        OBVIOUS
      <4>6. b * x <= b * y /\ y * b <= y * a
        BY <4>3, <4>5, ProductGrows
      <4>7. u * (b * q) = b * (u * q) /\ (a * p) * v = a * (p * v)
        OBVIOUS
      <4>8. u * (b * q) = b * x /\ (a * p) * v = a * y
        BY <4>5, <4>7
      <4>9. b * x \in Int /\ b * y \in Int /\ a * y \in Int /\ b * y = y * b /\ a * y = y * a
        OBVIOUS
      <4> QED
        BY <4>4, <4>6, <4>8, <4>9
    <3> QED
      BY <3>1, <3>2
  <2>3. k \in 0..n
    OBVIOUS
  <2> QED
    BY <1>1, <2>2, <2>3
<1>5. n \in S
  <2> HIDE DEF S
  <2> QED
    BY <1>3, <1>4, InductionUpTo
<1> QED
  BY <1>5

-----------------------------------------------------------------------------

\* Of two fractions a/b and c/d of a delay, the larger is not clamped to less.
LEMMA ClampedCross ==
  ASSUME NEW i \in Nat, NEW x \in Nat, NEW a \in Nat, NEW b \in Nat, NEW c \in Nat, NEW d \in Nat,
         a * d <= c * b
  PROVE  Lesser(i * a, x * b) * d <= Lesser(i * c, x * d) * b
<1>1. PICK e \in Nat, f \in Nat : e = Lesser(i * a, x * b) /\ f = Lesser(i * c, x * d)
  BY DEF Lesser
<1>2. e <= i * a /\ e <= x * b
  BY <1>1 DEF Lesser
<1>3. CASE f = i * c
  <2>1. PICK g \in Nat, h \in Nat : g = a * d /\ h = c * b
    OBVIOUS
  <2>2. d * e <= d * (i * a)
    BY <1>2, ProductGrows
  <2>3. i * g <= i * h
    BY <2>1, ProductGrows
  <2>4. d * (i * a) = i * (a * d) /\ (i * c) * b = i * (c * b)
    OBVIOUS
  <2>5. d * e = e * d
    OBVIOUS
  <2>6. d * (i * a) = i * g /\ f * b = i * h
    BY <1>3, <2>1, <2>4
  <2>7. d * e \in Int /\ i * g \in Int /\ i * h \in Int
    OBVIOUS
  <2> QED
    BY <1>1, <2>2, <2>3, <2>5, <2>6, <2>7
<1>4. CASE f = x * d
  <2>1. d * e <= d * (x * b)
    BY <1>2, ProductGrows
  <2>2. d * (x * b) = (x * d) * b /\ d * e = e * d
    OBVIOUS
  <2> QED
    BY <1>1, <1>4, <2>1, <2>2
<1> QED
  BY <1>1, <1>3, <1>4 DEF Lesser

\* The parts of a delay: how many, and that they keep to the cap.
LEMMA CappedType ==
  ASSUME NEW p \in RetryConfig, NEW n \in Nat
  PROVE  /\ Scale(p, n) \in Nat \ {0} /\ Capped(p, n) \in Int
         /\ Capped(p, n) <= p.max_delay * Scale(p, n)
         /\ 0 <= p.backoff_multiplier.num => Capped(p, n) \in Nat
<1>1. PICK i \in Nat, x \in Nat, a \in Int, b \in Nat \ {0} :
        /\ i = p.initial_delay /\ x = p.max_delay
        /\ a = p.backoff_multiplier.num /\ b = p.backoff_multiplier.den
  BY DEF RetryConfig
<1>2. PICK s \in Nat \ {0} : s = Power(b, n)
  BY PowerIsNatural
<1>3. PICK t \in Int : t = Power(a, n)
  BY PowerStep
<1>4. 0 <= a => t \in Nat
  BY <1>3, PowerIsNatural
<1>5. Scale(p, n) = s /\ Capped(p, n) = Lesser(i * t, x * s)
  BY <1>1, <1>2, <1>3 DEF Scale, Capped
<1>6. i * t \in Int /\ x * s \in Nat /\ (0 <= a => i * t \in Nat)
  BY <1>4
<1>7. ASSUME NEW y \in Int, NEW z \in Nat
      PROVE  Lesser(y, z) \in Int /\ Lesser(y, z) <= z /\ (y \in Nat => Lesser(y, z) \in Nat)
  BY DEF Lesser
<1> QED
  BY <1>1, <1>5, <1>6, <1>7

\* The first delay is the shorter of the two.
LEMMA CappedFirst ==
  ASSUME NEW p \in RetryConfig
  PROVE  Scale(p, 0) = 1 /\ Capped(p, 0) = Lesser(p.initial_delay, p.max_delay)
<1>1. PICK i \in Nat, x \in Nat : i = p.initial_delay /\ x = p.max_delay
  BY DEF RetryConfig
<1>2. p.backoff_multiplier.num \in Int /\ p.backoff_multiplier.den \in Int
  BY DEF RetryConfig
<1>3. Power(p.backoff_multiplier.num, 0) = 1 /\ Scale(p, 0) = 1
  BY <1>2, PowerZero DEF Scale
<1>4. i * 1 = i /\ x * 1 = x
  OBVIOUS
<1> QED
  BY <1>1, <1>3, <1>4 DEF Capped

\* The clamped delays grow with a multiplier of one or more, and shrink with one
\* between zero and one.
LEMMA CappedCross ==
  ASSUME NEW p \in RetryConfig, NEW n \in Nat, NEW m \in 0..n, 0 <= p.backoff_multiplier.num
  PROVE  /\ p.backoff_multiplier.den <= p.backoff_multiplier.num =>
              Capped(p, m) * Scale(p, n) <= Capped(p, n) * Scale(p, m)
         /\ p.backoff_multiplier.num <= p.backoff_multiplier.den =>
              Capped(p, n) * Scale(p, m) <= Capped(p, m) * Scale(p, n)
<1>1. PICK i \in Nat, x \in Nat, a \in Nat, b \in Nat :
        /\ i = p.initial_delay /\ x = p.max_delay
        /\ a = p.backoff_multiplier.num /\ b = p.backoff_multiplier.den
  BY DEF RetryConfig
<1>2. m \in Nat
  OBVIOUS
<1>3. PICK am \in Nat, an \in Nat, bm \in Nat, bn \in Nat :
        am = Power(a, m) /\ an = Power(a, n) /\ bm = Power(b, m) /\ bn = Power(b, n)
  BY <1>2, PowerIsNatural
<1>4. /\ Scale(p, m) = bm /\ Capped(p, m) = Lesser(i * am, x * bm)
      /\ Scale(p, n) = bn /\ Capped(p, n) = Lesser(i * an, x * bn)
  BY <1>1, <1>3 DEF Scale, Capped
<1>5. ASSUME b <= a
      PROVE  Lesser(i * am, x * bm) * bn <= Lesser(i * an, x * bn) * bm
  <2>1. am * bn <= an * bm
    BY <1>3, <1>5, PowersCross
  <2> QED
    BY <2>1, ClampedCross
<1>6. ASSUME a <= b
      PROVE  Lesser(i * an, x * bn) * bm <= Lesser(i * am, x * bm) * bn
  <2>1. bm * an <= bn * am
    BY <1>3, <1>6, PowersCross
  <2>2. an * bm <= am * bn
    BY <2>1
  <2> QED
    BY <2>2, ClampedCross
<1> QED
  BY <1>1, <1>4, <1>5, <1>6

-----------------------------------------------------------------------------

\* A positive factor can be cancelled.
LEMMA Cancels ==
  ASSUME NEW a \in Nat \ {0}, NEW b \in Int, NEW c \in Int, a * b = a * c
  PROVE  b = c
<1>1. ASSUME NEW d \in Int, NEW e \in Int, d < e PROVE a * d < a * e
  <2>1. PICK f \in Nat \ {0} : e = d + f
    <3>1. e - d \in Nat \ {0} /\ e = d + (e - d)
      BY <1>1
    <3> QED
      BY <3>1
  <2>2. a * (d + f) = a * d + a * f /\ a * f \in Nat \ {0} /\ a * d \in Int
    OBVIOUS
  <2> QED
    BY <2>1, <2>2
<1>2. a * b \in Int /\ a * c \in Int
  OBVIOUS
<1> QED
  BY <1>1, <1>2

\* Rounding keeps the order of two fractions x/s and y/t.
LEMMA RoundsGrows ==
  ASSUME NEW x \in Int, NEW s \in Nat \ {0}, NEW y \in Int, NEW t \in Nat \ {0},
         NEW d \in Int, NEW e \in Int,
         x * t <= y * s, Rounds(d, x, s), Rounds(e, y, t)
  PROVE  d <= e
<1> SUFFICES ASSUME e <= d - 1 PROVE FALSE
  OBVIOUS
<1>1. PICK f \in Int, g \in Int : f = 2 * d - 1 /\ g = 2 * e + 1 /\ g <= f
  OBVIOUS
<1>2. s * f <= 2 * x /\ 2 * y <= t * g
  BY <1>1 DEF Rounds
<1>3. t * (s * f) <= t * (2 * x) /\ s * (2 * y) <= s * (t * g)
  BY <1>2, ProductGrows
<1>4. PICK r \in Nat \ {0} : r = s * t
  OBVIOUS
<1>5. t * (s * f) = r * f /\ s * (t * g) = r * g
  <2>1. t * (s * f) = (s * t) * f /\ s * (t * g) = (s * t) * g
    OBVIOUS
  <2> QED
    BY <1>4, <2>1
<1>6. PICK v \in Int, w \in Int : v = x * t /\ w = y * s
  OBVIOUS
<1>7. t * (2 * x) = 2 * v /\ s * (2 * y) = 2 * w
  <2>1. t * (2 * x) = 2 * (x * t) /\ s * (2 * y) = 2 * (y * s)
    OBVIOUS
  <2> QED
    BY <1>6, <2>1
<1>8. r * g <= r * f
  BY <1>1, ProductGrows
<1>9. r * f \in Int /\ r * g \in Int
  OBVIOUS
<1>10. r * f = r * g /\ r * f = 2 * v /\ 2 * w = r * g
  BY <1>3, <1>5, <1>6, <1>7, <1>8, <1>9
<1>11. f = g
  BY <1>10, Cancels
<1>12. s * f = 2 * x
  <2>1. t * (s * f) = t * (2 * x)
    BY <1>5, <1>7, <1>10
  <2>2. s * f \in Int /\ 2 * x \in Int
    OBVIOUS
  <2> QED
    BY <2>1, <2>2, Cancels
<1>13. 2 * y = t * g
  <2>1. s * (2 * y) = s * (t * g)
    BY <1>5, <1>7, <1>10
  <2>2. t * g \in Int /\ 2 * y \in Int
    OBVIOUS
  <2> QED
    BY <2>1, <2>2, Cancels
<1>14. d % 2 = 0 /\ e % 2 = 0
  BY <1>1, <1>12, <1>13 DEF Rounds
<1>15. d = e + 1
  BY <1>1, <1>11
<1> QED
  BY <1>14, <1>15

\* What is whole already stays.
LEMMA RoundsWhole ==
  ASSUME NEW d \in Int, NEW s \in Nat \ {0}
  PROVE  Rounds(d, d * s, s)
<1>1. PICK z \in Int : z = d * s
  OBVIOUS
<1>2. s * (2 * d - 1) = 2 * (d * s) - s /\ s * (2 * d + 1) = 2 * (d * s) + s
  OBVIOUS
<1>3. s * (2 * d - 1) = 2 * z - s /\ s * (2 * d + 1) = 2 * z + s
  BY <1>1, <1>2
<1>4. Rounds(d, z, s)
  BY <1>3 DEF Rounds
<1> QED
  BY <1>1, <1>4

\* Every fraction that is not negative has a nearest whole.
LEMMA NearestExists ==
  ASSUME NEW x \in Nat, NEW s \in Nat \ {0}
  PROVE  \E d \in Nat : Rounds(d, x, s)
<1> DEFINE S == {q \in Nat : x < s * (q + 1)}
<1>1. x \in S
  <2>1. (x + 1) * 1 <= (x + 1) * s
    BY ProductGrows
  <2>2. (x + 1) * 1 = x + 1 /\ (x + 1) * s = s * (x + 1) /\ s * (x + 1) \in Int
    OBVIOUS
  <2> QED
    BY <2>1, <2>2
<1>2. PICK q \in S : \A r \in S : q <= r
  <2>1. S \in SUBSET Nat /\ S # {}
    BY <1>1
  <2> HIDE DEF S
  <2> QED
    BY <2>1, LeastElement
<1>3. q \in Nat
  OBVIOUS
<1>4. PICK y \in Nat : y = s * q
  BY <1>3
<1>5. PICK z \in Nat : z = s * (q + 1) /\ z = y + s
  <2>1. s * (q + 1) = s * q + s
    BY <1>3
  <2> QED
    BY <1>3, <1>4, <2>1
<1>6. y <= x /\ x < z
  <2>1. x < z
    BY <1>5
  <2>2. ASSUME x < y PROVE FALSE
    <3>1. q # 0
      BY <1>4, <2>2
    <3>2. PICK r \in Nat : q = r + 1
      <4>1. q - 1 \in Nat /\ q = (q - 1) + 1
        BY <1>3, <3>1
      <4> QED
        BY <4>1
    <3>3. r \in S
      BY <1>4, <2>2, <3>2
    <3> HIDE DEF S
    <3> QED
      BY <1>2, <3>2, <3>3
  <2> QED
    BY <2>1, <2>2
<1>7. /\ s * (2 * q - 1) = 2 * y - s /\ s * (2 * q + 1) = 2 * y + s
      /\ s * (2 * (q + 1) - 1) = 2 * z - s /\ s * (2 * (q + 1) + 1) = 2 * z + s
  <2>1. /\ s * (2 * q - 1) = 2 * (s * q) - s /\ s * (2 * q + 1) = 2 * (s * q) + s
        /\ s * (2 * (q + 1) - 1) = 2 * (s * (q + 1)) - s
        /\ s * (2 * (q + 1) + 1) = 2 * (s * (q + 1)) + s
    BY <1>3
  <2> QED
    BY <1>4, <1>5, <2>1
<1>8. CASE 2 * x < 2 * y + s \/ (2 * x = 2 * y + s /\ q % 2 = 0)
  <2>1. Rounds(q, x, s)
    BY <1>3, <1>6, <1>7, <1>8 DEF Rounds
  <2> QED
    BY <1>3, <2>1
<1>9. CASE ~ (2 * x < 2 * y + s \/ (2 * x = 2 * y + s /\ q % 2 = 0))
  <2>1. q % 2 \in 0..1 /\ (q % 2 = 1 => (q + 1) % 2 = 0)
    BY <1>3
  <2>2. 2 * z - s = 2 * y + s
    BY <1>5
  <2>3. 2 * z - s <= 2 * x /\ 2 * x < 2 * z + s
    BY <1>6, <1>9, <2>2
  <2>4. 2 * x = 2 * z - s => (q + 1) % 2 = 0
    BY <1>9, <2>1, <2>2
  <2>5. Rounds(q + 1, x, s)
    BY <1>7, <2>3, <2>4 DEF Rounds
  <2> QED
    BY <1>3, <2>5
<1> QED
  BY <1>8, <1>9

-----------------------------------------------------------------------------

\* The schedule of a policy: each delay is a whole within the cap, and half as much
\* again with jitter; without jitter it is the clamped one, rounded.
LEMMA DelaysAreNear ==
  ASSUME NEW p \in RetryConfig, NEW n \in Nat, NEW d \in DelaysForAttempt(p, n)
  PROVE  /\ d \in Nat
         /\ \E least \in Nat : Rounds(least, Capped(p, n), Scale(p, n)) /\ least <= d
         /\ p.jitter => Scale(p, n) * (2 * d - 1) < 3 * Capped(p, n)
         /\ ~ p.jitter => Rounds(d, Capped(p, n), Scale(p, n))
<1>1. p.max_delay \in Nat /\ p.jitter \in BOOLEAN
  BY DEF RetryConfig
<1>2. CASE p.jitter
  BY <1>1, <1>2 DEF DelaysForAttempt
<1>3. CASE ~ p.jitter
  <2>1. d \in Nat /\ Rounds(d, Capped(p, n), Scale(p, n))
    BY <1>1, <1>3 DEF DelaysForAttempt
  <2> QED
    BY <1>3, <2>1
<1> QED
  BY <1>2, <1>3

\* A whole that the clamped delay does not exceed bounds what is slept, by half as
\* much again with jitter; one that it reaches is slept at least.
LEMMA DelaysKeepTo ==
  ASSUME NEW p \in RetryConfig, NEW n \in Nat, NEW d \in DelaysForAttempt(p, n), NEW u \in Nat
  PROVE  /\ Capped(p, n) <= u * Scale(p, n) => 2 * d <= (IF p.jitter THEN 3 ELSE 2) * u
         /\ u * Scale(p, n) <= Capped(p, n) => u <= d
<1>1. PICK s \in Nat \ {0}, c \in Int : s = Scale(p, n) /\ c = Capped(p, n)
  BY CappedType
<1>2. PICK z \in Nat : z = u * s
  OBVIOUS
<1>3. d \in Nat
  BY DelaysAreNear
<1>4. PICK least \in Nat : Rounds(least, c, s) /\ least <= d
  BY <1>1, DelaysAreNear
<1>5. Rounds(u, z, s)
  BY <1>2, RoundsWhole
<1>6. ASSUME c <= z, ~ p.jitter PROVE d <= u
  <2>1. Rounds(d, c, s)
    BY <1>1, <1>6, DelaysAreNear
  <2>2. c * s <= z * s
    <3>1. s * c <= s * z
      BY <1>6, ProductGrows
    <3> QED
      BY <3>1
  <2> QED
    BY <1>3, <1>5, <2>1, <2>2, RoundsGrows
<1>7. ASSUME c <= z, p.jitter PROVE 2 * d <= 3 * u
  <2>1. s * (2 * d - 1) < 3 * c
    BY <1>1, <1>7, DelaysAreNear
  <2>2. s * (2 * d - 1) < 3 * z /\ 3 * z = s * (3 * u)
    <3>1. 3 * (u * s) = s * (3 * u)
      OBVIOUS
    <3>2. s * (2 * d - 1) \in Int
      BY <1>3
    <3> QED
      BY <1>2, <1>7, <2>1, <3>1, <3>2
  <2>3. ASSUME 3 * u <= 2 * d - 1 PROVE FALSE
    <3>1. 2 * d - 1 \in Int /\ 3 * u \in Int
      BY <1>3
    <3>2. s * (3 * u) <= s * (2 * d - 1)
      BY <2>3, <3>1, ProductGrows
    <3>3. s * (3 * u) \in Int /\ s * (2 * d - 1) \in Int
      BY <3>1
    <3> QED
      BY <2>2, <3>2, <3>3
  <2> QED
    BY <1>3, <2>3
<1>8. ASSUME z <= c PROVE u <= d
  <2>1. z * s <= c * s
    <3>1. s * z <= s * c
      BY <1>8, ProductGrows
    <3> QED
      BY <3>1
  <2>2. u <= least
    BY <1>4, <1>5, <2>1, RoundsGrows
  <2> QED
    BY <1>3, <1>4, <2>2
<1>9. CASE p.jitter
  BY <1>1, <1>2, <1>7, <1>8, <1>9
<1>10. CASE ~ p.jitter
  BY <1>1, <1>2, <1>3, <1>6, <1>8, <1>10
<1> QED
  BY <1>9, <1>10

\* There is none to draw only of a negative delay, or with jitter of one of zero.
LEMMA NoDelayIsZero ==
  ASSUME NEW p \in RetryConfig, NEW n \in Nat, DelaysForAttempt(p, n) = {}
  PROVE  \/ p.backoff_multiplier.num < 0
         \/ /\ p.jitter
            /\ Lesser(p.initial_delay, p.max_delay) = 0 \/ p.backoff_multiplier.num = 0
<1> SUFFICES ASSUME 0 <= p.backoff_multiplier.num
             PROVE  /\ p.jitter
                    /\ Lesser(p.initial_delay, p.max_delay) = 0 \/ p.backoff_multiplier.num = 0
  BY DEF RetryConfig
<1>1. PICK s \in Nat \ {0}, c \in Nat : s = Scale(p, n) /\ c = Capped(p, n)
  BY CappedType
<1>2. PICK x \in Nat : x = p.max_delay
  BY DEF RetryConfig
<1>3. PICK z \in Nat : z = x * s
  OBVIOUS
<1>4. PICK d \in Nat : Rounds(d, c, s)
  BY <1>1, NearestExists
<1>5. d <= x
  <2>1. c <= z
    BY <1>1, <1>2, <1>3, CappedType
  <2>2. c * s <= z * s
    <3>1. s * c <= s * z
      BY <2>1, ProductGrows
    <3> QED
      BY <3>1
  <2>3. Rounds(x, z, s)
    BY <1>3, RoundsWhole
  <2> QED
    BY <1>4, <2>2, <2>3, RoundsGrows
<1>6. d \in 0..(2 * x)
  BY <1>5
<1>7. p.jitter
  BY <1>1, <1>2, <1>4, <1>6 DEF DelaysForAttempt
<1>8. c = 0
  <2> SUFFICES ASSUME c > 0 PROVE FALSE
    OBVIOUS
  <2>1. s * (2 * d - 1) <= 2 * c
    BY <1>4 DEF Rounds
  <2>2. s * (2 * d - 1) < 3 * c
    <3>1. s * (2 * d - 1) \in Int
      OBVIOUS
    <3> QED
      BY <2>1, <3>1
  <2>3. d \in DelaysForAttempt(p, n)
    BY <1>1, <1>2, <1>4, <1>6, <1>7, <2>2 DEF DelaysForAttempt
  <2> QED
    BY <2>3
<1>9. ASSUME Lesser(p.initial_delay, p.max_delay) # 0, p.backoff_multiplier.num # 0 PROVE FALSE
  <2>1. PICK i \in Nat, a \in Nat \ {0} :
          i = p.initial_delay /\ a = p.backoff_multiplier.num
    BY <1>9 DEF RetryConfig
  <2>2. PICK t \in Nat \ {0} : t = Power(a, n)
    BY PowerIsNatural
  <2>3. i # 0 /\ x # 0
    BY <1>2, <1>9, <2>1 DEF Lesser
  <2>4. i * t \in Nat \ {0} /\ x * s \in Nat \ {0}
    BY <2>3
  <2>5. c = Lesser(i * t, x * s)
    BY <1>1, <1>2, <2>1, <2>2 DEF Capped
  <2> QED
    BY <1>8, <2>4, <2>5 DEF Lesser
<1> QED
  BY <1>7, <1>9

\* Each wait is a delay of its attempt, and a call panics for want of one.
Slept ==
  /\ \A i \in 1..Len(waits) : waits[i] \in DelaysForAttempt(policy, i - 1)
  /\ pc = "panicked" => DelaysForAttempt(policy, attempt) = {}

\* Nothing was slept yet.
LEMMA SleptInit == Init => Slept
BY DEF Init, Slept

\* Only the back-off sleeps, and it knows the attempt by the waits.
LEMMA SleptStep == CallInv /\ Slept /\ [Next]_vars => Slept'
<1> SUFFICES ASSUME CallInv, Slept, [Next]_vars
             PROVE  Slept'
  OBVIOUS
<1>1. Len(waits) = attempt /\ attempt \in Nat /\ waits \in Seq(Delays)
  BY DEF CallInv, Counting, CallTypes
<1>2. ASSUME UNCHANGED <<policy, waits>>, pc' # "panicked"
      PROVE  Slept'
  BY <1>2 DEF Slept
<1>3. CASE Refuse \/ TransportFails \/ ReplyIsUnusable
  BY <1>2, <1>3 DEF Refuse, TransportFails, ReplyIsUnusable, Handle, given
<1>4. CASE Send \/ ReplyOpensStream
  BY <1>2, <1>4 DEF Send, ReplyOpensStream, given
<1>5. ASSUME NEW status \in Statuses, NEW body \in ErrorBodies, ReplyIsError(status, body)
      PROVE  Slept'
  BY <1>2, <1>5 DEF ReplyIsError, Handle, given
<1>6. ASSUME NEW text \in Texts, ReplyIsResponse(text)
      PROVE  Slept'
  BY <1>2, <1>6 DEF ReplyIsResponse, given
<1>7. CASE Backoff
  <2>1. policy' = policy
    BY <1>7 DEF Backoff, given
  <2>2. CASE DelaysForAttempt(policy, attempt) = {}
    BY <1>7, <2>1, <2>2 DEF Backoff, Slept
  <2>3. ASSUME NEW d \in DelaysForAttempt(policy, attempt), waits' = Append(waits, d),
               pc' = "send"
        PROVE  Slept'
    <3>1. d \in Delays
      BY <1>1, <2>3 DEF Delays, CallInv, CallTypes
    <3>2. /\ Len(waits') = attempt + 1 /\ waits'[attempt + 1] = d
          /\ \A i \in 1..attempt : waits'[i] = waits[i]
      BY <1>1, <2>3, <3>1, AppendProperties
    <3>3. ASSUME NEW i \in 1..(attempt + 1)
          PROVE  waits'[i] \in DelaysForAttempt(policy, i - 1)
      <4>1. CASE i = attempt + 1
        <5>1. i - 1 = attempt
          BY <1>1, <4>1
        <5> QED
          BY <2>3, <3>2, <4>1, <5>1
      <4>2. CASE i # attempt + 1
        <5>1. i \in 1..attempt
          BY <1>1, <4>2
        <5> QED
          BY <1>1, <3>2, <5>1 DEF Slept
      <4> QED
        BY <4>1, <4>2
    <3> QED
      BY <2>1, <2>3, <3>2, <3>3 DEF Slept
  <2> QED
    BY <1>7, <2>2, <2>3 DEF Backoff
<1>8. CASE Forward
  BY <1>2, <1>8 DEF Forward, given, Slept
<1>9. CASE UNCHANGED vars
  BY <1>9 DEF vars, Slept
<1> QED
  BY <1>3, <1>4, <1>5, <1>6, <1>7, <1>8, <1>9 DEF Next

\* One wait beside the policy, and beside an earlier one.
LEMMA WaitsOfThePolicy ==
  ASSUME NEW p \in RetryConfig, NEW n \in Nat, NEW d \in DelaysForAttempt(p, n),
         NEW first \in Nat, first = Lesser(p.initial_delay, p.max_delay)
  PROVE  /\ 2 * d <= (IF p.jitter THEN 3 ELSE 2) * p.max_delay
         /\ p.backoff_multiplier.num >= p.backoff_multiplier.den => d >= first
         /\ 0 <= p.backoff_multiplier.num /\ p.backoff_multiplier.num <= p.backoff_multiplier.den =>
              2 * d <= (IF p.jitter THEN 3 ELSE 2) * first
<1>1. p.max_delay \in Nat /\ p.backoff_multiplier.num \in Int
      /\ p.backoff_multiplier.den \in Nat \ {0}
  BY DEF RetryConfig
<1>2. Capped(p, n) <= p.max_delay * Scale(p, n)
  BY CappedType
<1>3. PICK s \in Nat \ {0}, c \in Int : s = Scale(p, n) /\ c = Capped(p, n)
  BY CappedType
<1>4. Scale(p, 0) = 1 /\ Capped(p, 0) = first
  BY CappedFirst
<1>5. d \in Nat
  BY DelaysAreNear
<1>6. c * 1 = c /\ 0 \in 0..n
  OBVIOUS
<1>7. ASSUME p.backoff_multiplier.num >= p.backoff_multiplier.den PROVE first <= d
  <2>1. first * s <= c * 1
    BY <1>1, <1>3, <1>4, <1>6, <1>7, CappedCross
  <2> QED
    BY <1>3, <1>6, <2>1, DelaysKeepTo
<1>8. ASSUME 0 <= p.backoff_multiplier.num, p.backoff_multiplier.num <= p.backoff_multiplier.den
      PROVE  2 * d <= (IF p.jitter THEN 3 ELSE 2) * first
  <2>1. c * 1 <= first * s
    BY <1>3, <1>4, <1>6, <1>8, CappedCross
  <2> QED
    BY <1>3, <1>6, <2>1, DelaysKeepTo
<1>9. 2 * d <= (IF p.jitter THEN 3 ELSE 2) * p.max_delay
  BY <1>1, <1>2, DelaysKeepTo
<1> QED
  BY <1>5, <1>7, <1>8, <1>9

\* Without jitter the waits grow, or shrink, with the clamped delays.
LEMMA WaitsAreOrdered ==
  ASSUME NEW p \in RetryConfig, ~ p.jitter, NEW n \in Nat, NEW m \in 0..n,
         NEW d \in DelaysForAttempt(p, m), NEW e \in DelaysForAttempt(p, n)
  PROVE  /\ p.backoff_multiplier.num >= p.backoff_multiplier.den => d <= e
         /\ 0 <= p.backoff_multiplier.num /\ p.backoff_multiplier.num <= p.backoff_multiplier.den =>
              e <= d
<1>1. m \in Nat /\ p.backoff_multiplier.num \in Int /\ p.backoff_multiplier.den \in Nat \ {0}
  BY DEF RetryConfig
<1>2. PICK s \in Nat \ {0}, x \in Int : s = Scale(p, m) /\ x = Capped(p, m)
  BY <1>1, CappedType
<1>3. PICK t \in Nat \ {0}, y \in Int : t = Scale(p, n) /\ y = Capped(p, n)
  BY CappedType
<1>4. d \in Nat /\ e \in Nat /\ Rounds(d, x, s) /\ Rounds(e, y, t)
  BY <1>1, <1>2, <1>3, DelaysAreNear
<1>5. ASSUME p.backoff_multiplier.num >= p.backoff_multiplier.den PROVE d <= e
  <2>1. x * t <= y * s
    BY <1>1, <1>2, <1>3, <1>5, CappedCross
  <2> QED
    BY <1>4, <2>1, RoundsGrows
<1>6. ASSUME 0 <= p.backoff_multiplier.num, p.backoff_multiplier.num <= p.backoff_multiplier.den
      PROVE  e <= d
  <2>1. y * s <= x * t
    BY <1>2, <1>3, <1>6, CappedCross
  <2> QED
    BY <1>4, <2>1, RoundsGrows
<1> QED
  BY <1>5, <1>6

\* The schedule a delay follows is the documented one over the whole call, for
\* every policy with a finite multiplier: never more waits than it says, none above
\* the cap but by jitter's half, growing or shrinking as the multiplier says; and a
\* call panics only over a delay of zero or a negative one.
THEOREM WaitsFollowThePolicy == Spec => []WaitsAreBounded
<1>1. CallInv /\ Slept => WaitsAreBounded
  <2> SUFFICES ASSUME CallInv, Slept PROVE WaitsAreBounded
    OBVIOUS
  <2> DEFINE multiplier == policy.backoff_multiplier
             growing    == multiplier.num >= multiplier.den
             shrinking  == 0 <= multiplier.num /\ multiplier.num <= multiplier.den
             first      == Lesser(policy.initial_delay, policy.max_delay)
             halves     == IF policy.jitter THEN 3 ELSE 2
  <2>1. policy \in RetryConfig /\ attempt \in Nat
    BY ProviderCallAssumption DEF CallInv, CallTypes
  <2>2. first \in Nat /\ policy.max_retries \in Nat
    BY <2>1 DEF Lesser, RetryConfig
  <2>3. /\ Len(waits) = attempt /\ attempt <= policy.max_retries
        /\ Len(carried) <= attempt + 1
    BY <2>1, <2>2 DEF CallInv, Counting
  <2>4. ASSUME NEW i \in 1..attempt
        PROVE  i - 1 \in Nat /\ waits[i] \in DelaysForAttempt(policy, i - 1)
    BY <2>1, <2>3, <2>4 DEF Slept
  <2>5. ASSUME NEW i \in 1..attempt
        PROVE  /\ 2 * waits[i] <= halves * policy.max_delay
               /\ growing => waits[i] >= first
               /\ shrinking => 2 * waits[i] <= halves * first
    BY <2>1, <2>2, <2>4, WaitsOfThePolicy
  <2>6. ASSUME NEW i \in 1..attempt, ~ policy.jitter, NEW j \in 1..(i - 1)
        PROVE  /\ growing => waits[j] <= waits[i]
               /\ shrinking => waits[i] <= waits[j]
    <3>1. j \in 1..attempt /\ j - 1 \in 0..(i - 1) /\ i - 1 \in Nat
      BY <2>1
    <3>2. waits[j] \in DelaysForAttempt(policy, j - 1) /\ waits[i] \in DelaysForAttempt(policy, i - 1)
      BY <2>4, <3>1
    <3> QED
      BY <2>1, <2>6, <3>1, <3>2, WaitsAreOrdered
  <2>7. pc = "panicked" => \/ multiplier.num < 0
                           \/ policy.jitter /\ (first = 0 \/ multiplier.num = 0)
    BY <2>1, NoDelayIsZero DEF Slept
  <2> HIDE DEF growing, shrinking, first, halves, multiplier
  <2>8. \A i \in 1..Len(waits) :
          /\ 2 * waits[i] <= halves * policy.max_delay
          /\ growing => waits[i] >= first
          /\ shrinking => 2 * waits[i] <= halves * first
          /\ ~ policy.jitter => \A j \in 1..(i - 1) : /\ growing => waits[j] <= waits[i]
                                                      /\ shrinking => waits[i] <= waits[j]
    BY <2>3, <2>5, <2>6
  <2>9. Len(carried) <= Len(waits) + 1 /\ Len(waits) <= policy.max_retries
    BY <2>3
  <2> QED
    BY <2>3, <2>7, <2>8, <2>9
    DEF WaitsAreBounded, growing, shrinking, first, halves, multiplier
<1> QED
  BY <1>1, CallInvariant, SleptInit, SleptStep, PTL DEF Spec

=============================================================================
