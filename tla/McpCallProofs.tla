--------------------------- MODULE McpCallProofs ----------------------------
(***************************************************************************)
(* Safety of McpCall for every set of calls and tools and every number of  *)
(* permits.  The inductive invariant says of each job where it is, from    *)
(* what its flight or its caller has come to, and of each call what its    *)
(* suspension point has established.                                       *)
(***************************************************************************)
EXTENDS McpCall, FiniteSetTheorems, SequenceTheorems, TLAPS

Jobs == {Compile(t) : t \in Tools} \cup {Validate(c) : c \in Calls}

\* The line is a sequence of jobs, each in it once.
Distinct(s) == \A i, j \in 1..Len(s) : s[i] = s[j] => i = j

Types ==
  /\ TypeOK
  /\ line \in Seq(Jobs) /\ Distinct(line)
  /\ IsFiniteSet(jobs)
  /\ compiled \in [Tools -> Nat]

\* Where a caller's validation is.
Validating(c) ==
  /\ Validate(c) \in ToSet(line) <=> pc[c] = "queued"
  /\ pc[c] = "validating" => Validate(c) \in jobs
  /\ Validate(c) \in jobs => pc[c] \in {"validating", "returned"}

\* Where a flight's compilation is, and that it was started at most once.
Flying(t) ==
  /\ Compile(t) \in ToSet(line) <=> flight[t] = "queued"
  /\ Compile(t) \in jobs <=> flight[t] = "compiling"
  /\ compiled[t] <= 1
  /\ flight[t] \in {"none", "spawned", "queued"} => compiled[t] = 0

\* What a call has established where it is suspended, or when it has returned.
Judging(c) ==
  /\ pc[c] \in Suspended \ {"compiling"} \/ result[c] # "none" => Callable(ToolOf[c])
  /\ pc[c] \in {"queued", "validating", "judged", "panicked"} => result[c] \in {"valid", "invalid"}
  /\ outcome[c] = "ok" /\ flight[ToolOf[c]] # "plain" => result[c] \in {"valid", "error"}

CallsInv ==
  /\ Types
  /\ Cardinality(jobs) <= Permits
  /\ \A c \in Calls : Validating(c) /\ Judging(c)
  /\ \A t \in Tools : Flying(t)

-----------------------------------------------------------------------------

\* A job says whose it is.
LEMMA JobsDiffer ==
  ASSUME NEW a, NEW b
  PROVE  /\ Compile(a) # Validate(b)
         /\ Compile(a) = Compile(b) => a = b
         /\ Validate(a) = Validate(b) => a = b
         /\ Compile(a).work = "compile" /\ Compile(a).tool = a
         /\ Validate(a).work = "validate" /\ Validate(a).call = a
BY DEF Compile, Validate

\* A job that joins the line is in it once if it was not there.
LEMMA JoinsLine ==
  ASSUME NEW s \in Seq(Jobs), NEW job \in Jobs, Distinct(s), job \notin ToSet(s)
  PROVE  /\ Append(s, job) \in Seq(Jobs) /\ Distinct(Append(s, job))
         /\ ToSet(Append(s, job)) = ToSet(s) \cup {job}
<1>1. /\ Append(s, job) \in Seq(Jobs) /\ Len(s) \in Nat
      /\ Len(Append(s, job)) = Len(s) + 1
      /\ \A i \in 1..Len(s) : Append(s, job)[i] = s[i]
      /\ Append(s, job)[Len(s) + 1] = job
  BY AppendProperties
<1>2. DOMAIN s = 1..Len(s) /\ DOMAIN Append(s, job) = 1..Len(s) \cup {Len(s) + 1}
  BY <1>1, LenProperties
<1>3. \A i \in 1..Len(s) : s[i] # job
  BY <1>2 DEF ToSet
<1>4. Distinct(Append(s, job))
  BY <1>1, <1>3 DEF Distinct
<1>5. ToSet(Append(s, job)) = ToSet(s) \cup {job}
  BY <1>1, <1>2 DEF ToSet
<1> QED
  BY <1>1, <1>4, <1>5

\* The line without the job at i, whose others move up.
LEMMA LeavesLine ==
  ASSUME NEW s \in Seq(Jobs), NEW i \in 1..Len(s), Distinct(s)
  PROVE  /\ RemoveAt(s, i) \in Seq(Jobs) /\ Distinct(RemoveAt(s, i))
         /\ ToSet(RemoveAt(s, i)) = ToSet(s) \ {s[i]}
<1>1. PICK n \in Nat : n = Len(s)
  BY LenProperties
<1>2. DOMAIN s = 1..n /\ i \in 1..n /\ i \in Nat /\ 1 <= i /\ i <= n
  BY <1>1, LenProperties
<1>3. PICK u : u = SubSeq(s, 1, i - 1)
  OBVIOUS
<1>4. PICK v : v = SubSeq(s, i + 1, n)
  OBVIOUS
<1>5. PICK w : w = RemoveAt(s, i)
  OBVIOUS
<1>6. /\ u \in Seq(Jobs) /\ Len(u) = i - 1
      /\ \A k \in 1..(i - 1) : u[k] = s[k]
  BY <1>2, <1>3, SubSeqProperties
<1>7. /\ v \in Seq(Jobs) /\ Len(v) = n - i
      /\ \A k \in 1..(n - i) : v[k] = s[i + k]
  <2>1. /\ v \in Seq(Jobs) /\ Len(v) = IF i + 1 <= n THEN n - (i + 1) + 1 ELSE 0
        /\ \A k \in 1..(n - (i + 1) + 1) : v[k] = s[(i + 1) + k - 1]
    BY <1>2, <1>4, SubSeqProperties
  <2>2. n - (i + 1) + 1 = n - i /\ (~ (i + 1 <= n) => n - i = 0)
    BY <1>2
  <2>3. \A k \in 1..(n - i) : (i + 1) + k - 1 = i + k
    BY <1>2
  <2> QED
    BY <2>1, <2>2, <2>3
<1>8. /\ w \in Seq(Jobs) /\ Len(w) = n - 1
      /\ \A k \in 1..(n - 1) : w[k] = IF k <= i - 1 THEN u[k] ELSE v[k - (i - 1)]
  <2>1. w = u \o v
    BY <1>1, <1>3, <1>4, <1>5 DEF RemoveAt
  <2>2. /\ w \in Seq(Jobs) /\ Len(w) = Len(u) + Len(v)
        /\ \A k \in 1..(Len(u) + Len(v)) : w[k] = IF k <= Len(u) THEN u[k] ELSE v[k - Len(u)]
    BY <1>6, <1>7, <2>1, ConcatProperties
  <2>3. (i - 1) + (n - i) = n - 1
    BY <1>2
  <2> QED
    BY <1>6, <1>7, <2>2, <2>3
<1>9. ASSUME NEW k \in 1..(n - 1)
      PROVE  w[k] = IF k < i THEN s[k] ELSE s[k + 1]
  <2>1. w[k] = IF k <= i - 1 THEN u[k] ELSE v[k - (i - 1)]
    BY <1>8
  <2>2. CASE k < i
    BY <1>2, <1>6, <2>1, <2>2
  <2>3. CASE ~ (k < i)
    <3>1. k - (i - 1) \in 1..(n - i) /\ i + (k - (i - 1)) = k + 1
      BY <1>2, <2>3
    <3> QED
      BY <1>2, <1>7, <2>1, <2>3, <3>1
  <2> QED
    BY <2>2, <2>3
<1>10. DOMAIN w = 1..(n - 1)
  BY <1>8, LenProperties
<1>11. Distinct(w)
  <2>1. SUFFICES ASSUME NEW j \in 1..(n - 1), NEW k \in 1..(n - 1), w[j] = w[k]
                 PROVE  j = k
    BY <1>8 DEF Distinct
  <2>2. \A a, b \in 1..n : s[a] = s[b] => a = b
    BY <1>1 DEF Distinct
  <2>3. j \in 1..n /\ j + 1 \in 1..n /\ k \in 1..n /\ k + 1 \in 1..n
    OBVIOUS
  <2>4. (IF j < i THEN j ELSE j + 1) = (IF k < i THEN k ELSE k + 1)
    BY <1>9, <2>1, <2>2, <2>3
  <2> QED
    BY <1>2, <2>4
<1>12. ASSUME NEW x, x \in ToSet(w) PROVE x \in ToSet(s) /\ x # s[i]
  <2>1. PICK k \in 1..(n - 1) : x = w[k]
    BY <1>10, <1>12 DEF ToSet
  <2>2. PICK m \in 1..n : x = s[m] /\ m # i
    <3>1. k \in 1..n /\ k + 1 \in 1..n /\ (k < i => k # i) /\ (~ (k < i) => k + 1 # i)
      BY <1>2
    <3> QED
      BY <1>9, <2>1, <3>1
  <2> QED
    BY <1>1, <1>2, <2>2 DEF ToSet, Distinct
<1>13. ASSUME NEW x, x \in ToSet(s), x # s[i] PROVE x \in ToSet(w)
  <2>1. PICK m \in 1..n : x = s[m] /\ m # i
    BY <1>2, <1>13 DEF ToSet
  <2>2. PICK k \in 1..(n - 1) : x = w[k]
    <3>1. CASE m < i
      BY <1>2, <1>9, <2>1, <3>1
    <3>2. CASE m > i
      <4>1. m - 1 \in 1..(n - 1) /\ ~ (m - 1 < i) /\ (m - 1) + 1 = m
        BY <1>2, <3>2
      <4> QED
        BY <1>9, <2>1, <4>1
    <3> QED
      BY <1>2, <2>1, <3>1, <3>2
  <2> QED
    BY <1>10, <2>2 DEF ToSet
<1> QED
  BY <1>5, <1>8, <1>11, <1>12, <1>13

\* The job at the head of the line takes a permit.
LEMMA HeadLeavesLine ==
  ASSUME NEW s \in Seq(Jobs), s # <<>>, Distinct(s)
  PROVE  /\ Head(s) \in Jobs /\ Head(s) \in ToSet(s)
         /\ Tail(s) \in Seq(Jobs) /\ Distinct(Tail(s))
         /\ ToSet(Tail(s)) = ToSet(s) \ {Head(s)}
<1>1. /\ Head(s) \in Jobs /\ Tail(s) \in Seq(Jobs) /\ Len(Tail(s)) = Len(s) - 1
      /\ \A k \in 1..Len(Tail(s)) : Tail(s)[k] = s[k + 1]
  BY HeadTailProperties
<1>2. /\ Len(s) \in Nat \ {0} /\ DOMAIN s = 1..Len(s) /\ Head(s) = s[1]
      /\ DOMAIN Tail(s) = 1..(Len(s) - 1)
  BY <1>1, LenProperties, EmptySeq
<1>3. Distinct(Tail(s))
  BY <1>1, <1>2 DEF Distinct
<1>4. Head(s) \in ToSet(s)
  BY <1>2 DEF ToSet
<1>5. ASSUME NEW x PROVE x \in ToSet(Tail(s)) <=> x \in ToSet(s) \ {Head(s)}
  <2>1. ASSUME x \in ToSet(Tail(s)) PROVE x \in ToSet(s) \ {Head(s)}
    <3>1. PICK k \in 1..(Len(s) - 1) : x = Tail(s)[k]
      BY <1>2, <2>1 DEF ToSet
    <3> QED
      BY <1>1, <1>2, <3>1 DEF ToSet, Distinct
  <2>2. ASSUME x \in ToSet(s) \ {Head(s)} PROVE x \in ToSet(Tail(s))
    <3>1. PICK k \in 1..Len(s) : x = s[k] /\ k # 1
      BY <1>2, <2>2 DEF ToSet
    <3>2. k - 1 \in 1..(Len(s) - 1) /\ (k - 1) + 1 = k
      BY <1>2, <3>1
    <3> QED
      BY <1>1, <1>2, <3>1, <3>2 DEF ToSet
  <2> QED
    BY <2>1, <2>2
<1> QED
  BY <1>1, <1>3, <1>4, <1>5

-----------------------------------------------------------------------------

\* Nothing is in line or running, and no call has been polled.
LEMMA CallsInvInit == Init => CallsInv
<1> SUFFICES ASSUME Init PROVE CallsInv
  OBVIOUS
<1> USE McpCallAssumption
<1>1. ToSet(line) = {}
  BY DEF Init, ToSet
<1>2. Types
  BY <1>1, FS_EmptySet DEF Init, Types, TypeOK, Distinct, Settled, Suspended
<1>3. Cardinality(jobs) <= Permits
  BY FS_EmptySet DEF Init
<1>4. ASSUME NEW c \in Calls PROVE Validating(c) /\ Judging(c)
  BY <1>1 DEF Init, Validating, Judging, Suspended
<1>5. ASSUME NEW t \in Tools PROVE Flying(t)
  BY <1>1 DEF Init, Flying
<1> QED
  BY <1>2, <1>3, <1>4, <1>5 DEF CallsInv

-----------------------------------------------------------------------------

\* A flight that goes on from one state to the next keeps what its callers rely
\* on: it lands once, and a tool without a schema has none.
FlightsGoOn ==
  \A t \in Tools :
    /\ Callable(t) => flight'[t] = flight[t]
    /\ flight'[t] = "plain" => flight[t] = "plain"

\* What a step of one call leaves to the others: their futures, and the jobs
\* they wait for.
Others(c) ==
  \A d \in Calls \ {c} :
    /\ pc'[d] = pc[d] /\ outcome'[d] = outcome[d] /\ result'[d] = result[d]
    /\ Validate(d) \in ToSet(line') <=> Validate(d) \in ToSet(line)
    /\ Validate(d) \in jobs' <=> Validate(d) \in jobs

\* A call that a step does not concern stays where it was.
LEMMA OthersKeep ==
  ASSUME CallsInv, NEW c, Others(c), FlightsGoOn, NEW d \in Calls \ {c}
  PROVE  Validating(d)' /\ Judging(d)'
<1>1. Validating(d) /\ Judging(d) /\ ToolOf[d] \in Tools
  BY McpCallAssumption DEF CallsInv
<1>2. Validating(d)'
  BY <1>1 DEF Others, Validating, Validate
<1>3. Judging(d)'
  BY <1>1 DEF Others, FlightsGoOn, Judging, Callable
<1> QED
  BY <1>2, <1>3

\* A step of one call's future that neither queues nor drops a job.
LEMMA FutureKeepsInv ==
  ASSUME CallsInv, NEW c \in Calls,
         NEW p \in Suspended \cup {"unpolled", "returned"}, pc' = [pc EXCEPT ![c] = p],
         NEW o, outcome' = [outcome EXCEPT ![c] = o],
         o \in {"none", "ok", "violation", "invalid_schema", "processing", "refused",
                "service", "timeout", "cancelled", "dropped"},
         o = "none" <=> p # "returned",
         NEW r \in Results \cup {"none"}, result' = [result EXCEPT ![c] = r],
         UNCHANGED <<flight, line, jobs, due, signalled, compiled>>,
         pc[c] \notin {"queued", "returned"}, p \notin {"queued", "validating"},
         pc[c] = "validating" => p = "returned",
         Judging(c)'
  PROVE  CallsInv'
<1>1. /\ pc'[c] = p /\ outcome'[c] = o /\ result'[c] = r
      /\ \A d \in Calls \ {c} : pc'[d] = pc[d] /\ outcome'[d] = outcome[d] /\ result'[d] = result[d]
  BY DEF CallsInv, Types, TypeOK
<1>2. Types'
  BY <1>1 DEF CallsInv, Types, TypeOK, Distinct
<1>3. Others(c) /\ FlightsGoOn
  BY <1>1 DEF Others, FlightsGoOn
<1>4. Validating(c)'
  BY <1>1 DEF CallsInv, Validating, Validate
<1>5. \A t \in Tools : Flying(t)'
  BY DEF CallsInv, Flying, Compile
<1> QED
  BY <1>2, <1>3, <1>4, <1>5, OthersKeep DEF CallsInv

\* The future returns.
LEMMA ReturnKeepsInv ==
  ASSUME CallsInv, NEW c \in Calls,
         NEW how \in {"ok", "violation", "invalid_schema", "processing", "refused",
                      "service", "timeout", "cancelled", "dropped"},
         Return(c, how), how = "ok" => result[c] = "valid",
         UNCHANGED <<result, flight, line, jobs, due, signalled, compiled>>,
         pc[c] \notin {"queued", "returned"}
  PROVE  CallsInv'
<1>1. pc' = [pc EXCEPT ![c] = "returned"] /\ outcome' = [outcome EXCEPT ![c] = how]
  BY DEF Return
<1>2. result[c] \in Results \cup {"none"} /\ result' = [result EXCEPT ![c] = result[c]]
  BY DEF CallsInv, Types, TypeOK
<1>3. pc'[c] = "returned" /\ outcome'[c] = how
  BY <1>1 DEF CallsInv, Types, TypeOK
<1>4. Judging(c)'
  BY <1>3 DEF CallsInv, Judging, Callable, Suspended
<1>5. how # "none" /\ how \in {"none", "ok", "violation", "invalid_schema", "processing",
                               "refused", "service", "timeout", "cancelled", "dropped"}
  OBVIOUS
<1>6. /\ "returned" \in Suspended \cup {"unpolled", "returned"}
      /\ "returned" \notin {"queued", "validating"}
      /\ how = "none" <=> "returned" # "returned"
  BY <1>5
<1>7. UNCHANGED <<flight, line, jobs, due, signalled, compiled>>
  OBVIOUS
<1> QED
  BY <1>1, <1>2, <1>4, <1>5, <1>6, <1>7, FutureKeepsInv

\* The first poll of a call, which may spawn the flight of its tool.
LEMMA StartKeepsInv ==
  ASSUME CallsInv, NEW c \in Calls, Start(c)
  PROVE  CallsInv'
<1> DEFINE t == ToolOf[c]
<1>1. t \in Tools
  BY McpCallAssumption
<1>2. /\ pc[c] = "unpolled" /\ pc' = [pc EXCEPT ![c] = "compiling"]
      /\ flight' = [flight EXCEPT ![t] = IF flight[t] = "none" THEN "spawned" ELSE flight[t]]
      /\ UNCHANGED <<outcome, result, line, jobs, due, signalled, compiled>>
  BY DEF Start
<1>3. pc'[c] = "compiling" /\ \A d \in Calls \ {c} : pc'[d] = pc[d]
  BY <1>2 DEF CallsInv, Types, TypeOK
<1>4. /\ flight'[t] = IF flight[t] = "none" THEN "spawned" ELSE flight[t]
      /\ \A u \in Tools \ {t} : flight'[u] = flight[u]
  BY <1>1, <1>2 DEF CallsInv, Types, TypeOK
<1> HIDE DEF t
<1>5. Types'
  BY <1>1, <1>2, <1>3 DEF CallsInv, Types, TypeOK, Distinct, Suspended
<1>6. Others(c) /\ FlightsGoOn
  BY <1>1, <1>2, <1>3, <1>4 DEF Others, FlightsGoOn, Callable
<1>7. Validating(c)'
  BY <1>2, <1>3 DEF CallsInv, Validating, Validate
<1>8. Judging(c)'
  <2>1. outcome[c] = "none"
    BY <1>2 DEF CallsInv, Types, TypeOK
  <2>2. result[c] # "none" => Callable(t)
    BY DEF CallsInv, Judging, t
  <2>3. Judging(c)' <=> /\ result[c] # "none" => Callable(t)'
                        /\ outcome[c] = "ok" => flight'[t] = "plain" \/ result[c] \in {"valid", "error"}
    BY <1>2, <1>3 DEF Judging, t
  <2> QED
    BY <1>4, <2>1, <2>2, <2>3 DEF Callable
<1>9. ASSUME NEW u \in Tools PROVE Flying(u)'
  BY <1>2, <1>4 DEF CallsInv, Flying, Compile
<1> QED
  BY <1>2, <1>5, <1>6, <1>7, <1>8, <1>9, OthersKeep DEF CallsInv

\* A flight joins the line.
LEMMA QueueCompileKeepsInv ==
  ASSUME CallsInv, NEW t \in Tools, QueueCompile(t)
  PROVE  CallsInv'
<1>1. /\ flight[t] = "spawned" /\ flight' = [flight EXCEPT ![t] = "queued"]
      /\ line' = Append(line, Compile(t))
      /\ UNCHANGED <<pc, outcome, result, jobs, due, signalled, compiled>>
  BY DEF QueueCompile
<1>2. flight'[t] = "queued" /\ \A u \in Tools \ {t} : flight'[u] = flight[u]
  BY <1>1 DEF CallsInv, Types, TypeOK
<1>3. Compile(t) \in Jobs /\ Compile(t) \notin ToSet(line)
  BY <1>1 DEF Jobs, CallsInv, Flying
<1>4. line' \in Seq(Jobs) /\ Distinct(line') /\ ToSet(line') = ToSet(line) \cup {Compile(t)}
  BY <1>1, <1>3, JoinsLine DEF CallsInv, Types
<1>5. Types'
  <2>1. ToSet(line') \subseteq Jobs
    BY <1>3, <1>4 DEF CallsInv, Types, TypeOK, Jobs
  <2> QED
    BY <1>1, <1>4, <2>1 DEF CallsInv, Types, TypeOK, Jobs
<1>6. FlightsGoOn
  BY <1>1, <1>2 DEF FlightsGoOn, Callable
<1>7. ASSUME NEW d \in Calls PROVE Validating(d)' /\ Judging(d)'
  <2>1. Validate(d) \in ToSet(line') <=> Validate(d) \in ToSet(line)
    BY <1>4, JobsDiffer
  <2>2. Validating(d)'
    BY <1>1, <2>1 DEF CallsInv, Validating, Validate
  <2>3. Judging(d)'
    BY <1>1, <1>6, McpCallAssumption DEF CallsInv, FlightsGoOn, Judging, Callable
  <2> QED
    BY <2>2, <2>3
<1>8. ASSUME NEW u \in Tools PROVE Flying(u)'
  BY <1>1, <1>2, <1>4, JobsDiffer DEF CallsInv, Flying
<1> QED
  BY <1>1, <1>5, <1>7, <1>8 DEF CallsInv

\* A call's validation joins the line.
LEMMA QueueValidateKeepsInv ==
  ASSUME CallsInv, NEW c \in Calls, NEW r \in {"valid", "invalid"},
         pc[c] = "calling", pc' = [pc EXCEPT ![c] = "queued"],
         result' = [result EXCEPT ![c] = r],
         line' = Append(line, Validate(c)),
         UNCHANGED <<outcome, flight, jobs, due, signalled, compiled>>
  PROVE  CallsInv'
<1>1. /\ pc'[c] = "queued" /\ result'[c] = r
      /\ \A d \in Calls \ {c} : pc'[d] = pc[d] /\ result'[d] = result[d]
  BY DEF CallsInv, Types, TypeOK
<1>2. Validate(c) \in Jobs /\ Validate(c) \notin ToSet(line)
  BY DEF Jobs, CallsInv, Validating
<1>3. line' \in Seq(Jobs) /\ Distinct(line') /\ ToSet(line') = ToSet(line) \cup {Validate(c)}
  BY <1>2, JoinsLine DEF CallsInv, Types
<1>4. Types'
  <2>1. ToSet(line') \subseteq Jobs
    BY <1>2, <1>3 DEF CallsInv, Types, TypeOK, Jobs
  <2>2. outcome[c] = "none"
    BY DEF CallsInv, Types, TypeOK
  <2> QED
    BY <1>1, <1>3, <2>1, <2>2 DEF CallsInv, Types, TypeOK, Jobs, Suspended, Results
<1>5. Others(c) /\ FlightsGoOn
  BY <1>1, <1>3, JobsDiffer DEF Others, FlightsGoOn
<1>6. Validating(c)'
  BY <1>1, <1>3 DEF CallsInv, Validating, Validate
<1>7. Judging(c)'
  <2>1. Judging(c) /\ outcome[c] = "none"
    BY DEF CallsInv, Types, TypeOK
  <2> QED
    BY <1>1, <2>1 DEF Judging, Callable, Suspended
<1>8. ASSUME NEW t \in Tools PROVE Flying(t)'
  <2>1. Flying(t)
    BY DEF CallsInv
  <2>2. Compile(t) \in ToSet(line') <=> Compile(t) \in ToSet(line)
    BY <1>3, JobsDiffer
  <2> QED
    BY <2>1, <2>2 DEF Flying
<1> QED
  BY <1>4, <1>5, <1>6, <1>7, <1>8, OthersKeep DEF CallsInv

\* What the server answered, by what the tool's schema makes of it.
LEMMA ReceiveKeepsInv ==
  ASSUME CallsInv, NEW c \in Calls, NEW r \in Results, Receive(c, r)
  PROVE  CallsInv'
<1> DEFINE passes == r = "error" \/ flight[ToolOf[c]] = "plain"
<1>1. pc[c] = "calling" /\ result' = [result EXCEPT ![c] = r]
      /\ UNCHANGED <<flight, jobs, due, signalled, compiled>>
  BY DEF Receive
<1>2. CASE r \in {"valid", "invalid"} /\ pc' = [pc EXCEPT ![c] = "queued"]
           /\ line' = Append(line, Validate(c)) /\ UNCHANGED outcome
  BY <1>1, <1>2, QueueValidateKeepsInv
<1>3. ASSUME NEW how \in {"ok", "violation", "timeout"}, Return(c, how), UNCHANGED line,
             how = "ok" => passes
      PROVE  CallsInv'
  <2>1. pc' = [pc EXCEPT ![c] = "returned"] /\ outcome' = [outcome EXCEPT ![c] = how]
    BY <1>3 DEF Return
  <2>2. pc'[c] = "returned" /\ outcome'[c] = how /\ result'[c] = r
    BY <1>1, <2>1 DEF CallsInv, Types, TypeOK
  <2>3. Judging(c)'
    <3>1. Callable(ToolOf[c])
      BY <1>1 DEF CallsInv, Judging, Suspended
    <3>2. Callable(ToolOf[c])'
      BY <1>1, <3>1 DEF Callable
    <3> QED
      BY <1>1, <1>3, <2>2, <3>2 DEF Judging, Suspended
  <2>4. /\ "returned" \in Suspended \cup {"unpolled", "returned"}
        /\ "returned" \notin {"queued", "validating"}
        /\ how = "none" <=> "returned" # "returned"
        /\ how \in {"none", "ok", "violation", "invalid_schema", "processing", "refused",
                    "service", "timeout", "cancelled", "dropped"}
        /\ r \in Results \cup {"none"}
        /\ pc[c] \notin {"queued", "returned"} /\ pc[c] # "validating"
    BY <1>1
  <2>5. UNCHANGED <<flight, line, jobs, due, signalled, compiled>>
    BY <1>1, <1>3
  <2> QED
    BY <1>1, <2>1, <2>3, <2>4, <2>5, FutureKeepsInv
<1> QED
  BY <1>2, <1>3 DEF Receive, Results

\* A caller that gives up takes its job out of the line.
LEMMA GiveUpKeepsInv ==
  ASSUME CallsInv, NEW c \in Calls, NEW how \in {"cancelled", "timeout", "dropped"},
         GiveUp(c, how)
  PROVE  CallsInv'
<1>1. /\ pc[c] \in Suspended \cup {"unpolled"} /\ Return(c, how) /\ Leave(c)
      /\ UNCHANGED <<result, flight, jobs, due, signalled, compiled>>
  BY DEF GiveUp, Leave
<1>2. pc[c] # "returned"
  BY <1>1 DEF Suspended
<1>3. CASE Validate(c) \notin ToSet(line)
  <2>1. \A i \in 1..Len(line) : line[i] # Validate(c)
    BY <1>3, LenProperties DEF CallsInv, Types, ToSet
  <2>2. UNCHANGED line
    BY <1>1, <2>1 DEF Leave
  <2>3. pc[c] \notin {"queued", "returned"}
    BY <1>2, <1>3 DEF CallsInv, Validating
  <2> QED
    <3>1. UNCHANGED <<result, flight, line, jobs, due, signalled, compiled>>
      BY <1>1, <2>2
    <3>2. Return(c, how) /\ how # "ok"
      BY <1>1
    <3> QED
      BY <2>3, <3>1, <3>2, ReturnKeepsInv
<1>4. CASE Validate(c) \in ToSet(line)
  <2>1. PICK i \in 1..Len(line) : line[i] = Validate(c) /\ line' = RemoveAt(line, i)
    BY <1>1, <1>4 DEF Leave
  <2>2. line' \in Seq(Jobs) /\ Distinct(line') /\ ToSet(line') = ToSet(line) \ {Validate(c)}
    BY <2>1, LeavesLine DEF CallsInv, Types
  <2>3. /\ pc'[c] = "returned" /\ outcome'[c] = how
        /\ \A d \in Calls \ {c} : pc'[d] = pc[d] /\ outcome'[d] = outcome[d]
    BY <1>1 DEF Return, CallsInv, Types, TypeOK
  <2>4. Types'
    <3>1. pc' = [pc EXCEPT ![c] = "returned"] /\ outcome' = [outcome EXCEPT ![c] = how]
      BY <1>1 DEF Return
    <3>2. ToSet(line') \subseteq {Compile(t) : t \in Tools} \cup {Validate(d) : d \in Calls}
      BY <2>2 DEF CallsInv, Types, TypeOK
    <3>3. TypeOK'
      BY <1>1, <2>3, <3>1, <3>2 DEF CallsInv, Types, TypeOK
    <3> QED
      BY <1>1, <2>2, <3>3 DEF CallsInv, Types
  <2>5. Others(c) /\ FlightsGoOn
    BY <1>1, <2>2, <2>3, JobsDiffer DEF Others, FlightsGoOn
  <2>6. Validating(c)'
    BY <1>1, <2>2, <2>3 DEF CallsInv, Validating, Validate
  <2>7. Judging(c)'
    BY <1>1, <2>3 DEF CallsInv, Judging, Callable, Suspended
  <2>8. ASSUME NEW t \in Tools PROVE Flying(t)'
    BY <1>1, <2>2, JobsDiffer DEF CallsInv, Flying
  <2> QED
    BY <1>1, <2>4, <2>5, <2>6, <2>7, <2>8, OthersKeep DEF CallsInv
<1> QED
  BY <1>3, <1>4

\* The first job in line takes a free permit.
LEMMA RunKeepsInv ==
  ASSUME CallsInv, Run
  PROVE  CallsInv'
<1> DEFINE job == Head(line)
<1>1. /\ line # <<>> /\ Cardinality(jobs) < Permits
      /\ jobs' = jobs \cup {job} /\ line' = Tail(line)
      /\ UNCHANGED <<outcome, result, due, signalled>>
  BY DEF Run
<1>2. /\ job \in Jobs /\ job \in ToSet(line)
      /\ line' \in Seq(Jobs) /\ Distinct(line') /\ ToSet(line') = ToSet(line) \ {job}
  BY <1>1, HeadLeavesLine DEF CallsInv, Types
<1>3. IsFiniteSet(jobs') /\ Cardinality(jobs') <= Permits
  <2>1. IsFiniteSet(jobs) /\ Cardinality(jobs) \in Nat
    BY FS_CardinalityType DEF CallsInv, Types
  <2> HIDE DEF job
  <2>2. /\ IsFiniteSet(jobs \cup {job})
        /\ Cardinality(jobs \cup {job}) \in {Cardinality(jobs), Cardinality(jobs) + 1}
    BY <2>1, FS_AddElement
  <2>3. jobs' = jobs \cup {job} /\ Cardinality(jobs) < Permits
    BY <1>1
  <2> QED
    BY <2>1, <2>2, <2>3, McpCallAssumption
<1>4. jobs' \cup ToSet(line') \subseteq {Compile(t) : t \in Tools} \cup {Validate(c) : c \in Calls}
  BY <1>1, <1>2 DEF Jobs, CallsInv, Types, TypeOK
<1>5. ASSUME NEW t \in Tools, job = Compile(t)
      PROVE  CallsInv'
  <2>1. /\ flight' = [flight EXCEPT ![t] = "compiling"]
        /\ compiled' = [compiled EXCEPT ![t] = compiled[t] + 1]
        /\ UNCHANGED pc
    BY <1>5, JobsDiffer DEF Run
  <2>2. flight[t] = "queued" /\ compiled[t] = 0
    BY <1>2, <1>5 DEF CallsInv, Flying, Types
  <2>3. /\ flight'[t] = "compiling" /\ compiled'[t] = 1
        /\ \A u \in Tools \ {t} : flight'[u] = flight[u] /\ compiled'[u] = compiled[u]
    BY <2>1, <2>2 DEF CallsInv, Types, TypeOK
  <2>4. Types'
    <3>1. TypeOK'
      BY <1>1, <1>4, <2>1 DEF CallsInv, Types, TypeOK
    <3>2. compiled' \in [Tools -> Nat]
      BY <2>1, <2>3 DEF CallsInv, Types
    <3> QED
      BY <1>2, <1>3, <3>1, <3>2 DEF Types
  <2>5. ASSUME NEW d \in Calls PROVE Validating(d)' /\ Judging(d)'
    <3>0. /\ Validate(d) \in ToSet(line') <=> Validate(d) \in ToSet(line)
          /\ Validate(d) \in jobs' <=> Validate(d) \in jobs
      BY <1>1, <1>2, <1>5, JobsDiffer
    <3>1. Validating(d)'
      BY <2>1, <3>0 DEF CallsInv, Validating, Validate
    <3>2. FlightsGoOn
      BY <2>2, <2>3 DEF FlightsGoOn, Callable
    <3>3. Judging(d)'
      BY <1>1, <2>1, <3>2, McpCallAssumption DEF CallsInv, FlightsGoOn, Judging, Callable
    <3> QED
      BY <3>1, <3>3
  <2>6. ASSUME NEW u \in Tools PROVE Flying(u)'
    BY <1>1, <1>2, <1>5, <2>2, <2>3, JobsDiffer DEF CallsInv, Flying
  <2> QED
    BY <1>3, <2>4, <2>5, <2>6 DEF CallsInv
<1>6. ASSUME NEW c \in Calls, job = Validate(c)
      PROVE  CallsInv'
  <2>1. /\ pc' = [pc EXCEPT ![c] = "validating"]
        /\ UNCHANGED <<flight, compiled>>
    BY <1>6, JobsDiffer DEF Run
  <2>2. pc[c] = "queued"
    BY <1>2, <1>6 DEF CallsInv, Validating
  <2>3. pc'[c] = "validating" /\ \A d \in Calls \ {c} : pc'[d] = pc[d]
    BY <2>1 DEF CallsInv, Types, TypeOK
  <2>4. Types'
    <3>1. TypeOK'
      BY <1>1, <1>4, <2>1, <2>2, <2>3 DEF CallsInv, Types, TypeOK, Suspended
    <3> QED
      BY <1>2, <1>3, <2>1, <3>1 DEF CallsInv, Types
  <2>5. Others(c) /\ FlightsGoOn
    BY <1>1, <1>2, <1>6, <2>1, <2>3, JobsDiffer DEF Others, FlightsGoOn
  <2>6. Validating(c)'
    BY <1>1, <1>2, <1>6, <2>3 DEF Validating, Validate
  <2>7. Judging(c)'
    BY <1>1, <2>1, <2>2, <2>3 DEF CallsInv, Judging, Callable, Suspended
  <2>8. ASSUME NEW t \in Tools PROVE Flying(t)'
    BY <1>1, <1>2, <1>6, <2>1, JobsDiffer DEF CallsInv, Flying
  <2> QED
    BY <1>3, <2>4, <2>5, <2>6, <2>7, <2>8, OthersKeep DEF CallsInv
<1> QED
  BY <1>2, <1>5, <1>6 DEF Jobs

\* A job that ends returns its permit.
LEMMA PermitReturns ==
  ASSUME CallsInv, NEW job, jobs' = jobs \ {job}
  PROVE  IsFiniteSet(jobs') /\ Cardinality(jobs') <= Permits
<1>1. IsFiniteSet(jobs) /\ Cardinality(jobs) \in Nat
  BY FS_CardinalityType DEF CallsInv, Types
<1>2. IsFiniteSet(jobs') /\ Cardinality(jobs') \in Nat /\ Cardinality(jobs') <= Cardinality(jobs)
  <2>1. IsFiniteSet(jobs') /\ Cardinality(jobs') =
          IF job \in jobs THEN Cardinality(jobs) - 1 ELSE Cardinality(jobs)
    BY <1>1, FS_RemoveElement
  <2>2. Cardinality(jobs') \in Nat
    BY <2>1, FS_CardinalityType
  <2> QED
    BY <1>1, <2>1, <2>2
<1> QED
  BY <1>1, <1>2, McpCallAssumption DEF CallsInv

\* A compilation ends, and its flight has landed.
LEMMA FinishCompileKeepsInv ==
  ASSUME CallsInv, NEW t \in Tools, NEW how \in Settled, FinishCompile(t, how)
  PROVE  CallsInv'
<1>1. /\ Compile(t) \in jobs /\ jobs' = jobs \ {Compile(t)}
      /\ flight' = [flight EXCEPT ![t] = how]
      /\ UNCHANGED <<pc, outcome, result, line, due, signalled, compiled>>
  BY DEF FinishCompile
<1>2. flight[t] = "compiling"
  BY <1>1 DEF CallsInv, Flying
<1>3. flight'[t] = how /\ \A u \in Tools \ {t} : flight'[u] = flight[u]
  BY <1>1 DEF CallsInv, Types, TypeOK
<1>4. IsFiniteSet(jobs') /\ Cardinality(jobs') <= Permits
  BY <1>1, PermitReturns
<1>5. Types'
  <2>1. TypeOK'
    BY <1>1 DEF CallsInv, Types, TypeOK
  <2> QED
    BY <1>1, <1>4, <2>1 DEF CallsInv, Types
<1>6. ASSUME NEW d \in Calls PROVE Validating(d)' /\ Judging(d)'
  <2>0. Validate(d) \in jobs' <=> Validate(d) \in jobs
    BY <1>1, JobsDiffer
  <2>1. Validating(d)'
    BY <1>1, <2>0 DEF CallsInv, Validating, Validate
  <2>2. FlightsGoOn
    BY <1>2, <1>3 DEF FlightsGoOn, Callable, Settled
  <2>3. Judging(d)'
    BY <1>1, <2>2, McpCallAssumption DEF CallsInv, FlightsGoOn, Judging, Callable
  <2> QED
    BY <2>1, <2>3
<1>7. ASSUME NEW u \in Tools PROVE Flying(u)'
  BY <1>1, <1>2, <1>3, JobsDiffer DEF CallsInv, Flying, Settled
<1> QED
  BY <1>4, <1>5, <1>6, <1>7 DEF CallsInv

\* A validation ends; a caller that is still there wakes up.
LEMMA FinishValidateKeepsInv ==
  ASSUME CallsInv, NEW c \in Calls, NEW how \in {"judged", "panicked"}, FinishValidate(c, how)
  PROVE  CallsInv'
<1>1. /\ Validate(c) \in jobs /\ jobs' = jobs \ {Validate(c)}
      /\ pc' = IF pc[c] = "validating" THEN [pc EXCEPT ![c] = how] ELSE pc
      /\ UNCHANGED <<outcome, result, flight, line, due, signalled, compiled>>
  BY DEF FinishValidate
<1>2. pc[c] \in {"validating", "returned"}
  BY <1>1 DEF CallsInv, Validating
<1>3. /\ pc'[c] = IF pc[c] = "validating" THEN how ELSE pc[c]
      /\ \A d \in Calls \ {c} : pc'[d] = pc[d]
  BY <1>1 DEF CallsInv, Types, TypeOK
<1>4. IsFiniteSet(jobs') /\ Cardinality(jobs') <= Permits
  BY <1>1, PermitReturns
<1>5. Types'
  <2>1. TypeOK'
    BY <1>1, <1>2, <1>3 DEF CallsInv, Types, TypeOK, Suspended
  <2> QED
    BY <1>1, <1>4, <2>1 DEF CallsInv, Types
<1>6. Others(c) /\ FlightsGoOn
  BY <1>1, <1>3, JobsDiffer DEF Others, FlightsGoOn
<1>7. Validating(c)'
  BY <1>1, <1>2, <1>3 DEF CallsInv, Validating, Validate
<1>8. Judging(c)'
  BY <1>1, <1>2, <1>3 DEF CallsInv, Judging, Callable, Suspended
<1>9. ASSUME NEW t \in Tools PROVE Flying(t)'
  BY <1>1, JobsDiffer DEF CallsInv, Flying
<1> QED
  BY <1>4, <1>5, <1>6, <1>7, <1>8, <1>9, OthersKeep DEF CallsInv

\* Every step of a call, a flight, a job, the clock or a signal keeps the
\* invariant.
LEMMA CallsInvStep == CallsInv /\ [Next]_vars => CallsInv'
<1> SUFFICES ASSUME CallsInv, [Next]_vars PROVE CallsInv'
  OBVIOUS
<1>1. ASSUME NEW c \in Calls, Refuse(c) PROVE CallsInv'
  <2>1. /\ pc[c] \notin {"queued", "returned"}
        /\ UNCHANGED <<result, flight, line, jobs, due, signalled, compiled>>
    BY <1>1 DEF Refuse
  <2>2. \E how \in {"timeout", "refused"} : Return(c, how)
    BY <1>1 DEF Refuse
  <2> QED
    BY <2>1, <2>2, ReturnKeepsInv
<1>2. ASSUME NEW c \in Calls, Call(c) PROVE CallsInv'
  <2>1. /\ pc[c] = "compiling"
        /\ UNCHANGED <<result, flight, line, jobs, due, signalled, compiled>>
    BY <1>2 DEF Call
  <2>2. CASE \E how \in {"timeout", "invalid_schema", "processing"} : Return(c, how)
    BY <2>1, <2>2, ReturnKeepsInv
  <2>3. CASE /\ Callable(ToolOf[c]) /\ pc' = [pc EXCEPT ![c] = "calling"]
             /\ UNCHANGED outcome
    <3>1. outcome[c] = "none" /\ result[c] \in Results \cup {"none"}
      BY <2>1 DEF CallsInv, Types, TypeOK
    <3>2. outcome' = [outcome EXCEPT ![c] = "none"] /\ result' = [result EXCEPT ![c] = result[c]]
      BY <2>1, <2>3, <3>1 DEF CallsInv, Types, TypeOK
    <3>3. pc'[c] = "calling" /\ UNCHANGED outcome
      BY <2>3 DEF CallsInv, Types, TypeOK
    <3>4. Judging(c)'
      BY <2>1, <2>3, <3>1, <3>3 DEF CallsInv, Judging, Callable, Suspended
    <3>5. "calling" \in Suspended \cup {"unpolled", "returned"}
      BY DEF Suspended
    <3> QED
      BY <2>1, <2>3, <3>1, <3>2, <3>4, <3>5, FutureKeepsInv
  <2> QED
    BY <1>2, <2>2, <2>3 DEF Call
<1>3. ASSUME NEW c \in Calls, CallFails(c) PROVE CallsInv'
  BY <1>3, ReturnKeepsInv DEF CallFails
<1>4. ASSUME NEW c \in Calls, Conclude(c) PROVE CallsInv'
  <2>1. /\ pc[c] \in {"judged", "panicked"}
        /\ UNCHANGED <<result, flight, line, jobs, due, signalled, compiled>>
    BY <1>4 DEF Conclude
  <2>2. \E how \in {"processing", "ok", "violation"} :
          Return(c, how) /\ (how = "ok" => result[c] = "valid")
    BY <1>4 DEF Conclude
  <2>3. pc[c] \notin {"queued", "returned"}
    BY <2>1
  <2> QED
    BY <2>1, <2>2, <2>3, ReturnKeepsInv
<1>5. ASSUME NEW c \in Calls, Expire(c) \/ Signal(c) PROVE CallsInv'
  <2>1. UNCHANGED <<pc, outcome, result, flight, line, jobs, compiled>>
    BY <1>5 DEF Expire, Signal
  <2>2. Types'
    BY <1>5, <2>1 DEF Expire, Signal, CallsInv, Types, TypeOK, Distinct
  <2>3. ASSUME NEW d \in Calls PROVE Validating(d)' /\ Judging(d)'
    BY <2>1 DEF CallsInv, Validating, Judging, Callable, Validate
  <2>4. ASSUME NEW t \in Tools PROVE Flying(t)'
    BY <2>1 DEF CallsInv, Flying, Compile
  <2> QED
    BY <2>1, <2>2, <2>3, <2>4 DEF CallsInv
<1>6. CASE UNCHANGED vars
  <2>1. UNCHANGED <<pc, outcome, result, flight, line, jobs, due, signalled, compiled>>
    BY <1>6 DEF vars
  <2>2. Types'
    BY <2>1 DEF CallsInv, Types, TypeOK, Distinct
  <2>3. ASSUME NEW d \in Calls PROVE Validating(d)' /\ Judging(d)'
    BY <2>1 DEF CallsInv, Validating, Judging, Callable, Validate
  <2>4. ASSUME NEW t \in Tools PROVE Flying(t)'
    BY <2>1 DEF CallsInv, Flying, Compile
  <2> QED
    BY <2>1, <2>2, <2>3, <2>4 DEF CallsInv
<1>7. ASSUME NEW c \in Calls, Poll(c) \/ Answer(c) \/ GiveUp(c, "dropped")
      PROVE  CallsInv'
  BY <1>1, <1>2, <1>3, <1>4, <1>7, StartKeepsInv, ReceiveKeepsInv, GiveUpKeepsInv
  DEF Poll, Answer
<1>8. ASSUME NEW job \in jobs, FinishJob(job)
      PROVE  CallsInv'
  <2>1. job \in Jobs
    BY DEF CallsInv, Types, TypeOK, Jobs
  <2>2. ASSUME NEW t \in Tools, job = Compile(t) PROVE CallsInv'
    BY <1>8, <2>2, JobsDiffer, FinishCompileKeepsInv DEF FinishJob
  <2>3. ASSUME NEW c \in Calls, job = Validate(c) PROVE CallsInv'
    BY <1>8, <2>3, JobsDiffer, FinishValidateKeepsInv DEF FinishJob
  <2> QED
    BY <2>1, <2>2, <2>3 DEF Jobs
<1> QED
  BY <1>5, <1>6, <1>7, <1>8, QueueCompileKeepsInv, RunKeepsInv DEF Next

-----------------------------------------------------------------------------

\* The inductive invariant of a catalog's calls: where each job is, by what its
\* flight or its caller has come to, and what each await has established.
THEOREM CallsInvariant == Spec => []CallsInv
BY CallsInvInit, CallsInvStep, PTL DEF Spec

\* Futures, flights and jobs keep their types, and only a call that returned has
\* an outcome.
THEOREM TypeCorrect == Spec => []TypeOK
<1>1. CallsInv => TypeOK
  BY DEF CallsInv, Types
<1> QED
  BY <1>1, CallsInvariant, PTL

\* No more blocking jobs run than there are permits, whoever gave up, and each
\* waiting or running job belongs to the flight or the caller that asked for it.
THEOREM PermitsSuffice == Spec => []JobsAreBounded
<1>1. CallsInv => JobsAreBounded
  BY DEF CallsInv, JobsAreBounded, Validating, Flying
<1> QED
  BY <1>1, CallsInvariant, PTL

\* Each schema is compiled at most once, and before any of its tool's calls
\* goes to the server.
THEOREM SchemasAreCompiledOnce == Spec => []CompiledOnce
<1>1. CallsInv => CompiledOnce
  BY DEF CallsInv, CompiledOnce, Flying, Judging
<1> QED
  BY <1>1, CallsInvariant, PTL

\* No call of a tool with a schema returns a result that the schema rejects.
THEOREM ResultsAreValidated == Spec => []OnlyValidResults
<1>1. CallsInv => OnlyValidResults
  BY DEF CallsInv, OnlyValidResults, Judging
<1> QED
  BY <1>1, CallsInvariant, PTL

\* A permit is returned by the job that holds it when that job ends, and by
\* nothing else.
THEOREM PermitsOutliveCallers == Spec => PermitsAreKept
<1>1. ASSUME CallsInv, Next, NEW job \in jobs, job \notin jobs'
      PROVE  FinishJob(job)
  <2>1. CASE \E c \in Calls : Poll(c) \/ Answer(c) \/ GiveUp(c, "dropped") \/ Expire(c) \/ Signal(c)
    BY <1>1, <2>1
    DEF Poll, Answer, Start, Refuse, Call, Conclude, GiveUp, Leave, CallFails, Receive, Expire, Signal
  <2>2. CASE (\E t \in Tools : QueueCompile(t)) \/ Run
    BY <1>1, <2>2 DEF QueueCompile, Run
  <2>3. ASSUME NEW other \in jobs, FinishJob(other)
        PROVE  FinishJob(job)
    <3>1. other \in Jobs
      BY <1>1 DEF CallsInv, Types, TypeOK, Jobs
    <3>2. jobs' = jobs \ {other}
      <4>1. ASSUME NEW t \in Tools, other = Compile(t) PROVE jobs' = jobs \ {other}
        BY <2>3, <4>1, JobsDiffer DEF FinishJob, FinishCompile
      <4>2. ASSUME NEW c \in Calls, other = Validate(c) PROVE jobs' = jobs \ {other}
        BY <2>3, <4>2, JobsDiffer DEF FinishJob, FinishValidate
      <4> QED
        BY <3>1, <4>1, <4>2 DEF Jobs
    <3> QED
      BY <1>1, <2>3, <3>2
  <2> QED
    BY <1>1, <2>1, <2>2, <2>3 DEF Next
<1>2. CallsInv /\ [Next]_vars => [\A job \in jobs : job \notin jobs' => FinishJob(job)]_vars
  BY <1>1
<1> QED
  BY <1>2, CallsInvariant, PTL DEF Spec, PermitsAreKept

=============================================================================
