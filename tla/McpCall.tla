------------------------------ MODULE McpCall -------------------------------
(***************************************************************************)
(* McpTools::call_result_until on one catalog: each call waits for its     *)
(* tool's output schema to be compiled, calls the server, and has the      *)
(* result validated.  Compilation is one shared flight per tool, spawned   *)
(* by the first call that needs it and owned by none.  Compilations and    *)
(* validations are blocking jobs of SchemaProcessor, which holds a fair    *)
(* semaphore; a caller may give up at any await, and the job it started    *)
(* keeps its permit until it ends.  Tools without an output schema, calls  *)
(* the catalog refuses and timeouts of zero are among the inputs.          *)
(*                                                                         *)
(* The exchange with the server is McpRequest's; here it is one step that  *)
(* ends in a result or in an error.                                        *)
(***************************************************************************)
EXTENDS Naturals, Sequences, FiniteSets, SequencesExt

CONSTANTS Calls,        \* calls made on the catalog
          Tools,        \* the catalog
          ToolOf,       \* the tool each call names
          Timed,        \* the calls with a timeout
          Cancellable,  \* the calls whose `cancelled` may complete
          Permits       \* SchemaProcessor's limit of concurrent jobs

ASSUME McpCallAssumption ==
  /\ ToolOf \in [Calls -> Tools]
  /\ Timed \subseteq Calls
  /\ Cancellable \subseteq Calls
  /\ Permits \in Nat \ {0}

VARIABLES
  pc,        \* where each call is suspended
  outcome,   \* how it ended
  result,    \* what the server answered it
  flight,    \* the state of each tool's SchemaFlight; "plain" has no schema
  line,      \* the jobs waiting for a permit, first come first served
  jobs,      \* the jobs that hold a permit
  due,       \* the calls whose deadline has passed
  signalled, \* the calls whose `cancelled` is ready
  compiled   \* history: the compilations started, by tool

vars == <<pc, outcome, result, flight, line, jobs, due, signalled, compiled>>

Compile(t) == [work |-> "compile", tool |-> t]
Validate(c) == [work |-> "validate", call |-> c]

Suspended == {"compiling", "calling", "queued", "validating", "judged", "panicked"}
Settled == {"ready", "invalid", "failed"}
Callable(t) == flight[t] \in {"ready", "plain"}

\* A result: valid or invalid structured content, none, or isError.
Results == {"valid", "invalid", "missing", "error"}

Init ==
  /\ pc = [c \in Calls |-> "unpolled"]
  /\ outcome = [c \in Calls |-> "none"]
  /\ result = [c \in Calls |-> "none"]
  /\ flight \in [Tools -> {"none", "plain"}]
  /\ line = <<>>
  /\ jobs = {}
  /\ due = {}
  /\ signalled = {}
  /\ compiled = [t \in Tools |-> 0]

-----------------------------------------------------------------------------

Return(c, how) ==
  /\ pc' = [pc EXCEPT ![c] = "returned"]
  /\ outcome' = [outcome EXCEPT ![c] = how]

\* Nothing that is polled before `execute` is ready.
Undisturbed(c) == c \notin signalled

\* Mutated: a call waits for no flight but its own.
StartCompiling(c) ==
  /\ pc[c] = "unpolled"
  /\ Undisturbed(c)
  /\ pc' = [pc EXCEPT ![c] = "compiling"]
  /\ flight' = [flight EXCEPT ![ToolOf[c]] = "spawned"]
  /\ UNCHANGED <<outcome, result, line, jobs, due, signalled, compiled>>

\* The first poll: the first call of a tool with a schema spawns its flight.
Start(c) ==
  /\ pc[c] = "unpolled"
  /\ Undisturbed(c)
  /\ pc' = [pc EXCEPT ![c] = "compiling"]
  /\ flight' = [flight EXCEPT ![ToolOf[c]] = IF @ = "none" THEN "spawned" ELSE @]
  /\ UNCHANGED <<outcome, result, line, jobs, due, signalled, compiled>>

\* A timeout of zero, then a name the catalog has not or arguments that are no
\* object, end the call at its first poll.
Refuse(c) ==
  /\ pc[c] = "unpolled"
  /\ Undisturbed(c)
  /\ \/ c \in Timed /\ Return(c, "timeout")
     \/ Return(c, "refused")
  /\ UNCHANGED <<result, flight, line, jobs, due, signalled, compiled>>

\* The spawned task asks for a permit.
QueueCompile(t) ==
  /\ flight[t] = "spawned"
  /\ flight' = [flight EXCEPT ![t] = "queued"]
  /\ line' = Append(line, Compile(t))
  /\ UNCHANGED <<pc, outcome, result, jobs, due, signalled, compiled>>

\* The flight has landed, or there is none: the call goes out, unless the
\* schema is no good or no budget remains although the timer has yet to fire.
Call(c) ==
  /\ pc[c] = "compiling"
  /\ Undisturbed(c)
  /\ flight[ToolOf[c]] \in Settled \cup {"plain"}
  /\ \/ /\ Callable(ToolOf[c]) /\ c \notin due
        /\ pc' = [pc EXCEPT ![c] = "calling"]
        /\ UNCHANGED outcome
     \/ Callable(ToolOf[c]) /\ c \in due /\ Return(c, "timeout")
     \/ flight[ToolOf[c]] = "invalid" /\ Return(c, "invalid_schema")
     \/ flight[ToolOf[c]] = "failed" /\ Return(c, "processing")
  /\ UNCHANGED <<result, flight, line, jobs, due, signalled, compiled>>

\* Mutated: a result without structured content passes.
ReceiveLenient(c, r) ==
  /\ pc[c] = "calling"
  /\ Undisturbed(c)
  /\ result' = [result EXCEPT ![c] = r]
  /\ IF r \in {"error", "missing"} \/ flight[ToolOf[c]] = "plain"
     THEN Return(c, "ok") /\ UNCHANGED line
     ELSE /\ pc' = [pc EXCEPT ![c] = "queued"]
          /\ line' = Append(line, Validate(c))
          /\ UNCHANGED outcome
  /\ UNCHANGED <<flight, jobs, due, signalled, compiled>>

\* The server's answer: without a schema, or with isError, it passes; without
\* a structured result it is a violation; else it is validated if budget remains.
Receive(c, r) ==
  /\ pc[c] = "calling"
  /\ Undisturbed(c)
  /\ result' = [result EXCEPT ![c] = r]
  /\ LET passes == r = "error" \/ flight[ToolOf[c]] = "plain"
     IN  \/ passes /\ Return(c, "ok") /\ UNCHANGED line
         \/ ~passes /\ r = "missing" /\ Return(c, "violation") /\ UNCHANGED line
         \/ ~passes /\ r # "missing" /\ c \in due /\ Return(c, "timeout") /\ UNCHANGED line
         \/ /\ ~passes /\ r # "missing" /\ c \notin due
            /\ pc' = [pc EXCEPT ![c] = "queued"]
            /\ line' = Append(line, Validate(c))
            /\ UNCHANGED outcome
  /\ UNCHANGED <<flight, jobs, due, signalled, compiled>>

\* The session fails.
CallFails(c) ==
  /\ pc[c] = "calling"
  /\ Undisturbed(c)
  /\ Return(c, "service")
  /\ UNCHANGED <<result, flight, line, jobs, due, signalled, compiled>>

\* Mutated: the permit returns with the caller, not with the job.
LeaveWithPermit(c) ==
  /\ line' = SelectSeq(line, LAMBDA j : j # Validate(c))
  /\ jobs' = jobs \ {Validate(c)}

\* Mutated: a compilation in line is its first caller's, and goes with it.
LeaveWithFlight(c) ==
  /\ line' = SelectSeq(line, LAMBDA j : /\ j # Validate(c)
                                        /\ pc[c] = "compiling" => j # Compile(ToolOf[c]))
  /\ UNCHANGED jobs

\* The caller's future is gone: the job it has in line is dropped with it, a
\* running one keeps its permit.
Leave(c) ==
  /\ \/ \E i \in 1..Len(line) : line[i] = Validate(c) /\ line' = RemoveAt(line, i)
     \/ Validate(c) \notin ToSet(line) /\ UNCHANGED line
  /\ UNCHANGED jobs

\* Mutated: the caller waits for a validation once it has started.
GiveUpUnlessValidating(c, how) ==
  /\ pc[c] \in (Suspended \cup {"unpolled"}) \ {"validating"}
  /\ \/ how = "cancelled" /\ c \in signalled
     \/ how = "timeout" /\ Undisturbed(c) /\ c \in due
     \/ how = "dropped" /\ pc[c] # "unpolled"
  /\ Return(c, how)
  /\ Leave(c)
  /\ UNCHANGED <<result, flight, due, signalled, compiled>>

\* `cancelled` is polled first, then the timer.  (A future may also be
\* dropped by its caller.)
GiveUp(c, how) ==
  /\ pc[c] \in Suspended \cup {"unpolled"}
  /\ \/ how = "cancelled" /\ c \in signalled
     \/ how = "timeout" /\ Undisturbed(c) /\ c \in due
     \/ how = "dropped" /\ pc[c] # "unpolled"
  /\ Return(c, how)
  /\ Leave(c)
  /\ UNCHANGED <<result, flight, due, signalled, compiled>>

\* Mutated: the permit is not awaited.
RunUnbounded ==
  /\ line # <<>>
  /\ Head(line).work = "validate" => Undisturbed(Head(line).call)
  /\ LET job == Head(line)
     IN  /\ jobs' = jobs \cup {job}
         /\ IF job.work = "compile"
            THEN /\ flight' = [flight EXCEPT ![job.tool] = "compiling"]
                 /\ compiled' = [compiled EXCEPT ![job.tool] = @ + 1]
                 /\ UNCHANGED pc
            ELSE /\ pc' = [pc EXCEPT ![job.call] = "validating"]
                 /\ UNCHANGED <<flight, compiled>>
  /\ line' = Tail(line)
  /\ UNCHANGED <<outcome, result, due, signalled>>

\* A permit is free: the first job in line takes it and is spawned, unless its
\* caller is polled to a ready signal, and gives up instead.
Run ==
  /\ line # <<>>
  /\ Head(line).work = "validate" => Undisturbed(Head(line).call)
  /\ Cardinality(jobs) < Permits
  /\ LET job == Head(line)
     IN  /\ jobs' = jobs \cup {job}
         /\ IF job.work = "compile"
            THEN /\ flight' = [flight EXCEPT ![job.tool] = "compiling"]
                 /\ compiled' = [compiled EXCEPT ![job.tool] = @ + 1]
                 /\ UNCHANGED pc
            ELSE /\ pc' = [pc EXCEPT ![job.call] = "validating"]
                 /\ UNCHANGED <<flight, compiled>>
  /\ line' = Tail(line)
  /\ UNCHANGED <<outcome, result, due, signalled>>

\* A compilation ends, or panics; its permit is returned.
FinishCompile(t, how) ==
  /\ Compile(t) \in jobs
  /\ jobs' = jobs \ {Compile(t)}
  /\ flight' = [flight EXCEPT ![t] = how]
  /\ UNCHANGED <<pc, outcome, result, line, due, signalled, compiled>>

\* Mutated: a validation wakes a caller that is gone.
FinishValidateUnowned(c, how) ==
  /\ Validate(c) \in jobs
  /\ jobs' = jobs \ {Validate(c)}
  /\ pc' = [pc EXCEPT ![c] = how]
  /\ UNCHANGED <<outcome, result, flight, line, due, signalled, compiled>>

\* A validation ends or panics, and wakes its caller if there is one.
FinishValidate(c, how) ==
  /\ Validate(c) \in jobs
  /\ jobs' = jobs \ {Validate(c)}
  /\ pc' = IF pc[c] = "validating" THEN [pc EXCEPT ![c] = how] ELSE pc
  /\ UNCHANGED <<outcome, result, flight, line, due, signalled, compiled>>

\* The caller learns what its validation found.
Conclude(c) ==
  /\ pc[c] \in {"judged", "panicked"}
  /\ Undisturbed(c)
  /\ Return(c, CASE pc[c] = "panicked"    -> "processing"
                  [] result[c] = "valid" -> "ok"
                  [] OTHER               -> "violation")
  /\ UNCHANGED <<result, flight, line, jobs, due, signalled, compiled>>

\* The environment: clocks and signals.
Expire(c) ==
  /\ c \in Timed \ due
  /\ pc[c] \in Suspended
  /\ due' = due \cup {c}
  /\ UNCHANGED <<pc, outcome, result, flight, line, jobs, signalled, compiled>>

Signal(c) ==
  /\ c \in Cancellable \ signalled
  /\ pc[c] # "returned"
  /\ signalled' = signalled \cup {c}
  /\ UNCHANGED <<pc, outcome, result, flight, line, jobs, due, compiled>>

\* What a poll of the call does without waiting for anyone.
Poll(c) ==
  \/ Start(c)
  \/ Refuse(c)
  \/ Call(c)
  \/ Conclude(c)
  \/ GiveUp(c, "cancelled")
  \/ GiveUp(c, "timeout")

Answer(c) == CallFails(c) \/ \E r \in Results : Receive(c, r)

FinishJob(job) ==
  IF job.work = "compile"
  THEN \E how \in Settled : FinishCompile(job.tool, how)
  ELSE \E how \in {"judged", "panicked"} : FinishValidate(job.call, how)

Next ==
  \/ \E c \in Calls : Poll(c) \/ Answer(c) \/ GiveUp(c, "dropped") \/ Expire(c) \/ Signal(c)
  \/ \E t \in Tools : QueueCompile(t)
  \/ Run
  \/ \E job \in jobs : FinishJob(job)

Spec == Init /\ [][Next]_vars

\* The runtime polls what can make progress and hands out free permits.
\* Blocking jobs, servers, clocks and signals are under no obligation.
FairSpec ==
  /\ Spec
  /\ WF_vars(Run)
  /\ \A t \in Tools : WF_vars(QueueCompile(t))
  /\ \A c \in Calls : WF_vars(Poll(c))

-----------------------------------------------------------------------------

\* The futures of call_result_inner, the flights and the jobs keep their types,
\* and a call has an outcome exactly when it has returned.
TypeOK ==
  /\ pc \in [Calls -> Suspended \cup {"unpolled", "returned"}]
  /\ outcome \in [Calls -> {"none", "ok", "violation", "invalid_schema", "processing", "refused",
                            "service", "timeout", "cancelled", "dropped"}]
  /\ result \in [Calls -> Results \cup {"none"}]
  /\ flight \in [Tools -> Settled \cup {"none", "plain", "spawned", "queued", "compiling"}]
  /\ due \subseteq Timed
  /\ signalled \subseteq Cancellable
  /\ jobs \cup ToSet(line) \subseteq {Compile(t) : t \in Tools} \cup {Validate(c) : c \in Calls}
  /\ \A c \in Calls : outcome[c] = "none" <=> pc[c] # "returned"

\* At most Permits jobs run at once, those of callers that gave up included,
\* and a job that waits for a permit has an owner that waits for it.
JobsAreBounded ==
  /\ Cardinality(jobs) <= Permits
  /\ \A c \in Calls :
       /\ Validate(c) \in ToSet(line) <=> pc[c] = "queued"
       /\ pc[c] = "validating" => Validate(c) \in jobs
       /\ Validate(c) \in jobs => pc[c] \in {"validating", "returned"}
  /\ \A t \in Tools :
       /\ Compile(t) \in ToSet(line) <=> flight[t] = "queued"
       /\ Compile(t) \in jobs <=> flight[t] = "compiling"

\* A tool's schema is compiled once, whoever waits for it and whoever stopped
\* waiting, and no call reaches the server before it is.
CompiledOnce ==
  /\ \A t \in Tools : compiled[t] <= 1
  /\ \A c \in Calls :
       pc[c] \in Suspended \ {"compiling"} \/ result[c] # "none"
         => Callable(ToolOf[c])

\* A call of a tool with a schema returns a result only when it satisfies it,
\* or is an error the schema does not speak of.
OnlyValidResults ==
  \A c \in Calls :
    outcome[c] = "ok" /\ flight[ToolOf[c]] # "plain" => result[c] \in {"valid", "error"}

\* A blocking job keeps its permit until it finishes, whatever its caller does.
PermitsAreKept ==
  [][\A job \in jobs : job \notin jobs' => FinishJob(job)]_vars

\* A call with a deadline returns by it, although servers and jobs hang and
\* every permit is taken.
PromptReturn ==
  \A c \in Calls : (c \in due \cup signalled) ~> (pc[c] = "returned")

\* While jobs end, every schema is compiled, whoever gave up waiting for it.
FlightsLand ==
  (\A t \in Tools : []<>(Compile(t) \notin jobs)) /\ (\A c \in Calls : []<>(Validate(c) \notin jobs))
    => \A t \in Tools : (flight[t] = "spawned") ~> (flight[t] \in Settled)

=============================================================================
