------------------------------ MODULE McpProofs ------------------------------
(***************************************************************************)
(* Safety of the MCP client.  Of McpRequest, for every set of requests,    *)
(* timeouts and signals and every capacity of the session's queue: the     *)
(* inductive invariant is TypeOK with Discipline, which ties each message  *)
(* the session was given to what its caller, its oneshot and its notifying *)
(* task have come to.  Of McpCatalog, for every list of servers and        *)
(* whatever they list: the inductive invariant is CatalogInv, which ties   *)
(* what was read of a listing to the listing, and an offer to the catalogs.*)
(***************************************************************************)
EXTENDS McpRequest, McpCatalog, RecursionLemmas

Messages == {Request(r) : r \in Requests} \cup {Cancelled(r) : r \in Requests}

\* Where a message is in a sequence.
At(s, m) == {i \in 1..Len(s) : s[i] = m}

\* What the session was given holds messages, and TypeOK.
Types ==
  /\ TypeOK
  /\ received \in Seq(Messages)
  /\ queue \in Seq(Messages)

\* One message of each kind, in order, and none without its cause.
Ordered(r) ==
  /\ \A i, j \in At(Stream, Request(r)) : i = j
  /\ \A i, j \in At(Stream, Cancelled(r)) : i = j
  /\ \A i \in At(Stream, Cancelled(r)) : \E j \in At(Stream, Request(r)) : j < i
  /\ At(Stream, Request(r)) # {} => pc[r] \in {"waiting", "returned"}
  /\ At(Stream, Cancelled(r)) # {} =>
       outcome[r] \in Abandonments /\ r \notin notifying /\ rx[r] # "answered"

\* Who is about to be told, while there is a session.
Owed(r) ==
  /\ r \in notifying => outcome[r] \in Abandonments /\ rx[r] # "answered"
  /\ r \in muted => pc[r] = "returned"
  /\ session = "open" =>
       /\ rx[r] # "closed"
       /\ pc[r] = "waiting" \/ r \in notifying => At(Stream, Request(r)) # {}
       /\ outcome[r] \in Abandonments =>
            ((r \in notifying \/ At(Stream, Cancelled(r)) # {})
              <=> (At(Stream, Request(r)) # {} /\ rx[r] # "answered" /\ r \notin muted))

Discipline == \A r \in Requests : Ordered(r) /\ Owed(r)

RequestInv == Types /\ Discipline

-----------------------------------------------------------------------------

\* Requests and cancellations are messages that differ.
LEMMA MessagesDiffer ==
  ASSUME NEW r, NEW q
  PROVE  /\ Request(r) # Cancelled(q)
         /\ Request(r) = Request(q) => r = q
         /\ Cancelled(r) = Cancelled(q) => r = q
BY DEF Request, Cancelled

\* Appending a message adds the last place to its places, and to no other's.
LEMMA AtAppend ==
  ASSUME NEW s \in Seq(Messages), NEW m \in Messages, NEW x
  PROVE  /\ At(Append(s, m), x) = IF x = m THEN At(s, x) \cup {Len(s) + 1} ELSE At(s, x)
         /\ \A i \in At(s, x) : i \in Nat /\ i < Len(s) + 1
<1>1. Len(s) \in Nat /\ Len(Append(s, m)) = Len(s) + 1
  BY AppendProperties
<1>2. \A i \in 1..Len(s) : Append(s, m)[i] = s[i]
  BY AppendProperties
<1>3. Append(s, m)[Len(s) + 1] = m
  BY AppendProperties
<1>4. 1..(Len(s) + 1) = 1..Len(s) \cup {Len(s) + 1}
  BY <1>1
<1> QED
  BY <1>1, <1>2, <1>3, <1>4 DEF At

\* A message queued is appended to what the session was given.
LEMMA StreamAppend ==
  ASSUME Types, NEW m \in Messages, queue' = Append(queue, m), UNCHANGED received
  PROVE  Stream \in Seq(Messages) /\ Stream' = Append(Stream, m)
<1>1. queue' = queue \o <<m>> /\ <<m>> \in Seq(Messages)
  BY AppendIsConcat DEF Types
<1>2. Stream \in Seq(Messages)
  BY ConcatProperties DEF Types, Stream
<1>3. (received \o queue) \o <<m>> = received \o (queue \o <<m>>)
  BY <1>1, ConcatAssociative DEF Types
<1>4. Append(Stream, m) = Stream \o <<m>>
  BY <1>2, AppendIsConcat
<1> QED
  BY <1>1, <1>2, <1>3, <1>4 DEF Stream

\* A message transmitted stays in its place.
LEMMA StreamTransmit ==
  ASSUME Types, Transmit
  PROVE  /\ UNCHANGED Stream
         /\ received' \in Seq(Messages) /\ queue' \in Seq(Messages)
         /\ Len(queue') <= Len(queue)
<1>1. /\ queue # <<>> /\ queue \in Seq(Messages) /\ received \in Seq(Messages)
      /\ received' = Append(received, Head(queue)) /\ queue' = Tail(queue)
  BY DEF Transmit, Types
<1>2. /\ Head(queue) \in Messages /\ Tail(queue) \in Seq(Messages)
      /\ Len(Tail(queue)) = Len(queue) - 1 /\ Len(queue) \in Nat
  BY <1>1, HeadTailProperties
<1>3. received' = received \o <<Head(queue)>> /\ <<Head(queue)>> \in Seq(Messages)
  BY <1>1, <1>2, AppendIsConcat
<1>4. queue = <<Head(queue)>> \o Tail(queue)
  BY <1>1, <1>2
<1>5. (received \o <<Head(queue)>>) \o Tail(queue) = received \o (<<Head(queue)>> \o Tail(queue))
  BY <1>1, <1>2, <1>3, ConcatAssociative
<1> QED
  BY <1>1, <1>2, <1>3, <1>4, <1>5, AppendProperties DEF Stream

\* What a closed session keeps is a prefix of what it was given.
LEMMA StreamCut ==
  ASSUME Types, queue' = <<>>, UNCHANGED received, NEW x
  PROVE  \A i \in Nat : i \in At(Stream', x) <=> i \in At(Stream, x) /\ i <= Len(received)
<1>1. Stream' = received
  BY ConcatEmptySeq DEF Types, Stream
<1>2. /\ Len(Stream) = Len(received) + Len(queue) /\ Len(received) \in Nat /\ Len(queue) \in Nat
      /\ \A i \in 1..Len(received) : Stream[i] = received[i]
  BY ConcatProperties, LenProperties DEF Types, Stream
<1> QED
  BY <1>1, <1>2 DEF At

-----------------------------------------------------------------------------

\* No request has been polled, and the session was given nothing.
LEMMA RequestInvInit == Init => RequestInv
<1> SUFFICES ASSUME Init PROVE RequestInv
  OBVIOUS
<1> USE McpRequestAssumption
<1>1. Types
  BY DEF Init, Types, TypeOK, Abandonments
<1>2. Stream = <<>>
  BY DEF Init, Stream
<1>3. \A x : At(Stream, x) = {}
  BY <1>2 DEF At
<1>4. Discipline
  BY <1>3 DEF Init, Discipline, Ordered, Owed, Abandonments
<1> QED
  BY <1>1, <1>4 DEF RequestInv

\* A future that was given up before it was dispatched, or that took what its
\* oneshot held, owes the server nothing; one given up while it waits does.
LEMMA ReturnKeepsInv ==
  ASSUME RequestInv, NEW r \in Requests, NEW how \in {"response", "closed"} \cup Abandonments,
         pc[r] # "returned", Return(r, how),
         UNCHANGED <<clock, rx, queue, session, received>>,
         muted' \in {muted, muted \cup {r}},
         how \in Abandonments =>
           IF muted' = muted THEN Guard(r) ELSE UNCHANGED notifying,
         how \notin Abandonments => UNCHANGED <<notifying, muted>>
  PROVE  RequestInv'
<1> USE DEF RequestInv
<1>1. UNCHANGED Stream
  BY DEF Stream
<1>2. /\ pc' = [pc EXCEPT ![r] = "returned"] /\ outcome' = [outcome EXCEPT ![r] = how]
      /\ pc'[r] = "returned" /\ outcome'[r] = how
      /\ \A q \in Requests \ {r} : pc'[q] = pc[q] /\ outcome'[q] = outcome[q]
  BY DEF Return, Types, TypeOK
<1>3. notifying' \in {notifying, notifying \cup {r}}
  BY DEF Guard
<1>4. Types'
  BY <1>2, <1>3 DEF Types, TypeOK, Return, clock, Abandonments
<1>5. ASSUME NEW q \in Requests \ {r}
      PROVE  Ordered(q)' /\ Owed(q)'
  <2>1. /\ q \in notifying' <=> q \in notifying
        /\ q \in muted' <=> q \in muted
    BY <1>3
  <2>2. Ordered(q) /\ Owed(q)
    BY DEF Discipline
  <2> QED
    BY <1>1, <1>2, <2>1, <2>2 DEF Ordered, Owed
<1>6. outcome[r] = "none" /\ r \notin notifying /\ r \notin muted
      /\ At(Stream, Cancelled(r)) = {}
  BY DEF Types, TypeOK, Discipline, Ordered, Owed, Abandonments
<1>7. r \in notifying' => pc[r] = "waiting" /\ rx[r] = "empty" /\ how \in Abandonments
  BY <1>6 DEF Guard
<1>8. Ordered(r)'
  BY <1>1, <1>2, <1>6 DEF Discipline, Ordered
<1>9. Owed(r)'
  <2>1. session = "open" => rx[r] \in {"empty", "answered"}
    BY DEF Types, TypeOK, Discipline, Owed
  <2>2. session = "open" => (At(Stream, Request(r)) # {} <=> pc[r] = "waiting")
    BY DEF Discipline, Ordered, Owed
  <2>3. how \in Abandonments =>
          (r \in notifying' <=> pc[r] = "waiting" /\ rx[r] = "empty" /\ r \notin muted')
    BY <1>6 DEF Guard
  <2>4. /\ r \in notifying' => outcome'[r] \in Abandonments /\ rx'[r] # "answered"
        /\ r \in muted' => pc'[r] = "returned"
    BY <1>2, <1>7
  <2>5. ASSUME session' = "open"
        PROVE  /\ rx'[r] # "closed"
               /\ pc'[r] = "waiting" \/ r \in notifying' => At(Stream', Request(r)) # {}
    BY <1>1, <1>2, <1>7, <2>1, <2>2, <2>5
  <2>6. ASSUME session' = "open", outcome'[r] \in Abandonments
        PROVE  (r \in notifying' \/ At(Stream', Cancelled(r)) # {})
                 <=> (At(Stream', Request(r)) # {} /\ rx'[r] # "answered" /\ r \notin muted')
    BY <1>1, <1>2, <1>6, <2>1, <2>2, <2>3, <2>6
  <2> QED
    BY <2>4, <2>5, <2>6 DEF Owed, Request, Cancelled
<1> QED
  BY <1>4, <1>5, <1>8, <1>9 DEF Discipline

\* Where the session was given nothing and no caller or task moves, the
\* discipline can only be disturbed through the oneshots.
LEMMA QuietKeepsInv ==
  ASSUME RequestInv, Types', UNCHANGED <<pc, outcome, notifying, muted, Stream>>,
         session' = session,
         \A r \in Requests : rx'[r] = rx[r] \/ (rx'[r] = "answered" /\ pc[r] = "waiting")
  PROVE  RequestInv'
<1> SUFFICES ASSUME NEW r \in Requests
             PROVE  Ordered(r)' /\ Owed(r)'
  BY DEF RequestInv, Discipline
<1>1. Ordered(r) /\ Owed(r)
  BY DEF RequestInv, Discipline
<1>2. pc[r] = "waiting" => outcome[r] \notin Abandonments
  BY DEF RequestInv, Types, TypeOK, Abandonments
<1>3. Ordered(r)'
  BY <1>1, <1>2 DEF Ordered
<1>4. Owed(r)'
  BY <1>1, <1>2 DEF Owed
<1> QED
  BY <1>3, <1>4

\* A request enters the queue: its only place is the last one.
LEMMA DispatchKeepsInv ==
  ASSUME RequestInv, NEW r \in Requests, Dispatch(r)
  PROVE  RequestInv'
<1> USE DEF RequestInv
<1>1. Request(r) \in Messages
  BY DEF Messages
<1>2. Stream \in Seq(Messages) /\ Stream' = Append(Stream, Request(r))
  BY <1>1, StreamAppend DEF Dispatch
<1>3. /\ pc[r] = "dispatching" /\ pc' = [pc EXCEPT ![r] = "waiting"] /\ session = "open"
      /\ queue' = Append(queue, Request(r)) /\ Len(queue) < Capacity
      /\ UNCHANGED <<outcome, notifying, signalled, due, rx, session, received, muted>>
  BY DEF Dispatch, clock
<1>4. Types'
  <2>1. queue' \in Seq(Messages) /\ Len(queue') = Len(queue) + 1 /\ Len(queue) \in Nat
    BY <1>1, <1>3, AppendProperties DEF Types
  <2>2. Len(queue') <= Capacity
    BY <1>3, <2>1, McpRequestAssumption
  <2> QED
    BY <1>3, <2>1, <2>2 DEF Types, TypeOK
<1>5. At(Stream, Request(r)) = {} /\ At(Stream, Cancelled(r)) = {}
      /\ outcome[r] = "none" /\ r \notin notifying /\ r \notin muted
  BY <1>3 DEF Types, TypeOK, Discipline, Ordered, Owed, Abandonments
<1>6. \A x : At(Stream', x) = IF x = Request(r) THEN At(Stream, x) \cup {Len(Stream) + 1}
                                                ELSE At(Stream, x)
  BY <1>1, <1>2, AtAppend
<1>7. ASSUME NEW q \in Requests \ {r}
      PROVE  Ordered(q)' /\ Owed(q)'
  <2>1. At(Stream', Request(q)) = At(Stream, Request(q))
        /\ At(Stream', Cancelled(q)) = At(Stream, Cancelled(q))
    BY <1>6, MessagesDiffer
  <2>2. pc'[q] = pc[q] /\ Ordered(q) /\ Owed(q)
    BY <1>3 DEF Discipline, Types, TypeOK
  <2>3. Ordered(q)'
    BY <1>3, <2>1, <2>2 DEF Ordered, Request, Cancelled
  <2>4. Owed(q)'
    BY <1>3, <2>1, <2>2 DEF Owed, Request, Cancelled
  <2> QED
    BY <2>3, <2>4
<1>8. At(Stream', Request(r)) = {Len(Stream) + 1} /\ At(Stream', Cancelled(r)) = {}
      /\ pc'[r] = "waiting"
  BY <1>3, <1>5, <1>6, MessagesDiffer DEF Types, TypeOK
<1>9. Ordered(r)'
  BY <1>8 DEF Ordered, Request, Cancelled
<1>10. Owed(r)'
  <2>1. rx[r] # "closed"
    BY <1>3 DEF Discipline, Owed
  <2> QED
    BY <1>3, <1>5, <1>8, <2>1 DEF Owed, Request, Cancelled, Abandonments
<1> QED
  BY <1>4, <1>7, <1>9, <1>10 DEF Discipline

\* A notification enters the queue behind its request, and is owed no more; on a
\* closed session nothing is owed.
LEMMA NotifyKeepsInv ==
  ASSUME RequestInv, NEW r \in Requests, Notify(r)
  PROVE  RequestInv'
<1> USE DEF RequestInv
<1>0. /\ r \in notifying /\ notifying' = notifying \ {r}
      /\ UNCHANGED <<pc, outcome, signalled, due, rx, session, received, muted>>
  BY DEF Notify, clock
<1>1. outcome[r] \in Abandonments /\ rx[r] # "answered" /\ At(Stream, Cancelled(r)) = {}
  BY <1>0 DEF Discipline, Owed, Ordered
<1>2. CASE session = "closed" /\ UNCHANGED queue
  <2>1. UNCHANGED Stream /\ session' # "open"
    BY <1>0, <1>2 DEF Stream
  <2>2. Types'
    BY <1>0, <1>2 DEF Types, TypeOK
  <2>3. ASSUME NEW q \in Requests PROVE Ordered(q)' /\ Owed(q)'
    BY <1>0, <2>1 DEF Discipline, Ordered, Owed
  <2> QED
    BY <2>2, <2>3 DEF Discipline
<1>3. CASE session = "open" /\ Len(queue) < Capacity /\ queue' = Append(queue, Cancelled(r))
  <2>1. Cancelled(r) \in Messages
    BY DEF Messages
  <2>2. Stream \in Seq(Messages) /\ Stream' = Append(Stream, Cancelled(r))
    BY <1>0, <1>3, <2>1, StreamAppend
  <2>3. Types'
    <3>1. queue' \in Seq(Messages) /\ Len(queue') = Len(queue) + 1 /\ Len(queue) \in Nat
      BY <1>3, <2>1, AppendProperties DEF Types
    <3>2. Len(queue') <= Capacity
      BY <1>3, <3>1, McpRequestAssumption
    <3> QED
      BY <1>0, <3>1, <3>2 DEF Types, TypeOK
  <2>4. \A x : /\ At(Stream', x) = IF x = Cancelled(r) THEN At(Stream, x) \cup {Len(Stream) + 1}
                                                      ELSE At(Stream, x)
               /\ \A i \in At(Stream, x) : i < Len(Stream) + 1
    BY <2>1, <2>2, AtAppend
  <2>5. ASSUME NEW q \in Requests \ {r}
        PROVE  Ordered(q)' /\ Owed(q)'
    <3>1. At(Stream', Request(q)) = At(Stream, Request(q))
          /\ At(Stream', Cancelled(q)) = At(Stream, Cancelled(q))
      BY <2>4, MessagesDiffer
    <3>2. (q \in notifying' <=> q \in notifying) /\ Ordered(q) /\ Owed(q)
      BY <1>0 DEF Discipline
    <3>3. Ordered(q)'
      BY <1>0, <3>1, <3>2 DEF Ordered, Request, Cancelled
    <3>4. Owed(q)'
      BY <1>0, <3>1, <3>2 DEF Owed, Request, Cancelled
    <3> QED
      BY <3>3, <3>4
  <2>6. At(Stream', Request(r)) = At(Stream, Request(r))
        /\ At(Stream', Cancelled(r)) = {Len(Stream) + 1}
        /\ \A j \in At(Stream, Request(r)) : j < Len(Stream) + 1
    BY <1>1, <2>4, MessagesDiffer
  <2>7. At(Stream, Request(r)) # {}
    BY <1>0, <1>3 DEF Discipline, Owed
  <2>8. Ordered(r) /\ Owed(r)
    BY DEF Discipline
  <2>9. Ordered(r)'
    BY <1>0, <1>1, <2>6, <2>7, <2>8 DEF Ordered, Request, Cancelled
  <2>10. Owed(r)'
    BY <1>0, <1>1, <1>3, <2>6, <2>7, <2>8 DEF Owed, Request, Cancelled
  <2> QED
    BY <2>3, <2>5, <2>9, <2>10 DEF Discipline
<1> QED
  BY <1>2, <1>3 DEF Notify

\* A session that closes forgets what it had not sent, and owes nothing.
LEMMA CloseKeepsInv ==
  ASSUME RequestInv, Close
  PROVE  RequestInv'
<1> USE DEF RequestInv
<1>1. /\ session' = "closed" /\ queue' = <<>>
      /\ rx' = [r \in Requests |-> IF rx[r] = "empty" THEN "closed" ELSE rx[r]]
      /\ UNCHANGED <<pc, outcome, notifying, signalled, due, received, muted>>
  BY DEF Close, caller, clock
<1>2. Types'
  BY <1>1, McpRequestAssumption DEF Types, TypeOK
<1>3. \A x : \A i \in Nat : i \in At(Stream', x) <=> i \in At(Stream, x) /\ i <= Len(received)
  BY <1>1, StreamCut
<1>4. \A x, s : At(s, x) \subseteq Nat
  BY DEF At
<1>5. Len(received) \in Nat
  BY DEF Types
<1>6. ASSUME NEW r \in Requests
      PROVE  Ordered(r)' /\ Owed(r)'
  <2>1. Ordered(r) /\ Owed(r)
    BY DEF Discipline
  <2>2. rx'[r] = "answered" <=> rx[r] = "answered"
    BY <1>1
  <2>3. Ordered(r)'
    <3> DEFINE req == Request(r)
               can == Cancelled(r)
    <3>1. At(Stream', req) \subseteq At(Stream, req) /\ At(Stream', can) \subseteq At(Stream, can)
      BY <1>3, <1>4
    <3>2. \A i \in At(Stream', can) : \E j \in At(Stream', req) : j < i
      <4> SUFFICES ASSUME NEW i \in At(Stream', can)
                   PROVE  \E j \in At(Stream', req) : j < i
        OBVIOUS
      <4>1. i \in At(Stream, can) /\ i \in Nat /\ i <= Len(received)
        BY <1>3, <1>4
      <4>2. PICK j \in At(Stream, req) : j < i
        BY <2>1, <4>1 DEF Ordered
      <4>3. j \in Nat /\ j <= Len(received)
        BY <1>4, <1>5, <4>1, <4>2
      <4> QED
        BY <1>3, <4>2, <4>3
    <3> QED
      BY <1>1, <2>1, <2>2, <3>1, <3>2 DEF Ordered, Request, Cancelled
  <2>4. Owed(r)'
    BY <1>1, <2>1, <2>2 DEF Owed
  <2> QED
    BY <2>3, <2>4
<1> QED
  BY <1>2, <1>6 DEF Discipline

\* The first poll returns at once or goes on to dispatch; nothing was sent.
LEMMA StartKeepsInv ==
  ASSUME RequestInv, NEW r \in Requests, Start(r)
  PROVE  RequestInv'
<1> USE DEF RequestInv
<1>1. /\ pc[r] = "unpolled"
      /\ UNCHANGED <<notifying, clock, rx, queue, session, received, muted>>
  BY DEF Start
<1>2. CASE \E how \in {"cancelled", "timeout"} : Return(r, how)
  <2>1. PICK how \in {"cancelled", "timeout"} : Return(r, how)
    BY <1>2
  <2>2. Guard(r)
    BY <1>1 DEF Guard
  <2> QED
    BY <1>1, <2>1, <2>2, ReturnKeepsInv DEF Abandonments
<1>3. CASE pc' = [pc EXCEPT ![r] = "dispatching"] /\ UNCHANGED outcome
  <2>1. UNCHANGED Stream
    BY <1>1 DEF Stream
  <2>2. /\ pc'[r] = "dispatching"
        /\ \A q \in Requests \ {r} : pc'[q] = pc[q]
    BY <1>3 DEF Types, TypeOK
  <2>3. Types'
    BY <1>1, <1>3 DEF Types, TypeOK, clock
  <2>4. outcome[r] = "none" /\ r \notin muted /\ At(Stream, Request(r)) = {}
    BY <1>1 DEF Types, TypeOK, Discipline, Ordered, Owed
  <2>5. ASSUME NEW q \in Requests PROVE Ordered(q)' /\ Owed(q)'
    <3>1. Ordered(q) /\ Owed(q)
      BY DEF Discipline
    <3>2. CASE q = r
      BY <1>1, <1>3, <2>1, <2>2, <2>4, <3>1, <3>2 DEF Ordered, Owed, Abandonments
    <3>3. CASE q # r
      BY <1>1, <1>3, <2>1, <2>2, <3>1, <3>3 DEF Ordered, Owed
    <3> QED
      BY <3>2, <3>3
  <2> QED
    BY <2>3, <2>5 DEF Discipline
<1> QED
  BY <1>2, <1>3 DEF Start

\* Every step of a future, a task, the clock or the session keeps the invariant.
LEMMA RequestInvStep == RequestInv /\ [Next]_vars => RequestInv'
<1> SUFFICES ASSUME RequestInv, [Next]_vars PROVE RequestInv'
  OBVIOUS
<1> USE DEF RequestInv
<1>1. ASSUME NEW r \in Requests, ReturnCancelled(r) PROVE RequestInv'
  BY <1>1, ReturnKeepsInv DEF ReturnCancelled, Running, Abandonments
<1>2. ASSUME NEW r \in Requests, ReturnExpired(r) PROVE RequestInv'
  BY <1>2, ReturnKeepsInv DEF ReturnExpired, Running, Abandonments
<1>3. ASSUME NEW r \in Requests, ReturnClosed(r) PROVE RequestInv'
  BY <1>3, ReturnKeepsInv DEF ReturnClosed, Abandonments
<1>4. ASSUME NEW r \in Requests, ReturnResponse(r) PROVE RequestInv'
  BY <1>4, ReturnKeepsInv DEF ReturnResponse, Abandonments
<1>5. ASSUME NEW r \in Requests, NEW inRuntime \in BOOLEAN, Abandon(r, inRuntime)
      PROVE  RequestInv'
  <2>1. /\ pc[r] # "returned" /\ Return(r, "dropped")
        /\ UNCHANGED <<clock, rx, queue, session, received>>
    BY <1>5 DEF Abandon, Running
  <2>2. r \notin muted
    BY <2>1 DEF Discipline, Owed
  <2>3. CASE inRuntime
    BY <1>5, <2>1, <2>3, ReturnKeepsInv DEF Abandon, Abandonments
  <2>4. CASE ~ inRuntime
    <3>1. muted' = muted \cup {r} /\ UNCHANGED notifying /\ muted' # muted
      BY <1>5, <2>2, <2>4 DEF Abandon
    <3> QED
      BY <2>1, <3>1, ReturnKeepsInv DEF Abandonments
  <2> QED
    BY <2>3, <2>4
<1>6. ASSUME NEW r \in Requests, Signal(r) PROVE RequestInv'
  <2>1. Types' /\ UNCHANGED <<pc, outcome, notifying, muted, Stream>>
    BY <1>6, McpRequestAssumption DEF Signal, Types, TypeOK, caller, Stream
  <2> QED
    BY <1>6, <2>1, QuietKeepsInv DEF Signal
<1>7. ASSUME NEW r \in Requests, Expire(r) PROVE RequestInv'
  <2>1. Types' /\ UNCHANGED <<pc, outcome, notifying, muted, Stream>>
    BY <1>7, McpRequestAssumption DEF Expire, Types, TypeOK, caller, Stream
  <2> QED
    BY <1>7, <2>1, QuietKeepsInv DEF Expire
<1>8. ASSUME NEW r \in Requests, Respond(r) PROVE RequestInv'
  <2>1. UNCHANGED <<pc, outcome, notifying, muted, Stream>>
    BY <1>8 DEF Respond, caller, Stream
  <2>2. Types'
    BY <1>8 DEF Respond, Types, TypeOK, caller, clock
  <2>3. \A q \in Requests : rx'[q] = rx[q] \/ (rx'[q] = "answered" /\ pc[q] = "waiting")
    BY <1>8 DEF Respond, Types, TypeOK
  <2> QED
    BY <1>8, <2>1, <2>2, <2>3, QuietKeepsInv DEF Respond
<1>9. CASE Transmit
  <2>1. UNCHANGED Stream /\ received' \in Seq(Messages) /\ queue' \in Seq(Messages)
        /\ Len(queue') <= Len(queue) /\ Len(queue) \in Nat /\ Len(queue') \in Nat
    BY <1>9, StreamTransmit, LenProperties DEF Types
  <2>2. UNCHANGED <<pc, outcome, notifying, signalled, due, rx, session, muted>>
    BY <1>9 DEF Transmit, caller, clock
  <2>3. Types'
    BY <2>1, <2>2, McpRequestAssumption DEF Types, TypeOK
  <2> QED
    BY <2>1, <2>2, <2>3, QuietKeepsInv
<1>10. CASE UNCHANGED vars
  <2>1. Types' /\ UNCHANGED <<pc, outcome, notifying, muted, Stream, session, rx>>
    BY <1>10 DEF vars, caller, clock, Types, TypeOK, Stream
  <2> QED
    BY <2>1, QuietKeepsInv
<1> QED
  BY <1>1, <1>2, <1>3, <1>4, <1>5, <1>6, <1>7, <1>8, <1>9, <1>10, StartKeepsInv,
     DispatchKeepsInv, NotifyKeepsInv, CloseKeepsInv DEF Next, Poll

-----------------------------------------------------------------------------

\* The inductive invariant of the session and its requests: every message given
\* to the session has its cause and its place, and every cancellation still
\* owed has a task that will queue it.
THEOREM RequestInvariant == Spec => []RequestInv
BY RequestInvInit, RequestInvStep, PTL DEF Spec

\* The futures, oneshots and the bounded queue of the session keep their types.
THEOREM TypeCorrect == Spec => []TypeOK
<1>1. RequestInv => TypeOK
  BY DEF RequestInv, Types
<1> QED
  BY <1>1, RequestInvariant, PTL

\* The server never sees a cancellation before its request, twice, or of a
\* request whose caller took an answer.
THEOREM CancellationsFollowRequests == Spec => []CancelledAtMostOnce
<1>1. RequestInv => CancelledAtMostOnce
  BY DEF RequestInv, Discipline, Ordered, CancelledAtMostOnce, Places, At
<1> QED
  BY <1>1, RequestInvariant, PTL

\* The server learns, or is about to, of exactly the requests it was sent that
\* were given up unanswered.
THEOREM AbandonmentsAreTold == Spec => []AbandonedIsCancelled
<1>1. RequestInv => AbandonedIsCancelled
  BY DEF RequestInv, Discipline, Owed, AbandonedIsCancelled, Places, At
<1> QED
  BY <1>1, RequestInvariant, PTL

\* What the session was given changes by a request dispatched, a notification
\* queued, or the loss of the queue.
LEMMA StreamStep ==
  ASSUME RequestInv, [Next]_vars
  PROVE  \/ UNCHANGED Stream
         \/ \E r \in Requests : Dispatch(r) \/ Notify(r)
         \/ Close
<1>1. Transmit => UNCHANGED Stream
  BY StreamTransmit DEF RequestInv
<1>2. ASSUME NEW r \in Requests, Poll(r)
      PROVE  Dispatch(r) \/ UNCHANGED Stream
  BY <1>2 DEF Poll, Start, ReturnCancelled, ReturnExpired, ReturnClosed, ReturnResponse, Stream
<1>3. ASSUME NEW r \in Requests, NEW inRuntime \in BOOLEAN, Abandon(r, inRuntime)
      PROVE  UNCHANGED Stream
  BY <1>3 DEF Abandon, Stream
<1>4. ASSUME NEW r \in Requests, Signal(r) \/ Expire(r) \/ Respond(r)
      PROVE  UNCHANGED Stream
  BY <1>4 DEF Signal, Expire, Respond, Stream
<1>5. UNCHANGED vars => UNCHANGED Stream
  BY DEF vars, Stream
<1> QED
  BY <1>1, <1>2, <1>3, <1>4, <1>5 DEF Next

\* A ready signal or a passed deadline prevents dispatch, and a request that
\* returned is never sent, whatever the timers and the session do.
THEOREM NothingIsSentLate == Spec => NoLateDispatch
<1> DEFINE Sent(r) == Places(Request(r)) = {} /\ Places(Request(r))' # {}
           InTime(r) == r \notin signalled /\ r \notin due /\ pc[r] # "returned"
<1>1. ASSUME RequestInv, [Next]_vars, NEW r \in Requests, Sent(r)
      PROVE  InTime(r)
  <2>1. At(Stream, Request(r)) = {} /\ At(Stream', Request(r)) # {}
    BY <1>1 DEF Places, At
  <2>2. CASE UNCHANGED Stream
    BY <2>1, <2>2
  <2>3. ASSUME NEW q \in Requests, Dispatch(q)
        PROVE  InTime(r)
    <3>1. Request(q) \in Messages /\ queue' = Append(queue, Request(q)) /\ UNCHANGED received
      BY <2>3 DEF Messages, Dispatch
    <3>2. Stream \in Seq(Messages) /\ Stream' = Append(Stream, Request(q))
      BY <1>1, <3>1, StreamAppend DEF RequestInv
    <3>3. Request(r) = Request(q)
      BY <2>1, <3>1, <3>2, AtAppend
    <3>4. r = q
      BY <3>3, MessagesDiffer
    <3> QED
      BY <2>3, <3>4 DEF Dispatch
  <2>4. ASSUME NEW q \in Requests, Notify(q)
        PROVE  FALSE
    <3>1. CASE UNCHANGED queue
      BY <2>1, <2>4, <3>1 DEF Notify, Stream
    <3>2. CASE queue' = Append(queue, Cancelled(q))
      <4>1. Cancelled(q) \in Messages /\ UNCHANGED received
        BY <2>4 DEF Messages, Notify
      <4>2. Stream \in Seq(Messages) /\ Stream' = Append(Stream, Cancelled(q))
        BY <1>1, <3>2, <4>1, StreamAppend DEF RequestInv
      <4>3. Request(r) = Cancelled(q)
        BY <2>1, <4>1, <4>2, AtAppend
      <4> QED
        BY <4>3, MessagesDiffer
    <3> QED
      BY <2>4, <3>1, <3>2 DEF Notify
  <2>5. CASE Close
    <3>1. \A i \in Nat : i \in At(Stream', Request(r)) => i \in At(Stream, Request(r))
      BY <1>1, <2>5, StreamCut DEF RequestInv, Close
    <3> QED
      BY <2>1, <3>1 DEF At
  <2> QED
    BY <1>1, <2>2, <2>3, <2>4, <2>5, StreamStep
<1>2. RequestInv /\ [Next]_vars => [\A r \in Requests : Sent(r) => InTime(r)]_vars
  BY <1>1
<1> QED
  BY <1>2, RequestInvariant, PTL DEF Spec, NoLateDispatch

-----------------------------------------------------------------------------
(***************************************************************************)
(* McpCatalog, for every list of servers, whatever they list and however   *)
(* they page it, every renaming and every result.                          *)
(***************************************************************************)

McpTools == [name : STRING, remote : RemoteTools]

Catalogs ==
  {Unread, Failed} \cup {Bound(tools) : tools \in Seq(McpTools)}
    \cup {Reading(remotes, cursor, cursors) :
            remotes \in Seq(RemoteTools), cursor \in Option(Nat), cursors \in SUBSET Nat}

\* What a catalog holds, by its status.
Holds(x) ==
  /\ x.status \in {"unread", "failed", "bound", "reading"}
  /\ x.status = "bound" => x.tools \in Seq(McpTools)
  /\ x.status = "reading" =>
       x.remotes \in Seq(RemoteTools) /\ x.cursor \in Option(Nat) /\ x.cursors \in SUBSET Nat

\* A catalog holds what its status says.
LEMMA CatalogHolds ==
  ASSUME NEW x \in Catalogs
  PROVE  Holds(x)
<1>1. CASE x \in {Unread, Failed}
  BY <1>1 DEF Unread, Failed, Holds
<1>2. CASE x \in {Bound(tools) : tools \in Seq(McpTools)}
  BY <1>2 DEF Bound, Holds
<1>3. CASE x \in {Reading(remotes, cursor, cursors) :
                    remotes \in Seq(RemoteTools), cursor \in Option(Nat), cursors \in SUBSET Nat}
  <2>1. PICK remotes \in Seq(RemoteTools), cursor \in Option(Nat), cursors \in SUBSET Nat :
          x = Reading(remotes, cursor, cursors)
    BY <1>3
  <2>2. x.status = "reading" /\ x.remotes = remotes /\ x.cursor = cursor /\ x.cursors = cursors
    BY <2>1 DEF Reading
  <2> QED
    BY <2>2 DEF Holds
<1> QED
  BY <1>1, <1>2, <1>3 DEF Catalogs

\* The servers name their tools by strings.
LEMMA RemoteToolsAreStrings == RemoteTools \subseteq STRING
<1> SUFFICES ASSUME NEW x \in RemoteTools PROVE x \in STRING
  OBVIOUS
<1>1. PICK s \in Servers : \E l \in Listings[s] : x \in ToSet(l)
  BY DEF RemoteTools
<1>2. PICK l \in Listings[s] : x \in ToSet(l)
  BY <1>1
<1>3. l \in Seq(STRING)
  BY McpCatalogAssumption
<1> QED
  BY <1>2, <1>3 DEF ToSet

\* What a server lists are its tools.
LEMMA ListingTyped ==
  ASSUME NEW s \in Servers, NEW l \in Listings[s]
  PROVE  l \in Seq(RemoteTools)
<1>1. l \in Seq(STRING)
  BY McpCatalogAssumption
<1>2. PICK n \in Nat : n = Len(l) /\ l \in [1..n -> STRING]
  BY <1>1
<1>3. \A i \in 1..n : l[i] \in RemoteTools
  <2> SUFFICES ASSUME NEW i \in 1..n PROVE l[i] \in RemoteTools
    OBVIOUS
  <2>1. l[i] \in ToSet(l)
    BY <1>2 DEF ToSet
  <2>2. ToSet(l) \in {ToSet(k) : k \in Listings[s]}
    OBVIOUS
  <2> QED
    BY <2>1, <2>2 DEF RemoteTools
<1>4. l \in [1..n -> RemoteTools]
  BY <1>2, <1>3
<1> QED
  BY <1>4, SequenceLength

\* Tools bound are those that were checked, with names that differ.
CheckedAs(x, tools) ==
  /\ x \in Catalogs /\ x.status \in {"bound", "failed"}
  /\ x.status = "bound" =>
       /\ x.tools = tools
       /\ \A i, j \in 1..Len(tools) : tools[i].name = tools[j].name => i = j

\* What check_names() lets through.
LEMMA CheckedIs ==
  ASSUME NEW tools \in Seq(McpTools)
  PROVE  CheckedAs(Checked(tools), tools)
<1>1. CASE NamesAreGood(tools)
  <2>1. Checked(tools) = Bound(tools)
    BY <1>1 DEF Checked
  <2>2. \A i, j \in 1..Len(tools) : tools[i].name = tools[j].name => i = j
    BY <1>1 DEF NamesAreGood, IsInjective, AdvertisedNames
  <2>3. Bound(tools) \in Catalogs /\ Bound(tools).status = "bound" /\ Bound(tools).tools = tools
    BY DEF Bound, Catalogs
  <2> QED
    BY <2>1, <2>2, <2>3 DEF CheckedAs
<1>2. CASE ~ NamesAreGood(tools)
  <2>1. Checked(tools) = Failed
    BY <1>2 DEF Checked
  <2> QED
    BY <2>1 DEF CheckedAs, Failed, Catalogs
<1> QED
  BY <1>1, <1>2

Repeats(remotes) == \E i, j \in 1..Len(remotes) : i # j /\ remotes[i] = remotes[j]

\* A catalog bound is the one that was read, which repeats no tool.
BoundTo(x, remotes) ==
  /\ x \in Catalogs /\ x.status \in {"bound", "failed"}
  /\ x.status = "bound" => RemoteNames(x.tools) = remotes /\ ~ Repeats(remotes)

\* from_catalog() binds them so.
LEMMA FromCatalogIs ==
  ASSUME NEW remotes \in Seq(RemoteTools)
  PROVE  BoundTo(FromCatalog(remotes), remotes)
<1>1. PICK n \in Nat : n = Len(remotes)
  OBVIOUS
<1>2. PICK tools : tools = [i \in 1..n |-> McpTool(remotes[i], remotes[i])]
  OBVIOUS
<1>3. FromCatalog(remotes) = Checked(tools)
  BY <1>1, <1>2 DEF FromCatalog
<1>4. tools \in [1..n -> McpTools]
  <2> SUFFICES ASSUME NEW i \in 1..n PROVE McpTool(remotes[i], remotes[i]) \in McpTools
    BY <1>2
  <2>0. remotes[i] \in RemoteTools
    <3>1. remotes \in [1..n -> RemoteTools]
      BY <1>1
    <3> QED
      BY <3>1
  <2>1. remotes[i] \in RemoteTools /\ remotes[i] \in STRING
    BY <2>0, RemoteToolsAreStrings
  <2> QED
    BY <2>1 DEF McpTool, McpTools
<1>5. tools \in Seq(McpTools) /\ Len(tools) = n
  BY <1>4, SequenceLength
<1>6. CheckedAs(Checked(tools), tools)
  BY <1>5, CheckedIs
<1>7. \A i \in 1..n : tools[i].name = remotes[i] /\ tools[i].remote = remotes[i]
  BY <1>2 DEF McpTool
<1>8. RemoteNames(tools) = remotes
  <2>1. RemoteNames(tools) = [i \in 1..n |-> remotes[i]]
    BY <1>5, <1>7 DEF RemoteNames
  <2>2. remotes \in [1..n -> RemoteTools]
    BY <1>1
  <2> QED
    BY <2>1, <2>2
<1> QED
  BY <1>1, <1>3, <1>5, <1>6, <1>7, <1>8 DEF BoundTo, CheckedAs, Repeats

\* What a page holds: what the list has from the cursor on, to its end when no
\* cursor follows.
PageHolds(page, list, from) ==
  \E n \in Nat :
    /\ page.remotes \in Seq(RemoteTools) /\ Len(page.remotes) = n
    /\ \A i \in 1..n : page.remotes[i] = list[from + i]
    /\ n > 0 => from + n <= Len(list)
    /\ \/ page.next = None /\ (from <= Len(list) => from + n = Len(list))
       \/ \E to \in 0..(from + n) : page.next = Some(to)

\* Each page a server may answer with does.
LEMMA PageIs ==
  ASSUME NEW list \in Seq(RemoteTools), NEW cursor \in Option(Nat),
         NEW page \in Pages(list, cursor)
  PROVE  OrDefault(cursor, 0) \in Nat /\ PageHolds(page, list, OrDefault(cursor, 0))
<1>1. PICK from : from = OrDefault(cursor, 0)
  OBVIOUS
<1>2. from \in Nat
  BY <1>1 DEF OrDefault, IsSome, None, Option
<1>3. PICK l \in Nat : l = Len(list)
  OBVIOUS
<1>4. PICK rest : rest = SubSeq(list, from + 1, l)
  OBVIOUS
<1>5. /\ rest \in Seq(RemoteTools)
      /\ Len(rest) = IF from <= l THEN l - from ELSE 0
      /\ \A i \in 1..Len(rest) : rest[i] = list[from + i]
  BY <1>2, <1>3, <1>4, SubSeqProperties
<1>6. PICK m \in Nat : m = Len(rest)
  BY <1>5
<1>7. ASSUME NEW n \in Nat, n <= m
      PROVE  /\ SubSeq(rest, 1, n) \in Seq(RemoteTools) /\ Len(SubSeq(rest, 1, n)) = n
             /\ \A i \in 1..n : SubSeq(rest, 1, n)[i] = list[from + i]
             /\ n > 0 => from + n <= l
  BY <1>2, <1>3, <1>5, <1>6, <1>7, SubSeqProperties
<1>8. \/ \E n \in 0..PageSize \cap 0..m : \E to \in 0..(from + n) : page = Page(rest, n, Some(to))
      \/ page = Page(rest, m, None)
  <2>1. page \in PagesBefore(rest, from) \/ page \in LastPages(rest)
    BY <1>1, <1>3, <1>4 DEF Pages
  <2>2. CASE page \in LastPages(rest)
    BY <1>6, <2>2 DEF LastPages
  <2>3. CASE page \in PagesBefore(rest, from)
    <3>1. PICK n \in 0..PageSize \cap 0..m :
            page \in {Page(rest, n, Some(to)) : to \in 0..(from + n)}
      BY <1>6, <2>3 DEF PagesBefore
    <3> QED
      BY <3>1
  <2> QED
    BY <2>1, <2>2, <2>3
<1>9. CASE page = Page(rest, m, None)
  <2>1. page.remotes = SubSeq(rest, 1, m) /\ page.next = None
    BY <1>9 DEF Page
  <2>2. from <= l => from + m = l
    BY <1>2, <1>3, <1>5, <1>6
  <2> QED
    BY <1>1, <1>2, <1>3, <1>7, <2>1, <2>2 DEF PageHolds
<1>10. CASE \E n \in 0..PageSize \cap 0..m : \E to \in 0..(from + n) : page = Page(rest, n, Some(to))
  <2>1. PICK n \in 0..PageSize \cap 0..m : \E to \in 0..(from + n) : page = Page(rest, n, Some(to))
    BY <1>10
  <2>2. PICK to \in 0..(from + n) : page = Page(rest, n, Some(to))
    BY <2>1
  <2>3. page.remotes = SubSeq(rest, 1, n) /\ page.next = Some(to) /\ n \in Nat /\ n <= m
    BY <2>2 DEF Page
  <2> QED
    BY <1>1, <1>2, <1>3, <1>7, <2>3 DEF PageHolds
<1> QED
  BY <1>8, <1>9, <1>10

\* What has been read of a list that did not change: all before the cursor; or
\* the server has lost its place, and what it is about to send is known; or some
\* tool is there twice.
Faithful(x, list) ==
  LET cursor == OrDefault(x.cursor, 0)
  IN  \/ /\ Len(x.remotes) = cursor /\ cursor <= Len(list)
         /\ \A i \in 1..cursor : x.remotes[i] = list[i]
      \/ /\ cursor < Len(list)
         /\ \A i \in 1..(cursor + 1) : \E j \in 1..Len(x.remotes) : x.remotes[j] = list[i]
      \/ Repeats(x.remotes)

\* What one round of discover() makes of a page.
ReadAs(x, page, list, faithful) ==
  /\ x \in Catalogs /\ x.status \in {"reading", "bound", "failed"}
  /\ faithful =>
       /\ x.status = "reading" => Faithful(x, list)
       /\ x.status = "bound" => RemoteNames(x.tools) = list

\* A round adds the page to what was read.
LEMMA ReadIs ==
  ASSUME NEW x \in Catalogs, x.status = "reading", NEW list \in Seq(RemoteTools),
         NEW page \in Pages(list, x.cursor)
  PROVE  ReadAs(Read(x, page), page, list, Faithful(x, list))
<1>1. /\ x.remotes \in Seq(RemoteTools) /\ x.cursor \in Option(Nat) /\ x.cursors \in SUBSET Nat
  BY CatalogHolds DEF Holds
<1>2. PICK from \in Nat : from = OrDefault(x.cursor, 0) /\ PageHolds(page, list, from)
  BY <1>1, PageIs
<1>3. PICK n \in Nat :
        /\ page.remotes \in Seq(RemoteTools) /\ Len(page.remotes) = n
        /\ \A i \in 1..n : page.remotes[i] = list[from + i]
        /\ n > 0 => from + n <= Len(list)
        /\ \/ page.next = None /\ (from <= Len(list) => from + n = Len(list))
           \/ \E to \in 0..(from + n) : page.next = Some(to)
  BY <1>2 DEF PageHolds
<1>4. PICK old, add, all : old = x.remotes /\ add = page.remotes /\ all = old \o add
  OBVIOUS
<1>5. PICK m \in Nat, l \in Nat : m = Len(old) /\ l = Len(list)
  BY <1>1, <1>4
<1>6. /\ all \in Seq(RemoteTools) /\ Len(all) = m + n
      /\ \A i \in 1..m : all[i] = old[i]
      /\ \A i \in 1..n : all[m + i] = list[from + i]
  <2>1. old \in Seq(RemoteTools) /\ add \in Seq(RemoteTools) /\ Len(add) = n
    BY <1>1, <1>3, <1>4
  <2>2. all \in Seq(RemoteTools) /\ Concatenated(all, old, add)
    BY <1>4, <2>1, ConcatPlaces
  <2>3. \A i \in 1..n : add[i] = list[from + i]
    BY <1>3, <1>4
  <2> QED
    BY <1>5, <2>1, <2>2, <2>3 DEF Concatenated
<1>7. ASSUME Repeats(old) PROVE Repeats(all)
  <2>1. PICK i, j \in 1..m : i # j /\ old[i] = old[j]
    BY <1>5, <1>7 DEF Repeats
  <2>2. i \in 1..(m + n) /\ j \in 1..(m + n) /\ all[i] = all[j]
    BY <1>6, <2>1
  <2> QED
    BY <1>6, <2>1, <2>2 DEF Repeats
<1> DEFINE Known == \A i \in 1..(from + 1) : \E j \in 1..m : old[j] = list[i]
<1>8. ASSUME Known, from < l, n > 0 PROVE Repeats(all)
  <2>1. from + 1 \in 1..(from + 1) /\ 1 \in 1..n
    BY <1>8
  <2>2. PICK j \in 1..m : old[j] = list[from + 1]
    BY <1>8, <2>1
  <2>3. all[j] = list[from + 1] /\ all[m + 1] = list[from + 1]
    BY <1>6, <2>1, <2>2
  <2>4. j \in 1..(m + n) /\ m + 1 \in 1..(m + n) /\ j # m + 1
    BY <1>8
  <2> QED
    BY <1>6, <2>3, <2>4 DEF Repeats
<1>9. Faithful(x, list) =>
        \/ m = from /\ from <= l /\ \A i \in 1..from : old[i] = list[i]
        \/ from < l /\ Known
        \/ Repeats(old)
  BY <1>2, <1>4, <1>5 DEF Faithful
<1>10. ASSUME m = from, from <= l, \A i \in 1..from : old[i] = list[i]
       PROVE  from + n <= l /\ \A i \in 1..(from + n) : all[i] = list[i]
  <2>1. from + n <= l
    BY <1>3, <1>5, <1>10
  <2>2. ASSUME NEW i \in 1..(from + n) PROVE all[i] = list[i]
    <3>1. CASE i \in 1..m
      BY <1>6, <1>10, <3>1
    <3>2. CASE i - m \in 1..n
      <4>1. PICK k \in 1..n : k = i - m
        BY <3>2
      <4>2. i = m + k /\ i = from + k
        BY <1>10, <4>1
      <4>3. all[m + k] = list[from + k]
        BY <1>6
      <4> QED
        BY <4>2, <4>3
    <3> QED
      BY <1>10, <3>1, <3>2
  <2> QED
    BY <2>1, <2>2
<1>11. CASE page.next = None
  <2>1. Read(x, page) = FromCatalog(all)
    BY <1>4, <1>11 DEF Read
  <2>2. BoundTo(Read(x, page), all)
    BY <1>6, <2>1, FromCatalogIs
  <2>3. from <= l => from + n = l
    BY <1>3, <1>5, <1>11 DEF None, Some
  <2>4. ASSUME Faithful(x, list), ~ Repeats(all) PROVE all = list
    <3>1. ~ (from < l /\ Known)
      BY <1>8, <2>3, <2>4
    <3>2. ~ Repeats(old)
      BY <1>7, <2>4
    <3>3. m = from /\ from <= l /\ \A i \in 1..from : old[i] = list[i]
      BY <1>9, <2>4, <3>1, <3>2
    <3>4. \A i \in 1..(from + n) : all[i] = list[i]
      BY <1>10, <3>3
    <3>5. from + n = l
      BY <2>3, <3>3
    <3>6. all \in [1..l -> RemoteTools] /\ list \in [1..l -> RemoteTools]
      BY <1>5, <1>6, <3>3, <3>5
    <3>7. \A i \in 1..l : all[i] = list[i]
      BY <3>4, <3>5
    <3> QED
      BY <3>6, <3>7
  <2> QED
    BY <2>2, <2>4 DEF BoundTo, ReadAs
<1>12. CASE page.next # None
  <2>1. PICK to \in 0..(from + n) : page.next = Some(to)
    BY <1>3, <1>12
  <2>2. to \in Nat /\ page.next[1] = to
    BY <2>1 DEF Some
  <2>3. CASE to \in x.cursors
    <3>1. Read(x, page) = Failed
      BY <1>12, <2>2, <2>3 DEF Read
    <3> QED
      BY <3>1 DEF ReadAs, Failed, Catalogs
  <2>4. CASE to \notin x.cursors
    <3>1. PICK y : y = Reading(all, Some(to), x.cursors \cup {to})
      OBVIOUS
    <3>2. Read(x, page) = y
      BY <1>4, <1>12, <2>1, <2>2, <2>4, <3>1 DEF Read
    <3>3. y.status = "reading" /\ y.remotes = all /\ y.cursor = Some(to)
      BY <3>1 DEF Reading
    <3>4. y \in Catalogs
      <4>1. Some(to) \in Option(Nat)
        BY <2>2 DEF Some, Option
      <4>2. x.cursors \cup {to} \in SUBSET Nat
        BY <1>1, <2>2
      <4> QED
        BY <1>6, <3>1, <4>1, <4>2 DEF Catalogs
    <3>5. OrDefault(y.cursor, 0) = to
      BY <3>3 DEF OrDefault, IsSome, Some, None
    <3>6. ASSUME Faithful(x, list) PROVE Faithful(y, list)
      <4>1. CASE Repeats(all)
        BY <3>3, <4>1 DEF Faithful
      <4>2. CASE m = from /\ from <= l /\ \A i \in 1..from : old[i] = list[i]
        <5>1. from + n <= l /\ \A i \in 1..(from + n) : all[i] = list[i]
          BY <1>10, <4>2
        <5>2. CASE to = from + n
          BY <1>5, <1>6, <3>3, <3>5, <4>2, <5>1, <5>2 DEF Faithful
        <5>3. CASE to < from + n
          <6>1. to < l /\ \A i \in 1..(to + 1) : i \in 1..(from + n)
            BY <5>1, <5>3
          <6>2. \A i \in 1..(to + 1) : i \in 1..Len(all) /\ all[i] = list[i]
            BY <1>6, <4>2, <5>1, <6>1
          <6> QED
            BY <1>5, <3>3, <3>5, <6>1, <6>2 DEF Faithful
        <5> QED
          BY <5>2, <5>3
      <4>3. CASE from < l /\ Known /\ ~ Repeats(all)
        <5>1. n = 0
          BY <1>8, <4>3
        <5>2. to < l /\ to <= from
          BY <4>3, <5>1
        <5>3. ASSUME NEW i \in 1..(to + 1)
              PROVE  \E j \in 1..Len(all) : all[j] = list[i]
          <6>1. i \in 1..(from + 1)
            BY <5>2
          <6>2. PICK j \in 1..m : old[j] = list[i]
            BY <4>3, <6>1
          <6>3. j \in 1..Len(all) /\ all[j] = list[i]
            BY <1>6, <6>2
          <6> QED
            BY <6>3
        <5> QED
          BY <1>5, <3>3, <3>5, <5>2, <5>3 DEF Faithful
      <4> QED
        BY <1>7, <1>9, <3>6, <4>1, <4>2, <4>3
    <3> QED
      BY <3>2, <3>3, <3>4, <3>6 DEF ReadAs
  <2> QED
    BY <2>2, <2>3, <2>4
<1> QED
  BY <1>11, <1>12

-----------------------------------------------------------------------------

EntryType == [name : STRING, declared : Servers \X RemoteTools]

\* A server's tools, as they are listed to the model.
ToolsAlike(s) ==
  /\ CatalogTools(s) \in Seq(Tools) /\ CatalogDefinitions(s) \in Seq(EntryType)
  /\ Len(CatalogTools(s)) = Len(catalog[s].tools)
  /\ Len(CatalogDefinitions(s)) = Len(catalog[s].tools)
  /\ \A j \in 1..Len(catalog[s].tools) :
       /\ CatalogTools(s)[j].name = catalog[s].tools[j].name
       /\ CatalogDefinitions(s)[j].name = catalog[s].tools[j].name
       /\ CatalogDefinitions(s)[j] = Entry(s, catalog[s].tools[j])

\* The tools and the definitions of a server bear the same names.
LEMMA ToolsAreAlike ==
  ASSUME NEW s \in Servers, catalog[s].tools \in Seq(McpTools)
  PROVE  ToolsAlike(s)
<1>1. PICK ts : ts = catalog[s].tools
  OBVIOUS
<1>2. PICK n \in Nat : n = Len(ts) /\ ts \in [1..n -> McpTools]
  BY <1>1
<1>3. \A j \in 1..n : ts[j].name \in STRING /\ ts[j].remote \in RemoteTools
  BY <1>2 DEF McpTools
<1>4. PICK u : u = [j \in 1..n |-> Tool(ts[j].name, TRUE, TRUE)]
  OBVIOUS
<1>5. PICK v : v = [j \in 1..n |-> Entry(s, ts[j])]
  OBVIOUS
<1>6. u = CatalogTools(s) /\ v = CatalogDefinitions(s)
  BY <1>1, <1>2, <1>4, <1>5 DEF CatalogTools, CatalogDefinitions
<1>7. \A j \in 1..n : u[j] \in Tools /\ u[j].name = ts[j].name
  BY <1>3, <1>4 DEF Tool, Tools
<1>8. \A j \in 1..n : v[j] = Entry(s, ts[j]) /\ v[j].name = ts[j].name /\ v[j] \in EntryType
  BY <1>3, <1>5 DEF Entry, EntryType
<1>9. u \in Seq(Tools) /\ Len(u) = n
  <2>1. u \in [1..n -> Tools]
    BY <1>4, <1>7
  <2> QED
    BY <2>1, SequenceLength
<1>10. v \in Seq(EntryType) /\ Len(v) = n
  <2>1. v \in [1..n -> EntryType]
    BY <1>5, <1>8
  <2> QED
    BY <2>1, SequenceLength
<1> QED
  BY <1>1, <1>2, <1>6, <1>7, <1>8, <1>9, <1>10 DEF ToolsAlike

CatalogTypes ==
  /\ catalog \in [Servers -> Catalogs]
  /\ listing \in [Servers -> Seq(RemoteTools)]
  /\ changed \subseteq Servers

\* What is attached are catalogs that are bound.
LEMMA AttachedTyped ==
  ASSUME CatalogTypes
  PROVE  /\ Attached \in Seq(Servers)
         /\ \A k \in 1..Len(Attached) :
              /\ catalog[Attached[k]].status = "bound"
              /\ catalog[Attached[k]].tools \in Seq(McpTools)
<1>1. PICK I : I = {i \in 1..Len(Order) : catalog[Order[i]].status = "bound"}
  OBVIOUS
<1>2. Order \in Seq(Servers)
  BY McpCatalogAssumption
<1>3. PICK att : att = Attached
  OBVIOUS
<1>4. att = Selection(Order, I)
  BY <1>1, <1>3 DEF Attached
<1>5. att \in Seq(Servers) /\ Alike(Order, Order, I)
  BY <1>2, <1>4, SelectionAlike
<1>6. ASSUME NEW k \in 1..Len(att)
      PROVE  catalog[att[k]].status = "bound" /\ catalog[att[k]].tools \in Seq(McpTools)
  <2>1. PICK i \in I \cap 1..Len(Order) : att[k] = Order[i]
    BY <1>4, <1>5 DEF Alike, AlikeIn
  <2>2. catalog[att[k]].status = "bound"
    BY <1>1, <2>1
  <2>3. att[k] \in Servers
    BY <1>5
  <2>4. catalog[att[k]] \in Catalogs
    BY <2>3 DEF CatalogTypes
  <2> QED
    BY <2>2, <2>4, CatalogHolds DEF Holds
<1> QED
  BY <1>3, <1>5, <1>6

\* Each definition goes with a tool of the same name, and each tool attached has
\* its entry among the definitions.
Listed(ts, ds) ==
  /\ ts \in Seq(Tools) /\ ds \in Seq(EntryType) /\ Len(ts) = Len(ds)
  /\ \A p \in 1..Len(ds) : ts[p].name = ds[p].name
  /\ \A k \in 1..Len(Attached) : \A j \in 1..Len(catalog[Attached[k]].tools) :
       \E p \in 1..Len(ds) : ds[p] = Entry(Attached[k], catalog[Attached[k]].tools[j])

\* So it is for what the catalogs are flattened to.
LEMMA EverythingListed ==
  ASSUME CatalogTypes
  PROVE  Listed(ExecutableTools, Definitions)
<1>1. PICK att : att = Attached
  OBVIOUS
<1>2. PICK n \in Nat : n = Len(att) /\ att \in [1..n -> Servers]
  BY <1>1, AttachedTyped
<1>3. \A k \in 1..n : catalog[att[k]].tools \in Seq(McpTools)
  BY <1>1, <1>2, AttachedTyped
<1>4. \A k \in 1..n : ToolsAlike(att[k])
  <2> TAKE k \in 1..n
  <2>1. att[k] \in Servers /\ catalog[att[k]].tools \in Seq(McpTools)
    BY <1>2, <1>3
  <2> QED
    BY <2>1, ToolsAreAlike
<1>5. PICK u : u = [k \in 1..n |-> CatalogTools(att[k])]
  OBVIOUS
<1>6. PICK v : v = [k \in 1..n |-> CatalogDefinitions(att[k])]
  OBVIOUS
<1>7. u \in [1..n -> Seq(Tools)]
  BY <1>4, <1>5 DEF ToolsAlike
<1>8. v \in [1..n -> Seq(EntryType)]
  BY <1>4, <1>6 DEF ToolsAlike
<1>9. SameLengths(u, v, n)
  BY <1>4, <1>5, <1>6 DEF ToolsAlike, SameLengths
<1>10. PICK ts, ds : ts = FlattenSeq(u) /\ ds = FlattenSeq(v)
  OBVIOUS
<1>11. ts = ExecutableTools /\ ds = Definitions
  BY <1>1, <1>2, <1>5, <1>6, <1>10 DEF ExecutableTools, Definitions
<1>12. ts \in Seq(Tools) /\ ds \in Seq(EntryType) /\ FlatAlike(ts, ds, u, v, n)
  BY <1>7, <1>8, <1>9, <1>10, FlattenSeqAlike
<1>13. ASSUME NEW p \in 1..Len(ts) PROVE ts[p].name = ds[p].name
  <2>1. PICK k \in 1..n : \E j \in 1..Len(u[k]) : ts[p] = u[k][j] /\ ds[p] = v[k][j]
    BY <1>12 DEF FlatAlike
  <2>2. PICK j \in 1..Len(u[k]) : ts[p] = u[k][j] /\ ds[p] = v[k][j]
    BY <2>1
  <2>3. u[k] = CatalogTools(att[k]) /\ v[k] = CatalogDefinitions(att[k]) /\ ToolsAlike(att[k])
    BY <1>4, <1>5, <1>6
  <2> QED
    BY <2>2, <2>3 DEF ToolsAlike
<1>14. ASSUME NEW k \in 1..n, NEW j \in 1..Len(catalog[att[k]].tools)
       PROVE  \E p \in 1..Len(ds) : ds[p] = Entry(att[k], catalog[att[k]].tools[j])
  <2>1. u[k] = CatalogTools(att[k]) /\ v[k] = CatalogDefinitions(att[k]) /\ ToolsAlike(att[k])
    BY <1>4, <1>5, <1>6
  <2>2. j \in 1..Len(u[k]) /\ v[k][j] = Entry(att[k], catalog[att[k]].tools[j])
    BY <2>1 DEF ToolsAlike
  <2>3. PICK p \in 1..Len(ts) : ds[p] = v[k][j]
    BY <1>12, <2>2 DEF FlatAlike
  <2> QED
    BY <1>12, <2>2, <2>3 DEF FlatAlike
<1>15. Len(ts) = Len(ds)
  BY <1>12 DEF FlatAlike
<1> QED
  BY <1>1, <1>2, <1>11, <1>12, <1>13, <1>14, <1>15 DEF Listed

\* Every tool attached is among the entries, which name each tool differently.
Advertises(entries) ==
  /\ \A k \in 1..Len(Attached) : \A j \in 1..Len(catalog[Attached[k]].tools) :
       Entry(Attached[k], catalog[Attached[k]].tools[j]) \in entries
  /\ \A d, e \in entries : d.name = e.name => d = e

Distinct(ds) == \A p, q \in 1..Len(ds) : ds[p].name = ds[q].name => p = q

\* Definitions whose names differ can be offered.
LEMMA DistinctAdvertise ==
  ASSUME CatalogTypes, Distinct(Definitions)
  PROVE  Advertises(ToSet(Definitions))
<1>1. PICK ds : ds = Definitions
  OBVIOUS
<1>2. Listed(ExecutableTools, ds) /\ Distinct(ds)
  BY <1>1, EverythingListed
<1>3. ASSUME NEW k \in 1..Len(Attached), NEW j \in 1..Len(catalog[Attached[k]].tools)
      PROVE  Entry(Attached[k], catalog[Attached[k]].tools[j]) \in ToSet(ds)
  <2>1. PICK p \in 1..Len(ds) : ds[p] = Entry(Attached[k], catalog[Attached[k]].tools[j])
    BY <1>2, <1>3 DEF Listed
  <2>2. ds[p] \in ToSet(ds)
    BY <1>2 DEF Listed, ToSet
  <2> QED
    BY <2>1, <2>2
<1>4. ASSUME NEW d \in ToSet(ds), NEW e \in ToSet(ds), d.name = e.name PROVE d = e
  <2>1. PICK p \in 1..Len(ds) : d = ds[p]
    BY <1>2 DEF Listed, ToSet
  <2>2. PICK q \in 1..Len(ds) : e = ds[q]
    BY <1>2 DEF Listed, ToSet
  <2>3. p = q
    BY <1>2, <1>4, <2>1, <2>2 DEF Distinct
  <2> QED
    BY <2>1, <2>2, <2>3
<1> QED
  BY <1>1, <1>3, <1>4 DEF Advertises

\* Tools the registry takes have names that differ.
LEMMA AcceptedTools ==
  ASSUME CatalogTypes, ~ Extend(NewRegistry, ExecutableTools).rejected
  PROVE  Distinct(Definitions)
<1>1. PICK ts, ds : ts = ExecutableTools /\ ds = Definitions
  OBVIOUS
<1>2. Listed(ts, ds)
  BY <1>1, EverythingListed
<1>3. NewRegistry \in Registries /\ NewRegistry.names = {} /\ ~ NewRegistry.rejected
  BY DEF NewRegistry, Registries
<1>4. Extended(Extend(NewRegistry, ts), {}, ts)
  <2>1. ts \in Seq(Tools)
    BY <1>2 DEF Listed
  <2>2. Extended(Extend(NewRegistry, ts), NewRegistry.names, ts)
    BY <1>3, <2>1, ExtendAll
  <2> QED
    BY <1>3, <2>2
<1>5. Admissible({}, ts)
  BY <1>1, <1>4 DEF Extended
<1>6. \A p, q \in 1..Len(ts) : ts[p].name = ts[q].name => p = q
  BY <1>5 DEF Admissible, AdmissibleUpTo
<1> QED
  BY <1>1, <1>2, <1>6 DEF Listed, Distinct

\* And so have definitions that are not rejected.
LEMMA AcceptedDefinitions ==
  ASSUME CatalogTypes, ~ DefinitionsRejected(NewRegistry, AdvertisedNames(Definitions))
  PROVE  Distinct(Definitions)
<1>1. PICK ds : ds = Definitions
  OBVIOUS
<1>2. PICK n \in Nat : n = Len(ds)
  BY <1>1, EverythingListed DEF Listed
<1>3. PICK names : names = [i \in 1..n |-> ds[i].name]
  OBVIOUS
<1>4. IsInjective(names)
  BY <1>1, <1>2, <1>3 DEF DefinitionsRejected, AdvertisedNames
<1> QED
  BY <1>1, <1>2, <1>3, <1>4 DEF IsInjective, Distinct

-----------------------------------------------------------------------------

\* find() returns a tool of that name, if there is one.
Finds(found, tools, name) ==
  \/ found = None
  \/ \E i \in 1..Len(tools) : tools[i].name = name /\ found = Some(tools[i])

\* That is what Find does.
LEMMA FindIs ==
  ASSUME NEW tools \in Seq(McpTools), NEW name
  PROVE  Finds(Find(tools, name), tools, name)
<1>1. PICK at : at = {i \in 1..Len(tools) : tools[i].name = name}
  OBVIOUS
<1>2. CASE at = {}
  BY <1>1, <1>2 DEF Find, Finds
<1>3. CASE at # {}
  <2>1. Min(at) \in at
    BY <1>1, <1>3, MinIsLeast
  <2>2. Find(tools, name) = Some(tools[Min(at)])
    BY <1>1, <1>3 DEF Find
  <2>3. Min(at) \in 1..Len(tools) /\ tools[Min(at)].name = name
    BY <1>1, <2>1
  <2> QED
    BY <2>2, <2>3 DEF Finds
<1> QED
  BY <1>2, <1>3

\* A call goes to a catalog that is attached.
LEMMA RoutedToAttached ==
  ASSUME CatalogTypes, NEW name, NEW s \in Routes(name)
  PROVE  \E k \in 1..Len(Attached) : s = Attached[k]
<1>1. PICK att : att = Attached
  OBVIOUS
<1>2. PICK n \in Nat : n = Len(att)
  BY <1>1, AttachedTyped
<1>3. PICK having : having = {i \in 1..n : IsSome(Find(catalog[att[i]].tools, name))}
  OBVIOUS
<1>4. Routes(name) = IF having = {} THEN ToSet(att) ELSE {att[Min(having)]}
  BY <1>1, <1>2, <1>3 DEF Routes
<1>5. CASE having = {}
  <2>1. s \in ToSet(att)
    BY <1>4, <1>5
  <2> QED
    BY <1>1, <2>1, AttachedTyped DEF ToSet
<1>6. CASE having # {}
  <2>1. Min(having) \in having
    BY <1>3, <1>6, MinIsLeast
  <2>2. s = att[Min(having)]
    BY <1>4, <1>6
  <2> QED
    BY <1>1, <1>2, <1>3, <2>1, <2>2
<1> QED
  BY <1>5, <1>6

\* What is declared of the tools with a name.
Advertised(entries, name) == {e.declared : e \in {d \in entries : d.name = name}}

\* What is found on a catalog that may get the call is the one tool the entries
\* have under the name.
LEMMA FoundIsAdvertised ==
  ASSUME CatalogTypes, NEW entries, Advertises(entries), NEW name, NEW s \in Routes(name),
         IsSome(Find(catalog[s].tools, name))
  PROVE  Advertised(entries, name) = {<<s, Find(catalog[s].tools, name)[1].remote>>}
<1>1. PICK k \in 1..Len(Attached) : s = Attached[k]
  BY RoutedToAttached
<1>2. PICK tools : tools = catalog[s].tools
  OBVIOUS
<1>3. tools \in Seq(McpTools)
  BY <1>1, <1>2, AttachedTyped
<1>4. Finds(Find(tools, name), tools, name)
  BY <1>3, FindIs
<1>5. PICK i \in 1..Len(tools) : tools[i].name = name /\ Find(tools, name) = Some(tools[i])
  BY <1>2, <1>4 DEF Finds, IsSome
<1>6. PICK found : found = tools[i]
  OBVIOUS
<1>7. Find(catalog[s].tools, name)[1] = found
  BY <1>2, <1>5, <1>6 DEF Some
<1>8. PICK e : e = Entry(s, found)
  OBVIOUS
<1>9. e \in entries
  BY <1>1, <1>2, <1>5, <1>6, <1>8 DEF Advertises
<1>10. e.name = name /\ e.declared = <<s, found.remote>>
  BY <1>5, <1>6, <1>8 DEF Entry
<1>11. \A d \in entries : d.name = name => d = e
  BY <1>9, <1>10 DEF Advertises
<1>12. {d \in entries : d.name = name} = {e}
  BY <1>9, <1>10, <1>11
<1>13. Advertised(entries, name) = {e.declared}
  BY <1>12 DEF Advertised
<1> QED
  BY <1>7, <1>10, <1>13

\* The model is told an error, or the whole result.
Tells(message, result) ==
  \/ message.failed /\ (result.error \/ message.content = <<"failure">>)
  \/ /\ ~ message.failed /\ ~ result.error
     /\ Len(message.content) = 1 + IF result.structured THEN 1 ELSE Len(result.blocks)

\* What becomes of a call, c, under what is offered.
Answer(c, as, entries) ==
  /\ \A origin \in ToSet(c.reached) : Advertised(entries, c.name) = {origin}
  /\ \A message \in ToSet(c.message), result \in ToSet(c.result) : Tells(message, result)
  /\ c.result = None => \A message \in ToSet(c.message) : message.failed
  /\ as = "tools" => IsSome(c.message)

\* The content of a message, and whether it is an error.
LEMMA ToolMessages ==
  ASSUME NEW content
  PROVE  /\ ToolError(content, "call").failed = TRUE
         /\ ToolError(content, "call").content = content
         /\ ToolResult(content, "call").failed = FALSE
         /\ ToolResult(content, "call").content = content
BY DEF ToolError, ToolResult, Message

\* tool_output and into_message tell the result.
LEMMA OutputTells ==
  ASSUME NEW origin, NEW result \in Results, ToolOutput(origin, result) # None
  PROVE  Tells(IntoMessage(ToolOutput(origin, result)[1]), result)
<1>1. result.structured \in BOOLEAN /\ result.error \in BOOLEAN /\ result.blocks \in Seq(STRING)
  BY McpCatalogAssumption
<1>2. PICK content : content = IF result.structured THEN <<origin, "structured">>
                               ELSE <<origin>> \o result.blocks
  OBVIOUS
<1>3. PICK output : output = [content |-> content, error |-> result.error]
  OBVIOUS
<1>4. ToolOutput(origin, result) = Some(output)
  BY <1>2, <1>3 DEF ToolOutput
<1>5. ToolOutput(origin, result)[1] = output
  BY <1>4 DEF Some
<1>6. output.content = content /\ output.error = result.error
  BY <1>3
<1>7. Len(content) = 1 + IF result.structured THEN 1 ELSE Len(result.blocks)
  <2>1. CASE result.structured
    <3>1. content = <<origin, "structured">>
      BY <1>2, <2>1
    <3>2. Len(<<origin, "structured">>) = 2
      OBVIOUS
    <3> QED
      BY <2>1, <3>1, <3>2
  <2>2. CASE ~ result.structured
    <3>1. PICK A : A = STRING \cup {origin}
      OBVIOUS
    <3>2. PICK head : head = <<origin>>
      OBVIOUS
    <3>3. head \in Seq(A) /\ Len(head) = 1
      BY <3>1, <3>2
    <3>4. result.blocks \in Seq(A)
      BY <1>1, <3>1
    <3>5. Len(head \o result.blocks) = Len(head) + Len(result.blocks)
      BY <3>3, <3>4, ConcatProperties
    <3>6. content = head \o result.blocks
      BY <1>2, <2>2, <3>2
    <3> QED
      BY <2>2, <3>3, <3>5, <3>6
  <2> QED
    BY <2>1, <2>2
<1>8. PICK message : message = IntoMessage(output)
  OBVIOUS
<1>9. CASE result.error
  <2>1. message = ToolError(content, "call")
    BY <1>6, <1>8, <1>9 DEF IntoMessage
  <2>2. message.failed
    BY <2>1, ToolMessages
  <2> QED
    BY <1>5, <1>8, <1>9, <2>2 DEF Tells
<1>10. CASE ~ result.error
  <2>1. message = ToolResult(content, "call")
    BY <1>6, <1>8, <1>10 DEF IntoMessage
  <2>2. ~ message.failed /\ message.content = content
    BY <2>1, ToolMessages
  <2> QED
    BY <1>5, <1>7, <1>8, <1>10, <2>2 DEF Tells
<1> QED
  BY <1>9, <1>10

\* What a failure comes to is an error, or the application's.
LEMMA FailsIs ==
  /\ \A message \in ToSet(Fails) : message.failed /\ message.content = <<"failure">>
  /\ offer.as = "tools" => IsSome(Fails)
<1>1. PICK message : message = ToolError(<<"failure">>, "call")
  OBVIOUS
<1>2. message.failed /\ message.content = <<"failure">>
  BY <1>1, ToolMessages
<1>3. Fails = IF offer.as = "tools" THEN Some(message) ELSE None
  BY <1>1 DEF Fails
<1>4. ToSet(Some(message)) = {message} /\ IsSome(Some(message))
  BY DEF ToSet, Some, IsSome, None
<1>5. ToSet(None) = {}
  BY DEF ToSet, None
<1> QED
  BY <1>2, <1>3, <1>4, <1>5

\* c settles the call so.
SettledAs(c, name, reached, result, message) ==
  /\ c.status = "settled" /\ c.name = name
  /\ c.reached = reached /\ c.result = result /\ c.message = message

\* Settle does.
LEMMA SettleIs ==
  ASSUME NEW name, NEW reached, NEW result, NEW message, Settle(name, reached, result, message)
  PROVE  SettledAs(call', name, reached, result, message)
BY DEF Settle, SettledAs

\* Nothing, and one thing.
LEMMA SetOfOption ==
  /\ ToSet(None) = {}
  /\ \A x : ToSet(Some(x)) = {x} /\ IsSome(Some(x)) /\ Some(x) # None /\ Some(x)[1] = x
BY DEF ToSet, None, Some, IsSome

\* A call that is refused reaches no tool, and an error is told of it.
LEMMA RefusedAnswer ==
  ASSUME NEW name, CallRefused(name)
  PROVE  Answer(call', offer.as, offer.entries)
<1>1. PICK s \in Routes(name) :
        IF Find(catalog[s].tools, name) = None
        THEN Settle(name, None, None, Fails)
        ELSE Settle(name, None, None, Some(ToolError(<<"arguments">>, "call")))
  BY DEF CallRefused
<1>2. PICK c : c = call'
  OBVIOUS
<1>3. CASE SettledAs(c, name, None, None, Fails)
  BY <1>2, <1>3, FailsIs, SetOfOption DEF SettledAs, Answer
<1>4. CASE SettledAs(c, name, None, None, Some(ToolError(<<"arguments">>, "call")))
  <2>1. PICK message : message = ToolError(<<"arguments">>, "call")
    OBVIOUS
  <2>2. message.failed
    BY <2>1, ToolMessages
  <2>3. ToSet(c.message) = {message} /\ IsSome(c.message)
    BY <1>4, <2>1, SetOfOption DEF SettledAs
  <2> QED
    BY <1>2, <1>4, <2>2, <2>3, SetOfOption DEF SettledAs, Answer
<1> QED
  BY <1>1, <1>2, <1>3, <1>4, SettleIs

\* A call that is dispatched reaches the tool that is advertised, and its result
\* is told.
LEMMA DispatchedAnswer ==
  ASSUME CatalogTypes, Advertises(offer.entries), NEW name, CallDispatched(name)
  PROVE  Answer(call', offer.as, offer.entries)
<1>1. PICK s \in Routes(name) :
        LET found == Find(catalog[s].tools, name)
        IN  /\ IsSome(found)
            /\ LET origin == <<s, found[1].remote>>
               IN  \/ Settle(name, Some(origin), None, Fails)
                   \/ \E result \in Results :
                        LET output == ToolOutput(origin, result)
                        IN  Settle(name, Some(origin), Some(result),
                                   IF output = None THEN Fails ELSE Some(IntoMessage(output[1])))
  BY DEF CallDispatched
<1>2. PICK origin : origin = <<s, Find(catalog[s].tools, name)[1].remote>>
  OBVIOUS
<1>3. Advertised(offer.entries, name) = {origin}
  BY <1>1, <1>2, FoundIsAdvertised
<1>4. \/ Settle(name, Some(origin), None, Fails)
      \/ \E result \in Results :
           LET output == ToolOutput(origin, result)
           IN  Settle(name, Some(origin), Some(result),
                      IF output = None THEN Fails ELSE Some(IntoMessage(output[1])))
  BY <1>1, <1>2
<1>5. PICK c : c = call'
  OBVIOUS
<1>6. ASSUME NEW result, NEW message, SettledAs(c, name, Some(origin), result, message)
      PROVE  /\ \A x \in ToSet(c.reached) : Advertised(offer.entries, c.name) = {x}
             /\ c.result = result /\ c.message = message
  BY <1>3, <1>6, SetOfOption DEF SettledAs
<1>7. CASE Settle(name, Some(origin), None, Fails)
  <2>1. SettledAs(c, name, Some(origin), None, Fails)
    BY <1>5, <1>7, SettleIs
  <2> QED
    BY <1>5, <1>6, <2>1, FailsIs, SetOfOption DEF Answer
<1>8. ASSUME NEW result \in Results,
             Settle(name, Some(origin), Some(result),
                    IF ToolOutput(origin, result) = None THEN Fails
                    ELSE Some(IntoMessage(ToolOutput(origin, result)[1])))
      PROVE  Answer(call', offer.as, offer.entries)
  <2>1. CASE ToolOutput(origin, result) = None
    <3>1. SettledAs(c, name, Some(origin), Some(result), Fails)
      BY <1>5, <1>8, <2>1, SettleIs
    <3>2. \A message \in ToSet(Fails) : Tells(message, result)
      BY FailsIs DEF Tells
    <3>3. ToSet(c.result) = {result} /\ c.result # None
      BY <3>1, SetOfOption DEF SettledAs
    <3> QED
      BY <1>5, <1>6, <3>1, <3>2, <3>3, FailsIs DEF Answer
  <2>2. CASE ToolOutput(origin, result) # None
    <3>1. PICK message : message = IntoMessage(ToolOutput(origin, result)[1])
      OBVIOUS
    <3>2. SettledAs(c, name, Some(origin), Some(result), Some(message))
      BY <1>5, <1>8, <2>2, <3>1, SettleIs
    <3>3. Tells(message, result)
      BY <2>2, <3>1, OutputTells
    <3>4. ToSet(c.result) = {result} /\ c.result # None
      BY <3>2, SetOfOption DEF SettledAs
    <3>5. ToSet(c.message) = {message} /\ IsSome(c.message)
      BY <3>2, SetOfOption DEF SettledAs
    <3> QED
      BY <1>5, <1>6, <3>2, <3>3, <3>4, <3>5 DEF Answer
  <2> QED
    BY <2>1, <2>2
<1> QED
  BY <1>4, <1>7, <1>8

-----------------------------------------------------------------------------

\* While a server is read, and its listing has not changed, what was read is
\* what it lists.
Discovering ==
  \A s \in Servers \ changed :
    catalog[s].status = "reading" => Faithful(catalog[s], listing[s])

\* The offer is made when the catalogs are there, and before the call; and it
\* advertises their tools.
Offering ==
  /\ offer = NoOffer => call = NoCall
  /\ offer # NoOffer => \A s \in Servers : catalog[s].status \in {"bound", "failed"}
  /\ offer.as \in {"tools", "definitions"} => Advertises(offer.entries)

CatalogInv ==
  /\ CatalogTypes
  /\ Discovering
  /\ Offering
  /\ AnsweredByTheAdvertisedTool

\* A catalog that is being discovered, or is not yet there, is not offered.
LEMMA NotYetOffered ==
  ASSUME Offering, NEW s \in Servers, catalog[s].status \notin {"bound", "failed"}
  PROVE  offer = NoOffer
BY DEF Offering

\* Offering is kept by what leaves the offer alone, and the catalogs too unless
\* there is none.
LEMMA OfferingKept ==
  ASSUME Offering, UNCHANGED <<offer, call>>, UNCHANGED catalog \/ offer = NoOffer
  PROVE  Offering'
<1>1. CASE offer = NoOffer
  <2>1. offer' = NoOffer /\ offer'.as = "none" /\ call' = NoCall
    BY <1>1 DEF Offering, NoOffer
  <2> QED
    BY <2>1 DEF Offering
<1>2. CASE UNCHANGED catalog
  <2>1. Attached' = Attached
    BY <1>2 DEF Attached
  <2>2. Advertises(offer.entries) => Advertises(offer.entries)'
    BY <1>2, <2>1 DEF Advertises
  <2> QED
    BY <1>2, <2>2 DEF Offering
<1> QED
  BY <1>1, <1>2

\* An answer is kept by what leaves the offer and the call alone.
LEMMA AnswerKept ==
  ASSUME AnsweredByTheAdvertisedTool, UNCHANGED <<offer, call>>
  PROVE  AnsweredByTheAdvertisedTool'
BY DEF AnsweredByTheAdvertisedTool

\* AnsweredByTheAdvertisedTool is that the settled call is answered.
LEMMA AnsweredIs ==
  ASSUME call'.status = "settled" => Answer(call', offer'.as, offer'.entries)
  PROVE  AnsweredByTheAdvertisedTool'
BY DEF AnsweredByTheAdvertisedTool, Answer, Tells, Advertised

\* The catalog of s becomes x, which is faithful if it is being read.
Becomes(s, x) ==
  /\ x \in Catalogs
  /\ catalog' = [catalog EXCEPT ![s] = x]
  /\ x.status = "reading" => s \in changed' \/ Faithful(x, listing'[s])

\* The others keep what they have.
OthersKeep(s) ==
  /\ listing' \in [Servers -> Seq(RemoteTools)] /\ changed' \subseteq Servers
  /\ \A t \in Servers \ {s} : listing'[t] = listing[t] /\ (t \in changed' <=> t \in changed)

\* The catalogs' part of the invariant is kept when one of them changes so.
LEMMA CatalogChanges ==
  ASSUME CatalogTypes, Discovering, NEW s \in Servers, NEW x, Becomes(s, x), OthersKeep(s)
  PROVE  CatalogTypes' /\ Discovering'
<1>1. catalog' \in [Servers -> Catalogs] /\ catalog'[s] = x
      /\ \A t \in Servers \ {s} : catalog'[t] = catalog[t]
  BY DEF Becomes, CatalogTypes
<1>2. CatalogTypes'
  BY <1>1 DEF OthersKeep, CatalogTypes
<1>3. ASSUME NEW t \in Servers \ changed', catalog'[t].status = "reading"
      PROVE  Faithful(catalog'[t], listing'[t])
  <2>1. CASE t = s
    BY <1>1, <1>3, <2>1 DEF Becomes
  <2>2. CASE t # s
    <3>1. catalog'[t] = catalog[t] /\ listing'[t] = listing[t] /\ t \notin changed
      BY <1>1, <1>3, <2>2 DEF OthersKeep
    <3> QED
      BY <1>3, <3>1 DEF Discovering
  <2> QED
    BY <2>1, <2>2
<1>4. Discovering'
  BY <1>3 DEF Discovering
<1> QED
  BY <1>2, <1>4

\* A step of a catalog: the invariant is kept if the request is not made yet.
LEMMA CatalogStep ==
  ASSUME CatalogInv, NEW s \in Servers, NEW x, Becomes(s, x), OthersKeep(s),
         offer = NoOffer, UNCHANGED <<offer, call>>
  PROVE  CatalogInv'
<1>1. CatalogTypes' /\ Discovering'
  BY CatalogChanges DEF CatalogInv
<1>2. Offering'
  BY OfferingKept DEF CatalogInv
<1>3. AnsweredByTheAdvertisedTool'
  BY AnswerKept DEF CatalogInv
<1> QED
  BY <1>1, <1>2, <1>3 DEF CatalogInv

\* A server that has answered is asked again or no more.
LEMMA AnsweredKeeps ==
  ASSUME CatalogInv, NEW s \in Servers, catalog[s].status = "reading",
         NEW x \in Catalogs, Answered(s, x),
         x.status = "reading" => s \in changed \/ Faithful(x, listing[s])
  PROVE  CatalogInv'
<1>1. listing \in [Servers -> Seq(RemoteTools)] /\ changed \subseteq Servers
  BY DEF CatalogInv, CatalogTypes
<1>2. catalog' = [catalog EXCEPT ![s] = x] /\ UNCHANGED <<offer, call>>
  BY DEF Answered
<1>3. offer = NoOffer
  BY NotYetOffered DEF CatalogInv
<1>4. CASE x.status = "reading"
  <2>1. UNCHANGED <<listing, changed>>
    BY <1>4 DEF Answered
  <2>2. Becomes(s, x) /\ OthersKeep(s)
    BY <1>1, <1>2, <1>4, <2>1 DEF Becomes, OthersKeep
  <2> QED
    BY <1>2, <1>3, <2>2, CatalogStep
<1>5. CASE x.status # "reading"
  <2>1. listing' = [listing EXCEPT ![s] = <<>>] /\ changed' = changed \ {s}
    BY <1>5 DEF Answered
  <2>2. PICK none : none \in Seq(RemoteTools) /\ none = <<>>
    <3>1. <<>> \in Seq(RemoteTools)
      OBVIOUS
    <3> QED
      BY <3>1, Zenon
  <2>3. listing' = [listing EXCEPT ![s] = none]
    BY <2>1, <2>2
  <2>4. Becomes(s, x) /\ OthersKeep(s)
    BY <1>1, <1>2, <1>5, <2>1, <2>3 DEF Becomes, OthersKeep
  <2> QED
    BY <1>2, <1>3, <2>4, CatalogStep
<1> QED
  BY <1>4, <1>5

\* A round of discover() keeps the invariant, and binds what is listed.
LEMMA ReadPageKeeps ==
  ASSUME CatalogInv, NEW s \in Servers, ReadPage(s)
  PROVE  /\ CatalogInv'
         /\ s \notin changed /\ catalog'[s].status = "bound"
              => RemoteNames(catalog'[s].tools) = listing[s]
<1>1. catalog[s].status = "reading"
  BY DEF ReadPage
<1>2. PICK page \in Pages(listing[s], catalog[s].cursor) : Answered(s, Read(catalog[s], page))
  BY DEF ReadPage
<1>3. catalog \in [Servers -> Catalogs] /\ listing[s] \in Seq(RemoteTools)
  BY DEF CatalogInv, CatalogTypes
<1>4. PICK x : x = Read(catalog[s], page)
  OBVIOUS
<1>5. ReadAs(x, page, listing[s], Faithful(catalog[s], listing[s]))
  BY <1>1, <1>3, <1>4, ReadIs
<1>6. s \notin changed => Faithful(catalog[s], listing[s])
  BY <1>1 DEF CatalogInv, Discovering
<1>7. x \in Catalogs /\ (x.status = "reading" => s \in changed \/ Faithful(x, listing[s]))
  BY <1>5, <1>6 DEF ReadAs
<1>8. CatalogInv'
  BY <1>1, <1>2, <1>4, <1>7, AnsweredKeeps
<1>9. catalog'[s] = x
  BY <1>2, <1>3, <1>4 DEF Answered
<1> QED
  BY <1>5, <1>6, <1>8, <1>9 DEF ReadAs

\* A catalog that fails keeps the invariant.
LEMMA ReadFailsKeeps ==
  ASSUME CatalogInv, NEW s \in Servers, ReadFails(s)
  PROVE  CatalogInv' /\ catalog'[s].status = "failed"
<1>1. PICK x : x = Failed
  OBVIOUS
<1>2. x \in Catalogs /\ x.status = "failed"
  BY <1>1 DEF Failed, Catalogs
<1>3. Answered(s, x) /\ catalog[s].status = "reading"
  BY <1>1 DEF ReadFails
<1>4. catalog'[s] = x
  BY <1>3 DEF Answered, CatalogInv, CatalogTypes
<1> QED
  BY <1>2, <1>3, <1>4, AnsweredKeeps

\* A listing that changes is not to be faithful to.
LEMMA ListingChangesKeeps ==
  ASSUME CatalogInv, NEW s \in Servers, ListingChanges(s)
  PROVE  CatalogInv'
<1>1. PICK l \in Listings[s] : listing' = [listing EXCEPT ![s] = l]
  BY DEF ListingChanges
<1>2. l \in Seq(RemoteTools)
  BY ListingTyped
<1>3. PICK x : x = catalog[s]
  OBVIOUS
<1>4. catalog \in [Servers -> Catalogs] /\ listing \in [Servers -> Seq(RemoteTools)]
      /\ changed \subseteq Servers
  BY DEF CatalogInv, CatalogTypes
<1>5. changed' = changed \cup {s} /\ UNCHANGED <<catalog, offer, call>>
  BY DEF ListingChanges
<1>6. Becomes(s, x)
  BY <1>3, <1>4, <1>5 DEF Becomes
<1>7. OthersKeep(s)
  BY <1>1, <1>2, <1>4, <1>5 DEF OthersKeep
<1>8. offer = NoOffer
  BY NotYetOffered DEF CatalogInv, ListingChanges
<1> QED
  BY <1>5, <1>6, <1>7, <1>8, CatalogStep

\* At first, all of nothing is read.
LEMMA DiscoverKeeps ==
  ASSUME CatalogInv, NEW s \in Servers, Discover(s)
  PROVE  CatalogInv'
<1>1. PICK l \in Listings[s] : listing' = [listing EXCEPT ![s] = l]
  BY DEF Discover
<1>2. l \in Seq(RemoteTools)
  BY ListingTyped
<1>3. PICK x : x = Reading(<<>>, None, {})
  OBVIOUS
<1>4. catalog \in [Servers -> Catalogs] /\ listing \in [Servers -> Seq(RemoteTools)]
      /\ changed \subseteq Servers
  BY DEF CatalogInv, CatalogTypes
<1>5. catalog' = [catalog EXCEPT ![s] = x] /\ UNCHANGED <<changed, offer, call>>
  BY <1>3 DEF Discover
<1>6. x.status = "reading" /\ x.remotes = <<>> /\ x.cursor = None
  BY <1>3 DEF Reading
<1>7. x \in Catalogs
  <2>1. PICK none : none = <<>>
    OBVIOUS
  <2>2. none \in Seq(RemoteTools) /\ none \in Option(Nat) /\ {} \in SUBSET Nat
    BY <2>1 DEF Option
  <2>3. x = Reading(none, none, {})
    BY <1>3, <2>1 DEF None
  <2> QED
    BY <2>2, <2>3 DEF Catalogs
<1>8. Faithful(x, l)
  <2>1. OrDefault(x.cursor, 0) = 0 /\ Len(x.remotes) = 0
    BY <1>6 DEF OrDefault, IsSome
  <2> QED
    BY <1>2, <2>1 DEF Faithful
<1>9. Becomes(s, x)
  BY <1>1, <1>4, <1>5, <1>7, <1>8 DEF Becomes
<1>10. OthersKeep(s)
  BY <1>1, <1>2, <1>4, <1>5 DEF OthersKeep
<1>11. offer = NoOffer
  <2>1. catalog[s].status = "unread"
    BY DEF Discover, Unread
  <2> QED
    BY <2>1, NotYetOffered DEF CatalogInv
<1> QED
  BY <1>5, <1>9, <1>10, <1>11, CatalogStep

\* A catalog that does not come from the server.
LEMMA PlainStep ==
  ASSUME CatalogInv, NEW s \in Servers, NEW x \in Catalogs, x.status # "reading",
         catalog' = [catalog EXCEPT ![s] = x], offer = NoOffer,
         UNCHANGED <<listing, changed, offer, call>>
  PROVE  CatalogInv'
<1>1. listing \in [Servers -> Seq(RemoteTools)] /\ changed \subseteq Servers
  BY DEF CatalogInv, CatalogTypes
<1>2. Becomes(s, x) /\ OthersKeep(s)
  BY <1>1 DEF Becomes, OthersKeep
<1> QED
  BY <1>2, CatalogStep

\* A cached catalog.
LEMMA BindCachedKeeps ==
  ASSUME CatalogInv, NEW s \in Servers, BindCached(s)
  PROVE  CatalogInv'
<1>1. PICK l \in Listings[s] : catalog' = [catalog EXCEPT ![s] = FromCatalog(l)]
  BY DEF BindCached
<1>2. l \in Seq(RemoteTools)
  BY ListingTyped
<1>3. PICK x : x = FromCatalog(l)
  OBVIOUS
<1>4. x \in Catalogs /\ x.status # "reading"
  BY <1>2, <1>3, FromCatalogIs DEF BoundTo
<1>5. catalog[s].status = "unread"
  BY DEF BindCached, Unread
<1>6. offer = NoOffer
  BY <1>5, NotYetOffered DEF CatalogInv
<1>7. UNCHANGED <<listing, changed, offer, call>>
  BY DEF BindCached
<1> QED
  BY <1>1, <1>3, <1>4, <1>6, <1>7, PlainStep

\* A filtered one.
LEMMA FilterKeeps ==
  ASSUME CatalogInv, NEW s \in Servers, Filter(s)
  PROVE  CatalogInv'
<1>1. PICK tools : tools = catalog[s].tools
  OBVIOUS
<1>2. PICK I : Edit(s, Bound(Selection(tools, I)))
  <2>1. PICK keep \in SUBSET ToSet(RemoteNames(tools)) :
          Edit(s, Bound(Selection(tools, {i \in 1..Len(tools) : tools[i].remote \in keep})))
    BY <1>1 DEF Filter
  <2> QED
    BY <2>1
<1>3. tools \in Seq(McpTools)
  <2>1. catalog[s] \in Catalogs /\ catalog[s].status = "bound"
    BY DEF CatalogInv, CatalogTypes, Filter
  <2> QED
    BY <1>1, <2>1, CatalogHolds DEF Holds
<1>4. PICK kept : kept = Selection(tools, I)
  OBVIOUS
<1>5. kept \in Seq(McpTools)
  BY <1>3, <1>4, SelectionType
<1>6. PICK x : x = Bound(kept)
  OBVIOUS
<1>7. x \in Catalogs /\ x.status # "reading"
  BY <1>5, <1>6 DEF Bound, Catalogs
<1>8. Edit(s, x)
  BY <1>2, <1>4, <1>6
<1> QED
  BY <1>7, <1>8, PlainStep DEF Edit

\* And a renamed one.
LEMMA RenameKeeps ==
  ASSUME CatalogInv, NEW s \in Servers, Rename(s)
  PROVE  CatalogInv'
<1>1. PICK tools : tools = catalog[s].tools
  OBVIOUS
<1>2. PICK name \in Renamings :
        Edit(s, Checked([i \in 1..Len(tools) |-> McpTool(name[tools[i].remote], tools[i].remote)]))
  BY <1>1 DEF Rename
<1>3. tools \in Seq(McpTools)
  <2>1. catalog[s] \in Catalogs /\ catalog[s].status = "bound"
    BY DEF CatalogInv, CatalogTypes, Rename
  <2> QED
    BY <1>1, <2>1, CatalogHolds DEF Holds
<1>4. PICK n \in Nat : n = Len(tools) /\ tools \in [1..n -> McpTools]
  BY <1>3
<1>5. PICK renamed : renamed = [i \in 1..n |-> McpTool(name[tools[i].remote], tools[i].remote)]
  OBVIOUS
<1>6. name \in [RemoteTools -> STRING]
  BY McpCatalogAssumption
<1>7. \A i \in 1..n : renamed[i] \in McpTools
  <2> TAKE i \in 1..n
  <2>1. tools[i].remote \in RemoteTools
    BY <1>4 DEF McpTools
  <2>2. name[tools[i].remote] \in STRING
    BY <1>6, <2>1
  <2> QED
    BY <1>5, <2>1, <2>2 DEF McpTool, McpTools
<1>8. renamed \in Seq(McpTools)
  <2>1. renamed \in [1..n -> McpTools]
    BY <1>5, <1>7
  <2> QED
    BY <2>1, SequenceLength
<1>9. PICK x : x = Checked(renamed)
  OBVIOUS
<1>10. x \in Catalogs /\ x.status # "reading"
  BY <1>8, <1>9, CheckedIs DEF CheckedAs
<1>11. Edit(s, x)
  BY <1>2, <1>4, <1>5, <1>9
<1> QED
  BY <1>10, <1>11, PlainStep DEF Edit

\* A request is made: what it offers is advertised.
LEMMA OfferKeeps ==
  ASSUME CatalogInv, NEW as \in {"tools", "definitions"}, NEW accepted, Offer(as, accepted),
         accepted => Distinct(Definitions)
  PROVE  CatalogInv'
<1>1. UNCHANGED <<catalog, listing, changed, call>> /\ offer = NoOffer
  BY DEF Offer
<1>2. call' = NoCall
  BY <1>1 DEF CatalogInv, Offering
<1>3. CatalogTypes' /\ Discovering'
  BY <1>1 DEF CatalogInv, CatalogTypes, Discovering
<1>4. AnsweredByTheAdvertisedTool'
  <2>1. call'.status # "settled"
    BY <1>2 DEF NoCall
  <2> QED
    BY <2>1, AnsweredIs
<1>5. \A s \in Servers : catalog'[s].status \in {"bound", "failed"}
  BY <1>1 DEF Offer
<1>6. offer'.as \in {"tools", "definitions"} => Advertises(offer'.entries)
  <2>1. CASE accepted
    <3>1. offer'.entries = ToSet(Definitions)
      BY <2>1 DEF Offer
    <3>2. Advertises(ToSet(Definitions))
      BY <2>1, DistinctAdvertise DEF CatalogInv
    <3> QED
      BY <3>1, <3>2
  <2>2. CASE ~ accepted
    BY <2>2 DEF Offer
  <2> QED
    BY <2>1, <2>2
<1>7. Advertises(offer'.entries) => Advertises(offer.entries)'
  <2>1. Attached' = Attached
    BY <1>1 DEF Attached
  <2> QED
    BY <1>1, <2>1 DEF Advertises
<1>8. Offering'
  BY <1>2, <1>5, <1>6, <1>7 DEF Offering
<1> QED
  BY <1>3, <1>4, <1>8 DEF CatalogInv

\* A call is settled, by an answer.
LEMMA CallKeeps ==
  ASSUME CatalogInv, NEW name, CallRefused(name) \/ CallDispatched(name)
  PROVE  CatalogInv'
<1>1. UNCHANGED <<catalog, listing, changed, offer>>
  BY DEF CallRefused, CallDispatched, Called
<1>2. offer.as \in {"tools", "definitions"}
  BY DEF CallRefused, CallDispatched, Called
<1>3. Advertises(offer.entries) /\ offer # NoOffer
  BY <1>2 DEF CatalogInv, Offering, NoOffer
<1>4. CatalogTypes' /\ Discovering'
  BY <1>1 DEF CatalogInv, CatalogTypes, Discovering
<1>5. Answer(call', offer.as, offer.entries)
  BY <1>3, RefusedAnswer, DispatchedAnswer DEF CatalogInv
<1>6. AnsweredByTheAdvertisedTool'
  BY <1>1, <1>5, AnsweredIs
<1>7. Offering'
  <2>1. Attached' = Attached
    BY <1>1 DEF Attached
  <2>2. Advertises(offer.entries)'
    BY <1>1, <1>3, <2>1 DEF Advertises
  <2> QED
    BY <1>1, <1>3, <2>2 DEF CatalogInv, Offering
<1> QED
  BY <1>4, <1>6, <1>7 DEF CatalogInv

\* At first nothing is read, offered or called.
LEMMA CatalogInitially ==
  ASSUME CatalogInit
  PROVE  CatalogInv
<1>1. catalog \in [Servers -> Catalogs] /\ \A s \in Servers : catalog[s].status = "unread"
  <2>1. PICK x : x = Unread
    OBVIOUS
  <2>2. x \in Catalogs /\ x.status = "unread"
    BY <2>1 DEF Unread, Catalogs
  <2>3. catalog = [s \in Servers |-> x]
    BY <2>1 DEF CatalogInit
  <2> QED
    BY <2>2, <2>3
<1>2. listing \in [Servers -> Seq(RemoteTools)]
  <2>1. PICK none : none = <<>>
    OBVIOUS
  <2>2. none \in Seq(RemoteTools)
    BY <2>1
  <2>3. listing = [s \in Servers |-> none]
    BY <2>1 DEF CatalogInit
  <2> QED
    BY <2>2, <2>3
<1>3. CatalogTypes /\ Discovering
  BY <1>1, <1>2 DEF CatalogInit, CatalogTypes, Discovering
<1>4. Offering
  BY DEF CatalogInit, Offering, NoOffer
<1>5. AnsweredByTheAdvertisedTool
  BY DEF CatalogInit, AnsweredByTheAdvertisedTool, NoCall
<1> QED
  BY <1>3, <1>4, <1>5 DEF CatalogInv

\* The steps of a server's catalog.
CatalogSteps(s) ==
  \/ ListingChanges(s) \/ Discover(s) \/ ReadPage(s) \/ ReadFails(s)
  \/ BindCached(s) \/ Filter(s) \/ Rename(s)

\* They change that catalog only, and one that is being read by a page or a failure.
LEMMA StepsOfOne ==
  ASSUME CatalogTypes, NEW s \in Servers, CatalogSteps(s)
  PROVE  /\ \A t \in Servers \ {s} : catalog'[t] = catalog[t]
         /\ \/ UNCHANGED catalog
            \/ catalog[s].status # "reading"
            \/ ReadPage(s)
            \/ ReadFails(s)
<1>1. CASE ListingChanges(s)
  BY <1>1 DEF ListingChanges
<1>2. CASE ReadPage(s) \/ ReadFails(s)
  BY <1>2 DEF ReadPage, ReadFails, Answered, CatalogTypes
<1>3. CASE Discover(s) \/ BindCached(s)
  BY <1>3 DEF Discover, BindCached, CatalogTypes, Unread
<1>4. CASE Filter(s) \/ Rename(s)
  BY <1>4 DEF Filter, Rename, Edit, CatalogTypes
<1> QED
  BY <1>1, <1>2, <1>3, <1>4 DEF CatalogSteps

\* The steps keep the invariant.
LEMMA CatalogStepsKeep ==
  ASSUME CatalogInv, NEW s \in Servers, CatalogSteps(s)
  PROVE  CatalogInv'
BY ListingChangesKeeps, DiscoverKeeps, ReadPageKeeps, ReadFailsKeeps, BindCachedKeeps, FilterKeeps,
   RenameKeeps DEF CatalogSteps

\* So does every step.
LEMMA CatalogNextKeeps ==
  ASSUME CatalogInv, [CatalogNext]_catalogVars
  PROVE  CatalogInv'
<1>1. CASE \E s \in Servers : CatalogSteps(s)
  BY <1>1, CatalogStepsKeep
<1>2. CASE OfferTools
  <2>1. ~ Extend(NewRegistry, ExecutableTools).rejected => Distinct(Definitions)
    BY AcceptedTools DEF CatalogInv
  <2> QED
    BY <1>2, <2>1, OfferKeeps DEF OfferTools
<1>3. CASE OfferDefinitions
  <2>1. ~ DefinitionsRejected(NewRegistry, AdvertisedNames(Definitions)) => Distinct(Definitions)
    BY AcceptedDefinitions DEF CatalogInv
  <2> QED
    BY <1>3, <2>1, OfferKeeps DEF OfferDefinitions
<1>4. CASE \E name \in Names : CallRefused(name) \/ CallDispatched(name)
  BY <1>4, CallKeeps
<1>5. CASE UNCHANGED catalogVars
  <2>1. UNCHANGED <<catalog, listing, changed, offer, call>>
    BY <1>5 DEF catalogVars
  <2>2. CatalogTypes' /\ Discovering'
    BY <2>1 DEF CatalogInv, CatalogTypes, Discovering
  <2> QED
    BY <2>1, <2>2, OfferingKept, AnswerKept DEF CatalogInv
<1> QED
  BY <1>1, <1>2, <1>3, <1>4, <1>5 DEF CatalogNext, CatalogSteps

\* A catalog that is bound while it was read holds what the server lists, unless
\* the listing changed meanwhile.
Bindings ==
  \A s \in Servers \ changed :
    catalog[s].status = "reading" /\ catalog'[s].status = "bound"
      => RemoteNames(catalog'[s].tools) = listing[s]

\* Every step keeps to that.
LEMMA NextBinds ==
  ASSUME CatalogInv, [CatalogNext]_catalogVars
  PROVE  Bindings
<1>1. SUFFICES ASSUME NEW t \in Servers \ changed,
                      catalog[t].status = "reading", catalog'[t].status = "bound"
               PROVE  RemoteNames(catalog'[t].tools) = listing[t]
  BY DEF Bindings
<1>2. catalog' # catalog
  BY <1>1
<1>3. PICK s \in Servers : CatalogSteps(s)
  BY <1>2 DEF CatalogNext, CatalogSteps, OfferTools, OfferDefinitions, Offer, CallRefused,
              CallDispatched, Called, catalogVars
<1>4. t = s
  BY <1>1, <1>3, StepsOfOne DEF CatalogInv
<1>5. ReadPage(t)
  BY <1>1, <1>2, <1>3, <1>4, StepsOfOne, ReadFailsKeeps DEF CatalogInv
<1> QED
  BY <1>1, <1>5, ReadPageKeeps

-----------------------------------------------------------------------------

\* In every reachable state of the catalogs CatalogInv holds: what was read of a
\* listing that does not change is its beginning, or what follows shows that the
\* server has lost its place; and an offer advertises each attached tool under a
\* name of its own (discover, tools, definitions).
THEOREM CatalogInvariant == CatalogSpec => []CatalogInv
<1>1. CatalogInit => CatalogInv
  BY CatalogInitially
<1>2. CatalogInv /\ [CatalogNext]_catalogVars => CatalogInv'
  BY CatalogNextKeeps
<1> QED
  BY <1>1, <1>2, PTL DEF CatalogSpec

\* A call reaches the tool whose declaration the model read under that name, and
\* the model is told what became of it (find, tools, tool_output).
THEOREM CallsReachTheirTool == CatalogSpec => []AnsweredByTheAdvertisedTool
<1>1. CatalogInv => AnsweredByTheAdvertisedTool
  BY DEF CatalogInv
<1> QED
  BY <1>1, CatalogInvariant, PTL

\* discover() binds the server's whole listing, each tool once and in order,
\* unless the listing changed under it (discover).
THEOREM DiscoveryBindsTheListing == CatalogSpec => CatalogIsTheListing
<1>1. CatalogInv /\ [CatalogNext]_catalogVars => [Bindings]_catalogVars
  BY NextBinds
<1>2. CatalogSpec => [][Bindings]_catalogVars
  BY <1>1, CatalogInvariant, PTL DEF CatalogSpec
<1> QED
  BY <1>2 DEF CatalogIsTheListing, Bindings

=============================================================================
