------------------------ MODULE ExtractionPoolProofs ------------------------
(***************************************************************************)
(* Proofs about ExtractionPool, for any jobs and workers, any depth of the *)
(* channel, any number of attempts, any faults, and with the wall-clock    *)
(* ceiling set or not.                                                     *)
(***************************************************************************)
EXTENDS ExtractionPool, FiniteSetTheorems, SequenceTheorems, TLAPS

InQueue(j) == \E i \in 1..Len(queue) : queue[i] = j
Held(j) == \E w \in Workers : at[w] = j

(* A worker holds a job unless it is idle; the accepted jobs are those in the
   channel or at a worker, each at one index or one worker only. *)
PlaceInv ==
    /\ \A w \in Workers : at[w] = Nil <=> pc[w] = "idle"
    /\ \A j \in Jobs : phase[j] = "accepted" <=> InQueue(j) \/ Held(j)
    /\ \A i, k \in 1..Len(queue) : queue[i] = queue[k] => i = k
    /\ \A v, w \in Workers : at[v] = at[w] /\ at[v] # Nil => v = w
    /\ \A i \in 1..Len(queue), w \in Workers : queue[i] # at[w]

(* Each run of a job but the current one was cut off by the ceiling, only a
   job with an attempt left waits to be put back, and one that is given up has
   none left or was turned away, its last hit counted. *)
AttemptInv ==
    /\ \A j \in Jobs : phase[j] \in {"new", "requested"} \/ InQueue(j) => runs[j] = hits[j]
    /\ \A w \in Workers :
          /\ pc[w] \in {"run", "backoff"} => runs[at[w]] = hits[at[w]] + 1
          /\ pc[w] = "backoff" => hits[at[w]] + 1 < MaxAttempts
          /\ pc[w] = "exhausted" => runs[at[w]] \in {MaxAttempts, hits[at[w]]}

(* The events of a job follow its phase, on the process's own list exactly
   and on the stream up to the publishes that failed. *)
EventInv ==
    \A j \in Jobs :
        /\ phase[j] = "new" => log[j] = <<>> /\ stream[j] = <<>>
        /\ phase[j] \in {"requested", "accepted", "refused", "lost"} => log[j] = <<"requested">>
        /\ phase[j] \in {"requested", "accepted", "lost"} => stream[j] = <<"requested">>
        /\ phase[j] = "refused" => stream[j] \in {<<>>, <<"requested">>}
        /\ phase[j] = "done" =>
              /\ log[j] \in {<<"requested", "completed">>, <<"requested", "failed">>}
              /\ stream[j] \in {<<"requested">>, log[j]}

(* The drafts of a job are on disk once its run has completed and not before:
   not while it waits in the channel or is being cut off. *)
DraftInv ==
    \A j \in Jobs :
        /\ phase[j] \in {"new", "requested", "refused"} \/ InQueue(j) => j \notin drafts
        /\ \A w \in Workers : at[w] = j => (pc[w] = "completed" <=> j \in drafts)
        /\ phase[j] = "done" => (log[j][2] = "completed" <=> j \in drafts)

PoolInv == TypeOK /\ PlaceInv /\ AttemptInv /\ EventInv /\ DraftInv

-----------------------------------------------------------------------------
(* What a sequence of events is after one more. *)
LEMMA AppendEvents ==
    ASSUME NEW a, NEW b
    PROVE  Append(<<>>, a) = <<a>> /\ Append(<<a>>, b) = <<a, b>>
<1> DEFINE S == {a, b}
<1>1. <<>> \in Seq(S) /\ <<a>> \in Seq(S) /\ <<a, b>> \in Seq(S) /\ a \in S /\ b \in S
  OBVIOUS
<1>2. /\ Append(<<>>, a) \in Seq(S) /\ Len(Append(<<>>, a)) = 1 /\ Append(<<>>, a)[1] = a
      /\ Append(<<a>>, b) \in Seq(S) /\ Len(Append(<<a>>, b)) = 2
      /\ Append(<<a>>, b)[1] = a /\ Append(<<a>>, b)[2] = b
  BY <1>1
<1> HIDE DEF S
<1>3. Append(<<>>, a) = <<a>>
  BY <1>1, <1>2, SeqEqual
<1>4. Append(<<a>>, b) = <<a, b>>
  <2>1. Len(<<a, b>>) = 2 /\ <<a, b>>[1] = a /\ <<a, b>>[2] = b /\ 1..2 = {1, 2}
    OBVIOUS
  <2>2. \A i \in 1..2 : Append(<<a>>, b)[i] = <<a, b>>[i]
    BY <1>2, <2>1
  <2> QED BY <1>1, <1>2, <2>1, <2>2, SeqEqual
<1> QED BY <1>3, <1>4

(* The places of a channel after a send. *)
LEMMA AppendPlaces ==
    ASSUME NEW s \in Seq(Jobs), NEW j \in Jobs
    PROVE  /\ Append(s, j) \in Seq(Jobs)
           /\ Len(Append(s, j)) = Len(s) + 1
           /\ \A i \in 1..Len(s) : Append(s, j)[i] = s[i]
           /\ Append(s, j)[Len(s) + 1] = j
OBVIOUS

(* The places of a channel after a receive. *)
LEMMA TailPlaces ==
    ASSUME NEW s \in Seq(Jobs), s # <<>>
    PROVE  /\ Head(s) = s[1] /\ Head(s) \in Jobs /\ 1 \in 1..Len(s)
           /\ Tail(s) \in Seq(Jobs)
           /\ Len(Tail(s)) = Len(s) - 1
           /\ \A i \in 1..Len(Tail(s)) : Tail(s)[i] = s[i + 1] /\ i + 1 \in 1..Len(s)
OBVIOUS

(* The initial state satisfies the inductive invariant. *)
LEMMA InitPool == Init => PoolInv
BY PoolAssumption DEF Init, PoolInv, TypeOK, PlaceInv, AttemptInv, EventInv, DraftInv, InQueue,
   Held, Terminal, Outcomes, Ending

(* A request that is announced has its event on the list and, unless Redis
   failed, on the stream. *)
LEMMA RequestStep ==
    ASSUME PoolInv, NEW j \in Jobs, Request(j)
    PROVE  PoolInv'
<1>0. TypeOK /\ PlaceInv /\ AttemptInv /\ EventInv /\ DraftInv
  BY DEF PoolInv
<1>1. PICK ok \in BOOLEAN : Publish(j, "requested", ok) /\ phase' = [phase EXCEPT ![j] = IF ok THEN "requested" ELSE "refused"]
  BY DEF Request
<1>2. phase[j] = "new" /\ UNCHANGED <<queue, at, pc, hits, drafts, runs>>
  BY DEF Request, worker
<1>3. log[j] = <<>> /\ stream[j] = <<>>
  BY <1>0, <1>2 DEF EventInv
<1>4. /\ log' = [log EXCEPT ![j] = <<"requested">>]
      /\ \/ stream' = [stream EXCEPT ![j] = <<"requested">>]
         \/ ~ ok /\ stream' = stream
  BY <1>0, <1>1, <1>3, AppendEvents DEF Publish, TypeOK
<1>5. TypeOK'
  <2>1. phase' \in [Jobs -> {"new", "requested", "accepted", "refused", "done", "lost"}]
    BY <1>0, <1>1 DEF TypeOK
  <2>2. <<"requested">> \in Seq({"requested"} \cup Terminal)
    OBVIOUS
  <2>3. /\ log' \in [Jobs -> Seq({"requested"} \cup Terminal)]
        /\ stream' \in [Jobs -> Seq({"requested"} \cup Terminal)]
    BY <1>0, <1>4, <2>2 DEF TypeOK
  <2> QED BY <1>0, <1>2, <2>1, <2>3 DEF TypeOK
<1>6. PlaceInv'
  <2>1. \A k \in Jobs : phase'[k] = "accepted" <=> phase[k] = "accepted"
    BY <1>0, <1>1, <1>2 DEF TypeOK
  <2> QED BY <1>0, <1>2, <2>1 DEF PlaceInv, InQueue, Held
<1>7. AttemptInv'
  BY <1>0, <1>1, <1>2 DEF TypeOK, AttemptInv, PlaceInv, InQueue
<1>8. EventInv'
  BY <1>0, <1>1, <1>2, <1>3, <1>4 DEF TypeOK, EventInv
<1>9. DraftInv'
  BY <1>0, <1>1, <1>2, <1>4 DEF TypeOK, DraftInv, InQueue
<1> QED BY <1>5, <1>6, <1>7, <1>8, <1>9 DEF PoolInv

(* try_send puts the job at the end of the channel, or refuses it. *)
LEMMA SubmitStep ==
    ASSUME PoolInv, NEW j \in Jobs, Submit(j)
    PROVE  PoolInv'
<1>0. TypeOK /\ PlaceInv /\ AttemptInv /\ EventInv /\ DraftInv
  BY DEF PoolInv
<1>1. phase[j] = "requested" /\ UNCHANGED <<at, pc, hits, drafts, log, stream, runs>>
  BY DEF Submit, worker, events
<1>2. CASE Len(queue) < QueueDepth
  <2>1. queue' = Append(queue, j) /\ phase' = [phase EXCEPT ![j] = "accepted"]
    BY <1>0, <1>2, PoolAssumption DEF Submit, TrySend, TypeOK
  <2>2. /\ queue' \in Seq(Jobs) /\ Len(queue') = Len(queue) + 1
        /\ \A i \in 1..Len(queue) : queue'[i] = queue[i]
        /\ queue'[Len(queue) + 1] = j
        /\ Len(queue) \in Nat
    BY <1>0, <2>1, AppendPlaces DEF TypeOK
  <2>3. ~ InQueue(j) /\ ~ Held(j)
    BY <1>0, <1>1 DEF PlaceInv
  <2>4. \A k \in Jobs : InQueue(k)' <=> InQueue(k) \/ k = j
    BY <2>2 DEF InQueue
  <2>5. TypeOK'
    BY <1>0, <1>1, <1>2, <2>1, <2>2, PoolAssumption DEF TypeOK
  <2>6. PlaceInv'
    <3>1. \A k \in Jobs : phase'[k] = "accepted" <=> InQueue(k)' \/ Held(k)'
      BY <1>0, <1>1, <2>1, <2>4 DEF TypeOK, PlaceInv, Held
    <3>2. \A i, k \in 1..Len(queue') : queue'[i] = queue'[k] => i = k
      BY <1>0, <2>2, <2>3 DEF PlaceInv, InQueue
    <3>3. \A i \in 1..Len(queue'), w \in Workers : queue'[i] # at'[w]
      BY <1>0, <1>1, <2>2, <2>3 DEF PlaceInv, Held
    <3> QED BY <1>0, <1>1, <3>1, <3>2, <3>3 DEF PlaceInv
  <2>7. AttemptInv'
    BY <1>0, <1>1, <2>1, <2>4 DEF TypeOK, AttemptInv
  <2>8. EventInv'
    BY <1>0, <1>1, <2>1 DEF TypeOK, EventInv
  <2>9. DraftInv'
    BY <1>0, <1>1, <2>1, <2>4 DEF TypeOK, DraftInv
  <2> QED BY <2>5, <2>6, <2>7, <2>8, <2>9 DEF PoolInv
<1>3. CASE ~ (Len(queue) < QueueDepth)
  <2>1. queue' = queue /\ phase' = [phase EXCEPT ![j] = "refused"]
    BY <1>0, <1>3, PoolAssumption DEF Submit, TrySend, TypeOK
  <2>2. TypeOK' /\ PlaceInv'
    <3>1. TypeOK'
      BY <1>0, <1>1, <2>1 DEF TypeOK
    <3>2. \A k \in Jobs : phase'[k] = "accepted" <=> phase[k] = "accepted"
      BY <1>0, <1>1, <2>1 DEF TypeOK
    <3> QED BY <1>0, <1>1, <2>1, <3>1, <3>2 DEF PlaceInv, InQueue, Held
  <2>3. AttemptInv' /\ EventInv'
    BY <1>0, <1>1, <2>1 DEF TypeOK, AttemptInv, EventInv, InQueue
  <2>4. DraftInv'
    BY <1>0, <1>1, <2>1 DEF TypeOK, DraftInv, InQueue
  <2> QED BY <2>2, <2>3, <2>4 DEF PoolInv
<1> QED BY <1>2, <1>3

(* recv takes the first job of the channel and counts a run. *)
LEMMA ReceiveStep ==
    ASSUME PoolInv, NEW w \in Workers, Receive(w)
    PROVE  PoolInv'
<1> DEFINE j == Head(queue)
<1>0. TypeOK /\ PlaceInv /\ AttemptInv /\ EventInv /\ DraftInv
  BY DEF PoolInv
<1>1. /\ pc[w] = "idle" /\ queue # <<>> /\ queue' = Tail(queue)
      /\ at' = [at EXCEPT ![w] = j]
      /\ pc' = [pc EXCEPT ![w] = "run"]
      /\ runs' = [runs EXCEPT ![j] = @ + 1]
      /\ UNCHANGED <<phase, hits, drafts, log, stream>>
  BY DEF Receive, events
<1>2. /\ j = queue[1] /\ j \in Jobs /\ 1 \in 1..Len(queue)
      /\ queue' \in Seq(Jobs) /\ Len(queue') = Len(queue) - 1
      /\ \A i \in 1..Len(queue') : queue'[i] = queue[i + 1] /\ i + 1 \in 1..Len(queue)
      /\ Len(queue) \in Nat
  BY <1>0, <1>1, TailPlaces DEF TypeOK
<1> HIDE DEF j
<1>3. InQueue(j) /\ ~ Held(j) /\ phase[j] = "accepted"
  BY <1>0, <1>2 DEF PlaceInv, InQueue, Held
<1>4. \A k \in Jobs : InQueue(k)' <=> InQueue(k) /\ k # j
  <2>1. ASSUME NEW k \in Jobs, InQueue(k)' PROVE InQueue(k) /\ k # j
    <3>1. PICK i \in 1..Len(queue') : queue'[i] = k
      BY <2>1 DEF InQueue
    <3>2. i + 1 # 1 /\ queue[i + 1] = k /\ i + 1 \in 1..Len(queue)
      BY <1>2, <3>1
    <3> QED BY <1>0, <1>2, <3>2 DEF PlaceInv, InQueue
  <2>2. ASSUME NEW k \in Jobs, InQueue(k), k # j PROVE InQueue(k)'
    <3>1. PICK i \in 1..Len(queue) : queue[i] = k
      BY <2>2 DEF InQueue
    <3>2. i # 1
      BY <1>2, <2>2, <3>1
    <3>3. i - 1 \in 1..Len(queue') /\ (i - 1) + 1 = i
      BY <1>2, <3>2
    <3>4. queue'[i - 1] = k
      BY <1>2, <3>1, <3>3
    <3> QED BY <3>3, <3>4 DEF InQueue
  <2> QED BY <2>1, <2>2
<1>5. \A k \in Jobs : Held(k)' <=> Held(k) \/ k = j
  BY <1>0, <1>1, <1>2, PoolAssumption DEF TypeOK, PlaceInv, Held
<1>6. runs[j] = hits[j] /\ hits[j] \in 0..(MaxAttempts - 1)
  BY <1>0, <1>2, <1>3 DEF AttemptInv, TypeOK
<1>7. TypeOK'
  <2>1. runs' \in [Jobs -> 0..MaxAttempts]
    BY <1>0, <1>1, <1>2, <1>6, PoolAssumption DEF TypeOK
  <2>2. at' \in [Workers -> Jobs \cup {Nil}] /\ pc' \in [Workers -> {"idle", "run", "backoff"} \cup Ending]
    BY <1>0, <1>1, <1>2 DEF TypeOK
  <2>3. Len(queue') =< QueueDepth
    BY <1>0, <1>2, PoolAssumption DEF TypeOK
  <2> QED BY <1>0, <1>1, <1>2, <2>1, <2>2, <2>3 DEF TypeOK
<1>8. PlaceInv'
  <2>1. \A v \in Workers : at'[v] = Nil <=> pc'[v] = "idle"
    BY <1>0, <1>1, <1>2, PoolAssumption DEF TypeOK, PlaceInv
  <2>2. \A k \in Jobs : phase'[k] = "accepted" <=> InQueue(k)' \/ Held(k)'
    BY <1>0, <1>1, <1>3, <1>4, <1>5 DEF PlaceInv
  <2>3. \A i, k \in 1..Len(queue') : queue'[i] = queue'[k] => i = k
    BY <1>0, <1>2 DEF PlaceInv
  <2>4. \A u, v \in Workers : at'[u] = at'[v] /\ at'[u] # Nil => u = v
    BY <1>0, <1>1, <1>3 DEF TypeOK, PlaceInv, Held
  <2>5. \A i \in 1..Len(queue'), v \in Workers : queue'[i] # at'[v]
    <3>1. ASSUME NEW i \in 1..Len(queue'), NEW v \in Workers PROVE queue'[i] # at'[v]
      <4>1. queue'[i] = queue[i + 1] /\ i + 1 \in 1..Len(queue) /\ i + 1 # 1
        BY <1>2
      <4>2. queue[i + 1] # j
        BY <1>0, <1>2, <4>1 DEF PlaceInv
      <4> QED BY <1>0, <1>1, <4>1, <4>2 DEF PlaceInv, TypeOK
    <3> QED BY <3>1
  <2> QED BY <2>1, <2>2, <2>3, <2>4, <2>5 DEF PlaceInv
<1>9. AttemptInv'
  <2>1. \A k \in Jobs : phase'[k] \in {"new", "requested"} \/ InQueue(k)' => runs'[k] = hits'[k]
    BY <1>0, <1>1, <1>2, <1>3, <1>4 DEF AttemptInv, TypeOK
  <2>2. ASSUME NEW v \in Workers
        PROVE  /\ pc'[v] \in {"run", "backoff"} => runs'[at'[v]] = hits'[at'[v]] + 1
               /\ pc'[v] = "backoff" => hits'[at'[v]] + 1 < MaxAttempts
               /\ pc'[v] = "exhausted" => runs'[at'[v]] \in {MaxAttempts, hits'[at'[v]]}
    <3>1. CASE v = w
      BY <1>0, <1>1, <1>2, <1>6, <3>1 DEF TypeOK
    <3>2. CASE v # w
      <4>1. at'[v] = at[v] /\ pc'[v] = pc[v] /\ at[v] # j
        BY <1>0, <1>1, <1>3, <3>2 DEF TypeOK, Held
      <4>2. pc[v] # "idle" => at[v] \in Jobs
        BY <1>0 DEF PlaceInv, TypeOK
      <4> QED BY <1>0, <1>1, <4>1, <4>2 DEF AttemptInv, TypeOK
    <3> QED BY <3>1, <3>2
  <2> QED BY <2>1, <2>2 DEF AttemptInv
<1>10. EventInv'
  BY <1>0, <1>1 DEF EventInv
<1>11. DraftInv'
  <2>1. j \notin drafts
    BY <1>0, <1>2, <1>3 DEF DraftInv
  <2>2. \A k \in Jobs : \A v \in Workers : at'[v] = k => (pc'[v] = "completed" <=> k \in drafts')
    BY <1>0, <1>1, <2>1 DEF DraftInv, TypeOK
  <2> QED BY <1>0, <1>1, <1>4, <2>2 DEF DraftInv
<1> QED BY <1>7, <1>8, <1>9, <1>10, <1>11 DEF PoolInv

(* The job of a busy worker is accepted, and nowhere else. *)
LEMMA BusyWorker ==
    ASSUME TypeOK, PlaceInv, NEW w \in Workers, pc[w] # "idle"
    PROVE  /\ at[w] \in Jobs /\ phase[at[w]] = "accepted" /\ ~ InQueue(at[w])
           /\ \A v \in Workers : at[v] = at[w] => v = w
BY DEF TypeOK, PlaceInv, InQueue, Held

(* A run that ends writes the drafts of its job if it completed. *)
LEMMA ReturnStep ==
    ASSUME PoolInv, NEW w \in Workers, Return(w)
    PROVE  PoolInv'
<1>0. TypeOK /\ PlaceInv /\ AttemptInv /\ EventInv /\ DraftInv
  BY DEF PoolInv
<1>1. pc[w] = "run" /\ UNCHANGED <<queue, at, phase, hits, log, stream, runs>>
  BY DEF Return, events
<1>2. /\ at[w] \in Jobs /\ phase[at[w]] = "accepted" /\ ~ InQueue(at[w])
      /\ \A v \in Workers : at[v] = at[w] => v = w
  BY <1>0, <1>1, BusyWorker
<1>3. \/ drafts' = drafts \cup {at[w]} /\ pc' = [pc EXCEPT ![w] = "completed"]
      \/ drafts' = drafts /\ pc' = [pc EXCEPT ![w] = "failed"]
  BY DEF Return
<1>4. TypeOK'
  BY <1>0, <1>1, <1>2, <1>3 DEF TypeOK, Ending, Outcomes, Terminal
<1>5. PlaceInv'
  BY <1>0, <1>1, <1>3 DEF TypeOK, PlaceInv, InQueue, Held
<1>6. AttemptInv' /\ EventInv'
  BY <1>0, <1>1, <1>3 DEF TypeOK, AttemptInv, EventInv, InQueue
<1>7. DraftInv'
  <2>1. \A k \in Jobs : \A v \in Workers : at'[v] = k => (pc'[v] = "completed" <=> k \in drafts')
    BY <1>0, <1>1, <1>2, <1>3 DEF DraftInv, TypeOK
  <2>2. \A k \in Jobs : k # at[w] => (k \in drafts' <=> k \in drafts)
    BY <1>3
  <2> QED BY <1>0, <1>1, <1>2, <2>1, <2>2 DEF DraftInv, InQueue
<1> QED BY <1>4, <1>5, <1>6, <1>7 DEF PoolInv

(* A run that is cut off leaves no drafts. *)
LEMMA CeilingHitStep ==
    ASSUME PoolInv, NEW w \in Workers, CeilingHit(w)
    PROVE  PoolInv'
<1>0. TypeOK /\ PlaceInv /\ AttemptInv /\ EventInv /\ DraftInv
  BY DEF PoolInv
<1>1. pc[w] = "run" /\ UNCHANGED <<queue, at, phase, hits, drafts, log, stream, runs>>
  BY DEF CeilingHit, events
<1>2. at[w] \in Jobs
  BY <1>0, <1>1, BusyWorker
<1>3. PICK p \in {"backoff", "exhausted"} :
         pc' = [pc EXCEPT ![w] = p] /\ (p = "backoff" <=> hits[at[w]] + 1 < MaxAttempts)
  BY DEF CeilingHit
<1>4. TypeOK'
  BY <1>0, <1>1, <1>3 DEF TypeOK, Ending, Outcomes, Terminal
<1>5. PlaceInv' /\ EventInv'
  BY <1>0, <1>1, <1>3 DEF TypeOK, PlaceInv, EventInv, InQueue, Held
<1>6. AttemptInv'
  <2>1. runs[at[w]] = hits[at[w]] + 1 /\ hits[at[w]] \in 0..(MaxAttempts - 1)
    BY <1>0, <1>1, <1>2 DEF AttemptInv, TypeOK
  <2>2. pc'[w] = "exhausted" => runs[at[w]] = MaxAttempts
    BY <1>0, <1>3, <2>1, PoolAssumption DEF TypeOK
  <2>3. pc'[w] = "backoff" => hits[at[w]] + 1 < MaxAttempts
    BY <1>0, <1>3 DEF TypeOK
  <2>4. pc'[w] \in {"backoff", "exhausted"} /\ \A v \in Workers : v # w => pc'[v] = pc[v]
    BY <1>0, <1>3 DEF TypeOK
  <2> QED BY <1>0, <1>1, <2>1, <2>2, <2>3, <2>4 DEF AttemptInv, InQueue
<1>7. DraftInv'
  BY <1>0, <1>1, <1>2, <1>3 DEF TypeOK, DraftInv, InQueue
<1> QED BY <1>4, <1>5, <1>6, <1>7 DEF PoolInv

(* The requeue moves the job from the worker to the end of the channel, or
   leaves it with the worker to be ended. *)
LEMMA RequeueStep ==
    ASSUME PoolInv, NEW w \in Workers, Requeue(w)
    PROVE  PoolInv'
<1> DEFINE j == at[w]
<1>0. TypeOK /\ PlaceInv /\ AttemptInv /\ EventInv /\ DraftInv
  BY DEF PoolInv
<1>1. /\ pc[w] = "backoff" /\ hits' = [hits EXCEPT ![j] = @ + 1]
      /\ UNCHANGED <<phase, drafts, log, stream, runs>>
  BY DEF Requeue, events
<1>2. /\ j \in Jobs /\ phase[j] = "accepted" /\ ~ InQueue(j)
      /\ \A v \in Workers : at[v] = j => v = w
  BY <1>0, <1>1, BusyWorker
<1>3. j \notin drafts
  BY <1>0, <1>1, <1>2 DEF DraftInv
<1>4. /\ hits[j] \in Nat /\ runs[j] = hits[j] + 1 /\ hits[j] + 1 < MaxAttempts
      /\ hits'[j] = hits[j] + 1
      /\ \A k \in Jobs : k # j => hits'[k] = hits[k]
  BY <1>0, <1>1, <1>2, PoolAssumption DEF AttemptInv, TypeOK
<1>5. hits' \in [Jobs -> 0..(MaxAttempts - 1)]
  BY <1>0, <1>1, <1>2, <1>4, PoolAssumption DEF TypeOK
<1>6. EventInv'
  BY <1>0, <1>1 DEF EventInv
<1>7. CASE /\ Len(queue) < QueueDepth /\ queue' = Append(queue, j)
           /\ at' = [at EXCEPT ![w] = Nil] /\ pc' = [pc EXCEPT ![w] = "idle"]
  <2>1. /\ queue' \in Seq(Jobs) /\ Len(queue') = Len(queue) + 1
        /\ \A i \in 1..Len(queue) : queue'[i] = queue[i]
        /\ queue'[Len(queue) + 1] = j
        /\ Len(queue) \in Nat
    BY <1>0, <1>2, <1>7, AppendPlaces DEF TypeOK
  <2>2. \A k \in Jobs : InQueue(k)' <=> InQueue(k) \/ k = j
    BY <2>1 DEF InQueue
  <2>3. \A k \in Jobs : Held(k)' <=> Held(k) /\ k # j
    BY <1>0, <1>2, <1>7, PoolAssumption DEF Held, TypeOK
  <2>4. TypeOK'
    <3>1. /\ at' \in [Workers -> Jobs \cup {Nil}]
          /\ pc' \in [Workers -> {"idle", "run", "backoff"} \cup Ending]
      BY <1>0, <1>7 DEF TypeOK
    <3>2. Len(queue') =< QueueDepth
      BY <1>7, <2>1, PoolAssumption
    <3> QED BY <1>0, <1>1, <1>5, <2>1, <3>1, <3>2 DEF TypeOK
  <2>5. PlaceInv'
    <3>1. \A v \in Workers : at'[v] = Nil <=> pc'[v] = "idle"
      BY <1>0, <1>7 DEF TypeOK, PlaceInv
    <3>2. \A k \in Jobs : phase'[k] = "accepted" <=> InQueue(k)' \/ Held(k)'
      BY <1>0, <1>1, <1>2, <2>2, <2>3 DEF PlaceInv
    <3>3. \A i, k \in 1..Len(queue') : queue'[i] = queue'[k] => i = k
      BY <1>0, <1>2, <2>1 DEF PlaceInv, InQueue
    <3>4. \A u, v \in Workers : at'[u] = at'[v] /\ at'[u] # Nil => u = v
      BY <1>0, <1>7 DEF TypeOK, PlaceInv
    <3>5. \A i \in 1..Len(queue'), v \in Workers : queue'[i] # at'[v]
      <4>1. ASSUME NEW i \in 1..Len(queue'), NEW v \in Workers PROVE queue'[i] # at'[v]
        <5>1. CASE i \in 1..Len(queue) /\ v # w
          BY <1>0, <1>7, <2>1, <5>1 DEF PlaceInv, TypeOK
        <5>2. CASE i = Len(queue) + 1 /\ v # w
          BY <1>0, <1>2, <1>7, <2>1, <5>2 DEF TypeOK
        <5>3. CASE v = w
          <6>1. queue'[i] \in Jobs /\ at'[v] = Nil
            BY <1>0, <1>7, <2>1, <5>3 DEF TypeOK
          <6> QED BY <6>1, PoolAssumption
        <5> QED BY <2>1, <5>1, <5>2, <5>3
      <4> QED BY <4>1
    <3> QED BY <3>1, <3>2, <3>3, <3>4, <3>5 DEF PlaceInv
  <2>6. AttemptInv'
    <3>1. \A k \in Jobs : phase'[k] \in {"new", "requested"} \/ InQueue(k)' => runs'[k] = hits'[k]
      BY <1>0, <1>1, <1>2, <1>4, <2>2 DEF AttemptInv
    <3>2. ASSUME NEW v \in Workers
          PROVE  /\ pc'[v] \in {"run", "backoff"} => runs'[at'[v]] = hits'[at'[v]] + 1
                 /\ pc'[v] = "backoff" => hits'[at'[v]] + 1 < MaxAttempts
                 /\ pc'[v] = "exhausted" => runs'[at'[v]] \in {MaxAttempts, hits'[at'[v]]}
      <4>1. CASE v = w
        BY <1>0, <1>7, <4>1 DEF TypeOK
      <4>2. CASE v # w
        <5>1. at'[v] = at[v] /\ pc'[v] = pc[v] /\ at[v] # j
          BY <1>0, <1>2, <1>7, <4>2 DEF TypeOK
        <5>2. pc[v] # "idle" => at[v] \in Jobs
          BY <1>0, BusyWorker
        <5> QED BY <1>0, <1>1, <1>4, <5>1, <5>2 DEF AttemptInv
      <4> QED BY <4>1, <4>2
    <3> QED BY <3>1, <3>2 DEF AttemptInv
  <2>7. DraftInv'
    <3>1. \A k \in Jobs : \A v \in Workers : at'[v] = k => (pc'[v] = "completed" <=> k \in drafts')
      BY <1>0, <1>1, <1>7, PoolAssumption DEF DraftInv, TypeOK
    <3> QED BY <1>0, <1>1, <1>3, <2>2, <3>1 DEF DraftInv
  <2> QED BY <1>6, <2>4, <2>5, <2>6, <2>7 DEF PoolInv
<1>8. CASE pc' = [pc EXCEPT ![w] = "exhausted"] /\ UNCHANGED <<queue, at>>
  <2>1. TypeOK'
    BY <1>0, <1>1, <1>5, <1>8 DEF TypeOK, Ending
  <2>2. PlaceInv'
    BY <1>0, <1>1, <1>8 DEF TypeOK, PlaceInv, InQueue, Held
  <2>3. AttemptInv'
    <3>1. \A k \in Jobs : phase'[k] \in {"new", "requested"} \/ InQueue(k)' => runs'[k] = hits'[k]
      BY <1>0, <1>1, <1>2, <1>4, <1>8 DEF AttemptInv, InQueue
    <3>2. ASSUME NEW v \in Workers
          PROVE  /\ pc'[v] \in {"run", "backoff"} => runs'[at'[v]] = hits'[at'[v]] + 1
                 /\ pc'[v] = "backoff" => hits'[at'[v]] + 1 < MaxAttempts
                 /\ pc'[v] = "exhausted" => runs'[at'[v]] \in {MaxAttempts, hits'[at'[v]]}
      <4>1. CASE v = w
        BY <1>0, <1>1, <1>2, <1>4, <1>8, <4>1 DEF TypeOK
      <4>2. CASE v # w
        <5>1. at'[v] = at[v] /\ pc'[v] = pc[v] /\ at[v] # j
          BY <1>0, <1>2, <1>8, <4>2 DEF TypeOK
        <5>2. pc[v] # "idle" => at[v] \in Jobs
          BY <1>0, BusyWorker
        <5> QED BY <1>0, <1>1, <1>4, <5>1, <5>2 DEF AttemptInv
      <4> QED BY <4>1, <4>2
    <3> QED BY <3>1, <3>2 DEF AttemptInv
  <2>4. DraftInv'
    BY <1>0, <1>1, <1>3, <1>8 DEF DraftInv, TypeOK, InQueue
  <2> QED BY <1>6, <2>1, <2>2, <2>3, <2>4 DEF PoolInv
<1> QED BY <1>7, <1>8 DEF Requeue

(* The terminal event closes the job's list and frees its worker. *)
LEMMA EndWithStep ==
    ASSUME PoolInv, NEW w \in Workers, NEW event \in Terminal, pc[w] # "idle",
           event = "completed" <=> pc[w] = "completed", EndWith(w, event)
    PROVE  PoolInv'
<1> DEFINE j == at[w]
<1>0. TypeOK /\ PlaceInv /\ AttemptInv /\ EventInv /\ DraftInv
  BY DEF PoolInv
<1>1. /\ phase' = [phase EXCEPT ![j] = "done"]
      /\ at' = [at EXCEPT ![w] = Nil]
      /\ pc' = [pc EXCEPT ![w] = "idle"]
      /\ UNCHANGED <<queue, hits, drafts, runs>>
  BY DEF EndWith
<1>2. /\ j \in Jobs /\ phase[j] = "accepted" /\ ~ InQueue(j)
      /\ \A v \in Workers : at[v] = j => v = w
  BY <1>0, BusyWorker
<1>3. log[j] = <<"requested">> /\ stream[j] = <<"requested">>
  BY <1>0, <1>2 DEF EventInv
<1>4. /\ log' = [log EXCEPT ![j] = <<"requested", event>>]
      /\ \/ stream' = [stream EXCEPT ![j] = <<"requested", event>>]
         \/ stream' = stream
  BY <1>0, <1>2, <1>3, AppendEvents DEF EndWith, Publish, TypeOK
<1>5. <<"requested", event>> \in Seq({"requested"} \cup Terminal) /\ <<"requested", event>>[2] = event
  OBVIOUS
<1>6. TypeOK'
  <2>1. /\ log' \in [Jobs -> Seq({"requested"} \cup Terminal)]
        /\ stream' \in [Jobs -> Seq({"requested"} \cup Terminal)]
    BY <1>0, <1>4, <1>5 DEF TypeOK
  <2>2. /\ at' \in [Workers -> Jobs \cup {Nil}]
        /\ pc' \in [Workers -> {"idle", "run", "backoff"} \cup Ending]
        /\ phase' \in [Jobs -> {"new", "requested", "accepted", "refused", "done", "lost"}]
    BY <1>0, <1>1 DEF TypeOK
  <2> QED BY <1>0, <1>1, <2>1, <2>2 DEF TypeOK
<1>7. \A k \in Jobs : (InQueue(k)' <=> InQueue(k)) /\ (Held(k)' <=> Held(k) /\ k # j)
  BY <1>0, <1>1, <1>2, PoolAssumption DEF InQueue, Held, TypeOK
<1>8. PlaceInv'
  <2>1. \A v \in Workers : at'[v] = Nil <=> pc'[v] = "idle"
    BY <1>0, <1>1 DEF TypeOK, PlaceInv
  <2>2. \A k \in Jobs : phase'[k] = "accepted" <=> InQueue(k)' \/ Held(k)'
    BY <1>0, <1>1, <1>2, <1>7 DEF PlaceInv, TypeOK
  <2>3. \A u, v \in Workers : at'[u] = at'[v] /\ at'[u] # Nil => u = v
    BY <1>0, <1>1 DEF TypeOK, PlaceInv
  <2>4. \A i \in 1..Len(queue'), v \in Workers : queue'[i] # at'[v]
    <3>1. ASSUME NEW i \in 1..Len(queue'), NEW v \in Workers PROVE queue'[i] # at'[v]
      <4>1. queue'[i] = queue[i] /\ queue[i] \in Jobs /\ i \in 1..Len(queue)
        BY <1>0, <1>1 DEF TypeOK
      <4>2. at'[v] = Nil \/ at'[v] = at[v]
        BY <1>0, <1>1 DEF TypeOK
      <4> QED BY <1>0, <4>1, <4>2, PoolAssumption DEF PlaceInv
    <3> QED BY <3>1
  <2>5. \A i, k \in 1..Len(queue') : queue'[i] = queue'[k] => i = k
    BY <1>0, <1>1 DEF PlaceInv
  <2> QED BY <2>1, <2>2, <2>3, <2>4, <2>5 DEF PlaceInv
<1>9. AttemptInv'
  <2>1. \A k \in Jobs : phase'[k] \in {"new", "requested"} \/ InQueue(k)' => runs'[k] = hits'[k]
    BY <1>0, <1>1, <1>7 DEF AttemptInv, TypeOK
  <2>2. \A v \in Workers : pc'[v] # "idle" => pc'[v] = pc[v] /\ at'[v] = at[v]
    BY <1>0, <1>1 DEF TypeOK
  <2> QED BY <1>0, <1>1, <2>1, <2>2 DEF AttemptInv
<1>10. EventInv'
  <2>1. \A k \in Jobs : k # j => log'[k] = log[k] /\ stream'[k] = stream[k] /\ phase'[k] = phase[k]
    BY <1>0, <1>1, <1>4 DEF TypeOK
  <2>2. /\ phase'[j] = "done" /\ log'[j] = <<"requested", event>>
        /\ stream'[j] \in {<<"requested">>, <<"requested", event>>}
    BY <1>0, <1>1, <1>2, <1>3, <1>4 DEF TypeOK
  <2> QED BY <1>0, <2>1, <2>2 DEF EventInv, Terminal
<1>11. DraftInv'
  <2>1. \A k \in Jobs : k # j => log'[k] = log[k] /\ phase'[k] = phase[k]
    BY <1>0, <1>1, <1>4 DEF TypeOK
  <2>2. phase'[j] = "done" /\ log'[j][2] = event
    BY <1>0, <1>1, <1>2, <1>4, <1>5 DEF TypeOK
  <2>3. event = "completed" <=> j \in drafts
    BY <1>0, <1>2 DEF DraftInv
  <2>4. \A k \in Jobs : \A v \in Workers : at'[v] = k => (pc'[v] = "completed" <=> k \in drafts')
    BY <1>0, <1>1, PoolAssumption DEF DraftInv, TypeOK
  <2> QED BY <1>0, <1>1, <1>2, <1>7, <2>1, <2>2, <2>3, <2>4 DEF DraftInv
<1> QED BY <1>6, <1>8, <1>9, <1>10, <1>11 DEF PoolInv

(* A crash empties the channel and the workers; what was accepted is lost. *)
LEMMA CrashStep == ASSUME PoolInv, Crash PROVE PoolInv'
<1>0. TypeOK /\ PlaceInv /\ AttemptInv /\ EventInv /\ DraftInv
  BY DEF PoolInv
<1>1. /\ queue' = <<>> /\ at' = [w \in Workers |-> Nil] /\ pc' = [w \in Workers |-> "idle"]
      /\ phase' = [j \in Jobs |->
                      IF phase[j] \in {"requested", "accepted"} THEN "lost" ELSE phase[j]]
      /\ UNCHANGED <<hits, drafts, log, stream, runs>>
  BY DEF Crash, events
<1>2. \A j \in Jobs : ~ InQueue(j)' /\ ~ Held(j)'
  BY <1>1, PoolAssumption DEF InQueue, Held
<1>3. TypeOK'
  BY <1>0, <1>1, PoolAssumption DEF TypeOK
<1>4. PlaceInv'
  BY <1>0, <1>1, <1>2 DEF PlaceInv, TypeOK
<1>5. AttemptInv'
  BY <1>0, <1>1, <1>2 DEF AttemptInv
<1>6. EventInv'
  BY <1>0, <1>1 DEF EventInv
<1>7. DraftInv'
  BY <1>0, <1>1, <1>2, PoolAssumption DEF DraftInv
<1> QED BY <1>3, <1>4, <1>5, <1>6, <1>7 DEF PoolInv

(* Every step preserves the inductive invariant. *)
LEMMA PoolStep == ASSUME PoolInv, [Next]_vars PROVE PoolInv'
<1>1. ASSUME NEW j \in Jobs, Request(j) PROVE PoolInv'
  BY <1>1, RequestStep
<1>2. ASSUME NEW j \in Jobs, Submit(j) PROVE PoolInv'
  BY <1>2, SubmitStep
<1>3. ASSUME NEW w \in Workers, WorkerStep(w) PROVE PoolInv'
  <2>1. CASE Receive(w)
    BY <1>3, <2>1, ReceiveStep
  <2>2. CASE Return(w)
    BY <1>3, <2>2, ReturnStep
  <2>3. CASE CeilingHit(w)
    BY <1>3, <2>3, CeilingHitStep
  <2>4. CASE Requeue(w)
    BY <1>3, <2>4, RequeueStep
  <2>5. CASE End(w)
    BY <1>3, <2>5, EndWithStep DEF End, Outcomes, Terminal
  <2>6. CASE EndExhausted(w)
    BY <1>3, <2>6, EndWithStep DEF EndExhausted, Terminal
  <2> QED BY <1>3, <2>1, <2>2, <2>3, <2>4, <2>5, <2>6 DEF WorkerStep
<1>4. CASE Crash
  BY <1>4, CrashStep
<1>5. CASE UNCHANGED vars
  BY <1>5 DEF vars, PoolInv, TypeOK, PlaceInv, AttemptInv, EventInv, DraftInv, InQueue, Held
<1> QED BY <1>1, <1>2, <1>3, <1>4, <1>5 DEF Next

(* The inductive invariant holds in every reachable state. *)
THEOREM PoolInvariant == Spec => []PoolInv
<1>1. Init => PoolInv
  BY InitPool
<1>2. PoolInv /\ [Next]_vars => PoolInv'
  BY PoolStep
<1> QED BY <1>1, <1>2, PTL DEF Spec

-----------------------------------------------------------------------------
(* The retries of a job are charged to it wherever it is (ceiling_hits travels
   in the job): max_attempts bounds its runs, and it is given up with all of
   them used or because the channel was full (worker_loop). *)
THEOREM RetriesCharged == Spec => []RunsAreCharged
<1>1. ASSUME PoolInv PROVE RunsAreCharged
  <2>1. TypeOK /\ AttemptInv
    BY <1>1 DEF PoolInv
  <2>2. \A j \in Jobs : runs[j] <= MaxAttempts
    BY <2>1, PoolAssumption DEF TypeOK
  <2>3. \A i \in 1..Len(queue) : runs[queue[i]] = hits[queue[i]]
    BY <2>1 DEF TypeOK, AttemptInv, InQueue
  <2> QED BY <2>1, <2>2, <2>3 DEF RunsAreCharged, AttemptInv
<1> QED BY <1>1, PoolInvariant, PTL

(* Every variable keeps its type: the channel never exceeds its capacity. *)
THEOREM TypeCorrect == Spec => []TypeOK
<1>1. PoolInv => TypeOK
  BY DEF PoolInv
<1> QED BY <1>1, PoolInvariant, PTL

(* A job is in the channel or at one worker exactly while it is accepted. *)
LEMMA OnePlace == PoolInv => JobInOnePlace
<1> SUFFICES ASSUME PoolInv, NEW j \in Jobs
             PROVE  Cardinality(Queued(j)) + Cardinality(Holders(j))
                       = IF phase[j] = "accepted" THEN 1 ELSE 0
  BY DEF JobInOnePlace
<1>0. TypeOK /\ PlaceInv
  BY DEF PoolInv
<1>1. ASSUME InQueue(j) PROVE Cardinality(Queued(j)) = 1
  <2>1. PICK i \in 1..Len(queue) : queue[i] = j
    BY <1>1 DEF InQueue
  <2>2. Queued(j) = {i}
    BY <1>0, <2>1 DEF PlaceInv, Queued
  <2> QED BY <2>2, FS_Singleton
<1>2. ASSUME Held(j) PROVE Cardinality(Holders(j)) = 1
  <2>1. PICK w \in Workers : at[w] = j
    BY <1>2 DEF Held
  <2>2. Holders(j) = {w}
    BY <1>0, <2>1, PoolAssumption DEF PlaceInv, Holders
  <2> QED BY <2>2, FS_Singleton
<1>3. ASSUME ~ InQueue(j) PROVE Cardinality(Queued(j)) = 0
  <2>1. Queued(j) = {}
    BY <1>3 DEF InQueue, Queued
  <2> QED BY <2>1, FS_EmptySet
<1>4. ASSUME ~ Held(j) PROVE Cardinality(Holders(j)) = 0
  <2>1. Holders(j) = {}
    BY <1>4 DEF Held, Holders
  <2> QED BY <2>1, FS_EmptySet
<1>5. ~ (InQueue(j) /\ Held(j)) /\ (phase[j] = "accepted" <=> InQueue(j) \/ Held(j))
  BY <1>0 DEF PlaceInv, InQueue, Held
<1> QED BY <1>1, <1>2, <1>3, <1>4, <1>5

(* An accepted job is in exactly one place until it is ended: no requeue after
   a cut-off run loses or duplicates it. *)
THEOREM JobsInOnePlace == Spec => []JobInOnePlace
BY OnePlace, PoolInvariant, PTL

(* worker_loop ends every job with one terminal event, which says whether the
   drafts were written, and nothing follows it. *)
THEOREM TerminalEventsOnce == Spec => []OneTerminalEvent
<1>1. PoolInv => OneTerminalEvent
  BY DEF PoolInv, EventInv, DraftInv, OneTerminalEvent
<1> QED BY <1>1, PoolInvariant, PTL

(* Whichever publishes fail, no consumer of the stream sees a terminal event
   of a job it has not seen requested. *)
THEOREM AnnouncedFirst == Spec => []AnnouncedBeforeEnded
<1>1. ASSUME PoolInv, NEW j \in Jobs, NEW i \in 1..Len(stream[j]), stream[j][i] \in Terminal
      PROVE  stream[j][1] = "requested"
  <2>1. EventInv /\ TypeOK
    BY <1>1 DEF PoolInv
  <2>2. stream[j] # <<>>
    BY <1>1
  <2>3. stream[j] \in {<<"requested">>, <<"requested", "completed">>, <<"requested", "failed">>}
    BY <2>1, <2>2 DEF EventInv, TypeOK
  <2>4. /\ <<"requested">>[1] = "requested" /\ <<"requested", "completed">>[1] = "requested"
        /\ <<"requested", "failed">>[1] = "requested"
    OBVIOUS
  <2> QED BY <2>3, <2>4, Zenon
<1>2. PoolInv => AnnouncedBeforeEnded
  BY <1>1 DEF AnnouncedBeforeEnded
<1> QED BY <1>2, PoolInvariant, PTL
=============================================================================
