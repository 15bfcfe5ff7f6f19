-------------------------- MODULE HttpServerProofs --------------------------
(***************************************************************************)
(* What the listener guarantees for every number of requests and workers   *)
(* and every size of the queue: a suspended connection is in work, a       *)
(* request is handled once, and the server stops drained.                  *)
(*                                                                         *)
(* The argument is ownership. A request is put into the queue when its     *)
(* connection is suspended, goes from the queue to one worker and from the *)
(* worker back to the network thread when it is resumed; nobody else has   *)
(* it meanwhile. How often its handler ran follows from who has it.        *)
(***************************************************************************)
EXTENDS HttpServer, FiniteSetTheorems, TLAPS

\* The requests in a queue.
Elements(s) == {s[i] : i \in DOMAIN s}

Once(s) == \A i, j \in DOMAIN s : s[i] = s[j] => i = j

\* A worker that has a request.
Busy == {"handling", "handled", "resuming"}

\* A request is in the queue once or with one worker, and its connection is suspended.
Owning ==
    /\ Once(jobs)
    /\ \A w \in Workers : job[w] # None <=> worker[w] \in Busy
    /\ \A w \in Workers : job[w] \notin Elements(jobs)
    /\ \A v, w \in Workers : job[v] = job[w] /\ job[v] # None => v = w
    /\ suspended = Elements(jobs) \cup ({job[w] : w \in Workers} \ {None})

\* How far a request is where it is.
InQueue(r) == phase[r] = "queued" /\ executed[r] = 0

AtWorker(w) ==
    /\ worker[w] = "handling" => phase[job[w]] = "queued" /\ executed[job[w]] = 0
    /\ worker[w] = "handled" => phase[job[w]] = "queued" /\ executed[job[w]] = 1
    /\ worker[w] = "resuming" => phase[job[w]] = "ready" /\ executed[job[w]] = 1

\* What the phase of a request says about it.
InPhase(r) ==
    /\ executed[r] <= 1
    /\ phase[r] \in {"none", "receiving"} => executed[r] = 0
    /\ phase[r] \notin {"sent", "gone"} => answer[r] = "none"
    /\ phase[r] \in {"queued", "ready"} => method[r] /\ ~ refusal[r]
    /\ phase[r] = "queued" => r \in suspended
    /\ phase[r] = "ready" => executed[r] = 1
    /\ answer[r] \in {"refused", "busy"} => executed[r] = 0
    /\ answer[r] = "response" => executed[r] = 1

Going ==
    /\ \A r \in Elements(jobs) : InQueue(r)
    /\ \A w \in Workers : AtWorker(w)
    /\ \A r \in Requests : InPhase(r)

\* The destructor waits for workers that end with an empty queue.
Ending ==
    /\ accepting <=> stopping \in {"no", "quiesced"}
    /\ \A w \in Workers : worker[w] = "ended" => ~ accepting /\ jobs = <<>>
    /\ stopping = "stopped" =>
          /\ ~ notify /\ \A w \in Workers : worker[w] = "ended"
          /\ \A r \in Requests : phase[r] \in {"none", "gone"}

Inv == TypeOK /\ Owning /\ Going /\ Ending

-----------------------------------------------------------------------------
(* Queues. *)

\* What is appended is in the queue, once if it was not there.
LEMMA Appended ==
    ASSUME NEW R, NEW s \in Seq(R), NEW x \in R
    PROVE  /\ Append(s, x) \in Seq(R)
           /\ Elements(Append(s, x)) = Elements(s) \cup {x}
           /\ Once(s) /\ x \notin Elements(s) => Once(Append(s, x))
<1>1. /\ Append(s, x) \in Seq(R) /\ Len(Append(s, x)) = Len(s) + 1 /\ Len(s) \in Nat
      /\ DOMAIN s = 1..Len(s) /\ DOMAIN Append(s, x) = 1..(Len(s) + 1)
      /\ \A i \in 1..Len(s) : Append(s, x)[i] = s[i]
      /\ Append(s, x)[Len(s) + 1] = x
  OBVIOUS
<1>2. DOMAIN Append(s, x) = DOMAIN s \cup {Len(s) + 1}
  BY <1>1
<1>3. Elements(Append(s, x)) = Elements(s) \cup {x}
  BY <1>1, <1>2 DEF Elements
<1>4. ASSUME Once(s), x \notin Elements(s)
      PROVE  Once(Append(s, x))
  BY <1>1, <1>2, <1>4 DEF Elements, Once
<1> QED  BY <1>1, <1>3, <1>4

\* What is taken from the head of a queue is no longer in it.
LEMMA Taken ==
    ASSUME NEW R, NEW s \in Seq(R), s # <<>>, Once(s)
    PROVE  /\ Tail(s) \in Seq(R) /\ Once(Tail(s)) /\ Head(s) \in R
           /\ Elements(s) = Elements(Tail(s)) \cup {Head(s)}
           /\ Head(s) \notin Elements(Tail(s))
<1>1. /\ Tail(s) \in Seq(R) /\ Len(s) \in Nat /\ Len(s) # 0 /\ Len(Tail(s)) = Len(s) - 1
      /\ DOMAIN s = 1..Len(s) /\ DOMAIN Tail(s) = 1..(Len(s) - 1)
      /\ \A i \in 1..(Len(s) - 1) : Tail(s)[i] = s[i + 1]
      /\ Head(s) = s[1] /\ s[1] \in R
  OBVIOUS
<1>2. /\ \A i \in DOMAIN Tail(s) : i + 1 \in DOMAIN s /\ i + 1 # 1 /\ i \in Nat
      /\ \A i \in DOMAIN s : i = 1 \/ i - 1 \in DOMAIN Tail(s)
      /\ 1 \in DOMAIN s
  BY <1>1
<1>3. Once(Tail(s))
  <2>1. ASSUME NEW i \in DOMAIN Tail(s), NEW j \in DOMAIN Tail(s), Tail(s)[i] = Tail(s)[j]
        PROVE  i = j
    <3>1. s[i + 1] = s[j + 1] /\ i + 1 \in DOMAIN s /\ j + 1 \in DOMAIN s
      BY <1>1, <1>2, <2>1
    <3>2. i + 1 = j + 1
      BY <3>1 DEF Once
    <3> QED  BY <1>2, <3>2
  <2> QED  BY <2>1 DEF Once
<1>4. Elements(s) = Elements(Tail(s)) \cup {Head(s)}
  <2>1. ASSUME NEW i \in DOMAIN s
        PROVE  s[i] \in Elements(Tail(s)) \cup {Head(s)}
    <3>1. CASE i = 1
      BY <1>1, <3>1
    <3>2. CASE i - 1 \in DOMAIN Tail(s)
      <4>1. Tail(s)[i - 1] = s[i]
        BY <1>1, <3>2
      <4> QED  BY <3>2, <4>1 DEF Elements
    <3> QED  BY <1>2, <3>1, <3>2
  <2>2. ASSUME NEW i \in DOMAIN Tail(s)
        PROVE  Tail(s)[i] \in Elements(s)
    BY <1>1, <1>2 DEF Elements
  <2>3. Head(s) \in Elements(s)
    BY <1>1, <1>2 DEF Elements
  <2> QED  BY <2>1, <2>2, <2>3 DEF Elements
<1>5. Head(s) \notin Elements(Tail(s))
  <2>1. ASSUME NEW i \in DOMAIN Tail(s), Tail(s)[i] = Head(s)
        PROVE  FALSE
    <3>1. s[i + 1] = s[1] /\ i + 1 \in DOMAIN s /\ 1 \in DOMAIN s
      BY <1>1, <1>2, <2>1
    <3>2. i + 1 = 1
      BY <3>1 DEF Once
    <3> QED  BY <1>2, <3>2
  <2> QED  BY <2>1 DEF Elements
<1> QED  BY <1>1, <1>3, <1>4, <1>5

LEMMA ElementsTyped ==
    ASSUME NEW R, NEW s \in Seq(R)
    PROVE  Elements(s) \subseteq R /\ Elements(<<>>) = {} /\ Once(<<>>)
BY DEF Elements, Once

-----------------------------------------------------------------------------
(* TypeOK. *)

LEMMA TypesKept ==
    ASSUME HttpAssumption, Inv, [Next]_vars
    PROVE  TypeOK'
<1>a. TypeOK /\ Once(jobs)
  BY DEF Inv, Owning
<1>b. jobs \in Seq(Requests)
  BY <1>a DEF TypeOK
<1>c. \A w \in Workers : worker[w] \in Busy => job[w] \in Requests
  BY DEF Inv, TypeOK, Owning
<1> USE DEF TypeOK, Phases
<1>1. ASSUME NEW r \in Requests, Begin(r)
      PROVE  TypeOK'
  BY <1>a, <1>1 DEF Begin, queue, pool
<1>2. ASSUME NEW r \in Requests, Headers(r)
      PROVE  TypeOK'
  BY <1>a, <1>2 DEF Headers, queue, pool
<1>3. ASSUME NEW r \in Requests, Refuse(r) \/ Respond(r)
      PROVE  TypeOK'
  BY <1>a, <1>3 DEF Refuse, Respond, Send, queue, pool
<1>4. ASSUME NEW r \in Requests, NEW n \in 1..MaxChunk, Upload(r, n)
      PROVE  TypeOK'
  BY <1>a, <1>4 DEF Upload, queue, pool
<1>5. ASSUME NEW r \in Requests, Admit(r)
      PROVE  TypeOK'
  <2>1. Append(jobs, r) \in Seq(Requests)
    BY <1>b, Appended
  <2>2. jobs' \in Seq(Requests)
    BY <1>b, <1>5, <2>1 DEF Admit
  <2>3. /\ suspended' \subseteq Requests /\ notify' \in BOOLEAN
        /\ phase' \in [Requests -> Phases]
        /\ answer' \in [Requests -> {"none", "refused", "busy", "response"}]
    <3>1. CASE Send(r, "busy") /\ UNCHANGED <<suspended, notify>>
      BY <1>a, <3>1 DEF Send
    <3>2. CASE /\ suspended' = suspended \cup {r} /\ phase' = [phase EXCEPT ![r] = "queued"]
               /\ notify' = TRUE /\ UNCHANGED answer
      BY <1>a, <3>2
    <3> QED  BY <1>5, <3>1, <3>2 DEF Admit
  <2>4. UNCHANGED <<refusal, method, accepting, worker, job, stopping, executed>>
    BY <1>5 DEF Admit, pool
  <2> QED  BY <1>a, <2>2, <2>3, <2>4
<1>6. ASSUME NEW r \in Requests, Complete(r)
      PROVE  TypeOK'
  BY <1>a, <1>6 DEF Complete, Deletes, queue, pool
<1>7. CASE Notify
  BY <1>a, <1>7 DEF Notify, requests
<1>8. ASSUME NEW w \in Workers, Take(w)
      PROVE  TypeOK'
  <2>1. CASE jobs = <<>>
    BY <1>a, <1>8, <2>1 DEF Take, Is, requests
  <2>2. CASE jobs # <<>>
    <3>1. Head(jobs) \in Requests /\ Tail(jobs) \in Seq(Requests)
      BY <1>a, <1>b, <2>2, Taken
    <3>2. /\ job' = [job EXCEPT ![w] = Head(jobs)] /\ jobs' = Tail(jobs)
          /\ worker' = [worker EXCEPT ![w] = "handling"]
          /\ UNCHANGED <<requests, notify, accepting, executed, stopping>>
      BY <1>8, <2>2 DEF Take, Is
    <3>3. job' \in [Workers -> Requests \cup {None}]
      BY <1>a, <3>1, <3>2
    <3>4. worker' \in [Workers -> {"free", "asleep", "handling", "handled", "resuming", "ended"}]
      BY <1>a, <3>2
    <3>5. jobs' \in Seq(Requests)
      BY <3>1, <3>2
    <3> QED  BY <1>a, <3>2, <3>3, <3>4, <3>5 DEF requests
  <2> QED  BY <2>1, <2>2
<1>9. ASSUME NEW w \in Workers, Handle(w) \/ SetReady(w) \/ Resume(w)
      PROVE  TypeOK'
  <2>1. job[w] \in Requests
    BY <1>c, <1>9 DEF Handle, SetReady, Resume, Busy
  <2>2. CASE Handle(w)
    <3>1. executed' \in [Requests -> Nat]
      BY <1>a, <2>1, <2>2 DEF Handle
    <3> QED  BY <1>a, <2>2, <3>1 DEF Handle, Is, requests, queue
  <2>3. CASE SetReady(w) \/ Resume(w)
    BY <1>a, <2>1, <2>3 DEF SetReady, Resume, Is, requests, queue
  <2> QED  BY <1>9, <2>2, <2>3
<1>10. CASE Quiesce \/ Close \/ NotifyAll
  BY <1>a, <1>10 DEF Quiesce, Close, NotifyAll, requests, queue, pool
<1>11. CASE Stop
  BY <1>a, <1>11 DEF Stop, Deletes, queue, pool
<1>12. CASE UNCHANGED vars
  BY <1>a, <1>12 DEF vars, requests, queue, pool
<1> QED
  BY <1>1, <1>2, <1>3, <1>4, <1>5, <1>6, <1>7, <1>8, <1>9, <1>10, <1>11, <1>12
  DEF Next, Access, Work, Destroy

-----------------------------------------------------------------------------
(* Who has a request. *)

\* Who has a request stays when no request changes hands.
LEMMA OwningStays ==
    ASSUME Owning, UNCHANGED <<jobs, job, suspended>>,
           \A w \in Workers : worker'[w] \in Busy <=> worker[w] \in Busy
    PROVE  Owning'
BY DEF Owning, Elements, Once

LEMMA OwningKept ==
    ASSUME HttpAssumption, Inv, [Next]_vars
    PROVE  Owning'
<1>a. TypeOK /\ Owning /\ None \notin Requests
  BY DEF Inv, HttpAssumption
<1>b. jobs \in Seq(Requests) /\ Elements(jobs) \subseteq Requests
  BY <1>a, ElementsTyped DEF TypeOK
<1>1. ASSUME NEW r \in Requests, \/ Begin(r) \/ Headers(r) \/ Refuse(r) \/ Respond(r) \/ Complete(r)
                                 \/ \E n \in 1..MaxChunk : Upload(r, n)
      PROVE  Owning'
  BY <1>a, <1>1, OwningStays DEF Begin, Headers, Refuse, Respond, Complete, Upload, queue, pool
<1>5. ASSUME NEW r \in Requests, Admit(r)
      PROVE  Owning'
  <2>1. CASE UNCHANGED <<jobs, suspended>>
    BY <1>a, <1>5, <2>1, OwningStays DEF Admit, pool
  <2>2. CASE jobs' = Append(jobs, r) /\ suspended' = suspended \cup {r}
    <3>1. r \notin suspended
      BY <1>5 DEF Admit, Served
    <3>2. r \notin Elements(jobs) /\ \A w \in Workers : job[w] # r
      BY <1>a, <3>1 DEF Owning
    <3>3. Once(jobs') /\ Elements(jobs') = Elements(jobs) \cup {r}
      BY <1>a, <1>b, <2>2, <3>2, Appended DEF Owning
    <3>4. job' = job /\ worker' = worker
      BY <1>5 DEF Admit, pool
    <3>5. Elements(jobs)' = Elements(jobs') /\ Once(jobs)' = Once(jobs')
      BY DEF Elements, Once
    <3> QED  BY <1>a, <2>2, <3>2, <3>3, <3>4, <3>5 DEF Owning
  <2> QED  BY <1>5, <2>1, <2>2 DEF Admit
<1>7. CASE Notify
  BY <1>a, <1>7, OwningStays DEF Notify, requests, TypeOK, Busy
<1>8. ASSUME NEW w \in Workers, Take(w)
      PROVE  Owning'
  <2>1. CASE jobs = <<>>
    BY <1>a, <1>8, <2>1, OwningStays DEF Take, Is, requests, TypeOK, Busy
  <2>2. CASE jobs # <<>>
    <3> DEFINE r == Head(jobs)
    <3>1. /\ Once(Tail(jobs)) /\ Elements(jobs) = Elements(Tail(jobs)) \cup {r}
          /\ r \notin Elements(Tail(jobs)) /\ r \in Requests
      BY <1>a, <1>b, <2>2, Taken DEF Owning
    <3>2. /\ job' = [job EXCEPT ![w] = r] /\ jobs' = Tail(jobs)
          /\ worker' = [worker EXCEPT ![w] = "handling"] /\ suspended' = suspended
          /\ worker[w] = "free"
      BY <1>8, <2>2 DEF Take, Is, requests
    <3>3. Elements(jobs)' = Elements(Tail(jobs)) /\ Once(jobs)' = Once(Tail(jobs))
      BY <3>2 DEF Elements, Once
    <3> HIDE DEF r
    <3>4. job[w] = None
      BY <1>a, <3>2 DEF Owning, Busy
    <3>5. \A v \in Workers : job[v] # r
      BY <1>a, <3>1 DEF Owning
    <3>6. job'[w] = r /\ \A v \in Workers \ {w} : job'[v] = job[v] /\ worker'[v] = worker[v]
      BY <1>a, <3>2 DEF TypeOK
    <3>7. {job'[v] : v \in Workers} \ {None} = ({job[v] : v \in Workers} \ {None}) \cup {r}
      BY <1>a, <3>1, <3>4, <3>6
    <3>8. worker'[w] = "handling" /\ r # None
      BY <1>a, <3>1, <3>2 DEF TypeOK
    <3>9. suspended' = Elements(Tail(jobs)) \cup ({job'[v] : v \in Workers} \ {None})
      BY <1>a, <3>1, <3>2, <3>7 DEF Owning
    <3>10. \A v \in Workers : job'[v] # None <=> worker'[v] \in Busy
      BY <1>a, <3>6, <3>8 DEF Owning, Busy
    <3>11. /\ \A v \in Workers : job'[v] \notin Elements(Tail(jobs))
           /\ \A v, u \in Workers : job'[v] = job'[u] /\ job'[v] # None => v = u
      BY <1>a, <3>1, <3>5, <3>6 DEF Owning
    <3> QED  BY <3>1, <3>3, <3>9, <3>10, <3>11 DEF Owning
  <2> QED  BY <2>1, <2>2
<1>9. ASSUME NEW w \in Workers, Handle(w) \/ SetReady(w)
      PROVE  Owning'
  BY <1>a, <1>9, OwningStays DEF Handle, SetReady, Is, requests, queue, TypeOK, Busy
<1>10. ASSUME NEW w \in Workers, Resume(w)
       PROVE  Owning'
  <2>1. /\ suspended' = suspended \ {job[w]} /\ job' = [job EXCEPT ![w] = None]
        /\ worker' = [worker EXCEPT ![w] = "free"] /\ jobs' = jobs /\ worker[w] = "resuming"
    BY <1>10 DEF Resume, Is, queue
  <2>2. job[w] # None /\ job[w] \notin Elements(jobs)
    BY <1>a, <2>1 DEF Owning, Busy
  <2>3. /\ job'[w] = None /\ worker'[w] = "free"
        /\ \A v \in Workers \ {w} : job'[v] = job[v] /\ worker'[v] = worker[v]
    BY <1>a, <2>1 DEF TypeOK
  <2>4. \A v \in Workers \ {w} : job[v] # job[w]
    BY <1>a, <2>2 DEF Owning
  <2>5. {job'[v] : v \in Workers} \ {None} = ({job[v] : v \in Workers} \ {None}) \ {job[w]}
    BY <2>2, <2>3, <2>4
  <2>6. Elements(jobs)' = Elements(jobs) /\ Once(jobs)' = Once(jobs)
    BY <2>1 DEF Elements, Once
  <2>7. suspended' = Elements(jobs) \cup ({job'[v] : v \in Workers} \ {None})
    BY <1>a, <2>1, <2>2, <2>5 DEF Owning
  <2>8. None \notin Elements(jobs)
    BY <1>a, <1>b
  <2>9. /\ \A v \in Workers : job'[v] # None <=> worker'[v] \in Busy
        /\ \A v \in Workers : job'[v] \notin Elements(jobs)
        /\ \A v, u \in Workers : job'[v] = job'[u] /\ job'[v] # None => v = u
    BY <1>a, <2>3, <2>8 DEF Owning, Busy
  <2> QED  BY <1>a, <2>6, <2>7, <2>9 DEF Owning
<1>11. CASE Quiesce \/ Close \/ Stop \/ UNCHANGED vars
  BY <1>a, <1>11, OwningStays DEF Quiesce, Close, Stop, vars, requests, queue, pool
<1>12. CASE NotifyAll
  BY <1>a, <1>12, OwningStays DEF NotifyAll, requests, queue, TypeOK, Busy
<1> QED
  BY <1>1, <1>5, <1>7, <1>8, <1>9, <1>10, <1>11, <1>12 DEF Next, Access, Work, Destroy

-----------------------------------------------------------------------------
(* How far a request is. *)

\* What a request is in depends on its own variables, and on who has it.
LEMMA GoingStays ==
    ASSUME Going, UNCHANGED <<phase, refusal, method, executed, answer, jobs, job, suspended>>,
           \A w \in Workers : worker'[w] \in Busy => worker'[w] = worker[w]
    PROVE  Going'
<1>1. \A r \in Requests : InPhase(r)'
  BY DEF Going, InPhase
<1>2. \A w \in Workers : AtWorker(w)'
  BY DEF Going, AtWorker, Busy
<1>3. \A r \in Elements(jobs)' : InQueue(r)'
  BY DEF Going, InQueue, Elements
<1> QED  BY <1>1, <1>2, <1>3 DEF Going

\* The network thread changes a request that nobody else has.
LEMMA GoingElsewhere ==
    ASSUME Inv, NEW r \in Requests, r \notin suspended,
           UNCHANGED <<executed, jobs, job, worker, suspended>>,
           \A q \in Requests \ {r} : /\ phase'[q] = phase[q] /\ refusal'[q] = refusal[q]
                                     /\ method'[q] = method[q] /\ answer'[q] = answer[q],
           InPhase(r)'
    PROVE  Going'
<1>a. TypeOK /\ Owning /\ Going /\ Elements(jobs) \subseteq Requests
  BY ElementsTyped DEF Inv, TypeOK
<1>1. \A q \in Requests : InPhase(q)'
  BY <1>a DEF Going, InPhase
<1>2. ASSUME NEW w \in Workers
      PROVE  AtWorker(w)'
  <2>1. CASE worker[w] \in Busy
    <3>1. job[w] \in Requests \ {r}
      BY <1>a, <2>1 DEF Owning, TypeOK
    <3> QED  BY <1>a, <3>1 DEF Going, AtWorker
  <2>2. CASE worker[w] \notin Busy
    BY <2>2 DEF AtWorker, Busy
  <2> QED  BY <2>1, <2>2
<1>3. \A q \in Elements(jobs) : InQueue(q)'
  BY <1>a DEF Owning, Going, InQueue
<1>4. Elements(jobs)' = Elements(jobs)
  BY DEF Elements
<1> QED  BY <1>1, <1>2, <1>3, <1>4 DEF Going

LEMMA GoingKept ==
    ASSUME HttpAssumption, Inv, [Next]_vars
    PROVE  Going'
<1>a. TypeOK /\ Owning /\ Going /\ Ending /\ None \notin Requests
      /\ jobs \in Seq(Requests) /\ Elements(jobs) \subseteq Requests
  BY ElementsTyped DEF Inv, TypeOK, HttpAssumption
<1>b. \A r \in Requests : InPhase(r)
  BY <1>a DEF Going
<1>c. \A r \in Requests : r \in suspended => r \in Elements(jobs) \/ \E w \in Workers : r = job[w]
  BY <1>a DEF Owning
<1>1. ASSUME NEW r \in Requests, Begin(r)
      PROVE  Going'
  <2>1. /\ phase' = [phase EXCEPT ![r] = "receiving"] /\ phase[r] = "none"
        /\ refusal' \in {refusal, [refusal EXCEPT ![r] = TRUE]}
        /\ UNCHANGED <<method, answer, executed, jobs, job, worker, suspended>>
    BY <1>1 DEF Begin, queue, pool
  <2>2. r \notin suspended
    <3>1. ASSUME r \in Elements(jobs)
          PROVE  FALSE
      BY <1>a, <2>1, <3>1 DEF Going, InQueue
    <3>2. ASSUME NEW w \in Workers, r = job[w]
          PROVE  FALSE
      <4>1. worker[w] \in Busy /\ AtWorker(w)
        BY <1>a, <3>2 DEF Owning, Going
      <4> QED  BY <2>1, <3>2, <4>1 DEF AtWorker, Busy
    <3> QED  BY <1>c, <3>1, <3>2
  <2>3. InPhase(r)'
    BY <1>a, <1>b, <2>1 DEF InPhase, TypeOK
  <2>4. \A q \in Requests \ {r} : phase'[q] = phase[q] /\ refusal'[q] = refusal[q]
    BY <1>a, <2>1 DEF TypeOK
  <2> QED  BY <2>1, <2>2, <2>3, <2>4, GoingElsewhere
<1>2. ASSUME NEW r \in Requests, Headers(r)
      PROVE  Going'
  <2>1. /\ ~ method[r] /\ r \notin suspended
        /\ refusal' \in {refusal, [refusal EXCEPT ![r] = TRUE]}
        /\ method' = [method EXCEPT ![r] = TRUE]
        /\ UNCHANGED <<phase, answer, executed, jobs, job, worker, suspended>>
    BY <1>2 DEF Headers, Served, queue, pool
  <2>2. phase[r] \notin {"queued", "ready"}
    BY <1>b, <2>1 DEF InPhase
  <2>3. InPhase(r)'
    BY <1>a, <1>b, <2>1, <2>2 DEF InPhase, TypeOK
  <2>4. \A q \in Requests \ {r} : refusal'[q] = refusal[q] /\ method'[q] = method[q]
    BY <1>a, <2>1 DEF TypeOK
  <2> QED  BY <2>1, <2>3, <2>4, GoingElsewhere
<1>3. ASSUME NEW r \in Requests, Refuse(r) \/ Respond(r)
      PROVE  Going'
  <2>1. /\ phase[r] \notin {"none", "gone", "sent"} /\ r \notin suspended
        /\ phase' = [phase EXCEPT ![r] = "sent"]
        /\ \/ refusal[r] /\ answer' = [answer EXCEPT ![r] = "refused"]
           \/ phase[r] = "ready" /\ answer' = [answer EXCEPT ![r] = "response"]
        /\ UNCHANGED <<refusal, method, executed, jobs, job, worker, suspended>>
    BY <1>3 DEF Refuse, Respond, Send, Served, Alive, queue, pool
  <2>2. InPhase(r)'
    <3>1. phase[r] \in {"receiving", "queued", "ready"}
      BY <1>a, <2>1 DEF TypeOK, Phases
    <3>2. refusal[r] => executed[r] = 0
      BY <1>b, <2>1, <3>1 DEF InPhase
    <3>3. phase[r] = "ready" => executed[r] = 1
      BY <1>b DEF InPhase
    <3>4. phase'[r] = "sent" /\ executed'[r] = executed[r] /\ executed[r] <= 1
      BY <1>a, <1>b, <2>1 DEF TypeOK, InPhase
    <3>5. \/ answer'[r] = "refused" /\ executed[r] = 0
          \/ answer'[r] = "response" /\ executed[r] = 1
      BY <1>a, <2>1, <3>2, <3>3 DEF TypeOK
    <3> QED  BY <3>4, <3>5 DEF InPhase
  <2>3. \A q \in Requests \ {r} : phase'[q] = phase[q] /\ answer'[q] = answer[q]
    BY <1>a, <2>1 DEF TypeOK
  <2> QED  BY <2>1, <2>2, <2>3, GoingElsewhere
<1>4. ASSUME NEW r \in Requests, NEW n \in 1..MaxChunk, Upload(r, n)
      PROVE  Going'
  <2>1. /\ phase[r] = "receiving" /\ r \notin suspended
        /\ refusal' \in {refusal, [refusal EXCEPT ![r] = TRUE]}
        /\ UNCHANGED <<phase, method, answer, executed, jobs, job, worker, suspended>>
    BY <1>4 DEF Upload, Served, queue, pool
  <2>3. InPhase(r)'
    BY <1>a, <1>b, <2>1 DEF InPhase, TypeOK
  <2>4. \A q \in Requests \ {r} : refusal'[q] = refusal[q]
    BY <1>a, <2>1 DEF TypeOK
  <2> QED  BY <2>1, <2>3, <2>4, GoingElsewhere
<1>5. ASSUME NEW r \in Requests, Admit(r)
      PROVE  Going'
  <2>1. /\ phase[r] = "receiving" /\ r \notin suspended /\ method[r] /\ ~ refusal[r]
        /\ UNCHANGED <<refusal, method, executed, job, worker>>
    BY <1>5 DEF Admit, Served, pool
  <2>2. executed[r] = 0 /\ answer[r] = "none"
    BY <1>b, <2>1 DEF InPhase
  <2>3. CASE Send(r, "busy") /\ UNCHANGED <<jobs, suspended>>
    <3>1. InPhase(r)'
      BY <1>a, <2>1, <2>2, <2>3 DEF InPhase, TypeOK, Send
    <3>2. \A q \in Requests \ {r} : phase'[q] = phase[q] /\ answer'[q] = answer[q]
      BY <1>a, <2>3 DEF TypeOK, Send
    <3> QED  BY <2>1, <2>3, <3>1, <3>2, GoingElsewhere
  <2>4. CASE /\ jobs' = Append(jobs, r) /\ suspended' = suspended \cup {r}
             /\ phase' = [phase EXCEPT ![r] = "queued"] /\ UNCHANGED answer
    <3>1. phase'[r] = "queued" /\ \A q \in Requests \ {r} : phase'[q] = phase[q]
      BY <1>a, <2>4 DEF TypeOK
    <3>2. \A q \in Requests : InPhase(q)'
      BY <1>b, <2>1, <2>2, <2>4, <3>1 DEF InPhase
    <3>3. Elements(jobs') = Elements(jobs) \cup {r}
      BY <1>a, <2>4, Appended
    <3>4. \A q \in Elements(jobs') : InQueue(q)'
      BY <1>a, <2>1, <2>2, <3>1, <3>3 DEF Going, InQueue
    <3>5. ASSUME NEW w \in Workers
          PROVE  AtWorker(w)'
      <4>1. CASE worker[w] \in Busy
        <5>1. job[w] \in Requests \ {r}
          BY <1>a, <2>1, <4>1 DEF Owning, TypeOK
        <5> QED  BY <1>a, <2>1, <3>1, <5>1 DEF Going, AtWorker
      <4>2. CASE worker[w] \notin Busy
        BY <2>1, <4>2 DEF AtWorker, Busy
      <4> QED  BY <4>1, <4>2
    <3>6. Elements(jobs)' = Elements(jobs')
      BY DEF Elements
    <3> QED  BY <3>2, <3>4, <3>5, <3>6 DEF Going
  <2> QED  BY <1>5, <2>3, <2>4 DEF Admit
<1>6. ASSUME NEW r \in Requests, Complete(r)
      PROVE  Going'
  <2>1. /\ r \notin suspended /\ Deletes({r})
        /\ UNCHANGED <<executed, answer, jobs, job, worker, suspended>>
    BY <1>6 DEF Complete, Served, queue, pool
  <2>2. /\ phase'[r] = "gone"
        /\ \A q \in Requests \ {r} : /\ phase'[q] = phase[q] /\ refusal'[q] = refusal[q]
                                      /\ method'[q] = method[q]
    BY <1>a, <2>1 DEF Deletes, TypeOK
  <2>3. InPhase(r)'
    BY <1>b, <2>1, <2>2 DEF InPhase
  <2> QED  BY <2>1, <2>2, <2>3, GoingElsewhere
<1>7. CASE Notify
  BY <1>a, <1>7, GoingStays DEF Notify, requests, TypeOK, Busy
<1>8. ASSUME NEW w \in Workers, Take(w)
      PROVE  Going'
  <2>1. CASE jobs = <<>>
    BY <1>a, <1>8, <2>1, GoingStays DEF Take, Is, requests, TypeOK, Busy
  <2>2. CASE jobs # <<>>
    <3>1. PICK r \in Requests :
              /\ r = Head(jobs) /\ Elements(jobs) = Elements(Tail(jobs)) \cup {r}
      BY <1>a, <2>2, Taken DEF Owning
    <3>2. /\ job' = [job EXCEPT ![w] = r] /\ jobs' = Tail(jobs)
          /\ worker' = [worker EXCEPT ![w] = "handling"]
          /\ UNCHANGED <<phase, refusal, method, executed, answer, suspended>>
      BY <1>8, <2>2, <3>1 DEF Take, Is, requests
    <3>3. Elements(jobs)' = Elements(Tail(jobs))
      BY <3>2 DEF Elements
    <3>4. phase[r] = "queued" /\ executed[r] = 0
      BY <1>a, <3>1 DEF Going, InQueue
    <3>5. /\ job'[w] = r /\ worker'[w] = "handling"
          /\ \A v \in Workers \ {w} : job'[v] = job[v] /\ worker'[v] = worker[v]
      BY <1>a, <3>2 DEF TypeOK
    <3>6. \A v \in Workers : AtWorker(v)'
      BY <1>a, <3>2, <3>4, <3>5 DEF Going, AtWorker
    <3>7. \A q \in Elements(Tail(jobs)) : InQueue(q)'
      BY <1>a, <3>1, <3>2 DEF Going, InQueue
    <3>8. \A q \in Requests : InPhase(q)'
      BY <1>b, <3>2 DEF InPhase
    <3> QED  BY <3>3, <3>6, <3>7, <3>8 DEF Going
  <2> QED  BY <2>1, <2>2
<1>9. ASSUME NEW w \in Workers, Handle(w) \/ SetReady(w)
      PROVE  Going'
  <2>1. worker[w] \in {"handling", "handled"} /\ AtWorker(w)
    BY <1>a, <1>9 DEF Handle, SetReady, Going
  <2>2. PICK r \in Requests : r = job[w] /\ r \notin Elements(jobs)
    BY <1>a, <2>1 DEF Owning, TypeOK, Busy
  <2>3. \A v \in Workers \ {w} : worker[v] \in Busy => job[v] \in Requests \ {r}
    BY <1>a, <2>2 DEF Owning, TypeOK
  <2>4. UNCHANGED <<refusal, method, answer, jobs, job, suspended>>
    BY <1>9 DEF Handle, SetReady, requests, queue
  <2>5. \/ /\ worker[w] = "handling" /\ worker'[w] = "handled"
           /\ executed'[r] = executed[r] + 1 /\ phase' = phase
           /\ \A q \in Requests \ {r} : executed'[q] = executed[q]
        \/ /\ worker[w] = "handled" /\ worker'[w] = "resuming"
           /\ phase'[r] = "ready" /\ executed' = executed
           /\ \A q \in Requests \ {r} : phase'[q] = phase[q]
    BY <1>a, <1>9, <2>2 DEF Handle, SetReady, Is, requests, TypeOK
  <2>6. \A v \in Workers \ {w} : worker'[v] = worker[v]
    BY <1>a, <1>9 DEF Handle, SetReady, Is, TypeOK
  <2>7. \A q \in Requests \ {r} : phase'[q] = phase[q] /\ executed'[q] = executed[q]
    BY <2>5
  <2>8. phase[r] = "queued" /\ (worker[w] = "handling" => executed[r] = 0)
        /\ (worker[w] = "handled" => executed[r] = 1)
    BY <2>1, <2>2 DEF AtWorker
  <2>9. /\ executed'[r] = 1 /\ phase'[r] \in {"queued", "ready"}
        /\ worker'[w] = "handled" => phase'[r] = "queued"
        /\ worker'[w] = "resuming" => phase'[r] = "ready"
        /\ worker'[w] \in {"handled", "resuming"}
    BY <2>5, <2>8
  <2>10. InPhase(r)'
    BY <1>b, <2>4, <2>8, <2>9 DEF InPhase
  <2>11. \A q \in Requests \ {r} : InPhase(q)'
    BY <1>b, <2>4, <2>7 DEF InPhase
  <2>12. AtWorker(w)'
    BY <2>2, <2>4, <2>9 DEF AtWorker
  <2>13. ASSUME NEW v \in Workers \ {w}
         PROVE  AtWorker(v)'
    <3>1. CASE worker[v] \in Busy
      <4>1. job[v] \in Requests \ {r} /\ AtWorker(v)
        BY <1>a, <2>3, <3>1 DEF Going
      <4> QED  BY <2>4, <2>6, <2>7, <4>1 DEF AtWorker
    <3>2. CASE worker[v] \notin Busy
      BY <2>6, <3>2 DEF AtWorker, Busy
    <3> QED  BY <3>1, <3>2
  <2>14. \A q \in Elements(jobs) : InQueue(q)'
    BY <1>a, <2>2, <2>7 DEF Going, InQueue
  <2>15. Elements(jobs)' = Elements(jobs)
    BY <2>4 DEF Elements
  <2> QED  BY <2>10, <2>11, <2>12, <2>13, <2>14, <2>15 DEF Going
<1>10. ASSUME NEW w \in Workers, Resume(w)
       PROVE  Going'
  <2>1. /\ suspended' = suspended \ {job[w]} /\ job' = [job EXCEPT ![w] = None]
        /\ worker' = [worker EXCEPT ![w] = "free"] /\ worker[w] = "resuming"
        /\ UNCHANGED <<jobs, phase, refusal, method, executed, answer>>
    BY <1>10 DEF Resume, Is, queue
  <2>2. phase[job[w]] = "ready"
    BY <1>a, <2>1 DEF Going, AtWorker
  <2>3. \A q \in Requests : InPhase(q)'
    BY <1>b, <2>1, <2>2 DEF InPhase
  <2>4. worker'[w] = "free" /\ \A v \in Workers \ {w} : job'[v] = job[v] /\ worker'[v] = worker[v]
    BY <1>a, <2>1 DEF TypeOK
  <2>5. \A v \in Workers : AtWorker(v)'
    BY <1>a, <2>1, <2>4 DEF Going, AtWorker
  <2>6. \A q \in Elements(jobs) : InQueue(q)'
    BY <1>a, <2>1 DEF Going, InQueue
  <2>7. Elements(jobs)' = Elements(jobs)
    BY <2>1 DEF Elements
  <2> QED  BY <2>3, <2>5, <2>6, <2>7 DEF Going
<1>11. CASE Quiesce \/ Close \/ UNCHANGED vars
  BY <1>a, <1>11, GoingStays DEF Quiesce, Close, vars, requests, queue, pool
<1>12. CASE NotifyAll
  BY <1>a, <1>12, GoingStays DEF NotifyAll, requests, queue, TypeOK, Busy
<1>13. CASE Stop
  <2>1. /\ \A w \in Workers : worker[w] = "ended"
        /\ UNCHANGED <<executed, answer, jobs, job, worker, suspended>> /\ Deletes(Alive)
    BY <1>13 DEF Stop, queue, pool
  <2>2. \A r \in Requests : phase'[r] = IF r \in Alive THEN "gone" ELSE phase[r]
    BY <2>1 DEF Deletes
  <2>3. \A r \in Requests : InPhase(r)'
    BY <1>b, <2>1, <2>2 DEF InPhase, Alive
  <2>4. \A w \in Workers : AtWorker(w)'
    BY <2>1 DEF AtWorker
  <2>5. jobs = <<>>
    BY <1>a, <2>1 DEF HttpAssumption, Ending
  <2>6. Elements(jobs)' = {}
    BY <2>1, <2>5 DEF Elements
  <2> QED  BY <2>3, <2>4, <2>6 DEF Going
<1> QED
  BY <1>1, <1>2, <1>3, <1>4, <1>5, <1>6, <1>7, <1>8, <1>9, <1>10, <1>11, <1>12, <1>13
  DEF Next, Access, Work, Destroy

-----------------------------------------------------------------------------
(* The end of the server. *)

LEMMA EndingKept ==
    ASSUME HttpAssumption, Inv, [Next]_vars
    PROVE  Ending'
<1>a. TypeOK /\ Ending
  BY DEF Inv
<1>1. ASSUME NEW r \in Requests, Begin(r)
      PROVE  Ending'
  <2>1. UNCHANGED <<jobs, notify, accepting, worker, stopping>> /\ stopping # "stopped"
    BY <1>1 DEF Begin, queue, pool
  <2> QED  BY <1>a, <2>1 DEF Ending
<1>2. ASSUME NEW r \in Requests, \/ Headers(r) \/ Refuse(r) \/ Respond(r) \/ Complete(r)
                                 \/ \E n \in 1..MaxChunk : Upload(r, n)
      PROVE  Ending'
  <2>1. UNCHANGED <<jobs, notify, accepting, worker, stopping>> /\ stopping # "stopped"
    BY <1>2 DEF Headers, Refuse, Respond, Complete, Upload, Served, queue, pool
  <2> QED  BY <1>a, <2>1 DEF Ending
<1>5. ASSUME NEW r \in Requests, Admit(r)
      PROVE  Ending'
  <2>1. /\ UNCHANGED <<accepting, worker, stopping>> /\ stopping # "stopped"
        /\ accepting \/ UNCHANGED jobs
    BY <1>5 DEF Admit, Served, pool
  <2> QED  BY <1>a, <2>1 DEF Ending
<1>7. CASE Notify
  <2>1. /\ UNCHANGED <<jobs, accepting, stopping>> /\ notify
        /\ \A w \in Workers : worker'[w] = "ended" => worker[w] = "ended"
    BY <1>a, <1>7 DEF Notify, requests, TypeOK
  <2> QED  BY <1>a, <2>1 DEF Ending
<1>8. ASSUME NEW w \in Workers, Take(w)
      PROVE  Ending'
  <2>1. UNCHANGED <<phase, notify, accepting, stopping>> /\ worker[w] = "free"
    BY <1>8 DEF Take, requests
  <2>2. stopping # "stopped"
    BY <1>a, <2>1 DEF Ending
  <2>3. CASE jobs = <<>>
    <3>1. /\ jobs' = jobs /\ worker'[w] = (IF accepting THEN "asleep" ELSE "ended")
          /\ \A v \in Workers \ {w} : worker'[v] = worker[v]
      BY <1>a, <1>8, <2>3 DEF Take, Is, TypeOK
    <3> QED  BY <1>a, <2>1, <2>2, <2>3, <3>1 DEF Ending
  <2>4. CASE jobs # <<>>
    <3>1. \A v \in Workers : worker[v] # "ended"
      BY <1>a, <2>4 DEF Ending
    <3>2. \A v \in Workers : worker'[v] # "ended"
      BY <1>a, <1>8, <2>4, <3>1 DEF Take, Is, TypeOK
    <3> QED  BY <1>a, <2>1, <2>2, <3>2 DEF Ending
  <2> QED  BY <2>3, <2>4
<1>9. ASSUME NEW w \in Workers, Handle(w) \/ SetReady(w) \/ Resume(w)
      PROVE  Ending'
  <2>1. UNCHANGED <<jobs, notify, accepting, stopping>> /\ worker[w] # "ended"
    BY <1>9 DEF Handle, SetReady, Resume, requests, queue
  <2>2. stopping # "stopped"
    BY <1>a, <2>1 DEF Ending
  <2>3. \A v \in Workers : worker'[v] = "ended" => worker[v] = "ended"
    BY <1>a, <1>9 DEF Handle, SetReady, Resume, Is, TypeOK
  <2> QED  BY <1>a, <2>1, <2>2, <2>3 DEF Ending
<1>10. CASE Quiesce \/ UNCHANGED vars
  BY <1>a, <1>10 DEF Quiesce, vars, requests, queue, pool, Ending
<1>11. CASE Close
  BY <1>a, <1>11 DEF Close, requests, pool, Ending
<1>12. CASE NotifyAll
  <2>1. /\ stopping = "closed" /\ stopping' = "joining"
        /\ UNCHANGED <<jobs, notify, accepting>>
        /\ \A w \in Workers : worker'[w] = "ended" => worker[w] = "ended"
    BY <1>a, <1>12 DEF NotifyAll, queue, TypeOK
  <2> QED  BY <1>a, <2>1 DEF Ending
<1>13. CASE Stop
  <2>1. /\ stopping = "joining" /\ stopping' = "stopped" /\ ~ notify
        /\ \A w \in Workers : worker[w] = "ended"
        /\ UNCHANGED <<jobs, notify, accepting, worker>> /\ Deletes(Alive)
    BY <1>13 DEF Stop, queue, pool
  <2>2. \A r \in Requests : phase'[r] \in {"none", "gone"}
    BY <1>a, <2>1 DEF Deletes, Alive
  <2> QED  BY <1>a, <2>1, <2>2 DEF Ending
<1> QED
  BY <1>1, <1>2, <1>5, <1>7, <1>8, <1>9, <1>10, <1>11, <1>12, <1>13
  DEF Next, Access, Work, Destroy

-----------------------------------------------------------------------------
(* The invariant, and what follows from it. *)

LEMMA Begins ==
    ASSUME HttpAssumption, Init
    PROVE  Inv
<1>1. TypeOK
  <2>1. jobs \in Seq(Requests) /\ suspended \subseteq Requests
    BY DEF Init
  <2>2. /\ phase \in [Requests -> Phases] /\ refusal \in [Requests -> BOOLEAN]
        /\ method \in [Requests -> BOOLEAN] /\ executed \in [Requests -> Nat]
        /\ answer \in [Requests -> {"none", "refused", "busy", "response"}]
    BY DEF Init, Phases
  <2>3. /\ worker \in [Workers -> {"free", "asleep", "handling", "handled", "resuming", "ended"}]
        /\ job \in [Workers -> Requests \cup {None}]
    BY DEF Init
  <2>4. notify \in BOOLEAN /\ accepting \in BOOLEAN /\ stopping = "no"
    BY DEF Init
  <2> QED  BY <2>1, <2>2, <2>3, <2>4 DEF TypeOK
<1>2. Elements(jobs) = {} /\ Once(jobs)
  BY DEF Init, Elements, Once
<1>3. Owning
  BY <1>2 DEF Init, Owning, Busy
<1>4. Going
  BY <1>2 DEF Init, Going, AtWorker, InPhase
<1>5. Ending
  BY DEF Init, Ending
<1> QED  BY <1>1, <1>3, <1>4, <1>5 DEF Inv

\* The invariant the guarantees follow from holds in every state.
THEOREM Invariance == Spec => []Inv
<1> USE HttpAssumption
<1>1. Init => Inv
  BY Begins
<1>2. Inv /\ [Next]_vars => Inv'
  BY TypesKept, OwningKept, GoingKept, EndingKept DEF Inv
<1> QED  BY <1>1, <1>2, PTL DEF Spec

\* A connection is suspended exactly while the queue or a worker has its request, no such
\* request is deleted, and none is left when the daemon stops.
THEOREM SuspendedInWork == Spec => []SuspendedAreInWork
<1>1. Inv => SuspendedAreInWork
  <2> SUFFICES ASSUME Inv
               PROVE  SuspendedAreInWork
    OBVIOUS
  <2>1. TypeOK /\ Owning /\ Going
    BY DEF Inv
  <2>2. suspended = {jobs[i] : i \in DOMAIN jobs} \cup ({job[w] : w \in Workers} \ {None})
    BY <2>1 DEF Owning, Elements
  <2>3. ASSUME NEW r \in suspended
        PROVE  phase[r] \in {"queued", "ready"}
    <3>1. CASE r \in Elements(jobs)
      BY <2>1, <3>1 DEF Going, InQueue
    <3>2. ASSUME NEW w \in Workers, r = job[w], r # None
          PROVE  phase[r] \in {"queued", "ready"}
      <4>1. worker[w] \in Busy /\ AtWorker(w)
        BY <2>1, <3>2 DEF Owning, Going
      <4> QED  BY <3>2, <4>1 DEF AtWorker, Busy
    <3> QED  BY <2>2, <3>1, <3>2 DEF Elements
  <2>4. suspended \subseteq Alive
    BY <2>1, <2>3 DEF Alive, TypeOK
  <2>5. ASSUME stopping = "stopped"
        PROVE  suspended = {}
    <3>1. \A w \in Workers : worker[w] = "ended"
      BY <2>5 DEF Inv, Ending
    <3>2. jobs = <<>>
      BY <3>1, HttpAssumption DEF Inv, Ending, HttpAssumption
    <3>3. \A w \in Workers : job[w] = None
      BY <2>1, <3>1 DEF Owning, Busy
    <3>4. Elements(jobs) = {}
      BY <3>2 DEF Elements
    <3> QED  BY <2>1, <3>3, <3>4 DEF Owning
  <2> QED  BY <2>2, <2>4, <2>5 DEF SuspendedAreInWork
<1> QED  BY <1>1, Invariance, PTL

\* A request is handled once, and not at all if it was refused or turned away.
THEOREM RequestsHandledOnce == Spec => []HandledOnce
<1>1. Inv => HandledOnce
  BY DEF Inv, Going, InPhase, HandledOnce
<1> QED  BY <1>1, Invariance, PTL

-----------------------------------------------------------------------------
(* The byte budget. *)

\* What makes BudgetIsOwned inductive: the sizes are sizes.
Budget ==
    /\ body \in [Requests -> 0..BodyBytes]
    /\ bodyBytes = Owned(Requests) /\ bodyBytes <= TotalBytes

\* The bodies of finitely many requests have finitely many bytes.
LEMMA BytesAreFinite ==
    ASSUME HttpAssumption, body \in [Requests -> 0..BodyBytes], NEW some \in SUBSET Requests
    PROVE  IsFiniteSet(Bytes(some)) /\ Owned(some) \in Nat
<1>1. IsFiniteSet(1..BodyBytes)
  BY FS_Interval DEF HttpAssumption
<1>2. IsFiniteSet(Requests \X (1..BodyBytes))
  BY <1>1, FS_Product DEF HttpAssumption
<1>3. Bytes(some) \subseteq Requests \X (1..BodyBytes)
  BY DEF Bytes, HttpAssumption
<1>4. IsFiniteSet(Bytes(some))
  BY <1>2, <1>3, FS_Subset
<1> QED  BY <1>4, FS_CardinalityType DEF Owned

\* Append claims what it appends, and nothing that was claimed before.
LEMMA UploadKeepsBudget ==
    ASSUME HttpAssumption, Budget, NEW r \in Requests, NEW n \in 1..MaxChunk, Upload(r, n)
    PROVE  Budget'
<1>1. CASE ~ Fits(r, n)
  BY <1>1 DEF Upload, Budget, Owned, Bytes
<1>2. CASE Fits(r, n)
  <2> DEFINE Piece == {r} \X ((body[r] + 1)..(body[r] + n))
  <2>1. /\ body' = [body EXCEPT ![r] = @ + n] /\ bodyBytes' = bodyBytes + n
        /\ n <= BodyBytes - body[r] /\ n <= TotalBytes - bodyBytes
    BY <1>2 DEF Upload, Fits
  <2>2. /\ n \in Nat \ {0} /\ body[r] \in 0..BodyBytes /\ BodyBytes \in Nat /\ TotalBytes \in Nat
        /\ IsFiniteSet(Bytes(Requests)) /\ bodyBytes \in Nat
    BY BytesAreFinite DEF Budget, HttpAssumption
  <2>3. body' \in [Requests -> 0..BodyBytes]
    BY <2>1, <2>2 DEF Budget
  <2>4. Bytes(Requests)' = Bytes(Requests) \cup Piece
    <3>1. ASSUME NEW q \in Requests
          PROVE  {q} \X (1..body'[q]) = IF q = r THEN ({r} \X (1..body[r])) \cup Piece
                                        ELSE {q} \X (1..body[q])
      <4>1. CASE q # r
        BY <2>1, <4>1 DEF Budget
      <4>2. CASE q = r
        <5>1. body'[q] = body[r] + n
          BY <2>1, <4>2 DEF Budget
        <5>2. 1..(body[r] + n) = (1..body[r]) \cup ((body[r] + 1)..(body[r] + n))
          BY <2>2
        <5> QED  BY <4>2, <5>1, <5>2
      <4> QED  BY <4>1, <4>2
    <3>2. Bytes(Requests)' = UNION {{q} \X (1..body'[q]) : q \in Requests}
      BY DEF Bytes
    <3> QED  BY <3>1, <3>2 DEF Bytes
  <2>5. Bytes(Requests) \cap Piece = {}
    BY <2>2 DEF Bytes, Budget
  <2>6. IsFiniteSet(Piece) /\ Cardinality(Piece) = n
    <3>1. /\ IsFiniteSet((body[r] + 1)..(body[r] + n))
          /\ Cardinality((body[r] + 1)..(body[r] + n)) = n
      <4>1. body[r] + 1 \in Int /\ body[r] + n \in Int /\ ~ body[r] + 1 > body[r] + n
            /\ (body[r] + n) - (body[r] + 1) + 1 = n
        BY <2>2
      <4> QED  BY <4>1, FS_Interval
    <3>2. IsFiniteSet({r}) /\ Cardinality({r}) = 1
      BY FS_Singleton
    <3> QED  BY <2>2, <3>1, <3>2, FS_Product
  <2>7. Cardinality(Bytes(Requests)') = Cardinality(Bytes(Requests)) + n
    <3> HIDE DEF Piece
    <3> QED  BY <2>2, <2>4, <2>5, <2>6, FS_Union, FS_EmptySet DEF Budget, Owned
  <2> QED  BY <2>1, <2>2, <2>3, <2>7 DEF Budget, Owned
<1> QED  BY <1>1, <1>2

\* Request::~Request gives back what its request owned, and no byte of another.
LEMMA DeletesKeepsBudget ==
    ASSUME HttpAssumption, Budget, NEW ended \in SUBSET Requests, Deletes(ended)
    PROVE  Budget'
<1>1. /\ body' = [r \in Requests |-> IF r \in ended THEN 0 ELSE body[r]]
      /\ bodyBytes' = bodyBytes - Owned(ended)
  BY DEF Deletes
<1>2. /\ IsFiniteSet(Bytes(Requests)) /\ Owned(Requests) \in Nat /\ Owned(ended) \in Nat
      /\ TotalBytes \in Nat /\ BodyBytes \in Nat
  BY BytesAreFinite DEF Budget, HttpAssumption
<1>3. body' \in [Requests -> 0..BodyBytes]
  BY <1>1, <1>2 DEF Budget
<1>4. Bytes(Requests)' = Bytes(Requests) \ Bytes(ended)
  <2>1. \A q \in Requests : 1..body'[q] = IF q \in ended THEN {} ELSE 1..body[q]
    BY <1>1
  <2>2. \A b : b \in Bytes(Requests)' <=> \E q \in Requests : b \in {q} \X (1..body'[q])
    BY DEF Bytes
  <2>3. \A b : b \in Bytes(Requests) <=> \E q \in Requests : b \in {q} \X (1..body[q])
    BY DEF Bytes
  <2>4. \A b : b \in Bytes(ended) <=> \E q \in ended : b \in {q} \X (1..body[q])
    BY DEF Bytes
  <2>5. ASSUME NEW b PROVE b \in Bytes(Requests)' <=> b \in Bytes(Requests) \ Bytes(ended)
    <3>1. CASE \E q \in Requests : \E i \in 1..body[q] : b = <<q, i>>
      <4>1. PICK q \in Requests : \E i \in 1..body[q] : b = <<q, i>>
        BY <3>1
      <4>2. PICK i \in 1..body[q] : b = <<q, i>>
        BY <4>1
      <4>3. /\ b \in Bytes(Requests)
            /\ b \in Bytes(ended) <=> q \in ended
            /\ b \in Bytes(Requests)' <=> i \in 1..body'[q]
        BY <2>2, <2>3, <2>4, <4>2
      <4> QED  BY <2>1, <4>2, <4>3
    <3>2. CASE ~ \E q \in Requests : \E i \in 1..body[q] : b = <<q, i>>
      <4>1. b \notin Bytes(Requests)
        BY <2>3, <3>2
      <4>2. \A q \in Requests : {q} \X (1..body'[q]) \subseteq {q} \X (1..body[q])
        BY <2>1
      <4>3. b \notin Bytes(Requests)'
        BY <2>2, <2>3, <4>1, <4>2
      <4> QED  BY <4>1, <4>3
    <3> QED  BY <3>1, <3>2
  <2> QED  BY <2>5
<1>5. Bytes(Requests) \cap Bytes(ended) = Bytes(ended)
  BY DEF Bytes
<1>6. Cardinality(Bytes(Requests)') = Owned(Requests) - Owned(ended)
  BY <1>2, <1>4, <1>5, FS_Difference DEF Owned
<1> QED  BY <1>1, <1>2, <1>3, <1>6 DEF Budget, Owned

\* The claims on the budget are the bytes of the bodies there are, for every number of
\* requests and every way their connections end, and within the limits of one and of all.
THEOREM BudgetOwned == Spec => []BudgetIsOwned
<1> USE HttpAssumption
<1>1. Init => Budget
  <2> SUFFICES ASSUME Init PROVE Budget
    OBVIOUS
  <2>1. Bytes(Requests) = {}
    BY DEF Init, Bytes
  <2> QED  BY <2>1, FS_EmptySet DEF Init, Budget, Owned, HttpAssumption
<1>2. Budget /\ [Next]_vars => Budget'
  <2> SUFFICES ASSUME Budget, [Next]_vars PROVE Budget'
    OBVIOUS
  <2>1. ASSUME NEW r \in Requests, NEW n \in 1..MaxChunk, Upload(r, n) PROVE Budget'
    BY <2>1, UploadKeepsBudget
  <2>2. ASSUME NEW r \in Requests, Complete(r) PROVE Budget'
    BY <2>2, DeletesKeepsBudget DEF Complete
  <2>3. CASE Stop
    BY <2>3, DeletesKeepsBudget DEF Stop, Alive
  <2>4. CASE UNCHANGED <<body, bodyBytes>>
    BY <2>4 DEF Budget, Owned, Bytes
  <2>5. ASSUME NEW r \in Requests, Begin(r) \/ Access(r) PROVE UNCHANGED <<body, bodyBytes>>
    BY <2>5 DEF Begin, Access, Headers, Refuse, Admit, Respond
  <2>6. ASSUME NEW w \in Workers, Work(w) PROVE UNCHANGED <<body, bodyBytes>>
    BY <2>6 DEF Work, Take, Handle, SetReady, Resume, requests
  <2>7. CASE Notify \/ Quiesce \/ Close \/ NotifyAll \/ UNCHANGED vars
    BY <2>4, <2>7 DEF Notify, Quiesce, Close, NotifyAll, vars, requests
  <2> QED  BY <2>1, <2>2, <2>3, <2>4, <2>5, <2>6, <2>7 DEF Next, Destroy
<1>3. Budget => BudgetIsOwned
  BY DEF Budget, BudgetIsOwned, HttpAssumption
<1> QED  BY <1>1, <1>2, <1>3, PTL DEF Spec
=============================================================================
