----------------------------- MODULE HttpServer -----------------------------
(***************************************************************************)
(* The HTTP listener (HttpServer.cpp): one network thread of the HTTP      *)
(* library, which calls Begin, Access and Complete, a pool of workers that *)
(* run the handler, and the thread that destroys the server.               *)
(*                                                                         *)
(* A request whose body is complete is put into a bounded queue and its    *)
(* connection suspended: the network thread leaves it alone until a worker *)
(* resumes it. The request's memory belongs to the connection; the worker  *)
(* holds a pointer to it.                                                  *)
(***************************************************************************)
EXTENDS Naturals, Sequences, FiniteSets

CONSTANTS
    Requests,     \* requests, on whatever connections
    Workers,      \* HttpServerOptions::workers
    Queue,        \* HttpServerOptions::queue
    BodyBytes,    \* HttpServerOptions::bodyBytes
    TotalBytes,   \* HttpServerOptions::totalBodyBytes
    MaxChunk,     \* the largest piece of a body the library delivers at once
    None          \* no request

\* ValidOptions.
ASSUME HttpAssumption ==
    /\ Queue \in Nat \ {0} /\ BodyBytes \in Nat \ {0} /\ TotalBytes \in Nat
    /\ BodyBytes <= TotalBytes /\ MaxChunk \in Nat \ {0} /\ None \notin Requests
    /\ IsFiniteSet(Requests) /\ IsFiniteSet(Workers) /\ Workers # {}

VARIABLES
    phase,        \* Request::phase, and whether there is a request at all
    refusal,      \* Request::refusal
    method,       \* whether Request::input has its method and headers
    body,         \* the size of Request::input.body
    bodyBytes,    \* Impl::bodyBytes
    suspended,    \* the connections the network thread leaves alone
    notify,       \* the network thread has queued a job and not notified anybody
    jobs,         \* Impl::jobs
    accepting,    \* Impl::accepting
    worker,       \* where a worker is
    job,          \* the request it works on
    stopping,     \* where the destructor is
    executed,     \* history: how often the handler ran for a request
    answer        \* history: what was queued for the client

requests == <<phase, refusal, method, body, bodyBytes, suspended, answer>>
queue    == <<notify, jobs, accepting>>
pool     == <<worker, job, executed>>
vars     == <<requests, queue, pool, stopping>>

Phases == {"none", "receiving", "queued", "ready", "sent", "gone"}

\* Requests whose memory is allocated.
Alive == {r \in Requests : phase[r] \notin {"none", "gone"}}

\* The library calls back for a connection that is not suspended, until it is stopped.
Served(r) == r \in Alive /\ r \notin suspended /\ ~ notify /\ stopping # "stopped"

-----------------------------------------------------------------------------
(* The network thread. *)

\* Begin; after MHD_quiesce_daemon only connections that were open bring new requests. A URI
\* may be too long.
Begin(r) ==
    /\ phase[r] = "none" /\ ~ notify /\ stopping # "stopped"
    /\ phase' = [phase EXCEPT ![r] = "receiving"]
    /\ refusal' \in {refusal, [refusal EXCEPT ![r] = TRUE]}
    /\ UNCHANGED <<method, body, bodyBytes, suspended, answer, queue, pool, stopping>>

\* The first call of Access reads the headers, which may be refused.
Headers(r) ==
    /\ Served(r) /\ ~ method[r]
    /\ method' = [method EXCEPT ![r] = TRUE]
    /\ refusal' \in {refusal, [refusal EXCEPT ![r] = TRUE]}
    /\ UNCHANGED <<phase, body, bodyBytes, suspended, answer, queue, pool, stopping>>

\* Send: what is queued is sent, or the connection breaks.
Send(r, what) ==
    /\ phase' = [phase EXCEPT ![r] = "sent"]
    /\ answer' = [answer EXCEPT ![r] = what]

\* A request with a refusal is answered at once, whatever else it brings.
Refuse(r) ==
    /\ Served(r) /\ method[r] /\ refusal[r] /\ phase[r] # "sent"
    /\ Send(r, "refused")
    /\ UNCHANGED <<refusal, method, body, bodyBytes, suspended, queue, pool, stopping>>

\* Mutant: the budget of all the requests is not looked at.
FitsBody(r, n) == n <= BodyBytes - body[r]

\* Append: a piece is within the limit of the request and the budget of them all.
Fits(r, n) == n <= BodyBytes - body[r] /\ n <= TotalBytes - bodyBytes

Upload(r, n) ==
    /\ Served(r) /\ method[r] /\ ~ refusal[r] /\ phase[r] = "receiving"
    /\ IF Fits(r, n)
       THEN /\ body' = [body EXCEPT ![r] = @ + n]
            /\ bodyBytes' = bodyBytes + n
            /\ UNCHANGED refusal
       ELSE /\ refusal' = [refusal EXCEPT ![r] = TRUE]
            /\ UNCHANGED <<body, bodyBytes>>
    /\ UNCHANGED <<phase, method, suspended, answer, queue, pool, stopping>>

\* Mutants: the request is queued, or its connection suspended, before the queue is known
\* to have room.
QueuesFirst(r) ==
    /\ Served(r) /\ method[r] /\ ~ refusal[r] /\ phase[r] = "receiving"
    /\ IF ~ accepting \/ Len(jobs) >= Queue
       THEN /\ Send(r, "busy")
            /\ jobs' = Append(jobs, r)
            /\ UNCHANGED <<suspended, notify>>
       ELSE /\ jobs' = Append(jobs, r)
            /\ suspended' = suspended \cup {r}
            /\ phase' = [phase EXCEPT ![r] = "queued"]
            /\ notify' = TRUE
            /\ UNCHANGED answer
    /\ UNCHANGED <<refusal, method, body, bodyBytes, accepting, pool, stopping>>

SuspendsFirst(r) ==
    /\ Served(r) /\ method[r] /\ ~ refusal[r] /\ phase[r] = "receiving"
    /\ IF ~ accepting \/ Len(jobs) >= Queue
       THEN /\ Send(r, "busy")
            /\ suspended' = suspended \cup {r}
            /\ UNCHANGED <<jobs, notify>>
       ELSE /\ jobs' = Append(jobs, r)
            /\ suspended' = suspended \cup {r}
            /\ phase' = [phase EXCEPT ![r] = "queued"]
            /\ notify' = TRUE
            /\ UNCHANGED answer
    /\ UNCHANGED <<refusal, method, body, bodyBytes, accepting, pool, stopping>>

\* Access with a complete request, under the mutex: it is queued and its connection
\* suspended, or refused.
Admit(r) ==
    /\ Served(r) /\ method[r] /\ ~ refusal[r] /\ phase[r] = "receiving"
    /\ IF ~ accepting \/ Len(jobs) >= Queue
       THEN /\ Send(r, "busy")
            /\ UNCHANGED <<suspended, jobs, notify>>
       ELSE /\ jobs' = Append(jobs, r)
            /\ suspended' = suspended \cup {r}
            /\ phase' = [phase EXCEPT ![r] = "queued"]
            /\ notify' = TRUE
            /\ UNCHANGED answer
    /\ UNCHANGED <<refusal, method, body, bodyBytes, accepting, pool, stopping>>

\* Mutant: the network thread notifies nobody.
NotifyNobody ==
    /\ notify
    /\ notify' = FALSE
    /\ UNCHANGED <<requests, jobs, accepting, pool, stopping>>

\* ready.notify_one, after the mutex: a sleeping worker, if there is one, wakes.
Notify ==
    /\ notify
    /\ notify' = FALSE
    /\ \/ \E w \in Workers : worker[w] = "asleep" /\ worker' = [worker EXCEPT ![w] = "free"]
       \/ (\A w \in Workers : worker[w] # "asleep") /\ UNCHANGED worker
    /\ UNCHANGED <<requests, jobs, accepting, job, executed, stopping>>

\* Access of a resumed connection.
Respond(r) ==
    /\ Served(r) /\ method[r] /\ ~ refusal[r] /\ phase[r] = "ready"
    /\ Send(r, "response")
    /\ UNCHANGED <<refusal, method, body, bodyBytes, suspended, queue, pool, stopping>>

\* The bytes of the bodies of some requests, and how many they are.
Bytes(some) == UNION {{r} \X (1..body[r]) : r \in some}

Owned(some) == Cardinality(Bytes(some))

\* Mutant: the bytes of a deleted request stay claimed.
DeletesOnly(ended) ==
    /\ phase' = [r \in Requests |-> IF r \in ended THEN "gone" ELSE phase[r]]
    /\ refusal' = [r \in Requests |-> refusal[r] /\ r \notin ended]
    /\ method' = [r \in Requests |-> method[r] /\ r \notin ended]
    /\ body' = [r \in Requests |-> IF r \in ended THEN 0 ELSE body[r]]
    /\ UNCHANGED bodyBytes

\* Request::~Request: the bytes of the bodies are given back.
Deletes(ended) ==
    /\ phase' = [r \in Requests |-> IF r \in ended THEN "gone" ELSE phase[r]]
    /\ refusal' = [r \in Requests |-> refusal[r] /\ r \notin ended]
    /\ method' = [r \in Requests |-> method[r] /\ r \notin ended]
    /\ body' = [r \in Requests |-> IF r \in ended THEN 0 ELSE body[r]]
    /\ bodyBytes' = bodyBytes - Owned(ended)

\* Complete: the answer is sent, the client has gone or was silent for too long; the request
\* is deleted.
Complete(r) ==
    /\ Served(r)
    /\ Deletes({r})
    /\ UNCHANGED <<suspended, answer, queue, pool, stopping>>

-----------------------------------------------------------------------------
(* A worker. *)

Is(w, place) == worker' = [worker EXCEPT ![w] = place]

\* Mutant: a worker ends as soon as the server stops.
TakeWhileOpen(w) ==
    /\ worker[w] = "free"
    /\ IF accepting /\ jobs # <<>>
       THEN /\ job' = [job EXCEPT ![w] = Head(jobs)]
            /\ jobs' = Tail(jobs)
            /\ Is(w, "handling")
       ELSE /\ Is(w, IF accepting THEN "asleep" ELSE "ended")
            /\ UNCHANGED <<jobs, job>>
    /\ UNCHANGED <<requests, notify, accepting, executed, stopping>>

\* ready.wait, under the mutex; the queue is emptied before a worker ends.
Take(w) ==
    /\ worker[w] = "free"
    /\ IF jobs # <<>>
       THEN /\ job' = [job EXCEPT ![w] = Head(jobs)]
            /\ jobs' = Tail(jobs)
            /\ Is(w, "handling")
       ELSE /\ Is(w, IF accepting THEN "asleep" ELSE "ended")
            /\ UNCHANGED <<jobs, job>>
    /\ UNCHANGED <<requests, notify, accepting, executed, stopping>>

\* The handler, or the refusal that stands for an exception it raised.
Handle(w) ==
    /\ worker[w] = "handling"
    /\ executed' = [executed EXCEPT ![job[w]] = @ + 1]
    /\ Is(w, "handled")
    /\ UNCHANGED <<requests, queue, job, stopping>>

SetReady(w) ==
    /\ worker[w] = "handled"
    /\ phase' = [phase EXCEPT ![job[w]] = "ready"]
    /\ Is(w, "resuming")
    /\ UNCHANGED <<refusal, method, body, bodyBytes, suspended, answer, queue, job, executed,
                   stopping>>

\* MHD_resume_connection: from here on the request is the network thread's again.
Resume(w) ==
    /\ worker[w] = "resuming"
    /\ suspended' = suspended \ {job[w]}
    /\ job' = [job EXCEPT ![w] = None]
    /\ Is(w, "free")
    /\ UNCHANGED <<phase, refusal, method, body, bodyBytes, answer, queue, executed, stopping>>

-----------------------------------------------------------------------------
(* The destructor: MHD_quiesce_daemon, Drain, MHD_stop_daemon. *)

Quiesce ==
    /\ stopping = "no"
    /\ stopping' = "quiesced"
    /\ UNCHANGED <<requests, queue, pool>>

Close ==
    /\ stopping = "quiesced"
    /\ accepting' = FALSE
    /\ stopping' = "closed"
    /\ UNCHANGED <<requests, notify, jobs, pool>>

\* Mutant: only one sleeping worker is told.
NotifiesOne ==
    /\ stopping = "closed"
    /\ \/ \E w \in Workers : worker[w] = "asleep" /\ worker' = [worker EXCEPT ![w] = "free"]
       \/ (\A w \in Workers : worker[w] # "asleep") /\ UNCHANGED worker
    /\ stopping' = "joining"
    /\ UNCHANGED <<requests, queue, job, executed>>

\* ready.notify_all
NotifyAll ==
    /\ stopping = "closed"
    /\ worker' = [w \in Workers |-> IF worker[w] = "asleep" THEN "free" ELSE worker[w]]
    /\ stopping' = "joining"
    /\ UNCHANGED <<requests, queue, job, executed>>

\* Every worker is joined before the daemon is stopped, which ends all connections: a
\* response that was not sent by then is lost.
Stop ==
    /\ stopping = "joining" /\ ~ notify
    /\ \A w \in Workers : worker[w] = "ended"
    /\ stopping' = "stopped"
    /\ Deletes(Alive)
    /\ UNCHANGED <<suspended, answer, queue, pool>>

-----------------------------------------------------------------------------
Init ==
    /\ phase = [r \in Requests |-> "none"] /\ refusal = [r \in Requests |-> FALSE]
    /\ method = [r \in Requests |-> FALSE] /\ body = [r \in Requests |-> 0] /\ bodyBytes = 0
    /\ suspended = {} /\ notify = FALSE /\ jobs = <<>> /\ accepting = TRUE
    /\ worker = [w \in Workers |-> "free"] /\ job = [w \in Workers |-> None]
    /\ stopping = "no"
    /\ executed = [r \in Requests |-> 0] /\ answer = [r \in Requests |-> "none"]

Access(r) ==
    \/ Headers(r) \/ Refuse(r) \/ Admit(r) \/ Respond(r)

Work(w) == Take(w) \/ Handle(w) \/ SetReady(w) \/ Resume(w)

Destroy == Close \/ NotifyAll \/ Stop

Next ==
    \/ \E r \in Requests :
          Begin(r) \/ Access(r) \/ Complete(r) \/ \E n \in 1..MaxChunk : Upload(r, n)
    \/ \E w \in Workers : Work(w)
    \/ Notify \/ Quiesce \/ Destroy

Spec == Init /\ [][Next]_vars

\* Every thread goes on, the handler returns, and a connection that brings nothing any more
\* times out.
FairSpec ==
    /\ Spec
    /\ \A r \in Requests : WF_vars(Access(r)) /\ WF_vars(Complete(r))
    /\ \A w \in Workers : WF_vars(Work(w))
    /\ WF_vars(Notify) /\ WF_vars(Destroy)

-----------------------------------------------------------------------------
(* Properties. *)

\* What the threads share and what they keep, but for the sizes of bodies.
TypeOK ==
    /\ phase \in [Requests -> Phases] /\ refusal \in [Requests -> BOOLEAN]
    /\ method \in [Requests -> BOOLEAN]
    /\ suspended \subseteq Requests /\ notify \in BOOLEAN
    /\ jobs \in Seq(Requests) /\ accepting \in BOOLEAN
    /\ worker \in [Workers -> {"free", "asleep", "handling", "handled", "resuming", "ended"}]
    /\ job \in [Workers -> Requests \cup {None}]
    /\ stopping \in {"no", "quiesced", "closed", "joining", "stopped"}
    /\ executed \in [Requests -> Nat]
    /\ answer \in [Requests -> {"none", "refused", "busy", "response"}]

\* The budget is what the requests that exist own, however their connections ended: it
\* neither shrinks for good nor lets requests own more than it, one or all together.
BudgetIsOwned ==
    /\ bodyBytes = Owned(Requests) /\ bodyBytes <= TotalBytes
    /\ \A r \in Requests : body[r] <= BodyBytes

\* A connection is suspended exactly while the queue or a worker has its request, so no
\* worker ever touches a request that the network thread may delete; and all are resumed
\* before the daemon stops.
SuspendedAreInWork ==
    /\ suspended = {jobs[i] : i \in DOMAIN jobs} \cup ({job[w] : w \in Workers} \ {None})
    /\ suspended \subseteq Alive
    /\ stopping = "stopped" => suspended = {}

\* A request is handled once, and none that was refused or turned away, so that its client
\* may repeat it.
HandledOnce ==
    \A r \in Requests :
        /\ executed[r] <= 1
        /\ answer[r] \in {"refused", "busy"} => executed[r] = 0
        /\ answer[r] = "response" => executed[r] = 1

\* A request that was queued ends, whatever its client does, and the destructor returns: no
\* wakeup of a sleeping worker is lost.
RequestsEnd == \A r \in Requests : phase[r] = "queued" ~> phase[r] = "gone"

DestructorReturns == stopping = "quiesced" ~> stopping = "stopped"
=============================================================================
