---------------------------- MODULE PageCommands ----------------------------
(***************************************************************************)
(* The page command host (PageCommandHost.cpp): windows onto AL pages that  *)
(* live in the host's memory between requests, the rows and receipts it     *)
(* keeps of them in PostgreSQL, the bounded executor that runs AL, and the   *)
(* clients that submit commands, repeat them and poll for the answers.      *)
(*                                                                         *)
(* A call is one accepted request that runs AL. The HTTP thread queues it,  *)
(* a worker takes it through the steps in at, and the answer is what every  *)
(* later poll of the call returns. A step ends where another thread, the    *)
(* database or the end of the process can come in between.                  *)
(***************************************************************************)
EXTENDS Naturals, Sequences, FiniteSets

CONSTANTS
    Pages,          \* window handles: random tokens, so none is given out twice
    Calls,          \* calls, each submitted once
    Suffixes,       \* what distinguishes the commands offered by one rendering
    Bodies,         \* request bodies, as their digests
    None,           \* no call holds, no call has been made
    Opening,        \* in the place of the command, of a call that opens a window
    MaxContexts,    \* options.contexts
    Capacity,       \* options.executionQueue
    NumWorkers,     \* options.executionWorkers
    MaxReceipts,    \* options.commands
    MaxRevision,    \* the largest revision of a window
    MaxCommits,     \* bound: explicit Commits of AL code, per system
    MaxFaults       \* bound: statements that fail, refusals and crashes

ASSUME PageCommandsAssumption ==
    /\ MaxContexts \in Nat /\ Capacity \in Nat /\ NumWorkers \in Nat /\ MaxReceipts \in Nat
    /\ MaxRevision \in Nat /\ MaxCommits \in Nat /\ MaxFaults \in Nat
    /\ None \notin Calls \cup {"reader", "part", "whole"} /\ "reader" \notin Calls

VARIABLES
    host,         \* running, stopping (in its destructor) or down
    \* class Context, in memory
    kept,         \* the windows in the map contexts
    opened,       \* page is set, by an opening that was kept
    invalid,      \* invalid
    revision,     \* revision, and with it prefix, which changes when it does
    touched,      \* the AL state has moved and nothing has committed that
    last,         \* call: the last call of the window
    holder,       \* who holds mutex: a call, "reader" or None
    reading,      \* a Read that has seen no unfinished call is on its way
    \* agiru_client.page_contexts and page_commands
    age,          \* 0: live, 1: past the deadline in memory, 2: past expires_at too
    invalidated,  \* invalidated
    saved,        \* revision
    receipts,     \* of each command an outcome and the body's digest, or None
    \* class PageCall, the executor and the database transaction of the call
    job,          \* page, command and body of a call, or None
    at,           \* how far the call has come
    answer,       \* its result or error
    queue,        \* the executor's queue
    locked,       \* the transaction holds the row lock of the window
    doubt,        \* a COMMIT whose reply was lost: of a part or of the whole, or None
    applied,      \* history: what of the call's AL work is durable
    commits, faults

window  == <<kept, opened, invalid, revision, touched, last>>
mutex   == <<holder, reading>>
memory  == <<window, mutex>>
tables  == <<age, invalidated, saved, receipts>>
calls   == <<job, at, answer>>
commit  == <<locked, doubt, applied>>
counts  == <<commits, faults>>
vars    == <<host, memory, tables, calls, queue, commit, counts>>

\* A command identity is the prefix of a rendering and a suffix.
Commands == [page : Pages, revision : 0..MaxRevision, suffix : Suffixes]
Job      == [page : Pages, command : Commands \cup {Opening}, body : Bodies]

Outcomes == {"started", "complete", "failed"}
Receipt  == [outcome : Outcomes, body : Bodies]

\* The sentinels are neither jobs, receipts nor commands.
ASSUME SentinelAssumption ==
    None \notin Job \cup Receipt \cup Commands /\ Opening \notin Commands

\* Steps on the HTTP thread, in the queue, on the worker, and the ends of a call.
Admission == {"retained", "publish"}
Work == {"find", "lock", "open", "cleanOpen", "check", "insert", "begin", "run", "commit",
         "cleanPage", "cleanReceipt", "report"}
Ends == {"done", "abandoned", "lost"}
Steps == {"unused", "queued"} \cup Admission \cup Work \cup Ends

TypeOK ==
    /\ host \in {"running", "stopping", "down"}
    /\ kept \in [Pages -> BOOLEAN] /\ opened \in [Pages -> BOOLEAN]
    /\ invalid \in [Pages -> BOOLEAN]
    /\ revision \in [Pages -> 0..MaxRevision] /\ saved \in [Pages -> 0..MaxRevision]
    /\ touched \in [Pages -> BOOLEAN]
    /\ last \in [Pages -> Calls \cup {None}]
    /\ holder \in [Pages -> Calls \cup {"reader", None}] /\ reading \in [Pages -> BOOLEAN]
    /\ age \in [Pages -> 0..2] /\ invalidated \in [Pages -> BOOLEAN]
    /\ receipts \in [Commands -> Receipt \cup {None}]
    /\ job \in [Calls -> Job \cup {None}]
    /\ at \in [Calls -> Steps]
    /\ answer \in [Calls -> {"none", "page", "failed", "refused", "unknown"}]
    /\ queue \in Seq(Calls)
    /\ locked \in [Calls -> BOOLEAN]
    /\ doubt \in [Calls -> {"part", "whole", None}]
    /\ applied \in [Calls -> {"nothing", "part", "whole"}]
    /\ commits \in Nat /\ faults \in Nat

Init ==
    /\ host = "running"
    /\ kept = [p \in Pages |-> FALSE] /\ opened = [p \in Pages |-> FALSE]
    /\ invalid = [p \in Pages |-> FALSE]
    /\ revision = [p \in Pages |-> 0] /\ saved = [p \in Pages |-> 0]
    /\ touched = [p \in Pages |-> FALSE]
    /\ last = [p \in Pages |-> None] /\ holder = [p \in Pages |-> None]
    /\ reading = [p \in Pages |-> FALSE]
    /\ age = [p \in Pages |-> 0] /\ invalidated = [p \in Pages |-> FALSE]
    /\ receipts = [c \in Commands |-> None]
    /\ job = [k \in Calls |-> None] /\ at = [k \in Calls |-> "unused"]
    /\ answer = [k \in Calls |-> "none"]
    /\ queue = <<>>
    /\ locked = [k \in Calls |-> FALSE] /\ doubt = [k \in Calls |-> None]
    /\ applied = [k \in Calls |-> "nothing"]
    /\ commits = 0 /\ faults = 0

----------------------------------------------------------------------------

Page(k) == job[k].page

Goes(k, from, to) == at[k] = from /\ at' = [at EXCEPT ![k] = to]

Fault == faults < MaxFaults /\ faults' = faults + 1

\* Ownership: the row is live and agrees with the window in memory.
Owned(p) == ~ invalidated[p] /\ age[p] < 2 /\ ~ invalid[p] /\ saved[p] = revision[p]

\* Executor::Submit: there is room, and the executor is not being stopped.
Room == host = "running" /\ Len(queue) < Capacity

\* Check of PageCallAuthority: ~Impl cancels every call, and a call has a deadline.
Cancelled(p) == host # "running" \/ age[p] > 0

Unfinished(p) == last[p] # None /\ at[last[p]] # "done"

\* The worker leaves the window and then reports: two mutexes, two steps.
Leave(k, a) ==
    /\ at' = [at EXCEPT ![k] = "report"]
    /\ answer' = [answer EXCEPT ![k] = a]
    /\ holder' = [holder EXCEPT ![Page(k)] = IF @ = k THEN None ELSE @]

\* The process is gone, and its memory with it.
Forgotten ==
    /\ host' = "down"
    /\ kept' = [p \in Pages |-> FALSE]
    /\ holder' = [p \in Pages |-> None] /\ reading' = [p \in Pages |-> FALSE]
    /\ queue' = <<>>

\* It dies. The server rolls its transactions back, a COMMIT in doubt aside.
Dies ==
    /\ Forgotten
    /\ at' = [k \in Calls |-> IF at[k] \in {"queued"} \cup Admission \cup Work
                              THEN "lost" ELSE at[k]]
    /\ locked' = [k \in Calls |-> locked[k] /\ doubt[k] # None]
    /\ UNCHANGED <<opened, invalid, revision, touched, last, tables, job, answer, doubt,
                   applied, commits>>

----------------------------------------------------------------------------
(* Requests, on the HTTP threads. *)

\* A call and a window are new objects with new names, which are taken in a fixed order;
\* the body of an opening is never compared with another one.
NewCall(k) == at[k] = "unused" /\ k = CHOOSE j \in Calls : at[j] = "unused"

Unopened   == {p \in Pages : \A k \in Calls : job[k] # None => Page(k) # p}
NewPage(p) == p \in Unopened /\ p = CHOOSE q \in Unopened : TRUE

\* Retain: idle windows past their deadline go, and the new one needs a place.
Stale == {p \in Pages : kept[p] /\ holder[p] = None /\ age[p] > 0}

Retain(k, p, b) ==
    /\ host = "running"
    /\ NewCall(k) /\ NewPage(p) /\ b = CHOOSE c \in Bodies : TRUE
    /\ Cardinality({q \in Pages : kept[q]} \ Stale) < MaxContexts
    /\ kept' = [q \in Pages |-> q = p \/ (kept[q] /\ q \notin Stale)]
    /\ Goes(k, "unused", "retained")
    /\ job' = [job EXCEPT ![k] = [page |-> p, command |-> Opening, body |-> b]]
    /\ last' = [last EXCEPT ![p] = k]
    /\ UNCHANGED <<host, opened, invalid, revision, touched, mutex, tables, answer, queue,
                   commit, counts>>

\* The row of a new window; a failure leaves the window in the map and its call unpublished.
InsertRow(k) ==
    /\ \/ Goes(k, "retained", "publish") /\ UNCHANGED faults
       \/ Goes(k, "retained", "abandoned") /\ Fault
    /\ UNCHANGED <<host, memory, tables, job, answer, queue, commit, commits>>

\* PublishCall, or the handler of its refusal, whose UPDATE may fail in turn.
PublishOpen(k) ==
    /\ \/ /\ Room
          /\ Goes(k, "publish", "queued")
          /\ queue' = Append(queue, k)
          /\ UNCHANGED <<kept, invalid, invalidated, answer, faults>>
       \/ /\ ~ Room
          /\ Goes(k, "publish", "abandoned")
          /\ invalid' = [invalid EXCEPT ![Page(k)] = TRUE]
          /\ \/ /\ invalidated' = [invalidated EXCEPT ![Page(k)] = TRUE]
                /\ kept' = [kept EXCEPT ![Page(k)] = FALSE]
                /\ UNCHANGED faults
             \/ Fault /\ UNCHANGED <<kept, invalidated>>
          /\ UNCHANGED <<answer, queue>>
    /\ UNCHANGED <<host, opened, revision, touched, last, mutex, age, saved, receipts, job,
                   commit, commits>>

SubmitIf(k, c, b, idle) ==
    LET p == c.page IN
    /\ idle
    /\ NewCall(k)
    /\ kept[p] /\ holder[p] = None /\ Owned(p) /\ opened[p]
    /\ c.revision <= revision[p]
    /\ Room
    /\ Goes(k, "unused", "queued")
    /\ job' = [job EXCEPT ![k] = [page |-> p, command |-> c, body |-> b]]
    /\ last' = [last EXCEPT ![p] = k]
    /\ queue' = Append(queue, k)
    /\ UNCHANGED <<host, kept, opened, invalid, revision, touched, mutex, tables, answer,
                   commit, counts>>

\* Mutant: a free mutex is taken for an idle window, though a call for it is queued.
SubmitWhenFree(k, c, b) == SubmitIf(k, c, b, TRUE)

\* SubmitWrite: a command of any rendering so far, new or repeated. Everything it
\* refuses (busy, gone, capacity) it refuses without a trace.
SubmitWrite(k, c, b) == SubmitIf(k, c, b, last[c.page] # None /\ ~ Unfinished(c.page))

\* SubmitWrite takes the identity of the window's page (:1186) without asking whether
\* there is one, and Declaration is virtual: without a page the process dies.
WriteNothing(p) ==
    /\ host = "running"
    /\ kept[p] /\ last[p] # None /\ ~ Unfinished(p)
    /\ holder[p] = None /\ Owned(p) /\ ~ opened[p]
    /\ Dies /\ UNCHANGED faults

\* Read: with no call unfinished, the window is to be rendered for another request.
Read(p) ==
    /\ host = "running"
    /\ kept[p] /\ last[p] # None /\ ~ Unfinished(p)
    /\ ~ reading[p]
    /\ reading' = [reading EXCEPT ![p] = TRUE]
    /\ UNCHANGED <<host, window, holder, tables, calls, queue, commit, counts>>

\* By now a call may have been submitted, may even run. The mutex is only tried.
LockRead(p) ==
    /\ reading[p] /\ holder[p] # "reader"
    /\ IF holder[p] = None /\ Owned(p)
       THEN holder' = [holder EXCEPT ![p] = "reader"] /\ UNCHANGED reading
       ELSE reading' = [reading EXCEPT ![p] = FALSE] /\ UNCHANGED holder
    /\ UNCHANGED <<host, window, tables, calls, queue, commit, counts>>

\* The window is rendered, or its command could not even begin.
EndRead(p) ==
    /\ holder[p] = "reader"
    /\ (opened[p] /\ UNCHANGED faults) \/ Fault
    /\ holder' = [holder EXCEPT ![p] = None]
    /\ reading' = [reading EXCEPT ![p] = FALSE]
    /\ UNCHANGED <<host, window, tables, calls, queue, commit, commits>>

\* Render dereferences a page that is not there (:631).
ReadNothing(p) ==
    /\ holder[p] = "reader" /\ ~ opened[p]
    /\ Dies /\ UNCHANGED faults

----------------------------------------------------------------------------
(* The executor. *)

Working == {k \in Calls : at[k] \in Work}

\* Executor::Work takes calls until the queue is empty, also while it is being stopped.
\* The call first makes a connection of its own. If that fails the wrapper reports the
\* error at once: of an opening, RunOpen's handler never runs and nothing is invalidated.
Take(k) ==
    /\ host # "down"
    /\ queue # <<>> /\ Head(queue) = k
    /\ Cardinality(Working) < NumWorkers
    /\ \/ /\ Goes(k, "queued", IF job[k].command = Opening THEN "lock" ELSE "find")
          /\ UNCHANGED <<answer, faults>>
       \/ /\ Fault
          /\ Goes(k, "queued", "report")
          /\ answer' = [answer EXCEPT ![k] = "unknown"]
    /\ queue' = Tail(queue)
    /\ UNCHANGED <<host, memory, tables, job, commit, commits>>

\* Write looks the window up again: Retain may have dropped it since.
FindContext(k) ==
    /\ at[k] = "find"
    /\ IF kept[Page(k)]
       THEN Goes(k, "find", "lock") /\ UNCHANGED <<holder, answer>>
       ELSE Leave(k, "refused")
    /\ UNCHANGED <<host, window, reading, tables, job, queue, commit, counts>>

Lock(k) ==
    /\ at[k] = "lock"
    /\ holder[Page(k)] = None
    /\ holder' = [holder EXCEPT ![Page(k)] = k]
    /\ Goes(k, "lock", IF job[k].command = Opening THEN "open" ELSE "check")
    /\ UNCHANGED <<host, window, reading, tables, job, answer, queue, commit, counts>>

\* RunOpen: the page's triggers run in a command of their own.
RunOpen(k) ==
    LET p == Page(k) IN
    /\ at[k] = "open"
    /\ \/ /\ ~ Cancelled(p)
          /\ Leave(k, "page")
          /\ opened' = [opened EXCEPT ![p] = TRUE]
          /\ UNCHANGED <<invalid, touched, faults>>
       \/ /\ (Cancelled(p) /\ UNCHANGED faults) \/ Fault
          /\ Goes(k, "open", "cleanOpen")
          /\ invalid' = [invalid EXCEPT ![p] = TRUE]
          /\ touched' = [touched EXCEPT ![p] = TRUE]
          /\ UNCHANGED <<opened, holder, answer>>
    /\ UNCHANGED <<host, kept, revision, last, reading, tables, job, queue, commit, commits>>

CleanOpen(k) ==
    /\ at[k] = "cleanOpen"
    /\ \/ invalidated' = [invalidated EXCEPT ![Page(k)] = TRUE] /\ UNCHANGED faults
       \/ Fault /\ UNCHANGED invalidated
       \/ Fault /\ invalidated' = [invalidated EXCEPT ![Page(k)] = TRUE]
    /\ Leave(k, "unknown")
    /\ UNCHANGED <<host, window, reading, age, saved, receipts, job, queue, commit, commits>>

\* PublishCall's wrapper stores the result and wakes whoever waits for it.
Report(k) ==
    /\ Goes(k, "report", "done")
    /\ UNCHANGED <<host, memory, tables, job, answer, queue, commit, counts>>

----------------------------------------------------------------------------
(* Write, under the window's mutex. *)

ReceiptsOf(p) == {c \in Commands : c.page = p /\ receipts[c] # None}

\* Before anything is stored: ownership, a replay of a completed command with the same
\* body, the rendering the command was offered by, and the number of receipts.
CheckIf(k, current) ==
    LET p == Page(k)
        c == job[k].command
        receipt == receipts[c]
    IN
    /\ at[k] = "check"
    /\ \/ ~ Owned(p) /\ Leave(k, "refused") /\ UNCHANGED faults
       \/ /\ Owned(p) /\ receipt # None /\ UNCHANGED faults
          /\ Leave(k, IF receipt = [outcome |-> "complete", body |-> job[k].body]
                      THEN "page" ELSE "refused")
       \/ /\ Owned(p) /\ receipt = None /\ UNCHANGED faults
          /\ IF current /\ Cardinality(ReceiptsOf(p)) < MaxReceipts
             THEN Goes(k, "check", "insert") /\ UNCHANGED <<holder, answer>>
             ELSE Leave(k, "refused")
       \/ Fault /\ Leave(k, "unknown")
    /\ UNCHANGED <<host, window, reading, tables, job, queue, commit, commits>>

\* Mutant: a receipt is replayed whatever its outcome.
CheckReplaysAny(k) ==
    \/ CheckIf(k, job[k].command.revision = revision[Page(k)])
    \/ /\ at[k] = "check" /\ Owned(Page(k)) /\ receipts[job[k].command] # None
       /\ Leave(k, "page")
       /\ UNCHANGED <<host, window, reading, tables, job, queue, commit, counts>>

Check(k) == CheckIf(k, job[k].command.revision = revision[Page(k)])

\* The receipt is stored as started, in a transaction of its own.
InsertReceipt(k) ==
    LET c == job[k].command
        Started == receipts' =
                      [receipts EXCEPT ![c] = [outcome |-> "started", body |-> job[k].body]]
    IN
    /\ \/ Goes(k, "insert", "begin") /\ Started /\ UNCHANGED <<holder, answer, faults>>
       \/ at[k] = "insert" /\ Fault /\ Leave(k, "unknown") /\ (Started \/ UNCHANGED receipts)
    /\ UNCHANGED <<host, window, reading, age, invalidated, saved, job, queue, commit, commits>>

\* The command's transaction: ownership again, now with the row lock, and then AL.
Begin(k) ==
    LET p == Page(k) IN
    /\ at[k] = "begin"
    /\ \/ /\ Owned(p) /\ ~ Cancelled(p)
          /\ Goes(k, "begin", "run")
          /\ locked' = [locked EXCEPT ![k] = TRUE]
          /\ touched' = [touched EXCEPT ![p] = TRUE]
          /\ UNCHANGED faults
       \/ /\ ~ Owned(p) \/ Cancelled(p)
          /\ Goes(k, "begin", "cleanPage")
          /\ UNCHANGED <<touched, locked, faults>>
       \/ Fault /\ Goes(k, "begin", "cleanPage") /\ UNCHANGED <<touched, locked>>
    /\ UNCHANGED <<host, kept, opened, invalid, revision, last, mutex, tables, job, answer,
                   queue, doubt, applied, commits>>

\* AL code calls Commit: what it has done is durable and the row lock is gone. If the
\* reply is lost, the server decides by itself.
AlCommit(k) ==
    /\ at[k] = "run"
    /\ commits < MaxCommits /\ commits' = commits + 1
    /\ \/ /\ ~ Cancelled(Page(k))
          /\ applied' = [applied EXCEPT ![k] = "part"]
          /\ locked' = [locked EXCEPT ![k] = FALSE]
          /\ UNCHANGED <<at, doubt, faults>>
       \/ /\ ~ Cancelled(Page(k)) /\ Fault
          /\ Goes(k, "run", "cleanPage")
          /\ doubt' = [doubt EXCEPT ![k] = "part"]
          /\ UNCHANGED <<locked, applied>>
    /\ UNCHANGED <<host, memory, tables, job, answer, queue>>

\* AL code, a statement after it or the check of the client fails; ~SessionCommand
\* rolls back.
RunFails(k) ==
    /\ Goes(k, "run", "cleanPage")
    /\ (Cancelled(Page(k)) /\ UNCHANGED faults) \/ Fault
    /\ locked' = [locked EXCEPT ![k] = FALSE]
    /\ UNCHANGED <<host, memory, tables, job, answer, queue, doubt, applied, commits>>

\* AL is done: the revision moves in memory, and the updates of the revision and of the
\* receipt wait for the commit, for which the client's rows are locked. At the last
\* revision (of an int64 in the code) the command fails instead.
Finish(k) ==
    LET p == Page(k) IN
    /\ at[k] = "run"
    /\ \/ /\ revision[p] < MaxRevision /\ ~ Cancelled(p)
          /\ revision' = [revision EXCEPT ![p] = @ + 1]
          /\ Goes(k, "run", "commit")
          /\ locked' = [locked EXCEPT ![k] = TRUE]
          /\ UNCHANGED faults
       \/ /\ revision[p] < MaxRevision
          /\ (Cancelled(p) /\ UNCHANGED faults) \/ Fault
          /\ revision' = [revision EXCEPT ![p] = @ + 1]
          /\ Goes(k, "run", "cleanPage")
          /\ locked' = [locked EXCEPT ![k] = FALSE]
       \/ /\ revision[p] >= MaxRevision
          /\ Goes(k, "run", "cleanPage")
          /\ locked' = [locked EXCEPT ![k] = FALSE]
          /\ UNCHANGED <<revision, faults>>
    /\ UNCHANGED <<host, kept, opened, invalid, touched, last, mutex, tables, job, answer,
                   queue, doubt, applied, commits>>

\* What the command's commit makes durable: AL's work, the revision and the receipt.
TakesEffect(k) ==
    LET c == job[k].command IN
    /\ applied' = [applied EXCEPT ![k] = "whole"]
    /\ saved' = [saved EXCEPT ![c.page] = c.revision + 1]
    /\ receipts' = [receipts EXCEPT ![c] = [outcome |-> "complete", body |-> job[k].body]]
    /\ locked' = [locked EXCEPT ![k] = FALSE]

\* Keep looks at the client's rows once more and commits: done, refused, or the reply
\* is lost.
Commit(k) ==
    /\ at[k] = "commit"
    /\ \/ /\ TakesEffect(k)
          /\ touched' = [touched EXCEPT ![Page(k)] = FALSE]
          /\ Leave(k, "page")
          /\ UNCHANGED <<doubt, faults>>
       \/ /\ (Cancelled(Page(k)) /\ UNCHANGED faults) \/ Fault
          /\ Goes(k, "commit", "cleanPage")
          /\ locked' = [locked EXCEPT ![k] = FALSE]
          /\ UNCHANGED <<touched, holder, saved, receipts, answer, doubt, applied>>
       \/ /\ Fault
          /\ Goes(k, "commit", "cleanPage")
          /\ doubt' = [doubt EXCEPT ![k] = "whole"]
          /\ UNCHANGED <<touched, holder, saved, receipts, answer, locked, applied>>
    /\ UNCHANGED <<host, kept, opened, invalid, revision, last, reading, age, invalidated, job,
                   queue, commits>>

\* The server ends a transaction whose client is gone, one way or the other.
Settle(k) ==
    /\ doubt[k] # None
    /\ doubt' = [doubt EXCEPT ![k] = None]
    /\ \/ doubt[k] = "whole" /\ TakesEffect(k)
       \/ /\ doubt[k] = "part"
          /\ applied' = [applied EXCEPT ![k] = "part"]
          /\ locked' = [locked EXCEPT ![k] = FALSE]
          /\ UNCHANGED <<saved, receipts>>
       \/ locked' = [locked EXCEPT ![k] = FALSE] /\ UNCHANGED <<saved, receipts, applied>>
    /\ UNCHANGED <<host, memory, age, invalidated, calls, queue, counts>>

----------------------------------------------------------------------------
(* Invalidate, after any failure of a started command. *)

RowFree(p) == \A j \in Calls : locked[j] => Page(j) # p

\* The window is invalid in memory at once, and in its row when the row lock is free.
\* If that UPDATE fails, or its reply is lost, the outcome is unknown.
InvalidateIf(k, first) ==
    LET p == Page(k) IN
    /\ at[k] = "cleanPage"
    /\ \/ /\ RowFree(p)
          /\ Goes(k, "cleanPage", "cleanReceipt")
          /\ invalid' = [invalid EXCEPT ![p] = TRUE]
          /\ invalidated' = [invalidated EXCEPT ![p] = TRUE]
          /\ UNCHANGED <<holder, answer, faults>>
       \/ /\ Fault
          /\ invalid' = [invalid EXCEPT ![p] = first]
          /\ \/ UNCHANGED invalidated
             \/ RowFree(p) /\ invalidated' = [invalidated EXCEPT ![p] = TRUE]
          /\ Leave(k, "unknown")
    /\ UNCHANGED <<host, kept, opened, revision, touched, last, reading, age, saved, receipts,
                   job, queue, commit, commits>>

\* Mutant: the window is marked in memory only after the row is.
InvalidateRowFirst(k) == InvalidateIf(k, invalid[Page(k)])

InvalidateWindow(k) == InvalidateIf(k, TRUE)

FailReceiptElse(k, otherwise) ==
    LET c == job[k].command
        Failed == /\ receipts[c].outcome = "started"
                  /\ receipts' = [receipts EXCEPT ![c].outcome = "failed"]
    IN
    /\ at[k] = "cleanReceipt"
    /\ \/ Failed /\ Leave(k, "failed") /\ UNCHANGED faults
       \/ /\ receipts[c].outcome # "started"
          /\ Leave(k, otherwise)
          /\ UNCHANGED <<receipts, faults>>
       \/ Fault /\ (Failed \/ UNCHANGED receipts) /\ Leave(k, "unknown")
    /\ UNCHANGED <<host, window, reading, age, invalidated, saved, job, queue, commit, commits>>

\* Mutant: nobody looks how many receipts the UPDATE has changed.
FailReceiptUnchecked(k) == FailReceiptElse(k, "failed")

\* Only a receipt that is still started becomes failed; if it is not, the command has
\* committed though its client's connection did not say so.
FailReceipt(k) == FailReceiptElse(k, "unknown")

----------------------------------------------------------------------------
(* Time, and the end of the host. *)

Tick(p) ==
    /\ kept[p] /\ age[p] < 2
    /\ age' = [age EXCEPT ![p] = @ + 1]
    /\ UNCHANGED <<host, memory, invalidated, saved, receipts, calls, queue, commit, counts>>

\* ~Impl, after the HTTP server has ended: every call is cancelled, the executor drained.
Stop ==
    /\ host = "running"
    /\ \A k \in Calls : at[k] \notin Admission
    /\ \A p \in Pages : ~ reading[p]
    /\ host' = "stopping"
    /\ UNCHANGED <<memory, tables, calls, queue, commit, counts>>

\* Mutant: a stopping executor drops what is queued.
StoppedWithQueue ==
    /\ host = "stopping"
    /\ Working = {}
    /\ Forgotten
    /\ UNCHANGED <<opened, invalid, revision, touched, last, tables, calls, commit, counts>>

Stopped ==
    /\ host = "stopping"
    /\ queue = <<>> /\ Working = {}
    /\ Forgotten
    /\ UNCHANGED <<opened, invalid, revision, touched, last, tables, calls, commit, counts>>

\* The process dies, whatever it is at.
Crash == host # "down" /\ Dies /\ Fault

\* A new host has a new identity; the old windows stay unknown to it.
Restart ==
    /\ host = "down"
    /\ host' = "running"
    /\ UNCHANGED <<memory, tables, calls, queue, commit, counts>>

----------------------------------------------------------------------------

Request ==
    \/ \E k \in Calls, p \in Pages, b \in Bodies : Retain(k, p, b)
    \/ \E k \in Calls, c \in Commands, b \in Bodies : SubmitWrite(k, c, b)
    \/ \E p \in Pages : Read(p) \/ WriteNothing(p)

\* What the HTTP thread goes on with.
HttpStep(k) == InsertRow(k) \/ PublishOpen(k)
ReadStep(p) == LockRead(p) \/ EndRead(p) \/ ReadNothing(p)

WorkerStep(k) ==
    \/ Take(k) \/ FindContext(k) \/ Lock(k) \/ RunOpen(k) \/ CleanOpen(k) \/ Report(k)
    \/ Check(k) \/ InsertReceipt(k) \/ Begin(k) \/ AlCommit(k) \/ RunFails(k) \/ Finish(k)
    \/ Commit(k) \/ InvalidateWindow(k) \/ FailReceipt(k)

Lifecycle == Stop \/ Stopped \/ Crash \/ Restart

Next ==
    \/ Request \/ Lifecycle
    \/ \E k \in Calls : HttpStep(k) \/ WorkerStep(k) \/ Settle(k)
    \/ \E p \in Pages : ReadStep(p) \/ Tick(p)

Spec == Init /\ [][Next]_vars

\* Threads go on, AL code ends, the server ends its transactions, a stopped host goes down.
FairSpec ==
    /\ Spec
    /\ \A k \in Calls : WF_vars(HttpStep(k)) /\ WF_vars(WorkerStep(k)) /\ WF_vars(Settle(k))
    /\ \A p \in Pages : WF_vars(ReadStep(p))

----------------------------------------------------------------------------
(* Properties. *)

\* A reader that is about to render the window, and a command that has passed its checks.
InUse(p) == holder[p] = "reader" \/ \E k \in Calls : holder[p] = k /\ at[k] \in {"insert", "begin"}

\* The window's only call was its opening, and its client was told that it failed.
OpeningFailed(p) == job[last[p]].command = Opening /\ at[last[p]] = "done"
                                                   /\ answer[last[p]] = "unknown"

\* Whoever uses the AL state of a window finds no trace of an opening or a command that
\* did not commit, though page, revision, prefix and AL state all move before the commit.
\* A command finds a page that was opened. A reader does too, with one exception: a
\* window whose opening failed for want of a connection (Take) stays valid, and the
\* reader of it finds no page at all, which ends the process (ReadNothing).
NobodySeesUncommitted ==
    \A p \in Pages : InUse(p) =>
        /\ ~ touched[p] /\ saved[p] = revision[p]
        /\ opened[p] \/ (holder[p] = "reader" /\ OpeningFailed(p))

\* A window has one call at a time: every other call for it has been answered, and the
\* one that runs is the one that reads and polls are sent to.
OneCallPerWindow ==
    \A k \in Calls : at[k] = "queued" \/ at[k] \in Work => last[Page(k)] = k

\* What a client was told lasts: after "failed" the window and the receipt are failed
\* in the database, and after a page its receipt is complete.
AnswersAreDurable ==
    \A k \in Calls : at[k] = "done" /\ job[k].command # Opening =>
        /\ answer[k] = "failed" => /\ invalidated[Page(k)]
                                   /\ receipts[job[k].command].outcome = "failed"
        /\ answer[k] = "page" => receipts[job[k].command] =
                                    [outcome |-> "complete", body |-> job[k].body]

\* A call that was published is answered, or the host dies.
EveryCallEnds == \A k \in Calls : at[k] = "queued" ~> at[k] \in Ends

\* Refinement: the host's answers mean what CommandOutcomes says they mean.
Outcome == INSTANCE CommandOutcomes WITH
    Submissions <- Calls,
    NoCommand <- None,
    subject <- [k \in Calls |-> IF job[k] = None \/ job[k].command = Opening THEN None
                               ELSE job[k].command],
    barred <- {c \in Commands : receipts[c] # None /\ receipts[c].outcome = "failed"},
    answer <- [k \in Calls |-> IF at[k] = "done" /\ job[k].command # Opening
                               THEN answer[k] ELSE "none"]

ImplementsOutcomes == Outcome!Spec
=============================================================================
