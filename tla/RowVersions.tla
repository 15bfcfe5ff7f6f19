----------------------------- MODULE RowVersions -----------------------------
(***************************************************************************)
(* Row versions: next_rowversion_v1 and minimum_rowversion_v1, the server    *)
(* functions RowVersionStorage.cpp installs, called by many sessions at      *)
(* once. A version is drawn from one sequence when a row is written and      *)
(* becomes visible when its transaction commits, so versions become visible  *)
(* out of order; the minimum is what a reader may take to be settled.        *)
(*                                                                         *)
(* A transaction announces its first version as a transaction-level advisory *)
(* lock (the fence) and may then draw further ones freely. Drawing and       *)
(* announcing, and reading the announcements, exclude each other by a        *)
(* session-level lock, which an error does not release by itself.            *)
(*                                                                         *)
(* An action is one statement of a function's body, or one statement of the  *)
(* client between two calls. What a statement leaves in the transaction is   *)
(* an effect at the level of the subtransaction it ran in: ROLLBACK TO takes *)
(* it back, RELEASE hands it to the level below.                             *)
(***************************************************************************)
EXTENDS Naturals, Sequences, FiniteSets

CONSTANTS
    Sessions,   \* the server's sessions
    NoSession,  \* nobody holds the session-level lock
    MaxValue,   \* the sequence's maximum
    MaxLevel,   \* bound: subtransactions open at once in a session
    MaxFaults   \* bound: cancelled calls and lost connections

ASSUME RowVersionsAssumption ==
    /\ NoSession \notin Sessions
    /\ MaxValue \in Nat /\ MaxLevel \in Nat /\ MaxFaults \in Nat

VARIABLES
    last,      \* last_value of rowversions_v1, 0 before the first call
    owner,     \* who holds the session-level advisory lock
    queue,     \* who waits for it, in the order of the requests
    level,     \* per session: subtransactions open, 0 outside a transaction
    effects,   \* per session: what its transaction holds so far
    pc,        \* per session: the next statement
    value,     \* per session: the variable value of the running next_rowversion_v1
    visible,   \* the versions of committed rows
    reported,  \* the last minimum computed
    faults     \* failures so far

server == <<last, owner, queue>>
vars   == <<server, level, effects, pc, value, visible, reported, faults>>

\* The statements of next_rowversion_v1 and of minimum_rowversion_v1 at which the
\* session-level lock is held, and the handler of both.
Drawing   == {"draw", "fence", "unlock"}
Measuring == {"scan", "last", "answer"}
Waiting   == {"wait", "await"}

Phases == {"client", "handler", "failed", "commit"} \cup Drawing \cup Measuring \cup Waiting

\* lock: the transaction-level advisory lock on -value; fence: the local setting
\* agiru.rowversion_fence_v1; row: a row written with version value.
Effect == [kind : {"lock", "fence", "row"}, value : Nat, level : Nat \ {0}]

TypeOK ==
    /\ last \in 0..MaxValue
    /\ owner \in Sessions \cup {NoSession}
    /\ queue \in Seq(Sessions)
    /\ level \in [Sessions -> Nat]
    /\ effects \in [Sessions -> SUBSET Effect]
    /\ pc \in [Sessions -> Phases]
    /\ value \in [Sessions -> Nat]
    /\ visible \in SUBSET Nat
    /\ reported \in Nat
    /\ faults \in Nat

Init ==
    /\ last = 0 /\ owner = NoSession /\ queue = <<>>
    /\ level = [s \in Sessions |-> 0]
    /\ effects = [s \in Sessions |-> {}]
    /\ pc = [s \in Sessions |-> "client"]
    /\ value = [s \in Sessions |-> 0]
    /\ visible = {} /\ reported = 0 /\ faults = 0

----------------------------------------------------------------------------
(* Effects. *)

Of(kind, s) == {e \in effects[s] : e.kind = kind}

\* The announced versions: what pg_locks shows of the transaction-level locks.
Announced == UNION {{e.value : e \in Of("lock", s)} : s \in Sessions}

\* What is left of a transaction when its subtransactions from n on are rolled back.
RolledBack(held, n) == {e \in held : e.level < n}

\* Level n on is released into the level below it.
Released(held, n) == {[e EXCEPT !.level = IF @ < n THEN @ ELSE n - 1] : e \in held}

Fenced(s) == Of("fence", s) # {}

Goes(s, from, to) == pc[s] = from /\ pc' = [pc EXCEPT ![s] = to]

----------------------------------------------------------------------------
(* The session-level advisory lock: granted in the order of the requests. *)

Request(s) == queue' = Append(queue, s) /\ UNCHANGED <<last, owner>>

\* A session that stops waiting leaves the queue, in which it stands once at most.
Withdraw(s) ==
    \/ (\A i \in DOMAIN queue : queue[i] # s) /\ UNCHANGED queue
    \/ \E i \in DOMAIN queue :
          /\ queue[i] = s
          /\ queue' = SubSeq(queue, 1, i - 1) \o SubSeq(queue, i + 1, Len(queue))

Granted(s) ==
    /\ owner = NoSession
    /\ queue # <<>> /\ Head(queue) = s
    /\ owner' = s /\ queue' = Tail(queue)
    /\ Goes(s, "wait", "draw") \/ Goes(s, "await", "scan")
    /\ UNCHANGED <<last, level, effects, value, visible, reported, faults>>

\* pg_advisory_unlock of a lock that is not held only warns.
Unlock(s) == owner' = (IF owner = s THEN NoSession ELSE owner) /\ UNCHANGED <<last, queue>>

----------------------------------------------------------------------------
(* next_rowversion_v1, called by the statement that writes a row. *)

\* A transaction that has its fence draws without the session-level lock.
NextFenced(s) ==
    /\ level[s] > 0
    /\ Fenced(s)
    /\ IF last < MaxValue
       THEN /\ Goes(s, "client", "client")
            /\ last' = last + 1
            /\ effects' = [effects EXCEPT ![s] =
                  @ \cup {[kind |-> "row", value |-> last + 1, level |-> level[s]]}]
       ELSE /\ Goes(s, "client", "failed")
            /\ effects' = [effects EXCEPT ![s] = RolledBack(@, level[s])]
            /\ UNCHANGED last
    /\ UNCHANGED <<owner, queue, level, value, visible, reported, faults>>

\* Mutant: the first version is drawn and announced without the session-level lock.
NextUnlocked(s) ==
    /\ level[s] > 0
    /\ ~ Fenced(s)
    /\ Goes(s, "client", "draw")
    /\ UNCHANGED <<server, level, effects, value, visible, reported, faults>>

NextUnfenced(s) ==
    /\ level[s] > 0
    /\ ~ Fenced(s)
    /\ Goes(s, "client", "wait")
    /\ Request(s)
    /\ UNCHANGED <<level, effects, value, visible, reported, faults>>

\* nextval; at the end of the sequence it raises.
Draw(s) ==
    /\ IF last < MaxValue
       THEN Goes(s, "draw", "fence") /\ last' = last + 1 /\ value' = [value EXCEPT ![s] = last + 1]
       ELSE Goes(s, "draw", "handler") /\ UNCHANGED <<last, value>>
    /\ UNCHANGED <<owner, queue, level, effects, visible, reported, faults>>

FenceAt(s, settingLevel) ==
    /\ Goes(s, "fence", "unlock")
    /\ effects' = [effects EXCEPT ![s] =
          @ \cup {[kind |-> "lock", value |-> value[s], level |-> level[s] + 1],
                  [kind |-> "fence", value |-> value[s], level |-> settingLevel]}]
    /\ UNCHANGED <<server, level, value, visible, reported, faults>>

\* Mutant: the setting outlives the subtransaction its lock belongs to.
FenceForTransaction(s) == FenceAt(s, 1)

\* pg_advisory_xact_lock(-value) and the local setting, inside the function's own block.
Fence(s) == FenceAt(s, level[s] + 1)

\* The unlock, the end of the block and of the function, and the row.
WriteRow(s) ==
    /\ Goes(s, "unlock", "client")
    /\ Unlock(s)
    /\ effects' = [effects EXCEPT ![s] =
          Released(@, level[s] + 1)
             \cup {[kind |-> "row", value |-> value[s], level |-> level[s]]}]
    /\ value' = [value EXCEPT ![s] = 0]
    /\ UNCHANGED <<level, visible, reported, faults>>

----------------------------------------------------------------------------
(* minimum_rowversion_v1, in a transaction or by itself. *)

Minimum(s) ==
    /\ Goes(s, "client", "await")
    /\ Request(s)
    /\ UNCHANGED <<level, effects, value, visible, reported, faults>>

ScanOf(s, announced) ==
    /\ IF announced = {}
       THEN Goes(s, "scan", "last") /\ UNCHANGED reported
       ELSE /\ Goes(s, "scan", "answer")
            /\ \E v \in announced : (\A w \in announced : v <= w) /\ reported' = v
    /\ UNCHANGED <<server, level, effects, value, visible, faults>>

\* Mutant: a session does not count its own announcement.
ScanOthers(s) == ScanOf(s, Announced \ {e.value : e \in Of("lock", s)})

Scan(s) == ScanOf(s, Announced)

\* Nothing is announced: the minimum is the version that will be drawn next.
NothingAnnounced(s) ==
    /\ Goes(s, "last", "answer")
    /\ reported' = last + 1
    /\ UNCHANGED <<server, level, effects, value, visible, faults>>

Answer(s) ==
    /\ Goes(s, "answer", "client")
    /\ Unlock(s)
    /\ UNCHANGED <<level, effects, value, visible, reported, faults>>

----------------------------------------------------------------------------
(* Errors. *)

\* A cancel or a timeout hits a statement of either function: the block is rolled
\* back, the session-level lock is not, and its handler runs.
Cancel(s) ==
    /\ pc[s] \in Waiting \cup Drawing \cup Measuring
    /\ faults < MaxFaults /\ faults' = faults + 1
    /\ pc' = [pc EXCEPT ![s] = "handler"]
    /\ Withdraw(s)
    /\ effects' = [effects EXCEPT ![s] = RolledBack(@, level[s] + 1)]
    /\ UNCHANGED <<last, owner, level, value, visible, reported>>

HandleThen(s, released) ==
    /\ Goes(s, "handler", IF level[s] = 0 THEN "client" ELSE "failed")
    /\ owner' = released
    /\ effects' = [effects EXCEPT ![s] = RolledBack(@, level[s])]
    /\ value' = [value EXCEPT ![s] = 0]
    /\ UNCHANGED <<last, queue, level, visible, reported, faults>>

\* Mutant: the handler forgets the lock.
HandlerKeepsLock(s) == HandleThen(s, owner)

\* The handler unlocks and raises again, which fails the calling statement.
Handler(s) == HandleThen(s, IF owner = s THEN NoSession ELSE owner)

\* The connection breaks: the server ends the session and releases what it held.
Terminate(s) ==
    /\ faults < MaxFaults /\ faults' = faults + 1
    /\ pc' = [pc EXCEPT ![s] = "client"]
    /\ level' = [level EXCEPT ![s] = 0]
    /\ effects' = [effects EXCEPT ![s] = {}]
    /\ owner' = IF owner = s THEN NoSession ELSE owner
    /\ Withdraw(s)
    /\ value' = [value EXCEPT ![s] = 0]
    /\ UNCHANGED <<last, visible, reported>>

----------------------------------------------------------------------------
(* The client's transaction. *)

Begin(s) ==
    /\ level[s] = 0
    /\ Goes(s, "client", "client")
    /\ level' = [level EXCEPT ![s] = 1]
    /\ UNCHANGED <<server, effects, value, visible, reported, faults>>

Savepoint(s) ==
    /\ level[s] \in 1..(MaxLevel - 1)
    /\ Goes(s, "client", "client")
    /\ level' = [level EXCEPT ![s] = @ + 1]
    /\ UNCHANGED <<server, effects, value, visible, reported, faults>>

ReleaseSavepoint(s) ==
    /\ level[s] > 1
    /\ Goes(s, "client", "client")
    /\ effects' = [effects EXCEPT ![s] = Released(@, level[s])]
    /\ level' = [level EXCEPT ![s] = @ - 1]
    /\ UNCHANGED <<server, value, visible, reported, faults>>

\* Back to the start of subtransaction n, which is open again.
RollbackTo(s, n) ==
    /\ n \in 2..level[s]
    /\ Goes(s, "client", "client") \/ Goes(s, "failed", "client")
    /\ effects' = [effects EXCEPT ![s] = RolledBack(@, n)]
    /\ level' = [level EXCEPT ![s] = n]
    /\ UNCHANGED <<server, value, visible, reported, faults>>

Rollback(s) ==
    /\ level[s] > 0
    /\ Goes(s, "client", "client") \/ Goes(s, "failed", "client")
    /\ effects' = [effects EXCEPT ![s] = {}]
    /\ level' = [level EXCEPT ![s] = 0]
    /\ UNCHANGED <<server, value, visible, reported, faults>>

\* COMMIT makes the rows visible first and releases the locks after that.
Commit(s) ==
    /\ level[s] > 0
    /\ Goes(s, "client", "commit")
    /\ visible' = visible \cup {e.value : e \in Of("row", s)}
    /\ UNCHANGED <<server, level, effects, value, reported, faults>>

CommitReleases(s) ==
    /\ Goes(s, "commit", "client")
    /\ effects' = [effects EXCEPT ![s] = {}]
    /\ level' = [level EXCEPT ![s] = 0]
    /\ UNCHANGED <<server, value, visible, reported, faults>>

----------------------------------------------------------------------------

\* Statements inside a call, which the server runs to their end by itself.
ServerStep(s) ==
    \/ Granted(s) \/ Draw(s) \/ Fence(s) \/ WriteRow(s)
    \/ Scan(s) \/ NothingAnnounced(s) \/ Answer(s)
    \/ Handler(s) \/ CommitReleases(s)

ClientStep(s) ==
    \/ NextFenced(s) \/ NextUnfenced(s) \/ Minimum(s)
    \/ Begin(s) \/ Savepoint(s) \/ ReleaseSavepoint(s) \/ Rollback(s) \/ Commit(s)
    \/ \E n \in 2..MaxLevel : RollbackTo(s, n)

FaultStep(s) == Cancel(s) \/ Terminate(s)

Next == \E s \in Sessions : ServerStep(s) \/ ClientStep(s) \/ FaultStep(s)

Spec == Init /\ [][Next]_vars

\* A backend that is not waiting for a lock goes on with its call.
FairSpec == Spec /\ \A s \in Sessions : WF_vars(ServerStep(s))

----------------------------------------------------------------------------
(* Properties. *)

\* Every row a transaction has written is announced by a version no greater than its
\* own, in a subtransaction that lives at least as long as the row does: no ROLLBACK
\* TO can take the announcement and leave the row.
RowsAreAnnounced ==
    \A s \in Sessions : \A row \in Of("row", s) :
        \E lock \in Of("lock", s) : lock.value <= row.value /\ lock.level <= row.level

\* A reader that has taken everything below the reported minimum never misses a row:
\* none becomes visible below it any more.
NoRowAppearsBelow == [][\A v \in visible' \ visible : v >= reported]_vars

\* Nor does the minimum ever go back.
MinimumNeverFalls == [][reported' >= reported]_vars

\* A session that waits for the session-level lock gets it, or is cancelled, even
\* when the holders before it are cancelled while they hold it.
EveryoneIsServed == \A s \in Sessions : pc[s] \in Waiting ~> pc[s] \notin Waiting
=============================================================================
