--------------------------- MODULE NumberSequences ---------------------------
(***************************************************************************)
(* One number sequence of AL: number_sequence_v1 and reserve_sequence_v1,   *)
(* the server functions NumberSequenceStorage.cpp installs, called by many  *)
(* sessions at once. A registry row names a PostgreSQL sequence. Creating,   *)
(* dropping and restarting it belong to the caller's transaction; what is    *)
(* drawn from it does not, and stays drawn when the transaction rolls back.  *)
(*                                                                         *)
(* Two advisory locks hold this together: one on the name for the rest of    *)
(* the transaction, exclusive to change the sequence and shared to draw from *)
(* it, and one for the session while it draws, which an error does not       *)
(* release by itself.                                                        *)
(*                                                                         *)
(* An action is one statement of a function's body, or one statement of the  *)
(* client between two calls.                                                 *)
(***************************************************************************)
EXTENDS Integers, Sequences

CONSTANTS
    Sessions,           \* the server's sessions
    NoSession,          \* nobody holds the session-level lock
    MinValue, MaxValue, \* of a PostgreSQL sequence: those of a bigint
    Seeds, Increments,  \* what callers ask for
    Counts,
    CancelPoints,       \* the steps at which a cancel may hit a call
    MaxLevel,           \* bound: savepoints of a session, its BEGIN included
    MaxCalls,           \* bound: calls of the functions
    MaxFaults           \* bound: cancelled calls and lost connections

ASSUME NumberSequencesAssumption ==
    /\ NoSession \notin Sessions
    /\ MinValue \in Int /\ MaxValue \in Int /\ 0 \in MinValue..MaxValue
    /\ Seeds \subseteq MinValue..MaxValue /\ Increments \subseteq Int /\ Counts \subseteq Int
    /\ CancelPoints \subseteq {"identity", "change", "own", "look", "read", "write", "unlock"}
    /\ MaxLevel \in Nat /\ MaxCalls \in Nat /\ MaxFaults \in Nat

\* A storage file of a sequence: each CREATE and each RESTART makes a new one.
Files == 1..MaxCalls

\* No sequence, in the registry; and what a transaction that changes nothing leaves there.
Absent    == 0
Unchanged == -1

VARIABLES
    storage,   \* of each file: its first value, last_value, is_called and increment
    files,     \* how many files there have been
    given,     \* history: the values drawn from each file, in order
    registry,  \* the file that the name stands for, committed
    owner,     \* who holds the session-level lock
    pc,        \* per session: the next statement
    frame,     \* per session: parameters and variables of the running call
    held,      \* per session: what its transaction has done and locked
    saved,     \* per session: the same at its BEGIN and at each savepoint
    calls, faults

database == <<storage, files, given>>
counts   == <<calls, faults>>
vars     == <<database, registry, owner, pc, frame, held, saved, counts>>

Values == MinValue..MaxValue

Mutations   == {"insert", "delete", "restart"}
Allocations == {"current", "reserve"}

Request == [op : Mutations \cup Allocations, seed : Seeds \cup {0}, increment : Increments \cup {1},
            count : Counts \cup {1}]

\* entry: the file that the call has found; last, called: what reserve_sequence_v1 has
\* read of it.
Frame == [request : Request, entry : Files \cup {Absent}, last : Values, called : BOOLEAN]

Blank == [request |-> [op |-> "current", seed |-> 0, increment |-> 1, count |-> 1],
          entry |-> Absent, last |-> MinValue, called |-> FALSE]

\* file: what it made the name stand for; shared, exclusive: its locks on the name;
\* drawn: files it has drawn from.
Held == [file : Files \cup {Absent, Unchanged}, shared : BOOLEAN, exclusive : BOOLEAN,
         drawn : SUBSET Files]

Nothing == [file |-> Unchanged, shared |-> FALSE, exclusive |-> FALSE, drawn |-> {}]

\* In the block with the exception handler, which unlocks.
Guarded == {"own", "look", "read", "write"}
Waiting == {"identity", "own"}
Steps   == {"client", "change", "unlock", "handler", "failed"} \cup Guarded \cup Waiting

Storage == [first : Values, last : Values, called : BOOLEAN, increment : Int]

TypeOK ==
    /\ storage \in [Files -> Storage] /\ files \in 0..MaxCalls
    /\ given \in [Files -> Seq(Values)]
    /\ registry \in Files \cup {Absent}
    /\ owner \in Sessions \cup {NoSession}
    /\ pc \in [Sessions -> Steps]
    /\ frame \in [Sessions -> Frame]
    /\ held \in [Sessions -> Held]
    /\ saved \in [Sessions -> Seq(Held)]
    /\ calls \in 0..MaxCalls /\ faults \in Nat

Init ==
    /\ storage = [f \in Files |->
          [first |-> MinValue, last |-> MinValue, called |-> FALSE, increment |-> 1]]
    /\ files = 0
    /\ given = [f \in Files |-> <<>>]
    /\ registry = Absent
    /\ owner = NoSession
    /\ pc = [s \in Sessions |-> "client"]
    /\ frame = [s \in Sessions |-> Blank]
    /\ held = [s \in Sessions |-> Nothing]
    /\ saved = [s \in Sessions |-> <<>>]
    /\ calls = 0 /\ faults = 0

----------------------------------------------------------------------------

Goes(s, from, to) == pc[s] = from /\ pc' = [pc EXCEPT ![s] = to]

Op(s) == frame[s].request.op

\* The end of a call and of its variables.
Returns(s, from) == Goes(s, from, "client") /\ frame' = [frame EXCEPT ![s] = Blank]

\* What a session sees in the registry: its own change, or what is committed.
View(s) == IF held[s].file = Unchanged THEN registry ELSE held[s].file

Released(s) == IF owner = s THEN NoSession ELSE owner

\* A statement fails: the innermost savepoint's subtransaction, or the transaction, is
\* undone at once, with its locks.
Fails(s) ==
    /\ pc' = [pc EXCEPT ![s] = "failed"]
    /\ frame' = [frame EXCEPT ![s] = Blank]
    /\ held' = [held EXCEPT ![s] = saved[s][Len(saved[s])]]

Fault == faults < MaxFaults /\ faults' = faults + 1

----------------------------------------------------------------------------
(* number_sequence_v1: the locks. *)

\* Operate. The parameters an operation has no use for keep their defaults.
Call(s, r) ==
    /\ saved[s] # <<>>
    /\ calls < MaxCalls /\ calls' = calls + 1
    /\ Goes(s, "client", "identity")
    /\ IF r.op = "insert" THEN r.increment \in Increments ELSE r.increment = 1
    /\ IF r.op \in {"insert", "restart"} THEN r.seed \in Seeds ELSE r.seed = 0
    /\ IF r.op = "reserve" THEN r.count \in Counts ELSE r.count = 1
    /\ frame' = [frame EXCEPT ![s].request = r]
    /\ UNCHANGED <<database, registry, owner, held, saved, faults>>

LockIdentity(s, mode) ==
    /\ IF mode = "exclusive"
       THEN /\ \A t \in Sessions \ {s} : ~ held[t].shared /\ ~ held[t].exclusive
            /\ held' = [held EXCEPT ![s].exclusive = TRUE]
       ELSE /\ \A t \in Sessions \ {s} : ~ held[t].exclusive
            /\ held' = [held EXCEPT ![s].shared = TRUE]
    /\ Goes(s, "identity", IF Op(s) \in Mutations THEN "change" ELSE "own")
    /\ UNCHANGED <<database, registry, owner, frame, saved, counts>>

\* Mutant: whoever draws is enough of an exclusion for a restart.
LockShared(s) ==
    LockIdentity(s, IF Op(s) \in Mutations \ {"restart"} THEN "exclusive" ELSE "shared")

\* pg_advisory_xact_lock and pg_advisory_xact_lock_shared of the identity.
Lock(s) == LockIdentity(s, IF Op(s) \in Mutations THEN "exclusive" ELSE "shared")

OwnIf(s, free) ==
    /\ free
    /\ Goes(s, "own", "look")
    /\ owner' = s
    /\ UNCHANGED <<database, registry, frame, held, saved, counts>>

\* Mutant: nobody waits for the session-level lock.
OwnAtOnce(s) == OwnIf(s, TRUE)

\* pg_advisory_lock of the identity's odd twin.
Own(s) == OwnIf(s, owner = NoSession)

----------------------------------------------------------------------------
(* Changing the sequence, in the caller's transaction. *)

\* The bound holds: a call makes one file at most.
NewFile(s, seed, increment) ==
    /\ files < MaxCalls /\ files' = files + 1
    /\ storage' = [storage EXCEPT ![files + 1] =
          [first |-> seed, last |-> seed, called |-> FALSE, increment |-> increment]]
    /\ held' = [held EXCEPT ![s].file = files + 1]

\* A name that exists already and an increment of zero are refused.
Insert(s) ==
    /\ Op(s) = "insert"
    /\ \/ /\ View(s) = Absent /\ frame[s].request.increment # 0
          /\ Returns(s, "change")
          /\ NewFile(s, frame[s].request.seed, frame[s].request.increment)
       \/ /\ View(s) # Absent \/ frame[s].request.increment = 0
          /\ pc[s] = "change" /\ Fails(s)
          /\ UNCHANGED <<storage, files>>
    /\ UNCHANGED <<given, registry, owner, saved, counts>>

\* Without a sequence the function returns no row: an error of AL, not of the statement.
Delete(s) ==
    /\ Op(s) = "delete"
    /\ Returns(s, "change")
    /\ held' = [held EXCEPT ![s].file = IF View(s) = Absent THEN @ ELSE Absent]
    /\ UNCHANGED <<database, registry, owner, saved, counts>>

Restart(s) ==
    /\ Op(s) = "restart"
    /\ Returns(s, "change")
    /\ \/ View(s) = Absent /\ UNCHANGED <<storage, files, held>>
       \/ View(s) # Absent /\ NewFile(s, frame[s].request.seed, storage[View(s)].increment)
    /\ UNCHANGED <<given, registry, owner, saved, counts>>

----------------------------------------------------------------------------
(* Drawing from it. *)

Look(s) ==
    /\ Goes(s, "look", IF View(s) = Absent \/ Op(s) = "current" THEN "unlock" ELSE "read")
    /\ frame' = [frame EXCEPT ![s].entry = View(s)]
    /\ UNCHANGED <<database, registry, owner, held, saved, counts>>

\* reserve_sequence_v1 raises for a range of no values, and its caller if the storage of
\* the registry's row is missing.
Read(s) ==
    LET now == storage[frame[s].entry] IN
    /\ Goes(s, "read", IF frame[s].request.count < 1 \/ View(s) # frame[s].entry
                       THEN "handler" ELSE "write")
    /\ frame' = [frame EXCEPT ![s].last = now.last, ![s].called = now.called]
    /\ UNCHANGED <<database, registry, owner, held, saved, counts>>

\* The values a call reserves, from the first to the final one. They are computed as numeric, so
\* that they cannot overflow.
Reserved(s) ==
    LET increment == storage[frame[s].entry].increment
        first == frame[s].last + (IF frame[s].called THEN increment ELSE 0)
    IN [i \in 1..frame[s].request.count |-> first + (i - 1) * increment]

First(s) == Reserved(s)[1]
Final(s) == Reserved(s)[frame[s].request.count]

WriteIf(s, fits) ==
    LET f == frame[s].entry IN
    /\ pc[s] = "write"
    /\ \/ /\ fits
          /\ Goes(s, "write", "unlock")
          /\ storage' = [storage EXCEPT ![f].last = Final(s), ![f].called = TRUE]
          /\ given' = [given EXCEPT ![f] = @ \o Reserved(s)]
          /\ held' = [held EXCEPT ![s].drawn = @ \cup {f}]
       \/ /\ ~ fits
          /\ Goes(s, "write", "handler")
          /\ UNCHANGED <<storage, given, held>>
    /\ UNCHANGED <<files, registry, owner, frame, saved, counts>>

\* Mutant: only the first value is compared with the bounds.
WriteFirstFits(s) == WriteIf(s, First(s) \in Values)

\* setval, which is in force at once, for everybody and whatever the transaction becomes.
Write(s) == WriteIf(s, First(s) \in Values /\ Final(s) \in Values)

UnlockThen(s, shared) ==
    /\ Returns(s, "unlock")
    /\ owner' = Released(s)
    /\ held' = [held EXCEPT ![s].shared = shared]
    /\ UNCHANGED <<database, registry, saved, counts>>

\* Mutant: the lock on the name does not outlive the call.
UnlockBoth(s) == UnlockThen(s, FALSE)

\* The session-level lock only; the one on the name lasts as long as the transaction.
Unlock(s) == UnlockThen(s, held[s].shared)

----------------------------------------------------------------------------
(* Errors. *)

HandleThen(s, released) ==
    /\ pc[s] = "handler"
    /\ Fails(s)
    /\ owner' = released
    /\ UNCHANGED <<database, registry, saved, counts>>

\* Mutant: the handler forgets the lock.
HandlerKeepsLock(s) == HandleThen(s, owner)

\* The handler unlocks and raises again, which fails the calling statement.
Handler(s) == HandleThen(s, Released(s))

\* A cancel or a timeout. Outside the guarded block nothing unlocks.
Cancel(s) ==
    /\ pc[s] \in CancelPoints
    /\ Fault
    /\ \/ pc[s] \in Guarded /\ pc' = [pc EXCEPT ![s] = "handler"] /\ UNCHANGED <<frame, held>>
       \/ pc[s] \notin Guarded /\ Fails(s)
    /\ UNCHANGED <<database, registry, owner, saved, calls>>

\* Two transactions that have drawn both want to change the sequence: the server's
\* deadlock detector fails one of them.
Deadlocked(s) ==
    /\ pc[s] = "identity" /\ Op(s) \in Mutations
    /\ held[s].shared

DeadlockDetected(s) ==
    /\ Deadlocked(s)
    /\ \E t \in Sessions \ {s} : Deadlocked(t)
    /\ Fails(s)
    /\ UNCHANGED <<database, registry, owner, saved, counts>>

\* The connection breaks: the server ends the session and releases what it held.
Terminate(s) ==
    /\ saved[s] # <<>>
    /\ Fault
    /\ pc' = [pc EXCEPT ![s] = "client"] /\ frame' = [frame EXCEPT ![s] = Blank]
    /\ owner' = Released(s)
    /\ held' = [held EXCEPT ![s] = Nothing] /\ saved' = [saved EXCEPT ![s] = <<>>]
    /\ UNCHANGED <<database, registry, calls>>

----------------------------------------------------------------------------
(* The client's transaction. *)

\* BEGIN, and a savepoint in it.
Savepoint(s) ==
    /\ Len(saved[s]) < MaxLevel
    /\ Goes(s, "client", "client")
    /\ saved' = [saved EXCEPT ![s] = Append(@, held[s])]
    /\ UNCHANGED <<database, registry, owner, frame, held, counts>>

Release(s) ==
    /\ Len(saved[s]) > 1
    /\ Goes(s, "client", "client")
    /\ saved' = [saved EXCEPT ![s] = SubSeq(@, 1, Len(@) - 1)]
    /\ UNCHANGED <<database, registry, owner, frame, held, counts>>

AtRest(s) == Goes(s, "client", "client") \/ Goes(s, "failed", "client")

RollbackTo(s, n) ==
    /\ n \in 2..Len(saved[s])
    /\ AtRest(s)
    /\ held' = [held EXCEPT ![s] = saved[s][n]]
    /\ saved' = [saved EXCEPT ![s] = SubSeq(@, 1, n)]
    /\ UNCHANGED <<database, registry, owner, frame, counts>>

Rollback(s) ==
    /\ saved[s] # <<>>
    /\ AtRest(s)
    /\ held' = [held EXCEPT ![s] = Nothing] /\ saved' = [saved EXCEPT ![s] = <<>>]
    /\ UNCHANGED <<database, registry, owner, frame, counts>>

Commit(s) ==
    /\ saved[s] # <<>>
    /\ Goes(s, "client", "client")
    /\ registry' = View(s)
    /\ held' = [held EXCEPT ![s] = Nothing] /\ saved' = [saved EXCEPT ![s] = <<>>]
    /\ UNCHANGED <<database, owner, frame, counts>>

----------------------------------------------------------------------------

ServerStep(s) ==
    \/ Insert(s) \/ Delete(s) \/ Restart(s)
    \/ Look(s) \/ Read(s) \/ Write(s) \/ Unlock(s) \/ Handler(s) \/ DeadlockDetected(s)

ClientStep(s) ==
    \/ \E r \in Request : Call(s, r)
    \/ Savepoint(s) \/ Release(s)
    \/ \E n \in 2..MaxLevel : RollbackTo(s, n)

EndTransaction(s) == Rollback(s) \/ Commit(s)

Next ==
    \E s \in Sessions :
        \/ Lock(s) \/ Own(s) \/ ServerStep(s)
        \/ ClientStep(s) \/ EndTransaction(s)
        \/ Cancel(s) \/ Terminate(s)

Spec == Init /\ [][Next]_vars

\* A backend goes on with its call, waiters for a lock are served in their order, and an
\* AL command ends its transaction.
FairSpec ==
    /\ Spec
    /\ \A s \in Sessions :
          /\ WF_vars(ServerStep(s)) /\ WF_vars(EndTransaction(s))
          /\ SF_vars(Lock(s)) /\ SF_vars(Own(s))

----------------------------------------------------------------------------
(* Properties. *)

\* However many sessions draw at once, whatever they roll back and wherever they fail: the
\* values drawn from a sequence are its first value and then, increment by increment, those
\* up to the last, each of them once and none left out.
GivenInOrder ==
    \A f \in Files :
        /\ \A i \in DOMAIN given[f] :
              given[f][i] = storage[f].first + (i - 1) * storage[f].increment
        /\ given[f] # <<>> => storage[f].called /\ storage[f].last = given[f][Len(given[f])]

\* A transaction that has drawn numbers keeps the sequence they are from until it ends: no
\* other transaction deletes or restarts it under them.
NumbersStayCurrent ==
    \A s \in Sessions :
        held[s].file = Unchanged => \A f \in held[s].drawn : f = registry

\* Between looking the name up and drawing, the sequence stays what the name stands for, for
\* the session itself and for everybody once it commits.
DrawsFromCurrent ==
    \A s \in Sessions : pc[s] \in {"read", "write"} =>
        frame[s].entry = View(s) /\ \A t \in Sessions \ {s} : held[t].file = Unchanged

\* Whatever becomes of a call, no session keeps the session-level lock after it.
NoLockLeft == owner \in Sessions => pc[owner] \notin {"client", "failed"}

\* A call that waits for a lock gets it or fails, provided that transactions end.
EveryCallIsServed == \A s \in Sessions : pc[s] \in Waiting ~> pc[s] \notin Waiting
=============================================================================
