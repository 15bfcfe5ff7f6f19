----------------------------- MODULE Boundaries -----------------------------
(***************************************************************************)
(* One AL session on its pinned PostgreSQL connection: the boundary stack  *)
(* of class Boundaries (Transaction.cpp), the scopes of the AL call stack   *)
(* that open and close boundaries (Scope, Codeunit.Run, asserterror, test   *)
(* isolation, SessionCommand), and the server's transaction.                *)
(*                                                                         *)
(* The session is one thread, so an action is one call of Boundaries, with *)
(* the statement that fails inside it (if one does) chosen by \E. pc says   *)
(* what the thread does next: run AL code, unwind an error, or finish the   *)
(* two-part completion of an evaluated Run or of a command.                 *)
(***************************************************************************)
EXTENDS Naturals, Sequences

CONSTANTS
    Rows,             \* the rows the program can write, each at most once
    Tables,           \* the tables CONSISTENT is called for
    Cursors,          \* the cursor names in play
    Closed,           \* the epoch of a cursor object that does not exist
    Hosted,           \* AL runs only inside session commands (TRUE), or on an owned session
    DisableTryWrites, \* the runtime option disableWriteInsideTryFunctions
    ScopeKinds,       \* the kinds of scope the AL program of an instance uses
    FaultKinds,       \* what may go wrong: subset of {"statement", "commit", "lost"}
    MaxFaults,        \* bound: how often it goes wrong
    MaxFrames,        \* bound: scopes open at once
    MaxIssued,        \* bound: savepoint names issued
    MaxTries,         \* bound: consumed try calls active at once
    MaxCollected,     \* bound: collected errors
    MaxEpoch,         \* bound: the epoch in which the last cursor is opened
    Doomed            \* what ImplementsPromise maps a failed transaction to

ASSUME BoundariesAssumption ==
    /\ Hosted \in BOOLEAN /\ DisableTryWrites \in BOOLEAN
    /\ ScopeKinds \subseteq {"run", "value", "assert", "test"}
    /\ FaultKinds \subseteq {"statement", "commit", "lost"}
    /\ MaxFaults \in Nat /\ MaxFrames \in Nat /\ MaxIssued \in Nat
    /\ MaxTries \in Nat /\ MaxCollected \in Nat /\ MaxEpoch \in Nat
    /\ Closed \notin Nat

VARIABLES
    \* class Boundaries
    names,         \* names_: the open boundaries, innermost last
    inconsistent,  \* inconsistent_
    floor,         \* isolationFloor_
    writing,       \* writing_
    tryDepth,      \* tryDepth_
    epoch,         \* cursorEpoch_
    issued,        \* issued_
    \* the PostgreSQL session (external)
    status,        \* idle, active, failed, or lost with the connection
    committed,     \* rows other connections see
    view,          \* rows this session has written or seen committed
    saves,         \* its savepoints, innermost last
    cursors,       \* its open cursors
    \* the AL program and its C++ stack
    frames,        \* live Scope objects, innermost last
    pc,            \* al, raise, drop, keep, seal or detach
    collected,     \* collected errors of the session
    opened,        \* Cursor objects: the epoch they were opened in
    used,          \* rows ever written (each row is written once)
    faults         \* failures so far

session == <<names, inconsistent, floor, writing, tryDepth, epoch, issued>>
server  == <<status, committed, view, saves, cursors>>
program == <<frames, pc, collected, opened, used, faults>>
vars    == <<session, server, program>>

Statuses == {"idle", "active", "failed", "lost"}
Phases   == {"al", "raise", "drop", "keep", "seal", "detach"}

\* The kinds of Scope, by who closes it:
\*   run      statement Codeunit.Run, Report, XmlPort, OpenCompany
\*   value    evaluated Codeunit.Run (Ok_Run) and isolated event subscribers
\*   assert   asserterror
\*   test     a test runner's isolation scope with its IsolationFloor
\*   command  SessionCommand's root boundary
Kinds == {"run", "value", "assert", "test", "command"}

\* The rows and marks a rollback of a scope is meant to restore.
WorkState == [data : SUBSET Rows, marks : SUBSET Tables]

ASSUME DoomedAssumption == Doomed \notin WorkState

Boundary == [name : Nat, inconsistentBefore : SUBSET Tables, writingBefore : BOOLEAN]

Savepoint == [name : Nat, view : SUBSET Rows, cursors : SUBSET Cursors]

\* A live Scope: depth_ is the code's, triesBefore and collectedBefore are the
\* tryDepth_ and the collection size at its entry, floorBefore is previous_ of
\* its IsolationFloor. mark is a history variable only the properties read.
Frame == [kind : Kinds, depth : Nat \ {0}, triesBefore : Nat, collectedBefore : Nat,
          floorBefore : Nat, mark : WorkState]

TypeOK ==
    /\ names \in Seq(Boundary)
    /\ inconsistent \in SUBSET Tables
    /\ floor \in Nat /\ tryDepth \in Nat /\ epoch \in Nat /\ issued \in Nat
    /\ writing \in BOOLEAN
    /\ status \in Statuses
    /\ committed \in SUBSET Rows /\ view \in SUBSET Rows
    /\ saves \in Seq(Savepoint)
    /\ cursors \in SUBSET Cursors
    /\ frames \in Seq(Frame)
    /\ pc \in Phases
    /\ collected \in Nat
    /\ opened \in [Cursors -> Nat \cup {Closed}]
    /\ used \in SUBSET Rows
    /\ faults \in Nat

Init ==
    /\ names = <<>> /\ inconsistent = {} /\ floor = 0 /\ writing = FALSE
    /\ tryDepth = 0 /\ epoch = 0 /\ issued = 0
    /\ status = "idle" /\ committed = {} /\ view = {} /\ saves = <<>> /\ cursors = {}
    /\ frames = <<>> /\ pc = "al" /\ collected = 0
    /\ opened = [c \in Cursors |-> Closed]
    /\ used = {} /\ faults = 0

Prefix(s, n) == SubSeq(s, 1, n)

----------------------------------------------------------------------------
(* The server. *)

Fault(kind) ==
    /\ kind \in FaultKinds
    /\ faults < MaxFaults
    /\ faults' = faults + 1

\* PQTRANS_INTRANS or PQTRANS_INERROR; a lost connection reports PQTRANS_UNKNOWN.
InTransaction == status \in {"active", "failed"}

\* The connection breaks under a statement. The server aborts; the session keeps
\* its idea of what it has written (view).
Severed ==
    /\ status # "lost"
    /\ Fault("lost")
    /\ status' = "lost"
    /\ saves' = <<>>
    /\ cursors' = {}

\* A statement, or the BEGIN before it, is refused: by a transaction that has
\* failed or a connection that is gone, or with an error of its own.
Refused ==
    \/ /\ status \in {"failed", "lost"}
       /\ UNCHANGED <<status, saves, cursors, faults>>
    \/ /\ status \in {"idle", "active"}
       /\ Fault("statement")
       /\ status' = "failed"
       /\ UNCHANGED <<saves, cursors>>
    \/ Severed

----------------------------------------------------------------------------
(* Frames. *)

Top == frames[Len(frames)]

\* The try calls entered before the innermost scope; anything above is inside it.
TriesBelow == IF frames = <<>> THEN 0 ELSE Top.triesBefore

Running == pc = "al" /\ (Hosted => frames # <<>>)

\* The body of the innermost scope has run to its end.
BodyEnds(kinds) ==
    /\ pc = "al"
    /\ frames # <<>>
    /\ Top.kind \in kinds
    /\ tryDepth = Top.triesBefore

Popped ==
    /\ frames' = Prefix(frames, Len(frames) - 1)
    /\ floor' = IF Top.kind = "test" THEN Top.floorBefore ELSE floor

\* What scopes deeper than from are restored to, once a Commit has run.
Remarked(from, data) ==
    [i \in 1..Len(frames) |->
        IF frames[i].depth > from
        THEN [frames[i] EXCEPT !.mark = [data |-> data, marks |-> {}]]
        ELSE frames[i]]

----------------------------------------------------------------------------
(* Boundaries::Open, Release and Rollback. *)

OpenBoundary ==
    /\ status \in {"idle", "active"}
    /\ status' = "active"
    /\ issued' = issued + 1
    /\ names' = Append(names, [name |-> issued + 1, inconsistentBefore |-> inconsistent,
                               writingBefore |-> writing])
    /\ saves' = Append(saves, [name |-> issued + 1, view |-> view, cursors |-> cursors])
    /\ UNCHANGED <<inconsistent, writing, tryDepth, epoch, committed, view, cursors, faults>>

OpenFails ==
    /\ IF floor > Len(names)
       THEN UNCHANGED <<status, saves, cursors, faults, issued>>
       ELSE Refused /\ issued' = issued + 1
    /\ UNCHANGED <<names, inconsistent, writing, tryDepth, epoch, committed, view>>

RestoreBoundaryTo(d, data, stack, phase, age) ==
    /\ status' = "active"
    /\ view' = data
    /\ cursors' = saves[d].cursors
    /\ saves' = stack
    /\ names' = Prefix(names, d - 1)
    /\ inconsistent' = names[d].inconsistentBefore
    /\ writing' = phase
    /\ epoch' = age

\* Mutants: the ROLLBACK TO or the RELEASE is left out, the write phase is not
\* restored, the cursors' epoch does not move.
RestoreWithoutRollbackTo(d) ==
    RestoreBoundaryTo(d, view, Prefix(saves, d - 1), names[d].writingBefore, epoch + 1)
RestoreWithoutRelease(d) ==
    RestoreBoundaryTo(d, saves[d].view, Prefix(saves, d), names[d].writingBefore, epoch + 1)
RestoreWithoutPhase(d) ==
    RestoreBoundaryTo(d, saves[d].view, Prefix(saves, d - 1), FALSE, epoch + 1)
RestoreWithoutEpoch(d) ==
    RestoreBoundaryTo(d, saves[d].view, Prefix(saves, d - 1), names[d].writingBefore, epoch)

\* ROLLBACK TO and RELEASE both succeeded for the boundary at depth d.
RestoreBoundary(d) ==
    RestoreBoundaryTo(d, saves[d].view, Prefix(saves, d - 1), names[d].writingBefore, epoch + 1)

RollsBack(d) ==
    /\ IF d > Len(names)
       THEN UNCHANGED <<status, view, cursors, saves, names, inconsistent, writing, epoch>>
       ELSE InTransaction /\ d <= Len(saves) /\ RestoreBoundary(d)
    /\ UNCHANGED faults

\* One of the two statements failed, so neither names_ nor the epoch moved. When it
\* was the RELEASE, the savepoints above are gone and names_ still lists them.
RollbackThrows(d) ==
    /\ d <= Len(names)
    /\ \/ status = "lost" /\ UNCHANGED <<status, view, saves, cursors, faults>>
       \/ Severed /\ UNCHANGED view
       \/ status = "failed" /\ d > Len(saves) /\ UNCHANGED <<status, view, saves, cursors, faults>>
       \/ /\ InTransaction /\ Fault("statement")
          /\ status' = "failed"
          /\ \/ UNCHANGED <<view, saves, cursors>>
             \/ /\ d <= Len(saves)
                /\ view' = saves[d].view
                /\ cursors' = saves[d].cursors
                /\ saves' = Prefix(saves, d)
    /\ UNCHANGED <<names, inconsistent, writing, epoch>>

Releases(d) ==
    /\ IF d > Len(names)
       THEN UNCHANGED <<names, saves>>
       ELSE /\ status = "active"
            /\ names' = Prefix(names, d - 1)
            /\ saves' = Prefix(saves, d - 1)
    /\ UNCHANGED <<status, view, cursors, inconsistent, writing, epoch, faults>>

\* The RELEASE was refused: the boundary is rolled back and the error raised.
ReleaseThrows(d) ==
    \/ /\ d <= Len(names)
       /\ \/ status = "failed" /\ UNCHANGED faults
          \/ status = "active" /\ Fault("statement")
       /\ d <= Len(saves)
       /\ RestoreBoundary(d)
    \/ RollbackThrows(d)

----------------------------------------------------------------------------
(* Boundaries::Commit. *)

\* Mutant: a failed transaction is committed.
CommitRefusedUnlessFailed == floor > Len(names) \/ inconsistent # {}

CommitRefused ==
    \/ floor > Len(names)
    \/ status = "failed"
    \/ inconsistent # {}

Renewals == Len(names) - floor

\* The boundaries after the floor and the first n of the renewed ones are set.
RenewedNames(n) ==
    [i \in 1..(floor + n) |->
        IF i <= floor
        THEN names[i]
        ELSE [name |-> issued + (i - floor), inconsistentBefore |-> inconsistent,
              writingBefore |-> FALSE]]

\* Mutant: a Commit leaves the enclosing boundaries where they were.
RenewedInPlace(n, data, open) ==
    [i \in 1..(floor + n) |->
        IF i <= floor
        THEN saves[i]
        ELSE [saves[i] EXCEPT !.name = issued + (i - floor), !.cursors = open]]

RenewedSaves(n, data, open) ==
    [i \in 1..(floor + n) |->
        IF i <= floor
        THEN saves[i]
        ELSE [name |-> issued + (i - floor), view |-> data, cursors |-> open]]

\* COMMIT ends the transaction: a failed one is rolled back, and reported so only
\* in the command tag, which Connection::Execute does not read.
ServerCommits ==
    /\ committed' = IF status = "failed" THEN committed ELSE view
    /\ view' = committed'
    /\ cursors' = {}

\* Mutant: the isolation floor does not hold a COMMIT back.
CommitsThroughFloor == InTransaction

CommitsToServer == floor = 0 /\ InTransaction

CommitDone ==
    /\ writing' = FALSE
    /\ issued' = issued + Renewals
    /\ IF CommitsToServer
       THEN /\ ServerCommits
            /\ epoch' = epoch + 1
            /\ names' = RenewedNames(Renewals)
            /\ saves' = RenewedSaves(Renewals, view', {})
            /\ status' = IF names = <<>> THEN "idle" ELSE "active"
            /\ frames' = Remarked(0, view')
       ELSE /\ Renewals > 0 => floor > 0 /\ InTransaction
            /\ names' = RenewedNames(Renewals)
            /\ saves' = IF InTransaction THEN RenewedSaves(Renewals, view, cursors) ELSE saves
            /\ frames' = IF InTransaction THEN Remarked(floor, view) ELSE frames
            /\ UNCHANGED <<status, committed, view, cursors, epoch>>
    /\ UNCHANGED <<inconsistent, faults>>

\* Mutant: the boundaries outlive the transaction they were part of.
KeepsDeadBoundaries == UNCHANGED <<names, inconsistent, writing>>

\* The handler in Boundaries::Commit: the transaction is gone, and its boundaries.
DropsDeadBoundaries == names' = <<>> /\ inconsistent' = {} /\ writing' = FALSE

\* COMMIT itself fails (a deferred constraint, say): the server ends the transaction.
CommitRejected ==
    /\ floor = 0 /\ status = "active"
    /\ Fault("commit")
    /\ status' = "idle"
    /\ view' = committed
    /\ saves' = <<>> /\ cursors' = {}
    /\ DropsDeadBoundaries
    /\ epoch' = epoch + 1
    /\ frames' = Remarked(0, committed)
    /\ UNCHANGED committed

\* The connection breaks before, in or after the COMMIT, or was broken already and
\* there are boundaries to renew. A break in the COMMIT leaves its outcome open.
CommitSevered ==
    /\ IF status = "lost"
       THEN Renewals > 0 /\ UNCHANGED <<status, saves, cursors, faults>>
       ELSE status = "active" /\ (floor = 0 \/ Renewals > 0) /\ Severed
    /\ \/ committed' = committed /\ frames' = frames /\ epoch' = epoch + 1
       \/ /\ floor = 0 /\ status = "active"
          /\ committed' = view /\ frames' = Remarked(0, view)
          /\ epoch' \in IF names = <<>> THEN {epoch + 1} ELSE {epoch + 1, epoch + 2}
    /\ DropsDeadBoundaries
    /\ UNCHANGED view

\* A SAVEPOINT of the renewal is refused: the boundaries after it are not renewed.
RenewalRefused ==
    /\ status = "active" /\ Renewals > 0
    /\ Fault("statement")
    /\ status' = "failed"
    /\ \E n \in 0..(Renewals - 1) :
          /\ names' = RenewedNames(n)
          /\ saves' = RenewedSaves(n, view, IF floor = 0 THEN {} ELSE cursors)
    /\ IF floor = 0
       THEN /\ committed' = view /\ cursors' = {} /\ epoch' = epoch + 1
            /\ writing' = FALSE
       ELSE UNCHANGED <<committed, cursors, epoch, writing>>
    /\ frames' = Remarked(floor, view)
    /\ UNCHANGED <<view, inconsistent>>

\* Under a floor the RELEASE comes first and may be refused too.
FloorReleaseRefused ==
    /\ floor > 0 /\ status = "active" /\ Renewals > 0
    /\ Fault("statement")
    /\ status' = "failed"
    /\ UNCHANGED <<names, saves, committed, view, cursors, epoch, writing, inconsistent, frames>>

CommitThrows ==
    /\ issued' = issued + Renewals
    /\ CommitRejected \/ CommitSevered \/ RenewalRefused \/ FloorReleaseRefused

\* Boundaries::Commit, after which the thread goes on at done or, on an error, at thrown.
CommitBoundaries(done, thrown) ==
    /\ issued + Len(names) <= MaxIssued + floor
    /\ IF CommitRefused
       THEN /\ pc' = thrown
            /\ UNCHANGED <<names, inconsistent, writing, epoch, issued, server, frames, faults>>
       ELSE \/ CommitDone /\ pc' = done
            \/ CommitThrows /\ pc' = thrown
    /\ UNCHANGED <<floor, tryDepth, collected, opened, used>>

----------------------------------------------------------------------------
(* Opening scopes. *)

\* Mutant: an evaluated Run starts over pending writes.
RunNeverRefused(kind) == FALSE

\* BeginCodeunitRun: an evaluated Run refuses to start over pending writes.
RunRefused(kind) == kind = "value" /\ writing /\ floor = 0

NewFrame(kind) ==
    [kind |-> kind, depth |-> Len(names) + 1, triesBefore |-> tryDepth,
     collectedBefore |-> collected, floorBefore |-> floor,
     mark |-> [data |-> view, marks |-> inconsistent]]

OpenScope(kind) ==
    /\ Running
    /\ kind = "test" => ~ Hosted
    /\ Len(frames) < MaxFrames /\ issued < MaxIssued
    /\ IF RunRefused(kind)
       THEN /\ pc' = "raise"
            /\ UNCHANGED <<session, server, frames, faults>>
       ELSE \/ /\ ~ floor > Len(names)
               /\ OpenBoundary
               /\ frames' = Append(frames, NewFrame(kind))
               /\ floor' = IF kind = "test" THEN Len(names) + 1 ELSE floor
               /\ UNCHANGED pc
            \/ /\ OpenFails
               /\ pc' = "raise"
               /\ UNCHANGED <<floor, frames>>
    /\ UNCHANGED <<collected, opened, used>>

\* SessionCommand attaches to an idle connection and opens the root boundary; a
\* constructor that fails leaves nothing behind.
BeginCommand ==
    /\ Hosted
    /\ pc = "al" /\ frames = <<>> /\ names = <<>> /\ status = "idle"
    /\ issued < MaxIssued
    /\ OpenBoundary
    /\ frames' = <<NewFrame("command")>>
    /\ UNCHANGED <<floor, pc, collected, opened, used>>

----------------------------------------------------------------------------
(* Closing scopes. *)

\* Scope::Keep on the innermost scope.
KeepTop(kept, thrown) ==
    /\ Popped
    /\ \/ Releases(Top.depth) /\ pc' = kept
       \/ ReleaseThrows(Top.depth) /\ pc' = thrown
    /\ UNCHANGED <<tryDepth, issued, committed, collected, opened, used>>

\* Scope::Discard, Scope::Rollback or ~Scope on the innermost scope.
DropTop(dropped, thrown) ==
    /\ Popped
    /\ \/ RollsBack(Top.depth) /\ pc' = dropped
       \/ RollbackThrows(Top.depth) /\ pc' = thrown
    /\ UNCHANGED <<tryDepth, issued, committed, collected, opened, used>>

EndRun == BodyEnds({"run"}) /\ KeepTop("al", "raise")

\* Report and XmlPort Quit and the exits without a result leave the scope unkept.
QuitRun == BodyEnds({"run"}) /\ DropTop("al", "raise")

\* The statement under asserterror did not raise: it is kept, and that is the error.
EndAssert == BodyEnds({"assert"}) /\ KeepTop("raise", "raise")

\* EndCodeunitRun with newly collected errors; Ok_Run catches a failing rollback.
EndCollectingRun ==
    /\ BodyEnds({"value"})
    /\ collected > Top.collectedBefore
    /\ DropTop("al", "al")

\* EndCodeunitRun: the implicit Commit, then scope.Keep().
EndValueRun ==
    /\ BodyEnds({"value"})
    /\ collected <= Top.collectedBefore
    /\ CommitBoundaries("keep", "drop")

KeepValueRun == pc = "keep" /\ KeepTop("al", "al")

\* The handler of Ok_Run discards the scope after the implicit Commit failed.
DropValueRun == pc = "drop" /\ DropTop("al", "raise")

\* The runner discards its isolation scope whatever the test did.
EndTest == BodyEnds({"test"}) /\ DropTop("al", "raise")

\* An error reaches the innermost scope: a statement Run lets it pass, the others
\* catch it, and all of them roll back.
Unwind ==
    /\ pc = "raise" /\ frames # <<>> /\ tryDepth = Top.triesBefore
    /\ \/ Top.kind = "run" /\ DropTop("raise", "raise")
       \/ Top.kind \in {"value", "assert", "test"} /\ DropTop("al", "raise")

\* Mutant: a command is kept whatever is left of its boundary.
KeepsUnfinished == FALSE

UnfinishedBoundary == Len(names) # 1

\* SessionCommand::Keep, first half: the depth check and the root's RELEASE.
SealCommand ==
    /\ BodyEnds({"command"})
    /\ IF UnfinishedBoundary
       THEN /\ pc' = "raise"
            /\ UNCHANGED <<names, saves, status, view, cursors, inconsistent, writing, epoch,
                           faults>>
       ELSE \/ Releases(1) /\ pc' = "seal"
            \/ ReleaseThrows(1) /\ pc' = "raise"
    /\ UNCHANGED <<frames, floor, tryDepth, issued, committed, collected, opened, used>>

CommitCommand == pc = "seal" /\ CommitBoundaries("detach", "raise")

ClearCommandTo(age) ==
    /\ names' = <<>> /\ inconsistent' = {} /\ floor' = 0 /\ writing' = FALSE /\ tryDepth' = 0
    /\ epoch' = age

\* Mutant: the cursors of one command stay valid in the next.
ClearCommandSameEpoch == ClearCommandTo(epoch)

ClearCommand == ClearCommandTo(epoch + 1)

\* ~SessionCommand or Detach: ROLLBACK what is left, ClearCommand. A connection
\* that cannot is closed, and the next command gets another one.
EndCommand ==
    /\ \/ pc = "detach"
       \/ frames # <<>> /\ Top.kind = "command" /\ tryDepth = Top.triesBefore
          /\ pc \in {"al", "raise"}
    /\ status' = "idle" /\ view' = committed /\ saves' = <<>> /\ cursors' = {}
    /\ ClearCommand
    /\ frames' = <<>> /\ pc' = "al" /\ collected' = 0
    /\ UNCHANGED <<issued, committed, opened, used, faults>>

----------------------------------------------------------------------------
(* AL statements between two scopes. *)

\* A table write: RequireWrite enters the write phase, then the row is stored.
WriteRow(r) ==
    /\ Running
    /\ r \notin used
    /\ IF DisableTryWrites /\ tryDepth # 0
       THEN pc' = "raise" /\ UNCHANGED <<writing, server, used, faults>>
       ELSE /\ used' = used \cup {r}
            /\ \/ /\ status \in {"idle", "active"}
                  /\ status' = "active" /\ writing' = TRUE /\ view' = view \cup {r}
                  /\ UNCHANGED <<pc, saves, cursors, faults>>
               \/ /\ Refused
                  /\ writing' \in IF status = "lost" THEN {writing}
                                  ELSE IF status = "idle" /\ status' = "lost"
                                  THEN {writing, TRUE} ELSE {TRUE}
                  /\ pc' = "raise"
                  /\ UNCHANGED view
            /\ UNCHANGED committed
    /\ UNCHANGED <<names, inconsistent, floor, tryDepth, epoch, issued, frames, collected, opened>>

\* A read that begins the transaction if need be, and may fail.
ReadFails ==
    /\ Running
    /\ Refused
    /\ pc' = "raise"
    /\ UNCHANGED <<session, committed, view, frames, collected, opened, used>>

MarkConsistent(t, consistent) ==
    /\ Running
    /\ inconsistent' = IF consistent THEN inconsistent \ {t} ELSE inconsistent \cup {t}
    /\ UNCHANGED <<names, floor, writing, tryDepth, epoch, issued, server, program>>

\* AL Commit() outside the CommitBehavior scopes and AutoRollback tests that
\* refuse or ignore it.
Commit ==
    /\ Running
    /\ CommitBoundaries("al", "raise")

RaiseError ==
    /\ Running
    /\ pc' = "raise"
    /\ UNCHANGED <<session, server, frames, collected, opened, used, faults>>

EnterTry ==
    /\ Running
    /\ tryDepth < MaxTries
    /\ tryDepth' = tryDepth + 1
    /\ UNCHANGED <<names, inconsistent, floor, writing, epoch, issued, server, program>>

\* The try call returns, or catches the error without rolling anything back.
LeaveTry ==
    /\ pc \in {"al", "raise"}
    /\ tryDepth > TriesBelow
    /\ tryDepth' = tryDepth - 1
    /\ pc' = "al"
    /\ UNCHANGED <<names, inconsistent, floor, writing, epoch, issued, server, frames, collected,
                   opened, used, faults>>

\* The caller of AL on an owned session reports the error and goes on.
HostCatches ==
    /\ ~ Hosted
    /\ pc = "raise" /\ frames = <<>> /\ tryDepth = 0
    /\ pc' = "al"
    /\ UNCHANGED <<session, server, frames, collected, opened, used, faults>>

CollectError ==
    /\ Running
    /\ collected < MaxCollected
    /\ collected' = collected + 1
    /\ UNCHANGED <<session, server, frames, pc, opened, used, faults>>

\* ClearCollectedErrors, or the end of the outermost collecting scope, which raises
\* what was collected unless an error is already on its way.
ClearCollected ==
    /\ collected > 0
    /\ \/ Running /\ pc' \in {"al", "raise"}
       \/ pc = "raise" /\ UNCHANGED pc
    /\ collected' = 0
    /\ UNCHANGED <<session, server, frames, opened, used, faults>>

----------------------------------------------------------------------------
(* class Cursor: a record's open selection. *)

\* A name is used once; the model reuses one when the server has forgotten it.
OpenCursor(c) ==
    /\ Running
    /\ opened[c] = Closed /\ epoch <= MaxEpoch
    /\ c \notin cursors /\ \A i \in DOMAIN saves : c \notin saves[i].cursors
    /\ status \in {"idle", "active"}
    /\ status' = "active"
    /\ cursors' = cursors \cup {c}
    /\ opened' = [opened EXCEPT ![c] = epoch]
    /\ UNCHANGED <<session, committed, view, saves, frames, pc, collected, used, faults>>

\* Cursor::Current, which decides whether the next step fetches or reopens.
CursorCurrent(c) == opened[c] = epoch /\ InTransaction

\* Cursor::~Cursor closes what the server still has.
CloseCursor(c) ==
    /\ pc \in {"al", "raise"}
    /\ opened[c] # Closed
    /\ opened' = [opened EXCEPT ![c] = Closed]
    /\ cursors' = IF status = "active" THEN cursors \ {c} ELSE cursors
    /\ UNCHANGED <<session, status, committed, view, saves, frames, pc, collected, used, faults>>

----------------------------------------------------------------------------

ScopeStep ==
    \/ \E kind \in ScopeKinds : OpenScope(kind)
    \/ EndRun \/ QuitRun \/ EndAssert \/ EndTest
    \/ EndCollectingRun \/ EndValueRun \/ KeepValueRun \/ DropValueRun
    \/ Unwind

CommandStep == BeginCommand \/ SealCommand \/ CommitCommand \/ EndCommand

ProgramStep ==
    \/ \E r \in Rows : WriteRow(r)
    \/ ReadFails
    \/ \E t \in Tables, consistent \in BOOLEAN : MarkConsistent(t, consistent)
    \/ Commit
    \/ RaiseError \/ EnterTry \/ LeaveTry \/ HostCatches
    \/ CollectError \/ ClearCollected
    \/ \E c \in Cursors : OpenCursor(c) \/ CloseCursor(c)

Next == ScopeStep \/ CommandStep \/ ProgramStep

Spec == Init /\ [][Next]_vars

----------------------------------------------------------------------------
(* Properties. *)

\* The session's boundary stack and the server's savepoint stack are the same stack,
\* name by name, so a ROLLBACK TO or RELEASE never names a savepoint that is not
\* there and none is left behind. Only a failed transaction may have lost savepoints
\* the session still lists, and between transactions there are none.
SavepointsMatch ==
    status # "lost" =>
        /\ Len(saves) <= Len(names)
        /\ \A i \in 1..Len(saves) : names[i].name = saves[i].name
        /\ Len(saves) < Len(names) => status = "failed"
        /\ status = "idle" => names = <<>>

\* Outside test isolation, a transaction that holds uncommitted rows is in its
\* write phase, through every rollback and renewal: BeginCodeunitRun and the
\* isolated-event dispatch decide by writing_ alone.
PendingIsWriting ==
    floor = 0 /\ status = "active" /\ view # committed => writing

\* So an evaluated Run started outside test isolation starts with nothing pending:
\* its implicit Commit never makes the caller's own writes durable.
RunStartsClean ==
    \A i \in 1..Len(frames) :
        frames[i].kind = "value" /\ frames[i].floorBefore = 0 /\ status # "lost"
            => frames[i].mark.data = committed

\* A cursor that Cursor::Current lets a record go on fetching from exists on the
\* server, and ~Cursor never closes one that does not: either would abort the
\* transaction around it.
CurrentCursorExists ==
    \A c \in Cursors : status = "active" /\ CursorCurrent(c) => c \in cursors

\* A scope that an error ends leaves the database and the consistency marks as they
\* were when it began, or when the last Commit inside it ran: "an error inside
\* rolls the database back to the point the run began" (Codeunit.h).
FailedRunRestoresEntry ==
    [][(pc \in {"raise", "drop"} /\ Len(frames') < Len(frames) /\ status' \in {"idle", "active"})
          => (view' = Top.mark.data /\ inconsistent' = Top.mark.marks)]_vars

\* Nothing an isolated test does, its Commits and the implicit ones of the Runs
\* inside it included, reaches another connection.
IsolationHolds == [][floor # 0 => committed' = committed]_vars

\* An AL Commit that returns has made every row the session wrote durable.
ReturnedCommitIsDurable ==
    [][(Commit /\ pc' = "al" /\ floor = 0) => view \subseteq committed']_vars

\* So it has while the connection holds: no refused statement, no boundary around the
\* Commit and no error caught before it lets it return over rows that are not durable.
LiveCommitIsDurable ==
    [][(Commit /\ pc' = "al" /\ floor = 0 /\ status # "lost") => view \subseteq committed']_vars

\* A command that is kept has made every row it wrote durable, whatever the
\* connection did and whatever its AL code caught.
KeptCommandIsDurable ==
    [][(pc = "seal" /\ pc' = "detach") => view \subseteq committed']_vars

----------------------------------------------------------------------------
(* The abstraction: what of this is the promised nesting. *)

OnlyCommitted == [data |-> committed, marks |-> {}]

Work == IF status = "lost" THEN OnlyCommitted
        ELSE IF status = "failed" THEN Doomed
        ELSE [data |-> view, marks |-> inconsistent]

Entries == [i \in 1..Len(frames) |->
               [at |-> IF status = "lost" THEN OnlyCommitted ELSE frames[i].mark,
                isolated |-> frames[i].kind = "test"]]

Promise == INSTANCE NestedTransactions WITH
    durable <- committed, current <- Work, entries <- Entries

\* The boundaries implement nested transactions.
ImplementsPromise == Promise!Spec
=============================================================================
