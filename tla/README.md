# agiru: verification of the runtime

agiru translates AL (the language of Business Central) to C++23 and runs the result over
PostgreSQL. The transpiler (`src/al`, `src/gen`, `src/tc`) is a sequential program about text. The
runtime (`src/rt`, `src/net/HttpServer.cpp`, `src/db`) is where state, concurrency and failure are:
an AL program expects nested transactions, evaluated runs that roll back, commits in the middle of
both, test isolation that takes commits back, and many sessions on one database, and the runtime
has to build all of it from the savepoints, advisory locks and row locks of PostgreSQL. This
directory models that part.

All paths below are relative to the repository's `src/` root, in which the runtime is
`src/rt`, the headers are `include/runtime`.

## 1. Inventory

Each entry: the state it keeps, its operations, what makes it hard, what makes it correct.

**Transaction boundaries** (`rt/Transaction.cpp`, `runtime/Transaction.h`). One `Boundaries` per
session: the stack `names_` of open savepoints, each with the consistency marks and the write phase
at its opening; `isolationFloor_`, `writing_`, `tryDepth_`, `cursorEpoch_`, `issued_`. `Open`,
`Release`, `Rollback`, `Commit`, `Write`, `MarkConsistent`, `ClearCommand`; `Scope` objects on the
C++ stack hold a depth and roll back in their destructor. Every operation is several SQL statements,
each of which can fail, with bookkeeping between them, and `Commit` renews the enclosing boundaries
so that a later rollback returns to the commit. Correct: the stack agrees with the server's; an
error takes back what its scope did and nothing else; a commit that returns is durable; isolation
holds; `writing_` tells the truth.

**Error scopes, `Codeunit.Run`, `asserterror`, try functions** (`runtime/Codeunit.h`,
`runtime/Error.h`, `rt/Scopes.cpp`). They open and close boundaries from AL control flow; a try
function catches without rolling back; collected errors decide whether an evaluated run is kept.

**Session commands** (`rt/SessionCommand.cpp`, `rt/Session.cpp`). A session attaches to a pooled
connection for one command, opens a root boundary, and either keeps it (release, commit) or rolls
it back and clears its bookkeeping. Hard: whatever went wrong in the command, the connection goes
to another one afterwards.

**Cursors** (`rt/Cursor.cpp`). A record holds an open server cursor and the epoch it was opened in.
Rollbacks and commits destroy cursors on the server; `Current` compares epochs. A wrong answer
aborts the AL program's transaction.

**Row versions** (`rt/RowVersionStorage.cpp`). PL/pgSQL functions shared by all sessions: a
sequence, a session-level advisory lock, one announcement lock per writing transaction, a local
setting as the fence. Versions become visible out of order; `minimum_rowversion_v1` must name a
version below which nothing will appear any more.

**Number sequences** (`rt/NumberSequence.cpp`, `rt/NumberSequenceStorage.cpp`). A registry and one
PostgreSQL sequence per name; reservation under a shared transaction lock and a session lock,
restart, insert and delete under an exclusive one. Hard: non-transactional `setval` beside
transactional DDL, lock upgrades, bounds.

**Record storage** (`rt/Storage.cpp`, `rt/Rename.cpp`, `rt/RecordChanges.cpp`). Optimistic writes by
row version, or by the write token of one's own transaction; reads that remember what other record
variables of the session changed. **Navigation and temporary tables** (`rt/Navigate.cpp`,
`rt/Filter.cpp`, `rt/Temporary.cpp`): data, ordering, filters.

**Browser sessions and credentials** (`rt/BrowserSession.cpp`, `rt/BrowserHttp.cpp`,
`rt/ClientCredentials.cpp`). Rows with two expiry times and a revocation; issue and rotate under the
user's row lock, a limit of live sessions per user; renewal, lookup, revocation without that lock.

**Command authority** (`rt/PageCallAuthority.cpp`, `rt/CommandAuthority.cpp`). Before a command
commits, its client's rows are locked in share mode and checked again: a revocation waits for the
commit or the command fails.

**Page command host** (`rt/PageCommandHost.cpp`). Page contexts in memory and in a table, a worker
pool with a bounded queue, one running call per page, receipts that make a repeated command answer
as it did the first time, invalidation after a failure. **Dialogs and modals**
(`rt/PageInteraction.cpp`, `rt/PageModal.cpp`): AL code that waits for an answer from another
request, with timeouts, cancels and repeated answers.

**HTTP server** (`net/HttpServer.cpp`). One event thread (libmicrohttpd), suspended connections, a
bounded worker queue, a shared budget of body bytes, drain on shutdown.

**Events** (`rt/Events.cpp`): subscriptions that bind and unbind while a dispatch runs.
**Test runner** (`rt/TestRunner.cpp`): isolation scopes, commit suppression, expected errors.

**Not about state**: permissions and metadata lookups, pages' HTML, reports and XML ports, built-in
functions and .NET types, the transpiler, the TypeScript clients, scripts. They are listed in
`PROJECT.json` with the reason each is left out.

How they interact: a client's request enters through the HTTP server, is authenticated by a browser
session or a credential, and becomes a call of the page command host; the call's worker opens a
session command on a pooled connection, AL code runs and opens and closes boundaries, writes draw
row versions, dialogs hand control back to the client and wait; before the commit the command
authority checks the client again.

## 2. Modules

| module | models | depends on |
|---|---|---|
| `NestedTransactions` | what AL promises of its transaction scopes, without SQL | |
| `Boundaries` | class Boundaries, the scopes, session commands, cursors, one PostgreSQL session | implements `NestedTransactions` |
| `RowVersions` | the row-version functions and the sessions that call them | |
| `NumberSequences` | one number sequence and the sessions that draw from it and change it | |
| `CommandOutcomes` | what a client may conclude from an answer, without the host | |
| `PageCommands` | the page command host: windows, receipts, executor, clients | implements `CommandOutcomes` |
| `ClientSessions` | the browser sessions of one user, and the rights of a command from its check to its commit | |
| `PageDialogs` | the questions and modal pages of one call, and the requests that answer them | |
| `HttpServer` | the listener: network thread, worker pool, destructor | |
| `RecordWrites` | reads and optimistic writes of rows by several sessions, with versions and write ownership | |
| `MCBoundaries`, `MCRowVersions`, `MCNumberSequences`, `MCPageCommands`, `MCClientSessions`, `MCPageDialogs`, `MCHttpServer`, `MCRecordWrites` | symmetry sets and values for TLC | the module they extend |
| `BoundariesProofs`, `RowVersionsProofs`, `NumberSequencesProofs`, `PageCommandsProofs`, `ClientSessionsProofs`, `PageDialogsProofs`, `HttpServerProofs`, `RecordWritesProofs` | theorems and proofs | the module they extend, TLAPS |

### NestedTransactions

Three variables: `durable`, the rows that survive whatever happens next; `current`, the work state
(rows and consistency marks) the program sees, or `Doomed` after a statement failed in it; `entries`,
per open scope the work state its discard returns to. `Commit` moves the entries that no isolation
scope shields; `Abort` is the server ending the transaction by itself. There are no savepoints,
names, depths, floors or phases: those are the implementation.

### Boundaries

The session is one thread, so one action is one call of `Boundaries` made by one AL construct;
which of the statements in the call fails, if one does, is chosen inside the action (`Refused`,
`Severed`, `CommitRejected`, `RenewalRefused`, ...). `pc` is what the thread does next.

| code | model |
|---|---|
| `names_`, `inconsistent_`, `isolationFloor_`, `writing_`, `tryDepth_`, `cursorEpoch_`, `issued_` | `names`, `inconsistent`, `floor`, `writing`, `tryDepth`, `epoch`, `issued` |
| transaction status, savepoints and cursors of the PostgreSQL session; its rows | `status`, `saves`, `cursors`; `view`, `committed` |
| `Scope` objects on the C++ stack | `frames`, innermost last, with the kind of construct that owns each |
| `Boundaries::Open` and the constructs that call it | `OpenScope`, `BeginCommand` |
| `Scope::Keep` → `Boundaries::Release` | `KeepTop` in `EndRun`, `EndAssert`, `KeepValueRun` |
| `~Scope`, `Scope::Rollback`, `Scope::Discard` → `Boundaries::Rollback` | `DropTop` in `QuitRun`, `EndTest`, `EndCollectingRun`, `DropValueRun`, `Unwind` |
| `Boundaries::Commit` | `CommitBoundaries` in `Commit`, `EndValueRun`, `CommitCommand` |
| `SessionCommand::Keep`, `~SessionCommand`, `Detach` | `SealCommand`, `CommitCommand`, `EndCommand` |
| `TryScope`, `Tried`, `CollectError`, the caller of AL code | `EnterTry`, `LeaveTry`, `CollectError`, `ClearCollected`, `HostCatches` |
| `Cursor::Cursor`, `Current`, `~Cursor` | `OpenCursor`, `CursorCurrent`, `CloseCursor` |

PostgreSQL is modelled by what the code relies on: `ROLLBACK TO` restores rows and cursors and makes
a failed transaction active, `RELEASE` in a failed transaction is refused, `COMMIT` of a failed
transaction rolls back without an error (`Connection::Execute` does not look at the command tag), a
connection that breaks aborts, and a break in a `COMMIT` leaves its outcome open. A broken connection
reports neither `PQTRANS_INTRANS` nor `PQTRANS_INERROR`, so `Connection::InTransaction` is false for
it. `view` is then still what the session believes to have written. `BEGIN` alone fails only with
the connection.

Each row is written once, so a row stands for one write and its loss or survival is visible. A
cursor name is reused when the server has no cursor of that name left in any savepoint.

`frames[i].mark` is a history variable: what a rollback of scope `i` should restore. No guard reads
it; `Remarked` moves it when a commit renews the boundary.

### RowVersions

Several sessions call two PL/pgSQL functions. An action is one statement of a function's body; `pc`
is the next statement. What a statement leaves in its transaction is an *effect* with the level of
the subtransaction it ran in: the advisory lock on the negated version, the local setting, the row.
`ROLLBACK TO` removes effects from its level up, `RELEASE` and the end of a PL/pgSQL block with an
exception handler (which is a subtransaction) move them down a level. The session-level lock is not
an effect: only an unlock, or the end of the session, releases it.

| code | model |
|---|---|
| `kNext`: fence test, advisory lock, `nextval`, announcement and `set_config`, unlock | `NextFenced`, `NextUnfenced`/`Granted`, `Draw`, `Fence`, `WriteRow` |
| `kMinimum`: advisory lock, scan of `pg_locks`, `kLast`, unlock | `Minimum`/`Granted`, `Scan`, `NothingAnnounced`, `Answer` |
| the exception handlers of both | `Cancel`, `Handler` |
| the session around the calls | `Begin`, `Savepoint`, `ReleaseSavepoint`, `RollbackTo`, `Rollback`, `Commit`, `CommitReleases`, `Terminate` |

`COMMIT` is two steps, because PostgreSQL makes a transaction visible before it releases its locks;
a reader in between sees the row and still sees its announcement.

### NumberSequences

One name, and so one row of the registry or none. Several sessions, each in a transaction with
savepoints, call `number_sequence_v1`; an action is one statement of it or of `reserve_sequence_v1`.
`CREATE SEQUENCE` and `ALTER SEQUENCE RESTART` make a new storage *file* that takes the name's place
when the transaction commits; `setval` changes a file at once and for good. `given` is a history
variable: the values drawn from each file.

| code | model |
|---|---|
| the registry row and the sequence it names, committed | `registry`, a file or `Absent` |
| `last_value`, `is_called`, `seqincrement` of a sequence | `storage` |
| what a transaction has made of the name, its two locks on the name, what it has drawn | `held` |
| the same where a `ROLLBACK TO`, or the failure of a statement, returns to | `saved`, the `BEGIN` first |
| the session-level lock | `owner` |
| `Operate` and the methods over it | `Call` |
| the lock on the name; the session-level lock | `Lock`; `Own` |
| insert, delete, restart, current | `Insert`, `Delete`, `Restart`, `Look` |
| `reserve_sequence_v1`: reading the sequence, the bounds and `setval` | `Read`, `Write` |
| the unlock after the block; the exception handlers | `Unlock`; `Handler` |
| statement timeouts and cancels, the deadlock detector, a lost connection | `Cancel`, `DeadlockDetected`, `Terminate` |

`CancelPoints` says where a cancel may be noticed. The passing runs leave out `"unlock"`, the
statement after the guarded block, because of the finding `leaked_lock`.

### CommandOutcomes

Submissions of commands, the durable effect of each (nothing, the part AL committed explicitly, the
whole), the commands that will never happen as a whole any more, and the answers. At most one
submission of a command ever has an effect. A page may be answered only when the whole has happened,
"failed" only when it never will, "refused" only when this submission has done and will do nothing;
"unknown" may always be answered and says nothing.

### PageCommands

Several threads work on one host: HTTP threads admit calls, workers run them, readers render. An
action is what happens between two points at which another thread, the database or the end of the
process can come in: a critical section, or a statement. `at` is how far a call has come.

| code | model |
|---|---|
| the map `contexts`; `Context::invalid`, `revision` with `prefix`, `call`, `mutex` | `kept`; `invalid`, `revision`, `last`, `holder` |
| `Context::page`, set when `RunOpen` keeps an opening | `opened` |
| the AL state of the window's page | `touched`: has it moved without a commit |
| `agiru_client.page_contexts`, `page_commands` | `age`, `invalidated`, `saved`; `receipts` |
| class `PageCall`, its result | `job`, `at`, `answer` |
| `Executor::Submit`, `Work`, `Stop` | `Room`, `Take`, `Stop` and `Stopped` |
| `Open`, `Retain`, `PublishCall`, `RunOpen` and its handler | `Retain`, `InsertRow`, `PublishOpen`, `RunOpen`, `CleanOpen` |
| `Connection lease` in the queued lambdas, `PublishCall`'s wrapper | `Take`; `Report` |
| `SubmitWrite`; `Read`, `Render` | `SubmitWrite`, `WriteNothing`; `Read`, `LockRead`, `EndRead`, `ReadNothing` |
| `Write` | `FindContext`, `Lock`, `Check`, `InsertReceipt`, `Begin`, `AlCommit`, `RunFails`, `Finish`, `Commit` |
| its handlers, `Invalidate` | `InvalidateWindow`, `FailReceipt` |
| `~Impl` and a new process | `Stop`, `Stopped`, `Crash`, `Restart` |

A `COMMIT` whose reply is lost stays in `doubt` until the server ends it one way or the other, at
any later moment; until then it keeps the row lock that the cleanup's `UPDATE` waits for. An AL
`Commit` gives that lock up in the middle of the command. `applied` is a history variable.

A call on a worker first makes a connection of its own (`PageCommandHost.cpp:783` for an opening, `:1196`
for a command). If that fails, the wrapper (`:507-520`) reports the error and neither `RunOpen` nor `Write`
is entered: the second disjunct of `Take`. For a command nothing has happened. For an opening nothing is
invalidated either, and the window stays valid, live in its row, and without a page. `SubmitWrite`
(`:1186`) and `Render` (`:631`) then use a null pointer. That is undefined behaviour; the call is a virtual
one (`Declaration`), so what a build does with it is to end the process: `WriteNothing` and
`ReadNothing`, which do what `Crash` does (`Dies`). A reader whose own command cannot begin fails before
that and leaves the window as it was (`EndRead`).

Several things are one step that the code does in several: the section of `SubmitWrite` (it holds
both mutexes throughout, and a failing statement in it restores the previous call), the checks of
`Write` before the receipt (reads under the window's mutex), and an AL program between two of its
commits, of which only the outcome matters here. The command's prefix changes exactly when the
revision does, so it is modelled by the revision it was rendered with.

### ClientSessions

The rows that say who may do what (a user, the credential its browser sessions were issued from, the
sessions) and HTTP requests, each with the transaction it opens. An action is one SQL statement: it
waits for the row locks it needs, reads what is committed then, and keeps its locks until the
transaction ends. `pending` is what a transaction has written and not committed.

| code | model |
|---|---|
| `"User".enabled`; `client_credentials`; `browser_sessions` | `account`; `source`; `session` |
| `kLive`; `idle_expires_at`, `expires_at`, `revoked_at` | `Live`; `Row` and `IssuedRow`, `RotatedRow`, `RenewedRow`, `RevokedRow` |
| `FOR UPDATE` and `FOR SHARE` of the user, `FOR SHARE` of session and credential | `userX`, `userS`, `rowS`; `WaitsFor` |
| `Browser`, the lookups before a transaction | `Arrive` |
| `IssueBrowserSession`, `RotateBrowserSession` | `Admit`, `Count`, `Insert`; `Admit`, `Replace` |
| `RevokeBrowserSession`, `RenewBrowserSession`, `RenewPageClient` | `Revoke`, `Renew` |
| `PageCallAuthority`'s constructor, `Check`, `Cancel`; waiting AL code | `Start`, `Allowed`, `Refuse`, `Ask` |
| `LockCommit`, its locking query, `SessionCommand::Keep` | `Checkpoint`, `LockUser`, `LockRows`, `Recheck`, `Commit` |
| `SessionCommand`, with nobody's authority; its destructor | `Begin`, `Keep`; `Fails` |
| operators: `RevokeClientCredential`, the user's state | `RevokeSource`, `ChangeAccount` |

A call is checked on a connection of its own and then locks on the command's: what a failing check
means depends on where it is, since AL code may catch the error of an AL `Commit` and go on, in a call
that is cancelled for good. The row of the page context is left out: only the window's own command
writes it. Two observations, which the properties state as exceptions:

* `IssueBrowserSession` counts the committed live sessions. A renewal that began before a session's
  idle deadline and commits after it brings back a session that was not counted
  (`BrowserSession.cpp:112`). `revived` records such sessions, and the sessions rotated from them.
* A command locks its session's row `FOR SHARE` (`PageCallAuthority.cpp:100`) and then updates it
  (`PageCommandHost.cpp:1127`). Two commands of one browser session in two windows wait for each other
  there until PostgreSQL ends one of them. `OnlyRenewalsDeadlock` says that this is the only deadlock.

### PageDialogs

One call: the AL code on its worker, which stops in the middle of its transaction, and the threads of
the requests. They meet under `PageCall::mutex` and in three tables that are written in transactions
of their own. An action is a section under the mutex with the statement in it, or a statement outside.
A statement may fail, or take effect although its reply is lost.

| code | model |
|---|---|
| `PageCall::finished`, `cancelled`, `questions`, `question`, `modal` with its parents | `state`, `cancelled`, `asked`, `question` and `reply`, `stack` |
| `PageModal::revision`, `busy`, `input`, `executing`; `PageModalInput::finished` | `revision`, `busy`, `input`, `executing`; `ended` |
| `page_dialogs`, `page_modals`, `page_modal_commands` | `dialog`, `modal`, `receipt` |
| `PageUiHost::Ask`, `WaitForPageInteraction`, `CloseQuestion` | `Ask`, `Wait`, `CloseQuestion` |
| `ModalExecution::Run`, `PublishModal`, `PublishSnapshot`, `Wait` | `RunModal`, `PublishModal`, `Snapshot`, `TakeInput` |
| `ExecuteInput`, `CompleteInput` | `Complete`, `Completes` |
| `CloseModalReceipt`, `Restore`, the handler of `Run` | `Closes` in `Closed` and `CloseUnwound`; `Restore` |
| `AcceptPageAnswer` | `Answer` |
| `AcceptPageModal`, `ReplayInput`; `ModalResult`, `ModalPoll` | `Submit`; `Result`, `Poll` |

A command's prefix is renewed with the revision of its modal page, so a command is named by the page,
the revision it was rendered with and the ordinal the client appends. An error that AL code does not
catch leaves page by page (`Leaves`, `Raises`).

What the model shows of lost replies, again stated as exceptions: an answer that is stored while its
reply is lost does not wake the AL code, which waits until its deadline, and a repetition of that
answer is confirmed (`doubtful`); a command's receipt may say "processed" of changes that were kept
while, because the reply of `CompleteInput` was lost, its modal page unwinds; "failed" with
`UiDialogCancelled` (`"abandoned"`) says nothing about what was kept; a command whose `INSERT` took
effect and whose reply was lost stays queued until its page is closed.

### HttpServer

The network thread calls `Begin`, `Access` and `Complete`, workers run the handler, and one thread
destroys the server. An action is one callback, one critical section, or one of the worker's steps
that the network thread can observe.

| code | model |
|---|---|
| `Request::phase`, `refusal`, `input` | `phase`, `refusal`, `method`, `body` |
| `Impl::bodyBytes`, `jobs`, `accepting` | `bodyBytes`, `jobs`, `accepting` |
| connections between `MHD_suspend_connection` and `MHD_resume_connection` | `suspended` |
| `Access`, by what it finds | `Headers`, `Refuse`, `Upload`, `Admit`, `Respond` |
| `notify_one` after the mutex | `Notify` |
| `Complete`, `~Request` | `Complete`, `Deletes` |
| `Work` | `Take`, `Handle`, `SetReady`, `Resume` |
| `~Impl`, `Drain` | `Quiesce`, `Close`, `NotifyAll`, `Stop` |

A request begins once, so a connection that is kept alive is a sequence of requests. One network
thread makes all the claims on the body budget, so the compare-and-exchange of `Append` is never
contended, and is one step. When the destructor stops the daemon directly after the last worker
resumed a connection, its response may be dropped (`HttpServer.cpp:175`): the request was handled and
is not answered, which no property forbids.

### RecordWrites

Several sessions, each a connection that runs one AL command, and one table. Of a row only what the
version check reads is kept: whether it is there, its version, and the token of the transaction that
wrote it. A row is there twice, `base` as committed and `row` as its last writer left it; `writer` is
the open transaction that has its lock.

| code | model |
|---|---|
| `observedVersion_` of a record's `StateHandle` | `stamp` |
| `agiru.write_transaction_v1`, the private owner column | `token`, `owner` |
| `RuntimeGet`, `LoadRow`, `ObserveSqlVersion`; `StateHandle::operator=` | `Get`; `Assign` |
| `RuntimeInsert`, `RuntimeModify`, `RuntimeRename`, `RuntimeDelete` with `InsertRow`, `Updated`, `DeleteRow` | `Write`, `Executes` and its six outcomes; `Place` |
| `WritePredicate`, `write_transaction_v1`; `TakePlatformOwned` | `WritePredicate`, `Token`; `Put` |
| `RefuseStaleWrite`, the second statement | `RefuseStaleWrite` |
| `Boundaries::Open`, `Release`, `Rollback`, `Commit`; a try function | `Open`, `Keep`, `RollBackTo`, `RollBack`, `Commit`; `Catch` |
| PostgreSQL at `READ COMMITTED` (external) | `Visible`, `WriteMeetsChange`, `Resume`, `Place`, `StatementFails`, `Undo` |

A write and the statement that finds out why it changed nothing are two steps: the row may come, go or
change between them. A statement that meets another transaction's change waits and evaluates its
condition on the row as that transaction leaves it, also when it only goes back to a savepoint before
the change. A record variable is memory of the AL program, so no rollback restores its `stamp`, and the
version that it carries may be one that never was committed. The key of a write is free: AL may have
assigned the key fields since the row was read. A `Rename` has two steps, because PostgreSQL takes the
old row, with its lock, before the unique index makes the statement wait for whoever is changing the new
key: between them the row is under neither key for its own session, and two renames into each other's
place wait for each other. A rename onto a row that stays is an error of the server. The random token is drawn from the same numbers as the
versions, which makes it different from all others; the versions that a waiting or rejected statement
draws and does not use are gaps, and left out.

## 3. Runs

| run | question | bounds | distinct states |
|---|---|---|---|
| `boundaries_scopes` | do the boundaries keep the promise of `NestedTransactions`? | two nested scopes of all four kinds, two rows, four savepoint names, one try, two failures (statement or connection) | 518 000 |
| `boundaries_command` | is a kept command durable, what does a failing `COMMIT` or renewal leave, does the epoch tell which cursors exist? | commands on a pooled connection, three scopes of all kinds, one row, one cursor, one table mark, one try with refused writes, one collected error, two epochs, one failure of any kind | 3.97 million |
| `rowversions` | can a reader trust the minimum, and is every waiter served? | two sessions, three versions, two levels, one cancel or lost connection, fairness | 199 000 |
| `numbersequences` | is every number given once, in order and within the bounds, from the sequence the name stands for, and is every lock given back or granted? | two sessions, two levels, four calls, ranges of one and two downwards from 1 to 0, one failure, fairness | 292 000 |
| `pagecommands` | does every answer mean what it says, does nobody work on state that did not commit, and is every published call answered? | two windows for one place, one worker, a queue of one, three calls, two bodies for one command name, two receipts, revisions to 2, one explicit commit, two faults (a failing statement or connection, a lost reply, a crash), fairness | 351 000 |
| `clientsessions` | can anything commit that is no longer allowed, do sessions exceed their limit, outlive a revocation or double, do requests deadlock, and does every one end? | two requests, one live session and two more, a limit of one, deadlines of 2 and 3 on a clock to 3, one AL commit, one change by an operator, fairness | 185 000 |
| `pagedialogs` | does every answer reach the AL code, does a command run once, do receipts tell the truth, and does the call end? | two requests, one question with two answers, two nested modal pages, two ordinals, a closing and another command, three interactions, one failing statement or lost reply, fairness | 519 000 |
| `httpserver` | is a suspended request always in work, handled once, resumed and deleted, and does the destructor return? | two requests, two workers, a queue of one, bodies of 2 in a budget of 3, fairness | 34 500 |
| `recordwrites` | does a session ever overwrite a committed change that its variable has not seen, or is a write refused that has? | two sessions, one with two record variables and a savepoint, one with a single variable; two keys, three versions | 2.52 million |
| `stale_scope` | finding: an enclosing scope whose boundary a failed commit dropped | | |
| `lost_commit` | finding: a commit after the connection broke | | |
| `leaked_lock` | finding: a cancel at the statement that unlocks | | |

Why the bounds are enough: a boundary stack can only disagree with the server's through a failure
between two statements, and the interesting failures need one scope, or one scope inside another, of
each pair of kinds; two failures allow a failure while an earlier one is being handled. Four names
allow a commit to renew two boundaries after two were opened; `boundaries_command` has a third scope
for the root boundary of the command. In `RowVersions` a session can be read about by the other while
it has announced, draws or has lost what it drew; two levels give a savepoint around the first
version, and with one failure everything that can be taken back is. Which third session interleaves
is settled by the proofs, which are for any number.

In `NumberSequences` two sessions are enough to draw the same number twice, four calls to insert,
draw from both sides and restart. They also give one session that has drawn and one that wants to
change the sequence, and two that upgrade their locks; two levels let a transaction lose a lock that
an earlier part of it still needs. TLC's instance counts down, through the lower bound; increments
of both signs, and of zero, which is refused, are covered by the proofs, which are for any number of
sessions and all seeds, increments and counts.

In `PageCommands` three calls allow an opening, a command, and its repetition with the same or another
body or a command of the next rendering, or the opening of a second window, for whose place and call
the first one must be given up, finished, or waited for; the queue is full and the worker busy. Two
faults allow a lost `COMMIT` reply and a failure in the cleanup after it, or an opening without a
connection and then a command or a reader without one. Calls and windows are new
objects, whose names are taken in a fixed order. A command of an old rendering that has no receipt, and
the limit of receipts, need more calls than this: the theorems cover them for any number.

In `ClientSessions` two requests at a limit of one are two that sign in for the same place, two that
rotate one session, a rotation or revocation against a renewal, and two commands of one session; an
AL commit lets a command lose its rights between two commits, and the clock passes every deadline.
Both the limit and the deadlock are proved for any number of requests. In `PageDialogs` two requests
give the two answers of one question, two commands of one rendering, a repetition, and a poll against
either; the second modal page lies over the first, and three interactions meet the budget. In
`HttpServer` a queue of one is full with one of two requests, and two bodies exceed the budget that
one does not; two workers are needed for one that sleeps while the other works, when the server is
destroyed. In `RecordWrites` two keys let a row
leave for the other one, come back, or find it taken; two variables of one session are one that read and
one that wrote, or that carries a version the session has taken back, and the other session, the clerk,
needs one variable and no savepoint to be in the way; two versions after the first one let a row be
changed by one session and again by the other, and be written with a stale variable, and a savepoint takes
back the first write of a transaction together with its token. Refusals, deletions and renames of rows
draw nothing that the model counts until the row is placed, so they may repeat.

Deadlock checking is off where the AL program's bounded resources run out (`Boundaries`: a session
that has used its rows, scopes and names really may have nothing left to do), and in the runs with liveness, where calls, requests and faults are used
up, a call has ended, or a stopped server really stays stopped, and in `recordwrites`, where versions are
used up; it is on in `pagecommands`. That nobody waits forever is what the liveness properties say.

Fairness appears in the `FairSpec` of every module but `Boundaries` and `RecordWrites`. In `RowVersions` it is weak
fairness of the statements inside a call, for each session. PostgreSQL runs a backend that waits for nothing until its statement ends, and grants
a heavyweight lock in the order of the requests. Nothing is assumed of clients: they need not
commit, nor end. `EveryoneIsServed` therefore says that no session waits for a client.
In `NumberSequences` a waiter for the lock on the name does wait for other transactions to end, so
their end is assumed (every session command ends, by commit or rollback), with weak fairness of the
statements inside a call; granting a lock is strongly fair, because PostgreSQL serves waiters in
their order.
In `PageCommands` it is weak fairness of each worker's step, of the request threads and readers, and
of the server's end of a transaction in doubt: threads are scheduled, PostgreSQL ends a transaction
whose client is gone, and an AL program ends (its `Finish` or `RunFails` is part of the worker's
step; a program that loops, or that waits in a dialog past every deadline, is excluded). Requests,
ticks of the clock, faults and the lifecycle are not fair. The mutex of a window needs no strong
fairness: a call asks for it once the window has no other call, and readers use `try_lock`.
In `ClientSessions` each request's next statement is weakly fair when its locks are free (they are
held to the end of transactions that end), and PostgreSQL finds deadlocks. AL code ends its command:
strong fairness, because a refusal it catches interrupts it again and again, though only once with an
effect. In `PageDialogs` the worker and the results of requests are weakly fair, and the timeout of a
wait is always enabled, as the deadline of `WaitForPageInteraction` is; clients need not answer, nor
poll. AL code comes to its next question, page or end. In `HttpServer` the network thread answers what
it can, a connection that brings nothing times out (`Complete`), the handler returns, and every
thread goes on; nobody need ever destroy the server.

### What the properties say

* `SavepointsMatch`: session and server agree on the savepoints, name by name.
* `RunStartsClean`: an evaluated run never commits its caller's writes, since the write phase tells the
  truth through every rollback and commit (`PendingIsWriting`).
* `FailedRunRestoresEntry`: a scope ended by an error leaves rows and consistency marks as it found
  them, or as the last commit inside left them.
* `IsolationHolds`: no commit inside test isolation reaches another connection.
* `LiveCommitIsDurable`, `KeptCommandIsDurable`: a commit that returned is one.
* `CurrentCursorExists`: a cursor believed open is open.
* `ImplementsPromise`: `Boundaries` implements `NestedTransactions`.
* `NoRowAppearsBelow`, `MinimumNeverFalls`, `EveryoneIsServed`: the minimum is settled, since no rollback
  takes an announcement and leaves its row (`RowsAreAnnounced`), and computing it never stalls for good.
* `GivenInOrder`: concurrent, failing and rolled-back draws give every number once and skip none.
* `NumbersStayCurrent`: no transaction replaces the sequence under another that has drawn from it, nor
  (`DrawsFromCurrent`, by proof) between a draw's look-up and its `setval`.
* `NoLockLeft`, `EveryCallIsServed`: the session-level lock comes back whatever happens, and waiting
  for a lock ends.
* `ImplementsOutcomes`: the host implements `CommandOutcomes`; a command takes effect at most once,
  through repeated submissions, lost replies and crashes.
* `AnswersAreDurable`: what a client was told is in the database, and stays.
* `NobodySeesUncommitted`: page, revision, prefix and AL state move in memory before the commit, and
  still no reader and no later command works on them if it fails. A command finds a page that was
  opened; so does a reader, but for one case, which the property names (`OpeningFailed`): see the end
  of the findings.
* `OneCallPerWindow`: two mutexes of the same window never let in two calls.
* `EveryCallEnds`: a published call is answered, also by a host that is being destroyed.
* `CommitsAreAuthorised`: at every commit of a call its user is enabled, its session and credential
  are not revoked, and no check of it ever failed, however long ago it was checked.
* `AdmissionIsLimited`: concurrent issues and rotations keep the limit per user.
* `RotationReplaces`, `RevocationIsFinal`: a client never ends with two sessions or none, and no late
  writer brings back what another one has ended.
* `OnlyRenewalsDeadlock`, `EveryRequestEnds`: the lock order, with its one exception, and the end of
  every request.
* `AnswersAgree`: the answer a client was told is accepted is the one the AL code gets, and a question
  is given up only when nobody answered it.
* `OneCommandPerRendering`, `ReceiptsAreTrue`, `ToldOutcomesAreStored`, `NothingStaysQueued`: modal
  commands run once, their receipts are true and final, and none is left for a client to poll.
* `CallEnds`: no question and no modal page keeps a call forever.
* `BudgetIsOwned`, `SuspendedAreInWork`, `HandledOnce`: bytes, connections and requests have one owner
  at each time, and none when the server has stopped.
* `RequestsEnd`, `DestructorReturns`: no wakeup is lost.
* `VersionsDecide`: what a transaction changes in a committed row, a variable of it has read or written,
  and a refusal tells the truth, though the row was looked at in two statements.

`VersionsDecide` is about the first change of a row by a transaction. Once a transaction has written a
row, its owner clause admits each of its variables, also a stale one: `test/gate` allows that for a
stale alias of an own write (`OwnWritesAndBoundaries`). It also admits a variable that was read before
another session's change which the transaction has since overwritten with an up-to-date variable; the
fields of that change are then lost. `board/0741_transactions.md` asks for isolation without lost
updates in general, and says that the condition compares the row's `SystemId` too, which the code's
`WritePredicate` does not do. The model does not compare it either: a row deleted and inserted again has
another version, so the version decides.

Every module states one type invariant, `TypeOK`. In `Boundaries`, `RowVersions`, `PageCommands`,
`ClientSessions`, `HttpServer` and `RecordWrites` it is proved for all constants and not repeated in a run; the same holds for
`RowsAreAnnounced`, `DrawsFromCurrent` and `OwnershipIsCurrent`, which are the reasons for other
properties.

### Findings

* `stale_scope`. When the commit of an evaluated run fails on the server, `Boundaries::Commit` drops
  all boundaries. A scope further out still holds its depth; if AL goes on and then fails, its
  rollback does nothing, and rows written after the failed commit stay pending, while the run reports
  false. `Codeunit.h:482` promises the database is rolled back to where the run began, and
  `Codeunit.h:463-464` the same of a run in statement form, as the outer scope of a trace
  may be. This is why `FailedRunRestoresEntry` is checked without commit failures in `boundaries_scopes`.
* `lost_commit`. On a session that owns its connection, with no boundary open, a broken connection
  looks like an idle one to `Boundaries::Commit`: it skips the `COMMIT` and returns. `Error.h:102`
  promises that everything written survives. On a pooled connection the root boundary makes the
  renewal fail first, but that failure drops all boundaries, and a second `Commit` returns in the same
  way (only the command fails, since `Keep` finds no root). This is why `boundaries_command` checks
  `LiveCommitIsDurable`, which is about connections that hold, and `KeptCommandIsDurable` for any.
* `leaked_lock`. `number_sequence_v1` gives the session-level lock back in its exception handlers or,
  without an error, at line 135, after the guarded block. A cancel or timeout noticed at that
  statement meets no handler; the rollback does not release a session-level lock, and the connection
  goes back to the pool with it. `test/gate/NumberSequenceGate.cpp:446` states that a cancel releases
  these locks, and tests one inside the block.

A fourth defect is an exception in a property and has no run of its own. `PageCommandHost.h:78-79` says
of the opening of a window: "On execution failure the private page is invalidated". That is what the
handler of `RunOpen` does (`:715-722`), but an opening that gets no connection never reaches it (`Take`,
above): its client is told it failed, and the window remains one that every check lets in. Without the
last disjunct of `NobodySeesUncommitted` TLC finds this in eight steps: `Retain`, `InsertRow`,
`PublishOpen`, `Take` with a failing connection, `Report`, and for the same handle, which the client may
have from the page that says "Working", `Read`, `LockRead`: the reader is about to render a page that
is not there. `ReadNothing`, or `WriteNothing` for a command, then ends the process. `UncommittedStaysUnseen`
proves that this is the only such case: no window whose opening failed otherwise, and no AL state that
did not commit, is ever used, and no command gets to a worker for a window without a page.

## 4. Proofs

`BoundariesProofs` proves, for every number of rows, tables, cursors, scopes and failures:
`TypeCorrect`, `SavepointsAlwaysMatch`, `IsolationIsKept`, `KeptCommandsAreDurable`,
`CurrentCursorsExist` and `CommittedRowsStay`; where no test isolation is used or no `COMMIT` is rejected,
`PendingIsAlwaysWriting`, `RunsStartClean` and `LiveCommitsAreDurable`; and where no `COMMIT` is
rejected, `FailedRunsRestoreEntry` and `BoundariesKeepThePromise`, the refinement of
`NestedTransactions`. Three invariants carry this.

* `Inv` (`Invariance`), without any hypothesis: the types, `SavepointsMatch`, which is inductive only with
  what a failed or lost transaction may leave behind, and `ScopesFit`, which scopes there are in which
  phase: between sealing a command and its commit nothing is left to fail silently. Each operation has
  a lemma that says what it does to these parts. The cursors add `CursorsFit`: every step but their own
  moves the epoch on, leaves a transaction beyond use, or keeps them all (`CursorsFollow`). `CommittedRowsStay`
  adds `DurableEverywhere`: whatever the session can go back to includes the durable rows.
* `PhaseFits` and `MarksFit`, for sessions that commands host and programs without test scopes
  (`Unisolated`): what a boundary would restore `writing_` to is as true of the rows it would restore as
  `writing_` is of the rows now, and the marks of the evaluated runs follow every commit.
* `NestingFits`, where no `COMMIT` is rejected (`CommitsAccepted`): scopes and boundaries match one for one
  wherever AL code can go on. The scope at place `i` has depth `i`, the floor is the depth of the innermost
  test scope and each scope knows the floor it was opened under (`ShapeFits`); a transaction that can go
  on has a boundary for every scope, or belongs to a command that is `Sealed` (`StacksFit`); what is
  left of the savepoints restores what the scopes are meant to restore (`RestorePointsFit`); and outside
  test isolation `writing_` tells the truth, though a commit under a floor clears it over rows nobody
  else sees (`WritingFits`, `RunsFit`). All ends of scopes are reduced to three outcomes (`ScopeEnds`:
  restored, released, or a transaction beyond use), all commits to four (`CommitMoves`), and the other
  statements to a `QuietStep`, a `RefusedStep` or a write.

The hypothesis `CommitsAccepted` is no convenience: after a rejected `COMMIT` scopes outlive their
boundaries, and the run `stale_scope` shows `FailedRunRestoresEntry` and with it the promise broken.
Statements may still fail and the connection break in any state, a `COMMIT` included.
The refinement follows from `NestingFits` by the same reduction: a scope that ends is `Keep`, `Discard`,
`Abandon` or, with the connection, `Abort`; a commit that renews is `Commit`, since `Shielded(i)` is
`i <= floor` (`RenewsIsPromised`); a refused statement is `Change` to `Doomed` or `Abort`.

`RowVersionsProofs` proves, for every number of sessions, versions, levels and failures:
`TypeCorrect`, `RowsStayAnnounced`, `MinimumIsSettled`, `MinimumIsMonotone`. The invariant has two
halves. Within a session every effect is *covered*: there is a lock with no greater version at no
deeper level; rollback and release of a level keep that (`RollbackCovers`, `ReleaseCovers`), because
the fence is at the level of its lock. Between sessions the session-level lock is exclusive, so at a
scan no version is drawn and not yet announced, and every announcement is at or above the reported
minimum.

`NumberSequencesProofs` proves, for every number of sessions, savepoints and calls and all seeds,
increments and counts: `TypeCorrect`, `NumbersAreGivenOnce`, `DrawnNumbersStayCurrent`,
`DrawsAreCurrent`, and `LockIsReturned` under the hypothesis that no cancel is noticed at the unlock.
`Layers` is the heart of the first half: a transaction has at least the locks of each of its
savepoints, so going back to one (`Backs`) never leaves it with drawn numbers or a changed sequence
and without the lock for them. Every step is one of eight kinds of move of its transaction
(`Movement`), and the parts about transactions are proved once per kind. The second half is
`Standing`: what a call has read is still true when it writes, since only the owner of the
session-level lock writes and nobody replaces the file. `WriteContinues` is the arithmetic.

`PageCommandsProofs` proves, for every number of windows, calls, bodies, places, workers, receipts,
revisions and faults: `TypeCorrect`, `WindowsHaveOneCall`, `UncommittedStaysUnseen` and
`AnswersStayTrue`. The invariant again comes in named parts. `OneCall` and `Mutex`: a window has one
active call, and its mutex one holder, which is at a step under it. So only the holder moves revision
and AL state, and `Consistent` can say where they may differ from the database: while the holder is
between its transaction and the end of its cleanup, or in a window that is `Closed`, invalid or left
behind by a process that ended. `LetIn` adds that whoever passed the checks has a valid window, and
`NobodySeesUncommitted` follows for the AL state. For the page, `Openings` says what a window without one
can be: its only call is its opening, and that is on its way, or has ended with an error, so no command
was ever accepted for it; what remains is the exception the property states. `Receipts`:
one call at most has started the receipt of a command, so
`Effects` can tie the receipt to what that call has made durable, also while a `COMMIT` is in doubt
(`InDoubt`: the row lock it keeps holds the cleanup back from the receipt). `Told` carries this to the
answer. One lemma, `Frame`, says what a step of a call leaves alone, and the lemmas of the parts need
to look at the acting call only.

It also proves `Implementation`, the refinement of `CommandOutcomes`, from that
invariant: `SubmitWrite` submits, an AL commit applies a part, the command's commit the whole (at once
or when its doubt is settled), `FailReceipt` bars the command, `Report` answers, and every other step
stutters.

`ClientSessionsProofs` proves all safety properties of `ClientSessions`, for every number of requests
and sessions and all limits, deadlines, commits and changes. Everything rests on the row locks:
`Holding` says what a request at a statement holds, `SharedAreValid` that a session somebody holds in
share mode is as it was checked, and `Exclusive` that two requests never write one session; so what was
checked is still true at the commit (`CommitAuthorised`). `Advancing` says that what is pending on a row
is later than the row: deadlines only grow and revocations stay (`RevocationFinal`). `Rotations` and
`Replaced` follow an heir from the statement that makes it (`RotationReplacing`). Only the holder of the
user's row adds sessions, and what it counted can only have become less since, but for `revived`:
`Additions`, and `Room` at each of its statements, give `AdmissionLimited`. `OnlyRenewals` orders the
places: user before session before the renewal.

`PageDialogsProofs` proves all safety properties of `PageDialogs`, for every number of requests,
questions, modal pages, commands and faults and every budget and depth: `TypeCorrect`, which holds the
revisions within the budget (`Counted`), `AnswersStayAgreed`, `RenderingsTakeOneCommand`,
`ReceiptsStayTrue`, `ToldOutcomesStayStored` and `NothingIsLeftQueued`. None is inductive alone. The
heart is `Working`: from a command on until its result a page is busy and takes no other, and the
receipt of the command it executes is queued and its boundary not kept, through every page and question
the command itself opens (`Executes`). So a command that ran belongs to an earlier rendering or is the
one in work (`Ran`), and the receipt says what became of the boundary. `Stacked` and `Unused` say that
a page is on the stack once and that one whose opening failed has never been used: it may be opened
again. `Queue` gives every queued receipt somebody who will see to it. `Shown` ties the answer in memory
to the stored one. There is one lemma per action, and under it one step per part that the action can
disturb.

`HttpServerProofs` proves, for every number of requests and workers and every queue,
`SuspendedInWork`, `RequestsHandledOnce` and `BudgetOwned`. The argument is ownership (`Owning`): a
request is in the queue once or with one worker, and suspended exactly then; `Going` says how far it
has come where it is, and `Ending` that a worker ends only after the queue was closed and empty. The
bytes that requests own are counted as a set of pairs of a request and an offset (`Bytes`), so that a
piece of a body or the deletion of a request adds or takes away a set, and no sum over the requests,
which would need induction, is needed.

`RecordWritesProofs` proves, for every number of sessions, keys, variables, versions and boundaries,
`TypeCorrect`, `OwnershipEnds` and `WritesDecided` (`VersionsDecide`). `VersionsDecide` rests on two
kinds of values that must not leak. A token is with one transaction: `Tokens` says that no committed row
and no other session has it, `Holds` and `Saves` that the rows a transaction holds, now and at each of
its boundaries, have its token as it was there; so an owner clause that is true is about an own row, and
a first change is admitted by the version alone. A version that is not committed is `Hidden` with its
session: `Secrets` says that no other session's variable has it. This is what a refusal needs
(`Refusals`): between the two statements another transaction may commit, and the row it commits could
only make the refusal wrong if the refused variable carried a version nobody else could have shown it.
`UndoStep` is the same lemma for `ROLLBACK TO` and `ROLLBACK`, `OwnWriteStep` for a row that is stored,
removed, or, in the two steps of a rename, both.

Assumptions are the `ASSUME`s on the constants in the modules: bounds are naturals, the values of a
sequence are an interval around zero, cancels hit statements of a call, options are valid ones
(`ValidateBrowserSessionOptions`, `ValidOptions`), requests, workers and sessions are finite where they
are counted, and the sentinels (`NoSession`, `None`, `Doomed`, `Opening`, `"reader"`) are none of the values
they stand beside.

Only model-checked, not proved: the liveness properties (`EveryoneIsServed`, `EveryCallIsServed`,
`EveryCallEnds`, `EveryRequestEnds`, `CallEnds`, `RequestsEnd`, `DestructorReturns`), which are beyond the
prover. Every safety property of a passing run is a theorem; where a theorem has a hypothesis on scopes
or faults, the run's constants satisfy it. Neither proved nor checked: `RunStartsClean` where test isolation and
rejected `COMMIT`s meet; there a scope that outlived its boundary may be deeper than the floor of a
later test, and what it is meant to restore is no longer defined by its depth.

## 5. What is abstracted, and what is not modelled

* `CommitBehavior` scopes and AutoRollback tests refuse or ignore an AL `Commit` before it gets to
  `Boundaries`; the model's `Commit` is the call that is not refused.
* `Boundaries::Commit` first calls `LockCommandCommit`, which does nothing outside a client's command;
  its locks are in `ClientSessions`, whose command has no boundaries.
* The transaction type, permissions, and the text of errors.
* Cancels that hit the exception handler of a row-version function itself.
* In the number sequences: `Exists`, which locks and changes nothing; several names, which share
  nothing unless their hashes collide; what a crash of the server does to a `setval` not yet on disk;
  sequences not made by these functions (`CACHE`, `CYCLE`). Cancels inside the exception handler.
* In the page command host: what an operation does to its page, the byte budget of the results,
  request syntax, csrf and permissions. A refused request that never becomes a call changes nothing
  and is not an action. Questions and modal pages are in `PageDialogs`, where a call is one thread;
  in `PageCommands` they are part of the AL program between two commits.
* What a null page does in a build that goes on after the virtual call: `PageCommands` lets the process
  end there. Of the receipts and windows in the database this assumes no more than a crash does.
* In `ClientSessions`: digests, secrets and csrf values, users other than one, and clients that come
  with a credential and without a session. There a statement that has waited for a row reads everything
  afresh; PostgreSQL re-reads the locked session row only, and the credential as of the statement's start.
  No property depends on it. In `PageDialogs`: drafts, rendering, messages and their byte
  budgets, and an `INSERT` that takes effect on the server only after its error was handled: one that
  fails has taken effect by then or never will. In `HttpServer`: headers and queries, of which only a refusal matters, the constructor's
  failures, and the inside of libmicrohttpd.
* In `Boundaries`, the property `RunStartsClean` is about one direction: a write that `writing_` does not
  tell of. That `writing_` stays TRUE after a run was kept, so that a subscriber that follows in the
  same dispatch is refused its evaluated run, is what the code does; no property judges it.
* In `RecordWrites`: tables without a row version, for which `RefuseStaleWrite` returns at once; the cascade of a `Rename`, which reads the referring rows and modifies or renames
  each of them with a further call; reads by
  `SystemId` and by cursor, which load a row as `Get` does; temporary records; and test isolation, inside
  which an AL `Commit` is no commit of the server and does not end the token.
* Not modelled: manual subscriptions that change during a dispatch (`Events.cpp:135`), which are next in
  the plan; navigation, filters, pages, reports,
  metadata, permissions, built-in functions and the transpiler, which keep no state between calls or
  are about text, and are tested against reference values.
* The transpiler, the built-in functions and the headers with the AL value types are most of the
  repository's lines. They are sequential translations of data; the share of the lines that is
  modelled is small for that reason.
* Rows as data: which fields a write changes is not modelled.

## 6. Plan

The set of runs is kept at a dozen, so that it can be read: a new module brings one run for its safety
and liveness together, in the place of one whose question another can take over.

1. An opening without a connection as a run that violates, once another run is merged or the opening
   invalidates its window itself; then the exception in `NobodySeesUncommitted` goes.
2. `EventDispatch`: subscriptions that bind and unbind while a dispatch runs; `TestRunner` (`RunOne`,
   AutoRollback).
3. A refinement of the `run` step of `PageCommands` by `PageDialogs`.
4. Proofs: what a rejected `COMMIT` leaves of the promise of `NestedTransactions` to the scopes that
   outlive it.
