--------------------------- MODULE ClientSessions ---------------------------
(***************************************************************************)
(* The browser sessions of one user (BrowserSession.cpp, BrowserHttp.cpp)  *)
(* and the commands that run under them (PageCallAuthority.cpp), as        *)
(* transactions on the rows that say who may do what: the user, the        *)
(* credential the sessions were issued from, and the sessions.             *)
(*                                                                         *)
(* A request is one HTTP request with the transaction it opens. An action  *)
(* is one SQL statement of it: it waits for the row locks it needs, reads  *)
(* the rows as they are committed then (READ COMMITTED, and a write looks  *)
(* again after it has waited), and keeps what it locked until the          *)
(* transaction ends. What a transaction has written and not committed is   *)
(* in pending; a row in it is locked against every other request.          *)
(***************************************************************************)
EXTENDS Naturals, FiniteSets

CONSTANTS
    Requests,     \* requests of the user's clients, each answered once
    Browsers,     \* digests a session may get
    Existing,     \* the sessions that are live when the model begins
    None,         \* no request, no session
    Limit,        \* BrowserSessionOptions::sessionsPerUser
    Idle,         \* BrowserSessionOptions::idle
    Lifetime,     \* BrowserSessionOptions::lifetime
    SourceEnds,   \* expires_at of the credential
    MaxTime,      \* bound on the clock
    MaxPauses,    \* bound on the AL commits of a command
    MaxChanges    \* bound on the changes of the user and the credential

\* ValidateBrowserSessionOptions, and instances that start in a state it allows.
ASSUME SessionAssumption ==
    /\ Limit \in Nat \ {0} /\ Idle \in Nat \ {0} /\ Lifetime \in Nat /\ Idle <= Lifetime
    /\ SourceEnds \in Nat /\ MaxTime \in Nat /\ MaxPauses \in Nat /\ MaxChanges \in Nat
    /\ IsFiniteSet(Browsers)
    /\ Existing \subseteq Browsers /\ Cardinality(Existing) <= Limit
    /\ None \notin Requests /\ None \notin Browsers

VARIABLES
    now,          \* clock_timestamp()
    account,      \* the user is enabled
    source,       \* the credential is not revoked
    changes,      \* how often an operator changed one of the two
    session,      \* the committed rows of browser_sessions
    heir,         \* history: the session that replaced one by a rotation
    revived,      \* history: sessions whose renewal was committed after their idle deadline,
                  \* and their heirs
    kind,         \* what a request asks for
    browser,      \* the session a request came with
    pc,           \* the statement a request executes next
    goal,         \* whether the commit under way ends the command
    cancelled,    \* PageCall::cancelled
    pending,      \* the rows a transaction has written
    userX,        \* the request that holds the user's row FOR UPDATE
    userS,        \* the requests that hold it FOR SHARE
    rowS,         \* the requests that hold their session and the credential FOR SHARE
    durable       \* history: how often the command's work was committed

rows == <<account, source, changes, session, heir, revived>>
locks == <<userX, userS, rowS>>
vars == <<now, rows, kind, browser, pc, goal, cancelled, pending, locks, durable>>

Kinds == {"signin", "rotate", "logout", "open", "command"}

Waits == {"admit", "replace", "revoke", "renewOpen", "lockUser", "lockRows", "renew"}

Places == Waits \cup
    {"idle", "begin", "count", "insert", "keep", "start", "run", "refuse", "recheck", "commit",
     "done", "failed"}

-----------------------------------------------------------------------------
(* Rows. *)

Row == {row \in [revoked : BOOLEAN, idle : Nat, ends : Nat] :
           row.idle <= row.ends /\ row.ends <= SourceEnds}

\* A digest nobody was given: no query finds it.
NoRow == [revoked |-> TRUE, idle |-> 0, ends |-> 0]

Least(S) == CHOOSE n \in S : \A m \in S : n <= m

\* kLive: the session, and the credential it was issued from.
Live(row) ==
    /\ ~ row.revoked /\ now < row.ends /\ now < row.idle
    /\ source /\ now < SourceEnds

IssuedRow ==
    [revoked |-> FALSE,
     idle |-> Least({SourceEnds, now + Idle}), ends |-> Least({SourceEnds, now + Lifetime})]

RotatedRow(old) ==
    [revoked |-> FALSE,
     idle |-> Least({old.ends, SourceEnds, now + Idle}), ends |-> Least({old.ends, SourceEnds})]

RenewedRow(old) == [old EXCEPT !.idle = Least({old.ends, SourceEnds, now + Idle})]

RevokedRow(old) == [old EXCEPT !.revoked = TRUE]

\* The rows as request r sees them: its own writes over the committed ones.
Sees(r, b) == IF b \in DOMAIN pending[r] THEN pending[r][b] ELSE session[b]

Fresh(b) == session[b] = NoRow /\ \A r \in Requests : b \notin DOMAIN pending[r]

Writes(r, changed) == pending' = [pending EXCEPT ![r] = changed]

NoWrites == [b \in {} |-> NoRow]

-----------------------------------------------------------------------------
(* Row locks. *)

\* The requests whose end a request waits for before its next statement.
Writers(r, b) == {q \in Requests \ {r} : b \in DOMAIN pending[q]}

Sharers(r, b) == {q \in rowS \ {r} : browser[q] = b}

WaitsFor(r) ==
    CASE pc[r] = "admit" -> ({userX} \cup userS) \ {r, None}
      [] pc[r] = "lockUser" -> {userX} \ {r, None}
      [] pc[r] = "lockRows" -> Writers(r, browser[r])
      [] pc[r] \in {"replace", "revoke", "renewOpen", "renew"} ->
            Writers(r, browser[r]) \cup Sharers(r, browser[r])
      [] OTHER -> {}

Granted(r) == WaitsFor(r) = {}

\* A set of requests none of which can go on before another of them has ended.
Deadlocked(S) == S # {} /\ \A r \in S : WaitsFor(r) \cap S # {}

Goes(r, place) == pc' = [pc EXCEPT ![r] = place]

\* The end of a transaction releases what it locked.
Unlock(r) ==
    /\ userX' = IF userX = r THEN None ELSE userX
    /\ userS' = userS \ {r}
    /\ rowS' = rowS \ {r}

\* Mutant: the transaction of a request that failed stays open.
FailsOpen(r) ==
    /\ Goes(r, "failed") /\ Writes(r, NoWrites)
    /\ UNCHANGED <<now, rows, kind, browser, goal, cancelled, locks, durable>>

\* ~SessionCommand after an error: ROLLBACK, and the request is refused.
Fails(r) ==
    /\ Goes(r, "failed") /\ Writes(r, NoWrites) /\ Unlock(r)
    /\ UNCHANGED <<now, rows, kind, browser, goal, cancelled, durable>>

-----------------------------------------------------------------------------
(* Requests. *)

\* A client is authenticated by the committed rows, outside any transaction: Issue by the
\* credential, everything else by the session its cookie names.
Arrive(r, k, b) ==
    /\ pc[r] = "idle"
    /\ \/ k = "signin" /\ b = None /\ source /\ now < SourceEnds
       \/ k # "signin" /\ b # None /\ Live(session[b])
    /\ kind' = [kind EXCEPT ![r] = k]
    /\ browser' = [browser EXCEPT ![r] = b]
    /\ Goes(r, IF k = "command" THEN "start" ELSE "begin")
    /\ UNCHANGED <<now, rows, goal, cancelled, pending, locks, durable>>

FirstStatement(k) ==
    CASE k \in {"signin", "rotate"} -> "admit"
      [] k = "logout" -> "revoke"
      [] k = "open" -> "renewOpen"

\* SessionCommand: BEGIN, and the user must be active.
Begin(r) ==
    /\ pc[r] = "begin"
    /\ IF account
       THEN /\ Goes(r, FirstStatement(kind[r]))
            /\ UNCHANGED <<now, rows, kind, browser, goal, cancelled, pending, locks, durable>>
       ELSE Fails(r)

\* Mutant: hosts that issue or rotate share the user's row.
AdmitShared(r) ==
    /\ pc[r] = "admit" /\ userX = None
    /\ userS' = userS \cup {r}
    /\ Goes(r, IF kind[r] = "signin" THEN "count" ELSE "replace")
    /\ UNCHANGED <<now, rows, kind, browser, goal, cancelled, pending, userX, rowS, durable>>

\* SELECT 1 FROM "User" ... FOR UPDATE
Admit(r) ==
    /\ pc[r] = "admit" /\ Granted(r)
    /\ userX' = r
    /\ Goes(r, IF kind[r] = "signin" THEN "count" ELSE "replace")
    /\ UNCHANGED <<now, rows, kind, browser, goal, cancelled, pending, userS, rowS, durable>>

Population == Cardinality({b \in Browsers : Live(session[b])})

Count(r) ==
    /\ pc[r] = "count"
    /\ IF Population < Limit
       THEN /\ Goes(r, "insert")
            /\ UNCHANGED <<now, rows, kind, browser, goal, cancelled, pending, locks, durable>>
       ELSE Fails(r)

Insert(r) ==
    /\ pc[r] = "insert"
    /\ \/ /\ source /\ now < SourceEnds
          /\ \E b \in Browsers : Fresh(b) /\ Writes(r, [x \in {b} |-> IssuedRow])
          /\ Goes(r, "keep")
          /\ UNCHANGED <<now, rows, kind, browser, goal, cancelled, locks, durable>>
       \/ ~ (source /\ now < SourceEnds) /\ Fails(r)

\* Mutant: the session that came with the request is replaced without a second look.
ReplaceUnchecked(r) ==
    LET old == browser[r]
    IN  /\ pc[r] = "replace" /\ Granted(r)
        /\ \E b \in Browsers :
              /\ Fresh(b)
              /\ Writes(r, [x \in {old, b} |-> IF x = old THEN RevokedRow(session[old])
                                               ELSE RotatedRow(session[old])])
        /\ Goes(r, "keep")
        /\ UNCHANGED <<now, rows, kind, browser, goal, cancelled, locks, durable>>

\* Rotate: the old session is revoked and its heir inserted in one statement, which finds
\* nothing to replace when the session is no longer live.
Replace(r) ==
    LET old == browser[r]
    IN  /\ pc[r] = "replace" /\ Granted(r)
        /\ \/ /\ Live(session[old])
              /\ \E b \in Browsers :
                    /\ Fresh(b)
                    /\ Writes(r, [x \in {old, b} |-> IF x = old THEN RevokedRow(session[old])
                                                     ELSE RotatedRow(session[old])])
              /\ Goes(r, "keep")
              /\ UNCHANGED <<now, rows, kind, browser, goal, cancelled, locks, durable>>
           \/ ~ Live(session[old]) /\ Fails(r)

\* RevokeBrowserSession, whose answer the logout ignores.
Revoke(r) ==
    LET b == browser[r]
    IN  /\ pc[r] = "revoke" /\ Granted(r)
        /\ IF session[b].revoked THEN UNCHANGED pending
           ELSE Writes(r, [x \in {b} |-> RevokedRow(session[b])])
        /\ Goes(r, "keep")
        /\ UNCHANGED <<now, rows, kind, browser, goal, cancelled, locks, durable>>

\* Mutant: a renewal writes what it has read before it waited.
RenewStale(r) ==
    LET b == browser[r]
    IN  /\ pc[r] \in {"renewOpen", "renew"}
        /\ IF Live(session[b]) THEN Writes(r, [x \in {b} |-> RenewedRow(session[b])])
           ELSE UNCHANGED pending
        /\ Goes(r, IF pc[r] = "renew" THEN "recheck" ELSE "keep")
        /\ UNCHANGED <<now, rows, kind, browser, goal, cancelled, locks, durable>>

\* RenewBrowserSession, whose answer its callers ignore: after the checks of Open, and in
\* the transaction of a command that has done its work.
Renew(r) ==
    LET b == browser[r]
    IN  /\ pc[r] \in {"renewOpen", "renew"} /\ Granted(r)
        /\ IF Live(session[b]) THEN Writes(r, [x \in {b} |-> RenewedRow(session[b])])
           ELSE UNCHANGED pending
        /\ Goes(r, IF pc[r] = "renew" THEN "recheck" ELSE "keep")
        /\ UNCHANGED <<now, rows, kind, browser, goal, cancelled, locks, durable>>

-----------------------------------------------------------------------------
(* Commits. *)

\* The rows of a transaction become everybody's, and its locks are free.
Publish(r) ==
    /\ session' = [b \in Browsers |-> Sees(r, b)]
    /\ heir' = [b \in Browsers |->
                   IF kind[r] = "rotate" /\ b = browser[r]
                   THEN CHOOSE x \in DOMAIN pending[r] : x # b ELSE heir[b]]
    /\ revived' = revived \cup
          {b \in DOMAIN pending[r] : /\ ~ pending[r][b].revoked /\ session[b] # NoRow
                                     /\ session[b].idle <= now} \cup
          {b \in DOMAIN pending[r] : kind[r] = "rotate" /\ browser[r] \in revived}
    /\ Writes(r, NoWrites) /\ Unlock(r)
    /\ UNCHANGED <<now, account, source, changes, kind, browser, goal, cancelled>>

\* SessionCommand::Keep of a request without a call: nobody checks the client again. An
\* opening goes on with a call that runs the page's triggers.
Keep(r) ==
    /\ pc[r] = "keep"
    /\ Publish(r)
    /\ Goes(r, IF kind[r] = "open" THEN "start" ELSE "done")
    /\ UNCHANGED durable

-----------------------------------------------------------------------------
(* Calls: a command, or the opening of a page, under a PageCallAuthority. *)

\* PageCallAuthority::Check, on a connection of its own.
Allowed(r) == ~ cancelled[r] /\ Live(session[browser[r]]) /\ account

\* A check failed: the call is cancelled for good. AL code that commits or waits may catch
\* the error and go on in the same transaction; elsewhere the call fails.
Refuse(r) ==
    /\ pc[r] = "refuse"
    /\ cancelled' = [cancelled EXCEPT ![r] = TRUE]
    /\ \/ /\ goal[r] = "pause"
          /\ Goes(r, "run")
          /\ UNCHANGED <<now, rows, kind, browser, goal, pending, locks, durable>>
       \/ /\ Goes(r, "failed") /\ Writes(r, NoWrites) /\ Unlock(r)
          /\ UNCHANGED <<now, rows, kind, browser, goal, durable>>

\* PageCallAuthority::PageCallAuthority, when a worker takes the call.
Start(r) ==
    /\ pc[r] = "start"
    /\ Goes(r, IF Allowed(r) THEN "run" ELSE "refuse")
    /\ UNCHANGED <<now, rows, kind, browser, goal, cancelled, pending, locks, durable>>

\* AL code that waits for an answer checks its client meanwhile.
Ask(r) ==
    /\ pc[r] = "run" /\ ~ Allowed(r) /\ ~ cancelled[r]
    /\ goal' = [goal EXCEPT ![r] = "pause"]
    /\ Goes(r, "refuse")
    /\ UNCHANGED <<now, rows, kind, browser, cancelled, pending, locks, durable>>

\* Mutant: the rows of the session are locked before the user.
FollowingRowsFirst(r) ==
    CASE pc[r] = "run" -> "lockRows"
      [] pc[r] = "lockRows" -> "lockUser"
      [] pc[r] = "lockUser" -> IF goal[r] = "end" /\ kind[r] = "command" THEN "renew" ELSE "commit"

\* LockCommit after its check: the user's row, then those of the session and the
\* credential, then the commit, before which a command that ends renews its session.
Following(r) ==
    CASE pc[r] = "run" -> "lockUser"
      [] pc[r] = "lockUser" -> "lockRows"
      [] pc[r] = "lockRows" -> IF goal[r] = "end" /\ kind[r] = "command" THEN "renew" ELSE "commit"

\* A Commit of the AL code, or the end of the call.
Checkpoint(r, g) ==
    /\ pc[r] = "run"
    /\ g = "pause" => durable[r] < MaxPauses
    /\ goal' = [goal EXCEPT ![r] = g]
    /\ Goes(r, IF Allowed(r) THEN Following(r) ELSE "refuse")
    /\ UNCHANGED <<now, rows, kind, browser, cancelled, pending, locks, durable>>

\* Mutant: the user is looked up and not locked.
LockNobody(r) ==
    /\ pc[r] = "lockUser" /\ Granted(r)
    /\ Goes(r, IF account THEN Following(r) ELSE "refuse")
    /\ UNCHANGED <<now, rows, kind, browser, goal, cancelled, pending, locks, durable>>

\* SELECT 1 FROM "User" ... FOR SHARE, and RequireActiveUser once it is locked.
LockUser(r) ==
    /\ pc[r] = "lockUser" /\ Granted(r)
    /\ userS' = userS \cup {r}
    /\ Goes(r, IF account THEN Following(r) ELSE "refuse")
    /\ UNCHANGED <<now, rows, kind, browser, goal, cancelled, pending, userX, rowS, durable>>

\* Live(connection, true): SELECT ... FOR SHARE OF b,c,p, which locks what it finds.
LockRows(r) ==
    /\ pc[r] = "lockRows" /\ Granted(r)
    /\ \/ /\ Live(session[browser[r]])
          /\ rowS' = rowS \cup {r}
          /\ Goes(r, Following(r))
       \/ /\ ~ Live(session[browser[r]])
          /\ Goes(r, "refuse")
          /\ UNCHANGED rowS
    /\ UNCHANGED <<now, rows, kind, browser, goal, cancelled, pending, userX, userS, durable>>

\* Keep after the renewal: LockCommit once more. Its check reads the committed rows, its
\* locking query the renewed session.
Recheck(r) ==
    /\ pc[r] = "recheck"
    /\ Goes(r, IF Allowed(r) /\ Live(Sees(r, browser[r])) THEN "commit" ELSE "refuse")
    /\ UNCHANGED <<now, rows, kind, browser, goal, cancelled, pending, locks, durable>>

Commit(r) ==
    /\ pc[r] = "commit"
    /\ Publish(r)
    /\ durable' = [durable EXCEPT ![r] = @ + 1]
    /\ Goes(r, IF goal[r] = "pause" THEN "run" ELSE "done")

-----------------------------------------------------------------------------
(* What else happens. *)

\* Any statement of a request may fail: its connection breaks, AL code raises an error.
Lose(r) == pc[r] \notin {"idle", "done", "failed"} /\ Fails(r)

\* PostgreSQL ends a transaction that waits for itself.
Victim(r) == (\E S \in SUBSET Requests : r \in S /\ Deadlocked(S)) /\ Fails(r)

\* An operator enables or disables the user.
ChangeAccount ==
    /\ changes < MaxChanges /\ userX = None /\ userS = {}
    /\ account' = ~ account
    /\ changes' = changes + 1
    /\ UNCHANGED <<now, source, session, heir, revived, kind, browser, pc, goal, cancelled,
                   pending, locks, durable>>

\* RevokeClientCredential
RevokeSource ==
    /\ changes < MaxChanges /\ source /\ rowS = {}
    /\ source' = FALSE
    /\ changes' = changes + 1
    /\ UNCHANGED <<now, account, session, heir, revived, kind, browser, pc, goal, cancelled,
                   pending, locks, durable>>

Tick ==
    /\ now < MaxTime
    /\ now' = now + 1
    /\ UNCHANGED <<rows, kind, browser, pc, goal, cancelled, pending, locks, durable>>

-----------------------------------------------------------------------------
Init ==
    /\ now = 0 /\ account = TRUE /\ source = TRUE /\ changes = 0
    /\ session = [b \in Browsers |-> IF b \in Existing THEN IssuedRow ELSE NoRow]
    /\ heir = [b \in Browsers |-> None] /\ revived = {}
    /\ kind = [r \in Requests |-> "command"] /\ browser = [r \in Requests |-> None]
    /\ pc = [r \in Requests |-> "idle"] /\ goal = [r \in Requests |-> "end"]
    /\ cancelled = [r \in Requests |-> FALSE]
    /\ pending = [r \in Requests |-> NoWrites]
    /\ userX = None /\ userS = {} /\ rowS = {}
    /\ durable = [r \in Requests |-> 0]

\* The steps a request takes once it has arrived.
Step(r) ==
    \/ Begin(r) \/ Admit(r) \/ Count(r) \/ Insert(r) \/ Replace(r) \/ Revoke(r) \/ Renew(r)
    \/ Keep(r) \/ Start(r) \/ Refuse(r) \/ LockUser(r) \/ LockRows(r) \/ Recheck(r) \/ Commit(r)

Next ==
    \/ \E r \in Requests :
          \/ \E k \in Kinds, b \in Browsers \cup {None} : Arrive(r, k, b)
          \/ Step(r)
          \/ Ask(r) \/ Checkpoint(r, "pause") \/ Checkpoint(r, "end") \/ Lose(r) \/ Victim(r)
    \/ ChangeAccount \/ RevokeSource \/ Tick

Spec == Init /\ [][Next]_vars

\* A request that can go on does, PostgreSQL finds its deadlocks, and AL code, however often
\* it commits or catches a refusal, ends.
FairSpec ==
    /\ Spec
    /\ \A r \in Requests :
          WF_vars(Step(r)) /\ WF_vars(Victim(r)) /\ SF_vars(Checkpoint(r, "end"))

-----------------------------------------------------------------------------
(* Properties. *)

TypeOK ==
    /\ now \in 0..MaxTime /\ account \in BOOLEAN /\ source \in BOOLEAN /\ changes \in 0..MaxChanges
    /\ session \in [Browsers -> Row]
    /\ heir \in [Browsers -> Browsers \cup {None}] /\ revived \subseteq Browsers
    /\ kind \in [Requests -> Kinds] /\ browser \in [Requests -> Browsers \cup {None}]
    /\ pc \in [Requests -> Places] /\ goal \in [Requests -> {"pause", "end"}]
    /\ cancelled \in [Requests -> BOOLEAN]
    /\ DOMAIN pending = Requests
    /\ \A r \in Requests :
          DOMAIN pending[r] \subseteq Browsers /\ \A b \in DOMAIN pending[r] : pending[r][b] \in Row
    /\ userX \in Requests \cup {None} /\ userS \subseteq Requests /\ rowS \subseteq Requests
    /\ durable \in [Requests -> 0..MaxPauses + 1]

\* The work of a call becomes durable only while its user is enabled, its credential and
\* its session are not revoked, and no check of the call ever failed: whoever revokes one of
\* them waits for the commit, or the commit is refused.
CommitsAreAuthorised ==
    [][\A r \in Requests : durable'[r] # durable[r] =>
          account /\ source /\ ~ session[browser[r]].revoked /\ ~ cancelled[r]]_vars

\* However many hosts issue and rotate at once, a user has no more live sessions than the
\* limit, but for those whose renewal was in doubt while their idle deadline passed.
AdmissionIsLimited ==
    Cardinality({b \in Browsers \ revived : Live(session[b])}) <= Limit

\* A session is replaced once, while it was not revoked, and what replaces it is there when
\* the old one is gone: no rotation leaves a client two sessions, or none.
RotationReplaces ==
    [][\A b \in Browsers : heir'[b] # heir[b] =>
          /\ heir[b] = None /\ ~ session[b].revoked /\ session'[b].revoked
          /\ session[heir'[b]] = NoRow /\ ~ session'[heir'[b]].revoked
          /\ session'[heir'[b]].ends <= session[b].ends]_vars

\* What is revoked stays so, the deadline a session was issued with never moves, and no late
\* renewal takes back what another one has given, whoever else was writing the row.
RevocationIsFinal ==
    [][\A b \in Browsers : session[b] # NoRow =>
          /\ session[b].revoked => session'[b].revoked
          /\ session'[b].ends = session[b].ends
          /\ session[b].idle <= session'[b].idle]_vars

\* Requests that wait for each other are commands of one session which hold its row in
\* share mode and renew it; no other pair of requests locks in different orders.
OnlyRenewalsDeadlock ==
    \A S \in SUBSET Requests : Deadlocked(S) =>
        \E q, r \in S : q # r /\ browser[q] = browser[r] /\ pc[q] = "renew" /\ pc[r] = "renew"

\* Every request that has arrived is answered.
EveryRequestEnds ==
    \A r \in Requests : pc[r] # "idle" ~> pc[r] \in {"done", "failed"}
=============================================================================
