---------------------------- MODULE RecordWrites ----------------------------
(***************************************************************************)
(* Optimistic writes of records (Storage.cpp, Table.cpp). A record variable *)
(* of AL carries the version it was read at or has itself written. Modify   *)
(* and Delete are one conditional statement: the row is changed only if it  *)
(* still has that version, or if the own transaction wrote it, which its    *)
(* private owner column tells. A statement that changed nothing is followed *)
(* by a second one that finds out whether the row is gone or newer. Rename  *)
(* is such an UPDATE by the old key that gives the row a new one.           *)
(*                                                                         *)
(* Sessions run at READ COMMITTED: a statement that meets a row another     *)
(* transaction has changed waits for its end and looks at the row again.    *)
(***************************************************************************)
EXTENDS Naturals, Sequences

CONSTANTS
    Sessions,     \* connections, each runs one AL command at a time
    NoSession,
    Keys,         \* primary keys of one table
    Buffers,      \* record variables
    Variables,    \* those of them that the AL code of a session has
    FirstVersion, \* version of the rows that are there at the start
    MaxVersion,   \* bound: versions drawn
    MaxLevel      \* bound: nesting of rollback boundaries of a session

ASSUME RecordWritesAssumption ==
    /\ NoSession \notin Sessions
    /\ Variables \in [Sessions -> SUBSET Buffers]
    /\ FirstVersion \in Nat \ {0} /\ MaxVersion \in Nat /\ MaxLevel \in [Sessions -> Nat]

VARIABLES
    \* the table: of every key the row, or Gone
    row,      \* as its last writer left it
    base,     \* as committed
    writer,   \* the transaction that has changed it and not ended, or NoSession
    last,     \* last value of the sequence rowversions_v1
    \* of every session
    token,    \* agiru.write_transaction_v1, 0 while the transaction has none
    saved,    \* its boundaries: what ROLLBACK TO returns to
    failed,   \* a statement has failed, PostgreSQL refuses all others
    stamp,    \* of every record variable observedVersion_, 0 if it has none
    call      \* the write it is in, or Idle

Ops == {"insert", "modify", "delete", "rename"}

table   == <<row, base, writer, last>>
session == <<token, saved, failed>>
vars    == <<row, base, writer, last, token, saved, failed, stamp, call>>

Gone == [there |-> FALSE, version |-> 0, owner |-> 0]
Idle == [at |-> "none"]

Mine(s) == {k \in Keys : writer[k] = s}

\* A statement of s sees what its own transaction has written, and of all other
\* transactions only what they have committed.
Visible(s, k) == IF writer[k] = s THEN row[k] ELSE base[k]

\* AL code is running and the connection takes statements.
Running(s) == call[s] = Idle /\ ~failed[s]

----------------------------------------------------------------------------
(* Reading *)

\* Get and every other read that loads a row: the variable takes its version.
Get(s, b, k) ==
    /\ Running(s)
    /\ Visible(s, k).there
    /\ stamp' = [stamp EXCEPT ![s][b] = Visible(s, k).version]
    /\ UNCHANGED <<table, session, call>>

\* b := c and Copy: the observation travels with the fields.
Assign(s, b, c) ==
    /\ Running(s)
    /\ stamp' = [stamp EXCEPT ![s][b] = stamp[s][c]]
    /\ UNCHANGED <<table, session, call>>

----------------------------------------------------------------------------
(* Writing *)

\* write_transaction_v1(): a UUID that no other transaction has. It is drawn with
\* the first write of the transaction, whose version stands for it here.
Token(s) == IF token[s] = 0 THEN last + 1 ELSE token[s]

\* Mutant: a row without an owner is the own one of a transaction without a token.
PredicateWithoutToken(s, b, r) ==
    r.there /\ (r.version = stamp[s][b] \/ r.owner = token[s])

\* The condition of UPDATE and DELETE beside the key.
WritePredicate(s, b, r) ==
    r.there /\ (r.version = stamp[s][b] \/ (token[s] # 0 /\ r.owner = token[s]))

\* A row is inserted or updated; RETURNING gives the variable its new version.
Put(s, b, k) ==
    /\ last < MaxVersion
    /\ row' = [row EXCEPT ![k] = [there |-> TRUE, version |-> last + 1, owner |-> Token(s)]]
    /\ writer' = [writer EXCEPT ![k] = s]
    /\ last' = last + 1
    /\ token' = [token EXCEPT ![s] = Token(s)]
    /\ stamp' = [stamp EXCEPT ![s][b] = last + 1]
    /\ call' = [call EXCEPT ![s] = Idle]
    /\ UNCHANGED <<base, saved, failed>>

\* The row leaves its key; d is where the write goes on.
Remove(s, k, d) ==
    /\ row' = [row EXCEPT ![k] = Gone]
    /\ writer' = [writer EXCEPT ![k] = s]
    /\ call' = [call EXCEPT ![s] = d]
    /\ UNCHANGED <<base, last, session, stamp>>

At(c, at) == [op |-> c.op, buffer |-> c.buffer, key |-> c.key, to |-> c.to, at |-> at]

\* Where the write goes on when its statement is not done.
Goes(s, c, at) ==
    /\ call' = [call EXCEPT ![s] = At(c, at)]
    /\ UNCHANGED <<table, session, stamp>>

\* INSERT ... ON CONFLICT DO NOTHING: false, and nothing has happened.
InsertsNothing(s, c, r) ==
    /\ c.op = "insert" /\ r.there
    /\ call' = [call EXCEPT ![s] = Idle]
    /\ UNCHANGED <<table, session, stamp>>

\* The statement of the write c meets the row r, which nobody else is changing.
InsertRow(s, c, r) == c.op = "insert" /\ ~r.there /\ Put(s, c.buffer, c.key)
ModifyRow(s, c, r) == c.op = "modify" /\ WritePredicate(s, c.buffer, r) /\ Put(s, c.buffer, c.key)
DeleteRow(s, c, r) ==
    c.op = "delete" /\ WritePredicate(s, c.buffer, r) /\ Remove(s, c.key, Idle)

\* Mutant: the row to rename is found by its old key alone.
RenameByKey(s, c, r) ==
    c.op = "rename" /\ r.there /\ Remove(s, c.key, At(c, "moving"))

\* An UPDATE of the key: the old row is taken before the index looks at the new key.
RenameRow(s, c, r) ==
    c.op = "rename" /\ WritePredicate(s, c.buffer, r) /\ Remove(s, c.key, At(c, "moving"))

ChangesNothing(s, c, r) ==
    /\ c.op # "insert" /\ ~WritePredicate(s, c.buffer, r)
    /\ Goes(s, c, "refused")

Executes(s, c, r) ==
    \/ InsertRow(s, c, r) \/ InsertsNothing(s, c, r)
    \/ ModifyRow(s, c, r) \/ DeleteRow(s, c, r) \/ RenameRow(s, c, r)
    \/ ChangesNothing(s, c, r)

\* Insert, Modify, Delete or Rename of the record variable b whose key fields are k: AL may
\* have changed them since the row was read.
Write(s, c) ==
    /\ Running(s)
    /\ writer[c.key] \in {NoSession, s}
    /\ Executes(s, c, Visible(s, c.key))

\* Mutant: a row with a change of another transaction is passed over.
WriteSkipsChange(s, c) ==
    /\ Running(s)
    /\ writer[c.key] \notin {NoSession, s}
    /\ \/ c.op = "insert" /\ Goes(s, c, "waiting")
       \/ c.op # "insert" /\ Goes(s, c, "refused")

\* The row has a change of another transaction. A row that does not fulfil the
\* condition as committed is not waited for.
WriteMeetsChange(s, c) ==
    /\ Running(s)
    /\ writer[c.key] \notin {NoSession, s}
    /\ \/ /\ c.op = "insert" \/ WritePredicate(s, c.buffer, base[c.key])
          /\ Goes(s, c, "waiting")
       \/ ChangesNothing(s, c, base[c.key])

\* The other transaction has ended, or gone back before the change: the condition is
\* evaluated again, on the row as it is now.
Resume(s) ==
    LET c == call[s] IN
    /\ c.at = "waiting"
    /\ writer[c.key] = NoSession
    /\ Executes(s, c, row[c.key])

\* The new key is free, perhaps after a wait for the transaction that had changed it.
\* Versions are only compared for equality: the row draws its one here.
Place(s) ==
    LET c == call[s] IN
    /\ c.at = "moving"
    /\ writer[c.to] \in {NoSession, s} /\ ~Visible(s, c.to).there
    /\ Put(s, c.buffer, c.to)

\* RefuseStaleWrite: if there is a row, an AL error; otherwise the write returns false.
\* Where AL code makes that an error too, as in every Rename, it does what it may do here.
RefuseStaleWrite(s) ==
    LET c == call[s] IN
    /\ c.at = "refused"
    /\ \/ Visible(s, c.key).there /\ Goes(s, c, "raised")
       \/ /\ ~Visible(s, c.key).there
          /\ call' = [call EXCEPT ![s] = Idle]
          /\ UNCHANGED <<table, session, stamp>>

\* A wait ends in a deadlock, a timeout or a cancel, or the new key of the row is taken.
StatementFails(s) ==
    /\ call[s].at \in {"waiting", "moving"}
    /\ failed' = [failed EXCEPT ![s] = TRUE]
    /\ call' = [call EXCEPT ![s] = Idle]
    /\ UNCHANGED <<table, token, saved, stamp>>

----------------------------------------------------------------------------
(* Boundaries of the transaction; Boundaries.tla has them in detail *)

\* An error leaves a call, or AL code is running; no statement is.
BetweenStatements(s) == call[s].at \in {"none", "raised"}

Boundary(s) ==
    [row   |-> [k \in Keys |-> IF writer[k] = s THEN row[k] ELSE Gone],
     mine  |-> Mine(s),
     token |-> token[s]]

\* A boundary right after a Commit.
Renewed == [row |-> [k \in Keys |-> Gone], mine |-> {}, token |-> 0]

\* SAVEPOINT
Open(s) ==
    /\ Running(s) /\ Len(saved[s]) < MaxLevel[s]
    /\ saved' = [saved EXCEPT ![s] = Append(@, Boundary(s))]
    /\ UNCHANGED <<table, token, failed, stamp, call>>

\* RELEASE SAVEPOINT
Keep(s) ==
    /\ Running(s) /\ saved[s] # <<>>
    /\ saved' = [saved EXCEPT ![s] = SubSeq(@, 1, Len(@) - 1)]
    /\ UNCHANGED <<table, token, failed, stamp, call>>

\* What s has written goes back to the boundary p. The sequence does not, and
\* neither do the record variables, which are memory of the AL code.
Undo(s, p) ==
    /\ row' = [k \in Keys |-> IF k \notin Mine(s) THEN row[k]
                              ELSE IF k \in p.mine THEN p.row[k] ELSE base[k]]
    /\ writer' = [k \in Keys |-> IF k \in Mine(s) \ p.mine THEN NoSession ELSE writer[k]]
    /\ token' = [token EXCEPT ![s] = p.token]
    /\ failed' = [failed EXCEPT ![s] = FALSE]
    /\ call' = [call EXCEPT ![s] = Idle]
    /\ UNCHANGED <<base, last, stamp>>

\* ROLLBACK TO SAVEPOINT, and its RELEASE
RollBackTo(s) ==
    /\ BetweenStatements(s) /\ saved[s] # <<>>
    /\ Undo(s, saved[s][Len(saved[s])])
    /\ saved' = [saved EXCEPT ![s] = SubSeq(@, 1, Len(@) - 1)]

\* ROLLBACK, or the connection is lost
RollBack(s) ==
    /\ BetweenStatements(s)
    /\ Undo(s, Renewed)
    /\ saved' = [saved EXCEPT ![s] = <<>>]

\* Mutant: the token belongs to the connection and outlives the transaction.
CommitKeepsToken(s) ==
    /\ Running(s)
    /\ base' = [k \in Keys |-> IF k \in Mine(s) THEN row[k] ELSE base[k]]
    /\ writer' = [k \in Keys |-> IF k \in Mine(s) THEN NoSession ELSE writer[k]]
    /\ saved' = [saved EXCEPT ![s] = [i \in 1..Len(@) |-> Renewed]]
    /\ UNCHANGED <<row, last, token, failed, stamp, call>>

\* COMMIT; every boundary is opened again in a new transaction.
Commit(s) ==
    /\ Running(s)
    /\ base' = [k \in Keys |-> IF k \in Mine(s) THEN row[k] ELSE base[k]]
    /\ writer' = [k \in Keys |-> IF k \in Mine(s) THEN NoSession ELSE writer[k]]
    /\ token' = [token EXCEPT ![s] = 0]
    /\ saved' = [saved EXCEPT ![s] = [i \in 1..Len(@) |-> Renewed]]
    /\ UNCHANGED <<row, last, failed, stamp, call>>

\* A try function catches the error of a refused write.
Catch(s) ==
    /\ call[s].at = "raised"
    /\ call' = [call EXCEPT ![s] = Idle]
    /\ UNCHANGED <<table, session, stamp>>

----------------------------------------------------------------------------
\* A Rename to the key the row has is a Modify.
Calls(s) == {c \in [op : Ops, buffer : Variables[s], key : Keys, to : Keys] :
                c.op = "rename" <=> c.to # c.key}

\* Rows from before versions were introduced have no owner.
Init ==
    /\ row \in [Keys -> {Gone, [there |-> TRUE, version |-> FirstVersion, owner |-> 0]}]
    /\ \A k, l \in Keys : row[k].there /\ row[l].there => k = l
    /\ base = row
    /\ writer = [k \in Keys |-> NoSession]
    /\ last = FirstVersion
    /\ token = [s \in Sessions |-> 0]
    /\ saved = [s \in Sessions |-> <<>>]
    /\ failed = [s \in Sessions |-> FALSE]
    /\ stamp = [s \in Sessions |-> [b \in Buffers |-> 0]]
    /\ call = [s \in Sessions |-> Idle]

Reads(s) ==
    \/ \E b \in Variables[s], k \in Keys : Get(s, b, k)
    \/ \E b, c \in Variables[s] : Assign(s, b, c)

Writes(s) ==
    \/ \E c \in Calls(s) : Write(s, c) \/ WriteMeetsChange(s, c)
    \/ Resume(s) \/ Place(s) \/ RefuseStaleWrite(s) \/ StatementFails(s) \/ Catch(s)

Bounds(s) == Open(s) \/ Keep(s) \/ RollBackTo(s) \/ RollBack(s) \/ Commit(s)

Next == \E s \in Sessions : Reads(s) \/ Writes(s) \/ Bounds(s)

Spec == Init /\ [][Next]_vars

----------------------------------------------------------------------------
(* Properties *)

Row  == {Gone} \cup [there : {TRUE}, version : Nat \ {0}, owner : Nat]
Save == [row : [Keys -> Row], mine : SUBSET Keys, token : Nat]
Call == {Idle} \cup [op : Ops, buffer : Buffers, key : Keys, to : Keys,
                     at : {"waiting", "moving", "refused", "raised"}]

\* The types of the variables. No record variable carries a version that the sequence
\* has not given out, which the sequence's next value would then forge.
TypeOK ==
    /\ row \in [Keys -> Row] /\ base \in [Keys -> Row]
    /\ writer \in [Keys -> Sessions \cup {NoSession}]
    /\ last \in Nat \ {0}
    /\ token \in [Sessions -> Nat] /\ saved \in [Sessions -> Seq(Save)]
    /\ failed \in [Sessions -> BOOLEAN]
    /\ stamp \in [Sessions -> [Buffers -> Nat]]
    /\ call \in [Sessions -> Call]

\* The exemption of own writes ends with the transaction: a row a session may change
\* whatever version its variable has is a row it has itself changed and not committed.
\* (write_transaction_v1 and the owner column, through Commit, ROLLBACK TO and renewed
\* boundaries.)
OwnershipIsCurrent ==
    \A s \in Sessions, k \in Keys :
        /\ token[s] # 0 /\ row[k].there /\ row[k].owner = token[s] => writer[k] = s
        /\ token[s] # 0 => base[k].owner # token[s]

\* What a session changes in a row that is committed, the variable it writes through has
\* read or written: it carries the version that is replaced, however long the statement
\* waited and whatever the session wrote, rolled back or committed before.
ReplacesWhatWasRead(s, k) ==
    writer'[k] = s /\ writer[k] # s /\ base[k].there
    => \E b \in Buffers :
          /\ stamp[s][b] = base[k].version
          /\ row'[k].there => stamp'[s][b] = row'[k].version

\* A write is refused as stale only if the row is there and the variable does not carry
\* its version: two statements find that out, and the row may change between them.
RefusesWhatIsStale(s) ==
    call'[s].at = "raised" /\ call[s] # call'[s]
    => LET r == Visible(s, call[s].key) IN
       r.there /\ r.version # stamp[s][call[s].buffer]

\* Modify and Delete (WritePredicate, RefuseStaleWrite) overwrite no change of another
\* session that the variable has not seen, and refuse no change that it has.
VersionsDecide ==
    [][\A s \in Sessions : RefusesWhatIsStale(s) /\ \A k \in Keys : ReplacesWhatWasRead(s, k)]_vars
=============================================================================
