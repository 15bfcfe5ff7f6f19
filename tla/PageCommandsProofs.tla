------------------------- MODULE PageCommandsProofs -------------------------
(***************************************************************************)
(* What the page command host guarantees for every number of windows,       *)
(* calls, commands and faults: a window has one call, nobody works on state *)
(* that did not commit, and answers mean what CommandOutcomes says.         *)
(*                                                                         *)
(* The argument: a window's mutex has one holder, and only the holder moves *)
(* its revision and AL state. What they are not committed to is therefore   *)
(* under the mutex, or in a window that is closed for good (Consistent). A  *)
(* window without a page has had no call but its opening (Openings). A      *)
(* receipt is started by one call only, and ends with what that call came   *)
(* to (Receipts), also where a COMMIT is still in doubt.                    *)
(***************************************************************************)
EXTENDS PageCommands, TLAPS

Active == {"queued"} \cup Admission \cup Work

\* Steps under the window's mutex, and those in which its state may be uncommitted.
Held == {"open", "cleanOpen", "check", "insert", "begin", "run", "commit", "cleanPage",
         "cleanReceipt"}
Uncertain == {"run", "commit", "cleanPage"}

Writing == (Held \ {"open", "cleanOpen"}) \cup {"find"}

\* A call has a job from the beginning, and the step suits the job.
Jobs ==
    \A k \in Calls :
        /\ at[k] = "unused" <=> job[k] = None
        /\ job[k] # None /\ job[k].command # Opening => job[k].command.page = job[k].page
        /\ at[k] \in Writing => job[k].command # Opening
        /\ at[k] \in Admission \cup {"open", "cleanOpen"} => job[k].command = Opening

\* A window has one call at a time.
OneCall == \A k \in Calls : at[k] \in Active => last[job[k].page] = k

\* The mutex of a window has the holder that is at a step under it.
Mutex ==
    /\ \A k \in Calls : at[k] \in Held => holder[job[k].page] = k
    /\ \A p \in Pages : holder[p] \in Calls => /\ at[holder[p]] \in Held
                                               /\ job[holder[p]].page = p
    /\ \A p \in Pages : holder[p] = "reader" => reading[p]

Used(p) == \E k \in Calls : job[k] # None /\ job[k].page = p

\* A handle that was never given out has no window, and a window that is being opened
\* no reader.
Fresh ==
    /\ \A p \in Pages : ~ Used(p) => /\ ~ kept[p] /\ ~ reading[p] /\ holder[p] = None
                                     /\ ~ invalid[p] /\ ~ touched[p] /\ saved[p] = revision[p]
    /\ \A k \in Calls : at[k] \in Admission => ~ reading[job[k].page]

\* A window that ended with its process.
Dead(p) ==
    /\ Used(p) /\ ~ kept[p] /\ ~ reading[p]
    /\ \A k \in Calls : job[k] # None /\ job[k].page = p => at[k] \in Ends

Closed(p) == invalid[p] \/ Dead(p)

\* Revision and AL state of a window are committed, unless its holder is at a step that
\* may leave them uncommitted, or nobody gets in any more.
ConsistentAt(p) ==
    \/ ~ touched[p] /\ saved[p] = revision[p]
    \/ Closed(p)
    \/ holder[p] \in Calls /\ at[holder[p]] \in Uncertain

Consistent == \A p \in Pages : ConsistentAt(p)

\* Who has been let in has a window that is valid, and the revision of its command.
LetIn ==
    /\ \A p \in Pages : holder[p] = "reader" => ~ invalid[p]
    /\ \A k \in Calls :
          /\ at[k] \in {"insert", "begin"} => ~ invalid[job[k].page]
          /\ at[k] \in {"insert", "begin", "run"} =>
                revision[job[k].page] = job[k].command.revision
          /\ at[k] = "commit" => revision[job[k].page] = job[k].command.revision + 1

\* A COMMIT in doubt.
DoubtOf(k) ==
    /\ doubt[k] # None => at[k] \in {"cleanPage", "cleanReceipt", "report"} \cup Ends
    /\ doubt[k] # None => applied[k] # "whole"
    /\ applied[k] # "nothing" =>
          at[k] \in {"run", "commit", "cleanPage", "cleanReceipt", "report"} \cup Ends
    /\ at[k] = "commit" => locked[k]
    /\ doubt[k] = "whole" => /\ locked[k]
                             /\ at[k] # "cleanReceipt"
                             /\ at[k] = "cleanPage" \/ Closed(job[k].page)
                             /\ job[k].command.revision < MaxRevision

InDoubt == \A k \in Calls : DoubtOf(k)

\* Calls that have a receipt of their own.
Begun(k) ==
    at[k] \in {"begin", "run", "commit", "cleanPage", "cleanReceipt"} \/ doubt[k] # None
        \/ applied[k] # "nothing"

ReceiptOf(k) ==
    /\ Begun(k) => /\ job[k] # None /\ job[k].command # Opening
                   /\ receipts[job[k].command] # None
                   /\ receipts[job[k].command].body = job[k].body
    /\ at[k] = "insert" => receipts[job[k].command] = None

Receipts ==
    /\ \A k \in Calls : ReceiptOf(k)
    /\ \A j, k \in Calls : Begun(j) /\ Begun(k) /\ job[j].command = job[k].command => j = k

Status(c) == IF receipts[c] = None THEN "none" ELSE receipts[c].outcome

\* A receipt is complete once a call has taken effect, and not before.
EffectOf(k) ==
    /\ at[k] \in {"begin", "run", "commit"} \/ doubt[k] = "whole" =>
          Status(job[k].command) = "started"
    /\ applied[k] = "whole" => Status(job[k].command) = "complete"
    /\ at[k] \in {"cleanPage", "cleanReceipt"} =>
          Status(job[k].command) = "started" \/ applied[k] = "whole"

Effects ==
    /\ \A k \in Calls : EffectOf(k)
    /\ \A c \in Commands : Status(c) = "complete" =>
          \E k \in Calls : job[k] # None /\ job[k].command = c /\ applied[k] = "whole"

\* What a call that has come to its answer may say.
ToldOf(k) ==
    /\ at[k] = "cleanReceipt" => invalidated[job[k].page]
    /\ at[k] \in {"report", "done"} => answer[k] # "none"
    /\ at[k] \in {"report", "done"} /\ job[k].command # Opening =>
          /\ answer[k] = "page" =>
                receipts[job[k].command] = [outcome |-> "complete", body |-> job[k].body]
          /\ answer[k] = "failed" => /\ invalidated[job[k].page]
                                     /\ Status(job[k].command) = "failed"
          /\ answer[k] = "refused" => applied[k] = "nothing" /\ doubt[k] = None

Told == \A k \in Calls : ToldOf(k)

\* Commands are for windows that were opened, and a window without a page that somebody
\* reads has had one call only: an opening that failed.
Openings ==
    /\ \A p \in Pages : last[p] # None => job[last[p]] # None /\ job[last[p]].page = p
    /\ \A k \in Calls : job[k] # None /\ job[k].command # Opening => opened[job[k].page]
    /\ \A k \in Calls : at[k] \in {"report", "done"} /\ job[k].command = Opening =>
                           opened[job[k].page] \/ answer[k] = "unknown"
    /\ \A p \in Pages : reading[p] => opened[p] \/ (last[p] # None /\ at[last[p]] = "done")

Inv ==
    /\ TypeOK /\ Jobs /\ OneCall /\ Mutex /\ Fresh /\ Consistent /\ LetIn /\ Openings
    /\ InDoubt /\ Receipts /\ Effects /\ Told

----------------------------------------------------------------------------

USE DEF Goes, Leave, Fault, window, mutex, memory, tables, calls, commit, counts, Page

\* Jobs and receipts are records of their kinds and not the sentinels.
LEMMA Kinds ==
    /\ \A p \in Pages, b \in Bodies :
          LET j == [page |-> p, command |-> Opening, body |-> b] IN j \in Job /\ j # None
    /\ \A c \in Commands, b \in Bodies :
          LET j == [page |-> c.page, command |-> c, body |-> b] IN j \in Job /\ j # None
    /\ \A o \in Outcomes, b \in Bodies :
          LET r == [outcome |-> o, body |-> b] IN r \in Receipt /\ r # None
    /\ \A c \in Commands : c.page \in Pages /\ c.revision \in 0..MaxRevision
                              /\ c # None /\ c # Opening
    /\ \A j \in Job : /\ j.page \in Pages /\ j.body \in Bodies
                      /\ j.command \in Commands \/ j.command = Opening
  BY SentinelAssumption DEF Job, Receipt, Commands

LEMMA Sentinels ==
    /\ None \notin Calls /\ "reader" \notin Calls
    /\ None # "reader" /\ None # "part" /\ None # "whole"
  BY PageCommandsAssumption

LEMMA Counting ==
    /\ \A n \in 0..2 : n < 2 => n + 1 \in 0..2
    /\ \A n \in Nat : n + 1 \in Nat
    /\ \A n \in 0..MaxRevision : n < MaxRevision => n + 1 \in 0..MaxRevision
  BY PageCommandsAssumption

----------------------------------------------------------------------------
(* Types. *)

\* The parts of TypeOK.
MemoryOK ==
    /\ kept \in [Pages -> BOOLEAN] /\ opened \in [Pages -> BOOLEAN]
    /\ invalid \in [Pages -> BOOLEAN]
    /\ touched \in [Pages -> BOOLEAN] /\ revision \in [Pages -> 0..MaxRevision]
    /\ last \in [Pages -> Calls \cup {None}]
MutexOK ==
    /\ holder \in [Pages -> Calls \cup {"reader", None}] /\ reading \in [Pages -> BOOLEAN]
TablesOK ==
    /\ age \in [Pages -> 0..2] /\ invalidated \in [Pages -> BOOLEAN]
    /\ saved \in [Pages -> 0..MaxRevision]
    /\ receipts \in [Commands -> Receipt \cup {None}]
CallsOK ==
    /\ job \in [Calls -> Job \cup {None}]
    /\ at \in [Calls -> Steps]
    /\ answer \in [Calls -> {"none", "page", "failed", "refused", "unknown"}]
CommitOK ==
    /\ locked \in [Calls -> BOOLEAN]
    /\ doubt \in [Calls -> {"part", "whole", None}]
    /\ applied \in [Calls -> {"nothing", "part", "whole"}]
OtherOK ==
    /\ host \in {"running", "stopping", "down"}
    /\ queue \in Seq(Calls)
    /\ commits \in Nat /\ faults \in Nat

LEMMA TypeParts ==
    TypeOK <=> MemoryOK /\ MutexOK /\ TablesOK /\ CallsOK /\ CommitOK /\ OtherOK
  BY DEF TypeOK, MemoryOK, MutexOK, TablesOK, CallsOK, CommitOK, OtherOK

\* What a command commits are a revision and a receipt.
LEMMA EffectType ==
    ASSUME TablesOK, NEW k \in Calls, job[k] \in Job, job[k].command \in Commands,
           job[k].command.revision + 1 \in 0..MaxRevision, TakesEffect(k)
    PROVE  /\ saved' \in [Pages -> 0..MaxRevision]
           /\ receipts' \in [Commands -> Receipt \cup {None}]
<1> DEFINE r == [outcome |-> "complete", body |-> job[k].body]
           c == job[k].command
<1>1. r \in Receipt
  BY Kinds DEF Outcomes
<1>2. /\ saved' = [saved EXCEPT ![c.page] = c.revision + 1]
      /\ receipts' = [receipts EXCEPT ![c] = r]
  BY DEF TakesEffect
<1> HIDE DEF r, c
<1>3. c \in Commands /\ c.revision + 1 \in 0..MaxRevision
  BY DEF c
<1> QED BY <1>1, <1>2, <1>3 DEF TablesOK

LEMMA MemoryStep ==
    ASSUME Inv, Next
    PROVE  MemoryOK'
<1> USE Kinds, Sentinels, Counting
<1>a. MemoryOK /\ MutexOK /\ TablesOK /\ CallsOK /\ CommitOK /\ OtherOK
  BY TypeParts DEF Inv
<1>b. Jobs
  BY DEF Inv
<1>1. ASSUME NEW k \in Calls, NEW p \in Pages, NEW b \in Bodies, Retain(k, p, b)
   PROVE MemoryOK'
  BY <1>1, <1>a, <1>b DEF Retain, NewPage, Unopened, Stale, MemoryOK, Jobs, Writing, Held, Admission
<1>2. ASSUME NEW k \in Calls, NEW c \in Commands, NEW b \in Bodies, SubmitWrite(k, c, b)
   PROVE MemoryOK'
  BY <1>2, <1>a, <1>b DEF SubmitWrite, SubmitIf, Room, Owned, Unfinished, MemoryOK, Jobs,
     Writing, Held, Admission
<1>3. ASSUME NEW p \in Pages,
          \/ Read(p) \/ LockRead(p) \/ EndRead(p) \/ Tick(p)
   PROVE MemoryOK'
  BY <1>3, <1>a, <1>b DEF Read, Unfinished, LockRead, Owned, EndRead, Tick, MemoryOK, Jobs,
     Writing, Held, Admission
<1>4. ASSUME NEW k \in Calls,
          \/ InsertRow(k) \/ Take(k) \/ FindContext(k) \/ Lock(k)
   PROVE MemoryOK'
  BY <1>4, <1>a, <1>b DEF InsertRow, Take, FindContext, Lock, MemoryOK, Jobs,
     Writing, Held, Admission
<1>5. ASSUME NEW k \in Calls, PublishOpen(k) PROVE MemoryOK'
  BY <1>5, <1>a, <1>b DEF PublishOpen, Room, MemoryOK, Jobs, Writing, Held, Admission
<1>6. ASSUME NEW k \in Calls, RunOpen(k) PROVE MemoryOK'
  BY <1>6, <1>a, <1>b DEF RunOpen, MemoryOK, Jobs, Writing, Held, Admission
<1>7. ASSUME NEW k \in Calls,
          \/ CleanOpen(k) \/ Report(k)
   PROVE MemoryOK'
  BY <1>7, <1>a, <1>b DEF CleanOpen, Report, MemoryOK, Jobs, Writing, Held, Admission
<1>8. ASSUME NEW k \in Calls,
          \/ Check(k) \/ InsertReceipt(k)
   PROVE MemoryOK'
  BY <1>8, <1>a, <1>b DEF Check, CheckIf, Owned, InsertReceipt, MemoryOK, Jobs, Writing, Held,
     Admission
<1>9. ASSUME NEW k \in Calls, Begin(k) PROVE MemoryOK'
  BY <1>9, <1>a, <1>b DEF Begin, Owned, MemoryOK, Jobs, Writing, Held, Admission
<1>10. ASSUME NEW k \in Calls,
          \/ AlCommit(k) \/ RunFails(k)
   PROVE MemoryOK'
  BY <1>10, <1>a, <1>b DEF AlCommit, RunFails, MemoryOK, Jobs, Writing, Held, Admission
<1>11. ASSUME NEW k \in Calls, Finish(k) PROVE MemoryOK'
  BY <1>11, <1>a, <1>b DEF Finish, MemoryOK, Jobs, Writing, Held, Admission
<1>12. ASSUME NEW k \in Calls, Commit(k) PROVE MemoryOK'
  BY <1>12, <1>a, <1>b DEF Commit, TakesEffect, MemoryOK, Jobs, Writing, Held, Admission
<1>13. ASSUME NEW k \in Calls, InvalidateWindow(k) PROVE MemoryOK'
  BY <1>13, <1>a, <1>b DEF InvalidateWindow, InvalidateIf, RowFree, MemoryOK, Jobs, Writing,
     Held, Admission
<1>14. ASSUME NEW k \in Calls,
          \/ FailReceipt(k) \/ Settle(k)
   PROVE MemoryOK'
  BY <1>14, <1>a, <1>b DEF FailReceipt, FailReceiptElse, Settle, TakesEffect, MemoryOK, Jobs,
     Writing, Held, Admission
<1>15. ASSUME
          \/ Stop \/ Stopped \/ Restart
   PROVE MemoryOK'
  BY <1>15, <1>a, <1>b DEF Stop, Stopped, Forgotten, Working, Restart, MemoryOK, Jobs, Writing,
     Held, Admission
<1>16. ASSUME Dies PROVE MemoryOK'
  BY <1>16, <1>a, <1>b DEF Dies, Forgotten, Steps, MemoryOK, Jobs, Writing, Held, Admission
<1> QED
  BY <1>1, <1>2, <1>3, <1>4, <1>5, <1>6, <1>7, <1>8, <1>9, <1>10, <1>11, <1>12, <1>13,
     <1>14, <1>15, <1>16
     DEF Next, Request, Lifecycle, HttpStep, WorkerStep, ReadStep, Crash, ReadNothing,
         WriteNothing

LEMMA MutexOKStep ==
    ASSUME Inv, Next
    PROVE  MutexOK'
<1> USE Kinds, Sentinels, Counting
<1>a. MemoryOK /\ MutexOK /\ TablesOK /\ CallsOK /\ CommitOK /\ OtherOK
  BY TypeParts DEF Inv
<1>b. Jobs
  BY DEF Inv
<1>1. ASSUME NEW k \in Calls, NEW p \in Pages, NEW b \in Bodies, Retain(k, p, b)
   PROVE MutexOK'
  BY <1>1, <1>a, <1>b DEF Retain, NewPage, Unopened, Stale, MutexOK, Jobs, Writing, Held, Admission
<1>2. ASSUME NEW k \in Calls, NEW c \in Commands, NEW b \in Bodies, SubmitWrite(k, c, b)
   PROVE MutexOK'
  BY <1>2, <1>a, <1>b DEF SubmitWrite, SubmitIf, Room, Owned, Unfinished, MutexOK, Jobs,
     Writing, Held, Admission
<1>3. ASSUME NEW p \in Pages,
          \/ Read(p) \/ Tick(p)
   PROVE MutexOK'
  BY <1>3, <1>a, <1>b DEF Read, Unfinished, Tick, MutexOK, Jobs, Writing, Held, Admission
<1>4. ASSUME NEW p \in Pages, LockRead(p) PROVE MutexOK'
  BY <1>4, <1>a, <1>b DEF LockRead, Owned, MutexOK, Jobs, Writing, Held, Admission
<1>5. ASSUME NEW p \in Pages, EndRead(p) PROVE MutexOK'
  BY <1>5, <1>a, <1>b DEF EndRead, MutexOK, Jobs, Writing, Held, Admission
<1>6. ASSUME NEW k \in Calls,
          \/ InsertRow(k) \/ PublishOpen(k) \/ Take(k) \/ FindContext(k)
   PROVE MutexOK'
  BY <1>6, <1>a, <1>b DEF InsertRow, PublishOpen, Room, Take, FindContext, MutexOK,
     Jobs, Writing, Held, Admission
<1>7. ASSUME NEW k \in Calls, Lock(k) PROVE MutexOK'
  BY <1>7, <1>a, <1>b DEF Lock, MutexOK, Jobs, Writing, Held, Admission
<1>8. ASSUME NEW k \in Calls,
          \/ RunOpen(k) \/ CleanOpen(k) \/ Report(k)
   PROVE MutexOK'
  BY <1>8, <1>a, <1>b DEF RunOpen, CleanOpen, Report, MutexOK, Jobs, Writing, Held, Admission
<1>9. ASSUME NEW k \in Calls,
          \/ Check(k) \/ InsertReceipt(k) \/ Begin(k)
   PROVE MutexOK'
  BY <1>9, <1>a, <1>b DEF Check, CheckIf, Owned, InsertReceipt, Begin, MutexOK, Jobs, Writing,
     Held, Admission
<1>10. ASSUME NEW k \in Calls,
          \/ AlCommit(k) \/ RunFails(k) \/ Finish(k)
   PROVE MutexOK'
  BY <1>10, <1>a, <1>b DEF AlCommit, RunFails, Finish, MutexOK, Jobs, Writing, Held,
     Admission
<1>11. ASSUME NEW k \in Calls,
          \/ Commit(k) \/ InvalidateWindow(k) \/ FailReceipt(k) \/ Settle(k)
   PROVE MutexOK'
  BY <1>11, <1>a, <1>b DEF Commit, TakesEffect, InvalidateWindow, InvalidateIf, RowFree,
     FailReceipt, FailReceiptElse, Settle, MutexOK, Jobs, Writing, Held, Admission
<1>12. ASSUME
          \/ Stop \/ Stopped \/ Restart
   PROVE MutexOK'
  BY <1>12, <1>a, <1>b DEF Stop, Stopped, Forgotten, Working, Restart, MutexOK, Jobs, Writing,
     Held, Admission
<1>13. ASSUME Dies PROVE MutexOK'
  BY <1>13, <1>a, <1>b DEF Dies, Forgotten, Steps, MutexOK, Jobs, Writing, Held, Admission
<1> QED
  BY <1>1, <1>2, <1>3, <1>4, <1>5, <1>6, <1>7, <1>8, <1>9, <1>10, <1>11, <1>12, <1>13
     DEF Next, Request, Lifecycle, HttpStep, WorkerStep, ReadStep, Crash, ReadNothing,
         WriteNothing

LEMMA TablesStep ==
    ASSUME Inv, Next
    PROVE  TablesOK'
<1> USE Kinds, Sentinels, Counting
<1>a. MemoryOK /\ MutexOK /\ TablesOK /\ CallsOK /\ CommitOK /\ OtherOK
  BY TypeParts DEF Inv
<1>b. Jobs
  BY DEF Inv
<1>1. ASSUME NEW k \in Calls, NEW p \in Pages, NEW b \in Bodies, Retain(k, p, b)
   PROVE TablesOK'
  BY <1>1, <1>a, <1>b DEF Retain, NewPage, Unopened, Stale, TablesOK, Outcomes, Jobs, Writing,
       Held, Admission
<1>2. ASSUME NEW k \in Calls, NEW c \in Commands, NEW b \in Bodies, SubmitWrite(k, c, b)
   PROVE TablesOK'
  BY <1>2, <1>a, <1>b DEF SubmitWrite, SubmitIf, Room, Owned, Unfinished, TablesOK, Outcomes,
     Jobs, Writing, Held, Admission
<1>3. ASSUME NEW p \in Pages,
          \/ Read(p) \/ LockRead(p) \/ EndRead(p)
   PROVE TablesOK'
  BY <1>3, <1>a, <1>b DEF Read, Unfinished, LockRead, Owned, EndRead, TablesOK, Outcomes, Jobs,
     Writing, Held, Admission
<1>4. ASSUME NEW p \in Pages, Tick(p) PROVE TablesOK'
  BY <1>4, <1>a, <1>b DEF Tick, TablesOK, Outcomes, Jobs, Writing, Held, Admission
<1>5. ASSUME NEW k \in Calls,
          \/ InsertRow(k) \/ Take(k) \/ FindContext(k) \/ Lock(k)
   PROVE TablesOK'
  BY <1>5, <1>a, <1>b DEF InsertRow, Take, FindContext, Lock, TablesOK, Outcomes,
     Jobs, Writing, Held, Admission
<1>6. ASSUME NEW k \in Calls, PublishOpen(k) PROVE TablesOK'
  BY <1>6, <1>a, <1>b DEF PublishOpen, Room, TablesOK, Outcomes, Jobs, Writing, Held, Admission
<1>7. ASSUME NEW k \in Calls,
          \/ RunOpen(k) \/ Report(k)
   PROVE TablesOK'
  BY <1>7, <1>a, <1>b DEF RunOpen, Report, TablesOK, Outcomes, Jobs, Writing, Held, Admission
<1>8. ASSUME NEW k \in Calls, CleanOpen(k) PROVE TablesOK'
  BY <1>8, <1>a, <1>b DEF CleanOpen, TablesOK, Outcomes, Jobs, Writing, Held, Admission
<1>9. ASSUME NEW k \in Calls,
          \/ Check(k) \/ Begin(k)
   PROVE TablesOK'
  BY <1>9, <1>a, <1>b DEF Check, CheckIf, Owned, Begin, TablesOK, Outcomes, Jobs, Writing, Held,
     Admission
<1>10. ASSUME NEW k \in Calls, InsertReceipt(k) PROVE TablesOK'
  <2> DEFINE r == [outcome |-> "started", body |-> job[k].body]
  <2>1. job[k].command \in Commands /\ r \in Receipt
    BY <1>10, <1>a, <1>b DEF InsertReceipt, CallsOK, Jobs, Writing, Held, Outcomes
  <2>2. receipts' = receipts \/ receipts' = [receipts EXCEPT ![job[k].command] = r]
    BY <1>10 DEF InsertReceipt
  <2> HIDE DEF r
  <2>3. receipts' \in [Commands -> Receipt \cup {None}]
    BY <1>a, <2>1, <2>2 DEF TablesOK
  <2> QED BY <1>10, <1>a, <2>3 DEF InsertReceipt, TablesOK
<1>11. ASSUME NEW k \in Calls,
          \/ AlCommit(k) \/ RunFails(k) \/ Finish(k)
   PROVE TablesOK'
  BY <1>11, <1>a, <1>b DEF AlCommit, RunFails, Finish, TablesOK, Outcomes, Jobs,
     Writing, Held, Admission
<1>12. ASSUME NEW k \in Calls, Commit(k) PROVE TablesOK'
  <2>1. CASE TakesEffect(k)
    <3>1. /\ at[k] = "commit" /\ job[k] \in Job /\ job[k].command \in Commands
          /\ job[k].command.page = job[k].page
      BY <1>12, <1>a, <1>b DEF Commit, CallsOK, Jobs, Writing, Held
    <3>2. job[k].command.revision + 1 = revision[job[k].page]
      BY <3>1 DEF Inv, LetIn
    <3>3. job[k].command.revision + 1 \in 0..MaxRevision
      BY <1>a, <3>1, <3>2 DEF MemoryOK
    <3> QED BY <1>12, <1>a, <2>1, <3>1, <3>3, EffectType DEF Commit, TablesOK
  <2>2. CASE ~ TakesEffect(k)
    BY <1>12, <2>2, <1>a DEF Commit, TablesOK
  <2> QED BY <2>1, <2>2
<1>13. ASSUME NEW k \in Calls, InvalidateWindow(k) PROVE TablesOK'
  BY <1>13, <1>a, <1>b DEF InvalidateWindow, InvalidateIf, RowFree, TablesOK, Outcomes, Jobs,
     Writing, Held, Admission
<1>14. ASSUME NEW k \in Calls, FailReceipt(k) PROVE TablesOK'
  <2> DEFINE c == job[k].command
  <2>1. c \in Commands
    BY <1>14, <1>a, <1>b DEF FailReceipt, FailReceiptElse, CallsOK, Jobs, Writing, Held
  <2>2. receipts[c] # None
    BY <1>14, <2>1 DEF FailReceipt, FailReceiptElse, Inv, Receipts, ReceiptOf, Begun
  <2>3. receipts[c] \in Receipt /\ "failed" \in Outcomes
    BY <1>a, <2>1, <2>2 DEF TablesOK, Outcomes
  <2>4. [receipts[c] EXCEPT !.outcome = "failed"] \in Receipt
    BY <2>3 DEF Receipt
  <2>5. \/ receipts' = receipts
        \/ receipts' = [receipts EXCEPT ![c] = [@ EXCEPT !.outcome = "failed"]]
    BY <1>14, <1>a, <2>1 DEF FailReceipt, FailReceiptElse, TablesOK
  <2> HIDE DEF c
  <2>6. receipts' \in [Commands -> Receipt \cup {None}]
    BY <1>a, <2>1, <2>4, <2>5 DEF TablesOK
  <2> QED BY <1>14, <1>a, <2>6 DEF FailReceipt, FailReceiptElse, TablesOK
<1>15. ASSUME NEW k \in Calls, Settle(k) PROVE TablesOK'
  <2>1. CASE doubt[k] = "whole" /\ TakesEffect(k)
    <3>1. job[k].command \in Commands /\ job[k] \in Job
      BY <1>15, <2>1, <1>a DEF Inv, Receipts, ReceiptOf, Begun, CallsOK
    <3>2. job[k].command.revision < MaxRevision
      BY <2>1 DEF Inv, InDoubt, DoubtOf
    <3>3. job[k].command.revision + 1 \in 0..MaxRevision
      BY <3>1, <3>2
    <3> QED BY <1>15, <1>a, <2>1, <3>1, <3>3, EffectType DEF Settle, TablesOK
  <2>2. CASE ~ (doubt[k] = "whole" /\ TakesEffect(k))
    BY <1>15, <2>2, <1>a DEF Settle, TablesOK
  <2> QED BY <2>1, <2>2
<1>16. ASSUME
          \/ Stop \/ Stopped \/ Restart
   PROVE TablesOK'
  BY <1>16, <1>a, <1>b DEF Stop, Stopped, Forgotten, Working, Restart, TablesOK, Outcomes, Jobs,
     Writing, Held, Admission
<1>17. ASSUME Dies PROVE TablesOK'
  BY <1>17, <1>a, <1>b DEF Dies, Forgotten, Steps, TablesOK, Outcomes, Jobs, Writing, Held,
     Admission
<1> QED
  BY <1>1, <1>2, <1>3, <1>4, <1>5, <1>6, <1>7, <1>8, <1>9, <1>10, <1>11, <1>12, <1>13,
     <1>14, <1>15, <1>16, <1>17
     DEF Next, Request, Lifecycle, HttpStep, WorkerStep, ReadStep, Crash, ReadNothing,
         WriteNothing

LEMMA CallsStep ==
    ASSUME Inv, Next
    PROVE  CallsOK'
<1> USE Kinds, Sentinels, Counting
<1>a. MemoryOK /\ MutexOK /\ TablesOK /\ CallsOK /\ CommitOK /\ OtherOK
  BY TypeParts DEF Inv
<1>b. Jobs
  BY DEF Inv
<1>1. ASSUME NEW k \in Calls, NEW p \in Pages, NEW b \in Bodies, Retain(k, p, b)
   PROVE CallsOK'
  BY <1>1, <1>a, <1>b DEF Retain, NewPage, Unopened, Stale, CallsOK, Steps, Admission, Work, Ends,
       Jobs, Writing, Held
<1>2. ASSUME NEW k \in Calls, NEW c \in Commands, NEW b \in Bodies, SubmitWrite(k, c, b)
   PROVE CallsOK'
  BY <1>2, <1>a, <1>b DEF SubmitWrite, SubmitIf, Room, Owned, Unfinished, CallsOK, Steps,
     Admission, Work, Ends, Jobs, Writing, Held
<1>3. ASSUME NEW p \in Pages,
          \/ Read(p) \/ LockRead(p) \/ EndRead(p) \/ Tick(p)
   PROVE CallsOK'
  BY <1>3, <1>a, <1>b DEF Read, Unfinished, LockRead, Owned, EndRead, Tick, CallsOK, Steps,
     Admission, Work, Ends, Jobs, Writing, Held
<1>4. ASSUME NEW k \in Calls,
          \/ InsertRow(k) \/ PublishOpen(k) \/ Take(k) \/ FindContext(k) \/ Lock(k)
   PROVE CallsOK'
  BY <1>4, <1>a, <1>b DEF InsertRow, PublishOpen, Room, Take, FindContext, Lock,
     CallsOK, Steps, Admission, Work, Ends, Jobs, Writing, Held
<1>5. ASSUME NEW k \in Calls,
          \/ RunOpen(k) \/ CleanOpen(k) \/ Report(k)
   PROVE CallsOK'
  BY <1>5, <1>a, <1>b DEF RunOpen, CleanOpen, Report, CallsOK, Steps, Admission, Work, Ends,
     Jobs, Writing, Held
<1>6. ASSUME NEW k \in Calls,
          \/ Check(k) \/ InsertReceipt(k) \/ Begin(k)
   PROVE CallsOK'
  BY <1>6, <1>a, <1>b DEF Check, CheckIf, Owned, InsertReceipt, Begin, CallsOK, Steps,
     Admission, Work, Ends, Jobs, Writing, Held
<1>7. ASSUME NEW k \in Calls,
          \/ AlCommit(k) \/ RunFails(k) \/ Finish(k)
   PROVE CallsOK'
  BY <1>7, <1>a, <1>b DEF AlCommit, RunFails, Finish, CallsOK, Steps, Admission,
     Work, Ends, Jobs, Writing, Held
<1>8. ASSUME NEW k \in Calls,
          \/ Commit(k) \/ InvalidateWindow(k) \/ FailReceipt(k) \/ Settle(k)
   PROVE CallsOK'
  BY <1>8, <1>a, <1>b DEF Commit, TakesEffect, InvalidateWindow, InvalidateIf, RowFree,
     FailReceipt, FailReceiptElse, Settle, CallsOK, Steps, Admission, Work, Ends, Jobs, Writing,
     Held
<1>9. ASSUME
          \/ Stop \/ Stopped \/ Restart
   PROVE CallsOK'
  BY <1>9, <1>a, <1>b DEF Stop, Stopped, Forgotten, Working, Restart, CallsOK, Steps, Admission,
     Work, Ends, Jobs, Writing, Held
<1>10. ASSUME Dies PROVE CallsOK'
  BY <1>10, <1>a, <1>b DEF Dies, Forgotten, Steps, CallsOK, Admission, Work, Ends, Jobs,
     Writing, Held
<1> QED
  BY <1>1, <1>2, <1>3, <1>4, <1>5, <1>6, <1>7, <1>8, <1>9, <1>10
     DEF Next, Request, Lifecycle, HttpStep, WorkerStep, ReadStep, Crash, ReadNothing,
         WriteNothing

LEMMA CommitStep ==
    ASSUME Inv, Next
    PROVE  CommitOK'
<1> USE Kinds, Sentinels, Counting
<1>a. MemoryOK /\ MutexOK /\ TablesOK /\ CallsOK /\ CommitOK /\ OtherOK
  BY TypeParts DEF Inv
<1>b. Jobs
  BY DEF Inv
<1>1. ASSUME NEW k \in Calls, NEW p \in Pages, NEW b \in Bodies, Retain(k, p, b)
   PROVE CommitOK'
  BY <1>1, <1>a, <1>b DEF Retain, NewPage, Unopened, Stale, CommitOK, Jobs, Writing, Held, Admission
<1>2. ASSUME NEW k \in Calls, NEW c \in Commands, NEW b \in Bodies, SubmitWrite(k, c, b)
   PROVE CommitOK'
  BY <1>2, <1>a, <1>b DEF SubmitWrite, SubmitIf, Room, Owned, Unfinished, CommitOK, Jobs,
     Writing, Held, Admission
<1>3. ASSUME NEW p \in Pages,
          \/ Read(p) \/ LockRead(p) \/ EndRead(p) \/ Tick(p)
   PROVE CommitOK'
  BY <1>3, <1>a, <1>b DEF Read, Unfinished, LockRead, Owned, EndRead, Tick, CommitOK, Jobs,
     Writing, Held, Admission
<1>4. ASSUME NEW k \in Calls,
          \/ InsertRow(k) \/ PublishOpen(k) \/ Take(k) \/ FindContext(k) \/ Lock(k)
   PROVE CommitOK'
  BY <1>4, <1>a, <1>b DEF InsertRow, PublishOpen, Room, Take, FindContext, Lock,
     CommitOK, Jobs, Writing, Held, Admission
<1>5. ASSUME NEW k \in Calls,
          \/ RunOpen(k) \/ CleanOpen(k) \/ Report(k)
   PROVE CommitOK'
  BY <1>5, <1>a, <1>b DEF RunOpen, CleanOpen, Report, CommitOK, Jobs, Writing, Held, Admission
<1>6. ASSUME NEW k \in Calls,
          \/ Check(k) \/ InsertReceipt(k)
   PROVE CommitOK'
  BY <1>6, <1>a, <1>b DEF Check, CheckIf, Owned, InsertReceipt, CommitOK, Jobs, Writing, Held,
     Admission
<1>7. ASSUME NEW k \in Calls, Begin(k) PROVE CommitOK'
  BY <1>7, <1>a, <1>b DEF Begin, Owned, CommitOK, Jobs, Writing, Held, Admission
<1>8. ASSUME NEW k \in Calls, AlCommit(k) PROVE CommitOK'
  BY <1>8, <1>a, <1>b DEF AlCommit, CommitOK, Jobs, Writing, Held, Admission
<1>9. ASSUME NEW k \in Calls, RunFails(k) PROVE CommitOK'
  BY <1>9, <1>a, <1>b DEF RunFails, CommitOK, Jobs, Writing, Held, Admission
<1>10. ASSUME NEW k \in Calls, Finish(k) PROVE CommitOK'
  BY <1>10, <1>a, <1>b DEF Finish, CommitOK, Jobs, Writing, Held, Admission
<1>11. ASSUME NEW k \in Calls, Commit(k) PROVE CommitOK'
  BY <1>11, <1>a, <1>b DEF Commit, TakesEffect, CommitOK, Jobs, Writing, Held, Admission
<1>12. ASSUME NEW k \in Calls,
          \/ InvalidateWindow(k) \/ FailReceipt(k)
   PROVE CommitOK'
  BY <1>12, <1>a, <1>b DEF InvalidateWindow, InvalidateIf, RowFree, FailReceipt,
     FailReceiptElse, CommitOK, Jobs, Writing, Held, Admission
<1>13. ASSUME NEW k \in Calls, Settle(k) PROVE CommitOK'
  BY <1>13, <1>a, <1>b DEF Settle, TakesEffect, CommitOK, Jobs, Writing, Held, Admission
<1>14. ASSUME
          \/ Stop \/ Stopped \/ Restart
   PROVE CommitOK'
  BY <1>14, <1>a, <1>b DEF Stop, Stopped, Forgotten, Working, Restart, CommitOK, Jobs, Writing,
     Held, Admission
<1>15. ASSUME Dies PROVE CommitOK'
  BY <1>15, <1>a, <1>b DEF Dies, Forgotten, Steps, CommitOK, Jobs, Writing, Held, Admission
<1> QED
  BY <1>1, <1>2, <1>3, <1>4, <1>5, <1>6, <1>7, <1>8, <1>9, <1>10, <1>11, <1>12, <1>13,
     <1>14, <1>15
     DEF Next, Request, Lifecycle, HttpStep, WorkerStep, ReadStep, Crash, ReadNothing,
         WriteNothing

LEMMA OtherStep ==
    ASSUME Inv, Next
    PROVE  OtherOK'
<1> USE Kinds, Sentinels, Counting
<1>a. MemoryOK /\ MutexOK /\ TablesOK /\ CallsOK /\ CommitOK /\ OtherOK
  BY TypeParts DEF Inv
<1>b. Jobs
  BY DEF Inv
<1>1. ASSUME NEW k \in Calls, NEW p \in Pages, NEW b \in Bodies, Retain(k, p, b)
   PROVE OtherOK'
  BY <1>1, <1>a, <1>b DEF Retain, NewPage, Unopened, Stale, OtherOK, Jobs, Writing, Held, Admission
<1>2. ASSUME NEW k \in Calls, NEW c \in Commands, NEW b \in Bodies, SubmitWrite(k, c, b)
   PROVE OtherOK'
  BY <1>2, <1>a, <1>b DEF SubmitWrite, SubmitIf, Room, Owned, Unfinished, OtherOK, Jobs,
     Writing, Held, Admission
<1>3. ASSUME NEW p \in Pages,
          \/ Read(p) \/ LockRead(p) \/ EndRead(p) \/ Tick(p)
   PROVE OtherOK'
  BY <1>3, <1>a, <1>b DEF Read, Unfinished, LockRead, Owned, EndRead, Tick, OtherOK, Jobs,
     Writing, Held, Admission
<1>4. ASSUME NEW k \in Calls,
          \/ InsertRow(k) \/ FindContext(k) \/ Lock(k)
   PROVE OtherOK'
  BY <1>4, <1>a, <1>b DEF InsertRow, FindContext, Lock, OtherOK, Jobs, Writing, Held, Admission
<1>5. ASSUME NEW k \in Calls, PublishOpen(k) PROVE OtherOK'
  <2>1. queue' = queue \/ queue' = Append(queue, k)
    BY <1>5 DEF PublishOpen
  <2>2. commits' = commits /\ (faults' = faults \/ faults' = faults + 1)
    BY <1>5 DEF PublishOpen, Fault
  <2>3. host' = host
    BY <1>5 DEF PublishOpen
  <2> QED BY <2>1, <2>2, <2>3, <1>a DEF OtherOK
<1>6. ASSUME NEW k \in Calls, Take(k) PROVE OtherOK'
  BY <1>6, <1>a, <1>b DEF Take, OtherOK, Jobs, Writing, Held, Admission
<1>7. ASSUME NEW k \in Calls,
          \/ RunOpen(k) \/ CleanOpen(k) \/ Report(k)
   PROVE OtherOK'
  BY <1>7, <1>a, <1>b DEF RunOpen, CleanOpen, Report, OtherOK, Jobs, Writing, Held, Admission
<1>8. ASSUME NEW k \in Calls,
          \/ Check(k) \/ InsertReceipt(k) \/ Begin(k)
   PROVE OtherOK'
  BY <1>8, <1>a, <1>b DEF Check, CheckIf, Owned, InsertReceipt, Begin, OtherOK, Jobs, Writing,
     Held, Admission
<1>9. ASSUME NEW k \in Calls,
          \/ AlCommit(k) \/ RunFails(k) \/ Finish(k)
   PROVE OtherOK'
  BY <1>9, <1>a, <1>b DEF AlCommit, RunFails, Finish, OtherOK, Jobs, Writing, Held,
     Admission
<1>10. ASSUME NEW k \in Calls,
          \/ Commit(k) \/ InvalidateWindow(k) \/ FailReceipt(k) \/ Settle(k)
   PROVE OtherOK'
  BY <1>10, <1>a, <1>b DEF Commit, TakesEffect, InvalidateWindow, InvalidateIf, RowFree,
     FailReceipt, FailReceiptElse, Settle, OtherOK, Jobs, Writing, Held, Admission
<1>11. ASSUME
          \/ Stop \/ Stopped \/ Restart
   PROVE OtherOK'
  BY <1>11, <1>a, <1>b DEF Stop, Stopped, Forgotten, Working, Restart, OtherOK, Jobs, Writing,
     Held, Admission
<1>12. ASSUME Dies, faults' \in Nat PROVE OtherOK'
  BY <1>12, <1>a DEF Dies, Forgotten, OtherOK
<1>13. Crash \/ (\E p \in Pages : ReadNothing(p) \/ WriteNothing(p)) => Dies /\ faults' \in Nat
  BY <1>a DEF Crash, ReadNothing, WriteNothing, OtherOK
<1> QED
  BY <1>1, <1>2, <1>3, <1>4, <1>5, <1>6, <1>7, <1>8, <1>9, <1>10, <1>11, <1>12, <1>13
     DEF Next, Request, Lifecycle, HttpStep, WorkerStep, ReadStep

----------------------------------------------------------------------------
(* One call for a window, and one holder of its mutex. *)

LEMMA JobsStep ==
    ASSUME Inv, Next
    PROVE  Jobs'
<1> USE Kinds, Sentinels
<1>a. /\ at \in [Calls -> Steps] /\ job \in [Calls -> Job \cup {None}]
      /\ last \in [Pages -> Calls \cup {None}]
      /\ holder \in [Pages -> Calls \cup {"reader", None}] /\ reading \in [Pages -> BOOLEAN]
  BY DEF Inv, TypeOK
<1>b. Jobs /\ OneCall /\ Mutex
  BY DEF Inv
<1>1. ASSUME NEW k \in Calls, NEW p \in Pages, NEW b \in Bodies, Retain(k, p, b) PROVE Jobs'
  BY <1>1, <1>a, <1>b DEF Retain, NewPage, Unopened, Stale, Jobs, Writing, Active, Admission,
       Work, Ends, Held
<1>2. ASSUME NEW k \in Calls, NEW c \in Commands, NEW b \in Bodies, SubmitWrite(k, c, b)
   PROVE Jobs'
  BY <1>2, <1>a, <1>b DEF SubmitWrite, SubmitIf, Room, Owned, Unfinished, Jobs, Writing, Active,
     Admission, Work, Ends, Held
<1>3. ASSUME NEW p \in Pages,
          \/ Read(p) \/ LockRead(p) \/ EndRead(p) \/ Tick(p)
   PROVE Jobs'
  BY <1>3, <1>a, <1>b DEF Read, Unfinished, LockRead, Owned, EndRead, Tick, Jobs, Writing,
     Active, Admission, Work, Ends, Held
<1>4. ASSUME NEW k \in Calls,
          \/ InsertRow(k) \/ PublishOpen(k) \/ Take(k) \/ FindContext(k) \/ Lock(k)
   PROVE Jobs'
  BY <1>4, <1>a, <1>b DEF InsertRow, PublishOpen, Room, Take, FindContext, Lock,
     Jobs, Writing, Active, Admission, Work, Ends, Held
<1>5. ASSUME NEW k \in Calls,
          \/ RunOpen(k) \/ CleanOpen(k) \/ Report(k)
   PROVE Jobs'
  BY <1>5, <1>a, <1>b DEF RunOpen, CleanOpen, Report, Jobs, Writing, Active, Admission, Work,
     Ends, Held
<1>6. ASSUME NEW k \in Calls,
          \/ Check(k) \/ InsertReceipt(k) \/ Begin(k)
   PROVE Jobs'
  BY <1>6, <1>a, <1>b DEF Check, CheckIf, Owned, InsertReceipt, Begin, Jobs, Writing, Active,
     Admission, Work, Ends, Held
<1>7. ASSUME NEW k \in Calls,
          \/ AlCommit(k) \/ RunFails(k) \/ Finish(k)
   PROVE Jobs'
  BY <1>7, <1>a, <1>b DEF AlCommit, RunFails, Finish, Jobs, Writing, Active,
     Admission, Work, Ends, Held
<1>8. ASSUME NEW k \in Calls,
          \/ Commit(k) \/ InvalidateWindow(k) \/ FailReceipt(k) \/ Settle(k)
   PROVE Jobs'
  BY <1>8, <1>a, <1>b DEF Commit, TakesEffect, InvalidateWindow, InvalidateIf, RowFree,
     FailReceipt, FailReceiptElse, Settle, Jobs, Writing, Active, Admission, Work, Ends, Held
<1>9. ASSUME
          \/ Stop \/ Stopped \/ Restart
   PROVE Jobs'
  BY <1>9, <1>a, <1>b DEF Stop, Stopped, Forgotten, Working, Restart, Jobs, Writing, Active,
     Admission, Work, Ends, Held
<1>10. ASSUME Dies PROVE Jobs'
  BY <1>10, <1>a, <1>b DEF Dies, Forgotten, Jobs, Writing, Active, Admission, Work, Ends, Held
<1> QED
  BY <1>1, <1>2, <1>3, <1>4, <1>5, <1>6, <1>7, <1>8, <1>9, <1>10
     DEF Next, Request, Lifecycle, HttpStep, WorkerStep, ReadStep, Crash, ReadNothing,
         WriteNothing

LEMMA OneCallStep ==
    ASSUME Inv, Next
    PROVE  OneCall'
<1> USE Kinds, Sentinels
<1>a. /\ at \in [Calls -> Steps] /\ job \in [Calls -> Job \cup {None}]
      /\ last \in [Pages -> Calls \cup {None}]
      /\ holder \in [Pages -> Calls \cup {"reader", None}] /\ reading \in [Pages -> BOOLEAN]
  BY DEF Inv, TypeOK
<1>b. Jobs /\ OneCall /\ Mutex
  BY DEF Inv
<1>1. ASSUME NEW k \in Calls, NEW p \in Pages, NEW b \in Bodies, Retain(k, p, b)
   PROVE OneCall'
  BY <1>1, <1>a, <1>b DEF Retain, NewPage, Unopened, Stale, Jobs, OneCall, Active, Admission,
       Work, Ends, Held
<1>2. ASSUME NEW k \in Calls, NEW c \in Commands, NEW b \in Bodies, SubmitWrite(k, c, b)
   PROVE OneCall'
  BY <1>2, <1>a, <1>b DEF SubmitWrite, SubmitIf, Room, Owned, Unfinished, Jobs, OneCall, Active,
     Admission, Work, Ends, Held
<1>3. ASSUME NEW p \in Pages,
          \/ Read(p) \/ LockRead(p) \/ EndRead(p) \/ Tick(p)
   PROVE OneCall'
  BY <1>3, <1>a, <1>b DEF Read, Unfinished, LockRead, Owned, EndRead, Tick, Jobs, OneCall,
     Active, Admission, Work, Ends, Held
<1>4. ASSUME NEW k \in Calls,
          \/ InsertRow(k) \/ PublishOpen(k) \/ Take(k) \/ FindContext(k) \/ Lock(k)
   PROVE OneCall'
  BY <1>4, <1>a, <1>b DEF InsertRow, PublishOpen, Room, Take, FindContext, Lock,
     Jobs, OneCall, Active, Admission, Work, Ends, Held
<1>5. ASSUME NEW k \in Calls,
          \/ RunOpen(k) \/ CleanOpen(k) \/ Report(k)
   PROVE OneCall'
  BY <1>5, <1>a, <1>b DEF RunOpen, CleanOpen, Report, Jobs, OneCall, Active, Admission, Work,
     Ends, Held
<1>6. ASSUME NEW k \in Calls,
          \/ Check(k) \/ InsertReceipt(k) \/ Begin(k)
   PROVE OneCall'
  BY <1>6, <1>a, <1>b DEF Check, CheckIf, Owned, InsertReceipt, Begin, Jobs, OneCall, Active,
     Admission, Work, Ends, Held
<1>7. ASSUME NEW k \in Calls,
          \/ AlCommit(k) \/ RunFails(k) \/ Finish(k)
   PROVE OneCall'
  BY <1>7, <1>a, <1>b DEF AlCommit, RunFails, Finish, Jobs, OneCall, Active,
     Admission, Work, Ends, Held
<1>8. ASSUME NEW k \in Calls,
          \/ Commit(k) \/ InvalidateWindow(k) \/ FailReceipt(k) \/ Settle(k)
   PROVE OneCall'
  BY <1>8, <1>a, <1>b DEF Commit, TakesEffect, InvalidateWindow, InvalidateIf, RowFree,
     FailReceipt, FailReceiptElse, Settle, Jobs, OneCall, Active, Admission, Work, Ends, Held
<1>9. ASSUME
          \/ Stop \/ Stopped \/ Restart
   PROVE OneCall'
  BY <1>9, <1>a, <1>b DEF Stop, Stopped, Forgotten, Working, Restart, Jobs, OneCall, Active,
     Admission, Work, Ends, Held
<1>10. ASSUME Dies PROVE OneCall'
  BY <1>10, <1>a, <1>b DEF Dies, Forgotten, Jobs, OneCall, Active, Admission, Work, Ends, Held
<1> QED
  BY <1>1, <1>2, <1>3, <1>4, <1>5, <1>6, <1>7, <1>8, <1>9, <1>10
     DEF Next, Request, Lifecycle, HttpStep, WorkerStep, ReadStep, Crash, ReadNothing,
         WriteNothing

LEMMA MutexStep ==
    ASSUME Inv, Next
    PROVE  Mutex'
<1> USE Kinds, Sentinels
<1>a. /\ at \in [Calls -> Steps] /\ job \in [Calls -> Job \cup {None}]
      /\ last \in [Pages -> Calls \cup {None}]
      /\ holder \in [Pages -> Calls \cup {"reader", None}] /\ reading \in [Pages -> BOOLEAN]
  BY DEF Inv, TypeOK
<1>b. Jobs /\ OneCall /\ Mutex
  BY DEF Inv
<1>1. ASSUME NEW k \in Calls, NEW p \in Pages, NEW b \in Bodies, Retain(k, p, b) PROVE Mutex'
  BY <1>1, <1>a, <1>b DEF Retain, NewPage, Unopened, Stale, Jobs, Mutex, Active, Admission, Work,
       Ends, Held
<1>2. ASSUME NEW k \in Calls, NEW c \in Commands, NEW b \in Bodies, SubmitWrite(k, c, b)
   PROVE Mutex'
  BY <1>2, <1>a, <1>b DEF SubmitWrite, SubmitIf, Room, Owned, Unfinished, Jobs, Mutex, Active,
     Admission, Work, Ends, Held
<1>3. ASSUME NEW p \in Pages,
          \/ Read(p) \/ LockRead(p) \/ EndRead(p) \/ Tick(p)
   PROVE Mutex'
  BY <1>3, <1>a, <1>b DEF Read, Unfinished, LockRead, Owned, EndRead, Tick, Jobs, Mutex, Active,
     Admission, Work, Ends, Held
<1>4. ASSUME NEW k \in Calls,
          \/ InsertRow(k) \/ PublishOpen(k) \/ Take(k) \/ FindContext(k) \/ Lock(k)
   PROVE Mutex'
  BY <1>4, <1>a, <1>b DEF InsertRow, PublishOpen, Room, Take, FindContext, Lock,
     Jobs, Mutex, Active, Admission, Work, Ends, Held
<1>5. ASSUME NEW k \in Calls,
          \/ RunOpen(k) \/ CleanOpen(k) \/ Report(k)
   PROVE Mutex'
  BY <1>5, <1>a, <1>b DEF RunOpen, CleanOpen, Report, Jobs, Mutex, Active, Admission, Work,
     Ends, Held
<1>6. ASSUME NEW k \in Calls,
          \/ Check(k) \/ InsertReceipt(k) \/ Begin(k)
   PROVE Mutex'
  BY <1>6, <1>a, <1>b DEF Check, CheckIf, Owned, InsertReceipt, Begin, Jobs, Mutex, Active,
     Admission, Work, Ends, Held
<1>7. ASSUME NEW k \in Calls,
          \/ AlCommit(k) \/ RunFails(k) \/ Finish(k)
   PROVE Mutex'
  BY <1>7, <1>a, <1>b DEF AlCommit, RunFails, Finish, Jobs, Mutex, Active,
     Admission, Work, Ends, Held
<1>8. ASSUME NEW k \in Calls,
          \/ Commit(k) \/ InvalidateWindow(k) \/ FailReceipt(k) \/ Settle(k)
   PROVE Mutex'
  BY <1>8, <1>a, <1>b DEF Commit, TakesEffect, InvalidateWindow, InvalidateIf, RowFree,
     FailReceipt, FailReceiptElse, Settle, Jobs, Mutex, Active, Admission, Work, Ends, Held
<1>9. ASSUME
          \/ Stop \/ Stopped \/ Restart
   PROVE Mutex'
  BY <1>9, <1>a, <1>b DEF Stop, Stopped, Forgotten, Working, Restart, Jobs, Mutex, Active,
     Admission, Work, Ends, Held
<1>10. ASSUME Dies PROVE Mutex'
  BY <1>10, <1>a, <1>b DEF Dies, Forgotten, Jobs, Mutex, Active, Admission, Work, Ends, Held
<1> QED
  BY <1>1, <1>2, <1>3, <1>4, <1>5, <1>6, <1>7, <1>8, <1>9, <1>10
     DEF Next, Request, Lifecycle, HttpStep, WorkerStep, ReadStep, Crash, ReadNothing,
         WriteNothing

----------------------------------------------------------------------------
(* What the steps do to a receipt. *)

\* A command's own commit, value by value.
LEMMA EffectPointwise ==
    ASSUME TablesOK, CommitOK, NEW k \in Calls, job[k] \in Job, job[k].command \in Commands,
           TakesEffect(k)
    PROVE  /\ receipts'[job[k].command] = [outcome |-> "complete", body |-> job[k].body]
           /\ \A d \in Commands \ {job[k].command} : receipts'[d] = receipts[d]
           /\ saved'[job[k].command.page] = job[k].command.revision + 1
           /\ \A q \in Pages \ {job[k].command.page} : saved'[q] = saved[q]
           /\ applied'[k] = "whole" /\ \A j \in Calls \ {k} : applied'[j] = applied[j]
           /\ ~ locked'[k] /\ \A j \in Calls \ {k} : locked'[j] = locked[j]
<1> DEFINE r == [outcome |-> "complete", body |-> job[k].body]
           c == job[k].command
<1>1. receipts' = [receipts EXCEPT ![c] = r] /\ saved' = [saved EXCEPT ![c.page] = c.revision + 1]
  BY DEF TakesEffect
<1>2. c \in Commands /\ c.page \in Pages
  BY Kinds DEF c
<1> HIDE DEF r, c
<1>3. /\ receipts'[c] = r /\ \A d \in Commands \ {c} : receipts'[d] = receipts[d]
      /\ saved'[c.page] = c.revision + 1 /\ \A q \in Pages \ {c.page} : saved'[q] = saved[q]
  BY <1>1, <1>2 DEF TablesOK
<1>4. /\ applied'[k] = "whole" /\ \A j \in Calls \ {k} : applied'[j] = applied[j]
      /\ ~ locked'[k] /\ \A j \in Calls \ {k} : locked'[j] = locked[j]
  BY DEF TakesEffect, CommitOK
<1> QED BY <1>3, <1>4 DEF r, c

\* What a receipt becomes when it is stored or failed.
LEMMA StoredPointwise ==
    ASSUME Inv, NEW k \in Calls, InsertReceipt(k)
    PROVE  \/ receipts' = receipts /\ at'[k] = "report"
           \/ /\ receipts'[job[k].command] # None
              /\ receipts'[job[k].command].outcome = "started"
              /\ receipts'[job[k].command].body = job[k].body
              /\ \A d \in Commands \ {job[k].command} : receipts'[d] = receipts[d]
<1> DEFINE r == [outcome |-> "started", body |-> job[k].body]
           c == job[k].command
<1>1. TablesOK /\ CallsOK
  BY TypeParts DEF Inv
<1>2. c \in Commands /\ job[k] \in Job
  BY <1>1, Kinds DEF InsertReceipt, CallsOK, Inv, Jobs, Writing, Held
<1>3. r # None /\ r.outcome = "started" /\ r.body = job[k].body
  BY <1>2, Kinds DEF Outcomes
<1>4. \/ receipts' = receipts /\ at'[k] = "report"
      \/ receipts' = [receipts EXCEPT ![c] = r]
  BY <1>1 DEF InsertReceipt, CallsOK
<1> HIDE DEF r
<1>5. \/ receipts' = receipts /\ at'[k] = "report"
      \/ receipts'[c] = r /\ \A d \in Commands \ {c} : receipts'[d] = receipts[d]
  BY <1>1, <1>2, <1>4 DEF TablesOK
<1> QED BY <1>3, <1>5

LEMMA FailedPointwise ==
    ASSUME Inv, NEW k \in Calls, FailReceipt(k)
    PROVE  /\ job[k] \in Job /\ job[k].command \in Commands /\ receipts[job[k].command] # None
           /\ \/ receipts' = receipts /\ answer'[k] = "unknown"
              \/ /\ receipts[job[k].command].outcome = "started"
                 /\ receipts'[job[k].command] # None
                 /\ receipts'[job[k].command].outcome = "failed"
                 /\ receipts'[job[k].command].body = receipts[job[k].command].body
                 /\ \A d \in Commands \ {job[k].command} : receipts'[d] = receipts[d]
<1> DEFINE c == job[k].command
<1>1. TablesOK /\ CallsOK
  BY TypeParts DEF Inv
<1>2. c \in Commands /\ job[k] \in Job
  BY <1>1, Kinds DEF FailReceipt, FailReceiptElse, CallsOK, Inv, Jobs, Writing, Held
<1>3. receipts[c] # None
  BY <1>2 DEF FailReceipt, FailReceiptElse, Inv, Receipts, ReceiptOf, Begun
<1>4. receipts[c] \in Receipt /\ "failed" \in Outcomes
  BY <1>1, <1>2, <1>3 DEF TablesOK, Outcomes
<1> DEFINE r == [receipts[c] EXCEPT !.outcome = "failed"]
<1>5. r \in Receipt /\ r # None /\ r.outcome = "failed" /\ r.body = receipts[c].body
  BY <1>4, SentinelAssumption DEF Receipt
<1>6. \/ receipts' = receipts /\ answer'[k] = "unknown"
      \/ receipts[c].outcome = "started" /\ receipts' = [receipts EXCEPT ![c] = r]
  BY <1>1, <1>2 DEF FailReceipt, FailReceiptElse, TablesOK, CallsOK
<1> HIDE DEF r
<1>7. \/ receipts' = receipts /\ answer'[k] = "unknown"
      \/ /\ receipts[c].outcome = "started" /\ receipts'[c] = r
         /\ \A d \in Commands \ {c} : receipts'[d] = receipts[d]
  BY <1>1, <1>2, <1>6 DEF TablesOK
<1> QED BY <1>2, <1>3, <1>5, <1>7

\* Who commits, or has a COMMIT in doubt, is a command.
LEMMA Committing ==
    ASSUME Inv, NEW k \in Calls, Commit(k) \/ Settle(k) \/ AlCommit(k)
    PROVE  job[k] \in Job /\ job[k].command \in Commands
              /\ job[k].command.page = job[k].page /\ job[k].page \in Pages
<1>1. CallsOK
  BY TypeParts DEF Inv
<1>2. job[k] # None /\ job[k].command # Opening
  BY DEF Inv, Commit, Settle, AlCommit, Receipts, ReceiptOf, Begun
<1> QED BY <1>1, <1>2, Kinds DEF CallsOK, Inv, Jobs

----------------------------------------------------------------------------
(* What a step of a call leaves alone: the other calls, the other windows, and every
   receipt that is not its own or has come to its end. *)

CallStep(k) == HttpStep(k) \/ WorkerStep(k) \/ Settle(k)

Others(k) ==
    /\ job' = job /\ last' = last /\ reading' = reading
    /\ \A j \in Calls \ {k} :
          /\ at'[j] = at[j] /\ answer'[j] = answer[j]
          /\ locked'[j] = locked[j] /\ doubt'[j] = doubt[j] /\ applied'[j] = applied[j]
    /\ \A p \in Pages \ {job[k].page} :
          /\ kept'[p] = kept[p] /\ opened'[p] = opened[p]
          /\ invalid'[p] = invalid[p] /\ revision'[p] = revision[p]
          /\ touched'[p] = touched[p] /\ holder'[p] = holder[p]
          /\ invalidated'[p] = invalidated[p] /\ saved'[p] = saved[p]
    /\ \A p \in Pages : /\ kept'[p] => kept[p]
                        /\ opened[p] => opened'[p]
                        /\ invalid[p] => invalid'[p]
                        /\ invalidated[p] => invalidated'[p]
    /\ \A c \in Commands \ {job[k].command} : receipts'[c] = receipts[c]

LEMMA Frame ==
    ASSUME Inv, NEW k \in Calls, CallStep(k)
    PROVE  Others(k)
<1>a. MemoryOK /\ MutexOK /\ TablesOK /\ CallsOK /\ CommitOK
  BY TypeParts DEF Inv
<1>1. CASE InsertRow(k)
  BY <1>1, <1>a DEF InsertRow, Others, MemoryOK, MutexOK, TablesOK, CallsOK, CommitOK
<1>2. CASE PublishOpen(k)
  BY <1>2, <1>a DEF PublishOpen, Room, Others, MemoryOK, MutexOK, TablesOK, CallsOK, CommitOK
<1>3. CASE Take(k) \/ FindContext(k) \/ Lock(k)
  BY <1>3, <1>a DEF Take, FindContext, Lock, Others, MemoryOK, MutexOK, TablesOK,
     CallsOK, CommitOK
<1>4. CASE RunOpen(k) \/ CleanOpen(k) \/ Report(k)
  BY <1>4, <1>a DEF RunOpen, CleanOpen, Report, Others, MemoryOK, MutexOK, TablesOK, CallsOK,
     CommitOK
<1>5. CASE Check(k) \/ Begin(k)
  BY <1>5, <1>a DEF Check, CheckIf, Owned, Begin, Others, MemoryOK, MutexOK, TablesOK, CallsOK,
     CommitOK
<1>6. CASE InsertReceipt(k)
  BY <1>6, <1>a, StoredPointwise DEF InsertReceipt, Others, MemoryOK, MutexOK, TablesOK,
       CallsOK, CommitOK
<1>7. CASE AlCommit(k) \/ RunFails(k) \/ Finish(k)
  BY <1>7, <1>a DEF AlCommit, RunFails, Finish, Others, MemoryOK, MutexOK, TablesOK,
     CallsOK, CommitOK
<1>8. CASE Commit(k)
  <2>1. /\ job[k] \in Job /\ job[k].command \in Commands /\ job[k].page \in Pages
        /\ job[k].command.page = job[k].page
    BY <1>8, Committing
  <2>2. CASE TakesEffect(k)
    <3>1. /\ \A d \in Commands \ {job[k].command} : receipts'[d] = receipts[d]
          /\ \A q \in Pages \ {job[k].page} : saved'[q] = saved[q]
          /\ \A j \in Calls \ {k} : applied'[j] = applied[j] /\ locked'[j] = locked[j]
      BY <1>a, <2>1, <2>2, EffectPointwise
    <3> QED BY <1>8, <1>a, <2>1, <3>1 DEF Commit, Others, MemoryOK, MutexOK, TablesOK, CallsOK,
                 CommitOK
  <2>3. CASE ~ TakesEffect(k)
    BY <1>8, <1>a, <2>1, <2>3 DEF Commit, Others, MemoryOK, MutexOK, TablesOK, CallsOK, CommitOK
  <2> QED BY <2>2, <2>3
<1>9. CASE InvalidateWindow(k)
  BY <1>9, <1>a DEF InvalidateWindow, InvalidateIf, RowFree, Others, MemoryOK, MutexOK,
     TablesOK, CallsOK, CommitOK
<1>10. CASE FailReceipt(k)
  BY <1>10, <1>a, FailedPointwise DEF FailReceipt, FailReceiptElse, Others, MemoryOK, MutexOK,
       TablesOK, CallsOK, CommitOK
<1>11. CASE Settle(k)
  <2>1. /\ job[k] \in Job /\ job[k].command \in Commands /\ job[k].page \in Pages
        /\ job[k].command.page = job[k].page
    BY <1>11, Committing
  <2>2. CASE TakesEffect(k)
    <3>1. /\ \A d \in Commands \ {job[k].command} : receipts'[d] = receipts[d]
          /\ \A q \in Pages \ {job[k].page} : saved'[q] = saved[q]
          /\ \A j \in Calls \ {k} : applied'[j] = applied[j] /\ locked'[j] = locked[j]
      BY <1>a, <2>1, <2>2, EffectPointwise
    <3> QED BY <1>11, <1>a, <2>1, <3>1 DEF Settle, Others, MemoryOK, MutexOK, TablesOK,
                 CallsOK, CommitOK
  <2>3. CASE ~ TakesEffect(k)
    BY <1>11, <1>a, <2>1, <2>3 DEF Settle, Others, MemoryOK, MutexOK, TablesOK, CallsOK, CommitOK
  <2> QED BY <2>2, <2>3
<1> QED
  BY <1>1, <1>2, <1>3, <1>4, <1>5, <1>6, <1>7, <1>8, <1>9, <1>10, <1>11
     DEF CallStep, HttpStep, WorkerStep

\* A call that makes a step has a job.
LEMMA Stepping ==
    ASSUME Inv, NEW k \in Calls, CallStep(k)
    PROVE  /\ job[k] \in Job /\ job[k] # None /\ job[k].page \in Pages
           /\ \/ job[k].command = Opening
              \/ job[k].command \in Commands /\ job[k].command.page = job[k].page
<1>a. CallsOK
  BY TypeParts DEF Inv
<1>1. job[k] # None
  <2>1. CASE Settle(k)
    BY <2>1 DEF Settle, Inv, Receipts, ReceiptOf, Begun
  <2>2. CASE HttpStep(k) \/ WorkerStep(k)
    <3>1. at[k] # "unused"
      BY <2>2 DEF HttpStep, WorkerStep, InsertRow, PublishOpen, Take, FindContext,
         Lock, RunOpen, CleanOpen, Report, Check, CheckIf, InsertReceipt, Begin, AlCommit,
         RunFails, Finish, Commit, InvalidateWindow, InvalidateIf, FailReceipt,
         FailReceiptElse
    <3> QED BY <3>1 DEF Inv, Jobs
  <2> QED BY <2>1, <2>2 DEF CallStep
<1> QED BY <1>a, <1>1, Kinds DEF CallsOK, Inv, Jobs

\* The receipt of a call that has begun is changed by that call only.
LEMMA OwnReceipt ==
    ASSUME Inv, NEW k \in Calls, CallStep(k), NEW j \in Calls \ {k}, Begun(j)
    PROVE  receipts'[job[j].command] = receipts[job[j].command]
<1>1. /\ job[j] # None /\ job[j].command # Opening /\ receipts[job[j].command] # None
      /\ Begun(k) => job[k].command # job[j].command
      /\ at[k] = "insert" => receipts[job[k].command] = None
  BY DEF Inv, Receipts, ReceiptOf
<1>2. job[j].command \in Commands
  BY <1>1, TypeParts, Kinds DEF Inv, CallsOK
<1>3. CASE job[k].command # job[j].command
  BY <1>2, <1>3, Frame DEF Others
<1>4. CASE ~ Begun(k) /\ at[k] # "insert"
  BY <1>4 DEF Begun, CallStep, HttpStep, WorkerStep, InsertRow, PublishOpen, Take, FindContext,
       Lock, RunOpen, CleanOpen, Report, Check, CheckIf, InsertReceipt, Begin, AlCommit, RunFails,
       Finish, Commit, InvalidateWindow, InvalidateIf, FailReceipt, FailReceiptElse, Settle
<1> QED BY <1>1, <1>3, <1>4

\* A receipt never disappears, and does not change once it is complete or failed.
LEMMA Final ==
    ASSUME Inv, NEW k \in Calls, CallStep(k), NEW c \in Commands, receipts[c] # None
    PROVE  /\ receipts'[c] # None
           /\ receipts[c].outcome # "started" => receipts'[c] = receipts[c]
<1>a. TablesOK /\ CommitOK
  BY TypeParts DEF Inv
<1>1. CASE job[k].command # c
  BY <1>1, Frame DEF Others
<1>2. CASE job[k].command = c /\ (Commit(k) \/ Settle(k))
  <2>1. CASE TakesEffect(k) /\ (at[k] = "commit" \/ doubt[k] = "whole")
    <3>1. receipts[c].outcome = "started"
      BY <1>2, <2>1 DEF Inv, Effects, EffectOf, Status
    <3>2. job[k] \in Job /\ job[k].command \in Commands
      BY <1>2, Committing
    <3>3. receipts'[c] = [outcome |-> "complete", body |-> job[k].body]
      BY <1>a, <1>2, <2>1, <3>2, EffectPointwise
    <3>4. receipts'[c] # None
      BY <3>2, <3>3, Kinds DEF Outcomes
    <3> QED BY <3>1, <3>4
  <2>2. CASE ~ (TakesEffect(k) /\ (at[k] = "commit" \/ doubt[k] = "whole"))
    BY <1>2, <2>2 DEF Commit, Settle
  <2> QED BY <2>1, <2>2
<1>3. CASE job[k].command = c /\ InsertReceipt(k)
  BY <1>3 DEF InsertReceipt, Inv, Receipts, ReceiptOf
<1>4. CASE job[k].command = c /\ FailReceipt(k)
  BY <1>4, FailedPointwise
<1>5. CASE ~ (InsertReceipt(k) \/ FailReceipt(k) \/ Commit(k) \/ Settle(k))
  BY <1>5 DEF CallStep, HttpStep, WorkerStep, InsertRow, PublishOpen, Take, FindContext, Lock,
       RunOpen, CleanOpen, Report, Check, CheckIf, Begin, AlCommit, RunFails, Finish,
       InvalidateWindow, InvalidateIf
<1> QED BY <1>1, <1>2, <1>3, <1>4, <1>5

----------------------------------------------------------------------------
(* Windows: nobody gets in unless everything is committed. *)

\* An invalid window, or one whose process has ended, stays closed.
LEMMA ClosedStays ==
    ASSUME Inv, Next, NEW q \in Pages, Closed(q)
    PROVE  Closed(q)'
<1> USE Kinds, Sentinels
<1>a. MemoryOK /\ MutexOK /\ CallsOK
  BY TypeParts DEF Inv
<1>b. Jobs /\ Mutex /\ Fresh
  BY DEF Inv
<1>1. ASSUME NEW k \in Calls, NEW p \in Pages, NEW b \in Bodies, Retain(k, p, b)
   PROVE Closed(q)'
  BY <1>1, <1>a, <1>b, SMTT(40) DEF Retain, NewPage, Unopened, Stale, MemoryOK, MutexOK, CallsOK,
       Jobs, Mutex, Fresh, Used, Dead, Closed, Active, Admission, Work, Ends, Held
<1>2. ASSUME NEW k \in Calls, NEW c \in Commands, NEW b \in Bodies, SubmitWrite(k, c, b)
   PROVE Closed(q)'
  BY <1>2, <1>a, <1>b, SMTT(40) DEF SubmitWrite, SubmitIf, Room, Owned, Unfinished, MemoryOK,
     MutexOK, CallsOK, Jobs, Mutex, Fresh, Used, Dead, Closed, Active, Admission, Work, Ends,
     Held
<1>3. ASSUME NEW p \in Pages,
          \/ Read(p) \/ LockRead(p) \/ EndRead(p) \/ Tick(p)
   PROVE Closed(q)'
  BY <1>3, <1>a, <1>b DEF Read, Unfinished, LockRead, Owned, EndRead, Tick, MemoryOK, MutexOK,
     CallsOK, Jobs, Mutex, Fresh, Used, Dead, Closed, Active, Admission, Work, Ends, Held
<1>4. ASSUME NEW k \in Calls, CallStep(k) PROVE Closed(q)'
  <2>1. at[k] \in Ends => at'[k] = at[k]
    BY <1>4 DEF CallStep, HttpStep, WorkerStep, Settle, InsertRow, PublishOpen, Take,
       FindContext, Lock, RunOpen, CleanOpen, Report, Check, CheckIf, InsertReceipt, Begin,
       AlCommit, RunFails, Finish, Commit, InvalidateWindow, InvalidateIf, FailReceipt,
       FailReceiptElse, Ends
  <2>2. \A j \in Calls : at[j] \in Ends => at'[j] \in Ends
    BY <1>4, <2>1, Frame DEF Others
  <2> QED BY <1>4, <2>2, Frame DEF Others, Closed, Dead, Used
<1>5. ASSUME Stop PROVE Closed(q)'
  BY <1>5, <1>a, <1>b, SMTT(40) DEF Stop, MemoryOK, MutexOK, CallsOK, Jobs, Mutex, Fresh, Used,
     Dead, Closed, Active, Admission, Work, Ends, Held
<1>6. ASSUME Stopped PROVE Closed(q)'
  BY <1>6, <1>a, <1>b, SMTT(40) DEF Stopped, Forgotten, Working, MemoryOK, MutexOK, CallsOK,
     Jobs, Mutex, Fresh, Used, Dead, Closed, Active, Admission, Work, Ends, Held
<1>7. ASSUME Dies PROVE Closed(q)'
  BY <1>7, <1>a, <1>b, SMTT(40) DEF Dies, Forgotten, MemoryOK, MutexOK, CallsOK, Jobs, Mutex,
     Fresh, Used, Dead, Closed, Active, Admission, Work, Ends, Held
<1>8. ASSUME Restart PROVE Closed(q)'
  BY <1>8, <1>a, <1>b, SMTT(40) DEF Restart, MemoryOK, MutexOK, CallsOK, Jobs, Mutex, Fresh,
     Used, Dead, Closed, Active, Admission, Work, Ends, Held
<1> QED
  BY <1>1, <1>2, <1>3, <1>4, <1>5, <1>6, <1>7, <1>8
     DEF Next, Request, Lifecycle, ReadStep, CallStep, Crash, ReadNothing, WriteNothing

\* The end of the process closes every window there is.
LEMMA DeathCloses ==
    ASSUME Inv, Dies, NEW p \in Pages, Used(p)
    PROVE  Dead(p)'
<1>1. CallsOK /\ MemoryOK /\ MutexOK
  BY TypeParts DEF Inv
<1>2. job' = job /\ ~ kept'[p] /\ ~ reading'[p]
  BY DEF Dies, Forgotten
<1>3. \A k \in Calls : job[k] # None => at'[k] \in Ends
  BY <1>1 DEF Dies, Inv, Jobs, CallsOK, Steps, Ends
<1> QED BY <1>2, <1>3 DEF Used, Dead

LEMMA FreshStep ==
    ASSUME Inv, Next
    PROVE  Fresh'
<1> USE Kinds, Sentinels
<1>a. MemoryOK /\ MutexOK /\ TablesOK /\ CallsOK
  BY TypeParts DEF Inv
<1>b. Jobs /\ OneCall /\ Mutex /\ Fresh
  BY DEF Inv
<1>1. ASSUME NEW k \in Calls, NEW p \in Pages, NEW b \in Bodies, Retain(k, p, b) PROVE Fresh'
  BY <1>1, <1>a, <1>b DEF Retain, NewPage, Unopened, Stale, MutexOK, CallsOK, MemoryOK, TablesOK,
       Jobs, OneCall, Mutex, Fresh, Used, Unfinished, Active, Admission, Work, Ends, Held
<1>2. ASSUME NEW k \in Calls, NEW c \in Commands, NEW b \in Bodies,
          SubmitWrite(k, c, b)
     PROVE  Fresh'
  BY <1>2, <1>a, <1>b DEF SubmitWrite, SubmitIf, Room, Owned, Unfinished, MutexOK, CallsOK,
     MemoryOK, TablesOK, Jobs, OneCall, Mutex, Fresh, Used, Active, Admission, Work, Ends, Held
<1>3. ASSUME NEW p \in Pages, Read(p) \/ LockRead(p) \/ EndRead(p) \/ Tick(p) PROVE Fresh'
  BY <1>3, <1>a, <1>b DEF Read, Unfinished, LockRead, Owned, EndRead, Tick, MutexOK, CallsOK,
     MemoryOK, TablesOK, Jobs, OneCall, Mutex, Fresh, Used, Active, Admission, Work, Ends, Held
<1>4. ASSUME NEW k \in Calls, CallStep(k) PROVE Fresh'
  <2>1. \A j \in Calls : at'[j] \in Admission => at[j] \in Admission
    BY <1>4, <1>a DEF CallStep, HttpStep, WorkerStep, Settle, InsertRow, PublishOpen, Take,
       FindContext, Lock, RunOpen, CleanOpen, Report, Check, CheckIf, InsertReceipt,
       Begin, AlCommit, RunFails, Finish, Commit, InvalidateWindow, InvalidateIf,
       FailReceipt, FailReceiptElse, CallsOK, Admission
  <2>2. job[k] # None
    BY <1>4, Stepping
  <2> QED BY <1>4, <1>b, <2>1, <2>2, Frame, Stepping DEF Others, Fresh, Used
<1>5. CASE Stopped
  BY <1>5, <1>a, <1>b DEF Stopped, Forgotten, Working, MutexOK, CallsOK, MemoryOK, TablesOK,
     Jobs, OneCall, Mutex, Fresh, Used, Unfinished, Active, Admission, Work, Ends, Held
<1>6. CASE Dies
  BY <1>6, <1>a, <1>b DEF Dies, Forgotten, MutexOK, CallsOK, MemoryOK, TablesOK, Jobs, OneCall,
     Mutex, Fresh, Used, Unfinished, Active, Admission, Work, Ends, Held
<1>7. CASE Stop \/ Restart
  BY <1>7, <1>a, <1>b DEF Stop, Restart, MutexOK, CallsOK, MemoryOK, TablesOK, Jobs, OneCall,
     Mutex, Fresh, Used, Unfinished, Active, Admission, Work, Ends, Held
<1> QED
  BY <1>1, <1>2, <1>3, <1>4, <1>5, <1>6, <1>7
     DEF Next, Request, Lifecycle, ReadStep, CallStep, Crash, ReadNothing, WriteNothing

LEMMA LetInCall ==
    ASSUME Inv, NEW k \in Calls, CallStep(k)
    PROVE  LetIn'
<1> USE Kinds, Sentinels
<1>a. MemoryOK /\ MutexOK /\ TablesOK /\ CallsOK
  BY TypeParts DEF Inv
<1>b. Jobs /\ OneCall /\ Mutex /\ Fresh /\ LetIn
  BY DEF Inv
<1>1. CASE InsertRow(k)
  BY <1>1, <1>a, <1>b DEF InsertRow, MutexOK, CallsOK, MemoryOK, Jobs, OneCall, Mutex, Fresh,
     LetIn, Used, Active, Admission, Work, Ends, Held
<1>2. CASE PublishOpen(k)
  <2>1. at[k] = "publish" /\ holder' = holder /\ revision' = revision
    BY <1>2 DEF PublishOpen
  <2>2. holder[job[k].page] # "reader"
    BY <1>b, <2>1, Stepping DEF Mutex, Fresh, Admission
  <2>3. \A j \in Calls : at'[j] \in {"insert", "begin", "run", "commit"} =>
           /\ j # k /\ at'[j] = at[j]
           /\ job[j].page \in Pages \ {job[k].page}
    <3>1. at'[k] \in {"queued", "abandoned"}
      BY <1>2, <1>a DEF PublishOpen, CallsOK
    <3>2. \A j \in Calls \ {k} : at'[j] = at[j]
      BY Frame DEF Others
    <3> QED BY <1>a, <1>b, <2>1, <3>1, <3>2 DEF Jobs, OneCall, Active, Admission, Work, CallsOK
  <2> QED BY <1>b, <2>1, <2>2, <2>3, Frame DEF LetIn, Others
<1>3. CASE Take(k) \/ FindContext(k)
  BY <1>3, <1>a, <1>b DEF Take, FindContext, MutexOK, CallsOK, MemoryOK, Jobs,
     OneCall, Mutex, Fresh, LetIn, Used, Active, Admission, Work, Ends, Held
<1>4. CASE Lock(k)
  BY <1>4, <1>a, <1>b DEF Lock, MutexOK, CallsOK, MemoryOK, Jobs, OneCall, Mutex, Fresh, LetIn,
     Used, Active, Admission, Work, Ends, Held
<1>5. CASE RunOpen(k) \/ CleanOpen(k) \/ Report(k)
  BY <1>5, <1>a, <1>b DEF RunOpen, CleanOpen, Report, MutexOK, CallsOK, MemoryOK, Jobs, OneCall,
     Mutex, Fresh, LetIn, Used, Active, Admission, Work, Ends, Held
<1>6. CASE Check(k) \/ InsertReceipt(k) \/ Begin(k)
  BY <1>6, <1>a, <1>b DEF Check, CheckIf, Owned, InsertReceipt, Begin, MutexOK, CallsOK,
     MemoryOK, Jobs, OneCall, Mutex, Fresh, LetIn, Used, Active, Admission, Work, Ends, Held
<1>7. CASE AlCommit(k) \/ RunFails(k)
  BY <1>7, <1>a, <1>b DEF AlCommit, RunFails, MutexOK, CallsOK, MemoryOK, Jobs, OneCall, Mutex,
     Fresh, LetIn, Used, Active, Admission, Work, Ends, Held
<1>8. CASE Finish(k)
  BY <1>8, <1>a, <1>b DEF Finish, MutexOK, CallsOK, MemoryOK, Jobs, OneCall, Mutex,
     Fresh, LetIn, Used, Active, Admission, Work, Ends, Held
<1>9. CASE Commit(k)
  BY <1>9, <1>a, <1>b DEF Commit, TakesEffect, MutexOK, CallsOK, MemoryOK, Jobs, OneCall, Mutex,
     Fresh, LetIn, Used, Active, Admission, Work, Ends, Held
<1>10. CASE InvalidateWindow(k)
  BY <1>10, <1>a, <1>b DEF InvalidateWindow, InvalidateIf, RowFree, MutexOK, CallsOK, MemoryOK,
     Jobs, OneCall, Mutex, Fresh, LetIn, Used, Active, Admission, Work, Ends, Held
<1>11. CASE FailReceipt(k)
  BY <1>11, <1>a, <1>b DEF FailReceipt, FailReceiptElse, MutexOK, CallsOK, MemoryOK, Jobs,
     OneCall, Mutex, Fresh, LetIn, Used, Active, Admission, Work, Ends, Held
<1>12. CASE Settle(k)
  BY <1>12, <1>a, <1>b DEF Settle, TakesEffect, MutexOK, CallsOK, MemoryOK, Jobs, OneCall,
     Mutex, Fresh, LetIn, Used, Active, Admission, Work, Ends, Held
<1> QED
  BY <1>1, <1>2, <1>3, <1>4, <1>5, <1>6, <1>7, <1>8, <1>9, <1>10, <1>11, <1>12
     DEF CallStep, HttpStep, WorkerStep

LEMMA LetInStep ==
    ASSUME Inv, Next
    PROVE  LetIn'
<1> USE Kinds, Sentinels
<1>a. MemoryOK /\ MutexOK /\ TablesOK /\ CallsOK
  BY TypeParts DEF Inv
<1>b. Jobs /\ OneCall /\ Mutex /\ Fresh /\ LetIn
  BY DEF Inv
<1>1. ASSUME NEW k \in Calls, NEW p \in Pages, NEW b \in Bodies, Retain(k, p, b) PROVE LetIn'
  BY <1>1, <1>a, <1>b DEF Retain, NewPage, Unopened, Stale, MutexOK, CallsOK, MemoryOK, Jobs,
       Mutex, Fresh, LetIn, Used, Active, Admission, Work, Ends, Held
<1>2. ASSUME NEW k \in Calls, NEW c \in Commands, NEW b \in Bodies,
          SubmitWrite(k, c, b)
     PROVE  LetIn'
  BY <1>2, <1>a, <1>b DEF SubmitWrite, SubmitIf, Room, Owned, Unfinished, MutexOK, CallsOK,
     MemoryOK, Jobs, Mutex, Fresh, LetIn, Used, Active, Admission, Work, Ends, Held
<1>3. ASSUME NEW p \in Pages, Read(p) \/ LockRead(p) \/ EndRead(p) \/ Tick(p) PROVE LetIn'
  BY <1>3, <1>a, <1>b DEF Read, Unfinished, LockRead, Owned, EndRead, Tick, MutexOK, CallsOK,
     MemoryOK, Jobs, Mutex, Fresh, LetIn, Used, Active, Admission, Work, Ends, Held
<1>4. ASSUME NEW k \in Calls, CallStep(k) PROVE LetIn'
  BY <1>4, LetInCall
<1>5. CASE Stopped
  BY <1>5, <1>a, <1>b DEF Stopped, Forgotten, Working, MutexOK, CallsOK, MemoryOK, Jobs, Mutex,
     Fresh, LetIn, Used, Active, Admission, Work, Ends, Held
<1>6. CASE Dies
  BY <1>6, <1>a, <1>b DEF Dies, Forgotten, MutexOK, CallsOK, MemoryOK, Jobs, Mutex, Fresh,
     LetIn, Used, Active, Admission, Work, Ends, Held
<1>7. CASE Stop \/ Restart
  BY <1>7, <1>a, <1>b DEF Stop, Restart, MutexOK, CallsOK, MemoryOK, Jobs, Mutex, Fresh, LetIn,
     Used, Active, Admission, Work, Ends, Held
<1> QED
  BY <1>1, <1>2, <1>3, <1>4, <1>5, <1>6, <1>7
     DEF Next, Request, Lifecycle, ReadStep, CallStep, Crash, ReadNothing, WriteNothing

\* An opening is answered with a page or as unknown.
LEMMA OpeningsCall ==
    ASSUME Inv, NEW k \in Calls, CallStep(k)
    PROVE  Openings'
<1> USE Sentinels
<1>a. MemoryOK /\ MutexOK /\ CallsOK
  BY TypeParts DEF Inv
<1>b. Jobs /\ Openings
  BY DEF Inv
<1>1. at[k] = "done" => at'[k] = "done"
  BY <1>a DEF CallStep, HttpStep, WorkerStep, Settle, InsertRow, PublishOpen, Take, FindContext,
     Lock, RunOpen, CleanOpen, Report, Check, CheckIf, InsertReceipt, Begin, AlCommit, RunFails,
     Finish, Commit, InvalidateWindow, InvalidateIf, FailReceipt, FailReceiptElse
<1>2. ASSUME at'[k] \in {"report", "done"}, job[k].command = Opening
      PROVE  opened'[job[k].page] \/ answer'[k] = "unknown"
  <2>1. at[k] \notin Writing /\ job[k].page \in Pages
    BY <1>2, <1>b, Stepping DEF Jobs
  <2>2. CASE InsertRow(k) \/ PublishOpen(k) \/ Lock(k)
    BY <1>2, <1>a, <2>2 DEF InsertRow, PublishOpen, Lock, CallsOK
  <2>3. CASE Take(k)
    BY <1>2, <1>a, <2>3 DEF Take, CallsOK
  <2>4. CASE RunOpen(k) \/ CleanOpen(k)
    BY <1>2, <1>a, <2>1, <2>4 DEF RunOpen, CleanOpen, CallsOK, MemoryOK
  <2>5. CASE Report(k)
    BY <1>2, <1>a, <1>b, <2>5 DEF Report, Openings
  <2>6. CASE Settle(k)
    BY <1>2, <1>b, <2>6 DEF Settle, Openings
  <2> QED
    BY <2>1, <2>2, <2>3, <2>4, <2>5, <2>6
       DEF CallStep, HttpStep, WorkerStep, FindContext, Check, CheckIf, InsertReceipt, Begin,
           AlCommit, RunFails, Finish, Commit, InvalidateWindow, InvalidateIf, FailReceipt,
           FailReceiptElse, Writing, Held
<1>3. \A j \in Calls : job[j] # None => job[j].page \in Pages
  BY <1>a, Kinds DEF CallsOK
<1>4. \A j \in Calls : at[j] # "unused" => job[j] # None
  BY <1>b DEF Jobs
<1>5. \A j \in Calls : at'[j] \in {"report", "done"} /\ job[j].command = Opening =>
                           opened'[job[j].page] \/ answer'[j] = "unknown"
  BY <1>b, <1>2, <1>3, <1>4, Frame DEF Openings, Others
<1>6. \A p \in Pages : reading[p] => opened'[p] \/ (last[p] # None /\ at'[last[p]] = "done")
  BY <1>a, <1>b, <1>1, Frame DEF Openings, Others, MemoryOK
<1> QED BY <1>b, <1>3, <1>5, <1>6, Frame DEF Openings, Others

LEMMA OpeningsStep ==
    ASSUME Inv, Next
    PROVE  Openings'
<1> USE Kinds, Sentinels
<1>a. MemoryOK /\ MutexOK /\ CallsOK
  BY TypeParts DEF Inv
<1>b. Jobs /\ Openings
  BY DEF Inv
<1>1. ASSUME NEW k \in Calls, NEW p \in Pages, NEW b \in Bodies, Retain(k, p, b) PROVE Openings'
  BY <1>1, <1>a, <1>b DEF Retain, NewPage, Unopened, MutexOK, CallsOK, MemoryOK, Jobs, Openings,
     Fresh, Used, Inv
<1>2. ASSUME NEW k \in Calls, NEW c \in Commands, NEW b \in Bodies, SubmitWrite(k, c, b)
      PROVE  Openings'
  BY <1>2, <1>a, <1>b DEF SubmitWrite, SubmitIf, Unfinished, MutexOK, CallsOK, MemoryOK, Jobs,
     Openings
<1>3. ASSUME NEW p \in Pages, Read(p) \/ LockRead(p) \/ EndRead(p) \/ Tick(p) PROVE Openings'
  BY <1>3, <1>a, <1>b DEF Read, Unfinished, LockRead, EndRead, Tick, MutexOK, CallsOK, MemoryOK,
     Jobs, Openings
<1>4. ASSUME NEW k \in Calls, CallStep(k) PROVE Openings'
  BY <1>4, OpeningsCall
<1>5. CASE Stopped \/ Stop \/ Restart
  BY <1>5, <1>a, <1>b DEF Stopped, Forgotten, Stop, Restart, Openings
<1>6. CASE Dies
  BY <1>6, <1>a, <1>b DEF Dies, Forgotten, Openings, CallsOK
<1> QED
  BY <1>1, <1>2, <1>3, <1>4, <1>5, <1>6
     DEF Next, Request, Lifecycle, ReadStep, CallStep, Crash, ReadNothing, WriteNothing

LEMMA ConsistentHere ==
    ASSUME Inv, NEW k \in Calls, CallStep(k), NEW p \in Pages, p = job[k].page
    PROVE  ConsistentAt(p)'
<1> USE Kinds, Sentinels
<1>a. MemoryOK /\ MutexOK /\ TablesOK /\ CallsOK /\ CommitOK
  BY TypeParts DEF Inv
<1>b. Jobs /\ Mutex /\ Consistent /\ LetIn /\ InDoubt
  BY DEF Inv
<1>c. Closed(p) => Closed(p)'
  BY ClosedStays DEF CallStep, Next
<1>1. CASE InsertRow(k) \/ PublishOpen(k) \/ Take(k) \/ FindContext(k) \/ Lock(k)
  <2>1. /\ touched' = touched /\ saved' = saved /\ revision' = revision
        /\ at[k] \notin Held
    BY <1>1 DEF InsertRow, PublishOpen, Take, FindContext, Leave, Lock, Held
  <2>2. holder[p] \in Calls => holder[p] # k /\ holder'[p] = holder[p]
    BY <1>1, <1>a, <1>b, <2>1 DEF InsertRow, PublishOpen, Take, FindContext, Lock,
       MutexOK, Mutex
  <2>3. \A j \in Calls \ {k} : at'[j] = at[j]
    BY Frame DEF Others
  <2> QED BY <1>b, <1>c, <2>1, <2>2, <2>3 DEF Consistent, ConsistentAt
<1>2. CASE RunOpen(k)
  BY <1>2, <1>a, <1>b, <1>c DEF RunOpen, MemoryOK, MutexOK, TablesOK, CallsOK, Mutex,
     Consistent, ConsistentAt, Closed, LetIn, Uncertain, Held
<1>3. CASE CleanOpen(k)
  BY <1>3, <1>a, <1>b, <1>c DEF CleanOpen, MemoryOK, MutexOK, TablesOK, CallsOK, Mutex,
     Consistent, ConsistentAt, Closed, LetIn, Uncertain, Held
<1>4. CASE Report(k)
  BY <1>4, <1>a, <1>b, <1>c DEF Report, MemoryOK, MutexOK, TablesOK, CallsOK, Mutex, Consistent,
     ConsistentAt, Closed, LetIn, Uncertain, Held
<1>5. CASE Check(k) \/ InsertReceipt(k) \/ Begin(k)
  BY <1>5, <1>a, <1>b, <1>c DEF Check, CheckIf, Owned, InsertReceipt, Begin, MemoryOK, MutexOK,
     TablesOK, CallsOK, Mutex, Consistent, ConsistentAt, Closed, LetIn, Uncertain, Held
<1>6. CASE AlCommit(k) \/ RunFails(k)
  BY <1>6, <1>a, <1>b, <1>c DEF AlCommit, RunFails, MemoryOK, MutexOK, TablesOK, CallsOK, Mutex,
     Consistent, ConsistentAt, Closed, LetIn, Uncertain, Held
<1>7. CASE Finish(k)
  BY <1>7, <1>a, <1>b, <1>c DEF Finish, MemoryOK, MutexOK, TablesOK, CallsOK, Mutex,
     Consistent, ConsistentAt, Closed, LetIn, Uncertain, Held
<1>8. CASE Commit(k)
  <2>1. /\ job[k] \in Job /\ job[k].command \in Commands /\ job[k].page \in Pages
        /\ job[k].command.page = job[k].page
    BY <1>8, Committing
  <2>2. CASE TakesEffect(k)
    <3>1. /\ receipts'[job[k].command] = [outcome |-> "complete", body |-> job[k].body]
          /\ saved'[job[k].page] = job[k].command.revision + 1
          /\ applied'[k] = "whole" /\ ~ locked'[k]
      BY <1>a, <2>1, <2>2, EffectPointwise
    <3>2. receipts'[job[k].command] # None
      BY <2>1, <3>1, Kinds DEF Outcomes
    <3>3. /\ receipts'[job[k].command].outcome = "complete"
          /\ receipts'[job[k].command].body = job[k].body
      BY <3>1
    <3> QED BY <1>8, <1>a, <1>b, <2>1, <2>2, <3>1, <3>2, <3>3, <1>c DEF Commit, MemoryOK,
                 MutexOK, TablesOK, CallsOK, Mutex, Consistent, ConsistentAt, Closed, LetIn,
                 Uncertain, Held, CommitOK, InDoubt, DoubtOf
  <2>3. CASE ~ TakesEffect(k)
    BY <1>8, <1>a, <1>b, <2>1, <2>3, <1>c DEF Commit, MemoryOK, MutexOK, TablesOK, CallsOK,
         Mutex, Consistent, ConsistentAt, Closed, LetIn, Uncertain, Held, CommitOK, InDoubt,
         DoubtOf
  <2> QED BY <2>2, <2>3
<1>9. CASE InvalidateWindow(k)
  BY <1>9, <1>a, <1>b, <1>c DEF InvalidateWindow, InvalidateIf, RowFree, MemoryOK, MutexOK,
     TablesOK, CallsOK, Mutex, Consistent, ConsistentAt, Closed, LetIn, Uncertain, Held
<1>10. CASE FailReceipt(k)
  BY <1>10, <1>a, <1>b, <1>c DEF FailReceipt, FailReceiptElse, MemoryOK, MutexOK, TablesOK,
     CallsOK, Mutex, Consistent, ConsistentAt, Closed, LetIn, Uncertain, Held
<1>11. CASE Settle(k)
  <2>1. /\ job[k] \in Job /\ job[k].command \in Commands /\ job[k].page \in Pages
        /\ job[k].command.page = job[k].page
    BY <1>11, Committing
  <2>2. CASE TakesEffect(k)
    <3>1. /\ receipts'[job[k].command] = [outcome |-> "complete", body |-> job[k].body]
          /\ saved'[job[k].page] = job[k].command.revision + 1
          /\ applied'[k] = "whole" /\ ~ locked'[k]
      BY <1>a, <2>1, <2>2, EffectPointwise
    <3>2. receipts'[job[k].command] # None
      BY <2>1, <3>1, Kinds DEF Outcomes
    <3>3. /\ receipts'[job[k].command].outcome = "complete"
          /\ receipts'[job[k].command].body = job[k].body
      BY <3>1
    <3> QED BY <1>11, <1>a, <1>b, <2>1, <2>2, <3>1, <3>2, <3>3, <1>c DEF Settle, MemoryOK,
                 MutexOK, TablesOK, CallsOK, Mutex, Consistent, ConsistentAt, Closed, LetIn,
                 Uncertain, Held, CommitOK, InDoubt, DoubtOf
  <2>3. CASE ~ TakesEffect(k)
    BY <1>11, <1>a, <1>b, <2>1, <2>3, <1>c DEF Settle, MemoryOK, MutexOK, TablesOK, CallsOK,
         Mutex, Consistent, ConsistentAt, Closed, LetIn, Uncertain, Held, CommitOK, InDoubt,
         DoubtOf
  <2> QED BY <2>2, <2>3
<1> QED
  BY <1>1, <1>2, <1>3, <1>4, <1>5, <1>6, <1>7, <1>8, <1>9, <1>10, <1>11
     DEF CallStep, HttpStep, WorkerStep

LEMMA ConsistentStep ==
    ASSUME Inv, Next
    PROVE  Consistent'
<1> USE Kinds, Sentinels
<1>a. MemoryOK /\ MutexOK /\ TablesOK /\ CallsOK
  BY TypeParts DEF Inv
<1>b. Jobs /\ Mutex /\ Fresh /\ Consistent
  BY DEF Inv
<1>c. \A p \in Pages : Closed(p) => Closed(p)'
  BY ClosedStays
<1>1. ASSUME NEW k \in Calls, NEW p \in Pages, NEW b \in Bodies,
          Retain(k, p, b)
     PROVE  Consistent'
  BY <1>1, <1>a, <1>b, <1>c DEF Retain, NewPage, Unopened, Stale, Mutex, Fresh, Consistent,
       ConsistentAt, Uncertain, MutexOK, CallsOK, MemoryOK, TablesOK, Jobs, Used, Active,
       Admission, Work, Ends, Held
<1>2. ASSUME NEW k \in Calls, NEW c \in Commands, NEW b \in Bodies,
          SubmitWrite(k, c, b)
     PROVE  Consistent'
  BY <1>2, <1>a, <1>b, <1>c DEF SubmitWrite, SubmitIf, Room, Owned, Unfinished, Mutex, Fresh,
     Consistent, ConsistentAt, Uncertain, MutexOK, CallsOK, MemoryOK, TablesOK, Jobs, Used,
     Active, Admission, Work, Ends, Held
<1>3. ASSUME NEW p \in Pages, Tick(p) PROVE Consistent'
  BY <1>3, <1>a, <1>b, <1>c DEF Tick, Mutex, Fresh, Consistent, ConsistentAt, Uncertain,
     MutexOK, CallsOK, MemoryOK, TablesOK, Jobs, Used, Active, Admission, Work, Ends, Held
<1>4. ASSUME NEW p \in Pages, Read(p) \/ LockRead(p) \/ EndRead(p) PROVE Consistent'
  BY <1>4, <1>a, <1>b, <1>c DEF Read, Unfinished, LockRead, Owned, EndRead, Mutex, Fresh,
     Consistent, ConsistentAt, Uncertain, MutexOK, CallsOK, MemoryOK, TablesOK, Jobs, Used,
     Active, Admission, Work, Ends, Held
<1>5. ASSUME NEW k \in Calls, CallStep(k) PROVE Consistent'
  <2>1. ASSUME NEW p \in Pages \ {job[k].page} PROVE ConsistentAt(p)'
    <3>1. Closed(p) => Closed(p)'
      BY <1>5, ClosedStays
    <3>2. holder[p] \in Calls => holder[p] # k
      BY <1>b DEF Mutex
    <3> QED BY <1>5, <1>b, <3>1, <3>2, Frame DEF Others, Consistent, ConsistentAt
  <2> QED BY <1>5, <2>1, ConsistentHere DEF Consistent
<1>6. CASE Stopped
  BY <1>6, <1>a, <1>b, <1>c DEF Stopped, Forgotten, Working, Mutex, Fresh, Consistent,
     ConsistentAt, Uncertain, MutexOK, CallsOK, MemoryOK, TablesOK, Jobs, Used, Active,
     Admission, Work, Ends, Held
<1>7. CASE Dies
  <2>1. ASSUME NEW p \in Pages, Used(p) PROVE ConsistentAt(p)'
    BY <1>7, <2>1, DeathCloses DEF ConsistentAt, Closed
  <2>2. ASSUME NEW p \in Pages, ~ Used(p) PROVE ConsistentAt(p)'
    BY <1>7, <1>b, <2>2 DEF Dies, Fresh, ConsistentAt
  <2> QED BY <2>1, <2>2 DEF Consistent
<1>8. CASE Stop \/ Restart
  BY <1>8, <1>a, <1>b, <1>c DEF Stop, Restart, Mutex, Fresh, Consistent, ConsistentAt,
     Uncertain, MutexOK, CallsOK, MemoryOK, TablesOK, Jobs, Used, Active, Admission, Work, Ends,
     Held
<1> QED
  BY <1>1, <1>2, <1>3, <1>4, <1>5, <1>6, <1>7, <1>8
     DEF Next, Request, Lifecycle, ReadStep, CallStep, Crash, ReadNothing, WriteNothing

----------------------------------------------------------------------------
(* Receipts, COMMITs in doubt and answers. *)

LEMMA DoubtHere ==
    ASSUME Inv, NEW k \in Calls, CallStep(k)
    PROVE  DoubtOf(k)'
<1> USE Kinds, Sentinels
<1>a. MemoryOK /\ MutexOK /\ TablesOK /\ CallsOK /\ CommitOK
  BY TypeParts DEF Inv
<1>b. Jobs /\ Mutex /\ LetIn /\ InDoubt /\ Effects
  BY DEF Inv
<1>c. job' = job /\ DoubtOf(k) /\ (Closed(job[k].page) => Closed(job[k].page)')
  BY <1>b, Stepping, ClosedStays, Frame DEF CallStep, Next, Others, InDoubt
<1>1. CASE InsertRow(k)
  BY <1>1, <1>a, <1>b, <1>c DEF InsertRow, MemoryOK, MutexOK, CallsOK, CommitOK, DoubtOf, Ends
<1>2. CASE PublishOpen(k)
  BY <1>2, <1>a, <1>b, <1>c DEF PublishOpen, Room, MemoryOK, MutexOK, CallsOK, CommitOK,
     DoubtOf, Ends
<1>3. CASE Take(k) \/ FindContext(k) \/ Lock(k)
  BY <1>3, <1>a, <1>b, <1>c DEF Take, FindContext, Lock, MemoryOK, MutexOK, CallsOK,
     CommitOK, DoubtOf, Ends
<1>4. CASE RunOpen(k) \/ CleanOpen(k) \/ Report(k)
  BY <1>4, <1>a, <1>b, <1>c DEF RunOpen, CleanOpen, Report, MemoryOK, MutexOK, CallsOK,
     CommitOK, DoubtOf, Ends
<1>5. CASE Check(k) \/ InsertReceipt(k) \/ Begin(k)
  BY <1>5, <1>a, <1>b, <1>c DEF Check, CheckIf, Owned, InsertReceipt, Begin, MemoryOK, MutexOK,
     CallsOK, CommitOK, DoubtOf, Ends
<1>6. CASE AlCommit(k)
  BY <1>6, <1>a, <1>b, <1>c DEF AlCommit, Effects, EffectOf, Status, MemoryOK, MutexOK, CallsOK,
     CommitOK, DoubtOf, Ends
<1>7. CASE RunFails(k) \/ Finish(k)
  BY <1>7, <1>a, <1>b, <1>c DEF RunFails, Finish, MemoryOK, MutexOK, CallsOK,
     CommitOK, DoubtOf, Ends
<1>8. CASE Commit(k)
  <2>1. /\ job[k] \in Job /\ job[k].command \in Commands /\ job[k].page \in Pages
        /\ job[k].command.page = job[k].page
    BY <1>8, Committing
  <2>2. /\ at[k] = "commit" /\ locked[k] /\ doubt[k] = None /\ applied[k] # "whole"
        /\ job[k].command.revision + 1 = revision[job[k].page]
    BY <1>8, <1>b, <1>c DEF Commit, DoubtOf, Ends, Effects, EffectOf, Status, LetIn
  <2>3. job[k].command.revision < MaxRevision
    <3>1. \A m, n \in Nat : m + 1 <= n => m < n
      OBVIOUS
    <3> QED BY <1>a, <2>1, <2>2, <3>1, PageCommandsAssumption DEF MemoryOK
  <2>4. /\ at'[k] = "report" /\ doubt'[k] = None
        \/ /\ at'[k] = "cleanPage" /\ applied' = applied
           /\ doubt'[k] = None \/ (doubt'[k] = "whole" /\ locked' = locked)
    BY <1>8, <1>a, <2>2 DEF Commit, CallsOK, CommitOK
  <2> QED BY <1>c, <2>2, <2>3, <2>4 DEF DoubtOf
<1>9. CASE InvalidateWindow(k)
  BY <1>9, <1>a, <1>b, <1>c DEF InvalidateWindow, InvalidateIf, RowFree, Closed, Jobs, MemoryOK,
     MutexOK, CallsOK, CommitOK, DoubtOf, Ends
<1>10. CASE FailReceipt(k)
  BY <1>10, <1>a, <1>b, <1>c DEF FailReceipt, FailReceiptElse, MemoryOK, MutexOK, CallsOK,
     CommitOK, DoubtOf, Ends
<1>11. CASE Settle(k)
  BY <1>11, <1>a, <1>b, <1>c DEF Settle, TakesEffect, MemoryOK, MutexOK, CallsOK, CommitOK,
     DoubtOf, Ends
<1> QED
  BY <1>1, <1>2, <1>3, <1>4, <1>5, <1>6, <1>7, <1>8, <1>9, <1>10, <1>11
     DEF CallStep, HttpStep, WorkerStep

LEMMA InDoubtStep ==
    ASSUME Inv, Next
    PROVE  InDoubt'
<1> USE Kinds, Sentinels
<1>a. CallsOK /\ CommitOK
  BY TypeParts DEF Inv
<1>b. Jobs /\ InDoubt /\ Receipts
  BY DEF Inv
<1>c. \A p \in Pages : Closed(p) => Closed(p)'
  BY ClosedStays
<1>1. ASSUME NEW k \in Calls, NEW p \in Pages, NEW b \in Bodies, Retain(k, p, b) PROVE InDoubt'
  BY <1>1, <1>a, <1>b, <1>c DEF Retain, NewPage, Unopened, Stale, InDoubt, DoubtOf, CallsOK,
       CommitOK, Jobs, Ends, Admission, Work
<1>2. ASSUME NEW k \in Calls, NEW c \in Commands, NEW b \in Bodies,
          SubmitWrite(k, c, b)
     PROVE  InDoubt'
  BY <1>2, <1>a, <1>b, <1>c DEF SubmitWrite, SubmitIf, Room, Owned, Unfinished, InDoubt,
     DoubtOf, CallsOK, CommitOK, Jobs, Ends, Admission, Work
<1>3. ASSUME NEW p \in Pages, Tick(p) PROVE InDoubt'
  BY <1>3, <1>a, <1>b, <1>c DEF Tick, InDoubt, DoubtOf, CallsOK, CommitOK, Jobs, Ends,
     Admission, Work
<1>4. ASSUME NEW p \in Pages, Read(p) \/ LockRead(p) \/ EndRead(p) PROVE InDoubt'
  BY <1>4, <1>a, <1>b, <1>c DEF Read, Unfinished, LockRead, Owned, EndRead, InDoubt, DoubtOf,
     CallsOK, CommitOK, Jobs, Ends, Admission, Work
<1>5. ASSUME NEW k \in Calls, CallStep(k) PROVE InDoubt'
  <2>1. ASSUME NEW j \in Calls \ {k} PROVE DoubtOf(j)'
    <3>1. doubt[j] # None => job[j].page \in Pages
      BY <1>a, <1>b DEF Receipts, ReceiptOf, Begun, CallsOK
    <3> QED BY <1>5, <1>b, <1>c, <3>1, Frame DEF Others, InDoubt, DoubtOf
  <2> QED BY <1>5, <2>1, DoubtHere DEF InDoubt
<1>6. CASE Stopped
  BY <1>6, <1>a, <1>b, <1>c DEF Stopped, Forgotten, Working, InDoubt, DoubtOf, CallsOK,
     CommitOK, Jobs, Ends, Admission, Work
<1>7. CASE Dies
  <2>1. ASSUME NEW k \in Calls, doubt[k] # None
        PROVE  Closed(job[k].page)' /\ at'[k] \in Ends
    <3>1. job[k] # None /\ job[k].page \in Pages
      BY <1>a, <1>b, <2>1 DEF Receipts, ReceiptOf, Begun, CallsOK
    <3>2. job' = job
      BY <1>7 DEF Dies
    <3>3. \A p \in Pages : Used(p) => Dead(p)'
      BY <1>7, DeathCloses
    <3>4. Dead(job[k].page)'
      BY <3>1, <3>2, <3>3 DEF Used
    <3>5. Used(job[k].page)
      BY <3>1 DEF Used
    <3> QED BY <3>1, <3>2, <3>4 DEF Closed, Dead
  <2>2. ASSUME NEW k \in Calls PROVE at'[k] # "commit"
    BY <1>7, <1>a DEF Dies, CallsOK, Work
  <2> QED BY <1>7, <1>a, <1>b, <2>1, <2>2 DEF Dies, InDoubt, DoubtOf, CommitOK, Ends
<1>8. CASE Stop \/ Restart
  BY <1>8, <1>a, <1>b, <1>c DEF Stop, Restart, InDoubt, DoubtOf, CallsOK, CommitOK, Jobs, Ends,
     Admission, Work
<1> QED
  BY <1>1, <1>2, <1>3, <1>4, <1>5, <1>6, <1>7, <1>8
     DEF Next, Request, Lifecycle, ReadStep, CallStep, Crash, ReadNothing, WriteNothing

LEMMA ReceiptHere ==
    ASSUME Inv, NEW k \in Calls, CallStep(k)
    PROVE  ReceiptOf(k)' /\ (Begun(k)' => Begun(k) \/ at[k] = "insert")
<1> USE Kinds, Sentinels
<1>a. MutexOK /\ TablesOK /\ CallsOK /\ CommitOK
  BY TypeParts DEF Inv
<1>b. Jobs /\ Receipts
  BY DEF Inv
<1>c. job' = job /\ ReceiptOf(k)
  BY <1>b, Frame DEF Others, Receipts
<1>1. CASE InsertRow(k) \/ PublishOpen(k)
  BY <1>1, <1>a, <1>b, <1>c DEF InsertRow, PublishOpen, Room, CallsOK, CommitOK, ReceiptOf,
     Begun
<1>2. CASE Take(k) \/ FindContext(k) \/ Lock(k)
  BY <1>2, <1>a, <1>b, <1>c DEF Take, FindContext, Lock, CallsOK, CommitOK,
     ReceiptOf, Begun
<1>3. CASE RunOpen(k) \/ CleanOpen(k) \/ Report(k)
  BY <1>3, <1>a, <1>b, <1>c DEF RunOpen, CleanOpen, Report, CallsOK, CommitOK, ReceiptOf, Begun
<1>4. CASE Check(k) \/ Begin(k)
  BY <1>4, <1>a, <1>b, <1>c DEF Check, CheckIf, Owned, Begin, CallsOK, CommitOK, ReceiptOf,
     Begun
<1>5. CASE InsertReceipt(k)
  <2>1. /\ at[k] = "insert" /\ at'[k] \in {"begin", "report"}
        /\ doubt' = doubt /\ applied' = applied
    BY <1>5, <1>a DEF InsertReceipt, CallsOK
  <2>2. job[k] # None /\ job[k].command # Opening
    BY <1>b, <2>1 DEF Jobs, Writing, Held
  <2>3. ~ Begun(k)
    BY <1>c, <2>1 DEF ReceiptOf
  <2> QED BY <1>5, <1>c, <2>1, <2>2, <2>3, StoredPointwise DEF ReceiptOf, Begun
<1>6. CASE AlCommit(k) \/ RunFails(k) \/ Finish(k)
  BY <1>6, <1>a, <1>b, <1>c DEF AlCommit, RunFails, Finish, CallsOK, CommitOK,
     ReceiptOf, Begun
<1>7. CASE Commit(k)
  <2>1. /\ job[k] \in Job /\ job[k].command \in Commands /\ job[k].page \in Pages
        /\ job[k].command.page = job[k].page
    BY <1>7, Committing
  <2>2. CASE TakesEffect(k)
    <3>1. /\ receipts'[job[k].command] = [outcome |-> "complete", body |-> job[k].body]
          /\ saved'[job[k].page] = job[k].command.revision + 1
          /\ applied'[k] = "whole" /\ ~ locked'[k]
      BY <1>a, <2>1, <2>2, EffectPointwise
    <3>2. receipts'[job[k].command] # None
      BY <2>1, <3>1, Kinds DEF Outcomes
    <3>3. /\ receipts'[job[k].command].outcome = "complete"
          /\ receipts'[job[k].command].body = job[k].body
      BY <3>1
    <3> QED BY <1>7, <1>a, <1>b, <2>1, <2>2, <3>1, <3>2, <3>3, <1>c DEF Commit, CallsOK,
                 CommitOK, ReceiptOf, Begun
  <2>3. CASE ~ TakesEffect(k)
    BY <1>7, <1>a, <1>b, <2>1, <2>3, <1>c DEF Commit, CallsOK, CommitOK, ReceiptOf, Begun
  <2> QED BY <2>2, <2>3
<1>8. CASE InvalidateWindow(k)
  BY <1>8, <1>a, <1>b, <1>c DEF InvalidateWindow, InvalidateIf, RowFree, CallsOK, CommitOK,
     ReceiptOf, Begun
<1>9. CASE FailReceipt(k)
  BY <1>9, <1>a, <1>b, <1>c, FailedPointwise DEF FailReceipt, FailReceiptElse, CallsOK,
       CommitOK, ReceiptOf, Begun
<1>10. CASE Settle(k)
  <2>1. /\ job[k] \in Job /\ job[k].command \in Commands /\ job[k].page \in Pages
        /\ job[k].command.page = job[k].page
    BY <1>10, Committing
  <2>2. CASE TakesEffect(k)
    <3>1. /\ receipts'[job[k].command] = [outcome |-> "complete", body |-> job[k].body]
          /\ saved'[job[k].page] = job[k].command.revision + 1
          /\ applied'[k] = "whole" /\ ~ locked'[k]
      BY <1>a, <2>1, <2>2, EffectPointwise
    <3>2. receipts'[job[k].command] # None
      BY <2>1, <3>1, Kinds DEF Outcomes
    <3>3. /\ receipts'[job[k].command].outcome = "complete"
          /\ receipts'[job[k].command].body = job[k].body
      BY <3>1
    <3> QED BY <1>10, <1>a, <1>b, <2>1, <2>2, <3>1, <3>2, <3>3, <1>c DEF Settle, CallsOK,
                 CommitOK, ReceiptOf, Begun
  <2>3. CASE ~ TakesEffect(k)
    BY <1>10, <1>a, <1>b, <2>1, <2>3, <1>c DEF Settle, CallsOK, CommitOK, ReceiptOf, Begun
  <2> QED BY <2>2, <2>3
<1> QED
  BY <1>1, <1>2, <1>3, <1>4, <1>5, <1>6, <1>7, <1>8, <1>9, <1>10
     DEF CallStep, HttpStep, WorkerStep

LEMMA ReceiptsStep ==
    ASSUME Inv, Next
    PROVE  Receipts'
<1> USE Kinds, Sentinels
<1>a. MutexOK /\ TablesOK /\ CallsOK /\ CommitOK
  BY TypeParts DEF Inv
<1>b. Jobs /\ Mutex /\ Receipts
  BY DEF Inv
<1>1. ASSUME NEW k \in Calls, NEW p \in Pages, NEW b \in Bodies, Retain(k, p, b) PROVE Receipts'
  BY <1>1, <1>a, <1>b DEF Retain, NewPage, Unopened, Stale, Receipts, ReceiptOf, Begun, CallsOK,
       CommitOK, TablesOK, Jobs, Admission, Work, Ends, Steps
<1>2. ASSUME NEW k \in Calls, NEW c \in Commands, NEW b \in Bodies,
          SubmitWrite(k, c, b)
     PROVE  Receipts'
  BY <1>2, <1>a, <1>b DEF SubmitWrite, SubmitIf, Room, Owned, Unfinished, Receipts, ReceiptOf,
     Begun, CallsOK, CommitOK, TablesOK, Jobs, Admission, Work, Ends, Steps
<1>3. ASSUME NEW p \in Pages, Read(p) \/ LockRead(p) \/ EndRead(p) \/ Tick(p) PROVE Receipts'
  BY <1>3, <1>a, <1>b DEF Read, Unfinished, LockRead, Owned, EndRead, Tick, Receipts, ReceiptOf,
     Begun, CallsOK, CommitOK, TablesOK, Jobs, Admission, Work, Ends, Steps
<1>4. ASSUME NEW k \in Calls, CallStep(k) PROVE Receipts'
  <2>1. ASSUME NEW j \in Calls \ {k} PROVE ReceiptOf(j)' /\ (Begun(j)' <=> Begun(j))
    <3>1. Begun(j)' <=> Begun(j)
      BY <1>4, Frame DEF Others, Begun
    <3>2. ASSUME Begun(j) PROVE ReceiptOf(j)'
      BY <1>4, <1>b, <3>2, Frame, OwnReceipt DEF Receipts, ReceiptOf, Others
    <3>3. ASSUME at[j] = "insert", job[k].command = job[j].command PROVE receipts' = receipts
      <4>1. job[k].page = job[j].page
        BY <1>4, <1>a, <1>b, <3>3, Stepping, Kinds DEF Jobs, Writing, Held, CallsOK
      <4>2. at[k] \notin Held /\ ~ Begun(k)
        BY <1>b, <3>3, <4>1 DEF Mutex, Held, Receipts, ReceiptOf
      <4> QED BY <1>4, <4>2 DEF CallStep, HttpStep, WorkerStep, Held, Begun, InsertRow,
                   PublishOpen, Take, FindContext, Lock, RunOpen, CleanOpen, Report,
                   Check, CheckIf, InsertReceipt, Begin, AlCommit, RunFails, Finish,
                   Commit, InvalidateWindow, InvalidateIf, FailReceipt,
                   FailReceiptElse, Settle
    <3>4. ASSUME at[j] = "insert" PROVE receipts'[job[j].command] = None
      <4>1. job[j].command \in Commands /\ receipts[job[j].command] = None
        BY <1>a, <1>b, <3>4, Kinds DEF Jobs, Writing, Held, CallsOK, Receipts, ReceiptOf
      <4> QED BY <1>4, <3>3, <3>4, <4>1, Frame DEF Others
    <3> QED BY <1>4, <3>1, <3>2, <3>4, Frame DEF ReceiptOf, Others
  <2>2. ASSUME NEW j \in Calls \ {k}, Begun(j), Begun(k)' PROVE job[j].command # job[k].command
    BY <1>4, <1>b, <2>2, ReceiptHere DEF Receipts, ReceiptOf
  <2>3. job' = job
    BY <1>4, Frame DEF Others
  <2> QED BY <1>4, <1>b, <2>1, <2>2, <2>3, ReceiptHere DEF Receipts
<1>5. CASE Stopped
  BY <1>5, <1>a, <1>b DEF Stopped, Forgotten, Working, Receipts, ReceiptOf, Begun, CallsOK,
     CommitOK, TablesOK, Jobs, Admission, Work, Ends, Steps
<1>6. CASE Dies
  BY <1>6, <1>a, <1>b DEF Dies, Forgotten, Receipts, ReceiptOf, Begun, CallsOK, CommitOK,
     TablesOK, Jobs, Admission, Work, Ends, Steps
<1>7. CASE Stop \/ Restart
  BY <1>7, <1>a, <1>b DEF Stop, Restart, Receipts, ReceiptOf, Begun, CallsOK, CommitOK,
     TablesOK, Jobs, Admission, Work, Ends, Steps
<1> QED
  BY <1>1, <1>2, <1>3, <1>4, <1>5, <1>6, <1>7
     DEF Next, Request, Lifecycle, ReadStep, CallStep, Crash, ReadNothing, WriteNothing

LEMMA EffectHere ==
    ASSUME Inv, NEW k \in Calls, CallStep(k)
    PROVE  EffectOf(k)'
<1> USE Kinds, Sentinels
<1>a. MutexOK /\ TablesOK /\ CallsOK /\ CommitOK
  BY TypeParts DEF Inv
<1>b. Receipts /\ InDoubt /\ Effects
  BY DEF Inv
<1>c. job' = job /\ EffectOf(k) /\ ReceiptOf(k) /\ DoubtOf(k)
  BY <1>b, Frame DEF Others, Effects, Receipts, InDoubt
<1>1. CASE InsertRow(k) \/ PublishOpen(k)
  BY <1>1, <1>a, <1>b, <1>c DEF InsertRow, PublishOpen, Room, CallsOK, CommitOK, EffectOf,
     Status
<1>2. CASE Take(k) \/ FindContext(k) \/ Lock(k)
  BY <1>2, <1>a, <1>b, <1>c DEF Take, FindContext, Lock, CallsOK, CommitOK, EffectOf,
     Status
<1>3. CASE RunOpen(k) \/ CleanOpen(k) \/ Report(k)
  BY <1>3, <1>a, <1>b, <1>c DEF RunOpen, CleanOpen, Report, CallsOK, CommitOK, EffectOf, Status
<1>4. CASE Check(k)
  BY <1>4, <1>a, <1>b, <1>c DEF Check, CheckIf, Owned, CallsOK, CommitOK, EffectOf, Status
<1>5. CASE InsertReceipt(k)
  BY <1>5, <1>a, <1>b, <1>c, StoredPointwise DEF InsertReceipt, ReceiptOf, Begun, CallsOK,
       CommitOK, EffectOf, Status
<1>6. CASE Begin(k)
  BY <1>6, <1>a, <1>b, <1>c DEF Begin, Owned, CallsOK, CommitOK, EffectOf, Status
<1>7. CASE AlCommit(k) \/ RunFails(k) \/ Finish(k)
  BY <1>7, <1>a, <1>b, <1>c DEF AlCommit, RunFails, Finish, CallsOK, CommitOK,
     EffectOf, Status
<1>8. CASE Commit(k)
  <2>1. /\ job[k] \in Job /\ job[k].command \in Commands /\ job[k].page \in Pages
        /\ job[k].command.page = job[k].page
    BY <1>8, Committing
  <2>2. CASE TakesEffect(k)
    <3>1. /\ receipts'[job[k].command] = [outcome |-> "complete", body |-> job[k].body]
          /\ saved'[job[k].page] = job[k].command.revision + 1
          /\ applied'[k] = "whole" /\ ~ locked'[k]
      BY <1>a, <2>1, <2>2, EffectPointwise
    <3>2. receipts'[job[k].command] # None
      BY <2>1, <3>1, Kinds DEF Outcomes
    <3>3. /\ receipts'[job[k].command].outcome = "complete"
          /\ receipts'[job[k].command].body = job[k].body
      BY <3>1
    <3> QED BY <1>8, <1>a, <1>b, <2>1, <2>2, <3>1, <3>2, <3>3, <1>c DEF Commit, CallsOK,
                 CommitOK, EffectOf, Status, DoubtOf, Ends
  <2>3. CASE ~ TakesEffect(k)
    BY <1>8, <1>a, <1>b, <2>1, <2>3, <1>c DEF Commit, CallsOK, CommitOK, EffectOf, Status,
         DoubtOf, Ends
  <2> QED BY <2>2, <2>3
<1>9. CASE InvalidateWindow(k)
  BY <1>9, <1>a, <1>b, <1>c DEF InvalidateWindow, InvalidateIf, RowFree, CallsOK, CommitOK,
     EffectOf, Status
<1>10. CASE FailReceipt(k)
  BY <1>10, <1>a, <1>b, <1>c, FailedPointwise DEF FailReceipt, FailReceiptElse, DoubtOf,
       CallsOK, CommitOK, EffectOf, Status
<1>11. CASE Settle(k)
  <2>1. /\ job[k] \in Job /\ job[k].command \in Commands /\ job[k].page \in Pages
        /\ job[k].command.page = job[k].page
    BY <1>11, Committing
  <2>2. CASE TakesEffect(k)
    <3>1. /\ receipts'[job[k].command] = [outcome |-> "complete", body |-> job[k].body]
          /\ saved'[job[k].page] = job[k].command.revision + 1
          /\ applied'[k] = "whole" /\ ~ locked'[k]
      BY <1>a, <2>1, <2>2, EffectPointwise
    <3>2. receipts'[job[k].command] # None
      BY <2>1, <3>1, Kinds DEF Outcomes
    <3>3. /\ receipts'[job[k].command].outcome = "complete"
          /\ receipts'[job[k].command].body = job[k].body
      BY <3>1
    <3> QED BY <1>11, <1>a, <1>b, <2>1, <2>2, <3>1, <3>2, <3>3, <1>c DEF Settle, CallsOK,
                 CommitOK, EffectOf, Status, DoubtOf, Ends
  <2>3. CASE ~ TakesEffect(k)
    BY <1>11, <1>a, <1>b, <2>1, <2>3, <1>c DEF Settle, CallsOK, CommitOK, EffectOf, Status,
         DoubtOf, Ends
  <2> QED BY <2>2, <2>3
<1> QED
  BY <1>1, <1>2, <1>3, <1>4, <1>5, <1>6, <1>7, <1>8, <1>9, <1>10, <1>11
     DEF CallStep, HttpStep, WorkerStep

\* A receipt becomes complete when its call takes effect.
LEMMA CompletedHere ==
    ASSUME Inv, NEW k \in Calls, CallStep(k), NEW c \in Commands,
           Status(c) # "complete", Status(c)' = "complete"
    PROVE  job[k] # None /\ job[k].command = c /\ applied'[k] = "whole"
<1>a. TablesOK /\ CommitOK /\ CallsOK
  BY TypeParts DEF Inv
<1>1. receipts'[c] # receipts[c]
  BY DEF Status
<1>2. job[k] # None /\ job[k].command = c
  BY <1>1, Frame, Stepping DEF Others
<1>3. CASE InsertReceipt(k)
  BY <1>1, <1>2, <1>3, StoredPointwise DEF Status
<1>4. CASE FailReceipt(k)
  BY <1>1, <1>2, <1>4, FailedPointwise DEF Status
<1>5. CASE ~ (InsertReceipt(k) \/ FailReceipt(k))
  BY <1>1, <1>2, <1>5, <1>a DEF TakesEffect, CommitOK, CallStep, HttpStep, WorkerStep, InsertRow,
     PublishOpen, Take, FindContext, Lock, RunOpen, CleanOpen, Report, Check, CheckIf,
     Begin, AlCommit, RunFails, Finish, Commit, InvalidateWindow, InvalidateIf, Settle
<1> QED BY <1>2, <1>3, <1>4, <1>5

LEMMA EffectsStep ==
    ASSUME Inv, Next
    PROVE  Effects'
<1> USE Kinds, Sentinels
<1>a. MutexOK /\ TablesOK /\ CallsOK /\ CommitOK
  BY TypeParts DEF Inv
<1>b. Jobs /\ Receipts /\ InDoubt /\ Effects
  BY DEF Inv
<1>1. ASSUME NEW k \in Calls, NEW p \in Pages, NEW b \in Bodies, Retain(k, p, b) PROVE Effects'
  BY <1>1, <1>a, <1>b DEF Retain, NewPage, Unopened, Stale, Effects, EffectOf, Status, CallsOK,
       CommitOK, Jobs, Admission, Work, Ends, Steps, Receipts, ReceiptOf, Begun
<1>2. ASSUME NEW k \in Calls, NEW c \in Commands, NEW b \in Bodies,
          SubmitWrite(k, c, b)
     PROVE  Effects'
  BY <1>2, <1>a, <1>b DEF SubmitWrite, SubmitIf, Room, Owned, Unfinished, Effects, EffectOf,
     Status, CallsOK, CommitOK, Jobs, Admission, Work, Ends, Steps, Receipts, ReceiptOf, Begun
<1>3. ASSUME NEW p \in Pages, Read(p) \/ LockRead(p) \/ EndRead(p) \/ Tick(p) PROVE Effects'
  BY <1>3, <1>a, <1>b DEF Read, Unfinished, LockRead, Owned, EndRead, Tick, Effects, EffectOf,
     Status, CallsOK, CommitOK, Jobs, Admission, Work, Ends, Steps, Receipts, ReceiptOf, Begun
<1>4. ASSUME NEW k \in Calls, CallStep(k) PROVE Effects'
  <2>1. ASSUME NEW j \in Calls \ {k} PROVE EffectOf(j)'
    <3>1. CASE Begun(j)
      BY <1>4, <1>b, <3>1, Frame, OwnReceipt DEF Others, Effects, EffectOf, Status
    <3>2. CASE ~ Begun(j)
      BY <1>4, <3>2, Frame DEF Others, EffectOf, Begun
    <3> QED BY <3>1, <3>2
  <2>2. ASSUME NEW c \in Commands, Status(c)' = "complete"
        PROVE  \E t \in Calls : job[t] # None /\ job[t].command = c /\ applied'[t] = "whole"
    <3>1. ASSUME NEW t \in Calls, applied[t] = "whole" PROVE applied'[t] = "whole"
      <4>1. CASE t # k
        BY <1>4, <3>1, <4>1, Frame DEF Others
      <4>2. CASE t = k
        <5>1. at[k] \notin {"run", "commit"} /\ doubt[k] = None
          BY <1>b, <3>1, <4>2 DEF Effects, EffectOf, Status, InDoubt, DoubtOf
        <5> QED BY <1>4, <3>1, <4>2, <5>1 DEF CallStep, HttpStep, WorkerStep, InsertRow,
               PublishOpen, Take, FindContext, Lock, RunOpen, CleanOpen, Report, Check,
               CheckIf, InsertReceipt, Begin, AlCommit, RunFails, Finish, Commit,
               InvalidateWindow, InvalidateIf, FailReceipt, FailReceiptElse, Settle
      <4> QED BY <4>1, <4>2
    <3>2. CASE Status(c) = "complete"
      BY <1>b, <3>1, <3>2 DEF Effects
    <3>3. CASE Status(c) # "complete"
      BY <1>4, <2>2, <3>3, CompletedHere
    <3> QED BY <3>2, <3>3
  <2>3. job' = job
    BY <1>4, Frame DEF Others
  <2> QED BY <1>4, <2>1, <2>2, <2>3, EffectHere DEF Effects
<1>5. CASE Stopped
  BY <1>5, <1>a, <1>b DEF Stopped, Forgotten, Working, Effects, EffectOf, Status, CallsOK,
     CommitOK, Jobs, Admission, Work, Ends, Steps, Receipts, ReceiptOf, Begun
<1>6. CASE Dies
  BY <1>6, <1>a, <1>b DEF Dies, Forgotten, Effects, EffectOf, Status, CallsOK, CommitOK, Jobs,
     Admission, Work, Ends, Steps, Receipts, ReceiptOf, Begun
<1>7. CASE Stop \/ Restart
  BY <1>7, <1>a, <1>b DEF Stop, Restart, Effects, EffectOf, Status, CallsOK, CommitOK, Jobs,
     Admission, Work, Ends, Steps, Receipts, ReceiptOf, Begun
<1> QED
  BY <1>1, <1>2, <1>3, <1>4, <1>5, <1>6, <1>7
     DEF Next, Request, Lifecycle, ReadStep, CallStep, Crash, ReadNothing, WriteNothing

LEMMA ToldHere ==
    ASSUME Inv, NEW k \in Calls, CallStep(k)
    PROVE  ToldOf(k)'
<1> USE Kinds, Sentinels
<1>a. MutexOK /\ TablesOK /\ CallsOK /\ CommitOK
  BY TypeParts DEF Inv
<1>b. Jobs /\ Receipts /\ Effects /\ InDoubt /\ Told
  BY DEF Inv
<1>c. /\ job' = job /\ ToldOf(k) /\ DoubtOf(k) /\ EffectOf(k)
      /\ job[k].page \in Pages /\ (at[k] = "open" => job[k].command = Opening)
      /\ at[k] \in {"find", "check"} => applied[k] = "nothing" /\ doubt[k] = None
  BY <1>a, <1>b, Frame, Stepping DEF Others, Told, InDoubt, DoubtOf, Effects, Jobs, Ends, CommitOK
<1>1. CASE InsertRow(k) \/ PublishOpen(k)
  BY <1>1, <1>a, <1>c DEF InsertRow, PublishOpen, Room, TablesOK, CallsOK, CommitOK, ToldOf,
     Status
<1>2. CASE Take(k)
  BY <1>2, <1>a, <1>c DEF Take, TablesOK, CallsOK, CommitOK, ToldOf, Status
<1>3. CASE FindContext(k)
  BY <1>3, <1>a, <1>c DEF FindContext, Leave, TablesOK, CallsOK, CommitOK, ToldOf, Status
<1>4. CASE Lock(k)
  BY <1>4, <1>a, <1>c DEF Lock, TablesOK, CallsOK, CommitOK, ToldOf, Status
<1>5. CASE RunOpen(k)
  BY <1>5, <1>a, <1>c DEF RunOpen, TablesOK, CallsOK, CommitOK, ToldOf, Status
<1>6. CASE CleanOpen(k)
  BY <1>6, <1>a, <1>c DEF CleanOpen, TablesOK, CallsOK, CommitOK, ToldOf, Status
<1>7. CASE Report(k)
  BY <1>7, <1>a, <1>c DEF Report, TablesOK, CallsOK, CommitOK, ToldOf, Status
<1>8. CASE Check(k)
  <2>1. /\ at[k] = "check" /\ applied' = applied /\ doubt' = doubt /\ receipts' = receipts
        /\ at'[k] \in {"report", "insert"}
        /\ at'[k] = "report" => answer'[k] \notin {"none", "failed"}
        /\ answer'[k] = "page" /\ at'[k] = "report" =>
              receipts[job[k].command] = [outcome |-> "complete", body |-> job[k].body]
    BY <1>8, <1>a DEF Check, CheckIf, CallsOK
  <2>2. applied[k] = "nothing" /\ doubt[k] = None
    BY <1>c, <2>1
  <2> QED BY <1>c, <2>1, <2>2 DEF ToldOf
<1>9. CASE InsertReceipt(k)
  BY <1>9, <1>a, <1>c DEF InsertReceipt, CallsOK, ToldOf
<1>10. CASE Begin(k)
  BY <1>10, <1>a, <1>c DEF Begin, Owned, TablesOK, CallsOK, CommitOK, ToldOf, Status
<1>11. CASE AlCommit(k) \/ RunFails(k) \/ Finish(k)
  BY <1>11, <1>a, <1>c DEF AlCommit, RunFails, Finish, TablesOK, CallsOK, CommitOK,
     ToldOf, Status
<1>12. CASE Commit(k)
  <2>1. /\ job[k] \in Job /\ job[k].command \in Commands /\ job[k].page \in Pages
        /\ job[k].command.page = job[k].page
    BY <1>12, Committing
  <2>2. CASE TakesEffect(k)
    <3>1. /\ receipts'[job[k].command] = [outcome |-> "complete", body |-> job[k].body]
          /\ saved'[job[k].page] = job[k].command.revision + 1
          /\ applied'[k] = "whole" /\ ~ locked'[k]
      BY <1>a, <2>1, <2>2, EffectPointwise
    <3>2. receipts'[job[k].command] # None
      BY <2>1, <3>1, Kinds DEF Outcomes
    <3>3. /\ receipts'[job[k].command].outcome = "complete"
          /\ receipts'[job[k].command].body = job[k].body
      BY <3>1
    <3> QED BY <1>12, <1>a, <1>b, <2>1, <2>2, <3>1, <3>2, <3>3, <1>c DEF Commit, TablesOK,
                 CallsOK, CommitOK, ToldOf, Status, EffectOf, DoubtOf, Work, Ends
  <2>3. CASE ~ TakesEffect(k)
    BY <1>12, <1>a, <1>b, <2>1, <2>3, <1>c DEF Commit, TablesOK, CallsOK, CommitOK, ToldOf,
         Status, EffectOf, DoubtOf, Work, Ends
  <2> QED BY <2>2, <2>3
<1>13. CASE InvalidateWindow(k)
  BY <1>13, <1>a, <1>c DEF InvalidateWindow, InvalidateIf, RowFree, TablesOK, CallsOK, CommitOK,
     ToldOf, Status
<1>14. CASE FailReceipt(k)
  <2>1. /\ at[k] = "cleanReceipt" /\ at'[k] = "report" /\ invalidated' = invalidated
        /\ answer'[k] \in {"failed", "unknown"}
    BY <1>14, <1>a DEF FailReceipt, FailReceiptElse, CallsOK
  <2>2. answer'[k] = "failed" => Status(job[k].command)' = "failed"
    <3>1. answer'[k] = "failed" => /\ receipts'[job[k].command] # None
                                  /\ receipts'[job[k].command].outcome = "failed"
      BY <1>14, <1>a, FailedPointwise DEF FailReceipt, FailReceiptElse, CallsOK, TablesOK
    <3> QED BY <1>c, <3>1 DEF Status
  <2> QED BY <1>c, <2>1, <2>2 DEF ToldOf
<1>15. CASE Settle(k)
  <2>1. /\ job[k] \in Job /\ job[k].command \in Commands /\ job[k].page \in Pages
        /\ job[k].command.page = job[k].page
    BY <1>15, Committing
  <2>2. CASE TakesEffect(k)
    <3>1. /\ receipts'[job[k].command] = [outcome |-> "complete", body |-> job[k].body]
          /\ saved'[job[k].page] = job[k].command.revision + 1
          /\ applied'[k] = "whole" /\ ~ locked'[k]
      BY <1>a, <2>1, <2>2, EffectPointwise
    <3>2. receipts'[job[k].command] # None
      BY <2>1, <3>1, Kinds DEF Outcomes
    <3>3. /\ receipts'[job[k].command].outcome = "complete"
          /\ receipts'[job[k].command].body = job[k].body
      BY <3>1
    <3> QED BY <1>15, <1>a, <1>b, <2>1, <2>2, <3>1, <3>2, <3>3, <1>c DEF Settle, TablesOK,
                 CallsOK, CommitOK, ToldOf, Status, EffectOf, DoubtOf, Work, Ends
  <2>3. CASE ~ TakesEffect(k)
    BY <1>15, <1>a, <1>b, <2>1, <2>3, <1>c DEF Settle, TablesOK, CallsOK, CommitOK, ToldOf,
         Status, EffectOf, DoubtOf, Work, Ends
  <2> QED BY <2>2, <2>3
<1> QED
  BY <1>1, <1>2, <1>3, <1>4, <1>5, <1>6, <1>7, <1>8, <1>9, <1>10, <1>11, <1>12, <1>13,
     <1>14, <1>15
     DEF CallStep, HttpStep, WorkerStep

LEMMA ToldStep ==
    ASSUME Inv, Next
    PROVE  Told'
<1> USE Kinds, Sentinels
<1>a. MutexOK /\ TablesOK /\ CallsOK /\ CommitOK
  BY TypeParts DEF Inv
<1>b. Jobs /\ Told
  BY DEF Inv
<1>1. ASSUME NEW k \in Calls, NEW p \in Pages, NEW b \in Bodies, Retain(k, p, b) PROVE Told'
  BY <1>1, <1>a, <1>b DEF Retain, NewPage, Unopened, Stale, Told, ToldOf, Status, CallsOK,
       CommitOK, Jobs, Admission, Work, Ends, Steps
<1>2. ASSUME NEW k \in Calls, NEW c \in Commands, NEW b \in Bodies,
          SubmitWrite(k, c, b)
     PROVE  Told'
  BY <1>2, <1>a, <1>b DEF SubmitWrite, SubmitIf, Room, Owned, Unfinished, Told, ToldOf, Status,
     CallsOK, CommitOK, Jobs, Admission, Work, Ends, Steps
<1>3. ASSUME NEW p \in Pages, Read(p) \/ LockRead(p) \/ EndRead(p) \/ Tick(p) PROVE Told'
  BY <1>3, <1>a, <1>b DEF Read, Unfinished, LockRead, Owned, EndRead, Tick, Told, ToldOf,
     Status, CallsOK, CommitOK, Jobs, Admission, Work, Ends, Steps
<1>4. ASSUME NEW k \in Calls, CallStep(k) PROVE Told'
  <2>1. ASSUME NEW j \in Calls \ {k} PROVE ToldOf(j)'
    <3>1. CASE at[j] \in {"cleanReceipt", "report", "done"}
      <4>1. job[j].page \in Pages /\ (job[j].command # Opening => job[j].command \in Commands)
        BY <1>a, <1>b, <3>1, Kinds DEF Jobs, CallsOK
      <4>2. ASSUME job[j].command # Opening, Status(job[j].command) \in {"complete", "failed"}
            PROVE  receipts'[job[j].command] = receipts[job[j].command]
        BY <1>4, <4>1, <4>2, Final DEF Status
      <4>3. job[j].command # Opening /\ receipts[job[j].command] =
                  [outcome |-> "complete", body |-> job[j].body]
                  => Status(job[j].command) = "complete"
        <5>1. job[j].body \in Bodies /\ "complete" \in Outcomes
          BY <1>a, <1>b, <3>1, Kinds DEF Jobs, CallsOK, Outcomes
        <5> QED BY <5>1, Kinds DEF Status
      <4> QED BY <1>4, <1>b, <3>1, <4>1, <4>2, <4>3, Frame DEF Others, Told, ToldOf, Status
    <3>2. CASE at[j] \notin {"cleanReceipt", "report", "done"}
      BY <1>4, <3>2, Frame DEF Others, ToldOf
    <3> QED BY <3>1, <3>2
  <2> QED BY <1>4, <2>1, ToldHere DEF Told
<1>5. CASE Stopped
  BY <1>5, <1>a, <1>b DEF Stopped, Forgotten, Working, Told, ToldOf, Status, CallsOK, CommitOK,
     Jobs, Admission, Work, Ends, Steps
<1>6. CASE Dies
  BY <1>6, <1>a, <1>b DEF Dies, Forgotten, Told, ToldOf, Status, CallsOK, CommitOK, Jobs,
     Admission, Work, Ends, Steps
<1>7. CASE Stop \/ Restart
  BY <1>7, <1>a, <1>b DEF Stop, Restart, Told, ToldOf, Status, CallsOK, CommitOK, Jobs,
     Admission, Work, Ends, Steps
<1> QED
  BY <1>1, <1>2, <1>3, <1>4, <1>5, <1>6, <1>7
     DEF Next, Request, Lifecycle, ReadStep, CallStep, Crash, ReadNothing, WriteNothing

----------------------------------------------------------------------------
(* The theorems. *)

LEMMA Initially == Init => Inv
<1> SUFFICES ASSUME Init PROVE Inv
  OBVIOUS
<1> USE Kinds, Sentinels
<1>1. TypeOK
  <2>1. 0 \in 0..MaxRevision /\ 0 \in 0..2 /\ 0 \in Nat
    BY PageCommandsAssumption
  <2>2. "unused" \in Steps /\ queue \in Seq(Calls)
    BY DEF Steps, Init
  <2> QED BY <2>1, <2>2 DEF Init, TypeOK
<1>2. /\ \A k \in Calls : /\ at[k] = "unused" /\ job[k] = None /\ doubt[k] = None
                         /\ applied[k] = "nothing"
      /\ \A p \in Pages : /\ ~ kept[p] /\ ~ invalid[p] /\ ~ touched[p] /\ ~ reading[p]
                         /\ last[p] = None
                         /\ saved[p] = 0 /\ revision[p] = 0 /\ holder[p] = None
      /\ \A c \in Commands : receipts[c] = None
  BY DEF Init
<1>3. Jobs /\ OneCall /\ Mutex /\ Fresh /\ Openings
  BY <1>2 DEF Jobs, OneCall, Mutex, Fresh, Openings, Used, Writing, Active, Admission, Work, Held
<1>4. Consistent /\ LetIn /\ InDoubt
  BY <1>2 DEF Consistent, ConsistentAt, LetIn, InDoubt, DoubtOf
<1>5. Receipts /\ Effects /\ Told
  BY <1>2 DEF Receipts, ReceiptOf, Begun, Effects, EffectOf, Status, Told, ToldOf
<1> QED BY <1>1, <1>3, <1>4, <1>5 DEF Inv

LEMMA Inductive == Inv /\ [Next]_vars => Inv'
<1> SUFFICES ASSUME Inv, [Next]_vars PROVE Inv'
  OBVIOUS
<1>1. CASE Next
  <2>1. TypeOK'
    <3>1. MemoryOK' /\ MutexOK' /\ TablesOK' /\ CallsOK' /\ CommitOK' /\ OtherOK'
      BY <1>1, MemoryStep, MutexOKStep, TablesStep, CallsStep, CommitStep, OtherStep
    <3> QED BY <3>1 DEF TypeOK, MemoryOK, MutexOK, TablesOK, CallsOK, CommitOK, OtherOK
  <2> QED BY <1>1, <2>1, JobsStep, OneCallStep, MutexStep, FreshStep, ConsistentStep, LetInStep,
             OpeningsStep, InDoubtStep, ReceiptsStep, EffectsStep, ToldStep DEF Inv
<1>2. CASE UNCHANGED vars
  BY <1>2 DEF vars, Inv, TypeOK, Jobs, OneCall, Mutex, Fresh, Used, Consistent, ConsistentAt,
     Closed, Dead, LetIn, Openings, InDoubt, DoubtOf, Receipts, ReceiptOf, Begun, Effects, EffectOf,
     Status, Told, ToldOf
<1> QED BY <1>1, <1>2

\* Whatever requests, workers, readers, faults and crashes do, each part of Inv holds: windows
\* have one call, their mutex one holder, their state is committed or closed, and receipts and
\* answers agree with what the calls have done.
THEOREM Invariance == Spec => []Inv
<1> QED BY Initially, Inductive, PTL DEF Spec

\* The variables of the host keep their types, for every number of windows and calls.
THEOREM TypeCorrect == Spec => []TypeOK
<1>1. Inv => TypeOK
  BY DEF Inv
<1> QED BY <1>1, Invariance, PTL

\* SubmitWrite and Open never give a window a second call.
THEOREM WindowsHaveOneCall == Spec => []OneCallPerWindow
<1>1. Inv => OneCallPerWindow
  BY DEF Inv, OneCall, OneCallPerWindow, Active
<1> QED BY <1>1, Invariance, PTL

\* No reader and no command gets in after an opening or a command that moved the window in
\* memory and did not commit, and none but the reader of a window whose opening was
\* answered "unknown" gets in where there is no page.
THEOREM UncommittedStaysUnseen == Spec => []NobodySeesUncommitted
<1>1. Inv => NobodySeesUncommitted
  <2> SUFFICES ASSUME Inv, NEW p \in Pages, InUse(p)
               PROVE  /\ ~ touched[p] /\ saved[p] = revision[p]
                      /\ opened[p] \/ (holder[p] = "reader" /\ OpeningFailed(p))
    BY DEF NobodySeesUncommitted
  <2>0. holder[p] = "reader" \/ \E k \in Calls : holder[p] = k /\ at[k] \in {"insert", "begin"}
    BY DEF InUse
  <2>1. holder[p] \in Calls => at[holder[p]] \in {"insert", "begin"} /\ job[holder[p]].page = p
    BY <2>0, Sentinels DEF Inv, Mutex
  <2>2. ~ invalid[p]
    BY <2>0, <2>1, Sentinels DEF Inv, LetIn
  <2>3. ~ Dead(p)
    <3>1. CASE holder[p] = "reader"
      BY <3>1 DEF Inv, Mutex, Dead
    <3>2. CASE holder[p] \in Calls
      BY <2>1, <3>2 DEF Inv, Jobs, Dead, Ends
    <3> QED BY <2>0, <3>1, <3>2
  <2>4. ConsistentAt(p)
    BY DEF Inv, Consistent
  <2>5. ~ touched[p] /\ saved[p] = revision[p]
    BY <2>1, <2>2, <2>3, <2>4 DEF ConsistentAt, Closed, Uncertain
  <2>6. CASE holder[p] \in Calls
    <3>1. at[holder[p]] \in Writing /\ at[holder[p]] # "unused"
      BY <2>1, <2>6 DEF Writing, Held
    <3>2. job[holder[p]] # None /\ job[holder[p]].command # Opening
      BY <2>6, <3>1 DEF Inv, Jobs
    <3> QED BY <2>1, <2>5, <2>6, <3>2 DEF Inv, Openings
  <2>7. CASE holder[p] = "reader" /\ ~ opened[p]
    <3>1. last[p] # None /\ at[last[p]] = "done"
      BY <2>7 DEF Inv, Mutex, Openings
    <3>2. last[p] \in Calls /\ job[last[p]] # None /\ job[last[p]].page = p
      BY <3>1 DEF Inv, TypeOK, Openings
    <3>3. job[last[p]].command = Opening
      BY <2>7, <3>2 DEF Inv, Openings
    <3>4. answer[last[p]] = "unknown"
      BY <2>7, <3>1, <3>2, <3>3 DEF Inv, Openings
    <3> QED BY <2>5, <2>7, <3>1, <3>3, <3>4 DEF OpeningFailed
  <2> QED BY <2>0, <2>5, <2>6, <2>7
<1> QED BY <1>1, Invariance, PTL

\* After "failed" window and receipt are failed in the database, and after a page its
\* receipt is complete.
THEOREM AnswersStayTrue == Spec => []AnswersAreDurable
<1>1. Inv => AnswersAreDurable
  BY DEF Inv, Told, ToldOf, Status, AnswersAreDurable
<1> QED BY <1>1, Invariance, PTL

-----------------------------------------------------------------------------
(* The page command host implements CommandOutcomes: every step of it is   *)
(* one of the abstract steps, or changes nothing a client can conclude     *)
(* anything from. Submission, effect, failure and answer are one step each. *)

USE DEF Goes, Leave, Fault, window, mutex, memory, tables, calls, commit, counts, Page

Subject ==
    [k \in Calls |-> IF job[k] = None \/ job[k].command = Opening THEN None ELSE job[k].command]

Barred == {c \in Commands : receipts[c] # None /\ receipts[c].outcome = "failed"}

Answered ==
    [k \in Calls |-> IF at[k] = "done" /\ job[k].command # Opening THEN answer[k] ELSE "none"]

\* The abstract state is made of these.
LEMMA Mapped ==
    /\ Outcome!vars = <<Subject, applied, Barred, Answered>>
    /\ Outcome!vars' = <<Subject', applied', Barred', Answered'>>
  BY DEF Outcome!vars, Subject, Barred, Answered

\* The calls of a command, and when one of them may have an effect.
LEMMA MayHaveEffect ==
    ASSUME Inv, NEW k \in Calls, Begun(k), at[k] # "done" \/ doubt[k] # None
    PROVE  Outcome!MayApply(k) /\ Subject[k] = job[k].command /\ job[k].command \in Commands
<1>1. job[k] # None /\ job[k].command # Opening
  BY DEF Inv, Receipts, ReceiptOf
<1>2. job[k].command \in Commands
  BY <1>1, TypeParts, Kinds DEF Inv, CallsOK
<1>3. Subject[k] = job[k].command
  BY <1>1 DEF Subject
<1>4. Answered[k] # "refused"
  BY <1>1 DEF Inv, Told, ToldOf, Answered
<1>5. ASSUME NEW j \in Calls \ {k}, Subject[j] = Subject[k] PROVE applied[j] = "nothing"
  <2>1. job[j] # None /\ job[j].command = job[k].command
    BY <1>2, <1>3, <1>5, Kinds DEF Subject
  <2> QED BY <2>1 DEF Inv, Receipts, Begun
<1>6. \A j \in Outcome!Of(Subject[k]) \ {k} : applied[j] = "nothing"
  BY <1>5 DEF Outcome!Of, Subject
<1> QED BY <1>2, <1>3, <1>4, <1>6 DEF Outcome!MayApply, Subject, Answered

\* A step of a call leaves the answers of the others alone, and its own unless it reports.
LEMMA AnsweredSame ==
    ASSUME Inv, NEW k \in Calls, CallStep(k), ~ Report(k)
    PROVE  Answered' = Answered /\ Subject' = Subject
<1>1. job' = job
  BY Frame DEF Others
<1>2. \A j \in Calls \ {k} : at'[j] = at[j] /\ answer'[j] = answer[j]
  BY Frame DEF Others
<1>3. \/ at'[k] # "done" /\ at[k] # "done"
      \/ at'[k] = at[k] /\ answer'[k] = answer[k]
  <2>a. CallsOK
    BY TypeParts DEF Inv
  <2>1. CASE InsertRow(k) \/ PublishOpen(k) \/ Take(k) \/ FindContext(k) \/ Lock(k)
    BY <2>1, <2>a DEF InsertRow, PublishOpen, Take, FindContext, Lock, CallsOK
  <2>2. CASE RunOpen(k) \/ CleanOpen(k) \/ Check(k) \/ InsertReceipt(k) \/ Begin(k)
    BY <2>2, <2>a DEF RunOpen, CleanOpen, Check, CheckIf, InsertReceipt, Begin, CallsOK
  <2>3. CASE AlCommit(k) \/ RunFails(k) \/ Finish(k) \/ Commit(k)
    BY <2>3, <2>a DEF AlCommit, RunFails, Finish, Commit, CallsOK
  <2>4. CASE InvalidateWindow(k) \/ FailReceipt(k) \/ Settle(k)
    BY <2>4, <2>a DEF InvalidateWindow, InvalidateIf, FailReceipt, FailReceiptElse, Settle,
       CallsOK
  <2> QED BY <2>1, <2>2, <2>3, <2>4 DEF CallStep, HttpStep, WorkerStep
<1>4. \A j \in Calls :
         (IF at'[j] = "done" /\ job'[j].command # Opening THEN answer'[j] ELSE "none")
       = (IF at[j] = "done" /\ job[j].command # Opening THEN answer[j] ELSE "none")
  BY <1>1, <1>2, <1>3
<1>5. Answered' = Answered
  BY <1>4 DEF Answered
<1> QED BY <1>1, <1>5 DEF Subject

\* Receipts become failed in FailReceipt only.
LEMMA BarredSame ==
    ASSUME Inv, NEW k \in Calls, CallStep(k), ~ FailReceipt(k)
    PROVE  Barred' = Barred
<1>a. TablesOK /\ CallsOK /\ CommitOK
  BY TypeParts DEF Inv
<1>1. CASE receipts' = receipts
  BY <1>1 DEF Barred
<1>2. CASE InsertReceipt(k) /\ receipts' # receipts
  <2>1. /\ receipts'[job[k].command].outcome = "started"
        /\ \A d \in Commands \ {job[k].command} : receipts'[d] = receipts[d]
    BY <1>2, StoredPointwise
  <2>2. receipts[job[k].command] = None
    <3>1. at[k] = "insert"
      BY <1>2 DEF InsertReceipt
    <3> QED BY <3>1 DEF Inv, Receipts, ReceiptOf
  <2> QED BY <2>1, <2>2 DEF Barred
<1>3. CASE (Commit(k) \/ Settle(k)) /\ TakesEffect(k)
  <2>1. job[k] \in Job /\ job[k].command \in Commands
    BY <1>3, Committing
  <2>2. /\ receipts'[job[k].command] = [outcome |-> "complete", body |-> job[k].body]
        /\ \A d \in Commands \ {job[k].command} : receipts'[d] = receipts[d]
    BY <1>a, <1>3, <2>1, EffectPointwise
  <2>3. Status(job[k].command) = "started"
    BY <1>3, <1>a DEF Commit, Settle, TakesEffect, CommitOK, Inv, Effects, EffectOf, InDoubt,
       DoubtOf
  <2>4. /\ receipts[job[k].command].outcome # "failed"
        /\ receipts'[job[k].command].outcome # "failed"
    BY <2>2, <2>3 DEF Status
  <2>5. \A d \in Commands : receipts'[d] # None /\ receipts'[d].outcome = "failed"
                              <=> receipts[d] # None /\ receipts[d].outcome = "failed"
    BY <2>2, <2>4
  <2> QED BY <2>5 DEF Barred
<1> QED BY <1>1, <1>2, <1>3 DEF CallStep, HttpStep, WorkerStep, InsertRow, PublishOpen, Take,
     FindContext, Lock, RunOpen, CleanOpen, Report, Check, CheckIf, InsertReceipt,
     Begin, AlCommit, RunFails, Finish, Commit, InvalidateWindow, InvalidateIf,
     FailReceipt, Settle

----------------------------------------------------------------------------
(* The steps. *)

\* The abstract steps that are not only one of the four.
LEMMA MappedBar ==
    ASSUME NEW c \in Commands, \A j \in Outcome!Of(c) : applied[j] # "whole",
           Barred' = Barred \cup {c},
           Subject' = Subject, applied' = applied, Answered' = Answered
    PROVE  Outcome!Bar(c)
  BY DEF Outcome!Bar, Subject, Barred, Answered

LEMMA MappedAnswer ==
    ASSUME NEW k \in Calls, NEW a \in Outcome!Answers,
           Subject[k] \in Commands, Answered[k] = "none",
           a = "page" => \E j \in Outcome!Of(Subject[k]) : applied[j] = "whole",
           a = "failed" => Subject[k] \in Barred,
           a = "refused" => applied[k] = "nothing",
           Answered' = [Answered EXCEPT ![k] = a],
           Subject' = Subject, applied' = applied, Barred' = Barred
    PROVE  Outcome!Answer(k, a)
  BY DEF Outcome!Answer, Subject, Barred, Answered

\* Whatever leaves the four parts alone is a stutter.
LEMMA Stutter ==
    ASSUME Subject' = Subject, applied' = applied, Barred' = Barred, Answered' = Answered
    PROVE  UNCHANGED Outcome!vars
  BY Mapped

\* SubmitWrite submits.
LEMMA SubmitImplements ==
    ASSUME Inv, NEW k \in Calls, NEW c \in Commands, NEW b \in Bodies, SubmitWrite(k, c, b)
    PROVE  Outcome!Submit(k, c)
<1> DEFINE j == [page |-> c.page, command |-> c, body |-> b]
<1>1. at[k] = "unused" /\ job[k] = None
  BY DEF SubmitWrite, SubmitIf, Inv, Jobs
<1>2. job' = [job EXCEPT ![k] = j]
  BY DEF SubmitWrite, SubmitIf
<1>3. j # None /\ j.command = c /\ c # Opening
  BY Kinds
<1> HIDE DEF j
<1>4. CallsOK
  BY TypeParts DEF Inv
<1>5. job'[k] = j /\ \A i \in Calls \ {k} : job'[i] = job[i]
  BY <1>2, <1>4 DEF CallsOK
<1>6. Subject' = [Subject EXCEPT ![k] = c]
  BY <1>3, <1>5 DEF Subject
<1>7. \A i \in Calls : at[i] = "done" \/ at'[i] = "done" =>
         i # k /\ at'[i] = at[i] /\ job'[i] = job[i] /\ answer'[i] = answer[i]
  BY <1>1, <1>4, <1>5 DEF SubmitWrite, SubmitIf, CallsOK
<1>8. Answered' = Answered
  BY <1>7 DEF Answered
<1>9. applied' = applied /\ Barred' = Barred
  BY DEF SubmitWrite, SubmitIf, Barred
<1>10. Subject[k] = None
  BY <1>1 DEF Subject
<1> QED BY <1>6, <1>8, <1>9, <1>10 DEF Outcome!Submit, Subject, Barred, Answered

\* A command's own commit, at once or once its doubt is settled, applies the whole of it.
LEMMA WholeImplements ==
    ASSUME Inv, NEW k \in Calls, Commit(k) \/ (Settle(k) /\ doubt[k] = "whole"), TakesEffect(k)
    PROVE  Outcome!ApplyWhole(k)
<1>1. at[k] = "commit" \/ doubt[k] = "whole"
  BY DEF Commit
<1>2. Begun(k) /\ (at[k] # "done" \/ doubt[k] # None)
  BY <1>1, Sentinels DEF Begun
<1>3. Outcome!MayApply(k) /\ Subject[k] = job[k].command
  BY <1>2, MayHaveEffect
<1>4. Status(job[k].command) = "started" /\ applied[k] # "whole"
  BY <1>1 DEF Inv, Effects, EffectOf
<1>5. Subject[k] \notin Barred
  BY <1>3, <1>4 DEF Barred, Status
<1>6. applied' = [applied EXCEPT ![k] = "whole"]
  BY DEF TakesEffect
<1>7. CallStep(k) /\ ~ Report(k) /\ ~ FailReceipt(k)
  <2>1. ~ Report(k) /\ ~ FailReceipt(k)
    BY <1>4, <1>6, TypeParts DEF Inv, CommitOK, Report, FailReceipt, FailReceiptElse
  <2> QED BY <2>1 DEF CallStep, WorkerStep
<1>8. Subject' = Subject /\ Barred' = Barred /\ Answered' = Answered
  BY <1>7, AnsweredSame, BarredSame
<1> QED BY <1>3, <1>4, <1>5, <1>6, <1>8 DEF Outcome!ApplyWhole, Subject, Barred, Answered

\* An explicit commit of AL code applies a part of its command.
LEMMA PartImplements ==
    ASSUME Inv, NEW k \in Calls, AlCommit(k) \/ Settle(k),
           applied' = [applied EXCEPT ![k] = "part"], applied[k] # "whole"
    PROVE  [Outcome!Next]_(Outcome!vars)
<1>1. Begun(k) /\ (at[k] # "done" \/ doubt[k] # None)
  BY DEF AlCommit, Settle, Begun
<1>2. Outcome!MayApply(k)
  BY <1>1, MayHaveEffect
<1>3. CASE Report(k) \/ FailReceipt(k)
  <2>1. at[k] \in {"report", "cleanReceipt"} /\ at' # at
    BY <1>3, TypeParts DEF Inv, CallsOK, Report, FailReceipt, FailReceiptElse
  <2> QED BY <2>1 DEF AlCommit, Settle
<1>4. CASE ~ (Report(k) \/ FailReceipt(k))
  <2>1. Subject' = Subject /\ Barred' = Barred /\ Answered' = Answered
    BY <1>4, AnsweredSame, BarredSame DEF CallStep, WorkerStep
  <2>2. Outcome!ApplyPart(k)
    BY <1>2, <2>1 DEF Outcome!ApplyPart, Subject, Barred, Answered
  <2> QED BY <2>2 DEF Outcome!Next
<1> QED BY <1>3, <1>4

\* Who fails a receipt bars its command, of which nobody has applied the whole.
LEMMA FailImplements ==
    ASSUME Inv, NEW k \in Calls, FailReceipt(k)
    PROVE  [Outcome!Next]_(Outcome!vars)
<1> DEFINE c == job[k].command
<1>1. c \in Commands
  BY FailedPointwise
<1>2. CallStep(k) /\ ~ Report(k) /\ applied' = applied
  BY DEF CallStep, WorkerStep, FailReceipt, FailReceiptElse, Report
<1>3. Subject' = Subject /\ Answered' = Answered
  BY <1>2, AnsweredSame
<1>4. CASE receipts' = receipts
  <2>1. Barred' = Barred
    BY <1>4 DEF Barred
  <2> QED BY <1>2, <1>3, <2>1, Stutter
<1>5. CASE receipts' # receipts
  <2>1. /\ receipts[c] # None /\ receipts[c].outcome = "started"
        /\ receipts'[c] # None /\ receipts'[c].outcome = "failed"
        /\ \A d \in Commands \ {c} : receipts'[d] = receipts[d]
    BY <1>5, FailedPointwise
  <2>2. Barred' = Barred \cup {c}
    BY <1>1, <2>1 DEF Barred
  <2>3. ASSUME NEW j \in Calls, Subject[j] = c PROVE applied[j] # "whole"
    <3>1. job[j].command = c
      BY <1>1, <2>3, Kinds DEF Subject
    <3> QED BY <2>1, <3>1 DEF Inv, Effects, EffectOf, Status
  <2>4. \A j \in Outcome!Of(c) : applied[j] # "whole"
    BY <2>3 DEF Outcome!Of, Subject
  <2>5. PICK d \in Commands : d = c
    BY <1>1
  <2>6. Outcome!Bar(d)
    BY <1>2, <1>3, <2>2, <2>4, <2>5, MappedBar
  <2> QED BY <2>6 DEF Outcome!Next
<1> QED BY <1>4, <1>5

\* Report answers, unless the call opened a window.
LEMMA ReportImplements ==
    ASSUME Inv, NEW k \in Calls, Report(k)
    PROVE  [Outcome!Next]_(Outcome!vars)
<1>a. CallsOK
  BY TypeParts DEF Inv
<1>1. /\ at[k] = "report" /\ at' = [at EXCEPT ![k] = "done"] /\ answer' = answer /\ job' = job
      /\ applied' = applied /\ receipts' = receipts
  BY DEF Report
<1>2. Subject' = Subject /\ Barred' = Barred
  BY <1>1 DEF Subject, Barred
<1>3. at'[k] = "done" /\ \A j \in Calls \ {k} : at'[j] = at[j]
  BY <1>1, <1>a DEF CallsOK
<1>4. CASE job[k].command = Opening
  <2>1. Answered' = Answered
    BY <1>1, <1>3, <1>4 DEF Answered
  <2> QED BY <1>1, <1>2, <2>1, Stutter
<1>5. CASE job[k].command # Opening
  <2>1. job[k] # None /\ job[k].command \in Commands
    BY <1>1, <1>5, <1>a, Kinds DEF Inv, Jobs, CallsOK
  <2>2. Subject[k] = job[k].command /\ Answered[k] = "none"
    BY <1>1, <1>5, <2>1 DEF Subject, Answered
  <2>3. Answered' = [Answered EXCEPT ![k] = answer[k]]
    BY <1>1, <1>3, <1>5 DEF Answered
  <2>4. answer[k] \in Outcome!Answers \ {"none"}
    BY <1>1, <1>a DEF CallsOK, Outcome!Answers, Inv, Told, ToldOf
  <2>5. answer[k] = "page" => \E j \in Outcome!Of(Subject[k]) : applied[j] = "whole"
    <3> SUFFICES ASSUME answer[k] = "page" PROVE \E j \in Calls : Subject[j] = Subject[k]
                                                                    /\ applied[j] = "whole"
      BY DEF Outcome!Of, Subject
    <3>1. receipts[job[k].command] = [outcome |-> "complete", body |-> job[k].body]
      BY <1>1, <1>5 DEF Inv, Told, ToldOf
    <3>2. job[k].body \in Bodies
      BY <1>a, <2>1, Kinds DEF CallsOK
    <3>3. Status(job[k].command) = "complete"
      BY <3>1, <3>2, Kinds DEF Status, Outcomes
    <3>4. PICK j \in Calls : job[j] # None /\ job[j].command = job[k].command
                                /\ applied[j] = "whole"
      BY <2>1, <3>3 DEF Inv, Effects
    <3> QED BY <1>5, <2>2, <3>4 DEF Subject
  <2>6. answer[k] = "failed" => Subject[k] \in Barred
    BY <1>1, <1>5, <2>1, <2>2 DEF Inv, Told, ToldOf, Status, Barred
  <2>7. answer[k] = "refused" => applied[k] = "nothing"
    BY <1>1, <1>5 DEF Inv, Told, ToldOf
  <2>8. PICK a \in Outcome!Answers \ {"none"} : a = answer[k]
    BY <2>4
  <2>9. Outcome!Answer(k, a)
    BY <1>1, <1>2, <2>1, <2>2, <2>3, <2>5, <2>6, <2>7, <2>8, MappedAnswer
  <2> QED BY <2>9 DEF Outcome!Next
<1> QED BY <1>4, <1>5

\* Every step of a call.
LEMMA CallImplements ==
    ASSUME Inv, NEW k \in Calls, CallStep(k)
    PROVE  [Outcome!Next]_(Outcome!vars)
<1>1. CASE FailReceipt(k)
  BY <1>1, FailImplements
<1>2. CASE Report(k)
  BY <1>2, ReportImplements
<1>3. CASE TakesEffect(k) /\ (Commit(k) \/ (Settle(k) /\ doubt[k] = "whole"))
  BY <1>3, WholeImplements DEF Outcome!Next
<1>4. CASE /\ AlCommit(k) \/ Settle(k)
           /\ applied' = [applied EXCEPT ![k] = "part"] /\ applied[k] # "whole"
  BY <1>4, PartImplements
<1>5. CASE applied' = applied /\ ~ FailReceipt(k) /\ ~ Report(k)
  BY <1>5, AnsweredSame, BarredSame, Stutter
<1>6. AlCommit(k) \/ Settle(k) => applied[k] # "whole"
  BY TypeParts DEF AlCommit, Settle, Inv, InDoubt, DoubtOf, Effects, EffectOf, Status
<1>7. CASE Commit(k) \/ Settle(k) \/ AlCommit(k)
  BY <1>1, <1>2, <1>3, <1>4, <1>5, <1>6, <1>7 DEF Commit, Settle, AlCommit
<1>8. CASE ~ (Commit(k) \/ Settle(k) \/ AlCommit(k) \/ FailReceipt(k) \/ Report(k))
  <2>1. applied' = applied
    BY <1>8 DEF CallStep, HttpStep, WorkerStep, InsertRow, PublishOpen, Take, FindContext, Lock,
         RunOpen, CleanOpen, Check, CheckIf, InsertReceipt, Begin, RunFails, Finish,
         InvalidateWindow, InvalidateIf
  <2> QED BY <1>5, <1>8, <2>1
<1> QED BY <1>1, <1>2, <1>7, <1>8

\* The other steps submit, or concern windows, readers, time and the host only.
LEMMA OtherImplements ==
    ASSUME Inv, Request \/ Lifecycle \/ \E p \in Pages : ReadStep(p) \/ Tick(p)
    PROVE  [Outcome!Next]_(Outcome!vars)
<1>a. CallsOK
  BY TypeParts DEF Inv
<1>1. ASSUME NEW k \in Calls, NEW p \in Pages, NEW b \in Bodies, Retain(k, p, b)
      PROVE  UNCHANGED Outcome!vars
  <2> DEFINE j == [page |-> p, command |-> Opening, body |-> b]
  <2>1. at[k] = "unused" /\ job[k] = None /\ job' = [job EXCEPT ![k] = j]
    BY <1>1 DEF Retain, Inv, Jobs
  <2>2. j.command = Opening
    OBVIOUS
  <2> HIDE DEF j
  <2>3. job'[k] = j /\ \A i \in Calls \ {k} : job'[i] = job[i]
    BY <1>a, <2>1 DEF CallsOK
  <2>4. Subject' = Subject
    BY <2>1, <2>2, <2>3 DEF Subject
  <2>5. \A i \in Calls : at[i] = "done" \/ at'[i] = "done" =>
           i # k /\ at'[i] = at[i] /\ job'[i] = job[i] /\ answer'[i] = answer[i]
    BY <1>1, <1>a, <2>1, <2>3 DEF Retain, CallsOK
  <2>6. Answered' = Answered
    BY <2>5 DEF Answered
  <2> QED BY <1>1, <2>4, <2>6, Stutter DEF Retain, Barred
<1>2. ASSUME NEW k \in Calls, NEW c \in Commands, NEW b \in Bodies, SubmitWrite(k, c, b)
      PROVE  Outcome!Next
  BY <1>2, SubmitImplements DEF Outcome!Next
<1>3. CASE \/ \E p \in Pages : Read(p) \/ LockRead(p) \/ EndRead(p) \/ Tick(p)
           \/ Stop \/ Stopped \/ Restart
  <2>1. UNCHANGED <<job, at, answer, receipts, applied>>
    BY <1>3 DEF Read, LockRead, EndRead, Tick, Stop, Stopped, Restart
  <2> QED BY <2>1, Stutter DEF Subject, Answered, Barred
<1>4. CASE Dies
  <2>1. UNCHANGED <<job, answer, receipts, applied>>
    BY <1>4 DEF Dies
  <2>2. \A i \in Calls : at'[i] = "done" <=> at[i] = "done"
    BY <1>4, <1>a DEF Dies, CallsOK, Steps, Admission, Work, Ends
  <2>3. Answered' = Answered
    BY <2>1, <2>2 DEF Answered
  <2> QED BY <2>1, <2>3, Stutter DEF Subject, Barred
<1> QED
  BY <1>1, <1>2, <1>3, <1>4
     DEF Request, Lifecycle, ReadStep, Crash, ReadNothing, WriteNothing

\* A page means that a submission of the command, and one only, has taken effect, "failed"
\* that none ever will, and "refused" that this one has none at all: whatever Write,
\* Invalidate, a lost COMMIT, a repetition of the command or a crash come to.
THEOREM Implementation == Spec => ImplementsOutcomes
<1>1. Init => Outcome!Init
  <2> SUFFICES ASSUME Init PROVE Outcome!Init
    OBVIOUS
  <2>1. \A k \in Calls : job[k] = None /\ at[k] = "unused"
    BY DEF Init
  <2>2. \A c \in Commands : receipts[c] = None
    BY DEF Init
  <2>3. Subject = [k \in Calls |-> None] /\ Answered = [k \in Calls |-> "none"] /\ Barred = {}
    BY <2>1, <2>2 DEF Subject, Answered, Barred
  <2>4. applied = [k \in Calls |-> "nothing"]
    BY DEF Init
  <2> QED BY <2>3, <2>4 DEF Outcome!Init, Subject, Answered, Barred
<1>2. Inv /\ [Next]_vars => [Outcome!Next]_(Outcome!vars)
  <2> SUFFICES ASSUME Inv, [Next]_vars PROVE [Outcome!Next]_(Outcome!vars)
    OBVIOUS
  <2>1. CASE Next
    BY <2>1, CallImplements, OtherImplements DEF Next, CallStep
  <2>2. CASE UNCHANGED vars
    BY <2>2, Stutter DEF vars, Subject, Answered, Barred
  <2> QED BY <2>1, <2>2
<1> QED BY <1>1, <1>2, Invariance, PTL DEF Spec, ImplementsOutcomes, Outcome!Spec
=============================================================================
