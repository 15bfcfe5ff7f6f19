-------------------------- MODULE BoundariesProofs --------------------------
(***************************************************************************)
(* Proofs about Boundaries, for every value of its constants.              *)
(*                                                                         *)
(* The inductive invariant Inv has three parts: the type of the state; that *)
(* names_ and the server's savepoints are one stack (SavepointsMatch, which *)
(* is inductive only together with what a lost or failed transaction may    *)
(* leave behind); and which scopes there are in which phase (ScopesFit,     *)
(* without which a command's Commit might run in a failed transaction).     *)
(* Every operation of class Boundaries has a lemma over StackOK, the part   *)
(* of the state it works on; the scopes and statements that call it add     *)
(* their own state (ProgramOK, ScopesFit) to it.                            *)
(*                                                                         *)
(* Where no COMMIT is rejected, NestingFits matches scopes and boundaries   *)
(* one for one; from it follow what a failed scope restores and that the    *)
(* whole implements NestedTransactions.                                     *)
(***************************************************************************)
EXTENDS Boundaries, SequenceTheorems, TLAPS

\* A prefix of a stack is a stack of the same kind, with the same bottom.
LEMMA PrefixIsSeq ==
    ASSUME NEW S, NEW s \in Seq(S), NEW n \in 0..Len(s)
    PROVE  /\ Prefix(s, n) \in Seq(S)
           /\ Len(Prefix(s, n)) = n
           /\ \A i \in 1..n : Prefix(s, n)[i] = s[i]
<1>1. \A i \in 1..n : s[i] \in S
  BY ElementOfSeq
<1>2. /\ SubSeq(s, 1, n) \in Seq(S)
      /\ Len(SubSeq(s, 1, n)) = IF 1 <= n THEN n - 1 + 1 ELSE 0
      /\ \A i \in 1..(n - 1 + 1) : SubSeq(s, 1, n)[i] = s[1 + i - 1]
  BY <1>1, SubSeqProperties
<1> QED
  BY <1>2 DEF Prefix

\* A function on 1..n is a sequence of length n.
LEMMA FunctionIsSeq ==
    ASSUME NEW S, NEW n \in Nat, NEW f \in [1..n -> S]
    PROVE  f \in Seq(S) /\ Len(f) = n
OBVIOUS

\* The list names_ becomes when n boundaries above the floor have been renewed.
LEMMA RenewedNamesIsSeq ==
    ASSUME names \in Seq(Boundary), floor \in 0..Len(names), issued \in Nat,
           inconsistent \in SUBSET Tables, NEW n \in Nat
    PROVE  /\ RenewedNames(n) \in Seq(Boundary)
           /\ Len(RenewedNames(n)) = floor + n
<1>1. \A i \in 1..floor : names[i] \in Boundary
  BY ElementOfSeq
<1>2. RenewedNames(n) \in [1..(floor + n) -> Boundary]
  BY <1>1, LenProperties DEF RenewedNames, Boundary
<1> QED
  BY <1>2, FunctionIsSeq

----------------------------------------------------------------------------

\* What the operations of class Boundaries work on.
StackOK ==
    /\ names \in Seq(Boundary)
    /\ inconsistent \in SUBSET Tables
    /\ epoch \in Nat
    /\ writing \in BOOLEAN
    /\ status \in Statuses
    /\ view \in SUBSET Rows
    /\ saves \in Seq(Savepoint)
    /\ cursors \in SUBSET Cursors
    /\ SavepointsMatch

\* The rest of the typed state.
ProgramOK ==
    /\ floor \in Nat /\ tryDepth \in Nat /\ issued \in Nat
    /\ committed \in SUBSET Rows
    /\ frames \in Seq(Frame)
    /\ pc \in Phases
    /\ collected \in Nat
    /\ opened \in [Cursors -> Nat \cup {Closed}]
    /\ used \in SUBSET Rows
    /\ faults \in Nat

\* The invariant falls into the two stacks and the rest of the program, so that a lemma
\* about one of Boundaries' operations need not name the state it does not touch.
LEMMA InvariantParts == (TypeOK /\ SavepointsMatch) <=> (StackOK /\ ProgramOK)
BY DEF TypeOK, StackOK, ProgramOK

\* ROLLBACK TO and RELEASE of a listed savepoint shorten both stacks to the same length.
LEMMA RestoreKeepsStack ==
    ASSUME StackOK, NEW d \in Nat \ {0}, d <= Len(saves), status # "lost", RestoreBoundary(d)
    PROVE  StackOK'
<1>1. /\ d \in 1..Len(saves) /\ d - 1 \in 0..Len(saves)
      /\ d \in 1..Len(names) /\ d - 1 \in 0..Len(names)
  BY LenProperties DEF StackOK, SavepointsMatch
<1>2. names[d] \in Boundary /\ saves[d] \in Savepoint
  BY <1>1, ElementOfSeq DEF StackOK
<1>3. names' = Prefix(names, d - 1) /\ saves' = Prefix(saves, d - 1)
  BY DEF RestoreBoundary, RestoreBoundaryTo
<1>4. /\ names' \in Seq(Boundary)
      /\ Len(names') = d - 1
      /\ \A i \in 1..(d - 1) : names'[i] = names[i]
  BY <1>1, <1>3, PrefixIsSeq DEF StackOK
<1>5. /\ saves' \in Seq(Savepoint)
      /\ Len(saves') = d - 1
      /\ \A i \in 1..(d - 1) : saves'[i] = saves[i]
  BY <1>1, <1>3, PrefixIsSeq DEF StackOK
<1>6. status' = "active"
  BY DEF RestoreBoundary, RestoreBoundaryTo
<1>7. SavepointsMatch'
  <2>1. \A i \in 1..(d - 1) : names[i].name = saves[i].name
    BY <1>1 DEF StackOK, SavepointsMatch
  <2>2. Len(names') = Len(saves') /\ Len(saves') \in Nat
    BY <1>4, <1>5
  <2>3. \A i \in 1..Len(saves') : names'[i].name = saves'[i].name
    BY <1>4, <1>5, <2>1
  <2> QED
    BY <1>6, <2>2, <2>3 DEF SavepointsMatch
<1>8. /\ inconsistent' \in SUBSET Tables
      /\ writing' \in BOOLEAN
      /\ view' \in SUBSET Rows
      /\ cursors' \in SUBSET Cursors
      /\ epoch' \in Nat
  BY <1>2 DEF RestoreBoundary, RestoreBoundaryTo, StackOK, Boundary, Savepoint
<1> QED
  BY <1>4, <1>5, <1>6, <1>7, <1>8 DEF StackOK, Statuses

\* Boundaries::Rollback keeps the stacks equal, at any depth.
LEMMA RollsBackKeepsStack ==
    ASSUME StackOK, NEW d \in Nat \ {0}, RollsBack(d)
    PROVE  StackOK'
<1>1. CASE d > Len(names)
  BY <1>1 DEF RollsBack, StackOK, SavepointsMatch
<1>2. CASE ~ d > Len(names)
  BY <1>2, RestoreKeepsStack DEF RollsBack, InTransaction
<1> QED
  BY <1>1, <1>2

\* A broken connection has no savepoints, and nothing is promised of names_ then.
LEMMA SeveredKeepsStack ==
    ASSUME StackOK, Severed,
           UNCHANGED <<names, inconsistent, writing, view>>, epoch' \in Nat
    PROVE  StackOK'
BY EmptySeq DEF Severed, StackOK, SavepointsMatch, Statuses

\* When one of Rollback's two statements fails, names_ keeps boundaries the server may
\* have dropped, but the transaction has failed.
LEMMA RollbackThrowsKeepsStack ==
    ASSUME StackOK, NEW d \in Nat \ {0}, RollbackThrows(d)
    PROVE  StackOK'
<1>0. UNCHANGED <<names, inconsistent, writing, epoch>>
  BY DEF RollbackThrows
<1>1. CASE status = "lost" /\ UNCHANGED <<status, view, saves, cursors, faults>>
  BY <1>0, <1>1 DEF StackOK, SavepointsMatch
<1>2. CASE Severed /\ UNCHANGED view
  BY <1>0, <1>2, SeveredKeepsStack DEF StackOK
<1>3. CASE UNCHANGED <<view, saves, cursors>> /\ status' = "failed" /\ status # "lost"
  BY <1>0, <1>3 DEF StackOK, SavepointsMatch, Statuses
<1>4. CASE /\ d <= Len(saves) /\ status' = "failed" /\ status # "lost"
           /\ view' = saves[d].view
           /\ cursors' = saves[d].cursors
           /\ saves' = Prefix(saves, d)
  <2>1. d \in 1..Len(saves) /\ saves[d] \in Savepoint
    BY <1>4, LenProperties, ElementOfSeq DEF StackOK
  <2>2. /\ saves' \in Seq(Savepoint)
        /\ Len(saves') = d
        /\ \A i \in 1..d : saves'[i] = saves[i]
    BY <1>4, <2>1, PrefixIsSeq DEF StackOK
  <2>3. SavepointsMatch'
    BY <1>0, <1>4, <2>1, <2>2, LenProperties DEF StackOK, SavepointsMatch
  <2> QED
    BY <1>0, <1>4, <2>1, <2>2, <2>3 DEF StackOK, Savepoint, Statuses
<1> QED
  BY <1>1, <1>2, <1>3, <1>4 DEF RollbackThrows, InTransaction

\* Boundaries::Release takes the boundary and all above it from both stacks.
LEMMA ReleasesKeepsStack ==
    ASSUME StackOK, NEW d \in Nat \ {0}, Releases(d)
    PROVE  StackOK'
<1>1. CASE d > Len(names)
  BY <1>1 DEF Releases, StackOK, SavepointsMatch
<1>2. CASE ~ d > Len(names)
  <2>1. /\ status = "active" /\ status' = "active"
        /\ names' = Prefix(names, d - 1)
        /\ saves' = Prefix(saves, d - 1)
    BY <1>2 DEF Releases
  <2>2. Len(names) = Len(saves) /\ d - 1 \in 0..Len(saves)
    BY <1>2, <2>1, LenProperties DEF StackOK, SavepointsMatch
  <2>3. /\ names' \in Seq(Boundary)
        /\ Len(names') = d - 1
        /\ \A i \in 1..(d - 1) : names'[i] = names[i]
    BY <2>1, <2>2, PrefixIsSeq DEF StackOK
  <2>4. /\ saves' \in Seq(Savepoint)
        /\ Len(saves') = d - 1
        /\ \A i \in 1..(d - 1) : saves'[i] = saves[i]
    BY <2>1, <2>2, PrefixIsSeq DEF StackOK
  <2>5. SavepointsMatch'
    BY <2>1, <2>2, <2>3, <2>4 DEF StackOK, SavepointsMatch
  <2> QED
    BY <2>3, <2>4, <2>5 DEF StackOK, Releases
<1> QED
  BY <1>1, <1>2

\* So does its rollback when the RELEASE is refused.
LEMMA ReleaseThrowsKeepsStack ==
    ASSUME StackOK, NEW d \in Nat \ {0}, ReleaseThrows(d)
    PROVE  StackOK'
BY RestoreKeepsStack, RollbackThrowsKeepsStack DEF ReleaseThrows

\* The savepoints the server has when n boundaries above the floor have been renewed.
LEMMA RenewedSavesIsSeq ==
    ASSUME saves \in Seq(Savepoint), floor \in 0..Len(saves), issued \in Nat, NEW n \in Nat,
           NEW data \in SUBSET Rows, NEW open \in SUBSET Cursors
    PROVE  /\ RenewedSaves(n, data, open) \in Seq(Savepoint)
           /\ Len(RenewedSaves(n, data, open)) = floor + n
<1>1. \A i \in 1..floor : saves[i] \in Savepoint
  BY ElementOfSeq
<1>2. RenewedSaves(n, data, open) \in [1..(floor + n) -> Savepoint]
  BY <1>1 DEF RenewedSaves, Savepoint
<1> QED
  BY <1>2, FunctionIsSeq

\* Moving the marks of the scopes changes neither how many there are nor their kinds.
LEMMA RemarkedIsSeq ==
    ASSUME frames \in Seq(Frame), NEW from \in Nat, NEW data \in SUBSET Rows
    PROVE  /\ Remarked(from, data) \in Seq(Frame)
           /\ Len(Remarked(from, data)) = Len(frames)
           /\ \A i \in 1..Len(frames) : Remarked(from, data)[i].kind = frames[i].kind
<1>1. \A i \in 1..Len(frames) : frames[i] \in Frame
  BY ElementOfSeq
<1>2. [data |-> data, marks |-> {}] \in WorkState
  BY DEF WorkState
<1>3. \A i \in 1..Len(frames) :
         [frames[i] EXCEPT !.mark = [data |-> data, marks |-> {}]] \in Frame
  BY <1>1, <1>2 DEF Frame
<1>4. Remarked(from, data) \in [1..Len(frames) -> Frame]
  BY <1>1, <1>3 DEF Remarked
<1>5. Remarked(from, data) \in Seq(Frame) /\ Len(Remarked(from, data)) = Len(frames)
  BY <1>4, FunctionIsSeq, LenProperties
<1>6. \A i \in 1..Len(frames) : Remarked(from, data)[i].kind = frames[i].kind
  BY <1>1 DEF Remarked, Frame
<1> QED
  BY <1>5, <1>6

\* What the two stacks are after n boundaries above the floor were renewed.
LEMMA RenewalKeepsStack ==
    ASSUME StackOK, ProgramOK, status = "active", floor <= Len(names),
           NEW n \in 0..Renewals, NEW data \in SUBSET Rows, NEW open \in SUBSET Cursors,
           names' = RenewedNames(n), saves' = RenewedSaves(n, data, open),
           status' \in {"active", "failed", "idle"}, status' = "idle" => names' = <<>>
    PROVE  /\ names' \in Seq(Boundary) /\ saves' \in Seq(Savepoint)
           /\ SavepointsMatch'
<1>1. /\ Len(names) = Len(saves) /\ Len(names) \in Nat
      /\ \A i \in 1..Len(names) : names[i].name = saves[i].name
  BY LenProperties DEF StackOK, SavepointsMatch
<1>2. floor \in 0..Len(names) /\ floor \in 0..Len(saves) /\ n \in Nat
  BY <1>1 DEF ProgramOK, Renewals
<1>3. names' \in Seq(Boundary) /\ Len(names') = floor + n
  BY <1>2, RenewedNamesIsSeq DEF StackOK, ProgramOK
<1>4. saves' \in Seq(Savepoint) /\ Len(saves') = floor + n
  BY <1>2, RenewedSavesIsSeq DEF StackOK, ProgramOK
<1>5. \A i \in 1..(floor + n) : names'[i].name = saves'[i].name
  <2> TAKE i \in 1..(floor + n)
  <2>1. names'[i] = IF i <= floor THEN names[i]
                    ELSE [name |-> issued + (i - floor), inconsistentBefore |-> inconsistent,
                          writingBefore |-> FALSE]
    BY DEF RenewedNames
  <2>2. saves'[i] = IF i <= floor THEN saves[i]
                    ELSE [name |-> issued + (i - floor), view |-> data, cursors |-> open]
    BY DEF RenewedSaves
  <2>3. CASE i <= floor
    BY <1>1, <1>2, <2>1, <2>2, <2>3
  <2>4. CASE ~ i <= floor
    BY <2>1, <2>2, <2>4
  <2> QED
    BY <2>3, <2>4
<1>6. SavepointsMatch'
  BY <1>2, <1>3, <1>4, <1>5 DEF SavepointsMatch
<1> QED
  BY <1>3, <1>4, <1>6

\* A Commit moves what the open scopes are restored to, and not the scopes.
SameScopes ==
    /\ Len(frames') = Len(frames)
    /\ \A i \in 1..Len(frames) : frames'[i].kind = frames[i].kind

\* What a Commit leaves of the program's own state.
CommitFrame ==
    /\ StackOK'
    /\ committed' \in SUBSET Rows
    /\ frames' \in Seq(Frame) /\ SameScopes
    /\ issued' \in Nat
    /\ faults' \in Nat

\* A Commit that is not refused finds an intact transaction and no lost isolation.
LEMMA CommitStarts ==
    ASSUME StackOK, ProgramOK, ~ CommitRefused
    PROVE  /\ floor <= Len(names) /\ status # "failed"
           /\ Len(names) \in Nat /\ floor \in Nat /\ Renewals \in Nat
           /\ status = "idle" => Renewals = 0 /\ floor = 0 /\ names = <<>> /\ saves = <<>>
BY LenProperties, EmptySeq DEF CommitRefused, StackOK, ProgramOK, SavepointsMatch, Renewals

\* A Commit that returns: both stacks renewed, or no transaction and both empty.
LEMMA CommitDoneIsSound ==
    ASSUME StackOK, ProgramOK, ~ CommitRefused, CommitDone
    PROVE  CommitFrame
<1>0. /\ writing' = FALSE /\ issued' = issued + Renewals
      /\ UNCHANGED <<inconsistent, faults>>
      /\ names' = RenewedNames(Renewals)
  BY DEF CommitDone
<1>1. CASE CommitsToServer
  <2>1. /\ ServerCommits /\ epoch' = epoch + 1
        /\ saves' = RenewedSaves(Renewals, view', {})
        /\ status' = IF names = <<>> THEN "idle" ELSE "active"
        /\ frames' = Remarked(0, view')
    BY <1>1 DEF CommitDone
  <2>2. status = "active" /\ floor = 0
    BY <1>1, CommitStarts DEF CommitsToServer, InTransaction
  <2>3. /\ committed' \in SUBSET Rows /\ view' \in SUBSET Rows /\ cursors' \in SUBSET Cursors
    BY <2>1, <2>2 DEF ServerCommits, StackOK
  <2>4. names = <<>> => names' = <<>>
    BY <1>0, <2>2 DEF RenewedNames, Renewals
  <2>5. /\ names' \in Seq(Boundary) /\ saves' \in Seq(Savepoint)
        /\ SavepointsMatch'
    BY <1>0, <2>1, <2>2, <2>3, <2>4, CommitStarts, RenewalKeepsStack
  <2>6. frames' \in Seq(Frame) /\ SameScopes
    BY <2>1, <2>3, RemarkedIsSeq DEF SameScopes, ProgramOK
  <2>7. epoch' \in Nat /\ status' \in Statuses /\ inconsistent' \in SUBSET Tables
    BY <1>0, <2>1 DEF StackOK, Statuses
  <2>8. writing' \in BOOLEAN
    BY <1>0
  <2>9. StackOK'
    BY <2>3, <2>5, <2>7, <2>8 DEF StackOK
  <2> QED
    BY <1>0, <2>3, <2>6, <2>9, CommitStarts DEF CommitFrame, ProgramOK
<1>2. CASE ~ CommitsToServer
  <2>1. /\ Renewals > 0 => floor > 0 /\ InTransaction
        /\ saves' = IF InTransaction THEN RenewedSaves(Renewals, view, cursors) ELSE saves
        /\ frames' = IF InTransaction THEN Remarked(floor, view) ELSE frames
        /\ UNCHANGED <<status, committed, view, cursors, epoch>>
    BY <1>2 DEF CommitDone
  <2>2. frames' \in Seq(Frame) /\ SameScopes
    BY <2>1, RemarkedIsSeq DEF SameScopes, StackOK, ProgramOK
  <2>3. CASE InTransaction
    <3>1. status = "active"
      BY <2>3, CommitStarts DEF InTransaction
    <3>2. /\ names' \in Seq(Boundary) /\ saves' \in Seq(Savepoint)
          /\ SavepointsMatch'
      BY <1>0, <2>1, <2>3, <3>1, CommitStarts, RenewalKeepsStack DEF StackOK
    <3>3. StackOK'
      BY <1>0, <2>1, <3>2 DEF StackOK
    <3> QED
      BY <1>0, <2>1, <2>2, <3>3, CommitStarts DEF CommitFrame, ProgramOK
  <2>4. CASE ~ InTransaction
    <3>1. names' \in Seq(Boundary)
      BY <1>0, CommitStarts, RenewedNamesIsSeq DEF StackOK, ProgramOK
    <3>2. status = "idle" => names' = <<>> /\ saves' = <<>>
      BY <1>0, <2>1, <2>4, CommitStarts DEF RenewedNames
    <3>3. status \in {"idle", "lost"}
      BY <2>4 DEF InTransaction, StackOK, Statuses
    <3>4. SavepointsMatch'
      BY <2>1, <3>2, <3>3, EmptySeq DEF SavepointsMatch
    <3>5. StackOK'
      BY <1>0, <2>1, <2>4, <3>1, <3>4 DEF StackOK
    <3> QED
      BY <1>0, <2>1, <2>2, <3>5, CommitStarts DEF CommitFrame, ProgramOK
  <2> QED
    BY <2>3, <2>4
<1> QED
  BY <1>1, <1>2

\* A COMMIT the server rejects: both stacks are empty.
LEMMA CommitRejectedIsSound ==
    ASSUME StackOK, ProgramOK, CommitRejected, issued' \in Nat
    PROVE  CommitFrame
<1>1. /\ names' = <<>> /\ saves' = <<>>
      /\ inconsistent' = {} /\ writing' = FALSE
      /\ status' = "idle" /\ view' = committed /\ cursors' = {} /\ epoch' = epoch + 1
      /\ frames' = Remarked(0, committed)
      /\ committed' = committed /\ faults' = faults + 1
  BY DEF CommitRejected, DropsDeadBoundaries, Fault
<1>2. frames' \in Seq(Frame) /\ SameScopes
  BY <1>1, RemarkedIsSeq DEF SameScopes, ProgramOK
<1>3. SavepointsMatch'
  BY <1>1, EmptySeq DEF SavepointsMatch
<1>4. /\ names' \in Seq(Boundary) /\ saves' \in Seq(Savepoint)
      /\ inconsistent' \in SUBSET Tables /\ cursors' \in SUBSET Cursors
      /\ view' \in SUBSET Rows /\ epoch' \in Nat /\ status' \in Statuses
  BY <1>1, EmptySeq DEF StackOK, ProgramOK, Statuses
<1>5. writing' \in BOOLEAN
  BY <1>1
<1>6. StackOK'
  BY <1>3, <1>4, <1>5 DEF StackOK
<1> QED
  BY <1>1, <1>2, <1>6 DEF CommitFrame, ProgramOK

\* A connection lost during a Commit.
LEMMA CommitSeveredIsSound ==
    ASSUME StackOK, ProgramOK, CommitSevered, issued' \in Nat
    PROVE  CommitFrame
<1>1. names' = <<>> /\ inconsistent' = {} /\ writing' = FALSE /\ UNCHANGED view
  BY DEF CommitSevered, DropsDeadBoundaries
<1>2. /\ status' = "lost" /\ saves' \in Seq(Savepoint) /\ cursors' \in SUBSET Cursors
      /\ faults' \in Nat
  <2>1. CASE status = "lost"
    BY <2>1 DEF CommitSevered, StackOK, ProgramOK
  <2>2. CASE Severed
    BY <2>2, EmptySeq DEF Severed, Fault, ProgramOK
  <2> QED
    BY <2>1, <2>2 DEF CommitSevered
<1>3. committed' \in SUBSET Rows /\ epoch' \in Nat
  BY DEF CommitSevered, StackOK, ProgramOK
<1>4. frames' \in Seq(Frame) /\ SameScopes
  <2>1. frames' = frames \/ frames' = Remarked(0, view)
    BY DEF CommitSevered
  <2> QED
    BY <2>1, RemarkedIsSeq DEF SameScopes, StackOK, ProgramOK
<1>5. StackOK'
  BY <1>1, <1>2, <1>3, EmptySeq DEF StackOK, Statuses, SavepointsMatch
<1> QED
  BY <1>2, <1>3, <1>4, <1>5 DEF CommitFrame

\* A renewal that stops half way: the renewed boundaries are on both stacks, the rest on neither.
LEMMA RenewalRefusedIsSound ==
    ASSUME StackOK, ProgramOK, ~ CommitRefused, RenewalRefused, issued' \in Nat
    PROVE  CommitFrame
<1>1. /\ status = "active" /\ status' = "failed" /\ faults' = faults + 1
      /\ frames' = Remarked(floor, view)
      /\ UNCHANGED <<view, inconsistent>>
  BY DEF RenewalRefused, Fault
<1>2. PICK n \in 0..(Renewals - 1) :
         /\ names' = RenewedNames(n)
         /\ saves' = RenewedSaves(n, view, IF floor = 0 THEN {} ELSE cursors)
  BY DEF RenewalRefused
<1>3. /\ names' \in Seq(Boundary) /\ saves' \in Seq(Savepoint)
      /\ SavepointsMatch'
  <2>1. n \in 0..Renewals
    BY <1>2, CommitStarts
  <2>2. (IF floor = 0 THEN {} ELSE cursors) \in SUBSET Cursors
    BY DEF StackOK
  <2> QED
    BY <1>1, <1>2, <2>1, <2>2, CommitStarts, RenewalKeepsStack DEF StackOK
<1>4. frames' \in Seq(Frame) /\ SameScopes
  BY <1>1, RemarkedIsSeq DEF SameScopes, StackOK, ProgramOK
<1>5. /\ committed' \in SUBSET Rows /\ cursors' \in SUBSET Cursors
      /\ epoch' \in Nat
  BY DEF RenewalRefused, StackOK, ProgramOK
<1>6. writing' \in BOOLEAN
  BY DEF RenewalRefused, StackOK
<1> QED
  BY <1>1, <1>3, <1>4, <1>5, <1>6 DEF CommitFrame, StackOK, ProgramOK, Statuses

\* A refused RELEASE under the isolation floor moves nothing.
LEMMA FloorReleaseRefusedIsSound ==
    ASSUME StackOK, ProgramOK, FloorReleaseRefused, issued' \in Nat
    PROVE  CommitFrame
BY DEF FloorReleaseRefused, Fault, CommitFrame, SameScopes, StackOK, ProgramOK, Statuses, SavepointsMatch

\* Boundaries::Commit as its callers see it, whatever happens inside it.
LEMMA CommitKeepsInvariant ==
    ASSUME TypeOK, SavepointsMatch, NEW done \in Phases, NEW thrown \in Phases,
           CommitBoundaries(done, thrown)
    PROVE  /\ TypeOK' /\ SavepointsMatch'
           /\ SameScopes /\ floor' = floor /\ pc' \in {done, thrown}
<1>1. StackOK /\ ProgramOK
  BY InvariantParts
<1>2. /\ pc' \in {done, thrown} /\ pc' \in Phases
      /\ UNCHANGED <<floor, tryDepth, collected, opened, used>>
  BY DEF CommitBoundaries
<1>3. CASE CommitRefused
  <2>1. UNCHANGED <<names, inconsistent, writing, epoch, issued, server, frames, faults>>
    BY <1>3 DEF CommitBoundaries
  <2> QED
    BY <1>2, <2>1 DEF TypeOK, SavepointsMatch, server, SameScopes
<1>4. CASE ~ CommitRefused
  <2>1. ASSUME CommitDone PROVE CommitFrame
    BY <1>1, <1>4, <2>1, CommitDoneIsSound
  <2>2. ASSUME CommitThrows PROVE CommitFrame
    <3>1. issued' \in Nat
      BY <1>1, <1>4, <2>2, CommitStarts DEF CommitThrows, ProgramOK
    <3> QED
      BY <1>1, <1>4, <2>2, <3>1, CommitRejectedIsSound, CommitSeveredIsSound,
         RenewalRefusedIsSound, FloorReleaseRefusedIsSound DEF CommitThrows
  <2>3. CommitFrame
    BY <1>4, <2>1, <2>2 DEF CommitBoundaries
  <2> QED
    BY <1>1, <1>2, <2>3 DEF CommitFrame, StackOK, ProgramOK, TypeOK
<1> QED
  BY <1>3, <1>4

----------------------------------------------------------------------------

\* The rest of the inductive invariant: which scopes there are in which phase, and
\* that a session hosted by commands has no test isolation.
KindsFit ==
    \A i \in 1..Len(frames) :
        (frames[i].kind = "test" => ~ Hosted) /\ (frames[i].kind = "command" => Hosted)

ScopesFit ==
    /\ pc \in {"keep", "drop"} => frames # <<>>
    /\ pc = "seal" => Hosted /\ status = "active"
    /\ Hosted => floor = 0
    /\ KindsFit

\* The inductive invariant.
Inv == TypeOK /\ SavepointsMatch /\ ScopesFit

\* The innermost of the open scopes is a scope.
LEMMA TopIsFrame ==
    ASSUME TypeOK, frames # <<>>
    PROVE  Top \in Frame /\ Len(frames) \in Nat \ {0}
BY EmptySeq, ElementOfSeq DEF TypeOK, Top

\* Closing the innermost scope leaves the others and puts the floor back.
LEMMA PoppedKeepsScopes ==
    ASSUME TypeOK, ScopesFit, frames # <<>>, Popped
    PROVE  /\ frames' \in Seq(Frame)
           /\ floor' \in Nat
           /\ Hosted => floor' = 0
           /\ KindsFit'
<1>1. Top \in Frame /\ Len(frames) \in Nat \ {0} /\ Len(frames) - 1 \in 0..Len(frames)
  BY TopIsFrame
<1>2. /\ frames' \in Seq(Frame) /\ Len(frames') = Len(frames) - 1
      /\ \A i \in 1..(Len(frames) - 1) : frames'[i] = frames[i]
  BY <1>1, PrefixIsSeq DEF Popped, TypeOK
<1>3. floor' \in Nat
  BY <1>1 DEF Popped, Frame, TypeOK
<1>4. Hosted => floor' = 0
  BY <1>1 DEF Popped, Top, ScopesFit, KindsFit
<1> QED
  BY <1>1, <1>2, <1>3, <1>4 DEF ScopesFit, KindsFit

\* Scope::Keep preserves the invariant, whoever calls it.
LEMMA KeepTopKeepsInv ==
    ASSUME Inv, frames # <<>>, NEW kept \in {"al", "raise"}, NEW thrown \in {"al", "raise"},
           KeepTop(kept, thrown)
    PROVE  Inv'
<1>1. StackOK /\ ProgramOK /\ ScopesFit /\ TypeOK
  BY InvariantParts DEF Inv
<1>2. Top.depth \in Nat \ {0}
  BY <1>1, TopIsFrame DEF Frame
<1>3. StackOK'
  BY <1>1, <1>2, ReleasesKeepsStack, ReleaseThrowsKeepsStack DEF KeepTop
<1>4. faults' \in Nat /\ pc' \in {"al", "raise"}
      /\ UNCHANGED <<tryDepth, issued, committed, collected, opened, used>>
  BY <1>1 DEF KeepTop, Releases, ReleaseThrows, RollbackThrows, Severed, Fault, ProgramOK
<1>5. Popped
  BY DEF KeepTop
<1>6. ProgramOK'
  BY <1>1, <1>4, <1>5, PoppedKeepsScopes DEF ProgramOK, Phases
<1>7. ScopesFit'
  <2>1. /\ Hosted => floor' = 0
        /\ KindsFit'
    BY <1>1, <1>5, PoppedKeepsScopes
  <2>2. pc' \notin {"keep", "drop", "seal"}
    BY <1>4
  <2>3. /\ pc' \in {"keep", "drop"} => frames' # <<>>
        /\ pc' = "seal" => Hosted /\ status' = "active"
    BY <2>2
  <2> QED
    BY <2>1, <2>3 DEF ScopesFit
<1> QED
  BY <1>3, <1>6, <1>7 DEF Inv, TypeOK, StackOK, ProgramOK

\* Scope::Rollback and ~Scope preserve the invariant, whoever runs them.
LEMMA DropTopKeepsInv ==
    ASSUME Inv, frames # <<>>, NEW dropped \in {"al", "raise"}, NEW thrown \in {"al", "raise"},
           DropTop(dropped, thrown)
    PROVE  Inv'
<1>1. StackOK /\ ProgramOK /\ ScopesFit /\ TypeOK
  BY InvariantParts DEF Inv
<1>2. Top.depth \in Nat \ {0}
  BY <1>1, TopIsFrame DEF Frame
<1>3. StackOK'
  BY <1>1, <1>2, RollsBackKeepsStack, RollbackThrowsKeepsStack DEF DropTop
<1>4. faults' \in Nat /\ pc' \in {"al", "raise"}
      /\ UNCHANGED <<tryDepth, issued, committed, collected, opened, used>>
  BY <1>1 DEF DropTop, RollsBack, RollbackThrows, Severed, Fault, ProgramOK
<1>5. Popped
  BY DEF DropTop
<1>6. ProgramOK'
  BY <1>1, <1>4, <1>5, PoppedKeepsScopes DEF ProgramOK, Phases
<1>7. ScopesFit'
  <2>1. /\ Hosted => floor' = 0
        /\ KindsFit'
    BY <1>1, <1>5, PoppedKeepsScopes
  <2>2. pc' \notin {"keep", "drop", "seal"}
    BY <1>4
  <2>3. /\ pc' \in {"keep", "drop"} => frames' # <<>>
        /\ pc' = "seal" => Hosted /\ status' = "active"
    BY <2>2
  <2> QED
    BY <2>1, <2>3 DEF ScopesFit
<1> QED
  BY <1>3, <1>6, <1>7 DEF Inv, TypeOK, StackOK, ProgramOK

\* A refused statement may fail the transaction or lose the connection; it moves no stack.
LEMMA RefusedKeepsStack ==
    ASSUME StackOK, ProgramOK, Refused,
           UNCHANGED <<names, inconsistent, view>>, epoch' \in Nat, writing' \in BOOLEAN
    PROVE  StackOK' /\ faults' \in Nat
<1>1. CASE status \in {"failed", "lost"} /\ UNCHANGED <<status, saves, cursors, faults>>
  BY <1>1 DEF StackOK, ProgramOK, SavepointsMatch
<1>2. CASE /\ status \in {"idle", "active"} /\ Fault("statement")
           /\ status' = "failed" /\ UNCHANGED <<saves, cursors>>
  BY <1>2 DEF StackOK, ProgramOK, SavepointsMatch, Fault, Statuses
<1>3. CASE Severed
  BY <1>3, EmptySeq DEF Severed, Fault, StackOK, ProgramOK, SavepointsMatch, Statuses
<1> QED
  BY <1>1, <1>2, <1>3 DEF Refused

\* Boundaries::Open puts one name on both stacks.
LEMMA OpenBoundaryKeepsStack ==
    ASSUME StackOK, ProgramOK, OpenBoundary
    PROVE  StackOK' /\ issued' \in Nat /\ UNCHANGED <<committed, faults>>
<1> DEFINE boundary == [name |-> issued + 1, inconsistentBefore |-> inconsistent,
                        writingBefore |-> writing]
           savepoint == [name |-> issued + 1, view |-> view, cursors |-> cursors]
<1>1. /\ names' = Append(names, boundary) /\ saves' = Append(saves, savepoint)
      /\ status \in {"idle", "active"} /\ status' = "active" /\ issued' = issued + 1
      /\ UNCHANGED <<inconsistent, writing, epoch, committed, view, cursors, faults>>
  BY DEF OpenBoundary
<1>2. boundary \in Boundary /\ savepoint \in Savepoint
  BY DEF StackOK, ProgramOK, Boundary, Savepoint
<1>3. Len(names) = Len(saves) /\ Len(names) \in Nat
  BY <1>1, LenProperties, EmptySeq DEF StackOK, SavepointsMatch
<1>4. /\ names' \in Seq(Boundary) /\ Len(names') = Len(names) + 1
      /\ \A i \in 1..Len(names) : names'[i] = names[i]
      /\ names'[Len(names) + 1] = boundary
  BY <1>1, <1>2, AppendProperties DEF StackOK
<1>5. /\ saves' \in Seq(Savepoint) /\ Len(saves') = Len(saves) + 1
      /\ \A i \in 1..Len(saves) : saves'[i] = saves[i]
      /\ saves'[Len(saves) + 1] = savepoint
  BY <1>1, <1>2, AppendProperties DEF StackOK
<1>6. SavepointsMatch'
  <2>1. \A i \in 1..Len(saves) : names[i].name = saves[i].name
    BY <1>1 DEF StackOK, SavepointsMatch
  <2>2. \A i \in 1..Len(saves') : names'[i].name = saves'[i].name
    BY <1>3, <1>4, <1>5, <2>1
  <2> QED
    BY <1>1, <1>3, <1>4, <1>5, <2>2 DEF SavepointsMatch
<1> QED
  BY <1>1, <1>4, <1>5, <1>6 DEF StackOK, ProgramOK, Statuses

\* The steps that change neither stack and leave the scopes alone.
LEMMA QuietStepKeepsInv ==
    ASSUME Inv, UNCHANGED <<names, saves, status, frames, floor>>,
           inconsistent' \in SUBSET Tables, epoch' \in Nat, writing' \in BOOLEAN,
           view' \in SUBSET Rows, cursors' \in SUBSET Cursors, committed' \in SUBSET Rows,
           tryDepth' \in Nat, issued' \in Nat, collected' \in Nat, faults' \in Nat,
           opened' \in [Cursors -> Nat \cup {Closed}], used' \in SUBSET Rows,
           pc' \in {"al", "raise"}
    PROVE  Inv'
<1>1. TypeOK'
  BY DEF Inv, TypeOK, Phases
<1>2. SavepointsMatch' /\ ScopesFit'
  BY DEF Inv, SavepointsMatch, ScopesFit, KindsFit
<1> QED
  BY <1>1, <1>2 DEF Inv

\* The three callers of Boundaries::Commit preserve the invariant.
LEMMA CommitStepKeepsInv ==
    ASSUME Inv, NEW done \in {"al", "keep", "detach"}, NEW thrown \in {"raise", "drop"},
           CommitBoundaries(done, thrown),
           done = "keep" \/ thrown = "drop" => frames # <<>>
    PROVE  Inv'
<1>1. done \in Phases /\ thrown \in Phases
  BY DEF Phases
<1>2. /\ TypeOK' /\ SavepointsMatch'
      /\ SameScopes /\ floor' = floor /\ pc' \in {done, thrown}
  BY <1>1, CommitKeepsInvariant DEF Inv
<1>3. frames # <<>> => frames' # <<>>
  BY <1>2, EmptySeq DEF Inv, TypeOK, SameScopes
<1>4. ScopesFit'
  BY <1>2, <1>3 DEF Inv, ScopesFit, KindsFit, SameScopes
<1> QED
  BY <1>2, <1>4 DEF Inv

\* Opening a scope preserves the invariant, refused or not.
LEMMA OpenScopeKeepsInv ==
    ASSUME Inv, NEW kind \in ScopeKinds, OpenScope(kind)
    PROVE  Inv'
<1>1. StackOK /\ ProgramOK /\ ScopesFit
  BY InvariantParts DEF Inv
<1>2. kind \in {"run", "value", "assert", "test"} /\ (kind = "test" => ~ Hosted)
  BY BoundariesAssumption DEF BoundariesAssumption, OpenScope
<1>3. pc = "al" /\ UNCHANGED <<collected, opened, used>>
  BY DEF OpenScope, Running
<1>4. CASE RunRefused(kind)
  <2>1. pc' = "raise" /\ UNCHANGED <<session, server, frames, faults>>
    BY <1>4 DEF OpenScope
  <2> QED
    BY <1>3, <2>1, QuietStepKeepsInv DEF Inv, TypeOK, session, server
<1>5. CASE /\ OpenBoundary
           /\ frames' = Append(frames, NewFrame(kind))
           /\ floor' = (IF kind = "test" THEN Len(names) + 1 ELSE floor)
           /\ UNCHANGED pc
  <2>1. Len(names) \in Nat /\ Len(frames) \in Nat
    BY <1>1, LenProperties DEF StackOK, ProgramOK
  <2>2. NewFrame(kind) \in Frame
    <3>1. [data |-> view, marks |-> inconsistent] \in WorkState
      BY <1>1 DEF StackOK, WorkState
    <3> QED
      BY <1>1, <1>2, <2>1, <3>1 DEF ProgramOK, NewFrame, Frame, Kinds
  <2>3. /\ frames' \in Seq(Frame) /\ Len(frames') = Len(frames) + 1
        /\ \A i \in 1..Len(frames) : frames'[i] = frames[i]
        /\ frames'[Len(frames) + 1] = NewFrame(kind)
    BY <1>1, <1>5, <2>2, AppendProperties DEF ProgramOK
  <2>4. frames'[Len(frames) + 1].kind = kind
    BY <2>3 DEF NewFrame
  <2>5. floor' \in Nat /\ (Hosted => floor' = 0)
    BY <1>1, <1>2, <1>5, <2>1 DEF ProgramOK, ScopesFit
  <2>6. StackOK' /\ issued' \in Nat /\ UNCHANGED <<committed, faults, tryDepth>>
    BY <1>1, <1>5, OpenBoundaryKeepsStack DEF OpenBoundary
  <2>7. ProgramOK'
    BY <1>1, <1>3, <1>5, <2>3, <2>5, <2>6 DEF ProgramOK
  <2>8. ScopesFit'
    <3>1. KindsFit'
      BY <1>1, <1>2, <2>1, <2>3, <2>4 DEF ScopesFit, KindsFit
    <3>2. pc' \notin {"keep", "drop", "seal"}
      BY <1>3, <1>5
    <3> QED
      BY <2>5, <3>1, <3>2 DEF ScopesFit
  <2> QED
    BY <2>6, <2>7, <2>8 DEF Inv, TypeOK, StackOK, ProgramOK
<1>6. CASE OpenFails /\ pc' = "raise" /\ UNCHANGED <<floor, frames>>
  <2>1. UNCHANGED <<names, inconsistent, writing, tryDepth, epoch, committed, view>>
    BY <1>6 DEF OpenFails
  <2>2. issued' \in Nat
    BY <1>1, <1>6 DEF OpenFails, ProgramOK
  <2>3. StackOK' /\ faults' \in Nat
    <3>1. CASE floor > Len(names)
      BY <1>1, <1>6, <2>1, <3>1 DEF OpenFails, StackOK, ProgramOK, SavepointsMatch
    <3>2. CASE ~ floor > Len(names)
      <4>1. Refused
        BY <1>6, <3>2 DEF OpenFails
      <4>2. epoch' \in Nat /\ writing' \in BOOLEAN
        BY <1>1, <2>1 DEF StackOK
      <4> QED
        BY <1>1, <2>1, <4>1, <4>2, RefusedKeepsStack
    <3> QED
      BY <3>1, <3>2
  <2>4. ProgramOK'
    BY <1>1, <1>3, <1>6, <2>1, <2>2, <2>3 DEF ProgramOK, Phases
  <2>5. ScopesFit'
    BY <1>1, <1>6 DEF ScopesFit, KindsFit
  <2> QED
    BY <2>3, <2>4, <2>5 DEF Inv, TypeOK, StackOK, ProgramOK
<1> QED
  BY <1>4, <1>5, <1>6 DEF OpenScope

\* The life of a SessionCommand preserves the invariant; only a seal that succeeded
\* leads to its Commit.
LEMMA CommandStepKeepsInv ==
    ASSUME Inv, CommandStep
    PROVE  Inv'
<1>1. StackOK /\ ProgramOK /\ ScopesFit
  BY InvariantParts DEF Inv
<1>2. CASE BeginCommand
  <2>1. /\ OpenBoundary /\ Hosted /\ pc = "al" /\ names = <<>>
        /\ frames' = <<NewFrame("command")>>
        /\ UNCHANGED <<floor, pc, tryDepth, collected, opened, used>>
    BY <1>2 DEF BeginCommand, OpenBoundary
  <2>2. StackOK' /\ issued' \in Nat /\ UNCHANGED <<committed, faults>>
    BY <1>1, <2>1, OpenBoundaryKeepsStack
  <2>3. NewFrame("command") \in Frame /\ NewFrame("command").kind = "command"
    <3>1. [data |-> view, marks |-> inconsistent] \in WorkState
      BY <1>1 DEF StackOK, WorkState
    <3>2. Len(names) + 1 \in Nat \ {0}
      BY <1>1, LenProperties DEF StackOK
    <3> QED
      BY <1>1, <3>1, <3>2 DEF ProgramOK, NewFrame, Frame, Kinds
  <2>4. frames' \in Seq(Frame) /\ Len(frames') = 1 /\ frames'[1].kind = "command"
    BY <2>1, <2>3
  <2>5. ProgramOK'
    BY <1>1, <2>1, <2>2, <2>4 DEF ProgramOK
  <2>6. KindsFit'
    BY <2>1, <2>4 DEF KindsFit
  <2>7. ScopesFit'
    BY <1>1, <2>1, <2>6 DEF ScopesFit
  <2> QED
    BY <2>2, <2>5, <2>7 DEF Inv, TypeOK, StackOK, ProgramOK
<1>3. CASE SealCommand
  <2>1. /\ pc = "al" /\ frames # <<>> /\ Top.kind = "command"
        /\ pc' \in {"seal", "raise"}
        /\ UNCHANGED <<frames, floor, tryDepth, issued, committed, collected, opened, used>>
    BY <1>3 DEF SealCommand, BodyEnds
  <2>2. Hosted
    BY <1>1, <2>1, TopIsFrame DEF Inv, ScopesFit, KindsFit, Top
  <2>3. StackOK' /\ faults' \in Nat /\ (pc' = "seal" => status' = "active")
    <3>1. CASE UnfinishedBoundary
      BY <1>1, <1>3, <3>1 DEF SealCommand, StackOK, ProgramOK, SavepointsMatch
    <3>2. CASE ~ UnfinishedBoundary
      <4>1. CASE Releases(1) /\ pc' = "seal"
        <5>1. status' = "active" /\ faults' = faults
          BY <3>2, <4>1 DEF Releases, UnfinishedBoundary
        <5> QED
          BY <1>1, <4>1, <5>1, ReleasesKeepsStack DEF ProgramOK
      <4>2. CASE ReleaseThrows(1) /\ pc' = "raise"
        <5>1. faults' \in Nat
          BY <1>1, <4>2 DEF ReleaseThrows, RollbackThrows, Severed, Fault, ProgramOK
        <5> QED
          BY <1>1, <4>2, <5>1, ReleaseThrowsKeepsStack
      <4> QED
        BY <1>3, <3>2, <4>1, <4>2 DEF SealCommand
    <3> QED
      BY <3>1, <3>2
  <2>4. ProgramOK'
    BY <1>1, <2>1, <2>3 DEF ProgramOK, Phases
  <2>5. ScopesFit'
    BY <1>1, <2>1, <2>2, <2>3 DEF ScopesFit, KindsFit
  <2> QED
    BY <2>3, <2>4, <2>5 DEF Inv, TypeOK, StackOK, ProgramOK
<1>4. CASE CommitCommand
  BY <1>4, CommitStepKeepsInv DEF CommitCommand
<1>5. CASE EndCommand
  <2>1. /\ status' = "idle" /\ view' = committed /\ saves' = <<>> /\ cursors' = {}
        /\ names' = <<>> /\ inconsistent' = {} /\ floor' = 0 /\ writing' = FALSE
        /\ tryDepth' = 0 /\ epoch' = epoch + 1 /\ frames' = <<>> /\ pc' = "al" /\ collected' = 0
        /\ UNCHANGED <<issued, committed, opened, used, faults>>
    BY <1>5 DEF EndCommand, ClearCommand, ClearCommandTo
  <2>2. writing' \in BOOLEAN
    BY <2>1
  <2>3. SavepointsMatch'
    BY <2>1, EmptySeq DEF SavepointsMatch
  <2>4. TypeOK'
    BY <2>1, <2>2, EmptySeq DEF Inv, TypeOK, Statuses, Phases
  <2>5. ScopesFit'
    BY <2>1, EmptySeq DEF ScopesFit, KindsFit
  <2> QED
    BY <2>3, <2>4, <2>5 DEF Inv
<1> QED
  BY <1>2, <1>3, <1>4, <1>5 DEF CommandStep

\* Every step that opens or closes a scope preserves the invariant.
LEMMA ScopeStepKeepsInv ==
    ASSUME Inv, ScopeStep
    PROVE  Inv'
<1>1. ASSUME NEW kind \in ScopeKinds, OpenScope(kind) PROVE Inv'
  BY <1>1, OpenScopeKeepsInv
<1>2. CASE EndRun
  BY <1>2, KeepTopKeepsInv DEF EndRun, BodyEnds
<1>3. CASE QuitRun
  BY <1>3, DropTopKeepsInv DEF QuitRun, BodyEnds
<1>4. CASE EndAssert
  BY <1>4, KeepTopKeepsInv DEF EndAssert, BodyEnds
<1>5. CASE EndTest
  BY <1>5, DropTopKeepsInv DEF EndTest, BodyEnds
<1>6. CASE EndCollectingRun
  BY <1>6, DropTopKeepsInv DEF EndCollectingRun, BodyEnds
<1>7. CASE EndValueRun
  BY <1>7, CommitStepKeepsInv DEF EndValueRun, BodyEnds
<1>8. CASE KeepValueRun
  BY <1>8, KeepTopKeepsInv DEF KeepValueRun, Inv, ScopesFit
<1>9. CASE DropValueRun
  BY <1>9, DropTopKeepsInv DEF DropValueRun, Inv, ScopesFit
<1>10. CASE Unwind
  BY <1>10, DropTopKeepsInv DEF Unwind
<1> QED
  BY <1>1, <1>2, <1>3, <1>4, <1>5, <1>6, <1>7, <1>8, <1>9, <1>10 DEF ScopeStep

\* The BEGIN an AL statement may start with moves no stack.
LEMMA BeginKeepsStacks ==
    ASSUME StackOK, status \in {"idle", "active"}, status' = "active", UNCHANGED <<names, saves>>
    PROVE  SavepointsMatch'
BY EmptySeq, LenProperties DEF StackOK, SavepointsMatch

\* A table write preserves the invariant, refused or stored.
LEMMA WriteRowKeepsInv ==
    ASSUME Inv, NEW r \in Rows, WriteRow(r)
    PROVE  Inv'
<1>1. StackOK /\ ProgramOK /\ ScopesFit
  BY InvariantParts DEF Inv
<1>2. /\ pc = "al"
      /\ UNCHANGED <<names, inconsistent, floor, tryDepth, epoch, issued, frames, collected, opened>>
  BY DEF WriteRow, Running
<1>3. CASE DisableTryWrites /\ tryDepth # 0
  <2>1. pc' = "raise" /\ UNCHANGED <<writing, server, used, faults>>
    BY <1>3 DEF WriteRow
  <2> QED
    BY <1>2, <2>1, QuietStepKeepsInv DEF Inv, TypeOK, server
<1>4. CASE /\ used' = used \cup {r} /\ UNCHANGED committed
           /\ status \in {"idle", "active"}
           /\ status' = "active" /\ writing' = TRUE /\ view' = view \cup {r}
           /\ UNCHANGED <<pc, saves, cursors, faults>>
  <2>1. SavepointsMatch'
    BY <1>1, <1>2, <1>4, BeginKeepsStacks
  <2>2. writing' \in BOOLEAN
    BY <1>4
  <2>3. TypeOK'
    BY <1>1, <1>2, <1>4, <2>2 DEF StackOK, ProgramOK, TypeOK, Statuses
  <2>4. ScopesFit'
    BY <1>1, <1>2, <1>4 DEF ScopesFit, KindsFit
  <2> QED
    BY <2>1, <2>3, <2>4 DEF Inv
<1>5. CASE /\ used' = used \cup {r} /\ UNCHANGED committed
           /\ Refused /\ writing' \in {writing, TRUE}
           /\ pc' = "raise" /\ UNCHANGED view
  <2>1. writing' \in BOOLEAN /\ epoch' \in Nat
    BY <1>1, <1>2, <1>5 DEF StackOK
  <2>2. StackOK' /\ faults' \in Nat
    BY <1>1, <1>2, <1>5, <2>1, RefusedKeepsStack
  <2>3. ProgramOK'
    BY <1>1, <1>2, <1>5, <2>2 DEF ProgramOK, Phases
  <2>4. ScopesFit'
    BY <1>1, <1>2, <1>5 DEF ScopesFit, KindsFit
  <2> QED
    BY <2>2, <2>3, <2>4 DEF Inv, TypeOK, StackOK, ProgramOK
<1> QED
  BY <1>3, <1>4, <1>5 DEF WriteRow

\* A failing read preserves the invariant.
LEMMA ReadFailsKeepsInv ==
    ASSUME Inv, ReadFails
    PROVE  Inv'
<1>1. StackOK /\ ProgramOK /\ ScopesFit
  BY InvariantParts DEF Inv
<1>2. /\ Refused /\ pc' = "raise"
      /\ UNCHANGED <<session, committed, view, frames, collected, opened, used>>
  BY DEF ReadFails
<1>3. writing' \in BOOLEAN /\ epoch' \in Nat
  BY <1>1, <1>2 DEF StackOK, session
<1>4. StackOK' /\ faults' \in Nat
  BY <1>1, <1>2, <1>3, RefusedKeepsStack DEF session
<1>5. ProgramOK'
  BY <1>1, <1>2, <1>4 DEF ProgramOK, Phases, session
<1>6. ScopesFit'
  BY <1>1, <1>2 DEF ScopesFit, KindsFit, session
<1> QED
  BY <1>4, <1>5, <1>6 DEF Inv, TypeOK, StackOK, ProgramOK

\* Opening and closing a cursor preserve the invariant.
LEMMA CursorStepKeepsInv ==
    ASSUME Inv, NEW c \in Cursors, OpenCursor(c) \/ CloseCursor(c)
    PROVE  Inv'
<1>1. StackOK /\ ProgramOK /\ ScopesFit
  BY InvariantParts DEF Inv
<1>2. CASE OpenCursor(c)
  <2>1. /\ pc = "al" /\ status \in {"idle", "active"} /\ status' = "active"
        /\ cursors' = cursors \cup {c} /\ opened' = [opened EXCEPT ![c] = epoch]
        /\ UNCHANGED <<session, committed, view, saves, frames, pc, collected, used, faults>>
    BY <1>2 DEF OpenCursor, Running
  <2>2. SavepointsMatch'
    BY <1>1, <2>1, BeginKeepsStacks DEF session
  <2>3. opened' \in [Cursors -> Nat \cup {Closed}]
    BY <1>1, <2>1 DEF StackOK, ProgramOK
  <2>4. TypeOK'
    BY <1>1, <2>1, <2>3 DEF StackOK, ProgramOK, TypeOK, Statuses, session
  <2>5. ScopesFit'
    BY <1>1, <2>1 DEF ScopesFit, KindsFit, session
  <2> QED
    BY <2>2, <2>4, <2>5 DEF Inv
<1>3. CASE CloseCursor(c)
  <2>1. /\ pc \in {"al", "raise"} /\ opened' = [opened EXCEPT ![c] = Closed]
        /\ cursors' = (IF status = "active" THEN cursors \ {c} ELSE cursors)
        /\ UNCHANGED <<session, status, committed, view, saves, frames, pc, collected, used, faults>>
    BY <1>3 DEF CloseCursor
  <2>2. opened' \in [Cursors -> Nat \cup {Closed}] /\ cursors' \in SUBSET Cursors
    BY <1>1, <2>1 DEF StackOK, ProgramOK
  <2> QED
    BY <2>1, <2>2, QuietStepKeepsInv DEF Inv, TypeOK, session
<1> QED
  BY <1>2, <1>3

\* Every AL statement between two scopes preserves the invariant.
LEMMA ProgramStepKeepsInv ==
    ASSUME Inv, ProgramStep
    PROVE  Inv'
<1> USE DEF session, server, program, Running
<1>1. ASSUME NEW r \in Rows, WriteRow(r) PROVE Inv'
  BY <1>1, WriteRowKeepsInv
<1>2. CASE ReadFails
  BY <1>2, ReadFailsKeepsInv
<1>3. ASSUME NEW t \in Tables, NEW consistent \in BOOLEAN, MarkConsistent(t, consistent)
      PROVE  Inv'
  <2>1. inconsistent' \in SUBSET Tables
    BY <1>3 DEF MarkConsistent, Inv, TypeOK
  <2>2. pc' \in {"al", "raise"}
    BY <1>3 DEF MarkConsistent
  <2> QED
    BY <1>3, <2>1, <2>2, QuietStepKeepsInv DEF MarkConsistent, Inv, TypeOK
<1>4. CASE Commit
  BY <1>4, CommitStepKeepsInv DEF Commit
<1>5. CASE RaiseError
  BY <1>5, QuietStepKeepsInv DEF RaiseError, Inv, TypeOK
<1>6. CASE EnterTry
  BY <1>6, QuietStepKeepsInv DEF EnterTry, Inv, TypeOK
<1>7. CASE LeaveTry
  <2>1. TriesBelow \in Nat
    BY TopIsFrame DEF TriesBelow, Inv, Frame
  <2>2. tryDepth' \in Nat
    BY <1>7, <2>1 DEF LeaveTry, Inv, TypeOK
  <2> QED
    BY <1>7, <2>2, QuietStepKeepsInv DEF LeaveTry, Inv, TypeOK
<1>8. CASE HostCatches
  BY <1>8, QuietStepKeepsInv DEF HostCatches, Inv, TypeOK
<1>9. CASE CollectError
  BY <1>9, QuietStepKeepsInv DEF CollectError, Inv, TypeOK
<1>10. CASE ClearCollected
  BY <1>10, QuietStepKeepsInv DEF ClearCollected, Inv, TypeOK
<1>11. ASSUME NEW c \in Cursors, OpenCursor(c) \/ CloseCursor(c) PROVE Inv'
  BY <1>11, CursorStepKeepsInv
<1> QED
  BY <1>1, <1>2, <1>3, <1>4, <1>5, <1>6, <1>7, <1>8, <1>9, <1>10, <1>11 DEF ProgramStep

\* A session starts with both stacks empty.
LEMMA InitSatisfiesInv == Init => Inv
<1> SUFFICES ASSUME Init PROVE Inv
  OBVIOUS
<1>1. writing \in BOOLEAN
  BY DEF Init
<1>2. TypeOK
  BY <1>1, EmptySeq DEF Init, TypeOK, Statuses, Phases
<1>3. SavepointsMatch
  BY EmptySeq DEF Init, SavepointsMatch
<1>4. ScopesFit
  BY EmptySeq DEF Init, ScopesFit, KindsFit
<1> QED
  BY <1>2, <1>3, <1>4 DEF Inv

\* No step of the session breaks the invariant.
LEMMA NextKeepsInv == Inv /\ [Next]_vars => Inv'
<1> SUFFICES ASSUME Inv, [Next]_vars PROVE Inv'
  OBVIOUS
<1>1. CASE ScopeStep
  BY <1>1, ScopeStepKeepsInv
<1>2. CASE CommandStep
  BY <1>2, CommandStepKeepsInv
<1>3. CASE ProgramStep
  BY <1>3, ProgramStepKeepsInv
<1>4. CASE UNCHANGED vars
  BY <1>4 DEF vars, session, server, program, Inv, TypeOK, SavepointsMatch, ScopesFit, KindsFit
<1> QED
  BY <1>1, <1>2, <1>3, <1>4 DEF Next

\* The inductive invariant: every reachable state of a session, for any number of rows,
\* scopes, Commits and failures, satisfies it.
THEOREM Invariance == Spec => []Inv
BY InitSatisfiesInv, NextKeepsInv, PTL DEF Spec

\* Every reachable state is one of the declared states, for any number of rows,
\* scopes, failures and Commits.
THEOREM TypeCorrect == Spec => []TypeOK
<1>1. Inv => TypeOK
  BY DEF Inv
<1> QED
  BY <1>1, Invariance, PTL

\* names_ and the server's savepoints are one stack, whatever failed.
THEOREM SavepointsAlwaysMatch == Spec => []SavepointsMatch
<1>1. Inv => SavepointsMatch
  BY DEF Inv
<1> QED
  BY <1>1, Invariance, PTL

----------------------------------------------------------------------------

\* Boundaries::Commit does not send COMMIT under an isolation floor.
LEMMA OnlyCommitsAreDurable ==
    ASSUME NEW done, NEW thrown, CommitBoundaries(done, thrown), floor # 0
    PROVE  committed' = committed
<1>1. CASE CommitRefused
  BY <1>1 DEF CommitBoundaries, server
<1>2. CASE CommitDone
  BY <1>2 DEF CommitDone, CommitsToServer
<1>3. CASE CommitThrows
  BY <1>3 DEF CommitThrows, CommitRejected, CommitSevered, RenewalRefused, FloorReleaseRefused
<1> QED
  BY <1>1, <1>2, <1>3 DEF CommitBoundaries

\* No other operation of the session makes a row durable.
LEMMA OtherStepsAreNotDurable ==
    ASSUME Next,
           ~ (EndValueRun \/ CommitCommand \/ Commit)
    PROVE  committed' = committed
<1>1. CASE ScopeStep
  <2>1. ASSUME NEW kind \in ScopeKinds, OpenScope(kind) PROVE committed' = committed
    BY <2>1 DEF OpenScope, OpenBoundary, OpenFails, server
  <2>2. CASE \/ EndRun \/ QuitRun \/ EndAssert \/ EndTest \/ EndCollectingRun
             \/ KeepValueRun \/ DropValueRun \/ Unwind
    BY <2>2 DEF EndRun, QuitRun, EndAssert, EndTest, EndCollectingRun, KeepValueRun,
                DropValueRun, Unwind, KeepTop, DropTop
  <2> QED
    BY <1>1, <2>1, <2>2 DEF ScopeStep
<1>2. CASE CommandStep
  BY <1>2 DEF CommandStep, BeginCommand, OpenBoundary, SealCommand, EndCommand
<1>3. CASE ProgramStep
  BY <1>3 DEF ProgramStep, WriteRow, ReadFails, MarkConsistent, RaiseError, EnterTry, LeaveTry,
              HostCatches, CollectError, ClearCollected, OpenCursor, CloseCursor, server
<1> QED
  BY <1>1, <1>2, <1>3 DEF Next

\* Whatever runs inside a test's isolation scope, and however it ends, no other
\* connection sees a row of it: Boundaries::Commit never reaches COMMIT under a floor.
THEOREM IsolationIsKept == Spec => IsolationHolds
<1>1. [Next]_vars => [floor # 0 => committed' = committed]_vars
  <2> SUFFICES ASSUME Next, floor # 0 PROVE committed' = committed
    BY DEF vars, server
  <2>1. CASE EndValueRun \/ CommitCommand \/ Commit
    BY <2>1, OnlyCommitsAreDurable DEF EndValueRun, CommitCommand, Commit
  <2> QED
    BY <2>1, OtherStepsAreNotDurable
<1> QED
  BY <1>1, PTL DEF Spec, IsolationHolds

\* Once a command's root is released, the command's Commit is all that can happen.
LEMMA OnlyCommitCommandDetaches ==
    ASSUME Next, pc = "seal"
    PROVE  CommitCommand
<1>1. ~ ScopeStep
  BY DEF ScopeStep, OpenScope, Running, EndRun, QuitRun, EndAssert, EndTest, EndCollectingRun,
         EndValueRun, KeepValueRun, DropValueRun, Unwind, BodyEnds
<1>2. CommandStep => CommitCommand
  BY DEF CommandStep, BeginCommand, SealCommand, BodyEnds, EndCommand
<1>3. ~ ProgramStep
  BY DEF ProgramStep, WriteRow, ReadFails, MarkConsistent, Commit, RaiseError, EnterTry, LeaveTry,
         HostCatches, CollectError, ClearCollected, OpenCursor, CloseCursor, Running
<1> QED
  BY <1>1, <1>2, <1>3 DEF Next

\* SessionCommand::Keep returns only when everything the session wrote is durable:
\* a failed transaction, a broken connection or a command cut short by its own AL
\* code never passes for a kept one.
THEOREM KeptCommandsAreDurable == Spec => KeptCommandIsDurable
<1>1. Inv /\ [Next]_vars => [(pc = "seal" /\ pc' = "detach") => view \subseteq committed']_vars
  <2> SUFFICES ASSUME Inv, Next, pc = "seal", pc' = "detach" PROVE view \subseteq committed'
    BY DEF vars, program
  <2>1. CommitBoundaries("detach", "raise")
    BY OnlyCommitCommandDetaches DEF CommitCommand
  <2>2. status = "active" /\ floor = 0
    BY DEF Inv, ScopesFit
  <2>3. CommitDone
    BY <2>1 DEF CommitBoundaries
  <2>4. ServerCommits
    BY <2>2, <2>3 DEF CommitDone, CommitsToServer, InTransaction
  <2> QED
    BY <2>2, <2>4 DEF ServerCommits
<1> QED
  BY <1>1, Invariance, PTL DEF Spec, KeptCommandIsDurable

----------------------------------------------------------------------------

\* What makes CurrentCursorExists inductive: no cursor is of an epoch to come, and one of
\* the current epoch is open on the server unless its transaction is beyond use.
CursorsFit ==
    \A c \in Cursors : opened[c] # Closed =>
        /\ opened[c] <= epoch
        /\ opened[c] = epoch => status # "idle" /\ (status = "active" => c \in cursors)

\* What every step but the cursors' own does to them: it moves the epoch on, or leaves a
\* transaction beyond use, or keeps them all in a transaction it may begin.
EpochMoves    == epoch' > epoch
BeyondUse     == epoch' = epoch /\ status' \in {"failed", "lost"}
CursorsStay   ==
    /\ epoch' = epoch /\ cursors' = cursors
    /\ status' = status \/ (status \in {"idle", "active"} /\ status' = "active")
CursorsFollow == EpochMoves \/ BeyondUse \/ CursorsStay

\* Such a step keeps what is known of the cursors.
LEMMA FollowingKeepsCursors ==
    ASSUME TypeOK, TypeOK', CursorsFit, CursorsFollow, opened' = opened
    PROVE  CursorsFit'
<1> SUFFICES ASSUME NEW c \in Cursors, opened[c] # Closed
             PROVE  /\ opened[c] <= epoch'
                    /\ opened[c] = epoch' =>
                          status' # "idle" /\ (status' = "active" => c \in cursors')
  BY DEF CursorsFit
<1>1. opened[c] \in Nat /\ epoch \in Nat /\ epoch' \in Nat /\ opened[c] <= epoch
  BY DEF TypeOK, CursorsFit
<1>2. CASE EpochMoves
  BY <1>1, <1>2 DEF EpochMoves
<1>3. CASE BeyondUse
  BY <1>1, <1>3 DEF BeyondUse
<1>4. CASE CursorsStay
  BY <1>1, <1>4 DEF CursorsStay, CursorsFit
<1> QED
  BY <1>2, <1>3, <1>4 DEF CursorsFollow

\* A refused statement leaves the cursors, or a transaction beyond use.
LEMMA RefusedFollows ==
    ASSUME Refused, UNCHANGED epoch
    PROVE  CursorsFollow
BY DEF Refused, Severed, CursorsFollow, BeyondUse, CursorsStay

\* Rollback moves the epoch exactly when it has reached the server.
LEMMA RollbackFollows ==
    ASSUME TypeOK, NEW d, RollsBack(d) \/ RollbackThrows(d)
    PROVE  CursorsFollow
BY DEF RollsBack, RollbackThrows, RestoreBoundary, RestoreBoundaryTo, Severed, TypeOK,
       CursorsFollow, EpochMoves, BeyondUse, CursorsStay

\* So does Release, whose failure is a rollback.
LEMMA ReleaseFollows ==
    ASSUME TypeOK, NEW d, Releases(d) \/ ReleaseThrows(d)
    PROVE  CursorsFollow
<1>1. CASE Releases(d)
  BY <1>1 DEF Releases, CursorsFollow, CursorsStay
<1>2. CASE RollbackThrows(d)
  BY <1>2, RollbackFollows
<1>3. CASE RestoreBoundary(d)
  BY <1>3 DEF RestoreBoundary, RestoreBoundaryTo, TypeOK, CursorsFollow, EpochMoves
<1> QED
  BY <1>1, <1>2, <1>3 DEF ReleaseThrows

\* Commit moves the epoch with every COMMIT, whatever becomes of the renewal after it.
LEMMA CommitFollows ==
    ASSUME TypeOK, NEW done, NEW thrown, CommitBoundaries(done, thrown)
    PROVE  CursorsFollow
<1>0. epoch \in Nat
  BY DEF TypeOK
<1>1. CASE CommitRefused
  BY <1>1 DEF CommitBoundaries, server, CursorsFollow, CursorsStay
<1>2. CASE CommitDone
  BY <1>0, <1>2 DEF CommitDone, CursorsFollow, EpochMoves, CursorsStay
<1>3. CASE CommitRejected
  BY <1>0, <1>3 DEF CommitRejected, CursorsFollow, EpochMoves
<1>4. CASE CommitSevered
  BY <1>0, <1>4 DEF CommitSevered, Severed, CursorsFollow, EpochMoves, BeyondUse
<1>5. CASE RenewalRefused
  BY <1>0, <1>5 DEF RenewalRefused, CursorsFollow, EpochMoves, BeyondUse
<1>6. CASE FloorReleaseRefused
  BY <1>6 DEF FloorReleaseRefused, CursorsFollow, BeyondUse
<1> QED
  BY <1>1, <1>2, <1>3, <1>4, <1>5, <1>6 DEF CommitBoundaries, CommitThrows

\* Opening a scope begins a transaction if there is none.
LEMMA OpenScopeFollows ==
    ASSUME NEW kind \in ScopeKinds, OpenScope(kind)
    PROVE  CursorsFollow /\ opened' = opened
<1>1. CASE RunRefused(kind)
  BY <1>1 DEF OpenScope, session, server, CursorsFollow, CursorsStay
<1>2. CASE OpenBoundary
  BY <1>2 DEF OpenScope, OpenBoundary, CursorsFollow, CursorsStay
<1>3. CASE OpenFails
  BY <1>3, RefusedFollows DEF OpenScope, OpenFails, CursorsFollow, CursorsStay
<1> QED
  BY <1>1, <1>2, <1>3 DEF OpenScope

\* The end of a scope keeps, discards or commits it.
LEMMA ScopeStepFollows ==
    ASSUME TypeOK, ScopeStep
    PROVE  CursorsFollow /\ opened' = opened
<1>1. ASSUME NEW kept, NEW thrown, KeepTop(kept, thrown) PROVE CursorsFollow /\ opened' = opened
  BY <1>1, ReleaseFollows DEF KeepTop
<1>2. ASSUME NEW dropped, NEW thrown, DropTop(dropped, thrown)
      PROVE  CursorsFollow /\ opened' = opened
  BY <1>2, RollbackFollows DEF DropTop
<1>3. CASE EndRun \/ EndAssert \/ KeepValueRun
  BY <1>1, <1>3 DEF EndRun, EndAssert, KeepValueRun
<1>4. CASE QuitRun \/ EndTest \/ EndCollectingRun \/ DropValueRun \/ Unwind
  BY <1>2, <1>4 DEF QuitRun, EndTest, EndCollectingRun, DropValueRun, Unwind
<1>5. CASE EndValueRun
  BY <1>5, CommitFollows DEF EndValueRun, CommitBoundaries
<1> QED
  BY <1>3, <1>4, <1>5, OpenScopeFollows DEF ScopeStep

\* A command's end moves the epoch, whatever its transaction has come to.
LEMMA CommandStepFollows ==
    ASSUME TypeOK, CommandStep
    PROVE  CursorsFollow /\ opened' = opened
<1>1. CASE BeginCommand
  BY <1>1 DEF BeginCommand, OpenBoundary, CursorsFollow, CursorsStay
<1>2. CASE SealCommand
  <2>1. CASE UnfinishedBoundary
    BY <1>2, <2>1 DEF SealCommand, CursorsFollow, CursorsStay
  <2>2. CASE ~ UnfinishedBoundary
    BY <1>2, <2>2, ReleaseFollows DEF SealCommand
  <2> QED
    BY <1>2, <2>1, <2>2 DEF SealCommand
<1>3. CASE CommitCommand
  BY <1>3, CommitFollows DEF CommitCommand, CommitBoundaries
<1>4. CASE EndCommand
  BY <1>4 DEF EndCommand, ClearCommand, ClearCommandTo, TypeOK, CursorsFollow, EpochMoves
<1> QED
  BY <1>1, <1>2, <1>3, <1>4 DEF CommandStep

\* A cursor is opened in the current epoch, in a transaction that is then under way.
LEMMA OpenCursorKeepsCursors ==
    ASSUME TypeOK, CursorsFit, NEW c \in Cursors, OpenCursor(c)
    PROVE  CursorsFit'
<1> SUFFICES ASSUME NEW o \in Cursors, opened'[o] # Closed
             PROVE  opened'[o] <= epoch /\ (opened'[o] = epoch => o \in cursors')
  BY DEF OpenCursor, session, CursorsFit
<1>1. epoch \in Nat /\ opened \in [Cursors -> Nat \cup {Closed}]
  BY DEF TypeOK
<1>2. CASE o = c
  BY <1>1, <1>2 DEF OpenCursor
<1>3. CASE o # c
  <2>1. opened'[o] = opened[o]
    BY <1>1, <1>3 DEF OpenCursor
  <2> QED
    BY <2>1 DEF OpenCursor, CursorsFit
<1> QED
  BY <1>2, <1>3

\* Closing a cursor touches no other one.
LEMMA CloseCursorKeepsCursors ==
    ASSUME TypeOK, CursorsFit, NEW c \in Cursors, CloseCursor(c)
    PROVE  CursorsFit'
<1> SUFFICES ASSUME NEW o \in Cursors, opened'[o] # Closed
             PROVE  /\ opened'[o] <= epoch
                    /\ opened'[o] = epoch =>
                          status # "idle" /\ (status = "active" => o \in cursors')
  BY DEF CloseCursor, session, CursorsFit
<1>1. opened \in [Cursors -> Nat \cup {Closed}]
  BY DEF TypeOK
<1>2. o # c /\ opened'[o] = opened[o]
  BY <1>1 DEF CloseCursor
<1> QED
  BY <1>2 DEF CloseCursor, CursorsFit

\* The statements of the AL program, the cursors' own among them.
LEMMA ProgramStepKeepsCursors ==
    ASSUME TypeOK, TypeOK', CursorsFit, ProgramStep
    PROVE  CursorsFit'
<1>1. ASSUME NEW r \in Rows, WriteRow(r) PROVE CursorsFollow /\ opened' = opened
  <2>1. CASE Refused
    BY <1>1, <2>1, RefusedFollows DEF WriteRow
  <2>2. CASE ~ Refused
    BY <1>1, <2>2 DEF WriteRow, server, CursorsFollow, CursorsStay
  <2> QED
    BY <2>1, <2>2
<1>2. CASE ReadFails
  BY <1>2, RefusedFollows, FollowingKeepsCursors DEF ReadFails, session
<1>3. CASE Commit
  BY <1>3, CommitFollows, FollowingKeepsCursors DEF Commit, CommitBoundaries
<1>4. CASE \/ \E t \in Tables, consistent \in BOOLEAN : MarkConsistent(t, consistent)
           \/ RaiseError \/ EnterTry \/ LeaveTry \/ HostCatches
           \/ CollectError \/ ClearCollected
  <2>1. CursorsStay /\ opened' = opened
    BY <1>4 DEF MarkConsistent, RaiseError, EnterTry, LeaveTry, HostCatches, CollectError,
                ClearCollected, session, server, program, CursorsStay
  <2> QED
    BY <2>1, FollowingKeepsCursors DEF CursorsFollow
<1>5. ASSUME NEW c \in Cursors, OpenCursor(c) \/ CloseCursor(c) PROVE CursorsFit'
  BY <1>5, OpenCursorKeepsCursors, CloseCursorKeepsCursors
<1> QED
  BY <1>1, <1>2, <1>3, <1>4, <1>5, FollowingKeepsCursors DEF ProgramStep

\* A cursor that Cursor::Current lets a record fetch from is open on the server: no
\* rollback, Commit or end of a command closes it there and leaves it believed open.
THEOREM CurrentCursorsExist == Spec => []CurrentCursorExists
<1>1. Init => CursorsFit
  BY DEF Init, CursorsFit
<1>2. Inv /\ Inv' /\ CursorsFit /\ [Next]_vars => CursorsFit'
  <2> SUFFICES ASSUME TypeOK, TypeOK', CursorsFit, [Next]_vars PROVE CursorsFit'
    BY DEF Inv
  <2>1. CASE ScopeStep
    BY <2>1, ScopeStepFollows, FollowingKeepsCursors
  <2>2. CASE CommandStep
    BY <2>2, CommandStepFollows, FollowingKeepsCursors
  <2>3. CASE ProgramStep
    BY <2>3, ProgramStepKeepsCursors
  <2>4. CASE UNCHANGED vars
    BY <2>4 DEF vars, session, server, program, CursorsFit
  <2> QED
    BY <2>1, <2>2, <2>3, <2>4 DEF Next
<1>3. Inv /\ CursorsFit => CurrentCursorExists
  BY BoundariesAssumption DEF Inv, TypeOK, CursorsFit, CurrentCursorExists, CursorCurrent
<1> QED
  BY <1>1, <1>2, <1>3, Invariance, PTL DEF Spec

----------------------------------------------------------------------------
(* The write phase where there is no test isolation, as in every session that commands *)
(* host: an isolated Commit leaves writing_ FALSE over rows no other connection sees.   *)

\* What makes PendingIsWriting inductive: writing_ tells the truth, and so does what every
\* boundary restores it to; no transaction, nothing pending.
PhaseFits ==
    status # "lost" =>
        /\ status = "idle" => view = committed
        /\ status = "active" /\ view # committed => writing
        /\ \A i \in 1..Len(saves) : saves[i].view # committed => names[i].writingBefore

\* RunStartsClean without the isolation: every Commit moves the marks with the rows.
MarksFit ==
    status # "lost" =>
        \A i \in 1..Len(frames) : frames[i].kind = "value" => frames[i].mark.data = committed

\* A rollback puts rows and write phase back to what they were together.
LEMMA RestoreKeepsPhase ==
    ASSUME TypeOK, SavepointsMatch, PhaseFits, NEW d \in Nat \ {0}, d <= Len(saves),
           status # "lost", RestoreBoundary(d), UNCHANGED committed
    PROVE  PhaseFits'
<1>1. d \in 1..Len(saves) /\ d - 1 \in 0..Len(saves) /\ d - 1 \in 0..Len(names)
  BY LenProperties DEF TypeOK, SavepointsMatch
<1>2. /\ Len(saves') = d - 1
      /\ \A i \in 1..(d - 1) : saves'[i] = saves[i] /\ names'[i] = names[i]
  BY <1>1, PrefixIsSeq DEF RestoreBoundary, RestoreBoundaryTo, TypeOK
<1>3. status' = "active" /\ view' = saves[d].view /\ writing' = names[d].writingBefore
  BY DEF RestoreBoundary, RestoreBoundaryTo
<1>4. \A i \in 1..(d - 1) : saves'[i].view # committed => names'[i].writingBefore
  BY <1>1, <1>2 DEF PhaseFits
<1> QED
  BY <1>1, <1>2, <1>3, <1>4 DEF PhaseFits

\* So does Boundaries::Rollback, and one that fails leaves no transaction to work in.
LEMMA RollbackKeepsPhase ==
    ASSUME TypeOK, SavepointsMatch, PhaseFits, NEW d \in Nat \ {0},
           RollsBack(d) \/ RollbackThrows(d), UNCHANGED committed
    PROVE  PhaseFits' /\ (status' # "lost" => status # "lost")
<1>1. CASE RollsBack(d) /\ d > Len(names)
  BY <1>1 DEF RollsBack, PhaseFits
<1>2. CASE RollsBack(d) /\ ~ d > Len(names)
  BY <1>2, RestoreKeepsPhase DEF RollsBack, InTransaction
<1>3. CASE RollbackThrows(d) /\ UNCHANGED saves
  <2>1. UNCHANGED <<names, committed>>
    BY <1>3 DEF RollbackThrows
  <2>2. status' \in {"failed", "lost"} /\ (status' # "lost" => status # "lost")
    BY <1>3 DEF RollbackThrows, Severed, InTransaction
  <2> QED
    BY <1>3, <2>1, <2>2 DEF PhaseFits
<1>4. CASE RollbackThrows(d) /\ d <= Len(saves) /\ saves' = Prefix(saves, d)
           /\ status # "lost" /\ status' = "failed"
  <2>1. d \in 0..Len(saves)
    BY <1>4, LenProperties DEF TypeOK
  <2>2. Len(saves') = d /\ \A i \in 1..d : saves'[i] = saves[i]
    BY <1>4, <2>1, PrefixIsSeq DEF TypeOK
  <2>3. UNCHANGED <<names, committed>>
    BY <1>4 DEF RollbackThrows
  <2> QED
    BY <1>4, <2>1, <2>2, <2>3 DEF PhaseFits
<1>5. CASE RollbackThrows(d) /\ status' = "lost"
  BY <1>5 DEF PhaseFits
<1> QED
  BY <1>1, <1>2, <1>3, <1>4, <1>5 DEF RollbackThrows, Severed, InTransaction

\* Release keeps the rows and their phase; refused, it is a rollback.
LEMMA ReleaseKeepsPhase ==
    ASSUME TypeOK, SavepointsMatch, PhaseFits, NEW d \in Nat \ {0},
           Releases(d) \/ ReleaseThrows(d), UNCHANGED committed
    PROVE  PhaseFits' /\ (status' # "lost" => status # "lost")
<1>1. CASE Releases(d) /\ d > Len(names)
  BY <1>1 DEF Releases, PhaseFits
<1>2. CASE Releases(d) /\ ~ d > Len(names)
  <2>1. status = "active" /\ names' = Prefix(names, d - 1) /\ saves' = Prefix(saves, d - 1)
        /\ UNCHANGED <<status, view, writing>>
    BY <1>2 DEF Releases
  <2>2. d - 1 \in 0..Len(saves) /\ d - 1 \in 0..Len(names)
    BY <1>2, <2>1, LenProperties DEF TypeOK, SavepointsMatch
  <2>3. /\ Len(saves') = d - 1
        /\ \A i \in 1..(d - 1) : saves'[i] = saves[i] /\ names'[i] = names[i]
    BY <2>1, <2>2, PrefixIsSeq DEF TypeOK
  <2> QED
    BY <2>1, <2>2, <2>3 DEF PhaseFits
<1>3. CASE RollbackThrows(d)
  BY <1>3, RollbackKeepsPhase
<1>4. CASE ~ RollbackThrows(d) /\ ReleaseThrows(d)
  <2>1. d <= Len(saves) /\ RestoreBoundary(d) /\ status # "lost"
    BY <1>4 DEF ReleaseThrows
  <2> QED
    BY <2>1, RestoreKeepsPhase
<1> QED
  BY <1>1, <1>2, <1>3, <1>4

\* A refused statement changes neither rows nor boundaries.
LEMMA RefusedKeepsPhase ==
    ASSUME PhaseFits, Refused, UNCHANGED <<names, view, committed>>
    PROVE  PhaseFits' /\ (status' # "lost" => status # "lost")
BY DEF Refused, Severed, PhaseFits

\* A boundary notes the rows and the phase of one moment.
LEMMA OpenBoundaryKeepsPhase ==
    ASSUME TypeOK, SavepointsMatch, PhaseFits, OpenBoundary
    PROVE  PhaseFits'
<1>1. /\ Len(names) = Len(saves) /\ Len(saves) \in Nat
      /\ status \in {"idle", "active"} /\ status' = "active"
      /\ UNCHANGED <<writing, view, committed>>
  BY LenProperties, EmptySeq DEF OpenBoundary, TypeOK, SavepointsMatch
<1>2. view # committed => writing
  BY <1>1 DEF PhaseFits
<1>3. /\ Len(saves') = Len(saves) + 1
      /\ \A i \in 1..Len(saves) : saves'[i] = saves[i] /\ names'[i] = names[i]
      /\ saves'[Len(saves) + 1].view = view /\ names'[Len(saves) + 1].writingBefore = writing
  BY <1>1 DEF OpenBoundary, TypeOK
<1>4. \A i \in 1..Len(saves') : saves'[i].view # committed => names'[i].writingBefore
  BY <1>1, <1>2, <1>3 DEF PhaseFits
<1> QED
  BY <1>1, <1>2, <1>4 DEF PhaseFits

\* Without a floor every scope is remarked.
LEMMA RemarkedIsMarked ==
    ASSUME TypeOK, NEW data \in SUBSET Rows, frames' = Remarked(0, data)
    PROVE  \A i \in 1..Len(frames') : frames'[i].mark.data = data
<1> SUFFICES ASSUME NEW i \in 1..Len(frames) PROVE Remarked(0, data)[i].mark.data = data
  BY RemarkedIsSeq DEF TypeOK
<1>1. frames[i] \in Frame
  BY ElementOfSeq DEF TypeOK
<1>2. frames[i].depth > 0
  BY <1>1 DEF Frame
<1>3. Remarked(0, data)[i] = [frames[i] EXCEPT !.mark = [data |-> data, marks |-> {}]]
  BY <1>2 DEF Remarked
<1> QED
  BY <1>1, <1>3 DEF Frame

\* Without a floor a Commit that ends the transaction leaves nothing pending anywhere.
LEMMA CommitKeepsPhase ==
    ASSUME TypeOK, SavepointsMatch, PhaseFits, MarksFit, floor = 0,
           NEW done, NEW thrown, CommitBoundaries(done, thrown)
    PROVE  PhaseFits' /\ MarksFit'
<1>0. Len(names) \in Nat /\ view \in SUBSET Rows /\ committed \in SUBSET Rows
  BY LenProperties DEF TypeOK
<1>1. CASE CommitRefused
  BY <1>1 DEF CommitBoundaries, server, PhaseFits, MarksFit
<1>2. CASE CommitDone /\ CommitsToServer /\ ~ CommitRefused
  <2>1. status = "active" /\ committed' = view /\ view' = view /\ frames' = Remarked(0, view)
        /\ saves' = RenewedSaves(Renewals, view, {})
    BY <1>2 DEF CommitDone, CommitsToServer, CommitRefused, InTransaction, ServerCommits
  <2>2. \A i \in 1..Len(saves') : saves'[i].view = view
    BY <1>0, <2>1, LenProperties DEF RenewedSaves, Renewals, TypeOK
  <2>3. MarksFit'
    BY <1>0, <2>1, RemarkedIsMarked DEF MarksFit
  <2> QED
    BY <2>1, <2>2, <2>3 DEF PhaseFits
<1>3. CASE CommitDone /\ ~ CommitsToServer
  <2>1. status \notin {"active", "failed"}
        /\ UNCHANGED <<status, saves, frames, view, committed>>
    BY <1>3 DEF CommitDone, CommitsToServer, InTransaction
  <2>2. CASE status = "lost"
    BY <2>1, <2>2 DEF PhaseFits, MarksFit
  <2>3. CASE status = "idle"
    <3>1. Len(saves) = 0
      BY <2>3, LenProperties, EmptySeq DEF TypeOK, SavepointsMatch
    <3> QED
      BY <2>1, <2>3, <3>1 DEF PhaseFits, MarksFit
  <2> QED
    BY <2>1, <2>2, <2>3 DEF TypeOK, Statuses
<1>4. CASE CommitRejected
  <2>1. view' = committed /\ committed' = committed /\ saves' = <<>> /\ status' = "idle"
        /\ frames' = Remarked(0, committed)
    BY <1>4 DEF CommitRejected
  <2>2. MarksFit'
    BY <1>0, <2>1, RemarkedIsMarked DEF MarksFit
  <2> QED
    BY <2>1, <2>2, EmptySeq DEF PhaseFits
<1>5. CASE CommitSevered
  BY <1>5 DEF CommitSevered, Severed, PhaseFits, MarksFit
<1>6. CASE RenewalRefused
  <2>1. /\ committed' = view /\ view' = view /\ status' = "failed" /\ frames' = Remarked(0, view)
        /\ \E n \in 0..(Renewals - 1) : saves' = RenewedSaves(n, view, {})
    BY <1>6 DEF RenewalRefused
  <2>2. \A i \in 1..Len(saves') : saves'[i].view = view
    BY <1>0, <2>1, LenProperties DEF RenewedSaves, Renewals, TypeOK
  <2>3. MarksFit'
    BY <1>0, <2>1, RemarkedIsMarked DEF MarksFit
  <2> QED
    BY <2>1, <2>2, <2>3 DEF PhaseFits
<1>7. ~ FloorReleaseRefused
  BY DEF FloorReleaseRefused
<1> QED
  BY <1>1, <1>2, <1>3, <1>4, <1>5, <1>6, <1>7 DEF CommitBoundaries, CommitThrows
\* Closing a scope changes the marks of no other.
LEMMA PoppedKeepsMarks ==
    ASSUME TypeOK, MarksFit, frames # <<>>, Popped, UNCHANGED committed,
           status' # "lost" => status # "lost"
    PROVE  MarksFit'
<1>1. Len(frames) - 1 \in 0..Len(frames)
  BY TopIsFrame
<1>2. Len(frames') = Len(frames) - 1 /\ \A i \in 1..(Len(frames) - 1) : frames'[i] = frames[i]
  BY <1>1, PrefixIsSeq DEF Popped, TypeOK
<1> QED
  BY <1>1, <1>2 DEF MarksFit

\* A scope is opened over rows whose phase is known: an evaluated Run over none.
LEMMA OpenScopeKeepsPhase ==
    ASSUME Inv, floor = 0, PhaseFits, MarksFit, NEW kind \in ScopeKinds, OpenScope(kind)
    PROVE  PhaseFits' /\ MarksFit'
<1>1. CASE RunRefused(kind)
  BY <1>1 DEF OpenScope, session, server, PhaseFits, MarksFit
<1>2. CASE ~ RunRefused(kind) /\ OpenBoundary
  <2>1. PhaseFits'
    BY <1>2, OpenBoundaryKeepsPhase DEF Inv
  <2>2. status \in {"idle", "active"} /\ UNCHANGED committed
    BY <1>2 DEF OpenBoundary
  <2>3. CASE UNCHANGED frames
    BY <2>1, <2>2, <2>3 DEF MarksFit
  <2>4. CASE frames' = Append(frames, NewFrame(kind))
    <3>1. /\ Len(frames) \in Nat /\ Len(frames') = Len(frames) + 1
          /\ \A i \in 1..Len(frames) : frames'[i] = frames[i]
          /\ frames'[Len(frames) + 1] = NewFrame(kind)
      BY <2>4, LenProperties DEF Inv, TypeOK
    <3>2. kind = "value" => view = committed
      BY <1>2, <2>2 DEF RunRefused, PhaseFits
    <3>3. NewFrame(kind).kind = kind /\ NewFrame(kind).mark.data = view
      BY DEF NewFrame
    <3> QED
      BY <2>1, <2>2, <3>1, <3>2, <3>3 DEF MarksFit
  <2> QED
    BY <1>2, <2>1, <2>3, <2>4 DEF OpenScope
<1>3. CASE ~ RunRefused(kind) /\ OpenFails /\ UNCHANGED frames
  <2>1. UNCHANGED <<names, writing, view, committed, frames>>
    BY <1>3 DEF OpenFails
  <2>2. CASE floor > Len(names)
    BY <1>3, <2>1, <2>2 DEF OpenFails, PhaseFits, MarksFit
  <2>3. CASE Refused
    BY <2>1, <2>3, RefusedKeepsPhase DEF MarksFit
  <2> QED
    BY <1>3, <2>2, <2>3 DEF OpenFails
<1> QED
  BY <1>1, <1>2, <1>3 DEF OpenScope

\* The end of a scope, kept, discarded or committed.
LEMMA ScopeStepKeepsPhase ==
    ASSUME Inv, floor = 0, PhaseFits, MarksFit, ScopeStep
    PROVE  PhaseFits' /\ MarksFit'
<1>0. TypeOK /\ SavepointsMatch /\ (pc \in {"keep", "drop"} => frames # <<>>)
  BY DEF Inv, ScopesFit
<1>1. ASSUME NEW kept, NEW thrown, KeepTop(kept, thrown), frames # <<>>
      PROVE  PhaseFits' /\ MarksFit'
  <2>1. Top.depth \in Nat \ {0} /\ Popped /\ UNCHANGED committed
    BY <1>0, <1>1, TopIsFrame DEF KeepTop, Frame
  <2> QED
    BY <1>0, <1>1, <2>1, ReleaseKeepsPhase, PoppedKeepsMarks DEF KeepTop
<1>2. ASSUME NEW dropped, NEW thrown, DropTop(dropped, thrown), frames # <<>>
      PROVE  PhaseFits' /\ MarksFit'
  <2>1. Top.depth \in Nat \ {0} /\ Popped /\ UNCHANGED committed
    BY <1>0, <1>2, TopIsFrame DEF DropTop, Frame
  <2> QED
    BY <1>0, <1>2, <2>1, RollbackKeepsPhase, PoppedKeepsMarks DEF DropTop
<1>3. CASE EndRun \/ EndAssert \/ KeepValueRun
  BY <1>0, <1>1, <1>3 DEF EndRun, EndAssert, KeepValueRun, BodyEnds
<1>4. CASE QuitRun \/ EndTest \/ EndCollectingRun \/ DropValueRun \/ Unwind
  BY <1>0, <1>2, <1>4 DEF QuitRun, EndTest, EndCollectingRun, DropValueRun, Unwind, BodyEnds
<1>5. CASE EndValueRun
  BY <1>0, <1>5, CommitKeepsPhase DEF EndValueRun
<1> QED
  BY <1>3, <1>4, <1>5, OpenScopeKeepsPhase DEF ScopeStep

\* A command begins and ends with nothing pending.
LEMMA CommandStepKeepsPhase ==
    ASSUME Inv, floor = 0, PhaseFits, MarksFit, CommandStep
    PROVE  PhaseFits' /\ MarksFit'
<1>0. TypeOK /\ SavepointsMatch
  BY DEF Inv
<1>1. CASE BeginCommand
  <2>1. PhaseFits'
    BY <1>0, <1>1, OpenBoundaryKeepsPhase DEF BeginCommand
  <2>2. MarksFit'
    BY <1>1 DEF BeginCommand, NewFrame, MarksFit
  <2> QED
    BY <2>1, <2>2
<1>2. CASE SealCommand
  <2>1. UNCHANGED <<frames, committed>>
    BY <1>2 DEF SealCommand
  <2>2. CASE UnfinishedBoundary
    BY <1>2, <2>1, <2>2 DEF SealCommand, PhaseFits, MarksFit
  <2>3. CASE ~ UnfinishedBoundary
    <3>1. PhaseFits' /\ (status' # "lost" => status # "lost")
      BY <1>0, <1>2, <2>1, <2>3, ReleaseKeepsPhase DEF SealCommand
    <3> QED
      BY <2>1, <3>1 DEF MarksFit
  <2> QED
    BY <2>2, <2>3
<1>3. CASE CommitCommand
  BY <1>0, <1>3, CommitKeepsPhase DEF CommitCommand
<1>4. CASE EndCommand
  BY <1>4, EmptySeq DEF EndCommand, PhaseFits, MarksFit
<1> QED
  BY <1>1, <1>2, <1>3, <1>4 DEF CommandStep

\* A write enters the write phase before the row is stored.
LEMMA WriteRowKeepsPhase ==
    ASSUME PhaseFits, MarksFit, NEW r \in Rows, WriteRow(r)
    PROVE  PhaseFits' /\ MarksFit'
<1>0. UNCHANGED <<names, frames, committed>>
  BY DEF WriteRow, server
<1>1. CASE DisableTryWrites /\ tryDepth # 0
  BY <1>1 DEF WriteRow, server, PhaseFits, MarksFit
<1>2. CASE /\ status \in {"idle", "active"}
           /\ status' = "active" /\ writing' = TRUE /\ UNCHANGED saves
  BY <1>0, <1>2 DEF PhaseFits, MarksFit
<1>3. CASE Refused /\ UNCHANGED view
  BY <1>0, <1>3, RefusedKeepsPhase DEF MarksFit
<1> QED
  BY <1>1, <1>2, <1>3 DEF WriteRow

\* The other statements write no row.
LEMMA ProgramStepKeepsPhase ==
    ASSUME Inv, floor = 0, PhaseFits, MarksFit, ProgramStep
    PROVE  PhaseFits' /\ MarksFit'
<1>1. CASE ReadFails
  BY <1>1, RefusedKeepsPhase DEF ReadFails, session, MarksFit
<1>2. CASE Commit
  BY <1>2, CommitKeepsPhase DEF Commit, Inv
<1>3. CASE \/ \E t \in Tables, consistent \in BOOLEAN : MarkConsistent(t, consistent)
           \/ RaiseError \/ EnterTry \/ LeaveTry \/ HostCatches
           \/ CollectError \/ ClearCollected
           \/ \E c \in Cursors : CloseCursor(c)
  <2>1. UNCHANGED <<status, view, committed, saves, names, writing, frames>>
    BY <1>3 DEF MarkConsistent, RaiseError, EnterTry, LeaveTry, HostCatches, CollectError,
                ClearCollected, CloseCursor, session, server, program
  <2> QED
    BY <2>1 DEF PhaseFits, MarksFit
<1>4. ASSUME NEW c \in Cursors, OpenCursor(c) PROVE PhaseFits' /\ MarksFit'
  BY <1>4 DEF OpenCursor, session, PhaseFits, MarksFit
<1> QED
  BY <1>1, <1>2, <1>3, <1>4, WriteRowKeepsPhase DEF ProgramStep

\* Only a test runner's scope raises the floor, and its own end takes it down.
NoTests == floor = 0 /\ \A i \in 1..Len(frames) : frames[i].kind # "test"

\* Closing a scope that is no test's leaves the floor.
LEMMA PoppedKeepsNoTests ==
    ASSUME TypeOK, NoTests, frames # <<>>, Popped
    PROVE  NoTests'
<1>1. Len(frames) \in Nat \ {0} /\ Len(frames) - 1 \in 0..Len(frames)
  BY TopIsFrame
<1>2. Len(frames') = Len(frames) - 1 /\ \A i \in 1..(Len(frames) - 1) : frames'[i] = frames[i]
  BY <1>1, PrefixIsSeq DEF Popped, TypeOK
<1>3. floor' = 0
  BY <1>1 DEF Popped, Top, NoTests
<1> QED
  BY <1>1, <1>2, <1>3 DEF NoTests

\* A program that uses no test scopes never has a floor.
LEMMA NextKeepsNoTests ==
    ASSUME "test" \notin ScopeKinds, Inv, NoTests, [Next]_vars
    PROVE  NoTests'
<1>0. TypeOK /\ SavepointsMatch /\ (pc \in {"keep", "drop"} => frames # <<>>)
  BY DEF Inv, ScopesFit
<1>1. CASE \/ EndRun \/ EndAssert \/ KeepValueRun \/ QuitRun \/ EndTest
           \/ EndCollectingRun \/ DropValueRun \/ Unwind
  <2>1. frames # <<>> /\ Popped
    BY <1>0, <1>1 DEF EndRun, EndAssert, KeepValueRun, QuitRun, EndTest, EndCollectingRun,
                      DropValueRun, Unwind, BodyEnds, KeepTop, DropTop
  <2> QED
    BY <1>0, <2>1, PoppedKeepsNoTests
<1>2. CASE EndValueRun \/ CommitCommand \/ Commit
  <2>1. \E done, thrown \in Phases : CommitBoundaries(done, thrown)
    BY <1>2 DEF EndValueRun, CommitCommand, Commit, Phases
  <2>2. SameScopes /\ floor' = floor
    BY <1>0, <2>1, CommitKeepsInvariant
  <2> QED
    BY <2>2 DEF SameScopes, NoTests
<1>3. ASSUME NEW kind \in ScopeKinds, OpenScope(kind) PROVE NoTests'
  <2>1. floor' = floor /\ (frames' = frames \/ frames' = Append(frames, NewFrame(kind)))
    BY <1>3 DEF OpenScope, session
  <2>2. NewFrame(kind).kind # "test"
    BY DEF NewFrame
  <2>3. CASE frames' = Append(frames, NewFrame(kind))
    <3>1. /\ Len(frames) \in Nat /\ Len(frames') = Len(frames) + 1
          /\ \A i \in 1..Len(frames) : frames'[i] = frames[i]
          /\ frames'[Len(frames) + 1] = NewFrame(kind)
      BY <1>0, <2>3, LenProperties DEF TypeOK
    <3> QED
      BY <2>1, <2>2, <3>1 DEF NoTests
  <2> QED
    BY <2>1, <2>3 DEF NoTests
<1>4. CASE BeginCommand
  BY <1>4 DEF BeginCommand, NewFrame, NoTests
<1>5. CASE SealCommand
  BY <1>5 DEF SealCommand, NoTests
<1>6. CASE EndCommand
  BY <1>6, EmptySeq DEF EndCommand, ClearCommand, ClearCommandTo, NoTests
<1>7. CASE ProgramStep /\ ~ Commit
  <2>1. UNCHANGED <<frames, floor>>
    BY <1>7 DEF ProgramStep, WriteRow, ReadFails, MarkConsistent, RaiseError, EnterTry, LeaveTry,
                HostCatches, CollectError, ClearCollected, OpenCursor, CloseCursor, session,
                server, program
  <2> QED
    BY <2>1 DEF NoTests
<1>8. CASE UNCHANGED vars
  BY <1>8 DEF vars, session, program, NoTests
<1> QED
  BY <1>1, <1>2, <1>3, <1>4, <1>5, <1>6, <1>7, <1>8 DEF Next, ScopeStep, CommandStep

\* No test isolation: a session that commands host, or a program that runs no tests.
Unisolated == Hosted \/ "test" \notin ScopeKinds

\* Without test isolation writing_ and the marks are right in every state.
LEMMA UnisolatedPhaseFits ==
    ASSUME Unisolated
    PROVE  Spec => [](PhaseFits /\ MarksFit)
<1>1. Init => NoTests /\ PhaseFits /\ MarksFit
  BY EmptySeq DEF Init, NoTests, PhaseFits, MarksFit
<1>2. Inv /\ (Hosted \/ NoTests) => floor = 0
  BY DEF Inv, ScopesFit, NoTests
<1>3. Inv /\ (Hosted \/ NoTests) /\ [Next]_vars => (Hosted \/ NoTests)'
  BY NextKeepsNoTests DEF Unisolated
<1>4. Inv /\ floor = 0 /\ PhaseFits /\ MarksFit /\ [Next]_vars => PhaseFits' /\ MarksFit'
  <2> SUFFICES ASSUME Inv, floor = 0, PhaseFits, MarksFit, [Next]_vars PROVE PhaseFits' /\ MarksFit'
    OBVIOUS
  <2>1. CASE UNCHANGED vars
    BY <2>1 DEF vars, session, server, program, PhaseFits, MarksFit
  <2> QED
    BY <2>1, ScopeStepKeepsPhase, CommandStepKeepsPhase, ProgramStepKeepsPhase DEF Next
<1> QED
  BY <1>1, <1>2, <1>3, <1>4, Invariance, PTL DEF Spec


----------------------------------------------------------------------------
(* Where COMMIT itself is not rejected, the scopes and the boundaries match one for one  *)
(* wherever AL code can go on: what a scope is meant to restore is what its boundary     *)
(* does restore. A rejected COMMIT breaks this: the scopes outlive their boundaries.     *)

CommitsAccepted == "commit" \notin FaultKinds

\* f is the innermost test scope of the first n, or 0.
InnermostTest(scopes, n, f) ==
    /\ f \in 0..n
    /\ f # 0 => scopes[f].kind = "test"
    /\ \A j \in (f + 1)..n : scopes[j].kind # "test"

\* isolationFloor_ is the depth of the innermost test scope, and every scope knows the one
\* it was opened in.
FloorsFit ==
    /\ InnermostTest(frames, Len(frames), floor)
    /\ \A i \in 1..Len(frames) : InnermostTest(frames, i - 1, frames[i].floorBefore)

DepthsFit == \A i \in 1..Len(frames) : frames[i].depth = i

\* A hosted session has the command's root scope outermost, and no other command.
CommandFirst == \A i \in 1..Len(frames) : frames[i].kind = "command" <=> Hosted /\ i = 1

ShapeFits == FloorsFit /\ DepthsFit /\ CommandFirst

\* The command's boundary is released or rolled back, and its scope about to end.
Sealed ==
    /\ Hosted /\ Len(frames) = 1 /\ names = <<>>
    /\ pc \in {"seal", "detach", "raise"} /\ tryDepth = frames[1].triesBefore

PhasesFit ==
    /\ pc \in {"keep", "drop"} => Top.kind = "value"
    /\ pc \in {"seal", "detach"} => Sealed

\* In a transaction that can go on, every scope has its boundary.
StacksFit == status \in {"idle", "active"} => Len(names) = Len(frames) \/ Sealed

RestoredTo(i) == [data |-> saves[i].view, marks |-> names[i].inconsistentBefore]

\* What is left of the savepoints restores what the scopes are meant to restore.
RestorePointsFit ==
    status # "lost" => \A i \in 1..Len(frames) : i <= Len(saves) => frames[i].mark = RestoredTo(i)

\* A command begins with nothing pending, and ends with nothing else.
CommandsStartClean ==
    Hosted =>
        /\ frames = <<>> => status = "idle" /\ view = committed /\ inconsistent = {}
        /\ frames # <<>> => frames[1].mark = OnlyCommitted

\* Outside test isolation writing_ tells the truth, and so does what the boundaries opened
\* there restore it to.
WritingFits ==
    status # "lost" =>
        /\ floor = 0 /\ status = "idle" => view = committed
        /\ floor = 0 /\ status = "active" /\ view # committed => writing
        /\ \A i \in 1..Len(frames) :
              i <= Len(saves) /\ frames[i].floorBefore = 0 /\ saves[i].view # committed
                  => names[i].writingBefore

\* An evaluated Run that was opened outside test isolation started with nothing pending.
RunsFit ==
    status # "lost" =>
        \A i \in 1..Len(frames) :
            frames[i].kind = "value" /\ frames[i].floorBefore = 0 => frames[i].mark.data = committed

NestingFits ==
    /\ ShapeFits /\ PhasesFit /\ StacksFit /\ RestorePointsFit
    /\ CommandsStartClean /\ WritingFits /\ RunsFit

\* A step that moves no scope, but for what it is meant to restore.
SameShape ==
    /\ Len(frames') = Len(frames)
    /\ \A i \in 1..Len(frames) :
          /\ frames'[i].kind = frames[i].kind /\ frames'[i].depth = frames[i].depth
          /\ frames'[i].triesBefore = frames[i].triesBefore
          /\ frames'[i].floorBefore = frames[i].floorBefore

\* Marks apart, the scopes are what they were.
LEMMA SameShapeKeepsShape ==
    ASSUME Len(frames) \in Nat, ShapeFits, SameShape, floor' = floor
    PROVE  ShapeFits'
<1>1. ASSUME NEW n \in 0..Len(frames), NEW f, InnermostTest(frames, n, f)
      PROVE  InnermostTest(frames', n, f)
  BY <1>1 DEF SameShape, InnermostTest
<1>2. Len(frames) \in 0..Len(frames) /\ \A i \in 1..Len(frames) : i - 1 \in 0..Len(frames)
  OBVIOUS
<1>3. FloorsFit'
  <2>1. InnermostTest(frames', Len(frames'), floor')
    BY <1>1, <1>2 DEF ShapeFits, FloorsFit, SameShape
  <2>2. ASSUME NEW i \in 1..Len(frames) PROVE InnermostTest(frames', i - 1, frames'[i].floorBefore)
    BY <1>1, <1>2 DEF ShapeFits, FloorsFit, SameShape
  <2> QED
    BY <2>1, <2>2 DEF FloorsFit, SameShape
<1> QED
  BY <1>3 DEF ShapeFits, DepthsFit, CommandFirst, SameShape

\* Closing the innermost scope puts back the floor it was opened in.
LEMMA PoppedKeepsShape ==
    ASSUME TypeOK, ShapeFits, frames # <<>>, Popped
    PROVE  /\ Len(frames) \in Nat \ {0} /\ Len(frames') = Len(frames) - 1
           /\ \A i \in 1..(Len(frames) - 1) : frames'[i] = frames[i]
           /\ ShapeFits'
           /\ floor' = 0 => Top.floorBefore = 0
           /\ Top.kind # "test" => floor' = floor
<1>1. Len(frames) \in Nat \ {0} /\ Len(frames) - 1 \in 0..Len(frames)
  BY TopIsFrame
<1> DEFINE last == Len(frames)
<1>2. Len(frames') = last - 1 /\ \A i \in 1..(last - 1) : frames'[i] = frames[i]
  BY <1>1, PrefixIsSeq DEF Popped, TypeOK
<1>3. /\ InnermostTest(frames, last, floor)
      /\ InnermostTest(frames, last - 1, Top.floorBefore)
      /\ \A i \in 1..(last - 1) : InnermostTest(frames, i - 1, frames[i].floorBefore)
  BY <1>1 DEF ShapeFits, FloorsFit, Top
<1>4. Top.kind # "test" =>
         /\ InnermostTest(frames, last - 1, floor)
         /\ floor = 0 => Top.floorBefore = 0
  BY <1>1, <1>3 DEF InnermostTest, Top
<1>5. InnermostTest(frames, last - 1, floor')
  BY <1>3, <1>4 DEF Popped
<1>6. ASSUME NEW n \in 0..(last - 1), NEW f, InnermostTest(frames, n, f)
      PROVE  InnermostTest(frames', n, f)
  BY <1>1, <1>2, <1>6 DEF InnermostTest
<1>7. FloorsFit'
  <2>1. InnermostTest(frames', Len(frames'), floor')
    BY <1>1, <1>2, <1>5, <1>6
  <2>2. ASSUME NEW i \in 1..(last - 1) PROVE InnermostTest(frames', i - 1, frames'[i].floorBefore)
    BY <1>1, <1>2, <1>3, <1>6
  <2> QED
    BY <1>2, <2>1, <2>2 DEF FloorsFit
<1>8. DepthsFit' /\ CommandFirst'
  BY <1>1, <1>2 DEF ShapeFits, DepthsFit, CommandFirst
<1>9. (floor' = 0 => Top.floorBefore = 0) /\ (Top.kind # "test" => floor' = floor)
  BY <1>4 DEF Popped
<1> QED
  BY <1>1, <1>2, <1>7, <1>8, <1>9 DEF ShapeFits

\* A scope is opened at the depth of its boundary, and as a test's it is the floor.
LEMMA PushedKeepsShape ==
    ASSUME TypeOK, ShapeFits, NEW kind \in {"run", "value", "assert", "test", "command"},
           Len(names) = Len(frames), kind = "command" <=> Hosted /\ frames = <<>>,
           frames' = Append(frames, NewFrame(kind)),
           floor' = IF kind = "test" THEN Len(names) + 1 ELSE floor
    PROVE  /\ Len(frames) \in Nat /\ Len(frames') = Len(frames) + 1
           /\ \A i \in 1..Len(frames) : frames'[i] = frames[i]
           /\ frames'[Len(frames) + 1] = NewFrame(kind)
           /\ ShapeFits'
<1> DEFINE last == Len(frames)
<1>1. /\ last \in Nat /\ Len(frames') = last + 1
      /\ \A i \in 1..last : frames'[i] = frames[i]
      /\ frames'[last + 1] = NewFrame(kind)
  BY LenProperties DEF TypeOK
<1>2. /\ NewFrame(kind).kind = kind /\ NewFrame(kind).depth = last + 1
      /\ NewFrame(kind).floorBefore = floor
  BY DEF NewFrame
<1> HIDE DEF last
<1>3. /\ InnermostTest(frames, last, floor)
      /\ \A i \in 1..last : InnermostTest(frames, i - 1, frames[i].floorBefore)
  BY DEF ShapeFits, FloorsFit, last
<1>4. ASSUME NEW n \in 0..last, NEW f, InnermostTest(frames, n, f)
      PROVE  InnermostTest(frames', n, f)
  BY <1>1, <1>4 DEF InnermostTest
<1>5. FloorsFit'
  <2>1. InnermostTest(frames', last, floor)
    BY <1>1, <1>3, <1>4
  <2>2. InnermostTest(frames', last + 1, floor')
    <3>1. CASE kind = "test"
      <4>1. floor' = last + 1
        BY <3>1 DEF last
      <4> QED
        BY <1>1, <1>2, <3>1, <4>1 DEF InnermostTest
    <3>2. CASE kind # "test"
      BY <1>1, <1>2, <2>1, <3>2 DEF InnermostTest
    <3> QED
      BY <3>1, <3>2
  <2>3. ASSUME NEW i \in 1..(last + 1) PROVE InnermostTest(frames', i - 1, frames'[i].floorBefore)
    <3>1. CASE i = last + 1
      BY <1>1, <1>2, <2>1, <3>1
    <3>2. CASE i \in 1..last
      BY <1>1, <1>3, <1>4, <3>2
    <3> QED
      BY <1>1, <3>1, <3>2
  <2> QED
    BY <1>1, <2>2, <2>3 DEF FloorsFit
<1>6. DepthsFit'
  BY <1>1, <1>2 DEF ShapeFits, DepthsFit, last
<1>7. CommandFirst'
  <2>1. frames = <<>> <=> last = 0
    BY EmptySeq DEF TypeOK, last
  <2> QED
    BY <1>1, <1>2, <2>1 DEF ShapeFits, CommandFirst, last
<1> QED
  BY <1>1, <1>5, <1>6, <1>7 DEF ShapeFits, last

\* How the boundary of the innermost scope ends with it: the database is what the scope is
\* meant to restore, the transaction is beyond use, or the boundary is kept.
ScopeRestored ==
    status # "lost" /\ Len(frames) <= Len(saves) /\ RestoreBoundary(Len(frames))

ScopeThrown ==
    /\ status' \in {"failed", "lost"} /\ (status = "lost" => status' = "lost")
    /\ UNCHANGED <<names, inconsistent, writing>>
    /\ \A i \in 1..Len(frames) :
          i <= Len(saves') => i <= Len(saves) /\ saves'[i] = saves[i]

ScopeReleased ==
    /\ status = "active" /\ status' = "active"
    /\ UNCHANGED <<view, inconsistent, writing>>
    /\ names' = Prefix(names, Len(frames) - 1) /\ saves' = Prefix(saves, Len(frames) - 1)

\* In a transaction that can go on, the innermost scope has its boundary on both stacks.
LEMMA TopHasBoundary ==
    ASSUME Inv, NestingFits, frames # <<>>, Top.kind # "command"
    PROVE  /\ Len(frames) \in Nat \ {0} /\ Top.depth = Len(frames)
           /\ status \in {"idle", "active"} =>
                 /\ status = "active"
                 /\ Len(names) = Len(frames) /\ Len(saves) = Len(frames)
<1>1. Len(frames) \in Nat \ {0} /\ Top.depth = Len(frames)
  BY TopIsFrame DEF Inv, NestingFits, ShapeFits, DepthsFit, Top
<1>2. ~ Sealed
  BY <1>1 DEF Sealed, NestingFits, ShapeFits, CommandFirst, Top
<1>3. Len(names) \in Nat /\ Len(saves) \in Nat /\ (names = <<>> => Len(names) = 0)
  BY LenProperties, EmptySeq DEF Inv, TypeOK
<1> QED
  BY <1>1, <1>2, <1>3 DEF NestingFits, StacksFit, Inv, SavepointsMatch

\* When one of Rollback's statements fails there is no going on.
LEMMA RollbackThrowsIsThrown ==
    ASSUME TypeOK, Len(frames) \in Nat \ {0}, RollbackThrows(Len(frames))
    PROVE  ScopeThrown
<1> DEFINE d == Len(frames)
<1>1. UNCHANGED <<names, inconsistent, writing>>
  BY DEF RollbackThrows
<1>2. CASE UNCHANGED <<status, saves>> /\ status \in {"failed", "lost"}
  BY <1>1, <1>2 DEF ScopeThrown
<1>3. CASE Severed
  BY <1>1, <1>3, EmptySeq DEF Severed, ScopeThrown
<1>4. CASE status' = "failed" /\ status # "lost" /\ UNCHANGED saves
  BY <1>1, <1>4 DEF ScopeThrown
<1>5. CASE status' = "failed" /\ status # "lost" /\ d <= Len(saves) /\ saves' = Prefix(saves, d)
  <2>1. Len(saves) \in Nat /\ d \in 0..Len(saves)
    BY <1>5, LenProperties DEF TypeOK
  <2>2. Len(saves') = d /\ \A i \in 1..d : saves'[i] = saves[i]
    BY <1>5, <2>1, PrefixIsSeq DEF TypeOK
  <2> QED
    BY <1>1, <1>5, <2>1, <2>2 DEF ScopeThrown
<1> QED
  BY <1>2, <1>3, <1>4, <1>5 DEF RollbackThrows, InTransaction

\* Scope::Rollback and ~Scope on a scope that is no command's.
LEMMA DropCases ==
    ASSUME Inv, NestingFits, frames # <<>>, Top.kind # "command",
           NEW dropped, NEW thrown, DropTop(dropped, thrown)
    PROVE  ScopeRestored \/ ScopeThrown
<1>1. /\ Len(frames) \in Nat \ {0} /\ Top.depth = Len(frames)
      /\ status \in {"idle", "active"} => Len(names) = Len(frames)
  BY TopHasBoundary
<1>2. CASE RollbackThrows(Len(frames))
  BY <1>1, <1>2, RollbackThrowsIsThrown DEF Inv
<1>3. CASE RollsBack(Len(frames)) /\ Len(frames) > Len(names)
  <2>1. UNCHANGED <<status, saves, names, inconsistent, writing>>
    BY <1>3 DEF RollsBack
  <2>2. status \in {"failed", "lost"}
    BY <1>1, <1>3 DEF Inv, TypeOK, Statuses
  <2> QED
    BY <2>1, <2>2 DEF ScopeThrown
<1>4. CASE RollsBack(Len(frames)) /\ ~ Len(frames) > Len(names)
  BY <1>4 DEF RollsBack, InTransaction, ScopeRestored
<1> QED
  BY <1>1, <1>2, <1>3, <1>4 DEF DropTop

\* Scope::Keep on a scope that is no command's.
LEMMA KeepCases ==
    ASSUME Inv, NestingFits, frames # <<>>, Top.kind # "command",
           NEW kept, NEW thrown, KeepTop(kept, thrown)
    PROVE  ScopeReleased \/ ScopeRestored \/ ScopeThrown
<1>1. /\ Len(frames) \in Nat \ {0} /\ Top.depth = Len(frames)
      /\ status \in {"idle", "active"} => Len(names) = Len(frames)
  BY TopHasBoundary
<1>2. CASE RollbackThrows(Len(frames))
  BY <1>1, <1>2, RollbackThrowsIsThrown DEF Inv
<1>3. CASE RestoreBoundary(Len(frames)) /\ Len(frames) <= Len(saves) /\ status \in {"active", "failed"}
  BY <1>3 DEF ScopeRestored
<1>4. CASE Releases(Len(frames)) /\ Len(frames) > Len(names)
  <2>1. UNCHANGED <<status, saves, names, inconsistent, writing>>
    BY <1>4 DEF Releases
  <2>2. status \in {"failed", "lost"}
    BY <1>1, <1>4 DEF Inv, TypeOK, Statuses
  <2> QED
    BY <2>1, <2>2 DEF ScopeThrown
<1>5. CASE Releases(Len(frames)) /\ ~ Len(frames) > Len(names)
  BY <1>5 DEF Releases, ScopeReleased
<1> QED
  BY <1>1, <1>2, <1>3, <1>4, <1>5 DEF KeepTop, ReleaseThrows

\* The end of a scope that is no command's, and the state it ends in.
ScopeEnds ==
    /\ frames # <<>> /\ Top.kind # "command" /\ Popped
    /\ ScopeRestored \/ ScopeThrown \/ (ScopeReleased /\ Top.kind # "test")
    /\ pc' \in {"al", "raise"} /\ UNCHANGED <<committed, tryDepth>>

\* All ends of scopes are of this kind.
LEMMA ScopeStepEnds ==
    ASSUME Inv, NestingFits,
           EndRun \/ QuitRun \/ EndAssert \/ EndTest \/ EndCollectingRun \/ KeepValueRun
           \/ DropValueRun \/ Unwind
    PROVE  ScopeEnds
<1>0. pc \in {"keep", "drop"} => frames # <<>> /\ Top.kind = "value"
  BY DEF Inv, ScopesFit, NestingFits, PhasesFit
<1>1. CASE EndRun \/ EndAssert \/ KeepValueRun
  <2>1. /\ frames # <<>> /\ Top.kind \in {"run", "assert", "value"}
        /\ \E kept, thrown \in {"al", "raise"} : KeepTop(kept, thrown)
    BY <1>0, <1>1 DEF EndRun, EndAssert, KeepValueRun, BodyEnds
  <2> QED
    BY <2>1, KeepCases DEF KeepTop, ScopeEnds
<1>2. CASE QuitRun \/ EndTest \/ EndCollectingRun \/ DropValueRun \/ Unwind
  <2>1. /\ frames # <<>> /\ Top.kind \in {"run", "value", "assert", "test"}
        /\ \E dropped, thrown \in {"al", "raise"} : DropTop(dropped, thrown)
    BY <1>0, <1>2 DEF QuitRun, EndTest, EndCollectingRun, DropValueRun, Unwind, BodyEnds
  <2> QED
    BY <2>1, DropCases DEF DropTop, ScopeEnds
<1> QED
  BY <1>1, <1>2

\* What a scope's end does to both stacks: they keep a common bottom, and where the
\* transaction can go on they end below the scope.
LEMMA ScopeEndsStacks ==
    ASSUME Inv, NestingFits, ScopeEnds
    PROVE  /\ \A i \in 1..(Len(frames) - 1) : status # "lost" /\ i <= Len(saves') =>
                 i <= Len(saves) /\ saves'[i] = saves[i] /\ names'[i] = names[i]
           /\ status' \in {"idle", "active"} =>
                 status' = "active" /\ Len(names') = Len(frames) - 1
           /\ status = "lost" => status' = "lost"
<1> DEFINE last == Len(frames)
<1>0. /\ frames # <<>> /\ Top.kind # "command" /\ last \in Nat \ {0}
      /\ status = "active" => Len(names) = last /\ Len(saves) = last
      /\ Len(names) \in Nat /\ Len(saves) \in Nat
      /\ names \in Seq(Boundary) /\ saves \in Seq(Savepoint)
  BY TopHasBoundary, LenProperties DEF ScopeEnds, Inv, TypeOK
<1>1. CASE ScopeThrown
  BY <1>1 DEF ScopeThrown
<1>2. ASSUME last <= Len(saves), last <= Len(names), status # "lost", status' = "active",
             names' = Prefix(names, last - 1), saves' = Prefix(saves, last - 1)
      PROVE  /\ \A i \in 1..(last - 1) : saves'[i] = saves[i] /\ names'[i] = names[i]
             /\ Len(names') = last - 1
  <2>1. last - 1 \in 0..Len(names) /\ last - 1 \in 0..Len(saves)
    BY <1>0, <1>2
  <2> QED
    BY <1>0, <1>2, <2>1, PrefixIsSeq
<1>3. CASE ScopeRestored
  <2>1. /\ last <= Len(saves) /\ status # "lost" /\ status' = "active"
        /\ names' = Prefix(names, last - 1) /\ saves' = Prefix(saves, last - 1)
    BY <1>3 DEF ScopeRestored, RestoreBoundary, RestoreBoundaryTo
  <2>2. last <= Len(names)
    BY <1>0, <2>1 DEF Inv, SavepointsMatch
  <2> QED
    BY <1>0, <1>2, <2>1, <2>2
<1>4. CASE ScopeReleased
  BY <1>0, <1>2, <1>4 DEF ScopeReleased
<1> QED
  BY <1>1, <1>3, <1>4 DEF ScopeEnds

\* The end of a scope leaves the outer ones as they were.
LEMMA ScopeEndsKeepsNesting ==
    ASSUME Inv, NestingFits, ScopeEnds
    PROVE  NestingFits'
<1> DEFINE last == Len(frames)
<1>1. /\ last \in Nat \ {0} /\ Len(frames') = last - 1
      /\ \A i \in 1..(last - 1) : frames'[i] = frames[i]
      /\ ShapeFits'
      /\ floor' = 0 => Top.floorBefore = 0
      /\ Top.kind # "test" => floor' = floor
  BY PoppedKeepsShape DEF ScopeEnds, Inv, NestingFits
<1>2. /\ \A i \in 1..(last - 1) : status # "lost" /\ i <= Len(saves') =>
            i <= Len(saves) /\ saves'[i] = saves[i] /\ names'[i] = names[i]
      /\ status' \in {"idle", "active"} => status' = "active" /\ Len(names') = last - 1
      /\ status = "lost" => status' = "lost"
  BY ScopeEndsStacks
<1>3. committed' = committed /\ pc' \in {"al", "raise"}
  BY DEF ScopeEnds
<1>4. PhasesFit' /\ StacksFit'
  BY <1>1, <1>2, <1>3 DEF PhasesFit, StacksFit
<1>5. RestorePointsFit'
  BY <1>1, <1>2 DEF NestingFits, RestorePointsFit, RestoredTo
<1>6. CommandsStartClean'
  <2>1. Hosted => last > 1
    BY <1>1 DEF ScopeEnds, NestingFits, ShapeFits, CommandFirst, Top
  <2>2. Hosted => frames' # <<>> /\ frames # <<>> /\ frames'[1] = frames[1]
    BY <1>1, <2>1, EmptySeq DEF ScopeEnds
  <2> QED
    BY <1>3, <2>2 DEF NestingFits, CommandsStartClean, OnlyCommitted
<1>7. WritingFits'
  <2>1. status' # "lost" => \A i \in 1..(last - 1) :
           i <= Len(saves') /\ frames'[i].floorBefore = 0 /\ saves'[i].view # committed'
               => names'[i].writingBefore
    BY <1>1, <1>2, <1>3 DEF NestingFits, WritingFits
  <2>2. floor' = 0 /\ status' = "active" /\ view' # committed' => writing'
    <3>1. CASE ScopeThrown
      BY <3>1 DEF ScopeThrown
    <3>2. CASE ScopeReleased /\ Top.kind # "test"
      BY <1>1, <1>3, <3>2 DEF ScopeReleased, NestingFits, WritingFits
    <3>3. CASE ScopeRestored
      <4>1. /\ status # "lost" /\ last <= Len(saves)
            /\ view' = saves[last].view /\ writing' = names[last].writingBefore
        BY <3>3 DEF ScopeRestored, RestoreBoundary, RestoreBoundaryTo
      <4>2. floor' = 0 => frames[last].floorBefore = 0 /\ last \in 1..last
        BY <1>1 DEF Top
      <4> QED
        BY <1>3, <4>1, <4>2 DEF NestingFits, WritingFits
    <3> QED
      BY <3>1, <3>2, <3>3 DEF ScopeEnds
  <2> QED
    BY <1>1, <1>2, <2>1, <2>2 DEF WritingFits
<1>8. RunsFit'
  BY <1>1, <1>2, <1>3 DEF NestingFits, RunsFit
<1> QED
  BY <1>1, <1>4, <1>5, <1>6, <1>7, <1>8 DEF NestingFits

\* What Boundaries::Commit comes to: nothing, or every boundary above the floor renewed and
\* all outer rows public, or the same with the renewal cut short, or a connection that breaks.
CommitIdle ==
    /\ UNCHANGED <<inconsistent, status, view, committed, frames>>
    /\ status # "lost" => UNCHANGED <<names, saves>>
    /\ status = "active" => UNCHANGED writing

CommitRenews(n) ==
    /\ status = "active" /\ inconsistent = {} /\ UNCHANGED <<inconsistent, view>>
    /\ committed' = IF floor = 0 THEN view ELSE committed
    /\ frames' = Remarked(floor, view)
    /\ names' = RenewedNames(n)
    /\ \E open \in SUBSET Cursors : saves' = RenewedSaves(n, view, open)
    /\ \/ status' = "failed"
       \/ n = Renewals /\ status' = IF floor = 0 /\ names = <<>> THEN "idle" ELSE "active"

CommitBreaks ==
    /\ status \in {"active", "lost"} /\ inconsistent = {} /\ status' = "lost" /\ names' = <<>>
    /\ \/ UNCHANGED <<committed, frames>>
       \/ status = "active" /\ floor = 0 /\ committed' = view /\ frames' = Remarked(0, view)

CommitFails ==
    /\ floor > 0 /\ status = "active" /\ status' = "failed"
    /\ UNCHANGED <<names, saves, committed, view, writing, inconsistent, frames>>

CommitMoves ==
    CommitIdle \/ (\E n \in 0..Renewals : CommitRenews(n)) \/ CommitBreaks \/ CommitFails

\* A Commit that is not refused and returns.
LEMMA CommitDoneCases ==
    ASSUME Inv, ~ CommitRefused, CommitDone
    PROVE  CommitMoves
<1>0. /\ StackOK /\ ProgramOK
      /\ floor <= Len(names) /\ status # "failed" /\ Renewals \in Nat
      /\ status = "idle" => Renewals = 0 /\ floor = 0 /\ names = <<>> /\ saves = <<>>
      /\ inconsistent = {} /\ inconsistent' = inconsistent
  BY InvariantParts, CommitStarts DEF Inv, CommitRefused, CommitDone
<1>1. CASE status = "active"
  <2>1. cursors \in SUBSET Cursors /\ {} \in SUBSET Cursors
    BY <1>0 DEF StackOK
  <2>2. CASE floor = 0
    BY <1>0, <1>1, <2>1, <2>2
       DEF CommitDone, CommitsToServer, InTransaction, ServerCommits, CommitRenews, CommitMoves
  <2>3. CASE floor # 0
    BY <1>0, <1>1, <2>1, <2>3
       DEF CommitDone, CommitsToServer, InTransaction, CommitRenews, CommitMoves
  <2> QED
    BY <2>2, <2>3
<1>2. CASE status \in {"idle", "lost"}
  <2>1. UNCHANGED <<inconsistent, status, view, committed, frames, saves>>
    BY <1>2 DEF CommitDone, CommitsToServer, InTransaction
  <2>2. status = "idle" => names' = names
    BY <1>0 DEF CommitDone, CommitsToServer, InTransaction, RenewedNames
  <2> QED
    BY <1>2, <2>1, <2>2 DEF CommitIdle, CommitMoves
<1> QED
  BY <1>0, <1>1, <1>2 DEF StackOK, Statuses

\* A Commit that is not refused and throws.
LEMMA CommitThrowsCases ==
    ASSUME Inv, CommitsAccepted, ~ CommitRefused, CommitThrows
    PROVE  CommitMoves /\ status' \in {"failed", "lost"}
<1>0. /\ StackOK /\ ProgramOK
      /\ Renewals \in Nat /\ inconsistent = {}
  BY InvariantParts, CommitStarts DEF Inv, CommitRefused
<1>1. ~ CommitRejected
  BY DEF CommitRejected, Fault, CommitsAccepted
<1>2. CASE CommitSevered
  BY <1>0, <1>2 DEF CommitSevered, Severed, DropsDeadBoundaries, CommitBreaks, CommitMoves
<1>3. CASE RenewalRefused
  <2>1. cursors \in SUBSET Cursors /\ {} \in SUBSET Cursors
    BY <1>0 DEF StackOK
  <2>2. PICK n \in 0..(Renewals - 1) :
           /\ names' = RenewedNames(n)
           /\ saves' = RenewedSaves(n, view, IF floor = 0 THEN {} ELSE cursors)
    BY <1>3 DEF RenewalRefused
  <2>3. n \in 0..Renewals
    BY <1>0
  <2>4. /\ status = "active" /\ status' = "failed" /\ UNCHANGED <<inconsistent, view>>
        /\ committed' = (IF floor = 0 THEN view ELSE committed)
        /\ frames' = Remarked(floor, view)
    BY <1>3 DEF RenewalRefused
  <2>5. (IF floor = 0 THEN {} ELSE cursors) \in SUBSET Cursors
    BY <2>1
  <2>6. CommitRenews(n)
    BY <1>0, <2>2, <2>4, <2>5 DEF CommitRenews
  <2> QED
    BY <2>3, <2>4, <2>6 DEF CommitMoves
<1>4. CASE FloorReleaseRefused
  BY <1>4 DEF FloorReleaseRefused, CommitFails, CommitMoves
<1> QED
  BY <1>1, <1>2, <1>3, <1>4 DEF CommitThrows

\* Boundaries::Commit, as its callers see it.
LEMMA CommitCases ==
    ASSUME Inv, CommitsAccepted, NEW done, NEW thrown, CommitBoundaries(done, thrown)
    PROVE  CommitMoves /\ UNCHANGED <<floor, tryDepth>> /\ pc' \in {done, thrown}
<1>1. CASE CommitRefused
  BY <1>1 DEF CommitBoundaries, server, CommitIdle, CommitMoves
<1>2. CASE ~ CommitRefused
  BY <1>2, CommitDoneCases, CommitThrowsCases DEF CommitBoundaries
<1> QED
  BY <1>1, <1>2 DEF CommitBoundaries

\* A Commit moves what the scopes above the floor are meant to restore, and nothing else of
\* the scopes.
LEMMA RemarkedShape ==
    ASSUME TypeOK, DepthsFit, NEW from \in Nat, NEW data \in SUBSET Rows,
           frames' = Remarked(from, data)
    PROVE  /\ SameShape
           /\ \A i \in 1..Len(frames) : i > from => frames'[i].mark = [data |-> data, marks |-> {}]
           /\ \A i \in 1..Len(frames) : i <= from => frames'[i].mark = frames[i].mark
<1>1. Len(frames') = Len(frames) /\ Len(frames) \in Nat
  BY RemarkedIsSeq, LenProperties DEF TypeOK
<1>2. ASSUME NEW i \in 1..Len(frames)
      PROVE  /\ frames'[i].kind = frames[i].kind /\ frames'[i].depth = frames[i].depth
             /\ frames'[i].triesBefore = frames[i].triesBefore
             /\ frames'[i].floorBefore = frames[i].floorBefore
             /\ i > from => frames'[i].mark = [data |-> data, marks |-> {}]
             /\ i <= from => frames'[i].mark = frames[i].mark
  <2>1. frames[i] \in Frame /\ frames[i].depth = i
    BY ElementOfSeq DEF TypeOK, DepthsFit
  <2>2. frames'[i] = IF i > from THEN [frames[i] EXCEPT !.mark = [data |-> data, marks |-> {}]]
                     ELSE frames[i]
    BY <2>1 DEF Remarked
  <2> QED
    BY <2>1, <2>2 DEF Frame
<1> QED
  BY <1>1, <1>2 DEF SameShape

\* A renewal leaves the boundaries up to the floor, and puts the next ones where it is.
LEMMA RenewedStacks ==
    ASSUME Inv, NestingFits, NEW n \in 0..Renewals, CommitRenews(n)
    PROVE  /\ Len(names) \in Nat /\ floor \in 0..Len(names)
           /\ Len(names) = Len(frames) \/ Sealed
           /\ Len(names') = floor + n /\ Len(saves') = floor + n
           /\ \A i \in 1..floor : i <= Len(saves) /\ names'[i] = names[i] /\ saves'[i] = saves[i]
           /\ \A i \in (floor + 1)..(floor + n) :
                 saves'[i].view = view /\ names'[i].inconsistentBefore = {}
<1>1. /\ status = "active" /\ names \in Seq(Boundary) /\ saves \in Seq(Savepoint)
      /\ inconsistent \in SUBSET Tables /\ view \in SUBSET Rows /\ issued \in Nat /\ floor \in Nat
  BY DEF CommitRenews, Inv, TypeOK
<1>2. /\ Len(names) \in Nat /\ Len(frames) \in Nat /\ Len(saves) = Len(names)
      /\ names = <<>> => Len(names) = 0
  BY <1>1, LenProperties, EmptySeq DEF Inv, TypeOK, SavepointsMatch
<1>3. Len(names) = Len(frames) \/ Sealed
  BY <1>1 DEF NestingFits, StacksFit
<1>4. floor \in 0..Len(names)
  <2>1. floor \in 0..Len(frames)
    BY DEF NestingFits, ShapeFits, FloorsFit, InnermostTest
  <2>2. Sealed => floor = 0
    BY DEF Sealed, Inv, ScopesFit
  <2> QED
    BY <1>2, <1>3, <2>1, <2>2
<1>5. n \in Nat
  BY <1>2, <1>4 DEF Renewals
<1>6. PICK open \in SUBSET Cursors : saves' = RenewedSaves(n, view, open)
  BY DEF CommitRenews
<1>7. names' = RenewedNames(n) /\ inconsistent = {}
  BY DEF CommitRenews
<1>8. Len(names') = floor + n
  BY <1>1, <1>4, <1>5, <1>7, RenewedNamesIsSeq
<1>9. Len(saves') = floor + n
  BY <1>1, <1>2, <1>4, <1>5, <1>6, RenewedSavesIsSeq
<1>10. \A i \in 1..floor : i <= Len(saves) /\ names'[i] = names[i] /\ saves'[i] = saves[i]
  BY <1>2, <1>4, <1>5, <1>6, <1>7 DEF RenewedNames, RenewedSaves
<1>11. \A i \in (floor + 1)..(floor + n) :
          saves'[i].view = view /\ names'[i].inconsistentBefore = {}
  BY <1>4, <1>5, <1>6, <1>7 DEF RenewedNames, RenewedSaves
<1> QED
  BY <1>2, <1>3, <1>4, <1>8, <1>9, <1>10, <1>11

\* Commits are called from AL code or to complete a command that is sealed.
CommitCalled ==
    \/ pc = "al" /\ (Hosted => frames # <<>>) /\ pc' \in {"al", "raise"}
    \/ pc = "al" /\ frames # <<>> /\ Top.kind = "value" /\ pc' \in {"keep", "drop"}
    \/ pc = "seal" /\ pc' \in {"detach", "raise"}

\* What a Commit does to what a scope restores: those above the floor restore its rows.
LEMMA RenewsKeepsNesting ==
    ASSUME Inv, NestingFits, NEW n \in 0..Renewals, CommitRenews(n), floor' = floor,
           Hosted => frames # <<>>
    PROVE  /\ SameShape /\ ShapeFits' /\ RestorePointsFit'
           /\ CommandsStartClean' /\ WritingFits' /\ RunsFit'
<1>1. /\ Len(names) \in Nat /\ floor \in 0..Len(names)
      /\ Len(saves') = floor + n
      /\ \A i \in 1..floor : i <= Len(saves) /\ names'[i] = names[i] /\ saves'[i] = saves[i]
      /\ \A i \in (floor + 1)..(floor + n) :
            saves'[i].view = view /\ names'[i].inconsistentBefore = {}
  BY RenewedStacks
<1>2. /\ status = "active" /\ view' = view
      /\ committed' = (IF floor = 0 THEN view ELSE committed)
      /\ n \in Nat
  BY <1>1 DEF CommitRenews, Renewals
<1>3. /\ SameShape
      /\ \A i \in 1..Len(frames) : i > floor => frames'[i].mark = [data |-> view, marks |-> {}]
      /\ \A i \in 1..Len(frames) : i <= floor => frames'[i].mark = frames[i].mark
  BY <1>1, RemarkedShape DEF CommitRenews, NestingFits, ShapeFits, Inv, TypeOK
<1>4. Len(frames) \in Nat /\ Len(frames') = Len(frames)
  BY <1>3, LenProperties DEF SameShape, Inv, TypeOK
<1>5. ShapeFits'
  BY <1>3, <1>4, SameShapeKeepsShape DEF NestingFits
<1>6. RestorePointsFit'
  <2>1. ASSUME NEW i \in 1..Len(frames), i <= floor + n
        PROVE  frames'[i].mark = [data |-> saves'[i].view, marks |-> names'[i].inconsistentBefore]
    <3>1. CASE i > floor
      <4>1. i \in (floor + 1)..(floor + n)
        BY <1>1, <1>2, <2>1, <3>1
      <4> QED
        BY <1>1, <1>3, <3>1, <4>1
    <3>2. CASE i \in 1..floor
      <4>1. frames[i].mark = [data |-> saves[i].view, marks |-> names[i].inconsistentBefore]
        BY <1>1, <1>2, <3>2 DEF NestingFits, RestorePointsFit, RestoredTo
      <4> QED
        BY <1>1, <1>3, <3>2, <4>1
    <3> QED
      BY <1>1, <3>1, <3>2
  <2> QED
    BY <1>1, <1>4, <2>1 DEF RestorePointsFit, RestoredTo
\* A scope that was opened outside test isolation is not above a floor.
<1>7. ASSUME NEW i \in 1..Len(frames), frames'[i].floorBefore = 0, floor # 0
      PROVE  i \in 1..floor /\ frames[i].floorBefore = 0
  <2>1. /\ InnermostTest(frames, Len(frames), floor)
        /\ InnermostTest(frames, i - 1, 0) /\ frames[i].floorBefore = 0
    BY <1>3, <1>7 DEF NestingFits, ShapeFits, FloorsFit, SameShape
  <2> QED
    BY <1>1, <1>4, <1>7, <2>1 DEF InnermostTest
<1>8. CommandsStartClean'
  <2>1. Hosted => floor = 0 /\ 1 \in 1..Len(frames) /\ frames' # <<>>
    BY <1>4, EmptySeq DEF Inv, ScopesFit, TypeOK
  <2>2. Hosted => frames'[1].mark = [data |-> view, marks |-> {}] /\ committed' = view
    BY <1>2, <1>3, <2>1, 1 > 0
  <2> QED
    BY <2>1, <2>2 DEF CommandsStartClean, OnlyCommitted
<1>9. WritingFits'
  <2>1. floor = 0 => view' = committed'
    BY <1>2
  <2>2. ASSUME NEW i \in 1..Len(frames), i <= floor + n, frames'[i].floorBefore = 0,
               saves'[i].view # committed'
        PROVE  names'[i].writingBefore
    <3>1. CASE floor = 0
      BY <1>1, <1>2, <2>2, <3>1
    <3>2. CASE floor # 0
      BY <1>1, <1>2, <1>7, <2>2, <3>2 DEF NestingFits, WritingFits
    <3> QED
      BY <3>1, <3>2
  <2> QED
    BY <1>1, <1>4, <2>1, <2>2 DEF WritingFits
<1>10. RunsFit'
  <2>1. ASSUME NEW i \in 1..Len(frames), frames'[i].kind = "value", frames'[i].floorBefore = 0
        PROVE  frames'[i].mark.data = committed'
    <3>1. CASE floor = 0
      BY <1>2, <1>3, <3>1
    <3>2. CASE floor # 0
      <4>1. i \in 1..floor /\ frames[i].floorBefore = 0 /\ frames[i].kind = "value"
        BY <1>3, <1>7, <2>1, <3>2 DEF SameShape
      <4> QED
        BY <1>2, <1>3, <3>2, <4>1 DEF NestingFits, RunsFit
    <3> QED
      BY <3>1, <3>2
  <2> QED
    BY <1>4, <2>1 DEF RunsFit
<1> QED
  BY <1>3, <1>5, <1>6, <1>8, <1>9, <1>10

\* A Commit that changed nothing, one whose connection broke, one that failed under a floor.
LEMMA OtherCommitsKeepNesting ==
    ASSUME Inv, NestingFits, CommitIdle \/ CommitBreaks \/ CommitFails, floor' = floor,
           Hosted => frames # <<>>
    PROVE  /\ SameShape /\ ShapeFits' /\ RestorePointsFit'
           /\ CommandsStartClean' /\ WritingFits' /\ RunsFit'
<1>0. Len(frames) \in Nat /\ view \in SUBSET Rows
  BY LenProperties DEF Inv, TypeOK
<1>1. CASE CommitIdle
  <2>1. SameShape
    BY <1>1 DEF CommitIdle, SameShape
  <2>2. ShapeFits'
    BY <1>0, <2>1, SameShapeKeepsShape DEF NestingFits
  <2>3. UNCHANGED <<inconsistent, status, view, committed, frames, floor>>
        /\ (status # "lost" => UNCHANGED <<names, saves>>)
        /\ (status = "active" => UNCHANGED writing)
    BY <1>1 DEF CommitIdle
  <2>4. RestorePointsFit' /\ CommandsStartClean' /\ WritingFits' /\ RunsFit'
    BY <2>3 DEF NestingFits, RestorePointsFit, RestoredTo, CommandsStartClean, OnlyCommitted,
                WritingFits, RunsFit
  <2> QED
    BY <2>1, <2>2, <2>4
<1>2. CASE CommitBreaks
  <2>1. SameShape
    <3>1. CASE frames' = frames
      BY <3>1 DEF SameShape
    <3>2. CASE frames' = Remarked(0, view)
      BY <1>0, <3>2, RemarkedShape DEF NestingFits, ShapeFits, Inv
    <3> QED
      BY <1>2, <3>1, <3>2 DEF CommitBreaks
  <2>2. ShapeFits'
    BY <1>0, <2>1, SameShapeKeepsShape DEF NestingFits
  <2>3. CommandsStartClean'
    <3>1. CASE UNCHANGED <<committed, frames>>
      BY <3>1 DEF NestingFits, CommandsStartClean, OnlyCommitted
    <3>2. CASE committed' = view /\ frames' = Remarked(0, view)
      <4>1. Hosted => 1 \in 1..Len(frames) /\ frames' # <<>>
        BY <1>0, <2>1, EmptySeq DEF SameShape, Inv, TypeOK
      <4>2. Hosted => frames'[1].mark = [data |-> view, marks |-> {}]
        BY <1>0, <3>2, <4>1, 1 > 0, RemarkedShape DEF NestingFits, ShapeFits, Inv
      <4> QED
        BY <3>2, <4>1, <4>2 DEF CommandsStartClean, OnlyCommitted
    <3> QED
      BY <1>2, <3>1, <3>2 DEF CommitBreaks
  <2>4. status' = "lost"
    BY <1>2 DEF CommitBreaks
  <2> QED
    BY <2>1, <2>2, <2>3, <2>4 DEF RestorePointsFit, WritingFits, RunsFit
<1>3. CASE CommitFails
  <2>1. /\ status = "active" /\ status' = "failed" /\ floor > 0
        /\ UNCHANGED <<names, saves, committed, view, writing, inconsistent, frames>>
    BY <1>3 DEF CommitFails
  <2>2. SameShape
    BY <2>1 DEF SameShape
  <2>3. ShapeFits'
    BY <1>0, <2>2, SameShapeKeepsShape DEF NestingFits
  <2>4. CommandsStartClean'
    BY <2>1 DEF Inv, ScopesFit, CommandsStartClean
  <2>5. RestorePointsFit' /\ WritingFits' /\ RunsFit'
    BY <2>1 DEF NestingFits, RestorePointsFit, RestoredTo, WritingFits, RunsFit
  <2> QED
    BY <2>2, <2>3, <2>4, <2>5
<1> QED
  BY <1>1, <1>2, <1>3

\* Whoever calls it, Boundaries::Commit leaves every scope its boundary, or none can go on.
LEMMA CommitKeepsNesting ==
    ASSUME Inv, Inv', NestingFits, CommitMoves, CommitCalled, UNCHANGED <<floor, tryDepth>>
    PROVE  NestingFits'
<1>1. pc = "seal" => Sealed /\ status = "active" /\ floor = 0
  BY DEF NestingFits, PhasesFit, Inv, ScopesFit
<1>2. Hosted => frames # <<>>
  BY <1>1, EmptySeq DEF CommitCalled, Sealed
<1>3. /\ SameShape /\ ShapeFits' /\ RestorePointsFit'
      /\ CommandsStartClean' /\ WritingFits' /\ RunsFit'
  BY <1>2, OtherCommitsKeepNesting, RenewsKeepsNesting DEF CommitMoves
<1>4. /\ status' \in {"idle", "active"} =>
            status \in {"idle", "active"} /\ Len(names') = Len(names)
      /\ pc = "seal" => Len(names') = 0
  <2>1. CASE CommitIdle
    BY <1>1, <2>1, EmptySeq DEF CommitIdle, Sealed
  <2>2. ASSUME NEW n \in 0..Renewals, CommitRenews(n)
        PROVE  /\ status' \in {"idle", "active"} =>
                     status \in {"idle", "active"} /\ Len(names') = Len(names)
               /\ pc = "seal" => Len(names') = 0
    <3>1. /\ Len(names) \in Nat /\ floor \in 0..Len(names) /\ Len(names') = floor + n
          /\ status = "active" /\ (status' = "failed" \/ n = Renewals)
      BY <2>2, RenewedStacks DEF CommitRenews
    <3>2. pc = "seal" => Len(names) = 0
      BY <1>1, EmptySeq DEF Sealed
    <3> QED
      BY <1>1, <3>1, <3>2 DEF Renewals
  <2>3. CASE CommitBreaks
    BY <2>3, EmptySeq DEF CommitBreaks
  <2>4. CASE CommitFails
    BY <1>1, <2>4 DEF CommitFails
  <2> QED
    BY <2>1, <2>2, <2>3, <2>4 DEF CommitMoves
<1>5. CASE pc = "seal"
  <2>1. names' = <<>>
    BY <1>4, <1>5, EmptySeq DEF Inv, TypeOK
  <2>2. Sealed'
    BY <1>1, <1>3, <1>5, <2>1 DEF CommitCalled, Sealed, SameShape
  <2> QED
    BY <1>3, <1>5, <2>2 DEF CommitCalled, NestingFits, PhasesFit, StacksFit
<1>6. CASE pc = "al"
  <2>1. ~ Sealed
    BY <1>6 DEF Sealed
  <2>2. StacksFit'
    BY <1>3, <1>4, <2>1 DEF NestingFits, StacksFit, SameShape
  <2>3. pc' \in {"keep", "drop"} => Top'.kind = "value"
    <3>1. pc' \in {"keep", "drop"} => frames # <<>> /\ Top.kind = "value"
      BY <1>6 DEF CommitCalled
    <3>2. frames # <<>> => Len(frames) \in 1..Len(frames)
      BY TopIsFrame DEF Inv
    <3> QED
      BY <1>3, <3>1, <3>2 DEF SameShape, Top
  <2>4. PhasesFit'
    BY <1>6, <2>3 DEF CommitCalled, PhasesFit
  <2> QED
    BY <1>3, <2>2, <2>4 DEF NestingFits
<1> QED
  BY <1>5, <1>6 DEF CommitCalled

\* The steps that leave scopes and boundaries alone: they may begin the transaction, and may
\* move the consistency marks of a program that runs.
QuietStep ==
    /\ UNCHANGED <<frames, floor, names, saves, view, committed, writing>>
    /\ pc \in {"al", "raise"} /\ pc' \in {"al", "raise"}
    /\ Sealed => UNCHANGED <<pc, tryDepth, status>>
    /\ \/ UNCHANGED <<status, inconsistent>>
       \/ (Hosted => frames # <<>>) /\ UNCHANGED status
       \/ /\ Hosted => frames # <<>>
          /\ status \in {"idle", "active"} /\ status' = "active" /\ UNCHANGED inconsistent

\* They keep all that is known of the nesting.
LEMMA QuietStepKeepsNesting ==
    ASSUME NestingFits, QuietStep
    PROVE  NestingFits'
<1>1. /\ UNCHANGED <<frames, floor, names, saves, view, committed, writing>>
      /\ pc' \in {"al", "raise"} /\ (Sealed => UNCHANGED <<pc, tryDepth>>)
      /\ status' = status \/ (status \in {"idle", "active"} /\ status' = "active")
      /\ Hosted /\ frames = <<>> => UNCHANGED <<status, inconsistent>>
  BY DEF QuietStep
<1>2. ShapeFits'
  BY <1>1 DEF NestingFits, ShapeFits, FloorsFit, DepthsFit, CommandFirst
<1>3. PhasesFit'
  BY <1>1 DEF PhasesFit
<1>4. StacksFit'
  BY <1>1 DEF NestingFits, StacksFit, Sealed
<1>5. RestorePointsFit' /\ RunsFit'
  BY <1>1 DEF NestingFits, RestorePointsFit, RestoredTo, RunsFit
<1>6. CommandsStartClean'
  BY <1>1 DEF NestingFits, CommandsStartClean, OnlyCommitted
<1>7. WritingFits'
  BY <1>1 DEF NestingFits, WritingFits
<1> QED
  BY <1>2, <1>3, <1>4, <1>5, <1>6, <1>7 DEF NestingFits

\* A statement that is refused, or finds the transaction failed or lost.
RefusedStep ==
    /\ UNCHANGED <<frames, floor, names, view, committed, inconsistent>>
    /\ saves' = saves \/ saves' = <<>>
    /\ status' \in {"failed", "lost"} /\ (status = "lost" => status' = "lost")
    /\ pc' = "raise" /\ (Hosted => frames # <<>>)

\* It leaves nothing that could go on.
LEMMA RefusedStepKeepsNesting ==
    ASSUME NestingFits, RefusedStep
    PROVE  NestingFits'
<1>1. /\ UNCHANGED <<frames, floor, names, view, committed, inconsistent>>
      /\ saves' = saves \/ saves' = <<>>
      /\ status' \in {"failed", "lost"} /\ (status = "lost" => status' = "lost")
      /\ pc' = "raise" /\ (Hosted => frames # <<>>)
  BY DEF RefusedStep
<1>2. ShapeFits'
  BY <1>1 DEF NestingFits, ShapeFits, FloorsFit, DepthsFit, CommandFirst
<1>3. PhasesFit' /\ StacksFit'
  BY <1>1 DEF PhasesFit, StacksFit
<1>4. \A i \in 1..Len(frames) : i <= Len(saves') => i <= Len(saves) /\ saves'[i] = saves[i]
  BY <1>1, EmptySeq
<1>5. RestorePointsFit' /\ RunsFit'
  BY <1>1, <1>4 DEF NestingFits, RestorePointsFit, RestoredTo, RunsFit
<1>6. CommandsStartClean'
  BY <1>1 DEF NestingFits, CommandsStartClean, OnlyCommitted
<1>7. WritingFits'
  BY <1>1, <1>4 DEF NestingFits, WritingFits
<1> QED
  BY <1>2, <1>3, <1>5, <1>6, <1>7 DEF NestingFits

\* What a refused statement leaves of the server's session.
LEMMA RefusedLeaves ==
    ASSUME Refused
    PROVE  /\ saves' = saves \/ saves' = <<>>
           /\ status' \in {"failed", "lost"} /\ (status = "lost" => status' = "lost")
BY DEF Refused, Severed

\* A scope opened in a transaction that can go on has its boundary on top of both stacks.
LEMMA PushedKeepsNesting ==
    ASSUME Inv, NestingFits, pc = "al", pc' = "al", OpenBoundary,
           NEW kind \in {"run", "value", "assert", "test", "command"},
           kind = "command" <=> Hosted /\ frames = <<>>,
           kind = "value" /\ floor = 0 => ~ writing,
           frames' = Append(frames, NewFrame(kind)),
           floor' = IF kind = "test" THEN Len(names) + 1 ELSE floor
    PROVE  NestingFits'
<1> DEFINE last == Len(frames)
<1>1. /\ status \in {"idle", "active"} /\ status' = "active"
      /\ UNCHANGED <<inconsistent, writing, committed, view>>
      /\ TypeOK
  BY DEF OpenBoundary, Inv
<1>2. /\ Len(names) = last /\ Len(saves) = last /\ last \in Nat
      /\ status = "idle" => frames = <<>>
  BY <1>1, LenProperties, EmptySeq
     DEF NestingFits, StacksFit, Sealed, Inv, TypeOK, SavepointsMatch
<1>3. /\ Len(frames') = last + 1
      /\ \A i \in 1..last : frames'[i] = frames[i]
      /\ frames'[last + 1] = NewFrame(kind)
      /\ ShapeFits'
  BY <1>1, <1>2, PushedKeepsShape DEF NestingFits
<1>4. /\ Len(names') = last + 1 /\ Len(saves') = last + 1
      /\ \A i \in 1..last : names'[i] = names[i] /\ saves'[i] = saves[i]
      /\ saves'[last + 1].view = view
      /\ names'[last + 1].inconsistentBefore = inconsistent
      /\ names'[last + 1].writingBefore = writing
  BY <1>1, <1>2 DEF OpenBoundary, TypeOK
<1>5. /\ frames'[last + 1].kind = kind /\ frames'[last + 1].floorBefore = floor
      /\ frames'[last + 1].mark = [data |-> view, marks |-> inconsistent]
      /\ frames'[last + 1].mark.data = view
  BY <1>3 DEF NewFrame
<1> HIDE DEF last
<1>6. floor = 0 /\ view # committed => writing
  BY <1>1 DEF NestingFits, WritingFits
<1>7. PhasesFit' /\ StacksFit'
  BY <1>3, <1>4 DEF PhasesFit, StacksFit
<1>8. RestorePointsFit'
  <2>1. ASSUME NEW i \in 1..(last + 1)
        PROVE  frames'[i].mark = [data |-> saves'[i].view, marks |-> names'[i].inconsistentBefore]
    <3>1. CASE i = last + 1
      BY <1>4, <1>5, <3>1
    <3>2. CASE i \in 1..last
      <4>1. frames[i].mark = [data |-> saves[i].view, marks |-> names[i].inconsistentBefore]
        BY <1>1, <1>2, <3>2 DEF NestingFits, RestorePointsFit, RestoredTo, last
      <4> QED
        BY <1>3, <1>4, <3>2, <4>1
    <3>3. i = last + 1 \/ i \in 1..last
      BY <1>2
    <3> QED
      BY <3>1, <3>2, <3>3
  <2> QED
    BY <1>3, <2>1 DEF RestorePointsFit, RestoredTo
<1>9. CommandsStartClean'
  <2>1. CASE frames = <<>>
    <3>1. last = 0 /\ (Hosted => view = committed /\ inconsistent = {})
      BY <2>1, EmptySeq DEF NestingFits, CommandsStartClean, last
    <3>2. frames'[1].mark = [data |-> view, marks |-> inconsistent] /\ frames' # <<>>
      BY <1>3, <1>5, <3>1, EmptySeq
    <3> QED
      BY <1>1, <3>1, <3>2 DEF CommandsStartClean, OnlyCommitted
  <2>2. CASE frames # <<>>
    <3>1. 1 \in 1..last
      BY <1>1, <1>2, <2>2, EmptySeq DEF TypeOK, last
    <3>2. frames'[1] = frames[1] /\ frames' # <<>>
      BY <1>2, <1>3, <3>1, EmptySeq
    <3> QED
      BY <1>1, <2>2, <3>2 DEF NestingFits, CommandsStartClean, OnlyCommitted
  <2> QED
    BY <2>1, <2>2
<1>10. WritingFits'
  <2>1. ASSUME NEW i \in 1..(last + 1), frames'[i].floorBefore = 0, saves'[i].view # committed
        PROVE  names'[i].writingBefore
    <3>1. CASE i = last + 1
      BY <1>4, <1>5, <1>6, <2>1, <3>1
    <3>2. CASE i \in 1..last
      <4>1. frames[i].floorBefore = 0 /\ saves[i].view # committed
        BY <1>3, <1>4, <2>1, <3>2
      <4>2. names[i].writingBefore
        BY <1>1, <1>2, <3>2, <4>1 DEF NestingFits, WritingFits, last
      <4> QED
        BY <1>4, <3>2, <4>2
    <3>3. i = last + 1 \/ i \in 1..last
      BY <1>2
    <3> QED
      BY <3>1, <3>2, <3>3
  <2>2. floor' = 0 => floor = 0
    BY <1>2 DEF last
  <2> QED
    BY <1>1, <1>3, <1>4, <1>6, <2>1, <2>2 DEF WritingFits
<1>11. RunsFit'
  <2>1. ASSUME NEW i \in 1..(last + 1), frames'[i].kind = "value", frames'[i].floorBefore = 0
        PROVE  frames'[i].mark.data = committed
    <3>1. CASE i = last + 1
      BY <1>5, <1>6, <2>1, <3>1
    <3>2. CASE i \in 1..last
      BY <1>1, <1>3, <2>1, <3>2 DEF NestingFits, RunsFit, last
    <3>3. i = last + 1 \/ i \in 1..last
      BY <1>2
    <3> QED
      BY <3>1, <3>2, <3>3
  <2> QED
    BY <1>1, <1>3, <2>1 DEF RunsFit
<1> QED
  BY <1>3, <1>7, <1>8, <1>9, <1>10, <1>11 DEF NestingFits

\* SessionCommand::Keep runs in the root scope alone; its boundary is released, rolled back,
\* or beyond use.
LEMMA SealKeepsNesting ==
    ASSUME Inv, NestingFits, SealCommand
    PROVE  NestingFits'
<1>1. /\ pc = "al" /\ frames # <<>> /\ Top.kind = "command" /\ tryDepth = Top.triesBefore
      /\ pc' \in {"seal", "raise"} /\ UNCHANGED <<frames, floor, tryDepth, committed>>
  BY DEF SealCommand, BodyEnds
<1>2. Len(frames) = 1 /\ Top = frames[1] /\ Hosted /\ floor = 0 /\ ~ Sealed
  <2>1. Len(frames) \in Nat \ {0} /\ frames[Len(frames)].kind = "command"
    BY <1>1, TopIsFrame DEF Inv, Top
  <2>2. Len(frames) = 1 /\ Hosted
    <3>1. Len(frames) \in 1..Len(frames)
      BY <2>1
    <3> QED
      BY <2>1, <3>1 DEF NestingFits, ShapeFits, CommandFirst
  <2> QED
    BY <1>1, <2>2 DEF Top, Inv, ScopesFit, Sealed
<1>3. ShapeFits'
  BY <1>1 DEF NestingFits, ShapeFits, FloorsFit, DepthsFit, CommandFirst
<1>4. CommandsStartClean'
  BY <1>1 DEF NestingFits, CommandsStartClean, OnlyCommitted
<1>5. CASE UnfinishedBoundary
  <2>1. QuietStep
    BY <1>1, <1>2, <1>5 DEF SealCommand, QuietStep
  <2> QED
    BY <2>1, QuietStepKeepsNesting
<1>6. ASSUME names' = Prefix(names, 0), saves' = Prefix(saves, 0), status # "lost",
             status' = "active", view' # committed => writing'
      PROVE  NestingFits'
  <2>1. names' = <<>> /\ Len(saves') = 0
    BY <1>6, PrefixIsSeq, EmptySeq DEF Inv, TypeOK, Prefix
  <2>2. Sealed'
    BY <1>1, <1>2, <2>1 DEF Sealed
  <2>3. PhasesFit' /\ StacksFit'
    BY <1>1, <2>2 DEF PhasesFit, StacksFit
  <2>4. RestorePointsFit' /\ WritingFits'
    BY <1>1, <1>2, <1>6, <2>1 DEF RestorePointsFit, WritingFits
  <2>5. RunsFit'
    BY <1>1, <1>6 DEF NestingFits, RunsFit
  <2> QED
    BY <1>3, <1>4, <2>3, <2>4, <2>5 DEF NestingFits
<1>7. CASE ~ UnfinishedBoundary /\ Releases(1)
  <2>1. /\ names' = Prefix(names, 0) /\ saves' = Prefix(saves, 0)
        /\ status = "active" /\ UNCHANGED <<status, view, writing>>
    BY <1>7 DEF Releases, UnfinishedBoundary
  <2>2. view # committed => writing
    BY <1>2, <2>1 DEF NestingFits, WritingFits
  <2> QED
    BY <1>1, <1>6, <2>1, <2>2
<1>8. CASE 1 <= Len(saves) /\ status \in {"active", "failed"} /\ RestoreBoundary(1)
  <2>1. /\ names' = Prefix(names, 0) /\ saves' = Prefix(saves, 0) /\ status' = "active"
        /\ view' = saves[1].view /\ writing' = names[1].writingBefore
    BY <1>8 DEF RestoreBoundary, RestoreBoundaryTo
  <2>2. frames[1].floorBefore = 0
    BY <1>2 DEF NestingFits, ShapeFits, FloorsFit, InnermostTest
  <2>3. view' # committed => writing'
    BY <1>2, <1>8, <2>1, <2>2 DEF NestingFits, WritingFits
  <2> QED
    BY <1>1, <1>6, <1>8, <2>1, <2>3
<1>9. CASE RollbackThrows(1) /\ pc' = "raise"
  <2>1. /\ status' \in {"failed", "lost"} /\ (status = "lost" => status' = "lost")
        /\ UNCHANGED names
        /\ 1 <= Len(saves') => 1 <= Len(saves) /\ saves'[1] = saves[1]
    BY <1>2, <1>9, RollbackThrowsIsThrown DEF Inv, ScopeThrown
  <2>2. PhasesFit' /\ StacksFit'
    BY <1>9, <2>1 DEF PhasesFit, StacksFit
  <2>3. RestorePointsFit'
    BY <1>1, <1>2, <2>1 DEF NestingFits, RestorePointsFit, RestoredTo
  <2>4. WritingFits' /\ RunsFit'
    BY <1>1, <1>2, <2>1 DEF NestingFits, WritingFits, RunsFit
  <2> QED
    BY <1>3, <1>4, <2>2, <2>3, <2>4 DEF NestingFits
<1> QED
  BY <1>5, <1>7, <1>8, <1>9 DEF SealCommand, ReleaseThrows

\* The life of a command keeps the nesting.
LEMMA CommandStepKeepsNesting ==
    ASSUME Inv, Inv', NestingFits, CommitsAccepted, CommandStep
    PROVE  NestingFits'
<1>1. CASE BeginCommand
  <2>1. frames' = Append(frames, NewFrame("command"))
    BY <1>1 DEF BeginCommand
  <2> QED
    BY <1>1, <2>1, PushedKeepsNesting DEF BeginCommand
<1>2. CASE SealCommand
  BY <1>2, SealKeepsNesting
<1>3. CASE CommitCommand
  <2>1. pc = "seal" /\ CommitBoundaries("detach", "raise")
    BY <1>3 DEF CommitCommand
  <2>2. CommitMoves /\ UNCHANGED <<floor, tryDepth>> /\ pc' \in {"detach", "raise"}
    BY <2>1, CommitCases
  <2> QED
    BY <2>1, <2>2, CommitKeepsNesting DEF CommitCalled
<1>4. CASE EndCommand
  <2>1. /\ status' = "idle" /\ view' = committed /\ committed' = committed
        /\ names' = <<>> /\ inconsistent' = {} /\ floor' = 0 /\ frames' = <<>> /\ pc' = "al"
    BY <1>4 DEF EndCommand, ClearCommand, ClearCommandTo
  <2>2. ShapeFits'
    BY <2>1, EmptySeq DEF ShapeFits, FloorsFit, InnermostTest, DepthsFit, CommandFirst
  <2>3. PhasesFit' /\ StacksFit' /\ RestorePointsFit' /\ CommandsStartClean' /\ RunsFit'
    BY <2>1, EmptySeq DEF PhasesFit, StacksFit, RestorePointsFit, CommandsStartClean, RunsFit
  <2>4. WritingFits'
    BY <2>1, EmptySeq DEF WritingFits
  <2> QED
    BY <2>2, <2>3, <2>4 DEF NestingFits
<1> QED
  BY <1>1, <1>2, <1>3, <1>4 DEF CommandStep

\* Opening and closing scopes keeps the nesting.
LEMMA ScopeStepKeepsNesting ==
    ASSUME Inv, Inv', NestingFits, CommitsAccepted, ScopeStep
    PROVE  NestingFits'
<1>1. ASSUME NEW kind \in ScopeKinds, OpenScope(kind) PROVE NestingFits'
  <2>1. /\ kind \in {"run", "value", "assert", "test"}
        /\ pc = "al" /\ (Hosted => frames # <<>>) /\ ~ Sealed
    BY <1>1, BoundariesAssumption DEF BoundariesAssumption, OpenScope, Running, Sealed
  <2>2. CASE RunRefused(kind)
    <3>1. QuietStep
      BY <1>1, <2>1, <2>2 DEF OpenScope, session, server, QuietStep
    <3> QED
      BY <3>1, QuietStepKeepsNesting
  <2>3. CASE /\ ~ RunRefused(kind) /\ OpenBoundary
             /\ frames' = Append(frames, NewFrame(kind))
             /\ floor' = (IF kind = "test" THEN Len(names) + 1 ELSE floor)
             /\ UNCHANGED pc
    <3>1. kind = "value" /\ floor = 0 => ~ writing
      BY <2>3 DEF RunRefused
    <3> QED
      BY <2>1, <2>3, <3>1, PushedKeepsNesting
  <2>4. CASE OpenFails /\ pc' = "raise" /\ UNCHANGED <<floor, frames>>
    <3>1. UNCHANGED <<names, inconsistent, writing, committed, view>>
      BY <2>4 DEF OpenFails
    <3>2. CASE UNCHANGED <<status, saves>>
      <4>1. QuietStep
        BY <2>1, <2>4, <3>1, <3>2 DEF QuietStep
      <4> QED
        BY <4>1, QuietStepKeepsNesting
    <3>3. CASE Refused
      <4>1. RefusedStep
        BY <2>1, <2>4, <3>1, <3>3, RefusedLeaves DEF RefusedStep
      <4> QED
        BY <4>1, RefusedStepKeepsNesting
    <3> QED
      BY <2>4, <3>2, <3>3 DEF OpenFails
  <2> QED
    BY <1>1, <2>2, <2>3, <2>4 DEF OpenScope
<1>2. CASE EndRun \/ QuitRun \/ EndAssert \/ EndTest \/ EndCollectingRun \/ KeepValueRun
           \/ DropValueRun \/ Unwind
  BY <1>2, ScopeStepEnds, ScopeEndsKeepsNesting
<1>3. CASE EndValueRun
  <2>1. pc = "al" /\ frames # <<>> /\ Top.kind = "value" /\ CommitBoundaries("keep", "drop")
    BY <1>3 DEF EndValueRun, BodyEnds
  <2>2. CommitMoves /\ UNCHANGED <<floor, tryDepth>> /\ pc' \in {"keep", "drop"}
    BY <2>1, CommitCases
  <2> QED
    BY <2>1, <2>2, CommitKeepsNesting DEF CommitCalled
<1> QED
  BY <1>1, <1>2, <1>3 DEF ScopeStep

\* A stored row is in its write phase.
LEMMA WriteRowKeepsNesting ==
    ASSUME NestingFits, NEW r \in Rows, WriteRow(r)
    PROVE  NestingFits'
<1>1. /\ pc = "al" /\ (Hosted => frames # <<>>) /\ ~ Sealed
      /\ UNCHANGED <<names, inconsistent, floor, tryDepth, frames, committed>>
  BY DEF WriteRow, Running, Sealed, server
<1>2. CASE DisableTryWrites /\ tryDepth # 0
  <2>1. QuietStep
    BY <1>1, <1>2 DEF WriteRow, server, QuietStep
  <2> QED
    BY <2>1, QuietStepKeepsNesting
<1>3. CASE /\ status \in {"idle", "active"} /\ status' = "active" /\ writing' = TRUE
           /\ UNCHANGED <<pc, saves>>
  <2>1. ShapeFits'
    BY <1>1 DEF NestingFits, ShapeFits, FloorsFit, DepthsFit, CommandFirst
  <2>2. PhasesFit' /\ StacksFit'
    BY <1>1, <1>3 DEF NestingFits, PhasesFit, StacksFit
  <2>3. RestorePointsFit' /\ RunsFit'
    BY <1>1, <1>3 DEF NestingFits, RestorePointsFit, RestoredTo, RunsFit
  <2>4. CommandsStartClean'
    BY <1>1 DEF NestingFits, CommandsStartClean, OnlyCommitted
  <2>5. WritingFits'
    BY <1>1, <1>3 DEF NestingFits, WritingFits
  <2> QED
    BY <2>1, <2>2, <2>3, <2>4, <2>5 DEF NestingFits
<1>4. CASE Refused /\ pc' = "raise" /\ UNCHANGED view
  <2>1. RefusedStep
    BY <1>1, <1>4, RefusedLeaves DEF RefusedStep
  <2> QED
    BY <2>1, RefusedStepKeepsNesting
<1> QED
  BY <1>2, <1>3, <1>4 DEF WriteRow

\* The statements that change nothing a scope or a boundary is about.
LEMMA QuietStatements ==
    ASSUME Inv, NestingFits,
           \/ \E t \in Tables, consistent \in BOOLEAN : MarkConsistent(t, consistent)
           \/ RaiseError \/ EnterTry \/ LeaveTry \/ HostCatches
           \/ CollectError \/ ClearCollected
           \/ \E c \in Cursors : OpenCursor(c) \/ CloseCursor(c)
    PROVE  QuietStep
<1>1. pc = "al" => ~ Sealed
  BY DEF Sealed
<1>2. CASE \E t \in Tables, consistent \in BOOLEAN : MarkConsistent(t, consistent)
  BY <1>1, <1>2 DEF MarkConsistent, Running, server, program, QuietStep
<1>3. CASE RaiseError \/ EnterTry \/ CollectError
  BY <1>1, <1>3 DEF RaiseError, EnterTry, CollectError, Running, session, server, program, QuietStep
<1>4. CASE LeaveTry
  <2>1. Sealed => tryDepth = TriesBelow
    BY EmptySeq DEF Sealed, TriesBelow, Top
  <2>2. TriesBelow \in Nat
    BY TopIsFrame DEF TriesBelow, Inv, Frame
  <2>3. ~ Sealed
    BY <1>4, <2>1, <2>2 DEF LeaveTry
  <2> QED
    BY <1>4, <2>3 DEF LeaveTry, server, QuietStep
<1>5. CASE HostCatches
  BY <1>5 DEF HostCatches, Sealed, session, server, QuietStep
<1>6. CASE ClearCollected
  BY <1>1, <1>6 DEF ClearCollected, Running, session, server, QuietStep
<1>7. CASE \E c \in Cursors : OpenCursor(c)
  BY <1>1, <1>7 DEF OpenCursor, Running, session, QuietStep
<1>8. CASE \E c \in Cursors : CloseCursor(c)
  BY <1>8 DEF CloseCursor, session, QuietStep
<1> QED
  BY <1>2, <1>3, <1>4, <1>5, <1>6, <1>7, <1>8

\* The statements of the AL program keep the nesting.
LEMMA ProgramStepKeepsNesting ==
    ASSUME Inv, Inv', NestingFits, CommitsAccepted, ProgramStep
    PROVE  NestingFits'
<1>1. CASE \/ \E t \in Tables, consistent \in BOOLEAN : MarkConsistent(t, consistent)
           \/ RaiseError \/ EnterTry \/ LeaveTry \/ HostCatches
           \/ CollectError \/ ClearCollected
           \/ \E c \in Cursors : OpenCursor(c) \/ CloseCursor(c)
  BY <1>1, QuietStatements, QuietStepKeepsNesting
<1>2. CASE ReadFails
  <2>1. RefusedStep
    BY <1>2, RefusedLeaves DEF ReadFails, Running, session, RefusedStep
  <2> QED
    BY <2>1, RefusedStepKeepsNesting
<1>3. CASE Commit
  <2>1. pc = "al" /\ (Hosted => frames # <<>>) /\ CommitBoundaries("al", "raise")
    BY <1>3 DEF Commit, Running
  <2>2. CommitMoves /\ UNCHANGED <<floor, tryDepth>> /\ pc' \in {"al", "raise"}
    BY <2>1, CommitCases
  <2> QED
    BY <2>1, <2>2, CommitKeepsNesting DEF CommitCalled
<1> QED
  BY <1>1, <1>2, <1>3, WriteRowKeepsNesting DEF ProgramStep

\* A session begins with no scope and no boundary.
LEMMA InitNests == Init => NestingFits
<1> SUFFICES ASSUME Init PROVE NestingFits
  OBVIOUS
<1>1. ShapeFits
  BY EmptySeq DEF Init, ShapeFits, FloorsFit, InnermostTest, DepthsFit, CommandFirst
<1>2. PhasesFit /\ StacksFit /\ RestorePointsFit /\ CommandsStartClean /\ RunsFit
  BY EmptySeq DEF Init, PhasesFit, StacksFit, RestorePointsFit, CommandsStartClean, RunsFit
<1>3. WritingFits
  BY EmptySeq DEF Init, WritingFits
<1> QED
  BY <1>1, <1>2, <1>3 DEF NestingFits

\* Where no COMMIT is rejected, scopes and boundaries match in every reachable state.
LEMMA NestingAlwaysFits == CommitsAccepted => (Spec => []NestingFits)
<1> SUFFICES ASSUME CommitsAccepted PROVE Spec => []NestingFits
  OBVIOUS
<1>1. Inv /\ Inv' /\ NestingFits /\ [Next]_vars => NestingFits'
  <2> SUFFICES ASSUME Inv, Inv', NestingFits, [Next]_vars PROVE NestingFits'
    OBVIOUS
  <2>1. CASE UNCHANGED vars
    BY <2>1 DEF vars, session, server, program, NestingFits, ShapeFits, FloorsFit, DepthsFit,
                CommandFirst, PhasesFit, StacksFit, Sealed, RestorePointsFit, RestoredTo,
                CommandsStartClean, OnlyCommitted, WritingFits, RunsFit, Top
  <2> QED
    BY <2>1, ScopeStepKeepsNesting, CommandStepKeepsNesting, ProgramStepKeepsNesting DEF Next
<1> QED
  BY <1>1, InitNests, Invariance, PTL DEF Spec

\* What a scope that no error of COMMIT has cut off restores is what it found, or what the
\* last Commit inside it left: whichever scope ends by an error, however deep, and whatever
\* was released, renewed, rolled back or refused above it.
THEOREM FailedRunsRestoreEntry == CommitsAccepted => (Spec => FailedRunRestoresEntry)
<1> SUFFICES ASSUME CommitsAccepted PROVE Spec => FailedRunRestoresEntry
  OBVIOUS
<1>1. Inv /\ NestingFits /\ [Next]_vars =>
         [(pc \in {"raise", "drop"} /\ Len(frames') < Len(frames) /\ status' \in {"idle", "active"})
             => (view' = Top.mark.data /\ inconsistent' = Top.mark.marks)]_vars
  <2> SUFFICES ASSUME Inv, NestingFits, Next, pc \in {"raise", "drop"},
                      Len(frames') < Len(frames), status' \in {"idle", "active"}
               PROVE  view' = Top.mark.data /\ inconsistent' = Top.mark.marks
    BY DEF vars, program
  <2>0. Len(frames) \in Nat
    BY LenProperties DEF Inv, TypeOK
  <2>1. CASE DropValueRun \/ Unwind
    <3>1. frames # <<>> /\ Top.kind # "command" /\ \E dropped, thrown : DropTop(dropped, thrown)
      BY <2>1 DEF DropValueRun, Unwind, Inv, ScopesFit, NestingFits, PhasesFit
    <3>2. ScopeRestored
      BY <3>1, DropCases DEF ScopeThrown
    <3>3. Len(frames) \in 1..Len(frames)
      BY <3>1, TopIsFrame DEF Inv
    <3>4. Top.mark = [data |-> saves[Len(frames)].view,
                      marks |-> names[Len(frames)].inconsistentBefore]
      BY <3>2, <3>3 DEF ScopeRestored, NestingFits, RestorePointsFit, RestoredTo, Top
    <3> QED
      BY <3>2, <3>4 DEF ScopeRestored, RestoreBoundary, RestoreBoundaryTo
  <2>2. CASE EndCommand
    <3>1. frames # <<>> /\ Top.kind = "command" /\ view' = committed /\ inconsistent' = {}
      BY <2>2 DEF EndCommand, ClearCommand, ClearCommandTo
    <3>2. Len(frames) \in 1..Len(frames) /\ frames[Len(frames)].kind = "command"
      BY <3>1, TopIsFrame DEF Inv, Top
    <3>3. Hosted /\ Len(frames) = 1
      BY <3>2 DEF NestingFits, ShapeFits, CommandFirst
    <3>4. Top.mark = [data |-> committed, marks |-> {}]
      BY <3>1, <3>3 DEF NestingFits, CommandsStartClean, OnlyCommitted, Top
    <3> QED
      BY <3>1, <3>4
  <2>3. CASE ScopeStep /\ ~ (DropValueRun \/ Unwind)
    BY <2>3 DEF ScopeStep, OpenScope, Running, EndRun, QuitRun, EndAssert, EndTest,
                EndCollectingRun, EndValueRun, KeepValueRun, BodyEnds
  <2>4. CASE CommandStep /\ ~ EndCommand
    BY <2>4 DEF CommandStep, BeginCommand, SealCommand, BodyEnds, CommitCommand
  <2>5. CASE ProgramStep
    <3>1. frames' = frames
      BY <2>5 DEF ProgramStep, WriteRow, ReadFails, MarkConsistent, Commit, RaiseError, EnterTry,
                  LeaveTry, HostCatches, CollectError, ClearCollected, OpenCursor, CloseCursor,
                  Running, program
    <3> QED
      BY <2>0, <3>1
  <2> QED
    BY <2>1, <2>2, <2>3, <2>4, <2>5 DEF Next
<1> QED
  BY <1>1, Invariance, NestingAlwaysFits, PTL DEF Spec, FailedRunRestoresEntry

----------------------------------------------------------------------------
(* The write phase is true to the pending rows where there is no test isolation, and also *)
(* with it where no COMMIT is rejected. With both, a scope that outlived its boundary may  *)
(* lie deeper than the floor of a test that is opened above it.                            *)

\* What of either invariant is about sessions outside test isolation.
PendingKnown ==
    /\ PendingIsWriting
    /\ RunStartsClean
    /\ floor = 0 /\ status = "idle" => view = committed

LEMMA PendingAlwaysKnown == Unisolated \/ CommitsAccepted => (Spec => []PendingKnown)
<1>1. PhaseFits /\ MarksFit => PendingKnown
  BY DEF PhaseFits, MarksFit, PendingKnown, PendingIsWriting, RunStartsClean
<1>2. NestingFits => PendingKnown
  BY DEF NestingFits, WritingFits, RunsFit, PendingKnown, PendingIsWriting, RunStartsClean
<1>3. CASE Unisolated
  <2>1. Spec => [](PhaseFits /\ MarksFit)
    BY <1>3, UnisolatedPhaseFits
  <2> QED
    BY <1>1, <2>1, PTL
<1>4. CASE CommitsAccepted
  <2>1. Spec => []NestingFits
    BY <1>4, NestingAlwaysFits
  <2> QED
    BY <1>2, <2>1, PTL
<1> QED
  BY <1>3, <1>4

\* Whoever reads writing_ outside test isolation learns whether rows are pending: no rollback,
\* refused Release, Commit or broken connection leaves it FALSE over a row to commit.
THEOREM PendingIsAlwaysWriting ==
    Unisolated \/ CommitsAccepted => (Spec => []PendingIsWriting)
<1> SUFFICES ASSUME Unisolated \/ CommitsAccepted PROVE Spec => []PendingIsWriting
  OBVIOUS
<1>1. PendingKnown => PendingIsWriting
  BY DEF PendingKnown
<1> QED
  BY <1>1, PendingAlwaysKnown, PTL

\* No implicit Commit of an evaluated Run makes its caller's writes durable, however
\* often AL code or the Run itself has committed, failed or rolled back before.
THEOREM RunsStartClean == Unisolated \/ CommitsAccepted => (Spec => []RunStartsClean)
<1> SUFFICES ASSUME Unisolated \/ CommitsAccepted PROVE Spec => []RunStartsClean
  OBVIOUS
<1>1. PendingKnown => RunStartsClean
  BY DEF PendingKnown
<1> QED
  BY <1>1, PendingAlwaysKnown, PTL

\* An AL Commit that returns to a program whose connection holds has found no failed
\* transaction, and where it found none at all, nothing was pending.
THEOREM LiveCommitsAreDurable ==
    Unisolated \/ CommitsAccepted => (Spec => LiveCommitIsDurable)
<1> SUFFICES ASSUME Unisolated \/ CommitsAccepted PROVE Spec => LiveCommitIsDurable
  OBVIOUS
<1>1. Inv /\ PendingKnown /\ [Next]_vars =>
         [(Commit /\ pc' = "al" /\ floor = 0 /\ status # "lost") => view \subseteq committed']_vars
  <2> SUFFICES ASSUME Inv, PendingKnown, Commit, pc' = "al", floor = 0, status # "lost"
               PROVE  view \subseteq committed'
    BY DEF vars
  <2>1. ~ CommitRefused /\ CommitDone
    BY DEF Commit, CommitBoundaries
  <2>2. status \in {"idle", "active"}
    BY <2>1 DEF CommitRefused, Inv, TypeOK, Statuses
  <2>3. CASE status = "active"
    BY <2>1, <2>3 DEF CommitDone, CommitsToServer, InTransaction, ServerCommits
  <2>4. CASE status = "idle"
    BY <2>1, <2>4 DEF CommitDone, CommitsToServer, InTransaction, PendingKnown
  <2> QED
    BY <2>2, <2>3, <2>4
<1> QED
  BY <1>1, Invariance, PendingAlwaysKnown, PTL DEF Spec, LiveCommitIsDurable

----------------------------------------------------------------------------
(* Where no COMMIT is rejected, the boundaries implement NestedTransactions: an open scope *)
(* is an entry, and every step of a statement, a boundary or the server is a step of it.   *)

Entry == [at : WorkState, isolated : BOOLEAN]

\* An entry with another work state to restore.
LEMMA MovedEntry ==
    ASSUME NEW entry \in Entry, NEW at, NEW isolated, entry.isolated = isolated
    PROVE  [at |-> at, isolated |-> isolated] = [entry EXCEPT !.at = at]
BY DEF Entry

\* An open scope as NestedTransactions sees it.
LEMMA EntriesAre ==
    ASSUME TypeOK
    PROVE  /\ Entries \in Seq(Entry) /\ Len(Entries) = Len(frames) /\ Len(frames) \in Nat
           /\ DOMAIN Entries = 1..Len(frames)
           /\ \A i \in 1..Len(frames) :
                 /\ Entries[i] \in Entry
                 /\ Entries[i].isolated = (frames[i].kind = "test")
                 /\ status = "lost" => Entries[i].at = OnlyCommitted
                 /\ status # "lost" => Entries[i].at = frames[i].mark
<1>1. Len(frames) \in Nat /\ \A i \in 1..Len(frames) : frames[i].mark \in WorkState
  <2>1. Len(frames) \in Nat /\ \A i \in 1..Len(frames) : frames[i] \in Frame
    BY LenProperties, ElementOfSeq DEF TypeOK
  <2> QED
    BY <2>1 DEF Frame
<1>2. OnlyCommitted \in WorkState
  BY DEF TypeOK, OnlyCommitted, WorkState
<1> DEFINE entry(i) == [at |-> IF status = "lost" THEN OnlyCommitted ELSE frames[i].mark,
                        isolated |-> frames[i].kind = "test"]
<1>3. Entries = [i \in 1..Len(frames) |-> entry(i)]
  BY DEF Entries
<1>4. ASSUME NEW i \in 1..Len(frames)
      PROVE  /\ entry(i) \in Entry
             /\ entry(i).isolated = (frames[i].kind = "test")
             /\ status = "lost" => entry(i).at = OnlyCommitted
             /\ status # "lost" => entry(i).at = frames[i].mark
  BY <1>1, <1>2 DEF Entry
<1> HIDE DEF entry
<1>5. Entries \in [1..Len(frames) -> Entry]
  BY <1>3, <1>4
<1>6. Entries \in Seq(Entry) /\ Len(Entries) = Len(frames)
  BY <1>1, <1>5, FunctionIsSeq
<1> QED
  BY <1>1, <1>3, <1>4, <1>6

\* The entries without the innermost one.
LEMMA OuterAre ==
    ASSUME TypeOK, frames # <<>>
    PROVE  /\ Entries # <<>> /\ Len(Entries) = Len(frames) /\ Len(frames) \in Nat \ {0}
           /\ Promise!Outer \in Seq(Entry) /\ Len(Promise!Outer) = Len(frames) - 1
           /\ \A i \in 1..(Len(frames) - 1) : Promise!Outer[i] = Entries[i]
<1>1. /\ Entries \in Seq(Entry) /\ Len(Entries) = Len(frames) /\ Len(frames) \in Nat \ {0}
  BY EntriesAre, TopIsFrame
<1>2. Len(frames) - 1 \in 0..Len(Entries) /\ Entries # <<>>
  BY <1>1, EmptySeq
<1>3. Promise!Outer = Prefix(Entries, Len(frames) - 1)
  BY <1>1 DEF Promise!Outer, Prefix
<1> QED
  BY <1>1, <1>2, <1>3, PrefixIsSeq

\* The work state of a transaction that can go on is a set of rows and of marks.
LEMMA WorkIs ==
    ASSUME TypeOK
    PROVE  /\ status \in {"idle", "active"} =>
                 Work = [data |-> view, marks |-> inconsistent] /\ Work \in WorkState /\ Work # Doomed
           /\ status = "failed" => Work = Doomed
           /\ status = "lost" => Work = OnlyCommitted
BY DoomedAssumption DEF TypeOK, Work, WorkState

\* The same kinds of scopes, and nothing of what they restore changed.
LEMMA SameEntries ==
    ASSUME UNCHANGED <<frames, committed>>, status = "lost" <=> status' = "lost"
    PROVE  Entries' = Entries
BY DEF Entries, OnlyCommitted

\* Without the innermost scope the others restore what they did.
LEMMA PoppedEntries ==
    ASSUME TypeOK, frames # <<>>, Len(frames') = Len(frames) - 1,
           \A i \in 1..(Len(frames) - 1) : frames'[i] = frames[i],
           status # "lost", status' # "lost"
    PROVE  Entries' = Promise!Outer
<1>1. /\ Len(frames) \in Nat \ {0}
      /\ Promise!Outer \in Seq(Entry) /\ Len(Promise!Outer) = Len(frames) - 1
      /\ \A i \in 1..(Len(frames) - 1) : Promise!Outer[i] = Entries[i]
  BY OuterAre
<1>2. \A i \in 1..(Len(frames) - 1) :
         Entries[i] = [at |-> frames[i].mark, isolated |-> frames[i].kind = "test"]
  BY <1>1 DEF Entries
<1>3. Entries' = [i \in 1..(Len(frames) - 1) |->
                     [at |-> frames[i].mark, isolated |-> frames[i].kind = "test"]]
  BY <1>1 DEF Entries
<1>4. Promise!Outer = [i \in 1..(Len(frames) - 1) |-> Promise!Outer[i]]
  BY <1>1
<1> QED
  BY <1>1, <1>2, <1>3, <1>4

\* A connection that is gone leaves the scopes that are left with the public rows.
LEMMA LostAborts ==
    ASSUME TypeOK, status' = "lost",
           \/ committed' = committed
           \/ status = "active" /\ inconsistent = {} /\ floor = 0 /\ committed' = view
              /\ ShapeFits,
           \/ Len(frames') = Len(frames)
           \/ frames # <<>> /\ Len(frames') = Len(frames) - 1,
           \A i \in 1..Len(frames') : frames'[i].kind = frames[i].kind
    PROVE  Promise!Abort
<1>1. Work' = Promise!OnlyDurable(committed')
  BY DEF Work, OnlyCommitted, Promise!OnlyDurable
<1>2. \/ committed' = committed
      \/ /\ Work # Doomed /\ Work.marks = {} /\ ~ Promise!Isolated
         /\ committed' = Work.data
  <2>1. CASE status = "active" /\ inconsistent = {} /\ floor = 0 /\ committed' = view /\ ShapeFits
    <3>1. \A i \in 1..Len(frames) : frames[i].kind # "test"
      BY <2>1 DEF ShapeFits, FloorsFit, InnermostTest
    <3>2. ~ Promise!Isolated
      BY <3>1, EntriesAre DEF Promise!Isolated
    <3> QED
      BY <2>1, <3>2, WorkIs
  <2> QED
    BY <2>1
<1>3. ASSUME NEW left, left \in {Entries, Promise!Outer}, left \in Seq(Entry),
             Len(left) = Len(frames'), \A i \in 1..Len(frames') : left[i] = Entries[i],
             \A i \in 1..Len(frames') : i \in 1..Len(frames)
      PROVE  Promise!Abort
  <2>1. DOMAIN left = 1..Len(frames')
    BY <1>3
  <2>2. ASSUME NEW i \in 1..Len(frames')
        PROVE  [at |-> [data |-> committed', marks |-> {}], isolated |-> frames'[i].kind = "test"]
               = [left[i] EXCEPT !.at = Promise!OnlyDurable(committed')]
    <3> DEFINE isolated == frames'[i].kind = "test"
               at == Promise!OnlyDurable(committed')
    <3>1. left[i] \in Entry /\ left[i].isolated = isolated
      BY <1>3, EntriesAre
    <3>2. at = [data |-> committed', marks |-> {}]
      BY DEF Promise!OnlyDurable
    <3> HIDE DEF isolated, at
    <3>3. [at |-> at, isolated |-> isolated] = [left[i] EXCEPT !.at = at]
      BY <3>1, MovedEntry
    <3> QED
      BY <3>2, <3>3 DEF isolated, at
  <2>3. Entries' = [i \in 1..Len(frames') |->
           [at |-> [data |-> committed', marks |-> {}], isolated |-> frames'[i].kind = "test"]]
    BY DEF Entries, OnlyCommitted
  <2>4. Entries' = [i \in DOMAIN left |-> [left[i] EXCEPT !.at = Promise!OnlyDurable(committed')]]
    BY <2>1, <2>2, <2>3
  <2> QED
    BY <1>1, <1>2, <1>3, <2>4 DEF Promise!Abort
<1>4. CASE Len(frames') = Len(frames)
  BY <1>3, <1>4, EntriesAre
<1>5. CASE frames # <<>> /\ Len(frames') = Len(frames) - 1
  BY <1>3, <1>5, OuterAre
<1> QED
  BY <1>4, <1>5

\* What every step is shown to be: a step of the promise or none.
Promised == [Promise!Next]_(Promise!vars)

\* The three variables of the promise unchanged.
LEMMA Stutters ==
    ASSUME committed' = committed, Work' = Work, Entries' = Entries
    PROVE  Promised
BY DEF Promised, Promise!vars

\* The scopes and the public rows unchanged, in a transaction that could go on.
LEMMA Changes ==
    ASSUME TypeOK, TypeOK', status \in {"idle", "active"}, status' \in {"idle", "active", "failed"},
           status' = "failed" \/ view \subseteq view', UNCHANGED <<committed, frames>>
    PROVE  Promised
<1>1. Entries' = Entries
  BY SameEntries
<1>2. Work # Doomed /\ Work.data = view
  BY WorkIs
<1>3. Work' \in WorkState \cup {Doomed} /\ (Work' # Doomed => Work.data \subseteq Work'.data)
  <2>1. CASE status' = "failed"
    BY <2>1 DEF Work
  <2>2. CASE status' \in {"idle", "active"}
    <3>1. Work' = [data |-> view', marks |-> inconsistent']
      BY <2>2 DEF Work
    <3>2. Work' \in WorkState
      BY <3>1 DEF TypeOK, WorkState
    <3>3. Work'.data = view' /\ view \subseteq view'
      BY <2>2, <3>1
    <3> QED
      BY <1>2, <3>2, <3>3
  <2> QED
    BY <2>1, <2>2
<1>4. Promise!Change
  BY <1>1, <1>2, <1>3 DEF Promise!Change, Promise!WorkState, WorkState
<1> QED
  BY <1>4 DEF Promised, Promise!Next

\* A refused statement dooms the transaction, or the connection is lost.
LEMMA BreaksIsPromised ==
    ASSUME TypeOK, TypeOK', UNCHANGED <<committed, frames>>,
           status' \in {"failed", "lost"}, status = "lost" => status' = "lost"
    PROVE  Promised
<1>1. CASE status = status'
  <2>1. Work' = Work
    BY <1>1 DEF Work, OnlyCommitted
  <2> QED
    BY <1>1, <2>1, SameEntries, Stutters
<1>2. CASE status' = "lost"
  BY <1>2, LostAborts DEF Promised, Promise!Next
<1>3. CASE status' = "failed" /\ status \in {"idle", "active"}
  BY <1>3, Changes
<1> QED
  BY <1>1, <1>2, <1>3 DEF TypeOK, Statuses

\* Statements that move no row.
LEMMA QuietIsPromised ==
    ASSUME TypeOK, TypeOK', QuietStep
    PROVE  Promised
<1>1. UNCHANGED <<frames, committed, view>>
  BY DEF QuietStep
<1>2. CASE status \in {"idle", "active"}
  <2>1. status' \in {"idle", "active"}
    BY <1>2 DEF QuietStep
  <2> QED
    BY <1>1, <1>2, <2>1, Changes
<1>3. CASE status \in {"failed", "lost"}
  <2>1. status' = status
    BY <1>3 DEF QuietStep
  <2>2. Work' = Work
    BY <1>1, <1>3, <2>1 DEF Work, OnlyCommitted
  <2> QED
    BY <1>1, <2>1, <2>2, SameEntries, Stutters
<1> QED
  BY <1>2, <1>3 DEF TypeOK, Statuses

\* A scope that ends is kept, discarded or abandoned, or ends with the connection.
LEMMA ScopeEndIsPromised ==
    ASSUME Inv, NestingFits, ScopeEnds
    PROVE  Promised
<1> DEFINE last == Len(frames)
<1>1. /\ frames # <<>> /\ last \in Nat \ {0} /\ Len(frames') = last - 1
      /\ \A i \in 1..(last - 1) : frames'[i] = frames[i]
      /\ TypeOK /\ committed' = committed
  BY PoppedKeepsShape DEF ScopeEnds, Inv, NestingFits
<1>2. /\ Entries # <<>> /\ Len(Entries) = last
      /\ Entries[last].isolated = (frames[last].kind = "test")
      /\ status # "lost" => Entries[last].at = frames[last].mark
  <2>1. last \in 1..last
    BY <1>1
  <2> QED
    BY <1>1, <2>1, EntriesAre, OuterAre
<1>3. CASE status' = "lost"
  BY <1>1, <1>3, LostAborts DEF Promised, Promise!Next
<1>4. CASE status' # "lost" /\ ScopeThrown
  <2>1. status # "lost" /\ status' = "failed"
    BY <1>4 DEF ScopeThrown
  <2>2. Entries' = Promise!Outer
    BY <1>1, <2>1, PoppedEntries
  <2>3. Work' = Doomed
    BY <2>1 DEF Work
  <2> QED
    BY <1>1, <1>2, <2>2, <2>3 DEF Promise!Abandon, Promised, Promise!Next
<1>5. CASE ScopeRestored
  <2>1. /\ status # "lost" /\ status' = "active" /\ last <= Len(saves)
        /\ view' = saves[last].view /\ inconsistent' = names[last].inconsistentBefore
    BY <1>5 DEF ScopeRestored, RestoreBoundary, RestoreBoundaryTo
  <2>2. Entries' = Promise!Outer
    BY <1>1, <2>1, PoppedEntries
  <2>3. frames[last].mark = [data |-> view', marks |-> inconsistent']
    <3>1. last \in 1..last
      BY <1>1
    <3> QED
      BY <2>1, <3>1 DEF NestingFits, RestorePointsFit, RestoredTo
  <2>4. Work' = Entries[Len(Entries)].at
    BY <1>2, <2>1, <2>3 DEF Work
  <2> QED
    BY <1>1, <1>2, <2>2, <2>4 DEF Promise!Discard, Promised, Promise!Next
<1>6. CASE ScopeReleased /\ Top.kind # "test"
  <2>1. status = "active" /\ status' = "active" /\ UNCHANGED <<view, inconsistent>>
    BY <1>6 DEF ScopeReleased
  <2>2. Entries' = Promise!Outer
    BY <1>1, <2>1, PoppedEntries
  <2>3. Work' = Work /\ Work # Doomed
    BY <1>1, <2>1, WorkIs DEF Work
  <2>4. ~ Entries[Len(Entries)].isolated
    BY <1>2, <1>6 DEF Top
  <2> QED
    BY <1>1, <1>2, <2>2, <2>3, <2>4 DEF Promise!Keep, Promised, Promise!Next
<1> QED
  BY <1>3, <1>4, <1>5, <1>6 DEF ScopeEnds

\* A scope that opens is meant to restore the work it finds.
LEMMA PushIsPromised ==
    ASSUME Inv, OpenBoundary, NEW kind, frames' = Append(frames, NewFrame(kind))
    PROVE  Promised
<1>1. /\ status \in {"idle", "active"} /\ status' = "active"
      /\ UNCHANGED <<inconsistent, committed, view>>
      /\ frames \in Seq(Frame) /\ Len(frames) \in Nat
  BY LenProperties DEF OpenBoundary, Inv, TypeOK
<1>2. Work' = Work /\ Work # Doomed /\ Work = [data |-> view, marks |-> inconsistent]
  BY <1>1, WorkIs DEF Work, Inv
<1>3. /\ Len(frames') = Len(frames) + 1
      /\ \A i \in 1..Len(frames) : frames'[i] = frames[i]
      /\ frames'[Len(frames) + 1] = NewFrame(kind)
  BY <1>1, LenProperties
<1> DEFINE test == kind = "test"
<1>4. NewFrame(kind).mark = Work /\ (NewFrame(kind).kind = "test") = test
  BY <1>2 DEF NewFrame
<1>5. Entries' = [i \in 1..(Len(frames) + 1) |->
                     [at |-> frames'[i].mark, isolated |-> frames'[i].kind = "test"]]
  BY <1>1, <1>3 DEF Entries
<1>6. Entries = [i \in 1..Len(frames) |->
                     [at |-> frames[i].mark, isolated |-> frames[i].kind = "test"]]
  BY <1>1 DEF Entries
<1> DEFINE added == [at |-> Work, isolated |-> test]
<1>7. Entries \in Seq(Entry) /\ Len(Entries) = Len(frames)
  BY EntriesAre DEF Inv
<1>8. Append(Entries, added) = [i \in 1..(Len(frames) + 1) |->
                                   IF i = Len(frames) + 1 THEN added ELSE Entries[i]]
  BY <1>1, <1>7
<1>9. ASSUME NEW i \in 1..(Len(frames) + 1)
      PROVE  [at |-> frames'[i].mark, isolated |-> frames'[i].kind = "test"]
             = IF i = Len(frames) + 1 THEN added ELSE Entries[i]
  <2>1. CASE i = Len(frames) + 1
    BY <1>3, <1>4, <2>1
  <2>2. CASE i \in 1..Len(frames)
    BY <1>1, <1>3, <1>6, <2>2
  <2>3. i = Len(frames) + 1 \/ i \in 1..Len(frames)
    BY <1>1
  <2> QED
    BY <2>1, <2>2, <2>3
<1>10. Entries' = Append(Entries, added)
  BY <1>5, <1>8, <1>9
<1>11. test \in BOOLEAN
  OBVIOUS
<1> HIDE DEF test
<1>12. Promise!Open
  BY <1>1, <1>2, <1>10, <1>11 DEF Promise!Open
<1> QED
  BY <1>12 DEF Promised, Promise!Next

\* A Commit that reaches the renewal of the boundaries moves every entry above the innermost
\* test's, and makes the rows public where there is none.
LEMMA RenewsIsPromised ==
    ASSUME Inv, Inv', NestingFits, NEW n \in 0..Renewals, CommitRenews(n)
    PROVE  Promised
<1> DEFINE last == Len(frames)
<1>1. /\ status = "active" /\ status' \in {"idle", "active", "failed"}
      /\ inconsistent = {} /\ UNCHANGED <<inconsistent, view>>
      /\ committed' = (IF floor = 0 THEN view ELSE committed)
      /\ frames' = Remarked(floor, view)
  BY DEF CommitRenews
<1>2. /\ floor \in Nat /\ view \in SUBSET Rows /\ frames \in Seq(Frame) /\ last \in Nat
  BY LenProperties DEF Inv, TypeOK
<1>3. /\ Len(frames') = last
      /\ \A i \in 1..last : frames'[i].kind = frames[i].kind
      /\ \A i \in 1..last : i > floor => frames'[i].mark = [data |-> view, marks |-> {}]
      /\ \A i \in 1..last : i <= floor => frames'[i].mark = frames[i].mark
  BY <1>1, <1>2, RemarkedShape DEF SameShape, NestingFits, ShapeFits, Inv
<1>4. /\ Entries \in Seq(Entry) /\ Len(Entries) = last /\ DOMAIN Entries = 1..last
      /\ \A i \in 1..last :
            /\ Entries[i] \in Entry
            /\ Entries[i].isolated = (frames[i].kind = "test")
            /\ Entries[i].at = frames[i].mark
  BY <1>1, EntriesAre DEF Inv
<1>5. /\ Work = [data |-> view, marks |-> {}] /\ Work # Doomed
      /\ Work' \in {Work, Doomed}
  <2>1. Work = [data |-> view, marks |-> {}] /\ Work # Doomed
    BY <1>1, WorkIs DEF Inv
  <2>2. status' = "failed" => Work' = Doomed
    BY DEF Work
  <2>3. status' \in {"idle", "active"} => Work' = [data |-> view, marks |-> {}]
    BY <1>1 DEF Work
  <2> QED
    BY <1>1, <2>1, <2>2, <2>3
<1>6. InnermostTest(frames, last, floor)
  BY DEF NestingFits, ShapeFits, FloorsFit
<1>7. Promise!Isolated <=> floor # 0
  <2>1. \A j \in 1..last : Entries[j].isolated <=> frames[j].kind = "test"
    BY <1>4
  <2>2. floor # 0 => floor \in 1..last /\ frames[floor].kind = "test"
    BY <1>2, <1>6 DEF InnermostTest
  <2>3. floor = 0 => \A j \in 1..last : frames[j].kind # "test"
    BY <1>2, <1>6 DEF InnermostTest
  <2> QED
    BY <1>4, <2>1, <2>2, <2>3 DEF Promise!Isolated
<1>8. ASSUME NEW i \in 1..last PROVE Promise!Shielded(i) <=> i <= floor
  <2>1. \A j \in i..last : Entries[j].isolated <=> frames[j].kind = "test"
    <3>1. \A j \in i..last : j \in 1..last
      BY <1>2
    <3>2. \A j \in 1..last : Entries[j].isolated <=> frames[j].kind = "test"
      BY <1>4
    <3> QED
      BY <3>1, <3>2
  <2>2. i <= floor => floor \in i..last /\ frames[floor].kind = "test"
    BY <1>2, <1>6 DEF InnermostTest
  <2>3. ~ i <= floor => \A j \in i..last : frames[j].kind # "test"
    BY <1>2, <1>6 DEF InnermostTest
  <2> QED
    BY <1>4, <2>1, <2>2, <2>3 DEF Promise!Shielded
<1>9. Entries' = Promise!Moved(Work.data)
  <2>1. Entries' = [i \in 1..last |->
                       [at |-> frames'[i].mark, isolated |-> frames'[i].kind = "test"]]
    BY <1>1, <1>3 DEF Entries
  <2>2. Promise!Moved(view) =
           [i \in 1..last |-> IF Promise!Shielded(i) THEN Entries[i]
                              ELSE [Entries[i] EXCEPT !.at = Promise!OnlyDurable(view)]]
    BY <1>4 DEF Promise!Moved
  <2>3. ASSUME NEW i \in 1..last
        PROVE  [at |-> frames'[i].mark, isolated |-> frames'[i].kind = "test"]
               = IF Promise!Shielded(i) THEN Entries[i]
                 ELSE [Entries[i] EXCEPT !.at = Promise!OnlyDurable(view)]
    <3> DEFINE isolated == frames'[i].kind = "test"
               at == frames'[i].mark
    <3>1. Entries[i] \in Entry /\ Entries[i].isolated = isolated
      BY <1>3, <1>4
    <3>2. i <= floor => Entries[i].at = at
      BY <1>3, <1>4
    <3>3. ~ i <= floor => at = Promise!OnlyDurable(view)
      <4>1. ~ i <= floor => i > floor
        BY <1>2
      <4> QED
        BY <1>3, <4>1 DEF Promise!OnlyDurable
    <3> HIDE DEF isolated, at
    <3>4. [at |-> at, isolated |-> isolated] = [Entries[i] EXCEPT !.at = at]
      BY <3>1, MovedEntry
    <3>5. [at |-> at, isolated |-> isolated] = [at |-> at, isolated |-> Entries[i].isolated]
      BY <3>1
    <3>6. Entries[i] = [at |-> Entries[i].at, isolated |-> Entries[i].isolated]
      BY <3>1 DEF Entry
    <3>7. CASE i <= floor
      BY <1>8, <3>2, <3>5, <3>6, <3>7 DEF isolated, at
    <3>8. CASE ~ i <= floor
      BY <1>8, <3>3, <3>4, <3>8 DEF isolated, at
    <3> QED
      BY <3>7, <3>8
  <2> QED
    BY <1>5, <2>1, <2>2, <2>3
<1>10. committed' = (IF Promise!Isolated THEN committed ELSE Work.data) /\ Work.marks = {}
  BY <1>1, <1>5, <1>7
<1>11. Promise!Commit
  BY <1>5, <1>9, <1>10 DEF Promise!Commit
<1> QED
  BY <1>11 DEF Promised, Promise!Next

\* Boundaries::Commit.
LEMMA CommitIsPromised ==
    ASSUME Inv, Inv', NestingFits, CommitMoves
    PROVE  Promised
<1>0. TypeOK /\ TypeOK' /\ view \in SUBSET Rows /\ ShapeFits
  BY DEF Inv, TypeOK, NestingFits
<1>1. CASE CommitIdle
  <2>1. UNCHANGED <<inconsistent, status, view, committed, frames>>
    BY <1>1 DEF CommitIdle
  <2>2. Work' = Work
    BY <2>1 DEF Work, OnlyCommitted
  <2> QED
    BY <2>1, <2>2, SameEntries, Stutters
<1>2. ASSUME NEW n \in 0..Renewals, CommitRenews(n) PROVE Promised
  BY <1>2, RenewsIsPromised
<1>3. CASE CommitBreaks
  <2>1. SameShape
    <3>1. CASE frames' = frames
      BY <3>1 DEF SameShape
    <3>2. CASE frames' = Remarked(0, view)
      BY <1>0, <3>2, RemarkedShape DEF ShapeFits
    <3> QED
      BY <1>3, <3>1, <3>2 DEF CommitBreaks
  <2>2. /\ status' = "lost"
        /\ \/ committed' = committed
           \/ status = "active" /\ inconsistent = {} /\ floor = 0 /\ committed' = view
    BY <1>3 DEF CommitBreaks
  <2>3. Promise!Abort
    BY <1>0, <2>1, <2>2, LostAborts DEF SameShape
  <2> QED
    BY <2>3 DEF Promised, Promise!Next
<1>4. CASE CommitFails
  BY <1>0, <1>4, Changes DEF CommitFails
<1> QED
  BY <1>1, <1>2, <1>3, <1>4 DEF CommitMoves

\* SessionCommand: its root boundary and what ends it.
LEMMA CommandStepIsPromised ==
    ASSUME Inv, Inv', NestingFits, CommitsAccepted, CommandStep
    PROVE  Promised
<1>0. TypeOK /\ TypeOK' /\ Len(frames) \in Nat
  BY LenProperties DEF Inv, TypeOK
<1>1. CASE BeginCommand
  <2>1. OpenBoundary /\ frames' = Append(frames, NewFrame("command"))
    BY <1>1 DEF BeginCommand
  <2> QED
    BY <2>1, PushIsPromised
<1>2. CASE SealCommand
  <2>1. /\ pc = "al" /\ frames # <<>> /\ Top.kind = "command"
        /\ pc' \in {"seal", "raise"} /\ UNCHANGED <<frames, floor, tryDepth, committed>>
    BY <1>2 DEF SealCommand, BodyEnds
  <2>2. Len(frames) = 1 /\ Hosted
    <3>1. Len(frames) \in 1..Len(frames) /\ frames[Len(frames)].kind = "command"
      BY <2>1, TopIsFrame DEF Inv, Top
    <3> QED
      BY <3>1 DEF NestingFits, ShapeFits, CommandFirst
  <2>3. CASE UNCHANGED <<status, view, inconsistent>>
    <3>1. Work' = Work
      BY <2>1, <2>3 DEF Work, OnlyCommitted
    <3> QED
      BY <2>1, <2>3, <3>1, SameEntries, Stutters
  <2>4. CASE 1 <= Len(saves) /\ status \in {"active", "failed"} /\ RestoreBoundary(1)
    <3>1. /\ status' = "active" /\ view' = saves[1].view
          /\ inconsistent' = names[1].inconsistentBefore
      BY <2>4 DEF RestoreBoundary, RestoreBoundaryTo
    <3>2. frames[1].mark = RestoredTo(1) /\ frames[1].mark = OnlyCommitted
      BY <2>1, <2>2, <2>4 DEF NestingFits, RestorePointsFit, CommandsStartClean
    <3>3. Work' = OnlyCommitted
      BY <3>1, <3>2 DEF Work, RestoredTo
    <3>4. Entries' = Entries
      BY <2>1, <2>4, <3>1, SameEntries
    <3>5. Entries = [i \in DOMAIN Entries |-> [Entries[i] EXCEPT !.at = OnlyCommitted]]
      <4>1. /\ Entries \in Seq(Entry) /\ DOMAIN Entries = 1..1 /\ Entries[1] \in Entry
            /\ Entries[1].at = OnlyCommitted
        BY <1>0, <2>2, <2>4, <3>2, EntriesAre
      <4>2. Entries[1] = [Entries[1] EXCEPT !.at = OnlyCommitted]
        BY <4>1 DEF Entry
      <4>3. Entries = [i \in DOMAIN Entries |-> Entries[i]] /\ \A i \in DOMAIN Entries : i = 1
        BY <4>1
      <4> QED
        BY <4>2, <4>3
    <3>6. Promise!OnlyDurable(committed') = OnlyCommitted
      BY <2>1 DEF Promise!OnlyDurable, OnlyCommitted
    <3>7. Promise!Abort
      BY <2>1, <3>3, <3>4, <3>5, <3>6 DEF Promise!Abort
    <3> QED
      BY <3>7 DEF Promised, Promise!Next
  <2>5. CASE RollbackThrows(1)
    <3>1. status' \in {"failed", "lost"} /\ (status = "lost" => status' = "lost")
      BY <1>0, <2>2, <2>5, RollbackThrowsIsThrown DEF ScopeThrown
    <3> QED
      BY <1>0, <2>1, <3>1, BreaksIsPromised
  <2> QED
    BY <1>2, <2>3, <2>4, <2>5 DEF SealCommand, ReleaseThrows, Releases, UnfinishedBoundary
<1>3. CASE CommitCommand
  <2>1. CommitMoves
    BY <1>3, CommitCases DEF CommitCommand
  <2> QED
    BY <2>1, CommitIsPromised
<1>4. CASE EndCommand
  <2>1. /\ status' = "idle" /\ view' = committed /\ committed' = committed
        /\ inconsistent' = {} /\ frames' = <<>>
    BY <1>4 DEF EndCommand, ClearCommand, ClearCommandTo
  <2>2. frames # <<>> /\ Len(frames) = 1
    <3>1. CASE pc = "detach"
      <4>1. Len(frames) = 1
        BY <3>1 DEF NestingFits, PhasesFit, Sealed
      <4> QED
        BY <4>1, EmptySeq
    <3>2. CASE frames # <<>> /\ Top.kind = "command"
      <4>1. Len(frames) \in 1..Len(frames) /\ frames[Len(frames)].kind = "command"
        BY <3>2, TopIsFrame DEF Inv, Top
      <4> QED
        BY <3>2, <4>1 DEF NestingFits, ShapeFits, CommandFirst
    <3> QED
      BY <1>4, <3>1, <3>2 DEF EndCommand
  <2>3. Promise!Outer = <<>> /\ Entries' = <<>>
    <3>1. Promise!Outer \in Seq(Entry) /\ Len(Promise!Outer) = 0
      BY <1>0, <2>2, OuterAre
    <3>2. Entries' = [i \in 1..0 |-> [at |-> frames'[i].mark, isolated |-> frames'[i].kind = "test"]]
      BY <2>1, EmptySeq DEF Entries
    <3> QED
      BY <3>1, <3>2, EmptySeq
  <2>4. Work' = Promise!OnlyDurable(committed')
    BY <2>1 DEF Work, Promise!OnlyDurable
  <2>5. Promise!Outer = [i \in DOMAIN Promise!Outer |->
                            [Promise!Outer[i] EXCEPT !.at = Promise!OnlyDurable(committed')]]
    BY <2>3
  <2>6. Promise!Abort
    BY <2>1, <2>3, <2>4, <2>5 DEF Promise!Abort
  <2> QED
    BY <2>6 DEF Promised, Promise!Next
<1> QED
  BY <1>1, <1>2, <1>3, <1>4 DEF CommandStep

\* Opening and closing scopes.
LEMMA ScopeStepIsPromised ==
    ASSUME Inv, Inv', NestingFits, CommitsAccepted, ScopeStep
    PROVE  Promised
<1>0. TypeOK /\ TypeOK'
  BY DEF Inv
<1>1. ASSUME NEW kind \in ScopeKinds, OpenScope(kind) PROVE Promised
  <2>1. CASE UNCHANGED <<status, frames, committed, view, inconsistent>>
    <3>1. Work' = Work
      BY <2>1 DEF Work, OnlyCommitted
    <3> QED
      BY <2>1, <3>1, SameEntries, Stutters
  <2>2. CASE OpenBoundary /\ frames' = Append(frames, NewFrame(kind))
    BY <2>2, PushIsPromised
  <2>3. CASE OpenFails /\ Refused /\ UNCHANGED frames
    <3>1. UNCHANGED <<committed, frames>>
      BY <2>3 DEF OpenFails
    <3> QED
      BY <1>0, <2>3, <3>1, RefusedLeaves, BreaksIsPromised
  <2> QED
    BY <1>1, <2>1, <2>2, <2>3 DEF OpenScope, OpenFails, session, server
<1>2. CASE EndRun \/ QuitRun \/ EndAssert \/ EndTest \/ EndCollectingRun \/ KeepValueRun
           \/ DropValueRun \/ Unwind
  BY <1>2, ScopeStepEnds, ScopeEndIsPromised
<1>3. CASE EndValueRun
  <2>1. CommitMoves
    BY <1>3, CommitCases DEF EndValueRun
  <2> QED
    BY <2>1, CommitIsPromised
<1> QED
  BY <1>1, <1>2, <1>3 DEF ScopeStep

\* The statements of the AL program.
LEMMA ProgramStepIsPromised ==
    ASSUME Inv, Inv', NestingFits, CommitsAccepted, ProgramStep
    PROVE  Promised
<1>0. TypeOK /\ TypeOK'
  BY DEF Inv
<1>1. CASE \/ \E t \in Tables, consistent \in BOOLEAN : MarkConsistent(t, consistent)
           \/ RaiseError \/ EnterTry \/ LeaveTry \/ HostCatches
           \/ CollectError \/ ClearCollected
           \/ \E c \in Cursors : OpenCursor(c) \/ CloseCursor(c)
  BY <1>0, <1>1, QuietStatements, QuietIsPromised
<1>2. CASE ReadFails
  BY <1>0, <1>2, RefusedLeaves, BreaksIsPromised DEF ReadFails
<1>3. CASE Commit
  <2>1. CommitMoves
    BY <1>3, CommitCases DEF Commit
  <2> QED
    BY <2>1, CommitIsPromised
<1>4. ASSUME NEW r \in Rows, WriteRow(r) PROVE Promised
  <2>1. UNCHANGED <<frames, committed>>
    BY <1>4 DEF WriteRow, server
  <2>2. CASE UNCHANGED <<status, view, inconsistent>>
    <3>1. Work' = Work
      BY <2>1, <2>2 DEF Work, OnlyCommitted
    <3> QED
      BY <2>1, <2>2, <3>1, SameEntries, Stutters
  <2>3. CASE status \in {"idle", "active"} /\ status' = "active" /\ view' = view \cup {r}
    BY <1>0, <2>1, <2>3, Changes
  <2>4. CASE Refused
    BY <1>0, <2>1, <2>4, RefusedLeaves, BreaksIsPromised
  <2> QED
    BY <1>4, <2>2, <2>3, <2>4 DEF WriteRow, server
<1> QED
  BY <1>1, <1>2, <1>3, <1>4 DEF ProgramStep

\* Scopes are kept, discarded or abandoned with all that was written in them, a Commit
\* survives every later discard unless a test is open, and no row is made durable or taken
\* back any other way: what the session's and the server's stacks do is what AL promises.
THEOREM BoundariesKeepThePromise == CommitsAccepted => (Spec => ImplementsPromise)
<1> SUFFICES ASSUME CommitsAccepted PROVE Spec => ImplementsPromise
  OBVIOUS
<1>1. Init => Promise!Init
  <2> SUFFICES ASSUME Init PROVE Promise!Init
    OBVIOUS
  <2>1. Work = Promise!OnlyDurable({}) /\ committed = {}
    BY DEF Init, Work, Promise!OnlyDurable
  <2>2. Entries = <<>>
    <3>1. Entries = [i \in 1..0 |-> [at |-> frames[i].mark, isolated |-> frames[i].kind = "test"]]
      BY EmptySeq DEF Init, Entries
    <3> QED
      BY <3>1
  <2> QED
    BY <2>1, <2>2 DEF Promise!Init
<1>2. Inv /\ Inv' /\ NestingFits /\ [Next]_vars => [Promise!Next]_(Promise!vars)
  <2> SUFFICES ASSUME Inv, Inv', NestingFits, [Next]_vars PROVE Promised
    BY DEF Promised
  <2>1. CASE UNCHANGED vars
    <3>1. UNCHANGED <<status, frames, committed, view, inconsistent>>
      BY <2>1 DEF vars, session, server, program
    <3>2. Work' = Work
      BY <3>1 DEF Work, OnlyCommitted
    <3> QED
      BY <3>1, <3>2, SameEntries, Stutters
  <2> QED
    BY <2>1, ScopeStepIsPromised, CommandStepIsPromised, ProgramStepIsPromised DEF Next
<1> QED
  BY <1>1, <1>2, Invariance, NestingAlwaysFits, PTL DEF Spec, ImplementsPromise, Promise!Spec

----------------------------------------------------------------------------
(* What is durable stays: no rollback to a boundary that was opened before a Commit, and   *)
(* no Commit over rows such a rollback left, takes back what another connection has seen.  *)

\* A row that another connection has seen is never taken back: Boundaries::Commit opens the
\* enclosing boundaries again after the COMMIT, so none of them leads to before it.
CommittedStays == [][committed \subseteq committed']_vars

\* The session's rows, now and wherever it can go back to, include the durable ones.
DurableEverywhere ==
    /\ committed \subseteq view
    /\ \A i \in 1..Len(saves) : committed \subseteq saves[i].view

\* A step that commits nothing, goes back at most to a savepoint, and makes none but of now.
RowsFollow ==
    /\ committed' = committed
    /\ view \subseteq view' \/ \E i \in 1..Len(saves) : view' = saves[i].view
    /\ \A i \in 1..Len(saves') : (i \in 1..Len(saves) /\ saves'[i] = saves[i]) \/ saves'[i].view = view

LEMMA FollowingKeepsDurable ==
    ASSUME DurableEverywhere, RowsFollow
    PROVE  DurableEverywhere'
BY DEF DurableEverywhere, RowsFollow

\* A statement that fails, or loses the connection and with it the savepoints.
LEMMA SavesShrink ==
    ASSUME view \subseteq view', committed' = committed, saves' = saves \/ saves' = <<>>
    PROVE  RowsFollow
BY EmptySeq DEF RowsFollow

\* What is left of the savepoints is a bottom part of them.
LEMMA PrefixFollows ==
    ASSUME TypeOK, NEW d \in Nat, d <= Len(saves), saves' = Prefix(saves, d), committed' = committed,
           view' = view \/ \E i \in 1..Len(saves) : view' = saves[i].view
    PROVE  RowsFollow
<1>1. d \in 0..Len(saves)
  BY LenProperties DEF TypeOK
<1>2. /\ Len(saves') = d /\ \A i \in 1..d : saves'[i] = saves[i]
      /\ \A i \in 1..d : i \in 1..Len(saves)
  BY <1>1, PrefixIsSeq DEF TypeOK
<1> QED
  BY <1>2 DEF RowsFollow

\* Release and Rollback.
LEMMA BoundaryEndFollows ==
    ASSUME TypeOK, SavepointsMatch, NEW d \in Nat \ {0}, committed' = committed,
           RollsBack(d) \/ RollbackThrows(d) \/ Releases(d) \/ ReleaseThrows(d)
    PROVE  RowsFollow
<1>0. Len(saves) \in Nat /\ Len(names) \in Nat /\ d - 1 \in Nat
  BY LenProperties DEF TypeOK
<1>1. ASSUME d <= Len(saves), RestoreBoundary(d) PROVE RowsFollow
  <2>1. /\ saves' = Prefix(saves, d - 1) /\ view' = saves[d].view
        /\ d \in 1..Len(saves) /\ d - 1 <= Len(saves)
    BY <1>0, <1>1 DEF RestoreBoundary, RestoreBoundaryTo
  <2> QED
    BY <1>0, <2>1, PrefixFollows
<1>2. CASE RollsBack(d)
  <2>1. CASE UNCHANGED <<view, saves>>
    BY <2>1, SavesShrink
  <2> QED
    BY <1>1, <1>2, <2>1 DEF RollsBack
<1>3. CASE RollbackThrows(d)
  <2>1. CASE UNCHANGED view /\ (saves' = saves \/ saves' = <<>>)
    BY <2>1, SavesShrink
  <2>2. CASE d <= Len(saves) /\ view' = saves[d].view /\ saves' = Prefix(saves, d)
    <3>1. d \in 1..Len(saves)
      BY <1>0, <2>2
    <3> QED
      BY <2>2, <3>1, PrefixFollows
  <2> QED
    BY <1>3, <2>1, <2>2 DEF RollbackThrows, Severed
<1>4. CASE Releases(d)
  <2>1. CASE UNCHANGED <<view, saves>>
    BY <2>1, SavesShrink
  <2>2. CASE d <= Len(names) /\ status = "active" /\ saves' = Prefix(saves, d - 1) /\ UNCHANGED view
    <3>1. d - 1 <= Len(saves)
      BY <1>0, <2>2 DEF SavepointsMatch
    <3> QED
      BY <1>0, <2>2, <3>1, PrefixFollows
  <2> QED
    BY <1>0, <1>4, <2>1, <2>2 DEF Releases
<1> QED
  BY <1>1, <1>2, <1>3, <1>4 DEF ReleaseThrows

\* A boundary that opens.
LEMMA OpenBoundaryFollows ==
    ASSUME TypeOK, OpenBoundary
    PROVE  RowsFollow
<1>1. UNCHANGED <<committed, view>> /\ Len(saves) \in Nat
  BY LenProperties DEF OpenBoundary, TypeOK
<1>2. /\ Len(saves') = Len(saves) + 1
      /\ \A i \in 1..Len(saves) : saves'[i] = saves[i]
      /\ saves'[Len(saves) + 1].view = view
  BY DEF OpenBoundary, TypeOK
<1>3. \A i \in 1..(Len(saves) + 1) : i = Len(saves) + 1 \/ i \in 1..Len(saves)
  BY <1>1
<1> QED
  BY <1>1, <1>2, <1>3 DEF RowsFollow

\* A renewal under a floor makes savepoints of now.
LEMMA RenewalFollows ==
    ASSUME Inv, ~ CommitRefused, status = "active", NEW n \in 0..Renewals,
           NEW open \in SUBSET Cursors, saves' = RenewedSaves(n, view, open)
    PROVE  /\ \A i \in 1..Len(saves') :
                 (i \in 1..floor /\ i \in 1..Len(saves) /\ saves'[i] = saves[i]) \/ saves'[i].view = view
<1>1. /\ saves \in Seq(Savepoint) /\ view \in SUBSET Rows /\ issued \in Nat
      /\ floor \in Nat /\ Len(saves) \in Nat /\ Len(names) \in Nat
      /\ Len(saves) = Len(names) /\ floor <= Len(names)
  BY LenProperties DEF Inv, TypeOK, SavepointsMatch, CommitRefused
<1>2. floor \in 0..Len(saves) /\ n \in Nat
  BY <1>1 DEF Renewals
<1>3. Len(saves') = floor + n
  BY <1>1, <1>2, RenewedSavesIsSeq
<1> SUFFICES ASSUME NEW i \in 1..(floor + n)
             PROVE (i \in 1..floor /\ i \in 1..Len(saves) /\ saves'[i] = saves[i]) \/ saves'[i].view = view
  BY <1>3
<1>4. CASE i <= floor
  BY <1>1, <1>2, <1>4 DEF RenewedSaves
<1>5. CASE ~ i <= floor
  BY <1>1, <1>2, <1>5 DEF RenewedSaves
<1> QED
  BY <1>4, <1>5

\* Boundaries::Commit: what it makes durable is all the session has, and where it can go
\* back to afterwards is not before it.
LEMMA CommitKeepsDurable ==
    ASSUME Inv, DurableEverywhere, NEW done, NEW thrown, CommitBoundaries(done, thrown)
    PROVE  DurableEverywhere' /\ committed \subseteq committed'
<1>0. /\ committed \subseteq view /\ cursors \in SUBSET Cursors /\ {} \in SUBSET Cursors
      /\ StackOK /\ ProgramOK
  BY InvariantParts DEF Inv, TypeOK, DurableEverywhere
<1>1. ASSUME ~ CommitRefused, status = "active", NEW n \in 0..Renewals, NEW open \in SUBSET Cursors,
             saves' = RenewedSaves(n, view, open), view' = view,
             committed' = (IF floor = 0 THEN view ELSE committed)
      PROVE  DurableEverywhere' /\ committed \subseteq committed'
  <2>1. \A i \in 1..Len(saves') :
           (i \in 1..floor /\ i \in 1..Len(saves) /\ saves'[i] = saves[i]) \/ saves'[i].view = view
    BY <1>1, RenewalFollows
  <2>2. CASE floor = 0
    <3>1. \A i \in 1..Len(saves') : saves'[i].view = view
      BY <2>1, <2>2
    <3> QED
      BY <1>0, <1>1, <2>2, <3>1 DEF DurableEverywhere
  <2>3. CASE floor # 0
    <3>1. RowsFollow
      BY <1>1, <2>1, <2>3 DEF RowsFollow
    <3> QED
      BY <1>1, <2>3, <3>1, FollowingKeepsDurable
  <2> QED
    BY <2>2, <2>3
<1>2. ASSUME UNCHANGED <<committed, view>>, saves' = saves \/ saves' = <<>>
      PROVE  DurableEverywhere' /\ committed \subseteq committed'
  BY <1>2, SavesShrink, FollowingKeepsDurable
<1>3. CASE CommitRefused
  BY <1>2, <1>3 DEF CommitBoundaries, server
<1>4. CASE ~ CommitRefused /\ CommitDone
  <2>1. Renewals \in Nat /\ Renewals \in 0..Renewals /\ status # "failed"
    BY <1>0, <1>4, CommitStarts
  <2>2. CASE status = "active" /\ floor = 0
    <3>1. committed' = view /\ view' = view /\ saves' = RenewedSaves(Renewals, view, {})
      BY <1>4, <2>2 DEF CommitDone, CommitsToServer, InTransaction, ServerCommits
    <3> QED
      BY <1>0, <1>1, <1>4, <2>1, <2>2, <3>1
  <2>3. CASE status = "active" /\ floor # 0
    <3>1. UNCHANGED <<committed, view>> /\ saves' = RenewedSaves(Renewals, view, cursors)
      BY <1>4, <2>3 DEF CommitDone, CommitsToServer, InTransaction
    <3> QED
      BY <1>0, <1>1, <1>4, <2>1, <2>3, <3>1
  <2>4. CASE status # "active"
    <3>1. UNCHANGED <<committed, view, saves>>
      BY <1>4, <2>1, <2>4 DEF CommitDone, CommitsToServer, InTransaction
    <3> QED
      BY <1>2, <3>1
  <2> QED
    BY <2>2, <2>3, <2>4
<1>5. CASE CommitRejected
  <2>1. view' = committed /\ committed' = committed /\ Len(saves') = 0
    BY <1>5, EmptySeq DEF CommitRejected
  <2> QED
    BY <2>1 DEF DurableEverywhere
<1>6. CASE CommitSevered
  <2>1. view' = view /\ committed' \in {committed, view} /\ (saves' = saves \/ saves' = <<>>)
    BY <1>6 DEF CommitSevered, Severed
  <2>2. CASE committed' = committed
    BY <1>2, <2>1, <2>2
  <2>3. CASE committed' # committed
    <3>1. committed' = view /\ Len(saves') = 0
      BY <1>6, <2>3, EmptySeq DEF CommitSevered, Severed
    <3> QED
      BY <1>0, <2>1, <3>1 DEF DurableEverywhere
  <2> QED
    BY <2>2, <2>3
<1>7. CASE ~ CommitRefused /\ RenewalRefused
  <2>1. PICK n \in 0..(Renewals - 1) : saves' = RenewedSaves(n, view, IF floor = 0 THEN {} ELSE cursors)
    BY <1>7 DEF RenewalRefused
  <2>2. Renewals \in Nat
    BY <1>0, <1>7, CommitStarts
  <2>3. n \in 0..Renewals /\ (IF floor = 0 THEN {} ELSE cursors) \in SUBSET Cursors
    BY <1>0, <2>2
  <2>4. status = "active" /\ view' = view /\ committed' = (IF floor = 0 THEN view ELSE committed)
    BY <1>7 DEF RenewalRefused
  <2> QED
    BY <1>1, <1>7, <2>1, <2>3, <2>4
<1>8. CASE FloorReleaseRefused
  BY <1>2, <1>8 DEF FloorReleaseRefused
<1> QED
  BY <1>3, <1>4, <1>5, <1>6, <1>7, <1>8 DEF CommitBoundaries, CommitThrows

\* All other steps.
LEMMA NextKeepsDurable ==
    ASSUME Inv, DurableEverywhere, [Next]_vars
    PROVE  DurableEverywhere' /\ committed \subseteq committed'
<1>0. TypeOK /\ SavepointsMatch /\ (pc \in {"keep", "drop"} => frames # <<>>)
  BY DEF Inv, ScopesFit
<1>1. RowsFollow => DurableEverywhere' /\ committed \subseteq committed'
  BY FollowingKeepsDurable DEF RowsFollow
<1>2. CASE EndValueRun \/ CommitCommand \/ Commit
  BY <1>2, CommitKeepsDurable DEF EndValueRun, CommitCommand, Commit
<1>3. CASE EndCommand
  <2>1. view' = committed /\ committed' = committed /\ Len(saves') = 0
    BY <1>3, EmptySeq DEF EndCommand
  <2> QED
    BY <2>1 DEF DurableEverywhere
<1>4. ASSUME UNCHANGED <<committed, view>>, saves' = saves \/ Refused PROVE RowsFollow
  BY <1>4, RefusedLeaves, SavesShrink
<1>5. ASSUME NEW kind \in ScopeKinds, OpenScope(kind) PROVE RowsFollow
  <2>1. CASE OpenBoundary
    BY <1>0, <2>1, OpenBoundaryFollows
  <2> QED
    BY <1>4, <1>5, <2>1 DEF OpenScope, OpenFails, server
<1>6. CASE \/ EndRun \/ EndAssert \/ KeepValueRun \/ QuitRun \/ EndTest \/ EndCollectingRun
           \/ DropValueRun \/ Unwind
  <2>1. frames # <<>> /\ \E after, thrown \in {"al", "raise"} :
                            KeepTop(after, thrown) \/ DropTop(after, thrown)
    BY <1>0, <1>6 DEF EndRun, EndAssert, KeepValueRun, QuitRun, EndTest, EndCollectingRun,
                      DropValueRun, Unwind, BodyEnds
  <2>2. Top.depth \in Nat \ {0}
    BY <1>0, <2>1, TopIsFrame DEF Frame
  <2> QED
    BY <1>0, <1>1, <2>1, <2>2, BoundaryEndFollows DEF KeepTop, DropTop
<1>7. CASE BeginCommand
  BY <1>0, <1>7, <1>1, OpenBoundaryFollows DEF BeginCommand
<1>8. CASE SealCommand
  <2>1. CASE UnfinishedBoundary
    BY <1>4, <1>8, <1>1, <2>1 DEF SealCommand
  <2>2. CASE ~ UnfinishedBoundary
    <3>1. committed' = committed /\ (Releases(1) \/ ReleaseThrows(1))
      BY <1>8, <2>2 DEF SealCommand
    <3> QED
      BY <1>0, <1>1, <3>1, BoundaryEndFollows
  <2> QED
    BY <2>1, <2>2
<1>9. ASSUME NEW r \in Rows, WriteRow(r) PROVE RowsFollow
  BY <1>9, RefusedLeaves, SavesShrink DEF WriteRow, server
<1>10. CASE ReadFails
  BY <1>4, <1>10, <1>1 DEF ReadFails
<1>11. CASE \/ \E t \in Tables, consistent \in BOOLEAN : MarkConsistent(t, consistent)
            \/ RaiseError \/ EnterTry \/ LeaveTry \/ HostCatches
            \/ CollectError \/ ClearCollected
            \/ \E c \in Cursors : OpenCursor(c) \/ CloseCursor(c)
            \/ UNCHANGED vars
  <2>1. UNCHANGED <<view, committed, saves>>
    BY <1>11 DEF MarkConsistent, RaiseError, EnterTry, LeaveTry, HostCatches, CollectError,
                 ClearCollected, OpenCursor, CloseCursor, session, server, program, vars
  <2> QED
    BY <1>4, <1>1, <2>1
<1> QED
  BY <1>2, <1>3, <1>5, <1>6, <1>7, <1>8, <1>9, <1>10, <1>11, <1>1
     DEF Next, ScopeStep, CommandStep, ProgramStep

\* Whatever fails, a rejected COMMIT and a connection that breaks in one included, nothing
\* that another connection has seen is taken back by a later boundary, Commit or command.
THEOREM CommittedRowsStay == Spec => CommittedStays
<1>1. Init => DurableEverywhere
  BY EmptySeq DEF Init, DurableEverywhere
<1>2. Inv /\ DurableEverywhere /\ [Next]_vars => DurableEverywhere' /\ [committed \subseteq committed']_vars
  BY NextKeepsDurable
<1> QED
  BY <1>1, <1>2, Invariance, PTL DEF Spec, CommittedStays
=============================================================================
