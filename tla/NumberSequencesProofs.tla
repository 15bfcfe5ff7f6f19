----------------------- MODULE NumberSequencesProofs -----------------------
(***************************************************************************)
(* What the number sequence functions guarantee for every number of          *)
(* sessions, savepoints, calls, seeds and increments, and for cancels and     *)
(* lost connections anywhere: numbers are given once and in order, and the    *)
(* sequence under a transaction that has drawn from it stays.                *)
(*                                                                         *)
(* Two locks, two halves. Of the lock on the name a transaction has at least  *)
(* what every savepoint of it has, so a rollback never leaves it with drawn   *)
(* numbers, or a changed sequence, and without the lock for them. The         *)
(* session-level lock has one owner, so what a call has read of a sequence is  *)
(* still true when it sets it.                                              *)
(***************************************************************************)
EXTENDS NumberSequences, SequenceTheorems, TLAPS

\* One step of a session.
Step(s) ==
    \/ Lock(s) \/ Own(s) \/ ServerStep(s)
    \/ ClientStep(s) \/ EndTransaction(s)
    \/ Cancel(s) \/ Terminate(s)

\* A call runs in a transaction.
InTransaction == \A s \in Sessions : pc[s] # "client" => saved[s] # <<>>

\* The lock on the name excludes.
Excludes ==
    \A s \in Sessions : held[s].exclusive =>
        \A t \in Sessions \ {s} : ~ held[t].shared /\ ~ held[t].exclusive

\* Who has changed the sequence, or drawn from it, has the lock for that.
Backed(h) ==
    /\ h.file # Unchanged => h.exclusive
    /\ h.drawn # {} => h.shared

\* The locks of h are among those of k.
Below(h, k) == (h.shared => k.shared) /\ (h.exclusive => k.exclusive)

\* A transaction and its savepoints, the outermost first.
Layered(h, levels) ==
    /\ Backed(h)
    /\ \A i \in 1..Len(levels) :
          /\ Backed(levels[i]) /\ Below(levels[i], h)
          /\ \A j \in i..Len(levels) : Below(levels[i], levels[j])

Layers == \A s \in Sessions : Layered(held[s], saved[s])

\* What was drawn by a transaction that has not changed the sequence is from the sequence.
Current(h) == h.file = Unchanged => \A f \in h.drawn : f = registry

AllCurrent ==
    \A s \in Sessions : Current(held[s]) /\ \A i \in 1..Len(saved[s]) : Current(saved[s][i])

\* Files are known before they are referred to, and nothing was drawn from the others.
Known ==
    /\ registry <= files
    /\ \A s \in Sessions :
          /\ held[s].file <= files /\ \A i \in 1..Len(saved[s]) : saved[s][i].file <= files
          /\ frame[s].entry <= files
    /\ \A f \in Files : f > files => given[f] = <<>>

\* What a call has at its step: its locks, and what it has read.
Stands(s) ==
    /\ pc[s] = "change" => held[s].exclusive /\ Op(s) \in Mutations
    /\ pc[s] \in {"own", "look", "read", "write", "unlock"} => held[s].shared
    /\ pc[s] \in {"look", "read", "write"} => owner = s
    /\ pc[s] \in {"read", "write"} => frame[s].entry \in Files /\ frame[s].entry = View(s)
    /\ pc[s] = "write" =>
          /\ frame[s].request.count >= 1
          /\ frame[s].last = storage[frame[s].entry].last
          /\ frame[s].called = storage[frame[s].entry].called

Standing == \A s \in Sessions : Stands(s)

\* The numbers of a file, and where it stands.
InOrder(f) ==
    /\ \A i \in 1..Len(given[f]) :
          given[f][i] = storage[f].first + (i - 1) * storage[f].increment
    /\ IF given[f] = <<>>
       THEN ~ storage[f].called /\ storage[f].last = storage[f].first
       ELSE storage[f].called /\ storage[f].last = given[f][Len(given[f])]

Ordered == \A f \in Files : InOrder(f)

Inv ==
    /\ TypeOK
    /\ InTransaction /\ Excludes /\ Layers /\ AllCurrent /\ Known
    /\ Standing /\ Ordered

----------------------------------------------------------------------------
(* Types. *)

\* The numbers between the first and the final one of a range are between them.
LEMMA Between ==
    ASSUME NEW a \in Int, NEW d \in Int, NEW n \in Nat, NEW i \in 1..n,
           NEW low \in Int, NEW high \in Int,
           low <= a, a <= high, low <= a + (n - 1) * d, a + (n - 1) * d <= high
    PROVE  low <= a + (i - 1) * d /\ a + (i - 1) * d <= high
<1> DEFINE m == n - i
<1> DEFINE k == i - 1
<1>1. m \in Nat /\ k \in Nat /\ n - 1 = m + k
  OBVIOUS
<1>2. (n - 1) * d = m * d + k * d /\ m * d \in Int /\ k * d \in Int
  BY <1>1
<1>3. CASE d >= 0
  <2>1. m * d >= 0 /\ k * d >= 0
    BY <1>1, <1>3
  <2> QED  BY <1>2, <2>1
<1>4. CASE d < 0
  <2>1. m * d <= 0 /\ k * d <= 0
    BY <1>1, <1>4
  <2> QED  BY <1>2, <2>1
<1> QED  BY <1>3, <1>4

\* A range that fits is a sequence of values.
LEMMA ReservedFits ==
    ASSUME NumberSequencesAssumption, TypeOK, NEW s \in Sessions, frame[s].entry \in Files,
           frame[s].request.count >= 1, First(s) \in Values, Final(s) \in Values
    PROVE  /\ Reserved(s) \in Seq(Values) /\ Len(Reserved(s)) = frame[s].request.count
           /\ Final(s) \in Values
<1> DEFINE n == frame[s].request.count
           d == storage[frame[s].entry].increment
           a == frame[s].last + (IF frame[s].called THEN d ELSE 0)
<1>a. frame[s] \in Frame /\ storage[frame[s].entry] \in Storage
  BY DEF TypeOK
<1>b. Counts \subseteq Int /\ MinValue \in Int /\ MaxValue \in Int
  BY DEF NumberSequencesAssumption
<1>c. n \in Int /\ d \in Int
  <2>1. frame[s].request \in Request
    BY <1>a DEF Frame
  <2>2. n \in Counts \cup {1}
    BY <2>1 DEF Request
  <2>3. d \in Int
    BY <1>a DEF Storage
  <2> HIDE DEF n, d
  <2>4. Counts \cup {1} \subseteq Int
    BY <1>b
  <2>5. n \in Int
    BY <2>2, <2>4
  <2> QED  BY <2>3, <2>5
<1>d. frame[s].last \in Int /\ n >= 1
  BY <1>a, <1>b DEF Frame, Values
<1>e. a \in Int
  BY <1>c, <1>d
<1>1. n \in Nat /\ d \in Int /\ a \in Int /\ MinValue \in Int /\ MaxValue \in Int
  BY <1>b, <1>c, <1>d, <1>e
<1>2. Reserved(s) = [i \in 1..n |-> a + (i - 1) * d]
  BY DEF Reserved
<1> HIDE DEF n, d, a
<1>3. n >= 1
  BY DEF n
<1>4. First(s) = a /\ Final(s) = a + (n - 1) * d
  BY <1>1, <1>2, <1>3 DEF First, Final, n
<1>5. ASSUME NEW i \in 1..n PROVE a + (i - 1) * d \in Values
  BY <1>1, <1>4, Between DEF Values
<1>6. Reserved(s) \in [1..n -> Values]
  BY <1>2, <1>5
<1> QED  BY <1>1, <1>6 DEF n

\* The parameters and variables of no call.
LEMMA BlankTypes ==
    ASSUME NumberSequencesAssumption
    PROVE  Blank \in Frame /\ Nothing \in Held
<1>1. [op |-> "current", seed |-> 0, increment |-> 1, count |-> 1] \in Request
  BY DEF Request, Allocations
<1>2. MinValue \in Values
  BY DEF Values, NumberSequencesAssumption
<1>3. Blank \in Frame
  BY <1>1, <1>2 DEF Blank, Frame
<1>4. Nothing \in Held
  BY DEF Nothing, Held
<1> QED  BY <1>3, <1>4

\* A failed statement leaves a state with types.
LEMMA FailsTypes ==
    ASSUME NumberSequencesAssumption, TypeOK, NEW s \in Sessions, saved[s] # <<>>, Fails(s)
    PROVE  /\ pc' \in [Sessions -> Steps] /\ frame' \in [Sessions -> Frame]
           /\ held' \in [Sessions -> Held]
           /\ Len(saved[s]) \in Nat \ {0} /\ saved[s][Len(saved[s])] \in Held
<1>1. saved[s] \in Seq(Held)
  BY DEF TypeOK
<1>2. Len(saved[s]) \in Nat \ {0} /\ saved[s][Len(saved[s])] \in Held
  BY <1>1
<1>3. Blank \in Frame
  BY BlankTypes
<1>4. pc' \in [Sessions -> Steps]
  BY DEF TypeOK, Fails, Steps
<1>5. frame' \in [Sessions -> Frame]
  BY <1>3 DEF TypeOK, Fails
<1>6. held' \in [Sessions -> Held]
  BY <1>2 DEF TypeOK, Fails
<1> QED  BY <1>2, <1>4, <1>5, <1>6

\* A new file is a file, and typed.
LEMMA NewFileTypes ==
    ASSUME NumberSequencesAssumption, TypeOK, NEW s \in Sessions,
           NEW seed \in Values, NEW increment \in Int, NewFile(s, seed, increment)
    PROVE  /\ files + 1 \in Files /\ files' = files + 1 /\ files' \in 0..MaxCalls
           /\ storage' \in [Files -> Storage] /\ held' \in [Sessions -> Held]
           /\ held'[s] = [held[s] EXCEPT !.file = files + 1]
<1>1. files \in Nat /\ files < MaxCalls /\ MaxCalls \in Nat /\ files' = files + 1
  BY DEF TypeOK, NewFile, NumberSequencesAssumption
<1>2. files + 1 \in Files /\ files' \in 0..MaxCalls
  BY <1>1 DEF Files
<1>3. [first |-> seed, last |-> seed, called |-> FALSE, increment |-> increment] \in Storage
  BY DEF Storage
<1>4. storage' \in [Files -> Storage]
  BY <1>3 DEF TypeOK, NewFile
<1>5. held'[s] = [held[s] EXCEPT !.file = files + 1]
  BY DEF TypeOK, NewFile
<1>6. [held[s] EXCEPT !.file = files + 1] \in Held
  BY <1>2 DEF TypeOK, Held
<1>7. held' \in [Sessions -> Held]
  BY <1>6 DEF TypeOK, NewFile
<1> QED  BY <1>1, <1>2, <1>4, <1>5, <1>7

\* Every step keeps the types.
LEMMA Types ==
    ASSUME NumberSequencesAssumption, TypeOK, InTransaction, Standing,
           NEW s \in Sessions, Step(s)
    PROVE  TypeOK'
<1>a. /\ storage \in [Files -> Storage] /\ files \in 0..MaxCalls
      /\ given \in [Files -> Seq(Values)]
      /\ registry \in Files \cup {Absent}
      /\ owner \in Sessions \cup {NoSession}
      /\ pc \in [Sessions -> Steps]
      /\ frame \in [Sessions -> Frame]
      /\ held \in [Sessions -> Held]
      /\ saved \in [Sessions -> Seq(Held)]
      /\ calls \in 0..MaxCalls /\ faults \in Nat
  BY DEF TypeOK
<1>b. /\ held[s] \in Held /\ saved[s] \in Seq(Held) /\ Len(saved[s]) \in Nat
      /\ frame[s] \in Frame /\ frame[s].request \in Request
  BY <1>a DEF Frame
<1>c. Blank \in Frame /\ Nothing \in Held
  BY BlankTypes
<1>d. View(s) \in Files \cup {Absent} /\ Released(s) \in Sessions \cup {NoSession}
  BY <1>a, <1>b DEF View, Released, Held, Unchanged
<1>e. pc[s] # "client" => saved[s] # <<>>
  BY DEF InTransaction
<1>f. MaxCalls \in Nat /\ MaxFaults \in Nat
      /\ CancelPoints \subseteq {"identity", "change", "own", "look", "read", "write", "unlock"}
  BY DEF NumberSequencesAssumption
<1>1. ASSUME NEW r \in Request, Call(s, r) PROVE TypeOK'
  <2>1. [frame[s] EXCEPT !.request = r] \in Frame
    BY <1>b DEF Frame
  <2>2. frame' \in [Sessions -> Frame] /\ pc' \in [Sessions -> Steps]
    BY <1>a, <1>1, <2>1 DEF Call, Goes, Steps, Waiting
  <2>3. calls' \in 0..MaxCalls
    BY <1>a, <1>f, <1>1 DEF Call
  <2> QED  BY <1>a, <1>1, <2>2, <2>3 DEF TypeOK, Call, database
<1>2. ASSUME Lock(s) PROVE TypeOK'
  <2>1. [held[s] EXCEPT !.exclusive = TRUE] \in Held /\ [held[s] EXCEPT !.shared = TRUE] \in Held
    BY <1>b DEF Held
  <2>2. held' \in [Sessions -> Held]
    BY <1>a, <1>2, <2>1 DEF Lock, LockIdentity
  <2>3. pc' \in [Sessions -> Steps]
    BY <1>a, <1>2 DEF Lock, LockIdentity, Goes, Steps, Waiting
  <2> QED  BY <1>a, <1>2, <2>2, <2>3 DEF TypeOK, Lock, LockIdentity, database, counts
<1>3. ASSUME Own(s) PROVE TypeOK'
  <2>1. pc' \in [Sessions -> Steps] /\ owner' \in Sessions \cup {NoSession}
    BY <1>a, <1>3 DEF Own, OwnIf, Goes, Steps, Guarded
  <2> QED  BY <1>a, <1>3, <2>1 DEF TypeOK, Own, OwnIf, database, counts
<1>4. ASSUME NEW from, Returns(s, from)
      PROVE  pc' \in [Sessions -> Steps] /\ frame' \in [Sessions -> Frame]
  BY <1>a, <1>c, <1>4 DEF Returns, Goes, Steps
<1>5. ASSUME Insert(s) PROVE TypeOK'
  <2>1. CASE /\ Returns(s, "change")
             /\ NewFile(s, frame[s].request.seed, frame[s].request.increment)
    <3>1. frame[s].request.seed \in Seeds \cup {0}
          /\ frame[s].request.increment \in Increments \cup {1}
      BY <1>b DEF Request
    <3>2. Seeds \cup {0} \subseteq Values /\ Increments \cup {1} \subseteq Int
      BY DEF NumberSequencesAssumption, Values
    <3>3. frame[s].request.seed \in Values /\ frame[s].request.increment \in Int
      BY <3>1, <3>2
    <3>4. /\ files' \in 0..MaxCalls /\ storage' \in [Files -> Storage]
          /\ held' \in [Sessions -> Held]
      BY <2>1, <3>3, NewFileTypes
    <3> QED  BY <1>a, <1>4, <1>5, <2>1, <3>4 DEF TypeOK, Insert, counts
  <2>2. CASE pc[s] = "change" /\ Fails(s) /\ UNCHANGED <<storage, files>>
    <3>1. /\ pc' \in [Sessions -> Steps] /\ frame' \in [Sessions -> Frame]
          /\ held' \in [Sessions -> Held]
      BY <1>e, <2>2, FailsTypes
    <3> QED  BY <1>a, <1>5, <2>2, <3>1 DEF TypeOK, Insert, counts
  <2> QED  BY <1>5, <2>1, <2>2 DEF Insert
<1>6. ASSUME Delete(s) PROVE TypeOK'
  <2>1. [held[s] EXCEPT !.file = IF View(s) = Absent THEN @ ELSE Absent] \in Held
    BY <1>b DEF Held
  <2>2. held' \in [Sessions -> Held]
    BY <1>a, <1>6, <2>1 DEF Delete
  <2> QED  BY <1>a, <1>4, <1>6, <2>2 DEF TypeOK, Delete, database, counts
<1>7. ASSUME Restart(s) PROVE TypeOK'
  <2>1. CASE View(s) = Absent /\ UNCHANGED <<storage, files, held>>
    BY <1>a, <1>4, <1>7, <2>1 DEF TypeOK, Restart, counts
  <2>2. CASE View(s) # Absent
             /\ NewFile(s, frame[s].request.seed, storage[View(s)].increment)
    <3>1. frame[s].request.seed \in Seeds \cup {0}
      BY <1>b DEF Request
    <3>2. Seeds \cup {0} \subseteq Values
      BY DEF NumberSequencesAssumption, Values
    <3>3. frame[s].request.seed \in Values
      BY <3>1, <3>2
    <3>4. storage[View(s)].increment \in Int
      BY <1>a, <1>d, <2>2 DEF Storage
    <3>5. /\ files' \in 0..MaxCalls /\ storage' \in [Files -> Storage]
          /\ held' \in [Sessions -> Held]
      BY <2>2, <3>3, <3>4, NewFileTypes
    <3> QED  BY <1>a, <1>4, <1>7, <2>2, <3>5 DEF TypeOK, Restart, counts
  <2> QED  BY <1>7, <2>1, <2>2 DEF Restart
<1>8. ASSUME Look(s) PROVE TypeOK'
  <2>1. [frame[s] EXCEPT !.entry = View(s)] \in Frame
    BY <1>b, <1>d DEF Frame
  <2>2. frame' \in [Sessions -> Frame] /\ pc' \in [Sessions -> Steps]
    BY <1>a, <1>8, <2>1 DEF Look, Goes, Steps, Guarded
  <2> QED  BY <1>a, <1>8, <2>2 DEF TypeOK, Look, database, counts
<1>9. ASSUME Read(s) PROVE TypeOK'
  <2>1. frame[s].entry \in Files
    BY <1>9 DEF Standing, Stands, Read, Goes
  <2>2. storage[frame[s].entry] \in Storage
    BY <1>a, <2>1
  <2> DEFINE now == storage[frame[s].entry]
  <2>3. [frame[s] EXCEPT !.last = now.last, !.called = now.called] \in Frame
    BY <1>b, <2>2 DEF Frame, Storage
  <2>4. frame' = [frame EXCEPT ![s] = [frame[s] EXCEPT !.last = now.last, !.called = now.called]]
    BY <1>9 DEF Read
  <2> HIDE DEF now
  <2>5. frame' \in [Sessions -> Frame]
    BY <1>a, <2>3, <2>4
  <2>6. pc' \in [Sessions -> Steps]
    BY <1>a, <1>9 DEF Read, Goes, Steps, Guarded
  <2> QED  BY <1>a, <1>9, <2>5, <2>6 DEF TypeOK, Read, database, counts
<1>10. ASSUME Write(s) PROVE TypeOK'
  <2>1. frame[s].entry \in Files /\ frame[s].request.count >= 1
    BY <1>10 DEF Standing, Stands, Write, WriteIf
  <2>2. CASE First(s) \in Values /\ Final(s) \in Values
    <3>1. Reserved(s) \in Seq(Values) /\ Final(s) \in Values
      BY <2>1, <2>2, ReservedFits
    <3>2. given[frame[s].entry] \o Reserved(s) \in Seq(Values)
      BY <1>a, <2>1, <3>1, ConcatProperties
    <3>3. given' = [given EXCEPT ![frame[s].entry] = given[frame[s].entry] \o Reserved(s)]
      BY <1>10, <2>2 DEF Write, WriteIf
    <3>4. given' \in [Files -> Seq(Values)]
      BY <1>a, <3>2, <3>3
    <3>5. [storage[frame[s].entry] EXCEPT !.last = Final(s), !.called = TRUE] \in Storage
      <4>1. ASSUME NEW now \in Storage, NEW v \in Values
            PROVE  [now EXCEPT !.last = v, !.called = TRUE] \in Storage
        BY DEF Storage
      <4> QED  BY <1>a, <2>1, <3>1, <4>1
    <3>6. storage' = [storage EXCEPT ![frame[s].entry] =
              [storage[frame[s].entry] EXCEPT !.last = Final(s), !.called = TRUE]]
      BY <1>10, <2>2 DEF Write, WriteIf
    <3>7. storage' \in [Files -> Storage]
      BY <1>a, <3>5, <3>6
    <3>8. [held[s] EXCEPT !.drawn = @ \cup {frame[s].entry}] \in Held
      BY <1>b, <2>1 DEF Held
    <3>9. held' = [held EXCEPT ![s] = [held[s] EXCEPT !.drawn = @ \cup {frame[s].entry}]]
      BY <1>10, <2>2 DEF Write, WriteIf
    <3>10. held' \in [Sessions -> Held]
      BY <1>a, <3>8, <3>9
    <3>11. pc' \in [Sessions -> Steps]
      BY <1>a, <1>10, <2>2 DEF Write, WriteIf, Goes, Steps
    <3> QED  BY <1>a, <1>10, <3>4, <3>7, <3>10, <3>11 DEF TypeOK, Write, WriteIf, counts
  <2>3. CASE ~ (First(s) \in Values /\ Final(s) \in Values)
    <3>1. pc' \in [Sessions -> Steps] /\ UNCHANGED <<storage, given, held>>
      BY <1>a, <1>10, <2>3 DEF Write, WriteIf, Goes, Steps
    <3> QED  BY <1>a, <1>10, <3>1 DEF TypeOK, Write, WriteIf, counts
  <2> QED  BY <2>2, <2>3
<1>11. ASSUME Unlock(s) PROVE TypeOK'
  <2>1. [held[s] EXCEPT !.shared = held[s].shared] \in Held
    BY <1>b DEF Held
  <2>2. held' \in [Sessions -> Held]
    BY <1>a, <1>11, <2>1 DEF Unlock, UnlockThen
  <2> QED  BY <1>a, <1>d, <1>4, <1>11, <2>2 DEF TypeOK, Unlock, UnlockThen, database, counts
<1>12. ASSUME Handler(s) PROVE TypeOK'
  <2>1. Fails(s) /\ saved[s] # <<>>
    BY <1>e, <1>12 DEF Handler, HandleThen
  <2>2. /\ pc' \in [Sessions -> Steps] /\ frame' \in [Sessions -> Frame]
        /\ held' \in [Sessions -> Held]
    BY <2>1, FailsTypes
  <2> QED  BY <1>a, <1>d, <1>12, <2>2 DEF TypeOK, Handler, HandleThen, database, counts
<1>13. ASSUME DeadlockDetected(s) PROVE TypeOK'
  <2>1. Fails(s) /\ saved[s] # <<>>
    BY <1>e, <1>13 DEF DeadlockDetected, Deadlocked
  <2>2. /\ pc' \in [Sessions -> Steps] /\ frame' \in [Sessions -> Frame]
        /\ held' \in [Sessions -> Held]
    BY <2>1, FailsTypes
  <2> QED  BY <1>a, <1>13, <2>2 DEF TypeOK, DeadlockDetected, database, counts
<1>14. ASSUME Cancel(s) PROVE TypeOK'
  <2>1. faults' \in Nat
    BY <1>a, <1>14 DEF Cancel, Fault
  <2>2. CASE pc' = [pc EXCEPT ![s] = "handler"] /\ UNCHANGED <<frame, held>>
    <3>1. pc' \in [Sessions -> Steps]
      BY <1>a, <2>2 DEF Steps
    <3> QED  BY <1>a, <1>14, <2>1, <2>2, <3>1 DEF TypeOK, Cancel, database
  <2>3. CASE Fails(s)
    <3>1. saved[s] # <<>>
      BY <1>e, <1>f, <1>14 DEF Cancel
    <3>2. /\ pc' \in [Sessions -> Steps] /\ frame' \in [Sessions -> Frame]
          /\ held' \in [Sessions -> Held]
      BY <2>3, <3>1, FailsTypes
    <3> QED  BY <1>a, <1>14, <2>1, <3>2 DEF TypeOK, Cancel, database
  <2> QED  BY <1>14, <2>2, <2>3 DEF Cancel
<1>15. ASSUME Terminate(s) PROVE TypeOK'
  <2>1. faults' \in Nat /\ pc' \in [Sessions -> Steps] /\ frame' \in [Sessions -> Frame]
    BY <1>a, <1>c, <1>15 DEF Terminate, Fault, Steps
  <2>2. held' \in [Sessions -> Held] /\ saved' \in [Sessions -> Seq(Held)]
    BY <1>a, <1>c, <1>15 DEF Terminate
  <2> QED  BY <1>a, <1>d, <1>15, <2>1, <2>2 DEF TypeOK, Terminate, database
<1>16. ASSUME NEW from, Goes(s, from, "client") PROVE pc' \in [Sessions -> Steps]
  BY <1>a, <1>16 DEF Goes, Steps
<1>17. ASSUME Savepoint(s) PROVE TypeOK'
  <2>1. Append(saved[s], held[s]) \in Seq(Held)
    BY <1>b
  <2>2. saved' \in [Sessions -> Seq(Held)]
    BY <1>a, <1>17, <2>1 DEF Savepoint
  <2> QED  BY <1>a, <1>16, <1>17, <2>2 DEF TypeOK, Savepoint, database, counts
<1>18. ASSUME NEW n \in 1..Len(saved[s]) PROVE SubSeq(saved[s], 1, n) \in Seq(Held)
  BY <1>b, <1>18, SubSeqProperties
<1>19. ASSUME Release(s) PROVE TypeOK'
  <2>1. Len(saved[s]) - 1 \in 1..Len(saved[s])
    BY <1>b, <1>19 DEF Release
  <2>2. saved' \in [Sessions -> Seq(Held)]
    BY <1>a, <1>18, <1>19, <2>1 DEF Release
  <2> QED  BY <1>a, <1>16, <1>19, <2>2 DEF TypeOK, Release, database, counts
<1>20. ASSUME NEW n \in 2..MaxLevel, RollbackTo(s, n) PROVE TypeOK'
  <2>1. n \in 1..Len(saved[s]) /\ saved[s][n] \in Held
    BY <1>b, <1>20 DEF RollbackTo
  <2>2. saved' \in [Sessions -> Seq(Held)] /\ held' \in [Sessions -> Held]
    BY <1>a, <1>18, <1>20, <2>1 DEF RollbackTo
  <2> QED  BY <1>a, <1>16, <1>20, <2>2 DEF TypeOK, RollbackTo, AtRest, database, counts
<1>21. ASSUME Rollback(s) \/ Commit(s) PROVE TypeOK'
  <2>1. held' = [held EXCEPT ![s] = Nothing] /\ saved' = [saved EXCEPT ![s] = <<>>]
    BY <1>21 DEF Rollback, Commit
  <2>2. registry' \in Files \cup {Absent} /\ pc' \in [Sessions -> Steps]
    BY <1>a, <1>d, <1>16, <1>21 DEF Rollback, Commit, AtRest
  <2>3. UNCHANGED <<database, owner, frame, counts>>
    BY <1>21 DEF Rollback, Commit
  <2>4. held' \in [Sessions -> Held] /\ saved' \in [Sessions -> Seq(Held)]
    BY <1>a, <1>c, <2>1
  <2> QED  BY <1>a, <2>2, <2>3, <2>4 DEF TypeOK, database, counts
<1> QED
  BY <1>1, <1>2, <1>3, <1>5, <1>6, <1>7, <1>8, <1>9, <1>10, <1>11, <1>12, <1>13, <1>14, <1>15,
     <1>17, <1>19, <1>20, <1>21
     DEF Step, ServerStep, ClientStep, EndTransaction

----------------------------------------------------------------------------
(* The transaction of a session: its changes, its locks and its savepoints. *)

Keeps(s) == held'[s] = held[s] /\ saved'[s] = saved[s] /\ registry' = registry

Locks(s) ==
    /\ \/ /\ held'[s] = [held[s] EXCEPT !.exclusive = TRUE]
          /\ \A t \in Sessions \ {s} : ~ held[t].shared /\ ~ held[t].exclusive
       \/ /\ held'[s] = [held[s] EXCEPT !.shared = TRUE]
          /\ \A t \in Sessions \ {s} : ~ held[t].exclusive
    /\ saved'[s] = saved[s] /\ registry' = registry

Changes(s) ==
    /\ held[s].exclusive
    /\ \E f \in 0..files' : held'[s] = [held[s] EXCEPT !.file = f]
    /\ saved'[s] = saved[s] /\ registry' = registry

Draws(s) ==
    /\ held[s].shared
    /\ held'[s] = [held[s] EXCEPT !.drawn = @ \cup {View(s)}]
    /\ saved'[s] = saved[s] /\ registry' = registry

Saves(s) == held'[s] = held[s] /\ saved'[s] = Append(saved[s], held[s]) /\ registry' = registry

\* The savepoints from n on are gone.
Cuts(s, n) ==
    /\ n \in 1..Len(saved[s])
    /\ Len(saved'[s]) = n /\ \A i \in 1..n : saved'[s][i] = saved[s][i]
    /\ registry' = registry

Drops(s) == held'[s] = held[s] /\ \E n \in Nat : Cuts(s, n)
Backs(s) == \E n \in Nat : Cuts(s, n) /\ held'[s] = saved[s][n]

Ends(s) == held'[s] = Nothing /\ saved'[s] = <<>> /\ registry' \in {registry, View(s)}

\* The other sessions.
Alone(s) ==
    \A t \in Sessions \ {s} :
        held'[t] = held[t] /\ saved'[t] = saved[t] /\ pc'[t] = pc[t] /\ frame'[t] = frame[t]

Moves(s) ==
    \/ Keeps(s) \/ Locks(s) \/ Changes(s) \/ Draws(s)
    \/ Saves(s) \/ Drops(s) \/ Backs(s) \/ Ends(s)

\* The number of files only grows.
LEMMA FilesGrow ==
    ASSUME NumberSequencesAssumption, TypeOK, NEW s \in Sessions, Step(s)
    PROVE  files' \in Nat /\ files <= files' /\ (files' = files \/ Insert(s) \/ Restart(s))
<1>1. files \in Nat
  BY DEF TypeOK
<1>2. CASE Insert(s) \/ Restart(s)
  BY <1>1, <1>2 DEF Insert, Restart, NewFile
<1>3. CASE ~ (Insert(s) \/ Restart(s))
  <2>1. files' = files
    BY <1>3 DEF Step, ServerStep, ClientStep, EndTransaction, Call, Lock, LockIdentity, Own, OwnIf,
         Delete, Look, Read, Write, WriteIf, Unlock, UnlockThen, Handler, HandleThen,
         DeadlockDetected, Savepoint, Release, RollbackTo, Rollback, Commit, Cancel, Terminate,
         database
  <2> QED  BY <1>1, <2>1
<1> QED  BY <1>2, <1>3

\* A failed statement takes the transaction back to its last savepoint.
LEMMA FailsBacks ==
    ASSUME NumberSequencesAssumption, TypeOK, NEW s \in Sessions, saved[s] # <<>>, Fails(s),
           UNCHANGED <<saved, registry>>
    PROVE  Alone(s) /\ Backs(s)
<1>1. saved[s] \in Seq(Held) /\ Len(saved[s]) \in Nat \ {0}
  BY FailsTypes DEF TypeOK
<1>2. Cuts(s, Len(saved[s]))
  BY <1>1 DEF Cuts
<1>3. held'[s] = saved[s][Len(saved[s])]
  BY DEF Fails, TypeOK
<1>4. Alone(s)
  BY DEF Alone, Fails, TypeOK
<1> QED  BY <1>1, <1>2, <1>3, <1>4 DEF Backs

\* What a step does to the transactions.
LEMMA Movement ==
    ASSUME NumberSequencesAssumption, TypeOK, InTransaction, Standing,
           NEW s \in Sessions, Step(s)
    PROVE  Alone(s) /\ Moves(s)
<1>a. /\ pc \in [Sessions -> Steps] /\ frame \in [Sessions -> Frame]
      /\ held \in [Sessions -> Held] /\ saved \in [Sessions -> Seq(Held)]
      /\ held[s] \in Held /\ saved[s] \in Seq(Held) /\ Len(saved[s]) \in Nat
  BY DEF TypeOK
<1>e. pc[s] # "client" => saved[s] # <<>>
  BY DEF InTransaction
<1>f. CancelPoints \subseteq {"identity", "change", "own", "look", "read", "write", "unlock"}
  BY DEF NumberSequencesAssumption
<1>1. CASE \E r \in Request : Call(s, r)
  BY <1>1, <1>a DEF Call, Goes, Alone, Moves, Keeps
<1>2. CASE Lock(s)
  <2>1. Alone(s) /\ saved'[s] = saved[s] /\ registry' = registry
    BY <1>2, <1>a DEF Lock, LockIdentity, Goes, Alone
  <2>2. Locks(s)
    BY <1>2, <1>a, <2>1 DEF Lock, LockIdentity, Locks
  <2> QED  BY <2>1, <2>2 DEF Moves
<1>3. CASE Own(s) \/ Look(s) \/ Read(s)
  BY <1>3, <1>a DEF Own, OwnIf, Look, Read, Goes, Alone, Moves, Keeps
<1>4. ASSUME NewFile(s, frame[s].request.seed, IF Op(s) = "insert" THEN frame[s].request.increment
                        ELSE storage[View(s)].increment),
             Returns(s, "change"), UNCHANGED <<saved, registry>>
      PROVE  Alone(s) /\ Changes(s)
  <2>1. Alone(s)
    BY <1>4, <1>a DEF NewFile, Returns, Goes, Alone
  <2>2. held[s].exclusive
    BY <1>4 DEF Standing, Stands, Returns, Goes
  <2>3. files + 1 \in 0..files' /\ held'[s] = [held[s] EXCEPT !.file = files + 1]
    BY <1>4, <1>a DEF NewFile, TypeOK
  <2> QED  BY <1>4, <2>1, <2>2, <2>3 DEF Changes
<1>5. CASE Insert(s)
  <2>1. CASE pc[s] = "change" /\ Fails(s)
    BY <1>5, <1>e, <2>1, FailsBacks DEF Insert, Moves
  <2>2. CASE /\ Returns(s, "change")
             /\ NewFile(s, frame[s].request.seed, frame[s].request.increment)
    BY <1>4, <1>5, <2>2 DEF Insert, Moves
  <2> QED  BY <1>5, <2>1, <2>2 DEF Insert
<1>6. CASE Restart(s)
  <2>1. CASE View(s) = Absent
    BY <1>6, <1>a, <2>1 DEF Restart, Returns, Goes, Alone, Moves, Keeps
  <2>2. CASE View(s) # Absent
    <3>1. Returns(s, "change") /\ NewFile(s, frame[s].request.seed, storage[View(s)].increment)
          /\ Op(s) # "insert"
      BY <1>6, <2>2 DEF Restart
    <3> QED  BY <1>4, <1>6, <3>1 DEF Restart, Moves
  <2> QED  BY <2>1, <2>2
<1>7. CASE Delete(s)
  <2>1. Alone(s) /\ saved'[s] = saved[s] /\ registry' = registry
    BY <1>7, <1>a DEF Delete, Returns, Goes, Alone
  <2>2. CASE View(s) = Absent
    <3>1. held'[s] = [held[s] EXCEPT !.file = @]
      BY <1>7, <1>a, <2>2 DEF Delete
    <3>2. held'[s] = held[s]
      BY <1>a, <3>1 DEF Held
    <3> QED  BY <2>1, <3>2 DEF Moves, Keeps
  <2>3. CASE View(s) # Absent
    <3>1. held'[s] = [held[s] EXCEPT !.file = Absent]
      BY <1>7, <1>a, <2>3 DEF Delete
    <3>2. held[s].exclusive
      BY <1>7 DEF Standing, Stands, Delete, Returns, Goes
    <3>3. Absent \in 0..files'
      BY <1>7 DEF Delete, database, TypeOK, Absent
    <3> QED  BY <2>1, <3>1, <3>2, <3>3 DEF Moves, Changes
  <2> QED  BY <2>2, <2>3
<1>8. CASE Write(s)
  <2>1. Alone(s) /\ saved'[s] = saved[s] /\ registry' = registry
    BY <1>8, <1>a DEF Write, WriteIf, Goes, Alone
  <2>2. CASE First(s) \in Values /\ Final(s) \in Values
    <3>1. held[s].shared /\ frame[s].entry = View(s)
      BY <1>8 DEF Standing, Stands, Write, WriteIf
    <3>2. held'[s] = [held[s] EXCEPT !.drawn = @ \cup {frame[s].entry}]
      BY <1>8, <1>a, <2>2 DEF Write, WriteIf
    <3> QED  BY <2>1, <3>1, <3>2 DEF Moves, Draws
  <2>3. CASE ~ (First(s) \in Values /\ Final(s) \in Values)
    BY <1>8, <2>1, <2>3 DEF Write, WriteIf, Moves, Keeps
  <2> QED  BY <2>2, <2>3
<1>9. CASE Unlock(s)
  <2>1. Alone(s) /\ saved'[s] = saved[s] /\ registry' = registry
    BY <1>9, <1>a DEF Unlock, UnlockThen, Returns, Goes, Alone
  <2>2. held'[s] = [held[s] EXCEPT !.shared = @]
    BY <1>9, <1>a DEF Unlock, UnlockThen
  <2>3. held'[s] = held[s]
    BY <1>a, <2>2 DEF Held
  <2> QED  BY <2>1, <2>3 DEF Moves, Keeps
<1>10. CASE Handler(s) \/ DeadlockDetected(s)
  <2>1. saved[s] # <<>> /\ Fails(s) /\ UNCHANGED <<saved, registry>>
    BY <1>10, <1>e DEF Handler, HandleThen, DeadlockDetected, Deadlocked
  <2> QED  BY <2>1, FailsBacks DEF Moves
<1>11. CASE Cancel(s)
  <2>1. saved[s] # <<>> /\ UNCHANGED <<saved, registry>>
    BY <1>11, <1>e, <1>f DEF Cancel
  <2>2. CASE Fails(s)
    BY <2>1, <2>2, FailsBacks DEF Moves
  <2>3. CASE pc' = [pc EXCEPT ![s] = "handler"] /\ UNCHANGED <<frame, held>>
    BY <1>a, <2>1, <2>3 DEF Moves, Keeps, Alone
  <2> QED  BY <1>11, <2>2, <2>3 DEF Cancel
<1>12. CASE Terminate(s) \/ Rollback(s) \/ Commit(s)
  <2>1. /\ held' = [held EXCEPT ![s] = Nothing] /\ saved' = [saved EXCEPT ![s] = <<>>]
        /\ registry' \in {registry, View(s)}
    BY <1>12 DEF Terminate, Rollback, Commit
  <2>2. \A t \in Sessions \ {s} : pc'[t] = pc[t] /\ frame'[t] = frame[t]
    BY <1>12, <1>a DEF Terminate, Rollback, Commit, AtRest, Goes
  <2> QED  BY <1>a, <2>1, <2>2 DEF Alone, Moves, Ends
<1>13. CASE Savepoint(s)
  BY <1>13, <1>a DEF Savepoint, Goes, Alone, Moves, Saves
<1>14. ASSUME NEW n \in 1..Len(saved[s]), saved'[s] = SubSeq(saved[s], 1, n), registry' = registry
       PROVE  n \in Nat /\ Cuts(s, n)
  <2>1. n \in Nat /\ \A i \in 1..n : saved[s][i] \in Held
    BY <1>a
  <2>2. /\ Len(SubSeq(saved[s], 1, n)) = n
        /\ \A i \in 1..n : SubSeq(saved[s], 1, n)[i] = saved[s][i]
    BY <1>a, <2>1, SubSeqProperties
  <2> QED  BY <1>14, <2>1, <2>2 DEF Cuts
<1>15. CASE Release(s)
  <2>1. Alone(s) /\ held'[s] = held[s] /\ registry' = registry
    BY <1>15, <1>a DEF Release, Goes, Alone
  <2>2. /\ Len(saved[s]) - 1 \in 1..Len(saved[s])
        /\ saved'[s] = SubSeq(saved[s], 1, Len(saved[s]) - 1)
    BY <1>15, <1>a DEF Release
  <2> QED  BY <1>14, <2>1, <2>2 DEF Moves, Drops
<1>16. ASSUME NEW n \in 2..MaxLevel, RollbackTo(s, n) PROVE Alone(s) /\ Moves(s)
  <2>1. Alone(s) /\ registry' = registry
    BY <1>16, <1>a DEF RollbackTo, AtRest, Goes, Alone
  <2>2. n \in 1..Len(saved[s]) /\ saved'[s] = SubSeq(saved[s], 1, n) /\ held'[s] = saved[s][n]
    BY <1>16, <1>a DEF RollbackTo
  <2> QED  BY <1>14, <2>1, <2>2 DEF Moves, Backs
<1> QED
  BY <1>1, <1>2, <1>3, <1>5, <1>6, <1>7, <1>8, <1>9, <1>10, <1>11, <1>12, <1>13, <1>15, <1>16
     DEF Step, ServerStep, ClientStep, EndTransaction

\* The lock on the name stays exclusive.
LEMMA ExcludesStays ==
    ASSUME TypeOK, TypeOK', Layers, Excludes, NEW s \in Sessions, Alone(s), Moves(s)
    PROVE  Excludes'
<1>a. held[s] \in Held /\ held'[s] \in Held
  BY DEF TypeOK
<1>b. \A t \in Sessions \ {s} : held'[t] = held[t]
  BY DEF Alone
<1>1. Below(held'[s], held[s]) \/ Locks(s)
  <2>1. CASE Keeps(s) \/ Saves(s) \/ Drops(s)
    BY <2>1 DEF Keeps, Saves, Drops, Below
  <2>2. CASE Changes(s) \/ Draws(s)
    BY <2>2, <1>a DEF Changes, Draws, Below, Held
  <2>3. CASE Backs(s)
    BY <2>3 DEF Backs, Cuts, Layers, Layered
  <2>4. CASE Ends(s)
    BY <2>4 DEF Ends, Nothing, Below
  <2> QED  BY <2>1, <2>2, <2>3, <2>4 DEF Moves
<1>2. CASE Below(held'[s], held[s])
  BY <1>a, <1>b, <1>2 DEF Excludes, Below
<1>3. CASE Locks(s)
  BY <1>a, <1>b, <1>3 DEF Excludes, Locks, Held
<1> QED  BY <1>1, <1>2, <1>3

\* The changes and locks of a transaction stay above those of its savepoints.
LEMMA LayersStay ==
    ASSUME NumberSequencesAssumption, TypeOK, TypeOK', Layers,
           NEW s \in Sessions, Alone(s), Moves(s)
    PROVE  Layers'
<1>a. /\ held[s] \in Held /\ held'[s] \in Held /\ files' \in Nat
      /\ saved[s] \in Seq(Held) /\ Len(saved[s]) \in Nat
  BY DEF TypeOK
<1>b. Layered(held[s], saved[s])
  BY DEF Layers
<1>1. Layered(held'[s], saved'[s])
  <2>1. CASE Keeps(s)
    BY <1>b, <2>1 DEF Keeps
  <2>2. ASSUME saved'[s] = saved[s], Backed(held'[s]), Below(held[s], held'[s])
        PROVE  Layered(held'[s], saved'[s])
    BY <1>b, <2>2 DEF Layered, Below
  <2>3. CASE Locks(s)
    BY <1>a, <1>b, <2>2, <2>3 DEF Locks, Layered, Backed, Below, Held
  <2>4. CASE Changes(s)
    BY <1>a, <1>b, <2>2, <2>4 DEF Changes, Layered, Backed, Below, Held
  <2>5. CASE Draws(s)
    BY <1>a, <1>b, <2>2, <2>5 DEF Draws, Layered, Backed, Below, Held
  <2>6. CASE Saves(s)
    <3> DEFINE n == Len(saved[s])
    <3>1. /\ Len(saved'[s]) = n + 1 /\ saved'[s][n + 1] = held[s]
          /\ \A i \in 1..n : saved'[s][i] = saved[s][i]
      BY <1>a, <2>6, AppendProperties DEF Saves
    <3>2. \A i \in 1..(n + 1) : i \in 1..n \/ i = n + 1
      BY <1>a
    <3>3. \A i \in 1..(n + 1) : Backed(saved'[s][i]) /\ Below(saved'[s][i], held[s])
      BY <1>b, <3>1, <3>2 DEF Layered, Below
    <3>4. ASSUME NEW i \in 1..(n + 1), NEW j \in i..(n + 1)
          PROVE  Below(saved'[s][i], saved'[s][j])
      <4>1. (i \in 1..n /\ j \in i..n) \/ j = n + 1
        BY <1>a
      <4> QED  BY <1>b, <3>1, <3>3, <4>1 DEF Layered
    <3> QED  BY <1>b, <2>6, <3>1, <3>3, <3>4 DEF Saves, Layered
  <2>7. ASSUME NEW n \in Nat, Cuts(s, n), held'[s] \in {held[s], saved[s][n]}
        PROVE  Layered(held'[s], saved'[s])
    <3>1. n \in 1..Len(saved[s]) /\ Len(saved'[s]) = n
          /\ \A i \in 1..n : saved'[s][i] = saved[s][i]
      BY <2>7 DEF Cuts
    <3>2. ASSUME NEW i \in 1..n
          PROVE  i \in 1..Len(saved[s]) /\ n \in i..Len(saved[s])
      BY <1>a, <3>1
    <3>3. ASSUME NEW i \in 1..n, NEW j \in i..n
          PROVE  j \in i..Len(saved[s]) /\ j \in 1..n
      BY <1>a, <3>1
    <3>4. ASSUME NEW i \in 1..n
          PROVE  Backed(saved'[s][i]) /\ Below(saved'[s][i], held'[s])
      BY <1>b, <2>7, <3>1, <3>2 DEF Layered
    <3>5. ASSUME NEW i \in 1..n, NEW j \in i..n
          PROVE  Below(saved'[s][i], saved'[s][j])
      BY <1>b, <3>1, <3>2, <3>3 DEF Layered
    <3>6. Backed(held'[s])
      BY <1>b, <2>7, <3>1 DEF Layered
    <3> QED  BY <3>1, <3>4, <3>5, <3>6 DEF Layered
  <2>8. CASE Drops(s) \/ Backs(s)
    BY <2>7, <2>8 DEF Drops, Backs
  <2>9. CASE Ends(s)
    BY <2>9 DEF Ends, Layered, Nothing, Backed
  <2> QED  BY <2>1, <2>3, <2>4, <2>5, <2>6, <2>8, <2>9 DEF Moves
<1>2. \A t \in Sessions \ {s} : held'[t] = held[t] /\ saved'[t] = saved[t]
  BY DEF Alone
<1>3. ASSUME NEW t \in Sessions PROVE Layered(held'[t], saved'[t])
  <2>1. CASE t = s
    BY <1>1, <2>1
  <2>2. CASE t # s
    BY <1>2, <2>2 DEF Layers
  <2> QED  BY <2>1, <2>2
<1> QED  BY <1>3 DEF Layers, Layered, Backed, Below

\* Nobody else's changes reach the sequence under a transaction that has drawn from it.
LEMMA RegistryStays ==
    ASSUME TypeOK, Layers, Excludes, NEW s \in Sessions, Moves(s),
           NEW t \in Sessions \ {s}, held[t].shared
    PROVE  registry' = registry /\ held[s].file = Unchanged
<1>1. ~ held[s].exclusive
  BY DEF Excludes
<1>2. held[s].file = Unchanged
  BY <1>1 DEF Layers, Layered, Backed
<1>3. registry' = registry
  BY <1>2 DEF Moves, Keeps, Locks, Changes, Draws, Saves, Drops, Backs, Cuts, Ends, View
<1> QED  BY <1>2, <1>3

\* What is drawn by those who have not changed the sequence stays from the sequence.
LEMMA CurrentStays ==
    ASSUME TypeOK, TypeOK', Layers, Excludes, AllCurrent,
           NEW s \in Sessions, Alone(s), Moves(s)
    PROVE  AllCurrent'
<1>a. /\ held[s] \in Held /\ held'[s] \in Held /\ files' \in Nat
      /\ saved[s] \in Seq(Held) /\ Len(saved[s]) \in Nat
  BY DEF TypeOK
<1> DEFINE Cur(h) == h.file = Unchanged => \A f \in h.drawn : f = registry'
<1>1. Cur(held'[s]) /\ \A i \in 1..Len(saved'[s]) : Cur(saved'[s][i])
  <2>1. CASE Keeps(s)
    BY <2>1 DEF Keeps, AllCurrent, Current
  <2>2. ASSUME saved'[s] = saved[s], registry' = registry
        PROVE  \A i \in 1..Len(saved'[s]) : Cur(saved'[s][i])
    BY <2>2 DEF AllCurrent, Current
  <2>3. CASE Locks(s)
    <3>1. held'[s].file = held[s].file /\ held'[s].drawn = held[s].drawn
      BY <1>a, <2>3 DEF Locks, Held
    <3> QED  BY <2>2, <2>3, <3>1 DEF Locks, AllCurrent, Current
  <2>4. CASE Changes(s)
    <3>1. held'[s].file # Unchanged
      BY <1>a, <2>4 DEF Changes, Held, Unchanged
    <3> QED  BY <2>2, <2>4, <3>1 DEF Changes
  <2>5. CASE Draws(s)
    <3>1. held'[s].file = held[s].file /\ held'[s].drawn = held[s].drawn \cup {View(s)}
      BY <1>a, <2>5 DEF Draws, Held
    <3> QED  BY <2>2, <2>5, <3>1 DEF Draws, AllCurrent, Current, View
  <2>6. CASE Saves(s)
    <3> DEFINE n == Len(saved[s])
    <3>1. /\ Len(saved'[s]) = n + 1 /\ saved'[s][n + 1] = held[s]
          /\ \A i \in 1..n : saved'[s][i] = saved[s][i]
      BY <1>a, <2>6, AppendProperties DEF Saves
    <3>2. \A i \in 1..(n + 1) : i \in 1..n \/ i = n + 1
      BY <1>a
    <3> QED  BY <2>6, <3>1, <3>2 DEF Saves, AllCurrent, Current
  <2>7. CASE Drops(s) \/ Backs(s)
    <3>1. PICK n \in Nat : Cuts(s, n) /\ held'[s] \in {held[s], saved[s][n]}
      BY <2>7 DEF Drops, Backs
    <3>2. \A i \in 1..n : i \in 1..Len(saved[s])
      BY <1>a, <3>1 DEF Cuts
    <3> QED  BY <3>1, <3>2 DEF Cuts, AllCurrent, Current
  <2>8. CASE Ends(s)
    BY <2>8 DEF Ends, Nothing
  <2> QED  BY <2>1, <2>3, <2>4, <2>5, <2>6, <2>7, <2>8 DEF Moves
<1>2. ASSUME NEW t \in Sessions \ {s}
      PROVE  Cur(held'[t]) /\ \A i \in 1..Len(saved'[t]) : Cur(saved'[t][i])
  <2>1. held'[t] = held[t] /\ saved'[t] = saved[t]
    BY DEF Alone
  <2>2. CASE held[t].shared
    BY <2>1, <2>2, RegistryStays DEF AllCurrent, Current
  <2>3. CASE ~ held[t].shared
    <3>1. held[t].drawn = {} /\ \A i \in 1..Len(saved[t]) : saved[t][i].drawn = {}
      BY <2>3 DEF Layers, Layered, Backed, Below
    <3> QED  BY <2>1, <3>1
  <2> QED  BY <2>2, <2>3
<1> QED  BY <1>1, <1>2 DEF AllCurrent, Current

----------------------------------------------------------------------------
(* The calls. *)

\* A call runs in a transaction.
LEMMA InTransactionStays ==
    ASSUME NumberSequencesAssumption, TypeOK, InTransaction, Standing,
           NEW s \in Sessions, Step(s)
    PROVE  InTransaction'
<1>a. pc \in [Sessions -> Steps] /\ saved \in [Sessions -> Seq(Held)] /\ saved[s] \in Seq(Held)
  BY DEF TypeOK
<1>b. pc[s] # "client" => saved[s] # <<>>
  BY DEF InTransaction
<1>1. CASE pc'[s] = "client"
  BY <1>1, Movement DEF Alone, InTransaction
<1>2. CASE pc'[s] # "client"
  <2>1. saved'[s] = saved[s]
    <3>1. CASE \E r \in Request : Call(s, r)
      BY <3>1 DEF Call
    <3>2. CASE ServerStep(s)
      BY <3>2 DEF ServerStep, Insert, Delete, Restart, Look, Read, Write, WriteIf, Unlock,
           UnlockThen, Handler, HandleThen, DeadlockDetected
    <3>3. CASE Lock(s) \/ Own(s) \/ Cancel(s)
      BY <3>3 DEF Lock, LockIdentity, Own, OwnIf, Cancel
    <3>4. CASE Savepoint(s) \/ Release(s) \/ (\E n \in 2..MaxLevel : RollbackTo(s, n))
      BY <1>2, <1>a, <3>4 DEF Savepoint, Release, RollbackTo, AtRest, Goes
    <3>5. CASE EndTransaction(s) \/ Terminate(s)
      BY <1>2, <1>a, <3>5 DEF EndTransaction, Rollback, Commit, AtRest, Goes, Terminate
    <3> QED  BY <3>1, <3>2, <3>3, <3>4, <3>5 DEF Step, ClientStep
  <2>2. pc[s] # "client" \/ saved[s] # <<>>
    <3>1. CASE \E r \in Request : Call(s, r)
      BY <3>1 DEF Call
    <3>2. CASE ServerStep(s)
      BY <3>2 DEF ServerStep, Insert, Delete, Restart, Look, Read, Write, WriteIf, Unlock,
           UnlockThen, Handler, HandleThen, DeadlockDetected, Deadlocked, Returns, Goes
    <3>3. CASE Lock(s) \/ Own(s) \/ Cancel(s)
      BY <3>3 DEF Lock, LockIdentity, Own, OwnIf, Cancel, Goes, NumberSequencesAssumption
    <3>4. CASE Savepoint(s) \/ Release(s) \/ (\E n \in 2..MaxLevel : RollbackTo(s, n))
      BY <1>2, <1>a, <3>4 DEF Savepoint, Release, RollbackTo, AtRest, Goes
    <3>5. CASE EndTransaction(s) \/ Terminate(s)
      BY <3>5 DEF EndTransaction, Rollback, Commit, Terminate
    <3> QED  BY <3>1, <3>2, <3>3, <3>4, <3>5 DEF Step, ClientStep
  <2> QED  BY <1>b, <2>1, <2>2, Movement DEF Alone, InTransaction
<1> QED  BY <1>1, <1>2

\* Only a call that sets the sequence touches a file that there is.
LEMMA StorageStays ==
    ASSUME NumberSequencesAssumption, TypeOK, NEW s \in Sessions, Step(s), ~ Write(s)
    PROVE  /\ given' = given
           /\ \A f \in Files : f <= files => storage'[f] = storage[f]
<1>a. storage \in [Files -> Storage] /\ files \in Nat
  BY DEF TypeOK
<1>1. ASSUME NEW seed, NEW increment, NewFile(s, seed, increment)
      PROVE  \A f \in Files : f <= files => storage'[f] = storage[f]
  <2>1. ASSUME NEW f \in Files, f <= files PROVE f # files + 1
    BY <1>a, <2>1 DEF Files
  <2> QED  BY <1>a, <1>1, <2>1 DEF NewFile
<1>2. CASE Insert(s) \/ Restart(s)
  BY <1>1, <1>2 DEF Insert, Restart
<1>3. CASE ~ (Insert(s) \/ Restart(s))
  <2>1. storage' = storage /\ given' = given
    BY <1>3 DEF Step, ServerStep, ClientStep, EndTransaction, Call, Lock, LockIdentity, Own, OwnIf,
         Delete, Look, Read, Unlock, UnlockThen, Handler, HandleThen,
         DeadlockDetected, Savepoint, Release, RollbackTo, Rollback, Commit, Cancel, Terminate,
         database
  <2> QED  BY <2>1
<1> QED  BY <1>2, <1>3

\* A call refers to a file it has found.
LEMMA EntryKnown ==
    ASSUME NumberSequencesAssumption, TypeOK, Known, NEW s \in Sessions, Step(s)
    PROVE  frame'[s].entry <= files
<1>a. frame \in [Sessions -> Frame] /\ frame[s] \in Frame /\ files \in Nat
      /\ held \in [Sessions -> Held]
  BY DEF TypeOK
<1>b. frame[s].entry <= files /\ View(s) <= files
  BY DEF Known, View
<1>1. CASE \E r \in Request : Call(s, r)
  BY <1>1, <1>a, <1>b DEF Call, Frame
<1>2. CASE Look(s)
  BY <1>2, <1>a, <1>b DEF Look, Frame
<1>3. CASE Read(s)
  <2>1. frame'[s] = [frame[s] EXCEPT !.last = storage[frame[s].entry].last,
                                     !.called = storage[frame[s].entry].called]
    BY <1>3, <1>a DEF Read
  <2> QED  BY <1>a, <1>b, <2>1 DEF Frame
<1>4. CASE frame' = frame \/ frame' = [frame EXCEPT ![s] = Blank]
  BY <1>4, <1>a, <1>b DEF Blank, Absent
<1>5. CASE ServerStep(s) /\ ~ Look(s) /\ ~ Read(s)
  BY <1>4, <1>5 DEF ServerStep, Insert, Delete, Restart, Write, WriteIf, Unlock, UnlockThen,
       Handler, HandleThen, DeadlockDetected, Returns, Fails
<1>6. CASE Lock(s) \/ Own(s) \/ Cancel(s) \/ Terminate(s)
  BY <1>4, <1>6 DEF Lock, LockIdentity, Own, OwnIf, Cancel, Fails, Terminate
<1>7. CASE Savepoint(s) \/ Release(s) \/ (\E n \in 2..MaxLevel : RollbackTo(s, n))
           \/ EndTransaction(s)
  BY <1>4, <1>7 DEF Savepoint, Release, RollbackTo, EndTransaction, Rollback, Commit
<1> QED  BY <1>1, <1>2, <1>3, <1>5, <1>6, <1>7 DEF Step, ClientStep

\* Files are known before they are referred to.
LEMMA KnownStays ==
    ASSUME NumberSequencesAssumption, TypeOK, TypeOK', InTransaction, Standing, Known,
           NEW s \in Sessions, Step(s)
    PROVE  Known'
<1>a. /\ files \in Nat /\ files' \in Nat /\ files <= files'
      /\ held[s] \in Held /\ held'[s] \in Held
      /\ saved[s] \in Seq(Held) /\ Len(saved[s]) \in Nat
  BY FilesGrow DEF TypeOK
<1>b. Alone(s) /\ Moves(s)
  BY Movement
<1>c. \A n \in Int : n <= files => n <= files'
  BY <1>a
<1>d. /\ registry \in Int
      /\ \A h \in Held : h.file \in Int
      /\ \A t \in Sessions : held[t] \in Held /\ frame[t].entry \in Int
                             /\ frame'[t].entry \in Int
                             /\ \A i \in 1..Len(saved[t]) : saved[t][i] \in Held
  <2>1. Files \cup {Absent, Unchanged} \subseteq Int
    BY DEF Files, Absent, Unchanged
  <2>2. registry \in Int /\ \A h \in Held : h.file \in Int
    BY <2>1 DEF TypeOK, Held
  <2>3. ASSUME NEW t \in Sessions
        PROVE  /\ held[t] \in Held /\ frame[t].entry \in Int /\ frame'[t].entry \in Int
               /\ \A i \in 1..Len(saved[t]) : saved[t][i] \in Held
    <3>1. /\ held[t] \in Held /\ frame[t] \in Frame /\ frame'[t] \in Frame
          /\ saved[t] \in Seq(Held)
      BY DEF TypeOK
    <3>2. \A k \in Frame : k.entry \in Int
      BY <2>1 DEF Frame
    <3> QED  BY <3>1, <3>2
  <2> QED  BY <2>2, <2>3
<1>1. registry' <= files'
  BY <1>b, <1>c, <1>d DEF Known, Moves, Keeps, Locks, Changes, Draws, Saves, Drops, Backs, Cuts,
       Ends, View
<1>2. held'[s].file <= files' /\ \A i \in 1..Len(saved'[s]) : saved'[s][i].file <= files'
  <2>1. ASSUME saved'[s] = saved[s] PROVE \A i \in 1..Len(saved'[s]) : saved'[s][i].file <= files'
    BY <1>c, <1>d, <2>1 DEF Known
  <2>2. CASE Keeps(s)
    BY <1>c, <1>d, <2>1, <2>2 DEF Keeps, Known
  <2>3. CASE Locks(s) \/ Draws(s)
    <3>1. held'[s].file = held[s].file
      BY <1>a, <2>3 DEF Locks, Draws, Held
    <3> QED  BY <1>c, <1>d, <2>1, <2>3, <3>1 DEF Locks, Draws, Known
  <2>4. CASE Changes(s)
    <3>1. held'[s].file \in 0..files'
      BY <1>a, <2>4 DEF Changes, Held
    <3> QED  BY <1>a, <2>1, <2>4, <3>1 DEF Changes
  <2>5. CASE Saves(s)
    <3> DEFINE n == Len(saved[s])
    <3>1. /\ Len(saved'[s]) = n + 1 /\ saved'[s][n + 1] = held[s]
          /\ \A i \in 1..n : saved'[s][i] = saved[s][i]
      BY <1>a, <2>5, AppendProperties DEF Saves
    <3>2. \A i \in 1..(n + 1) : i \in 1..n \/ i = n + 1
      BY <1>a
    <3> QED  BY <1>c, <1>d, <2>5, <3>1, <3>2 DEF Saves, Known
  <2>6. CASE Drops(s) \/ Backs(s)
    <3>1. PICK n \in Nat : Cuts(s, n) /\ held'[s] \in {held[s], saved[s][n]}
      BY <2>6 DEF Drops, Backs
    <3>2. \A i \in 1..n : i \in 1..Len(saved[s])
      BY <1>a, <3>1 DEF Cuts
    <3> QED  BY <1>c, <1>d, <3>1, <3>2 DEF Cuts, Known
  <2>7. CASE Ends(s)
    BY <1>a, <2>7 DEF Ends, Nothing, Unchanged
  <2> QED  BY <1>b, <2>2, <2>3, <2>4, <2>5, <2>6, <2>7 DEF Moves
<1>3. frame'[s].entry <= files'
  BY <1>c, <1>d, EntryKnown
<1>4. ASSUME NEW t \in Sessions \ {s}
      PROVE  /\ held'[t].file <= files' /\ \A i \in 1..Len(saved'[t]) : saved'[t][i].file <= files'
             /\ frame'[t].entry <= files'
  <2>1. held'[t] = held[t] /\ saved'[t] = saved[t] /\ frame'[t] = frame[t]
    BY <1>b DEF Alone
  <2>2. /\ held[t].file <= files /\ frame[t].entry <= files
        /\ \A i \in 1..Len(saved[t]) : saved[t][i].file <= files
    BY DEF Known
  <2> QED  BY <1>c, <1>d, <2>1, <2>2
<1>5. \A f \in Files : f > files' => given'[f] = <<>>
  <2>1. CASE ~ Write(s)
    <3>1. \A f \in Files : f > files' => f > files
      BY <1>a DEF Files
    <3> QED  BY <2>1, <3>1, StorageStays DEF Known
  <2>2. CASE Write(s)
    <3>1. files' = files /\ frame[s].entry \in Files /\ frame[s].entry <= files
      BY <2>2 DEF Write, WriteIf, Standing, Stands, Known
    <3>2. \A f \in Files : f > files => f # frame[s].entry
      BY <1>a, <3>1 DEF Files
    <3>3. \A f \in Files \ {frame[s].entry} : given'[f] = given[f]
      BY <2>2 DEF Write, WriteIf, TypeOK
    <3> QED  BY <3>1, <3>2, <3>3 DEF Known
  <2> QED  BY <2>1, <2>2
<1> QED  BY <1>1, <1>2, <1>3, <1>4, <1>5 DEF Known

\* Who owns the session-level lock keeps it while others step.
LEMMA OwnerStays ==
    ASSUME NumberSequencesAssumption, NEW s \in Sessions, Step(s),
           NEW t \in Sessions \ {s}, owner = t
    PROVE  owner' = t
<1>1. owner # NoSession /\ Released(s) = owner
  BY DEF NumberSequencesAssumption, Released
<1> QED
  BY <1>1 DEF Step, ServerStep, ClientStep, EndTransaction, Call, Lock, LockIdentity, Own, OwnIf,
     Insert, Restart, Delete, Look, Read, Write, WriteIf, Unlock, UnlockThen, Handler, HandleThen,
     DeadlockDetected, Savepoint, Release, RollbackTo, Rollback, Commit, Cancel, Terminate

\* A call keeps what it has at its step, through its own steps ...
LEMMA StandsHere ==
    ASSUME NumberSequencesAssumption, TypeOK, TypeOK', Standing, NEW s \in Sessions, Step(s)
    PROVE  Stands(s)'
<1>a. /\ pc \in [Sessions -> Steps] /\ frame \in [Sessions -> Frame]
      /\ held \in [Sessions -> Held] /\ held[s] \in Held /\ frame[s] \in Frame
      /\ held'[s] \in Held
  BY DEF TypeOK
<1>b. Stands(s)
  BY DEF Standing
<1>1. ASSUME pc'[s] \in {"client", "identity", "failed", "handler"} PROVE Stands(s)'
  BY <1>1 DEF Stands
<1>2. CASE \/ \E r \in Request : Call(s, r)
           \/ Insert(s) \/ Delete(s) \/ Restart(s) \/ Unlock(s) \/ Handler(s)
           \/ DeadlockDetected(s) \/ Terminate(s) \/ Savepoint(s) \/ Release(s)
           \/ \E n \in 2..MaxLevel : RollbackTo(s, n)
           \/ Rollback(s) \/ Commit(s) \/ Cancel(s)
  <2>1. pc'[s] \in {"client", "identity", "failed", "handler"}
    BY <1>2, <1>a DEF Call, Insert, Delete, Restart, Unlock, UnlockThen, Handler, HandleThen,
       DeadlockDetected, Terminate, Savepoint, Release, RollbackTo, Rollback, Commit, Cancel,
       AtRest, Returns, Goes, Fails
  <2> QED  BY <1>1, <2>1
<1>3. CASE Lock(s)
  <2>1. frame' = frame /\ pc'[s] = IF Op(s) \in Mutations THEN "change" ELSE "own"
    BY <1>3, <1>a DEF Lock, LockIdentity, Goes
  <2>2. held'[s] = IF Op(s) \in Mutations THEN [held[s] EXCEPT !.exclusive = TRUE]
                   ELSE [held[s] EXCEPT !.shared = TRUE]
    BY <1>3, <1>a DEF Lock, LockIdentity
  <2>3. IF Op(s) \in Mutations THEN held'[s].exclusive ELSE held'[s].shared
    BY <1>a, <2>2 DEF Held
  <2> QED  BY <2>1, <2>3 DEF Stands, Op
<1>4. CASE Own(s)
  <2>1. pc[s] = "own" /\ pc'[s] = "look" /\ held' = held /\ owner' = s
    BY <1>4, <1>a DEF Own, OwnIf, Goes
  <2> QED  BY <1>b, <2>1 DEF Stands
<1>5. CASE Look(s)
  <2>1. /\ pc[s] = "look" /\ pc'[s] \in {"unlock", "read"}
        /\ pc'[s] = "read" => View(s) # Absent
        /\ UNCHANGED <<held, owner, registry>>
    BY <1>5, <1>a DEF Look, Goes
  <2>2. frame'[s].entry = View(s)
    BY <1>5, <1>a DEF Look, Frame
  <2>3. View(s) \in Files \cup {Absent} /\ View(s)' = View(s)
    BY <1>a, <2>1 DEF View, Held, Unchanged, TypeOK
  <2> QED  BY <1>b, <2>1, <2>2, <2>3 DEF Stands
<1>6. CASE Read(s)
  <2>1. pc[s] = "read" /\ frame[s].entry \in Files /\ frame[s].entry = View(s)
        /\ owner = s /\ held[s].shared
    BY <1>6, <1>b DEF Read, Goes, Stands
  <2>2. frame'[s] = [frame[s] EXCEPT !.last = storage[frame[s].entry].last,
                                     !.called = storage[frame[s].entry].called]
    BY <1>6, <1>a DEF Read
  <2>3. /\ frame'[s].request = frame[s].request /\ frame'[s].entry = frame[s].entry
        /\ frame'[s].last = storage[frame[s].entry].last
        /\ frame'[s].called = storage[frame[s].entry].called
    BY <1>a, <2>2 DEF Frame
  <2>4. /\ pc'[s] = IF frame[s].request.count < 1 THEN "handler" ELSE "write"
        /\ UNCHANGED <<storage, held, owner, registry>>
    BY <1>6, <1>a, <2>1 DEF Read, Goes, database
  <2>5. View(s)' = View(s)
    BY <2>4 DEF View
  <2>6. frame[s].request.count \in Int
    <3>1. frame[s].request.count \in Counts \cup {1}
      BY <1>a DEF Frame, Request
    <3>2. Counts \cup {1} \subseteq Int
      BY DEF NumberSequencesAssumption
    <3> QED  BY <3>1, <3>2
  <2>7. pc'[s] = "write" => frame[s].request.count >= 1
    BY <2>4, <2>6
  <2>8. pc'[s] \in {"handler", "write"}
    BY <2>4
  <2> QED  BY <2>1, <2>3, <2>4, <2>5, <2>7, <2>8 DEF Stands
<1>7. CASE Write(s)
  <2>1. pc[s] = "write" /\ pc'[s] \in {"unlock", "handler"}
    BY <1>7, <1>a DEF Write, WriteIf, Goes
  <2>2. held[s].shared
    BY <1>b, <2>1 DEF Stands
  <2>3. held' = held \/ held'[s] = [held[s] EXCEPT !.drawn = @ \cup {frame[s].entry}]
    BY <1>7, <1>a DEF Write, WriteIf
  <2>4. held'[s].shared
    BY <1>a, <2>2, <2>3 DEF Held
  <2> QED  BY <2>1, <2>4 DEF Stands
<1> QED
  BY <1>2, <1>3, <1>4, <1>5, <1>6, <1>7 DEF Step, ServerStep, ClientStep, EndTransaction

\* ... and through those of the others, which its locks hold off.
LEMMA StandsThere ==
    ASSUME NumberSequencesAssumption, TypeOK, Layers, Excludes, InTransaction, Standing, Known,
           NEW s \in Sessions, Step(s), NEW t \in Sessions \ {s}
    PROVE  Stands(t)'
<1>1. held'[t] = held[t] /\ pc'[t] = pc[t] /\ frame'[t] = frame[t] /\ Moves(s)
  BY Movement DEF Alone
<1>2. Stands(t) /\ Stands(s)
  BY DEF Standing
<1>3. pc[t] \in {"look", "read", "write"} => owner' = t
  BY <1>2, OwnerStays DEF Stands
<1>4. ASSUME pc[t] \in {"read", "write"} PROVE View(t)' = View(t)
  <2>1. held[t].shared
    BY <1>2, <1>4 DEF Stands
  <2>2. registry' = registry
    BY <1>1, <2>1, RegistryStays
  <2> QED  BY <1>1, <2>2 DEF View
<1>5. ASSUME pc[t] = "write" PROVE storage'[frame[t].entry] = storage[frame[t].entry]
  <2>1. ~ Write(s)
    BY <1>2, <1>5 DEF Stands, Write, WriteIf
  <2>2. frame[t].entry \in Files /\ frame[t].entry <= files
    BY <1>2, <1>5 DEF Stands, Known
  <2> QED  BY <2>1, <2>2, StorageStays
<1> QED  BY <1>1, <1>2, <1>3, <1>4, <1>5 DEF Stands, Op

----------------------------------------------------------------------------
(* The numbers. *)

\* A range continues what was given before it.
LEMMA Continues ==
    ASSUME NEW first \in Int, NEW d \in Int, NEW n \in Nat, NEW i \in Nat
    PROVE  first + (n - 1) * d + d + (i - n - 1) * d = first + (i - 1) * d
<1> DEFINE a == n - 1
           b == i - n - 1
<1>1. a \in Int /\ b \in Int /\ i - 1 = a + 1 + b
  OBVIOUS
<1>2. (a + 1 + b) * d = a * d + d + b * d
  BY <1>1
<1>3. a * d \in Int /\ b * d \in Int
  BY <1>1
<1> QED  BY <1>1, <1>2, <1>3

\* Only a call that sets the sequence and one that makes a file touch the storage.
LEMMA StorageChange ==
    ASSUME NumberSequencesAssumption, TypeOK, NEW s \in Sessions, Step(s), ~ Write(s),
           storage' # storage
    PROVE  /\ files + 1 \in Files
           /\ \E seed, increment : storage' = [storage EXCEPT ![files + 1] =
                 [first |-> seed, last |-> seed, called |-> FALSE, increment |-> increment]]
<1>1. ASSUME NEW seed, NEW increment, NewFile(s, seed, increment)
      PROVE  /\ files + 1 \in Files
             /\ storage' = [storage EXCEPT ![files + 1] =
                   [first |-> seed, last |-> seed, called |-> FALSE, increment |-> increment]]
  BY <1>1 DEF NewFile, TypeOK, NumberSequencesAssumption, Files
<1>2. CASE Insert(s) \/ Restart(s)
  BY <1>1, <1>2 DEF Insert, Restart
<1>3. CASE ~ (Insert(s) \/ Restart(s))
  BY <1>3 DEF Step, ServerStep, ClientStep, EndTransaction, Call, Lock, LockIdentity, Own, OwnIf,
     Delete, Look, Read, Unlock, UnlockThen, Handler, HandleThen,
     DeadlockDetected, Savepoint, Release, RollbackTo, Rollback, Commit, Cancel, Terminate,
     database
<1> QED  BY <1>2, <1>3

\* A call that sets the sequence gives the next numbers of it.
LEMMA WriteContinues ==
    ASSUME NumberSequencesAssumption, TypeOK, Standing, Ordered,
           NEW s \in Sessions, Write(s), First(s) \in Values, Final(s) \in Values
    PROVE  InOrder(frame[s].entry)'
<1> DEFINE f == frame[s].entry
           n == Len(given[f])
           c == frame[s].request.count
           d == storage[f].increment
           first == storage[f].first
           a == frame[s].last + (IF frame[s].called THEN d ELSE 0)
<1>1. /\ f \in Files /\ c >= 1
      /\ frame[s].last = storage[f].last /\ frame[s].called = storage[f].called
  BY DEF Standing, Stands, Write, WriteIf
<1>2. given[f] \in Seq(Values) /\ storage[f] \in Storage /\ InOrder(f)
  BY <1>1 DEF TypeOK, Ordered
<1>3. /\ n \in Nat /\ d \in Int /\ first \in Int
      /\ storage[f].last \in Int
  BY <1>2 DEF Storage, Values, NumberSequencesAssumption
<1>4. Reserved(s) \in Seq(Values) /\ Len(Reserved(s)) = c
  BY <1>1, ReservedFits
<1>5. c \in Nat
  BY <1>4
<1>6. /\ given'[f] = given[f] \o Reserved(s)
      /\ storage'[f] = [storage[f] EXCEPT !.last = Final(s), !.called = TRUE]
  BY <1>1 DEF Write, WriteIf, TypeOK
<1>7. /\ storage'[f].first = first /\ storage'[f].increment = d
      /\ storage'[f].last = Final(s) /\ storage'[f].called
  BY <1>2, <1>6 DEF Storage
<1>8. /\ Len(given'[f]) = n + c
      /\ \A i \in 1..(n + c) : given'[f][i] = IF i <= n THEN given[f][i] ELSE Reserved(s)[i - n]
  <2>1. PICK g \in Seq(Values) : g = given[f]
    BY <1>2
  <2>2. PICK r \in Seq(Values) : r = Reserved(s)
    BY <1>4
  <2> HIDE DEF f, c
  <2>3. /\ Len(g \o r) = Len(g) + Len(r)
        /\ \A i \in 1..Len(g) + Len(r) : (g \o r)[i] = IF i <= Len(g) THEN g[i] ELSE r[i - Len(g)]
    BY ConcatProperties
  <2> QED  BY <1>4, <1>6, <2>1, <2>2, <2>3
<1>9. \A i \in 1..c : Reserved(s)[i] = a + (i - 1) * d
  BY DEF Reserved
<1>10. a = first + (n - 1) * d + d
  <2>1. CASE given[f] = <<>>
    <3>1. n = 0 /\ storage[f].last = first /\ ~ storage[f].called
      BY <1>2, <2>1 DEF InOrder
    <3>2. a = first
      BY <1>1, <1>3, <3>1
    <3>3. (0 - 1) * d = 0 - d
      BY <1>3
    <3> HIDE DEF a, d, first
    <3>4. first + (0 - 1) * d + d = first
      BY <1>3, <3>3
    <3> QED  BY <3>1, <3>2, <3>4
  <2>2. CASE given[f] # <<>>
    <3>1. n \in 1..n
      BY <1>2, <2>2
    <3>2. storage[f].called /\ storage[f].last = first + (n - 1) * d
      BY <1>2, <2>2, <3>1 DEF InOrder
    <3> QED  BY <1>1, <3>2
  <2> QED  BY <2>1, <2>2
<1> HIDE DEF f, n, c, d, first, a
<1>11. ASSUME NEW i \in 1..(n + c) PROVE given'[f][i] = first + (i - 1) * d
  <2>1. CASE i <= n
    <3>1. i \in 1..n
      BY <1>3, <1>5, <2>1
    <3>2. given[f][i] = first + (i - 1) * d
      BY <1>2, <3>1 DEF InOrder, n, first, d
    <3> QED  BY <1>8, <2>1, <3>2
  <2>2. CASE ~ (i <= n)
    <3>1. i - n \in 1..c /\ i \in Nat
      BY <1>3, <1>5, <2>2
    <3>2. given'[f][i] = a + (i - n - 1) * d
      BY <1>8, <1>9, <2>2, <3>1
    <3>3. first + (n - 1) * d + d + (i - n - 1) * d = first + (i - 1) * d
      BY <1>3, <3>1, Continues
    <3> QED  BY <1>10, <3>2, <3>3
  <2> QED  BY <2>1, <2>2
<1>12. given'[f][n + c] = Final(s) /\ given'[f] # <<>>
  <2>a. \A x, y \in Nat : y >= 1 =>
            x + y \in 1..(x + y) /\ ~ (x + y <= x) /\ x + y - x = y /\ x + y # 0
    OBVIOUS
  <2>1. n + c \in 1..(n + c) /\ ~ (n + c <= n) /\ n + c - n = c /\ n + c # 0
    BY <1>1, <1>3, <1>5, <2>a
  <2>2. given'[f][n + c] = Reserved(s)[c]
    <3>1. PICK k \in 1..(n + c) : k = n + c /\ ~ (k <= n) /\ k - n = c
      <4>1. \A x, y \in Nat : y >= 1 => \E k \in 1..(x + y) : k = x + y /\ ~ (k <= x) /\ k - x = y
        BY <2>a
      <4> QED  BY <1>1, <1>3, <1>5, <4>1
    <3>2. given'[f][k] = Reserved(s)[k - n]
      BY <1>8, <3>1
    <3> QED  BY <3>1, <3>2
  <2>3. Len(given'[f]) = n + c
    BY <1>8
  <2>4. Final(s) = Reserved(s)[c]
    BY DEF Final, c
  <2>5. given'[f] # <<>>
    BY <2>1, <2>3
  <2> QED  BY <2>2, <2>4, <2>5
<1>13. /\ \A i \in 1..Len(given'[f]) :
              given'[f][i] = storage'[f].first + (i - 1) * storage'[f].increment
       /\ IF given'[f] = <<>>
          THEN ~ storage'[f].called /\ storage'[f].last = storage'[f].first
          ELSE storage'[f].called /\ storage'[f].last = given'[f][Len(given'[f])]
  BY <1>7, <1>8, <1>11, <1>12
<1>14. frame'[s].entry = f
  BY DEF Write, WriteIf, f
<1> QED  BY <1>13, <1>14 DEF InOrder

\* The numbers of every file stay in order.
LEMMA OrderedStays ==
    ASSUME NumberSequencesAssumption, TypeOK, Standing, Known, Ordered,
           NEW s \in Sessions, Step(s)
    PROVE  Ordered'
<1>a. storage \in [Files -> Storage] /\ given \in [Files -> Seq(Values)] /\ files \in Nat
  BY DEF TypeOK
<1>1. ASSUME NEW f \in Files, storage'[f] = storage[f], given'[f] = given[f] PROVE InOrder(f)'
  BY <1>1 DEF Ordered, InOrder
<1>2. CASE Write(s) /\ First(s) \in Values /\ Final(s) \in Values
  <2>1. \A f \in Files \ {frame[s].entry} : storage'[f] = storage[f] /\ given'[f] = given[f]
    BY <1>a, <1>2 DEF Write, WriteIf
  <2>2. PICK g \in Files : g = frame[s].entry
    BY <1>2 DEF Standing, Stands, Write, WriteIf
  <2>3. frame' = frame
    BY <1>2 DEF Write, WriteIf
  <2>4. InOrder(g)'
    BY <1>2, <2>2, <2>3, WriteContinues DEF InOrder
  <2> QED  BY <1>1, <2>1, <2>2, <2>4 DEF Ordered
<1>3. CASE Write(s) /\ ~ (First(s) \in Values /\ Final(s) \in Values)
  BY <1>1, <1>3 DEF Write, WriteIf, Ordered
<1>4. CASE ~ Write(s)
  <2>1. given' = given
    BY <1>4, StorageStays
  <2>2. CASE storage' = storage
    BY <1>1, <2>1, <2>2 DEF Ordered
  <2>3. CASE storage' # storage
    <3>1. PICK seed, increment : storage' = [storage EXCEPT ![files + 1] =
              [first |-> seed, last |-> seed, called |-> FALSE, increment |-> increment]]
      BY <1>4, <2>3, StorageChange
    <3>2. files + 1 \in Files
      BY <1>4, <2>3, StorageChange
    <3>3. \A f \in Files \ {files + 1} : storage'[f] = storage[f]
      BY <1>a, <3>1
    <3>4. PICK g \in Files : g = files + 1
      BY <3>2
    <3>5. given[g] = <<>>
      BY <1>a, <3>4 DEF Known
    <3>6. storage'[g] = [first |-> seed, last |-> seed, called |-> FALSE, increment |-> increment]
      BY <1>a, <3>1, <3>4
    <3>7. ~ storage'[g].called /\ storage'[g].last = storage'[g].first
      BY <3>6
    <3>8. given'[g] = <<>> /\ Len(given'[g]) = 0
      BY <2>1, <3>5
    <3>9. InOrder(g)'
      BY <3>7, <3>8 DEF InOrder
    <3> QED  BY <1>1, <2>1, <3>3, <3>4, <3>9 DEF Ordered
  <2> QED  BY <2>2, <2>3
<1> QED  BY <1>2, <1>3, <1>4

----------------------------------------------------------------------------
(* The theorems. *)

\* All of it holds in every reachable state.
THEOREM Invariance == Spec => []Inv
<1>1. Init => Inv
  <2> SUFFICES ASSUME Init PROVE Inv
    OBVIOUS
  <2>a. Blank \in Frame /\ Nothing \in Held /\ MaxCalls \in Nat
    BY BlankTypes, NumberSequencesAssumption DEF NumberSequencesAssumption
  <2>b. [first |-> MinValue, last |-> MinValue, called |-> FALSE, increment |-> 1] \in Storage
    BY NumberSequencesAssumption DEF NumberSequencesAssumption, Storage, Values
  <2>1. TypeOK
    BY <2>a, <2>b DEF Init, TypeOK, Steps
  <2>2. InTransaction /\ Standing
    BY DEF Init, InTransaction, Standing, Stands
  <2>3. Excludes /\ Layers /\ AllCurrent
    BY DEF Init, Nothing, Excludes, Layers, Layered, Backed, AllCurrent, Current
  <2>4. Known
    BY DEF Init, Nothing, Blank, Known, Absent, Unchanged
  <2>5. ASSUME NEW f \in Files PROVE InOrder(f)
    <3>1. given[f] = <<>> /\ Len(given[f]) = 0 /\ ~ storage[f].called
          /\ storage[f].last = storage[f].first
      BY DEF Init
    <3> QED  BY <3>1 DEF InOrder
  <2> QED  BY <2>1, <2>2, <2>3, <2>4, <2>5 DEF Inv, Ordered
<1>2. Inv /\ [Next]_vars => Inv'
  <2>1. ASSUME Inv, NEW s \in Sessions, Step(s) PROVE Inv'
    <3>a. /\ TypeOK /\ InTransaction /\ Excludes /\ Layers /\ AllCurrent /\ Known
          /\ Standing /\ Ordered /\ NumberSequencesAssumption
      BY <2>1, NumberSequencesAssumption DEF Inv
    <3>1. TypeOK'
      BY <2>1, <3>a, Types
    <3>2. Alone(s) /\ Moves(s)
      BY <2>1, <3>a, Movement
    <3>3. Excludes' /\ Layers' /\ AllCurrent'
      BY <2>1, <3>a, <3>1, <3>2, ExcludesStays, LayersStay, CurrentStays
    <3>4. InTransaction' /\ Known' /\ Ordered'
      BY <2>1, <3>a, <3>1, InTransactionStays, KnownStays, OrderedStays
    <3>5. ASSUME NEW t \in Sessions PROVE Stands(t)'
      <4>1. CASE t = s
        BY <2>1, <3>a, <3>1, <4>1, StandsHere
      <4>2. CASE t # s
        BY <2>1, <3>a, <4>2, StandsThere
      <4> QED  BY <4>1, <4>2
    <3> QED  BY <3>1, <3>3, <3>4, <3>5 DEF Inv, Standing
  <2>2. ASSUME Inv, UNCHANGED vars PROVE Inv'
    BY <2>2 DEF Inv, vars, database, counts, TypeOK, InTransaction, Excludes, Layers, Layered,
       AllCurrent, Current, Known, Standing, Stands, Op, View, Ordered, InOrder
  <2>3. Next => \E s \in Sessions : Step(s)
    BY DEF Next, Step
  <2> QED  BY <2>1, <2>2, <2>3
<1> QED  BY <1>1, <1>2, PTL DEF Spec

\* The variables keep their types: no number drawn lies outside the bounds of the sequence.
THEOREM TypeCorrect == Spec => []TypeOK
<1>1. Inv => TypeOK
  BY DEF Inv
<1> QED  BY <1>1, Invariance, PTL

\* Every number of a sequence is given once, in order, whoever draws, fails or rolls back.
THEOREM NumbersAreGivenOnce == Spec => []GivenInOrder
<1>1. Inv => GivenInOrder
  <2> SUFFICES ASSUME Inv, NEW f \in Files
               PROVE  /\ \A i \in DOMAIN given[f] :
                            given[f][i] = storage[f].first + (i - 1) * storage[f].increment
                      /\ given[f] # <<>> =>
                            storage[f].called /\ storage[f].last = given[f][Len(given[f])]
    BY DEF GivenInOrder
  <2>1. InOrder(f) /\ DOMAIN given[f] = 1..Len(given[f])
    BY DEF Inv, Ordered, TypeOK
  <2> QED  BY <2>1 DEF InOrder
<1> QED  BY <1>1, Invariance, PTL

\* The numbers of a running transaction are from the sequence that the name stands for.
THEOREM DrawnNumbersStayCurrent == Spec => []NumbersStayCurrent
<1>1. Inv => NumbersStayCurrent
  BY DEF Inv, AllCurrent, Current, NumbersStayCurrent
<1> QED  BY <1>1, Invariance, PTL

\* A draw works on the sequence it has looked up, and nobody is replacing it.
THEOREM DrawsAreCurrent == Spec => []DrawsFromCurrent
<1>1. Inv => DrawsFromCurrent
  <2> SUFFICES ASSUME Inv, NEW s \in Sessions, pc[s] \in {"read", "write"}
               PROVE  frame[s].entry = View(s)
                      /\ \A t \in Sessions \ {s} : held[t].file = Unchanged
    BY DEF DrawsFromCurrent
  <2>1. Stands(s)
    BY DEF Inv, Standing
  <2>2. held[s].shared /\ frame[s].entry = View(s)
    BY <2>1 DEF Stands
  <2>3. ASSUME NEW t \in Sessions \ {s} PROVE held[t].file = Unchanged
    <3>1. ~ held[t].exclusive
      BY <2>2 DEF Inv, Excludes
    <3>2. Backed(held[t])
      BY DEF Inv, Layers, Layered
    <3> QED  BY <3>1, <3>2 DEF Backed
  <2> QED  BY <2>2, <2>3
<1> QED  BY <1>1, Invariance, PTL

\* The session-level lock belongs to a call that will give it back.
Owning == owner \in Sessions => pc[owner] \in {"look", "read", "write", "unlock", "handler"}

LEMMA OwningStays ==
    ASSUME NumberSequencesAssumption, "unlock" \notin CancelPoints, Inv, Owning,
           NEW s \in Sessions, Step(s)
    PROVE  Owning'
<1>a. TypeOK /\ Alone(s)
  BY Movement DEF Inv
<1>b. pc \in [Sessions -> Steps]
  BY <1>a DEF TypeOK
<1>1. CASE owner \in Sessions \ {s}
  <2>1. PICK t \in Sessions \ {s} : owner = t
    BY <1>1
  <2>2. owner' = t /\ pc'[t] = pc[t]
    BY <1>a, <2>1, OwnerStays DEF Alone
  <2> QED  BY <2>1, <2>2 DEF Owning
<1>2. CASE owner \notin Sessions
  <2>1. CASE Own(s)
    BY <1>b, <2>1 DEF Own, OwnIf, Goes, Owning
  <2>2. CASE ~ Own(s)
    <3>1. owner' = owner \/ owner' = NoSession
      BY <2>2 DEF Released, Step, ServerStep, ClientStep, EndTransaction, Call, Lock, LockIdentity,
         Insert, Restart, Delete, Look, Read, Write, WriteIf, Unlock, UnlockThen, Handler,
         HandleThen, DeadlockDetected, Savepoint, Release, RollbackTo, Rollback, Commit, Cancel,
         Terminate
    <3> QED  BY <1>2, <3>1 DEF Owning, NumberSequencesAssumption
  <2> QED  BY <2>1, <2>2
<1>3. CASE owner = s
  <2>a. pc[s] \in {"look", "read", "write", "unlock", "handler"}
    BY <1>3 DEF Owning
  <2>1. CASE Look(s) \/ Read(s) \/ Write(s)
    <3>1. pc'[s] \in {"read", "write", "unlock", "handler"} /\ owner' = owner
      BY <1>b, <2>1 DEF Look, Read, Write, WriteIf, Goes
    <3> QED  BY <1>3, <3>1 DEF Owning
  <2>2. CASE Unlock(s) \/ Handler(s) \/ Terminate(s)
    <3>1. owner' = NoSession
      BY <1>3, <2>2 DEF Unlock, UnlockThen, Handler, HandleThen, Terminate, Released
    <3> QED  BY <3>1 DEF Owning, NumberSequencesAssumption
  <2>3. CASE Cancel(s)
    <3>1. pc[s] \in {"look", "read", "write"}
      BY <2>a, <2>3 DEF Cancel, NumberSequencesAssumption
    <3>2. pc'[s] = "handler" /\ owner' = owner
      BY <1>b, <2>3, <3>1 DEF Cancel, Guarded
    <3> QED  BY <1>3, <3>2 DEF Owning
  <2>4. CASE \/ \E r \in Request : Call(s, r)
             \/ Lock(s) \/ Own(s) \/ Insert(s) \/ Delete(s) \/ Restart(s) \/ DeadlockDetected(s)
             \/ Savepoint(s) \/ Release(s) \/ (\E n \in 2..MaxLevel : RollbackTo(s, n))
             \/ Rollback(s) \/ Commit(s)
    BY <2>a, <2>4 DEF Call, Lock, LockIdentity, Own, OwnIf, Insert, Delete, Restart,
       DeadlockDetected, Deadlocked, Savepoint, Release, RollbackTo, Rollback, Commit, AtRest,
       Returns, Goes
  <2> QED  BY <2>1, <2>2, <2>3, <2>4 DEF Step, ServerStep, ClientStep, EndTransaction
<1> QED  BY <1>1, <1>2, <1>3

\* If no cancel is noticed at the unlocking statement itself, no session at rest has kept the
\* session-level lock.
THEOREM LockIsReturned == "unlock" \notin CancelPoints => (Spec => []NoLockLeft)
<1> SUFFICES ASSUME "unlock" \notin CancelPoints PROVE Spec => []NoLockLeft
  OBVIOUS
<1>1. Init => Owning
  BY NumberSequencesAssumption DEF Init, Owning, NumberSequencesAssumption
<1>2. Inv /\ Owning /\ [Next]_vars => Owning'
  <2>1. ASSUME Inv, Owning, NEW s \in Sessions, Step(s) PROVE Owning'
    BY <2>1, OwningStays, NumberSequencesAssumption
  <2>2. ASSUME Owning, UNCHANGED vars PROVE Owning'
    BY <2>2 DEF Owning, vars
  <2>3. Next => \E s \in Sessions : Step(s)
    BY DEF Next, Step
  <2> QED  BY <2>1, <2>2, <2>3
<1>3. Owning => NoLockLeft
  BY DEF Owning, NoLockLeft
<1> QED  BY <1>1, <1>2, <1>3, Invariance, PTL DEF Spec
=============================================================================
