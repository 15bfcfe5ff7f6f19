------------------------- MODULE RowVersionsProofs -------------------------
(***************************************************************************)
(* What the row-version functions guarantee for every number of sessions,   *)
(* every depth of subtransactions and every sequence of cancels and lost     *)
(* connections: no row becomes visible below a reported minimum.            *)
(*                                                                         *)
(* The argument has two halves. Within a session, every effect is covered:   *)
(* a lock with no greater value lives at no deeper level, so no rollback     *)
(* takes the announcement of a row that stays. Between sessions, the         *)
(* session-level lock keeps a version from being drawn but not yet announced *)
(* while another session reads the announcements.                           *)
(***************************************************************************)
EXTENDS RowVersions, TLAPS

\* The session-level lock excludes the other sessions from both critical sections.
Exclusive ==
    \A s \in Sessions : pc[s] \in Drawing \cup Measuring => owner = s

\* Versions are drawn inside a transaction.
InTransaction ==
    \A s \in Sessions : pc[s] \in Drawing \cup {"wait"} => level[s] > 0

\* Effects belong to open subtransactions and hold drawn versions.
LevelBound(s) == IF pc[s] = "unlock" THEN level[s] + 1 ELSE level[s]

Bounded ==
    /\ reported <= last + 1
    /\ \A s \in Sessions : \A e \in effects[s] : e.value <= last /\ e.level <= LevelBound(s)

\* Between its draw and its announcement a version is not below the minimum.
Pending ==
    \A s \in Sessions :
        /\ pc[s] = "fence" => reported <= value[s] /\ value[s] <= last
        /\ pc[s] = "unlock" =>
              [kind |-> "lock", value |-> value[s], level |-> level[s] + 1] \in effects[s]

Covers(lock, e) == lock.kind = "lock" /\ lock.value <= e.value /\ lock.level <= e.level

Covered(held) == \A e \in held : \E lock \in held : Covers(lock, e)

\* Every announcement is at or above the minimum, and there is none while the
\* minimum is taken from the sequence.
Settled ==
    /\ \A s \in Sessions : \A e \in effects[s] : e.kind = "lock" => reported <= e.value
    /\ \A s, t \in Sessions : pc[s] = "last" => \A e \in effects[t] : e.kind # "lock"

Inv ==
    /\ TypeOK
    /\ Exclusive /\ InTransaction
    /\ Bounded /\ Pending
    /\ \A s \in Sessions : Covered(effects[s])
    /\ Settled

----------------------------------------------------------------------------
(* What a rollback and a release of a subtransaction keep. *)

\* A rollback of the levels from n on leaves effects below n, and they stay covered.
LEMMA RollbackCovers ==
    ASSUME NEW held \in SUBSET Effect, NEW n \in Nat, Covered(held)
    PROVE  /\ RolledBack(held, n) \in SUBSET held
           /\ Covered(RolledBack(held, n))
           /\ \A e \in RolledBack(held, n) : e.level < n
BY DEF Effect, Covered, Covers, RolledBack

\* A release of the levels from n on moves their effects to the level below, changes
\* no version, and leaves every effect covered.
LEMMA ReleaseCovers ==
    ASSUME NEW held \in SUBSET Effect, NEW n \in Nat, n > 1, Covered(held)
    PROVE  /\ Released(held, n) \in SUBSET Effect
           /\ Covered(Released(held, n))
           /\ \A e \in Released(held, n) :
                 /\ e.level < n
                 /\ \E old \in held : old.kind = e.kind /\ old.value = e.value
                                      /\ e.level <= old.level
<1> DEFINE Moved(e) == [e EXCEPT !.level = IF @ < n THEN @ ELSE n - 1]
<1>1. \A e \in held : /\ Moved(e) \in Effect
                      /\ Moved(e).kind = e.kind /\ Moved(e).value = e.value
                      /\ Moved(e).level < n /\ Moved(e).level <= e.level
                      /\ Moved(e).level = IF e.level < n THEN e.level ELSE n - 1
  BY DEF Effect
<1>2. Released(held, n) = {Moved(e) : e \in held}
  BY DEF Released
<1> HIDE DEF Moved
<1>3. Covered(Released(held, n))
  <2> SUFFICES ASSUME NEW e \in held
               PROVE  \E lock \in held : Covers(Moved(lock), Moved(e))
    BY <1>2 DEF Covered
  <2>1. PICK lock \in held : Covers(lock, e)
    BY DEF Covered
  <2>2. lock.level <= e.level /\ lock.level \in Nat /\ e.level \in Nat
    BY <2>1 DEF Covers, Effect
  <2>3. Moved(lock).level <= Moved(e).level
    BY <1>1, <2>2
  <2> QED  BY <1>1, <2>1, <2>3 DEF Covers
<1>4. ASSUME NEW old \in held
      PROVE  /\ Moved(old).level < n
             /\ \E e \in held : e.kind = Moved(old).kind /\ e.value = Moved(old).value
                               /\ Moved(old).level <= e.level
  BY <1>1
<1> QED  BY <1>1, <1>2, <1>3, <1>4

\* A session that rolls back levels of its transaction only loses effects.
LEMMA RollbackOf ==
    ASSUME TypeOK, \A t \in Sessions : Covered(effects[t]), NEW s \in Sessions, NEW n \in Nat,
           effects' = [effects EXCEPT ![s] = RolledBack(@, n)]
    PROVE  /\ effects' \in [Sessions -> SUBSET Effect]
           /\ \A t \in Sessions : Covered(effects'[t]) /\ effects'[t] \subseteq effects[t]
           /\ \A e \in effects'[s] : e.level < n
<1>1. effects'[s] = RolledBack(effects[s], n)
      /\ \A t \in Sessions \ {s} : effects'[t] = effects[t]
  BY DEF TypeOK
<1>2. effects[s] \in SUBSET Effect
  BY DEF TypeOK
<1>3. /\ RolledBack(effects[s], n) \in SUBSET effects[s]
      /\ Covered(RolledBack(effects[s], n))
      /\ \A e \in RolledBack(effects[s], n) : e.level < n
  BY <1>2, RollbackCovers
<1>4. effects' \in [Sessions -> SUBSET Effect]
  BY <1>2, <1>3 DEF TypeOK
<1> QED  BY <1>1, <1>3, <1>4

\* A session that releases a level, and perhaps adds a row its lock covers, keeps the
\* versions of its other effects and raises no level.
LEMMA ReleaseOf ==
    ASSUME TypeOK, \A t \in Sessions : Covered(effects[t]), NEW s \in Sessions,
           NEW n \in Nat, n > 1, NEW added \in SUBSET Effect,
           \A e \in added : \E lock \in Released(effects[s], n) : Covers(lock, e),
           effects' = [effects EXCEPT ![s] = Released(@, n) \cup added]
    PROVE  /\ effects' \in [Sessions -> SUBSET Effect]
           /\ \A t \in Sessions : Covered(effects'[t])
           /\ \A t \in Sessions \ {s} : effects'[t] = effects[t]
           /\ \A e \in effects'[s] \ added :
                 /\ e.level < n
                 /\ \E old \in effects[s] : old.kind = e.kind /\ old.value = e.value
                                            /\ e.level <= old.level
<1>1. effects'[s] = Released(effects[s], n) \cup added
      /\ \A t \in Sessions \ {s} : effects'[t] = effects[t]
  BY DEF TypeOK
<1>2. effects[s] \in SUBSET Effect /\ Covered(effects[s])
  BY DEF TypeOK
<1>3. /\ Released(effects[s], n) \in SUBSET Effect
      /\ Covered(Released(effects[s], n))
      /\ \A e \in Released(effects[s], n) :
            /\ e.level < n
            /\ \E old \in effects[s] : old.kind = e.kind /\ old.value = e.value
                                       /\ e.level <= old.level
  BY <1>2, ReleaseCovers
<1>4. effects' \in [Sessions -> SUBSET Effect]
  BY <1>3 DEF TypeOK
<1>5. Covered(effects'[s])
  BY <1>1, <1>3 DEF Covered
<1> QED  BY <1>1, <1>3, <1>4, <1>5

\* A session that stops waiting leaves a queue of sessions.
LEMMA WithdrawType ==
    ASSUME TypeOK, NEW s \in Sessions, Withdraw(s) PROVE queue' \in Seq(Sessions)
<1>1. CASE UNCHANGED queue
  BY <1>1 DEF TypeOK
<1>2. ASSUME NEW i \in DOMAIN queue,
             queue' = SubSeq(queue, 1, i - 1) \o SubSeq(queue, i + 1, Len(queue))
      PROVE  queue' \in Seq(Sessions)
  <2>1. SubSeq(queue, 1, i - 1) \in Seq(Sessions) /\ SubSeq(queue, i + 1, Len(queue)) \in Seq(Sessions)
    BY DEF TypeOK
  <2> QED  BY <1>2, <2>1
<1> QED  BY <1>1, <1>2 DEF Withdraw

----------------------------------------------------------------------------
(* The invariant. *)

LEMMA InitInv == Init => Inv
<1> SUFFICES ASSUME Init PROVE Inv
  OBVIOUS
<1>1. TypeOK
  BY RowVersionsAssumption DEF Init, TypeOK, Phases, Effect
<1> QED
  BY <1>1 DEF Init, Inv, TypeOK, Exclusive, InTransaction, Bounded, Pending, Covered, Settled,
              Drawing, Measuring

----------------------------------------------------------------------------
(* Each step of a session keeps the invariant. *)

\* A first version is asked for.
LEMMA NextUnfencedInv == ASSUME Inv, NEW s \in Sessions, NextUnfenced(s) PROVE Inv'
<1> USE DEF Inv, NextUnfenced, Goes, Unlock, server, Drawing, Measuring, Waiting
<1>1. TypeOK'
  BY RowVersionsAssumption DEF TypeOK, Request, Phases
<1>2. Exclusive' /\ InTransaction'
  BY DEF TypeOK, Exclusive, InTransaction, Request
<1>3. Bounded' /\ Pending' /\ (\A t \in Sessions : Covered(effects[t])')
  BY DEF TypeOK, Effect, Bounded, LevelBound, Pending, Exclusive, Request
<1>4. Settled'
  BY DEF TypeOK, Settled, Exclusive, Request
<1> QED  BY <1>1, <1>2, <1>3, <1>4

\* A minimum is asked for.
LEMMA MinimumInv == ASSUME Inv, NEW s \in Sessions, Minimum(s) PROVE Inv'
<1> USE DEF Inv, Minimum, Goes, Unlock, server, Drawing, Measuring, Waiting
<1>1. TypeOK'
  BY RowVersionsAssumption DEF TypeOK, Request, Phases
<1>2. Exclusive' /\ InTransaction'
  BY DEF TypeOK, Exclusive, InTransaction, Request
<1>3. Bounded' /\ Pending' /\ (\A t \in Sessions : Covered(effects[t])')
  BY DEF TypeOK, Effect, Bounded, LevelBound, Pending, Exclusive, Request
<1>4. Settled'
  BY DEF TypeOK, Settled, Exclusive, Request
<1> QED  BY <1>1, <1>2, <1>3, <1>4

\* A minimum is returned.
LEMMA AnswerInv == ASSUME Inv, NEW s \in Sessions, Answer(s) PROVE Inv'
<1> USE DEF Inv, Answer, Goes, Unlock, server, Drawing, Measuring, Waiting
<1>1. TypeOK'
  BY RowVersionsAssumption DEF TypeOK, Request, Phases
<1>2. Exclusive' /\ InTransaction'
  BY DEF TypeOK, Exclusive, InTransaction, Request
<1>3. Bounded' /\ Pending' /\ (\A t \in Sessions : Covered(effects[t])')
  BY DEF TypeOK, Effect, Bounded, LevelBound, Pending, Exclusive, Request
<1>4. Settled'
  BY DEF TypeOK, Settled, Exclusive, Request
<1> QED  BY <1>1, <1>2, <1>3, <1>4

\* A transaction begins.
LEMMA BeginInv == ASSUME Inv, NEW s \in Sessions, Begin(s) PROVE Inv'
<1> USE DEF Inv, Begin, Goes, Unlock, server, Drawing, Measuring, Waiting
<1>1. TypeOK'
  BY RowVersionsAssumption DEF TypeOK, Request, Phases
<1>2. Exclusive' /\ InTransaction'
  BY DEF TypeOK, Exclusive, InTransaction, Request
<1>3. Bounded' /\ Pending' /\ (\A t \in Sessions : Covered(effects[t])')
  BY DEF TypeOK, Effect, Bounded, LevelBound, Pending, Exclusive, Request
<1>4. Settled'
  BY DEF TypeOK, Settled, Exclusive, Request
<1> QED  BY <1>1, <1>2, <1>3, <1>4

\* A subtransaction begins.
LEMMA SavepointInv == ASSUME Inv, NEW s \in Sessions, Savepoint(s) PROVE Inv'
<1> USE DEF Inv, Savepoint, Goes, Unlock, server, Drawing, Measuring, Waiting
<1>1. TypeOK'
  BY RowVersionsAssumption DEF TypeOK, Request, Phases
<1>2. Exclusive' /\ InTransaction'
  BY DEF TypeOK, Exclusive, InTransaction, Request
<1>3. Bounded' /\ Pending' /\ (\A t \in Sessions : Covered(effects[t])')
  BY DEF TypeOK, Effect, Bounded, LevelBound, Pending, Exclusive, Request
<1>4. Settled'
  BY DEF TypeOK, Settled, Exclusive, Request
<1> QED  BY <1>1, <1>2, <1>3, <1>4

\* The lock is granted to the first session that waits: no other session is inside.
LEMMA GrantedInv == ASSUME Inv, NEW s \in Sessions, Granted(s) PROVE Inv'
<1> USE DEF Inv, Granted, Goes, Drawing, Measuring, Waiting
<1>1. /\ owner = NoSession /\ owner' = s
      /\ UNCHANGED <<last, level, effects, value, visible, reported, faults>>
      /\ queue' = Tail(queue) /\ queue # <<>>
      /\ \/ pc[s] = "wait" /\ pc' = [pc EXCEPT ![s] = "draw"]
         \/ pc[s] = "await" /\ pc' = [pc EXCEPT ![s] = "scan"]
  OBVIOUS
<1>2. TypeOK'
  <2>1. Tail(queue) \in Seq(Sessions)
    BY <1>1 DEF TypeOK
  <2>2. pc' \in [Sessions -> Phases]
    BY <1>1 DEF TypeOK, Phases
  <2> QED  BY <1>1, <2>1, <2>2 DEF TypeOK
<1>3. \A t \in Sessions : pc[t] \notin Drawing \cup Measuring
  BY <1>1, RowVersionsAssumption DEF Exclusive
<1>4. Exclusive' /\ InTransaction'
  BY <1>1, <1>3 DEF TypeOK, Exclusive, InTransaction
<1>5. Bounded' /\ Pending' /\ (\A t \in Sessions : Covered(effects[t])')
  BY <1>1 DEF TypeOK, Bounded, LevelBound, Pending
<1>6. Settled'
  BY <1>1 DEF TypeOK, Settled
<1> QED  BY <1>2, <1>4, <1>5, <1>6

\* A version is drawn: it is above every other, and not below the minimum.
LEMMA DrawInv == ASSUME Inv, NEW s \in Sessions, Draw(s) PROVE Inv'
<1> USE DEF Inv, Goes, Drawing, Measuring, Waiting
<1>0. last \in Nat /\ last \in 0..MaxValue
  BY RowVersionsAssumption DEF TypeOK
<1>1. TypeOK'
  <2>1. CASE last < MaxValue
    <3>1. last' = last + 1 /\ value' = [value EXCEPT ![s] = last + 1]
      BY <2>1 DEF Draw
    <3>2. last + 1 \in 0..MaxValue /\ last + 1 \in Nat
      BY <1>0, <2>1, RowVersionsAssumption
    <3> QED  BY <3>1, <3>2, <2>1 DEF Draw, TypeOK, Phases
  <2>2. CASE ~ last < MaxValue
    BY <2>2 DEF Draw, TypeOK, Phases
  <2> QED  BY <2>1, <2>2
<1>2. Exclusive' /\ InTransaction'
  BY DEF Draw, TypeOK, Exclusive, InTransaction
<1>3. last \in Nat /\ last' \in Nat /\ last <= last'
  BY RowVersionsAssumption DEF Draw, TypeOK
<1>4. Bounded'
  <2>1. \A t \in Sessions : LevelBound(t)' = LevelBound(t)
    BY DEF Draw, TypeOK, LevelBound
  <2>2. \A t \in Sessions : \A e \in effects[t] : e.value \in Nat
    BY DEF TypeOK, Effect
  <2>3. reported <= last' + 1
    <3>1. reported \in Nat /\ reported <= last + 1
      BY DEF TypeOK, Bounded
    <3>2. \A x, y, z \in Nat : x <= y + 1 /\ y <= z => x <= z + 1
      OBVIOUS
    <3> QED  BY <1>3, <3>1, <3>2
  <2>4. \A t \in Sessions : \A e \in effects[t] : e.value <= last' /\ e.level <= LevelBound(t)
    BY <1>3, <2>2 DEF Bounded
  <2>5. UNCHANGED <<reported, effects>>
    BY DEF Draw
  <2> QED  BY <2>1, <2>3, <2>4, <2>5 DEF Bounded
<1>5. Pending'
  <2>1. CASE last < MaxValue
    <3>1. /\ pc' = [pc EXCEPT ![s] = "fence"] /\ value' = [value EXCEPT ![s] = last + 1]
          /\ last' = last + 1 /\ pc[s] = "draw" /\ UNCHANGED <<effects, level, reported>>
      BY <2>1 DEF Draw
    <3>2. \A t \in Sessions \ {s} : pc[t] # "fence"
      BY <3>1 DEF Exclusive
    <3> QED  BY <1>3, <3>1, <3>2 DEF TypeOK, Bounded, Pending
  <2>2. CASE ~ last < MaxValue
    BY <2>2 DEF Draw, TypeOK, Pending
  <2> QED  BY <2>1, <2>2
<1>6. (\A t \in Sessions : Covered(effects[t])') /\ Settled'
  BY DEF Draw, TypeOK, Settled
<1> QED  BY <1>1, <1>2, <1>4, <1>5, <1>6

\* The version is announced, and the announcement covers itself and the fence.
LEMMA FenceInv == ASSUME Inv, NEW s \in Sessions, Fence(s) PROVE Inv'
<1> DEFINE lock  == [kind |-> "lock", value |-> value[s], level |-> level[s] + 1]
           fence == [kind |-> "fence", value |-> value[s], level |-> level[s] + 1]
<1> USE DEF Inv, Fence, FenceAt, Goes, server, Drawing, Measuring, Waiting
<1>1. /\ effects' = [effects EXCEPT ![s] = @ \cup {lock, fence}]
      /\ lock \in Effect /\ fence \in Effect
      /\ effects'[s] = effects[s] \cup {lock, fence}
      /\ \A t \in Sessions \ {s} : effects'[t] = effects[t]
  BY DEF TypeOK, Effect
<1>2. TypeOK'
  BY <1>1 DEF TypeOK, Phases
<1>3. Exclusive' /\ InTransaction'
  BY DEF TypeOK, Exclusive, InTransaction
<1>4. reported <= value[s] /\ value[s] <= last
  BY DEF Pending
<1>5. /\ lock.kind = "lock" /\ lock.value = value[s] /\ lock.level = level[s] + 1
      /\ fence.kind = "fence" /\ fence.value = value[s] /\ fence.level = level[s] + 1
  OBVIOUS
<1> HIDE DEF lock, fence
<1>6. Bounded'
  <2>1. /\ LevelBound(s) = level[s] /\ LevelBound(s)' = level[s] + 1
        /\ \A t \in Sessions \ {s} : LevelBound(t)' = LevelBound(t)
    BY DEF TypeOK, LevelBound
  <2>2. level[s] \in Nat /\ (\A e \in effects[s] : e.level \in Nat)
    BY DEF TypeOK, Effect
  <2> QED  BY <1>1, <1>4, <1>5, <2>1, <2>2 DEF TypeOK, Bounded
<1>7. Pending'
  BY <1>1 DEF TypeOK, Pending, lock
<1>8. \A t \in Sessions : Covered(effects[t])'
  <2>1. Covers(lock, lock) /\ Covers(lock, fence)
    BY <1>5 DEF TypeOK, Covers
  <2> QED  BY <1>1, <2>1 DEF Covered
<1>9. Settled'
  <2>1. \A t \in Sessions : pc'[t] # "last"
    BY DEF TypeOK, Exclusive
  <2> QED  BY <1>1, <1>4, <1>5, <2>1 DEF Settled
<1> QED  BY <1>2, <1>3, <1>6, <1>7, <1>8, <1>9

\* The block ends and the row is stored: the released lock covers it.
LEMMA WriteRowInv == ASSUME Inv, NEW s \in Sessions, WriteRow(s) PROVE Inv'
<1> DEFINE lock  == [kind |-> "lock", value |-> value[s], level |-> level[s] + 1]
           row   == [kind |-> "row", value |-> value[s], level |-> level[s]]
           moved == [lock EXCEPT !.level = level[s]]
<1> USE DEF Inv, WriteRow, Unlock, Goes, Drawing, Measuring, Waiting
<1>1. lock \in effects[s] /\ level[s] \in Nat \ {0} /\ value[s] \in Nat
  BY DEF TypeOK, Pending, InTransaction
<1>2. row \in Effect /\ level[s] + 1 \in Nat /\ level[s] + 1 > 1
  BY <1>1 DEF Effect
<1>3. moved \in Released(effects[s], level[s] + 1) /\ Covers(moved, row)
  <2>1. moved = [lock EXCEPT !.level = IF @ < level[s] + 1 THEN @ ELSE (level[s] + 1) - 1]
    BY <1>1
  <2>2. moved.kind = "lock" /\ moved.value = value[s] /\ moved.level = level[s]
    OBVIOUS
  <2>3. row.value = value[s] /\ row.level = level[s]
    OBVIOUS
  <2> HIDE DEF lock, moved, row
  <2>4. moved \in Released(effects[s], level[s] + 1)
    BY <1>1, <2>1 DEF Released
  <2>5. Covers(moved, row)
    BY <1>1, <2>2, <2>3 DEF Covers
  <2> QED  BY <2>4, <2>5
<1>4. effects' = [effects EXCEPT ![s] = Released(@, level[s] + 1) \cup {row}]
  OBVIOUS
<1>5. row.kind = "row" /\ row.value = value[s] /\ row.level = level[s]
  OBVIOUS
<1> HIDE DEF lock, row, moved
<1>6. /\ effects' \in [Sessions -> SUBSET Effect]
      /\ \A t \in Sessions : Covered(effects'[t])
      /\ \A t \in Sessions \ {s} : effects'[t] = effects[t]
      /\ \A e \in effects'[s] \ {row} :
            /\ e.level < level[s] + 1
            /\ \E old \in effects[s] : old.kind = e.kind /\ old.value = e.value
                                       /\ e.level <= old.level
  <2>1. {row} \in SUBSET Effect
    BY <1>2
  <2>2. \A e \in {row} : \E held \in Released(effects[s], level[s] + 1) : Covers(held, e)
    BY <1>3
  <2>3. TypeOK /\ \A t \in Sessions : Covered(effects[t])
    OBVIOUS
  <2> QED  BY <1>2, <1>4, <2>1, <2>2, <2>3, ReleaseOf
<1>7. TypeOK'
  BY <1>6 DEF TypeOK, Phases
<1>8. Exclusive' /\ InTransaction'
  BY DEF TypeOK, Exclusive, InTransaction
<1>9. \A e \in effects[s] : e.value <= last
  BY DEF Bounded
<1>10. value[s] <= last
  <2>1. lock.value = value[s]
    BY DEF lock
  <2> QED  BY <1>1, <1>9, <2>1
<1>11. Bounded'
  <2>1. LevelBound(s)' = level[s] /\ (\A t \in Sessions \ {s} : LevelBound(t)' = LevelBound(t))
    BY DEF TypeOK, LevelBound
  <2>2. \A e \in effects'[s] : e.level \in Nat
    BY <1>6 DEF Effect
  <2>3. \A e \in effects'[s] : e.value <= last /\ e.level <= level[s]
    BY <1>1, <1>5, <1>6, <1>9, <1>10, <2>2
  <2> QED  BY <1>6, <2>1, <2>3 DEF Bounded
<1>12. Pending'
  BY <1>6 DEF TypeOK, Exclusive, Pending
<1>13. Settled'
  <2>1. \A t \in Sessions : pc'[t] # "last"
    BY DEF TypeOK, Exclusive
  <2>2. \A e \in effects'[s] : e.kind = "lock" => reported <= e.value
    BY <1>5, <1>6 DEF Settled
  <2> QED  BY <1>6, <2>1, <2>2 DEF Settled
<1> QED  BY <1>6, <1>7, <1>8, <1>11, <1>12, <1>13

\* What several steps have in common: one session loses effects and is at none of the
\* statements the invariant speaks of, and nothing else happens to the others.
LEMMA ShrinkInv ==
    ASSUME Inv, NEW s \in Sessions, TypeOK', Exclusive', InTransaction',
           UNCHANGED <<last, reported>>,
           pc'[s] \notin {"fence", "unlock", "last"},
           \A t \in Sessions \ {s} : /\ pc'[t] = pc[t] /\ effects'[t] = effects[t]
                                     /\ level'[t] = level[t] /\ value'[t] = value[t],
           \A t \in Sessions : Covered(effects'[t]) /\ effects'[t] \subseteq effects[t],
           \A e \in effects'[s] : e.level <= LevelBound(s)'
    PROVE  Inv'
<1> USE DEF Inv
<1>1. Bounded'
  <2>1. \A t \in Sessions \ {s} : LevelBound(t)' = LevelBound(t)
    BY DEF LevelBound
  <2> QED  BY <2>1 DEF Bounded
<1>2. Pending'
  BY DEF Pending
<1>3. Settled'
  BY DEF Settled
<1> QED  BY <1>1, <1>2, <1>3

\* The announcements are read: the least is the minimum, and no version is pending.
LEMMA ScanInv == ASSUME Inv, NEW s \in Sessions, Scan(s) PROVE Inv'
<1> USE DEF Inv, Scan, ScanOf, Goes, server, Drawing, Measuring, Waiting
<1>1. \A v \in Announced : v \in Nat /\ v <= last
  BY DEF TypeOK, Effect, Bounded, Announced, Of
<1>2. \A t \in Sessions : \A e \in effects[t] : e.kind = "lock" => e.value \in Announced
  BY DEF Announced, Of
<1>3. \A t \in Sessions : pc'[t] # "fence" /\ (t # s => pc'[t] # "last")
  BY DEF TypeOK, Exclusive
<1>4. UNCHANGED <<last, owner, queue, level, effects, value, visible, faults>>
  OBVIOUS
<1>5. CASE Announced = {}
  <2>1. pc' = [pc EXCEPT ![s] = "last"] /\ pc[s] = "scan" /\ reported' = reported
    BY <1>5
  <2>2. \A t \in Sessions : \A e \in effects[t] : e.kind # "lock"
    BY <1>2, <1>5
  <2> HIDE DEF Scan, ScanOf
  <2>3. TypeOK'
    BY <1>4, <2>1 DEF TypeOK, Phases
  <2>4. Exclusive' /\ InTransaction'
    BY <1>4, <2>1 DEF TypeOK, Exclusive, InTransaction
  <2>5. Bounded' /\ Pending' /\ (\A t \in Sessions : Covered(effects[t])')
    BY <1>4, <2>1 DEF TypeOK, Bounded, LevelBound, Pending
  <2>6. Settled'
    BY <1>4, <2>1, <2>2 DEF TypeOK, Settled
  <2> QED  BY <2>3, <2>4, <2>5, <2>6
<1>6. CASE Announced # {}
  <2>1. pc' = [pc EXCEPT ![s] = "answer"] /\ pc[s] = "scan"
    BY <1>6
  <2>2. reported' \in Announced /\ \A w \in Announced : reported' <= w
    BY <1>6
  <2> HIDE DEF Scan, ScanOf
  <2>3. TypeOK'
    BY <1>1, <1>4, <2>1, <2>2 DEF TypeOK, Phases
  <2>4. Exclusive' /\ InTransaction'
    BY <1>4, <2>1 DEF TypeOK, Exclusive, InTransaction
  <2>5. Bounded'
    <3>1. reported' <= last + 1
      BY <1>1, <2>2, RowVersionsAssumption DEF TypeOK
    <3>2. \A t \in Sessions : LevelBound(t)' = LevelBound(t)
      BY <1>4, <2>1 DEF TypeOK, LevelBound
    <3> QED  BY <1>4, <3>1, <3>2 DEF Bounded
  <2>6. Pending' /\ (\A t \in Sessions : Covered(effects[t])')
    BY <1>3, <1>4, <2>1 DEF TypeOK, Pending
  <2>7. Settled'
    BY <1>2, <1>3, <1>4, <2>1, <2>2 DEF TypeOK, Settled
  <2> QED  BY <2>3, <2>4, <2>5, <2>6, <2>7
<1> QED  BY <1>5, <1>6

\* Nothing was announced, nor is now: the minimum is the version drawn next.
LEMMA NothingAnnouncedInv == ASSUME Inv, NEW s \in Sessions, NothingAnnounced(s) PROVE Inv'
<1> USE DEF Inv, NothingAnnounced, Goes, server, Drawing, Measuring, Waiting
<1>1. TypeOK'
  BY RowVersionsAssumption DEF TypeOK, Phases
<1>2. Exclusive' /\ InTransaction'
  BY DEF TypeOK, Exclusive, InTransaction
<1>3. \A t \in Sessions : pc'[t] # "fence" /\ pc'[t] # "last"
  BY DEF TypeOK, Exclusive
<1>4. \A t \in Sessions : \A e \in effects[t] : e.kind # "lock"
  BY DEF Settled
<1>5. Bounded'
  BY DEF TypeOK, Bounded, LevelBound
<1>6. Pending' /\ (\A t \in Sessions : Covered(effects[t])')
  BY <1>3 DEF TypeOK, Pending
<1>7. Settled'
  BY <1>3, <1>4 DEF Settled
<1> QED  BY <1>1, <1>2, <1>5, <1>6, <1>7

\* A further version of a transaction that is fenced: the fence's lock covers the row.
LEMMA NextFencedInv == ASSUME Inv, NEW s \in Sessions, NextFenced(s) PROVE Inv'
<1> DEFINE row == [kind |-> "row", value |-> last + 1, level |-> level[s]]
<1> USE DEF Inv, NextFenced, Goes, Drawing, Measuring, Waiting
<1>1. level[s] \in Nat \ {0} /\ last \in Nat /\ last \in 0..MaxValue
  BY RowVersionsAssumption DEF TypeOK
<1>2. Exclusive' /\ InTransaction'
  BY DEF TypeOK, Exclusive, InTransaction
<1>3. UNCHANGED <<owner, queue, level, value, visible, reported, faults>>
  OBVIOUS
<1>4. CASE last < MaxValue
  <2>1. /\ pc[s] = "client" /\ pc' = [pc EXCEPT ![s] = "client"]
        /\ last' = last + 1
        /\ effects' = [effects EXCEPT ![s] = @ \cup {row}]
    BY <1>4
  <2>2. row \in Effect /\ row.kind = "row" /\ row.value = last + 1 /\ row.level = level[s]
    BY <1>1 DEF Effect
  <2>3. PICK fence \in effects[s] : fence.kind = "fence"
    BY DEF Fenced, Of
  <2>4. PICK lock \in effects[s] : Covers(lock, fence)
    BY <2>3 DEF Covered
  <2>5. /\ lock.level \in Nat /\ fence.level \in Nat
        /\ lock.value \in Nat /\ fence.value \in Nat
        /\ fence.level <= level[s] /\ lock.value <= last
    <3>1. effects[s] \in SUBSET Effect
      BY DEF TypeOK
    <3>2. LevelBound(s) = level[s]
      BY <2>1 DEF LevelBound
    <3> QED  BY <3>1, <3>2 DEF Effect, Bounded
  <2> HIDE DEF row, NextFenced
  <2>6. Covers(lock, row)
    BY <1>1, <2>2, <2>4, <2>5 DEF Covers
  <2>7. /\ effects'[s] = effects[s] \cup {row}
        /\ \A t \in Sessions \ {s} : effects'[t] = effects[t]
        /\ effects' \in [Sessions -> SUBSET Effect]
    BY <2>1, <2>2 DEF TypeOK
  <2>8. last' \in 0..MaxValue
    BY <1>1, <1>4, <2>1, RowVersionsAssumption
  <2>9. TypeOK'
    BY <1>3, <2>1, <2>7, <2>8 DEF TypeOK, Phases
  <2>10. Bounded'
    <3>1. \A t \in Sessions : LevelBound(t)' = LevelBound(t)
      BY <1>3, <2>1 DEF TypeOK, LevelBound
    <3>2. LevelBound(s) = level[s]
      BY <2>1 DEF LevelBound
    <3>3. \A t \in Sessions : \A e \in effects[t] : e.value <= last' /\ e.level <= LevelBound(t)
      BY <1>1, <2>1 DEF TypeOK, Effect, Bounded
    <3>4. reported' <= last' + 1
      BY <1>1, <1>3, <2>1 DEF TypeOK, Bounded
    <3>5. row.value <= last' /\ row.level <= level[s]
      BY <1>1, <2>1, <2>2
    <3> QED  BY <2>7, <3>1, <3>2, <3>3, <3>4, <3>5 DEF Bounded
  <2>11. Pending'
    <3>1. \A t \in Sessions : pc'[t] \in {"fence", "unlock"} => t # s /\ pc[t] = pc'[t]
      BY <2>1 DEF TypeOK
    <3>2. \A t \in Sessions : value[t] \in Nat
      BY DEF TypeOK
    <3> QED  BY <1>1, <1>3, <2>1, <2>7, <3>1, <3>2 DEF Pending
  <2>12. \A t \in Sessions : Covered(effects[t])'
    BY <2>6, <2>7 DEF Covered
  <2>13. Settled'
    <3>1. \A t, u \in Sessions : pc'[t] = "last" => pc[t] = "last"
      BY <2>1 DEF TypeOK
    <3>2. row.kind # "lock"
      BY <2>2
    <3> QED  BY <1>3, <2>7, <3>1, <3>2 DEF Settled
  <2> QED  BY <1>2, <2>9, <2>10, <2>11, <2>12, <2>13
<1>5. CASE ~ last < MaxValue
  <2>1. /\ pc[s] = "client" /\ pc' = [pc EXCEPT ![s] = "failed"] /\ last' = last
        /\ effects' = [effects EXCEPT ![s] = RolledBack(@, level[s])]
    BY <1>5
  <2>2. /\ effects' \in [Sessions -> SUBSET Effect]
        /\ \A t \in Sessions : Covered(effects'[t]) /\ effects'[t] \subseteq effects[t]
    BY <1>1, <2>1, RollbackOf
  <2>3. TypeOK'
    BY <1>3, <2>1, <2>2 DEF TypeOK, Phases
  <2>4. \A t \in Sessions : LevelBound(t)' = LevelBound(t)
    BY <1>3, <2>1 DEF TypeOK, LevelBound
  <2>5. \A t \in Sessions \ {s} : pc'[t] = pc[t] /\ effects'[t] = effects[t]
    BY <2>1 DEF TypeOK
  <2>6. pc'[s] = "failed"
    BY <2>1 DEF TypeOK
  <2>7. \A e \in effects'[s] : e.level <= LevelBound(s)'
    BY <2>2, <2>4 DEF Bounded
  <2> QED  BY <1>2, <1>3, <2>1, <2>2, <2>3, <2>5, <2>6, <2>7, ShrinkInv
<1> QED  BY <1>4, <1>5

\* Any failed call ends in its handler, which unlocks and fails the statement.
LEMMA HandlerInv == ASSUME Inv, NEW s \in Sessions, Handler(s) PROVE Inv'
<1> USE DEF Inv, Handler, HandleThen, Goes, Drawing, Measuring, Waiting
<1>1. /\ pc[s] = "handler" /\ pc' \in [Sessions -> Phases]
      /\ pc'[s] \in {"client", "failed"} /\ \A t \in Sessions \ {s} : pc'[t] = pc[t]
      /\ value'[s] = 0 /\ \A t \in Sessions \ {s} : value'[t] = value[t]
      /\ value' \in [Sessions -> Nat]
      /\ UNCHANGED <<last, queue, level, visible, reported, faults>>
      /\ effects' = [effects EXCEPT ![s] = RolledBack(@, level[s])]
      /\ owner' \in {owner, NoSession} /\ (owner # s => owner' = owner)
  BY DEF TypeOK, Phases
<1>2. level[s] \in Nat
  BY DEF TypeOK
<1>3. /\ effects' \in [Sessions -> SUBSET Effect]
      /\ \A t \in Sessions : Covered(effects'[t]) /\ effects'[t] \subseteq effects[t]
  BY <1>1, <1>2, RollbackOf
<1>4. TypeOK'
  BY <1>1, <1>3 DEF TypeOK
<1>5. Exclusive' /\ InTransaction'
  BY <1>1 DEF TypeOK, Exclusive, InTransaction
<1>6. \A t \in Sessions \ {s} : effects'[t] = effects[t]
  BY <1>1 DEF TypeOK
<1>7. LevelBound(s)' = LevelBound(s)
  BY <1>1 DEF LevelBound
<1>8. \A e \in effects'[s] : e.level <= LevelBound(s)'
  BY <1>3, <1>7 DEF Bounded
<1> QED  BY <1>1, <1>3, <1>4, <1>5, <1>6, <1>8, ShrinkInv

\* A cancelled call loses what its block did.
LEMMA CancelInv == ASSUME Inv, NEW s \in Sessions, Cancel(s) PROVE Inv'
<1> USE DEF Inv, Cancel, Drawing, Measuring, Waiting
<1>1. /\ pc' = [pc EXCEPT ![s] = "handler"] /\ Withdraw(s) /\ faults' = faults + 1
      /\ effects' = [effects EXCEPT ![s] = RolledBack(@, level[s] + 1)]
      /\ UNCHANGED <<last, owner, level, value, visible, reported>>
  OBVIOUS
<1>2. level[s] \in Nat /\ level[s] + 1 \in Nat
  BY DEF TypeOK
<1>3. /\ effects' \in [Sessions -> SUBSET Effect]
      /\ \A t \in Sessions : Covered(effects'[t]) /\ effects'[t] \subseteq effects[t]
      /\ \A e \in effects'[s] : e.level < level[s] + 1
  BY <1>1, <1>2, RollbackOf
<1>4. queue' \in Seq(Sessions)
  BY <1>1, WithdrawType
<1>5. TypeOK'
  BY <1>1, <1>3, <1>4 DEF TypeOK, Phases
<1>6. Exclusive' /\ InTransaction'
  BY <1>1 DEF TypeOK, Exclusive, InTransaction
<1>7. pc'[s] = "handler" /\ \A t \in Sessions \ {s} : pc'[t] = pc[t] /\ effects'[t] = effects[t]
  BY <1>1 DEF TypeOK
<1>8. \A e \in effects'[s] : e.level <= LevelBound(s)'
  <2>1. LevelBound(s)' = level[s] /\ \A e \in effects'[s] : e.level \in Nat
    BY <1>1, <1>3, <1>7 DEF LevelBound, Effect
  <2> QED  BY <1>2, <1>3, <2>1
<1> QED  BY <1>1, <1>3, <1>5, <1>6, <1>7, <1>8, ShrinkInv

\* A session that ends releases all it held.
LEMMA TerminateInv == ASSUME Inv, NEW s \in Sessions, Terminate(s) PROVE Inv'
<1> USE DEF Inv, Terminate, Drawing, Measuring, Waiting
<1>1. queue' \in Seq(Sessions)
  BY WithdrawType
<1>2. TypeOK'
  BY <1>1 DEF TypeOK, Phases
<1>3. Exclusive' /\ InTransaction'
  BY DEF TypeOK, Exclusive, InTransaction
<1>4. /\ pc'[s] = "client" /\ effects'[s] = {}
      /\ \A t \in Sessions \ {s} : /\ pc'[t] = pc[t] /\ effects'[t] = effects[t]
                                   /\ level'[t] = level[t] /\ value'[t] = value[t]
  BY DEF TypeOK
<1>5. \A t \in Sessions : Covered(effects'[t]) /\ effects'[t] \subseteq effects[t]
  BY <1>4 DEF Covered
<1> QED  BY <1>2, <1>3, <1>4, <1>5, ShrinkInv

\* A subtransaction ends: its effects move down a level and stay covered.
LEMMA ReleaseSavepointInv == ASSUME Inv, NEW s \in Sessions, ReleaseSavepoint(s) PROVE Inv'
<1> USE DEF Inv, ReleaseSavepoint, Goes, server, Drawing, Measuring, Waiting
<1>1. /\ level[s] \in Nat /\ level[s] > 1
      /\ level' = [level EXCEPT ![s] = @ - 1]
      /\ pc[s] = "client" /\ pc' = pc
      /\ UNCHANGED <<last, owner, queue, value, visible, reported, faults>>
  BY DEF TypeOK
<1>2. effects' = [effects EXCEPT ![s] = Released(@, level[s]) \cup {}]
  OBVIOUS
<1>3. /\ effects' \in [Sessions -> SUBSET Effect]
      /\ \A t \in Sessions : Covered(effects'[t])
      /\ \A t \in Sessions \ {s} : effects'[t] = effects[t]
      /\ \A e \in effects'[s] :
            /\ e.level < level[s]
            /\ \E old \in effects[s] : old.kind = e.kind /\ old.value = e.value
                                       /\ e.level <= old.level
  <2>1. TypeOK /\ (\A t \in Sessions : Covered(effects[t])) /\ {} \in SUBSET Effect
    OBVIOUS
  <2>2. /\ effects' \in [Sessions -> SUBSET Effect]
        /\ \A t \in Sessions : Covered(effects'[t])
        /\ \A t \in Sessions \ {s} : effects'[t] = effects[t]
        /\ \A e \in effects'[s] \ {} :
              /\ e.level < level[s]
              /\ \E old \in effects[s] : old.kind = e.kind /\ old.value = e.value
                                         /\ e.level <= old.level
    <3> HIDE DEF Inv, ReleaseSavepoint
    <3> QED  BY <1>1, <1>2, <2>1, ReleaseOf, Zenon
  <2> QED  BY <2>2
<1>4. TypeOK'
  <2>1. level' \in [Sessions -> Nat]
    BY <1>1 DEF TypeOK
  <2> QED  BY <1>1, <1>3, <2>1 DEF TypeOK
<1>5. Exclusive' /\ InTransaction'
  BY <1>1 DEF TypeOK, Exclusive, InTransaction
<1>6. Bounded'
  <2>1. LevelBound(s)' = level[s] - 1 /\ (\A t \in Sessions \ {s} : LevelBound(t)' = LevelBound(t))
    BY <1>1 DEF TypeOK, LevelBound
  <2>2. \A e \in effects'[s] : e.level \in Nat
    BY <1>3 DEF Effect
  <2>3. \A e \in effects'[s] : e.level <= level[s] - 1
    BY <1>1, <1>3, <2>2
  <2>4. \A e \in effects'[s] : e.value <= last
    BY <1>3 DEF Bounded
  <2> QED  BY <1>1, <1>3, <2>1, <2>3, <2>4 DEF Bounded
<1>7. Pending'
  BY <1>1, <1>3 DEF TypeOK, Pending
<1>8. Settled'
  BY <1>1, <1>3 DEF Settled
<1> QED  BY <1>3, <1>4, <1>5, <1>6, <1>7, <1>8

\* ROLLBACK TO takes what the subtransactions from n on did.
LEMMA RollbackToInv ==
    ASSUME Inv, NEW s \in Sessions, NEW n \in 2..MaxLevel, RollbackTo(s, n) PROVE Inv'
<1> USE DEF Inv, RollbackTo, Goes, server
<1>1. /\ n \in Nat
      /\ effects' = [effects EXCEPT ![s] = RolledBack(@, n)]
      /\ level' = [level EXCEPT ![s] = n]
      /\ UNCHANGED <<last, owner, queue, value, visible, reported, faults>>
      /\ pc' = [pc EXCEPT ![s] = "client"]
  BY RowVersionsAssumption
<1>2. /\ effects' \in [Sessions -> SUBSET Effect]
      /\ \A t \in Sessions : Covered(effects'[t]) /\ effects'[t] \subseteq effects[t]
      /\ \A e \in effects'[s] : e.level < n
  BY <1>1, RollbackOf
<1>3. TypeOK'
  BY <1>1, <1>2 DEF TypeOK, Phases
<1>4. Exclusive' /\ InTransaction'
  BY <1>1 DEF TypeOK, Exclusive, InTransaction, Drawing, Measuring
<1>5. /\ pc'[s] = "client"
      /\ \A t \in Sessions \ {s} : /\ pc'[t] = pc[t] /\ effects'[t] = effects[t]
                                   /\ level'[t] = level[t]
  BY <1>1 DEF TypeOK
<1>6. \A e \in effects'[s] : e.level <= LevelBound(s)'
  <2>1. LevelBound(s)' = n /\ \A e \in effects'[s] : e.level \in Nat
    BY <1>1, <1>2, <1>5 DEF TypeOK, LevelBound, Effect
  <2> QED  BY <1>1, <1>2, <2>1
<1> QED  BY <1>1, <1>2, <1>3, <1>4, <1>5, <1>6, ShrinkInv

\* ROLLBACK, and the end of COMMIT, leave nothing of the transaction.
LEMMA EmptiedInv ==
    ASSUME Inv, NEW s \in Sessions, pc' = [pc EXCEPT ![s] = "client"],
           effects' = [effects EXCEPT ![s] = {}], level' = [level EXCEPT ![s] = 0],
           UNCHANGED <<server, value, visible, reported, faults>>
    PROVE  Inv'
<1> USE DEF Inv, server
<1>1. TypeOK'
  BY DEF TypeOK, Phases
<1>2. Exclusive' /\ InTransaction'
  BY DEF TypeOK, Exclusive, InTransaction, Drawing, Measuring
<1>3. /\ pc'[s] = "client" /\ effects'[s] = {}
      /\ \A t \in Sessions \ {s} : /\ pc'[t] = pc[t] /\ effects'[t] = effects[t]
                                   /\ level'[t] = level[t]
  BY DEF TypeOK
<1>4. \A t \in Sessions : Covered(effects'[t]) /\ effects'[t] \subseteq effects[t]
  BY <1>3 DEF Covered
<1> QED  BY <1>1, <1>2, <1>3, <1>4, ShrinkInv

\* COMMIT makes the rows of the transaction visible and keeps its locks for the moment.
LEMMA CommitInv == ASSUME Inv, NEW s \in Sessions, Commit(s) PROVE Inv'
<1> USE DEF Inv, Commit, Goes, server
<1>1. visible' \in SUBSET Nat
  <2>1. \A e \in Of("row", s) : e.value \in Nat
    BY DEF TypeOK, Of, Effect
  <2> QED  BY <2>1 DEF TypeOK
<1>2. TypeOK'
  BY <1>1 DEF TypeOK, Phases
<1>3. Exclusive' /\ InTransaction'
  BY DEF TypeOK, Exclusive, InTransaction, Drawing, Measuring
<1>4. /\ pc'[s] = "commit" /\ pc[s] = "client"
      /\ \A t \in Sessions \ {s} : pc'[t] = pc[t]
  BY DEF TypeOK
<1>5. \A e \in effects[s] : e.level <= LevelBound(s)'
  BY <1>4 DEF Bounded, LevelBound
<1> QED  BY <1>2, <1>3, <1>4, <1>5, ShrinkInv

----------------------------------------------------------------------------
(* The invariant holds of the specification, and the properties follow from it. *)

\* Every step of every session keeps the invariant.
LEMMA NextInv == Inv /\ [Next]_vars => Inv'
<1> SUFFICES ASSUME Inv, [Next]_vars PROVE Inv'
  OBVIOUS
<1>1. CASE UNCHANGED vars
  BY <1>1 DEF vars, server, Inv, TypeOK, Exclusive, InTransaction, Bounded, LevelBound, Pending,
              Settled
<1>2. ASSUME NEW s \in Sessions, ServerStep(s) PROVE Inv'
  <2>1. CASE CommitReleases(s)
    BY <2>1, EmptiedInv DEF CommitReleases, Goes
  <2> QED
    BY <1>2, <2>1, GrantedInv, DrawInv, FenceInv, WriteRowInv, ScanInv, NothingAnnouncedInv,
       AnswerInv, HandlerInv DEF ServerStep
<1>3. ASSUME NEW s \in Sessions, ClientStep(s) PROVE Inv'
  <2>1. CASE Rollback(s)
    BY <2>1, EmptiedInv DEF Rollback, Goes
  <2> QED
    BY <1>3, <2>1, NextFencedInv, NextUnfencedInv, MinimumInv, BeginInv, SavepointInv,
       ReleaseSavepointInv, CommitInv, RollbackToInv DEF ClientStep
<1>4. ASSUME NEW s \in Sessions, FaultStep(s) PROVE Inv'
  BY <1>4, CancelInv, TerminateInv DEF FaultStep
<1> QED  BY <1>1, <1>2, <1>3, <1>4 DEF Next

\* The invariant holds throughout.
THEOREM Invariance == Spec => []Inv
BY InitInv, NextInv, PTL DEF Spec

\* The variables keep their types.
THEOREM TypeCorrect == Spec => []TypeOK
<1>1. Inv => TypeOK
  BY DEF Inv
<1> QED  BY <1>1, Invariance, PTL

\* No ROLLBACK TO, cancel or release leaves a row that its transaction does not announce.
THEOREM RowsStayAnnounced == Spec => []RowsAreAnnounced
<1>1. Inv => RowsAreAnnounced
  BY DEF Inv, Covered, Covers, RowsAreAnnounced, Of
<1> QED  BY <1>1, Invariance, PTL

\* What minimum_rowversion_v1 reports is settled: whatever commits later, and in
\* whatever order, no row with a smaller version becomes visible.
THEOREM MinimumIsSettled == Spec => NoRowAppearsBelow
<1>1. Inv /\ [Next]_vars => [\A v \in visible' \ visible : v >= reported]_vars
  <2> SUFFICES ASSUME Inv, Next, NEW v \in visible' \ visible PROVE v >= reported
    OBVIOUS
  <2>1. PICK s \in Sessions : Commit(s)
    BY DEF Next, ServerStep, ClientStep, FaultStep, Granted, Draw, Fence, FenceAt, WriteRow, Scan,
           ScanOf, NothingAnnounced, Answer, Handler, HandleThen, CommitReleases, NextFenced,
           NextUnfenced, Minimum, Begin, Savepoint, ReleaseSavepoint, Rollback, RollbackTo, Cancel,
           Terminate
  <2>2. PICK row \in effects[s] : row.value = v
    BY <2>1 DEF Commit, Of
  <2>3. PICK lock \in effects[s] : Covers(lock, row)
    BY DEF Inv, Covered
  <2>4. reported <= lock.value /\ lock.value <= row.value
    BY <2>3 DEF Inv, Settled, Covers
  <2>5. reported \in Nat /\ lock.value \in Nat /\ row.value \in Nat
    BY DEF Inv, TypeOK, Effect
  <2> QED  BY <2>2, <2>4, <2>5
<1> QED  BY <1>1, Invariance, PTL DEF Spec, NoRowAppearsBelow

\* The minimum that is reported never falls.
THEOREM MinimumIsMonotone == Spec => MinimumNeverFalls
<1>1. Inv /\ [Next]_vars => [reported' >= reported]_vars
  <2> SUFFICES ASSUME Inv, Next PROVE reported' >= reported
    OBVIOUS
  <2>1. reported \in Nat /\ last \in Nat
    BY RowVersionsAssumption DEF Inv, TypeOK
  <2>2. CASE reported' = reported
    BY <2>1, <2>2
  <2>3. ASSUME NEW s \in Sessions, Scan(s), reported' # reported PROVE reported' >= reported
    <3>1. reported' \in Announced
      BY <2>3 DEF Scan, ScanOf
    <3>2. PICK t \in Sessions : \E e \in effects[t] : e.kind = "lock" /\ e.value = reported'
      BY <3>1 DEF Announced, Of
    <3>3. reported <= reported' /\ reported' \in Nat
      BY <3>2 DEF Inv, Settled, TypeOK, Effect
    <3> QED  BY <2>1, <3>3
  <2>4. ASSUME NEW s \in Sessions, NothingAnnounced(s) PROVE reported' >= reported
    BY <2>1, <2>4 DEF NothingAnnounced, Inv, Bounded
  <2> QED
    BY <2>2, <2>3, <2>4
       DEF Next, ServerStep, ClientStep, FaultStep, Granted, Draw, Fence, FenceAt, WriteRow, Answer,
           Handler, HandleThen, CommitReleases, NextFenced, NextUnfenced, Minimum, Begin,
           Savepoint, ReleaseSavepoint, Rollback, Commit, RollbackTo, Cancel, Terminate
<1> QED  BY <1>1, Invariance, PTL DEF Spec, MinimumNeverFalls
=============================================================================
