------------------------ MODULE ClientSessionsProofs ------------------------
(***************************************************************************)
(* What the sessions of a user guarantee for every number of requests,     *)
(* sessions, deadlines, AL commits and changes of the account, and for     *)
(* statements that fail anywhere.                                          *)
(*                                                                         *)
(* Everything rests on row locks. A request that has locked its session in *)
(* share mode is the only one that may have written it, so what it checked *)
(* is still true when it commits; two requests never write the same        *)
(* session, so what one has written is later than what everybody sees; and *)
(* whoever holds the user's row is the only one who adds sessions, so what *)
(* it counted can only have become less.                                   *)
(***************************************************************************)
EXTENDS ClientSessions, FiniteSetTheorems, TLAPS

\* The statements between the check of a commit and the commit.
Committing == {"lockUser", "lockRows", "renew", "recheck", "commit"}

\* The statements of a call.
Calling == {"start", "run", "refuse"} \cup Committing

\* The requests that may be at a statement.
Placed(r) ==
    /\ pc[r] = "begin" => kind[r] # "command"
    /\ pc[r] = "admit" => kind[r] \in {"signin", "rotate"}
    /\ pc[r] \in {"count", "insert"} => kind[r] = "signin"
    /\ pc[r] = "replace" => kind[r] = "rotate"
    /\ pc[r] = "revoke" => kind[r] = "logout"
    /\ pc[r] = "renewOpen" => kind[r] = "open"
    /\ pc[r] = "keep" => kind[r] # "command"
    /\ pc[r] \in Calling => kind[r] \in {"open", "command"}
    /\ pc[r] # "idle" /\ kind[r] # "signin" => browser[r] \in Browsers
    /\ pc[r] \in {"renew", "recheck"} => goal[r] = "end"

\* The commits a call has made.
Counted(r) ==
    /\ pc[r] \notin {"done", "failed"} => durable[r] <= MaxPauses
    /\ pc[r] \in Committing /\ goal[r] = "pause" => durable[r] < MaxPauses

\* Rows are written in the last statement before a request that ends is kept or refused.
Written(r) ==
    /\ pc[r] \notin {"keep", "recheck", "commit", "refuse"} => DOMAIN pending[r] = {}
    /\ pc[r] \in {"commit", "refuse"} /\ goal[r] = "pause" => DOMAIN pending[r] = {}

\* What a rotation has written, while nobody else can write it.
Rotated(r) ==
    LET old == browser[r]
    IN  pc[r] = "keep" /\ kind[r] = "rotate" =>
            \E x \in Browsers \ {old} :
                /\ DOMAIN pending[r] = {old, x}
                /\ ~ session[old].revoked
                /\ pending[r][old].revoked /\ pending[r][old] # NoRow
                /\ session[x] = NoRow /\ ~ pending[r][x].revoked
                /\ pending[r][x].ends <= session[old].ends

Paths == \A r \in Requests : Placed(r) /\ Counted(r) /\ Written(r)

\* The locks a request holds at a statement.
Holds(r) ==
    /\ pc[r] \notin Calling \cup {"lockRows"} => r \notin userS /\ r \notin rowS
    /\ pc[r] \in {"start", "lockUser"} => r \notin userS /\ r \notin rowS
    /\ pc[r] = "run" /\ ~ cancelled[r] => r \notin userS /\ r \notin rowS
    /\ pc[r] = "lockRows" => r \notin rowS
    /\ pc[r] \in {"lockRows", "renew", "recheck", "commit"} => r \in userS /\ account
    /\ pc[r] \in {"renew", "recheck", "commit"} => r \in rowS
    /\ pc[r] \in Committing => ~ cancelled[r]
    /\ userX = r <=> \/ pc[r] \in {"count", "insert", "replace"}
                     \/ pc[r] = "keep" /\ kind[r] \in {"signin", "rotate"}

Holding == \A r \in Requests : Holds(r)

\* Whoever has locked the session and the credential has locked what is not revoked.
SharedAreValid ==
    \A r \in rowS : source /\ browser[r] \in Browsers /\ ~ session[browser[r]].revoked

\* A session is written by one request, and by none other than the one that has locked it.
Exclusive ==
    /\ \A q, r \in Requests : \A b \in DOMAIN pending[q] : b \in DOMAIN pending[r] => q = r
    /\ \A q \in Requests, r \in rowS : browser[r] \in DOMAIN pending[q] => q = r

\* What is written is later than what is committed, and nobody renews into the future.
Later(old, new) ==
    /\ old.revoked => new.revoked
    /\ new.ends = old.ends /\ old.idle <= new.idle

Advancing ==
    /\ \A b \in Browsers : session[b].idle <= now + Idle
    /\ \A r \in Requests : \A b \in DOMAIN pending[r] :
          /\ pending[r][b].idle <= now + Idle
          /\ session[b] # NoRow => Later(session[b], pending[r][b])

Rotations == \A r \in Requests : Rotated(r)

\* What was replaced was revoked.
Replaced ==
    \A b \in Browsers : heir[b] # None => session[b].revoked /\ session[b] # NoRow

Inv ==
    /\ TypeOK /\ Paths /\ Holding /\ SharedAreValid /\ Exclusive /\ Advancing /\ Rotations
    /\ Replaced

----------------------------------------------------------------------------
(* Rows. *)

\* The least of two numbers, and of three.
LEMMA LeastOfTwo ==
    ASSUME NEW a \in Nat, NEW b \in Nat
    PROVE  /\ Least({a, b}) \in {a, b}
           /\ Least({a, b}) <= a /\ Least({a, b}) <= b
<1>1. \E n \in {a, b} : \A m \in {a, b} : n <= m
  <2>1. CASE a <= b
    BY <2>1
  <2>2. CASE b <= a
    BY <2>2
  <2> QED  BY <2>1, <2>2
<1> QED  BY <1>1 DEF Least

LEMMA LeastOfThree ==
    ASSUME NEW a \in Nat, NEW b \in Nat, NEW c \in Nat
    PROVE  /\ Least({a, b, c}) \in {a, b, c}
           /\ Least({a, b, c}) <= a /\ Least({a, b, c}) <= b /\ Least({a, b, c}) <= c
<1>1. \E n \in {a, b, c} : \A m \in {a, b, c} : n <= m
  <2>1. CASE a <= b /\ a <= c
    BY <2>1
  <2>2. CASE b <= a /\ b <= c
    BY <2>2
  <2>3. CASE c <= a /\ c <= b
    BY <2>3
  <2> QED  BY <2>1, <2>2, <2>3
<1> QED  BY <1>1 DEF Least

\* The deadlines a row may have.
LEMMA RowParts ==
    ASSUME SessionAssumption, NEW row \in Row
    PROVE  /\ row.revoked \in BOOLEAN /\ row.idle \in Nat /\ row.ends \in Nat
           /\ row.idle <= row.ends /\ row.ends <= SourceEnds
BY DEF Row

LEMMA NoRowIsRow == ASSUME SessionAssumption PROVE NoRow \in Row /\ NoRow.revoked
BY DEF SessionAssumption, NoRow, Row

\* A session is issued with a deadline no later than those of its credential.
LEMMA Issued ==
    ASSUME SessionAssumption, now \in Nat
    PROVE  /\ IssuedRow \in Row /\ ~ IssuedRow.revoked
           /\ IssuedRow.idle <= now + Idle
<1> DEFINE i == Least({SourceEnds, now + Idle})
           e == Least({SourceEnds, now + Lifetime})
<1>1. SourceEnds \in Nat /\ Idle \in Nat /\ Lifetime \in Nat /\ Idle <= Lifetime
  BY DEF SessionAssumption
<1>2. now + Idle \in Nat /\ now + Lifetime \in Nat /\ now + Idle <= now + Lifetime
  BY <1>1
<1>3. i \in Nat /\ i <= SourceEnds /\ i <= now + Idle
  BY <1>1, <1>2, LeastOfTwo
<1>4. e \in {SourceEnds, now + Lifetime} /\ e <= SourceEnds
  BY <1>1, <1>2, LeastOfTwo
<1>5. e \in Nat /\ i <= e
  BY <1>1, <1>2, <1>3, <1>4
<1>6. IssuedRow = [revoked |-> FALSE, idle |-> i, ends |-> e]
  BY DEF IssuedRow
<1> HIDE DEF i, e
<1> QED  BY <1>3, <1>4, <1>5, <1>6 DEF Row

\* A rotated session ends no later than the one it replaces.
LEMMA RotatedIs ==
    ASSUME SessionAssumption, now \in Nat, NEW old \in Row
    PROVE  /\ RotatedRow(old) \in Row /\ ~ RotatedRow(old).revoked
           /\ RotatedRow(old).idle <= now + Idle /\ RotatedRow(old).ends <= old.ends
<1> DEFINE i == Least({old.ends, SourceEnds, now + Idle})
           e == Least({old.ends, SourceEnds})
<1>1. SourceEnds \in Nat /\ Idle \in Nat /\ old.ends \in Nat
  BY RowParts DEF SessionAssumption
<1>2. now + Idle \in Nat
  BY <1>1
<1>3. i \in Nat /\ i <= SourceEnds /\ i <= now + Idle /\ i <= old.ends
  BY <1>1, <1>2, LeastOfThree
<1>4. e \in {old.ends, SourceEnds} /\ e <= SourceEnds /\ e <= old.ends
  BY <1>1, <1>2, LeastOfTwo
<1>5. e \in Nat /\ i <= e
  BY <1>1, <1>2, <1>3, <1>4
<1>6. RotatedRow(old) = [revoked |-> FALSE, idle |-> i, ends |-> e]
  BY DEF RotatedRow
<1> HIDE DEF i, e
<1> QED  BY <1>3, <1>4, <1>5, <1>6 DEF Row

\* A renewal moves the idle deadline, never back, and nothing else.
LEMMA RenewedIs ==
    ASSUME SessionAssumption, now \in Nat, NEW old \in Row
    PROVE  /\ RenewedRow(old) \in Row
           /\ RenewedRow(old).revoked = old.revoked /\ RenewedRow(old).ends = old.ends
           /\ RenewedRow(old).idle <= now + Idle
           /\ old.idle <= now + Idle => old.idle <= RenewedRow(old).idle
<1> DEFINE i == Least({old.ends, SourceEnds, now + Idle})
<1>1. SourceEnds \in Nat /\ Idle \in Nat
  BY DEF SessionAssumption
<1>0. /\ old.ends \in Nat /\ old.idle \in Nat /\ old.idle <= old.ends
      /\ old.ends <= SourceEnds
  BY RowParts
<1>2. now + Idle \in Nat
  BY <1>1
<1>3. i \in {old.ends, SourceEnds, now + Idle} /\ i <= SourceEnds /\ i <= now + Idle
      /\ i <= old.ends
  BY <1>0, <1>1, <1>2, LeastOfThree
<1>5. i \in Nat /\ (old.idle <= now + Idle => old.idle <= i)
  BY <1>0, <1>1, <1>2, <1>3
<1>6. RenewedRow(old) = [old EXCEPT !.idle = i]
  BY DEF RenewedRow
<1> HIDE DEF i
<1> QED  BY <1>0, <1>3, <1>5, <1>6 DEF Row

LEMMA RevokedIs ==
    ASSUME SessionAssumption, NEW old \in Row
    PROVE  /\ RevokedRow(old) \in Row /\ RevokedRow(old).revoked
           /\ RevokedRow(old).ends = old.ends /\ RevokedRow(old).idle = old.idle
BY DEF RevokedRow, Row
----------------------------------------------------------------------------
(* Types. *)

\* The pending rows stay rows when a request writes rows.
LEMMA PendingTyped ==
    ASSUME TypeOK, NEW r \in Requests, NEW written, Writes(r, written),
           DOMAIN written \subseteq Browsers,
           \A b \in DOMAIN written : written[b] \in Row
    PROVE  /\ DOMAIN pending' = Requests
           /\ \A q \in Requests : /\ DOMAIN pending'[q] \subseteq Browsers
                                  /\ \A b \in DOMAIN pending'[q] : pending'[q][b] \in Row
BY DEF TypeOK, Writes

LEMMA NothingTyped == DOMAIN NoWrites = {}
BY DEF NoWrites

LEMMA FailsTyped ==
    ASSUME TypeOK, NEW r \in Requests, Fails(r)
    PROVE  TypeOK'
<1>1. pc' \in [Requests -> Places]
  BY DEF TypeOK, Fails, Goes, Places
<1>2. /\ DOMAIN pending' = Requests
      /\ \A q \in Requests : /\ DOMAIN pending'[q] \subseteq Browsers
                             /\ \A b \in DOMAIN pending'[q] : pending'[q][b] \in Row
  BY PendingTyped, NothingTyped DEF Fails
<1>3. userX' \in Requests \cup {None} /\ userS' \subseteq Requests /\ rowS' \subseteq Requests
  BY DEF TypeOK, Fails, Unlock
<1> QED  BY <1>1, <1>2, <1>3 DEF TypeOK, Fails, rows, Row

\* What is published are rows.
LEMMA PublishTyped ==
    ASSUME TypeOK, Rotations, NEW r \in Requests, Publish(r), pc[r] \in {"keep", "commit"},
           Placed(r), pc' \in [Requests -> Places], durable' \in [Requests -> 0..MaxPauses + 1]
    PROVE  TypeOK'
<1>1. \A b \in Browsers : Sees(r, b) \in Row
  BY DEF TypeOK, Sees
<1>2. session' \in [Browsers -> Row]
  BY <1>1 DEF Publish
<1>3. heir' \in [Browsers -> Browsers \cup {None}]
  <2>1. CASE kind[r] = "rotate"
    <3>1. PICK x \in Browsers \ {browser[r]} : DOMAIN pending[r] = {browser[r], x}
      BY <2>1 DEF Rotations, Rotated, Placed, Calling, Committing
    <3>2. (CHOOSE y \in DOMAIN pending[r] : y # browser[r]) \in Browsers
      BY <3>1
    <3> QED  BY <3>2 DEF Publish, TypeOK
  <2>2. CASE kind[r] # "rotate"
    BY <2>2 DEF Publish, TypeOK
  <2> QED  BY <2>1, <2>2
<1>4. revived' \subseteq Browsers
  BY DEF Publish, TypeOK
<1>5. /\ DOMAIN pending' = Requests
      /\ \A q \in Requests : /\ DOMAIN pending'[q] \subseteq Browsers
                             /\ \A b \in DOMAIN pending'[q] : pending'[q][b] \in Row
  BY PendingTyped, NothingTyped DEF Publish
<1>6. userX' \in Requests \cup {None} /\ userS' \subseteq Requests /\ rowS' \subseteq Requests
  BY DEF TypeOK, Publish, Unlock
<1> QED  BY <1>2, <1>3, <1>4, <1>5, <1>6 DEF TypeOK, Publish, Row

\* The variables an action leaves alone keep their types, whatever the statement it goes to.
LEMMA QuietTyped ==
    ASSUME TypeOK, NEW r \in Requests, NEW place \in Places, Goes(r, place),
           UNCHANGED <<now, rows, kind, browser, pending, durable>>,
           goal' \in [Requests -> {"pause", "end"}], cancelled' \in [Requests -> BOOLEAN],
           userX' \in Requests \cup {None}, userS' \subseteq Requests, rowS' \subseteq Requests
    PROVE  TypeOK'
<1>1. pc' \in [Requests -> Places]
  BY DEF TypeOK, Goes
<1> QED  BY <1>1 DEF TypeOK, rows, Row

\* Nor does a request that writes rows.
LEMMA WritesTyped ==
    ASSUME TypeOK, NEW r \in Requests, NEW place \in Places, Goes(r, place),
           NEW written, Writes(r, written), DOMAIN written \subseteq Browsers,
           \A b \in DOMAIN written : written[b] \in Row,
           UNCHANGED <<now, rows, kind, browser, goal, cancelled, locks, durable>>
    PROVE  TypeOK'
<1>1. pc' \in [Requests -> Places]
  BY DEF TypeOK, Goes
<1>2. /\ DOMAIN pending' = Requests
      /\ \A q \in Requests : /\ DOMAIN pending'[q] \subseteq Browsers
                             /\ \A b \in DOMAIN pending'[q] : pending'[q][b] \in Row
  BY PendingTyped
<1> QED  BY <1>1, <1>2 DEF TypeOK, rows, locks, Row

LEMMA TypesKept ==
    ASSUME SessionAssumption, Inv, [Next]_vars
    PROVE  TypeOK'
<1> USE DEF Inv
<1>a. now \in Nat /\ goal \in [Requests -> {"pause", "end"}]
      /\ cancelled \in [Requests -> BOOLEAN]
      /\ userX \in Requests \cup {None} /\ userS \subseteq Requests /\ rowS \subseteq Requests
  BY DEF TypeOK
<1>1. ASSUME NEW r \in Requests, NEW k \in Kinds, NEW b \in Browsers \cup {None}, Arrive(r, k, b)
      PROVE  TypeOK'
  <2>1. pc' \in [Requests -> Places] /\ kind' \in [Requests -> Kinds]
        /\ browser' \in [Requests -> Browsers \cup {None}]
    BY <1>1 DEF TypeOK, Arrive, Goes, Places
  <2> QED  BY <1>1, <2>1 DEF TypeOK, Arrive, rows, locks, Row
<1>2. ASSUME NEW r \in Requests, Begin(r)
      PROVE  TypeOK'
  <2>1. CASE Fails(r)
    BY <2>1, FailsTyped
  <2>2. CASE ~ Fails(r)
    <3>1. kind[r] \in Kinds \ {"command"}
      BY <1>2 DEF TypeOK, Paths, Placed, Begin
    <3>2. FirstStatement(kind[r]) \in Places
      BY <3>1 DEF FirstStatement, Kinds, Places, Waits
    <3> QED  BY <1>a, <1>2, <2>2, <3>2, QuietTyped DEF Begin, locks
  <2> QED  BY <2>1, <2>2
<1>3. ASSUME NEW r \in Requests, Admit(r)
      PROVE  TypeOK'
  BY <1>a, <1>3, QuietTyped DEF Admit, locks, Places, Waits
<1>4. ASSUME NEW r \in Requests, Count(r)
      PROVE  TypeOK'
  BY <1>a, <1>4, QuietTyped, FailsTyped DEF Count, locks, Places, Waits
<1>5. ASSUME NEW r \in Requests, Insert(r)
      PROVE  TypeOK'
  <2>1. CASE Fails(r)
    BY <2>1, FailsTyped
  <2>2. CASE ~ Fails(r)
    <3>1. PICK b \in Browsers : Writes(r, [x \in {b} |-> IssuedRow])
      BY <1>5, <2>2 DEF Insert
    <3>2. DOMAIN [x \in {b} |-> IssuedRow] \subseteq Browsers
          /\ \A x \in {b} : [y \in {b} |-> IssuedRow][x] \in Row
      BY <1>a, Issued
    <3> QED  BY <1>5, <2>2, <3>1, <3>2, WritesTyped DEF Insert, Places
  <2> QED  BY <2>1, <2>2
<1>6. ASSUME NEW r \in Requests, Replace(r)
      PROVE  TypeOK'
  <2>1. CASE Fails(r)
    BY <2>1, FailsTyped
  <2>2. CASE ~ Fails(r)
    <3> DEFINE old == browser[r]
               W(b) == [x \in {old, b} |-> IF x = old THEN RevokedRow(session[old])
                                           ELSE RotatedRow(session[old])]
    <3>1. old \in Browsers /\ session[old] \in Row
      BY <1>6 DEF TypeOK, Paths, Placed, Replace
    <3>2. PICK b \in Browsers : Writes(r, W(b))
      BY <1>6, <2>2 DEF Replace
    <3>3. DOMAIN W(b) \subseteq Browsers /\ \A x \in DOMAIN W(b) : W(b)[x] \in Row
      BY <1>a, <3>1, RotatedIs, RevokedIs
    <3>4. Goes(r, "keep") /\ UNCHANGED <<now, rows, kind, browser, goal, cancelled, locks, durable>>
      BY <1>6, <2>2 DEF Replace
    <3> HIDE DEF W
    <3> QED  BY <3>2, <3>3, <3>4, WritesTyped DEF Places
  <2> QED  BY <2>1, <2>2
<1>7. ASSUME NEW r \in Requests, Revoke(r)
      PROVE  TypeOK'
  <2> DEFINE b == browser[r]
             w == [x \in {b} |-> RevokedRow(session[b])]
  <2>1. b \in Browsers /\ session[b] \in Row
    BY <1>7 DEF TypeOK, Paths, Placed, Revoke
  <2>2. DOMAIN w \subseteq Browsers /\ \A x \in DOMAIN w : w[x] \in Row
    BY <2>1, RevokedIs
  <2>3. /\ Goes(r, "keep")
        /\ UNCHANGED <<now, rows, kind, browser, goal, cancelled, locks, durable>>
        /\ Writes(r, w) \/ UNCHANGED pending
    BY <1>7 DEF Revoke
  <2> HIDE DEF w
  <2> QED  BY <1>a, <2>2, <2>3, WritesTyped, QuietTyped DEF Places, locks
<1>8. ASSUME NEW r \in Requests, Renew(r)
      PROVE  TypeOK'
  <2> DEFINE b == browser[r]
             w == [x \in {b} |-> RenewedRow(session[b])]
             place == IF pc[r] = "renew" THEN "recheck" ELSE "keep"
  <2>1. b \in Browsers /\ session[b] \in Row
    BY <1>8 DEF TypeOK, Paths, Placed, Calling, Committing, Renew
  <2>2. DOMAIN w \subseteq Browsers /\ \A x \in DOMAIN w : w[x] \in Row
    BY <1>a, <2>1, RenewedIs
  <2>3. /\ Goes(r, place) /\ place \in Places
        /\ UNCHANGED <<now, rows, kind, browser, goal, cancelled, locks, durable>>
        /\ Writes(r, w) \/ UNCHANGED pending
    BY <1>8 DEF Renew, Places
  <2> HIDE DEF w, place
  <2> QED  BY <1>a, <2>2, <2>3, WritesTyped, QuietTyped DEF locks
<1>9. ASSUME NEW r \in Requests, Keep(r)
      PROVE  TypeOK'
  <2>1. pc' \in [Requests -> Places] /\ durable' \in [Requests -> 0..MaxPauses + 1]
    BY <1>9 DEF Keep, TypeOK, Goes, Places
  <2> QED  BY <1>9, <2>1, PublishTyped DEF Keep, Paths
<1>10. ASSUME NEW r \in Requests, Start(r)
       PROVE  TypeOK'
  BY <1>a, <1>10, QuietTyped DEF Start, locks, Places
<1>11. ASSUME NEW r \in Requests, Refuse(r)
       PROVE  TypeOK'
  <2>1. cancelled' \in [Requests -> BOOLEAN]
    BY <1>a, <1>11 DEF Refuse
  <2>2. CASE Goes(r, "run") /\ UNCHANGED <<now, rows, kind, browser, goal, pending, locks, durable>>
    BY <1>a, <2>1, <2>2, QuietTyped DEF locks, Places
  <2>3. CASE Goes(r, "failed") /\ Writes(r, NoWrites) /\ Unlock(r)
             /\ UNCHANGED <<now, rows, kind, browser, goal, durable>>
    <3>1. pc' \in [Requests -> Places]
      BY <2>3 DEF TypeOK, Goes, Places
    <3>2. /\ DOMAIN pending' = Requests
          /\ \A q \in Requests : /\ DOMAIN pending'[q] \subseteq Browsers
                                 /\ \A b \in DOMAIN pending'[q] : pending'[q][b] \in Row
      BY <2>3, PendingTyped, NothingTyped
    <3>3. userX' \in Requests \cup {None} /\ userS' \subseteq Requests /\ rowS' \subseteq Requests
      BY <2>3 DEF TypeOK, Unlock
    <3> QED  BY <2>1, <2>3, <3>1, <3>2, <3>3 DEF TypeOK, rows, Row
  <2> QED  BY <1>11, <2>2, <2>3 DEF Refuse
<1>12. ASSUME NEW r \in Requests, Ask(r)
       PROVE  TypeOK'
  <2>1. goal' \in [Requests -> {"pause", "end"}]
    BY <1>a, <1>12 DEF Ask
  <2> QED  BY <1>a, <1>12, <2>1, QuietTyped DEF Ask, locks, Places
<1>13. ASSUME NEW r \in Requests, NEW g \in {"pause", "end"}, Checkpoint(r, g)
       PROVE  TypeOK'
  <2>1. goal' \in [Requests -> {"pause", "end"}]
    BY <1>a, <1>13 DEF Checkpoint
  <2>2. Following(r) \in Places
    BY <1>13 DEF Checkpoint, Following, Places, Waits
  <2> QED  BY <1>a, <1>13, <2>1, <2>2, QuietTyped DEF Checkpoint, locks, Places
<1>14. ASSUME NEW r \in Requests, LockUser(r)
       PROVE  TypeOK'
  <2>1. Following(r) \in Places
    BY <1>14 DEF LockUser, Following, Places, Waits
  <2> QED  BY <1>a, <1>14, <2>1, QuietTyped DEF LockUser, locks, Places
<1>15. ASSUME NEW r \in Requests, LockRows(r)
       PROVE  TypeOK'
  <2>1. Following(r) \in Places
    BY <1>15 DEF LockRows, Following, Places, Waits
  <2> QED  BY <1>a, <1>15, <2>1, QuietTyped DEF LockRows, locks, Places
<1>16. ASSUME NEW r \in Requests, Recheck(r)
       PROVE  TypeOK'
  BY <1>a, <1>16, QuietTyped DEF Recheck, locks, Places
<1>17. ASSUME NEW r \in Requests, Commit(r)
       PROVE  TypeOK'
  <2>1. pc' \in [Requests -> Places]
    BY <1>17 DEF Commit, TypeOK, Goes, Places
  <2>2. durable[r] \in Nat /\ durable[r] <= MaxPauses /\ MaxPauses \in Nat
    BY <1>17 DEF Commit, TypeOK, Paths, Counted, SessionAssumption
  <2>3. durable' \in [Requests -> 0..MaxPauses + 1]
    BY <1>17, <2>2 DEF Commit, TypeOK
  <2> QED  BY <1>17, <2>1, <2>3, PublishTyped DEF Commit, Paths
<1>18. ASSUME NEW r \in Requests, Lose(r) \/ Victim(r)
       PROVE  TypeOK'
  BY <1>18, FailsTyped DEF Lose, Victim
<1>19. CASE ChangeAccount \/ RevokeSource
  <2>1. changes' \in 0..MaxChanges
    BY <1>19 DEF TypeOK, ChangeAccount, RevokeSource, SessionAssumption
  <2>2. account' \in BOOLEAN /\ source' \in BOOLEAN
    BY <1>19 DEF TypeOK, ChangeAccount, RevokeSource
  <2>3. UNCHANGED <<now, session, heir, revived, kind, browser, pc, goal, cancelled, pending,
                    locks, durable>>
    BY <1>19 DEF ChangeAccount, RevokeSource
  <2> QED  BY <2>1, <2>2, <2>3 DEF TypeOK, locks, Row
<1>21. CASE Tick
  <2>1. now' \in 0..MaxTime
    BY <1>21 DEF TypeOK, Tick, SessionAssumption
  <2> QED  BY <1>21, <2>1 DEF TypeOK, Tick, rows, locks, Row
<1>20. CASE UNCHANGED vars
  BY <1>20 DEF TypeOK, vars, rows, locks, Row
<1> QED
  BY <1>1, <1>2, <1>3, <1>4, <1>5, <1>6, <1>7, <1>8, <1>9, <1>10, <1>11, <1>12, <1>13, <1>14,
     <1>15, <1>16, <1>17, <1>18, <1>19, <1>20, <1>21 DEF Next, Step

----------------------------------------------------------------------------
(* Requests at their statements. *)

\* A step of a request.
Acts(r) ==
    \/ \E k \in Kinds, b \in Browsers \cup {None} : Arrive(r, k, b)
    \/ Step(r)
    \/ Ask(r) \/ Checkpoint(r, "pause") \/ Checkpoint(r, "end") \/ Lose(r) \/ Victim(r)

\* What a step of request r leaves alone.
Apart(r) ==
    /\ UNCHANGED <<now, account, source>>
    /\ \A q \in Requests \ {r} :
          /\ pc'[q] = pc[q] /\ kind'[q] = kind[q] /\ browser'[q] = browser[q]
          /\ goal'[q] = goal[q] /\ cancelled'[q] = cancelled[q]
          /\ pending'[q] = pending[q] /\ durable'[q] = durable[q]
          /\ (userX' = q) <=> (userX = q)
          /\ (q \in userS') <=> (q \in userS)
          /\ (q \in rowS') <=> (q \in rowS)

LEMMA FailsApart ==
    ASSUME SessionAssumption, TypeOK, NEW r \in Requests, Fails(r)
    PROVE  Apart(r)
BY DEF SessionAssumption, TypeOK, Fails, Goes, Writes, Unlock, rows, Apart

LEMMA ActsApart ==
    ASSUME SessionAssumption, TypeOK, NEW r \in Requests, Acts(r)
    PROVE  Apart(r)
<1> USE DEF TypeOK, Goes, Apart
<1>1. ASSUME NEW k \in Kinds, NEW b \in Browsers \cup {None}, Arrive(r, k, b)
      PROVE  Apart(r)
  BY <1>1 DEF Arrive, rows, locks
<1>2. CASE Begin(r)
  BY <1>2, FailsApart DEF Begin, rows, locks
<1>3. CASE Admit(r)
  <2>1. WaitsFor(r) = ({userX} \cup userS) \ {r, None}
    BY <1>3 DEF Admit, WaitsFor
  <2>2. userX \in {r, None}
    BY <1>3, <2>1 DEF Admit, Granted
  <2> QED  BY <1>3, <2>2 DEF SessionAssumption, Admit, rows
<1>4. CASE Count(r)
  BY <1>4, FailsApart DEF Count, rows, locks
<1>5. CASE Insert(r)
  BY <1>5, FailsApart DEF Insert, Writes, rows, locks
<1>6. CASE Replace(r)
  BY <1>6, FailsApart DEF Replace, Writes, rows, locks
<1>7. CASE Revoke(r)
  BY <1>7 DEF Revoke, Writes, rows, locks
<1>8. CASE Renew(r)
  BY <1>8 DEF Renew, Writes, rows, locks
<1>9. CASE Keep(r)
  BY <1>9 DEF SessionAssumption, Keep, Publish, Writes, Unlock
<1>10. CASE Start(r)
  BY <1>10 DEF Start, rows, locks
<1>11. CASE Refuse(r)
  BY <1>11 DEF SessionAssumption, Refuse, Writes, Unlock, rows, locks
<1>12. CASE Ask(r)
  BY <1>12 DEF Ask, rows, locks
<1>13. ASSUME NEW g \in {"pause", "end"}, Checkpoint(r, g)
       PROVE  Apart(r)
  BY <1>13 DEF Checkpoint, rows, locks
<1>14. CASE LockUser(r)
  BY <1>14 DEF LockUser, rows
<1>15. CASE LockRows(r)
  BY <1>15 DEF LockRows, rows
<1>16. CASE Recheck(r)
  BY <1>16 DEF Recheck, rows, locks
<1>17. CASE Commit(r)
  BY <1>17 DEF SessionAssumption, Commit, Publish, Writes, Unlock
<1>18. CASE Lose(r) \/ Victim(r)
  BY <1>18, FailsApart DEF Lose, Victim
<1> QED
  BY <1>1, <1>2, <1>3, <1>4, <1>5, <1>6, <1>7, <1>8, <1>9, <1>10, <1>11, <1>12, <1>13, <1>14,
     <1>15, <1>16, <1>17, <1>18 DEF Acts, Step

\* A step is one of a request, of an operator or of the clock.
LEMMA Steps ==
    ASSUME [Next]_vars
    PROVE  \/ \E r \in Requests : Acts(r)
           \/ ChangeAccount \/ RevokeSource \/ Tick \/ UNCHANGED vars
BY DEF Next, Acts

\* Who waits is at one of the statements that do.
LEMMA VictimWaits ==
    ASSUME NEW r \in Requests, Victim(r)
    PROVE  pc[r] \in Waits
<1>1. WaitsFor(r) # {}
  BY DEF Victim, Deadlocked
<1> QED  BY <1>1 DEF WaitsFor, Waits

\* The path of request r after its own step.
LEMMA PathKept ==
    ASSUME SessionAssumption, Inv, NEW r \in Requests, Acts(r)
    PROVE  Placed(r)' /\ Counted(r)' /\ Written(r)'
<1>a. Placed(r) /\ Counted(r) /\ Written(r) /\ TypeOK
  BY DEF Inv, Paths
<1>b. MaxPauses \in Nat /\ durable[r] \in Nat
  BY <1>a DEF SessionAssumption, TypeOK
<1> USE DEF TypeOK, Goes, Placed, Counted, Written, Calling, Committing
<1>0. CASE Fails(r) /\ pc[r] # "idle"
  BY <1>a, <1>b, <1>0, NothingTyped DEF Fails, Writes, rows
<1>1. ASSUME NEW k \in Kinds, NEW b \in Browsers \cup {None}, Arrive(r, k, b)
      PROVE  Placed(r)' /\ Counted(r)' /\ Written(r)'
  BY <1>a, <1>b, <1>1 DEF Arrive, rows, Kinds
<1>2. CASE Begin(r)
  BY <1>a, <1>b, <1>0, <1>2 DEF Begin, FirstStatement, rows, Kinds
<1>3. CASE Admit(r)
  BY <1>a, <1>b, <1>3 DEF Admit, rows
<1>4. CASE Count(r)
  BY <1>a, <1>b, <1>0, <1>4 DEF Count, rows
<1>5. CASE Insert(r)
  BY <1>a, <1>b, <1>0, <1>5 DEF Insert, rows
<1>6. CASE Replace(r)
  BY <1>a, <1>b, <1>0, <1>6 DEF Replace, rows
<1>7. CASE Revoke(r)
  BY <1>a, <1>b, <1>7 DEF Revoke, rows
<1>8. CASE Renew(r)
  BY <1>a, <1>b, <1>8 DEF Renew, rows
<1>9. CASE Keep(r)
  BY <1>a, <1>b, <1>9, NothingTyped DEF Keep, Publish, Writes, Kinds
<1>10. CASE Start(r)
  BY <1>a, <1>b, <1>10 DEF Start, rows
<1>11. CASE Refuse(r)
  BY <1>a, <1>b, <1>11, NothingTyped DEF Refuse, Writes, rows
<1>12. CASE Ask(r)
  BY <1>a, <1>b, <1>12 DEF Ask, rows
<1>13. ASSUME NEW g \in {"pause", "end"}, Checkpoint(r, g)
       PROVE  Placed(r)' /\ Counted(r)' /\ Written(r)'
  BY <1>a, <1>b, <1>13 DEF Checkpoint, Following, rows
<1>14. CASE LockUser(r)
  BY <1>a, <1>b, <1>14 DEF LockUser, Following, rows
<1>15. CASE LockRows(r)
  BY <1>a, <1>b, <1>15 DEF LockRows, Following, rows
<1>16. CASE Recheck(r)
  BY <1>a, <1>b, <1>16 DEF Recheck, rows
<1>17. CASE Commit(r)
  BY <1>a, <1>b, <1>17, NothingTyped DEF Commit, Publish, Writes
<1>18. CASE Lose(r) \/ Victim(r)
  BY <1>0, <1>18, VictimWaits DEF Lose, Victim, Waits
<1> QED
  BY <1>1, <1>2, <1>3, <1>4, <1>5, <1>6, <1>7, <1>8, <1>9, <1>10, <1>11, <1>12, <1>13, <1>14,
     <1>15, <1>16, <1>17, <1>18 DEF Acts, Step

LEMMA PathsKept ==
    ASSUME SessionAssumption, Inv, [Next]_vars
    PROVE  Paths'
<1>1. ASSUME NEW r \in Requests, Acts(r)
      PROVE  Paths'
  <2>1. ASSUME NEW q \in Requests
        PROVE  Placed(q)' /\ Counted(q)' /\ Written(q)'
    <3>1. CASE q = r
      BY <1>1, <3>1, PathKept
    <3>2. CASE q # r
      BY <1>1, <3>2, ActsApart DEF Apart, Inv, Paths, Placed, Counted, Written
    <3> QED  BY <3>1, <3>2
  <2> QED  BY <2>1 DEF Paths
<1>2. CASE ChangeAccount \/ RevokeSource \/ Tick \/ UNCHANGED vars
  BY <1>2 DEF Inv, Paths, Placed, Counted, Written, ChangeAccount, RevokeSource, Tick, vars,
              rows, locks
<1> QED  BY <1>1, <1>2, Steps

----------------------------------------------------------------------------
(* Locks. *)

\* The locks of request r after its own step.
LEMMA HoldKept ==
    ASSUME SessionAssumption, Inv, NEW r \in Requests, Acts(r)
    PROVE  Holds(r)'
<1>a. Placed(r) /\ Holds(r) /\ TypeOK /\ r # None
  BY DEF Inv, Paths, Holding, SessionAssumption
<1> USE DEF TypeOK, Goes, Placed, Holds, Calling, Committing
<1>0. CASE Fails(r)
  BY <1>a, <1>0 DEF Fails, Unlock, rows
<1>1. ASSUME NEW k \in Kinds, NEW b \in Browsers \cup {None}, Arrive(r, k, b)
      PROVE  Holds(r)'
  BY <1>a, <1>1 DEF Arrive, rows, locks
<1>2. CASE Begin(r)
  <2>1. FirstStatement(kind[r]) \in {"admit", "revoke", "renewOpen"}
    BY <1>a, <1>2 DEF Begin, FirstStatement, Kinds
  <2> QED  BY <1>a, <1>0, <1>2, <2>1 DEF Begin, rows, locks
<1>3. CASE Admit(r)
  BY <1>a, <1>3 DEF Admit, rows
<1>4. CASE Count(r)
  BY <1>a, <1>0, <1>4 DEF Count, rows, locks
<1>5. CASE Insert(r)
  BY <1>a, <1>0, <1>5 DEF Insert, rows, locks
<1>6. CASE Replace(r)
  BY <1>a, <1>0, <1>6 DEF Replace, rows, locks
<1>7. CASE Revoke(r)
  BY <1>a, <1>7 DEF Revoke, rows, locks
<1>8. CASE Renew(r)
  BY <1>a, <1>8 DEF Renew, rows, locks
<1>9. CASE Keep(r)
  BY <1>a, <1>9 DEF Keep, Publish, Unlock
<1>10. CASE Start(r)
  BY <1>a, <1>10 DEF Start, rows, locks
<1>11. CASE Refuse(r)
  BY <1>a, <1>11 DEF Refuse, Unlock, rows, locks
<1>12. CASE Ask(r)
  BY <1>a, <1>12 DEF Ask, rows, locks
<1>13. ASSUME NEW g \in {"pause", "end"}, Checkpoint(r, g)
       PROVE  Holds(r)'
  BY <1>a, <1>13 DEF Checkpoint, Following, Allowed, rows, locks
<1>14. CASE LockUser(r)
  BY <1>a, <1>14 DEF LockUser, Following, rows
<1>15. CASE LockRows(r)
  BY <1>a, <1>15 DEF LockRows, Following, rows
<1>16. CASE Recheck(r)
  BY <1>a, <1>16 DEF Recheck, rows, locks
<1>17. CASE Commit(r)
  BY <1>a, <1>17 DEF Commit, Publish, Unlock
<1>18. CASE Lose(r) \/ Victim(r)
  BY <1>0, <1>18 DEF Lose, Victim
<1> QED
  BY <1>1, <1>2, <1>3, <1>4, <1>5, <1>6, <1>7, <1>8, <1>9, <1>10, <1>11, <1>12, <1>13, <1>14,
     <1>15, <1>16, <1>17, <1>18 DEF Acts, Step

LEMMA HoldingKept ==
    ASSUME SessionAssumption, Inv, [Next]_vars
    PROVE  Holding'
<1>1. ASSUME NEW r \in Requests, Acts(r)
      PROVE  Holding'
  <2>1. ASSUME NEW q \in Requests
        PROVE  Holds(q)'
    <3>1. CASE q = r
      BY <1>1, <3>1, HoldKept
    <3>2. CASE q # r
      BY <1>1, <3>2, ActsApart DEF Apart, Inv, Holding, Holds
    <3> QED  BY <3>1, <3>2
  <2> QED  BY <2>1 DEF Holding
<1>2. CASE ChangeAccount
  BY <1>2 DEF Inv, Holding, Holds, ChangeAccount, locks
<1>3. CASE RevokeSource \/ Tick \/ UNCHANGED vars
  BY <1>3 DEF Inv, Holding, Holds, RevokeSource, Tick, vars, rows, locks
<1> QED  BY <1>1, <1>2, <1>3, Steps

----------------------------------------------------------------------------
(* Rows that are written and rows that are committed. *)

Committed == <<session, heir, revived>>

\* A sign-in writes a session nobody has.
WritesFresh(r) ==
    \E b \in Browsers :
        /\ Fresh(b) /\ DOMAIN pending'[r] = {b}
        /\ pending'[r][b].idle <= now + Idle

\* A rotation revokes a session nobody else writes, and writes one nobody has.
WritesHeir(r) ==
    LET old == browser[r]
    IN  /\ old \in Browsers /\ Writers(r, old) = {} /\ Sharers(r, old) = {}
        /\ Live(session[old])
        /\ \E b \in Browsers \ {old} :
              /\ Fresh(b) /\ DOMAIN pending'[r] = {old, b}
              /\ pending'[r][old].revoked /\ Later(session[old], pending'[r][old])
              /\ ~ pending'[r][b].revoked /\ pending'[r][b].ends <= session[old].ends
              /\ pending'[r][old].idle <= now + Idle /\ pending'[r][b].idle <= now + Idle

\* A renewal or a revocation writes its own session.
WritesOwn(r) ==
    LET b == browser[r]
    IN  /\ b \in Browsers /\ Writers(r, b) = {} /\ Sharers(r, b) = {}
        /\ DOMAIN pending'[r] = {b} /\ Later(session[b], pending'[r][b])
        /\ pending'[r][b].idle <= now + Idle
        /\ pending'[r][b].revoked \/ Live(session[b])

\* What a step of request r does to rows.
Effect(r) ==
    \/ /\ UNCHANGED Committed
       /\ \/ pending'[r] = pending[r]
          \/ DOMAIN pending'[r] = {}
          \/ pc[r] = "insert" /\ WritesFresh(r)
          \/ pc[r] = "replace" /\ WritesHeir(r)
          \/ pc[r] \in {"revoke", "renewOpen", "renew"} /\ WritesOwn(r)
    \/ pc[r] \in {"keep", "commit"} /\ Publish(r)

LEMMA FailsEffect ==
    ASSUME TypeOK, NEW r \in Requests, Fails(r)
    PROVE  Effect(r)
BY NothingTyped DEF TypeOK, Fails, Writes, rows, Effect, Committed

LEMMA Effects ==
    ASSUME SessionAssumption, Inv, NEW r \in Requests, Acts(r)
    PROVE  Effect(r)
<1>a. TypeOK /\ Placed(r) /\ now \in Nat /\ Idle \in Nat
      /\ \A b \in Browsers : session[b] \in Row /\ session[b].idle <= now + Idle
  BY DEF Inv, Paths, TypeOK, Advancing, SessionAssumption
<1> USE DEF Effect, Committed
<1>1. ASSUME NEW k \in Kinds, NEW b \in Browsers \cup {None}, Arrive(r, k, b)
      PROVE  Effect(r)
  BY <1>1 DEF Arrive, rows
<1>2. CASE Begin(r) \/ Admit(r) \/ Count(r)
  BY <1>2, <1>a, FailsEffect DEF Begin, Admit, Count, rows
<1>5. CASE Insert(r)
  <2>1. CASE Fails(r)
    BY <1>a, <2>1, FailsEffect
  <2>2. CASE ~ Fails(r)
    <3>1. PICK b \in Browsers : Fresh(b) /\ Writes(r, [x \in {b} |-> IssuedRow])
      BY <1>5, <2>2 DEF Insert
    <3>2. pending'[r] = [x \in {b} |-> IssuedRow]
      BY <1>a, <3>1 DEF TypeOK, Writes
    <3>3. WritesFresh(r)
      BY <1>a, <3>1, <3>2, Issued DEF WritesFresh
    <3> QED  BY <1>5, <2>2, <3>3 DEF Insert, rows
  <2> QED  BY <2>1, <2>2
<1>6. CASE Replace(r)
  <2>1. CASE Fails(r)
    BY <1>a, <2>1, FailsEffect
  <2>2. CASE ~ Fails(r)
    <3> DEFINE old == browser[r]
               W(b) == [x \in {old, b} |-> IF x = old THEN RevokedRow(session[old])
                                           ELSE RotatedRow(session[old])]
    <3>1. old \in Browsers /\ session[old] \in Row /\ Live(session[old])
      BY <1>6, <1>a, <2>2 DEF Placed, Replace
    <3>2. PICK b \in Browsers : Fresh(b) /\ Writes(r, W(b))
      BY <1>6, <2>2 DEF Replace
    <3>3. pending'[r] = W(b)
      BY <1>a, <3>2 DEF TypeOK, Writes
    <3>4. b # old
      BY <3>1, <3>2 DEF Fresh, Live, NoRow
    <3>5. /\ DOMAIN W(b) = {old, b} /\ W(b)[old] = RevokedRow(session[old])
          /\ W(b)[b] = RotatedRow(session[old])
      BY <3>4
    <3>6. Writers(r, old) = {} /\ Sharers(r, old) = {}
      BY <1>6 DEF Replace, Granted, WaitsFor
    <3>7. Later(session[old], RevokedRow(session[old]))
      BY <3>1, RevokedIs, RowParts DEF Later
    <3> HIDE DEF W
    <3>8. WritesHeir(r)
      BY <1>a, <3>1, <3>2, <3>3, <3>4, <3>5, <3>6, <3>7, RevokedIs, RotatedIs DEF WritesHeir
    <3> QED  BY <1>6, <2>2, <3>8 DEF Replace, rows
  <2> QED  BY <2>1, <2>2
<1>7. CASE Revoke(r)
  <2> DEFINE b == browser[r]
             w == [x \in {b} |-> RevokedRow(session[b])]
  <2>1. CASE UNCHANGED pending
    BY <1>7, <2>1 DEF Revoke, rows
  <2>2. CASE Writes(r, w)
    <3>1. b \in Browsers /\ session[b] \in Row
      BY <1>a, <1>7 DEF Placed, Revoke
    <3>2. pending'[r] = w
      BY <1>a, <2>2 DEF TypeOK, Writes
    <3>3. DOMAIN w = {b} /\ w[b] = RevokedRow(session[b])
      OBVIOUS
    <3>4. Writers(r, b) = {} /\ Sharers(r, b) = {}
      BY <1>7 DEF Revoke, Granted, WaitsFor
    <3>5. Later(session[b], RevokedRow(session[b]))
      BY <3>1, RevokedIs, RowParts DEF Later
    <3> HIDE DEF w
    <3>6. WritesOwn(r)
      BY <1>a, <3>1, <3>2, <3>3, <3>4, <3>5, RevokedIs DEF WritesOwn
    <3> QED  BY <1>7, <3>6 DEF Revoke, rows
  <2> QED  BY <1>7, <2>1, <2>2 DEF Revoke
<1>8. CASE Renew(r)
  <2> DEFINE b == browser[r]
             w == [x \in {b} |-> RenewedRow(session[b])]
  <2>1. CASE UNCHANGED pending
    BY <1>8, <2>1 DEF Renew, rows
  <2>2. CASE Live(session[b]) /\ Writes(r, w)
    <3>1. b \in Browsers /\ session[b] \in Row
      BY <1>a, <1>8 DEF Placed, Renew, Calling, Committing
    <3>2. pending'[r] = w
      BY <1>a, <2>2 DEF TypeOK, Writes
    <3>3. DOMAIN w = {b} /\ w[b] = RenewedRow(session[b])
      OBVIOUS
    <3>4. Writers(r, b) = {} /\ Sharers(r, b) = {}
      BY <1>8 DEF Renew, Granted, WaitsFor
    <3>5. Later(session[b], RenewedRow(session[b]))
      BY <1>a, <3>1, RenewedIs DEF Later
    <3> HIDE DEF w
    <3>6. WritesOwn(r)
      BY <1>a, <2>2, <3>1, <3>2, <3>3, <3>4, <3>5, RenewedIs DEF WritesOwn
    <3> QED  BY <1>8, <3>6 DEF Renew, rows
  <2> QED  BY <1>8, <2>1, <2>2 DEF Renew
<1>9. CASE Keep(r) \/ Commit(r)
  BY <1>9 DEF Keep, Commit
<1>10. CASE Start(r) \/ Ask(r) \/ LockUser(r) \/ LockRows(r) \/ Recheck(r)
  BY <1>10 DEF Start, Ask, LockUser, LockRows, Recheck, rows
<1>11. CASE Refuse(r)
  BY <1>a, <1>11, NothingTyped DEF TypeOK, Refuse, Writes, rows
<1>13. ASSUME NEW g \in {"pause", "end"}, Checkpoint(r, g)
       PROVE  Effect(r)
  BY <1>13 DEF Checkpoint, rows
<1>18. CASE Lose(r) \/ Victim(r)
  BY <1>a, <1>18, FailsEffect DEF Lose, Victim
<1> QED
  BY <1>1, <1>2, <1>5, <1>6, <1>7, <1>8, <1>9, <1>10, <1>11, <1>13, <1>18 DEF Acts, Step

----------------------------------------------------------------------------
(* What is shared stays valid, and what is written stays one request's. *)

\* A request that shares its session has done so before, or found it live and not written.
LEMMA Shares ==
    ASSUME SessionAssumption, Inv, NEW r \in Requests, Acts(r), r \in rowS'
    PROVE  /\ browser'[r] = browser[r]
           /\ \/ r \in rowS
              \/ /\ browser[r] \in Browsers /\ Writers(r, browser[r]) = {}
                 /\ Live(session[browser[r]]) /\ UNCHANGED <<session, pending>>
<1>a. Placed(r) /\ Holds(r) /\ TypeOK
  BY DEF Inv, Paths, Holding
<1> USE DEF locks, rows
<1>0. ASSUME Fails(r)
      PROVE  FALSE
  BY <1>0 DEF Fails, Unlock
<1>1. ASSUME NEW k \in Kinds, NEW b \in Browsers \cup {None}, Arrive(r, k, b)
      PROVE  FALSE
  BY <1>a, <1>1 DEF Arrive, Holds, Calling, Committing
<1>2. CASE Begin(r) \/ Count(r) \/ Insert(r) \/ Replace(r) \/ Revoke(r) \/ Renew(r) \/ Admit(r)
  BY <1>0, <1>2 DEF Begin, Count, Insert, Replace, Revoke, Renew, Admit
<1>3. CASE Keep(r) \/ Commit(r)
  BY <1>3 DEF Keep, Commit, Publish, Unlock
<1>4. CASE Start(r) \/ Refuse(r) \/ Ask(r) \/ LockUser(r) \/ Recheck(r)
  BY <1>4 DEF Start, Refuse, Unlock, Ask, LockUser, Recheck
<1>5. CASE LockRows(r)
  <2>1. browser[r] \in Browsers
    BY <1>a, <1>5 DEF LockRows, Placed, Calling, Committing
  <2> QED  BY <1>5, <2>1 DEF LockRows, Granted, WaitsFor
<1>6. ASSUME NEW g \in {"pause", "end"}, Checkpoint(r, g)
      PROVE  browser'[r] = browser[r] /\ r \in rowS
  BY <1>6 DEF Checkpoint
<1>7. CASE Lose(r) \/ Victim(r)
  BY <1>0, <1>7 DEF Lose, Victim
<1> QED
  BY <1>1, <1>2, <1>3, <1>4, <1>5, <1>6, <1>7 DEF Acts, Step

\* A request that publishes shares nothing any more.
LEMMA PublishesAlone ==
    ASSUME NEW r \in Requests, Publish(r)
    PROVE  r \notin rowS' /\ rowS' \subseteq rowS
BY DEF Publish, Unlock

LEMMA SharedKept ==
    ASSUME SessionAssumption, Inv, [Next]_vars
    PROVE  SharedAreValid'
<1>a. SharedAreValid /\ Exclusive /\ TypeOK
  BY DEF Inv
<1>1. ASSUME NEW r \in Requests, Acts(r)
      PROVE  SharedAreValid'
  <2>1. Apart(r) /\ Effect(r) /\ rowS' \subseteq Requests
    BY <1>1, <1>a, ActsApart, Effects, TypesKept DEF TypeOK
  <2>2. ASSUME NEW q \in rowS'
        PROVE  /\ source /\ browser'[q] = browser[q] /\ browser[q] \in Browsers
               /\ ~ session[browser[q]].revoked
               /\ q \in rowS \/ UNCHANGED session
    <3>1. CASE q = r
      BY <1>1, <1>a, <3>1, Shares DEF SharedAreValid, Live
    <3>2. CASE q # r
      BY <1>a, <2>1, <3>2 DEF Apart, SharedAreValid
    <3> QED  BY <3>1, <3>2
  <2>3. ASSUME NEW q \in rowS'
        PROVE  session'[browser[q]] = session[browser[q]]
    <3>1. CASE UNCHANGED session
      BY <3>1
    <3>2. CASE Publish(r)
      <4>1. q # r /\ q \in rowS
        BY <3>2, PublishesAlone
      <4>2. browser[q] \notin DOMAIN pending[r]
        BY <1>a, <4>1 DEF Exclusive
      <4> QED  BY <2>2, <3>2, <4>2 DEF Publish, Sees
    <3> QED  BY <2>1, <3>1, <3>2 DEF Effect, Committed
  <2> QED  BY <2>1, <2>2, <2>3 DEF SharedAreValid, Apart
<1>2. CASE ChangeAccount \/ Tick \/ UNCHANGED vars
  BY <1>2, <1>a DEF ChangeAccount, Tick, vars, rows, locks, SharedAreValid
<1>3. CASE RevokeSource
  BY <1>3, <1>a DEF RevokeSource, locks, SharedAreValid
<1> QED  BY <1>1, <1>2, <1>3, Steps

\* What a step of request r adds to the rows it has written is nobody else's.
LEMMA AddsUnwritten ==
    ASSUME SessionAssumption, Inv, NEW r \in Requests, Effect(r), NEW b \in DOMAIN pending'[r]
    PROVE  \/ b \in DOMAIN pending[r]
           \/ /\ \A q \in Requests \ {r} : b \notin DOMAIN pending[q]
              /\ \A q \in rowS \ {r} : browser[q] # b
<1>a. SharedAreValid /\ TypeOK
  BY DEF Inv
<1>b. ASSUME NEW f \in Browsers, Fresh(f)
      PROVE  /\ \A q \in Requests \ {r} : f \notin DOMAIN pending[q]
             /\ \A q \in rowS \ {r} : browser[q] # f
  BY <1>a, <1>b DEF Fresh, SharedAreValid, NoRow
<1>c. ASSUME NEW o \in Browsers, Writers(r, o) = {}, Sharers(r, o) = {}
      PROVE  /\ \A q \in Requests \ {r} : o \notin DOMAIN pending[q]
             /\ \A q \in rowS \ {r} : browser[q] # o
  BY <1>c DEF Writers, Sharers
<1>1. CASE pending'[r] = pending[r]
  BY <1>1
<1>2. CASE DOMAIN pending'[r] = {}
  BY <1>2
<1>3. CASE WritesFresh(r)
  BY <1>3, <1>b DEF WritesFresh
<1>4. CASE WritesHeir(r)
  BY <1>4, <1>b, <1>c DEF WritesHeir
<1>5. CASE WritesOwn(r)
  BY <1>5, <1>c DEF WritesOwn
<1>6. CASE Publish(r)
  BY <1>a, <1>6, NothingTyped DEF Publish, Writes, TypeOK
<1> QED  BY <1>1, <1>2, <1>3, <1>4, <1>5, <1>6 DEF Effect

LEMMA ExclusiveKept ==
    ASSUME SessionAssumption, Inv, [Next]_vars
    PROVE  Exclusive'
<1>a. Exclusive /\ TypeOK
  BY DEF Inv
<1>1. ASSUME NEW r \in Requests, Acts(r)
      PROVE  Exclusive'
  <2>1. Apart(r) /\ Effect(r) /\ rowS' \subseteq Requests
    BY <1>1, <1>a, ActsApart, Effects, TypesKept DEF TypeOK
  <2>2. ASSUME NEW b \in DOMAIN pending'[r], NEW q \in Requests \ {r}, b \in DOMAIN pending'[q]
        PROVE  FALSE
    <3>1. b \in DOMAIN pending[q]
      BY <2>1, <2>2 DEF Apart
    <3>2. b \notin DOMAIN pending[r]
      BY <1>a, <3>1 DEF Exclusive
    <3> QED  BY <2>1, <3>1, <3>2, AddsUnwritten
  <2>3. ASSUME NEW q \in Requests, NEW p \in Requests, NEW b \in DOMAIN pending'[q],
               b \in DOMAIN pending'[p]
        PROVE  q = p
    <3>1. CASE q = r \/ p = r
      BY <2>2, <2>3, <3>1
    <3>2. CASE q # r /\ p # r
      BY <1>a, <2>1, <2>3, <3>2 DEF Apart, Exclusive
    <3> QED  BY <3>1, <3>2
  <2>4. ASSUME NEW q \in Requests, NEW p \in rowS', browser'[p] \in DOMAIN pending'[q]
        PROVE  q = p
    <3>1. CASE q # r /\ p # r
      BY <1>a, <2>1, <2>4, <3>1 DEF Apart, Exclusive
    <3>2. CASE q = r /\ p # r
      <4>1. p \in rowS /\ browser[p] \in DOMAIN pending'[r]
        BY <2>1, <2>4, <3>2 DEF Apart
      <4>2. browser[p] \in DOMAIN pending[r]
        BY <2>1, <3>2, <4>1, AddsUnwritten
      <4> QED  BY <1>a, <3>2, <4>1, <4>2 DEF Exclusive
    <3>3. CASE p = r /\ q # r
      <4>1. browser[r] \in DOMAIN pending[q] /\ r \in rowS'
            /\ browser'[r] = browser[r]
        BY <1>1, <2>1, <2>4, <3>3, Shares DEF Apart
      <4>2. CASE r \in rowS
        BY <1>a, <3>3, <4>1, <4>2 DEF Exclusive
      <4>3. CASE Writers(r, browser[r]) = {}
        BY <3>3, <4>1, <4>3 DEF Writers
      <4> QED  BY <1>1, <4>1, <4>2, <4>3, Shares
    <3> QED  BY <3>1, <3>2, <3>3
  <2> QED  BY <2>3, <2>4 DEF Exclusive
<1>2. CASE ChangeAccount \/ RevokeSource \/ Tick \/ UNCHANGED vars
  BY <1>2, <1>a DEF ChangeAccount, RevokeSource, Tick, vars, rows, locks, Exclusive
<1> QED  BY <1>1, <1>2, Steps

\* Another request's transaction leaves the rows one has written as they are committed.
LEMMA WrittenUntouched ==
    ASSUME TypeOK, Exclusive, NEW r \in Requests, NEW q \in Requests \ {r}, Effect(r),
           NEW b \in DOMAIN pending[q]
    PROVE  session'[b] = session[b]
<1>1. b \notin DOMAIN pending[r] /\ b \in Browsers
  BY DEF Exclusive, TypeOK
<1>2. CASE Publish(r)
  BY <1>1, <1>2 DEF Publish, Sees
<1> QED  BY <1>2 DEF Effect, Committed

LEMMA AdvancingKept ==
    ASSUME SessionAssumption, Inv, [Next]_vars
    PROVE  Advancing'
<1>a. Exclusive /\ Advancing /\ TypeOK /\ now \in Nat /\ Idle \in Nat
  BY DEF Inv, SessionAssumption, TypeOK
<1>1. ASSUME NEW r \in Requests, Acts(r)
      PROVE  Advancing'
  <2>1. Apart(r) /\ Effect(r) /\ now' = now
    BY <1>1, <1>a, ActsApart, Effects DEF Apart
  <2>2. ASSUME NEW b \in Browsers
        PROVE  session'[b].idle <= now + Idle
    BY <1>a, <2>1 DEF Effect, Committed, Publish, Sees, Advancing
  <2>3. ASSUME NEW b \in DOMAIN pending'[r]
        PROVE  /\ pending'[r][b].idle <= now + Idle
               /\ session'[b] # NoRow => Later(session'[b], pending'[r][b])
    <3>1. CASE Publish(r)
      BY <1>a, <3>1, NothingTyped DEF Publish, Writes, TypeOK
    <3>2. CASE UNCHANGED Committed /\ pending'[r] = pending[r]
      BY <1>a, <3>2 DEF Committed, Advancing
    <3>3. CASE UNCHANGED Committed /\ WritesFresh(r)
      BY <3>3 DEF Committed, WritesFresh, Fresh
    <3>4. CASE UNCHANGED Committed /\ WritesHeir(r)
      BY <3>4 DEF Committed, WritesHeir, Fresh
    <3>5. CASE UNCHANGED Committed /\ WritesOwn(r)
      BY <3>5 DEF Committed, WritesOwn
    <3> QED  BY <2>1, <2>3, <3>1, <3>2, <3>3, <3>4, <3>5 DEF Effect
  <2>4. ASSUME NEW q \in Requests \ {r}, NEW b \in DOMAIN pending'[q]
        PROVE  /\ pending'[q][b].idle <= now + Idle
               /\ session'[b] # NoRow => Later(session'[b], pending'[q][b])
    <3>1. pending'[q] = pending[q] /\ session'[b] = session[b]
      BY <1>a, <2>1, WrittenUntouched DEF Apart
    <3> QED  BY <1>a, <3>1 DEF Advancing
  <2> QED  BY <2>1, <2>2, <2>3, <2>4 DEF Advancing
<1>2. CASE ChangeAccount \/ RevokeSource \/ UNCHANGED vars
  BY <1>2, <1>a DEF ChangeAccount, RevokeSource, vars, rows, Advancing
<1>3. CASE Tick
  <2>1. now' = now + 1 /\ session' = session /\ pending' = pending
    BY <1>3 DEF Tick, rows
  <2>2. ASSUME NEW n \in Nat, n <= now + Idle
        PROVE  n <= now + 1 + Idle
    BY <1>a, <2>2
  <2>3. /\ \A b \in Browsers : session[b].idle \in Nat
        /\ \A r \in Requests : \A b \in DOMAIN pending[r] : pending[r][b].idle \in Nat
    BY <1>a DEF TypeOK, Row
  <2> QED  BY <1>a, <2>1, <2>2, <2>3 DEF Advancing
<1> QED  BY <1>1, <1>2, <1>3, Steps

\* A rotation that is ready to be kept was written just now.
LEMMA Rotates ==
    ASSUME SessionAssumption, Inv, NEW r \in Requests, Acts(r),
           pc'[r] = "keep", kind'[r] = "rotate"
    PROVE  /\ WritesHeir(r) /\ UNCHANGED <<session, browser>>
<1>a. Placed(r) /\ TypeOK
  BY DEF Inv, Paths
<1> USE DEF TypeOK, Goes, rows
<1>0. ASSUME Fails(r)
      PROVE  FALSE
  BY <1>a, <1>0 DEF Fails
<1>1. ASSUME NEW k \in Kinds, NEW b \in Browsers \cup {None}, Arrive(r, k, b)
      PROVE  FALSE
  <2>1. pc'[r] \in {"start", "begin"}
    BY <1>a, <1>1 DEF Arrive
  <2> QED  BY <2>1
<1>2. CASE Begin(r)
  <2>1. FirstStatement(kind[r]) \in {"admit", "revoke", "renewOpen"}
    BY <1>a, <1>2 DEF Begin, FirstStatement, Placed, Kinds
  <2> QED  BY <1>a, <1>0, <1>2, <2>1 DEF Begin
<1>3. CASE Admit(r) \/ Count(r)
  BY <1>a, <1>0, <1>3 DEF Admit, Count
<1>4. CASE Insert(r)
  BY <1>a, <1>0, <1>4 DEF Insert, Placed
<1>5. CASE Replace(r)
  <2>1. Effect(r) /\ UNCHANGED <<session, browser>> /\ pc[r] = "replace"
    BY <1>0, <1>5, Effects DEF Replace
  <2>2. \E b \in Browsers :
            pending'[r] = [x \in {browser[r], b} |->
                              IF x = browser[r] THEN RevokedRow(session[browser[r]])
                              ELSE RotatedRow(session[browser[r]])]
    BY <1>a, <1>0, <1>5 DEF Replace, Writes
  <2>3. DOMAIN pending[r] = {} /\ DOMAIN pending'[r] # {}
    BY <2>1, <2>2 DEF Inv, Paths, Written
  <2> QED  BY <2>1, <2>3 DEF Effect
<1>6. CASE Revoke(r) \/ Renew(r)
  BY <1>a, <1>6 DEF Revoke, Renew, Placed
<1>9. CASE Keep(r) \/ Commit(r)
  BY <1>a, <1>9 DEF Keep, Commit
<1>10. CASE Start(r) \/ Refuse(r) \/ Ask(r) \/ LockUser(r) \/ LockRows(r) \/ Recheck(r)
  BY <1>a, <1>10 DEF Start, Refuse, Ask, LockUser, LockRows, Recheck, Following
<1>13. ASSUME NEW g \in {"pause", "end"}, Checkpoint(r, g)
       PROVE  FALSE
  BY <1>a, <1>13 DEF Checkpoint, Following
<1>18. CASE Lose(r) \/ Victim(r)
  BY <1>0, <1>18 DEF Lose, Victim
<1> QED
  BY <1>1, <1>2, <1>3, <1>4, <1>5, <1>6, <1>9, <1>10, <1>13, <1>18 DEF Acts, Step

LEMMA RotationsKept ==
    ASSUME SessionAssumption, Inv, [Next]_vars
    PROVE  Rotations'
<1>a. Exclusive /\ Rotations /\ TypeOK /\ Paths
  BY DEF Inv
<1>1. ASSUME NEW r \in Requests, Acts(r)
      PROVE  Rotations'
  <2>1. Apart(r) /\ Effect(r)
    BY <1>1, <1>a, ActsApart, Effects
  <2>2. Rotated(r)'
    <3> SUFFICES ASSUME pc'[r] = "keep", kind'[r] = "rotate"
                 PROVE  \E x \in Browsers \ {browser'[r]} :
                            /\ DOMAIN pending'[r] = {browser'[r], x}
                            /\ ~ session'[browser'[r]].revoked
                            /\ pending'[r][browser'[r]].revoked
                            /\ pending'[r][browser'[r]] # NoRow
                            /\ session'[x] = NoRow /\ ~ pending'[r][x].revoked
                            /\ pending'[r][x].ends <= session'[browser'[r]].ends
      BY DEF Rotated
    <3>1. WritesHeir(r) /\ session' = session /\ browser' = browser
      BY <1>1, Rotates
    <3>2. session[browser[r]] \in Row /\ now \in Nat
      BY <1>a, <3>1 DEF TypeOK, WritesHeir
    <3>3. session[browser[r]].ends # 0
      BY <3>1, <3>2 DEF WritesHeir, Live, Row
    <3>4. pending'[r][browser[r]] # NoRow
      BY <3>1, <3>3 DEF WritesHeir, Later, NoRow
    <3>5. ~ session[browser[r]].revoked /\ pending'[r][browser[r]].revoked
      BY <3>1 DEF WritesHeir, Live
    <3>6. PICK x \in Browsers \ {browser[r]} :
              /\ Fresh(x) /\ DOMAIN pending'[r] = {browser[r], x}
              /\ ~ pending'[r][x].revoked /\ pending'[r][x].ends <= session[browser[r]].ends
      BY <3>1 DEF WritesHeir
    <3>7. session[x] = NoRow
      BY <3>6 DEF Fresh
    <3> QED  BY <3>1, <3>4, <3>5, <3>6, <3>7
  <2>3. ASSUME NEW q \in Requests \ {r}
        PROVE  Rotated(q)'
    <3> SUFFICES ASSUME pc'[q] = "keep", kind'[q] = "rotate"
                 PROVE  \E x \in Browsers \ {browser'[q]} :
                            /\ DOMAIN pending'[q] = {browser'[q], x}
                            /\ ~ session'[browser'[q]].revoked
                            /\ pending'[q][browser'[q]].revoked
                            /\ pending'[q][browser'[q]] # NoRow
                            /\ session'[x] = NoRow /\ ~ pending'[q][x].revoked
                            /\ pending'[q][x].ends <= session'[browser'[q]].ends
      BY DEF Rotated
    <3>1. /\ pc[q] = "keep" /\ kind[q] = "rotate" /\ browser'[q] = browser[q]
          /\ pending'[q] = pending[q]
      BY <2>1 DEF Apart
    <3>2. \A b \in DOMAIN pending[q] : session'[b] = session[b]
      BY <1>a, <2>1, WrittenUntouched
    <3>3. PICK x \in Browsers \ {browser[q]} :
              /\ DOMAIN pending[q] = {browser[q], x}
              /\ ~ session[browser[q]].revoked
              /\ pending[q][browser[q]].revoked /\ pending[q][browser[q]] # NoRow
              /\ session[x] = NoRow /\ ~ pending[q][x].revoked
              /\ pending[q][x].ends <= session[browser[q]].ends
      BY <1>a, <3>1 DEF Rotations, Rotated
    <3>4. session'[x] = session[x] /\ session'[browser[q]] = session[browser[q]]
      BY <3>2, <3>3
    <3> QED  BY <3>1, <3>3, <3>4
  <2> QED  BY <2>2, <2>3 DEF Rotations
<1>2. CASE ChangeAccount \/ RevokeSource \/ Tick \/ UNCHANGED vars
  BY <1>2, <1>a DEF ChangeAccount, RevokeSource, Tick, vars, rows, locks, Rotations, Rotated
<1> QED  BY <1>1, <1>2, Steps

\* What a rotation publishes.
LEMMA Heirs ==
    ASSUME SessionAssumption, Inv, NEW r \in Requests, Publish(r), pc[r] \in {"keep", "commit"},
           NEW b \in Browsers, heir'[b] # heir[b]
    PROVE  /\ ~ session[b].revoked /\ session'[b].revoked /\ session'[b] # NoRow
           /\ session[heir'[b]] = NoRow /\ ~ session'[heir'[b]].revoked
           /\ session'[heir'[b]].ends <= session[b].ends
<1>1. kind[r] = "rotate" /\ b = browser[r]
      /\ heir'[b] = CHOOSE y \in DOMAIN pending[r] : y # b
  BY DEF Inv, TypeOK, Publish
<1>2. pc[r] = "keep" /\ Rotated(r)
  BY <1>1 DEF Inv, Paths, Placed, Calling, Committing, Rotations
<1>3. PICK x \in Browsers \ {b} :
          /\ DOMAIN pending[r] = {b, x}
          /\ ~ session[b].revoked /\ pending[r][b].revoked /\ pending[r][b] # NoRow
          /\ session[x] = NoRow /\ ~ pending[r][x].revoked
          /\ pending[r][x].ends <= session[b].ends
  BY <1>1, <1>2 DEF Rotated
<1>4. heir'[b] = x
  BY <1>1, <1>3
<1>5. session'[b] = pending[r][b] /\ session'[x] = pending[r][x]
  BY <1>3 DEF Publish, Sees
<1> QED  BY <1>3, <1>4, <1>5

\* What is revoked stays so when rows are published.
LEMMA PublishAdvances ==
    ASSUME SessionAssumption, Inv, NEW r \in Requests, Publish(r), NEW b \in Browsers,
           session[b] # NoRow
    PROVE  Later(session[b], session'[b])
<1>1. CASE b \in DOMAIN pending[r]
  BY <1>1 DEF Inv, Advancing, Publish, Sees
<1>2. CASE b \notin DOMAIN pending[r]
  <2>1. session[b] \in Row /\ session'[b] = session[b]
    BY <1>2 DEF Inv, TypeOK, Publish, Sees
  <2> QED  BY <2>1 DEF Row, Later
<1> QED  BY <1>1, <1>2

LEMMA ReplacedKept ==
    ASSUME SessionAssumption, Inv, [Next]_vars
    PROVE  Replaced'
<1>1. ASSUME NEW r \in Requests, Acts(r)
      PROVE  Replaced'
  <2>1. Effect(r)
    BY <1>1, Effects
  <2>2. CASE UNCHANGED Committed
    BY <2>2 DEF Committed, Inv, Replaced
  <2>3. CASE pc[r] \in {"keep", "commit"} /\ Publish(r)
    <3> SUFFICES ASSUME NEW b \in Browsers, heir'[b] # None
                 PROVE  session'[b].revoked /\ session'[b] # NoRow
      BY DEF Replaced
    <3>1. CASE heir'[b] # heir[b]
      BY <2>3, <3>1, Heirs
    <3>2. CASE heir'[b] = heir[b]
      <4>1. session[b].revoked /\ session[b] # NoRow /\ session[b] \in Row
        BY <3>2 DEF Inv, TypeOK, Replaced
      <4>2. Later(session[b], session'[b])
        BY <2>3, <4>1, PublishAdvances
      <4>3. session'[b] \in Row
        BY <1>1, TypesKept DEF Next, Acts, TypeOK
      <4>4. ASSUME session'[b] = NoRow
            PROVE  session[b] = NoRow
        <5>1. session[b].ends = 0 /\ session[b].idle <= 0
          BY <4>2, <4>4 DEF Later, NoRow
        <5>2. session[b].idle = 0
          BY <4>1, <5>1 DEF Row
        <5> QED  BY <4>1, <5>1, <5>2 DEF Row, NoRow
      <4> QED  BY <4>1, <4>2, <4>4 DEF Later
    <3> QED  BY <3>1, <3>2
  <2> QED  BY <2>1, <2>2, <2>3 DEF Effect
<1>2. CASE ChangeAccount \/ RevokeSource \/ Tick \/ UNCHANGED vars
  BY <1>2 DEF ChangeAccount, RevokeSource, Tick, vars, rows, Inv, Replaced
<1> QED  BY <1>1, <1>2, Steps

----------------------------------------------------------------------------
(* The invariant. *)

LEMMA Begins ==
    ASSUME SessionAssumption, Init
    PROVE  Inv
<1>1. now = 0 /\ now \in Nat /\ now \in 0..MaxTime /\ changes \in 0..MaxChanges
      /\ MaxPauses \in Nat /\ 0 \in 0..MaxPauses + 1 /\ Idle \in Nat
  BY DEF Init, SessionAssumption
<1>2. /\ IssuedRow \in Row /\ NoRow \in Row /\ IssuedRow.idle <= now + Idle
      /\ NoRow.idle <= now + Idle
  BY <1>1, Issued, NoRowIsRow DEF NoRow
<1>3. session \in [Browsers -> Row]
  BY <1>2 DEF Init
<1>4. \A r \in Requests : pending[r] = NoWrites /\ DOMAIN pending[r] = {}
  BY NothingTyped DEF Init
<1>5. TypeOK
  <2>1. /\ heir \in [Browsers -> Browsers \cup {None}] /\ revived \subseteq Browsers
        /\ kind \in [Requests -> Kinds] /\ browser \in [Requests -> Browsers \cup {None}]
    BY DEF Init, Kinds
  <2>2. /\ pc \in [Requests -> Places] /\ goal \in [Requests -> {"pause", "end"}]
        /\ cancelled \in [Requests -> BOOLEAN] /\ DOMAIN pending = Requests
        /\ account \in BOOLEAN /\ source \in BOOLEAN
    BY DEF Init, Places
  <2>3. /\ userX \in Requests \cup {None} /\ userS \subseteq Requests /\ rowS \subseteq Requests
        /\ durable \in [Requests -> 0..MaxPauses + 1]
    BY <1>1 DEF Init
  <2> QED  BY <1>1, <1>3, <1>4, <2>1, <2>2, <2>3 DEF TypeOK
<1>6. Paths
  BY <1>1, <1>4 DEF Init, Paths, Placed, Counted, Written, Calling, Committing
<1>7. Holding
  BY DEF Init, Holding, Holds, Calling, Committing, SessionAssumption
<1>8. SharedAreValid /\ Exclusive /\ Rotations
  BY <1>4 DEF Init, SharedAreValid, Exclusive, Rotations, Rotated
<1>9. Advancing
  BY <1>2, <1>4 DEF Init, Advancing
<1>10. Replaced
  BY DEF Init, Replaced
<1> QED  BY <1>5, <1>6, <1>7, <1>8, <1>9, <1>10 DEF Inv

LEMMA Kept ==
    ASSUME SessionAssumption, Inv, [Next]_vars
    PROVE  Inv'
BY TypesKept, PathsKept, HoldingKept, SharedKept, ExclusiveKept, AdvancingKept, RotationsKept,
   ReplacedKept DEF Inv

\* The invariant the guarantees follow from holds in every state.
THEOREM Invariance == Spec => []Inv
<1> USE SessionAssumption
<1>1. Init => Inv
  BY Begins
<1>2. Inv /\ [Next]_vars => Inv'
  BY Kept
<1> QED  BY <1>1, <1>2, PTL DEF Spec

\* Every variable keeps its type.
THEOREM TypeCorrect == Spec => []TypeOK
<1>1. Inv => TypeOK
  BY DEF Inv
<1> QED  BY <1>1, Invariance, PTL

----------------------------------------------------------------------------
(* What commits and what is committed. *)

\* A call counts one more commit in a step of its own that publishes its work.
LEMMA Counts ==
    ASSUME SessionAssumption, Inv, NEW r \in Requests, Acts(r), durable'[r] # durable[r]
    PROVE  pc[r] = "commit"
<1> USE DEF rows, locks
<1>0. ASSUME Fails(r)
      PROVE  FALSE
  BY <1>0 DEF Fails
<1>1. ASSUME NEW k \in Kinds, NEW b \in Browsers \cup {None}, Arrive(r, k, b)
      PROVE  FALSE
  BY <1>1 DEF Arrive
<1>2. CASE Begin(r) \/ Admit(r) \/ Count(r) \/ Insert(r) \/ Replace(r) \/ Revoke(r) \/ Renew(r)
  BY <1>0, <1>2 DEF Begin, Admit, Count, Insert, Replace, Revoke, Renew
<1>3. CASE Keep(r) \/ Start(r) \/ Refuse(r) \/ Ask(r) \/ LockUser(r) \/ LockRows(r) \/ Recheck(r)
  BY <1>3 DEF Keep, Start, Refuse, Ask, LockUser, LockRows, Recheck
<1>4. CASE Commit(r)
  BY <1>4 DEF Commit
<1>5. ASSUME NEW g \in {"pause", "end"}, Checkpoint(r, g)
      PROVE  FALSE
  BY <1>5 DEF Checkpoint
<1>6. CASE Lose(r) \/ Victim(r)
  BY <1>0, <1>6 DEF Lose, Victim
<1> QED  BY <1>1, <1>2, <1>3, <1>4, <1>5, <1>6 DEF Acts, Step

\* The work of a call becomes durable only while its user, its credential and its session
\* are valid and no check of it has failed.
THEOREM CommitAuthorised == Spec => CommitsAreAuthorised
<1> DEFINE A == \A r \in Requests : durable'[r] # durable[r] =>
                    account /\ source /\ ~ session[browser[r]].revoked /\ ~ cancelled[r]
<1> USE SessionAssumption
<1>1. Inv /\ [Next]_vars => [A]_vars
  <2> SUFFICES ASSUME Inv, [Next]_vars, NEW q \in Requests, durable'[q] # durable[q]
               PROVE  account /\ source /\ ~ session[browser[q]].revoked /\ ~ cancelled[q]
    OBVIOUS
  <2>1. ASSUME NEW r \in Requests, Acts(r)
        PROVE  pc[q] = "commit"
    <3>1. q = r
      BY <2>1, ActsApart DEF Apart, Inv
    <3> QED  BY <2>1, <3>1, Counts
  <2>2. ~ (ChangeAccount \/ RevokeSource \/ Tick \/ UNCHANGED vars)
    BY DEF ChangeAccount, RevokeSource, Tick, vars
  <2>3. pc[q] = "commit"
    BY <2>1, <2>2, Steps
  <2>4. Holds(q)
    BY DEF Inv, Holding
  <2>5. account /\ ~ cancelled[q] /\ q \in rowS
    BY <2>3, <2>4 DEF Holds, Committing
  <2>6. source /\ ~ session[browser[q]].revoked
    BY <2>5 DEF Inv, SharedAreValid
  <2> QED  BY <2>5, <2>6
<1>2. Spec => [][A]_vars
  BY <1>1, Invariance, PTL DEF Spec
<1> QED  BY <1>2 DEF CommitsAreAuthorised

\* Rows are published in one step of one request, or they stay.
LEMMA CommittedOrKept ==
    ASSUME SessionAssumption, Inv, [Next]_vars
    PROVE  \/ UNCHANGED Committed
           \/ \E r \in Requests : pc[r] \in {"keep", "commit"} /\ Publish(r)
<1>1. ASSUME NEW r \in Requests, Acts(r)
      PROVE  UNCHANGED Committed \/ (pc[r] \in {"keep", "commit"} /\ Publish(r))
  BY <1>1, Effects DEF Effect
<1>2. CASE ChangeAccount \/ RevokeSource \/ Tick \/ UNCHANGED vars
  BY <1>2 DEF ChangeAccount, RevokeSource, Tick, vars, rows, Committed
<1> QED  BY <1>1, <1>2, Steps

\* A revocation, a deadline and a renewal of a session are never taken back.
THEOREM RevocationFinal == Spec => RevocationIsFinal
<1> DEFINE A == \A b \in Browsers : session[b] # NoRow =>
                    /\ session[b].revoked => session'[b].revoked
                    /\ session'[b].ends = session[b].ends
                    /\ session[b].idle <= session'[b].idle
<1> USE SessionAssumption
<1>1. Inv /\ [Next]_vars => [A]_vars
  <2> SUFFICES ASSUME Inv, [Next]_vars, NEW b \in Browsers, session[b] # NoRow
               PROVE  Later(session[b], session'[b])
    BY DEF Later
  <2>1. CASE UNCHANGED Committed
    <3>1. session[b] \in Row /\ session'[b] = session[b]
      BY <2>1 DEF Inv, TypeOK, Committed
    <3> QED  BY <3>1 DEF Row, Later
  <2>2. ASSUME NEW r \in Requests, Publish(r)
        PROVE  Later(session[b], session'[b])
    BY <2>2, PublishAdvances
  <2> QED  BY <2>1, <2>2, CommittedOrKept
<1>2. Spec => [][A]_vars
  BY <1>1, Invariance, PTL DEF Spec
<1> QED  BY <1>2 DEF RevocationIsFinal

\* A session is replaced once, by one that is there when it is gone.
THEOREM RotationReplacing == Spec => RotationReplaces
<1> DEFINE A == \A b \in Browsers : heir'[b] # heir[b] =>
                    /\ heir[b] = None /\ ~ session[b].revoked /\ session'[b].revoked
                    /\ session[heir'[b]] = NoRow /\ ~ session'[heir'[b]].revoked
                    /\ session'[heir'[b]].ends <= session[b].ends
<1> USE SessionAssumption
<1>1. Inv /\ [Next]_vars => [A]_vars
  <2> SUFFICES ASSUME Inv, [Next]_vars, NEW b \in Browsers, heir'[b] # heir[b]
               PROVE  /\ heir[b] = None /\ ~ session[b].revoked /\ session'[b].revoked
                      /\ session[heir'[b]] = NoRow /\ ~ session'[heir'[b]].revoked
                      /\ session'[heir'[b]].ends <= session[b].ends
    OBVIOUS
  <2>1. PICK r \in Requests : pc[r] \in {"keep", "commit"} /\ Publish(r)
    BY CommittedOrKept DEF Committed
  <2>2. /\ ~ session[b].revoked /\ session'[b].revoked
        /\ session[heir'[b]] = NoRow /\ ~ session'[heir'[b]].revoked
        /\ session'[heir'[b]].ends <= session[b].ends
    BY <2>1, Heirs
  <2> QED  BY <2>2 DEF Inv, Replaced
<1>2. Spec => [][A]_vars
  BY <1>1, Invariance, PTL DEF Spec
<1> QED  BY <1>2 DEF RotationReplaces

----------------------------------------------------------------------------
(* Deadlocks. *)

\* What a waiting request holds: nothing it has written, the user's row only to replace a
\* session, a share of the user's row or of its session only on its way to a commit.
LEMMA WaitersHold ==
    ASSUME Inv, NEW q \in Requests, pc[q] \in Waits
    PROVE  /\ DOMAIN pending[q] = {}
           /\ userX = q => pc[q] = "replace"
           /\ q \in userS => pc[q] \in {"lockRows", "renew"}
           /\ q \in rowS => pc[q] = "renew"
<1>1. Holds(q) /\ Written(q) /\ pc[q] \in Places
  BY DEF Inv, Paths, Holding, TypeOK
<1>2. DOMAIN pending[q] = {}
  BY <1>1 DEF Written, Waits
<1>3. userX = q => pc[q] = "replace"
  BY <1>1 DEF Holds, Waits
<1>4. q \in userS => pc[q] \in {"lockRows", "renew"}
  BY <1>1 DEF Holds, Waits, Calling, Committing
<1>5. q \in rowS => pc[q] = "renew"
  BY <1>1 DEF Holds, Waits, Calling, Committing
<1> QED  BY <1>2, <1>3, <1>4, <1>5

\* Whoever waits in a deadlock is waited for by none that has written a row.
LEMMA WaitsForWaiter ==
    ASSUME SessionAssumption, Inv, NEW S \in SUBSET Requests, Deadlocked(S), NEW r \in S
    PROVE  \E q \in S :
               /\ pc[q] \in Waits /\ DOMAIN pending[q] = {}
               /\ \/ pc[r] = "admit" /\ pc[q] \in {"replace", "lockRows", "renew"}
                  \/ pc[r] = "lockUser" /\ pc[q] = "replace"
                  \/ /\ pc[r] \in {"replace", "revoke", "renewOpen", "renew"}
                     /\ q # r /\ browser[q] = browser[r] /\ pc[q] = "renew"
<1>1. PICK q \in S : q \in WaitsFor(r)
  BY DEF Deadlocked
<1>2. pc[q] \in Waits /\ pc[r] \in Waits
  <2>1. WaitsFor(q) # {} /\ WaitsFor(r) # {}
    BY <1>1 DEF Deadlocked
  <2> QED  BY <2>1 DEF WaitsFor, Waits
<1>3. /\ DOMAIN pending[q] = {}
      /\ userX = q => pc[q] = "replace"
      /\ q \in userS => pc[q] \in {"lockRows", "renew"}
      /\ q \in rowS => pc[q] = "renew"
  BY <1>2, WaitersHold
<1>4. q \notin Writers(r, browser[r])
  BY <1>3 DEF Writers
<1>5. CASE pc[r] = "admit"
  <2>1. q \in {userX} \cup userS
    BY <1>1, <1>5 DEF WaitsFor
  <2> QED  BY <1>2, <1>3, <1>5, <2>1
<1>6. CASE pc[r] = "lockUser"
  <2>1. q = userX
    BY <1>1, <1>6 DEF WaitsFor
  <2> QED  BY <1>2, <1>3, <1>6, <2>1
<1>7. CASE pc[r] = "lockRows"
  <2>1. WaitsFor(r) = Writers(r, browser[r])
    BY <1>7 DEF WaitsFor
  <2> QED  BY <1>1, <1>4, <2>1
<1>8. CASE pc[r] \in {"replace", "revoke", "renewOpen", "renew"}
  <2>1. WaitsFor(r) = Writers(r, browser[r]) \cup Sharers(r, browser[r])
    BY <1>8 DEF WaitsFor
  <2>2. q \in rowS /\ q # r /\ browser[q] = browser[r]
    BY <1>1, <1>4, <2>1 DEF Sharers
  <2> QED  BY <1>2, <1>3, <1>8, <2>2
<1> QED  BY <1>2, <1>5, <1>6, <1>7, <1>8 DEF Waits

\* Requests that wait for each other are commands of one session that renew it.
THEOREM OnlyRenewals == Spec => []OnlyRenewalsDeadlock
<1> USE SessionAssumption
<1>1. Inv => OnlyRenewalsDeadlock
  <2> SUFFICES ASSUME Inv, NEW S \in SUBSET Requests, Deadlocked(S)
               PROVE  \E q, r \in S : /\ q # r /\ browser[q] = browser[r]
                                      /\ pc[q] = "renew" /\ pc[r] = "renew"
    BY DEF OnlyRenewalsDeadlock
  <2>1. ASSUME NEW r \in S, pc[r] = "renew"
        PROVE  \E q \in S : q # r /\ browser[q] = browser[r] /\ pc[q] = "renew"
    BY <2>1, WaitsForWaiter
  <2>2. ASSUME NEW r \in S, pc[r] \in {"replace", "revoke", "renewOpen", "renew"}
        PROVE  \E q \in S : pc[q] = "renew"
    BY <2>2, WaitsForWaiter
  <2>3. ASSUME NEW r \in S
        PROVE  pc[r] \in {"admit", "lockUser", "replace", "revoke", "renewOpen", "renew"}
    BY WaitsForWaiter
  <2>4. ASSUME NEW r \in S, pc[r] \in {"admit", "lockUser"}
        PROVE  \E q \in S : pc[q] = "renew"
    <3>1. \E q \in S : pc[q] \in {"replace", "lockRows", "renew"}
      BY <2>4, WaitsForWaiter
    <3> QED  BY <2>2, <2>3, <3>1
  <2>5. \E r \in S : pc[r] = "renew"
    <3>1. PICK r \in S : TRUE
      BY DEF Deadlocked
    <3> QED  BY <2>2, <2>3, <2>4, <3>1
  <2> QED  BY <2>1, <2>5
<1> QED  BY <1>1, Invariance, PTL

----------------------------------------------------------------------------
(* How many sessions there are. *)

\* The sessions that count.
Members == {b \in Browsers \ revived : Live(session[b])}

\* Only sign-ins and rotations write sessions that nobody has, and they do it last.
Additions ==
    \A r \in Requests : \A b \in DOMAIN pending[r] :
        session[b] = NoRow /\ ~ pending[r][b].revoked =>
            /\ pc[r] = "keep"
            /\ kind[r] = "rotate" \/ (kind[r] = "signin" /\ DOMAIN pending[r] = {b})

\* There is room for what a request is about to add.
Room(r) ==
    /\ pc[r] = "insert" \/ (pc[r] = "keep" /\ kind[r] = "signin") => Cardinality(Members) < Limit
    /\ pc[r] = "keep" /\ kind[r] = "rotate" /\ browser[r] \notin revived =>
            Cardinality(Members \ {browser[r]}) < Limit

Admission == Additions /\ AdmissionIsLimited /\ \A r \in Requests : Room(r)

\* The sessions that count are finitely many, and so are those of every part of them.
LEMMA Counting ==
    ASSUME SessionAssumption, NEW S \in SUBSET Browsers, NEW T \in SUBSET S
    PROVE  /\ Cardinality(S) \in Nat /\ Cardinality(T) \in Nat
           /\ Cardinality(T) <= Cardinality(S)
<1>1. IsFiniteSet(S)
  BY FS_Subset DEF SessionAssumption
<1>2. IsFiniteSet(T) /\ Cardinality(T) <= Cardinality(S)
  BY <1>1, FS_Subset
<1> QED  BY <1>1, <1>2, FS_CardinalityType

\* One more than fewer than the limit is not above it.
LEMMA OneMore ==
    ASSUME SessionAssumption, NEW S \in SUBSET Browsers, NEW b \in Browsers,
           NEW T \in SUBSET (S \cup {b}), Cardinality(S) < Limit
    PROVE  Cardinality(T) <= Limit
<1>1. IsFiniteSet(S) /\ Limit \in Nat
  BY FS_Subset DEF SessionAssumption
<1>2. /\ IsFiniteSet(S \cup {b}) /\ Cardinality(S) \in Nat
      /\ Cardinality(S \cup {b}) \in {Cardinality(S), Cardinality(S) + 1}
  BY <1>1, FS_AddElement, FS_CardinalityType
<1>3. Cardinality(T) <= Cardinality(S \cup {b}) /\ Cardinality(T) \in Nat
  BY <1>2, FS_Subset, FS_CardinalityType
<1> QED  BY <1>1, <1>2, <1>3

\* One of no more than the limit less is below it.
LEMMA OneLess ==
    ASSUME SessionAssumption, NEW S \in SUBSET Browsers, NEW b \in S, Cardinality(S) <= Limit
    PROVE  Cardinality(S \ {b}) < Limit
<1>1. IsFiniteSet(S) /\ Limit \in Nat
  BY FS_Subset DEF SessionAssumption
<1>2. Cardinality(S \ {b}) = Cardinality(S) - 1 /\ Cardinality(S) \in Nat
  BY <1>1, FS_RemoveElement, FS_CardinalityType
<1> QED  BY <1>1, <1>2

\* Where a request goes from and to the statements that add sessions.
LEMMA Admissions ==
    ASSUME SessionAssumption, Inv, NEW r \in Requests, Acts(r)
    PROVE  /\ pc[r] = "keep" => DOMAIN pending'[r] = {}
           /\ pc[r] \in {"insert", "replace"} =>
                  \/ DOMAIN pending'[r] = {}
                  \/ pc'[r] = "keep" /\ kind'[r] = kind[r]
           /\ pc'[r] = "insert" => pc[r] = "count" /\ Population < Limit
           /\ pc'[r] = "keep" => pc[r] \notin {"keep", "commit"}
           /\ pc'[r] = "keep" /\ kind'[r] = "signin" => pc[r] = "insert" /\ kind[r] = "signin"
<1>a. Placed(r) /\ TypeOK
  BY DEF Inv, Paths
<1> USE DEF Goes, rows
<1>0. ASSUME Fails(r)
      PROVE  pc'[r] = "failed" /\ DOMAIN pending'[r] = {}
  BY <1>0, <1>a, NothingTyped DEF Fails, Writes, TypeOK
<1>1. ASSUME NEW k \in Kinds, NEW b \in Browsers \cup {None}, Arrive(r, k, b)
      PROVE  pc'[r] \in {"start", "begin"} /\ pc[r] = "idle"
  BY <1>a, <1>1 DEF TypeOK, Arrive
<1>2. CASE Begin(r)
  <2>1. FirstStatement(kind[r]) \in {"admit", "revoke", "renewOpen"}
    BY <1>a, <1>2 DEF TypeOK, Begin, FirstStatement, Placed, Kinds
  <2>2. pc[r] = "begin" /\ pc'[r] \notin {"keep", "insert"}
    BY <1>a, <1>0, <1>2, <2>1 DEF TypeOK, Begin
  <2> QED  BY <2>2
<1>3. CASE Admit(r)
  BY <1>a, <1>3 DEF TypeOK, Admit
<1>4. CASE Count(r)
  BY <1>a, <1>0, <1>4 DEF TypeOK, Count
<1>5. CASE Insert(r)
  BY <1>a, <1>0, <1>5 DEF TypeOK, Insert
<1>6. CASE Replace(r)
  <2>1. pc[r] = "replace" /\ kind[r] = "rotate"
    BY <1>a, <1>6 DEF Replace, Placed
  <2>2. CASE Fails(r)
    BY <1>0, <2>1, <2>2
  <2>3. CASE ~ Fails(r)
    <3>1. pc'[r] = "keep" /\ kind' = kind
      BY <1>a, <1>6, <2>3 DEF TypeOK, Replace
    <3> QED  BY <2>1, <3>1
  <2> QED  BY <2>2, <2>3
<1>7. CASE Revoke(r) \/ Renew(r)
  <2>1. /\ pc[r] \in {"revoke", "renewOpen", "renew"} /\ kind' = kind /\ kind[r] # "signin"
        /\ pc'[r] \in {"keep", "recheck"}
    BY <1>a, <1>7 DEF TypeOK, Revoke, Renew, Placed, Calling, Committing
  <2> QED  BY <2>1
<1>9. CASE Keep(r) \/ Commit(r)
  <2>1. /\ pc[r] \in {"keep", "commit"} /\ pc'[r] \in {"start", "run", "done"}
        /\ DOMAIN pending'[r] = {}
    BY <1>a, <1>9, NothingTyped DEF TypeOK, Keep, Commit, Publish, Writes
  <2> QED  BY <2>1
<1>10. CASE Start(r) \/ Refuse(r) \/ Ask(r) \/ LockUser(r) \/ LockRows(r) \/ Recheck(r)
  <2>1. /\ pc[r] \in {"start", "refuse", "run", "lockUser", "lockRows", "recheck"}
        /\ pc'[r] \notin {"keep", "insert"}
    BY <1>a, <1>10 DEF TypeOK, Start, Refuse, Ask, LockUser, LockRows, Recheck, Following
  <2> QED  BY <2>1
<1>13. ASSUME NEW g \in {"pause", "end"}, Checkpoint(r, g)
       PROVE  pc[r] = "run" /\ pc'[r] \notin {"keep", "insert"}
  BY <1>a, <1>13 DEF TypeOK, Checkpoint, Following
<1>18. CASE Lose(r) \/ Victim(r)
  BY <1>0, <1>18 DEF Lose, Victim
<1> QED
  BY <1>1, <1>2, <1>3, <1>4, <1>5, <1>6, <1>7, <1>9, <1>10, <1>13, <1>18 DEF Acts, Step

LEMMA AdditionsKept ==
    ASSUME SessionAssumption, Inv, Additions, [Next]_vars
    PROVE  Additions'
<1>a. Exclusive /\ TypeOK
  BY DEF Inv
<1>1. ASSUME NEW r \in Requests, Acts(r)
      PROVE  Additions'
  <2>1. Apart(r) /\ Effect(r)
    BY <1>1, <1>a, ActsApart, Effects
  <2>2. ASSUME NEW b \in DOMAIN pending'[r], session'[b] = NoRow, ~ pending'[r][b].revoked
        PROVE  /\ pc'[r] = "keep"
               /\ kind'[r] = "rotate" \/ (kind'[r] = "signin" /\ DOMAIN pending'[r] = {b})
    <3>1. Placed(r) /\ Written(r)
      BY DEF Inv, Paths
    <3>2. pc[r] # "keep" /\ ~ Publish(r)
      BY <1>1, <1>a, Admissions, NothingTyped DEF Publish, Writes, TypeOK
    <3>3. session' = session
      BY <2>1, <3>2 DEF Effect, Committed
    <3>4. CASE pending'[r] = pending[r]
      BY <2>2, <3>2, <3>3, <3>4 DEF Additions
    <3>5. CASE pc[r] = "insert" /\ WritesFresh(r)
      <4>1. kind[r] = "signin" /\ pc'[r] = "keep" /\ kind'[r] = kind[r]
        BY <1>1, <3>1, <3>5, Admissions DEF Placed, WritesFresh
      <4> QED  BY <3>5, <4>1 DEF WritesFresh
    <3>6. CASE pc[r] = "replace" /\ WritesHeir(r)
      BY <1>1, <3>1, <3>6, Admissions DEF Placed, WritesHeir
    <3>7. CASE WritesOwn(r)
      <4>1. b = browser[r] /\ Live(session[b])
        BY <2>2, <3>7 DEF WritesOwn
      <4> QED  BY <2>2, <3>3, <4>1 DEF Live, NoRow
    <3> QED  BY <2>1, <2>2, <3>2, <3>4, <3>5, <3>6, <3>7 DEF Effect
  <2>3. ASSUME NEW q \in Requests \ {r}, NEW b \in DOMAIN pending'[q]
        PROVE  pending'[q] = pending[q] /\ session'[b] = session[b]
               /\ pc'[q] = pc[q] /\ kind'[q] = kind[q]
    BY <1>a, <2>1, WrittenUntouched DEF Apart
  <2> QED  BY <2>2, <2>3 DEF Additions
<1>2. CASE ChangeAccount \/ RevokeSource \/ Tick \/ UNCHANGED vars
  BY <1>2 DEF ChangeAccount, RevokeSource, Tick, vars, rows, Additions
<1> QED  BY <1>1, <1>2, Steps

\* What a transaction adds to the sessions that count is what it has written anew.
LEMMA PublishAdds ==
    ASSUME SessionAssumption, Inv, NEW r \in Requests, Publish(r), Apart(r),
           NEW b \in Members'
    PROVE  /\ \/ b \in Members
              \/ b \in DOMAIN pending[r] /\ session[b] = NoRow /\ ~ pending[r][b].revoked
           /\ b \notin revived /\ b \in Browsers
           /\ kind[r] = "rotate" /\ b \in DOMAIN pending[r] => browser[r] \notin revived
           /\ ~ session'[b].revoked
<1>1. /\ now' = now /\ source' = source /\ b \in Browsers /\ b \notin revived'
      /\ ~ session'[b].revoked /\ now < session'[b].ends /\ now < session'[b].idle
      /\ source /\ now < SourceEnds
  BY DEF Members, Live, Apart
<1>2. b \notin revived /\ (kind[r] = "rotate" /\ b \in DOMAIN pending[r] => browser[r] \notin revived)
  BY <1>1 DEF Publish
<1>3. session'[b] = Sees(r, b)
  BY <1>1 DEF Publish
<1>4. CASE b \notin DOMAIN pending[r]
  BY <1>1, <1>2, <1>3, <1>4 DEF Sees, Members, Live
<1>5. CASE b \in DOMAIN pending[r] /\ session[b] # NoRow
  <2>1. session'[b] = pending[r][b]
    BY <1>3, <1>5 DEF Sees
  <2>2. Later(session[b], pending[r][b])
    BY <1>5 DEF Inv, Advancing
  <2>3. ~ (session[b].idle <= now)
    BY <1>1, <1>5, <2>1 DEF Publish
  <2>4. session[b] \in Row /\ now \in Nat
    BY <1>1 DEF Inv, TypeOK
  <2>5. now < session[b].idle /\ ~ session[b].revoked /\ now < session[b].ends
    BY <1>1, <2>1, <2>2, <2>3, <2>4 DEF Later, Row
  <2> QED  BY <1>1, <1>2, <2>5 DEF Members, Live
<1>6. CASE b \in DOMAIN pending[r] /\ session[b] = NoRow
  BY <1>1, <1>2, <1>3, <1>6 DEF Sees
<1> QED  BY <1>4, <1>5, <1>6

\* No other step adds one.
LEMMA OthersAddNone ==
    ASSUME TypeOK, TypeOK', UNCHANGED Committed, now <= now', source' => source
    PROVE  Members' \subseteq Members
<1> SUFFICES ASSUME NEW b \in Members'
             PROVE  b \in Members
  OBVIOUS
<1>1. /\ session' = session /\ revived' = revived /\ now \in Nat /\ now' \in Nat
  BY DEF TypeOK, Committed
<1>2. /\ b \in Browsers /\ b \notin revived /\ session[b] \in Row
      /\ ~ session[b].revoked /\ now' < session[b].ends /\ now' < session[b].idle
      /\ source /\ now' < SourceEnds
  BY <1>1 DEF Members, Live, TypeOK
<1>3. SourceEnds \in Nat
  BY SessionAssumption DEF SessionAssumption
<1>4. now < session[b].ends /\ now < session[b].idle /\ now < SourceEnds
  BY <1>1, <1>2, <1>3 DEF Row
<1> QED  BY <1>2, <1>4 DEF Members, Live

\* A request whose statement stays keeps its room when no session is added.
LEMMA RoomStays ==
    ASSUME SessionAssumption, NEW q \in Requests, Room(q), Members' \subseteq Members,
           revived \subseteq revived', pc'[q] = pc[q], kind'[q] = kind[q], browser'[q] = browser[q]
    PROVE  Room(q)'
<1> PICK L, M : L = Members /\ M = Members'
  OBVIOUS
<1>1. L \in SUBSET Browsers /\ M \in SUBSET L /\ Limit \in Nat
  BY DEF Members, SessionAssumption
<1>2. /\ Cardinality(L) \in Nat /\ Cardinality(M) \in Nat /\ Cardinality(M) <= Cardinality(L)
  BY <1>1, Counting
<1>3. PICK b : b = browser[q]
  OBVIOUS
<1>4. L \ {b} \in SUBSET Browsers /\ M \ {b} \in SUBSET (L \ {b})
  BY <1>1
<1>5. /\ Cardinality(L \ {b}) \in Nat /\ Cardinality(M \ {b}) \in Nat
      /\ Cardinality(M \ {b}) <= Cardinality(L \ {b})
  BY <1>4, Counting
<1>6. pc'[q] = "insert" \/ (pc'[q] = "keep" /\ kind'[q] = "signin") => Cardinality(Members') < Limit
  BY <1>1, <1>2 DEF Room
<1>7. pc'[q] = "keep" /\ kind'[q] = "rotate" /\ browser'[q] \notin revived' =>
          Cardinality(Members' \ {browser'[q]}) < Limit
  <2>1. CASE pc'[q] = "keep" /\ kind'[q] = "rotate" /\ browser'[q] \notin revived'
    <3>1. Cardinality(L \ {b}) < Limit
      BY <1>3, <2>1 DEF Room
    <3>2. Cardinality(M \ {b}) < Limit
      BY <1>1, <1>5, <3>1
    <3> QED  BY <1>3, <3>2
  <2> QED  BY <2>1
<1> QED  BY <1>6, <1>7 DEF Room

\* The room a request has found when it goes on.
LEMMA RoomFound ==
    ASSUME SessionAssumption, Inv, Admission, NEW r \in Requests, Acts(r), UNCHANGED Committed,
           Apart(r)
    PROVE  Room(r)'
<1> PICK L : L = Members
  OBVIOUS
<1>1. /\ L \in SUBSET Browsers /\ Limit \in Nat /\ Cardinality(L) <= Limit
      /\ Members' = L /\ Cardinality(L) \in Nat
  <2>1. L \in SUBSET Browsers /\ Limit \in Nat /\ Members' = L
    BY DEF Members, Live, Committed, Apart, SessionAssumption
  <2>2. Cardinality(L) <= Limit
    BY DEF Members, Admission, AdmissionIsLimited
  <2> QED  BY <2>1, <2>2, Counting
<1>2. ASSUME pc'[r] = "insert"
      PROVE  Cardinality(L) < Limit
  <2>1. PICK P : P = {b \in Browsers : Live(session[b])}
    OBVIOUS
  <2>2. Cardinality(P) < Limit
    BY <1>2, <2>1, Admissions DEF Population
  <2>3. P \in SUBSET Browsers /\ L \in SUBSET P
    BY <2>1 DEF Members
  <2>4. Cardinality(P) \in Nat /\ Cardinality(L) \in Nat /\ Cardinality(L) <= Cardinality(P)
    BY <2>3, Counting
  <2> QED  BY <1>1, <2>2, <2>4
<1>3. ASSUME pc'[r] = "keep", kind'[r] = "signin"
      PROVE  Cardinality(L) < Limit
  BY <1>3, Admissions DEF Admission, Room
<1>4. ASSUME pc'[r] = "keep", kind'[r] = "rotate", browser'[r] \notin revived'
      PROVE  Cardinality(L \ {browser'[r]}) < Limit
  <2>1. /\ browser' = browser /\ revived' = revived /\ browser[r] \in Browsers
        /\ Live(session[browser[r]])
    BY <1>4, Rotates DEF WritesHeir, Committed
  <2>2. browser[r] \in L
    BY <1>4, <2>1 DEF Members
  <2> QED  BY <1>1, <2>1, <2>2, OneLess
<1> QED  BY <1>1, <1>2, <1>3, <1>4 DEF Room

\* No more sessions than the limit when a sign-in or a rotation has added its own.
LEMMA AddedLimited ==
    ASSUME SessionAssumption, Inv, Admission, NEW r \in Requests, Publish(r), Apart(r)
    PROVE  /\ AdmissionIsLimited'
           /\ ~ (pc[r] = "keep" /\ kind[r] \in {"signin", "rotate"}) => Members' \subseteq Members
<1> PICK L, M : L = Members /\ M = Members'
  OBVIOUS
<1>1. /\ L \in SUBSET Browsers /\ M \in SUBSET Browsers /\ Limit \in Nat
      /\ Cardinality(L) <= Limit /\ Cardinality(L) \in Nat /\ Cardinality(M) \in Nat
  <2>1. L \in SUBSET Browsers /\ M \in SUBSET Browsers /\ Limit \in Nat
    BY DEF Members, SessionAssumption
  <2>2. Cardinality(L) <= Limit
    BY DEF Members, Admission, AdmissionIsLimited
  <2> QED  BY <2>1, <2>2, Counting
<1>2. ASSUME M \subseteq L
      PROVE  Cardinality(M) <= Limit
  BY <1>1, <1>2, Counting
<1>3. ASSUME NEW b \in M, b \notin L
      PROVE  /\ b \in DOMAIN pending[r] /\ session[b] = NoRow /\ ~ pending[r][b].revoked
             /\ pc[r] = "keep" /\ kind[r] \in {"signin", "rotate"}
             /\ kind[r] = "signin" => DOMAIN pending[r] = {b}
  BY <1>3, PublishAdds DEF Admission, Additions
<1>4. ASSUME NEW b \in M, b \notin L, kind[r] = "signin"
      PROVE  Cardinality(M) <= Limit
  <2>1. Cardinality(L) < Limit
    BY <1>3, <1>4 DEF Admission, Room
  <2>2. M \in SUBSET (L \cup {b})
    BY <1>3, <1>4
  <2>3. b \in Browsers
    BY <1>1, <1>4
  <2> QED  BY <1>1, <2>1, <2>2, <2>3, OneMore
<1>5. ASSUME NEW b \in M, b \notin L, kind[r] = "rotate"
      PROVE  Cardinality(M) <= Limit
  <2>1. pc[r] = "keep" /\ b \in DOMAIN pending[r] /\ browser[r] \notin revived
    BY <1>3, <1>5, PublishAdds
  <2>2. Rotated(r)
    BY DEF Inv, Rotations
  <2>3. PICK x \in Browsers \ {browser[r]} :
            DOMAIN pending[r] = {browser[r], x} /\ pending[r][browser[r]].revoked
    BY <1>5, <2>1, <2>2 DEF Rotated
  <2>4. PICK old : old = browser[r]
    OBVIOUS
  <2>5. b = x
    BY <1>3, <1>5, <2>3
  <2>6. old \notin M
    <3>1. ASSUME old \in M
          PROVE  FALSE
      <4>1. ~ session'[old].revoked /\ old \in Browsers
        BY <3>1, PublishAdds
      <4>2. session'[old] = pending[r][old]
        BY <2>3, <2>4, <4>1 DEF Publish, Sees
      <4> QED  BY <2>3, <2>4, <4>1, <4>2
    <3> QED  BY <3>1
  <2>7. ASSUME NEW y \in M, y \notin L
        PROVE  y = b
    <3>1. y \in {old, x}
      BY <1>3, <2>3, <2>4, <2>7
    <3> QED  BY <2>5, <2>6, <2>7, <3>1
  <2>8. M \in SUBSET ((L \ {old}) \cup {b})
    BY <2>6, <2>7
  <2>9. Cardinality(L \ {old}) < Limit
    BY <1>5, <2>1, <2>4 DEF Admission, Room
  <2>10. L \ {old} \in SUBSET Browsers /\ b \in Browsers
    BY <1>1, <1>5
  <2> QED  BY <2>8, <2>9, <2>10, OneMore
<1>6. Cardinality(M) <= Limit
  BY <1>2, <1>3, <1>4, <1>5
<1>7. AdmissionIsLimited' <=> Cardinality(M) <= Limit
  BY DEF AdmissionIsLimited, Members
<1> QED  BY <1>3, <1>6, <1>7

LEMMA AdmissionKept ==
    ASSUME SessionAssumption, Inv, Admission, [Next]_vars
    PROVE  Admission'
<1>a. TypeOK /\ TypeOK' /\ Additions'
  BY AdditionsKept, TypesKept DEF Inv, Admission
<1>b. \A q \in Requests : Room(q)
  BY DEF Admission
<1>c. ASSUME Members' \subseteq Members
      PROVE  AdmissionIsLimited'
  <2> PICK L, M : L = Members /\ M = Members'
    OBVIOUS
  <2>1. L \in SUBSET Browsers /\ M \in SUBSET L /\ Limit \in Nat
    BY <1>c DEF Members, SessionAssumption
  <2>2. Cardinality(L) \in Nat /\ Cardinality(M) \in Nat /\ Cardinality(M) <= Cardinality(L)
    BY <2>1, Counting
  <2>3. Cardinality(L) <= Limit
    BY DEF Members, Admission, AdmissionIsLimited
  <2>4. Cardinality(M) <= Limit
    BY <2>1, <2>2, <2>3
  <2> QED  BY <2>4 DEF Members, AdmissionIsLimited
<1>1. ASSUME NEW r \in Requests, Acts(r)
      PROVE  Admission'
  <2>1. Apart(r) /\ Effect(r)
    BY <1>1, <1>a, ActsApart, Effects
  <2>2. CASE UNCHANGED Committed
    <3>1. Members' \subseteq Members /\ revived \subseteq revived'
      <4>1. now \in Nat /\ now' = now /\ source' = source
        BY <1>a, <2>1 DEF Apart, TypeOK
      <4>2. now <= now'
        BY <4>1
      <4> QED  BY <1>a, <2>2, <4>1, <4>2, OthersAddNone DEF Committed
    <3>2. ASSUME NEW q \in Requests \ {r}
          PROVE  Room(q)'
      BY <1>b, <2>1, <3>1, RoomStays DEF Apart
    <3>3. Room(r)'
      BY <1>1, <2>1, <2>2, RoomFound
    <3> QED  BY <1>a, <1>c, <3>1, <3>2, <3>3 DEF Admission
  <2>3. CASE pc[r] \in {"keep", "commit"} /\ Publish(r)
    <3>1. Room(r)'
      <4>1. pc'[r] # "insert" /\ pc'[r] # "keep"
        BY <1>1, <2>3, Admissions
      <4> QED  BY <4>1 DEF Room
    <3>2. AdmissionIsLimited'
      BY <2>1, <2>3, AddedLimited
    <3>3. revived \subseteq revived'
      BY <2>3 DEF Publish
    <3>4. ASSUME NEW q \in Requests \ {r}
          PROVE  Room(q)'
      <4>1. CASE pc[r] = "keep" /\ kind[r] \in {"signin", "rotate"}
        <5>1. userX = r /\ Holds(q) /\ Holds(r)
          BY <4>1 DEF Inv, Holding, Holds
        <5>2. ~ (\/ pc[q] = "insert"
                 \/ pc[q] = "keep" /\ kind[q] \in {"signin", "rotate"})
          BY <5>1 DEF Holds
        <5>3. pc'[q] = pc[q] /\ kind'[q] = kind[q]
          BY <2>1 DEF Apart
        <5> QED  BY <5>2, <5>3 DEF Room
      <4>2. CASE ~ (pc[r] = "keep" /\ kind[r] \in {"signin", "rotate"})
        <5>1. Members' \subseteq Members
          BY <2>1, <2>3, <4>2, AddedLimited
        <5> QED  BY <1>b, <2>1, <3>3, <5>1, RoomStays DEF Apart
      <4> QED  BY <4>1, <4>2
    <3> QED  BY <1>a, <3>1, <3>2, <3>4 DEF Admission
  <2> QED  BY <2>1, <2>2, <2>3 DEF Effect
<1>2. CASE ChangeAccount \/ RevokeSource \/ Tick \/ UNCHANGED vars
  <2>1. /\ UNCHANGED Committed /\ (source' => source) /\ UNCHANGED <<pc, kind, browser>>
        /\ now' = now \/ now' = now + 1
    BY <1>2 DEF ChangeAccount, RevokeSource, Tick, vars, rows, Committed
  <2>2. now <= now'
    BY <1>a, <2>1 DEF TypeOK
  <2>3. Members' \subseteq Members /\ revived \subseteq revived'
    BY <1>a, <2>1, <2>2, OthersAddNone DEF Committed
  <2>4. ASSUME NEW q \in Requests
        PROVE  Room(q)'
    BY <1>b, <2>1, <2>3, RoomStays
  <2> QED  BY <1>a, <1>c, <2>3, <2>4 DEF Admission
<1> QED  BY <1>1, <1>2, Steps

\* However many requests sign in and rotate, a user has no more sessions than the limit.
THEOREM AdmissionLimited == Spec => []AdmissionIsLimited
<1> USE SessionAssumption
<1>1. Init => Admission
  <2> SUFFICES ASSUME Init
               PROVE  Admission
    OBVIOUS
  <2>1. Additions
    BY NothingTyped DEF Init, Additions
  <2>2. \A r \in Requests : Room(r)
    BY DEF Init, Room
  <2>3. PICK L : L = Members
    OBVIOUS
  <2>4. L \in SUBSET Existing
    BY <2>3 DEF Init, Members, Live, NoRow
  <2>5. Existing \in SUBSET Browsers /\ Cardinality(Existing) <= Limit /\ Limit \in Nat
    BY DEF SessionAssumption
  <2>6. /\ Cardinality(L) \in Nat /\ Cardinality(Existing) \in Nat
        /\ Cardinality(L) <= Cardinality(Existing)
    BY <2>4, <2>5, Counting
  <2>7. Cardinality(L) <= Limit
    BY <2>5, <2>6
  <2>8. AdmissionIsLimited
    BY <2>3, <2>7 DEF Members, AdmissionIsLimited
  <2> QED  BY <2>1, <2>2, <2>8 DEF Admission
<1>2. Inv /\ Admission /\ [Next]_vars => Admission'
  BY AdmissionKept
<1>3. Admission => AdmissionIsLimited
  BY DEF Admission
<1> QED  BY <1>1, <1>2, <1>3, Invariance, PTL DEF Spec
=============================================================================
