------------------------- MODULE RecordWritesProofs -------------------------
(***************************************************************************)
(* Theorems about RecordWrites, for any number of sessions, keys, record    *)
(* variables, versions and boundaries.                                      *)
(*                                                                         *)
(* The proofs follow two kinds of values. A token is with one transaction,  *)
(* in the rows it holds and in its boundaries, and no committed row has it  *)
(* (Tokens, Holds, Saves). A version that is not committed is hidden: no    *)
(* other session's record variable has it, so a commit never turns a row    *)
(* into what a waiting or refused write had read (Secrets, Refusals).       *)
(***************************************************************************)
EXTENDS RecordWrites, SequenceTheorems, TLAPS

\* Nobody else's change is in the table without its writer.
Settled == \A k \in Keys : writer[k] = NoSession => row[k] = base[k]

\* Tokens are the own ones of running transactions.
Tokens ==
    /\ \A s \in Sessions : token[s] <= last
    /\ \A k \in Keys : base[k].owner <= last
    /\ \A s, t \in Sessions : token[s] # 0 /\ token[s] = token[t] => s = t
    /\ \A s \in Sessions, k \in Keys : token[s] # 0 => base[k].owner # token[s]

\* A row that a transaction holds has its token, or is gone.
Holds == \A s \in Sessions, k \in Keys : writer[k] = s => row[k].owner \in {0, token[s]}

\* So do the rows of a boundary p of s, which were held already.
IsBoundary(s, p) ==
    /\ p.token \in {0, token[s]}
    /\ \A k \in p.mine : writer[k] = s /\ p.row[k].owner \in {0, p.token}

\* An outer boundary p holds no more than an inner one q.
IsWithin(p, q) == p.token \in {0, q.token} /\ p.mine \subseteq q.mine

Saves ==
    \A s \in Sessions : \A i \in DOMAIN saved[s] :
        /\ IsBoundary(s, saved[s][i])
        /\ \A j \in DOMAIN saved[s] : i <= j => IsWithin(saved[s][i], saved[s][j])

\* The version v is one that s has written and not committed.
Hidden(s, v) ==
    \/ \E k \in Keys : writer[k] = s /\ row[k].there /\ row[k].version = v
    \/ \E i \in DOMAIN saved[s] : \E k \in saved[s][i].mine :
          saved[s][i].row[k].there /\ saved[s][i].row[k].version = v

Known(s, v) == Hidden(s, v) \/ \E b \in Buffers : stamp[s][b] = v

Public(v) == \E k \in Keys : base[k].there /\ base[k].version = v

Secrets ==
    /\ \A s \in Sessions, v \in Nat : Known(s, v) => v <= last
    /\ \A v \in Nat : Public(v) => v <= last
    /\ \A s \in Sessions, v \in Nat : Hidden(s, v) =>
          ~ Public(v) /\ \A t \in Sessions \ {s} : ~ Known(t, v)

\* What a refused write is refused for stays true until it is told.
Refusals ==
    \A s \in Sessions : call[s].at = "refused" =>
        LET r == Visible(s, call[s].key) IN r.there => r.version # stamp[s][call[s].buffer]

IInv == TypeOK /\ Settled /\ Tokens /\ Holds /\ Saves /\ Secrets /\ Refusals

----------------------------------------------------------------------------
(* Rows, calls and boundaries *)

LEMMA RowFields ==
    ASSUME NEW r \in Row
    PROVE  /\ r.there \in BOOLEAN /\ r.version \in Nat /\ r.owner \in Nat
           /\ r.there => r.version # 0
           /\ ~ r.there => r = Gone
<1>1. CASE r = Gone
  BY <1>1 DEF Gone
<1>2. CASE r \in [there : {TRUE}, version : Nat \ {0}, owner : Nat]
  BY <1>2
<1> QED
  BY <1>1, <1>2 DEF Row

LEMMA GoneIsRow == Gone \in Row /\ ~ Gone.there /\ Gone.owner = 0
BY DEF Row, Gone

LEMMA CallFields ==
    ASSUME NEW c \in Call
    PROVE  /\ c.at \in {"none", "waiting", "moving", "refused", "raised"}
           /\ c.at # "none" =>
                 /\ c.op \in Ops /\ c.buffer \in Buffers /\ c.key \in Keys /\ c.to \in Keys
BY DEF Call, Idle

LEMMA CallsFields ==
    ASSUME NEW s \in Sessions, NEW c \in Calls(s)
    PROVE  c.op \in Ops /\ c.buffer \in Buffers /\ c.key \in Keys /\ c.to \in Keys
<1>1. c \in [op : Ops, buffer : Variables[s], key : Keys, to : Keys]
  BY DEF Calls
<1>2. Variables[s] \subseteq Buffers
  BY RecordWritesAssumption
<1> QED
  BY <1>1, <1>2

LEMMA AtFields ==
    ASSUME NEW c, c.op \in Ops, c.buffer \in Buffers, c.key \in Keys, c.to \in Keys,
           NEW at \in {"waiting", "moving", "refused", "raised"}
    PROVE  /\ At(c, at) \in Call /\ At(c, at).at = at
           /\ At(c, at).key = c.key /\ At(c, at).buffer = c.buffer
BY DEF At, Call

LEMMA SaveFields ==
    ASSUME NEW p \in Save
    PROVE  /\ p.mine \subseteq Keys /\ p.token \in Nat
           /\ p.row \in [Keys -> Row]
BY DEF Save

LEMMA SavedFields ==
    ASSUME TypeOK, NEW s \in Sessions, NEW i \in DOMAIN saved[s]
    PROVE  /\ saved[s][i] \in Save
           /\ saved[s][i].mine \subseteq Keys /\ saved[s][i].token \in Nat
           /\ saved[s][i].row \in [Keys -> Row]
<1>1. saved[s] \in Seq(Save)
  BY DEF TypeOK
<1>2. saved[s][i] \in Save
  BY <1>1
<1> QED
  BY <1>2, SaveFields

\* Without its last element.
Shorter(q) == SubSeq(q, 1, Len(q) - 1)

LEMMA PrefixIsSeq ==
    ASSUME NEW q \in Seq(Save), NEW n \in 0..Len(q)
    PROVE  /\ SubSeq(q, 1, n) \in Seq(Save)
           /\ DOMAIN SubSeq(q, 1, n) = 1..n
           /\ \A i \in 1..n : SubSeq(q, 1, n)[i] = q[i]
<1>1. \A i \in 1..n : q[i] \in Save
  BY ElementOfSeq
<1>2. /\ SubSeq(q, 1, n) \in Seq(Save)
      /\ Len(SubSeq(q, 1, n)) = IF 1 <= n THEN n - 1 + 1 ELSE 0
      /\ \A i \in 1..(n - 1 + 1) : SubSeq(q, 1, n)[i] = q[1 + i - 1]
  BY <1>1, SubSeqProperties
<1>3. Len(SubSeq(q, 1, n)) = n
  BY <1>2
<1> QED
  BY <1>2, <1>3

LEMMA ShorterProperties ==
    ASSUME NEW q \in Seq(Save), q # <<>>
    PROVE  /\ Shorter(q) \in Seq(Save) /\ Len(q) \in DOMAIN q
           /\ \A i \in DOMAIN Shorter(q) :
                 i \in DOMAIN q /\ i <= Len(q) /\ Shorter(q)[i] = q[i]
<1>1. Len(q) \in Nat /\ Len(q) # 0 /\ DOMAIN q = 1..Len(q)
  BY EmptySeq
<1> DEFINE n == Len(q) - 1
<1>2. n \in 0..Len(q) /\ \A i \in 1..n : i \in 1..Len(q) /\ i <= Len(q)
  BY <1>1
<1>3. /\ SubSeq(q, 1, n) \in Seq(Save) /\ DOMAIN SubSeq(q, 1, n) = 1..n
      /\ \A i \in 1..n : SubSeq(q, 1, n)[i] = q[i]
  <2> HIDE DEF n
  <2> QED
    BY <1>2, PrefixIsSeq
<1>4. Len(q) \in DOMAIN q
  BY <1>1
<1> QED
  BY <1>1, <1>2, <1>3, <1>4 DEF Shorter

\* What a row written before the step tells about hidden versions.
LEMMA HiddenIsKnown ==
    ASSUME NEW s \in Sessions, NEW v \in Nat, Hidden(s, v)
    PROVE  Known(s, v)
BY DEF Known

----------------------------------------------------------------------------
(* Initially *)

LEMMA InitInv == ASSUME Init PROVE IInv
<1> USE RecordWritesAssumption
<1>1. \A k \in Keys : row[k] \in Row /\ row[k].owner = 0 /\ (row[k].there => row[k].version = FirstVersion)
  <2> DEFINE First == [there |-> TRUE, version |-> FirstVersion, owner |-> 0]
  <2>1. Gone \in Row /\ Gone.owner = 0 /\ ~ Gone.there
    BY GoneIsRow
  <2>2. First \in Row /\ First.owner = 0 /\ First.version = FirstVersion
    BY DEF Row
  <2>3. ASSUME NEW k \in Keys PROVE row[k] \in {Gone, First}
    BY DEF Init
  <2> HIDE DEF First
  <2> QED
    BY <2>1, <2>2, <2>3
<1>2. TypeOK
  <2>1. row \in [Keys -> Row]
    BY <1>1 DEF Init
  <2>2. <<>> \in Seq(Save)
    OBVIOUS
  <2> QED
    BY <2>1, <2>2 DEF TypeOK, Init, Call, Idle
<1>3. Settled /\ Tokens /\ Holds /\ Refusals
  BY <1>1 DEF Init, Settled, Tokens, Holds, Refusals, Idle
<1>4. \A s \in Sessions : \A i \in DOMAIN saved[s] : FALSE
  <2>1. \A s \in Sessions : saved[s] = <<>>
    BY DEF Init
  <2>2. <<>> \in Seq(Save) /\ Len(<<>>) = 0
    BY EmptySeq
  <2>3. DOMAIN <<>> = 1..0 /\ \A i \in 1..0 : FALSE
    BY <2>2
  <2> QED
    BY <2>1, <2>3
<1>5. Saves
  BY <1>4 DEF Saves
<1>6. \A s \in Sessions, v \in Nat : ~ Hidden(s, v)
  BY <1>4 DEF Init, Hidden
<1>7. \A s \in Sessions, v \in Nat : Known(s, v) => v = 0
  BY <1>6 DEF Init, Known
<1>8. Secrets
  BY <1>1, <1>6, <1>7 DEF Init, Secrets, Public
<1> QED
  BY <1>2, <1>3, <1>5, <1>8 DEF IInv

----------------------------------------------------------------------------
(* Reading, and what only moves a call *)

\* A step that leaves the table and the boundaries alone.
LEMMA SessionsSame ==
    ASSUME IInv, UNCHANGED <<row, base, writer, last, token, saved>>
    PROVE  /\ Settled' /\ Tokens' /\ Holds' /\ Saves'
           /\ \A s \in Sessions, v \in Nat : Hidden(s, v)' <=> Hidden(s, v)
           /\ \A v \in Nat : Public(v)' <=> Public(v)
           /\ \A s \in Sessions, k \in Keys : Visible(s, k)' = Visible(s, k)
<1>1. Settled' /\ Tokens' /\ Holds'
  BY DEF IInv, Settled, Tokens, Holds
<1>2. Saves'
  BY DEF IInv, Saves, IsBoundary, IsWithin
<1> QED
  BY <1>1, <1>2 DEF Hidden, Public, Visible

LEMMA CallStep ==
    ASSUME IInv, NEW s \in Sessions, NEW c \in Call,
           call' = [call EXCEPT ![s] = c],
           c.at = "refused" => LET r == Visible(s, c.key) IN
                               r.there => r.version # stamp[s][c.buffer],
           failed' \in [Sessions -> BOOLEAN],
           UNCHANGED <<row, base, writer, last, token, saved, stamp>>
    PROVE  IInv'
<1>1. TypeOK'
  BY DEF IInv, TypeOK
<1>2. /\ Settled' /\ Tokens' /\ Holds' /\ Saves'
      /\ \A t \in Sessions, v \in Nat : Hidden(t, v)' <=> Hidden(t, v)
      /\ \A v \in Nat : Public(v)' <=> Public(v)
      /\ \A t \in Sessions, k \in Keys : Visible(t, k)' = Visible(t, k)
  BY SessionsSame
<1>3. \A t \in Sessions, v \in Nat : Known(t, v)' <=> Known(t, v)
  BY <1>2 DEF Known
<1>4. Secrets'
  BY <1>2, <1>3 DEF IInv, Secrets
<1>5. ASSUME NEW t \in Sessions, call'[t].at = "refused"
      PROVE  LET r == Visible(t, call[t].key)' IN r.there => r.version # stamp'[t][call'[t].buffer]
  <2>1. CASE t = s
    <3>1. call'[t] = c
      BY <2>1 DEF IInv, TypeOK
    <3>2. c.key \in Keys
      BY <1>5, <3>1, CallFields
    <3> QED
      BY <1>2, <1>5, <2>1, <3>1, <3>2
  <2>2. CASE t # s
    <3>1. call'[t] = call[t] /\ call[t] \in Call
      BY <2>2 DEF IInv, TypeOK
    <3>2. call[t].key \in Keys
      BY <1>5, <3>1, CallFields
    <3> QED
      BY <1>2, <1>5, <3>1, <3>2 DEF IInv, Refusals
  <2> QED
    BY <2>1, <2>2
<1>6. Refusals'
  BY <1>5 DEF Refusals
<1> QED
  BY <1>1, <1>2, <1>4, <1>6 DEF IInv

----------------------------------------------------------------------------
(* Writing *)

\* A write of s at k that nobody else is changing, whether it stores a row or removes it.
LEMMA OwnWriteStep ==
    ASSUME IInv, NEW s \in Sessions, NEW k \in Keys, NEW r \in Row, NEW tok \in Nat,
           writer[k] \in {NoSession, s},
           row' = [row EXCEPT ![k] = r], writer' = [writer EXCEPT ![k] = s],
           token' = [token EXCEPT ![s] = tok],
           last' \in {last, last + 1},
           r.there => r.version = last + 1 /\ last' = last + 1,
           tok = token[s] \/ (token[s] = 0 /\ tok = last + 1 /\ last' = last + 1),
           r.owner \in {0, tok},
           stamp' \in [Sessions -> [Buffers -> Nat]],
           \A t \in Sessions \ {s} : stamp'[t] = stamp[t],
           \A b \in Buffers :
               stamp'[s][b] = stamp[s][b] \/ (stamp'[s][b] = last + 1 /\ last' = last + 1),
           NEW d \in Call, d.at # "refused", call' = [call EXCEPT ![s] = d],
           UNCHANGED <<base, saved, failed>>
    PROVE  IInv'
<1> USE RecordWritesAssumption
<1>a. /\ row \in [Keys -> Row] /\ base \in [Keys -> Row] /\ last \in Nat \ {0}
      /\ writer \in [Keys -> Sessions \cup {NoSession}] /\ token \in [Sessions -> Nat]
      /\ call \in [Sessions -> Call] /\ stamp \in [Sessions -> [Buffers -> Nat]]
  BY DEF IInv, TypeOK
<1>b. /\ row'[k] = r /\ writer'[k] = s /\ token'[s] = tok /\ call'[s] = d
      /\ \A l \in Keys \ {k} : row'[l] = row[l] /\ writer'[l] = writer[l]
      /\ \A t \in Sessions \ {s} : token'[t] = token[t] /\ call'[t] = call[t]
      /\ base' = base /\ saved' = saved
  BY <1>a
<1>1. TypeOK'
  BY <1>a DEF IInv, TypeOK
<1>2. Settled'
  BY <1>b DEF IInv, Settled
<1>3. Tokens'
  <2>1. \A t \in Sessions : token'[t] <= last'
    BY <1>a, <1>b DEF IInv, Tokens
  <2>2. \A l \in Keys : base'[l].owner <= last'
    <3>1. \A l \in Keys : base[l].owner \in Nat /\ base[l].owner <= last
      BY <1>a, RowFields DEF IInv, Tokens
    <3> QED
      BY <1>a, <1>b, <3>1
  <2>3. \A t \in Sessions, l \in Keys : token'[t] # 0 => base'[l].owner # token'[t]
    <3>1. \A l \in Keys : base[l].owner \in Nat /\ base[l].owner <= last
      BY <1>a, RowFields DEF IInv, Tokens
    <3> QED
      BY <1>a, <1>b, <3>1 DEF IInv, Tokens
  <2>4. \A t, u \in Sessions : token'[t] # 0 /\ token'[t] = token'[u] => t = u
    BY <1>a, <1>b DEF IInv, Tokens
  <2> QED
    BY <2>1, <2>2, <2>3, <2>4 DEF Tokens
<1>4. Holds'
  <2>1. ASSUME NEW t \in Sessions, NEW l \in Keys, writer'[l] = t
        PROVE  row'[l].owner \in {0, token'[t]}
    <3>1. CASE l = k
      BY <1>b, <2>1, <3>1
    <3>2. CASE l # k
      <4>1. row[l].owner \in {0, token[t]}
        BY <1>b, <2>1, <3>2 DEF IInv, Holds
      <4> QED
        BY <1>b, <3>2, <4>1
    <3> QED
      BY <3>1, <3>2
  <2> QED
    BY <2>1 DEF Holds
<1>5. Saves'
  <2>1. ASSUME NEW t \in Sessions, NEW i \in DOMAIN saved[t]
        PROVE  IsBoundary(t, saved[t][i])'
    <3>1. IsBoundary(t, saved[t][i])
      BY DEF IInv, Saves
    <3>2. saved[t][i].mine \subseteq Keys
      BY SavedFields DEF IInv
    <3>3. \A l \in saved[t][i].mine : writer'[l] = t
      BY <1>b, <3>1, <3>2 DEF IsBoundary
    <3>4. saved[t][i].token \in {0, token'[t]}
      BY <1>b, <3>1 DEF IsBoundary
    <3> QED
      BY <1>b, <3>1, <3>3, <3>4 DEF IsBoundary
  <2> QED
    BY <1>b, <2>1 DEF IInv, Saves, IsWithin
<1>6. \A t \in Sessions, v \in Nat :
         Hidden(t, v)' => Hidden(t, v) \/ (t = s /\ v = last + 1 /\ last' = last + 1)
  <2> SUFFICES ASSUME NEW t \in Sessions, NEW v \in Nat, Hidden(t, v)', ~ Hidden(t, v)
               PROVE  t = s /\ v = last + 1 /\ last' = last + 1
    OBVIOUS
  <2>1. PICK l \in Keys : writer'[l] = t /\ row'[l].there /\ row'[l].version = v
    BY <1>b DEF Hidden
  <2>2. l = k
    BY <1>b, <2>1 DEF Hidden
  <2> QED
    BY <1>b, <2>1, <2>2
<1>7. \A t \in Sessions, v \in Nat :
         Known(t, v)' => Known(t, v) \/ (t = s /\ v = last + 1 /\ last' = last + 1)
  BY <1>6 DEF Known
<1>8. \A v \in Nat : Public(v)' <=> Public(v)
  BY <1>b DEF Public
<1>9. Secrets'
  <2>1. \A t \in Sessions, v \in Nat : Known(t, v)' => v <= last'
    BY <1>a, <1>7 DEF IInv, Secrets
  <2>2. \A v \in Nat : Public(v)' => v <= last'
    BY <1>a, <1>8 DEF IInv, Secrets
  <2>3. ~ Public(last + 1) /\ \A t \in Sessions : ~ Known(t, last + 1)
    BY <1>a DEF IInv, Secrets
  <2>4. ASSUME NEW t \in Sessions, NEW v \in Nat, Hidden(t, v)'
        PROVE  ~ Public(v)' /\ \A u \in Sessions \ {t} : ~ Known(u, v)'
    <3>1. CASE Hidden(t, v)
      <4>1. v # last + 1
        BY <2>3, <3>1, HiddenIsKnown
      <4> QED
        BY <1>7, <1>8, <3>1, <4>1 DEF IInv, Secrets
    <3>2. CASE t = s /\ v = last + 1
      BY <1>7, <1>8, <2>3, <3>2
    <3> QED
      BY <1>6, <2>4, <3>1, <3>2
  <2> QED
    BY <2>1, <2>2, <2>4 DEF Secrets
<1>10. Refusals'
  <2>1. ASSUME NEW t \in Sessions, call'[t].at = "refused"
        PROVE  LET q == Visible(t, call[t].key)' IN q.there => q.version # stamp'[t][call'[t].buffer]
    <3>1. t # s
      BY <1>b, <2>1
    <3>2. call'[t] = call[t] /\ call[t] \in Call /\ call[t].key \in Keys
      BY <1>a, <1>b, <2>1, <3>1, CallFields
    <3>3. Visible(t, call[t].key)' = Visible(t, call[t].key)
      BY <1>b, <3>1, <3>2 DEF Visible
    <3> QED
      BY <2>1, <3>1, <3>2, <3>3 DEF IInv, Refusals
  <2> QED
    BY <2>1 DEF Refusals
<1> QED
  BY <1>1, <1>2, <1>3, <1>4, <1>5, <1>9, <1>10 DEF IInv

\* The two writes of a record variable.
LEMMA PutStep ==
    ASSUME IInv, NEW s \in Sessions, NEW b \in Buffers, NEW k \in Keys,
           writer[k] \in {NoSession, s}, Put(s, b, k)
    PROVE  IInv'
<1>a. /\ last \in Nat \ {0} /\ token \in [Sessions -> Nat]
      /\ stamp \in [Sessions -> [Buffers -> Nat]]
  BY DEF IInv, TypeOK
<1> DEFINE r == [there |-> TRUE, version |-> last + 1, owner |-> Token(s)]
<1>1. Token(s) \in Nat
  BY <1>a DEF Token
<1>2. r \in Row /\ r.owner = Token(s) /\ r.version = last + 1
  BY <1>a, <1>1 DEF Row
<1>3. Token(s) = token[s] \/ (token[s] = 0 /\ Token(s) = last + 1)
  BY DEF Token
<1>4. /\ row' = [row EXCEPT ![k] = r] /\ writer' = [writer EXCEPT ![k] = s]
      /\ token' = [token EXCEPT ![s] = Token(s)] /\ last' = last + 1
      /\ stamp' = [stamp EXCEPT ![s][b] = last + 1]
      /\ call' = [call EXCEPT ![s] = Idle] /\ UNCHANGED <<base, saved, failed>>
  BY DEF Put
<1>5. /\ stamp' \in [Sessions -> [Buffers -> Nat]]
      /\ \A t \in Sessions \ {s} : stamp'[t] = stamp[t]
      /\ \A c \in Buffers : stamp'[s][c] = stamp[s][c] \/ stamp'[s][c] = last + 1
  BY <1>a, <1>4
<1>6. Idle \in Call /\ Idle.at # "refused"
  BY DEF Call, Idle
<1> HIDE DEF r
<1> QED
  BY <1>1, <1>2, <1>3, <1>4, <1>5, <1>6, OwnWriteStep

LEMMA RemoveStep ==
    ASSUME IInv, NEW s \in Sessions, NEW k \in Keys, NEW d \in Call, d.at # "refused",
           writer[k] \in {NoSession, s}, Remove(s, k, d)
    PROVE  IInv'
<1>1. /\ token \in [Sessions -> Nat] /\ stamp \in [Sessions -> [Buffers -> Nat]]
      /\ token[s] \in Nat /\ token = [token EXCEPT ![s] = token[s]]
  BY DEF IInv, TypeOK
<1>2. /\ row' = [row EXCEPT ![k] = Gone] /\ writer' = [writer EXCEPT ![k] = s]
      /\ token' = [token EXCEPT ![s] = token[s]] /\ last' = last /\ stamp' = stamp
      /\ call' = [call EXCEPT ![s] = d] /\ UNCHANGED <<base, saved, failed>>
  BY <1>1 DEF Remove, session
<1> QED
  BY <1>1, <1>2, GoneIsRow, OwnWriteStep

\* What a statement that is not kept waiting does with the row as it is.
LEMMA ExecutesStep ==
    ASSUME IInv, NEW s \in Sessions, NEW c, c.buffer \in Buffers, c.key \in Keys,
           c.op \in Ops, c.to \in Keys,
           writer[c.key] \in {NoSession, s}, Executes(s, c, Visible(s, c.key))
    PROVE  IInv'
<1> DEFINE r == Visible(s, c.key)
<1>1. CASE InsertRow(s, c, r) \/ ModifyRow(s, c, r)
  BY <1>1, PutStep DEF InsertRow, ModifyRow
<1>2. CASE DeleteRow(s, c, r) \/ RenameRow(s, c, r)
  <2>1. Idle \in Call /\ Idle.at # "refused"
    BY DEF Call, Idle
  <2>2. At(c, "moving") \in Call /\ At(c, "moving").at # "refused"
    BY AtFields
  <2> QED
    BY <1>2, <2>1, <2>2, RemoveStep DEF DeleteRow, RenameRow
<1>3. CASE InsertsNothing(s, c, r)
  <2>1. Idle \in Call /\ Idle.at # "refused"
    BY DEF Call, Idle
  <2>2. failed \in [Sessions -> BOOLEAN]
    BY DEF IInv, TypeOK
  <2> QED
    BY <1>3, <2>1, <2>2, CallStep DEF InsertsNothing, table, session
<1>4. CASE ChangesNothing(s, c, r)
  <2> DEFINE d == At(c, "refused")
  <2>1. d \in Call /\ d.key = c.key /\ d.buffer = c.buffer
    BY AtFields
  <2>2. failed \in [Sessions -> BOOLEAN]
    BY DEF IInv, TypeOK
  <2>3. r.there => r.version # stamp[s][c.buffer]
    BY <1>4 DEF ChangesNothing, WritePredicate
  <2>4. /\ call' = [call EXCEPT ![s] = d] /\ failed' = failed
        /\ UNCHANGED <<row, base, writer, last, token, saved, stamp>>
    BY <1>4 DEF ChangesNothing, Goes, table, session
  <2> HIDE DEF d
  <2> QED
    BY <2>1, <2>2, <2>3, <2>4, CallStep
<1> QED
  BY <1>1, <1>2, <1>3, <1>4 DEF Executes

\* Every step inside a write.
LEMMA WritesStep ==
    ASSUME IInv, NEW s \in Sessions, Writes(s)
    PROVE  IInv'
<1>a. /\ call \in [Sessions -> Call] /\ failed \in [Sessions -> BOOLEAN]
      /\ Idle \in Call /\ Idle.at = "none"
  BY DEF IInv, TypeOK, Call, Idle
<1>1. ASSUME NEW c \in Calls(s), Write(s, c) PROVE IInv'
  BY <1>1, CallsFields, ExecutesStep DEF Write
<1>2. ASSUME NEW c \in Calls(s), WriteMeetsChange(s, c) PROVE IInv'
  <2>1. c.op \in Ops /\ c.buffer \in Buffers /\ c.key \in Keys /\ c.to \in Keys
    BY CallsFields
  <2>2. Visible(s, c.key) = base[c.key]
    BY <1>2 DEF WriteMeetsChange, Visible
  <2>3. PICK at \in {"waiting", "refused"} :
            /\ Goes(s, c, at)
            /\ at = "refused" => ~ WritePredicate(s, c.buffer, base[c.key])
    BY <1>2 DEF WriteMeetsChange, ChangesNothing
  <2> DEFINE d == At(c, at)
  <2>4. d \in Call /\ d.key = c.key /\ d.buffer = c.buffer /\ d.at = at
    BY <2>1, AtFields
  <2>5. /\ call' = [call EXCEPT ![s] = d] /\ failed' = failed
        /\ UNCHANGED <<row, base, writer, last, token, saved, stamp>>
    BY <2>3 DEF Goes, table, session
  <2>6. at = "refused" => (base[c.key].there => base[c.key].version # stamp[s][c.buffer])
    BY <2>3 DEF WritePredicate
  <2> HIDE DEF d
  <2> QED
    BY <1>a, <2>2, <2>4, <2>5, <2>6, CallStep
<1>3. CASE Resume(s)
  <2> DEFINE c == call[s]
  <2>1. c \in Call /\ c.at = "waiting" /\ writer[c.key] = NoSession /\ Executes(s, c, row[c.key])
    BY <1>a, <1>3 DEF Resume
  <2>2. c.op \in Ops /\ c.buffer \in Buffers /\ c.key \in Keys /\ c.to \in Keys
    BY <2>1, CallFields
  <2>3. Visible(s, c.key) = row[c.key]
    BY <2>1, <2>2, RecordWritesAssumption DEF IInv, Settled, Visible
  <2> HIDE DEF c
  <2> QED
    BY <2>1, <2>2, <2>3, ExecutesStep
<1>4. ASSUME NEW c \in Call, c.at # "refused", call' = [call EXCEPT ![s] = c],
             failed' \in [Sessions -> BOOLEAN],
             UNCHANGED <<row, base, writer, last, token, saved, stamp>>
      PROVE  IInv'
  BY <1>4, CallStep
<1>5. CASE RefuseStaleWrite(s)
  <2> DEFINE c == call[s]
             d == At(c, "raised")
  <2>1. c \in Call /\ c.at = "refused"
    BY <1>a, <1>5 DEF RefuseStaleWrite
  <2>2. c.op \in Ops /\ c.buffer \in Buffers /\ c.key \in Keys /\ c.to \in Keys
    BY <2>1, CallFields
  <2>3. d \in Call /\ d.at # "refused"
    BY <2>2, AtFields
  <2>4. /\ call' = [call EXCEPT ![s] = d] \/ call' = [call EXCEPT ![s] = Idle]
        /\ failed' = failed /\ UNCHANGED <<row, base, writer, last, token, saved, stamp>>
    BY <1>5 DEF RefuseStaleWrite, Goes, table, session
  <2> HIDE DEF d
  <2> QED
    BY <1>a, <1>4, <2>3, <2>4
<1>6. CASE StatementFails(s)
  <2>1. failed' \in [Sessions -> BOOLEAN]
    BY <1>a, <1>6 DEF StatementFails
  <2> QED
    BY <1>a, <1>4, <1>6, <2>1 DEF StatementFails, table
<1>7. CASE Catch(s)
  BY <1>a, <1>4, <1>7 DEF Catch, table, session
<1>8. CASE Place(s)
  <2>1. call[s].buffer \in Buffers /\ call[s].to \in Keys
    BY <1>a, <1>8, CallFields DEF Place
  <2> QED
    BY <1>8, <2>1, PutStep DEF Place
<1> QED
  BY <1>1, <1>2, <1>3, <1>5, <1>6, <1>7, <1>8 DEF Writes

----------------------------------------------------------------------------
(* Reading *)

LEMMA ReadsStep ==
    ASSUME IInv, NEW s \in Sessions, Reads(s)
    PROVE  IInv'
<1>a. /\ row \in [Keys -> Row] /\ base \in [Keys -> Row]
      /\ call \in [Sessions -> Call] /\ stamp \in [Sessions -> [Buffers -> Nat]]
  BY DEF IInv, TypeOK
<1>1. PICK b \in Buffers, n \in Nat :
          /\ stamp' = [stamp EXCEPT ![s][b] = n] /\ (Known(s, n) \/ Public(n))
          /\ Running(s) /\ UNCHANGED <<row, base, writer, last, token, saved, failed, call>>
  <2>1. ASSUME NEW b \in Buffers, NEW k \in Keys, Get(s, b, k)
        PROVE  \E n \in Nat :
                  /\ stamp' = [stamp EXCEPT ![s][b] = n] /\ (Known(s, n) \/ Public(n))
                  /\ Running(s)
                  /\ UNCHANGED <<row, base, writer, last, token, saved, failed, call>>
    <3> DEFINE n == Visible(s, k).version
    <3>1. Visible(s, k) \in Row /\ Visible(s, k).there
      BY <1>a, <2>1 DEF Visible, Get
    <3>2. n \in Nat
      BY <3>1, RowFields
    <3>3. Known(s, n) \/ Public(n)
      BY <3>1 DEF Visible, Known, Hidden, Public
    <3>4. /\ stamp' = [stamp EXCEPT ![s][b] = n] /\ Running(s)
          /\ UNCHANGED <<row, base, writer, last, token, saved, failed, call>>
      BY <2>1 DEF Get, table, session
    <3> QED
      BY <3>2, <3>3, <3>4
  <2>2. ASSUME NEW b \in Buffers, NEW c \in Buffers, Assign(s, b, c)
        PROVE  \E n \in Nat :
                  /\ stamp' = [stamp EXCEPT ![s][b] = n] /\ (Known(s, n) \/ Public(n))
                  /\ Running(s)
                  /\ UNCHANGED <<row, base, writer, last, token, saved, failed, call>>
    <3>1. stamp[s][c] \in Nat /\ Known(s, stamp[s][c])
      BY <1>a DEF Known
    <3> QED
      BY <2>2, <3>1 DEF Assign, table, session
  <2>3. Variables[s] \subseteq Buffers
    BY RecordWritesAssumption
  <2> QED
    BY <2>1, <2>2, <2>3 DEF Reads
<1>2. /\ \A t \in Sessions \ {s} : stamp'[t] = stamp[t]
      /\ \A c \in Buffers : stamp'[s][c] \in {stamp[s][c], n}
      /\ stamp' \in [Sessions -> [Buffers -> Nat]]
  BY <1>a, <1>1
<1>3. TypeOK'
  BY <1>1, <1>2 DEF IInv, TypeOK
<1>4. /\ Settled' /\ Tokens' /\ Holds' /\ Saves'
      /\ \A t \in Sessions, v \in Nat : Hidden(t, v)' <=> Hidden(t, v)
      /\ \A v \in Nat : Public(v)' <=> Public(v)
      /\ \A t \in Sessions, k \in Keys : Visible(t, k)' = Visible(t, k)
  BY <1>1, SessionsSame
<1>5. \A t \in Sessions, v \in Nat : Known(t, v)' => Known(t, v) \/ (t = s /\ v = n)
  BY <1>2, <1>4 DEF Known
<1>6. Secrets'
  <2>1. \A t \in Sessions, v \in Nat : Known(t, v)' => v <= last'
    BY <1>1, <1>5 DEF IInv, Secrets
  <2>2. \A v \in Nat : Public(v)' => v <= last'
    BY <1>1, <1>4 DEF IInv, Secrets
  <2>3. \A t \in Sessions \ {s} : ~ Hidden(t, n)
    BY <1>1 DEF IInv, Secrets
  <2>4. ASSUME NEW t \in Sessions, NEW v \in Nat, Hidden(t, v)'
        PROVE  ~ Public(v)' /\ \A u \in Sessions \ {t} : ~ Known(u, v)'
    BY <1>4, <1>5, <2>3, <2>4 DEF IInv, Secrets
  <2> QED
    BY <2>1, <2>2, <2>4 DEF Secrets
<1>7. Refusals'
  <2>1. ASSUME NEW t \in Sessions, call'[t].at = "refused"
        PROVE  LET q == Visible(t, call[t].key)' IN q.there => q.version # stamp'[t][call'[t].buffer]
    <3>1. call'[t] = call[t] /\ t # s
      BY <1>1, <2>1 DEF Running, Idle
    <3>2. call[t].key \in Keys
      BY <1>a, <2>1, <3>1, CallFields
    <3> QED
      BY <1>2, <1>4, <2>1, <3>1, <3>2 DEF IInv, Refusals
  <2> QED
    BY <1>1, <2>1 DEF Refusals
<1> QED
  BY <1>3, <1>4, <1>6, <1>7 DEF IInv

----------------------------------------------------------------------------
(* Boundaries *)

\* Whatever goes back takes hidden versions away and shows none.
LEMMA UndoStep ==
    ASSUME IInv, NEW s \in Sessions, NEW p \in Save, NEW q \in Seq(Save),
           IsBoundary(s, p), Undo(s, p), saved' = [saved EXCEPT ![s] = q],
           \A k \in p.mine : p.row[k].there => Hidden(s, p.row[k].version),
           \A i \in DOMAIN q : i \in DOMAIN saved[s] /\ q[i] = saved[s][i] /\ IsWithin(q[i], p)
    PROVE  IInv'
<1> USE RecordWritesAssumption
<1>a. /\ row \in [Keys -> Row] /\ base \in [Keys -> Row] /\ last \in Nat \ {0}
      /\ writer \in [Keys -> Sessions \cup {NoSession}] /\ token \in [Sessions -> Nat]
      /\ saved \in [Sessions -> Seq(Save)] /\ failed \in [Sessions -> BOOLEAN]
      /\ call \in [Sessions -> Call] /\ stamp \in [Sessions -> [Buffers -> Nat]]
  BY DEF IInv, TypeOK
<1>b. /\ p.mine \subseteq Keys /\ p.token \in Nat /\ p.row \in [Keys -> Row]
      /\ \A k \in p.mine : writer[k] = s /\ p.row[k].owner \in {0, p.token}
      /\ p.token \in {0, token[s]}
  BY SaveFields DEF IsBoundary
<1>c. /\ \A k \in Keys : writer[k] # s => row'[k] = row[k] /\ writer'[k] = writer[k]
      /\ \A k \in p.mine : row'[k] = p.row[k] /\ writer'[k] = s
      /\ \A k \in Keys \ p.mine : writer[k] = s => row'[k] = base[k] /\ writer'[k] = NoSession
  BY <1>b DEF Undo, Mine
<1>d. /\ token'[s] = p.token /\ call'[s] = Idle /\ saved'[s] = q
      /\ \A t \in Sessions \ {s} :
            token'[t] = token[t] /\ call'[t] = call[t] /\ saved'[t] = saved[t]
      /\ base' = base /\ last' = last /\ stamp' = stamp
  BY <1>a DEF Undo
<1>1. TypeOK'
  <2>1. row' \in [Keys -> Row]
    BY <1>a, <1>b, <1>c DEF Undo
  <2>2. writer' \in [Keys -> Sessions \cup {NoSession}]
    BY <1>a DEF Undo
  <2>3. Idle \in Call
    BY DEF Call
  <2> QED
    BY <1>a, <1>b, <1>d, <2>1, <2>2, <2>3 DEF Undo, TypeOK
<1>2. Settled'
  BY <1>b, <1>c, <1>d DEF IInv, Settled
<1>3. Tokens'
  <2>1. \A t \in Sessions : token'[t] \in {0, token[t]} /\ token[t] \in Nat
    BY <1>a, <1>b, <1>d
  <2>2. \A t \in Sessions : token'[t] <= last'
    <3>1. last \in Nat /\ last' = last
      BY <1>a, <1>d
    <3>2. \A t \in Sessions : token[t] <= last
      BY DEF IInv, Tokens
    <3> QED
      BY <2>1, <3>1, <3>2
  <2>3. \A k \in Keys : base'[k].owner <= last'
    BY <1>d DEF IInv, Tokens
  <2>4. \A t, u \in Sessions : token'[t] # 0 /\ token'[t] = token'[u] => t = u
    BY <2>1 DEF IInv, Tokens
  <2>5. \A t \in Sessions, k \in Keys : token'[t] # 0 => base'[k].owner # token'[t]
    BY <1>d, <2>1 DEF IInv, Tokens
  <2> QED
    BY <2>2, <2>3, <2>4, <2>5 DEF Tokens
<1>4. Holds'
  BY <1>b, <1>c, <1>d DEF IInv, Holds
<1>5. Saves'
  <2>1. ASSUME NEW t \in Sessions, NEW i \in DOMAIN saved'[t]
        PROVE  /\ IsBoundary(t, saved[t][i])'
               /\ \A j \in DOMAIN saved'[t] : i <= j => IsWithin(saved'[t][i], saved'[t][j])
    <3>1. /\ i \in DOMAIN saved[t] /\ saved'[t][i] = saved[t][i]
          /\ \A j \in DOMAIN saved'[t] : j \in DOMAIN saved[t] /\ saved'[t][j] = saved[t][j]
      BY <1>d
    <3>2. /\ IsBoundary(t, saved[t][i])
          /\ \A j \in DOMAIN saved'[t] : i <= j => IsWithin(saved'[t][i], saved'[t][j])
      BY <3>1 DEF IInv, Saves
    <3>3. saved[t][i].mine \subseteq Keys
      BY <3>1, SavedFields DEF IInv
    <3>4. CASE t = s
      <4>1. IsWithin(saved[t][i], p)
        BY <1>d, <3>1, <3>4
      <4>2. \A k \in saved[t][i].mine : writer'[k] = s
        BY <1>c, <4>1 DEF IsWithin
      <4> QED
        BY <1>d, <3>1, <3>2, <3>4, <4>1, <4>2 DEF IsBoundary, IsWithin
    <3>5. CASE t # s
      <4>1. \A k \in saved[t][i].mine : writer'[k] = t
        BY <1>c, <3>2, <3>3, <3>5 DEF IsBoundary
      <4> QED
        BY <1>d, <3>1, <3>2, <3>5, <4>1 DEF IsBoundary
    <3> QED
      BY <3>4, <3>5
  <2> QED
    BY <2>1 DEF Saves
<1>6. \A t \in Sessions, v \in Nat : Hidden(t, v)' => Hidden(t, v)
  <2> SUFFICES ASSUME NEW t \in Sessions, NEW v \in Nat, Hidden(t, v)' PROVE Hidden(t, v)
    OBVIOUS
  <2>1. CASE \E k \in Keys : writer'[k] = t /\ row'[k].there /\ row'[k].version = v
    <3>1. PICK k \in Keys : writer'[k] = t /\ row'[k].there /\ row'[k].version = v
      BY <2>1
    <3>2. CASE k \in p.mine
      BY <1>c, <3>1, <3>2
    <3>3. CASE k \notin p.mine
      <4>1. writer[k] = t /\ row'[k] = row[k]
        BY <1>c, <3>1, <3>3
      <4> QED
        BY <3>1, <4>1 DEF Hidden
    <3> QED
      BY <3>2, <3>3
  <2>2. CASE \E i \in DOMAIN saved'[t] : \E k \in saved'[t][i].mine :
                saved'[t][i].row[k].there /\ saved'[t][i].row[k].version = v
    <3>1. \A i \in DOMAIN saved'[t] : i \in DOMAIN saved[t] /\ saved'[t][i] = saved[t][i]
      BY <1>d
    <3> QED
      BY <2>2, <3>1 DEF Hidden
  <2> QED
    BY <2>1, <2>2 DEF Hidden
<1>7. /\ \A t \in Sessions, v \in Nat : Known(t, v)' => Known(t, v)
      /\ \A v \in Nat : Public(v)' <=> Public(v)
  BY <1>6, <1>d DEF Known, Public
<1>8. Secrets'
  BY <1>6, <1>7, <1>d DEF IInv, Secrets
<1>9. Refusals'
  <2>1. ASSUME NEW t \in Sessions, call'[t].at = "refused"
        PROVE  LET r == Visible(t, call[t].key)' IN r.there => r.version # stamp'[t][call'[t].buffer]
    <3>1. call'[t] = call[t] /\ t # s
      BY <1>d, <2>1 DEF Idle
    <3>2. call[t].key \in Keys
      BY <1>a, <2>1, <3>1, CallFields
    <3>3. Visible(t, call[t].key)' = Visible(t, call[t].key)
      BY <1>c, <1>d, <3>1, <3>2 DEF Visible
    <3> QED
      BY <1>d, <2>1, <3>1, <3>2, <3>3 DEF IInv, Refusals
  <2> QED
    BY <2>1 DEF Refusals
<1> QED
  BY <1>1, <1>2, <1>3, <1>4, <1>5, <1>8, <1>9 DEF IInv

LEMMA CommitStep ==
    ASSUME IInv, NEW s \in Sessions, Commit(s)
    PROVE  IInv'
<1> USE RecordWritesAssumption
<1>a. /\ row \in [Keys -> Row] /\ base \in [Keys -> Row] /\ last \in Nat \ {0}
      /\ writer \in [Keys -> Sessions \cup {NoSession}] /\ token \in [Sessions -> Nat]
      /\ saved \in [Sessions -> Seq(Save)] /\ call \in [Sessions -> Call]
  BY DEF IInv, TypeOK
<1>b. /\ \A k \in Keys : writer[k] = s => base'[k] = row[k] /\ writer'[k] = NoSession
      /\ \A k \in Keys : writer[k] # s => base'[k] = base[k] /\ writer'[k] = writer[k]
      /\ UNCHANGED <<row, last, failed, stamp, call>>
  BY DEF Commit, Mine
<1>c. /\ token'[s] = 0 /\ saved'[s] = [i \in 1..Len(saved[s]) |-> Renewed]
      /\ \A t \in Sessions \ {s} : token'[t] = token[t] /\ saved'[t] = saved[t]
  BY <1>a DEF Commit
<1>d. Renewed \in Save /\ Renewed.token = 0 /\ Renewed.mine = {}
  <2>1. [k \in Keys |-> Gone] \in [Keys -> Row]
    BY GoneIsRow
  <2> QED
    BY <2>1 DEF Renewed, Save
<1>e. /\ saved'[s] \in Seq(Save)
      /\ \A i \in DOMAIN saved'[s] : saved'[s][i] = Renewed
  <2>1. saved[s] \in Seq(Save) /\ Len(saved[s]) \in Nat
    BY <1>a
  <2> HIDE DEF Renewed
  <2>2. [i \in 1..Len(saved[s]) |-> Renewed] \in Seq(Save)
    BY <1>d, <2>1
  <2> QED
    BY <1>c, <2>2
<1>1. TypeOK'
  <2>1. base' \in [Keys -> Row]
    BY <1>a DEF Commit
  <2>2. writer' \in [Keys -> Sessions \cup {NoSession}]
    BY <1>a DEF Commit
  <2>3. token' \in [Sessions -> Nat]
    BY <1>a DEF Commit
  <2>4. saved' \in [Sessions -> Seq(Save)]
    <3>1. saved' = [saved EXCEPT ![s] = saved'[s]]
      BY <1>a, <1>c DEF Commit
    <3> QED
      BY <1>a, <1>e, <3>1
  <2> QED
    BY <1>b, <2>1, <2>2, <2>3, <2>4 DEF IInv, TypeOK
<1>2. Settled'
  BY <1>b DEF IInv, Settled
<1>3. Tokens'
  <2>1. \A t \in Sessions : token'[t] \in {0, token[t]} /\ (token'[t] # 0 => t # s) /\ token[t] \in Nat
    BY <1>a, <1>c
  <2>2. \A t \in Sessions : token'[t] <= last'
    <3>1. last \in Nat /\ last' = last
      BY <1>a, <1>b
    <3>2. \A t \in Sessions : token[t] <= last
      BY DEF IInv, Tokens
    <3> QED
      BY <2>1, <3>1, <3>2
  <2>3. \A k \in Keys : base'[k].owner \in {base[k].owner, 0, token[s]}
    BY <1>b DEF IInv, Holds
  <2>4. \A k \in Keys : base'[k].owner <= last'
    <3>1. last \in Nat /\ last' = last /\ token[s] <= last
      BY <1>a, <1>b DEF IInv, Tokens
    <3>2. \A k \in Keys : base[k].owner <= last
      BY DEF IInv, Tokens
    <3> QED
      BY <2>3, <3>1, <3>2
  <2>5. \A t, u \in Sessions : token'[t] # 0 /\ token'[t] = token'[u] => t = u
    BY <2>1 DEF IInv, Tokens
  <2>6. \A t \in Sessions, k \in Keys : token'[t] # 0 => base'[k].owner # token'[t]
    BY <2>1, <2>3 DEF IInv, Tokens
  <2> QED
    BY <2>2, <2>4, <2>5, <2>6 DEF Tokens
<1>4. Holds'
  BY <1>b, <1>c DEF IInv, Holds
<1>5. Saves'
  <2>1. ASSUME NEW t \in Sessions, NEW i \in DOMAIN saved'[t]
        PROVE  /\ saved'[t][i].token \in {0, token'[t]}
               /\ \A k \in saved'[t][i].mine :
                     writer'[k] = t /\ saved'[t][i].row[k].owner \in {0, saved'[t][i].token}
               /\ \A j \in DOMAIN saved'[t] : i <= j => IsWithin(saved'[t][i], saved'[t][j])
    <3>1. CASE t = s
      BY <1>d, <1>e, <3>1 DEF IsWithin
    <3>2. CASE t # s
      <4>1. /\ i \in DOMAIN saved[t] /\ saved'[t] = saved[t]
            /\ IsBoundary(t, saved[t][i])
            /\ \A j \in DOMAIN saved[t] : i <= j => IsWithin(saved[t][i], saved[t][j])
        BY <1>c, <3>2 DEF IInv, Saves
      <4>2. saved[t][i].mine \subseteq Keys
        BY <4>1, SavedFields DEF IInv
      <4>3. \A k \in saved[t][i].mine : writer'[k] = t
        BY <1>b, <3>2, <4>1, <4>2 DEF IsBoundary
      <4> QED
        BY <1>c, <3>2, <4>1, <4>3 DEF IsBoundary
    <3> QED
      BY <3>1, <3>2
  <2> QED
    BY <2>1 DEF Saves, IsBoundary
<1>6. \A t \in Sessions, v \in Nat : Hidden(t, v)' => Hidden(t, v) /\ t # s
  <2> SUFFICES ASSUME NEW t \in Sessions, NEW v \in Nat, Hidden(t, v)'
               PROVE  Hidden(t, v) /\ t # s
    OBVIOUS
  <2>1. t # s
    BY <1>b, <1>d, <1>e DEF Hidden
  <2>2. /\ saved'[t] = saved[t]
        /\ \A k \in Keys : writer'[k] = t => writer[k] = t /\ row'[k] = row[k]
    BY <1>b, <1>c, <2>1
  <2> QED
    BY <2>1, <2>2 DEF Hidden
<1>7. \A t \in Sessions, v \in Nat : Known(t, v)' => Known(t, v)
  BY <1>6, <1>b DEF Known
<1>8. \A v \in Nat : Public(v)' => Public(v) \/ Hidden(s, v)
  BY <1>b DEF Public, Hidden
<1>9. Secrets'
  <2>1. \A t \in Sessions, v \in Nat : Known(t, v)' => v <= last'
    BY <1>7, <1>b DEF IInv, Secrets
  <2>2. \A v \in Nat : Public(v)' => v <= last'
    BY <1>8, <1>b, HiddenIsKnown DEF IInv, Secrets
  <2>3. ASSUME NEW t \in Sessions, NEW v \in Nat, Hidden(t, v)'
        PROVE  ~ Public(v)' /\ \A u \in Sessions \ {t} : ~ Known(u, v)'
    <3>1. Hidden(t, v) /\ t # s
      BY <1>6, <2>3
    <3>2. ~ Public(v) /\ \A u \in Sessions \ {t} : ~ Known(u, v)
      BY <3>1 DEF IInv, Secrets
    <3>3. ~ Hidden(s, v)
      BY <3>1, <3>2, HiddenIsKnown
    <3> QED
      BY <1>7, <1>8, <3>2, <3>3
  <2> QED
    BY <2>1, <2>2, <2>3 DEF Secrets
<1>10. Refusals'
  <2>1. ASSUME NEW t \in Sessions, call'[t].at = "refused"
        PROVE  LET r == Visible(t, call[t].key)' IN r.there => r.version # stamp[t][call[t].buffer]
    <3>1. call'[t] = call[t] /\ t # s /\ stamp' = stamp
      BY <1>b, <2>1 DEF Commit, Running, Idle
    <3> DEFINE k == call[t].key
               b == call[t].buffer
    <3>2. k \in Keys /\ b \in Buffers
      BY <1>a, <2>1, <3>1, CallFields
    <3>3. CASE writer[k] = s
      <4>1. Visible(t, k)' = row[k]
        BY <1>b, <3>1, <3>2, <3>3 DEF Visible
      <4>2. row[k] \in Row /\ row[k].version \in Nat
        BY <1>a, <3>2, RowFields
      <4>3. row[k].there => Hidden(s, row[k].version)
        BY <3>2, <3>3 DEF Hidden
      <4>4. row[k].there => ~ Known(t, row[k].version)
        BY <3>1, <4>2, <4>3 DEF IInv, Secrets
      <4>5. row[k].there => row[k].version # stamp[t][b]
        BY <3>2, <4>4 DEF Known
      <4> QED
        BY <3>1, <4>1, <4>5
    <3>4. CASE writer[k] # s
      <4>1. Visible(t, k)' = Visible(t, k)
        BY <1>b, <3>2, <3>4 DEF Visible
      <4> QED
        BY <2>1, <3>1, <4>1 DEF IInv, Refusals
    <3> QED
      BY <3>3, <3>4
  <2> QED
    BY <1>b, <2>1 DEF Refusals
<1> QED
  BY <1>1, <1>2, <1>3, <1>4, <1>5, <1>9, <1>10 DEF IInv

LEMMA OpenStep ==
    ASSUME IInv, NEW s \in Sessions, Open(s)
    PROVE  IInv'
<1> USE RecordWritesAssumption
<1>a. /\ row \in [Keys -> Row] /\ writer \in [Keys -> Sessions \cup {NoSession}]
      /\ token \in [Sessions -> Nat] /\ saved \in [Sessions -> Seq(Save)]
      /\ call \in [Sessions -> Call]
  BY DEF IInv, TypeOK
<1>b. UNCHANGED <<row, base, writer, last, token, failed, stamp, call>>
  BY DEF Open, table
<1> DEFINE p == Boundary(s)
<1>c. /\ p \in Save /\ p.token = token[s] /\ p.mine = {k \in Keys : writer[k] = s}
      /\ \A k \in p.mine : p.row[k] = row[k]
  <2>1. [k \in Keys |-> IF writer[k] = s THEN row[k] ELSE Gone] \in [Keys -> Row]
    BY <1>a, GoneIsRow
  <2> QED
    BY <1>a, <2>1 DEF Boundary, Save, Mine
<1>d. /\ saved' = [saved EXCEPT ![s] = Append(saved[s], p)]
      /\ saved'[s] = Append(saved[s], p)
      /\ \A t \in Sessions \ {s} : saved'[t] = saved[t]
  BY <1>a DEF Open
<1> HIDE DEF p
<1> DEFINE n == Len(saved[s]) + 1
<1>e. /\ saved'[s] \in Seq(Save) /\ DOMAIN saved'[s] = DOMAIN saved[s] \cup {n}
      /\ saved'[s][n] = p
      /\ \A i \in DOMAIN saved[s] : i < n /\ saved'[s][i] = saved[s][i]
      /\ n \in Nat
  <2>1. saved[s] \in Seq(Save) /\ Len(saved[s]) \in Nat /\ DOMAIN saved[s] = 1..Len(saved[s])
    BY <1>a
  <2>2. /\ saved'[s] \in Seq(Save) /\ Len(saved'[s]) = Len(saved[s]) + 1
        /\ DOMAIN saved'[s] = 1..Len(saved'[s])
        /\ \A i \in 1..Len(saved[s]) : saved'[s][i] = saved[s][i]
        /\ saved'[s][Len(saved[s]) + 1] = p
    BY <1>c, <1>d, <2>1
  <2> QED
    BY <2>1, <2>2
<1> HIDE DEF n
<1>1. TypeOK'
  BY <1>a, <1>b, <1>d, <1>e DEF IInv, TypeOK
<1>2. Settled' /\ Tokens' /\ Holds'
  BY <1>b DEF IInv, Settled, Tokens, Holds
<1>3. \A i \in DOMAIN saved[s] : IsWithin(saved[s][i], p)
  <2>1. \A i \in DOMAIN saved[s] : IsBoundary(s, saved[s][i]) /\ saved[s][i].mine \subseteq Keys
    BY SavedFields DEF IInv, Saves
  <2> QED
    BY <1>c, <2>1 DEF IsBoundary, IsWithin
<1>4. IsWithin(p, p) /\ \A k \in p.mine : writer[k] = s /\ p.row[k].owner \in {0, p.token}
  BY <1>c DEF IInv, Holds, IsWithin
<1>5. \A i \in DOMAIN saved[s] : ~ n <= i
  <2>1. DOMAIN saved[s] = 1..Len(saved[s]) /\ Len(saved[s]) \in Nat
    BY <1>a
  <2> QED
    BY <1>e, <2>1
<1>6. Saves'
  <2>1. ASSUME NEW t \in Sessions, NEW i \in DOMAIN saved'[t]
        PROVE  /\ saved'[t][i].token \in {0, token[t]}
               /\ \A k \in saved'[t][i].mine :
                     writer[k] = t /\ saved'[t][i].row[k].owner \in {0, saved'[t][i].token}
               /\ \A j \in DOMAIN saved'[t] : i <= j => IsWithin(saved'[t][i], saved'[t][j])
    <3>1. CASE t # s
      BY <1>d, <3>1 DEF IInv, Saves, IsBoundary
    <3>2. CASE t = s /\ i = n
      BY <1>c, <1>e, <1>4, <1>5, <3>2
    <3>3. CASE t = s /\ i # n
      <4>1. i \in DOMAIN saved[s] /\ saved'[t][i] = saved[s][i]
        BY <1>e, <3>3
      <4>2. /\ IsBoundary(s, saved[s][i])
            /\ \A j \in DOMAIN saved[s] : i <= j => IsWithin(saved[s][i], saved[s][j])
        BY <4>1 DEF IInv, Saves
      <4>3. \A j \in DOMAIN saved'[s] : i <= j => IsWithin(saved[s][i], saved'[s][j])
        BY <1>e, <1>3, <4>1, <4>2
      <4> QED
        BY <3>3, <4>1, <4>2, <4>3 DEF IsBoundary
    <3> QED
      BY <3>1, <3>2, <3>3
  <2> QED
    BY <1>b, <2>1 DEF Saves, IsBoundary
<1>7. \A t \in Sessions, v \in Nat : Hidden(t, v)' => Hidden(t, v)
  <2> SUFFICES ASSUME NEW t \in Sessions, NEW v \in Nat, Hidden(t, v)' PROVE Hidden(t, v)
    OBVIOUS
  <2>1. CASE \E k \in Keys : writer'[k] = t /\ row'[k].there /\ row'[k].version = v
    BY <1>b, <2>1 DEF Hidden
  <2>2. CASE \E i \in DOMAIN saved'[t] : \E k \in saved'[t][i].mine :
                saved'[t][i].row[k].there /\ saved'[t][i].row[k].version = v
    <3>1. PICK i \in DOMAIN saved'[t] : \E k \in saved'[t][i].mine :
              saved'[t][i].row[k].there /\ saved'[t][i].row[k].version = v
      BY <2>2
    <3>2. CASE t = s /\ i = n
      <4>1. \E k \in p.mine : p.row[k].there /\ p.row[k].version = v
        BY <1>e, <3>1, <3>2
      <4> QED
        BY <1>c, <3>2, <4>1 DEF Hidden
    <3>3. CASE t # s \/ i # n
      <4>1. i \in DOMAIN saved[t] /\ saved'[t][i] = saved[t][i]
        BY <1>d, <1>e, <3>1, <3>3
      <4> QED
        BY <3>1, <4>1 DEF Hidden
    <3> QED
      BY <3>2, <3>3
  <2> QED
    BY <2>1, <2>2 DEF Hidden
<1>8. /\ \A t \in Sessions, v \in Nat : Known(t, v)' => Known(t, v)
      /\ \A v \in Nat : Public(v)' <=> Public(v)
  BY <1>7, <1>b DEF Known, Public
<1>9. Secrets'
  BY <1>7, <1>8, <1>b DEF IInv, Secrets
<1>10. Refusals'
  BY <1>b DEF IInv, Refusals, Visible
<1> QED
  BY <1>1, <1>2, <1>6, <1>9, <1>10 DEF IInv

LEMMA KeepStep ==
    ASSUME IInv, NEW s \in Sessions, Keep(s)
    PROVE  IInv'
<1>a. saved \in [Sessions -> Seq(Save)]
  BY DEF IInv, TypeOK
<1>b. UNCHANGED <<row, base, writer, last, token, failed, stamp, call>>
  BY DEF Keep, table
<1>c. /\ saved' = [saved EXCEPT ![s] = Shorter(saved[s])] /\ saved[s] # <<>>
      /\ saved'[s] = Shorter(saved[s])
      /\ \A t \in Sessions \ {s} : saved'[t] = saved[t]
  BY <1>a DEF Keep, Shorter
<1>d. /\ saved'[s] \in Seq(Save)
      /\ \A t \in Sessions : \A i \in DOMAIN saved'[t] :
            i \in DOMAIN saved[t] /\ saved'[t][i] = saved[t][i]
  <2>1. saved[s] \in Seq(Save) /\ saved[s] # <<>>
    BY <1>a, <1>c
  <2>2. PICK q \in Seq(Save) : q = saved[s]
    BY <2>1
  <2>3. /\ Shorter(q) \in Seq(Save)
        /\ \A i \in DOMAIN Shorter(q) : i \in DOMAIN q /\ Shorter(q)[i] = q[i]
    BY <2>1, <2>2, ShorterProperties
  <2> QED
    BY <1>c, <2>2, <2>3
<1>1. TypeOK'
  BY <1>a, <1>b, <1>c, <1>d DEF IInv, TypeOK
<1>2. Settled' /\ Tokens' /\ Holds' /\ Refusals'
  BY <1>b DEF IInv, Settled, Tokens, Holds, Refusals, Visible
<1>3. Saves'
  <2>1. \A t \in Sessions : \A i \in DOMAIN saved'[t] :
           /\ IsBoundary(t, saved[t][i])
           /\ \A j \in DOMAIN saved'[t] : i <= j => IsWithin(saved'[t][i], saved'[t][j])
    BY <1>d DEF IInv, Saves
  <2> QED
    BY <1>b, <1>d, <2>1 DEF Saves, IsBoundary
<1>4. \A t \in Sessions, v \in Nat : Hidden(t, v)' => Hidden(t, v)
  BY <1>b, <1>d DEF Hidden
<1>5. /\ \A t \in Sessions, v \in Nat : Known(t, v)' => Known(t, v)
      /\ \A v \in Nat : Public(v)' <=> Public(v)
  BY <1>4, <1>b DEF Known, Public
<1>6. Secrets'
  BY <1>4, <1>5, <1>b DEF IInv, Secrets
<1> QED
  BY <1>1, <1>2, <1>3, <1>6 DEF IInv

LEMMA RollBackToStep ==
    ASSUME IInv, NEW s \in Sessions, RollBackTo(s)
    PROVE  IInv'
<1>1. saved[s] \in Seq(Save) /\ saved[s] # <<>>
  BY DEF IInv, TypeOK, RollBackTo
<1>2. PICK old \in Seq(Save) : old = saved[s]
  BY <1>1
<1> DEFINE p == old[Len(old)]
           q == Shorter(old)
<1>3. /\ q \in Seq(Save) /\ Len(old) \in DOMAIN old
      /\ \A i \in DOMAIN q : i \in DOMAIN old /\ i <= Len(old) /\ q[i] = old[i]
  BY <1>1, <1>2, ShorterProperties
<1>4. /\ p \in Save /\ p = saved[s][Len(old)] /\ Len(old) \in DOMAIN saved[s]
  BY <1>2, <1>3, SavedFields DEF IInv
<1>5. IsBoundary(s, p)
  BY <1>4 DEF IInv, Saves
<1>6. \A i \in DOMAIN q : i \in DOMAIN saved[s] /\ q[i] = saved[s][i] /\ IsWithin(q[i], p)
  BY <1>2, <1>3, <1>4 DEF IInv, Saves
<1>7. \A k \in p.mine : p.row[k].there => Hidden(s, p.row[k].version)
  BY <1>4 DEF Hidden
<1>8. Undo(s, p) /\ saved' = [saved EXCEPT ![s] = q]
  BY <1>2 DEF RollBackTo, Shorter
<1> HIDE DEF p, q
<1> QED
  BY <1>3, <1>4, <1>5, <1>6, <1>7, <1>8, UndoStep

LEMMA RollBackStep ==
    ASSUME IInv, NEW s \in Sessions, RollBack(s)
    PROVE  IInv'
<1>1. Renewed \in Save /\ Renewed.token = 0 /\ Renewed.mine = {}
  <2>1. [k \in Keys |-> Gone] \in [Keys -> Row]
    BY GoneIsRow
  <2> QED
    BY <2>1 DEF Renewed, Save
<1>2. IsBoundary(s, Renewed)
  BY <1>1 DEF IsBoundary
<1>3. <<>> \in Seq(Save) /\ \A i \in DOMAIN <<>> : FALSE
  <2>1. DOMAIN <<>> = 1..0
    OBVIOUS
  <2> QED
    BY <2>1
<1>4. PICK q \in Seq(Save) : q = <<>>
  BY <1>3
<1>5. Undo(s, Renewed) /\ saved' = [saved EXCEPT ![s] = q]
  BY <1>4 DEF RollBack
<1> QED
  BY <1>1, <1>2, <1>3, <1>4, <1>5, UndoStep

LEMMA StepInv == ASSUME IInv, [Next]_vars PROVE IInv'
<1>1. CASE UNCHANGED vars
  BY <1>1 DEF vars, IInv, TypeOK, Settled, Tokens, Holds, Saves, IsBoundary, IsWithin,
              Secrets, Hidden, Known, Public, Refusals, Visible
<1>2. ASSUME NEW s \in Sessions, Bounds(s) PROVE IInv'
  BY <1>2, OpenStep, KeepStep, RollBackToStep, RollBackStep, CommitStep DEF Bounds
<1> QED
  BY <1>1, <1>2, ReadsStep, WritesStep DEF Next

----------------------------------------------------------------------------
(* Theorems *)

\* The variables keep their types through every sequence of reads, writes and
\* boundaries (Table.cpp, Storage.cpp, Transaction.cpp).
THEOREM TypeCorrect == Spec => []TypeOK
<1>1. IInv => TypeOK
  BY DEF IInv
<1> QED
  BY <1>1, InitInv, StepInv, PTL DEF Spec

LEMMA OwnershipFollows == ASSUME IInv PROVE OwnershipIsCurrent
<1>1. ASSUME NEW s \in Sessions, NEW k \in Keys,
             token[s] # 0, row[k].there, row[k].owner = token[s]
      PROVE  writer[k] = s
  <2>1. writer[k] # NoSession
    BY <1>1 DEF IInv, Settled, Tokens
  <2>2. PICK t \in Sessions : writer[k] = t
    BY <2>1 DEF IInv, TypeOK
  <2> QED
    BY <1>1, <2>2 DEF IInv, Holds, Tokens
<1> QED
  BY <1>1 DEF OwnershipIsCurrent, IInv, Tokens

\* The exemption of own writes from the version check ends with the transaction: no row
\* that another transaction has changed, and no committed row, passes for an own one
\* (write_transaction_v1 and the owner column of Storage.cpp's conditions).
THEOREM OwnershipEnds == Spec => []OwnershipIsCurrent
BY InitInv, StepInv, OwnershipFollows, PTL DEF Spec

\* A step that hands no row over replaces nothing.
LEMMA KeepsWriters ==
    ASSUME NEW s \in Sessions, NEW k \in Keys,
           writer'[k] = s => writer[k] = s
    PROVE  ReplacesWhatWasRead(s, k)
BY DEF ReplacesWhatWasRead

\* A step of t that ends no write of another session and raises nothing refuses nothing.
LEMMA RaisesNothing ==
    ASSUME NEW s \in Sessions, NEW t \in Sessions, NEW c, call \in [Sessions -> Call],
           call' = [call EXCEPT ![t] = c], c.at # "raised"
    PROVE  RefusesWhatIsStale(s)
BY DEF RefusesWhatIsStale

LEMMA ExecutesDecides ==
    ASSUME IInv, NEW t \in Sessions, NEW c, c.buffer \in Buffers, c.key \in Keys,
           writer[c.key] \in {NoSession, t}, Executes(t, c, Visible(t, c.key)),
           NEW s \in Sessions, NEW k \in Keys
    PROVE  ReplacesWhatWasRead(s, k) /\ RefusesWhatIsStale(s)
<1> USE RecordWritesAssumption
<1> DEFINE r == Visible(t, c.key)
           b == c.buffer
<1>a. /\ row \in [Keys -> Row] /\ base \in [Keys -> Row] /\ last \in Nat \ {0}
      /\ writer \in [Keys -> Sessions \cup {NoSession}] /\ call \in [Sessions -> Call]
      /\ stamp \in [Sessions -> [Buffers -> Nat]] /\ Idle.at # "raised"
  BY DEF IInv, TypeOK, Idle
<1>1. ASSUME Put(t, b, c.key) \/ Remove(t, c.key, Idle) \/ Remove(t, c.key, At(c, "moving"))
      PROVE  /\ RefusesWhatIsStale(s)
             /\ (s = t /\ k = c.key) \/ (writer'[k] = s => writer[k] = s)
  <2>1. writer' = [writer EXCEPT ![c.key] = t]
    BY <1>1 DEF Put, Remove
  <2>2. PICK d : call' = [call EXCEPT ![t] = d] /\ d.at # "raised"
    BY <1>a, <1>1 DEF Put, Remove, At
  <2> QED
    BY <1>a, <2>1, <2>2, RaisesNothing
<1>2. ASSUME s = t, k = c.key, writer[k] # s, base[k].there, WritePredicate(t, b, r)
      PROVE  stamp[s][b] = base[k].version
  <2>1. r = base[k]
    BY <1>2 DEF Visible
  <2>2. token[s] # 0 => base[k].owner # token[s]
    BY DEF IInv, Tokens
  <2> QED
    BY <1>2, <2>1, <2>2 DEF WritePredicate
<1>3. CASE InsertRow(t, c, r)
  <2>1. s = t /\ k = c.key /\ writer[k] # s => ~ base[k].there
    BY <1>3 DEF InsertRow, Visible
  <2> QED
    BY <1>1, <1>3, <2>1 DEF InsertRow, ReplacesWhatWasRead
<1>4. CASE ModifyRow(t, c, r)
  <2>1. Put(t, b, c.key) /\ WritePredicate(t, b, r)
    BY <1>4 DEF ModifyRow
  <2>2. stamp'[t][b] = last + 1 /\ row'[c.key].version = last + 1
    BY <1>a, <2>1 DEF Put
  <2>3. b \in Buffers
    OBVIOUS
  <2> HIDE DEF r, b
  <2> QED
    BY <1>1, <1>2, <2>1, <2>2, <2>3 DEF ReplacesWhatWasRead
<1>5. CASE DeleteRow(t, c, r) \/ RenameRow(t, c, r)
  <2>1. /\ Remove(t, c.key, Idle) \/ Remove(t, c.key, At(c, "moving"))
        /\ WritePredicate(t, b, r)
    BY <1>5 DEF DeleteRow, RenameRow
  <2>2. ~ row'[c.key].there
    BY <1>a, <2>1, GoneIsRow DEF Remove
  <2>3. b \in Buffers
    OBVIOUS
  <2> HIDE DEF r, b
  <2> QED
    BY <1>1, <1>2, <2>1, <2>2, <2>3 DEF ReplacesWhatWasRead
<1>6. CASE InsertsNothing(t, c, r) \/ ChangesNothing(t, c, r)
  <2>1. writer' = writer
    BY <1>6 DEF InsertsNothing, ChangesNothing, Goes, table
  <2>2. PICK d : call' = [call EXCEPT ![t] = d] /\ d.at # "raised"
    BY <1>a, <1>6 DEF InsertsNothing, ChangesNothing, Goes, At
  <2> QED
    BY <1>a, <2>1, <2>2, KeepsWriters, RaisesNothing
<1> QED
  BY <1>3, <1>4, <1>5, <1>6 DEF Executes

LEMMA WritesDecides ==
    ASSUME IInv, NEW t \in Sessions, Writes(t), NEW s \in Sessions, NEW k \in Keys
    PROVE  ReplacesWhatWasRead(s, k) /\ RefusesWhatIsStale(s)
<1> USE RecordWritesAssumption
<1>a. call \in [Sessions -> Call] /\ Idle.at = "none"
  BY DEF IInv, TypeOK, Idle
<1>1. ASSUME NEW c \in Calls(t), Write(t, c)
      PROVE  ReplacesWhatWasRead(s, k) /\ RefusesWhatIsStale(s)
  BY <1>1, CallsFields, ExecutesDecides DEF Write
<1>2. ASSUME writer' = writer, NEW c, call' = [call EXCEPT ![t] = c], c.at # "raised"
      PROVE  ReplacesWhatWasRead(s, k) /\ RefusesWhatIsStale(s)
  BY <1>a, <1>2, KeepsWriters, RaisesNothing
<1>3. ASSUME NEW c \in Calls(t), WriteMeetsChange(t, c)
      PROVE  ReplacesWhatWasRead(s, k) /\ RefusesWhatIsStale(s)
  <2>1. PICK at \in {"waiting", "refused"} : Goes(t, c, at)
    BY <1>3 DEF WriteMeetsChange, ChangesNothing
  <2> DEFINE d == At(c, at)
  <2>2. call' = [call EXCEPT ![t] = d] /\ d.at # "raised"
    BY <2>1 DEF Goes, At
  <2>3. writer' = writer
    BY <2>1 DEF Goes, table
  <2> HIDE DEF d
  <2> QED
    BY <1>2, <2>2, <2>3
<1>4. CASE Resume(t)
  <2> DEFINE c == call[t]
  <2>1. c \in Call /\ c.at = "waiting" /\ writer[c.key] = NoSession /\ Executes(t, c, row[c.key])
    BY <1>a, <1>4 DEF Resume
  <2>2. c.buffer \in Buffers /\ c.key \in Keys
    BY <2>1, CallFields
  <2>3. Visible(t, c.key) = row[c.key]
    BY <2>1, <2>2 DEF IInv, Settled, Visible
  <2> HIDE DEF c
  <2> QED
    BY <2>1, <2>2, <2>3, ExecutesDecides
<1>5. CASE RefuseStaleWrite(t)
  <2>1. writer' = writer /\ \A u \in Sessions \ {t} : call'[u] = call[u]
    BY <1>a, <1>5 DEF RefuseStaleWrite, Goes, table
  <2>2. LET r == Visible(t, call[t].key) IN r.there => r.version # stamp[t][call[t].buffer]
    BY <1>5 DEF RefuseStaleWrite, IInv, Refusals
  <2>3. call'[t].at = "raised" => Visible(t, call[t].key).there
    BY <1>a, <1>5 DEF RefuseStaleWrite
  <2> QED
    BY <2>1, <2>2, <2>3, KeepsWriters DEF RefusesWhatIsStale
<1>6. CASE StatementFails(t)
  BY <1>a, <1>2, <1>6 DEF StatementFails, table
<1>7. CASE Catch(t)
  BY <1>a, <1>2, <1>7 DEF Catch, table
<1>8. CASE Place(t)
  <2>1. call[t].buffer \in Buffers /\ call[t].to \in Keys
    BY <1>a, <1>8, CallFields DEF Place
  <2>2. call' = [call EXCEPT ![t] = Idle] /\ writer' = [writer EXCEPT ![call[t].to] = t]
    BY <1>8 DEF Place, Put
  <2>3. writer \in [Keys -> Sessions \cup {NoSession}]
    BY DEF IInv, TypeOK
  <2>4. s = t /\ k = call[t].to /\ writer[k] # s => ~ base[k].there
    BY <1>8 DEF Place, Visible
  <2> QED
    BY <1>a, <2>1, <2>2, <2>3, <2>4, RaisesNothing DEF ReplacesWhatWasRead
<1> QED
  BY <1>1, <1>3, <1>4, <1>5, <1>6, <1>7, <1>8 DEF Writes

LEMMA OthersDecide ==
    ASSUME IInv, NEW t \in Sessions, Reads(t) \/ Bounds(t), NEW s \in Sessions, NEW k \in Keys
    PROVE  ReplacesWhatWasRead(s, k) /\ RefusesWhatIsStale(s)
<1> USE RecordWritesAssumption
<1>1. writer'[k] = s => writer[k] = s
  <2>1. CASE Reads(t)
    BY <2>1 DEF Reads, Get, Assign, table
  <2>2. CASE Bounds(t)
    BY <2>2 DEF Bounds, Open, Keep, RollBackTo, RollBack, Commit, Undo, table
  <2> QED
    BY <2>1, <2>2
<1>2. call' = call \/ call' = [call EXCEPT ![t] = Idle]
  <2>1. CASE Reads(t)
    BY <2>1 DEF Reads, Get, Assign
  <2>2. CASE Bounds(t)
    BY <2>2 DEF Bounds, Open, Keep, RollBackTo, RollBack, Commit, Undo
  <2> QED
    BY <2>1, <2>2
<1>3. call \in [Sessions -> Call] /\ Idle.at # "raised"
  BY DEF IInv, TypeOK, Idle
<1>4. RefusesWhatIsStale(s)
  BY <1>2, <1>3, RaisesNothing DEF RefusesWhatIsStale
<1> QED
  BY <1>1, <1>4, KeepsWriters

\* Modify and Delete overwrite no committed change that the variable does not carry, and
\* RefuseStaleWrite refuses no change that it does (Storage.cpp, WritePredicate and
\* RefuseStaleWrite).
THEOREM WritesDecided == Spec => VersionsDecide
<1> DEFINE Decides ==
        \A s \in Sessions : RefusesWhatIsStale(s) /\ \A k \in Keys : ReplacesWhatWasRead(s, k)
<1>1. ASSUME IInv, [Next]_vars PROVE [Decides]_vars
  <2>1. CASE UNCHANGED vars
    BY <2>1
  <2>2. ASSUME NEW t \in Sessions, Reads(t) \/ Writes(t) \/ Bounds(t) PROVE Decides
    <3>1. ASSUME NEW s \in Sessions, NEW k \in Keys
          PROVE  ReplacesWhatWasRead(s, k) /\ RefusesWhatIsStale(s)
      BY <1>1, <2>2, WritesDecides, OthersDecide
    <3>2. ASSUME NEW s \in Sessions PROVE RefusesWhatIsStale(s)
      <4>1. call' \in [Sessions -> Call]
        BY <1>1, StepInv DEF IInv, TypeOK
      <4>2. PICK c \in Call : c = call'[s]
        BY <4>1
      <4>3. CASE c.at = "raised"
        <5>1. c.key \in Keys
          BY <4>3, CallFields
        <5> QED
          BY <3>1, <5>1
      <4>4. CASE c.at # "raised"
        BY <4>2, <4>4 DEF RefusesWhatIsStale
      <4> QED
        BY <4>3, <4>4
    <3> QED
      BY <3>1, <3>2
  <2> HIDE DEF Decides
  <2> QED
    BY <1>1, <2>1, <2>2 DEF Next
<1>2. [][Decides]_vars <=> VersionsDecide
  BY DEF VersionsDecide
<1> HIDE DEF Decides
<1> QED
  BY <1>1, <1>2, InitInv, StepInv, PTL DEF Spec
=============================================================================
