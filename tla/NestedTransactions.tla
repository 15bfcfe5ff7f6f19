------------------------- MODULE NestedTransactions -------------------------
(***************************************************************************)
(* What AL promises of its transaction boundaries, without the SQL that    *)
(* keeps the promise: nested scopes that are kept or discarded, a Commit    *)
(* that makes everything written so far survive any later discard, and     *)
(* test-isolation scopes that take even a Commit back.                     *)
(*                                                                         *)
(* A work state is the rows written and the tables marked inconsistent.    *)
(* Doomed is the work state of a transaction in which a statement failed:  *)
(* nothing of it can be kept, and the only way out is to discard a scope   *)
(* that is still intact.                                                   *)
(***************************************************************************)
EXTENDS Naturals, Sequences

CONSTANTS Rows,    \* the writes a program can make
          Tables,  \* the tables CONSISTENT can mark
          Doomed   \* the work state nothing can be kept of

VARIABLES durable,  \* the rows that survive whatever happens next
          current,  \* the work state the program sees
          entries   \* one [at, isolated] record per open scope, innermost last

vars == <<durable, current, entries>>

WorkState == [data : SUBSET Rows, marks : SUBSET Tables]

OnlyDurable(rows) == [data |-> rows, marks |-> {}]

TypeOK ==
    /\ durable \in SUBSET Rows
    /\ current \in WorkState \cup {Doomed}
    /\ entries \in Seq([at : WorkState, isolated : BOOLEAN])

Init ==
    /\ durable = {}
    /\ current = OnlyDurable({})
    /\ entries = <<>>

----------------------------------------------------------------------------

Outer == SubSeq(entries, 1, Len(entries) - 1)

\* Scope i is at or outside an isolation scope, so a Commit leaves it alone.
Shielded(i) == \E j \in i..Len(entries) : entries[j].isolated

Isolated == \E j \in DOMAIN entries : entries[j].isolated

Moved(rows) ==
    [i \in DOMAIN entries |->
        IF Shielded(i) THEN entries[i] ELSE [entries[i] EXCEPT !.at = OnlyDurable(rows)]]

Open ==
    /\ current # Doomed
    /\ \E isolated \in BOOLEAN :
          entries' = Append(entries, [at |-> current, isolated |-> isolated])
    /\ UNCHANGED <<durable, current>>

\* The program writes a row or moves a consistency mark, or a statement fails.
Change ==
    /\ current # Doomed
    /\ current' \in WorkState \cup {Doomed}
    /\ current' # Doomed => current.data \subseteq current'.data
    /\ UNCHANGED <<durable, entries>>

Keep ==
    /\ entries # <<>>
    /\ current # Doomed
    /\ ~ entries[Len(entries)].isolated
    /\ entries' = Outer
    /\ UNCHANGED <<durable, current>>

Discard ==
    /\ entries # <<>>
    /\ current' = entries[Len(entries)].at
    /\ entries' = Outer
    /\ UNCHANGED durable

\* A scope ends and its discard fails too: the work stays unusable.
Abandon ==
    /\ entries # <<>>
    /\ current' = Doomed
    /\ entries' = Outer
    /\ UNCHANGED durable

\* Scopes that could not be renewed afterwards leave the new transaction doomed.
Commit ==
    /\ current # Doomed
    /\ current.marks = {}
    /\ durable' = IF Isolated THEN durable ELSE current.data
    /\ entries' = Moved(current.data)
    /\ current' \in {current, Doomed}

\* The server ends the transaction by itself, and the scope that ran into it may
\* end with it. When it did so while answering a Commit, the program cannot tell
\* which of the two outcomes it got.
Abort ==
    /\ \/ durable' = durable
       \/ /\ current # Doomed
          /\ current.marks = {}
          /\ ~ Isolated
          /\ durable' = current.data
    /\ current' = OnlyDurable(durable')
    /\ \E left \in {entries, Outer} :
          entries' = [i \in DOMAIN left |-> [left[i] EXCEPT !.at = OnlyDurable(durable')]]

Next == Open \/ Change \/ Keep \/ Discard \/ Abandon \/ Commit \/ Abort

Spec == Init /\ [][Next]_vars
=============================================================================
