--------------------------- MODULE CommandOutcomes ---------------------------
(***************************************************************************)
(* What a client of the page command host may conclude from an answer,     *)
(* without the host: no contexts, mutexes, receipts or transactions.       *)
(*                                                                         *)
(* A client submits a command, perhaps more than once. At most one of its  *)
(* submissions ever has an effect: parts of it that AL commits explicitly  *)
(* on the way, and the whole of it with the command's own commit. A page   *)
(* means that the whole has happened, "failed" that it never will,         *)
(* "refused" that this submission has no effect at all, and "unknown"      *)
(* nothing.                                                                *)
(***************************************************************************)

CONSTANTS Submissions, Commands, NoCommand

Effects == {"nothing", "part", "whole"}
Answers == {"none", "page", "failed", "refused", "unknown"}

VARIABLES subject,  \* the command a submission is of
          applied,  \* its durable effect
          barred,   \* commands that will never be applied as a whole any more
          answer    \* what the client has been told

vars == <<subject, applied, barred, answer>>

Of(c) == {s \in Submissions : subject[s] = c}

Init ==
    /\ subject = [s \in Submissions |-> NoCommand]
    /\ applied = [s \in Submissions |-> "nothing"]
    /\ barred = {}
    /\ answer = [s \in Submissions |-> "none"]

Submit(s, c) ==
    /\ subject[s] = NoCommand
    /\ subject' = [subject EXCEPT ![s] = c]
    /\ UNCHANGED <<applied, barred, answer>>

\* A submission that was refused, or that another one of its command has preceded,
\* stays without effect.
MayApply(s) ==
    /\ subject[s] \in Commands
    /\ answer[s] # "refused"
    /\ \A t \in Of(subject[s]) \ {s} : applied[t] = "nothing"

ApplyPart(s) ==
    /\ MayApply(s)
    /\ applied[s] # "whole"
    /\ applied' = [applied EXCEPT ![s] = "part"]
    /\ UNCHANGED <<subject, barred, answer>>

ApplyWhole(s) ==
    /\ MayApply(s)
    /\ applied[s] # "whole"
    /\ subject[s] \notin barred
    /\ applied' = [applied EXCEPT ![s] = "whole"]
    /\ UNCHANGED <<subject, barred, answer>>

Bar(c) ==
    /\ \A s \in Of(c) : applied[s] # "whole"
    /\ barred' = barred \cup {c}
    /\ UNCHANGED <<subject, applied, answer>>

Answer(s, a) ==
    /\ subject[s] \in Commands
    /\ answer[s] = "none"
    /\ a = "page" => \E t \in Of(subject[s]) : applied[t] = "whole"
    /\ a = "failed" => subject[s] \in barred
    /\ a = "refused" => applied[s] = "nothing"
    /\ answer' = [answer EXCEPT ![s] = a]
    /\ UNCHANGED <<subject, applied, barred>>

Next ==
    \/ \E s \in Submissions, c \in Commands : Submit(s, c)
    \/ \E s \in Submissions : ApplyPart(s) \/ ApplyWhole(s)
    \/ \E c \in Commands : Bar(c)
    \/ \E s \in Submissions, a \in Answers \ {"none"} : Answer(s, a)

Spec == Init /\ [][Next]_vars
=============================================================================
