-------------------------- MODULE PageDialogsProofs --------------------------
(***************************************************************************)
(* What the questions and modal pages of a call guarantee for every number *)
(* of clients, questions, modal pages and faults.                          *)
(*                                                                         *)
(* The argument: a rendering of a modal page takes one command, since the  *)
(* page is busy from the command on until the next rendering (Working), so *)
(* that a command that ran belongs to an earlier rendering or is the one   *)
(* the page still executes (Ran). The receipt of that one is queued until  *)
(* its result is stored (Working), and no receipt is queued but for a page *)
(* on the stack, one that is being closed, or one whose closing failed     *)
(* (Queue).                                                                *)
(***************************************************************************)
EXTENDS PageDialogs, TLAPS

\* The modal pages on the stack.
Open == {stack[i] : i \in DOMAIN stack}

Once == \A i, j \in DOMAIN stack : stack[i] = stack[j] => i = j

Opening == {"publish", "unwind"}

\* Where the worker is, and what it is about there.
Control ==
    /\ at = "end" <=> ~ Running
    /\ at = "end" => stack = <<>>
    /\ at \in {"publish", "input", "closing", "restore", "unwind"} => stack # <<>>
    /\ question # None <=> at = "answer"
    /\ question # None => dialog[question] # None
    /\ at = "closeQuestion" => frame \in Questions /\ dialog[frame] # None

\* A modal page is on the stack once, and published there but at its opening.
Stacked ==
    /\ Once
    /\ at = "close" => frame \in published \ Open
    /\ \A m \in published : modal[m] # None
    /\ \A m \in Open : m \in published \/ (m = Top /\ at \in Opening)
    /\ at = "publish" => Top \notin published

\* A modal page that was not published has never been used.
Unused ==
    /\ \A m \in Modals \ published :
          revision[m] = 0 /\ busy[m] /\ input[m] = None /\ executing[m] = None
    /\ \A c \in Commands : c.modal \notin published => receipt[c] = None

IsQueued(c) == receipt[c] # None /\ receipt[c].outcome = "queued"

\* The page executes its command, or a page or question opened by it.
Executes(m) == m \in Open /\ ~ (m = Top /\ at \in {"input", "closing", "restore", "unwind"})

\* The rendering a page shows has been answered.
Pending(m) ==
    \/ input[m] # None
    \/ executing[m] # None /\ executing[m].revision = revision[m]

\* From a command on until its result a page is busy with it and takes no other.
WorkingAt(m) ==
    /\ input[m] # None =>
          /\ input[m].modal = m /\ input[m].revision = revision[m] /\ busy[m]
          /\ m \in Open => IsQueued(input[m])
    /\ executing[m] # None =>
          /\ executing[m].modal = m /\ executing[m].revision <= revision[m]
          /\ ran[executing[m]] = 1
          /\ executing[m].revision = revision[m] => busy[m] /\ input[m] = None
    /\ Executes(m) =>
          /\ busy[m] /\ input[m] = None
          /\ executing[m] # None =>
                /\ IsQueued(executing[m]) /\ executing[m] \notin kept
                /\ executing[m].revision = revision[m]

Working ==
    /\ \A m \in Modals : WorkingAt(m)
    /\ at \in {"closing", "restore"} => busy[Top] /\ input[Top] = None

\* A command that ran is of an earlier rendering, or is what the page executes.
Ran ==
    /\ kept \subseteq {c \in Commands : ran[c] = 1}
    /\ \A c \in Commands :
          /\ ran[c] \in {0, 1}
          /\ ran[c] = 1 => \/ c.revision < revision[c.modal]
                           \/ executing[c.modal] = c /\ c.revision = revision[c.modal]

\* Who is queued has somebody who will see to it.
Queue ==
    /\ \A c \in Commands : IsQueued(c) =>
          \/ c.modal \in Open
          \/ at = "close" /\ c.modal = frame
          \/ c.modal \in unclosed
    /\ at = "restore" => \A c \in Commands : c.modal = Top => ~ IsQueued(c)

Ended == \A c \in Commands : ended[c] # None => receipt[c] # None /\ receipt[c].outcome = ended[c]

\* Every rendering but the first was counted, and the command in work.
Counted == \A m \in Modals : revision[m] <= asked /\ (Pending(m) => revision[m] + 1 <= asked)

\* A request that was told something of a question or a command asked for it.
Asked ==
    \A r \in Requests :
        /\ told[r] \in {"accepted", "repeated"} =>
              request[r] \in Answers /\ dialog[request[r].about] # None
        /\ told[r] \in {"holds", "reads", "working", "processed", "failed", "abandoned", "root"} =>
              request[r] \in Inputs /\ receipt[request[r].about] # None

\* The answer in memory is the stored one.
Shown ==
    /\ reply # None => question # None /\ dialog[question].answer = reply
    /\ question # None /\ reply = None => dialog[question].answer = None \/ question \in doubtful
    /\ \A q \in Questions : outcome[q] # None => q # question /\ dialog[q] # None

Inv ==
    /\ TypeOK /\ Control /\ Stacked /\ Unused /\ Working /\ Ran /\ Queue /\ Ended /\ Counted
    /\ Asked /\ Shown
    /\ AnswersAgree /\ OneCommandPerRendering /\ ReceiptsAreTrue /\ ToldOutcomesAreStored
----------------------------------------------------------------------------

USE DEF shown, memory, worker, tables, requests, history, Fault

\* A command names a modal page and a rendering, and is not the sentinel.
LEMMA Kinds == \A c \in Commands : c.modal \in Modals /\ c.revision \in 0..Budget /\ c # None
  BY SentinelAssumption DEF Commands

LEMMA Stacks ==
    ASSUME TypeOK
    PROVE  /\ Open \subseteq Modals
           /\ stack = <<>> => Open = {}
           /\ stack # <<>> => Top \in Open /\ Top \in Modals
  BY DEF TypeOK, Open, Top

\* A step that leaves the stack alone.
LEMMA Still ==
    ASSUME UNCHANGED stack
    PROVE  Open' = Open /\ Top' = Top /\ Once' = Once
  BY DEF Open, Top, Once

LEMMA Push ==
    ASSUME TypeOK, Once, NEW m \in Modals, m \notin Open, stack' = <<m>> \o stack
    PROVE  /\ stack' \in Seq(Modals) /\ stack' # <<>> /\ Len(stack') = Len(stack) + 1
           /\ Top' = m /\ Open' = Open \cup {m} /\ Once'
<1>1. stack \in Seq(Modals) /\ stack' \in Seq(Modals) /\ stack' # <<>>
      /\ Len(stack') = Len(stack) + 1
  BY DEF TypeOK
<1>2. stack'[1] = m /\ \A i \in 2..Len(stack') : stack'[i] = stack[i - 1]
  BY <1>1
<1>3. DOMAIN stack = 1..Len(stack) /\ DOMAIN stack' = 1..Len(stack') /\ Len(stack) \in Nat
  BY <1>1
<1>4. Top' = m
  BY <1>1, <1>2 DEF Top
<1>5. ASSUME NEW i \in DOMAIN stack PROVE i + 1 \in DOMAIN stack' /\ stack'[i + 1] = stack[i]
  BY <1>1, <1>2, <1>3
<1>6. Open' = Open \cup {m}
  <2>1. Open' \subseteq Open \cup {m}
    BY <1>1, <1>2, <1>3 DEF Open
  <2>2. Open \subseteq Open'
    BY <1>5 DEF Open
  <2>3. m \in Open'
    BY <1>1, <1>2, <1>3 DEF Open
  <2> QED BY <2>1, <2>2, <2>3
<1>7. Once'
  <2> SUFFICES ASSUME NEW i \in DOMAIN stack', NEW j \in DOMAIN stack', stack'[i] = stack'[j]
               PROVE  i = j
    BY DEF Once
  <2>1. \A k \in DOMAIN stack' : k = 1 \/ (k - 1 \in DOMAIN stack /\ stack'[k] = stack[k - 1])
    BY <1>1, <1>2, <1>3
  <2>2. \A k \in DOMAIN stack : stack[k] # m
    BY DEF Open
  <2> QED BY <1>2, <1>3, <2>1, <2>2 DEF Once
<1> QED BY <1>1, <1>4, <1>6, <1>7

LEMMA Pop ==
    ASSUME TypeOK, Once, stack # <<>>, stack' = Tail(stack)
    PROVE  /\ stack' \in Seq(Modals) /\ Len(stack') < Len(stack)
           /\ Open' = Open \ {Top} /\ Once'
<1>1. stack \in Seq(Modals) /\ stack' \in Seq(Modals) /\ Len(stack') = Len(stack) - 1
      /\ Len(stack) \in Nat \ {0}
  BY DEF TypeOK
<1>2. DOMAIN stack = 1..Len(stack) /\ DOMAIN stack' = 1..Len(stack')
  BY <1>1
<1>3. ASSUME NEW i \in DOMAIN stack' PROVE i + 1 \in DOMAIN stack /\ stack'[i] = stack[i + 1]
  BY <1>1, <1>2
<1>4. Top = stack[1] /\ 1 \in DOMAIN stack
  BY <1>1, <1>2 DEF Top
<1>5. Open' \subseteq Open \ {Top}
  BY <1>1, <1>2, <1>3, <1>4 DEF Open, Once
<1>6. Open \ {Top} \subseteq Open'
  <2> SUFFICES ASSUME NEW i \in DOMAIN stack, stack[i] # Top PROVE stack[i] \in Open'
    BY DEF Open
  <2>1. i - 1 \in DOMAIN stack' /\ stack'[i - 1] = stack[i]
    BY <1>1, <1>2, <1>4
  <2> QED BY <2>1 DEF Open
<1>7. Once'
  BY <1>1, <1>2, <1>3 DEF Once
<1> QED BY <1>1, <1>5, <1>6, <1>7
----------------------------------------------------------------------------
(* Questions. *)

LEMMA InitInv == Init => Inv
<1> SUFFICES ASSUME Init PROVE Inv
  OBVIOUS
<1>1. Open = {} /\ Once
  BY DEF Init, Open, Once
<1>2. TypeOK
  <2>1. stack \in Seq(Modals) /\ Len(stack) <= Depth
    BY DialogAssumption DEF Init
  <2>2. 0 \in 0..Budget /\ 0 \in 0..MaxFaults
    BY DialogAssumption
  <2> QED BY <2>1, <2>2 DEF Init, TypeOK, Places, Verdicts
<1>3. Control /\ Stacked /\ Unused /\ Queue
  BY <1>1 DEF Init, Control, Stacked, Unused, Queue, IsQueued, Running
<1>4. Working /\ Ran /\ Ended /\ Counted
  BY <1>1, DialogAssumption DEF Init, Working, WorkingAt, Executes, Ran, Ended, Counted, Pending
<1>5. Asked /\ Shown /\ AnswersAgree /\ ToldOutcomesAreStored
  BY SentinelAssumption, DialogAssumption DEF Init, Asked, Shown, AnswersAgree, ToldOutcomesAreStored
<1>6. OneCommandPerRendering /\ ReceiptsAreTrue
  BY DEF Init, OneCommandPerRendering, ReceiptsAreTrue
<1> QED BY <1>2, <1>3, <1>4, <1>5, <1>6 DEF Inv

LEMMA AskKeeps == ASSUME Inv, NEW q \in Questions, Ask(q) PROVE Inv'
<1> USE DEF Inv
<1>1. Open' = Open /\ Top' = Top /\ Once' = Once
  BY Still DEF Ask
<1>2. at = "run" /\ at' \in {"answer", "run", "unwind", "end"} /\ (at' = "answer" => question' = q)
  BY DEF Ask, Raises, Leaves
<1>3. /\ dialog' \in [Questions -> DialogRow \cup {None}]
      /\ \A p \in Questions : dialog[p] # None => dialog'[p] = dialog[p] /\ dialog'[p] # None
      /\ question' # None => dialog'[q] # None /\ dialog'[q].answer = None
  <2> DEFINE row == [answer |-> None, closed |-> FALSE]
  <2>1. row \in DialogRow /\ row # None /\ row.answer = None
    <3>1. row \in DialogRow /\ row.answer = None
      BY DEF DialogRow
    <3> QED BY <3>1, SentinelAssumption
  <2>2. /\ dialog[q] = None
        /\ dialog' = [dialog EXCEPT ![q] = row] \/ (dialog' = dialog /\ question' = None)
    BY DEF Ask
  <2> HIDE DEF row
  <2> QED BY <2>1, <2>2 DEF TypeOK
<1>4. TypeOK'
  BY <1>2, <1>3, DialogAssumption DEF Ask, TypeOK, Raises, Leaves, Places
<1>5. Control'
  BY <1>3, DialogAssumption DEF Ask, TypeOK, Control, Raises, Leaves, Running
<1>6. Stacked' /\ Unused' /\ Queue'
  BY <1>1, <1>2 DEF Ask, Stacked, Opening, Unused, Queue, IsQueued
<1>7. Working'
  BY <1>1, <1>2 DEF Ask, Working, WorkingAt, Executes, IsQueued
<1>8. Ran' /\ Ended' /\ OneCommandPerRendering' /\ ReceiptsAreTrue' /\ ToldOutcomesAreStored'
  BY DEF Ask, Ran, Ended, OneCommandPerRendering, ReceiptsAreTrue, ToldOutcomesAreStored
<1>9. Counted'
  BY DialogAssumption DEF Ask, TypeOK, Counted, Pending
<1>10. Asked'
  BY <1>3 DEF Ask, Asked, Answers
<1>11. Shown'
  BY <1>3, DialogAssumption DEF Ask, TypeOK, Control, Shown
<1>12. AnswersAgree'
  BY <1>3, SentinelAssumption, DialogAssumption DEF Ask, TypeOK, Asked, Answers, Shown, AnswersAgree
<1> QED BY <1>4, <1>5, <1>6, <1>7, <1>8, <1>9, <1>10, <1>11, <1>12

LEMMA WaitKeeps == ASSUME Inv, NEW how \in Choices \cup {"timeout", "cancelled"}, Wait(how) PROVE Inv'
<1> USE DEF Inv
<1>1. Open' = Open /\ Top' = Top /\ Once' = Once
  BY Still DEF Wait
<1>2. at = "answer" /\ at' = "closeQuestion"
  BY DEF Wait
<1>3. TypeOK'
  BY <1>2 DEF Wait, TypeOK, Control, Places
<1>4. Control'
  BY DEF Wait, TypeOK, Control, Running
<1>5. Stacked' /\ Unused' /\ Queue'
  BY <1>1, <1>2 DEF Wait, Stacked, Opening, Unused, Queue, IsQueued
<1>6. Working'
  BY <1>1, <1>2 DEF Wait, Working, WorkingAt, Executes, IsQueued
<1>7. Ran' /\ Ended' /\ Asked' /\ OneCommandPerRendering' /\ ReceiptsAreTrue' /\ ToldOutcomesAreStored'
  BY DEF Wait, Ran, Ended, Asked, OneCommandPerRendering, ReceiptsAreTrue, ToldOutcomesAreStored
<1>8. Counted'
  BY DEF Wait, Counted, Pending
<1>9. Shown'
  BY DialogAssumption DEF Wait, TypeOK, Control, Shown
<1>10. AnswersAgree'
  BY SentinelAssumption, DialogAssumption DEF Wait, TypeOK, Control, Shown, AnswersAgree
<1> QED BY <1>3, <1>4, <1>5, <1>6, <1>7, <1>8, <1>9, <1>10

LEMMA CloseQuestionKeeps == ASSUME Inv, CloseQuestion PROVE Inv'
<1> USE DEF Inv
<1>1. Open' = Open /\ Top' = Top /\ Once' = Once
  BY Still DEF CloseQuestion
<1>2. at = "closeQuestion" /\ at' \in {"run", "unwind", "end"}
  BY DEF CloseQuestion, Raises, Leaves
<1>3. frame \in Questions /\ dialog[frame] \in DialogRow /\ question = None
  BY DEF CloseQuestion, TypeOK, Control
<1>4. /\ \A q \in Questions : (dialog[q] # None)' <=> dialog[q] # None
      /\ \A q \in Questions : (dialog[q] # None) => (dialog[q].answer)' = dialog[q].answer
      /\ dialog' \in [Questions -> DialogRow \cup {None}]
  <2>1. dialog' = [dialog EXCEPT ![frame].closed = TRUE] \/ dialog' = dialog
    BY DEF CloseQuestion
  <2>2. [dialog[frame] EXCEPT !.closed = TRUE] \in DialogRow
        /\ [dialog[frame] EXCEPT !.closed = TRUE] # None
        /\ [dialog[frame] EXCEPT !.closed = TRUE].answer = dialog[frame].answer
    BY <1>3, SentinelAssumption DEF DialogRow
  <2>3. dialog[frame] # None
    BY <1>3, SentinelAssumption
  <2> QED BY <1>3, <2>1, <2>2, <2>3 DEF TypeOK
<1>5. TypeOK'
  BY <1>2, <1>4, DialogAssumption DEF CloseQuestion, TypeOK, Raises, Leaves, Places
<1>6. Control'
  BY <1>2, <1>3 DEF CloseQuestion, Control, Raises, Leaves, Running
<1>7. Stacked' /\ Unused' /\ Queue'
  BY <1>1, <1>2 DEF CloseQuestion, Stacked, Opening, Unused, Queue, IsQueued
<1>8. Working'
  BY <1>1, <1>2 DEF CloseQuestion, Working, WorkingAt, Executes, IsQueued
<1>9. Ran' /\ Ended' /\ OneCommandPerRendering' /\ ReceiptsAreTrue' /\ ToldOutcomesAreStored'
  BY DEF CloseQuestion, Ran, Ended, OneCommandPerRendering, ReceiptsAreTrue, ToldOutcomesAreStored
<1>10. Counted'
  BY DEF CloseQuestion, Counted, Pending
<1>11. Asked'
  BY <1>4 DEF CloseQuestion, Asked, Answers
<1>12. Shown'
  BY <1>3, <1>4 DEF CloseQuestion, TypeOK, Shown
<1>13. AnswersAgree'
  BY <1>4, SentinelAssumption, DialogAssumption
  DEF CloseQuestion, TypeOK, Asked, Answers, Shown, AnswersAgree
<1> QED BY <1>5, <1>6, <1>7, <1>8, <1>9, <1>10, <1>11, <1>12, <1>13

----------------------------------------------------------------------------
(* Modal pages. *)

LEMMA RunModalKeeps == ASSUME Inv, NEW m \in Modals, RunModal(m) PROVE Inv'
<1> USE DEF Inv
<1>1. m \notin Open /\ m \notin published
  BY DEF RunModal, Unopened, Open, Stacked
<1>2. /\ stack' \in Seq(Modals) /\ stack' # <<>> /\ Len(stack') = Len(stack) + 1
      /\ Top' = m /\ Open' = Open \cup {m} /\ Once'
  BY <1>1, Push DEF RunModal, Stacked
<1>3. at = "run" /\ at' = "publish"
  BY DEF RunModal
<1>4. TypeOK'
  <2>1. Len(stack') <= Depth /\ asked' \in 0..Budget
    BY <1>2, DialogAssumption DEF RunModal, TypeOK
  <2> QED BY <1>2, <1>3, <2>1 DEF RunModal, TypeOK, Places
<1>5. Control'
  BY <1>2, <1>3 DEF RunModal, Control, Running
<1>6. Stacked' /\ Unused' /\ Queue'
  BY <1>1, <1>2, <1>3 DEF RunModal, Stacked, Opening, Unused, Queue, IsQueued
<1>7. Working'
  BY <1>1, <1>2, <1>3 DEF RunModal, Working, WorkingAt, Executes, IsQueued, Unused
<1>8. Ran' /\ Ended' /\ Asked' /\ Shown'
  BY DEF RunModal, Ran, Ended, Asked, Shown
<1>9. Counted'
  BY DialogAssumption DEF RunModal, TypeOK, Counted, Pending
<1>10. AnswersAgree' /\ OneCommandPerRendering' /\ ReceiptsAreTrue' /\ ToldOutcomesAreStored'
  BY DEF RunModal, AnswersAgree, OneCommandPerRendering, ReceiptsAreTrue, ToldOutcomesAreStored
<1> QED BY <1>4, <1>5, <1>6, <1>7, <1>8, <1>9, <1>10

LEMMA PublishModalKeeps == ASSUME Inv, PublishModal PROVE Inv'
<1> USE DEF Inv
<1>1. Open' = Open /\ Top' = Top /\ Once' = Once
  BY Still DEF PublishModal
<1>2. at = "publish" /\ at' \in {"run", "unwind"} /\ Top \in Open /\ Top \in Modals
  BY Stacks DEF PublishModal, Control
<1>3. /\ modal' \in [Modals -> ModalRow \cup {None}]
      /\ \A k \in Modals : modal[k] # None => modal'[k] # None
      /\ at' = "run" => modal'[Top] # None /\ published' = published \cup {Top}
      /\ at' = "unwind" => published' = published
  <2> DEFINE row == [revision |-> 0, active |-> TRUE]
  <2>1. row \in ModalRow
    BY DialogAssumption DEF ModalRow
  <2>2. row # None
    BY <2>1, SentinelAssumption
  <2>3. modal' = [modal EXCEPT ![Top] = row] \/ (modal' = modal /\ at' = "unwind")
    BY DEF PublishModal
  <2>4. \/ at' = "run" /\ published' = published \cup {Top}
        \/ at' = "unwind" /\ published' = published
    BY DEF PublishModal
  <2> HIDE DEF row
  <2>5. CASE modal' = [modal EXCEPT ![Top] = row]
    BY <1>2, <2>1, <2>2, <2>4, <2>5 DEF TypeOK
  <2>6. CASE modal' = modal /\ at' = "unwind"
    BY <2>4, <2>6 DEF TypeOK
  <2> QED BY <2>3, <2>5, <2>6
<1>4. TypeOK'
  BY <1>2, <1>3, DialogAssumption DEF PublishModal, TypeOK, Places
<1>5. Control'
  BY <1>2 DEF PublishModal, Control, Running
<1>6. Stacked'
  BY <1>1, <1>2, <1>3 DEF PublishModal, Stacked, Opening, TypeOK
<1>7. Unused' /\ Queue'
  BY <1>1, <1>2, <1>3 DEF PublishModal, Unused, Queue, IsQueued
<1>8. Working'
  BY <1>1, <1>2 DEF PublishModal, Working, WorkingAt, Executes, IsQueued
<1>9. Ran' /\ Ended' /\ Asked' /\ Shown' /\ Counted'
  BY DEF PublishModal, Ran, Ended, Asked, Shown, Counted, Pending
<1>10. AnswersAgree' /\ OneCommandPerRendering' /\ ReceiptsAreTrue' /\ ToldOutcomesAreStored'
  BY DEF PublishModal, AnswersAgree, OneCommandPerRendering, ReceiptsAreTrue, ToldOutcomesAreStored
<1> QED BY <1>4, <1>5, <1>6, <1>7, <1>8, <1>9, <1>10

LEMMA SnapshotKeeps == ASSUME Inv, Snapshot PROVE Inv'
<1> USE DEF Inv
<1>1. Open' = Open /\ Top' = Top /\ Once' = Once
  BY Still DEF Snapshot
<1>2. /\ at = "run" /\ at' = "input" /\ Top \in Open /\ Top \in Modals /\ Top \in published
      /\ executing[Top] = None
  BY Stacks DEF Snapshot, Stacked, Opening
<1>3. TypeOK'
  BY <1>2 DEF Snapshot, TypeOK, Places
<1>4. Control'
  BY <1>2 DEF Snapshot, Control, Running
<1>5. Stacked' /\ Unused' /\ Queue'
  BY <1>1, <1>2 DEF Snapshot, TypeOK, Stacked, Opening, Unused, Queue, IsQueued
<1>6. Working'
  BY <1>1, <1>2 DEF Snapshot, TypeOK, Working, WorkingAt, Executes, IsQueued
<1>7. Ran' /\ Ended' /\ Asked' /\ Shown' /\ Counted'
  BY DEF Snapshot, Ran, Ended, Asked, Shown, Counted, Pending
<1>8. AnswersAgree' /\ OneCommandPerRendering' /\ ReceiptsAreTrue' /\ ToldOutcomesAreStored'
  BY DEF Snapshot, AnswersAgree, OneCommandPerRendering, ReceiptsAreTrue, ToldOutcomesAreStored
<1> QED BY <1>3, <1>4, <1>5, <1>6, <1>7, <1>8

LEMMA TakeInputKeeps == ASSUME Inv, TakeInput PROVE Inv'
<1> USE DEF Inv
<1>m. PICK m \in Modals : m = Top /\ m \in Open
  BY Stacks DEF TakeInput, Control
<1>1. Open' = Open /\ Top = m /\ Top' = m /\ Once' = Once
  BY Still, <1>m DEF TakeInput
<1>2. at = "input" /\ at' \in {"run", "unwind"} /\ m \in Open /\ m \in Modals /\ m \in published
  BY <1>m, <1>1 DEF TakeInput, Control, Stacked, Opening
<1>3. Control' /\ Stacked' /\ Queue' /\ Ended' /\ Asked' /\ Shown' /\ AnswersAgree'
      /\ ToldOutcomesAreStored'
  BY <1>1, <1>2 DEF TakeInput, Control, Running, Stacked, Opening, Queue, IsQueued, Ended, Asked, Shown,
     AnswersAgree, ToldOutcomesAreStored
<1>4. CASE input[m] = None \/ at' = "unwind"
  <2>1. at' = "unwind" /\ UNCHANGED <<executing, input, ran>>
    BY <1>1, <1>4 DEF TakeInput
  <2>2. TypeOK'
    BY <2>1 DEF TakeInput, TypeOK, Places
  <2>3. Unused' /\ Working'
    BY <1>1, <1>2, <2>1 DEF TakeInput, Unused, Working, WorkingAt, Executes, IsQueued
  <2>4. Ran' /\ Counted' /\ OneCommandPerRendering' /\ ReceiptsAreTrue'
    BY <2>1 DEF TakeInput, Ran, Counted, Pending, OneCommandPerRendering, ReceiptsAreTrue
  <2> QED BY <1>3, <2>2, <2>3, <2>4
<1>5. CASE input[m] # None /\ at' # "unwind"
  <2>c. PICK c \in Commands : c = input[m] /\ c # None
    BY <1>5 DEF TypeOK
  <2>1. /\ executing' = [executing EXCEPT ![m] = c] /\ input' = [input EXCEPT ![m] = None]
        /\ ran' = [ran EXCEPT ![c] = @ + 1] /\ at' = "run"
    BY <1>1, <1>5, <2>c DEF TakeInput
  <2>2. c \in Commands
    OBVIOUS
  <2>3. /\ c.modal = m /\ c.revision = revision[m] /\ busy[m] /\ IsQueued(c)
        /\ executing[m] # None => executing[m].revision # revision[m]
    BY <1>m, <2>c DEF Working, WorkingAt
  <2>4. ran[c] = 0 /\ c \notin kept
    BY <2>2, <2>3, Kinds, <1>2 DEF Ran, TypeOK
  <2>5. \A d \in Commands : d.modal = m /\ ran[d] = 1 => d.revision < revision[m]
    BY <2>3, Kinds DEF Ran
  <2>6. ran'[c] = 1 /\ \A d \in Commands \ {c} : ran'[d] = ran[d]
    BY <2>1, <2>2, <2>4 DEF TypeOK
  <2>7. /\ executing'[m] = c /\ input'[m] = None
        /\ \A k \in Modals \ {m} : executing'[k] = executing[k] /\ input'[k] = input[k]
    BY <1>2, <2>1 DEF TypeOK
  <2>8. TypeOK'
    BY <1>2, <2>1, <2>2 DEF TakeInput, TypeOK, Places
  <2>9. Unused'
    BY <1>2, <2>7 DEF TakeInput, Unused
  <2>10. Working'
    <3>1. WorkingAt(m)'
      BY <1>1, <1>2, <2>1, <2>2, <2>3, <2>4, <2>6, <2>7, Kinds
      DEF TakeInput, TypeOK, WorkingAt, Executes, IsQueued
    <3>2. ASSUME NEW k \in Modals, k # m PROVE WorkingAt(k)'
      <4>1. WorkingAt(k)
        BY DEF Working
      <4>2. executing[k] # None => executing[k] \in Commands \ {c}
        BY <3>2, <4>1, <2>3 DEF WorkingAt, TypeOK
      <4>3. Executes(k)' => Executes(k)
        BY <1>1, <3>2 DEF Executes
      <4> QED BY <3>2, <4>1, <4>2, <4>3, <2>6, <2>7, <1>1 DEF TakeInput, WorkingAt, IsQueued
    <3> QED BY <3>1, <3>2, <2>1 DEF Working
  <2>11. Ran'
    <3>1. kept' = kept /\ revision' = revision
      BY DEF TakeInput
    <3>2. ASSUME NEW d \in Commands, ran'[d] = 1
          PROVE  \/ d.revision < revision[d.modal]
                 \/ executing'[d.modal] = d /\ d.revision = revision[d.modal]
      <4>1. CASE d = c
        BY <4>1, <2>3, <2>7
      <4>2. CASE d # c /\ d.modal = m
        BY <4>2, <3>2, <2>5, <2>6
      <4>3. CASE d.modal # m
        BY <4>3, <3>2, <2>3, <2>6, <2>7, Kinds DEF Ran
      <4> QED BY <4>1, <4>2, <4>3
    <3>3. \A d \in Commands : ran'[d] \in {0, 1}
      BY <2>6 DEF Ran
    <3>4. kept \subseteq {d \in Commands : ran'[d] = 1}
      BY <2>4, <2>6 DEF Ran
    <3> QED BY <3>1, <3>2, <3>3, <3>4 DEF Ran
  <2>12. Counted'
    BY <2>c, <2>3, <2>7, DialogAssumption DEF TakeInput, TypeOK, Counted, Pending
  <2>13. OneCommandPerRendering'
    BY <2>2, <2>3, <2>5, <2>6, Kinds, <1>2 DEF TakeInput, TypeOK, OneCommandPerRendering
  <2>14. ReceiptsAreTrue'
    BY <2>2, <2>3, <2>6 DEF TakeInput, IsQueued, ReceiptsAreTrue
  <2> QED BY <1>3, <2>8, <2>9, <2>10, <2>11, <2>12, <2>13, <2>14
<1> QED BY <1>4, <1>5

\* An error leaves the pages, the call returns, or the authority of its client has ended.
LEMMA RaiseKeeps == ASSUME Inv, Raise \/ Return \/ Cancel PROVE Inv'
<1> USE DEF Inv, Raise, Return, Cancel
<1>1. Open' = Open /\ Top' = Top /\ Once' = Once
  BY Still
<1>2. /\ \/ at = "run" /\ at' \in {"unwind", "end"}
         \/ at \in {"answer", "input"} /\ at' = at
  BY DEF Leaves
<1>3. TypeOK'
  BY <1>2 DEF TypeOK, Leaves, Places
<1>4. Control'
  BY <1>2 DEF Control, Running, Leaves
<1>5. Stacked' /\ Unused' /\ Queue'
  BY <1>1, <1>2 DEF Stacked, Opening, Unused, Queue, IsQueued
<1>6. Working'
  BY <1>1, <1>2 DEF Working, WorkingAt, Executes, IsQueued
<1>7. Ran' /\ Ended' /\ Asked' /\ Shown' /\ Counted'
  BY DEF Ran, Ended, Asked, Shown, Counted, Pending
<1>8. AnswersAgree' /\ OneCommandPerRendering' /\ ReceiptsAreTrue' /\ ToldOutcomesAreStored'
  BY DEF AnswersAgree, OneCommandPerRendering, ReceiptsAreTrue, ToldOutcomesAreStored
<1> QED BY <1>3, <1>4, <1>5, <1>6, <1>7, <1>8

\* The fence of a result: the receipt of the command is no longer queued, no other changes.
LEMMA CompletesStores ==
    ASSUME TypeOK, NEW c \in Commands, IsQueued(c), NEW result \in {"processed", "failed"},
           Completes(c, result)
    PROVE  /\ modal' \in [Modals -> ModalRow \cup {None}]
           /\ \A k \in Modals : modal[k] # None => modal'[k] # None
           /\ receipt' \in [Commands -> ReceiptRow \cup {None}]
           /\ receipt'[c] # None /\ receipt'[c].outcome = result
           /\ \A d \in Commands \ {c} : receipt'[d] = receipt[d]
<1> DEFINE m == c.modal
           active == ~ (result = "processed" /\ receipt[c].body \in Closing)
           row == [revision |-> revision[m] + 1, active |-> active]
           end == [receipt[c] EXCEPT !.outcome = result]
<1>1. m \in Modals /\ revision[m] \in 0..Budget
  BY Kinds DEF TypeOK
<1>2. row \in ModalRow
  BY <1>1, DialogAssumption DEF ModalRow
<1>3. receipt[c] # None
  BY DEF IsQueued
<1>4. end \in ReceiptRow /\ end.outcome = result
  BY <1>3 DEF TypeOK, ReceiptRow
<1>5. row # None /\ end # None
  BY <1>2, <1>4, SentinelAssumption
<1>6. modal' = [modal EXCEPT ![m] = row] /\ receipt' = [receipt EXCEPT ![c] = end]
  BY <1>1 DEF Completes, TypeOK
<1> HIDE DEF row, end, m
<1> QED BY <1>1, <1>2, <1>4, <1>5, <1>6 DEF TypeOK

LEMMA CompleteKeeps ==
    ASSUME Inv, NEW result \in {"processed", "failed"}, Complete(result) PROVE Inv'
<1> USE DEF Inv
<1>m. PICK m \in Modals : m = Top /\ m \in Open
  BY Stacks DEF Complete
<1>c. PICK c \in Commands : c = executing[m] /\ c # None
  BY <1>m DEF Complete, TypeOK
<1>1. Open' = Open /\ Top = m /\ Top' = m /\ Once' = Once
  BY Still, <1>m DEF Complete
<1>2. at = "run" /\ m \in published /\ Executes(m)
  BY <1>m DEF Complete, Stacked, Opening, Executes
<1>3. /\ c.modal = m /\ c.revision = revision[m] /\ busy[m] /\ input[m] = None
      /\ IsQueued(c) /\ c \notin kept /\ ran[c] = 1
  BY <1>c, <1>2 DEF Working, WorkingAt
<1>4. /\ UNCHANGED <<state, cancelled, asked, shown, stack, input, executing, frame, published,
                     dialog, requests, outcome, ran, doubtful, unclosed>>
      /\ kept' = IF result = "processed" THEN kept \cup {c} ELSE kept
  BY <1>1, <1>c DEF Complete, Bounds
<1>5. \/ /\ Completes(c, result)
         /\ revision' = [revision EXCEPT ![m] = @ + 1]
         /\ ended' = [ended EXCEPT ![c] = result]
         /\ \/ at' = "closing" /\ busy' = [busy EXCEPT ![m] = TRUE]
            \/ at' = "input" /\ busy' = [busy EXCEPT ![m] = FALSE]
         /\ UNCHANGED faults
      \/ at' = "unwind" /\ UNCHANGED <<revision, busy, ended, modal, receipt, faults>>
      \/ Fault /\ Completes(c, result) /\ at' = "unwind" /\ UNCHANGED <<revision, busy, ended>>
  BY <1>1, <1>c DEF Complete
<1>6. /\ modal' \in [Modals -> ModalRow \cup {None}]
      /\ \A k \in Modals : modal[k] # None => modal'[k] # None
      /\ receipt' \in [Commands -> ReceiptRow \cup {None}]
      /\ \A d \in Commands \ {c} : receipt'[d] = receipt[d]
      /\ \/ receipt'[c] = receipt[c] /\ at' = "unwind"
         \/ receipt'[c] # None /\ receipt'[c].outcome = result
  BY <1>3, <1>5, CompletesStores DEF TypeOK
<1>7. revision[m] + 1 <= asked /\ asked <= Budget
  BY <1>c, <1>3, DialogAssumption DEF Counted, Pending, TypeOK
<1>8. /\ at' \in {"closing", "input", "unwind"}
      /\ \A k \in Modals \ {m} : revision'[k] = revision[k] /\ busy'[k] = busy[k]
      /\ \/ at' = "unwind" /\ revision'[m] = revision[m] /\ busy'[m] = busy[m] /\ ended' = ended
         \/ /\ (at' = "closing" /\ busy'[m]) \/ at' = "input"
            /\ revision'[m] = revision[m] + 1
            /\ receipt'[c].outcome = result /\ receipt'[c] # None
            /\ ended' = [ended EXCEPT ![c] = result]
  <2>1. CASE at' = "unwind"
    BY <2>1, <1>5
  <2>2. CASE at' # "unwind"
    <3>1. /\ Completes(c, result)
          /\ revision' = [revision EXCEPT ![m] = @ + 1]
          /\ ended' = [ended EXCEPT ![c] = result]
          /\ \/ at' = "closing" /\ busy' = [busy EXCEPT ![m] = TRUE]
             \/ at' = "input" /\ busy' = [busy EXCEPT ![m] = FALSE]
      BY <2>2, <1>5
    <3>2. receipt'[c].outcome = result /\ receipt'[c] # None
      BY <3>1, <1>3, CompletesStores
    <3> HIDE DEF Inv
    <3>3. revision \in [Modals -> 0..Budget] /\ busy \in [Modals -> BOOLEAN]
      BY DEF Inv, TypeOK
    <3> QED BY <3>1, <3>2, <3>3
  <2> QED BY <2>1, <2>2
<1>r. /\ \A k \in Modals : revision[k] \in Nat /\ revision'[k] \in Nat /\ revision[k] <= revision'[k]
      /\ \A d \in Commands : d.revision \in Nat
  <2>1. revision \in [Modals -> 0..Budget]
    BY DEF TypeOK
  <2> QED BY <1>8, <2>1, Kinds, DialogAssumption
<1>9. TypeOK'
  <2>1. revision' \in [Modals -> 0..Budget] /\ busy' \in [Modals -> BOOLEAN]
    <3>1. revision[m] + 1 \in 0..Budget /\ revision \in [Modals -> 0..Budget]
      BY <1>7, DialogAssumption DEF TypeOK
    <3>2. revision' = revision \/ revision' = [revision EXCEPT ![m] = revision[m] + 1]
      BY <1>5
    <3>3. busy \in [Modals -> BOOLEAN]
      BY DEF TypeOK
    <3>4. busy' = busy \/ busy' = [busy EXCEPT ![m] = TRUE] \/ busy' = [busy EXCEPT ![m] = FALSE]
      BY <1>5
    <3> HIDE DEF Inv
    <3> QED BY <3>1, <3>2, <3>3, <3>4
  <2>2. ended' \in [Commands -> {"processed", "failed", None}] /\ faults' \in 0..MaxFaults
    <3>1. ended' = ended \/ ended' = [ended EXCEPT ![c] = result]
      BY <1>5
    <3>2. faults' = faults \/ (faults < MaxFaults /\ faults' = faults + 1)
      BY <1>5
    <3>3. faults \in 0..MaxFaults /\ ended \in [Commands -> {"processed", "failed", None}]
      BY DEF TypeOK
    <3>4. faults' \in 0..MaxFaults
      BY <3>2, <3>3, DialogAssumption
    <3> HIDE DEF Inv
    <3> QED BY <3>1, <3>3, <3>4
  <2>3. kept' \subseteq Commands /\ at' \in Places
    BY <1>4, <1>8 DEF TypeOK, Places
  <2> QED BY <1>4, <1>6, <2>1, <2>2, <2>3 DEF TypeOK
<1>10. Control'
  BY <1>1, <1>2, <1>4, <1>8 DEF Control, Running, Complete
<1>11. Stacked' /\ Unused'
  BY <1>1, <1>2, <1>3, <1>4, <1>6, <1>8 DEF TypeOK, Stacked, Opening, Unused
<1>12. Queue'
  BY <1>1, <1>2, <1>3, <1>4, <1>6, <1>8, <1>m DEF Queue, IsQueued
<1>13. Working'
  <2>1. WorkingAt(m)'
    <3>1. ~ Executes(m)' /\ input'[m] = None /\ executing'[m] = c /\ ran'[c] = 1
      BY <1>1, <1>3, <1>4, <1>8, <1>c DEF Executes
    <3>2. c.revision <= revision'[m] /\ (c.revision = revision'[m] => busy'[m])
      <4>1. CASE revision'[m] = revision[m] + 1
        BY <4>1, <1>3, <1>r
      <4>2. CASE revision'[m] = revision[m] /\ busy'[m] = busy[m]
        BY <4>2, <1>3, <1>r
      <4> QED BY <4>1, <4>2, <1>8
    <3> QED BY <3>1, <3>2, <1>3 DEF WorkingAt
  <2>2. ASSUME NEW k \in Modals, k # m PROVE WorkingAt(k)'
    <3>1. WorkingAt(k)
      BY DEF Working
    <3>2. executing[k] # None => executing[k] \in Commands \ {c} /\ executing[k] \notin kept' \ kept
      BY <2>2, <3>1, <1>3, <1>4 DEF WorkingAt, TypeOK
    <3>3. input[k] # None => input[k] \in Commands \ {c}
      BY <2>2, <3>1, <1>3 DEF WorkingAt, TypeOK
    <3>4. Executes(k)' => Executes(k)
      BY <1>1, <1>2, <2>2 DEF Executes
    <3> QED BY <2>2, <3>1, <3>2, <3>3, <3>4, <1>1, <1>4, <1>6, <1>8 DEF WorkingAt, IsQueued
  <2> QED BY <2>1, <2>2, <1>1, <1>3, <1>4, <1>8 DEF Working
<1>14. Ran'
  <2>1. kept' \subseteq {d \in Commands : ran[d] = 1}
    BY <1>3, <1>4 DEF Ran
  <2>2. ASSUME NEW d \in Commands, ran[d] = 1
        PROVE  \/ d.revision < revision'[d.modal]
               \/ executing[d.modal] = d /\ d.revision = revision'[d.modal]
    <3>1. d.modal \in Modals /\ (d.revision < revision[d.modal]
                                 \/ (executing[d.modal] = d /\ d.revision = revision[d.modal]))
      BY <2>2, Kinds DEF Ran
    <3>2. CASE d.modal # m
      BY <3>1, <3>2, <1>8
    <3>3. CASE d.modal = m
      BY <3>1, <3>3, <1>8, <1>r
    <3> QED BY <3>2, <3>3
  <2> QED BY <1>4, <2>1, <2>2 DEF Ran
<1>15. Ended'
  <2>1. CASE ended' = ended
    <3>1. ended[c] = None
      BY <1>3, SentinelAssumption DEF Ended, IsQueued, TypeOK
    <3> QED BY <2>1, <3>1, <1>6 DEF Ended
  <2>2. CASE ended' # ended
    <3>1. ended' = [ended EXCEPT ![c] = result] /\ receipt'[c].outcome = result /\ receipt'[c] # None
      BY <2>2, <1>8
    <3>2. ended'[c] = result /\ \A d \in Commands \ {c} : ended'[d] = ended[d]
      BY <3>1 DEF TypeOK
    <3> QED BY <3>1, <3>2, <1>6 DEF Ended
  <2> QED BY <2>1, <2>2
<1>16. Counted'
  <2>1. asked \in Nat /\ asked' = asked
    BY <1>4, DialogAssumption DEF TypeOK
  <2>2. revision'[m] <= asked /\ (Pending(m)' => revision'[m] + 1 <= asked)
    <3>1. input'[m] = None /\ executing'[m] = c
      BY <1>3, <1>4, <1>c
    <3>2. CASE revision'[m] = revision[m] + 1
      BY <3>1, <3>2, <1>3, <1>7, <1>r, <2>1 DEF Pending
    <3>3. CASE revision'[m] = revision[m]
      BY <3>3, <1>3, <1>7, <1>r, <2>1 DEF Pending
    <3> QED BY <3>2, <3>3, <1>8
  <2>3. \A k \in Modals \ {m} : revision'[k] = revision[k] /\ (Pending(k)' => Pending(k))
    BY <1>4, <1>8 DEF Pending
  <2> QED BY <2>1, <2>2, <2>3 DEF Counted
<1>17. Asked' /\ Shown' /\ AnswersAgree' /\ OneCommandPerRendering'
  BY <1>3, <1>4, <1>6 DEF Asked, Inputs, Shown, AnswersAgree, OneCommandPerRendering, IsQueued
<1>18. ReceiptsAreTrue'
  BY <1>3, <1>4, <1>6 DEF ReceiptsAreTrue, IsQueued
<1>19. ToldOutcomesAreStored'
  BY <1>3, <1>4, <1>6 DEF ToldOutcomesAreStored, Asked, Inputs, IsQueued
<1> QED BY <1>9, <1>10, <1>11, <1>12, <1>13, <1>14, <1>15, <1>16, <1>17, <1>18, <1>19


\* Closing the rows of a modal page fails what is queued there and changes no other receipt.
LEMMA ClosesStores ==
    ASSUME TypeOK, NEW m \in Modals, modal[m] # None, Closes(m)
    PROVE  /\ modal' \in [Modals -> ModalRow \cup {None}]
           /\ \A k \in Modals : modal[k] # None => modal'[k] # None
           /\ receipt' \in [Commands -> ReceiptRow \cup {None}]
           /\ \A c \in Commands :
                 /\ receipt[c] = None <=> receipt'[c] = None
                 /\ c.modal # m \/ ~ IsQueued(c) => receipt'[c] = receipt[c]
                 /\ c.modal = m /\ IsQueued(c) => receipt'[c].outcome = "abandoned"
<1>1. /\ modal' \in [Modals -> ModalRow \cup {None}]
      /\ \A k \in Modals : modal[k] # None => modal'[k] # None
  <2> DEFINE row == [modal[m] EXCEPT !.active = FALSE]
  <2>1. modal' = [modal EXCEPT ![m] = row]
    BY DEF Closes
  <2>2. row \in ModalRow
    BY DEF TypeOK, ModalRow
  <2>3. row # None
    BY <2>2, SentinelAssumption
  <2> HIDE DEF row
  <2> QED BY <2>1, <2>2, <2>3 DEF TypeOK
<1>2. ASSUME NEW c \in Commands, receipt[c] # None
      PROVE  LET d == [receipt[c] EXCEPT !.outcome = "abandoned"]
             IN  d \in ReceiptRow /\ d # None /\ d.outcome = "abandoned"
  <2> DEFINE d == [receipt[c] EXCEPT !.outcome = "abandoned"]
  <2>1. d \in ReceiptRow /\ d.outcome = "abandoned"
    BY <1>2 DEF TypeOK, ReceiptRow
  <2> QED BY <2>1, SentinelAssumption
<1>3. /\ DOMAIN receipt' = Commands
      /\ receipt' = [c \in Commands |-> receipt'[c]]
      /\ \A c \in Commands :
            receipt'[c] = IF c.modal = m /\ IsQueued(c)
                          THEN [receipt[c] EXCEPT !.outcome = "abandoned"] ELSE receipt[c]
  BY DEF Closes, IsQueued
<1>4. ASSUME NEW c \in Commands
      PROVE  /\ receipt'[c] \in ReceiptRow \cup {None}
             /\ receipt[c] = None <=> receipt'[c] = None
             /\ c.modal # m \/ ~ IsQueued(c) => receipt'[c] = receipt[c]
             /\ c.modal = m /\ IsQueued(c) => receipt'[c].outcome = "abandoned"
  <2>1. CASE c.modal = m /\ IsQueued(c)
    BY <1>2, <1>3, <2>1 DEF IsQueued
  <2>2. CASE ~ (c.modal = m /\ IsQueued(c))
    BY <1>3, <2>2 DEF TypeOK
  <2> QED BY <2>1, <2>2
<1> QED BY <1>1, <1>3, <1>4

\* What closing rows keeps, whatever else the step does.
LEMMA ClosingKeeps ==
    ASSUME Inv, NEW m \in Modals, m \in published, Closes(m),
           UNCHANGED <<stack, memory, published, dialog, requests, outcome, ran, kept, doubtful>>,
           m \in Open => m = Top /\ ~ Executes(m)' /\ input[m] = None,
           \A k \in Open : Executes(k)' => Executes(k)
    PROVE  /\ modal' \in [Modals -> ModalRow \cup {None}]
           /\ receipt' \in [Commands -> ReceiptRow \cup {None}]
           /\ \A k \in published' : modal'[k] # None
           /\ Unused' /\ (\A k \in Modals : WorkingAt(k)') /\ Ran' /\ Ended' /\ Asked'
           /\ OneCommandPerRendering' /\ ReceiptsAreTrue' /\ ToldOutcomesAreStored'
           /\ \A c \in Commands : IsQueued(c)' => IsQueued(c) /\ c.modal # m
<1> USE DEF Inv
<1>1. Open' = Open /\ Top' = Top
  BY Still
<1>2. modal[m] # None
  BY DEF Stacked
<1>3. /\ modal' \in [Modals -> ModalRow \cup {None}]
      /\ \A k \in Modals : modal[k] # None => modal'[k] # None
      /\ receipt' \in [Commands -> ReceiptRow \cup {None}]
      /\ \A c \in Commands :
            /\ receipt[c] = None <=> receipt'[c] = None
            /\ c.modal # m \/ ~ IsQueued(c) => receipt'[c] = receipt[c]
            /\ c.modal = m /\ IsQueued(c) => receipt'[c].outcome = "abandoned"
  BY <1>2, ClosesStores
<1>4. \A c \in Commands : IsQueued(c)' <=> IsQueued(c) /\ c.modal # m
  BY <1>3 DEF IsQueued
<1>5. Unused' /\ \A k \in published' : modal'[k] # None
  BY <1>3 DEF Unused, Stacked, TypeOK
<1>6. ASSUME NEW k \in Modals PROVE WorkingAt(k)'
  <2>1. WorkingAt(k)
    BY DEF Working
  <2>2. input[k] \in Commands \cup {None} /\ executing[k] \in Commands \cup {None}
    BY DEF TypeOK
  <2>3. Executes(k)' => k \in Open /\ k # m /\ Executes(k)
    BY <1>1 DEF Executes
  <2>4. input[k] # None /\ k \in Open => IsQueued(input[k])'
    BY <2>1, <2>2, <1>4 DEF WorkingAt
  <2>5. Executes(k)' /\ executing[k] # None => IsQueued(executing[k])'
    BY <2>1, <2>2, <2>3, <1>4 DEF WorkingAt
  <2> QED BY <2>1, <2>3, <2>4, <2>5, <1>1 DEF WorkingAt
<1>7. Ran' /\ OneCommandPerRendering'
  BY DEF Ran, OneCommandPerRendering
<1>8. Ended'
  <2> SUFFICES ASSUME NEW c \in Commands, ended[c] # None
               PROVE  receipt'[c] # None /\ receipt'[c].outcome = ended[c]
    BY DEF Ended
  <2>1. receipt[c] # None /\ receipt[c].outcome = ended[c] /\ ended[c] # "queued"
    BY DEF Ended, TypeOK
  <2> QED BY <2>1, <1>3 DEF IsQueued
<1>9. Asked'
  BY <1>3 DEF Asked, Inputs
<1>10. ReceiptsAreTrue'
  BY <1>3, <1>4 DEF ReceiptsAreTrue
<1>11. ToldOutcomesAreStored'
  <2> SUFFICES ASSUME NEW r \in Requests, told[r] \in {"processed", "failed", "abandoned"}
               PROVE  receipt'[request[r].about].outcome = told[r]
    BY DEF ToldOutcomesAreStored
  <2>1. /\ request[r].about \in Commands /\ receipt[request[r].about] # None
        /\ receipt[request[r].about].outcome = told[r]
    BY DEF ToldOutcomesAreStored, Asked, Inputs
  <2> QED BY <2>1, <1>3 DEF IsQueued
<1> QED BY <1>3, <1>4, <1>5, <1>6, <1>7, <1>8, <1>9, <1>10, <1>11

LEMMA ClosedKeeps == ASSUME Inv, Closed PROVE Inv'
<1> USE DEF Inv
<1>m. PICK m \in Modals : m = Top /\ m \in Open
  BY Stacks DEF Closed, Control
<1>1. Open' = Open /\ Top = m /\ Top' = m /\ Once' = Once
  BY Still, <1>m DEF Closed
<1>2. /\ at = "closing" /\ at' \in {"restore", "unwind"} /\ m \in published
      /\ busy[m] /\ input[m] = None
      /\ UNCHANGED <<state, cancelled, asked, shown, stack, memory, frame, published, dialog,
                     requests, history>>
      /\ faults' = faults \/ Fault
  BY <1>m DEF Closed, Stacked, Opening, Working
<1>3. Closes(m) \/ (at' = "unwind" /\ UNCHANGED <<modal, receipt>>)
  BY <1>1 DEF Closed
<1>4. \A k \in Modals : Executes(k)' => Executes(k) /\ k # m
  BY <1>1, <1>2 DEF Executes
<1>5. /\ modal' \in [Modals -> ModalRow \cup {None}]
      /\ receipt' \in [Commands -> ReceiptRow \cup {None}]
      /\ \A k \in published' : modal'[k] # None
      /\ Unused' /\ (\A k \in Modals : WorkingAt(k)') /\ Ran' /\ Ended' /\ Asked'
      /\ OneCommandPerRendering' /\ ReceiptsAreTrue' /\ ToldOutcomesAreStored'
      /\ \A c \in Commands : IsQueued(c)' => IsQueued(c) /\ (at' = "unwind" \/ c.modal # m)
  <2>1. CASE Closes(m)
    BY <2>1, <1>m, <1>1, <1>2, <1>4, ClosingKeeps, Stacks
  <2>2. CASE at' = "unwind" /\ UNCHANGED <<modal, receipt>>
    <3>1. Unused' /\ Ran' /\ Ended' /\ Asked' /\ OneCommandPerRendering' /\ ReceiptsAreTrue'
          /\ ToldOutcomesAreStored'
      BY <2>2, <1>2 DEF Unused, Ran, Ended, Asked, OneCommandPerRendering, ReceiptsAreTrue,
         ToldOutcomesAreStored
    <3>2. \A k \in Modals : WorkingAt(k)'
      BY <2>2, <1>1, <1>2, <1>4 DEF Working, WorkingAt, IsQueued
    <3> QED BY <2>2, <3>1, <3>2, <1>2 DEF TypeOK, Stacked, IsQueued
  <2> QED BY <2>1, <2>2, <1>3
<1>6. TypeOK'
  BY <1>2, <1>5, DialogAssumption DEF TypeOK, Places
<1>7. Control' /\ Stacked' /\ Queue'
  BY <1>1, <1>2, <1>5 DEF Control, Running, Stacked, Opening, Queue
<1>8. Working'
  BY <1>1, <1>2, <1>5 DEF Working
<1>9. Counted' /\ Shown' /\ AnswersAgree'
  BY <1>2 DEF Counted, Pending, Shown, AnswersAgree
<1> QED BY <1>5, <1>6, <1>7, <1>8, <1>9

LEMMA CloseUnwoundKeeps == ASSUME Inv, CloseUnwound PROVE Inv'
<1> USE DEF Inv
<1>m. PICK m \in Modals : m = frame /\ m \in published /\ m \notin Open
  BY DEF CloseUnwound, Stacked, TypeOK
<1>1. Open' = Open /\ Top' = Top /\ Once' = Once
  BY Still DEF CloseUnwound
<1>2. /\ at = "close" /\ at' \in {"run", "unwind", "end"} /\ frame' = None /\ Raises(stack)
      /\ UNCHANGED <<cancelled, asked, shown, stack, memory, published, dialog,
                     requests, outcome, ran, kept, doubtful>>
      /\ faults' = faults \/ Fault
  BY DEF CloseUnwound, Raises, Leaves
<1>3. \/ Closes(m) /\ unclosed' = unclosed
      \/ unclosed' = unclosed \cup {m} /\ UNCHANGED <<modal, receipt>>
  BY <1>m DEF CloseUnwound
<1>4. \A k \in Modals : Executes(k)' => Executes(k)
  BY <1>1, <1>2 DEF Executes
<1>5. /\ modal' \in [Modals -> ModalRow \cup {None}]
      /\ receipt' \in [Commands -> ReceiptRow \cup {None}]
      /\ \A k \in published' : modal'[k] # None
      /\ Unused' /\ (\A k \in Modals : WorkingAt(k)') /\ Ran' /\ Ended' /\ Asked'
      /\ OneCommandPerRendering' /\ ReceiptsAreTrue' /\ ToldOutcomesAreStored'
      /\ \A c \in Commands : IsQueued(c)' => IsQueued(c) /\ (m \in unclosed' \/ c.modal # m)
  <2>1. CASE Closes(m) /\ unclosed' = unclosed
    BY <2>1, <1>m, <1>1, <1>2, <1>4, ClosingKeeps, Stacks
  <2>2. CASE unclosed' = unclosed \cup {m} /\ UNCHANGED <<modal, receipt>>
    <3>1. Unused' /\ Ran' /\ Ended' /\ Asked' /\ OneCommandPerRendering' /\ ReceiptsAreTrue'
          /\ ToldOutcomesAreStored'
      BY <2>2, <1>2 DEF Unused, Ran, Ended, Asked, OneCommandPerRendering, ReceiptsAreTrue,
         ToldOutcomesAreStored
    <3>2. \A k \in Modals : WorkingAt(k)'
      BY <2>2, <1>1, <1>2, <1>4 DEF Working, WorkingAt, IsQueued
    <3> QED BY <2>2, <3>1, <3>2, <1>2 DEF TypeOK, Stacked, IsQueued
  <2> QED BY <2>1, <2>2, <1>3
<1>6. TypeOK'
  <2>1. unclosed' \subseteq Modals /\ state' \in {"running", "returned", "failed"}
    BY <1>2, <1>3 DEF TypeOK, Raises, Leaves
  <2> QED BY <1>2, <1>5, <2>1, DialogAssumption DEF TypeOK, Places
<1>7. Control' /\ Stacked'
  BY <1>1, <1>2, <1>5 DEF Control, Running, Stacked, Opening, Raises, Leaves
<1>8. Queue'
  BY <1>m, <1>1, <1>2, <1>3, <1>5 DEF Queue
<1>9. Working'
  BY <1>1, <1>2, <1>5 DEF Working
<1>10. Counted' /\ Shown' /\ AnswersAgree'
  BY <1>2 DEF Counted, Pending, Shown, AnswersAgree
<1> QED BY <1>5, <1>6, <1>7, <1>8, <1>9, <1>10

LEMMA RestoreKeeps == ASSUME Inv, Restore PROVE Inv'
<1> USE DEF Inv
<1>m. PICK m \in Modals : m = Top /\ m \in Open
  BY Stacks DEF Restore, Control
<1>1. stack' \in Seq(Modals) /\ Len(stack') < Len(stack) /\ Open' = Open \ {m} /\ Once'
  BY <1>m, Pop DEF Restore, Control, Stacked
<1>2. /\ at \in {"restore", "unwind"} /\ at' \in {"run", "close", "unwind", "end"}
      /\ UNCHANGED <<cancelled, asked, shown, memory, published, tables, requests, history, faults>>
      /\ \/ at = "restore" /\ at' = "run" /\ UNCHANGED <<state, frame>>
         \/ at = "unwind" /\ m \in published /\ at' = "close" /\ frame' = m /\ UNCHANGED state
         \/ at = "unwind" /\ m \notin published /\ Raises(stack') /\ UNCHANGED frame
  BY <1>m DEF Restore, Raises, Leaves
<1>3. \A k \in Modals : Executes(k)' => Executes(k)
  BY <1>m, <1>1, <1>2 DEF Executes
<1>4. TypeOK'
  <2>1. Len(stack') <= Depth
    BY <1>1, DialogAssumption DEF TypeOK
  <2>2. /\ state' \in {"running", "returned", "failed"} /\ at' \in Places
        /\ frame' \in Questions \cup Modals \cup {None}
    BY <1>2 DEF TypeOK, Raises, Leaves, Places
  <2> QED BY <1>1, <1>2, <2>1, <2>2 DEF TypeOK
<1>5. Control'
  BY <1>2 DEF Control, Running, Raises, Leaves
<1>6. Stacked' /\ Unused'
  <2>1. \A k \in Open' : k \in published'
    BY <1>m, <1>1, <1>2 DEF Stacked
  <2>2. at' = "close" => frame' \in published' \ Open'
    BY <1>1, <1>2 DEF Raises, Leaves
  <2>3. /\ \A k \in published' : modal'[k] # None
        /\ Unused' /\ at' # "publish"
    BY <1>2 DEF Stacked, Unused
  <2> QED BY <1>1, <2>1, <2>2, <2>3 DEF Stacked
<1>7. Queue'
  BY <1>m, <1>1, <1>2, Kinds DEF Queue, IsQueued, Unused
<1>8. Working'
  BY <1>1, <1>2, <1>3 DEF Working, WorkingAt, IsQueued
<1>9. Ran' /\ Ended' /\ Asked' /\ Shown' /\ Counted'
  BY <1>2 DEF Ran, Ended, Asked, Shown, Counted, Pending
<1>10. AnswersAgree' /\ OneCommandPerRendering' /\ ReceiptsAreTrue' /\ ToldOutcomesAreStored'
  BY <1>2 DEF AnswersAgree, OneCommandPerRendering, ReceiptsAreTrue, ToldOutcomesAreStored
<1> QED BY <1>4, <1>5, <1>6, <1>7, <1>8, <1>9, <1>10

----------------------------------------------------------------------------
(* Requests. *)

LEMMA AnswerKeeps ==
    ASSUME Inv, NEW r \in Requests, NEW q \in Questions, NEW x \in Choices, Answer(r, q, x)
    PROVE  Inv'
<1> USE DEF Inv
<1> DEFINE stored == dialog[q].answer = None /\ question = q
           asks == request' = [request EXCEPT ![r] = [about |-> q, choice |-> x]]
           row == [dialog[q] EXCEPT !.answer = x]
<1>1. /\ request[r] = None /\ dialog[q] # None
      /\ UNCHANGED <<state, cancelled, asked, question, stack, memory, worker, modal, receipt,
                     outcome, ran, kept, unclosed>>
  BY DEF Answer
<1>2. \/ /\ stored /\ dialog' = [dialog EXCEPT ![q] = row] /\ asks
         /\ \/ told' = [told EXCEPT ![r] = "accepted"]
            \/ told' = [told EXCEPT ![r] = "error"]
         /\ \/ reply' = x /\ doubtful' = doubtful
            \/ reply' = reply /\ doubtful' = doubtful \cup {q}
      \/ /\ dialog[q].answer = x /\ asks /\ told' = [told EXCEPT ![r] = "repeated"]
         /\ UNCHANGED <<dialog, reply, doubtful>>
      \/ told' = [told EXCEPT ![r] = "refused"] /\ UNCHANGED <<dialog, reply, request, doubtful>>
  BY DEF Answer
<1>3. faults' = faults \/ Fault
  BY DEF Answer
<1>4. row \in DialogRow /\ row # None /\ row.answer = x
  <2>1. row \in DialogRow /\ row.answer = x
    BY <1>1 DEF TypeOK, DialogRow
  <2> QED BY <2>1, SentinelAssumption
<1> HIDE DEF row
<1>5. /\ dialog' \in [Questions -> DialogRow \cup {None}]
      /\ \A p \in Questions : dialog'[p] # None <=> dialog[p] # None
      /\ \A p \in Questions : dialog'[p] = dialog[p] \/ (p = q /\ stored)
  <2>1. \/ dialog' = dialog
        \/ stored /\ dialog' = [dialog EXCEPT ![q] = row]
    BY <1>2
  <2> HIDE DEF stored
  <2> QED BY <2>1, <1>1, <1>4 DEF TypeOK
<1>6. Open' = Open /\ Top' = Top /\ Once' = Once
  BY Still, <1>1
<1>7. /\ \A s \in Requests \ {r} : request'[s] = request[s] /\ told'[s] = told[s]
      /\ request'[r] = request[r] \/ request'[r] = [about |-> q, choice |-> x]
      /\ told'[r] \in {"accepted", "repeated"} => /\ request'[r] = [about |-> q, choice |-> x]
                                                  /\ dialog'[q].answer = x
      /\ told'[r] \in {"accepted", "repeated", "error", "refused"}
  BY <1>1, <1>2, <1>4 DEF TypeOK
<1>8. TypeOK'
  <2>1. request' \in [Requests -> Answers \cup Inputs \cup {None}] /\ told' \in [Requests -> Verdicts]
    <3>1. [about |-> q, choice |-> x] \in Answers
      BY DEF Answers
    <3> QED BY <1>2, <3>1 DEF TypeOK, Verdicts
  <2>2. reply' \in Choices \cup {None} /\ doubtful' \subseteq Questions
    BY <1>2 DEF TypeOK
  <2>3. faults' \in 0..MaxFaults
    BY <1>3, DialogAssumption DEF TypeOK
  <2> QED BY <1>1, <1>5, <2>1, <2>2, <2>3 DEF TypeOK
<1>9. Control'
  BY <1>1, <1>5 DEF Control, TypeOK, Running
<1>10. Stacked' /\ Unused' /\ Queue' /\ Working'
  BY <1>1, <1>6 DEF Stacked, Unused, Queue, IsQueued, Working, WorkingAt, Executes
<1>11. Ran' /\ Ended' /\ Counted' /\ OneCommandPerRendering' /\ ReceiptsAreTrue'
  BY <1>1 DEF Ran, Ended, Counted, Pending, OneCommandPerRendering, ReceiptsAreTrue
<1>12. Asked'
  <2> SUFFICES ASSUME NEW s \in Requests
               PROVE  /\ told'[s] \in {"accepted", "repeated"} =>
                            request'[s] \in Answers /\ dialog'[request'[s].about] # None
                      /\ told'[s] \in {"holds", "reads", "working", "processed", "failed",
                                       "abandoned", "root"} =>
                            request'[s] \in Inputs /\ receipt'[request'[s].about] # None
    BY DEF Asked
  <2>1. CASE s = r
    <3>1. [about |-> q, choice |-> x] \in Answers
      BY DEF Answers
    <3> QED BY <2>1, <3>1, <1>1, <1>5, <1>7
  <2>2. CASE s # r
    BY <2>2, <1>1, <1>5, <1>7 DEF Asked, Answers
  <2> QED BY <2>1, <2>2
<1>13. Shown'
  <2>1. CASE dialog' = dialog
    BY <2>1, <1>1, <1>2, <1>4 DEF Shown, TypeOK
  <2>2. CASE dialog' # dialog
    <3>1. /\ stored /\ dialog' = [dialog EXCEPT ![q] = row]
          /\ \/ reply' = x /\ doubtful' = doubtful
             \/ reply' = reply /\ doubtful' = doubtful \cup {q}
      BY <2>2, <1>2
    <3>2. reply = None
      BY <3>1, DialogAssumption DEF Shown
    <3>3. dialog'[q].answer = x /\ question' = q /\ x # None /\ q # None
      BY <3>1, <1>1, <1>4, DialogAssumption DEF TypeOK
    <3> QED BY <3>1, <3>2, <3>3, <1>1, <1>5 DEF Shown
  <2> QED BY <2>1, <2>2
<1>14. AnswersAgree'
  <2>1. ASSUME NEW s \in Requests, told'[s] \in {"accepted", "repeated"}
        PROVE  dialog'[request'[s].about].answer = request'[s].choice
    <3>1. CASE s = r
      BY <2>1, <3>1, <1>7
    <3>2. CASE s # r
      <4>1. /\ request'[s] = request[s] /\ request[s] \in Answers
            /\ dialog[request[s].about].answer = request[s].choice
        BY <2>1, <3>2, <1>7 DEF Asked, AnswersAgree
      <4>2. request[s].about \in Questions /\ request[s].choice \in Choices
        BY <4>1 DEF Answers
      <4> QED BY <4>1, <4>2, <1>5, DialogAssumption
    <3> QED BY <3>1, <3>2
  <2>2. ASSUME NEW p \in Questions, outcome[p] # None PROVE dialog'[p] = dialog[p]
    BY <2>2, <1>5 DEF Shown
  <2>3. doubtful \subseteq doubtful'
    BY <1>2
  <2> QED BY <2>1, <2>2, <2>3, <1>1, SentinelAssumption, DialogAssumption DEF AnswersAgree
<1>15. ToldOutcomesAreStored'
  BY <1>1, <1>7 DEF ToldOutcomesAreStored
<1> QED BY <1>8, <1>9, <1>10, <1>11, <1>12, <1>13, <1>14, <1>15

\* What a request concerning a command leaves alone, and what it may be told.
LEMMA SubmitTells ==
    ASSUME Inv, NEW r \in Requests, NEW c \in Commands, NEW b \in Bodies, Submit(r, c, b)
    PROVE  /\ UNCHANGED <<state, cancelled, shown, stack, revision, executing, ended, worker,
                          dialog, modal, history>>
           /\ faults' \in 0..MaxFaults
           /\ request' \in [Requests -> Answers \cup Inputs \cup {None}]
           /\ told' \in [Requests -> Verdicts]
           /\ \A s \in Requests \ {r} : request'[s] = request[s] /\ told'[s] = told[s]
           /\ told'[r] \in {"holds", "reads", "error", "refused"}
           /\ told'[r] \in {"holds", "reads"} =>
                 request'[r] \in Inputs /\ request'[r].about = c /\ receipt'[c] # None
<1> USE DEF Inv
<1> DEFINE ask == [about |-> c, body |-> b]
<1>1. ask \in Inputs /\ ask.about = c
  BY DEF Inputs
<1>q. [body |-> b, outcome |-> "queued"] # None
  <2>1. [body |-> b, outcome |-> "queued"] \in ReceiptRow
    BY DEF ReceiptRow
  <2> QED BY <2>1, SentinelAssumption
<1>2. /\ faults' = faults \/ Fault
      /\ \/ /\ request' = [request EXCEPT ![r] = ask]
            /\ \/ told' = [told EXCEPT ![r] = "reads"] /\ receipt[c] # None /\ receipt' = receipt
               \/ /\ told' = [told EXCEPT ![r] = "holds"]
                  /\ receipt' = [receipt EXCEPT ![c] = [body |-> b, outcome |-> "queued"]]
               \/ told' = [told EXCEPT ![r] = "error"]
         \/ told' = [told EXCEPT ![r] = "refused"] /\ request' = request
  BY DEF Submit
<1> HIDE DEF ask
<1>3. faults' \in 0..MaxFaults
  BY <1>2, DialogAssumption DEF TypeOK
<1>4. /\ request' \in [Requests -> Answers \cup Inputs \cup {None}]
      /\ told' \in [Requests -> Verdicts]
  BY <1>1, <1>2 DEF TypeOK, Verdicts
<1>5. told'[r] \in {"holds", "reads"} => receipt'[c] # None
  BY <1>2, <1>q DEF TypeOK
<1>6. UNCHANGED <<state, cancelled, shown, stack, revision, executing, ended, worker,
                  dialog, modal, history>>
  BY DEF Submit
<1> QED BY <1>1, <1>2, <1>3, <1>4, <1>5, <1>6 DEF TypeOK

\* A request that changes nothing but what it was told.
LEMMA SubmitReads ==
    ASSUME Inv, NEW r \in Requests, NEW c \in Commands, NEW b \in Bodies, Submit(r, c, b),
           UNCHANGED <<asked, input, busy, receipt>>
    PROVE  Inv'
<1> USE DEF Inv
<1>1. /\ UNCHANGED <<state, cancelled, shown, stack, memory, worker, tables, history>>
      /\ request' \in [Requests -> Answers \cup Inputs \cup {None}]
      /\ \A s \in Requests \ {r} : request'[s] = request[s] /\ told'[s] = told[s]
      /\ told'[r] \in {"holds", "reads", "error", "refused"}
      /\ told'[r] \in {"holds", "reads"} => /\ request'[r] \in Inputs /\ request'[r].about = c
                                            /\ receipt[c] # None
  BY SubmitTells
<1>2. Open' = Open /\ Top' = Top /\ Once' = Once
  BY Still, <1>1
<1>3. TypeOK'
  BY <1>1, SubmitTells DEF TypeOK
<1>4. Control' /\ Stacked' /\ Unused' /\ Queue' /\ Working'
  BY <1>1, <1>2 DEF Control, Running, Stacked, Unused, Queue, IsQueued, Working, WorkingAt, Executes
<1>5. Ran' /\ Ended' /\ Counted' /\ Shown' /\ OneCommandPerRendering' /\ ReceiptsAreTrue'
  BY <1>1 DEF Ran, Ended, Counted, Pending, Shown, OneCommandPerRendering, ReceiptsAreTrue
<1>6. Asked' /\ AnswersAgree' /\ ToldOutcomesAreStored'
  BY <1>1 DEF Asked, AnswersAgree, ToldOutcomesAreStored
<1> QED BY <1>3, <1>4, <1>5, <1>6

\* A command is stored, and given to the page unless the reply of the statement was lost.
LEMMA SubmitStores ==
    ASSUME Inv, NEW r \in Requests, NEW c \in Commands, NEW b \in Bodies, Submit(r, c, b),
           receipt[c] = None, Admits(c), told'[r] # "refused"
    PROVE  Inv'
<1> USE DEF Inv
<1>m. PICK m \in Modals : m = c.modal /\ m = Top /\ m \in Open
  BY Kinds, Stacks DEF Admits
<1>1. /\ UNCHANGED <<state, cancelled, shown, stack, revision, executing, ended, worker, dialog,
                     modal, history>>
      /\ \A s \in Requests \ {r} : request'[s] = request[s] /\ told'[s] = told[s]
      /\ told'[r] \in {"holds", "reads", "error", "refused"}
      /\ told'[r] \in {"holds", "reads"} => /\ request'[r] \in Inputs /\ request'[r].about = c
                                            /\ receipt'[c] # None
  BY SubmitTells
<1>2. Open' = Open /\ Top' = m /\ Top = m /\ Once' = Once
  BY Still, <1>1, <1>m
<1>3. ~ busy[m] /\ revision[m] = c.revision /\ asked + 1 \in 0..Budget /\ m \in published
  BY <1>m, DialogAssumption DEF Admits, TypeOK, Submit
<1>4. /\ receipt' = [receipt EXCEPT ![c] = [body |-> b, outcome |-> "queued"]]
      /\ \/ /\ asked' = asked + 1
            /\ input' = [input EXCEPT ![m] = c]
            /\ busy' = [busy EXCEPT ![m] = TRUE]
         \/ UNCHANGED <<asked, input, busy>>
  BY <1>m DEF Submit, TypeOK
<1>5. /\ receipt' \in [Commands -> ReceiptRow \cup {None}]
      /\ receipt'[c] # None /\ receipt'[c].outcome = "queued"
      /\ \A d \in Commands \ {c} : receipt'[d] = receipt[d]
  <2> DEFINE row == [body |-> b, outcome |-> "queued"]
  <2>1. row \in ReceiptRow /\ row.outcome = "queued"
    BY DEF ReceiptRow
  <2>2. row # None
    BY <2>1, SentinelAssumption
  <2>3. receipt' = [receipt EXCEPT ![c] = row]
    BY <1>4
  <2> HIDE DEF row
  <2> QED BY <2>1, <2>2, <2>3 DEF TypeOK
<1>6. /\ \A d \in Commands : receipt[d] # None => d # c
      /\ \A d \in Commands : IsQueued(d)' <=> IsQueued(d) \/ d = c
  BY <1>5 DEF IsQueued
<1>7. /\ \A k \in Modals \ {m} : input'[k] = input[k] /\ busy'[k] = busy[k]
      /\ \/ asked' = asked + 1 /\ input'[m] = c /\ busy'[m]
         \/ asked' = asked /\ input' = input /\ busy' = busy
  BY <1>4 DEF TypeOK
<1>8. TypeOK'
  <2>1. asked' \in 0..Budget
    BY <1>3, <1>7 DEF TypeOK
  <2>2. input' \in [Modals -> Commands \cup {None}] /\ busy' \in [Modals -> BOOLEAN]
    BY <1>4 DEF TypeOK
  <2> QED BY <1>1, <1>5, <2>1, <2>2, SubmitTells DEF TypeOK
<1>9. Control' /\ Stacked'
  BY <1>1, <1>2 DEF Control, Running, Stacked
<1>10. Unused'
  <2>1. \A d \in Commands : d.modal \notin published => receipt'[d] = None
    <3>1. c.modal \in published
      BY <1>3, <1>m
    <3>2. Unused
      OBVIOUS
    <3> HIDE DEF Inv
    <3> QED BY <3>1, <3>2, <1>5 DEF Unused
  <2>2. \A k \in Modals \ published : busy'[k] = busy[k] /\ input'[k] = input[k]
    BY <1>3, <1>7
  <2>3. UNCHANGED <<published, revision, executing>>
    BY <1>1
  <2> QED BY <2>1, <2>2, <2>3 DEF Unused
<1>11. at \notin {"closing", "restore"} /\ ~ Executes(m)
  BY <1>2, <1>3 DEF Working, WorkingAt
<1>12. Queue'
  BY <1>1, <1>2, <1>6, <1>11, <1>m DEF Queue
<1>13. Working'
  <2>1. WorkingAt(m)'
    <3>1. WorkingAt(m) /\ ~ Executes(m)'
      BY <1>1, <1>2, <1>11 DEF Working, Executes
    <3>2. input[m] = None
      BY <1>3, <3>1 DEF WorkingAt
    <3>3. executing[m] # None => executing[m].revision # revision[m]
      BY <1>3, <3>1 DEF WorkingAt
    <3>4. IsQueued(c)'
      BY <1>6
    <3> QED BY <1>1, <1>3, <1>7, <1>m, <3>1, <3>2, <3>3, <3>4 DEF WorkingAt
  <2>2. ASSUME NEW k \in Modals, k # m PROVE WorkingAt(k)'
    <3>1. WorkingAt(k)
      BY DEF Working
    <3>2. input[k] \in Commands \cup {None} /\ executing[k] \in Commands \cup {None}
      BY DEF TypeOK
    <3>3. Executes(k)' <=> Executes(k)
      BY <1>1, <1>2 DEF Executes
    <3> QED BY <2>2, <3>1, <3>2, <3>3, <1>1, <1>2, <1>6, <1>7 DEF WorkingAt
  <2> QED BY <2>1, <2>2, <1>1, <1>11 DEF Working
<1>14. Ran' /\ OneCommandPerRendering' /\ Shown'
  BY <1>1 DEF Ran, OneCommandPerRendering, Shown
<1>15. Ended' /\ ReceiptsAreTrue'
  BY <1>1, <1>5, <1>6 DEF Ended, ReceiptsAreTrue
<1>16. Counted'
  <2>1. asked \in Nat /\ \A k \in Modals : revision[k] \in Nat
    BY DialogAssumption DEF TypeOK
  <2>2. \A k \in Modals : revision[k] <= asked /\ (Pending(k) => revision[k] + 1 <= asked)
    BY DEF Counted
  <2>3. \A k \in Modals : Pending(k)' => Pending(k) \/ (k = m /\ asked' = asked + 1)
    BY <1>1, <1>7 DEF Pending
  <2> QED BY <2>1, <2>2, <2>3, <1>1, <1>7 DEF Counted
<1>17. Asked'
  BY <1>1, <1>5, <1>6 DEF Asked, Inputs
<1>18. AnswersAgree'
  BY <1>1 DEF AnswersAgree
<1>19. ToldOutcomesAreStored'
  BY <1>1, <1>5, <1>6 DEF ToldOutcomesAreStored, Asked, Inputs
<1> QED BY <1>8, <1>9, <1>10, <1>12, <1>13, <1>14, <1>15, <1>16, <1>17, <1>18, <1>19

LEMMA SubmitKeeps ==
    ASSUME Inv, NEW r \in Requests, NEW c \in Commands, NEW b \in Bodies, Submit(r, c, b)
    PROVE  Inv'
<1>1. \/ UNCHANGED <<asked, input, busy, receipt>>
      \/ receipt[c] = None /\ Admits(c) /\ told'[r] # "refused"
  BY DEF Submit, Inv, TypeOK
<1> QED BY <1>1, SubmitReads, SubmitStores

LEMMA ResultKeeps == ASSUME Inv, NEW r \in Requests, Result(r) \/ Poll(r) PROVE Inv'
<1> USE DEF Inv
<1>1. /\ UNCHANGED <<state, cancelled, asked, shown, stack, memory, worker, tables, request,
                     history, faults>>
      /\ told[r] \in {"holds", "reads", "working"}
      /\ told' \in [Requests -> Verdicts]
      /\ \A s \in Requests \ {r} : told'[s] = told[s]
      /\ \/ told'[r] \in {"root", "working", "reads"}
         \/ /\ told'[r] \in {"processed", "failed", "abandoned"}
            /\ told'[r] = receipt[request[r].about].outcome
  <2>1. CASE Poll(r)
    BY <2>1 DEF Poll, TypeOK, Verdicts
  <2>2. CASE Result(r)
    <3> DEFINE c == request[r].about
               known == IF told[r] = "holds" /\ ended[c] # None THEN ended[c] ELSE receipt[c].outcome
    <3>1. told[r] \in {"holds", "reads"}
      BY <2>2 DEF Result
    <3>2. c \in Commands /\ receipt[c] # None
      BY <3>1 DEF Asked, Inputs
    <3>3. known = receipt[c].outcome /\ known \in {"queued", "processed", "failed", "abandoned"}
      BY <3>2 DEF TypeOK, Ended, ReceiptRow
    <3>4. \E verdict \in {"root", "working", "processed", "failed", "abandoned"} :
             /\ told' = [told EXCEPT ![r] = verdict]
             /\ verdict \in {"root", "working"} \/ verdict = known
      BY <2>2, <3>3 DEF Result
    <3> HIDE DEF known
    <3>5. UNCHANGED <<state, cancelled, asked, shown, stack, memory, worker, tables, request,
                     history, faults>>
      BY <2>2 DEF Result
    <3> QED BY <3>1, <3>3, <3>4, <3>5 DEF TypeOK, Verdicts
  <2> QED BY <2>1, <2>2
<1>2. Open' = Open /\ Top' = Top /\ Once' = Once
  BY Still, <1>1
<1>3. TypeOK'
  BY <1>1 DEF TypeOK
<1>4. Control' /\ Stacked' /\ Unused' /\ Queue' /\ Working'
  BY <1>1, <1>2 DEF Control, Running, Stacked, Unused, Queue, IsQueued, Working, WorkingAt, Executes
<1>5. Ran' /\ Ended' /\ Counted' /\ Shown' /\ OneCommandPerRendering' /\ ReceiptsAreTrue'
  BY <1>1 DEF Ran, Ended, Counted, Pending, Shown, OneCommandPerRendering, ReceiptsAreTrue
<1>6. Asked' /\ AnswersAgree' /\ ToldOutcomesAreStored'
  BY <1>1 DEF Asked, AnswersAgree, ToldOutcomesAreStored
<1> QED BY <1>3, <1>4, <1>5, <1>6

----------------------------------------------------------------------------

LEMMA Stutters == ASSUME Inv, UNCHANGED vars PROVE Inv'
<1> USE DEF Inv, vars
<1>1. Open' = Open /\ Top' = Top /\ Once' = Once
  BY Still
<1>2. TypeOK' /\ Control' /\ Stacked' /\ Unused' /\ Queue' /\ Working'
  BY <1>1 DEF TypeOK, Control, Running, Stacked, Unused, Queue, IsQueued, Working, WorkingAt, Executes
<1>3. Ran' /\ Ended' /\ Counted' /\ Shown' /\ Asked'
  BY DEF Ran, Ended, Counted, Pending, Shown, Asked
<1>4. OneCommandPerRendering' /\ ReceiptsAreTrue' /\ AnswersAgree' /\ ToldOutcomesAreStored'
  BY DEF OneCommandPerRendering, ReceiptsAreTrue, AnswersAgree, ToldOutcomesAreStored
<1> QED BY <1>2, <1>3, <1>4

LEMMA Invariance == Spec => []Inv
<1>1. ASSUME Inv, [Next]_vars PROVE Inv'
  <2>1. CASE Worker
    <3>1. ASSUME NEW how \in Choices \cup {"timeout", "cancelled"}, Wait(how) PROVE Inv'
      BY <1>1, <3>1, WaitKeeps
    <3> QED BY <1>1, <2>1, <3>1, CloseQuestionKeeps, PublishModalKeeps, TakeInputKeeps, ClosedKeeps,
               RestoreKeeps, CloseUnwoundKeeps DEF Worker
  <2>2. CASE Code
    <3>1. ASSUME NEW q \in Questions, Ask(q) PROVE Inv'
      BY <1>1, <3>1, AskKeeps
    <3>2. ASSUME NEW m \in Modals, RunModal(m) PROVE Inv'
      BY <1>1, <3>2, RunModalKeeps
    <3> QED BY <1>1, <2>2, <3>1, <3>2, SnapshotKeeps, CompleteKeeps, RaiseKeeps DEF Code
  <2>3. CASE Cancel
    BY <1>1, <2>3, RaiseKeeps
  <2>4. ASSUME NEW r \in Requests, Client(r) PROVE Inv'
    <3>1. ASSUME NEW q \in Questions, NEW x \in Choices, Answer(r, q, x) PROVE Inv'
      BY <1>1, <3>1, AnswerKeeps
    <3>2. ASSUME NEW c \in Commands, NEW b \in Bodies, Submit(r, c, b) PROVE Inv'
      BY <1>1, <3>2, SubmitKeeps
    <3> QED BY <1>1, <2>4, <3>1, <3>2, ResultKeeps DEF Client
  <2>5. CASE UNCHANGED vars
    BY <1>1, <2>5, Stutters
  <2> QED BY <1>1, <2>1, <2>2, <2>3, <2>4, <2>5 DEF Next
<1> QED BY <1>1, InitInv, PTL DEF Spec

\* Every variable has its type; the counters stay within their bounds.
THEOREM TypeCorrect == Spec => []TypeOK
  BY Invariance, PTL DEF Inv

\* AcceptPageAnswer and WaitForPageInteraction: the client and the AL code agree on the answer.
THEOREM AnswersStayAgreed == Spec => []AnswersAgree
  BY Invariance, PTL DEF Inv

\* AcceptPageModal and ModalExecution::Wait: a rendering of a modal page takes one command.
THEOREM RenderingsTakeOneCommand == Spec => []OneCommandPerRendering
  BY Invariance, PTL DEF Inv

\* CompleteInput: a receipt says whether the boundary of its command was kept.
THEOREM ReceiptsStayTrue == Spec => []ReceiptsAreTrue
  BY Invariance, PTL DEF Inv

\* ModalResult: what a client was told of its command stays true.
THEOREM ToldOutcomesStayStored == Spec => []ToldOutcomesAreStored
  BY Invariance, PTL DEF Inv

\* CloseModalReceipt and its callers: an ended call leaves no command queued.
THEOREM NothingIsLeftQueued == Spec => []NothingStaysQueued
<1>1. Inv => NothingStaysQueued
  <2> SUFFICES ASSUME Inv, ~ Running, NEW c \in Commands, IsQueued(c) PROVE c.modal \in unclosed
    BY DEF NothingStaysQueued, IsQueued
  <2>1. at = "end" /\ Open = {}
    BY Stacks DEF Inv, Control
  <2> QED BY <2>1 DEF Inv, Queue
<1> QED BY <1>1, Invariance, PTL

=============================================================================
