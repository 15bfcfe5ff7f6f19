----------------------------- MODULE PageDialogs -----------------------------
(***************************************************************************)
(* The questions and modal pages of one page call (PageInteraction.cpp,    *)
(* PageModal.cpp): AL code that stops in the middle of its transaction     *)
(* until a client answers, and the requests that answer it.                *)
(*                                                                         *)
(* The AL code runs on a worker; every request on a thread of its own.     *)
(* They meet in the call's memory, under PageCall::mutex, and in the       *)
(* tables page_dialogs, page_modals and page_modal_commands, which are     *)
(* written in transactions of their own. An action is a section under the  *)
(* mutex with the statement executed in it, or a statement outside of it.  *)
(* A statement may fail, or take effect although its reply is lost.        *)
(***************************************************************************)
EXTENDS Naturals, Sequences, FiniteSets

CONSTANTS
    Requests,     \* requests of the clients, each sent once
    Questions,    \* handles of questions
    MaxModals,    \* bound on the modal pages
    Choices,      \* answers to a question
    Suffixes,     \* ordinals a client may append to the prefix of a modal page
    Bodies,       \* payloads of modal commands
    Closing,      \* those that close the modal page: OK and Cancel
    None,         \* nothing
    Budget,       \* PageHostOptions::commands
    Depth,        \* PageHostOptions::navigationDepth
    MaxFaults     \* bound on failing statements and lost replies

ASSUME DialogAssumption ==
    /\ Budget \in Nat /\ Depth \in Nat /\ MaxFaults \in Nat
    /\ MaxModals \in Nat /\ Closing \subseteq Bodies
    /\ None \notin Questions /\ None \notin Nat /\ None \notin Choices /\ None \notin Bodies

VARIABLES
    state,        \* PageCall::finished, and whether with an error
    cancelled,    \* PageCall::cancelled
    asked,        \* PageCall::questions
    question,     \* PageCall::question, the handle
    reply,        \* PageQuestion::answer of that question
    stack,        \* PageCall::modal and its parents, the innermost first
    revision,     \* PageModal::revision
    busy,         \* PageModal::busy
    input,        \* PageModal::input
    executing,    \* PageModal::executing
    ended,        \* PageModalInput::finished, and how
    at,           \* where the worker is
    frame,        \* the modal page whose rows it closes
    published,    \* ModalExecution::published_
    dialog,       \* page_dialogs
    modal,        \* page_modals
    receipt,      \* page_modal_commands
    request,      \* what a request asks for
    told,         \* what it has been told
    outcome,      \* history: how the wait for an answer ended
    ran,          \* history: how often a command was executed
    kept,         \* history: the commands whose boundary was kept
    doubtful,     \* history: the questions whose stored answer was lost on the way back
    unclosed,     \* history: the modal pages whose closing statement failed
    faults        \* faults so far

shown     == <<question, reply>>
memory    == <<revision, busy, input, executing, ended>>
worker    == <<at, frame, published>>
tables    == <<dialog, modal, receipt>>
requests  == <<request, told>>
history   == <<outcome, ran, kept, doubtful, unclosed>>
vars == <<state, cancelled, asked, shown, stack, memory, worker, tables, requests, history, faults>>

\* Modal pages are numbered in the order of their opening.
Modals == 1..MaxModals

\* A command names the rendering it was sent from: the prefix changes with the revision.
Commands == [modal : Modals, revision : 0..Budget, suffix : Suffixes]

Answers == [about : Questions, choice : Choices]
Inputs  == [about : Commands, body : Bodies]

DialogRow  == [answer : Choices \cup {None}, closed : BOOLEAN]
ModalRow   == [revision : 0..Budget + 1, active : BOOLEAN]
ReceiptRow == [body : Bodies, outcome : {"queued", "processed", "failed", "abandoned"}]

\* The sentinel is none of the values it stands beside, and a timeout is no answer.
ASSUME SentinelAssumption ==
    /\ None \notin Commands \cup Answers \cup Inputs \cup DialogRow \cup ModalRow \cup ReceiptRow
    /\ None \notin {"timeout", "cancelled", "processed", "failed"}
    /\ Choices \cap {"timeout", "cancelled"} = {}

Places == {"run", "publish", "answer", "closeQuestion", "input", "unwind", "close",
           "closing", "restore", "end"}

Verdicts == {"none", "accepted", "repeated", "refused", "error", "holds", "reads", "working",
             "processed", "failed", "abandoned", "root"}

Top == Head(stack)

Running == state = "running"

Fault == faults < MaxFaults /\ faults' = faults + 1

\* An error leaves the AL code that runs in the given modal pages: it ends the innermost one,
\* or the call.
Leaves(pages) ==
    IF pages = <<>> THEN state' = "failed" /\ at' = "end" ELSE at' = "unwind" /\ UNCHANGED state

\* An error is raised in the AL code, which may catch it and go on.
Raises(pages) == (at' = "run" /\ UNCHANGED state) \/ Leaves(pages)

-----------------------------------------------------------------------------
(* Questions: PageUiHost::Ask. *)

\* The row is published before anybody can see the question; if that fails the question is
\* withdrawn, whether or not the row is there.
Ask(q) ==
    /\ at = "run" /\ Running /\ ~ cancelled /\ question = None /\ asked < Budget
    /\ dialog[q] = None
    /\ \/ /\ dialog' = [dialog EXCEPT ![q] = [answer |-> None, closed |-> FALSE]]
          /\ question' = q /\ reply' = None /\ asked' = asked + 1 /\ at' = "answer"
          /\ UNCHANGED <<state, faults>>
       \/ /\ Fault
          /\ \/ dialog' = [dialog EXCEPT ![q] = [answer |-> None, closed |-> FALSE]]
             \/ UNCHANGED dialog
          /\ Raises(stack)
          /\ UNCHANGED <<asked, shown>>
    /\ UNCHANGED <<cancelled, stack, memory, frame, published, modal, receipt, requests,
                   history>>

\* Mutant: the deadline is looked at before the answer.
WaitDeadlineFirst(how) ==
    /\ at = "answer"
    /\ \/ how = "cancelled" /\ cancelled
       \/ how = reply /\ reply # None /\ ~ cancelled
       \/ how = "timeout" /\ ~ cancelled
    /\ outcome' = [outcome EXCEPT ![question] = how]
    /\ question' = None /\ reply' = None
    /\ frame' = question /\ at' = "closeQuestion"
    /\ UNCHANGED <<state, cancelled, asked, stack, memory, published, tables, requests, ran, kept,
                   doubtful, unclosed, faults>>

\* WaitForPageInteraction under the mutex: an answer that is there counts, however late it
\* is seen; a call that was cancelled gets none.
Wait(how) ==
    /\ at = "answer"
    /\ \/ how = "cancelled" /\ cancelled
       \/ how = reply /\ reply # None /\ ~ cancelled
       \/ how = "timeout" /\ reply = None /\ ~ cancelled
    /\ outcome' = [outcome EXCEPT ![question] = how]
    /\ question' = None /\ reply' = None
    /\ frame' = question /\ at' = "closeQuestion"
    /\ UNCHANGED <<state, cancelled, asked, stack, memory, published, tables, requests, ran, kept,
                   doubtful, unclosed, faults>>

\* CloseQuestion: the answer is only given to the AL code when its row is closed.
CloseQuestion ==
    /\ at = "closeQuestion"
    /\ \/ /\ dialog' = [dialog EXCEPT ![frame].closed = TRUE]
          /\ IF outcome[frame] \in Choices THEN at' = "run" /\ UNCHANGED state ELSE Raises(stack)
          /\ UNCHANGED faults
       \/ /\ Fault
          /\ \/ dialog' = [dialog EXCEPT ![frame].closed = TRUE]
             \/ UNCHANGED dialog
          /\ Raises(stack)
    /\ frame' = None
    /\ UNCHANGED <<cancelled, asked, shown, stack, memory, published, modal, receipt,
                   requests, history>>

-----------------------------------------------------------------------------
(* Modal pages: ModalExecution::Run. *)

Unopened(m) == modal[m] = None /\ \A i \in DOMAIN stack : stack[i] # m

RunModal(m) ==
    /\ at = "run" /\ Running /\ ~ cancelled /\ question = None
    /\ Len(stack) < Depth /\ asked < Budget
    /\ Unopened(m) /\ \A k \in 1..m - 1 : ~ Unopened(k)
    /\ asked' = asked + 1
    /\ stack' = <<m>> \o stack
    /\ at' = "publish"
    /\ UNCHANGED <<state, cancelled, shown, memory, frame, published, tables, requests, history,
                   faults>>

PublishModal ==
    /\ at = "publish"
    /\ \/ /\ modal' = [modal EXCEPT ![Top] = [revision |-> 0, active |-> TRUE]]
          /\ published' = published \cup {Top} /\ at' = "run"
          /\ UNCHANGED faults
       \/ /\ Fault
          /\ \/ modal' = [modal EXCEPT ![Top] = [revision |-> 0, active |-> TRUE]]
             \/ UNCHANGED modal
          /\ at' = "unwind"
          /\ UNCHANGED published
    /\ UNCHANGED <<state, cancelled, asked, shown, stack, memory, frame, dialog, receipt, requests,
                   history>>

\* PublishSnapshot, once the page is open: from here on it takes commands.
Snapshot ==
    /\ at = "run" /\ stack # <<>> /\ executing[Top] = None
    /\ busy' = [busy EXCEPT ![Top] = FALSE]
    /\ at' = "input"
    /\ UNCHANGED <<state, cancelled, asked, shown, stack, revision, input, executing, ended, frame,
                   published, tables, requests, history, faults>>

\* Mutant: a modal page waits until it gets a command.
TakeInputOnly ==
    /\ at = "input"
    /\ \/ /\ ~ cancelled /\ input[Top] # None
          /\ executing' = [executing EXCEPT ![Top] = input[Top]]
          /\ input' = [input EXCEPT ![Top] = None]
          /\ ran' = [ran EXCEPT ![input[Top]] = @ + 1]
          /\ at' = "run"
       \/ cancelled /\ at' = "unwind" /\ UNCHANGED <<executing, input, ran>>
    /\ UNCHANGED <<state, cancelled, asked, shown, stack, revision, busy, ended, frame, published,
                   tables, requests, outcome, kept, doubtful, unclosed, faults>>

\* ModalExecution::Wait: the page takes its next command, or gives up.
TakeInput ==
    /\ at = "input"
    /\ \/ /\ ~ cancelled /\ input[Top] # None
          /\ executing' = [executing EXCEPT ![Top] = input[Top]]
          /\ input' = [input EXCEPT ![Top] = None]
          /\ ran' = [ran EXCEPT ![input[Top]] = @ + 1]
          /\ at' = "run"
       \/ /\ cancelled \/ input[Top] = None
          /\ at' = "unwind"
          /\ UNCHANGED <<executing, input, ran>>
    /\ UNCHANGED <<state, cancelled, asked, shown, stack, revision, busy, ended, frame, published,
                   tables, requests, outcome, kept, doubtful, unclosed, faults>>

\* The fence of CompleteInput.
Completes(c, result) ==
    /\ modal[c.modal] = [revision |-> revision[c.modal], active |-> TRUE]
    /\ receipt[c].outcome = "queued"
    /\ modal' = [modal EXCEPT ![c.modal] =
                    [revision |-> @.revision + 1,
                     active |-> ~ (result = "processed" /\ receipt[c].body \in Closing)]]
    /\ receipt' = [receipt EXCEPT ![c].outcome = result]

\* Mutant: the boundary is kept whatever the command came to.
KeepsAnyway(c, result) == kept' = kept \cup {c}

\* Scope::Keep or Scope::Discard
Bounds(c, result) == kept' = IF result = "processed" THEN kept \cup {c} ELSE kept

\* ExecuteInput after Execute, which has done its work, or has refused a value or the closing
\* of the page: the boundary is kept or discarded, the new page rendered and the receipt
\* completed. If one of the last two fails the modal page unwinds.
Complete(result) ==
    LET m == Top
        c == executing[m]
        closed == result = "processed" /\ receipt[c].body \in Closing
    IN  /\ at = "run" /\ stack # <<>> /\ executing[m] # None
        /\ Bounds(c, result)
        /\ \/ /\ Completes(c, result)
              /\ revision' = [revision EXCEPT ![m] = @ + 1]
              /\ busy' = [busy EXCEPT ![m] = closed]
              /\ ended' = [ended EXCEPT ![c] = result]
              /\ at' = IF closed THEN "closing" ELSE "input"
              /\ UNCHANGED faults
           \/ /\ at' = "unwind"
              /\ UNCHANGED <<revision, busy, ended, modal, receipt, faults>>
           \/ /\ Fault /\ Completes(c, result)
              /\ at' = "unwind"
              /\ UNCHANGED <<revision, busy, ended>>
        /\ UNCHANGED <<state, cancelled, asked, shown, stack, input, executing, frame, published,
                       dialog, requests, outcome, ran, doubtful, unclosed>>

\* Mutants: receipts are left as they are, or those of finished commands failed as well.
ClosesPageOnly(m) ==
    modal' = [modal EXCEPT ![m].active = FALSE] /\ UNCHANGED receipt

ClosesEverything(m) ==
    /\ modal' = [modal EXCEPT ![m].active = FALSE]
    /\ receipt' = [c \in Commands |->
                      IF c.modal = m /\ receipt[c] # None
                      THEN [receipt[c] EXCEPT !.outcome = "abandoned"] ELSE receipt[c]]

\* CloseModalReceipt: the page takes no commands, and those nobody will execute are failed.
Closes(m) ==
    /\ modal' = [modal EXCEPT ![m].active = FALSE]
    /\ receipt' = [c \in Commands |->
                      IF c.modal = m /\ receipt[c] # None /\ receipt[c].outcome = "queued"
                      THEN [receipt[c] EXCEPT !.outcome = "abandoned"] ELSE receipt[c]]

\* After a command that closed the page.
Closed ==
    /\ at = "closing"
    /\ \/ /\ Closes(Top)
          /\ at' = "restore"
          /\ UNCHANGED faults
       \/ /\ Fault
          /\ Closes(Top) \/ UNCHANGED <<modal, receipt>>
          /\ at' = "unwind"
    /\ UNCHANGED <<state, cancelled, asked, shown, stack, memory, frame, published, dialog,
                   requests, history>>

\* ModalExecution::Restore
Restore ==
    /\ at \in {"restore", "unwind"}
    /\ stack' = Tail(stack)
    /\ CASE at = "restore" -> at' = "run" /\ UNCHANGED <<state, frame>>
         [] at = "unwind" /\ Top \in published -> at' = "close" /\ frame' = Top /\ UNCHANGED state
         [] OTHER -> Raises(stack') /\ UNCHANGED frame
    /\ UNCHANGED <<cancelled, asked, shown, memory, published, tables, requests, history,
                   faults>>

\* After an error, which is raised again.
CloseUnwound ==
    /\ at = "close"
    /\ \/ Closes(frame) /\ UNCHANGED <<unclosed, faults>>
       \/ Fault /\ Closes(frame) /\ UNCHANGED unclosed
       \/ Fault /\ unclosed' = unclosed \cup {frame} /\ UNCHANGED <<modal, receipt>>
    /\ frame' = None /\ Raises(stack)
    /\ UNCHANGED <<cancelled, asked, shown, stack, memory, published, dialog, requests,
                   outcome, ran, kept, doubtful>>

-----------------------------------------------------------------------------
(* AL code. *)

\* An error that no AL code catches.
Raise ==
    /\ at = "run" /\ Leaves(stack)
    /\ UNCHANGED <<cancelled, asked, shown, stack, memory, frame, published, tables, requests,
                   history, faults>>

\* PublishCall: the call has returned.
Return ==
    /\ at = "run" /\ stack = <<>> /\ Running
    /\ state' = "returned" /\ at' = "end"
    /\ UNCHANGED <<cancelled, asked, shown, stack, memory, frame, published, tables, requests,
                   history, faults>>

\* A check of PageCallAuthority fails while the AL code waits.
Cancel ==
    /\ at \in {"answer", "input"} /\ ~ cancelled
    /\ cancelled' = TRUE
    /\ UNCHANGED <<state, asked, shown, stack, memory, worker, tables, requests, history, faults>>

-----------------------------------------------------------------------------
(* Requests. *)

\* Mutant: an answer is stored over another one.
AnswerAgain(r, q, x) ==
    LET active == Running /\ ~ cancelled /\ question = q
    IN  /\ request[r] = None /\ dialog[q] # None
        /\ request' = [request EXCEPT ![r] = [about |-> q, choice |-> x]]
        /\ \/ /\ active
              /\ dialog' = [dialog EXCEPT ![q].answer = x] /\ reply' = x
              /\ told' = [told EXCEPT ![r] = "accepted"]
           \/ /\ ~ active
              /\ told' = [told EXCEPT ![r] = IF dialog[q].answer = x THEN "repeated" ELSE "refused"]
              /\ UNCHANGED <<dialog, reply>>
        /\ UNCHANGED <<state, cancelled, asked, question, stack, memory, worker, modal, receipt,
                       outcome, ran, kept, doubtful, unclosed, faults>>

\* AcceptPageAnswer, under the mutex, and RenewPageClient. Who is refused may ask anew.
Answer(r, q, x) ==
    LET active == Running /\ ~ cancelled /\ question = q
        stores == active /\ dialog[q].answer = None /\ ~ dialog[q].closed
        stored == dialog' = [dialog EXCEPT ![q].answer = x]
        asks == request' = [request EXCEPT ![r] = [about |-> q, choice |-> x]]
        Tell(verdict) == told' = [told EXCEPT ![r] = verdict]
    IN  /\ request[r] = None /\ dialog[q] # None
        /\ \/ /\ stores /\ stored /\ reply' = x
              /\ asks /\ Tell("accepted")
              /\ UNCHANGED <<doubtful, faults>>
           \/ /\ stores /\ Fault /\ stored
              /\ asks /\ Tell("error")
              /\ \/ reply' = x /\ UNCHANGED doubtful
                 \/ UNCHANGED reply /\ doubtful' = doubtful \cup {q}
           \/ /\ ~ stores /\ dialog[q].answer = x
              /\ asks /\ Tell("repeated")
              /\ UNCHANGED <<dialog, reply, doubtful, faults>>
           \/ /\ ~ stores /\ dialog[q].answer # x
              /\ Tell("refused")
              /\ UNCHANGED <<dialog, reply, request, doubtful, faults>>
        /\ UNCHANGED <<state, cancelled, asked, question, stack, memory, worker, modal, receipt,
                       outcome, ran, kept, unclosed>>

\* Mutants: the questions are not counted, the page may be busy.
AdmitsUncounted(c) ==
    /\ Running /\ ~ cancelled /\ question = None
    /\ stack # <<>> /\ Top = c.modal /\ ~ busy[c.modal] /\ revision[c.modal] = c.revision
    /\ modal[c.modal] = [revision |-> c.revision, active |-> TRUE]

AdmitsBusy(c) ==
    /\ Running /\ ~ cancelled /\ question = None
    /\ stack # <<>> /\ Top = c.modal /\ revision[c.modal] = c.revision
    /\ asked < Budget
    /\ modal[c.modal] = [revision |-> c.revision, active |-> TRUE]

\* The checks of AcceptPageModal on the call in memory, and those of its INSERT.
Admits(c) ==
    /\ Running /\ ~ cancelled /\ question = None
    /\ stack # <<>> /\ Top = c.modal /\ ~ busy[c.modal] /\ revision[c.modal] = c.revision
    /\ asked < Budget
    /\ Cardinality({d \in Commands : receipt[d] # None}) < Budget
    /\ modal[c.modal] = [revision |-> c.revision, active |-> TRUE]

\* AcceptPageModal, under the mutex, and RenewPageClient.
Submit(r, c, b) ==
    LET queued == receipt' = [receipt EXCEPT ![c] = [body |-> b, outcome |-> "queued"]]
        given == /\ asked' = asked + 1
                 /\ input' = [input EXCEPT ![c.modal] = c]
                 /\ busy' = [busy EXCEPT ![c.modal] = TRUE]
        asks == request' = [request EXCEPT ![r] = [about |-> c, body |-> b]]
        Tell(verdict) == told' = [told EXCEPT ![r] = verdict]
    IN  /\ request[r] = None /\ c.modal \in published /\ c.revision <= revision[c.modal]
        /\ \/ /\ receipt[c] # None /\ receipt[c].body = b
              /\ asks /\ Tell("reads")
              /\ UNCHANGED <<asked, input, busy, receipt, faults>>
           \/ /\ receipt[c] = None /\ Admits(c)
              /\ asks /\ queued
              /\ \/ given /\ Tell("holds") /\ UNCHANGED faults
                 \/ Fault /\ given /\ Tell("error")
                 \/ Fault /\ Tell("error") /\ UNCHANGED <<asked, input, busy>>
           \/ /\ IF receipt[c] = None THEN ~ Admits(c) ELSE receipt[c].body # b
              /\ Tell("refused")
              /\ UNCHANGED <<asked, input, busy, receipt, request, faults>>
        /\ UNCHANGED <<state, cancelled, shown, stack, revision, executing, ended, worker, dialog,
                       modal, history>>

\* ModalResult: what the command came to, from the input it holds or else from its receipt,
\* or that the call is still at work. A command that closed the page has no page to show.
Result(r) ==
    LET c == request[r].about
        known == IF told[r] = "holds" /\ ended[c] # None THEN ended[c] ELSE receipt[c].outcome
    IN  /\ told[r] \in {"holds", "reads"}
        /\ told' = [told EXCEPT ![r] =
              IF state = "failed" THEN "root"
              ELSE IF known = "queued" \/ (known = "processed" /\ receipt[c].body \in Closing)
                   THEN "working" ELSE known]
        /\ UNCHANGED <<state, cancelled, asked, shown, stack, memory, worker, tables, request,
                       history, faults>>

\* ModalPoll
Poll(r) ==
    /\ told[r] = "working" /\ Running
    /\ told' = [told EXCEPT ![r] = "reads"]
    /\ UNCHANGED <<state, cancelled, asked, shown, stack, memory, worker, tables, request, history,
                   faults>>

-----------------------------------------------------------------------------
Init ==
    /\ state = "running" /\ cancelled = FALSE /\ asked = 0
    /\ question = None /\ reply = None /\ stack = <<>>
    /\ revision = [m \in Modals |-> 0] /\ busy = [m \in Modals |-> TRUE]
    /\ input = [m \in Modals |-> None] /\ executing = [m \in Modals |-> None]
    /\ ended = [c \in Commands |-> None]
    /\ at = "run" /\ frame = None /\ published = {}
    /\ dialog = [q \in Questions |-> None] /\ modal = [m \in Modals |-> None]
    /\ receipt = [c \in Commands |-> None]
    /\ request = [r \in Requests |-> None] /\ told = [r \in Requests |-> "none"]
    /\ outcome = [q \in Questions |-> None] /\ ran = [c \in Commands |-> 0]
    /\ kept = {} /\ doubtful = {} /\ unclosed = {} /\ faults = 0

\* The worker where it is not the AL code that decides.
Worker ==
    \/ \E how \in Choices \cup {"timeout", "cancelled"} : Wait(how)
    \/ CloseQuestion \/ PublishModal \/ TakeInput \/ Closed \/ Restore \/ CloseUnwound

Code ==
    \/ \E q \in Questions : Ask(q)
    \/ \E m \in Modals : RunModal(m)
    \/ Snapshot \/ Complete("processed") \/ Complete("failed") \/ Raise \/ Return

Client(r) ==
    \/ \E q \in Questions, x \in Choices : Answer(r, q, x)
    \/ \E c \in Commands, b \in Bodies : Submit(r, c, b)
    \/ Result(r) \/ Poll(r)

Next == Worker \/ Code \/ Cancel \/ \E r \in Requests : Client(r)

Spec == Init /\ [][Next]_vars

\* The worker and the threads of the requests go on, and AL code comes to its next question,
\* its next page or its end.
FairSpec ==
    /\ Spec
    /\ WF_vars(Worker) /\ WF_vars(Code)
    /\ \A r \in Requests : WF_vars(Result(r))

-----------------------------------------------------------------------------
(* Properties. *)

TypeOK ==
    /\ state \in {"running", "returned", "failed"} /\ cancelled \in BOOLEAN /\ asked \in 0..Budget
    /\ question \in Questions \cup {None} /\ reply \in Choices \cup {None}
    /\ stack \in Seq(Modals) /\ Len(stack) <= Depth
    /\ revision \in [Modals -> 0..Budget] /\ busy \in [Modals -> BOOLEAN]
    /\ input \in [Modals -> Commands \cup {None}] /\ executing \in [Modals -> Commands \cup {None}]
    /\ ended \in [Commands -> {"processed", "failed", None}]
    /\ at \in Places /\ frame \in Questions \cup Modals \cup {None} /\ published \subseteq Modals
    /\ dialog \in [Questions -> DialogRow \cup {None}]
    /\ modal \in [Modals -> ModalRow \cup {None}]
    /\ receipt \in [Commands -> ReceiptRow \cup {None}]
    /\ request \in [Requests -> Answers \cup Inputs \cup {None}] /\ told \in [Requests -> Verdicts]
    /\ outcome \in [Questions -> Choices \cup {"timeout", "cancelled", None}]
    /\ ran \in [Commands -> Nat] /\ kept \subseteq Commands
    /\ doubtful \subseteq Questions /\ unclosed \subseteq Modals /\ faults \in 0..MaxFaults

\* The answer a client was told is accepted, at once or when it repeated it, is the answer of
\* the question from then on. The AL code gets the answer there is and gives up only on a
\* question nobody has answered or will, unless the call was cancelled or the reply of the
\* statement that stored the answer was lost.
AnswersAgree ==
    /\ \A r \in Requests : told[r] \in {"accepted", "repeated"} =>
          dialog[request[r].about].answer = request[r].choice
    /\ \A q \in Questions :
          /\ outcome[q] \in Choices => dialog[q].answer = outcome[q]
          /\ outcome[q] = "timeout" => dialog[q].answer = None \/ q \in doubtful

\* Of the commands sent from one rendering of a modal page one is executed, and once, in
\* whatever order they and their repetitions arrive.
OneCommandPerRendering ==
    \A c \in Commands :
        /\ ran[c] <= 1
        /\ ran[c] = 1 => \A d \in Commands \ {c} :
              d.modal = c.modal /\ d.revision = c.revision => ran[d] = 0

\* A receipt tells what became of the command: its changes were kept, or discarded.
ReceiptsAreTrue ==
    \A c \in Commands : receipt[c] # None =>
        CASE receipt[c].outcome = "processed" -> ran[c] = 1 /\ c \in kept
          [] receipt[c].outcome = "failed" -> ran[c] = 1 /\ c \notin kept
          [] OTHER -> TRUE

\* What a client was told of its command is what its receipt says for good.
ToldOutcomesAreStored ==
    \A r \in Requests : told[r] \in {"processed", "failed", "abandoned"} =>
        receipt[request[r].about].outcome = told[r]

\* When a call has ended none of its commands is queued, but for those of a modal page whose
\* rows could not be closed.
NothingStaysQueued ==
    ~ Running => \A c \in Commands :
        receipt[c] # None /\ receipt[c].outcome = "queued" => c.modal \in unclosed

\* No question and no modal page keeps its call waiting forever, whatever clients do.
CallEnds == <>(~ Running)
=============================================================================
