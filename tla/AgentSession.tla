----------------------------- MODULE AgentSession -----------------------------
(***************************************************************************)
(* One session of a node and the runs of the client's agent loop that use  *)
(* it: a run sends a prompt, runs the tools the node asks for and sends    *)
(* their results until an answer arrives; the node takes the steps of the  *)
(* session one at a time, keeps its messages, and logs each step; the      *)
(* dashboard merges that log with what it knows of its own run.  Each run  *)
(* draws a session id of its own, so that one is alone here unless another *)
(* program reuses its id.  Sessions share no state.                        *)
(* Responses, connections and pages may be lost, a provider call may fail, *)
(* the node may restart.  What a message says, and the channel a step is   *)
(* paid from, are left out: see ChannelProtocol.                           *)
(***************************************************************************)
EXTENDS Integers, Sequences, FiniteSets

CONSTANTS
  Runs, Local,   \* runs of the agent loop; those the dashboard began
  MaxMessages, MaxSteps, \* bounds: a longer session or run gets its answer
  Retention,     \* ACTIVITY_RETENTION_MS
  NoRecord, Live, Over

ASSUME SessionAssumption ==
  /\ Local \subseteq Runs
  /\ MaxMessages \in Nat /\ MaxSteps \in Nat /\ Retention \in Nat
  /\ Live \notin Nat /\ Over \notin {Live, NoRecord}

VARIABLES
  loop,     \* the loop of a run, in the client
  shown,    \* whether the dashboard's own record of a run has an end
  task,     \* a run's request, in the node
  reply,    \* what it was answered with
  waiters,  \* who holds the session's lock, and who waits for it
  messages, \* AgentSession
  record,   \* the session's entry in ActivityLog
  seen,     \* what the last answer of /activity to arrive said of it
  logged,   \* history: what answers have said of it
  users,    \* history: the runs whose requests reached the node
  forgot    \* history: a restart of the node took the session's messages

clientVars == <<loop, shown>>
nodeVars == <<task, waiters, messages, record, users, forgot>>
pollVars == <<seen, logged>>
vars == <<clientVars, nodeVars, reply, pollVars>>

Init ==
  /\ loop = [r \in Runs |-> [phase |-> "matching", input |-> "prompt",
                             steps |-> 0, refused |-> FALSE]]
  /\ shown = [r \in Local |-> FALSE]
  /\ task = [r \in Runs |-> "none"]
  /\ reply = [r \in Runs |-> "none"]
  /\ waiters = <<>>
  /\ messages = <<>>
  /\ record = NoRecord
  /\ seen = NoRecord
  /\ logged = {}
  /\ users = {}
  /\ forgot = FALSE

---------------------------------------------------------------------------
(* The client: handleSend or the command line around runAgentLoop.         *)

\* patchLocal, with an end or without; the command line keeps no record.
Ended(r) == shown' = [q \in Local |-> shown[q] \/ q = r]
Goes(r, phase) == loop' = [loop EXCEPT ![r].phase = phase]
ClientStep == UNCHANGED <<nodeVars, pollVars>>

\* sendStep.
Send(r, input) ==
  /\ loop' = [loop EXCEPT ![r] = [phase |-> "waiting", input |-> input,
                                  steps |-> @.steps + 1, refused |-> @.refused]]
  /\ reply' = [reply EXCEPT ![r] = "sent"]

\* A match was found, or the node's /info answered; or not.
Matched(r) ==
  /\ loop[r].phase = "matching"
  /\ Send(r, "prompt")
  /\ UNCHANGED shown
  /\ ClientStep
NoMatch(r) ==
  /\ loop[r].phase = "matching"
  /\ Goes(r, "ended")
  /\ Ended(r)
  /\ UNCHANGED reply /\ ClientStep

\* The fetch fails, with an error of the node or without its answer; the
\* loop gives the run up.
FetchFails_Retries(r) ==
  /\ loop[r].phase = "waiting"
  /\ reply[r] # "none"
  /\ Send(r, loop[r].input)
  /\ Ended(r)
  /\ ClientStep
FetchFails(r) ==
  /\ loop[r].phase = "waiting"
  /\ Goes(r, "ended")
  /\ reply' = [reply EXCEPT ![r] = "none"]
  /\ Ended(r)
  /\ ClientStep

\* A response arrives.  Its receipt, if there is one, is signed first: the
\* user may take any time over the popup, or refuse.  Then the run is over,
\* or the tool it asks for is run.
GoesOn(r, answer) ==
  IF answer = "final"
  THEN Goes(r, "ended") /\ Ended(r)
  ELSE Goes(r, "tool") /\ UNCHANGED shown
ResponseArrives(r) ==
  /\ loop[r].phase = "waiting"
  /\ reply[r] \in {"final", "toolCall"}
  /\ \/ GoesOn(r, reply[r]) /\ reply' = [reply EXCEPT ![r] = "none"]
     \/ Goes(r, "signing") /\ UNCHANGED <<reply, shown>>
  /\ ClientStep
SignAck(r) ==
  /\ loop[r].phase = "signing"
  /\ GoesOn(r, reply[r])
  /\ reply' = [reply EXCEPT ![r] = "none"]
  /\ ClientStep
\* Refusing is an error event, and the run goes on.
RefuseAck(r) ==
  /\ loop[r].phase = "signing"
  /\ loop' = [loop EXCEPT ![r].refused = TRUE,
                          ![r].phase = IF reply[r] = "final" THEN "ended" ELSE "tool"]
  /\ Ended(r)
  /\ reply' = [reply EXCEPT ![r] = "none"]
  /\ ClientStep

\* The tool handler returns; the handlers here report errors as results.
ToolEnds(r) ==
  /\ loop[r].phase = "tool"
  /\ Send(r, "result")
  /\ UNCHANGED shown
  /\ ClientStep

\* The page or the command is closed, and its connection with it.
Leave(r) ==
  /\ loop[r].phase \in {"waiting", "signing", "tool"}
  /\ Goes(r, "gone")
  /\ reply' = [reply EXCEPT ![r] = "none"]
  /\ UNCHANGED shown /\ ClientStep

---------------------------------------------------------------------------
(* The node: ActivityLog and StepGuard.                                    *)

BeginStep == record' = [status |-> "running", ended |-> Live]
EndStep(status) ==
  record' = IF record = NoRecord THEN NoRecord
            ELSE [status |-> status,
                  ended |-> IF status \in {"final", "error"} THEN 0 ELSE Live]

\* A request ends in the node: its guard is resolved, or dropped and the
\* request counts as an error; the session's lock passes on.
Queued == {waiters[i] : i \in DOMAIN waiters}
Without(r) ==
  IF r \notin Queued THEN waiters
  ELSE LET i == CHOOSE j \in DOMAIN waiters : waiters[j] = r
       IN  SubSeq(waiters, 1, i - 1) \o SubSeq(waiters, i + 1, Len(waiters))
Ends_KeepsLock(r, status, answer) ==
  /\ task' = [task EXCEPT ![r] = "none"]
  /\ waiters' = IF status = "error" THEN waiters ELSE Without(r)
  /\ EndStep(status)
  /\ reply' = [reply EXCEPT ![r] = IF @ = "sent" THEN answer ELSE @]
Ends_NoGuard(r, status, answer) ==
  /\ task' = [task EXCEPT ![r] = "none"]
  /\ waiters' = Without(r)
  /\ IF status = "error" THEN UNCHANGED record ELSE EndStep(status)
  /\ reply' = [reply EXCEPT ![r] = IF @ = "sent" THEN answer ELSE @]
Ends(r, status, answer) ==
  /\ task' = [task EXCEPT ![r] = "none"]
  /\ waiters' = Without(r)
  /\ EndStep(status)
  /\ reply' = [reply EXCEPT ![r] = IF @ = "sent" THEN answer ELSE @]

Message(r, kind) == [kind |-> kind, by |-> r, step |-> loop[r].steps]
Push(r, kind) == messages' = Append(messages, Message(r, kind))
NodeStep == UNCHANGED <<clientVars, pollVars, users, forgot>>

---------------------------------------------------------------------------
(* The node: execute, AgentRuntime::step and AgentLoop::step.              *)

\* execute begins; then the request is refused (it cannot be read, its
\* backend is not there, its channel is exhausted) or waits for the lock.
Execute(r) ==
  /\ reply[r] = "sent" /\ task[r] = "none" /\ loop[r].phase = "waiting"
  /\ task' = [task EXCEPT ![r] = "checking"]
  /\ BeginStep
  /\ users' = users \cup {r}
  /\ UNCHANGED <<clientVars, waiters, messages, reply, pollVars, forgot>>
Refuse(r) ==
  /\ task[r] = "checking"
  /\ Ends(r, "error", "error")
  /\ UNCHANGED messages /\ NodeStep
WaitForLock(r) ==
  /\ task[r] = "checking"
  /\ task' = [task EXCEPT ![r] = "queued"]
  /\ waiters' = Append(waiters, r)
  /\ UNCHANGED <<messages, record, reply>> /\ NodeStep

\* The lock is taken, the input pushed and the provider called.
Holding == {"calling", "tools"}
HoldsLock_Any(r) == TRUE
HoldsLock(r) == Head(waiters) = r
StartStep(r) ==
  /\ task[r] = "queued"
  /\ HoldsLock(r)
  /\ task' = [task EXCEPT ![r] = "calling"]
  /\ Push(r, loop[r].input)
  /\ UNCHANGED <<waiters, record, reply>> /\ NodeStep

\* The provider's response is an assistant message.  "answer": end_turn;
\* "client": one client tool; "node": node tools only; "pause": pause_turn;
\* "odd": a mix of tools, none at all, or another stop reason.  The receipt of
\* an answer, or of a tool call, may be refused when its message is there.
Room == Len(messages) < MaxMessages
Answers(r) ==
  /\ task[r] = "calling"
  /\ Push(r, "answer")
  /\ Ends(r, "final", "final") \/ Ends(r, "error", "error")
  /\ NodeStep
AsksClient(r) ==
  /\ task[r] = "calling" /\ Room /\ loop[r].steps < MaxSteps
  /\ Push(r, "client")
  /\ Ends(r, "waiting-tool", "toolCall") \/ Ends(r, "error", "error")
  /\ NodeStep
\* The node's own tools are run one after the other; all their results, or
\* their errors, go in one message, and the provider is called again.
RunsTools(r) ==
  /\ task[r] = "calling" /\ Room
  /\ task' = [task EXCEPT ![r] = "tools"]
  /\ Push(r, "node")
  /\ UNCHANGED <<waiters, record, reply>> /\ NodeStep
ToolsReturn(r) ==
  /\ task[r] = "tools"
  /\ task' = [task EXCEPT ![r] = "calling"]
  /\ Push(r, "results")
  /\ UNCHANGED <<waiters, record, reply>> /\ NodeStep
Pauses(r) ==
  /\ task[r] = "calling" /\ Room
  /\ Push(r, "pause")
  /\ UNCHANGED <<task, waiters, record, reply>> /\ NodeStep
AnswersOddly(r) ==
  /\ task[r] = "calling"
  /\ Push(r, "odd")
  /\ Ends(r, "error", "error")
  /\ NodeStep

\* The provider fails, or the connection is gone and the handler is dropped
\* wherever it waits: the messages stay as they are.
ProviderFails(r) ==
  /\ task[r] = "calling"
  /\ Ends(r, "error", "error")
  /\ UNCHANGED messages /\ NodeStep
Dropped(r) ==
  /\ task[r] # "none" /\ reply[r] # "sent"
  /\ Ends(r, "error", "error")
  /\ UNCHANGED messages /\ NodeStep

\* Sessions, log and requests are in memory only.  Bound: one restart takes
\* messages.
Restart ==
  /\ ~forgot
  /\ task' = [r \in Runs |-> "none"]
  /\ waiters' = <<>>
  /\ messages' = <<>>
  /\ record' = NoRecord
  /\ forgot' = (messages # <<>>)
  /\ reply' = [r \in Runs |-> IF reply[r] = "sent" /\ task[r] # "none"
                              THEN "error" ELSE reply[r]]
  /\ UNCHANGED <<clientVars, pollVars, users>>

---------------------------------------------------------------------------
(* What the dashboard sees of it.                                          *)

\* snapshot, with what the dashboard reads of it: whether there is a record,
\* and its end.  A record that ended long ago is dropped.
Snapshot ==
  /\ record # NoRecord
  /\ IF record.ended = Retention
     THEN record' = NoRecord /\ UNCHANGED logged
     ELSE /\ logged' = logged \cup {IF record.ended = Live THEN Live ELSE Over}
          /\ UNCHANGED record
  /\ UNCHANGED <<clientVars, task, waiters, messages, users, forgot, reply, seen>>

\* An answer arrives, however late, or none does: polls overlap.
ReportArrives ==
  /\ seen' \in logged \cup {NoRecord}
  /\ UNCHANGED <<clientVars, nodeVars, reply, logged>>

\* mergeSessions: whether the dashboard shows a run of its own as ended.
HasEnded(r) == shown[r] \/ seen = Over

Tick ==
  /\ record # NoRecord /\ record.ended \notin {Live, Retention}
  /\ record' = [record EXCEPT !.ended = @ + 1]
  /\ UNCHANGED <<clientVars, task, waiters, messages, users, forgot, reply, pollVars>>

Provider(r) ==
  \/ Answers(r)
  \/ AsksClient(r)
  \/ RunsTools(r)
  \/ ToolsReturn(r)
  \/ Pauses(r)
  \/ AnswersOddly(r)
  \/ ProviderFails(r)

LoopStep(r) ==
  \/ Matched(r)
  \/ NoMatch(r)
  \/ FetchFails(r)
  \/ ResponseArrives(r)
  \/ SignAck(r)
  \/ RefuseAck(r)
  \/ ToolEnds(r)
  \/ Leave(r)

ExecuteStep(r) ==
  \/ Execute(r)
  \/ Refuse(r)
  \/ WaitForLock(r)
  \/ StartStep(r)
  \/ Provider(r)
  \/ Dropped(r)

Next ==
  \/ \E r \in Runs : LoopStep(r) \/ ExecuteStep(r)
  \/ Restart
  \/ Snapshot
  \/ ReportArrives
  \/ Tick

\* The provider and the user answer, tools return, and a request makes its
\* way; a connection that broke is noticed.
Fairness ==
  \A r \in Runs :
    /\ WF_vars(reply[r] = "error" /\ FetchFails(r))
    /\ WF_vars(ResponseArrives(r)) /\ WF_vars(SignAck(r)) /\ WF_vars(ToolEnds(r))
    /\ WF_vars(Execute(r)) /\ WF_vars(WaitForLock(r)) /\ WF_vars(StartStep(r))
    /\ WF_vars(Provider(r))

Spec == Init /\ [][Next]_vars /\ Fairness

---------------------------------------------------------------------------
(* Properties.                                                             *)

\* Whether no other run has used the session: the clients here draw a new id
\* each time.
Own(r) == users \subseteq {r}

\* A request waits for the lock or holds it exactly while it is listed there,
\* and only the first holds it.
TypeOK ==
  /\ Queued = {r \in Runs : task[r] \in {"queued"} \cup Holding}
  /\ \A i \in DOMAIN waiters : task[waiters[i]] \in Holding => i = 1
  /\ record # NoRecord => record.ended \in (0..Retention) \cup {Live}
  /\ \A r \in Runs : reply[r] # "none" => loop[r].phase \in {"waiting", "signing"}

\* What may follow a message for the provider to accept the history: every
\* tool use has its result in the next message (agent/src/lib.rs:138-142).
Assistant == {"answer", "client", "node", "pause", "odd"}
Follows(before, after) ==
  CASE before = "client" -> after = "result"
    [] before = "node" -> after = "results"
    [] before = "answer" -> after = "prompt"
    [] before = "odd" -> FALSE
    [] OTHER -> after \in Assistant

\* Whatever fails and whoever leaves, the provider is never called with a
\* history it must refuse, in a session only one run uses; the exception is
\* a session the node forgot in a restart, whose run sends the result of a
\* tool use that is gone.
AnsweredInOrder ==
  \A r \in Runs : (task[r] = "calling" /\ Own(r) /\ ~forgot) =>
    /\ messages[1].kind = "prompt"
    /\ \A i \in 2..Len(messages) : Follows(messages[i - 1].kind, messages[i].kind)

\* Steps that share a session do not mix their messages, though each awaits
\* the provider and the node's tools in between.
OfOneStep(i, k) ==
  messages[i].by = messages[k].by /\ messages[i].step = messages[k].step
StepsDoNotMix ==
  \A i, k \in DOMAIN messages :
    (i < k /\ OfOneStep(i, k)) => \A j \in i..k : OfOneStep(i, j)

\* A session is logged as running only while a step of it is under way,
\* however the step ends; and all the while, if only one run uses it.
RecordTellsSteps ==
  /\ (record # NoRecord /\ record.status = "running") => \E r \in Runs : task[r] # "none"
  /\ \A r \in Runs : (Own(r) /\ task[r] # "none") =>
       record = [status |-> "running", ended |-> Live]

\* While the dashboard shows a run as ended, the run sends nothing more, though
\* the node's log arrives late and out of order; the exception is a run whose
\* user refused a signature, which the error event ends on the screen only.
EndedIsOver ==
  [][\A r \in Local :
       (Own(r) /\ HasEnded(r) /\ ~loop[r].refused) => loop'[r].steps = loop[r].steps]_vars

\* Every run that was sent ends, or its user leaves: no failure of another
\* run leaves the session's lock behind.
RunsEnd ==
  \A r \in Runs :
    loop[r].phase = "waiting" ~> loop[r].phase \in {"ended", "gone"}
=============================================================================
