---------------------------- MODULE ActivityProofs ----------------------------
(***************************************************************************)
(* Proofs about what an activity poll of the dashboard brings: of a        *)
(* session and its runs, AgentSession, for any number of runs, any bounds  *)
(* and any retention; and of the nodes themselves, NodeList, for any       *)
(* number of nodes, any intervals and any delays.                          *)
(***************************************************************************)
EXTENDS AgentSession, NodeList, SequenceTheorems, TLAPS

LoopPhases == {"matching", "waiting", "signing", "tool", "ended", "gone"}
Tasks == {"none", "checking", "queued"} \cup Holding
Replies == {"none", "sent", "final", "toolCall", "error"}
MessageKinds == {"prompt", "result", "answer", "client", "node", "results", "pause", "odd"}
Messages == [kind : MessageKinds, by : Runs, step : Nat]

(***************************************************************************)
(* Types, and where a run and its request can be at the same time.  A      *)
(* request outlives its client, but a client that goes on has its answer.  *)
(***************************************************************************)
Types ==
  /\ loop \in [Runs -> [phase : LoopPhases, input : {"prompt", "result"},
                        steps : Nat, refused : BOOLEAN]]
  /\ task \in [Runs -> Tasks]
  /\ reply \in [Runs -> Replies]
  /\ waiters \in Seq(Runs)
  /\ messages \in Seq(Messages)
  /\ users \subseteq Runs
  /\ forgot \in BOOLEAN

Place(r) ==
  /\ task[r] # "none" => loop[r].phase \in {"waiting", "ended", "gone"}
  /\ task[r] # "none" => r \in users
  /\ loop[r].phase = "waiting" => reply[r] # "none"
  /\ loop[r].phase = "signing" => reply[r] \in {"final", "toolCall"}
  /\ reply[r] # "none" => loop[r].phase \in {"waiting", "signing"}
  /\ reply[r] \in {"final", "toolCall", "error"} => task[r] = "none"
  /\ loop[r].phase = "matching" => loop[r].steps = 0

Once == \A i, k \in DOMAIN waiters : waiters[i] = waiters[k] => i = k

TypeInv ==
  /\ Types
  /\ TypeOK
  /\ Once
  /\ \A r \in Runs : Place(r)

LEMMA WithoutOne ==
  ASSUME Types, Once, NEW r \in Runs
  PROVE  /\ Without(r) \in Seq(Runs)
         /\ {Without(r)[i] : i \in DOMAIN Without(r)} = Queued \ {r}
         /\ \A i, k \in DOMAIN Without(r) : Without(r)[i] = Without(r)[k] => i = k
         /\ \A i \in DOMAIN Without(r) :
              Without(r)[i] = waiters[1] => i = 1
<1>1. CASE r \notin Queued
  BY <1>1 DEF Without, Queued, Once, Types
<1>2. CASE r \in Queued
  <2> DEFINE n == CHOOSE j \in DOMAIN waiters : waiters[j] = r
             s == SubSeq(waiters, 1, n - 1)
             t == SubSeq(waiters, n + 1, Len(waiters))
  <2>1. n \in 1..Len(waiters) /\ waiters[n] = r
    BY <1>2 DEF Queued, Types
  <2>2. Without(r) = s \o t
    BY <1>2 DEF Without
  <2> HIDE DEF n
  <2>3. /\ s \in Seq(Runs) /\ Len(s) = n - 1
        /\ \A i \in 1..(n - 1) : s[i] = waiters[i]
    BY <2>1, SubSeqProperties DEF Types
  <2>4. /\ t \in Seq(Runs) /\ Len(t) = Len(waiters) - n
        /\ \A i \in 1..(Len(waiters) - n) : t[i] = waiters[n + i]
    BY <2>1, SubSeqProperties DEF Types
  <2> HIDE DEF s, t
  <2>5. /\ s \o t \in Seq(Runs) /\ Len(s \o t) = Len(waiters) - 1
        /\ \A i \in 1..(Len(waiters) - 1) :
             (s \o t)[i] = IF i < n THEN waiters[i] ELSE waiters[i + 1]
    <3>1. Len(waiters) \in Nat
      BY DEF Types
    <3>2. /\ s \o t \in Seq(Runs) /\ Len(s \o t) = Len(s) + Len(t)
          /\ \A i \in 1..(Len(s) + Len(t)) :
               (s \o t)[i] = IF i <= Len(s) THEN s[i] ELSE t[i - Len(s)]
      BY <2>3, <2>4, ConcatProperties
    <3>3. ASSUME NEW i \in 1..(Len(waiters) - 1)
          PROVE  (s \o t)[i] = IF i < n THEN waiters[i] ELSE waiters[i + 1]
      <4>1. CASE i < n
        BY <4>1, <2>1, <2>3, <2>4, <3>1, <3>2
      <4>2. CASE ~(i < n)
        <5>1. i - (n - 1) \in 1..(Len(waiters) - n) /\ n + (i - (n - 1)) = i + 1
          BY <4>2, <2>1, <3>1
        <5>2. (s \o t)[i] = t[i - (n - 1)]
          BY <4>2, <2>1, <2>3, <2>4, <3>1, <3>2
        <5> QED BY <4>2, <5>1, <5>2, <2>4
      <4> QED BY <4>1, <4>2
    <3> QED BY <2>1, <2>3, <2>4, <3>1, <3>2, <3>3
  <2> DEFINE w == s \o t
  <2>6. w = Without(r)
    BY <2>2
  <2>7. Len(waiters) \in Nat /\ DOMAIN waiters = 1..Len(waiters)
    BY DEF Types
  <2>8. w \in Seq(Runs) /\ DOMAIN w = 1..(Len(waiters) - 1)
    BY <2>5
  <2>9. \A i \in DOMAIN w : w[i] = IF i < n THEN waiters[i] ELSE waiters[i + 1]
    BY <2>5, <2>8
  <2> HIDE DEF w
  <2>10. \A i, k \in DOMAIN w : w[i] = w[k] => i = k
    BY <2>1, <2>7, <2>8, <2>9 DEF Once
  <2>11. \A i \in DOMAIN w : w[i] = waiters[1] => i = 1
    BY <2>1, <2>7, <2>8, <2>9 DEF Once
  <2>12. ASSUME NEW i \in DOMAIN w PROVE w[i] \in Queued \ {r}
    BY <2>1, <2>7, <2>8, <2>9 DEF Once, Queued
  <2>13. ASSUME NEW q \in Queued \ {r} PROVE \E i \in DOMAIN w : w[i] = q
    <3>1. PICK k \in DOMAIN waiters : waiters[k] = q /\ k # n
      BY <2>1 DEF Queued
    <3>2. CASE k < n
      BY <3>1, <3>2, <2>1, <2>7, <2>8, <2>9
    <3>3. CASE k > n
      <4>1. k - 1 \in DOMAIN w /\ w[k - 1] = waiters[(k - 1) + 1]
        BY <3>1, <3>3, <2>1, <2>7, <2>8, <2>9
      <4> QED BY <3>1, <3>3, <4>1, <2>1, <2>7
    <3> QED BY <3>1, <3>2, <3>3, <2>1, <2>7
  <2> QED BY <2>6, <2>8, <2>10, <2>11, <2>12, <2>13
<1> QED BY <1>1, <1>2

LEMMA InitTypes == Init => TypeInv
<1> SUFFICES ASSUME Init PROVE TypeInv
  OBVIOUS
<1>1. Types
  <2>1. waiters \in Seq(Runs) /\ messages \in Seq(Messages)
    BY DEF Init
  <2> QED BY <2>1 DEF Init, Types, LoopPhases, Tasks, Replies
<1>2. Once /\ \A r \in Runs : Place(r)
  BY DEF Init, Once, Place
<1>3. Queued = {}
  BY DEF Init, Queued
<1>4. TypeOK
  BY <1>3 DEF Init, TypeOK, Holding
<1> QED BY <1>1, <1>2, <1>4 DEF TypeInv

Loop == [phase : LoopPhases, input : {"prompt", "result"}, steps : Nat, refused : BOOLEAN]

\* The client's steps leave the node alone.
LEMMA ClientFrame ==
  ASSUME NEW r \in Runs, LoopStep(r)
  PROVE  UNCHANGED <<task, waiters, messages, record, users, forgot>>
BY DEF LoopStep, Matched, NoMatch, FetchFails, ResponseArrives, SignAck, RefuseAck,
       ToolEnds, Leave, ClientStep, nodeVars

\* What they do to the loop and its request.
Sent(r, input) ==
  /\ loop' = [loop EXCEPT ![r] = [phase |-> "waiting", input |-> input,
                                  steps |-> @.steps + 1, refused |-> @.refused]]
  /\ reply' = [reply EXCEPT ![r] = "sent"]
Moved(r, phase) ==
  /\ \E b \in BOOLEAN : loop' = [loop EXCEPT ![r] = [@ EXCEPT !.phase = phase, !.refused = b]]
  /\ reply' = [reply EXCEPT ![r] = IF phase = "signing" THEN @ ELSE "none"]

LEMMA ClientCases ==
  ASSUME TypeInv, NEW r \in Runs, LoopStep(r)
  PROVE  \/ loop[r].phase = "matching" /\ Sent(r, "prompt")
         \/ loop[r].phase = "tool" /\ Sent(r, "result")
         \/ \E phase \in {"ended", "gone"} : Moved(r, phase)
         \/ /\ loop[r].phase = "waiting" /\ reply[r] \in {"final", "toolCall"}
            /\ Moved(r, "signing")
         \/ /\ loop[r].phase \in {"waiting", "signing"} /\ reply[r] = "toolCall"
            /\ Moved(r, "tool")
<1>1. loop \in [Runs -> Loop] /\ reply \in [Runs -> Replies]
  BY DEF TypeInv, Types, Loop
<1>2. loop[r] \in Loop
  BY <1>1
<1>3. ASSUME NEW phase \in LoopPhases, Goes(r, phase)
      PROVE  \E b \in BOOLEAN : loop' = [loop EXCEPT ![r] = [@ EXCEPT !.phase = phase, !.refused = b]]
  <2>1. [loop[r] EXCEPT !.phase = phase]
          = [loop[r] EXCEPT !.phase = phase, !.refused = loop[r].refused]
    BY <1>2 DEF Loop
  <2>2. loop' = [loop EXCEPT ![r] = [@ EXCEPT !.phase = phase, !.refused = loop[r].refused]]
    BY <1>1, <1>3, <2>1 DEF Goes
  <2> QED BY <1>2, <2>2 DEF Loop
<1>4. ASSUME NEW input \in {"prompt", "result"}, Send(r, input)
      PROVE  Sent(r, input)
  BY <1>4 DEF Send, Sent
<1>5. CASE Matched(r)
  BY <1>4, <1>5 DEF Matched
<1>6. CASE NoMatch(r)
  <2>1. reply[r] = "none" /\ reply' = reply /\ Goes(r, "ended")
    BY <1>6 DEF NoMatch, TypeInv, Place
  <2> QED BY <1>1, <1>3, <2>1 DEF Moved, LoopPhases
<1>7. CASE FetchFails(r) \/ Leave(r)
  BY <1>3, <1>7 DEF FetchFails, Leave, Moved, LoopPhases
<1>8. CASE ResponseArrives(r)
  <2>1. CASE Goes(r, "signing") /\ UNCHANGED reply
    BY <1>1, <1>3, <1>8, <2>1 DEF ResponseArrives, Moved, LoopPhases
  <2>2. CASE GoesOn(r, reply[r]) /\ reply' = [reply EXCEPT ![r] = "none"]
    BY <1>1, <1>3, <1>8, <2>2 DEF ResponseArrives, GoesOn, Moved, LoopPhases
  <2> QED BY <1>8, <2>1, <2>2 DEF ResponseArrives
<1>9. CASE SignAck(r)
  <2>1. reply[r] \in {"final", "toolCall"}
    BY <1>9 DEF SignAck, TypeInv, Place
  <2> QED BY <1>1, <1>3, <1>9, <2>1 DEF SignAck, GoesOn, Moved, LoopPhases
<1>10. CASE RefuseAck(r)
  <2> DEFINE phase == IF reply[r] = "final" THEN "ended" ELSE "tool"
  <2>1. reply[r] \in {"final", "toolCall"}
    BY <1>10 DEF RefuseAck, TypeInv, Place
  <2>2. loop' = [loop EXCEPT ![r] = [@ EXCEPT !.phase = phase, !.refused = TRUE]]
    <3>1. [loop[r] EXCEPT !.refused = TRUE, !.phase = phase]
            = [loop[r] EXCEPT !.phase = phase, !.refused = TRUE]
      BY <1>2 DEF Loop
    <3> QED BY <1>1, <1>10, <3>1 DEF RefuseAck
  <2> QED BY <1>10, <2>1, <2>2 DEF RefuseAck, Moved
<1>11. CASE ToolEnds(r)
  BY <1>4, <1>11 DEF ToolEnds
<1> QED BY <1>5, <1>6, <1>7, <1>8, <1>9, <1>10, <1>11 DEF LoopStep

LEMMA SentMoved ==
  ASSUME TypeInv, NEW r \in Runs
  PROVE  /\ \A input \in {"prompt", "result"} : Sent(r, input) =>
              /\ loop' \in [Runs -> Loop] /\ reply' \in [Runs -> Replies]
              /\ \A q \in Runs \ {r} : loop'[q] = loop[q] /\ reply'[q] = reply[q]
              /\ loop'[r].phase = "waiting" /\ loop'[r].input = input
              /\ loop'[r].steps = loop[r].steps + 1 /\ reply'[r] = "sent"
         /\ \A phase \in LoopPhases : Moved(r, phase) =>
              /\ loop' \in [Runs -> Loop] /\ reply' \in [Runs -> Replies]
              /\ \A q \in Runs \ {r} : loop'[q] = loop[q] /\ reply'[q] = reply[q]
              /\ loop'[r].phase = phase /\ loop'[r].input = loop[r].input
              /\ loop'[r].steps = loop[r].steps
              /\ reply'[r] = IF phase = "signing" THEN reply[r] ELSE "none"
<1>1. loop \in [Runs -> Loop] /\ reply \in [Runs -> Replies]
  BY DEF TypeInv, Types, Loop
<1>2. loop[r] \in Loop
  BY <1>1
<1>3. ASSUME NEW input \in {"prompt", "result"}, Sent(r, input)
      PROVE  /\ loop' \in [Runs -> Loop] /\ reply' \in [Runs -> Replies]
             /\ \A q \in Runs \ {r} : loop'[q] = loop[q] /\ reply'[q] = reply[q]
             /\ loop'[r].phase = "waiting" /\ loop'[r].input = input
             /\ loop'[r].steps = loop[r].steps + 1 /\ reply'[r] = "sent"
  <2> DEFINE l == [phase |-> "waiting", input |-> input,
                   steps |-> loop[r].steps + 1, refused |-> loop[r].refused]
  <2>1. l \in Loop /\ l.phase = "waiting" /\ l.input = input /\ l.steps = loop[r].steps + 1
    BY <1>2 DEF Loop, LoopPhases
  <2>2. loop' = [loop EXCEPT ![r] = l] /\ reply' = [reply EXCEPT ![r] = "sent"]
    BY <1>3 DEF Sent
  <2> HIDE DEF l
  <2> QED BY <1>1, <2>1, <2>2 DEF Replies
<1>4. ASSUME NEW phase \in LoopPhases, Moved(r, phase)
      PROVE  /\ loop' \in [Runs -> Loop] /\ reply' \in [Runs -> Replies]
             /\ \A q \in Runs \ {r} : loop'[q] = loop[q] /\ reply'[q] = reply[q]
             /\ loop'[r].phase = phase /\ loop'[r].input = loop[r].input
             /\ loop'[r].steps = loop[r].steps
             /\ reply'[r] = IF phase = "signing" THEN reply[r] ELSE "none"
  <2>1. PICK b \in BOOLEAN : loop' = [loop EXCEPT ![r] = [@ EXCEPT !.phase = phase, !.refused = b]]
    BY <1>4 DEF Moved
  <2> DEFINE l == [loop[r] EXCEPT !.phase = phase, !.refused = b]
  <2>2. l \in Loop /\ l.phase = phase /\ l.input = loop[r].input /\ l.steps = loop[r].steps
    BY <1>2 DEF Loop
  <2>3. loop' = [loop EXCEPT ![r] = l]
        /\ reply' = [reply EXCEPT ![r] = IF phase = "signing" THEN @ ELSE "none"]
    BY <1>4, <2>1 DEF Moved
  <2> HIDE DEF l
  <2> QED BY <1>1, <2>2, <2>3 DEF Replies
<1> QED BY <1>3, <1>4

LEMMA ClientTypes ==
  ASSUME TypeInv, NEW r \in Runs, LoopStep(r)
  PROVE  TypeInv'
<1>1. UNCHANGED <<task, waiters, messages, record, users, forgot>>
  BY ClientFrame
<1>2. /\ loop' \in [Runs -> Loop] /\ reply' \in [Runs -> Replies]
      /\ \A q \in Runs \ {r} : loop'[q] = loop[q] /\ reply'[q] = reply[q]
      /\ Place(r)'
  <2>0. Place(r) /\ loop[r].steps \in Nat
    BY DEF TypeInv, Types
  <2>1. CASE loop[r].phase = "matching" /\ Sent(r, "prompt")
    BY <1>1, <2>0, <2>1, SentMoved DEF Place
  <2>2. CASE loop[r].phase = "tool" /\ Sent(r, "result")
    BY <1>1, <2>0, <2>2, SentMoved DEF Place
  <2>3. ASSUME NEW phase \in {"ended", "gone"}, Moved(r, phase)
        PROVE  /\ loop' \in [Runs -> Loop] /\ reply' \in [Runs -> Replies]
               /\ \A q \in Runs \ {r} : loop'[q] = loop[q] /\ reply'[q] = reply[q]
               /\ Place(r)'
    BY <1>1, <2>0, <2>3, SentMoved DEF Place, LoopPhases
  <2>4. CASE /\ loop[r].phase = "waiting" /\ reply[r] \in {"final", "toolCall"}
             /\ Moved(r, "signing")
    BY <1>1, <2>0, <2>4, SentMoved DEF Place, LoopPhases
  <2>5. CASE /\ loop[r].phase \in {"waiting", "signing"} /\ reply[r] = "toolCall"
             /\ Moved(r, "tool")
    BY <1>1, <2>0, <2>5, SentMoved DEF Place, LoopPhases
  <2> QED BY ClientCases, <2>1, <2>2, <2>3, <2>4, <2>5
<1>3. \A q \in Runs : Place(q)'
  BY <1>1, <1>2 DEF TypeInv, Place
<1>4. Types' /\ Once'
  BY <1>1, <1>2 DEF TypeInv, Types, Once, Loop
<1>5. TypeOK'
  BY <1>1, <1>3 DEF TypeInv, TypeOK, Queued, Place
<1> QED BY <1>3, <1>4, <1>5 DEF TypeInv

\* A request ends, whether it was answered, refused, failed or dropped.
Ending(r) ==
  /\ task[r] # "none"
  /\ \E status \in {"final", "waiting-tool", "error"},
        answer \in {"final", "toolCall", "error"} : Ends(r, status, answer)
  /\ UNCHANGED <<loop, users, forgot>>

LEMMA EndingTypes ==
  ASSUME TypeInv, NEW r \in Runs, Ending(r), messages' \in Seq(Messages)
  PROVE  TypeInv'
<1>3. /\ waiters' \in Seq(Runs)
      /\ Queued' = Queued \ {r}
      /\ Once'
      /\ \A i \in DOMAIN waiters' : waiters'[i] = waiters[1] => i = 1
  <2> DEFINE w == Without(r)
  <2>1. /\ w \in Seq(Runs)
        /\ {w[i] : i \in DOMAIN w} = Queued \ {r}
        /\ \A i, k \in DOMAIN w : w[i] = w[k] => i = k
        /\ \A i \in DOMAIN w : w[i] = waiters[1] => i = 1
    BY WithoutOne DEF TypeInv
  <2>2. waiters' = w
    BY DEF Ending, Ends
  <2> HIDE DEF w
  <2>3. Queued' = {w[i] : i \in DOMAIN w}
    BY <2>2 DEF Queued
  <2> QED BY <2>1, <2>2, <2>3 DEF Once
<1> USE DEF TypeInv, Types, Tasks, Holding, Replies
<1>1. PICK status \in {"final", "waiting-tool", "error"},
           answer \in {"final", "toolCall", "error"} : Ends(r, status, answer)
  BY DEF Ending
<1>2. /\ task' = [task EXCEPT ![r] = "none"]
      /\ waiters' = Without(r)
      /\ reply' = [reply EXCEPT ![r] = IF @ = "sent" THEN answer ELSE @]
      /\ UNCHANGED <<loop, users, forgot>>
  BY <1>1 DEF Ends, Ending
<1>4. Types'
  <2>1. reply' \in [Runs -> Replies] /\ task' \in [Runs -> Tasks]
    BY <1>2
  <2> QED BY <1>2, <1>3, <2>1
<1>5. \A q \in Runs : Place(q)'
  BY <1>2 DEF Place
<1>6. Queued' = {q \in Runs : task'[q] \in {"queued"} \cup Holding}
  BY <1>2, <1>3 DEF TypeOK
<1>7. ASSUME NEW i \in DOMAIN waiters', task'[waiters'[i]] \in Holding
      PROVE  i = 1
  <2>1. waiters'[i] \in Queued \ {r}
    BY <1>3, <1>7 DEF Queued
  <2>2. task[waiters'[i]] \in Holding
    BY <1>2, <1>7, <2>1 DEF TypeOK
  <2>3. PICK k \in DOMAIN waiters : waiters[k] = waiters'[i]
    BY <2>1 DEF Queued
  <2>4. k = 1
    BY <2>2, <2>3 DEF TypeOK
  <2> QED BY <1>3, <2>3, <2>4
<1>8. record' # NoRecord => record'.ended \in (0..Retention) \cup {Live}
  <2>1. CASE record = NoRecord
    BY <1>1, <2>1 DEF Ends, EndStep
  <2>2. CASE record # NoRecord
    BY <1>1, <2>2, SessionAssumption DEF Ends, EndStep
  <2> QED BY <2>1, <2>2
<1>9. TypeOK'
  BY <1>2, <1>5, <1>6, <1>7, <1>8 DEF TypeOK, Place
<1> QED BY <1>3, <1>4, <1>5, <1>9

LEMMA Pushed ==
  ASSUME Types, NEW r \in Runs, NEW kind \in MessageKinds, Push(r, kind)
  PROVE  /\ messages' \in Seq(Messages)
         /\ Message(r, kind) \in Messages
         /\ Len(messages') = Len(messages) + 1
         /\ \A i \in 1..Len(messages) : messages'[i] = messages[i]
         /\ messages'[Len(messages) + 1] = Message(r, kind)
<1>1. Message(r, kind) \in Messages
  BY DEF Types, Message, Messages
<1>2. messages' = Append(messages, Message(r, kind)) /\ messages \in Seq(Messages)
  BY DEF Push, Types
<1> HIDE DEF Message, Messages
<1> QED BY <1>1, <1>2

\* The steps that go on holding the lock: each pushes a message.
Holds(r) == RunsTools(r) \/ ToolsReturn(r) \/ Pauses(r)
LEMMA GoingOn ==
  ASSUME Types, NEW r \in Runs, Holds(r)
  PROVE  /\ task[r] \in Holding /\ task' \in [Runs -> Tasks] /\ task'[r] \in Holding
         /\ \A q \in Runs \ {r} : task'[q] = task[q]
         /\ UNCHANGED <<loop, reply, waiters, record, users, forgot>>
         /\ \E kind \in MessageKinds : Push(r, kind)
<1>1. task \in [Runs -> Tasks] /\ Holding \subseteq Tasks
  BY DEF Types, Tasks
<1>2. CASE RunsTools(r)
  BY <1>1, <1>2 DEF RunsTools, NodeStep, clientVars, Holding, MessageKinds
<1>3. CASE ToolsReturn(r)
  BY <1>1, <1>3 DEF ToolsReturn, NodeStep, clientVars, Holding, MessageKinds
<1>4. CASE Pauses(r)
  BY <1>1, <1>4 DEF Pauses, NodeStep, clientVars, Holding, MessageKinds
<1> QED BY <1>2, <1>3, <1>4 DEF Holds

\* How each step ends, and what it adds to the messages.
Pushing(r, kind) == Push(r, kind) /\ task[r] = "calling"
LEMMA EndingCases ==
  ASSUME TypeInv, NEW r \in Runs,
         \/ Refuse(r) \/ Answers(r) \/ AsksClient(r) \/ AnswersOddly(r)
         \/ ProviderFails(r) \/ Dropped(r)
  PROVE  /\ Ending(r)
         /\ \/ UNCHANGED messages
            \/ \E kind \in {"answer", "client", "odd"} : Pushing(r, kind)
<1> USE DEF Ending, NodeStep, clientVars
<1>1. CASE Refuse(r)
  BY <1>1 DEF Refuse
<1>2. CASE Answers(r)
  BY <1>2 DEF Answers, Pushing
<1>3. CASE AsksClient(r)
  BY <1>3 DEF AsksClient, Pushing
<1>4. CASE AnswersOddly(r)
  BY <1>4 DEF AnswersOddly, Pushing
<1>5. CASE ProviderFails(r)
  BY <1>5 DEF ProviderFails
<1>6. CASE Dropped(r)
  BY <1>6 DEF Dropped
<1> QED BY <1>1, <1>2, <1>3, <1>4, <1>5, <1>6

\* A step of the node that ends no request.
Working(r) == Execute(r) \/ WaitForLock(r) \/ StartStep(r) \/ Holds(r)

\* None of them touches the client or another request.
LEMMA WorkingFrame ==
  ASSUME NEW r \in Runs, Working(r)
  PROVE  /\ UNCHANGED <<loop, reply, forgot>>
         /\ \/ Execute(r) /\ UNCHANGED <<waiters, messages>>
            \/ WaitForLock(r) /\ UNCHANGED <<messages, record, users>>
            \/ StartStep(r) /\ UNCHANGED <<waiters, record, users>>
            \/ Holds(r) /\ UNCHANGED <<waiters, record, users>>
BY DEF Working, Execute, WaitForLock, StartStep, Holds, RunsTools, ToolsReturn, Pauses,
       NodeStep, clientVars

LEMMA WorkingTypes ==
  ASSUME TypeInv, NEW r \in Runs, Working(r)
  PROVE  TypeInv'
<1>1. /\ loop' = loop /\ reply' = reply /\ forgot' = forgot
  BY WorkingFrame
<1>2. /\ task \in [Runs -> Tasks] /\ waiters \in Seq(Runs) /\ messages \in Seq(Messages)
      /\ users \subseteq Runs
  BY DEF TypeInv, Types
<1>3. CASE Execute(r)
  <2>1. /\ task[r] = "none" /\ loop[r].phase = "waiting" /\ reply[r] = "sent"
        /\ task' = [task EXCEPT ![r] = "checking"] /\ users' = users \cup {r}
        /\ UNCHANGED <<waiters, messages>>
        /\ record' = [status |-> "running", ended |-> Live]
    BY <1>3 DEF Execute, BeginStep
  <2>2. Types'
    BY <1>1, <1>2, <2>1 DEF TypeInv, Types, Tasks
  <2>3. \A q \in Runs : Place(q)'
    BY <1>1, <1>2, <2>1 DEF TypeInv, Place, Tasks
  <2>4. Queued' = Queued /\ Once'
    BY <2>1 DEF TypeInv, Once, Queued
  <2>5. \A q \in Runs :
          task[q] \in {"queued"} \cup Holding <=> task'[q] \in {"queued"} \cup Holding
    BY <1>2, <2>1 DEF Holding
  <2>6. \A i \in DOMAIN waiters : task'[waiters[i]] \in Holding => task[waiters[i]] \in Holding
    BY <1>2, <2>1 DEF Holding
  <2>7. TypeOK'
    BY <1>1, <2>1, <2>4, <2>5, <2>6 DEF TypeInv, TypeOK
  <2> QED BY <2>2, <2>3, <2>4, <2>7 DEF TypeInv
<1>4. CASE WaitForLock(r)
  <2>1. /\ task[r] = "checking" /\ task' = [task EXCEPT ![r] = "queued"]
        /\ waiters' = Append(waiters, r)
        /\ UNCHANGED <<messages, record, users>>
    BY <1>4 DEF WaitForLock, NodeStep
  <2>2. r \notin Queued
    BY <2>1 DEF TypeInv, TypeOK, Holding
  <2>3. /\ waiters' \in Seq(Runs) /\ Len(waiters') = Len(waiters) + 1
        /\ \A i \in 1..Len(waiters) : waiters'[i] = waiters[i]
        /\ waiters'[Len(waiters) + 1] = r
    BY <1>2, <2>1
  <2>4. /\ Len(waiters) \in Nat /\ DOMAIN waiters = 1..Len(waiters)
        /\ DOMAIN waiters' = 1..(Len(waiters) + 1)
    BY <1>2, <2>3
  <2>5. Types'
    BY <1>1, <1>2, <2>1, <2>3 DEF TypeInv, Types, Tasks
  <2>6. \A q \in Runs : Place(q)'
    BY <1>1, <1>2, <2>1 DEF TypeInv, Place, Tasks
  <2>7. \A i \in DOMAIN waiters : waiters[i] # r
    BY <2>2 DEF Queued
  <2>8. Once'
    <3> SUFFICES ASSUME NEW i \in DOMAIN waiters', NEW k \in DOMAIN waiters',
                        waiters'[i] = waiters'[k]
                 PROVE  i = k
      BY DEF Once
    <3> QED BY <2>3, <2>4, <2>7 DEF TypeInv, Once
  <2>9. Queued' = Queued \cup {r}
    <3>1. \A q \in Queued' : q \in Queued \cup {r}
      BY <2>3, <2>4 DEF Queued
    <3>2. \A q \in Queued : q \in Queued'
      BY <2>3, <2>4 DEF Queued
    <3>3. r \in Queued'
      BY <2>3, <2>4 DEF Queued
    <3> QED BY <3>1, <3>2, <3>3
  <2>10. Queued' = {q \in Runs : task'[q] \in {"queued"} \cup Holding}
    BY <1>2, <2>1, <2>9 DEF TypeInv, TypeOK, Holding
  <2>11. ASSUME NEW i \in DOMAIN waiters', task'[waiters'[i]] \in Holding PROVE i = 1
    <3>1. waiters'[i] # r
      BY <1>2, <2>1, <2>11 DEF Holding
    <3>2. i \in DOMAIN waiters /\ waiters'[i] = waiters[i]
      BY <2>3, <2>4, <3>1
    <3> QED BY <1>2, <2>1, <2>11, <3>1, <3>2 DEF TypeInv, TypeOK, Types
  <2>12. TypeOK'
    BY <1>1, <2>1, <2>10, <2>11 DEF TypeInv, TypeOK
  <2> QED BY <2>5, <2>6, <2>8, <2>12 DEF TypeInv
<1>5. CASE StartStep(r)
  <2>1. /\ task[r] = "queued" /\ Head(waiters) = r
        /\ task' = [task EXCEPT ![r] = "calling"]
        /\ UNCHANGED <<waiters, record, users>>
    BY <1>5 DEF StartStep, HoldsLock, NodeStep
  <2>2. loop[r].input \in MessageKinds /\ Push(r, loop[r].input)
    BY <1>5 DEF StartStep, TypeInv, Types, MessageKinds
  <2>3. messages' \in Seq(Messages)
    BY <2>2, Pushed DEF TypeInv
  <2>4. Types'
    BY <1>1, <1>2, <2>1, <2>3 DEF TypeInv, Types, Tasks, Holding
  <2>5. \A q \in Runs : Place(q)'
    BY <1>1, <1>2, <2>1 DEF TypeInv, Place, Tasks
  <2>6. Queued' = Queued /\ Once'
    BY <2>1 DEF TypeInv, Once, Queued
  <2>7. \A q \in Runs :
          task[q] \in {"queued"} \cup Holding <=> task'[q] \in {"queued"} \cup Holding
    BY <1>2, <2>1 DEF Holding
  <2>8. ASSUME NEW i \in DOMAIN waiters, task'[waiters[i]] \in Holding PROVE i = 1
    <3>1. CASE waiters[i] = r
      <4>1. waiters # <<>>
        BY <1>2, <2>8
      <4>2. waiters[1] = r /\ 1 \in DOMAIN waiters
        BY <1>2, <2>1, <4>1
      <4> QED BY <3>1, <4>2 DEF TypeInv, Once
    <3>2. CASE waiters[i] # r
      BY <1>2, <2>1, <2>8, <3>2 DEF TypeInv, TypeOK
    <3> QED BY <3>1, <3>2
  <2>9. TypeOK'
    BY <1>1, <2>1, <2>6, <2>7, <2>8 DEF TypeInv, TypeOK
  <2> QED BY <2>4, <2>5, <2>6, <2>9 DEF TypeInv
<1>6. CASE Holds(r)
  <2>1. /\ task[r] \in Holding /\ task' \in [Runs -> Tasks] /\ task'[r] \in Holding
        /\ \A q \in Runs \ {r} : task'[q] = task[q]
        /\ UNCHANGED <<waiters, record, users>>
    BY <1>6, GoingOn DEF TypeInv
  <2>2. messages' \in Seq(Messages)
    BY <1>6, GoingOn, Pushed DEF TypeInv
  <2>3. Types'
    BY <1>1, <2>1, <2>2 DEF TypeInv, Types
  <2>4. Once' /\ Queued' = Queued
    BY <2>1 DEF TypeInv, Once, Queued
  <2>5. \A q \in Runs : /\ task'[q] \in Holding <=> task[q] \in Holding
                        /\ task'[q] = "none" <=> task[q] = "none"
                        /\ task'[q] = "queued" <=> task[q] = "queued"
    BY <2>1 DEF Holding
  <2>6. \A q \in Runs : Place(q)'
    BY <1>1, <2>1, <2>5 DEF TypeInv, Place
  <2>7. \A i \in DOMAIN waiters : waiters[i] \in Runs
    BY <1>2
  <2>8. TypeOK'
    BY <1>1, <2>1, <2>4, <2>5, <2>7 DEF TypeInv, TypeOK
  <2> QED BY <2>3, <2>4, <2>6, <2>8 DEF TypeInv
<1> QED BY <1>3, <1>4, <1>5, <1>6 DEF Working

LEMMA RestartTypes ==
  ASSUME TypeInv, Restart
  PROVE  TypeInv'
<1>1. /\ task' = [r \in Runs |-> "none"] /\ waiters' = <<>> /\ messages' = <<>>
      /\ record' = NoRecord /\ forgot' = (messages # <<>>)
      /\ reply' = [r \in Runs |-> IF reply[r] = "sent" /\ task[r] # "none"
                                  THEN "error" ELSE reply[r]]
      /\ UNCHANGED <<loop, users>>
  BY DEF Restart, clientVars
<1>2. Types'
  BY <1>1 DEF TypeInv, Types, Tasks, Replies
<1>3. \A r \in Runs : Place(r)'
  BY <1>1 DEF TypeInv, Place
<1>4. Queued' = {} /\ Once'
  BY <1>1 DEF Queued, Once
<1>5. TypeOK'
  BY <1>1, <1>3, <1>4 DEF TypeOK, Place, Holding
<1> QED BY <1>2, <1>3, <1>4, <1>5 DEF TypeInv

LEMMA ViewTypes ==
  ASSUME TypeInv, Snapshot \/ ReportArrives \/ Tick \/ UNCHANGED vars
  PROVE  /\ UNCHANGED <<loop, task, waiters, messages, users, forgot, reply>>
         /\ TypeInv'
<1>1. UNCHANGED <<loop, task, waiters, messages, users, forgot, reply>>
  BY DEF Snapshot, ReportArrives, Tick, vars, clientVars, nodeVars
<1>2. record' # NoRecord => record'.ended \in (0..Retention) \cup {Live}
  <2>1. CASE Snapshot
    BY <2>1 DEF Snapshot, TypeInv, TypeOK
  <2>2. CASE ReportArrives \/ UNCHANGED vars
    BY <2>2 DEF ReportArrives, vars, nodeVars, TypeInv, TypeOK
  <2>3. CASE Tick
    <3>1. record.ended \in 0..Retention /\ record.ended # Retention
      BY <2>3 DEF Tick, TypeInv, TypeOK
    <3>2. record'.ended = record.ended + 1 \/ record'.ended = record.ended
      BY <2>3 DEF Tick
    <3> QED BY <3>1, <3>2, SessionAssumption
  <2> QED BY <2>1, <2>2, <2>3
<1>3. Types' /\ Once' /\ \A r \in Runs : Place(r)'
  BY <1>1 DEF TypeInv, Types, Once, Place
<1>4. TypeOK'
  BY <1>1, <1>2 DEF TypeInv, TypeOK, Queued
<1> QED BY <1>1, <1>3, <1>4 DEF TypeInv

\* What a step can be.
LEMMA StepCases ==
  ASSUME TypeInv, [Next]_vars
  PROVE  \/ \E r \in Runs : LoopStep(r)
         \/ \E r \in Runs : Working(r)
         \/ \E r \in Runs :
              /\ Ending(r)
              /\ \/ UNCHANGED messages
                 \/ \E kind \in {"answer", "client", "odd"} : Pushing(r, kind)
         \/ Restart
         \/ Snapshot \/ ReportArrives \/ Tick \/ UNCHANGED vars
BY EndingCases DEF Next, ExecuteStep, Provider, Working, Holds

LEMMA NextTypes == TypeInv /\ [Next]_vars => TypeInv'
<1> SUFFICES ASSUME TypeInv, [Next]_vars PROVE TypeInv'
  OBVIOUS
<1>1. ASSUME NEW r \in Runs, Ending(r),
             \/ UNCHANGED messages
             \/ \E kind \in {"answer", "client", "odd"} : Pushing(r, kind)
      PROVE  TypeInv'
  <2>1. messages' \in Seq(Messages)
    <3>1. CASE UNCHANGED messages
      BY <3>1 DEF TypeInv, Types
    <3>2. ASSUME NEW kind \in {"answer", "client", "odd"}, Push(r, kind)
          PROVE  messages' \in Seq(Messages)
      <4>1. kind \in MessageKinds
        BY DEF MessageKinds
      <4> QED BY <3>2, <4>1, Pushed DEF TypeInv
    <3> QED BY <1>1, <3>1, <3>2 DEF Pushing
  <2> QED BY <1>1, <2>1, EndingTypes
<1> QED BY <1>1, StepCases, ClientTypes, WorkingTypes, RestartTypes, ViewTypes

\* The requests of a session take its lock one at a time and in order, and a
\* client waits exactly for what it has sent (AgentRuntime::step).
THEOREM SessionTypeCorrect == Spec => []TypeOK
<1>1. TypeInv => TypeOK
  BY DEF TypeInv
<1> QED BY InitTypes, NextTypes, <1>1, PTL DEF Spec

---------------------------------------------------------------------------
(* The log.                                                                *)

\* Only the requests that are under way keep the session running.
Statuses == {"running", "final", "waiting-tool", "error"}
RecordInv ==
  /\ TypeInv
  /\ record # NoRecord => record \in [status : Statuses, ended : (0..Retention) \cup {Live}]
  /\ RecordTellsSteps

LEMMA NextRecord == RecordInv /\ [Next]_vars => RecordInv'
<1> SUFFICES ASSUME RecordInv, [Next]_vars PROVE RecordInv'
  OBVIOUS
<1> DEFINE Record == [status : Statuses, ended : (0..Retention) \cup {Live}]
<1>0. TypeInv /\ TypeInv' /\ task \in [Runs -> Tasks]
  BY NextTypes DEF RecordInv, TypeInv, Types
<1>1. ASSUME record' = record, \A q \in Runs : task'[q] = "none" <=> task[q] = "none",
             users' = users
      PROVE  RecordInv'
  BY <1>0, <1>1 DEF RecordInv, RecordTellsSteps, Own
<1>2. ASSUME NEW r \in Runs, LoopStep(r) PROVE RecordInv'
  BY <1>1, <1>2, ClientFrame
<1>3. ASSUME NEW r \in Runs, Working(r) PROVE RecordInv'
  <2>1. CASE Execute(r)
    <3>1. /\ task' = [task EXCEPT ![r] = "checking"] /\ users' = users \cup {r}
          /\ record' = [status |-> "running", ended |-> Live]
      BY <2>1 DEF Execute, BeginStep
    <3>2. record' \in Record
      BY <3>1 DEF Statuses
    <3>3. task'[r] # "none"
      BY <1>0, <3>1
    <3>4. RecordTellsSteps'
      BY <3>1, <3>3 DEF RecordTellsSteps
    <3> QED BY <1>0, <3>2, <3>4 DEF RecordInv
  <2>2. CASE ~Execute(r)
    <3>1. record' = record /\ users' = users
      BY <1>3, <2>2, WorkingFrame
    <3>2. \A q \in Runs : task'[q] = "none" <=> task[q] = "none"
      <4>1. CASE Holds(r)
        BY <1>0, <4>1, GoingOn DEF Holding, TypeInv
      <4>2. CASE WaitForLock(r) \/ StartStep(r)
        BY <1>0, <4>2 DEF WaitForLock, StartStep
      <4> QED BY <1>3, <2>2, <4>1, <4>2 DEF Working
    <3> QED BY <1>1, <3>1, <3>2
  <2> QED BY <2>1, <2>2
<1>4. ASSUME NEW r \in Runs, Ending(r) PROVE RecordInv'
  <2>1. PICK status \in {"final", "waiting-tool", "error"},
             answer \in {"final", "toolCall", "error"} : Ends(r, status, answer)
    BY <1>4 DEF Ending
  <2>2. /\ task' = [task EXCEPT ![r] = "none"] /\ users' = users
        /\ record' = IF record = NoRecord THEN NoRecord
                     ELSE [status |-> status,
                           ended |-> IF status \in {"final", "error"} THEN 0 ELSE Live]
    BY <1>4, <2>1 DEF Ending, Ends, EndStep
  <2>3. record' # NoRecord => record' \in Record /\ record'.status # "running"
    BY <2>2, SessionAssumption DEF Statuses
  <2>4. r \in users
    BY <1>0, <1>4 DEF Ending, TypeInv, Place
  <2>5. \A q \in Runs : Own(q)' => task'[q] = "none"
    BY <1>0, <2>2, <2>4 DEF Own, TypeInv, Place
  <2>6. RecordTellsSteps'
    BY <2>3, <2>5 DEF RecordTellsSteps
  <2> QED BY <1>0, <2>3, <2>6 DEF RecordInv
<1>5. CASE Restart
  BY <1>0, <1>5 DEF Restart, RecordInv, RecordTellsSteps
<1>6. CASE Snapshot \/ ReportArrives \/ Tick \/ UNCHANGED vars
  <2>1. UNCHANGED <<task, users>>
    BY <1>0, <1>6, ViewTypes
  <2>2. CASE record' = record
    BY <1>1, <2>1, <2>2
  <2>3. CASE record' # record
    <3>1. record # NoRecord /\ record.ended # Live
      BY <1>6, <2>3, SessionAssumption DEF Snapshot, ReportArrives, Tick, vars, nodeVars
    <3>2. \A q \in Runs : ~(Own(q) /\ task[q] # "none")
      BY <3>1 DEF RecordInv, RecordTellsSteps
    <3>3. record' = NoRecord \/ (record' = [record EXCEPT !.ended = @ + 1] /\ Tick)
      BY <1>6, <2>3 DEF Snapshot, ReportArrives, Tick, vars, nodeVars
    <3>4. record' # NoRecord => record' \in Record /\ record'.status = record.status
      <4> SUFFICES ASSUME record' = [record EXCEPT !.ended = @ + 1], Tick
                   PROVE  record' \in Record /\ record'.status = record.status
        BY <3>3
      <4>1. record \in Record /\ record.ended \in 0..Retention /\ record.ended # Retention
        BY <3>1 DEF RecordInv, Tick
      <4>2. record.ended + 1 \in 0..Retention
        BY <4>1, SessionAssumption
      <4> QED BY <4>1, <4>2
    <3>5. RecordTellsSteps'
      BY <2>1, <3>1, <3>2, <3>4 DEF RecordInv, RecordTellsSteps, Own
    <3> QED BY <1>0, <3>4, <3>5 DEF RecordInv
  <2> QED BY <2>2, <2>3
<1> QED BY <1>0, <1>2, <1>3, <1>4, <1>5, <1>6, StepCases

\* A session that is logged as running has a step under way, of any of the runs
\* that use it and whatever becomes of the others (ActivityLog, StepGuard).  Of a
\* run that has the session for itself the converse holds, too; where runs
\* overlap it does not, as the first step that ends marks the record as ended.
THEOREM LogTellsSteps == Spec => []RecordTellsSteps
<1>1. Init => RecordInv
  BY InitTypes DEF Init, RecordInv, RecordTellsSteps
<1>2. RecordInv => RecordTellsSteps
  BY DEF RecordInv
<1> QED BY <1>1, NextRecord, <1>2, PTL DEF Spec

---------------------------------------------------------------------------
(* The messages of a step.                                                 *)

\* A request whose step has pushed nothing yet.
Unpushed(r) ==
  \/ reply[r] = "sent" /\ task[r] = "none"
  \/ task[r] \in {"checking", "queued"}

\* Messages carry the number of a step the run has sent; the last is of the
\* step that calls the provider.
Numbered(r) ==
  /\ \A i \in DOMAIN messages : messages[i].by = r => messages[i].step <= loop[r].steps
  /\ Unpushed(r) =>
       \A i \in DOMAIN messages : messages[i].by = r => messages[i].step # loop[r].steps
  /\ task[r] \in Holding =>
       /\ messages # <<>>
       /\ messages[Len(messages)].by = r
       /\ messages[Len(messages)].step = loop[r].steps

MixInv ==
  /\ TypeInv
  /\ StepsDoNotMix
  /\ \A r \in Runs : Numbered(r)

\* A step adds messages of its own at the end.
Extended(r) ==
  /\ messages' \in Seq(Messages)
  /\ Len(messages') > Len(messages)
  /\ \A i \in 1..Len(messages) : messages'[i] = messages[i]
  /\ \A i \in (Len(messages) + 1)..Len(messages') :
       messages'[i].by = r /\ messages'[i].step = loop[r].steps

LEMMA Extends ==
  ASSUME Types, NEW r \in Runs, NEW kind \in MessageKinds, Push(r, kind)
  PROVE  Extended(r)
<1> DEFINE n == Len(messages)
<1>1. n \in Nat
  BY DEF Types
<1>2. Message(r, kind).by = r /\ Message(r, kind).step = loop[r].steps
  BY DEF Message
<1>3. /\ messages' \in Seq(Messages) /\ Len(messages') = n + 1
      /\ \A i \in 1..n : messages'[i] = messages[i]
      /\ messages'[n + 1] = Message(r, kind)
  BY Pushed
<1>4. \A i \in (n + 1)..Len(messages') : i = n + 1
  BY <1>1, <1>3
<1>5. \A i \in (n + 1)..Len(messages') :
        messages'[i].by = r /\ messages'[i].step = loop[r].steps
  BY <1>2, <1>3, <1>4
<1> QED BY <1>1, <1>3, <1>5 DEF Extended

\* Only the first of the queue calls the provider, or runs its tools.
LEMMA OneCalls ==
  ASSUME TypeInv, NEW q \in Runs, NEW r \in Runs,
         task[q] \in Holding, task[r] \in Holding \/ StartStep(r)
  PROVE  q = r
<1>1. q \in Queued
  BY DEF TypeInv, TypeOK
<1>2. PICK i \in DOMAIN waiters : waiters[i] = q
  BY <1>1 DEF Queued
<1>3. i = 1
  BY <1>2 DEF TypeInv, TypeOK
<1>4. CASE task[r] \in Holding
  <2>1. PICK k \in DOMAIN waiters : waiters[k] = r
    BY <1>4 DEF TypeInv, TypeOK, Queued
  <2> QED BY <1>2, <1>3, <1>4, <2>1 DEF TypeInv, TypeOK
<1>5. CASE StartStep(r)
  <2>1. waiters[1] = r
    BY <1>2, <1>5 DEF StartStep, HoldsLock, TypeInv, Types
  <2> QED BY <1>2, <1>3, <2>1
<1> QED BY <1>4, <1>5

LEMMA ExtendedNoMix ==
  ASSUME MixInv, NEW r \in Runs, Extended(r), loop' = loop,
         task[r] \in Holding \/ Unpushed(r)
  PROVE  StepsDoNotMix'
<1> SUFFICES ASSUME NEW i \in DOMAIN messages', NEW k \in DOMAIN messages',
                    i < k, OfOneStep(i, k)', NEW j \in i..k
             PROVE  OfOneStep(i, j)'
  BY DEF StepsDoNotMix
<1> DEFINE n == Len(messages)
<1>1. /\ n \in Nat /\ Len(messages') \in Nat
      /\ DOMAIN messages = 1..n /\ DOMAIN messages' = 1..Len(messages')
  BY DEF MixInv, TypeInv, Types, Extended
<1>2. /\ \A m \in 1..n : messages'[m] = messages[m]
      /\ \A m \in DOMAIN messages' : m > n =>
           messages'[m].by = r /\ messages'[m].step = loop[r].steps
  BY <1>1 DEF Extended
<1> HIDE DEF n
<1>3. j \in DOMAIN messages' /\ i \in 1..Len(messages') /\ k \in 1..Len(messages')
      /\ i <= j /\ j <= k
  BY <1>1
<1>4. CASE k <= n
  <2>1. i \in DOMAIN messages /\ k \in DOMAIN messages /\ j \in DOMAIN messages
    BY <1>1, <1>3, <1>4
  <2>2. OfOneStep(i, k)
    BY <1>1, <1>2, <2>1 DEF OfOneStep
  <2>3. OfOneStep(i, j)
    BY <2>1, <2>2 DEF MixInv, StepsDoNotMix
  <2> QED BY <1>1, <1>2, <2>1, <2>3 DEF OfOneStep
<1>5. CASE i > n
  BY <1>1, <1>2, <1>3, <1>5 DEF OfOneStep
<1>6. CASE k > n /\ i <= n
  <2>1. i \in DOMAIN messages /\ messages[i].by = r /\ messages[i].step = loop[r].steps
    BY <1>1, <1>2, <1>3, <1>6 DEF OfOneStep
  <2>2. task[r] \in Holding
    BY <2>1 DEF MixInv, Numbered
  <2>3. n \in DOMAIN messages /\ messages[n].by = r /\ messages[n].step = loop[r].steps
    BY <1>1, <1>3, <1>6, <2>2 DEF MixInv, Numbered, n
  <2>4. CASE j > n
    BY <1>1, <1>2, <1>3, <1>6, <2>1, <2>4 DEF OfOneStep
  <2>5. CASE j <= n
    <3>1. j \in DOMAIN messages
      BY <1>1, <1>3, <2>5
    <3>2. OfOneStep(i, j)
      <4>1. CASE i < n
        <5>1. OfOneStep(i, n)
          BY <2>1, <2>3 DEF OfOneStep
        <5>2. j \in i..n
          BY <1>1, <1>3, <2>5
        <5> QED BY <2>1, <2>3, <4>1, <5>1, <5>2 DEF MixInv, StepsDoNotMix
      <4>2. CASE i = n
        <5>1. j = i
          BY <1>1, <1>3, <2>5, <4>2
        <5> QED BY <5>1 DEF OfOneStep
      <4> QED BY <1>1, <1>3, <1>6, <4>1, <4>2
    <3> QED BY <1>1, <1>2, <2>1, <3>1, <3>2 DEF OfOneStep
  <2> QED BY <1>1, <1>3, <2>4, <2>5
<1> QED BY <1>1, <1>3, <1>4, <1>5, <1>6

LEMMA ExtendedNumbered ==
  ASSUME MixInv, NEW r \in Runs, Extended(r), loop' = loop,
         task[r] \in Holding \/ Unpushed(r),
         ~Unpushed(r)',
         \A q \in Runs \ {r} : task'[q] = task[q] /\ reply'[q] = reply[q]
                               /\ task[q] \notin Holding
  PROVE  \A q \in Runs : Numbered(q)'
<1> DEFINE n == Len(messages)
<1>1. /\ n \in Nat /\ Len(messages') \in Nat /\ Len(messages') > n
      /\ DOMAIN messages = 1..n /\ DOMAIN messages' = 1..Len(messages')
  BY DEF MixInv, TypeInv, Types, Extended
<1>2. /\ \A m \in DOMAIN messages : messages'[m] = messages[m]
      /\ \A m \in DOMAIN messages' \ DOMAIN messages :
           messages'[m].by = r /\ messages'[m].step = loop[r].steps
  BY <1>1 DEF Extended
<1> HIDE DEF n
<1>3. loop[r].steps <= loop[r].steps
  BY DEF MixInv, TypeInv, Types
<1>4. Numbered(r)'
  <2>1. \A i \in DOMAIN messages' : messages'[i].by = r => messages'[i].step <= loop'[r].steps
    BY <1>2, <1>3 DEF MixInv, Numbered
  <2>2. messages' # <<>> /\ Len(messages') \in DOMAIN messages' \ DOMAIN messages
    BY <1>1
  <2> QED BY <1>2, <2>1, <2>2 DEF Numbered
<1>5. ASSUME NEW q \in Runs \ {r} PROVE Numbered(q)'
  <2>1. /\ \A i \in DOMAIN messages' : messages'[i].by = q => i \in DOMAIN messages
        /\ Numbered(q) /\ task'[q] = task[q] /\ reply'[q] = reply[q] /\ task[q] \notin Holding
    BY <1>2, <1>5 DEF MixInv
  <2> QED BY <1>2, <2>1 DEF Numbered, Unpushed
<1> QED BY <1>4, <1>5

\* What each kind of step pushes.
LEMMA PushCases ==
  ASSUME TypeInv, NEW r \in Runs,
         \/ StartStep(r) \/ Holds(r)
         \/ Ending(r) /\ \E kind \in {"answer", "client", "odd"} : Pushing(r, kind)
  PROVE  /\ Extended(r)
         /\ loop' = loop
         /\ task[r] \in Holding \/ Unpushed(r)
         /\ ~Unpushed(r)'
         /\ \A q \in Runs \ {r} : task'[q] = task[q] /\ reply'[q] = reply[q]
                                  /\ task[q] \notin Holding
<1>1. Types /\ task \in [Runs -> Tasks] /\ reply \in [Runs -> Replies]
  BY DEF TypeInv, Types
<1>2. \A q \in Runs \ {r} :
        (task[r] \in Holding \/ StartStep(r)) => task[q] \notin Holding
  BY OneCalls
<1>3. CASE StartStep(r)
  <2>1. loop[r].input \in MessageKinds /\ Push(r, loop[r].input)
    BY <1>1, <1>3 DEF StartStep, Types, MessageKinds
  <2>2. Extended(r)
    BY <1>1, <2>1, Extends
  <2>3. task[r] = "queued" /\ task' = [task EXCEPT ![r] = "calling"] /\ reply' = reply
        /\ loop' = loop
    BY <1>3 DEF StartStep, NodeStep, clientVars
  <2>4. task'[r] = "calling"
    BY <1>1, <2>3 DEF Tasks, Holding
  <2> QED BY <1>1, <1>2, <1>3, <2>2, <2>3, <2>4 DEF Unpushed
<1>4. CASE Holds(r)
  <2>1. Extended(r)
    BY <1>1, <1>4, GoingOn, Extends
  <2>2. /\ task[r] \in Holding /\ task'[r] \in Holding /\ reply' = reply /\ loop' = loop
        /\ \A q \in Runs \ {r} : task'[q] = task[q]
    BY <1>1, <1>4, GoingOn
  <2> QED BY <1>1, <1>2, <2>1, <2>2 DEF Unpushed, Holding
<1>5. ASSUME Ending(r), NEW kind \in {"answer", "client", "odd"}, Pushing(r, kind)
      PROVE  /\ Extended(r)
             /\ loop' = loop
             /\ task[r] \in Holding
             /\ ~Unpushed(r)'
             /\ \A q \in Runs \ {r} : task'[q] = task[q] /\ reply'[q] = reply[q]
                                      /\ task[q] \notin Holding
  <2>1. kind \in MessageKinds /\ Push(r, kind) /\ task[r] \in Holding
    BY <1>5 DEF Pushing, MessageKinds, Holding
  <2>2. Extended(r)
    BY <1>1, <2>1, Extends
  <2>3. PICK answer \in {"final", "toolCall", "error"} :
          /\ task' = [task EXCEPT ![r] = "none"]
          /\ reply' = [reply EXCEPT ![r] = IF @ = "sent" THEN answer ELSE @]
          /\ loop' = loop
    BY <1>5 DEF Ending, Ends
  <2>4. task'[r] = "none" /\ reply'[r] # "sent"
    BY <1>1, <2>3
  <2> QED BY <1>1, <1>2, <2>1, <2>2, <2>3, <2>4 DEF Unpushed
<1> QED BY <1>3, <1>4, <1>5

LEMMA NextMix == MixInv /\ [Next]_vars => MixInv'
<1> SUFFICES ASSUME MixInv, [Next]_vars PROVE MixInv'
  OBVIOUS
<1>1. TypeInv /\ TypeInv' /\ task \in [Runs -> Tasks] /\ reply \in [Runs -> Replies]
  BY NextTypes DEF MixInv, TypeInv, Types
<1>2. ASSUME NEW r \in Runs,
             \/ StartStep(r) \/ Holds(r)
             \/ Ending(r) /\ \E kind \in {"answer", "client", "odd"} : Pushing(r, kind)
      PROVE  MixInv'
  <2>1. /\ Extended(r) /\ loop' = loop /\ (task[r] \in Holding \/ Unpushed(r))
        /\ ~Unpushed(r)'
        /\ \A q \in Runs \ {r} : task'[q] = task[q] /\ reply'[q] = reply[q]
                                 /\ task[q] \notin Holding
    BY <1>1, <1>2, PushCases
  <2>2. StepsDoNotMix'
    BY <2>1, ExtendedNoMix
  <2>3. \A q \in Runs : Numbered(q)'
    BY <2>1, ExtendedNumbered
  <2> QED BY <1>1, <2>2, <2>3 DEF MixInv
\* Steps that push nothing and send nothing.
<1>3. ASSUME messages' = messages, loop' = loop,
             \A q \in Runs : /\ Unpushed(q)' => Unpushed(q)
                             /\ task'[q] \in Holding => task[q] \in Holding
      PROVE  MixInv'
  <2>1. StepsDoNotMix'
    BY <1>3 DEF MixInv, StepsDoNotMix, OfOneStep
  <2>2. \A q \in Runs : Numbered(q)'
    BY <1>3 DEF MixInv, Numbered
  <2> QED BY <1>1, <2>1, <2>2 DEF MixInv
<1>4. ASSUME NEW r \in Runs, LoopStep(r) PROVE MixInv'
  <2>1. messages' = messages /\ task' = task
    BY <1>4, ClientFrame
  <2>2. StepsDoNotMix'
    BY <2>1 DEF MixInv, StepsDoNotMix, OfOneStep
  <2>3. /\ \A q \in Runs \ {r} : loop'[q] = loop[q] /\ reply'[q] = reply[q]
        /\ \/ loop'[r].steps = loop[r].steps + 1 /\ task[r] = "none"
           \/ loop'[r].steps = loop[r].steps /\ (reply'[r] = "sent" => reply[r] = "sent")
    <3>1. ASSUME loop[r].phase = "matching", Sent(r, "prompt")
          PROVE  loop'[r].steps = loop[r].steps + 1 /\ task[r] = "none"
      BY <1>1, <3>1, SentMoved DEF TypeInv, Place
    <3>2. ASSUME loop[r].phase = "tool", Sent(r, "result")
          PROVE  loop'[r].steps = loop[r].steps + 1 /\ task[r] = "none"
      BY <1>1, <3>2, SentMoved DEF TypeInv, Place
    <3>3. ASSUME NEW phase \in LoopPhases, Moved(r, phase)
          PROVE  /\ \A q \in Runs \ {r} : loop'[q] = loop[q] /\ reply'[q] = reply[q]
                 /\ loop'[r].steps = loop[r].steps /\ (reply'[r] = "sent" => reply[r] = "sent")
      BY <1>1, <3>3, SentMoved
    <3>4. \/ loop[r].phase = "matching" /\ Sent(r, "prompt")
          \/ loop[r].phase = "tool" /\ Sent(r, "result")
          \/ \E phase \in LoopPhases : Moved(r, phase)
      BY <1>1, <1>4, ClientCases DEF LoopPhases
    <3>5. ASSUME Sent(r, "prompt") \/ Sent(r, "result")
          PROVE  \A q \in Runs \ {r} : loop'[q] = loop[q] /\ reply'[q] = reply[q]
      BY <1>1, <3>5, SentMoved
    <3> QED BY <3>1, <3>2, <3>3, <3>4, <3>5
  <2>4. ASSUME NEW q \in Runs PROVE Numbered(q)'
    <3>1. Numbered(q) /\ loop[q].steps \in Nat
      BY <1>1 DEF MixInv, TypeInv, Types
    <3>2. \A i \in DOMAIN messages : messages[i].step \in Nat
      <4>1. \A i \in DOMAIN messages : messages[i] \in Messages
        BY <1>1 DEF TypeInv, Types
      <4>2. \A m \in Messages : m.step \in Nat
        BY DEF Messages
      <4> QED BY <4>1, <4>2
    <3>3. CASE q # r
      BY <2>1, <2>3, <3>1, <3>3 DEF Numbered, Unpushed
    <3>4. CASE q = r /\ loop'[r].steps = loop[r].steps + 1 /\ task[r] = "none"
      BY <2>1, <3>1, <3>2, <3>4 DEF Numbered, Holding
    <3>5. CASE /\ q = r /\ loop'[r].steps = loop[r].steps
               /\ (reply'[r] = "sent" => reply[r] = "sent")
      BY <2>1, <3>1, <3>5 DEF Numbered, Unpushed
    <3> QED BY <2>3, <3>3, <3>4, <3>5
  <2> QED BY <1>1, <2>2, <2>4 DEF MixInv
<1>5. ASSUME NEW r \in Runs, Working(r) PROVE MixInv'
  <2>1. CASE Execute(r)
    <3>1. /\ reply[r] = "sent" /\ task[r] = "none" /\ reply' = reply
          /\ task' = [task EXCEPT ![r] = "checking"]
          /\ messages' = messages /\ loop' = loop
      BY <2>1 DEF Execute, clientVars
    <3> QED BY <1>1, <1>3, <3>1 DEF Unpushed, Holding
  <2>2. CASE WaitForLock(r)
    <3>1. /\ task[r] = "checking" /\ reply' = reply
          /\ task' = [task EXCEPT ![r] = "queued"]
          /\ messages' = messages /\ loop' = loop
      BY <2>2 DEF WaitForLock, NodeStep, clientVars
    <3> QED BY <1>1, <1>3, <3>1 DEF Unpushed, Holding
  <2> QED BY <1>2, <1>5, <2>1, <2>2 DEF Working
<1>6. ASSUME NEW r \in Runs, Ending(r),
             \/ UNCHANGED messages
             \/ \E kind \in {"answer", "client", "odd"} : Pushing(r, kind)
      PROVE  MixInv'
  <2>1. CASE UNCHANGED messages
    <3>1. PICK answer \in {"final", "toolCall", "error"} :
            /\ task' = [task EXCEPT ![r] = "none"]
            /\ reply' = [reply EXCEPT ![r] = IF @ = "sent" THEN answer ELSE @]
            /\ loop' = loop
      BY <1>6 DEF Ending, Ends
    <3>2. task'[r] = "none" /\ reply'[r] # "sent"
      BY <1>1, <3>1
    <3>3. \A q \in Runs \ {r} : task'[q] = task[q] /\ reply'[q] = reply[q]
      BY <1>1, <3>1
    <3> QED BY <1>3, <2>1, <3>1, <3>2, <3>3 DEF Unpushed, Holding
  <2> QED BY <1>2, <1>6, <2>1
<1>7. CASE Restart
  <2>1. messages' = <<>> /\ loop' = loop /\ task' = [q \in Runs |-> "none"]
    BY <1>7 DEF Restart, clientVars
  <2>2. StepsDoNotMix' /\ \A q \in Runs : Numbered(q)'
    BY <2>1 DEF StepsDoNotMix, Numbered, Holding
  <2> QED BY <1>1, <2>2 DEF MixInv
<1>8. CASE Snapshot \/ ReportArrives \/ Tick \/ UNCHANGED vars
  BY <1>1, <1>3, <1>8, ViewTypes DEF Unpushed
<1> QED BY <1>1, <1>4, <1>5, <1>6, <1>7, <1>8, StepCases

\* The steps that share a session keep their messages together, though each
\* waits for the provider and for tools (AgentRuntime::step).
THEOREM StepsKeepApart == Spec => []StepsDoNotMix
<1>1. Init => MixInv
  <2>1. Init => messages = <<>> /\ reply = [r \in Runs |-> "none"] /\ task = [r \in Runs |-> "none"]
    BY DEF Init
  <2> QED BY <2>1, InitTypes DEF MixInv, StepsDoNotMix, Numbered, Unpushed, Holding
<1>2. MixInv => StepsDoNotMix
  BY DEF MixInv
<1> QED BY <1>1, NextMix, <1>2, PTL DEF Spec

---------------------------------------------------------------------------
(* The order of the messages.                                              *)

Last == messages[Len(messages)].kind
WellOrdered ==
  /\ messages # <<>> => messages[1].kind = "prompt"
  /\ \A i \in 2..Len(messages) : Follows(messages[i - 1].kind, messages[i].kind)

\* A run that has the session for itself sends what the last message asks for.
InTurn(r) ==
  /\ WellOrdered
  /\ loop[r].phase = "matching" => messages = <<>>
  /\ Unpushed(r) =>
       IF loop[r].input = "prompt" THEN messages = <<>>
       ELSE messages # <<>> /\ Last = "client"
  /\ (loop[r].phase = "tool" \/ reply[r] = "toolCall") => messages # <<>> /\ Last = "client"
  /\ task[r] = "calling" =>
       messages # <<>> /\ Last \in {"prompt", "result", "results", "pause"}
  /\ task[r] = "tools" => messages # <<>> /\ Last = "node"

OrderInv ==
  /\ TypeInv
  /\ \A r \in Runs : (Own(r) /\ ~forgot) => InTurn(r)

LEMMA PushOrdered ==
  ASSUME Types, WellOrdered, NEW r \in Runs, NEW kind \in MessageKinds, Push(r, kind),
         IF messages = <<>> THEN kind = "prompt" ELSE Follows(Last, kind)
  PROVE  WellOrdered' /\ messages' # <<>> /\ Last' = kind
<1> DEFINE n == Len(messages)
<1>1. /\ messages' \in Seq(Messages) /\ Len(messages') = n + 1
      /\ \A i \in 1..n : messages'[i] = messages[i]
      /\ messages'[n + 1] = Message(r, kind)
  BY Pushed
<1>2. n \in Nat /\ (messages = <<>> <=> n = 0)
  BY DEF Types
<1>3. Message(r, kind).kind = kind
  BY DEF Message
<1>4. messages' # <<>> /\ Last' = kind
  BY <1>1, <1>2, <1>3 DEF Last
<1>5. messages'[1].kind = "prompt"
  BY <1>1, <1>2, <1>3 DEF WellOrdered
<1>6. ASSUME NEW i \in 2..Len(messages')
      PROVE  Follows(messages'[i - 1].kind, messages'[i].kind)
  <2>1. CASE i = n + 1
    <3>1. messages'[i - 1].kind = Last /\ messages'[i].kind = kind /\ messages # <<>>
      BY <1>1, <1>2, <1>3, <1>6, <2>1 DEF Last
    <3> QED BY <3>1
  <2>2. CASE i # n + 1
    <3>1. i \in 2..n /\ i - 1 \in 1..n /\ i \in 1..n
      BY <1>1, <1>2, <2>2
    <3>2. messages'[i - 1] = messages[i - 1] /\ messages'[i] = messages[i]
      BY <1>1, <3>1
    <3> QED BY <3>1, <3>2 DEF WellOrdered
  <2> QED BY <2>1, <2>2
<1> QED BY <1>4, <1>5, <1>6 DEF WellOrdered

\* A run is answered with a tool call only by the message that asks for it.
LEMMA ToolCallPushed ==
  ASSUME TypeInv, NEW r \in Runs,
         \/ Refuse(r) \/ Answers(r) \/ AsksClient(r) \/ AnswersOddly(r)
         \/ ProviderFails(r) \/ Dropped(r),
         reply'[r] = "toolCall"
  PROVE  Pushing(r, "client")
<1>1. reply \in [Runs -> Replies] /\ Place(r) /\ task \in [Runs -> Tasks]
  BY DEF TypeInv, Types
<1>2. ASSUME NEW answer \in {"final", "error"}, NEW status, Ends(r, status, answer),
             task[r] # "none"
      PROVE  FALSE
  BY <1>1, <1>2 DEF Ends, Place
<1>3. ~(Refuse(r) \/ Answers(r) \/ AnswersOddly(r) \/ ProviderFails(r) \/ Dropped(r))
  BY <1>2 DEF Refuse, Answers, AnswersOddly, ProviderFails, Dropped
<1> QED BY <1>3 DEF AsksClient, Pushing

LEMMA NextOrder == OrderInv /\ [Next]_vars => OrderInv'
<1> SUFFICES ASSUME OrderInv, [Next]_vars PROVE OrderInv'
  OBVIOUS
<1>1. /\ TypeInv /\ TypeInv' /\ Types
      /\ task \in [Runs -> Tasks] /\ reply \in [Runs -> Replies]
  BY NextTypes DEF OrderInv, TypeInv, Types
<1> SUFFICES ASSUME NEW r \in Runs, Own(r)', ~forgot' PROVE InTurn(r)'
  BY <1>1 DEF OrderInv
<1>2. Place(r)
  BY <1>1 DEF TypeInv
\* Steps that push nothing.
<1>3. ASSUME InTurn(r), messages' = messages, loop'[r] = loop[r],
             Unpushed(r)' => Unpushed(r),
             reply'[r] = "toolCall" => reply[r] = "toolCall",
             task'[r] \in Holding => task[r] = task'[r]
      PROVE  InTurn(r)'
  BY <1>3 DEF InTurn, WellOrdered, Last, Holding
<1>4. ASSUME users \subseteq users', forgot' = forgot PROVE InTurn(r)
  BY <1>4 DEF OrderInv, Own
<1>5. ASSUME NEW q \in Runs, LoopStep(q) PROVE InTurn(r)'
  <2>1. /\ messages' = messages /\ task' = task /\ users' = users /\ forgot' = forgot
        /\ InTurn(r)
    BY <1>4, <1>5, ClientFrame
  <2>2. CASE q # r
    <3>1. loop'[r] = loop[r] /\ reply'[r] = reply[r]
      <4>1. ASSUME Sent(q, "prompt") \/ Sent(q, "result")
            PROVE  loop'[r] = loop[r] /\ reply'[r] = reply[r]
        BY <1>1, <2>2, <4>1, SentMoved
      <4>2. ASSUME NEW phase \in LoopPhases, Moved(q, phase)
            PROVE  loop'[r] = loop[r] /\ reply'[r] = reply[r]
        BY <1>1, <2>2, <4>2, SentMoved
      <4>3. \/ Sent(q, "prompt") \/ Sent(q, "result")
            \/ \E phase \in LoopPhases : Moved(q, phase)
        BY <1>1, <1>5, ClientCases DEF LoopPhases
      <4> QED BY <4>1, <4>2, <4>3
    <3> QED BY <1>3, <2>1, <3>1 DEF Unpushed
  <2>3. CASE q = r
    <3>1. ASSUME loop[r].phase = "matching", Sent(r, "prompt") PROVE InTurn(r)'
      <4>1. /\ loop'[r].phase = "waiting" /\ loop'[r].input = "prompt"
            /\ reply'[r] = "sent" /\ task[r] = "none" /\ messages = <<>>
        BY <1>1, <1>2, <2>1, <3>1, SentMoved DEF InTurn, Place
      <4> QED BY <2>1, <4>1 DEF InTurn, WellOrdered, Unpushed
    <3>2. ASSUME loop[r].phase = "tool", Sent(r, "result") PROVE InTurn(r)'
      <4>1. /\ loop'[r].phase = "waiting" /\ loop'[r].input = "result"
            /\ reply'[r] = "sent" /\ task[r] = "none"
            /\ messages # <<>> /\ Last = "client"
        BY <1>1, <1>2, <2>1, <3>2, SentMoved DEF InTurn, Place
      <4> QED BY <2>1, <4>1 DEF InTurn, WellOrdered, Unpushed, Last
    <3>3. ASSUME NEW phase \in {"ended", "gone"}, Moved(r, phase) PROVE InTurn(r)'
      <4>1. loop'[r].phase = phase /\ loop'[r].input = loop[r].input /\ reply'[r] = "none"
        BY <1>1, <3>3, SentMoved DEF LoopPhases
      <4> QED BY <2>1, <4>1 DEF InTurn, WellOrdered, Unpushed, Last
    <3>4. ASSUME reply[r] \in {"final", "toolCall"}, Moved(r, "signing") PROVE InTurn(r)'
      <4>1. /\ loop'[r].phase = "signing" /\ loop'[r].input = loop[r].input
            /\ reply'[r] = reply[r]
        BY <1>1, <3>4, SentMoved DEF LoopPhases
      <4> QED BY <2>1, <4>1 DEF InTurn, WellOrdered, Unpushed, Last
    <3>5. ASSUME reply[r] = "toolCall", Moved(r, "tool") PROVE InTurn(r)'
      <4>1. /\ loop'[r].phase = "tool" /\ loop'[r].input = loop[r].input
            /\ reply'[r] = "none"
        BY <1>1, <3>5, SentMoved DEF LoopPhases
      <4> QED BY <2>1, <3>5, <4>1 DEF InTurn, WellOrdered, Unpushed, Last
    <3> QED BY <1>1, <1>5, <2>3, <3>1, <3>2, <3>3, <3>4, <3>5, ClientCases
  <2> QED BY <2>2, <2>3
<1>6. ASSUME NEW q \in Runs, Working(q) PROVE InTurn(r)'
  <2>1. users \subseteq users' /\ forgot' = forgot /\ InTurn(r)
    <3>1. users \subseteq users'
      BY <1>6, WorkingFrame DEF Execute
    <3> QED BY <1>4, <1>6, <3>1, WorkingFrame
  <2>2. q = r
    <3>1. CASE Execute(q)
      BY <3>1 DEF Execute, Own
    <3>2. CASE ~Execute(q)
      <4>1. task[q] # "none"
        BY <1>1, <1>6, <3>2, GoingOn DEF Working, WaitForLock, StartStep, Holding
      <4> QED BY <1>1, <2>1, <4>1 DEF TypeInv, Place, Own
    <3> QED BY <3>1, <3>2
  <2>3. loop' = loop /\ reply' = reply
    BY <1>6, WorkingFrame
  <2>4. CASE Execute(r)
    <3>1. /\ reply[r] = "sent" /\ task[r] = "none" /\ messages' = messages
          /\ task' = [task EXCEPT ![r] = "checking"]
      BY <2>4 DEF Execute
    <3> QED BY <1>1, <1>3, <2>1, <2>3, <3>1 DEF Unpushed, Holding
  <2>5. CASE WaitForLock(r)
    <3>1. /\ task[r] = "checking" /\ messages' = messages
          /\ task' = [task EXCEPT ![r] = "queued"]
      BY <2>5 DEF WaitForLock, NodeStep
    <3> QED BY <1>1, <1>3, <2>1, <2>3, <3>1 DEF Unpushed, Holding
  <2>6. CASE StartStep(r)
    <3>1. /\ task[r] = "queued" /\ task' = [task EXCEPT ![r] = "calling"]
          /\ Push(r, loop[r].input)
      BY <2>6 DEF StartStep
    <3>2. /\ loop[r].input \in {"prompt", "result"} /\ loop[r].input \in MessageKinds
          /\ loop[r].phase \in {"waiting", "ended", "gone"} /\ reply[r] # "toolCall"
          /\ task'[r] = "calling"
      BY <1>1, <1>2, <3>1 DEF Types, MessageKinds, Place
    <3>3. IF messages = <<>> THEN loop[r].input = "prompt" ELSE Follows(Last, loop[r].input)
      <4>1. CASE loop[r].input = "prompt"
        BY <2>1, <3>1, <4>1 DEF InTurn, Unpushed
      <4>2. CASE loop[r].input = "result"
        <5>1. messages # <<>> /\ Last = "client"
          BY <2>1, <3>1, <4>2 DEF InTurn, Unpushed
        <5> QED BY <4>2, <5>1 DEF Follows
      <4> QED BY <3>2, <4>1, <4>2
    <3>4. WellOrdered' /\ messages' # <<>> /\ Last' = loop[r].input
      BY <1>1, <2>1, <3>1, <3>2, <3>3, PushOrdered DEF InTurn
    <3> QED BY <2>3, <3>2, <3>4 DEF InTurn, Unpushed
  <2>7. CASE Holds(r)
    <3>1. /\ loop[r].phase \in {"waiting", "ended", "gone"} /\ reply[r] # "toolCall"
          /\ task[r] \in Holding /\ task'[r] \in Holding
      BY <1>1, <1>2, <2>7, GoingOn DEF Place, Holding
    <3>2. \/ /\ task[r] = "calling" /\ task'[r] = "tools" /\ Push(r, "node")
          \/ /\ task[r] = "tools" /\ task'[r] = "calling" /\ Push(r, "results")
          \/ /\ task[r] = "calling" /\ task'[r] = "calling" /\ Push(r, "pause")
      BY <1>1, <2>7 DEF Holds, RunsTools, ToolsReturn, Pauses
    <3>3. messages # <<>> /\ WellOrdered
      BY <2>1, <3>2 DEF InTurn
    <3>4. ASSUME NEW kind \in MessageKinds, Push(r, kind), Follows(Last, kind)
          PROVE  WellOrdered' /\ messages' # <<>> /\ Last' = kind
      BY <1>1, <3>3, <3>4, PushOrdered
    <3>5. CASE task[r] = "calling" /\ task'[r] = "tools" /\ Push(r, "node")
      <4>1. Follows(Last, "node") /\ "node" \in MessageKinds
        BY <2>1, <3>5 DEF InTurn, Follows, Assistant, MessageKinds
      <4> QED BY <2>3, <3>1, <3>4, <3>5, <4>1 DEF InTurn, Unpushed
    <3>6. CASE task[r] = "tools" /\ task'[r] = "calling" /\ Push(r, "results")
      <4>1. Follows(Last, "results") /\ "results" \in MessageKinds
        BY <2>1, <3>6 DEF InTurn, Follows, MessageKinds
      <4> QED BY <2>3, <3>1, <3>4, <3>6, <4>1 DEF InTurn, Unpushed
    <3>7. CASE task[r] = "calling" /\ task'[r] = "calling" /\ Push(r, "pause")
      <4>1. Follows(Last, "pause") /\ "pause" \in MessageKinds
        BY <2>1, <3>7 DEF InTurn, Follows, Assistant, MessageKinds
      <4> QED BY <2>3, <3>1, <3>4, <3>7, <4>1 DEF InTurn, Unpushed
    <3> QED BY <3>2, <3>5, <3>6, <3>7
  <2> QED BY <1>6, <2>2, <2>4, <2>5, <2>6, <2>7 DEF Working
<1>7. ASSUME NEW q \in Runs,
             \/ Refuse(q) \/ Answers(q) \/ AsksClient(q) \/ AnswersOddly(q)
             \/ ProviderFails(q) \/ Dropped(q)
      PROVE  InTurn(r)'
  <2>1. /\ Ending(q)
        /\ \/ UNCHANGED messages
           \/ \E kind \in {"answer", "client", "odd"} : Pushing(q, kind)
    BY <1>1, <1>7, EndingCases
  <2>2. PICK answer \in {"final", "toolCall", "error"} :
          /\ task[q] # "none" /\ task' = [task EXCEPT ![q] = "none"]
          /\ reply' = [reply EXCEPT ![q] = IF @ = "sent" THEN answer ELSE @]
          /\ loop' = loop /\ users' = users /\ forgot' = forgot
    BY <2>1 DEF Ending, Ends
  <2>3. q = r /\ InTurn(r)
    BY <1>1, <1>4, <2>2 DEF TypeInv, Place, Own
  <2>4. /\ task'[r] = "none" /\ reply'[r] # "sent"
        /\ loop[r].phase \in {"waiting", "ended", "gone"}
    BY <1>1, <1>2, <2>2, <2>3 DEF Place
  <2>5. reply'[r] = "toolCall" => Pushing(r, "client")
    BY <1>1, <1>7, <2>3, ToolCallPushed
  <2>6. ASSUME NEW kind \in {"answer", "client", "odd"}, Pushing(r, kind)
        PROVE  WellOrdered' /\ messages' # <<>> /\ Last' = kind
    <3>1. Push(r, kind) /\ task[r] = "calling" /\ kind \in MessageKinds
      BY <2>6 DEF Pushing, MessageKinds
    <3>2. messages # <<>> /\ Last \in {"prompt", "result", "results", "pause"} /\ WellOrdered
      BY <2>3, <3>1 DEF InTurn
    <3>3. Follows(Last, kind)
      BY <3>2 DEF Follows, Assistant
    <3> QED BY <1>1, <3>1, <3>2, <3>3, PushOrdered
  <2>7. WellOrdered'
    BY <2>1, <2>3, <2>6 DEF InTurn, WellOrdered
  <2>8. reply'[r] = "toolCall" => messages' # <<>> /\ Last' = "client"
    BY <2>5, <2>6
  <2> QED BY <2>2, <2>4, <2>7, <2>8 DEF InTurn, Unpushed
<1>8. CASE Restart
  <2>1. /\ task' = [q \in Runs |-> "none"] /\ messages' = <<>> /\ messages = <<>>
        /\ reply' = [q \in Runs |-> IF reply[q] = "sent" /\ task[q] # "none"
                                    THEN "error" ELSE reply[q]]
        /\ loop' = loop /\ users' = users /\ ~forgot
    BY <1>8 DEF Restart, clientVars
  <2>2. InTurn(r)
    BY <2>1 DEF OrderInv, Own
  <2>3. /\ task'[r] = "none"
        /\ reply'[r] = "sent" => reply[r] = "sent" /\ task[r] = "none"
        /\ reply'[r] = "toolCall" => reply[r] = "toolCall"
    BY <2>1
  <2> QED BY <2>1, <2>2, <2>3 DEF InTurn, Unpushed, WellOrdered
<1>9. CASE Snapshot \/ ReportArrives \/ Tick \/ UNCHANGED vars
  <2>1. UNCHANGED <<loop, task, messages, users, forgot, reply>>
    BY <1>1, <1>9, ViewTypes
  <2> QED BY <1>3, <1>4, <2>1 DEF Unpushed
<1> QED BY <1>5, <1>6, <1>7, <1>8, <1>9 DEF Next, ExecuteStep, Provider, Working, Holds

\* The provider is only called with a history it can take, in a session one
\* run uses and the node has not forgotten (AgentLoop::step, runAgentLoop).
THEOREM AlwaysInOrder == Spec => []AnsweredInOrder
<1>1. Init => OrderInv
  <2>1. Init => /\ messages = <<>>
                /\ \A r \in Runs : reply[r] = "none" /\ task[r] = "none" /\ loop[r].phase = "matching"
    BY DEF Init
  <2> QED BY <2>1, InitTypes DEF OrderInv, InTurn, WellOrdered, Unpushed
<1>2. OrderInv => AnsweredInOrder
  BY DEF OrderInv, InTurn, WellOrdered, AnsweredInOrder
<1> QED BY <1>1, NextOrder, <1>2, PTL DEF Spec

---------------------------------------------------------------------------
(* What the dashboard shows.                                               *)

\* A run that sends nothing more: it has ended, or its last answer is there.
Done(r) ==
  \/ loop[r].phase \in {"ended", "gone"}
  \/ loop[r].phase \in {"waiting", "signing"} /\ reply[r] \in {"final", "error"}

\* The node holds the session for ended, has said so, or is believed to.
OverKnown ==
  \/ record # NoRecord /\ record.ended # Live
  \/ Over \in logged
  \/ seen = Over

\* The dashboard's own record has an end only for a run that has one too.
ShownInv ==
  /\ shown \in [Local -> BOOLEAN]
  /\ \A r \in Local : shown[r] => loop[r].phase = "ended" \/ loop[r].refused

EndInv ==
  /\ TypeInv
  /\ \A r \in Runs : (Own(r) /\ OverKnown) => Done(r)
  /\ ShownInv

LEMMA ShownSteps ==
  ASSUME EndInv, NEW q \in Runs, LoopStep(q)
  PROVE  ShownInv'
<1>1. loop \in [Runs -> Loop] /\ shown \in [Local -> BOOLEAN] /\ Local \subseteq Runs
  BY SessionAssumption DEF EndInv, ShownInv, TypeInv, Types, Loop
\* One that keeps the record, of a run that has not ended.
<1>2. ASSUME shown' = shown, loop[q].phase # "ended",
             NEW l \in Loop, loop' = [loop EXCEPT ![q] = l], l.refused = loop[q].refused
      PROVE  ShownInv'
  BY <1>1, <1>2 DEF EndInv, ShownInv
\* One that puts an end in it.
<1>3. ASSUME Ended(q), NEW l \in Loop, loop' = [loop EXCEPT ![q] = l],
             l.phase = "ended" \/ l.refused
      PROVE  ShownInv'
  BY <1>1, <1>3 DEF EndInv, ShownInv, Ended
<1>4. loop[q] \in Loop
  BY <1>1
<1>5. \A phase \in LoopPhases :
        /\ [loop[q] EXCEPT !.phase = phase] \in Loop
        /\ [loop[q] EXCEPT !.phase = phase].phase = phase
        /\ [loop[q] EXCEPT !.phase = phase].refused = loop[q].refused
  BY <1>4 DEF Loop
<1>6. ASSUME NEW input \in {"prompt", "result"}, Send(q, input), shown' = shown,
             loop[q].phase # "ended"
      PROVE  ShownInv'
  <2> DEFINE l == [phase |-> "waiting", input |-> input,
                   steps |-> loop[q].steps + 1, refused |-> loop[q].refused]
  <2>1. l \in Loop /\ l.refused = loop[q].refused
    BY <1>4 DEF Loop, LoopPhases
  <2>2. loop' = [loop EXCEPT ![q] = l]
    BY <1>6 DEF Send
  <2> HIDE DEF l
  <2> QED BY <1>2, <1>6, <2>1, <2>2
<1>7. ASSUME NEW phase \in LoopPhases, Goes(q, phase), shown' = shown, loop[q].phase # "ended"
      PROVE  ShownInv'
  BY <1>2, <1>5, <1>7 DEF Goes
<1>8. ASSUME Goes(q, "ended"), Ended(q) PROVE ShownInv'
  <2>1. "ended" \in LoopPhases
    BY DEF LoopPhases
  <2> QED BY <1>3, <1>5, <1>8, <2>1 DEF Goes
<1>9. CASE Matched(q) \/ ToolEnds(q)
  BY <1>6, <1>9 DEF Matched, ToolEnds
<1>10. CASE NoMatch(q) \/ FetchFails(q)
  BY <1>8, <1>10 DEF NoMatch, FetchFails
<1>11. CASE ResponseArrives(q) \/ SignAck(q) \/ Leave(q)
  <2>1. \/ Goes(q, "ended") /\ Ended(q)
        \/ /\ \E phase \in LoopPhases : Goes(q, phase)
           /\ shown' = shown /\ loop[q].phase # "ended"
    BY <1>11 DEF ResponseArrives, SignAck, Leave, GoesOn, LoopPhases
  <2> QED BY <1>7, <1>8, <2>1
<1>12. CASE RefuseAck(q)
  <2> DEFINE l == [loop[q] EXCEPT !.refused = TRUE,
                                  !.phase = IF reply[q] = "final" THEN "ended" ELSE "tool"]
  <2>1. l \in Loop /\ l.refused
    BY <1>4 DEF Loop, LoopPhases
  <2>2. loop' = [loop EXCEPT ![q] = l] /\ Ended(q)
    BY <1>12 DEF RefuseAck
  <2> HIDE DEF l
  <2> QED BY <1>3, <2>1, <2>2
<1> QED BY <1>9, <1>10, <1>11, <1>12 DEF LoopStep

\* A step ends with its answer.
LEMMA EndingAnswers ==
  ASSUME TypeInv, NEW r \in Runs,
         \/ Refuse(r) \/ Answers(r) \/ AsksClient(r) \/ AnswersOddly(r)
         \/ ProviderFails(r) \/ Dropped(r)
  PROVE  \E e \in {<<"final", "final">>, <<"waiting-tool", "toolCall">>, <<"error", "error">>} :
           Ends(r, e[1], e[2])
<1>1. \/ Ends(r, "final", "final") \/ Ends(r, "waiting-tool", "toolCall")
      \/ Ends(r, "error", "error")
  BY DEF Refuse, Answers, AsksClient, AnswersOddly, ProviderFails, Dropped
<1> QED BY <1>1

LEMMA NextEnd == EndInv /\ [Next]_vars => EndInv'
<1> SUFFICES ASSUME EndInv, [Next]_vars PROVE EndInv'
  OBVIOUS
<1>1. /\ TypeInv /\ TypeInv' /\ Types
      /\ task \in [Runs -> Tasks] /\ reply \in [Runs -> Replies]
  BY NextTypes DEF EndInv, TypeInv, Types
<1>2. ASSUME NEW q \in Runs, LoopStep(q) PROVE EndInv'
  <2>1. ShownInv'
    BY <1>2, ShownSteps
  <2>2. users' = users /\ record' = record /\ logged' = logged /\ seen' = seen
    BY <1>2 DEF LoopStep, Matched, NoMatch, FetchFails, ResponseArrives, SignAck,
         RefuseAck, ToolEnds, Leave, ClientStep, nodeVars, pollVars
  <2>3. ASSUME NEW r \in Runs, Done(r) PROVE Done(r)'
    <3>1. CASE r # q
      <4>1. ASSUME Sent(q, "prompt") \/ Sent(q, "result")
            PROVE  loop'[r] = loop[r] /\ reply'[r] = reply[r]
        BY <1>1, <3>1, <4>1, SentMoved
      <4>2. ASSUME NEW phase \in LoopPhases, Moved(q, phase)
            PROVE  loop'[r] = loop[r] /\ reply'[r] = reply[r]
        BY <1>1, <3>1, <4>2, SentMoved
      <4>3. \/ Sent(q, "prompt") \/ Sent(q, "result")
            \/ \E phase \in LoopPhases : Moved(q, phase)
        BY <1>1, <1>2, ClientCases DEF LoopPhases
      <4> QED BY <2>3, <4>1, <4>2, <4>3 DEF Done
    <3>2. CASE r = q
      <4>1. \/ \E phase \in {"ended", "gone"} : Moved(r, phase)
            \/ reply[r] \in {"final", "error"} /\ Moved(r, "signing")
        BY <1>1, <1>2, <2>3, <3>2, ClientCases DEF Done
      <4>2. ASSUME NEW phase \in {"ended", "gone"}, Moved(r, phase) PROVE Done(r)'
        BY <1>1, <4>2, SentMoved DEF Done, LoopPhases
      <4>3. ASSUME reply[r] \in {"final", "error"}, Moved(r, "signing") PROVE Done(r)'
        BY <1>1, <4>3, SentMoved DEF Done, LoopPhases
      <4> QED BY <4>1, <4>2, <4>3
    <3> QED BY <3>1, <3>2
  <2> QED BY <1>1, <2>1, <2>2, <2>3 DEF EndInv, OverKnown, Own
\* Steps of the node, by what becomes known.
<1>3. ASSUME loop' = loop, shown' = shown, users \subseteq users',
             \A r \in Runs : reply[r] \in {"final", "error"} => reply'[r] = reply[r],
             OverKnown' => OverKnown
      PROVE  EndInv'
  <2>1. ShownInv'
    BY <1>3 DEF EndInv, ShownInv
  <2>2. \A r \in Runs : Done(r) => Done(r)'
    BY <1>3 DEF Done
  <2> QED BY <1>1, <1>3, <2>1, <2>2 DEF EndInv, Own
<1>4. ASSUME NEW q \in Runs, Working(q) PROVE EndInv'
  <2>1. /\ loop' = loop /\ shown' = shown /\ users \subseteq users'
        /\ reply' = reply /\ logged' = logged /\ seen' = seen
        /\ record' = record \/ record'.ended = Live
    BY <1>4 DEF Working, Holds, Execute, BeginStep, WaitForLock, StartStep, RunsTools,
         ToolsReturn, Pauses, NodeStep, clientVars, pollVars
  <2> QED BY <1>3, <2>1 DEF OverKnown
<1>5. ASSUME NEW q \in Runs,
             \/ Refuse(q) \/ Answers(q) \/ AsksClient(q) \/ AnswersOddly(q)
             \/ ProviderFails(q) \/ Dropped(q)
      PROVE  EndInv'
  <2>1. /\ Ending(q) /\ shown' = shown /\ logged' = logged /\ seen' = seen
    BY <1>1, <1>5, EndingCases DEF Refuse, Answers, AsksClient, AnswersOddly, ProviderFails,
       Dropped, NodeStep, clientVars, pollVars
  <2>2. PICK e \in {<<"final", "final">>, <<"waiting-tool", "toolCall">>, <<"error", "error">>} :
          Ends(q, e[1], e[2])
    BY <1>1, <1>5, EndingAnswers
  <2>3. /\ task[q] # "none" /\ loop' = loop /\ users' = users
        /\ reply' = [reply EXCEPT ![q] = IF @ = "sent" THEN e[2] ELSE @]
        /\ record' = IF record = NoRecord THEN NoRecord
                     ELSE [status |-> e[1],
                           ended |-> IF e[1] \in {"final", "error"} THEN 0 ELSE Live]
    BY <2>1, <2>2 DEF Ending, Ends, EndStep
  <2>4. CASE OverKnown' => OverKnown
    BY <1>1, <1>3, <2>1, <2>3, <2>4
  <2>5. CASE ~(OverKnown' => OverKnown)
    <3>1. e[2] \in {"final", "error"}
      BY <2>1, <2>3, <2>5 DEF OverKnown
    <3>2. Done(q)'
      <4>1. Place(q)
        BY <1>1 DEF TypeInv
      <4>2. reply[q] \in {"none", "sent"}
        BY <1>1, <2>3, <4>1 DEF Place, Replies
      <4>3. loop[q].phase \in {"ended", "gone"} \/ (loop[q].phase = "waiting" /\ reply[q] = "sent")
        BY <2>3, <4>1, <4>2 DEF Place
      <4>4. reply[q] = "sent" => reply'[q] = e[2]
        BY <1>1, <2>3
      <4> QED BY <2>3, <3>1, <4>3, <4>4 DEF Done
    <3>3. \A r \in Runs : Own(r)' => r = q
      BY <1>1, <2>3 DEF TypeInv, Place, Own
    <3>4. ShownInv'
      BY <2>1, <2>3 DEF EndInv, ShownInv
    <3> QED BY <1>1, <3>2, <3>3, <3>4 DEF EndInv
  <2> QED BY <2>4, <2>5
<1>6. CASE Restart
  <2>1. /\ loop' = loop /\ shown' = shown /\ users' = users /\ record' = NoRecord
        /\ logged' = logged /\ seen' = seen
        /\ reply' = [r \in Runs |-> IF reply[r] = "sent" /\ task[r] # "none"
                                    THEN "error" ELSE reply[r]]
    BY <1>6 DEF Restart, clientVars, pollVars
  <2> QED BY <1>3, <2>1 DEF OverKnown
<1>7. CASE Snapshot \/ ReportArrives \/ Tick \/ UNCHANGED vars
  <2>1. UNCHANGED <<loop, users, reply>>
    BY <1>1, <1>7, ViewTypes
  <2>2. shown' = shown
    BY <1>7 DEF Snapshot, ReportArrives, Tick, vars, clientVars
  <2>3. OverKnown' => OverKnown
    <3>1. CASE Snapshot
      BY <3>1, SessionAssumption DEF Snapshot, OverKnown
    <3>2. CASE ReportArrives
      BY <3>2, SessionAssumption DEF ReportArrives, OverKnown, nodeVars
    <3>3. CASE Tick
      BY <3>3 DEF Tick, OverKnown
    <3>4. CASE UNCHANGED vars
      BY <3>4 DEF vars, nodeVars, pollVars, OverKnown
    <3> QED BY <1>7, <3>1, <3>2, <3>3, <3>4
  <2> QED BY <1>3, <2>1, <2>2, <2>3
<1> QED BY <1>2, <1>4, <1>5, <1>6, <1>7 DEF Next, ExecuteStep, Provider, Working, Holds

\* A run that has its session for itself sends nothing more in any step from a
\* state in which the dashboard shows it as ended, unless its user refused a
\* signature (mergeSessions, runAgentLoop).  That it is still shown as ended
\* later is not said: a log that arrives late can turn the view back.
THEOREM EndsStayOver == Spec => EndedIsOver
<1> DEFINE Quiet ==
      \A r \in Local :
        (Own(r) /\ HasEnded(r) /\ ~loop[r].refused) => loop'[r].steps = loop[r].steps
<1>1. Init => EndInv
  <2>1. ASSUME Init PROVE ~OverKnown /\ ShownInv
    BY <2>1, SessionAssumption DEF Init, OverKnown, ShownInv
  <2> QED BY <2>1, InitTypes DEF EndInv
<1>2. EndInv /\ [Next]_vars => [Quiet]_vars
  <2> SUFFICES ASSUME EndInv, Next,
                      NEW r \in Local, Own(r), HasEnded(r), ~loop[r].refused
               PROVE  loop'[r].steps = loop[r].steps
    OBVIOUS
  <2>1. TypeInv /\ r \in Runs
    BY SessionAssumption DEF EndInv
  <2>2. Done(r)
    BY <2>1 DEF EndInv, HasEnded, OverKnown, ShownInv, Done
  <2>3. ASSUME NEW q \in Runs, LoopStep(q) PROVE loop'[r].steps = loop[r].steps
    <3>1. ASSUME NEW phase \in LoopPhases, Moved(q, phase)
          PROVE  loop'[r].steps = loop[r].steps
      BY <2>1, <3>1, SentMoved
    <3>2. ASSUME r # q, Sent(q, "prompt") \/ Sent(q, "result")
          PROVE  loop'[r].steps = loop[r].steps
      BY <2>1, <3>2, SentMoved
    <3>3. \/ \E phase \in LoopPhases : Moved(q, phase)
          \/ r # q /\ (Sent(q, "prompt") \/ Sent(q, "result"))
      BY <2>1, <2>2, <2>3, ClientCases DEF LoopPhases, Done
    <3> QED BY <3>1, <3>2, <3>3
  <2>4. CASE \A q \in Runs : ~LoopStep(q)
    <3>1. loop' = loop
      BY <2>1, <2>4, StepCases, WorkingFrame, ViewTypes DEF Ending, Restart, clientVars
    <3> QED BY <3>1
  <2> QED BY <2>3, <2>4
<1> QED BY <1>1, NextEnd, <1>2, PTL DEF Spec, EndedIsOver, Quiet
---------------------------------------------------------------------------
(***************************************************************************)
(* Which nodes are shown.  Everything is measured against steadyFor[n], how*)
(* long node n has been as it is: a poll that still tells the opposite, or *)
(* leaves n out, began before; an entry answered or made before is as old  *)
(* but for one fetch; and what the page shows is wrong no longer than until*)
(* the next poll has begun and ended.                                      *)
(***************************************************************************)
Age == 0..Settled
Liveness == [lastOk : Age \cup {Never}, firstSeen : Age]
Poll == [over : SUBSET Nodes, ups : SUBSET Nodes, downs : SUBSET Nodes, age : 0..MaxDelay]

ListTypes ==
  /\ up \subseteq Nodes /\ rawNodes \subseteq Nodes /\ alive \subseteq Nodes
  /\ live \in [Nodes -> Liveness \cup {NoEntry}]
  /\ polls \subseteq Poll /\ pollIn \in 0..Interval
  /\ steadyFor \in [Nodes -> Age]

\* Node n has been steady for no longer than bound when the next poll begins,
\* or when one that is under way began.
PolledBy(n, bound) ==
  \/ steadyFor[n] + pollIn <= bound + Interval
  \/ \E p \in polls : steadyFor[n] <= bound + Interval + p.age

\* The longest that an entry of a node that is down can count as alive.
AliveFor == MaxDelay + MaxOf(Grace, NewGrace + Interval)

DownKnown(n) ==
  /\ \A p \in polls : n \in p.ups \/ n \notin p.over => steadyFor[n] <= p.age
  /\ live[n] = NoEntry => steadyFor[n] + pollIn <= MaxDelay + Interval
  /\ live[n] # NoEntry =>
       IF live[n].lastOk = Never THEN steadyFor[n] <= MaxDelay + Interval + live[n].firstSeen
       ELSE steadyFor[n] <= MaxDelay + live[n].lastOk
  /\ n \in alive => PolledBy(n, AliveFor)

UpKnown(n) ==
  /\ \A p \in polls : n \in p.downs \/ n \notin p.over => steadyFor[n] <= p.age
  /\ n \notin alive => PolledBy(n, MaxDelay)

Known(n) ==
  /\ n \in rawNodes \ up => DownKnown(n)
  /\ n \in rawNodes \cap up => UpKnown(n)

ListInv == ListTypes /\ \A n \in Nodes : Known(n)

LEMMA ListConstants ==
  /\ Interval \in Nat /\ Grace \in Nat /\ NewGrace \in Nat /\ MaxDelay \in Nat /\ Settled \in Nat
  /\ Interval > 0
  /\ AliveFor \in Nat /\ AliveFor >= MaxDelay + Grace
  /\ AliveFor >= MaxDelay + NewGrace + Interval
  /\ GoneWithin = AliveFor + Interval + MaxDelay
  /\ ShownWithin = MaxDelay + Interval + MaxDelay
BY ListAssumption DEF AliveFor, GoneWithin, ShownWithin, MaxOf

LEMMA SoonEnough == \A a, b, c \in Nat : a <= c => 0 + a <= b + c
OBVIOUS

\* A node whose state has just changed.
LEMMA JustChanged ==
  ASSUME ListTypes', NEW n \in Nodes, steadyFor'[n] = 0
  PROVE  Known(n)'
<1>1. pollIn' \in Nat /\ pollIn' <= Interval /\ \A p \in polls' : p.age \in Nat
  BY ListConstants DEF ListTypes, Poll
<1>2. Interval \in Nat
  BY ListConstants
<1>3. ASSUME NEW bound \in Nat
      PROVE  PolledBy(n, bound)'
  <2>1. 0 + pollIn' <= bound + Interval
    BY <1>1, <1>2, SoonEnough
  <2> QED BY <2>1 DEF PolledBy
<1>4. \A p \in polls' : 0 <= p.age
  BY <1>1
<1>5. 0 + pollIn' <= MaxDelay + Interval
  BY <1>1, <1>2, ListConstants, SoonEnough
<1>6. live'[n] # NoEntry => IF live'[n].lastOk = Never
                            THEN 0 <= MaxDelay + Interval + live'[n].firstSeen
                            ELSE 0 <= MaxDelay + live'[n].lastOk
  <2>1. live'[n] # NoEntry => /\ live'[n].firstSeen \in Nat
                              /\ live'[n].lastOk \in Nat \cup {Never}
    BY ListConstants DEF ListTypes, Liveness, Age
  <2> QED BY <2>1, ListConstants
<1>7. DownKnown(n)'
  BY <1>3, <1>4, <1>5, <1>6, ListConstants DEF DownKnown
<1>8. UpKnown(n)'
  BY <1>3, <1>4, ListConstants DEF UpKnown
<1> QED BY <1>7, <1>8 DEF Known

LEMMA OlderFacts ==
  /\ \A age \in Age : /\ Older(age) \in Age /\ age <= Older(age) /\ Older(age) <= age + 1
                      /\ Older(age) = age + 1 \/ Older(age) = Settled
  /\ Older(Never) = Never
BY ListConstants, ListAssumption DEF Age, Older

LEMMA ListInitKnown == ListInit => ListInv
<1> SUFFICES ASSUME ListInit PROVE ListInv
  OBVIOUS
<1>1. ListTypes
  BY ListConstants DEF ListInit, ListTypes, Age
<1>2. \A n \in Nodes : Known(n)
  BY DEF ListInit, Known
<1> QED BY <1>1, <1>2 DEF ListInv

\* One lemma per step.
LEMMA FlipKnown ==
  ASSUME ListInv, NEW m \in Nodes, Flip(m)
  PROVE  ListInv'
<1> DEFINE Told(p) == [p EXCEPT !.ups = p.ups \cup ({m} \cap p.over),
                                !.downs = p.downs \cup ({m} \cap p.over)]
<1>1. /\ polls' = {Told(p) : p \in polls}
      /\ steadyFor' = [steadyFor EXCEPT ![m] = 0]
      /\ rawNodes' = rawNodes /\ live' = live /\ alive' = alive /\ pollIn' = pollIn
      /\ up' = IF m \in up THEN up \ {m} ELSE up \cup {m}
  BY DEF Flip
<1>2. ListTypes
  BY DEF ListInv
<1>3. \A p \in polls : /\ p \in Poll
                       /\ Told(p) \in Poll /\ Told(p).over = p.over /\ Told(p).age = p.age
                       /\ Told(p).ups \ {m} = p.ups \ {m} /\ Told(p).downs \ {m} = p.downs \ {m}
  BY <1>2 DEF ListTypes, Poll
<1> HIDE DEF Told
<1>4. ListTypes'
  <2>1. polls' \subseteq Poll
    BY <1>1, <1>3
  <2>2. steadyFor' \in [Nodes -> Age]
    BY <1>1, <1>2, ListConstants DEF ListTypes, Age
  <2> QED BY <1>1, <1>2, <2>1, <2>2 DEF ListTypes
<1>5. Known(m)'
  <2>1. steadyFor'[m] = 0
    BY <1>1, <1>2 DEF ListTypes
  <2> QED BY <1>4, <2>1, JustChanged
<1>6. ASSUME NEW n \in Nodes \ {m}
      PROVE  Known(n)'
  <2>1. /\ Known(n) /\ steadyFor'[n] = steadyFor[n]
        /\ n \in up' <=> n \in up
    BY <1>1, <1>2 DEF ListInv, ListTypes
  <2>2. \A bound : PolledBy(n, bound) => PolledBy(n, bound)'
    BY <1>1, <1>3, <2>1 DEF PolledBy
  <2>3. \A q \in polls' : \E p \in polls :
          /\ q.age = p.age /\ q.over = p.over
          /\ n \in q.ups <=> n \in p.ups
          /\ n \in q.downs <=> n \in p.downs
    BY <1>1, <1>3
  <2>4. n \in rawNodes \ up => DownKnown(n)'
    BY <1>1, <2>1, <2>2, <2>3 DEF Known, DownKnown
  <2>5. n \in rawNodes \cap up => UpKnown(n)'
    BY <1>1, <2>1, <2>2, <2>3 DEF Known, UpKnown
  <2> QED BY <1>1, <2>1, <2>4, <2>5 DEF Known
<1> QED BY <1>4, <1>5, <1>6 DEF ListInv

LEMMA ArrivesKnown ==
  ASSUME ListInv, NEW nodes \in SUBSET Nodes, ListArrives(nodes)
  PROVE  ListInv'
<1>1. /\ rawNodes' = nodes
      /\ steadyFor' = [n \in Nodes |->
           IF (n \in rawNodes) = (n \in nodes) THEN steadyFor[n] ELSE 0]
      /\ up' = up /\ live' = live /\ alive' = alive /\ polls' = polls /\ pollIn' = pollIn
  BY DEF ListArrives
<1>2. ListTypes
  BY DEF ListInv
<1>3. ListTypes'
  <2>1. \A n \in Nodes : steadyFor'[n] \in Age
    BY <1>1, <1>2, ListConstants DEF ListTypes, Age
  <2>2. steadyFor' \in [Nodes -> Age]
    BY <1>1, <2>1
  <2> QED BY <1>1, <1>2, <2>2 DEF ListTypes
<1>4. ASSUME NEW n \in Nodes
      PROVE  Known(n)'
  <2>1. CASE (n \in rawNodes) = (n \in nodes)
    <3>1. steadyFor'[n] = steadyFor[n] /\ (n \in rawNodes' <=> n \in rawNodes)
      BY <1>1, <2>1
    <3> QED BY <1>1, <3>1 DEF ListInv, Known, DownKnown, UpKnown, PolledBy
  <2>2. CASE (n \in rawNodes) # (n \in nodes)
    <3>1. steadyFor'[n] = 0
      BY <1>1, <2>2
    <3> QED BY <1>3, <3>1, JustChanged
  <2> QED BY <2>1, <2>2
<1> QED BY <1>3, <1>4 DEF ListInv

LEMMA PollKnown ==
  ASSUME ListInv, PollNodes
  PROVE  ListInv'
<1>1. /\ pollIn = 0 /\ pollIn' = Interval
      /\ live' = Seeded(rawNodes)
      /\ up' = up /\ rawNodes' = rawNodes /\ steadyFor' = steadyFor
  BY DEF PollNodes
<1>2. ListTypes
  BY DEF ListInv
<1> DEFINE poll == [over |-> rawNodes, ups |-> rawNodes \cap up,
                    downs |-> rawNodes \ up, age |-> 0]
           new == [lastOk |-> Never, firstSeen |-> 0]
<1>3. /\ rawNodes = {} => alive' = {} /\ polls' = polls
      /\ rawNodes # {} => alive' = alive /\ polls' = polls \cup {poll}
  BY DEF PollNodes
<1>4. poll \in Poll /\ new \in Liveness /\ new # NoEntry
  BY <1>2, ListConstants, ListAssumption DEF ListTypes, Poll, Liveness, Age
<1>5. \A n \in Nodes : live'[n] = IF n \in rawNodes /\ live[n] = NoEntry THEN new ELSE live[n]
  BY <1>1 DEF Seeded
<1>6. ListTypes'
  <2>1. live' \in [Nodes -> Liveness \cup {NoEntry}]
    BY <1>1, <1>2, <1>4 DEF Seeded, ListTypes
  <2>2. polls' \subseteq Poll /\ alive' \subseteq Nodes
    BY <1>2, <1>3, <1>4 DEF ListTypes
  <2>3. pollIn' \in 0..Interval
    BY <1>1, ListConstants
  <2> QED BY <1>1, <1>2, <2>1, <2>2, <2>3 DEF ListTypes
<1>7. ASSUME NEW n \in Nodes, n \in rawNodes
      PROVE  Known(n)'
  <2>1. /\ alive' = alive /\ polls' = polls \cup {poll}
        /\ steadyFor[n] \in Nat /\ Known(n)
        /\ poll.over = rawNodes /\ poll.ups = rawNodes \cap up /\ poll.downs = rawNodes \ up
        /\ poll.age = 0
    BY <1>2, <1>3, <1>7, ListConstants DEF ListInv, ListTypes, Age
  <2> HIDE DEF poll
  <2>2. \A bound \in Nat : PolledBy(n, bound) => PolledBy(n, bound)'
    <3> SUFFICES ASSUME NEW bound \in Nat, PolledBy(n, bound)
                 PROVE  \E p \in polls' : steadyFor[n] <= bound + Interval + p.age
      BY <1>1 DEF PolledBy
    <3>1. CASE steadyFor[n] + pollIn <= bound + Interval
      <4>1. steadyFor[n] <= bound + Interval + poll.age
        BY <1>1, <2>1, <3>1, ListConstants
      <4> QED BY <2>1, <4>1
    <3>2. CASE \E p \in polls : steadyFor[n] <= bound + Interval + p.age
      BY <2>1, <3>2
    <3> QED BY <3>1, <3>2 DEF PolledBy
  <2>3. n \in rawNodes \ up => DownKnown(n)'
    <3> SUFFICES ASSUME n \in rawNodes \ up PROVE DownKnown(n)'
      OBVIOUS
    <3>1. DownKnown(n)
      BY <2>1 DEF Known
    <3>2. \A p \in polls' : n \in p.ups \/ n \notin p.over => steadyFor'[n] <= p.age
      BY <1>1, <2>1, <3>1 DEF DownKnown
    <3>3. live'[n] # NoEntry
      BY <1>4, <1>5
    <3>4. IF live'[n].lastOk = Never
          THEN steadyFor[n] <= MaxDelay + Interval + live'[n].firstSeen
          ELSE steadyFor[n] <= MaxDelay + live'[n].lastOk
      <4>1. CASE live[n] = NoEntry
        <5>1. steadyFor[n] <= MaxDelay + Interval
          BY <1>1, <2>1, <3>1, <4>1, ListConstants DEF DownKnown
        <5>2. live'[n].lastOk = Never /\ live'[n].firstSeen = 0
          BY <1>5, <1>7, <4>1
        <5> QED BY <2>1, <5>1, <5>2, ListConstants
      <4>2. CASE live[n] # NoEntry
        BY <1>5, <3>1, <4>2 DEF DownKnown
      <4> QED BY <4>1, <4>2
    <3> QED BY <1>1, <2>1, <2>2, <3>1, <3>2, <3>3, <3>4, ListConstants DEF DownKnown
  <2>4. n \in rawNodes \cap up => UpKnown(n)'
    BY <1>1, <2>1, <2>2, ListConstants DEF Known, UpKnown
  <2> QED BY <1>1, <2>3, <2>4 DEF Known
<1>8. \A n \in Nodes : Known(n)'
  BY <1>1, <1>7 DEF Known
<1> QED BY <1>6, <1>8 DEF ListInv

\* What a poll brings of node n that it was over.
LEMMA ConcludedEntry ==
  ASSUME ListTypes, NEW over \in SUBSET Nodes, NEW ok \in SUBSET over, NEW n \in Nodes
  PROVE  /\ Concluded(over, ok)[n] \in Liveness \cup {NoEntry}
         /\ n \notin over => Concluded(over, ok)[n] = NoEntry
         /\ n \in ok => /\ Concluded(over, ok)[n] # NoEntry
                        /\ Concluded(over, ok)[n].lastOk = 0
         /\ n \in over \ ok => Concluded(over, ok)[n] = live[n]
<1> DEFINE first == [lastOk |-> 0, firstSeen |-> 0]
           again == [live[n] EXCEPT !.lastOk = 0]
<1>1. Concluded(over, ok)[n] = IF n \notin over THEN NoEntry
                               ELSE IF n \notin ok THEN live[n]
                               ELSE IF live[n] = NoEntry THEN first ELSE again
  BY DEF Concluded
<1>2. live[n] \in Liveness \cup {NoEntry} /\ 0 \in Age
  BY ListConstants DEF ListTypes, Age
<1>3. first \in Liveness /\ first.lastOk = 0
  BY <1>2 DEF Liveness
<1>4. live[n] # NoEntry => again \in Liveness /\ again.lastOk = 0
  BY <1>2 DEF Liveness
<1>5. NoEntry \notin Liveness
  BY ListConstants, ListAssumption DEF Liveness, Age
<1> HIDE DEF first, again
<1> QED BY <1>1, <1>2, <1>3, <1>4, <1>5

LEMMA ConcludeKnown ==
  ASSUME ListInv, NEW p \in polls, NEW ok \in SUBSET Nodes, Conclude(p, ok)
  PROVE  ListInv'
<1>1. /\ ok \subseteq p.ups /\ p.over \ ok \subseteq p.downs
      /\ polls' = polls \ {p}
      /\ live' = Concluded(p.over, ok)
      /\ alive' = {n \in p.over : live'[n] # NoEntry /\ IsAlive(live'[n])}
      /\ up' = up /\ rawNodes' = rawNodes /\ pollIn' = pollIn /\ steadyFor' = steadyFor
  BY DEF Conclude
<1>2. /\ ListTypes /\ p.over \in SUBSET Nodes /\ p.age \in Nat /\ p.age <= MaxDelay
      /\ pollIn \in Nat /\ pollIn <= Interval
  BY ListConstants DEF ListInv, ListTypes, Poll
<1>3. ok \cap p.over \in SUBSET p.over
      /\ Concluded(p.over, ok) = Concluded(p.over, ok \cap p.over)
  BY DEF Concluded
<1>4. \A n \in Nodes :
        /\ live'[n] \in Liveness \cup {NoEntry}
        /\ n \notin p.over => live'[n] = NoEntry
        /\ n \in ok \cap p.over => live'[n] # NoEntry /\ live'[n].lastOk = 0
        /\ n \in p.over \ ok => live'[n] = live[n]
  BY <1>1, <1>2, <1>3, ConcludedEntry
<1>5. ListTypes'
  <2>1. live' \in [Nodes -> Liveness \cup {NoEntry}]
    BY <1>1, <1>4 DEF Concluded
  <2> QED BY <1>1, <1>2, <2>1 DEF ListTypes
<1>6. ASSUME NEW n \in Nodes
      PROVE  Known(n)'
  <2>1. /\ Known(n) /\ steadyFor[n] \in Nat
        /\ live'[n] # NoEntry => /\ live'[n].lastOk \in Nat \cup {Never}
                                 /\ live'[n].firstSeen \in Nat
    BY <1>2, <1>4, ListConstants DEF ListInv, ListTypes, Liveness, Age
  <2>2. ASSUME NEW bound \in Nat, steadyFor[n] <= bound
        PROVE  PolledBy(n, bound)'
    <3>1. (steadyFor[n] + pollIn <= bound + Interval)'
      BY <1>1, <1>2, <2>1, <2>2, ListConstants
    <3> QED BY <3>1 DEF PolledBy
  <2>3. ASSUME n \in rawNodes \ up
        PROVE  DownKnown(n)'
    <3>1. DownKnown(n) /\ (n \in p.ups \/ n \notin p.over => steadyFor[n] <= MaxDelay)
      BY <1>2, <2>1, <2>3, ListConstants DEF Known, DownKnown
    <3>2. live'[n] = NoEntry => steadyFor[n] + pollIn <= MaxDelay + Interval
      <4>1. CASE n \notin p.over
        BY <1>2, <2>1, <3>1, <4>1, ListConstants
      <4>2. CASE n \in p.over
        BY <1>4, <3>1, <4>2 DEF DownKnown
      <4> QED BY <4>1, <4>2
    <3>3. live'[n] # NoEntry =>
            IF live'[n].lastOk = Never THEN steadyFor[n] <= MaxDelay + Interval + live'[n].firstSeen
            ELSE steadyFor[n] <= MaxDelay + live'[n].lastOk
      <4>1. CASE n \in ok \cap p.over
        <5>1. steadyFor[n] <= MaxDelay /\ live'[n].lastOk = 0
          BY <1>1, <1>4, <3>1, <4>1
        <5> QED BY <2>1, <5>1, ListConstants, ListAssumption
      <4>2. CASE n \in p.over \ ok
        BY <1>4, <3>1, <4>2 DEF DownKnown
      <4> QED BY <1>4, <4>1, <4>2
    <3>4. ASSUME n \in alive'
          PROVE  steadyFor[n] <= AliveFor
      <4>1. live'[n] # NoEntry /\ IsAlive(live'[n])
        BY <1>1, <3>4
      <4>2. CASE live'[n].lastOk = Never
        <5>1. /\ live'[n].firstSeen <= NewGrace
              /\ steadyFor[n] <= MaxDelay + Interval + live'[n].firstSeen
          BY <3>3, <4>1, <4>2 DEF IsAlive
        <5> QED BY <2>1, <4>1, <5>1, ListConstants
      <4>3. CASE live'[n].lastOk # Never
        <5>1. live'[n].lastOk <= Grace /\ steadyFor[n] <= MaxDelay + live'[n].lastOk
          BY <3>3, <4>1, <4>3 DEF IsAlive
        <5> QED BY <2>1, <4>1, <4>3, <5>1, ListConstants
      <4> QED BY <4>2, <4>3
    <3>5. n \in alive' => PolledBy(n, AliveFor)'
      BY <2>2, <3>4, ListConstants
    <3> QED BY <1>1, <3>1, <3>2, <3>3, <3>5, ListConstants DEF DownKnown
  <2>4. ASSUME n \in rawNodes \cap up
        PROVE  UpKnown(n)'
    <3>1. UpKnown(n) /\ (n \in p.downs \/ n \notin p.over => steadyFor[n] <= MaxDelay)
      BY <1>2, <2>1, <2>4, ListConstants DEF Known, UpKnown
    <3>2. n \notin alive' => steadyFor[n] <= MaxDelay
      <4>1. n \in ok \cap p.over => n \in alive'
        BY <1>1, <1>4, ListConstants, ListAssumption DEF IsAlive
      <4> QED BY <1>1, <3>1, <4>1
    <3>3. n \notin alive' => PolledBy(n, MaxDelay)'
      BY <2>2, <3>2, ListConstants
    <3> QED BY <1>1, <3>1, <3>3, ListConstants DEF UpKnown
  <2> QED BY <1>1, <2>3, <2>4 DEF Known
<1> QED BY <1>5, <1>6 DEF ListInv

LEMMA LaterSum ==
  \A s, t, p, q \in Nat :
    t <= s + 1 /\ q + 1 = p => t + q <= s + p /\ t + q \in Nat /\ s + p \in Nat
OBVIOUS

LEMMA TimePassesKnown ==
  ASSUME ListInv, TimePasses
  PROVE  ListInv'
<1> DEFINE Aged(p) == [p EXCEPT !.age = p.age + 1]
           Grown(n) == [lastOk |-> Older(live[n].lastOk), firstSeen |-> Older(live[n].firstSeen)]
<1>1. /\ pollIn > 0 /\ pollIn' = pollIn - 1
      /\ \A p \in polls : p.age < MaxDelay
      /\ polls' = {Aged(p) : p \in polls}
      /\ live' = [n \in Nodes |-> IF live[n] = NoEntry THEN NoEntry ELSE Grown(n)]
      /\ steadyFor' = [n \in Nodes |-> Older(steadyFor[n])]
      /\ up' = up /\ rawNodes' = rawNodes /\ alive' = alive
  BY DEF TimePasses
<1>2. ListTypes
  BY DEF ListInv
<1>3. \A p \in polls : /\ p.age \in Nat /\ Aged(p) \in Poll /\ Aged(p).age = p.age + 1
                       /\ Aged(p).ups = p.ups /\ Aged(p).downs = p.downs
                       /\ Aged(p).over = p.over
  BY <1>1, <1>2, ListConstants DEF ListTypes, Poll
<1>4. \A n \in Nodes : live[n] # NoEntry =>
        /\ live[n] \in Liveness
        /\ Grown(n) \in Liveness /\ Grown(n) # NoEntry
        /\ Grown(n).lastOk = Older(live[n].lastOk)
        /\ Grown(n).firstSeen = Older(live[n].firstSeen)
  <2> SUFFICES ASSUME NEW n \in Nodes, live[n] # NoEntry
               PROVE  /\ live[n] \in Liveness
                      /\ Grown(n) \in Liveness /\ Grown(n) # NoEntry
                      /\ Grown(n).lastOk = Older(live[n].lastOk)
                      /\ Grown(n).firstSeen = Older(live[n].firstSeen)
    OBVIOUS
  <2>1. live[n] \in Liveness
    BY <1>2 DEF ListTypes
  <2>2. Grown(n) \in Liveness
    BY <2>1, OlderFacts DEF Liveness
  <2>3. NoEntry \notin Liveness
    BY ListConstants, ListAssumption DEF Liveness, Age
  <2> QED BY <2>1, <2>2, <2>3
<1> HIDE DEF Aged, Grown
<1>5. ListTypes'
  <2>1. polls' \subseteq Poll /\ pollIn' \in 0..Interval
    BY <1>1, <1>2, <1>3, ListConstants DEF ListTypes
  <2>2. live' \in [Nodes -> Liveness \cup {NoEntry}]
    BY <1>1, <1>4
  <2>3. steadyFor' \in [Nodes -> Age]
    BY <1>1, <1>2, OlderFacts DEF ListTypes
  <2> QED BY <1>1, <1>2, <2>1, <2>2, <2>3 DEF ListTypes
<1>6. ASSUME NEW n \in Nodes
      PROVE  Known(n)'
  <2>1. /\ Known(n) /\ steadyFor[n] \in Nat /\ steadyFor'[n] \in Nat
        /\ steadyFor'[n] <= steadyFor[n] + 1 /\ steadyFor'[n] <= Settled
        /\ pollIn \in Nat /\ pollIn' \in Nat /\ pollIn' + 1 = pollIn
    BY <1>1, <1>2, <1>5, OlderFacts, ListConstants DEF ListInv, ListTypes, Age
  <2> DEFINE sum == steadyFor[n] + pollIn
             later == steadyFor'[n] + pollIn'
  <2>2. later <= sum /\ later \in Nat /\ sum \in Nat
    BY <2>1, LaterSum
  <2> HIDE DEF sum, later
  <2>3. ASSUME NEW p \in polls, NEW bound \in Nat, steadyFor[n] <= bound + p.age
        PROVE  steadyFor'[n] <= bound + Aged(p).age
    BY <1>3, <2>1, <2>3
  <2>4. \A p \in polls : steadyFor[n] <= p.age => steadyFor'[n] <= Aged(p).age
    BY <1>3, <2>1
  <2>5. \A bound \in Nat : PolledBy(n, bound) => PolledBy(n, bound)'
    <3> SUFFICES ASSUME NEW bound \in Nat, PolledBy(n, bound)
                 PROVE  PolledBy(n, bound)'
      OBVIOUS
    <3>1. bound + Interval \in Nat
      BY ListConstants
    <3>2. CASE steadyFor[n] + pollIn <= bound + Interval
      <4>1. later <= bound + Interval
        BY <2>2, <3>1, <3>2 DEF sum
      <4> QED BY <4>1 DEF PolledBy, later
    <3>3. CASE \E p \in polls : steadyFor[n] <= bound + Interval + p.age
      <4>1. \E p \in polls' : steadyFor'[n] <= bound + Interval + p.age
        BY <1>1, <2>3, <3>1, <3>3
      <4> QED BY <4>1 DEF PolledBy
    <3> QED BY <3>2, <3>3 DEF PolledBy
  <2>6. ASSUME n \in rawNodes \ up
        PROVE  DownKnown(n)'
    <3>1. DownKnown(n)
      BY <2>1, <2>6 DEF Known
    <3>2. \A p \in polls' : n \in p.ups \/ n \notin p.over => steadyFor'[n] <= p.age
      BY <1>1, <1>3, <2>4, <3>1 DEF DownKnown
    <3>3. live'[n] = NoEntry => steadyFor'[n] + pollIn' <= MaxDelay + Interval
      <4>1. live'[n] = NoEntry => steadyFor[n] + pollIn <= MaxDelay + Interval
        BY <1>1, <1>4, <3>1 DEF DownKnown
      <4>2. MaxDelay + Interval \in Nat
        BY ListConstants
      <4>3. live'[n] = NoEntry => later <= MaxDelay + Interval
        BY <2>2, <4>1, <4>2 DEF sum
      <4> QED BY <4>3 DEF later
    <3>4. ASSUME live'[n] # NoEntry
          PROVE  IF live'[n].lastOk = Never
                 THEN steadyFor'[n] <= MaxDelay + Interval + live'[n].firstSeen
                 ELSE steadyFor'[n] <= MaxDelay + live'[n].lastOk
      <4>1. /\ live[n] # NoEntry /\ live'[n] = Grown(n)
            /\ live'[n].lastOk = Older(live[n].lastOk)
            /\ live'[n].firstSeen = Older(live[n].firstSeen)
            /\ live[n].firstSeen \in Age /\ live[n].lastOk \in Age \cup {Never}
        BY <1>1, <1>4, <3>4 DEF Liveness
      <4>2. CASE live[n].lastOk = Never
        <5>1. steadyFor[n] <= MaxDelay + Interval + live[n].firstSeen
          BY <3>1, <4>1, <4>2 DEF DownKnown
        <5>2. /\ live[n].firstSeen \in Nat /\ live'[n].firstSeen \in Nat
              /\ live'[n].firstSeen = live[n].firstSeen + 1 \/ live'[n].firstSeen = Settled
          BY <4>1, OlderFacts, ListConstants DEF Age
        <5>3. live'[n].lastOk = Never
          BY <4>1, <4>2, OlderFacts
        <5> QED BY <2>1, <5>1, <5>2, <5>3, ListConstants
      <4>3. CASE live[n].lastOk # Never
        <5>1. steadyFor[n] <= MaxDelay + live[n].lastOk
          BY <3>1, <4>1, <4>3 DEF DownKnown
        <5>2. /\ live[n].lastOk \in Nat /\ live'[n].lastOk \in Nat
              /\ live'[n].lastOk = live[n].lastOk + 1 \/ live'[n].lastOk = Settled
          BY <4>1, <4>3, OlderFacts, ListConstants DEF Age
        <5>3. live'[n].lastOk # Never
          BY <5>2, ListAssumption
        <5> QED BY <2>1, <5>1, <5>2, <5>3, ListConstants
      <4> QED BY <4>2, <4>3
    <3>5. n \in alive' => PolledBy(n, AliveFor)'
      BY <1>1, <2>5, <3>1, ListConstants DEF DownKnown
    <3> QED BY <3>2, <3>3, <3>4, <3>5, ListConstants DEF DownKnown
  <2>7. ASSUME n \in rawNodes \cap up
        PROVE  UpKnown(n)'
    <3>1. UpKnown(n)
      BY <2>1, <2>7 DEF Known
    <3>2. \A p \in polls' : n \in p.downs \/ n \notin p.over => steadyFor'[n] <= p.age
      BY <1>1, <1>3, <2>4, <3>1 DEF UpKnown
    <3>3. n \notin alive' => PolledBy(n, MaxDelay)'
      BY <1>1, <2>5, <3>1, ListConstants DEF UpKnown
    <3> QED BY <3>2, <3>3, ListConstants DEF UpKnown
  <2> QED BY <1>1, <2>6, <2>7 DEF Known
<1> QED BY <1>5, <1>6 DEF ListInv

LEMMA ListNextKnown == ListInv /\ [ListNext]_listVars => ListInv'
<1>1. ASSUME ListInv, UNCHANGED listVars
      PROVE  ListInv'
  BY <1>1 DEF listVars, ListInv, ListTypes, Known, DownKnown, UpKnown, PolledBy
<1> QED BY <1>1, FlipKnown, ArrivesKnown, PollKnown, ConcludeKnown, TimePassesKnown DEF ListNext

LEMMA ListInvariant == ListSpec => []ListInv
<1> QED BY ListInitKnown, ListNextKnown, PTL DEF ListSpec

\* What was last polled of a steady node has been concluded after a while.
LEMMA PolledInTime ==
  ASSUME ListInv, NEW n \in Nodes, NEW bound \in Nat, PolledBy(n, bound)
  PROVE  steadyFor[n] <= bound + Interval + MaxDelay
<1>1. /\ steadyFor[n] \in Nat /\ pollIn \in Nat
      /\ \A p \in polls : p.age \in Nat /\ p.age <= MaxDelay
  BY ListConstants DEF ListInv, ListTypes, Poll, Age
<1>2. bound + Interval \in Nat
  BY ListConstants
<1> QED BY <1>1, <1>2, ListConstants DEF PolledBy

\* For any number of nodes, any grace periods and any delay of a fetch: a
\* node that is down and still listed leaves the canvas within GoneWithin,
\* whichever polls overlap, answer late or are over an older list
\* (useNodeActivity.ts: poll; Dashboard.tsx: nodes).
THEOREM DeadNodesAlwaysGo == ListSpec => []DeadNodesGo
<1>1. ListInv => DeadNodesGo
  <2> SUFFICES ASSUME ListInv, NEW n \in Nodes, n \in rawNodes \ up, n \in alive
               PROVE  ~(steadyFor[n] > GoneWithin)
    BY DEF DeadNodesGo, Canvas
  <2>1. steadyFor[n] \in Nat
    BY ListConstants DEF ListInv, ListTypes, Age
  <2>2. steadyFor[n] <= AliveFor + Interval + MaxDelay
    BY PolledInTime, ListConstants DEF ListInv, Known, DownKnown
  <2> QED BY <2>1, <2>2, ListConstants
<1> QED BY <1>1, ListInvariant, PTL

\* And one that runs and is listed is on the canvas from ShownWithin on: no
\* late answer of an older poll takes it off again.
THEOREM RunningNodesAlwaysShown == ListSpec => []RunningNodesShown
<1>1. ListInv => RunningNodesShown
  <2> SUFFICES ASSUME ListInv, NEW n \in Nodes, n \in rawNodes \cap up, n \notin alive
               PROVE  ~(steadyFor[n] > ShownWithin)
    BY DEF RunningNodesShown, Canvas
  <2>1. steadyFor[n] \in Nat
    BY ListConstants DEF ListInv, ListTypes, Age
  <2>2. steadyFor[n] <= MaxDelay + Interval + MaxDelay
    BY PolledInTime, ListConstants DEF ListInv, Known, UpKnown
  <2> QED BY <2>1, <2>2, ListConstants
<1> QED BY <1>1, ListInvariant, PTL
=============================================================================
