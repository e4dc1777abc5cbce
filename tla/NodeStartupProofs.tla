-------------------------- MODULE NodeStartupProofs --------------------------
(***************************************************************************)
(* Proofs about NodeStartup, for any number of processes, identity files,  *)
(* keys and starts.                                                        *)
(***************************************************************************)
EXTENDS NodeStartup, SequenceTheorems, TLAPS

Calls == {"approve", "register"}
Outs == {"pending", "success", "reverted"}
Tx == [call : Calls, out : Outs]

(***************************************************************************)
(* Types.  A key is known to whoever saves it or runs with it, a copy has  *)
(* something to copy, what is loaded is there, and a task waits for a      *)
(* transaction it has sent.                                                *)
(***************************************************************************)
Known(p) ==
  /\ phase[p] \in {"saving", "up"} => key[p] \in Keys
  /\ phase[p] = "copying" => legacy # Absent
  /\ phase[p] = "loading" => Here(p) # Absent

Sends(p) ==
  task[p].at = "waiting" =>
    /\ task[p].nonce < Len(chain[key[p]])
    /\ chain[key[p]][task[p].nonce + 1].call = task[p].call

TypeInv ==
  /\ TypeOK
  /\ \A p \in Procs : Known(p)
  /\ \A p \in Procs : Sends(p)

\* What a transaction that is mined leaves of its account's others.
WithOut(s, i, o) == [s EXCEPT ![i].out = o]

LEMMA OutOf ==
  ASSUME NEW s \in Seq(Tx), NEW i \in 1..Len(s), NEW o \in Outs
  PROVE  /\ WithOut(s, i, o) \in Seq(Tx) /\ Len(WithOut(s, i, o)) = Len(s)
         /\ \A j \in 1..Len(s) : WithOut(s, i, o)[j].call = s[j].call
         /\ \A j \in 1..Len(s) \ {i} : WithOut(s, i, o)[j] = s[j]
         /\ WithOut(s, i, o)[i].out = o
<1> DEFINE e == [s[i] EXCEPT !.out = o]
           t == [s EXCEPT ![i] = e]
<1>1. s[i] \in Tx
  OBVIOUS
<1>2. e \in Tx /\ e.call = s[i].call /\ e.out = o
  BY <1>1 DEF Tx
<1>3. WithOut(s, i, o) = t
  BY DEF WithOut
<1> HIDE DEF e
<1>4. t \in Seq(Tx) /\ Len(t) = Len(s)
  BY <1>2, ExceptSeq
<1>5. t[i] = e /\ \A j \in 1..Len(s) \ {i} : t[j] = s[j]
  BY <1>2, ExceptSeq
<1> HIDE DEF t
<1> QED BY <1>2, <1>3, <1>4, <1>5

LEMMA Sent ==
  ASSUME NEW s \in Seq(Tx), NEW x \in Tx
  PROVE  /\ Append(s, x) \in Seq(Tx) /\ Len(Append(s, x)) = Len(s) + 1
         /\ \A j \in 1..Len(s) : Append(s, x)[j] = s[j]
         /\ Append(s, x)[Len(s) + 1] = x
OBVIOUS

LEMMA InitTypeInv == Init => TypeInv
BY StartupAssumption DEF Init, TypeInv, TypeOK, Known, Sends, Idle, Startup, Here

\* Only SendRaw makes a task wait.
LEMMA SendsFrame ==
  ASSUME TypeInv, chain' = chain,
         \A p \in Procs : task'[p].at = "waiting" =>
                            task'[p] = task[p] /\ key'[p] = key[p]
  PROVE  \A p \in Procs : Sends(p)'
BY DEF TypeInv, Sends

\* The steps of a start.
LEMMA StartTypes ==
  ASSUME TypeInv, NEW p \in Procs,
         Start(p) \/ Migrate(p) \/ CopyEnds(p) \/ Look(p) \/ SaveEnds(p)
           \/ Load(p) \/ Crash(p)
  PROVE  TypeOK' /\ \A q \in Procs : Known(q)'
<1> USE StartupAssumption DEF TypeInv, TypeOK, Known, Here, Goes, Startup, Under
<1>1. CASE Start(p)
  BY <1>1 DEF Start, disk, money
<1>2. CASE Migrate(p)
  <2>1. TypeOK'
    BY <1>2 DEF Migrate, past, money
  <2>2. Here(p)' = IF Here(p) = Absent /\ legacy # Absent THEN Torn ELSE Here(p)
    BY <1>2 DEF Migrate
  <2>3. \A q \in Procs : Here(q) # Absent => Here(q)' # Absent
    BY <1>2 DEF Migrate
  <2> QED BY <1>2, <2>1, <2>2, <2>3 DEF Migrate
<1>3. CASE CopyEnds(p)
  BY <1>3 DEF CopyEnds, past, money
<1>4. CASE Look(p)
  <2>1. CASE Here(p) # Absent
    BY <1>4, <2>1 DEF Look, money
  <2>2. CASE Here(p) = Absent
    <3>1. PICK k \in Keys \ made : key' = [key EXCEPT ![p] = k] /\ made' = made \cup {k}
      BY <1>4, <2>2 DEF Look, SaveBegins
    <3>2. /\ phase[p] = "looking" /\ phase' = [phase EXCEPT ![p] = "saving"]
          /\ file' = [file EXCEPT ![path[p]] = Torn]
          /\ UNCHANGED <<path, legacy, task, money, raced, cut, starts, tries>>
      BY <1>4, <2>2 DEF Look, SaveBegins
    <3>3. TypeOK'
      BY <3>1, <3>2 DEF money
    <3>4. \A q \in Procs : Here(q) # Absent => Here(q)' # Absent
      BY <3>2
    <3> QED BY <3>1, <3>2, <3>3, <3>4
  <2> QED BY <2>1, <2>2
<1>5. CASE SaveEnds(p)
  <2>1. /\ phase[p] = "saving" /\ Runs(p, key[p])
        /\ file' = [file EXCEPT ![path[p]] = key[p]]
        /\ UNCHANGED <<path, legacy, money, made, raced, cut, starts>>
    BY <1>5 DEF SaveEnds
  <2>2. key[p] \in Keys
    BY <2>1
  <2>3. [Idle EXCEPT !.at = "asking"] = [at |-> "asking", call |-> "approve", nonce |-> 0]
    BY DEF Idle
  <2>4. /\ phase' = [phase EXCEPT ![p] = "up"] /\ key' = [key EXCEPT ![p] = key[p]]
        /\ task' = [task EXCEPT ![p] = [at |-> "asking", call |-> "approve", nonce |-> 0]]
        /\ tries' = [tries EXCEPT ![key[p]] = @ + 1]
    BY <2>1, <2>3 DEF Runs
  <2>5. TypeOK'
    BY <2>1, <2>2, <2>4 DEF money
  <2>6. ASSUME NEW q \in Procs PROVE Known(q)'
    BY <2>1, <2>2, <2>4
  <2> QED BY <2>5, <2>6
<1>6. CASE Load(p)
  <2>1. CASE Here(p) = Torn
    <3>1. /\ phase[p] = "loading" /\ phase' = [phase EXCEPT ![p] = "unreadable"]
          /\ UNCHANGED <<path, legacy, file, key, task, money, made, raced, cut, starts, tries>>
      BY <1>6, <2>1 DEF Load, disk
    <3>2. TypeOK'
      BY <3>1 DEF money
    <3> QED BY <3>1, <3>2
  <2>2. CASE Here(p) # Torn
    <3>1. Here(p) \in Keys
      BY <1>6, <2>2 DEF Load
    <3>2. /\ phase' = [phase EXCEPT ![p] = "up"] /\ key' = [key EXCEPT ![p] = Here(p)]
          /\ UNCHANGED <<path, legacy, file>>
      BY <1>6, <2>2 DEF Load, Runs, disk
    <3>3. /\ task' = [task EXCEPT ![p] = [at |-> "asking", call |-> "approve", nonce |-> 0]]
          /\ tries' = [tries EXCEPT ![Here(p)] = @ + 1]
          /\ UNCHANGED <<money, made, raced, cut, starts>>
      BY <1>6, <2>2 DEF Load, Runs, Idle
    <3>4. /\ tries' \in [Keys -> Nat]
          /\ task' \in [Procs -> [at : Under \cup {"idle", "skipped", "registered", "failed"},
                                  call : {"approve", "register"}, nonce : Nat]]
      BY <3>1, <3>3
    <3>5. \A q \in Procs : task'[q].at # "idle" <=> phase'[q] = "up"
      BY <3>2, <3>3
    <3>6. TypeOK'
      BY <3>1, <3>2, <3>3, <3>4, <3>5 DEF money
    <3>7. ASSUME NEW q \in Procs PROVE Known(q)'
      BY <3>1, <3>2
    <3> QED BY <3>6, <3>7
  <2> QED BY <2>1, <2>2
<1>7. CASE Crash(p)
  BY <1>7 DEF Crash, Idle, disk, money
<1> QED BY <1>1, <1>2, <1>3, <1>4, <1>5, <1>6, <1>7

LEMMA StartSends ==
  ASSUME TypeInv, NEW p \in Procs,
         Start(p) \/ Migrate(p) \/ CopyEnds(p) \/ Look(p) \/ SaveEnds(p)
           \/ Load(p) \/ Crash(p)
  PROVE  \A q \in Procs : Sends(q)'
<1>1. chain' = chain
  BY DEF Start, Migrate, CopyEnds, Look, SaveEnds, Load, Crash, money
<1>2. ASSUME NEW q \in Procs, task'[q].at = "waiting"
      PROVE  task'[q] = task[q] /\ key'[q] = key[q]
  <2>1. CASE UNCHANGED <<task, key>>
    BY <2>1
  <2>2. CASE Look(p) /\ ~UNCHANGED <<task, key>>
    <3>1. task' = task /\ phase[p] = "looking" /\ key' = [key EXCEPT ![p] = key'[p]]
      BY <2>2 DEF Look, SaveBegins, TypeInv, TypeOK
    <3>2. task[p].at # "waiting"
      BY <3>1 DEF TypeInv, TypeOK
    <3> QED BY <1>2, <3>1, <3>2 DEF TypeInv, TypeOK
  <2>3. CASE /\ SaveEnds(p) \/ Load(p) \/ Crash(p)
             /\ ~UNCHANGED <<task, key>>
    <3>1. /\ task' = [task EXCEPT ![p] = task'[p]] /\ task'[p].at \in {"asking", "idle"}
          /\ key' = [key EXCEPT ![p] = key'[p]]
      BY <2>3 DEF SaveEnds, Load, Runs, Crash, Idle, TypeInv, TypeOK
    <3> QED BY <1>2, <3>1 DEF TypeInv, TypeOK
  <2> QED BY <2>1, <2>2, <2>3 DEF Start, Migrate, CopyEnds
<1> QED BY <1>1, <1>2, SendsFrame

LEMMA OperatorTypes ==
  ASSUME TypeInv, (\E d \in Paths : Remove(d)) \/ (\E k \in Keys : Fund(k))
  PROVE  TypeInv'
<1> USE StartupAssumption
<1>1. UNCHANGED <<chain, task, key, phase, past, allowed, active, path, legacy>>
  BY DEF Remove, Fund, past, disk, money
<1>2. TypeOK'
  BY <1>1 DEF Remove, Fund, TypeInv, TypeOK, Startup, Under, past, disk, money
<1>3. \A p \in Procs : phase[p] = "loading" => Here(p)' = Here(p)
  <2>1. CASE \E k \in Keys : Fund(k)
    BY <1>1, <2>1 DEF Fund, disk, Here
  <2>2. CASE \E d \in Paths : Remove(d)
    <3>1. PICK d \in Paths : Remove(d)
      BY <2>2
    <3>2. file' = [file EXCEPT ![d] = Absent]
          /\ \A p \in Procs : path[p] = d => phase[p] \in {"down", "unreadable"}
      BY <3>1 DEF Remove
    <3> QED BY <1>1, <3>2 DEF Here, TypeInv, TypeOK
  <2> QED BY <2>1, <2>2
<1>4. \A p \in Procs : Known(p)'
  BY <1>1, <1>3 DEF TypeInv, Known
<1> QED BY <1>1, <1>2, <1>4, SendsFrame DEF TypeInv

\* What mining does to the transactions of all addresses.
LEMMA Mined ==
  ASSUME TypeInv, NEW k \in Keys, Mine(k)
  PROVE  /\ chain' \in [Keys -> Seq(Tx)]
         /\ \A l \in Keys \ {k} : chain'[l] = chain[l]
         /\ Len(chain'[k]) = Len(chain[k])
         /\ \A j \in 1..Len(chain[k]) : chain'[k][j].call = chain[k][j].call
         /\ \E i \in 1..Len(chain[k]) :
              /\ chain[k][i].out = "pending"
              /\ \A j \in 1..(i - 1) : chain[k][j].out # "pending"
              /\ \A j \in 1..Len(chain[k]) \ {i} : chain'[k][j] = chain[k][j]
              /\ LET call == chain[k][i].call IN
                 /\ chain'[k][i].out = IF Succeeds(k, call) THEN "success" ELSE "reverted"
                 /\ allowed' = IF call = "approve" THEN allowed \cup {k}
                               ELSE IF CanRegister(k) THEN allowed \ {k} ELSE allowed
                 /\ active' = IF call = "register" /\ CanRegister(k)
                              THEN active \cup {k} ELSE active
                 /\ funded' = IF call = "register" /\ CanRegister(k)
                              THEN funded \ {k} ELSE funded
<1>1. PICK i \in 1..Len(chain[k]) :
        LET call == chain[k][i].call IN
        /\ chain[k][i].out = "pending"
        /\ \A j \in 1..(i - 1) : chain[k][j].out # "pending"
        /\ chain' = [chain EXCEPT ![k][i].out =
                       IF Succeeds(k, call) THEN "success" ELSE "reverted"]
        /\ allowed' = IF call = "approve" THEN allowed \cup {k}
                      ELSE IF CanRegister(k) THEN allowed \ {k} ELSE allowed
        /\ active' = IF call = "register" /\ CanRegister(k)
                     THEN active \cup {k} ELSE active
        /\ funded' = IF call = "register" /\ CanRegister(k)
                     THEN funded \ {k} ELSE funded
  BY DEF Mine
<1> DEFINE o == IF Succeeds(k, chain[k][i].call) THEN "success" ELSE "reverted"
<1>2. chain \in [Keys -> Seq(Tx)]
  BY DEF TypeInv, TypeOK, Tx, Calls, Outs
<1>3. o \in Outs
  BY DEF Outs
<1>4. chain' = [chain EXCEPT ![k] = [chain[k] EXCEPT ![i].out = o]]
  BY <1>1
<1>5. /\ chain'[k] = WithOut(chain[k], i, o)
      /\ \A l \in Keys \ {k} : chain'[l] = chain[l]
  BY <1>2, <1>4 DEF WithOut
<1> HIDE DEF o
<1>6. /\ chain'[k] \in Seq(Tx) /\ Len(chain'[k]) = Len(chain[k])
      /\ \A j \in 1..Len(chain[k]) : chain'[k][j].call = chain[k][j].call
      /\ \A j \in 1..Len(chain[k]) \ {i} : chain'[k][j] = chain[k][j]
      /\ chain'[k][i].out = o
  <2>1. chain[k] \in Seq(Tx)
    BY <1>2
  <2>2. /\ WithOut(chain[k], i, o) \in Seq(Tx)
        /\ Len(WithOut(chain[k], i, o)) = Len(chain[k])
        /\ \A j \in 1..Len(chain[k]) : WithOut(chain[k], i, o)[j].call = chain[k][j].call
        /\ \A j \in 1..Len(chain[k]) \ {i} : WithOut(chain[k], i, o)[j] = chain[k][j]
        /\ WithOut(chain[k], i, o)[i].out = o
    BY <1>3, <2>1, OutOf
  <2> QED BY <1>5, <2>2
<1>7. chain' \in [Keys -> Seq(Tx)]
  BY <1>2, <1>4, <1>6
<1> QED BY <1>1, <1>5, <1>6, <1>7 DEF o

LEMMA MineTypes ==
  ASSUME TypeInv, NEW k \in Keys, Mine(k)
  PROVE  TypeInv'
<1>2. chain \in [Keys -> Seq(Tx)]
  BY DEF TypeInv, TypeOK, Tx, Calls, Outs
<1>3. /\ chain' \in [Keys -> Seq(Tx)]
      /\ \A l \in Keys : /\ Len(chain'[l]) = Len(chain[l])
                         /\ \A j \in 1..Len(chain[l]) :
                              chain'[l][j].call = chain[l][j].call
  BY Mined
<1>4. /\ UNCHANGED <<disk, phase, key, task, past>>
      /\ allowed' \subseteq Keys /\ active' \subseteq Keys /\ funded' \subseteq Keys
  <2>1. UNCHANGED <<disk, phase, key, task, past>>
    BY DEF Mine
  <2>2. allowed \subseteq Keys /\ active \subseteq Keys /\ funded \subseteq Keys
    BY DEF TypeInv, TypeOK
  <2> QED BY <2>1, <2>2, Mined
<1>5. TypeOK'
  BY <1>3, <1>4 DEF TypeInv, TypeOK, Startup, Under, disk, past, Tx, Calls, Outs
<1>6. ASSUME NEW p \in Procs, task[p].at = "waiting"
      PROVE  /\ task[p].nonce < Len(chain'[key[p]])
             /\ chain'[key[p]][task[p].nonce + 1].call = task[p].call
  <2>1. phase[p] = "up" /\ task[p].nonce \in Nat
    BY <1>6 DEF TypeInv, TypeOK
  <2>2. key[p] \in Keys
    BY <2>1 DEF TypeInv, Known
  <2>3. task[p].nonce + 1 \in 1..Len(chain[key[p]])
    BY <1>2, <1>6, <2>1, <2>2 DEF TypeInv, Sends
  <2> QED BY <1>3, <1>6, <2>2, <2>3 DEF TypeInv, Sends
<1> QED BY <1>4, <1>5, <1>6 DEF TypeInv, Known, Sends, Here, disk

\* A task runs in a process that is up, with its key.
LEMMA UnderIsUp ==
  ASSUME TypeInv, NEW p \in Procs, task[p].at \in Under
  PROVE  phase[p] = "up" /\ key[p] \in Keys
<1>1. phase[p] = "up"
  BY DEF TypeInv, TypeOK, Under
<1> QED BY <1>1 DEF TypeInv, Known

\* A task that does not send.
LEMMA QuietTask ==
  ASSUME TypeInv, NEW p \in Procs, OnlyTask,
         NEW t, t \in [at : (Under \cup {"skipped", "registered", "failed"}) \ {"waiting"},
                       call : Calls, nonce : Nat],
         TaskIs(p, t), task[p].at \in Under
  PROVE  TypeInv'
<1>1. TypeOK'
  BY UnderIsUp DEF TaskIs, OnlyTask, TypeInv, TypeOK, Startup, Under, disk, past, money, Calls
<1>2. \A q \in Procs : Known(q)'
  BY DEF OnlyTask, TypeInv, Known, Here, disk
<1>3. \A q \in Procs : Sends(q)'
  BY SendsFrame DEF TaskIs, OnlyTask, money, TypeInv, TypeOK
<1> QED BY <1>1, <1>2, <1>3 DEF TypeInv

\* SendRaw appends what it sends.
LEMMA RawSent ==
  ASSUME TypeInv, NEW p \in Procs, SendRaw(p), task[p].nonce = Len(chain[key[p]])
  PROVE  LET k == key[p] IN
         /\ k \in Keys /\ phase[p] = "up"
         /\ TaskGoes(p, "waiting") \/ TaskGoes(p, "failed")
         /\ chain' \in [Keys -> Seq(Tx)]
         /\ \A l \in Keys \ {k} : chain'[l] = chain[l]
         /\ Len(chain'[k]) = Len(chain[k]) + 1
         /\ \A j \in 1..Len(chain[k]) : chain'[k][j] = chain[k][j]
         /\ chain'[k][Len(chain[k]) + 1] = [call |-> task[p].call, out |-> "pending"]
<1> DEFINE k == key[p]
           x == [call |-> task[p].call, out |-> "pending"]
<1>1. k \in Keys /\ phase[p] = "up"
  BY UnderIsUp DEF SendRaw, Under
<1>2. chain \in [Keys -> Seq(Tx)] /\ x \in Tx
  BY DEF TypeInv, TypeOK, Tx, Calls, Outs
<1>3. chain' = [chain EXCEPT ![k] = Append(chain[k], x)]
  BY DEF SendRaw
<1>7. TaskGoes(p, "waiting") \/ TaskGoes(p, "failed")
  BY DEF SendRaw
<1> HIDE DEF x
<1>4. /\ chain'[k] = Append(chain[k], x) /\ chain[k] \in Seq(Tx)
      /\ \A l \in Keys \ {k} : chain'[l] = chain[l]
  BY <1>1, <1>2, <1>3
<1>5. /\ chain'[k] \in Seq(Tx) /\ Len(chain'[k]) = Len(chain[k]) + 1
      /\ \A j \in 1..Len(chain[k]) : chain'[k][j] = chain[k][j]
      /\ chain'[k][Len(chain[k]) + 1] = x
  BY <1>2, <1>4, Sent
<1>6. chain' \in [Keys -> Seq(Tx)]
  BY <1>2, <1>3, <1>4, <1>5
<1> QED BY <1>1, <1>7, <1>4, <1>5, <1>6 DEF x

LEMMA SendTypes ==
  ASSUME TypeInv, NEW p \in Procs, SendRaw(p)
  PROVE  TypeInv'
<1> DEFINE k == key[p]
<1>0. UNCHANGED <<disk, phase, key, funded, allowed, active, past>>
  BY DEF SendRaw
<1>1. CASE task[p].nonce = Len(chain[k])
  <2>0. PICK to \in {"waiting", "failed"} : TaskGoes(p, to)
    BY <1>1, RawSent
  <2>1. k \in Keys /\ chain \in [Keys -> Seq(Tx)]
    BY <1>1, RawSent DEF TypeInv, TypeOK, Tx, Calls, Outs
  <2>2. /\ \A l \in Keys \ {k} : chain'[l] = chain[l]
        /\ Len(chain'[k]) = Len(chain[k]) + 1
        /\ \A j \in 1..Len(chain[k]) : chain'[k][j] = chain[k][j]
        /\ chain'[k][Len(chain[k]) + 1] = [call |-> task[p].call, out |-> "pending"]
    BY <1>1, RawSent
  <2>3. \A l \in Keys : Len(chain[l]) \in Nat
    BY <2>1
  <2>4. TypeOK'
    <3>1. /\ chain' \in [Keys -> Seq([call : {"approve", "register"},
                                      out : {"pending", "success", "reverted"}])]
          /\ phase[p] = "up"
      BY <1>1, RawSent DEF Tx, Calls, Outs
    <3> QED BY <1>0, <2>0, <2>1, <3>1 DEF TaskGoes, TaskIs, TypeInv, TypeOK, Startup, Under, disk, past
  <2>5. ASSUME NEW q \in Procs, task'[q].at = "waiting"
        PROVE  /\ task'[q].nonce < Len(chain'[key[q]])
               /\ chain'[key[q]][task'[q].nonce + 1].call = task'[q].call
    <3>1. CASE q = p
      <4>1. task'[q].nonce = Len(chain[k]) /\ task'[q].call = task[p].call
        BY <1>1, <2>0, <3>1 DEF TaskGoes, TaskIs, TypeInv, TypeOK
      <4> QED BY <2>1, <2>2, <2>3, <3>1, <4>1
    <3>2. CASE q # p
      <4>1. task'[q] = task[q] /\ task[q].nonce \in Nat
        BY <2>0, <3>2 DEF TaskGoes, TaskIs, TypeInv, TypeOK
      <4>2. key[q] \in Keys
        BY <2>5, <4>1, UnderIsUp DEF Under
      <4>3. task[q].nonce + 1 \in 1..Len(chain[key[q]])
        BY <2>1, <2>5, <4>1, <4>2 DEF TypeInv, Sends
      <4>4. /\ Len(chain'[key[q]]) >= Len(chain[key[q]])
            /\ chain'[key[q]][task[q].nonce + 1] = chain[key[q]][task[q].nonce + 1]
        <5>1. CASE key[q] = k
          BY <2>1, <2>2, <2>3, <4>3, <5>1
        <5>2. CASE key[q] # k
          BY <2>2, <2>3, <4>2, <5>2
        <5> QED BY <5>1, <5>2
      <4> QED BY <2>1, <2>5, <4>1, <4>2, <4>3, <4>4 DEF TypeInv, Sends
    <3> QED BY <3>1, <3>2
  <2>6. \A q \in Procs : Known(q)'
    BY <1>0 DEF TypeInv, Known, Here, disk
  <2>7. \A q \in Procs : Sends(q)'
    BY <1>0, <2>5 DEF Sends
  <2> QED BY <2>4, <2>6, <2>7 DEF TypeInv
<1>2. CASE task[p].nonce # Len(chain[k])
  <2>1. TaskGoes(p, "failed") /\ OnlyTask /\ task[p].at \in Under
    BY <1>0, <1>2 DEF SendRaw, OnlyTask, money, Under
  <2>2. [task[p] EXCEPT !.at = "failed"] \in
          [at : (Under \cup {"skipped", "registered", "failed"}) \ {"waiting"},
           call : Calls, nonce : Nat]
    BY DEF TypeInv, TypeOK, Calls
  <2> QED BY <2>1, <2>2, QuietTask DEF TaskGoes
<1> QED BY <1>1, <1>2

LEMMA TaskTypes ==
  ASSUME TypeInv, NEW p \in Procs, TaskSteps(p) \/ CallFails(p)
  PROVE  TypeInv'
<1> DEFINE T == [at : (Under \cup {"skipped", "registered", "failed"}) \ {"waiting"},
                 call : Calls, nonce : Nat]
<1>0. task[p].at \in Under
  BY DEF TaskSteps, Ask, ReadNonce, Estimate, SendRaw, WaitForReceipt, GivesUp, CallFails, Under
<1>1. task[p] \in [at : Under \cup {"idle", "skipped", "registered", "failed"},
                   call : Calls, nonce : Nat]
  BY DEF TypeInv, TypeOK, Calls
<1>2. CASE SendRaw(p)
  BY <1>2, SendTypes
<1>3. CASE ReadNonce(p)
  <2>1. Len(chain[key[p]]) \in Nat
    BY <1>0, UnderIsUp DEF TypeInv, TypeOK
  <2>2. [task[p] EXCEPT !.at = "estimating", !.nonce = Len(chain[key[p]])] \in T
    BY <1>1, <2>1 DEF Under
  <2> QED BY <1>0, <1>3, <2>2, QuietTask DEF ReadNonce
<1>4. CASE WaitForReceipt(p) /\ ~TaskGoes(p, "failed") /\ ~TaskGoes(p, "registered")
  <2>1. [Idle EXCEPT !.at = "reading", !.call = "register"] \in T
    BY DEF Idle, Calls, Under
  <2> QED BY <1>0, <1>4, <2>1, QuietTask DEF WaitForReceipt
<1>5. ASSUME NEW to \in {"skipped", "reading", "sending", "failed", "registered"},
             TaskGoes(p, to), OnlyTask
      PROVE  TypeInv'
  <2>1. [task[p] EXCEPT !.at = to] \in T
    BY <1>1 DEF Under
  <2> QED BY <1>0, <1>5, <2>1, QuietTask DEF TaskGoes
<1>6. CASE Ask(p) \/ Estimate(p) \/ GivesUp(p) \/ CallFails(p)
  BY <1>5, <1>6 DEF Ask, Estimate, GivesUp, CallFails
<1>7. CASE WaitForReceipt(p) /\ (TaskGoes(p, "failed") \/ TaskGoes(p, "registered"))
  BY <1>5, <1>7 DEF WaitForReceipt
<1> QED BY <1>2, <1>3, <1>4, <1>6, <1>7 DEF TaskSteps

LEMMA TypeStep == TypeInv /\ [Next]_vars => TypeInv'
<1>1. TypeInv /\ UNCHANGED vars => TypeInv'
  BY DEF TypeInv, TypeOK, Known, Sends, vars, disk, past, money, Here
<1>2. ASSUME TypeInv, NEW p \in Procs,
             Start(p) \/ Migrate(p) \/ CopyEnds(p) \/ Look(p) \/ SaveEnds(p)
               \/ Load(p) \/ Crash(p)
      PROVE  TypeInv'
  BY <1>2, StartTypes, StartSends DEF TypeInv
<1> QED BY <1>1, <1>2, OperatorTypes, MineTypes, TaskTypes DEF Next

\* Every reachable state is well typed, and a task runs only in a process
\* that is up.
THEOREM StartupTypeCorrect == Spec => []TypeOK
<1>1. TypeInv => TypeOK
  BY DEF TypeInv
<1> QED BY <1>1, InitTypeInv, TypeStep, PTL DEF Spec

(***************************************************************************)
(* The identity files.                                                     *)
(***************************************************************************)

\* What a process is in the middle of writing is the reason for a torn file,
\* unless a crash or a race is.
Writing(p) == phase[p] \in {"copying", "saving"}
TornHasCause ==
  \A d \in Paths : file[d] = Torn =>
    d \in raced \cup cut \/ \E p \in Procs : path[p] = d /\ Writing(p)

\* Two processes of one file that come up together are a race.
OverlapIsRace ==
  \A p, q \in Procs :
    p # q /\ path[p] = path[q] /\ phase[p] \in Startup /\ phase[q] \in Startup
      => path[p] \in raced

CauseInv == TornHasCause /\ OverlapIsRace /\ UnreadableHasCause

\* With a legacy identity every file there is holds it, and none is generated.
LegacyInv ==
  legacy # Absent =>
    /\ \A d \in Paths : file[d] \in {Absent, Torn, legacy}
    /\ \A p \in Procs :
         /\ phase[p] = "looking" => Here(p) # Absent
         /\ phase[p] # "saving"
         /\ phase[p] = "up" => key[p] = legacy

\* What the steps of a start do to the files and phases.
StartSteps(p) ==
  Start(p) \/ Migrate(p) \/ CopyEnds(p) \/ Look(p) \/ SaveEnds(p) \/ Load(p) \/ Crash(p)

\* The other steps leave them alone, but for a file nobody can read.
LEMMA OtherSteps ==
  ASSUME TypeInv, Next, ~\E p \in Procs : StartSteps(p)
  PROVE  /\ UNCHANGED <<path, legacy, phase, key, past>>
         /\ file' = file \/ \E d \in Paths : Remove(d)
<1>1. CASE \E p \in Procs : TaskSteps(p) \/ CallFails(p)
  BY <1>1 DEF TaskSteps, Ask, ReadNonce, Estimate, SendRaw, WaitForReceipt, GivesUp,
              CallFails, OnlyTask, disk
<1>2. CASE \E d \in Paths : Remove(d)
  BY <1>2 DEF Remove
<1>3. CASE \E k \in Keys : Fund(k) \/ Mine(k)
  BY <1>3 DEF Fund, Mine, disk
<1> QED BY <1>1, <1>2, <1>3 DEF Next, StartSteps

LEMMA RemoveFrame ==
  ASSUME TypeInv, NEW d \in Paths, Remove(d)
  PROVE  /\ file' \in [Paths -> Keys \cup {Absent, Torn}]
         /\ file'[d] = Absent /\ file[d] = Torn
         /\ \A e \in Paths \ {d} : file'[e] = file[e]
         /\ \A p \in Procs : path[p] = d => phase[p] \in {"down", "unreadable"}
BY DEF Remove, TypeInv, TypeOK

\* A step of a start changes the phase of one process, and its own file only.
LEMMA StartFrame ==
  ASSUME TypeInv, NEW p \in Procs, StartSteps(p)
  PROVE  /\ UNCHANGED <<path, legacy, chain, funded, allowed, active>>
         /\ phase' = [phase EXCEPT ![p] = phase'[p]]
         /\ key' = [key EXCEPT ![p] = key'[p]]
         /\ file' = [file EXCEPT ![path[p]] = file'[path[p]]]
         /\ raced \subseteq raced' /\ cut \subseteq cut'
<1> USE DEF Goes, TypeInv, TypeOK, money
<1>1. CASE Start(p) \/ Crash(p)
  BY <1>1 DEF Start, Crash, disk
<1>2. CASE Migrate(p) \/ CopyEnds(p)
  BY <1>2 DEF Migrate, CopyEnds, past
<1>3. CASE Look(p)
  BY <1>3 DEF Look, SaveBegins
<1>4. CASE SaveEnds(p)
  BY <1>4 DEF SaveEnds, Runs
<1>5. CASE Load(p)
  BY <1>5 DEF Load, Runs, disk
<1> QED BY <1>1, <1>2, <1>3, <1>4, <1>5 DEF StartSteps

\* What each of them does to that file.
LEMMA StartWrites ==
  ASSUME TypeInv, NEW p \in Procs, StartSteps(p)
  PROVE  \/ /\ file' = file
            /\ \/ Start(p) \/ Load(p) \/ Crash(p)
               \/ (Migrate(p) \/ Look(p)) /\ ~Writing(p)'
         \/ /\ Here(p) = Absent /\ Here(p)' = Torn /\ Writing(p)'
            /\ Migrate(p) \/ Look(p)
         \/ /\ CopyEnds(p) /\ Here(p)' = legacy /\ legacy \in Keys
         \/ /\ SaveEnds(p) /\ Here(p)' = key[p] /\ key[p] \in Keys
<1>1. CASE Start(p) \/ Load(p) \/ Crash(p)
  <2>1. file' = file
    BY <1>1 DEF Start, Load, Crash, disk
  <2> QED BY <1>1, <2>1
<1> USE DEF TypeInv, TypeOK, Here, Writing, Goes
<1>2. CASE Migrate(p)
  BY <1>2 DEF Migrate
<1>3. CASE Look(p)
  BY <1>3 DEF Look, SaveBegins
<1>4. CASE CopyEnds(p)
  BY <1>4 DEF CopyEnds, Known
<1>5. CASE SaveEnds(p)
  BY <1>5 DEF SaveEnds, Known
<1> QED BY <1>1, <1>2, <1>3, <1>4, <1>5 DEF StartSteps

\* The causes.
LEMMA CauseStart ==
  ASSUME TypeInv, CauseInv, NEW p \in Procs, StartSteps(p)
  PROVE  CauseInv'
<1>0. /\ UNCHANGED path /\ raced \subseteq raced' /\ cut \subseteq cut'
      /\ \A q \in Procs \ {p} : phase'[q] = phase[q]
      /\ \A d \in Paths \ {path[p]} : file'[d] = file[d]
      /\ path \in [Procs -> Paths] /\ phase \in [Procs -> Startup \cup {"down", "unreadable", "up"}]
      /\ file \in [Paths -> Keys \cup {Absent, Torn}]
  BY StartFrame DEF TypeInv, TypeOK
<1>1. UnreadableHasCause'
  <2>1. CASE phase'[p] = "unreadable"
    <3>1. Load(p) /\ Here(p) = Torn /\ phase[p] = "loading" /\ file' = file
      BY <1>0, <2>1 DEF StartSteps, Start, Migrate, CopyEnds, Look, SaveBegins, SaveEnds,
                        Load, Runs, Crash, Goes, disk
    <3>2. path[p] \in raced \cup cut \/ \E q \in Procs : path[q] = path[p] /\ Writing(q)
      BY <1>0, <3>1 DEF CauseInv, TornHasCause, Here
    <3>3. path[p] \in raced \cup cut
      BY <3>1, <3>2 DEF CauseInv, OverlapIsRace, Writing, Startup
    <3> QED BY <1>0, <3>3 DEF CauseInv, UnreadableHasCause
  <2>2. CASE phase'[p] # "unreadable"
    BY <1>0, <2>2 DEF CauseInv, UnreadableHasCause
  <2> QED BY <2>1, <2>2
<1>2. OverlapIsRace'
  <2>1. ASSUME NEW q \in Procs, NEW r \in Procs, q # r, path[q] = path[r],
               phase'[q] \in Startup, phase'[r] \in Startup
        PROVE  path[q] \in raced'
    <3>1. CASE phase[q] \in Startup /\ phase[r] \in Startup
      BY <1>0, <2>1, <3>1 DEF CauseInv, OverlapIsRace
    <3>2. CASE ~(phase[q] \in Startup /\ phase[r] \in Startup)
      <4>1. (p = q \/ p = r) /\ phase[p] \notin Startup /\ phase'[p] \in Startup
        BY <1>0, <2>1, <3>2
      <4>2. Start(p)
        BY <4>1 DEF StartSteps, Start, Migrate, CopyEnds, Look, SaveEnds, Load, Crash,
                    Goes, Startup, TypeInv, TypeOK
      <4>3. \E o \in Procs \ {p} : path[o] = path[p] /\ phase[o] \in Startup
        BY <1>0, <2>1, <4>1
      <4> QED BY <2>1, <4>1, <4>2, <4>3 DEF Start
    <3> QED BY <3>1, <3>2
  <2> QED BY <1>0, <2>1 DEF OverlapIsRace
<1>3. TornHasCause'
  <2>1. ASSUME NEW d \in Paths, file'[d] = Torn, d \notin raced' \cup cut'
        PROVE  \E q \in Procs : path[q] = d /\ Writing(q)'
    <3>1. CASE d = path[p] /\ file'[d] # file[d]
      <4>1. Writing(p)'
        BY <1>0, <2>1, <3>1, StartWrites, StartupAssumption DEF Here
      <4> QED BY <3>1, <4>1
    <3>2. CASE file'[d] = file[d]
      <4>1. PICK q \in Procs : path[q] = d /\ Writing(q)
        BY <1>0, <2>1, <3>2 DEF CauseInv, TornHasCause
      <4>2. CASE q # p
        BY <1>0, <4>1, <4>2 DEF Writing
      <4>3. CASE q = p
        <5>1. CopyEnds(p) \/ SaveEnds(p) \/ Crash(p)
          BY <4>1, <4>3 DEF StartSteps, Writing, Start, Migrate, Look, Load
        <5>2. ~Crash(p)
          BY <2>1, <4>1, <4>3 DEF Crash, Writing
        <5>3. file'[d] # Torn
          BY <4>1, <4>3, <5>1, <5>2, StartWrites, StartupAssumption
             DEF Here, CopyEnds, SaveEnds, TypeInv, TypeOK, Known
        <5> QED BY <2>1, <5>3
      <4> QED BY <4>2, <4>3
    <3> QED BY <1>0, <3>1, <3>2
  <2> QED BY <1>0, <2>1 DEF TornHasCause
<1> QED BY <1>1, <1>2, <1>3 DEF CauseInv

LEMMA CauseStep == TypeInv /\ CauseInv /\ [Next]_vars => CauseInv'
<1> SUFFICES ASSUME TypeInv, CauseInv, [Next]_vars PROVE CauseInv'
  OBVIOUS
<1>1. CASE \E p \in Procs : StartSteps(p)
  BY <1>1, CauseStart
<1>2. CASE /\ UNCHANGED <<path, legacy, phase, key, past>>
           /\ file' = file \/ \E d \in Paths : Remove(d)
  <2>1. \A d \in Paths : file'[d] = Torn => file[d] = Torn
    BY <1>2, RemoveFrame, StartupAssumption
  <2> QED BY <1>2, <2>1 DEF past, CauseInv, TornHasCause, OverlapIsRace, Writing,
                            UnreadableHasCause
<1> QED BY <1>1, <1>2, OtherSteps DEF vars, disk, past

\* A node refuses its file only after a crash in a write, or a race for it.
THEOREM UnreadableAlwaysHasCause == Spec => []UnreadableHasCause
<1>1. Init => CauseInv
  BY StartupAssumption DEF Init, CauseInv, TornHasCause, OverlapIsRace,
                           UnreadableHasCause, Startup
<1>2. CauseInv => UnreadableHasCause
  BY DEF CauseInv
<1> QED BY <1>1, <1>2, InitTypeInv, TypeStep, CauseStep, PTL DEF Spec

\* The legacy identity.
LEMMA LegacyStart ==
  ASSUME TypeInv, LegacyInv, legacy # Absent, NEW p \in Procs, StartSteps(p)
  PROVE  LegacyInv'
<1>0. /\ UNCHANGED <<path, legacy>>
      /\ \A q \in Procs \ {p} : phase'[q] = phase[q] /\ key'[q] = key[q]
      /\ \A d \in Paths \ {path[p]} : file'[d] = file[d]
      /\ path \in [Procs -> Paths] /\ file \in [Paths -> Keys \cup {Absent, Torn}]
      /\ phase \in [Procs -> Startup \cup {"down", "unreadable", "up"}]
      /\ key \in [Procs -> Keys \cup {NoKey}]
  BY StartFrame DEF TypeInv, TypeOK
<1>1. /\ \A d \in Paths : file[d] \in {Absent, Torn, legacy}
      /\ \A q \in Procs : /\ phase[q] = "looking" => Here(q) # Absent
                          /\ phase[q] # "saving"
                          /\ phase[q] = "up" => key[q] = legacy
  BY DEF LegacyInv
<1>2. ~SaveEnds(p)
  BY <1>1 DEF SaveEnds
<1>3. file'[path[p]] \in {Absent, Torn, legacy}
  BY <1>0, <1>1, <1>2, StartWrites DEF Here
<1>4. \A d \in Paths : file[d] # Absent => file'[d] # Absent
  BY <1>0, <1>1, <1>2, StartWrites, StartupAssumption DEF Here
<1>5. /\ phase'[p] = "looking" => file'[path[p]] # Absent
      /\ phase'[p] # "saving"
      /\ phase'[p] = "up" => key'[p] = legacy
  <2>1. CASE Start(p) \/ Crash(p)
    BY <1>0, <2>1 DEF Start, Crash, Goes
  <2>2. CASE Migrate(p)
    <3>1. phase'[p] \in {"copying", "looking"} /\ (phase'[p] = "looking" => Here(p) # Absent)
      BY <1>0, <2>2 DEF Migrate, Goes
    <3> QED BY <1>0, <1>4, <3>1 DEF Here
  <2>3. CASE CopyEnds(p)
    BY <1>0, <2>3 DEF CopyEnds, Goes
  <2>4. CASE Look(p)
    <3>1. Here(p) # Absent
      BY <1>1, <2>4 DEF Look
    <3> QED BY <1>0, <2>4, <3>1 DEF Look, Goes
  <2>5. CASE Load(p)
    <3>1. Here(p) # Torn => phase'[p] = "up" /\ key'[p] = Here(p)
      BY <1>0, <2>5 DEF Load, Runs, Goes
    <3>2. Here(p) = Torn => phase'[p] = "unreadable"
      BY <1>0, <2>5 DEF Load, Goes
    <3>3. Here(p) # Absent
      BY <2>5 DEF Load, TypeInv, Known
    <3> QED BY <1>0, <1>1, <3>1, <3>2, <3>3 DEF Here
  <2> QED BY <1>2, <2>1, <2>2, <2>3, <2>4, <2>5 DEF StartSteps
<1>6. \A d \in Paths : file'[d] \in {Absent, Torn, legacy}
  BY <1>0, <1>1, <1>3
<1>7. ASSUME NEW q \in Procs
      PROVE  /\ phase'[q] = "looking" => file'[path[q]] # Absent
             /\ phase'[q] # "saving"
             /\ phase'[q] = "up" => key'[q] = legacy
  <2>1. CASE q = p
    BY <1>5, <2>1
  <2>2. CASE q # p
    BY <1>0, <1>1, <1>4, <2>2 DEF Here
  <2> QED BY <2>1, <2>2
<1> QED BY <1>0, <1>6, <1>7 DEF LegacyInv, Here

LEMMA LegacyStep == TypeInv /\ LegacyInv /\ [Next]_vars => LegacyInv'
<1> SUFFICES ASSUME TypeInv, LegacyInv, [Next]_vars PROVE LegacyInv'
  OBVIOUS
<1>1. CASE \E p \in Procs : StartSteps(p)
  BY <1>1, LegacyStart, StartFrame DEF LegacyInv
<1>2. CASE /\ UNCHANGED <<path, legacy, phase, key, past>>
           /\ file' = file \/ \E d \in Paths : Remove(d)
  <2>1. CASE file' = file
    BY <1>2, <2>1 DEF LegacyInv, Here
  <2>2. CASE \E d \in Paths : Remove(d)
    <3>1. PICK d \in Paths : Remove(d)
      BY <2>2
    <3>2. \A q \in Procs : phase[q] = "looking" => Here(q)' = Here(q)
      BY <1>2, <3>1, RemoveFrame DEF Here, TypeInv, TypeOK
    <3> QED BY <1>2, <3>1, <3>2, RemoveFrame DEF LegacyInv
  <2> QED BY <1>2, <2>1, <2>2
<1> QED BY <1>1, <1>2, OtherSteps DEF vars, disk, past

\* Whatever is interrupted, with a legacy identity only that one runs.
THEOREM MigrantsAlwaysKeepTheirKey == Spec => []MigrantsKeepTheirKey
<1>1. Init => LegacyInv
  BY StartupAssumption DEF Init, LegacyInv
<1>2. LegacyInv => MigrantsKeepTheirKey
  BY DEF LegacyInv, MigrantsKeepTheirKey
<1> QED BY <1>1, <1>2, InitTypeInv, TypeStep, LegacyStep, PTL DEF Spec

(***************************************************************************)
(* The stakes.  Without a race a file is written by one process only, over *)
(* nothing; what a process runs with is what its file holds, and that is   *)
(* never written over.                                                     *)
(***************************************************************************)
HeldInv ==
  raced = {} =>
    \A p \in Procs : /\ Writing(p) => Here(p) = Torn
                     /\ phase[p] = "up" => Here(p) = key[p]

RecoveryInv == OverlapIsRace /\ HeldInv /\ StakesRecoverable

\* A file that holds a key keeps it.
LEMMA KeysStay ==
  ASSUME TypeInv, RecoveryInv, [Next]_vars, raced' = {}, NEW d \in Paths,
         file[d] \in Keys
  PROVE  file'[d] = file[d]
<1>1. CASE \E p \in Procs : StartSteps(p)
  <2>1. PICK p \in Procs : StartSteps(p)
    BY <1>1
  <2>2. CASE d = path[p]
    <3>1. raced = {}
      BY <2>1, StartFrame
    <3>2. Here(p) # Torn /\ Here(p) # Absent
      BY <2>2, StartupAssumption DEF Here
    <3>3. ~Writing(p)
      BY <3>1, <3>2 DEF RecoveryInv, HeldInv
    <3>4. file' = file
      BY <2>1, <3>2, <3>3, StartWrites DEF Writing, CopyEnds, SaveEnds
    <3> QED BY <3>4
  <2>3. CASE d # path[p]
    BY <2>1, <2>3, StartFrame DEF TypeInv, TypeOK
  <2> QED BY <2>2, <2>3
<1>2. CASE file' = file \/ \E e \in Paths : Remove(e)
  BY <1>2, RemoveFrame, StartupAssumption
<1> QED BY <1>1, <1>2, OtherSteps DEF vars, disk

LEMMA HeldStart ==
  ASSUME TypeInv, RecoveryInv, NEW p \in Procs, StartSteps(p), raced' = {},
         NEW q \in Procs
  PROVE  /\ Writing(q)' => Here(q)' = Torn
         /\ phase'[q] = "up" => Here(q)' = key'[q]
<1>0. /\ UNCHANGED <<path, legacy>> /\ raced = {}
      /\ \A o \in Procs \ {p} : phase'[o] = phase[o] /\ key'[o] = key[o]
      /\ \A d \in Paths \ {path[p]} : file'[d] = file[d]
      /\ path \in [Procs -> Paths] /\ file \in [Paths -> Keys \cup {Absent, Torn}]
      /\ phase \in [Procs -> Startup \cup {"down", "unreadable", "up"}]
      /\ key \in [Procs -> Keys \cup {NoKey}]
  BY StartFrame DEF TypeInv, TypeOK
<1>1. \A o \in Procs : /\ Writing(o) => Here(o) = Torn
                       /\ phase[o] = "up" => Here(o) = key[o]
  BY <1>0 DEF RecoveryInv, HeldInv
<1>2. CASE q = p
  <2>1. CASE Start(p) \/ Crash(p)
    BY <1>0, <1>2, <2>1 DEF Start, Crash, Goes, Writing
  <2>2. CASE Migrate(p)
    BY <1>0, <1>2, <2>2 DEF Migrate, Goes, Writing, Here
  <2>3. CASE CopyEnds(p)
    BY <1>0, <1>2, <2>3 DEF CopyEnds, Goes, Writing
  <2>4. CASE Look(p)
    BY <1>0, <1>2, <2>4 DEF Look, SaveBegins, Goes, Writing, Here
  <2>5. CASE SaveEnds(p)
    BY <1>0, <1>2, <2>5 DEF SaveEnds, Runs, Goes, Writing, Here
  <2>6. CASE Load(p)
    BY <1>0, <1>2, <2>6 DEF Load, Runs, Goes, Writing, Here, disk
  <2> QED BY <2>1, <2>2, <2>3, <2>4, <2>5, <2>6 DEF StartSteps
<1>3. CASE q # p
  <2>1. CASE phase[q] = "up"
    <3>1. Here(q) = key[q] /\ key[q] \in Keys
      BY <1>1, <2>1 DEF TypeInv, Known
    <3>2. file'[path[q]] = file[path[q]]
      BY <1>0, <3>1, KeysStay DEF Here, Next, StartSteps
    <3> QED BY <1>0, <1>3, <2>1, <3>1, <3>2 DEF Here, Writing
  <2>2. CASE Writing(q)
    <3>1. path[q] # path[p] \/ file' = file
      <4>1. CASE phase[p] \in Startup
        BY <1>0, <1>3, <2>2, <4>1 DEF RecoveryInv, OverlapIsRace, Writing, Startup
      <4>2. CASE phase[p] \notin Startup
        BY <4>2 DEF StartSteps, Start, Migrate, CopyEnds, Look, SaveEnds, Load, Crash,
                    Startup, disk
      <4> QED BY <4>1, <4>2
    <3> QED BY <1>0, <1>1, <1>3, <2>2, <3>1 DEF Here, Writing
  <2> QED BY <1>0, <1>3, <2>1, <2>2 DEF Writing
<1> QED BY <1>2, <1>3

LEMMA RecoveryStep == TypeInv /\ CauseInv /\ RecoveryInv /\ [Next]_vars => RecoveryInv'
<1> SUFFICES ASSUME TypeInv, CauseInv, RecoveryInv, [Next]_vars PROVE RecoveryInv'
  OBVIOUS
<1>1. OverlapIsRace'
  BY CauseStep DEF CauseInv
<1>2. raced' = {} => raced = {}
  BY StartFrame, OtherSteps DEF vars, past
<1>3. HeldInv'
  <2>1. CASE \E p \in Procs : StartSteps(p)
    BY <2>1, HeldStart DEF HeldInv
  <2>2. CASE /\ UNCHANGED <<path, legacy, phase, key, past>>
             /\ file' = file \/ \E d \in Paths : Remove(d)
    <3>1. \A q \in Procs : Writing(q) \/ phase[q] = "up" => Here(q)' = Here(q)
      BY <2>2, RemoveFrame DEF Here, Writing, TypeInv, TypeOK
    <3> QED BY <2>2, <3>1 DEF RecoveryInv, HeldInv, Writing, past
  <2> QED BY <2>1, <2>2, OtherSteps DEF vars, disk, past
<1>4. StakesRecoverable'
  <2> SUFFICES ASSUME raced' = {}, NEW k \in (funded \cup active)' PROVE Recoverable(k)'
    BY DEF StakesRecoverable
  <2>1. legacy' = legacy
    BY StartFrame, OtherSteps DEF vars, disk
  <2>2. ASSUME k \in Keys, Recoverable(k) PROVE Recoverable(k)'
    BY <2>1, <2>2, KeysStay DEF Recoverable
  <2>3. k \in Keys
    BY TypeStep DEF TypeInv, TypeOK
  <2>4. CASE k \in funded \cup active
    BY <1>2, <2>2, <2>3, <2>4 DEF RecoveryInv, StakesRecoverable
  <2>5. CASE k \notin funded \cup active
    <3>1. Fund(k)
      <4>1. CASE \E p \in Procs : StartSteps(p)
        BY <2>5, <4>1, StartFrame
      <4>2. CASE \E l \in Keys : Mine(l)
        BY <2>5, <4>2, Mined DEF CanRegister
      <4>3. CASE \E l \in Keys : Fund(l)
        BY <2>5, <4>3 DEF Fund
      <4>4. CASE \/ \E p \in Procs : TaskSteps(p) \/ CallFails(p)
                 \/ \E d \in Paths : Remove(d)
                 \/ UNCHANGED vars
        BY <2>5, <4>4 DEF TaskSteps, Ask, ReadNonce, Estimate, SendRaw, WaitForReceipt,
                          GivesUp, CallFails, OnlyTask, Remove, vars, money
      <4> QED BY <4>1, <4>2, <4>3, <4>4 DEF Next, StartSteps
    <3>2. PICK p \in Procs : phase[p] = "up" /\ key[p] = k
      BY <3>1 DEF Fund
    <3>3. Here(p) = k
      BY <1>2, <3>2 DEF RecoveryInv, HeldInv
    <3>4. Recoverable(k)
      BY <3>3 DEF Recoverable, Here, TypeInv, TypeOK
    <3> QED BY <2>2, <2>3, <3>4
  <2> QED BY <2>4, <2>5
<1> QED BY <1>1, <1>3, <1>4 DEF RecoveryInv

\* Without a race, an address that holds money can be run again.
THEOREM StakesAlwaysRecoverable == Spec => []StakesRecoverable
<1>1. Init => CauseInv /\ RecoveryInv
  BY StartupAssumption DEF Init, CauseInv, TornHasCause, OverlapIsRace, RecoveryInv,
       HeldInv, Writing, StakesRecoverable, UnreadableHasCause, Startup
<1>2. RecoveryInv => StakesRecoverable
  BY DEF RecoveryInv
<1> QED BY <1>1, <1>2, InitTypeInv, TypeStep, CauseStep, RecoveryStep, PTL DEF Spec

(***************************************************************************)
(* The registration.                                                       *)
(***************************************************************************)

\* A register transaction that succeeded has made its address active.
RegisterIsActive ==
  \A k \in Keys : \A i \in 1..Len(chain[k]) :
    chain[k][i].call = "register" /\ chain[k][i].out = "success" => k \in active

DoneInv == RegisterIsActive /\ DoneIsActive

\* What a task's step does to it: it is done only for a reason.
LEMMA TaskDone ==
  ASSUME TypeInv, NEW p \in Procs, TaskSteps(p) \/ CallFails(p)
  PROVE  /\ UNCHANGED <<phase, key, funded, allowed, active, past, disk>>
         /\ \A q \in Procs \ {p} : task'[q] = task[q]
         /\ chain' = chain \/ SendRaw(p)
         /\ task'[p].at = "skipped" => key[p] \in active
         /\ task'[p].at = "registered" =>
              /\ task[p].at = "waiting" /\ task[p].call = "register"
              /\ Receipt(p) \notin {"pending", "reverted"}
<1> USE DEF TaskGoes, TaskIs, OnlyTask, TypeInv, TypeOK, money
<1>1. CASE Ask(p)
  BY <1>1 DEF Ask
<1>2. CASE ReadNonce(p)
  BY <1>2 DEF ReadNonce
<1>3. CASE Estimate(p)
  BY <1>3 DEF Estimate
<1>4. CASE SendRaw(p)
  BY <1>4 DEF SendRaw
<1>5. CASE WaitForReceipt(p)
  BY <1>5 DEF WaitForReceipt, Idle
<1>6. CASE GivesUp(p) \/ CallFails(p)
  BY <1>6 DEF GivesUp, CallFails
<1> QED BY <1>1, <1>2, <1>3, <1>4, <1>5, <1>6 DEF TaskSteps

LEMMA DoneStep == TypeInv /\ DoneInv /\ [Next]_vars => DoneInv'
<1> SUFFICES ASSUME TypeInv, DoneInv, [Next]_vars PROVE DoneInv'
  OBVIOUS
<1>0. chain \in [Keys -> Seq(Tx)]
  BY DEF TypeInv, TypeOK, Tx, Calls, Outs
<1>1. CASE \E p \in Procs : StartSteps(p)
  <2>1. PICK p \in Procs : StartSteps(p)
    BY <1>1
  <2>2. RegisterIsActive'
    BY <2>1, StartFrame DEF DoneInv, RegisterIsActive
  <2>3. \A q \in Procs : task'[q].at \in {"skipped", "registered"} =>
                           task'[q] = task[q] /\ key'[q] = key[q]
    <3>1. CASE Start(p) \/ Migrate(p) \/ CopyEnds(p)
      BY <3>1 DEF Start, Migrate, CopyEnds
    <3>2. CASE Look(p)
      <4>1. task' = task /\ phase[p] = "looking"
        BY <3>2 DEF Look, SaveBegins
      <4>2. task[p].at = "idle"
        BY <4>1 DEF TypeInv, TypeOK
      <4> QED BY <2>1, <4>1, <4>2, StartFrame DEF TypeInv, TypeOK
    <3>3. CASE SaveEnds(p) \/ Load(p) \/ Crash(p)
      <4>1. \/ task' = task /\ key' = key
            \/ /\ task'[p].at \in {"asking", "idle"}
               /\ \A q \in Procs \ {p} : task'[q] = task[q]
        BY <3>3 DEF SaveEnds, Load, Crash, Runs, Idle, TypeInv, TypeOK
      <4> QED BY <2>1, <4>1, StartFrame DEF TypeInv, TypeOK
    <3> QED BY <2>1, <3>1, <3>2, <3>3 DEF StartSteps
  <2> QED BY <2>1, <2>2, <2>3, StartFrame DEF DoneInv, DoneIsActive
<1>2. CASE \E p \in Procs : TaskSteps(p) \/ CallFails(p)
  <2>1. PICK p \in Procs : TaskSteps(p) \/ CallFails(p)
    BY <1>2
  <2>2. RegisterIsActive'
    <3>1. CASE chain' = chain
      BY <2>1, <3>1, TaskDone DEF DoneInv, RegisterIsActive
    <3>2. CASE SendRaw(p) /\ chain' # chain
      <4>1. task[p].nonce = Len(chain[key[p]])
        BY <3>2 DEF SendRaw
      <4>2. /\ key[p] \in Keys
            /\ \A l \in Keys \ {key[p]} : chain'[l] = chain[l]
            /\ Len(chain'[key[p]]) = Len(chain[key[p]]) + 1
            /\ \A j \in 1..Len(chain[key[p]]) : chain'[key[p]][j] = chain[key[p]][j]
            /\ chain'[key[p]][Len(chain[key[p]]) + 1] = [call |-> task[p].call, out |-> "pending"]
        BY <3>2, <4>1, RawSent
      <4>3. Len(chain[key[p]]) \in Nat
        BY <1>0, <4>2
      <4>4. ASSUME NEW l \in Keys, NEW i \in 1..Len(chain'[l]),
                   chain'[l][i].call = "register" /\ chain'[l][i].out = "success"
            PROVE  i \in 1..Len(chain[l]) /\ chain'[l][i] = chain[l][i]
        <5>1. CASE l = key[p] /\ i = Len(chain[l]) + 1
          BY <4>2, <4>4, <5>1
        <5>2. CASE l = key[p] /\ i # Len(chain[l]) + 1
          <6>1. i \in 1..Len(chain[l])
            BY <4>2, <4>3, <5>2
          <6> QED BY <4>2, <5>2, <6>1
        <5>3. CASE l # key[p]
          BY <4>2, <5>3
        <5> QED BY <5>1, <5>2, <5>3
      <4>5. active' = active
        BY <2>1, TaskDone
      <4> QED BY <4>4, <4>5 DEF DoneInv, RegisterIsActive
    <3> QED BY <2>1, <3>1, <3>2, TaskDone
  <2>3. DoneIsActive'
    <3>1. task'[p].at = "registered" => key[p] \in active
      <4> SUFFICES ASSUME task'[p].at = "registered" PROVE key[p] \in active
        OBVIOUS
      <4>1. /\ task[p].at = "waiting" /\ task[p].call = "register"
            /\ Receipt(p) \notin {"pending", "reverted"}
        BY <2>1, TaskDone
      <4>2. key[p] \in Keys /\ task[p].nonce \in Nat /\ task[p].nonce < Len(chain[key[p]])
            /\ chain[key[p]][task[p].nonce + 1].call = "register"
        BY <4>1, UnderIsUp DEF Under, TypeInv, TypeOK, Sends
      <4>3. task[p].nonce + 1 \in 1..Len(chain[key[p]])
        BY <1>0, <4>2
      <4>4. chain[key[p]][task[p].nonce + 1].out = "success"
        <5>1. chain[key[p]][task[p].nonce + 1] \in Tx
          BY <1>0, <4>2, <4>3
        <5> QED BY <4>1, <5>1 DEF Receipt, Tx, Outs
      <4> QED BY <4>2, <4>3, <4>4 DEF DoneInv, RegisterIsActive
    <3> QED BY <2>1, <3>1, TaskDone DEF DoneInv, DoneIsActive
  <2> QED BY <2>2, <2>3 DEF DoneInv
<1>3. CASE \E k \in Keys : Mine(k)
  <2>1. PICK k \in Keys : Mine(k)
    BY <1>3
  <2>2. PICK i \in 1..Len(chain[k]) :
          /\ \A j \in 1..Len(chain[k]) \ {i} : chain'[k][j] = chain[k][j]
          /\ chain'[k][i].out = IF Succeeds(k, chain[k][i].call) THEN "success" ELSE "reverted"
          /\ active' = IF chain[k][i].call = "register" /\ CanRegister(k)
                       THEN active \cup {k} ELSE active
    BY <2>1, Mined
  <2>3. chain'[k][i].call = "register" /\ chain'[k][i].out = "success" => k \in active'
    BY <2>1, <2>2, Mined DEF Succeeds
  <2>4. UNCHANGED <<task, key>> /\ active \subseteq active'
    BY <2>1, <2>2 DEF Mine
  <2>5. ASSUME NEW l \in Keys, NEW j \in 1..Len(chain'[l]),
               chain'[l][j].call = "register", chain'[l][j].out = "success"
        PROVE  l \in active'
    <3>1. CASE l = k /\ j = i
      BY <2>3, <2>5, <3>1
    <3>2. CASE ~(l = k /\ j = i)
      <4>1. j \in 1..Len(chain[l]) /\ chain'[l][j] = chain[l][j]
        BY <2>1, <2>2, <3>2, Mined
      <4> QED BY <2>4, <2>5, <4>1 DEF DoneInv, RegisterIsActive
    <3> QED BY <3>1, <3>2
  <2> QED BY <2>4, <2>5 DEF DoneInv, RegisterIsActive, DoneIsActive
<1>4. CASE \/ \E d \in Paths : Remove(d)
           \/ \E k \in Keys : Fund(k)
           \/ UNCHANGED vars
  BY <1>4 DEF Remove, Fund, vars, disk, money, DoneInv, RegisterIsActive, DoneIsActive
<1> QED BY <1>1, <1>2, <1>3, <1>4 DEF Next, StartSteps

\* A task that ends well leaves its address registered.
THEOREM DoneAlwaysActive == Spec => []DoneIsActive
<1>1. Init => DoneInv
  BY DEF Init, Idle, DoneInv, RegisterIsActive, DoneIsActive
<1>2. DoneInv => DoneIsActive
  BY DEF DoneInv
<1> QED BY <1>1, <1>2, InitTypeInv, TypeStep, DoneStep, PTL DEF Spec

(***************************************************************************)
(* The first registration of an address goes through five stages, and the  *)
(* one task that drives it knows which.                                    *)
(***************************************************************************)
Is(k, i, call, out) == chain[k][i].call = call /\ chain[k][i].out = out

Unsent(k) == Len(chain[k]) = 0 /\ k \notin allowed /\ k \notin active
Approving(k) ==
  /\ Len(chain[k]) = 1 /\ Is(k, 1, "approve", "pending")
  /\ k \notin allowed /\ k \notin active
Approved(k) ==
  /\ Len(chain[k]) = 1 /\ Is(k, 1, "approve", "success")
  /\ k \in allowed /\ k \notin active
Registering(k) ==
  /\ Len(chain[k]) = 2 /\ Is(k, 1, "approve", "success") /\ Is(k, 2, "register", "pending")
  /\ k \in allowed /\ k \in funded /\ k \notin active
Registered(k) ==
  /\ Len(chain[k]) = 2 /\ Is(k, 1, "approve", "success") /\ Is(k, 2, "register", "success")
  /\ k \notin allowed /\ k \in active

Clean(k) == Unsent(k) \/ Approving(k) \/ Approved(k) \/ Registering(k) \/ Registered(k)

RunsWith(p, k) == phase[p] = "up" /\ key[p] = k

Drives(p, k) ==
  /\ task[p].at = "asking" => task[p].call = "approve"
  /\ task[p].at \in Under \ {"waiting"} /\ task[p].call = "approve" => Unsent(k)
  /\ task[p].at \in Under \ {"waiting"} /\ task[p].call = "register" => Approved(k)
  /\ task[p].at = "sending" /\ task[p].call = "register" => k \in funded
  /\ task[p].at = "waiting" /\ task[p].call = "approve" =>
       task[p].nonce = 0 /\ (Approving(k) \/ Approved(k))
  /\ task[p].at = "waiting" /\ task[p].call = "register" =>
       task[p].nonce = 1 /\ (Registering(k) \/ Registered(k))

NeverTried(k) == Unsent(k) /\ \A p \in Procs : ~RunsWith(p, k)
TriedOnce(k) ==
  /\ Clean(k)
  /\ \A p \in Procs : RunsWith(p, k) => Drives(p, k)
  /\ \A p, q \in Procs : RunsWith(p, k) /\ RunsWith(q, k) => p = q

TryInv(k) == (tries[k] = 0 => NeverTried(k)) /\ (tries[k] = 1 => TriedOnce(k))
TriesInv == \A k \in Keys : TryInv(k)

\* An address whose transactions, membership and processes stay as they are.
LEMMA StageFrame ==
  ASSUME NEW k \in Keys, chain'[k] = chain[k],
         k \in allowed' <=> k \in allowed, k \in active' <=> k \in active,
         k \in funded => k \in funded'
  PROVE  /\ Unsent(k) => Unsent(k)'
         /\ Approving(k) => Approving(k)'
         /\ Approved(k) => Approved(k)'
         /\ Registering(k) => Registering(k)'
         /\ Registered(k) => Registered(k)'
BY DEF Unsent, Approving, Approved, Registering, Registered, Is

LEMMA TryFrame ==
  ASSUME NEW k \in Keys, TryInv(k), chain'[k] = chain[k], tries'[k] = tries[k],
         k \in allowed' <=> k \in allowed, k \in active' <=> k \in active,
         k \in funded => k \in funded',
         \A p \in Procs : RunsWith(p, k)' => RunsWith(p, k) /\ task'[p] = task[p]
  PROVE  TryInv(k)'
BY StageFrame DEF TryInv, NeverTried, TriedOnce, Clean, Drives

\* A process that comes up with a key tries once more to register it.
LEMMA RunsOnce ==
  ASSUME TypeInv, NEW p \in Procs, NEW k \in Keys, Runs(p, k), phase[p] # "up"
  PROVE  /\ tries' = [tries EXCEPT ![k] = @ + 1]
         /\ RunsWith(p, k)' /\ \A l \in Keys \ {k} : ~RunsWith(p, l)'
         /\ task'[p].at = "asking" /\ task'[p].call = "approve"
         /\ \A q \in Procs \ {p}, l \in Keys :
              RunsWith(q, l)' => RunsWith(q, l) /\ task'[q] = task[q]
BY DEF Runs, Goes, Idle, RunsWith, TypeInv, TypeOK

LEMMA TryRuns ==
  ASSUME TypeInv, TriesInv, NEW p \in Procs, NEW k \in Keys, Runs(p, k), phase[p] # "up",
         UNCHANGED <<chain, funded, allowed, active>>
  PROVE  TriesInv'
<1>1. tries \in [Keys -> Nat]
  BY DEF TypeInv, TypeOK
<1>2. ASSUME NEW l \in Keys \ {k} PROVE TryInv(l)'
  BY <1>1, RunsOnce, TryFrame DEF TriesInv
<1>3. TryInv(k)'
  <2>1. tries'[k] = tries[k] + 1 /\ tries[k] \in Nat
    BY <1>1, RunsOnce
  <2>2. CASE tries[k] = 0
    <3>1. Unsent(k) /\ \A q \in Procs : ~RunsWith(q, k)
      BY <2>2 DEF TriesInv, TryInv, NeverTried
    <3>2. Unsent(k)'
      BY <3>1, StageFrame
    <3>3. \A q \in Procs : RunsWith(q, k)' => q = p
      BY <3>1, RunsOnce
    <3>4. Drives(p, k)'
      BY <3>2, RunsOnce DEF Drives, Under
    <3> QED BY <2>1, <2>2, <3>2, <3>3, <3>4 DEF TryInv, TriedOnce, Clean
  <2>3. CASE tries[k] # 0
    BY <2>1, <2>3 DEF TryInv
  <2> QED BY <2>2, <2>3
<1> QED BY <1>2, <1>3 DEF TriesInv

LEMMA TryStart ==
  ASSUME TypeInv, TriesInv, NEW p \in Procs, StartSteps(p)
  PROVE  TriesInv'
<1>1. UNCHANGED <<chain, funded, allowed, active>>
  BY StartFrame
<1>2. CASE SaveEnds(p)
  <2>1. key[p] \in Keys /\ Runs(p, key[p]) /\ phase[p] # "up"
    BY <1>2 DEF SaveEnds, TypeInv, Known
  <2> QED BY <1>1, <2>1, TryRuns
<1>3. CASE Load(p) /\ Here(p) # Torn
  <2>1. Runs(p, Here(p)) /\ phase[p] # "up" /\ Here(p) # Absent
    BY <1>3 DEF Load, TypeInv, Known
  <2>2. Here(p) \in Keys
    BY <1>3, <2>1 DEF TypeInv, TypeOK, Here
  <2> QED BY <1>1, <2>1, <2>2, TryRuns
<1>4. CASE \/ Start(p) \/ Migrate(p) \/ CopyEnds(p) \/ Look(p) \/ Crash(p)
           \/ Load(p) /\ Here(p) = Torn
  <2>1. tries' = tries /\ phase'[p] # "up" /\ \A q \in Procs \ {p} : task'[q] = task[q]
    <3>1. CASE Start(p) \/ Crash(p)
      BY <3>1 DEF Start, Crash, Goes, TypeInv, TypeOK
    <3>2. CASE Migrate(p) \/ CopyEnds(p)
      BY <3>2 DEF Migrate, CopyEnds, Goes, past, TypeInv, TypeOK
    <3>3. CASE Look(p)
      BY <3>3 DEF Look, SaveBegins, Goes, TypeInv, TypeOK
    <3>4. CASE Load(p) /\ Here(p) = Torn
      BY <3>4 DEF Load, Goes, TypeInv, TypeOK
    <3> QED BY <1>4, <3>1, <3>2, <3>3, <3>4
  <2>2. \A q \in Procs \ {p} : phase'[q] = phase[q] /\ key'[q] = key[q]
    BY StartFrame DEF TypeInv, TypeOK
  <2>3. \A q \in Procs, k \in Keys :
          RunsWith(q, k)' => RunsWith(q, k) /\ task'[q] = task[q]
    BY <2>1, <2>2 DEF RunsWith
  <2> QED BY <1>1, <2>1, <2>3, TryFrame DEF TriesInv
<1> QED BY <1>2, <1>3, <1>4 DEF StartSteps

\* What a task that does not send becomes.
LEMMA TaskTo ==
  ASSUME TypeInv, NEW p \in Procs, NEW to, TaskGoes(p, to)
  PROVE  task'[p].at = to /\ task'[p].call = task[p].call /\ task'[p].nonce = task[p].nonce
BY DEF TaskGoes, TaskIs, TypeInv, TypeOK

LEMMA TryQuiet ==
  ASSUME TypeInv, NEW p \in Procs, NEW k \in Keys, TriedOnce(k), RunsWith(p, k),
         OnlyTask,
         Ask(p) \/ ReadNonce(p) \/ Estimate(p) \/ WaitForReceipt(p) \/ GivesUp(p) \/ CallFails(p)
  PROVE  Drives(p, k)'
<1>0. /\ key[p] = k /\ Drives(p, k) /\ Clean(k) /\ task[p].call \in Calls
      /\ chain \in [Keys -> Seq(Tx)]
  BY DEF TriedOnce, RunsWith, TypeInv, TypeOK, Tx, Calls, Outs
<1>1. /\ Unsent(k) => Unsent(k)'
      /\ Approved(k) => Approved(k)'
      /\ k \in funded => k \in funded'
  <2>1. UNCHANGED money
    BY DEF OnlyTask
  <2> QED BY <2>1, StageFrame DEF money
<1>2. CASE GivesUp(p) \/ CallFails(p)
  BY <1>2, TaskTo DEF GivesUp, CallFails, Drives, Under
<1>3. CASE Ask(p)
  <2>1. \/ TaskGoes(p, "skipped") \/ TaskGoes(p, "reading")
    BY <1>3 DEF Ask
  <2> QED BY <1>0, <1>1, <1>3, <2>1, TaskTo DEF Ask, Drives, Under
<1>4. CASE ReadNonce(p)
  <2>1. task'[p].at = "estimating" /\ task'[p].call = task[p].call
    BY <1>4 DEF ReadNonce, TaskIs, TypeInv, TypeOK
  <2> QED BY <1>0, <1>1, <1>4, <2>1 DEF ReadNonce, Drives, Under
<1>5. CASE Estimate(p)
  <2>1. CASE Succeeds(k, task[p].call)
    <3>1. TaskGoes(p, "sending")
      BY <1>0, <1>5, <2>1 DEF Estimate
    <3>2. task[p].call = "register" => k \in funded
      BY <2>1 DEF Succeeds, CanRegister
    <3> QED BY <1>0, <1>1, <1>5, <3>1, <3>2, TaskTo DEF Estimate, Drives, Under
  <2>2. CASE ~Succeeds(k, task[p].call)
    BY <1>0, <1>5, <2>2, TaskTo DEF Estimate, Drives, Under
  <2> QED BY <2>1, <2>2
<1>6. CASE WaitForReceipt(p)
  <2>1. CASE TaskGoes(p, "failed") \/ TaskGoes(p, "registered")
    BY <2>1, TaskTo DEF Drives, Under
  <2>2. CASE ~(TaskGoes(p, "failed") \/ TaskGoes(p, "registered"))
    <3>1. /\ task[p].at = "waiting" /\ task[p].call = "approve" /\ Receipt(p) # "pending"
          /\ TaskIs(p, [Idle EXCEPT !.at = "reading", !.call = "register"])
      BY <1>6, <2>2 DEF WaitForReceipt
    <3>2. Approved(k)
      BY <1>0, <3>1 DEF Drives, Receipt, Approving, Is
    <3>3. task'[p].at = "reading" /\ task'[p].call = "register"
      BY <3>1 DEF TaskIs, Idle, TypeInv, TypeOK
    <3> QED BY <1>1, <3>2, <3>3 DEF Drives, Under
  <2> QED BY <2>1, <2>2
<1> QED BY <1>2, <1>3, <1>4, <1>5, <1>6

\* A transaction that is sent brings the address to its next stage.
LEMMA TrySend ==
  ASSUME TypeInv, NEW p \in Procs, NEW k \in Keys, TriedOnce(k), RunsWith(p, k),
         SendRaw(p)
  PROVE  Drives(p, k)' /\ Clean(k)'
<1>0. /\ key[p] = k /\ Drives(p, k) /\ Clean(k) /\ task[p].call \in Calls
      /\ chain \in [Keys -> Seq(Tx)] /\ task[p].at = "sending"
      /\ UNCHANGED <<funded, allowed, active>>
  BY DEF SendRaw, TriedOnce, RunsWith, TypeInv, TypeOK, Tx, Calls, Outs
<1>1. CASE task[p].nonce = Len(chain[k])
  <2>0. PICK to \in {"waiting", "failed"} : TaskGoes(p, to)
    BY <1>0, <1>1, RawSent
  <2>1. /\ Len(chain'[k]) = Len(chain[k]) + 1
        /\ \A j \in 1..Len(chain[k]) : chain'[k][j] = chain[k][j]
        /\ chain'[k][Len(chain[k]) + 1] = [call |-> task[p].call, out |-> "pending"]
    BY <1>0, <1>1, RawSent
  <2>2. task'[p].at = to /\ task'[p].call = task[p].call /\ task'[p].nonce = Len(chain[k])
    BY <1>1, <2>0, TaskTo
  <2>3. CASE task[p].call = "approve"
    <3>1. Unsent(k)
      BY <1>0, <2>3 DEF Drives, Under
    <3>2. Approving(k)'
      BY <1>0, <2>1, <2>3, <3>1 DEF Unsent, Approving, Is
    <3>3. task'[p].nonce = 0
      BY <2>2, <3>1 DEF Unsent
    <3> QED BY <2>2, <2>3, <3>2, <3>3 DEF Drives, Clean, Under
  <2>4. CASE task[p].call = "register"
    <3>1. Approved(k) /\ k \in funded
      BY <1>0, <2>4 DEF Drives, Under
    <3>2. Registering(k)'
      BY <1>0, <2>1, <2>4, <3>1 DEF Approved, Registering, Is
    <3>3. task'[p].nonce = 1
      BY <2>2, <3>1 DEF Approved
    <3> QED BY <2>2, <2>4, <3>2, <3>3 DEF Drives, Clean, Under
  <2> QED BY <1>0, <2>3, <2>4 DEF Calls
<1>2. CASE task[p].nonce # Len(chain[k])
  <2>1. TaskGoes(p, "failed") /\ chain' = chain
    BY <1>0, <1>2 DEF SendRaw
  <2>2. Clean(k)'
    BY <1>0, <2>1, StageFrame DEF Clean
  <2> QED BY <2>1, <2>2, TaskTo DEF Drives, Under
<1> QED BY <1>1, <1>2

LEMMA TryTask ==
  ASSUME TypeInv, TriesInv, NEW p \in Procs, TaskSteps(p) \/ CallFails(p)
  PROVE  TriesInv'
<1>0. /\ UNCHANGED <<phase, key, funded, allowed, active, tries>>
      /\ \A q \in Procs \ {p} : task'[q] = task[q]
  BY TaskDone DEF past
<1>1. RunsWith(p, key[p]) /\ key[p] \in Keys
  BY UnderIsUp DEF TaskSteps, Ask, ReadNonce, Estimate, SendRaw, WaitForReceipt, GivesUp,
                   CallFails, Under, RunsWith
<1>2. ASSUME NEW l \in Keys \ {key[p]} PROVE TryInv(l)'
  <2>1. chain'[l] = chain[l]
    <3>1. CASE SendRaw(p) /\ task[p].nonce = Len(chain[key[p]])
      BY <3>1, RawSent
    <3>2. CASE ~(SendRaw(p) /\ task[p].nonce = Len(chain[key[p]]))
      BY <3>2, TaskDone DEF SendRaw
    <3> QED BY <3>1, <3>2
  <2>2. \A q \in Procs : RunsWith(q, l)' => RunsWith(q, l) /\ task'[q] = task[q]
    BY <1>0 DEF RunsWith
  <2> QED BY <1>0, <2>1, <2>2, TryFrame DEF TriesInv
<1>3. TryInv(key[p])'
  <2> DEFINE k == key[p]
  <2>1. tries[k] # 0
    BY <1>1 DEF TriesInv, TryInv, NeverTried
  <2>2. CASE tries[k] = 1
    <3>1. TriedOnce(k)
      BY <1>1, <2>2 DEF TriesInv, TryInv
    <3>2. Drives(p, k)' /\ Clean(k)'
      <4>1. CASE SendRaw(p)
        BY <1>0, <1>1, <3>1, <4>1, TrySend DEF RunsWith
      <4>2. CASE ~SendRaw(p)
        <5>1. OnlyTask
          BY <4>2 DEF TaskSteps, Ask, ReadNonce, Estimate, WaitForReceipt, GivesUp, CallFails
        <5>2. Drives(p, k)'
          BY <1>0, <1>1, <3>1, <4>2, <5>1, TryQuiet DEF TaskSteps
        <5>3. Clean(k)'
          BY <1>0, <1>1, <3>1, <5>1, StageFrame DEF OnlyTask, money, TriedOnce, Clean
        <5> QED BY <5>2, <5>3
      <4> QED BY <4>1, <4>2
    <3>3. \A q \in Procs : RunsWith(q, k)' => q = p
      BY <1>0, <1>1, <3>1 DEF TriedOnce, RunsWith
    <3> QED BY <1>0, <2>1, <3>2, <3>3 DEF TryInv, TriedOnce
  <2>3. CASE tries[k] # 1
    BY <1>0, <2>1, <2>3 DEF TryInv
  <2> QED BY <2>2, <2>3
<1> QED BY <1>0, <1>2, <1>3 DEF TriesInv

\* So does one that is mined.
LEMMA TryMine ==
  ASSUME TypeInv, TriesInv, NEW k \in Keys, Mine(k)
  PROVE  TriesInv'
<1>0. UNCHANGED <<phase, key, task, tries>>
  BY DEF Mine, past
<1>1. PICK i \in 1..Len(chain[k]) :
        /\ chain[k][i].out = "pending"
        /\ \A j \in 1..Len(chain[k]) \ {i} : chain'[k][j] = chain[k][j]
        /\ chain'[k][i].out = IF Succeeds(k, chain[k][i].call) THEN "success" ELSE "reverted"
        /\ allowed' = IF chain[k][i].call = "approve" THEN allowed \cup {k}
                      ELSE IF CanRegister(k) THEN allowed \ {k} ELSE allowed
        /\ active' = IF chain[k][i].call = "register" /\ CanRegister(k)
                     THEN active \cup {k} ELSE active
        /\ funded' = IF chain[k][i].call = "register" /\ CanRegister(k)
                     THEN funded \ {k} ELSE funded
  BY Mined
<1>2. /\ Len(chain'[k]) = Len(chain[k]) /\ \A l \in Keys \ {k} : chain'[l] = chain[l]
      /\ \A j \in 1..Len(chain[k]) : chain'[k][j].call = chain[k][j].call
  BY Mined
<1>3. ASSUME NEW l \in Keys \ {k} PROVE TryInv(l)'
  <2>1. \A q \in Procs : RunsWith(q, l)' => RunsWith(q, l) /\ task'[q] = task[q]
    BY <1>0 DEF RunsWith
  <2> QED BY <1>0, <1>1, <1>2, <2>1, TryFrame DEF TriesInv
<1>4. TryInv(k)'
  <2>1. tries[k] # 0
    BY <1>1 DEF TriesInv, TryInv, NeverTried, Unsent
  <2>2. CASE tries[k] = 1
    <3>1. TriedOnce(k)
      BY <2>2 DEF TriesInv, TryInv
    <3>2. \/ Approving(k) /\ i = 1
          \/ Registering(k) /\ i = 2
      BY <1>1, <3>1 DEF TriedOnce, Clean, Unsent, Approving, Approved, Registering,
                        Registered, Is
    <3>3. CASE Approving(k) /\ i = 1
      <4>1. Approved(k)'
        BY <1>1, <1>2, <3>3 DEF Approving, Approved, Is, Succeeds
      <4>2. ASSUME NEW q \in Procs, RunsWith(q, k) PROVE Drives(q, k)'
        <5>1. Drives(q, k)
          BY <3>1, <4>2 DEF TriedOnce
        <5> QED BY <1>0, <1>1, <3>3, <4>1, <5>1
                DEF Drives, Approving, Approved, Unsent, Registering, Registered, Is
      <4> QED BY <1>0, <2>1, <3>1, <4>1, <4>2 DEF TryInv, TriedOnce, Clean, RunsWith
    <3>4. CASE Registering(k) /\ i = 2
      <4>1. CanRegister(k)
        BY <3>4 DEF Registering, CanRegister
      <4>2. Registered(k)'
        BY <1>1, <1>2, <3>4, <4>1 DEF Registering, Registered, Is, Succeeds
      <4>3. ASSUME NEW q \in Procs, RunsWith(q, k) PROVE Drives(q, k)'
        <5>1. Drives(q, k)
          BY <3>1, <4>3 DEF TriedOnce
        <5> QED BY <1>0, <1>1, <3>4, <4>2, <5>1
                DEF Drives, Approving, Approved, Unsent, Registering, Is, Under
      <4> QED BY <1>0, <2>1, <3>1, <4>2, <4>3 DEF TryInv, TriedOnce, Clean, RunsWith
    <3> QED BY <3>2, <3>3, <3>4
  <2>3. CASE tries[k] # 1
    BY <1>0, <2>1, <2>3 DEF TryInv
  <2> QED BY <2>2, <2>3
<1> QED BY <1>3, <1>4 DEF TriesInv

LEMMA TriesStep == TypeInv /\ TriesInv /\ [Next]_vars => TriesInv'
<1> SUFFICES ASSUME TypeInv, TriesInv, [Next]_vars PROVE TriesInv'
  OBVIOUS
<1>1. CASE \/ \E d \in Paths : Remove(d)
           \/ \E k \in Keys : Fund(k)
           \/ UNCHANGED vars
  <2>1. UNCHANGED <<chain, allowed, active, tries, phase, key, task>> /\ funded \subseteq funded'
    BY <1>1 DEF Remove, Fund, vars, disk, money, past
  <2> QED BY <2>1, TryFrame DEF TriesInv, RunsWith
<1> QED BY <1>1, TryStart, TryTask, TryMine DEF Next, StartSteps

\* The first registration of an address costs it its stake and nothing else.
THEOREM FirstTryAlwaysClean == Spec => []FirstTryIsClean
<1>1. Init => TriesInv
  BY DEF Init, TriesInv, TryInv, NeverTried, Unsent, RunsWith
<1>2. TypeInv /\ TriesInv => FirstTryIsClean
  <2> SUFFICES ASSUME TriesInv, NEW k \in Keys, tries[k] = 1
               PROVE  /\ \A i \in 1..Len(chain[k]) : chain[k][i].out # "reverted"
                      /\ k \in active => k \notin allowed
    BY DEF FirstTryIsClean
  <2>1. Clean(k)
    BY DEF TriesInv, TryInv, TriedOnce
  <2>2. \A i \in 1..Len(chain[k]) : chain[k][i].out # "reverted"
    BY <2>1 DEF Clean, Unsent, Approving, Approved, Registering, Registered, Is
  <2> QED BY <2>1, <2>2 DEF Clean, Unsent, Approving, Approved, Registering, Registered
<1> QED BY <1>1, <1>2, InitTypeInv, TypeStep, TriesStep, PTL DEF Spec
=============================================================================
