----------------------------- MODULE NodeStartup -----------------------------
(***************************************************************************)
(* How a node process comes to its identity, and registers it on chain.    *)
(*                                                                         *)
(* load_or_generate decides by looking at the disk several times: a target *)
(* file that is missing is copied from the legacy one, what is then there  *)
(* is loaded, and what is still missing is generated and saved.  A write   *)
(* truncates the file before its content is there.  Processes may share an *)
(* identity file (scripts/dev.sh starts two nodes of one home directory).  *)
(*                                                                         *)
(* A running process tries once to register its address: approve, wait,    *)
(* register, wait.  Every call may fail, and a crash loses the task but    *)
(* not the transactions it has sent.  The transactions of one address are  *)
(* mined in the order of their nonces.                                     *)
(***************************************************************************)
EXTENDS Integers, FiniteSets, Sequences

CONSTANTS
  Procs,        \* node processes of one machine
  Paths,        \* where they are told to keep their identity
  Keys,
  Absent, Torn, \* of a file: not there, or not (yet) all of it
  NoKey,
  MaxStarts     \* of all of them together

ASSUME StartupAssumption ==
  /\ MaxStarts \in Nat \ {0}
  /\ Absent # Torn /\ Keys \cap {Absent, Torn, NoKey} = {}

VARIABLES
  path, legacy,  \* of a process; the legacy identity file of the machine
  file,          \* what an identity file holds
  phase, key,    \* of a process: where it is in main, the identity it holds
  task,          \* its auto-registration
  chain,         \* the transactions of an address, by nonce
  funded, allowed, active,  \* addresses with a stake's USDC; which approved
                            \* it; which are registered
  made, raced, cut, starts, tries  \* history: keys that were generated; paths
                 \* on which startups overlapped, or a write was cut off;
                 \* how often
                 \* a process was started; registrations tried for an address

disk == <<path, legacy, file>>
past == <<made, raced, cut, starts, tries>>
money == <<chain, funded, allowed, active>>
vars == <<disk, phase, key, task, money, past>>

Idle == [at |-> "idle", call |-> "approve", nonce |-> 0]

Init ==
  /\ path \in [Procs -> Paths]
  /\ legacy \in Keys \cup {Absent}
  /\ file = [d \in Paths |-> Absent]
  /\ phase = [p \in Procs |-> "down"]
  /\ key = [p \in Procs |-> NoKey]
  /\ task = [p \in Procs |-> Idle]
  /\ chain = [k \in Keys |-> <<>>]
  /\ funded = {} /\ allowed = {} /\ active = {}
  /\ made = IF legacy = Absent THEN {} ELSE {legacy}
  /\ raced = {} /\ cut = {}
  /\ starts = 0
  /\ tries = [k \in Keys |-> 0]

---------------------------------------------------------------------------
(* The identity file.                                                      *)

Startup == {"migrating", "copying", "looking", "loading", "saving"}
Here(p) == file[path[p]]
Goes(p, to) == phase' = [phase EXCEPT ![p] = to]

Start(p) ==
  /\ phase[p] \in {"down", "unreadable"}
  /\ starts < MaxStarts
  /\ Goes(p, "migrating")
  /\ starts' = starts + 1
  /\ raced' = IF \E q \in Procs \ {p} : path[q] = path[p] /\ phase[q] \in Startup
              THEN raced \cup {path[p]} ELSE raced
  /\ UNCHANGED <<disk, key, task, money, made, cut, tries>>

\* migrate_legacy_identity: the copy truncates the target first.
Migrate(p) ==
  /\ phase[p] = "migrating"
  /\ IF Here(p) = Absent /\ legacy # Absent
     THEN file' = [file EXCEPT ![path[p]] = Torn] /\ Goes(p, "copying")
     ELSE Goes(p, "looking") /\ UNCHANGED file
  /\ UNCHANGED <<path, legacy, key, task, money, past>>

CopyEnds(p) ==
  /\ phase[p] = "copying"
  /\ file' = [file EXCEPT ![path[p]] = legacy]
  /\ Goes(p, "looking")
  /\ UNCHANGED <<path, legacy, key, task, money, past>>

\* save: the write truncates what is there first.
SaveBegins(p) ==
  /\ file' = [file EXCEPT ![path[p]] = Torn]
  /\ Goes(p, "saving")
  /\ \E k \in Keys \ made : key' = [key EXCEPT ![p] = k] /\ made' = made \cup {k}

\* load_or_generate: what is there is loaded, else a fresh identity is saved.
Look(p) ==
  /\ phase[p] = "looking"
  /\ IF Here(p) # Absent
     THEN Goes(p, "loading") /\ UNCHANGED <<file, key, made>> ELSE SaveBegins(p)
  /\ UNCHANGED <<path, legacy, task, money, raced, cut, starts, tries>>

\* The process is up, and spawn_register's task runs beside its handlers.
Runs(p, k) ==
  /\ Goes(p, "up")
  /\ key' = [key EXCEPT ![p] = k]
  /\ task' = [task EXCEPT ![p] = [Idle EXCEPT !.at = "asking"]]
  /\ tries' = [tries EXCEPT ![k] = @ + 1]

SaveEnds_IgnoresError(p) ==
  /\ phase[p] = "saving"
  /\ file' \in {file, [file EXCEPT ![path[p]] = key[p]]}
  /\ Runs(p, key[p])
  /\ UNCHANGED <<path, legacy, money, made, raced, cut, starts>>

SaveEnds(p) ==
  /\ phase[p] = "saving"
  /\ file' = [file EXCEPT ![path[p]] = key[p]]
  /\ Runs(p, key[p])
  /\ UNCHANGED <<path, legacy, money, made, raced, cut, starts>>

\* load: main returns the error of a file that cannot be parsed.
Load(p) ==
  /\ phase[p] = "loading"
  /\ IF Here(p) = Torn
     THEN Goes(p, "unreadable") /\ UNCHANGED <<key, task, tries>>
     ELSE Runs(p, Here(p))
  /\ UNCHANGED <<disk, money, made, raced, cut, starts>>

\* The process ends, at any point, also because a write fails; what it was
\* writing stays as it is.
Crash(p) ==
  /\ phase[p] \in Startup \cup {"up"}
  /\ Goes(p, "down")
  /\ key' = [key EXCEPT ![p] = NoKey]
  /\ task' = [task EXCEPT ![p] = Idle]
  /\ cut' = IF phase[p] \in {"copying", "saving"} THEN cut \cup {path[p]} ELSE cut
  /\ UNCHANGED <<disk, money, made, raced, starts, tries>>

\* The operator removes an identity file that no node can read.
Remove(d) ==
  /\ file[d] = Torn
  /\ \E p \in Procs : path[p] = d /\ phase[p] = "unreadable"
  /\ \A p \in Procs : path[p] = d => phase[p] \in {"down", "unreadable"}
  /\ file' = [file EXCEPT ![d] = Absent]
  /\ UNCHANGED <<path, legacy, phase, key, task, money, past>>

---------------------------------------------------------------------------
(* The chain, as far as the registration uses it.                          *)

\* The operator sends a node's address the USDC of a stake.
Fund(k) ==
  /\ k \notin funded \cup active
  /\ \E p \in Procs : phase[p] = "up" /\ key[p] = k
  /\ funded' = funded \cup {k}
  /\ UNCHANGED <<disk, phase, key, task, chain, allowed, active, past>>

\* NodeRegistry.register: its own guard, and the transfer of the stake.
CanRegister(k) == k \notin active /\ k \in funded \cap allowed

Succeeds(k, call) == call = "approve" \/ CanRegister(k)

\* The pending transaction of the lowest nonce of an address is mined.
Mine(k) ==
  /\ \E i \in 1..Len(chain[k]) :
       LET call == chain[k][i].call IN
       /\ chain[k][i].out = "pending"
       /\ \A j \in 1..(i - 1) : chain[k][j].out # "pending"
       /\ chain' = [chain EXCEPT ![k][i].out =
                      IF Succeeds(k, call) THEN "success" ELSE "reverted"]
       /\ allowed' = IF call = "approve" THEN allowed \cup {k}
                     ELSE IF CanRegister(k) THEN allowed \ {k} ELSE allowed
       /\ active' = IF call = "register" /\ CanRegister(k)
                    THEN active \cup {k} ELSE active
       /\ funded' = IF call = "register" /\ CanRegister(k)
                    THEN funded \ {k} ELSE funded
  /\ UNCHANGED <<disk, phase, key, task, past>>

---------------------------------------------------------------------------
(* ensure_registered.                                                      *)

TaskIs(p, t) == task' = [task EXCEPT ![p] = t]
TaskGoes(p, to) == TaskIs(p, [task[p] EXCEPT !.at = to])
OnlyTask == UNCHANGED <<disk, phase, key, money, past>>
Under == {"asking", "reading", "estimating", "sending", "waiting"}

\* isActive, against the latest block.
Ask(p) ==
  /\ task[p].at = "asking"
  /\ TaskGoes(p, IF key[p] \in active THEN "skipped" ELSE "reading")
  /\ OnlyTask

\* send_tx: the nonce counts what is pending.
ReadNonce(p) ==
  /\ task[p].at = "reading"
  /\ TaskIs(p, [task[p] EXCEPT !.at = "estimating", !.nonce = Len(chain[key[p]])])
  /\ OnlyTask

Estimate_Default(p) ==
  /\ task[p].at = "estimating"
  /\ TaskGoes(p, "sending")
  /\ OnlyTask

\* estimateGas fails where the call would revert.
Estimate(p) ==
  /\ task[p].at = "estimating"
  /\ TaskGoes(p, IF Succeeds(key[p], task[p].call) THEN "sending" ELSE "failed")
  /\ OnlyTask

\* A nonce that is taken by now is refused.  The answer to a transaction that
\* was accepted may be lost: the task fails, and the transaction is pending.
SendRaw(p) ==
  /\ task[p].at = "sending"
  /\ LET k == key[p] IN
     IF task[p].nonce = Len(chain[k])
     THEN /\ chain' = [chain EXCEPT ![k] = Append(@, [call |-> task[p].call, out |-> "pending"])]
          /\ \E to \in {"waiting", "failed"} : TaskGoes(p, to)
     ELSE TaskGoes(p, "failed") /\ UNCHANGED chain
  /\ UNCHANGED <<disk, phase, key, funded, allowed, active, past>>

Receipt(p) == chain[key[p]][task[p].nonce + 1].out

\* wait_for_receipt: a revert is an error.
WaitForReceipt(p) ==
  /\ task[p].at = "waiting"
  /\ Receipt(p) # "pending"
  /\ IF Receipt(p) = "reverted" THEN TaskGoes(p, "failed")
     ELSE IF task[p].call = "approve"
     THEN TaskIs(p, [Idle EXCEPT !.at = "reading", !.call = "register"])
     ELSE TaskGoes(p, "registered")
  /\ OnlyTask

GivesUp_Polls(p) ==
  /\ task[p].at = "waiting"
  /\ Receipt(p) = "pending"
  /\ UNCHANGED vars

\* wait_for_receipt gives up after TX_TIMEOUT, but not before.
GivesUp(p) ==
  /\ task[p].at = "waiting"
  /\ Receipt(p) = "pending"
  /\ TaskGoes(p, "failed")
  /\ OnlyTask

\* A call of the task fails: the warning is all that is left of it.
CallFails(p) ==
  /\ task[p].at \in Under
  /\ TaskGoes(p, "failed")
  /\ OnlyTask

TaskSteps(p) ==
  Ask(p) \/ ReadNonce(p) \/ Estimate(p) \/ SendRaw(p) \/ WaitForReceipt(p) \/ GivesUp(p)

Next ==
  \/ \E p \in Procs : Start(p) \/ Migrate(p) \/ CopyEnds(p) \/ Look(p) \/ SaveEnds(p)
                      \/ Load(p) \/ Crash(p) \/ TaskSteps(p) \/ CallFails(p)
  \/ \E d \in Paths : Remove(d)
  \/ \E k \in Keys : Fund(k) \/ Mine(k)

Spec == Init /\ [][Next]_vars /\ \A p \in Procs : WF_vars(TaskSteps(p))

---------------------------------------------------------------------------
(* Properties.                                                             *)

\* Files, phases, tasks and transactions keep their types, and a registration
\* runs exactly in a process that is up.
TypeOK ==
  /\ path \in [Procs -> Paths]
  /\ legacy \in Keys \cup {Absent}
  /\ file \in [Paths -> Keys \cup {Absent, Torn}]
  /\ phase \in [Procs -> Startup \cup {"down", "unreadable", "up"}]
  /\ key \in [Procs -> Keys \cup {NoKey}]
  /\ task \in [Procs -> [at : Under \cup {"idle", "skipped", "registered", "failed"},
                         call : {"approve", "register"}, nonce : Nat]]
  /\ chain \in [Keys -> Seq([call : {"approve", "register"},
                             out : {"pending", "success", "reverted"}])]
  /\ funded \subseteq Keys /\ allowed \subseteq Keys /\ active \subseteq Keys
  /\ made \subseteq Keys /\ raced \subseteq Paths /\ cut \subseteq Paths
  /\ starts \in 0..MaxStarts
  /\ tries \in [Keys -> Nat]
  /\ \A p \in Procs : task[p].at # "idle" <=> phase[p] = "up"

\* An identity can be read from the disk again.
Recoverable(k) == k = legacy \/ \E d \in Paths : file[d] = k

\* What holds the operator's USDC - an address that was funded, or that has
\* its stake in the registry - is an identity that a restart finds again,
\* unless two processes that shared a file came up at the same time.
StakesRecoverable ==
  raced = {} => \A k \in funded \cup active : Recoverable(k)

\* With a legacy identity there is nothing to race for.
MigrantsKeepTheirKey ==
  legacy # Absent => \A p \in Procs : phase[p] = "up" => key[p] = legacy

\* A node refuses to start over an unreadable file only after a write was cut
\* off by a crash, or while another process was writing.
UnreadableHasCause ==
  \A p \in Procs : phase[p] = "unreadable" => path[p] \in raced \cup cut

\* A task that ends without an error leaves the address registered.
DoneIsActive ==
  \A p \in Procs : task[p].at \in {"skipped", "registered"} => key[p] \in active

\* The first registration of an address costs it exactly its stake: nothing
\* reverts, and no allowance is left behind once it is through.  Only where
\* another try got in between - a restart, a second node of the address - is a
\* transaction sent in vain.
FirstTryIsClean ==
  \A k \in Keys : tries[k] = 1 =>
    /\ \A i \in 1..Len(chain[k]) : chain[k][i].out # "reverted"
    /\ k \in active => k \notin allowed

\* Every registration comes to an end, whatever becomes of its transactions.
TasksEnd == \A p \in Procs : task[p].at \in Under ~> task[p].at \notin Under
=============================================================================
