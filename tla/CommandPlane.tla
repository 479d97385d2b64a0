---------------------------- MODULE CommandPlane ----------------------------
(* The durable command plane of one chat: composers append command entries  *)
(* to the session document, replicas of the document merge through the edge *)
(* room, and the device that hosts the chat drains the entries: it claims   *)
(* each one in its durable ledger BEFORE executing it and then writes the   *)
(* outcome into the document (engine/src/doc_host.rs, doc/src/commands.rs,  *)
(* doc/src/schema.rs, sync/src/store.rs, engine/src/workspace_host.rs).     *)
(*                                                                          *)
(* A replica is a set of operations, so a merge is a union. The position of *)
(* a command in the Loro list is abstracted to what causality fixes: an     *)
(* entry comes after the ones its author could see.                         *)
EXTENDS CommandLedger, FiniteSets, Sequences

CONSTANTS
    Devices,        \* the engines that replicate the chat
    Commands,       \* command ids
    Composers,      \* the devices that queue commands in this instance
    QueuedKinds,    \* the kinds composers queue in this instance
    NoHost,         \* the chat has no workspace row
    NoCommand,      \* an assistant entry, or no command in hand
    InitialHost,    \* the chat's row when the behaviour starts, or NoHost
    Skew,           \* clock skew of each device
    MaxTime,        \* bound on the clock
    Mortal,         \* the devices whose engine may crash
    MaxCrashes,     \* bound on engine crashes
    MaxRows,        \* bound on writes of the chat's workspace row
    MaxAssistant,   \* bound on the transcript position of an assistant entry
    MaxPosition     \* bound on transcript positions

ASSUME PlaneAssumption ==
    /\ Composers \subseteq Devices
    /\ QueuedKinds \subseteq Kinds
    /\ NoHost \notin Devices
    /\ InitialHost \in Devices \cup {NoHost}
    /\ NoCommand \notin Commands
    /\ Skew \in [Devices -> Nat]
    /\ Mortal \subseteq Devices
    /\ {MaxTime, MaxCrashes, MaxRows, MaxAssistant, MaxPosition} \subseteq Nat

Statuses == {"applied", "rejected", "expired", "superseded"}
Outcome == [cmd : Commands, by : Devices, status : Statuses]

(* A transcript entry: its position, the device that wrote it, the turn it  *)
(* belongs to and, for a user entry, the command that carried it.           *)
Message == [pos : Nat, by : Devices, turn : Nat,
            cmd : Commands \cup {NoCommand}]
Replica == [cmds : SUBSET Commands, outs : SUBSET Outcome,
            msgs : SUBSET Message]
EmptyReplica == [cmds |-> {}, outs |-> {}, msgs |-> {}]

Merge(a, b) == [cmds |-> a.cmds \cup b.cmds,
                outs |-> a.outs \cup b.outs,
                msgs |-> a.msgs \cup b.msgs]

(* The operation one commit adds to a replica.                              *)
CommandOp(c) == [cmds |-> {c}, outs |-> {}, msgs |-> {}]
OutcomeOp(o) == [cmds |-> {}, outs |-> {o}, msgs |-> {}]
MessageOp(m) == [cmds |-> {}, outs |-> {}, msgs |-> {m}]

Entry == [id : Commands, kind : Kinds, by : Devices, issuedAt : Nat,
          basedOn : Message \cup {NoMessage}, after : SUBSET Commands]

DrainSteps == {"idle", "scan", "decided", "executed"}
Drain == [step : DrainSteps, cmd : Commands \cup {NoCommand},
          verdict : Dispositions, status : Statuses]
IdleDrain == [step |-> "idle", cmd |-> NoCommand,
              verdict |-> "skip", status |-> "applied"]
ScanDrain == [step |-> "scan", cmd |-> NoCommand,
              verdict |-> "skip", status |-> "applied"]

VARIABLES
    now,        \* true time
    entries,    \* every command entry queued so far: immutable records
    room,       \* the edge room's copy of the document
    doc,        \* doc[d]: the open replica of device d
    disk,       \* disk[d]: the last snapshot of d, read by the next open
    opened,     \* the devices whose engine is up with the chat document open
    kick,       \* devices whose document changed since chat_task last looked
    drain,      \* drain[d]: where the drain pass of d's chat_task stands
    ledger,     \* ledger[d]: processed_commands, durable
    rows,       \* the successive values of the chat row's deviceId
    rowSeen,    \* rowSeen[d]: how many of them d's workspace replica has seen
    live,       \* live[d]: the turn that a run on d is streaming, 0 if none
    turns,      \* turns started so far
    crashes,    \* crashes so far
    executions  \* executions[d][c]: times d has begun executing c

vars == <<now, entries, room, doc, disk, opened, kick, drain, ledger, rows,
          rowSeen, live, turns, crashes, executions>>
docVars == <<room, disk, opened>>
runVars == <<live, turns>>
rowVars == <<rows, rowSeen>>

TypeOK ==
    /\ now \in Nat
    /\ entries \subseteq Entry
    /\ room \in Replica
    /\ doc \in [Devices -> Replica]
    /\ disk \in [Devices -> Replica]
    /\ opened \subseteq Devices
    /\ kick \subseteq Devices
    /\ drain \in [Devices -> Drain]
    /\ \A d \in Devices : drain[d].step \in {"decided", "executed"} =>
                             drain[d].cmd \in Commands
    /\ ledger \in [Devices -> SUBSET Commands]
    /\ rows \in Seq(Devices \cup {NoHost})
    /\ rowSeen \in [Devices -> 1..Len(rows)]
    /\ live \in [Devices -> Nat]
    /\ turns \in Nat
    /\ crashes \in Nat
    /\ executions \in [Devices -> [Commands -> Nat]]

Init ==
    /\ now = 0
    /\ entries = {}
    /\ room = EmptyReplica
    /\ doc = [d \in Devices |-> EmptyReplica]
    /\ disk = [d \in Devices |-> EmptyReplica]
    /\ opened = {}
    /\ kick = {}
    /\ drain = [d \in Devices |-> IdleDrain]
    /\ ledger = [d \in Devices |-> {}]
    /\ rows = <<InitialHost>>
    /\ rowSeen = [d \in Devices |-> 1]
    /\ live = [d \in Devices |-> 0]
    /\ turns = 0
    /\ crashes = 0
    /\ executions = [d \in Devices |-> [c \in Commands |-> 0]]

----------------------------------------------------------------------------
(* Views of the state *)

NowAt(d) == now + Skew[d]

(* Status Pending: no outcome has been written over it in this replica.     *)
PendingIn(replica) ==
    {c \in replica.cmds : ~\E o \in replica.outs : o.cmd = c}

PendingEntries(replica) == {e \in entries : e.id \in PendingIn(replica)}

(* The last transcript entry; concurrent writers may tie.                   *)
LastMessages(msgs) ==
    IF msgs = {} THEN {NoMessage}
    ELSE {m \in msgs : \A other \in msgs : other.pos <= m.pos}

NextPositions(msgs) ==
    {p \in 1..MaxPosition : /\ \A m \in msgs : m.pos < p
                            /\ p = 1 \/ \E m \in msgs : m.pos = p - 1}

(* The change subscription wakes chat_task.                                 *)
NotifyNever(d) == UNCHANGED kick
Notify(d) == kick' = IF doc'[d] = doc[d] THEN kick ELSE kick \cup {d}

RowAt(d) == rows[rowSeen[d]]
IsHost(d) == RowAt(d) \in {d, NoHost}

(* The candidates of a pass that leaves the ledger to evaluate_command.     *)
PendingCandidates(d) ==
    LET eligible == PendingEntries(doc[d])
    IN  {e \in eligible : \A other \in eligible : other.id \notin e.after}

(* Pending, not in the ledger, and first of these in document order.        *)
DrainCandidates(d) ==
    LET eligible == {e \in PendingEntries(doc[d]) : e.id \notin ledger[d]}
    IN  {e \in eligible : \A other \in eligible : other.id \notin e.after}

----------------------------------------------------------------------------
(* The document and its replicas *)

(* DocHost::open: the first open after a start reads the last snapshot. A   *)
(* user, a nudge or the recovery sweep may open the chat at any time.       *)
Open(d) ==
    /\ d \notin opened
    /\ opened' = opened \cup {d}
    /\ doc' = [doc EXCEPT ![d] = disk[d]]
    /\ kick' = kick \cup {d}
    /\ UNCHANGED <<now, entries, room, disk, drain, ledger, rowVars, runVars,
                   crashes, executions>>

(* DocHost::queue_command (the nudge it may post only lets another device   *)
(* open the chat, which Open allows at any time).                           *)
QueueCommand(d) ==
    /\ d \in opened \cap Composers
    /\ \E c \in Commands, k \in QueuedKinds,
          m \in LastMessages(doc[d].msgs) :
         /\ \A e \in entries : e.id # c
         /\ entries' = entries \cup
               {[id |-> c, kind |-> k, by |-> d, issuedAt |-> NowAt(d),
                 basedOn |-> m, after |-> doc[d].cmds]}
         /\ doc' = [doc EXCEPT ![d] = Merge(doc[d], CommandOp(c))]
    /\ kick' = kick \cup {d}
    /\ UNCHANGED <<now, docVars, drain, ledger, rowVars, runVars, crashes,
                   executions>>

(* The room client sends what the edge misses, and imports what it missed.  *)
Push(d) ==
    /\ d \in opened
    /\ room' = Merge(room, doc[d])
    /\ UNCHANGED <<now, entries, doc, disk, opened, kick, drain, ledger,
                   rowVars, runVars, crashes, executions>>

Pull(d) ==
    /\ d \in opened
    /\ doc' = [doc EXCEPT ![d] = Merge(doc[d], room)]
    /\ Notify(d)
    /\ UNCHANGED <<now, entries, docVars, drain, ledger, rowVars, runVars,
                   crashes, executions>>

(* save_snapshot, on chat_task's one second debounce. A snapshot that no    *)
(* later open can read is left out.                                         *)
SaveSnapshot(d) ==
    /\ d \in opened \cap Mortal
    /\ crashes < MaxCrashes
    /\ disk' = [disk EXCEPT ![d] = doc[d]]
    /\ UNCHANGED <<now, entries, room, doc, opened, kick, drain, ledger,
                   rowVars, runVars, crashes, executions>>

----------------------------------------------------------------------------
(* drain_commands: one pass of chat_task *)

(* The host test is made once, on entry to the pass.                        *)
BeginDrain(d) ==
    /\ d \in opened \cap kick
    /\ drain[d].step = "idle"
    /\ kick' = kick \ {d}
    /\ drain' = [drain EXCEPT ![d] = IF IsHost(d) THEN ScanDrain
                                                      ELSE IdleDrain]
    /\ UNCHANGED <<now, entries, doc, docVars, ledger, rowVars, runVars,
                   crashes, executions>>

EndDrain(d) ==
    /\ d \in opened
    /\ drain[d].step = "scan"
    /\ DrainCandidates(d) = {}
    /\ drain' = [drain EXCEPT ![d] = IdleDrain]
    /\ UNCHANGED <<now, entries, doc, docVars, kick, ledger, rowVars, runVars,
                   crashes, executions>>

(* mark_processed: the claim is durable before anything else happens.       *)
ClaimOnlySettled(d, c, verdict) ==
    ledger[d] \cup (IF verdict = "execute" THEN {} ELSE {c})
ClaimOnlyExecuted(d, c, verdict) ==
    ledger[d] \cup (IF verdict = "execute" THEN {c} ELSE {})
MarkProcessed(d, c, verdict) == ledger[d] \cup {c}

(* Pick the first candidate, evaluate it, and claim it in the ledger. Ids   *)
(* of transcript entries stand in for turn ids: the last one is "current",  *)
(* every other one is "past".                                               *)
Decide(d) ==
    /\ d \in opened
    /\ drain[d].step = "scan"
    /\ \E e \in DrainCandidates(d), m \in LastMessages(doc[d].msgs) :
         LET cx == [processed |-> ledger[d], now |-> NowAt(d),
                    pending |-> PendingEntries(doc[d]),
                    current |-> m, past |-> doc[d].msgs]
             verdict == EvaluateCommand(e, cx)
         IN  /\ ledger' = [ledger EXCEPT ![d] = MarkProcessed(d, e.id, verdict)]
             /\ drain' = [drain EXCEPT ![d] =
                            [step |-> "decided", cmd |-> e.id,
                             verdict |-> verdict, status |-> "applied"]]
    /\ UNCHANGED <<now, entries, doc, docVars, kick, rowVars, runVars, crashes,
                   executions>>

(* A prompt reaches the run: as a steer of the live turn, or as a new turn. *)
(* The user entry is written under the command's message id, once.          *)
DeliverPrompt(d, c) ==
    \E t \in {live[d], turns + 1} \ {0} :
        /\ live' = [live EXCEPT ![d] = t]
        /\ turns' = IF t = turns + 1 THEN t ELSE turns
        /\ IF \E m \in doc[d].msgs : m.cmd = c
           THEN doc' = doc
           ELSE \E p \in NextPositions(doc[d].msgs) :
                  doc' = [doc EXCEPT ![d] = Merge(doc[d], MessageOp(
                            [pos |-> p, by |-> d, turn |-> t, cmd |-> c]))]

(* claim_chat: a run for a chat without a row creates the row.              *)
ClaimChat(d) ==
    IF RowAt(d) = NoHost
    THEN /\ rows' = Append(rows, d)
         /\ rowSeen' = [rowSeen EXCEPT ![d] = Len(rows) + 1]
    ELSE UNCHANGED rowVars

Executed(d, status) ==
    drain' = [drain EXCEPT ![d] = [step |-> "executed", cmd |-> drain[d].cmd,
                                   verdict |-> "execute", status |-> status]]
Reject(d) == Executed(d, "rejected") /\ UNCHANGED <<doc, runVars, rowVars>>
Apply(d) == Executed(d, "applied")

(* A dispatch that finds no harness fails before it writes anything; by     *)
(* then it has stopped the run it was to replace.                           *)
DispatchFails(d) ==
    /\ Executed(d, "rejected")
    /\ live' = [live EXCEPT ![d] = 0]
    /\ UNCHANGED <<doc, turns>>

ExecuteRun(d, e) ==
    /\ e.kind = "run"
    /\ ClaimChat(d)
    /\ \/ Apply(d) /\ DeliverPrompt(d, e.id)
       \/ DispatchFails(d)

(* Without a live run and without any run configuration: rejected, too.     *)
ExecuteSteer(d, e) ==
    /\ e.kind = "steer"
    /\ \/ Apply(d) /\ DeliverPrompt(d, e.id)
       \/ DispatchFails(d)
    /\ UNCHANGED rowVars

ExecuteInterrupt(d, e) ==
    /\ e.kind = "interrupt"
    /\ Apply(d)
    /\ live' = [live EXCEPT ![d] = 0]
    /\ UNCHANGED <<doc, turns, rowVars>>

(* A live resolver takes the answer; an open question of a dead run gets it *)
(* as a new turn; any other answer is rejected.                             *)
ExecuteRespondInput(d, e) ==
    /\ e.kind = "respondInput"
    /\ \/ live[d] # 0 /\ Apply(d) /\ UNCHANGED <<doc, runVars, rowVars>>
       \/ Apply(d) /\ DeliverPrompt(d, e.id) /\ UNCHANGED rowVars
       \/ DispatchFails(d) /\ UNCHANGED rowVars
       \/ Reject(d)

Execute(d) ==
    /\ d \in opened
    /\ drain[d].step = "decided"
    /\ drain[d].verdict = "execute"
    /\ \E e \in entries :
         /\ e.id = drain[d].cmd
         /\ executions' = [executions EXCEPT ![d][e.id] = @ + 1]
         /\ \/ ExecuteRun(d, e)
            \/ ExecuteSteer(d, e)
            \/ ExecuteInterrupt(d, e)
            \/ ExecuteRespondInput(d, e)
    /\ Notify(d)
    /\ UNCHANGED <<now, entries, docVars, ledger, crashes>>

(* resolve_command, and on to the next entry of the pass.                   *)
Settle(d) ==
    /\ d \in opened
    /\ \/ drain[d].step = "executed"
       \/ drain[d].step = "decided" /\ drain[d].verdict \in {"expired", "superseded"}
    /\ LET status == IF drain[d].step = "executed" THEN drain[d].status
                     ELSE drain[d].verdict
       IN  doc' = [doc EXCEPT ![d] = Merge(doc[d], OutcomeOp(
                     [cmd |-> drain[d].cmd, by |-> d, status |-> status]))]
    /\ drain' = [drain EXCEPT ![d] = ScanDrain]
    /\ kick' = kick \cup {d}
    /\ UNCHANGED <<now, entries, docVars, ledger, rowVars, runVars, crashes,
                   executions>>

----------------------------------------------------------------------------
(* The run, the workspace row, the clock and crashes *)

(* The run writes the next assistant segment of its turn.                   *)
AssistantEntry(d) ==
    /\ d \in opened
    /\ live[d] # 0
    /\ \E p \in NextPositions(doc[d].msgs) :
         /\ p <= MaxAssistant
         /\ doc' = [doc EXCEPT ![d] = Merge(doc[d], MessageOp(
              [pos |-> p, by |-> d, turn |-> live[d], cmd |-> NoCommand]))]
    /\ kick' = kick \cup {d}
    /\ UNCHANGED <<now, entries, docVars, drain, ledger, rowVars, runVars,
                   crashes, executions>>

TurnEnds(d) ==
    /\ live[d] # 0
    /\ live' = [live EXCEPT ![d] = 0]
    /\ UNCHANGED <<now, entries, doc, docVars, kick, drain, ledger, rowVars,
                   turns, crashes, executions>>

(* createChat and set_chat_host: a new value for the row's deviceId.        *)
WriteRow(d, h) ==
    /\ Len(rows) < MaxRows
    /\ rows' = Append(rows, h)
    /\ rowSeen' = [rowSeen EXCEPT ![d] = Len(rows) + 1]
    /\ UNCHANGED <<now, entries, doc, docVars, kick, drain, ledger, runVars,
                   crashes, executions>>

SeePastEnd(d) ==
    /\ rowSeen[d] < Len(rows)
    /\ rowSeen' = [rowSeen EXCEPT ![d] = Len(rows) + 1]
    /\ UNCHANGED <<now, entries, doc, docVars, kick, drain, ledger, rows,
                   runVars, crashes, executions>>

(* The workspace document syncs; nothing re-drains the session document.    *)
SeeRow(d) ==
    /\ rowSeen[d] < Len(rows)
    /\ rowSeen' = [rowSeen EXCEPT ![d] = Len(rows)]
    /\ UNCHANGED <<now, entries, doc, docVars, kick, drain, ledger, rows,
                   runVars, crashes, executions>>

Tick ==
    /\ now < MaxTime
    /\ now' = now + 1
    /\ UNCHANGED <<entries, doc, docVars, kick, drain, ledger, rowVars,
                   runVars, crashes, executions>>

(* The engine dies: replica, drain pass and run are gone; the snapshot and  *)
(* the ledger are on disk.                                                  *)
Crash(d) ==
    /\ d \in opened \cap Mortal
    /\ crashes < MaxCrashes
    /\ crashes' = crashes + 1
    /\ opened' = opened \ {d}
    /\ doc' = [doc EXCEPT ![d] = EmptyReplica]
    /\ kick' = kick \ {d}
    /\ drain' = [drain EXCEPT ![d] = IdleDrain]
    /\ live' = [live EXCEPT ![d] = 0]
    /\ UNCHANGED <<now, entries, room, disk, ledger, rowVars, turns, executions>>

Next ==
    \/ Tick
    \/ \E d \in Devices :
         \/ Open(d) \/ QueueCommand(d) \/ Push(d) \/ Pull(d) \/ SaveSnapshot(d)
         \/ BeginDrain(d) \/ EndDrain(d) \/ Decide(d) \/ Execute(d) \/ Settle(d)
         \/ AssistantEntry(d) \/ TurnEnds(d) \/ SeeRow(d) \/ Crash(d)
         \/ \E h \in Devices : WriteRow(d, h)

Spec == Init /\ [][Next]_vars

(* chat_task and the room client keep running on an engine that is up, and  *)
(* a device that was nudged, or whose user looks at the chat, opens it.     *)
Fairness ==
    \A d \in Devices :
        /\ WF_vars(Open(d)) /\ WF_vars(Push(d)) /\ WF_vars(Pull(d))
        /\ WF_vars(BeginDrain(d)) /\ WF_vars(EndDrain(d))
        /\ WF_vars(Decide(d)) /\ WF_vars(Execute(d)) /\ WF_vars(Settle(d))

FairSpec == Spec /\ Fairness

----------------------------------------------------------------------------
(* Properties *)

AllReplicas == {room} \cup {doc[d] : d \in Devices} \cup {disk[d] : d \in Devices}
AllOutcomes == UNION {r.outs : r \in AllReplicas}

(* A device begins executing a command at most once, whatever crashes,      *)
(* stale snapshots and redeliveries happen in between: the ledger is        *)
(* written before the effect (drain_commands, DocsStore::mark_processed).   *)
AtMostOnce == \A d \in Devices, c \in Commands : executions[d][c] <= 1

(* An outcome, in whatever replica it turns up and however old, was written *)
(* by a device that holds the command in its ledger; and "applied" is never *)
(* claimed for a command that device has not executed.                      *)
OutcomesAreBacked ==
    \A o \in AllOutcomes :
        /\ o.cmd \in ledger[o.by]
        /\ o.status = "applied" => executions[o.by][o.cmd] = 1

(* While the chat keeps its host, all replicas agree on a command's outcome *)
(* (rule 2, the host is the sole writer of outcomes), even if the host      *)
(* crashes after deciding and restarts from a snapshot without the outcome. *)
OutcomesAgree ==
    \A o1, o2 \in AllOutcomes : o1.cmd = o2.cmd => o1 = o2

(* A steer is superseded only in favour of a later steer that is not itself *)
(* superseded: of the prompts a user types, the last one is never dropped   *)
(* by the supersede rule, in whatever order the replicas deliver them.      *)
LastSteerSurvives ==
    \A o \in AllOutcomes, e \in entries :
        (o.cmd = e.id /\ o.status = "superseded" /\ e.kind = "steer") =>
            \E later \in entries :
                /\ later.kind = "steer"
                /\ later.issuedAt > e.issuedAt
                /\ \A other \in AllOutcomes :
                     other.cmd = later.id => other.status # "superseded"

(* Every command that a composer queues gets an outcome that its composer   *)
(* sees. Only an engine crash excuses one: it took the entry before it left *)
(* its author, or it cut the host between the claim and the published       *)
(* outcome, and then the ledger keeps the entry from ever being drained.    *)
CommandsSettle ==
    \A c \in Commands, d \in Devices :
        (\E e \in entries : e.id = c /\ e.by = d) ~>
            \/ \E o \in doc[d].outs : o.cmd = c
            \/ /\ crashes > 0
               /\ \/ \E h \in Devices : c \in ledger[h]
                  \/ \A r \in AllReplicas : c \notin r.cmds

(* How far a device has come with a command.                                *)
Stage(d, c) ==
    CASE c \notin ledger[d] -> "unseen"
      [] c \in ledger[d] /\ drain[d].step = "decided" /\ drain[d].cmd = c -> "claimed"
      [] c \in ledger[d] /\ drain[d].step = "executed" /\ drain[d].cmd = c -> "performed"
      [] OTHER -> "done"

(* However hosts move, replicas fall behind and engines die, each device    *)
(* takes each command once through the stages of CommandPromise, and        *)
(* nothing but the end of that way publishes an outcome (drain_commands).   *)
P == INSTANCE CommandPromise WITH
        queued <- {e.id : e \in entries},
        stage <- [d \in Devices |-> [c \in Commands |-> Stage(d, c)]],
        effects <- executions,
        published <- AllOutcomes
ImplementsPromise == P!Promise
============================================================================
