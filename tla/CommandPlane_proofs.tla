------------------------ MODULE CommandPlane_proofs ------------------------
(* Theorems about CommandPlane: type correctness; that a device never       *)
(* executes a command twice and never publishes an outcome it cannot back;  *)
(* what the outcomes in all replicas say together: while the host is fixed  *)
(* they agree, and a steer gives way only to one that is not itself         *)
(* superseded; that no command is lost without a crash, and none slept on   *)
(* by a fixed host; and that each device takes a command through its stages *)
(* once: CommandPlane implements CommandPromise.                            *)
EXTENDS CommandPlane, FiniteSetTheorems, WellFoundedInduction, TLAPS

(* A disposition is always one of the four that commands.rs names.          *)
LEMMA DispositionType ==
    ASSUME NEW e, NEW cx PROVE EvaluateCommand(e, cx) \in Dispositions
BY DEF EvaluateCommand, Dispositions

(* Merging keeps a replica a replica.                                       *)
LEMMA MergeType ==
    ASSUME NEW a \in Replica, NEW b \in Replica PROVE Merge(a, b) \in Replica
BY DEF Merge, Replica

LEMMA OpType ==
    /\ \A c \in Commands : CommandOp(c) \in Replica
    /\ \A o \in Outcome : OutcomeOp(o) \in Replica
    /\ \A m \in Message : MessageOp(m) \in Replica
BY DEF CommandOp, OutcomeOp, MessageOp, Replica

LEMMA LastMessageType ==
    ASSUME NEW msgs \in SUBSET Message
    PROVE  LastMessages(msgs) \subseteq Message \cup {NoMessage}
BY DEF LastMessages

LEMMA PositionType ==
    ASSUME NEW msgs, NEW p \in NextPositions(msgs) PROVE p \in Nat
BY PlaneAssumption DEF NextPositions

(* The initial state is well typed.                                         *)
LEMMA InitType == Init => TypeOK
<1> SUFFICES ASSUME Init PROVE TypeOK
    OBVIOUS
<1> USE PlaneAssumption
<1>1. EmptyReplica \in Replica
    BY DEF EmptyReplica, Replica
<1>2. IdleDrain \in Drain
    BY DEF IdleDrain, Drain, DrainSteps, Dispositions, Statuses
<1>3. rows \in Seq(Devices \cup {NoHost}) /\ rowSeen \in [Devices -> 1..Len(rows)]
    BY DEF Init
<1> QED
    BY <1>1, <1>2, <1>3 DEF Init, TypeOK, IdleDrain

(* Every prompt that reaches a run leaves the document and turns well typed. *)
LEMMA DeliverType ==
    ASSUME TypeOK, NEW d \in Devices, NEW c \in Commands, DeliverPrompt(d, c)
    PROVE  /\ doc' \in [Devices -> Replica]
           /\ live' \in [Devices -> Nat]
           /\ turns' \in Nat
<1> PICK t \in {live[d], turns + 1} \ {0} :
        /\ live' = [live EXCEPT ![d] = t]
        /\ turns' = IF t = turns + 1 THEN t ELSE turns
        /\ IF \E m \in doc[d].msgs : m.cmd = c
           THEN doc' = doc
           ELSE \E p \in NextPositions(doc[d].msgs) :
                  doc' = [doc EXCEPT ![d] = Merge(doc[d], MessageOp(
                            [pos |-> p, by |-> d, turn |-> t, cmd |-> c]))]
    BY DEF DeliverPrompt
<1>1. t \in Nat
    BY DEF TypeOK
<1>2. live' \in [Devices -> Nat] /\ turns' \in Nat
    BY <1>1 DEF TypeOK
<1>3. ASSUME NEW p \in NextPositions(doc[d].msgs),
             doc' = [doc EXCEPT ![d] = Merge(doc[d], MessageOp(
                       [pos |-> p, by |-> d, turn |-> t, cmd |-> c]))]
      PROVE  doc' \in [Devices -> Replica]
    <2>1. p \in Nat
        BY PlaneAssumption DEF NextPositions
    <2>2. [pos |-> p, by |-> d, turn |-> t, cmd |-> c] \in Message
        BY <2>1, <1>1 DEF Message
    <2> QED
        BY <2>2, <1>3, OpType, MergeType DEF TypeOK
<1> QED
    BY <1>2, <1>3 DEF TypeOK

LEMMA ClaimType ==
    ASSUME TypeOK, NEW d \in Devices, NEW h \in Devices,
           rows' = Append(rows, h),
           rowSeen' = [rowSeen EXCEPT ![d] = Len(rows) + 1]
    PROVE  /\ rows' \in Seq(Devices \cup {NoHost})
           /\ rowSeen' \in [Devices -> 1..Len(rows')]
<1>1. rows \in Seq(Devices \cup {NoHost}) /\ rowSeen \in [Devices -> 1..Len(rows)]
    BY DEF TypeOK
<1>2. rows' \in Seq(Devices \cup {NoHost}) /\ Len(rows') = Len(rows) + 1
    BY <1>1
<1>3. ASSUME NEW x \in Devices PROVE rowSeen'[x] \in 1..Len(rows')
    BY <1>1, <1>2
<1> QED
    BY <1>1, <1>2, <1>3

(* A drain record stays well typed through every step of a pass.            *)
LEMMA DrainType ==
    /\ IdleDrain \in Drain
    /\ ScanDrain \in Drain
    /\ \A step \in DrainSteps, cmd \in Commands \cup {NoCommand},
          verdict \in Dispositions, status \in Statuses :
         [step |-> step, cmd |-> cmd, verdict |-> verdict, status |-> status]
            \in Drain
BY DEF IdleDrain, ScanDrain, Drain, DrainSteps, Dispositions, Statuses

----------------------------------------------------------------------------
(* Type correctness, one step per action.                                   *)
LEMMA NextType == TypeOK /\ [Next]_vars => TypeOK'
<1> SUFFICES ASSUME TypeOK, [Next]_vars PROVE TypeOK'
    OBVIOUS
<1> USE DEF docVars, runVars, rowVars
<1>t. /\ now \in Nat /\ entries \subseteq Entry /\ room \in Replica
      /\ doc \in [Devices -> Replica] /\ disk \in [Devices -> Replica]
      /\ opened \subseteq Devices /\ kick \subseteq Devices
      /\ drain \in [Devices -> Drain]
      /\ ledger \in [Devices -> SUBSET Commands]
      /\ live \in [Devices -> Nat] /\ turns \in Nat /\ crashes \in Nat
      /\ executions \in [Devices -> [Commands -> Nat]]
    BY DEF TypeOK
<1>1. ASSUME Tick PROVE TypeOK'
    BY <1>1 DEF Tick, TypeOK
<1>2. ASSUME NEW d \in Devices, Open(d) PROVE TypeOK'
    BY <1>2 DEF Open, TypeOK
<1>3. ASSUME NEW d \in Devices, QueueCommand(d) PROVE TypeOK'
    <2> PICK c \in Commands, k \in QueuedKinds, m \in LastMessages(doc[d].msgs) :
            /\ entries' = entries \cup
                  {[id |-> c, kind |-> k, by |-> d, issuedAt |-> NowAt(d),
                    basedOn |-> m, after |-> doc[d].cmds]}
            /\ doc' = [doc EXCEPT ![d] = Merge(doc[d], CommandOp(c))]
        BY <1>3 DEF QueueCommand
    <2>1. doc[d].msgs \in SUBSET Message /\ doc[d].cmds \in SUBSET Commands
        BY <1>t DEF Replica
    <2>2. m \in Message \cup {NoMessage}
        BY <2>1, LastMessageType
    <2>3. NowAt(d) \in Nat /\ k \in Kinds
        BY <1>t, PlaneAssumption DEF NowAt
    <2>4. entries' \subseteq Entry
        BY <1>t, <2>1, <2>2, <2>3 DEF Entry
    <2>5. doc' \in [Devices -> Replica]
        BY <1>t, OpType, MergeType
    <2> QED
        BY <1>3, <2>4, <2>5 DEF QueueCommand, TypeOK
<1>4. ASSUME NEW d \in Devices, Push(d) PROVE TypeOK'
    <2>1. Merge(room, doc[d]) \in Replica
        BY <1>t, MergeType
    <2> QED
        BY <1>4, <2>1 DEF Push, TypeOK
<1>5. ASSUME NEW d \in Devices, Pull(d) PROVE TypeOK'
    <2>1. Merge(doc[d], room) \in Replica
        BY <1>t, MergeType
    <2> QED
        BY <1>5, <2>1 DEF Pull, Notify, TypeOK
<1>6. ASSUME NEW d \in Devices, SaveSnapshot(d) PROVE TypeOK'
    BY <1>6 DEF SaveSnapshot, TypeOK
<1>7. ASSUME NEW d \in Devices, BeginDrain(d) PROVE TypeOK'
    <2>1. drain' \in [Devices -> Drain]
        BY <1>7, <1>t, DrainType DEF BeginDrain
    <2>2. \A x \in Devices : drain'[x].step \in {"decided", "executed"} =>
                               drain'[x].cmd \in Commands
        BY <1>7 DEF BeginDrain, ScanDrain, IdleDrain, TypeOK
    <2> QED
        BY <1>7, <2>1, <2>2 DEF BeginDrain, TypeOK
<1>8. ASSUME NEW d \in Devices, EndDrain(d) PROVE TypeOK'
    <2>1. drain' \in [Devices -> Drain]
        BY <1>8, <1>t, DrainType DEF EndDrain
    <2>2. \A x \in Devices : drain'[x].step \in {"decided", "executed"} =>
                               drain'[x].cmd \in Commands
        BY <1>8 DEF EndDrain, IdleDrain, TypeOK
    <2> QED
        BY <1>8, <2>1, <2>2 DEF EndDrain, TypeOK
<1>9. ASSUME NEW d \in Devices, Decide(d) PROVE TypeOK'
    <2>1. PICK e \in DrainCandidates(d), verdict \in Dispositions :
            /\ ledger' = [ledger EXCEPT ![d] = MarkProcessed(d, e.id, verdict)]
            /\ drain' = [drain EXCEPT ![d] =
                           [step |-> "decided", cmd |-> e.id,
                            verdict |-> verdict, status |-> "applied"]]
        BY <1>9, DispositionType DEF Decide
    <2>2. e.id \in Commands
        BY <1>t DEF DrainCandidates, PendingEntries, Entry
    <2>3. drain' \in [Devices -> Drain]
        BY <2>1, <2>2, <1>t DEF Drain, DrainSteps, Statuses
    <2>4. ledger' \in [Devices -> SUBSET Commands]
        BY <2>1, <2>2, <1>t DEF MarkProcessed
    <2>5. \A x \in Devices : drain'[x].step \in {"decided", "executed"} =>
                               drain'[x].cmd \in Commands
        BY <2>1, <2>2 DEF TypeOK
    <2> QED
        BY <1>9, <2>3, <2>4, <2>5 DEF Decide, TypeOK
<1>10. ASSUME NEW d \in Devices, Execute(d) PROVE TypeOK'
    <2> PICK e \in entries :
            /\ e.id = drain[d].cmd
            /\ executions' = [executions EXCEPT ![d][e.id] = @ + 1]
            /\ \/ ExecuteRun(d, e) \/ ExecuteSteer(d, e)
               \/ ExecuteInterrupt(d, e) \/ ExecuteRespondInput(d, e)
        BY <1>10 DEF Execute
    <2>1. e.id \in Commands
        BY <1>t DEF Entry
    <2>2. executions' \in [Devices -> [Commands -> Nat]]
        BY <1>t, <2>1
    <2>3. PICK status \in Statuses : Executed(d, status)
        BY DEF ExecuteRun, ExecuteSteer, ExecuteInterrupt, ExecuteRespondInput,
               Apply, Reject, DispatchFails, Statuses
    <2>4. drain' \in [Devices -> Drain]
        BY <2>1, <2>3, <1>t DEF Executed, Drain, DrainSteps, Dispositions
    <2>5. \A x \in Devices : drain'[x].step \in {"decided", "executed"} =>
                               drain'[x].cmd \in Commands
        BY <2>1, <2>3 DEF Executed, TypeOK
    <2>6. /\ doc' \in [Devices -> Replica] /\ live' \in [Devices -> Nat]
          /\ turns' \in Nat
        <3>1. CASE DeliverPrompt(d, e.id)
            BY <2>1, <3>1, DeliverType
        <3>2. CASE live' = [live EXCEPT ![d] = 0] /\ UNCHANGED <<doc, turns>>
            BY <3>2, <1>t
        <3>3. CASE UNCHANGED <<doc, runVars>>
            BY <3>3, <1>t DEF runVars
        <3> QED
            BY <3>1, <3>2, <3>3 DEF ExecuteRun, ExecuteSteer, ExecuteInterrupt,
               ExecuteRespondInput, Reject, DispatchFails
    <2>7. /\ rows' \in Seq(Devices \cup {NoHost})
          /\ rowSeen' \in [Devices -> 1..Len(rows')]
        <3>1. CASE ClaimChat(d)
            <4>1. CASE RowAt(d) = NoHost
                BY <3>1, <4>1, ClaimType DEF ClaimChat
            <4>2. CASE RowAt(d) # NoHost
                BY <3>1, <4>2 DEF ClaimChat, TypeOK
            <4> QED
                BY <4>1, <4>2
        <3>2. CASE UNCHANGED rowVars
            BY <3>2 DEF TypeOK
        <3> QED
            BY <3>1, <3>2 DEF ExecuteRun, ExecuteSteer, ExecuteInterrupt,
               ExecuteRespondInput, Reject, DispatchFails
    <2>8. kick' \subseteq Devices
        BY <1>10, <1>t DEF Execute, Notify
    <2> QED
        BY <1>10, <2>2, <2>4, <2>5, <2>6, <2>7, <2>8 DEF Execute, TypeOK
<1>11. ASSUME NEW d \in Devices, Settle(d) PROVE TypeOK'
    <2> DEFINE status == IF drain[d].step = "executed" THEN drain[d].status
                         ELSE drain[d].verdict
               o == [cmd |-> drain[d].cmd, by |-> d, status |-> status]
    <2>1. drain[d].cmd \in Commands
        BY <1>11 DEF Settle, TypeOK
    <2>2. status \in Statuses
        BY <1>11, <1>t DEF Settle, Drain, Statuses
    <2>3. o \in Outcome
        BY <2>1, <2>2 DEF Outcome
    <2>4. doc' = [doc EXCEPT ![d] = Merge(doc[d], OutcomeOp(o))]
        BY <1>11 DEF Settle
    <2>5. doc' \in [Devices -> Replica]
        BY <2>3, <2>4, <1>t, OpType, MergeType
    <2>6. drain' \in [Devices -> Drain]
        BY <1>11, <1>t, DrainType DEF Settle
    <2>7. \A x \in Devices : drain'[x].step \in {"decided", "executed"} =>
                               drain'[x].cmd \in Commands
        BY <1>11 DEF Settle, ScanDrain, TypeOK
    <2> QED
        BY <1>11, <2>5, <2>6, <2>7 DEF Settle, TypeOK
<1>12. ASSUME NEW d \in Devices, AssistantEntry(d) PROVE TypeOK'
    <2>1. PICK p \in NextPositions(doc[d].msgs) :
            doc' = [doc EXCEPT ![d] = Merge(doc[d], MessageOp(
              [pos |-> p, by |-> d, turn |-> live[d], cmd |-> NoCommand]))]
        BY <1>12 DEF AssistantEntry
    <2>2. [pos |-> p, by |-> d, turn |-> live[d], cmd |-> NoCommand] \in Message
        BY <1>t, PositionType DEF Message
    <2>3. doc' \in [Devices -> Replica]
        BY <2>1, <2>2, <1>t, OpType, MergeType
    <2> QED
        BY <1>12, <2>3 DEF AssistantEntry, TypeOK
<1>13. ASSUME NEW d \in Devices, TurnEnds(d) PROVE TypeOK'
    BY <1>13 DEF TurnEnds, TypeOK
<1>14. ASSUME NEW d \in Devices, NEW h \in Devices, WriteRow(d, h) PROVE TypeOK'
    <2>1. /\ rows' \in Seq(Devices \cup {NoHost})
          /\ rowSeen' \in [Devices -> 1..Len(rows')]
        BY <1>14, ClaimType DEF WriteRow
    <2> QED
        BY <1>14, <2>1 DEF WriteRow, TypeOK
<1>15. ASSUME NEW d \in Devices, SeeRow(d) PROVE TypeOK'
    <2>1. rowSeen' \in [Devices -> 1..Len(rows)]
        BY <1>15 DEF SeeRow, TypeOK
    <2> QED
        BY <1>15, <2>1 DEF SeeRow, TypeOK
<1>16. ASSUME NEW d \in Devices, Crash(d) PROVE TypeOK'
    <2>1. EmptyReplica \in Replica
        BY DEF EmptyReplica, Replica
    <2>2. drain' \in [Devices -> Drain]
        BY <1>16, <1>t, DrainType DEF Crash
    <2>3. \A x \in Devices : drain'[x].step \in {"decided", "executed"} =>
                               drain'[x].cmd \in Commands
        BY <1>16 DEF Crash, IdleDrain, TypeOK
    <2> QED
        BY <1>16, <2>1, <2>2, <2>3 DEF Crash, TypeOK
<1>17. CASE UNCHANGED vars
    BY <1>17 DEF vars, TypeOK
<1> QED
    BY <1>1, <1>2, <1>3, <1>4, <1>5, <1>6, <1>7, <1>8, <1>9, <1>10, <1>11,
       <1>12, <1>13, <1>14, <1>15, <1>16, <1>17 DEF Next

(* Every reachable state of the command plane is well typed.                *)
THEOREM TypeCorrect == Spec => []TypeOK
<1> QED
    BY InitType, NextType, PTL DEF Spec

----------------------------------------------------------------------------
(* Execution and outcomes                                                   *)
(*                                                                          *)
(* AtMostOnce is not inductive: it needs to know that the ledger remembers  *)
(* every execution, that a pass holding a decided command has claimed it    *)
(* and not yet executed it, and that one which has executed it did so once. *)

ExecutedIsClaimed ==
    \A d \in Devices, c \in Commands : executions[d][c] > 0 => c \in ledger[d]

DecidedIsFresh ==
    \A d \in Devices : drain[d].step = "decided" =>
        /\ drain[d].cmd \in ledger[d]
        /\ executions[d][drain[d].cmd] = 0

ExecutedOnce ==
    \A d \in Devices : drain[d].step = "executed" =>
        /\ drain[d].cmd \in ledger[d]
        /\ executions[d][drain[d].cmd] = 1

(* The outcomes of one replica, wherever it is kept, are backed.            *)
Backed(o) == /\ o.cmd \in ledger[o.by]
             /\ o.status = "applied" => executions[o.by][o.cmd] = 1
BackedReplica(r) == \A o \in r.outs : Backed(o)
ReplicasBacked ==
    /\ BackedReplica(room)
    /\ \A d \in Devices : BackedReplica(doc[d]) /\ BackedReplica(disk[d])

ClaimInv == ExecutedIsClaimed /\ DecidedIsFresh /\ ExecutedOnce /\ AtMostOnce

LEMMA InitClaim == Init => ClaimInv /\ ReplicasBacked
BY DEF Init, ClaimInv, ExecutedIsClaimed, DecidedIsFresh, ExecutedOnce,
       AtMostOnce, ReplicasBacked, BackedReplica, EmptyReplica, IdleDrain

(* The steps that claim or execute nothing leave ClaimInv alone; a crash or *)
(* the end of a pass only lets go of a command.                             *)
LEMMA QuietClaim ==
    ASSUME TypeOK, ClaimInv, UNCHANGED <<ledger, executions>>,
           \A x \in Devices : \/ drain'[x] = drain[x]
                              \/ drain'[x].step \in {"idle", "scan"}
    PROVE  ClaimInv'
BY DEF ClaimInv, ExecutedIsClaimed, DecidedIsFresh, ExecutedOnce, AtMostOnce

LEMMA NextClaim == TypeOK /\ ClaimInv /\ [Next]_vars => ClaimInv'
<1> SUFFICES ASSUME TypeOK, ClaimInv, [Next]_vars PROVE ClaimInv'
    OBVIOUS
<1> USE DEF docVars, runVars, rowVars
<1>1. ASSUME NEW d \in Devices, Decide(d) PROVE ClaimInv'
    <2>1. PICK e \in DrainCandidates(d), verdict \in Dispositions :
            /\ ledger' = [ledger EXCEPT ![d] = MarkProcessed(d, e.id, verdict)]
            /\ drain' = [drain EXCEPT ![d] =
                           [step |-> "decided", cmd |-> e.id,
                            verdict |-> verdict, status |-> "applied"]]
        BY <1>1, DispositionType DEF Decide
    <2>2. e.id \in Commands /\ e.id \notin ledger[d]
        BY DEF TypeOK, DrainCandidates, PendingEntries, Entry
    <2>3. executions[d][e.id] = 0
        BY <2>2 DEF ClaimInv, ExecutedIsClaimed, TypeOK
    <2>4. executions' = executions /\ ledger' = [ledger EXCEPT ![d] = @ \cup {e.id}]
        BY <1>1, <2>1 DEF Decide, MarkProcessed, TypeOK
    <2>5. ExecutedIsClaimed'
        BY <2>2, <2>4 DEF ClaimInv, ExecutedIsClaimed, TypeOK
    <2>6. DecidedIsFresh'
        BY <2>1, <2>3, <2>4 DEF ClaimInv, DecidedIsFresh, TypeOK
    <2>7. ExecutedOnce'
        BY <2>1, <2>4 DEF ClaimInv, ExecutedOnce, TypeOK
    <2> QED
        BY <2>4, <2>5, <2>6, <2>7 DEF ClaimInv, AtMostOnce
<1>2. ASSUME NEW d \in Devices, Execute(d) PROVE ClaimInv'
    <2> DEFINE c == drain[d].cmd
    <2>1. c \in Commands /\ c \in ledger[d] /\ executions[d][c] = 0
        BY <1>2 DEF Execute, TypeOK, ClaimInv, DecidedIsFresh
    <2>2. /\ ledger' = ledger
          /\ executions' = [executions EXCEPT ![d][c] = @ + 1]
        BY <1>2 DEF Execute
    <2>3. PICK status \in Statuses : Executed(d, status)
        BY <1>2 DEF Execute, ExecuteRun, ExecuteSteer, ExecuteInterrupt,
           ExecuteRespondInput, Apply, Reject, DispatchFails, Statuses
    <2>4. executions'[d][c] = 1
        BY <2>1, <2>2 DEF TypeOK
    <2>5. \A x \in Devices, y \in Commands :
             (x # d \/ y # c) => executions'[x][y] = executions[x][y]
        BY <2>1, <2>2 DEF TypeOK
    <2>6. /\ drain'[d].step = "executed" /\ drain'[d].cmd = c
          /\ \A x \in Devices : x # d => drain'[x] = drain[x]
        BY <2>3 DEF Executed, TypeOK
    <2>7. ExecutedIsClaimed'
        BY <2>1, <2>2, <2>5 DEF ClaimInv, ExecutedIsClaimed
    <2>8. DecidedIsFresh'
        BY <2>2, <2>5, <2>6 DEF ClaimInv, DecidedIsFresh, TypeOK
    <2>9. ExecutedOnce'
        BY <2>1, <2>2, <2>4, <2>5, <2>6 DEF ClaimInv, ExecutedOnce, TypeOK
    <2>10. AtMostOnce'
        BY <2>4, <2>5 DEF ClaimInv, AtMostOnce
    <2> QED
        BY <2>7, <2>8, <2>9, <2>10 DEF ClaimInv
<1>3. ASSUME NEW d \in Devices,
             BeginDrain(d) \/ EndDrain(d) \/ Settle(d) \/ Crash(d)
      PROVE  ClaimInv'
    <2>1. /\ UNCHANGED <<ledger, executions>>
          /\ \/ drain' = [drain EXCEPT ![d] = ScanDrain]
             \/ drain' = [drain EXCEPT ![d] = IdleDrain]
        BY <1>3 DEF BeginDrain, EndDrain, Settle, Crash
    <2>2. \A x \in Devices : \/ drain'[x] = drain[x]
                             \/ drain'[x].step \in {"idle", "scan"}
        BY <2>1 DEF ScanDrain, IdleDrain, TypeOK
    <2> QED
        BY <2>1, <2>2, QuietClaim
<1>4. CASE UNCHANGED <<ledger, executions, drain>>
    BY <1>4, QuietClaim
<1> QED
    BY <1>1, <1>2, <1>3, <1>4 DEF Next, vars, Tick, Open, QueueCommand, Push,
       Pull, SaveSnapshot, AssistantEntry, TurnEnds, WriteRow, SeeRow

(* A device never begins executing a command a second time, whatever it     *)
(* crashed through, and however often the entry is delivered to it again.   *)
THEOREM ExecutesAtMostOnce == Spec => []AtMostOnce
<1>1. Init => ClaimInv
    BY InitClaim
<1>2. ClaimInv => AtMostOnce
    BY DEF ClaimInv
<1> QED
    BY <1>1, <1>2, InitType, NextType, NextClaim, PTL DEF Spec

(* A backed outcome stays backed: ledgers only grow, and an execution count *)
(* that has reached one never moves again.                                  *)
LEMMA BackedIsStable ==
    ASSUME TypeOK, ClaimInv, [Next]_vars, NEW o \in Outcome, Backed(o)
    PROVE  Backed(o)'
<1> USE DEF docVars, runVars, rowVars
<1>1. ASSUME NEW d \in Devices, Decide(d) PROVE Backed(o)'
    BY <1>1 DEF Decide, MarkProcessed, Backed, TypeOK, Outcome
<1>2. ASSUME NEW d \in Devices, Execute(d) PROVE Backed(o)'
    <2>1. /\ executions[d][drain[d].cmd] = 0 /\ drain[d].cmd \in Commands
          /\ ledger' = ledger
          /\ executions' = [executions EXCEPT ![d][drain[d].cmd] = @ + 1]
        BY <1>2 DEF Execute, TypeOK, ClaimInv, DecidedIsFresh
    <2>2. executions[o.by][o.cmd] = 1 => executions'[o.by][o.cmd] = 1
        BY <2>1 DEF TypeOK, Outcome
    <2> QED
        BY <2>1, <2>2 DEF Backed
<1>3. CASE UNCHANGED <<ledger, executions>>
    BY <1>3 DEF Backed
<1> QED
    BY <1>1, <1>2, <1>3 DEF Next, vars, Tick, Open, QueueCommand, Push, Pull,
       SaveSnapshot, BeginDrain, EndDrain, Settle, AssistantEntry, TurnEnds,
       WriteRow, SeeRow, Crash

(* So does a replica that gained no outcome but ones of backed replicas.    *)
LEMMA BackedReplicaIsStable ==
    ASSUME TypeOK, ClaimInv, [Next]_vars,
           NEW r \in Replica, BackedReplica(r)
    PROVE  \A o \in r.outs : Backed(o)'
<1>1. \A o \in r.outs : o \in Outcome /\ Backed(o)
    BY DEF BackedReplica, Replica
<1> QED
    BY <1>1, BackedIsStable

LEMMA NextBacked == TypeOK /\ ClaimInv /\ ReplicasBacked /\ [Next]_vars
                        => ReplicasBacked'
<1> SUFFICES ASSUME TypeOK, ClaimInv, ReplicasBacked, [Next]_vars
             PROVE  ReplicasBacked'
    OBVIOUS
<1> USE DEF docVars, runVars, rowVars
<1> DEFINE Good(r) == \A o \in r.outs : Backed(o)'
<1>r. /\ room \in Replica
      /\ \A d \in Devices : doc[d] \in Replica /\ disk[d] \in Replica
    BY DEF TypeOK
<1>b. Good(room) /\ \A d \in Devices : Good(doc[d]) /\ Good(disk[d])
    BY <1>r, BackedReplicaIsStable DEF ReplicasBacked
<1>m. \A a, b : Good(a) /\ Good(b) => Good(Merge(a, b))
    BY DEF Merge
<1>s. Good(room') /\ (\A d \in Devices : Good(doc'[d]) /\ Good(disk'[d]))
        => ReplicasBacked'
    BY DEF ReplicasBacked, BackedReplica
<1>c. Good(EmptyReplica) /\ \A c : Good(CommandOp(c))
    BY DEF EmptyReplica, CommandOp
<1>n. \A m : Good(MessageOp(m))
    BY DEF MessageOp
<1> HIDE DEF Good
(* A document operation that carries no outcome.                            *)
<1>d. ASSUME NEW d \in Devices, NEW op, Good(op), UNCHANGED <<room, disk>>,
             doc' = doc \/ doc' = [doc EXCEPT ![d] = Merge(doc[d], op)]
      PROVE  ReplicasBacked'
    <2>1. ASSUME NEW x \in Devices PROVE Good(doc'[x])
        <3>1. doc'[x] = doc[x] \/ doc'[x] = Merge(doc[x], op)
            BY <1>d DEF TypeOK
        <3>2. Good(doc[x]) /\ Good(Merge(doc[x], op))
            BY <1>b, <1>m, <1>d
        <3> QED
            BY <3>1, <3>2
    <2> QED
        BY <1>d, <1>b, <1>s, <2>1
<1>1. ASSUME NEW d \in Devices, Open(d) PROVE ReplicasBacked'
    <2>1. \A x \in Devices : Good(doc'[x])
        BY <1>1, <1>b DEF Open, TypeOK
    <2> QED
        BY <1>1, <1>b, <1>s, <2>1 DEF Open
<1>2. ASSUME NEW d \in Devices, QueueCommand(d) PROVE ReplicasBacked'
    BY <1>2, <1>c, <1>d DEF QueueCommand
<1>3. ASSUME NEW d \in Devices, Push(d) PROVE ReplicasBacked'
    BY <1>3, <1>b, <1>m, <1>s DEF Push
<1>4. ASSUME NEW d \in Devices, Pull(d) PROVE ReplicasBacked'
    BY <1>4, <1>b, <1>d DEF Pull
<1>5. ASSUME NEW d \in Devices, SaveSnapshot(d) PROVE ReplicasBacked'
    <2>1. \A x \in Devices : Good(disk'[x])
        BY <1>5, <1>b DEF SaveSnapshot, TypeOK
    <2> QED
        BY <1>5, <1>b, <1>s, <2>1 DEF SaveSnapshot
<1>6. ASSUME NEW d \in Devices, Execute(d) PROVE ReplicasBacked'
    <2>1. PICK c : doc' = doc \/ DeliverPrompt(d, c)
        BY <1>6 DEF Execute, ExecuteRun, ExecuteSteer, ExecuteInterrupt,
           ExecuteRespondInput, Reject, DispatchFails
    <2>2. PICK m : \/ doc' = doc
                   \/ doc' = [doc EXCEPT ![d] = Merge(doc[d], MessageOp(m))]
        BY <2>1 DEF DeliverPrompt
    <2> QED
        BY <1>6, <2>2, <1>n, <1>d DEF Execute
<1>7. ASSUME NEW d \in Devices, AssistantEntry(d) PROVE ReplicasBacked'
    <2>1. PICK m : doc' = [doc EXCEPT ![d] = Merge(doc[d], MessageOp(m))]
        BY <1>7 DEF AssistantEntry
    <2> QED
        BY <1>7, <2>1, <1>n, <1>d DEF AssistantEntry
<1>8. ASSUME NEW d \in Devices, Settle(d) PROVE ReplicasBacked'
    <2>1. PICK status :
            /\ status = IF drain[d].step = "executed" THEN drain[d].status
                        ELSE drain[d].verdict
            /\ doc' = [doc EXCEPT ![d] = Merge(doc[d], OutcomeOp(
                         [cmd |-> drain[d].cmd, by |-> d, status |-> status]))]
        BY <1>8 DEF Settle
    <2>2. /\ drain[d].cmd \in ledger[d]
          /\ status = "applied" => executions[d][drain[d].cmd] = 1
        BY <1>8, <2>1 DEF Settle, ClaimInv, DecidedIsFresh, ExecutedOnce
    <2>3. UNCHANGED <<ledger, executions>>
        BY <1>8 DEF Settle
    <2>4. PICK o : o = [cmd |-> drain[d].cmd, by |-> d, status |-> status]
        OBVIOUS
    <2>5. Backed(o)'
        BY <2>2, <2>3, <2>4 DEF Backed
    <2>6. \A x \in OutcomeOp(o).outs : Backed(x)'
        BY <2>5 DEF OutcomeOp
    <2>7. Good(OutcomeOp(o))
        BY <2>6 DEF Good
    <2>8. doc' = [doc EXCEPT ![d] = Merge(doc[d], OutcomeOp(o))]
        BY <2>1, <2>4
    <2> QED
        BY <1>8, <2>7, <2>8, <1>d DEF Settle
<1>9. ASSUME NEW d \in Devices, Crash(d) PROVE ReplicasBacked'
    <2>1. \A x \in Devices : Good(doc'[x])
        BY <1>9, <1>b, <1>c DEF Crash, TypeOK
    <2> QED
        BY <1>9, <1>b, <1>s, <2>1 DEF Crash
<1>10. CASE UNCHANGED <<room, doc, disk>>
    BY <1>10, <1>b, <1>s
<1> QED
    BY <1>1, <1>2, <1>3, <1>4, <1>5, <1>6, <1>7, <1>8, <1>9, <1>10
    DEF Next, vars, Tick, BeginDrain, EndDrain, Decide, TurnEnds, WriteRow, SeeRow

(* What the replicas hold, taken together, is what each of them holds.      *)
LEMMA BackedEverywhere == ReplicasBacked => OutcomesAreBacked
BY DEF ReplicasBacked, BackedReplica, Backed, OutcomesAreBacked, AllOutcomes,
       AllReplicas

(* No outcome in any replica, fresh or stale, is one that its author's      *)
(* ledger does not back.                                                    *)
THEOREM OutcomesAlwaysBacked == Spec => []OutcomesAreBacked
<1>1. Init => ClaimInv /\ ReplicasBacked
    BY InitClaim
<1> QED
    BY <1>1, InitType, NextType, NextClaim, NextBacked, BackedEverywhere,
       PTL DEF Spec

-----------------------------------------------------------------------------
(* A bounded set of naturals has a greatest element.                        *)
LEMMA GreatestExists ==
    ASSUME NEW T \in SUBSET Nat, T # {}, NEW B \in Nat, \A n \in T : n <= B
    PROVE  \E m \in T : \A n \in T : n <= m
<1> DEFINE Gaps == {B - n : n \in T}
           R == OpToRel(<, Nat)
<1>0. \A n \in T : n \in Nat /\ B - n \in Nat
    OBVIOUS
<1>1. Gaps \subseteq Nat /\ Gaps # {}
    BY <1>0
<1>2. IsWellFoundedOn(R, Nat)
    BY NatLessThanWellFounded
<1>3. PICK g \in Gaps : \A k \in Gaps : <<k, g>> \notin R
  <2> HIDE DEF Gaps, R
  <2> QED
      BY <1>1, <1>2, WFMin
<1>4. \A k \in Gaps : ~(k < g)
    BY <1>1, <1>3 DEF OpToRel
<1>5. PICK m \in T : g = B - m
    OBVIOUS
<1>6. \A n \in T : ~(B - n < B - m)
    BY <1>4, <1>5
<1> QED
    BY <1>0, <1>6

-----------------------------------------------------------------------------
(* Outcomes only spread, but for the one a pass settles                     *)

StatusInHand(d) == IF drain[d].step = "executed" THEN drain[d].status ELSE drain[d].verdict
Settled(d) == [cmd |-> drain[d].cmd, by |-> d, status |-> StatusInHand(d)]

(* The outcomes of a replica after a step, when `new` may have been added.  *)
OldOr(r, new) == r.outs \subseteq AllOutcomes \cup new

LEMMA HereIsAll ==
    /\ OldOr(room, {})
    /\ \A d \in Devices : OldOr(doc[d], {}) /\ OldOr(disk[d], {})
BY DEF OldOr, AllOutcomes, AllReplicas

LEMMA SpreadFrame ==
    ASSUME NEW new, OldOr(room', new),
           \A d \in Devices : OldOr(doc'[d], new) /\ OldOr(disk'[d], new)
    PROVE  AllOutcomes' \subseteq AllOutcomes \cup new
<1> DEFINE all == AllOutcomes \cup new
<1>1. \A r \in AllReplicas' : r.outs \subseteq all
    BY DEF OldOr, AllReplicas
<1> HIDE DEF all
<1>2. AllOutcomes' \subseteq all
    BY <1>1 DEF AllOutcomes
<1> QED
    BY <1>2 DEF all

LEMMA MergeSpreads ==
    ASSUME NEW a, NEW b, NEW new, OldOr(a, new), OldOr(b, new)
    PROVE  OldOr(Merge(a, b), new)
BY DEF OldOr, Merge

(* A step that merges op into one replica brings at most op's outcomes.     *)
LEMMA OpSpreads ==
    ASSUME TypeOK, NEW d \in Devices, NEW op, NEW new, OldOr(op, new),
           UNCHANGED <<room, disk>>,
           doc' = doc \/ doc' = [doc EXCEPT ![d] = Merge(doc[d], op)]
    PROVE  AllOutcomes' \subseteq AllOutcomes \cup new
<1>1. OldOr(room, new) /\ \A x \in Devices : OldOr(doc[x], new) /\ OldOr(disk[x], new)
    BY HereIsAll DEF OldOr
<1>2. OldOr(Merge(doc[d], op), new)
    BY <1>1, MergeSpreads
<1>3. \A x \in Devices : OldOr(doc'[x], new)
    BY <1>1, <1>2 DEF TypeOK
<1> QED
    BY <1>1, <1>3, SpreadFrame

LEMMA SettleSpreads ==
    ASSUME TypeOK, NEW d \in Devices, Settle(d)
    PROVE  AllOutcomes' \subseteq AllOutcomes \cup {Settled(d)}
<1>1. doc' = [doc EXCEPT ![d] = Merge(doc[d], OutcomeOp(Settled(d)))]
    BY DEF Settle, Settled, StatusInHand
<1>2. OldOr(OutcomeOp(Settled(d)), {Settled(d)})
    BY DEF OldOr, OutcomeOp
<1>3. UNCHANGED <<room, disk>>
    BY DEF Settle, docVars
<1> QED
    BY <1>1, <1>2, <1>3, OpSpreads

LEMMA OthersSpread ==
    ASSUME TypeOK, [Next]_vars, \A d \in Devices : ~Settle(d)
    PROVE  AllOutcomes' \subseteq AllOutcomes
<1> USE DEF docVars, runVars, rowVars
<1> DEFINE Goal == AllOutcomes' \subseteq AllOutcomes
<1>e. OldOr(EmptyReplica, {})
    BY DEF OldOr, EmptyReplica
<1>c. \A c : OldOr(CommandOp(c), {})
    BY DEF OldOr, CommandOp
<1>m. \A m : OldOr(MessageOp(m), {})
    BY DEF OldOr, MessageOp
<1>1. ASSUME NEW d \in Devices, Open(d) PROVE Goal
  <2>1. \A x \in Devices : OldOr(doc'[x], {})
      BY <1>1, HereIsAll DEF Open, TypeOK
  <2> QED
      BY <1>1, <2>1, HereIsAll, SpreadFrame DEF Open
<1>2. ASSUME NEW d \in Devices, QueueCommand(d) PROVE Goal
  <2>1. PICK c : doc' = [doc EXCEPT ![d] = Merge(doc[d], CommandOp(c))]
      BY <1>2 DEF QueueCommand
  <2>2. UNCHANGED <<room, disk>>
      BY <1>2 DEF QueueCommand
  <2>3. AllOutcomes' \subseteq AllOutcomes \cup {}
      BY <1>c, <2>1, <2>2, OpSpreads
  <2> QED
      BY <2>3
<1>3. ASSUME NEW d \in Devices, Push(d) PROVE Goal
  <2>1. OldOr(room', {})
      BY <1>3, HereIsAll, MergeSpreads DEF Push
  <2> QED
      BY <1>3, <2>1, HereIsAll, SpreadFrame DEF Push
<1>4. ASSUME NEW d \in Devices, Pull(d) PROVE Goal
  <2>1. doc' = [doc EXCEPT ![d] = Merge(doc[d], room)]
      BY <1>4 DEF Pull
  <2>2. UNCHANGED <<room, disk>>
      BY <1>4 DEF Pull
  <2>3. AllOutcomes' \subseteq AllOutcomes \cup {}
      BY <2>1, <2>2, HereIsAll, OpSpreads
  <2> QED
      BY <2>3
<1>5. ASSUME NEW d \in Devices, SaveSnapshot(d) PROVE Goal
  <2>1. \A x \in Devices : OldOr(disk'[x], {})
      BY <1>5, HereIsAll DEF SaveSnapshot, TypeOK
  <2> QED
      BY <1>5, <2>1, HereIsAll, SpreadFrame DEF SaveSnapshot
<1>6. ASSUME NEW d \in Devices, Execute(d) PROVE Goal
  <2>1. PICK c : doc' = doc \/ DeliverPrompt(d, c)
      BY <1>6 DEF Execute, ExecuteRun, ExecuteSteer, ExecuteInterrupt,
         ExecuteRespondInput, Reject, DispatchFails
  <2>2. PICK m : \/ doc' = doc
                 \/ doc' = [doc EXCEPT ![d] = Merge(doc[d], MessageOp(m))]
      BY <2>1 DEF DeliverPrompt
  <2>3. UNCHANGED <<room, disk>>
      BY <1>6 DEF Execute
  <2>4. AllOutcomes' \subseteq AllOutcomes \cup {}
      BY <1>m, <2>2, <2>3, OpSpreads
  <2> QED
      BY <2>4
<1>7. ASSUME NEW d \in Devices, AssistantEntry(d) PROVE Goal
  <2>1. PICK m : doc' = [doc EXCEPT ![d] = Merge(doc[d], MessageOp(m))]
      BY <1>7 DEF AssistantEntry
  <2>2. UNCHANGED <<room, disk>>
      BY <1>7 DEF AssistantEntry
  <2>3. AllOutcomes' \subseteq AllOutcomes \cup {}
      BY <1>m, <2>1, <2>2, OpSpreads
  <2> QED
      BY <2>3
<1>8. ASSUME NEW d \in Devices, Crash(d) PROVE Goal
  <2>1. \A x \in Devices : OldOr(doc'[x], {})
      BY <1>8, <1>e, HereIsAll DEF Crash, TypeOK
  <2> QED
      BY <1>8, <2>1, HereIsAll, SpreadFrame DEF Crash
<1>9. CASE UNCHANGED <<room, doc, disk>>
    BY <1>9 DEF AllOutcomes, AllReplicas
<1> QED
    BY <1>1, <1>2, <1>3, <1>4, <1>5, <1>6, <1>7, <1>8, <1>9
    DEF Next, vars, Tick, BeginDrain, EndDrain, Decide, TurnEnds, WriteRow, SeeRow

(* No replica holds an outcome at first.                                    *)
LEMMA InitOutcomes == Init => AllOutcomes = {}
BY DEF Init, AllOutcomes, AllReplicas, EmptyReplica

LEMMA OutcomeType == TypeOK => AllOutcomes \subseteq Outcome
<1> SUFFICES ASSUME TypeOK PROVE AllOutcomes \subseteq Outcome
    OBVIOUS
<1>1. /\ room \in Replica
      /\ \A d \in Devices : doc[d] \in Replica /\ disk[d] \in Replica
    BY DEF TypeOK
<1>2. \A r \in AllReplicas : r \in Replica
    BY <1>1 DEF AllReplicas
<1>3. \A r \in AllReplicas : r.outs \subseteq Outcome
    BY <1>2 DEF Replica
<1> QED
    BY <1>3 DEF AllOutcomes

LEMMA AllBacked ==
    ASSUME ReplicasBacked PROVE \A o \in AllOutcomes : o.cmd \in ledger[o.by]
BY BackedEverywhere DEF OutcomesAreBacked

(* How a step changes what a drain pass has in hand.                        *)
LEMMA HandChanges ==
    ASSUME TypeOK, [Next]_vars, \A d \in Devices : ~Decide(d) /\ ~Execute(d)
    PROVE  \A x \in Devices : \/ drain'[x] = drain[x]
                              \/ drain'[x].step = "idle"
                              \/ drain'[x].step = "scan"
<1> USE DEF docVars, runVars, rowVars
<1> DEFINE Goal == \A x \in Devices : \/ drain'[x] = drain[x]
                                      \/ drain'[x].step = "idle"
                                      \/ drain'[x].step = "scan"
<1>1. ASSUME NEW d \in Devices,
             BeginDrain(d) \/ EndDrain(d) \/ Settle(d) \/ Crash(d)
      PROVE  Goal
  <2>1. \/ drain' = [drain EXCEPT ![d] = ScanDrain]
        \/ drain' = [drain EXCEPT ![d] = IdleDrain]
      BY <1>1 DEF BeginDrain, EndDrain, Settle, Crash
  <2> QED
      BY <2>1 DEF ScanDrain, IdleDrain, TypeOK
<1>2. CASE UNCHANGED drain
    BY <1>2
<1> QED
    BY <1>1, <1>2 DEF Next, vars, Tick, Open, QueueCommand, Push, Pull,
       SaveSnapshot, AssistantEntry, TurnEnds, WriteRow, SeeRow

-----------------------------------------------------------------------------
(* One author never contradicts itself                                      *)

SameAuthorAgrees ==
    \A o1, o2 \in AllOutcomes : o1.cmd = o2.cmd /\ o1.by = o2.by => o1 = o2

(* A pass with a command in hand has not written its outcome yet.           *)
HandIsUnsettled ==
    \A d \in Devices : drain[d].step \in {"decided", "executed"} =>
        \A o \in AllOutcomes : ~(o.cmd = drain[d].cmd /\ o.by = d)

AuthorInv == SameAuthorAgrees /\ HandIsUnsettled

LEMMA InitAuthor == Init => AuthorInv
BY InitOutcomes DEF AuthorInv, SameAuthorAgrees, HandIsUnsettled

LEMMA NextAuthor ==
    TypeOK /\ ReplicasBacked /\ AuthorInv /\ [Next]_vars => AuthorInv'
<1> SUFFICES ASSUME TypeOK, ReplicasBacked, AuthorInv, [Next]_vars
             PROVE  AuthorInv'
    OBVIOUS
<1>1. ASSUME NEW d \in Devices, Settle(d) PROVE AuthorInv'
  <2>1. AllOutcomes' \subseteq AllOutcomes \cup {Settled(d)}
      BY <1>1, SettleSpreads
  <2>2. drain[d].step \in {"decided", "executed"}
      BY <1>1 DEF Settle
  <2>3. Settled(d).cmd = drain[d].cmd /\ Settled(d).by = d
      BY DEF Settled
  <2>4. \A o \in AllOutcomes : ~(o.cmd = Settled(d).cmd /\ o.by = Settled(d).by)
      BY <2>2, <2>3 DEF AuthorInv, HandIsUnsettled
  <2>5. SameAuthorAgrees'
    <3> HIDE DEF Settled
    <3> QED
        BY <2>1, <2>4 DEF AuthorInv, SameAuthorAgrees
  <2>6. drain' = [drain EXCEPT ![d] = ScanDrain]
      BY <1>1 DEF Settle
  <2>7. /\ drain'[d].step = "scan"
        /\ \A x \in Devices : x # d => drain'[x] = drain[x]
      BY <2>6 DEF ScanDrain, TypeOK
  <2>8. HandIsUnsettled'
      BY <2>1, <2>3, <2>7 DEF AuthorInv, HandIsUnsettled
  <2> QED
      BY <2>5, <2>8 DEF AuthorInv
<1>2. ASSUME \A d \in Devices : ~Settle(d) PROVE AuthorInv'
  <2>1. AllOutcomes' \subseteq AllOutcomes
      BY <1>2, OthersSpread
  <2>2. SameAuthorAgrees'
      BY <2>1 DEF AuthorInv, SameAuthorAgrees
  <2>3. ASSUME NEW d \in Devices, Decide(d) PROVE HandIsUnsettled'
    <3>1. PICK e \in DrainCandidates(d), verdict \in Dispositions :
            drain' = [drain EXCEPT ![d] =
                        [step |-> "decided", cmd |-> e.id,
                         verdict |-> verdict, status |-> "applied"]]
        BY <2>3, DispositionType DEF Decide
    <3>2. e.id \notin ledger[d]
        BY DEF DrainCandidates
    <3>3. \A o \in AllOutcomes : ~(o.cmd = e.id /\ o.by = d)
        BY <3>2, AllBacked
    <3>4. /\ drain'[d].cmd = e.id
          /\ \A x \in Devices : x # d => drain'[x] = drain[x]
        BY <3>1 DEF TypeOK
    <3> QED
        BY <2>1, <3>3, <3>4 DEF AuthorInv, HandIsUnsettled
  <2>4. ASSUME NEW d \in Devices, Execute(d) PROVE HandIsUnsettled'
    <3>1. PICK status \in Statuses : Executed(d, status)
        BY <2>4 DEF Execute, ExecuteRun, ExecuteSteer, ExecuteInterrupt,
           ExecuteRespondInput, Apply, Reject, DispatchFails, Statuses
    <3>2. /\ drain'[d].cmd = drain[d].cmd /\ drain[d].step = "decided"
          /\ \A x \in Devices : x # d => drain'[x] = drain[x]
        BY <2>4, <3>1 DEF Executed, Execute, TypeOK
    <3> QED
        BY <2>1, <3>2 DEF AuthorInv, HandIsUnsettled
  <2>5. ASSUME \A d \in Devices : ~Decide(d) /\ ~Execute(d) PROVE HandIsUnsettled'
    <3>1. \A x \in Devices : \/ drain'[x] = drain[x]
                             \/ drain'[x].step = "idle"
                             \/ drain'[x].step = "scan"
        BY <2>5, HandChanges
    <3> QED
        BY <2>1, <3>1 DEF AuthorInv, HandIsUnsettled
  <2> QED
      BY <2>2, <2>3, <2>4, <2>5 DEF AuthorInv
<1> QED
    BY <1>1, <1>2

-----------------------------------------------------------------------------
(* A chat that keeps its host                                               *)

(* The chat has a host, and nobody moves it: no write of its row is left.   *)
FixedHost == InitialHost \in Devices /\ MaxRows <= 1

HostInv ==
    /\ rows = <<InitialHost>>
    /\ \A d \in Devices : drain[d].step # "idle" => d = InitialHost
    /\ \A o \in AllOutcomes : o.by = InitialHost

LEMMA InitHost == Init => HostInv
<1> SUFFICES ASSUME Init PROVE HostInv
    OBVIOUS
<1>1. \A d \in Devices : drain[d].step = "idle"
    BY DEF Init, IdleDrain
<1> QED
    BY <1>1, InitOutcomes DEF HostInv, Init

(* Every device reads the one value the row has ever had.                   *)
LEMMA OneRow ==
    ASSUME TypeOK, HostInv, NEW d \in Devices
    PROVE  RowAt(d) = InitialHost /\ Len(rows) = 1
<1>1. Len(rows) = 1 /\ rows[1] = InitialHost
    BY DEF HostInv
<1>2. rowSeen[d] \in 1..Len(rows)
    BY DEF TypeOK
<1>3. rowSeen[d] = 1
    BY <1>1, <1>2
<1> QED
    BY <1>1, <1>3 DEF RowAt

LEMMA NextHost ==
    ASSUME FixedHost PROVE TypeOK /\ HostInv /\ [Next]_vars => HostInv'
<1> SUFFICES ASSUME TypeOK, HostInv, [Next]_vars PROVE HostInv'
    OBVIOUS
<1> USE DEF docVars, runVars, rowVars
<1>n. InitialHost # NoHost
    BY PlaneAssumption DEF FixedHost
<1>1. rows' = rows
  <2>1. ASSUME NEW d \in Devices, NEW h \in Devices, WriteRow(d, h) PROVE FALSE
    <3>1. Len(rows) < MaxRows /\ Len(rows) = 1 /\ MaxRows \in Nat
        BY <2>1, OneRow, PlaneAssumption DEF WriteRow
    <3> QED
        BY <3>1 DEF FixedHost
  <2>2. ASSUME NEW d \in Devices, Execute(d) PROVE rows' = rows
    <3>1. ClaimChat(d) \/ UNCHANGED rowVars
        BY <2>2 DEF Execute, ExecuteRun, ExecuteSteer, ExecuteInterrupt,
           ExecuteRespondInput, Reject
    <3> QED
        BY <1>n, <3>1, OneRow DEF ClaimChat
  <2> QED
      BY <2>1, <2>2 DEF Next, vars, Tick, Open, QueueCommand, Push, Pull,
         SaveSnapshot, BeginDrain, EndDrain, Decide, Settle, AssistantEntry,
         TurnEnds, SeeRow, Crash
<1>2. \A d \in Devices : drain'[d].step # "idle" => d = InitialHost
  <2>1. ASSUME NEW d \in Devices, BeginDrain(d)
        PROVE  \A x \in Devices : drain'[x].step # "idle" => x = InitialHost
    <3>1. drain' = [drain EXCEPT ![d] = IF IsHost(d) THEN ScanDrain ELSE IdleDrain]
        BY <2>1 DEF BeginDrain
    <3>2. IsHost(d) => d = InitialHost
        BY <1>n, OneRow DEF IsHost
    <3>3. /\ drain'[d].step # "idle" => d = InitialHost
          /\ \A x \in Devices : x # d => drain'[x] = drain[x]
        BY <3>1, <3>2 DEF IdleDrain, TypeOK
    <3> QED
        BY <3>3 DEF HostInv
  <2>2. ASSUME NEW d \in Devices, drain[d].step # "idle",
               \A x \in Devices : x # d => drain'[x] = drain[x]
        PROVE  \A x \in Devices : drain'[x].step # "idle" => x = InitialHost
      BY <2>2 DEF HostInv
  <2>3. ASSUME NEW d \in Devices, Decide(d) \/ Execute(d) \/ Settle(d) \/ EndDrain(d)
        PROVE  \A x \in Devices : drain'[x].step # "idle" => x = InitialHost
    <3>1. drain[d].step # "idle"
        BY <2>3 DEF Decide, Execute, Settle, EndDrain
    <3>2. PICK r : drain' = [drain EXCEPT ![d] = r]
        BY <2>3 DEF Decide, Execute, Settle, EndDrain, ExecuteRun, ExecuteSteer,
           ExecuteInterrupt, ExecuteRespondInput, Apply, Reject, DispatchFails,
           Executed
    <3>3. \A x \in Devices : x # d => drain'[x] = drain[x]
        BY <3>2 DEF TypeOK
    <3> QED
        BY <2>2, <3>1, <3>3
  <2>4. ASSUME NEW d \in Devices, Crash(d)
        PROVE  \A x \in Devices : drain'[x].step # "idle" => x = InitialHost
      BY <2>4 DEF Crash, IdleDrain, HostInv, TypeOK
  <2>5. CASE UNCHANGED drain
      BY <2>5 DEF HostInv
  <2> QED
      BY <2>1, <2>3, <2>4, <2>5 DEF Next, vars, Tick, Open, QueueCommand, Push,
         Pull, SaveSnapshot, AssistantEntry, TurnEnds, WriteRow, SeeRow
<1>3. \A o \in AllOutcomes' : o.by = InitialHost
  <2>1. ASSUME NEW d \in Devices, Settle(d)
        PROVE  \A o \in AllOutcomes' : o.by = InitialHost
    <3>1. drain[d].step # "idle"
        BY <2>1 DEF Settle
    <3>2. Settled(d).by = InitialHost
        BY <3>1 DEF HostInv, Settled
    <3>3. AllOutcomes' \subseteq AllOutcomes \cup {Settled(d)}
        BY <2>1, SettleSpreads
    <3> HIDE DEF Settled
    <3> QED
        BY <3>2, <3>3 DEF HostInv
  <2>2. ASSUME \A d \in Devices : ~Settle(d)
        PROVE  \A o \in AllOutcomes' : o.by = InitialHost
      BY <2>2, OthersSpread DEF HostInv
  <2> QED
      BY <2>1, <2>2
<1> QED
    BY <1>1, <1>2, <1>3 DEF HostInv

(* While a chat keeps its host, no two outcomes of one command, wherever    *)
(* they are kept and whatever the host crashed through, ever differ.        *)
THEOREM HostOutcomesAgree ==
    ASSUME FixedHost PROVE Spec => []OutcomesAgree
<1>1. AuthorInv /\ HostInv => OutcomesAgree
    BY DEF AuthorInv, SameAuthorAgrees, HostInv, OutcomesAgree
<1>2. TypeOK /\ HostInv /\ [Next]_vars => HostInv'
    BY NextHost
<1> QED
    BY <1>1, <1>2, InitType, InitClaim, InitAuthor, InitHost, NextType,
       NextClaim, NextBacked, NextAuthor, PTL DEF Spec

-----------------------------------------------------------------------------
(* The last steer                                                           *)
(*                                                                          *)
(* Supersession is decided against what one replica holds at one moment, so *)
(* LastSteerSurvives rests on three facts about all of them: ids are never  *)
(* used twice, only queued commands are ever claimed, and the issue times   *)
(* are bounded; and on the reason behind every supersession.                *)

Later(e) == {l \in entries : l.kind = "steer" /\ l.issuedAt > e.issuedAt}

IdsAreUnique == \A e1, e2 \in entries : e1.id = e2.id => e1 = e2
ClaimedIsQueued ==
    \A d \in Devices : \A c \in ledger[d] : \E e \in entries : e.id = c
IssueTimesBounded == \E bound \in Nat : \A e \in entries : e.issuedAt <= bound

EntryInv == IdsAreUnique /\ ClaimedIsQueued /\ IssueTimesBounded

(* A steer that a pass is about to supersede, or has, has a later one.      *)
DropIsExplained ==
    \A d \in Devices, e \in entries :
        (/\ drain[d].step = "decided" /\ drain[d].verdict = "superseded"
         /\ drain[d].cmd = e.id /\ e.kind = "steer") => Later(e) # {}
OutcomeIsExplained ==
    \A o \in AllOutcomes, e \in entries :
        (o.cmd = e.id /\ o.status = "superseded" /\ e.kind = "steer") =>
            Later(e) # {}
(* What was executed is reported as applied or rejected.                    *)
ExecutedStatus ==
    \A d \in Devices : drain[d].step = "executed" =>
        drain[d].status \in {"applied", "rejected"}

SteerInv == DropIsExplained /\ OutcomeIsExplained /\ ExecutedStatus

LEMMA InitSteer == Init => EntryInv /\ SteerInv
<1> SUFFICES ASSUME Init PROVE EntryInv /\ SteerInv
    OBVIOUS
<1>1. entries = {} /\ \A d \in Devices : ledger[d] = {} /\ drain[d].step = "idle"
    BY DEF Init, IdleDrain
<1>2. \A e \in entries : e.issuedAt <= 0
    BY <1>1
<1> QED
    BY <1>1, <1>2, InitOutcomes DEF EntryInv, SteerInv, IdsAreUnique,
       ClaimedIsQueued, IssueTimesBounded, DropIsExplained, OutcomeIsExplained,
       ExecutedStatus

(* A command is queued under an id nobody has used.                         *)
LEMMA QueueAdds ==
    ASSUME TypeOK, NEW d \in Devices, QueueCommand(d)
    PROVE  \E n : /\ entries' = entries \cup {n}
                  /\ \A e \in entries : e.id # n.id
                  /\ n.issuedAt \in Nat
<1> PICK c \in Commands, k \in QueuedKinds, m \in LastMessages(doc[d].msgs) :
        /\ \A e \in entries : e.id # c
        /\ entries' = entries \cup
              {[id |-> c, kind |-> k, by |-> d, issuedAt |-> NowAt(d),
                basedOn |-> m, after |-> doc[d].cmds]}
    BY DEF QueueCommand
<1>1. NowAt(d) \in Nat
    BY PlaneAssumption DEF TypeOK, NowAt
<1> DEFINE n == [id |-> c, kind |-> k, by |-> d, issuedAt |-> NowAt(d),
                 basedOn |-> m, after |-> doc[d].cmds]
<1>2. n.id = c /\ n.issuedAt = NowAt(d)
    OBVIOUS
<1>3. entries' = entries \cup {n} /\ (\A e \in entries : e.id # n.id)
    BY <1>2
<1> HIDE DEF n
<1> QED
    BY <1>1, <1>2, <1>3

LEMMA NextEntry == TypeOK /\ EntryInv /\ [Next]_vars => EntryInv'
<1> SUFFICES ASSUME TypeOK, EntryInv, [Next]_vars PROVE EntryInv'
    OBVIOUS
<1> USE DEF docVars, runVars, rowVars
<1>1. ASSUME NEW d \in Devices, QueueCommand(d) PROVE EntryInv'
  <2>1. PICK n : /\ entries' = entries \cup {n}
                 /\ \A e \in entries : e.id # n.id
                 /\ n.issuedAt \in Nat
      BY <1>1, QueueAdds
  <2>2. ledger' = ledger
      BY <1>1 DEF QueueCommand
  <2>3. IdsAreUnique'
      BY <2>1 DEF EntryInv, IdsAreUnique
  <2>4. ClaimedIsQueued'
      BY <2>1, <2>2 DEF EntryInv, ClaimedIsQueued
  <2>5. PICK bound \in Nat : \A e \in entries : e.issuedAt <= bound
      BY DEF EntryInv, IssueTimesBounded
  <2>6. \A e \in entries : e.issuedAt \in Nat
      BY DEF TypeOK, Entry
  <2>7. \A e \in entries' : e.issuedAt <= bound + n.issuedAt
      BY <2>1, <2>5, <2>6
  <2>8. IssueTimesBounded'
      BY <2>1, <2>7 DEF IssueTimesBounded
  <2> QED
      BY <2>3, <2>4, <2>8 DEF EntryInv
<1>2. ASSUME NEW d \in Devices, Decide(d) PROVE EntryInv'
  <2>1. PICK e \in DrainCandidates(d), verdict \in Dispositions :
          ledger' = [ledger EXCEPT ![d] = MarkProcessed(d, e.id, verdict)]
      BY <1>2, DispositionType DEF Decide
  <2>2. e \in entries
      BY DEF DrainCandidates, PendingEntries
  <2>3. entries' = entries
      BY <1>2 DEF Decide
  <2>4. ClaimedIsQueued'
      BY <2>1, <2>2, <2>3 DEF EntryInv, ClaimedIsQueued, MarkProcessed, TypeOK
  <2> QED
      BY <2>3, <2>4 DEF EntryInv, IdsAreUnique, IssueTimesBounded
<1>3. CASE UNCHANGED <<entries, ledger>>
    BY <1>3 DEF EntryInv, IdsAreUnique, ClaimedIsQueued, IssueTimesBounded
<1> QED
    BY <1>1, <1>2, <1>3 DEF Next, vars, Tick, Open, Push, Pull, SaveSnapshot,
       BeginDrain, EndDrain, Execute, Settle, AssistantEntry, TurnEnds,
       WriteRow, SeeRow, Crash

(* A step that queues nothing.                                              *)
LEMMA EntriesStay ==
    ASSUME [Next]_vars, \A d \in Devices : ~QueueCommand(d)
    PROVE  entries' = entries
BY DEF Next, vars, Tick, Open, Push, Pull, SaveSnapshot, BeginDrain, EndDrain,
       Decide, Execute, Settle, AssistantEntry, TurnEnds, WriteRow, SeeRow, Crash

(* The supersede rule has the later steer before it when it fires.          *)
LEMMA SupersededBy ==
    ASSUME NEW e, NEW cx, e.kind = "steer", cx.pending \subseteq entries,
           EvaluateCommand(e, cx) = "superseded"
    PROVE  Later(e) # {}
<1>1. Newer(e, cx.pending) # {}
    BY DEF EvaluateCommand
<1> QED
    BY <1>1 DEF Newer, Later

LEMMA NextSteer ==
    TypeOK /\ ClaimInv /\ ReplicasBacked /\ EntryInv /\ SteerInv /\ [Next]_vars
        => SteerInv'
<1> SUFFICES ASSUME TypeOK, ClaimInv, ReplicasBacked, EntryInv, SteerInv,
                    [Next]_vars
             PROVE  SteerInv'
    OBVIOUS
<1> USE DEF docVars, runVars, rowVars
<1>1. ASSUME NEW d \in Devices, QueueCommand(d) PROVE SteerInv'
  <2>1. PICK n : /\ entries' = entries \cup {n}
                 /\ \A e \in entries : e.id # n.id
                 /\ n.issuedAt \in Nat
      BY <1>1, QueueAdds
  <2>2. drain' = drain
      BY <1>1 DEF QueueCommand
  <2>3. \A e : Later(e) # {} => Later(e)' # {}
      BY <2>1 DEF Later
  <2>4. ASSUME NEW x \in Devices, drain[x].step = "decided"
        PROVE  drain[x].cmd # n.id
      BY <2>1, <2>4 DEF ClaimInv, DecidedIsFresh, EntryInv, ClaimedIsQueued
  <2>5. DropIsExplained'
      BY <2>1, <2>2, <2>3, <2>4 DEF SteerInv, DropIsExplained
  <2>6. \A x \in Devices : ~Settle(x)
    <3>1. ASSUME NEW x \in Devices, Settle(x) PROVE FALSE
      <4>1. entries' = entries
          BY <3>1 DEF Settle
      <4> QED
          BY <2>1, <4>1
    <3> QED
        BY <3>1
  <2>7. AllOutcomes' \subseteq AllOutcomes
      BY <2>6, OthersSpread
  <2>8. \A o \in AllOutcomes : o.by \in Devices /\ o.cmd \in ledger[o.by]
      BY OutcomeType, AllBacked DEF Outcome
  <2>9. \A o \in AllOutcomes : o.cmd # n.id
      BY <2>1, <2>8 DEF EntryInv, ClaimedIsQueued
  <2>10. OutcomeIsExplained'
      BY <2>1, <2>3, <2>7, <2>9 DEF SteerInv, OutcomeIsExplained
  <2> QED
      BY <2>2, <2>5, <2>10 DEF SteerInv, ExecutedStatus
<1>2. ASSUME \A d \in Devices : ~QueueCommand(d) PROVE SteerInv'
  <2>1. entries' = entries /\ \A e : Later(e)' = Later(e)
      BY <1>2, EntriesStay DEF Later
  <2>2. OutcomeIsExplained'
    <3>1. ASSUME NEW d \in Devices, Settle(d) PROVE OutcomeIsExplained'
      <4>1. AllOutcomes' \subseteq AllOutcomes \cup {Settled(d)}
          BY <3>1, SettleSpreads
      <4>2. Settled(d).cmd = drain[d].cmd /\ Settled(d).status = StatusInHand(d)
          BY DEF Settled
      <4>3. StatusInHand(d) = "superseded" =>
              drain[d].step = "decided" /\ drain[d].verdict = "superseded"
          BY <3>1 DEF Settle, StatusInHand, SteerInv, ExecutedStatus
      <4>4. \A e \in entries :
               (/\ Settled(d).cmd = e.id /\ Settled(d).status = "superseded"
                /\ e.kind = "steer") => Later(e) # {}
          BY <4>2, <4>3 DEF SteerInv, DropIsExplained
      <4> HIDE DEF Settled
      <4> QED
          BY <2>1, <4>1, <4>4 DEF SteerInv, OutcomeIsExplained
    <3>2. ASSUME \A d \in Devices : ~Settle(d) PROVE OutcomeIsExplained'
      <4>1. AllOutcomes' \subseteq AllOutcomes
          BY <3>2, OthersSpread
      <4> QED
          BY <2>1, <4>1 DEF SteerInv, OutcomeIsExplained
    <3> QED
        BY <3>1, <3>2
  <2>3. ASSUME NEW d \in Devices, Decide(d) PROVE DropIsExplained' /\ ExecutedStatus'
    <3>1. PICK e \in DrainCandidates(d), m \in LastMessages(doc[d].msgs) :
            LET cx == [processed |-> ledger[d], now |-> NowAt(d),
                       pending |-> PendingEntries(doc[d]),
                       current |-> m, past |-> doc[d].msgs]
            IN  drain' = [drain EXCEPT ![d] =
                            [step |-> "decided", cmd |-> e.id,
                             verdict |-> EvaluateCommand(e, cx),
                             status |-> "applied"]]
        BY <2>3 DEF Decide
    <3> DEFINE cx == [processed |-> ledger[d], now |-> NowAt(d),
                      pending |-> PendingEntries(doc[d]),
                      current |-> m, past |-> doc[d].msgs]
    <3>2. e \in entries /\ cx.pending \subseteq entries
        BY DEF DrainCandidates, PendingEntries
    <3>3. e.kind = "steer" /\ EvaluateCommand(e, cx) = "superseded" => Later(e) # {}
      <4> HIDE DEF cx
      <4> QED
          BY <3>2, SupersededBy
    <3>4. /\ drain'[d].step = "decided" /\ drain'[d].cmd = e.id
          /\ drain'[d].verdict = EvaluateCommand(e, cx)
          /\ \A x \in Devices : x # d => drain'[x] = drain[x]
        BY <3>1 DEF TypeOK
    <3> HIDE DEF cx
    <3>5. \A e2 \in entries : e2.id = e.id => e2 = e
        BY <3>2 DEF EntryInv, IdsAreUnique
    <3>6. DropIsExplained'
        BY <2>1, <3>3, <3>4, <3>5 DEF SteerInv, DropIsExplained
    <3> QED
        BY <3>4, <3>6 DEF SteerInv, ExecutedStatus
  <2>4. ASSUME NEW d \in Devices, Execute(d) PROVE DropIsExplained' /\ ExecutedStatus'
    <3>1. PICK status \in {"applied", "rejected"} : Executed(d, status)
        BY <2>4 DEF Execute, ExecuteRun, ExecuteSteer, ExecuteInterrupt,
           ExecuteRespondInput, Apply, Reject, DispatchFails
    <3>2. /\ drain'[d].step = "executed" /\ drain'[d].status = status
          /\ \A x \in Devices : x # d => drain'[x] = drain[x]
        BY <3>1 DEF Executed, TypeOK
    <3>3. DropIsExplained'
        BY <2>1, <3>2 DEF SteerInv, DropIsExplained
    <3> QED
        BY <3>2, <3>3 DEF SteerInv, ExecutedStatus
  <2>5. ASSUME \A d \in Devices : ~Decide(d) /\ ~Execute(d)
        PROVE  DropIsExplained' /\ ExecutedStatus'
    <3>1. \A x \in Devices : \/ drain'[x] = drain[x]
                             \/ drain'[x].step = "idle"
                             \/ drain'[x].step = "scan"
        BY <2>5, HandChanges
    <3>2. DropIsExplained'
        BY <2>1, <3>1 DEF SteerInv, DropIsExplained
    <3> QED
        BY <3>1, <3>2 DEF SteerInv, ExecutedStatus
  <2> QED
      BY <2>2, <2>3, <2>4, <2>5 DEF SteerInv
<1> QED
    BY <1>1, <1>2

(* Of the steers later than a superseded one, take one issued last: had it  *)
(* been superseded too, there would be a still later one.                   *)
LEMMA GreatestLaterSurvives ==
    ASSUME TypeOK, EntryInv, SteerInv PROVE LastSteerSurvives
<1> SUFFICES ASSUME NEW o \in AllOutcomes, NEW e \in entries, o.cmd = e.id,
                    o.status = "superseded", e.kind = "steer"
             PROVE  \E later \in entries :
                      /\ later.kind = "steer"
                      /\ later.issuedAt > e.issuedAt
                      /\ \A other \in AllOutcomes :
                           other.cmd = later.id => other.status # "superseded"
    BY DEF LastSteerSurvives
<1>1. Later(e) # {}
    BY DEF SteerInv, OutcomeIsExplained
<1> DEFINE T == {l.issuedAt : l \in Later(e)}
<1>2. \A l \in entries : l.issuedAt \in Nat
    BY DEF TypeOK, Entry
<1>3. T \in SUBSET Nat /\ T # {}
    BY <1>1, <1>2 DEF Later
<1>4. PICK bound \in Nat : \A n \in T : n <= bound
    BY DEF EntryInv, IssueTimesBounded, Later
<1>5. \E last \in T : \A n \in T : n <= last
  <2> HIDE DEF T
  <2> QED
      BY <1>3, <1>4, GreatestExists
<1>6. PICK later \in Later(e) : \A l \in Later(e) : l.issuedAt <= later.issuedAt
    BY <1>5
<1>7. /\ later \in entries /\ later.kind = "steer"
      /\ later.issuedAt > e.issuedAt
    BY <1>6 DEF Later
<1>8. Later(later) = {}
    BY <1>2, <1>6, <1>7 DEF Later
<1>9. \A other \in AllOutcomes : other.cmd = later.id => other.status # "superseded"
    BY <1>7, <1>8 DEF SteerInv, OutcomeIsExplained
<1> QED
    BY <1>7, <1>9

(* The last prompt a user types is never lost to the supersede rule,        *)
(* wherever the host sits, in whatever order the replicas learn of the      *)
(* steers and however the clocks differ.                                    *)
THEOREM LastSteerAlwaysSurvives == Spec => []LastSteerSurvives
<1> QED
    BY InitType, InitClaim, InitSteer, NextType, NextClaim, NextBacked,
       NextEntry, NextSteer, GreatestLaterSurvives, PTL DEF Spec

-----------------------------------------------------------------------------
(* Nothing is lost while no engine crashes                                  *)
(*                                                                          *)
(* What CommandsSettle needs besides fairness: the entry is still where its *)
(* author wrote it, and a claimed entry is in hand or has its outcome.      *)

(* What a device has neither opened nor reopened holds nothing.             *)
Unopened == \A d \in Devices : d \notin opened => doc[d] = EmptyReplica

InHand(d, c) == drain[d].step \in {"decided", "executed"} /\ drain[d].cmd = c
SettledHere(d, c) == \E o \in doc[d].outs : o.cmd = c /\ o.by = d

KeptByAuthor == \A e \in entries : e.by \in Devices /\ e.id \in doc[e.by].cmds
ClaimsHeld ==
    \A d \in Devices : \A c \in ledger[d] : InHand(d, c) \/ SettledHere(d, c)

CommandsKept == crashes = 0 => KeptByAuthor /\ ClaimsHeld

LEMMA InitKept == Init => Unopened /\ CommandsKept
BY DEF Init, Unopened, CommandsKept, KeptByAuthor, ClaimsHeld

(* A step of d that merges op into its replica, or leaves it.               *)
LEMMA MergeGrows ==
    ASSUME TypeOK, NEW d \in Devices, NEW op,
           doc' = doc \/ doc' = [doc EXCEPT ![d] = Merge(doc[d], op)]
    PROVE  \A x \in Devices : /\ doc[x].cmds \subseteq doc'[x].cmds
                              /\ doc[x].outs \subseteq doc'[x].outs
                              /\ x # d => doc'[x] = doc[x]
BY DEF TypeOK, Merge

(* What a step may do to the replicas, short of an open or a crash.         *)
MergedInto(d) == \E op : doc' = [doc EXCEPT ![d] = Merge(doc[d], op)]
LEMMA DocMoves ==
    ASSUME [Next]_vars, \A d \in Devices : ~Open(d) /\ ~Crash(d)
    PROVE  /\ opened' = opened
           /\ doc' = doc \/ \E d \in opened \cap Devices : MergedInto(d)
<1> USE DEF docVars, runVars, rowVars
<1> DEFINE Moves == /\ opened' = opened
                    /\ doc' = doc \/ \E d \in opened \cap Devices : MergedInto(d)
<1>1. ASSUME NEW d \in Devices, NEW op, d \in opened, opened' = opened,
             doc' = doc \/ doc' = [doc EXCEPT ![d] = Merge(doc[d], op)]
      PROVE  Moves
    BY <1>1 DEF MergedInto
<1> HIDE DEF Moves
<1>2. ASSUME NEW d \in Devices, QueueCommand(d) PROVE Moves
  <2>1. PICK c : doc' = [doc EXCEPT ![d] = Merge(doc[d], CommandOp(c))]
      BY <1>2 DEF QueueCommand
  <2> QED
      BY <1>1, <1>2, <2>1 DEF QueueCommand
<1>3. ASSUME NEW d \in Devices, Pull(d) PROVE Moves
    BY <1>1, <1>3 DEF Pull
<1>4. ASSUME NEW d \in Devices, Execute(d) PROVE Moves
  <2>1. PICK c : doc' = doc \/ DeliverPrompt(d, c)
      BY <1>4 DEF Execute, ExecuteRun, ExecuteSteer, ExecuteInterrupt,
         ExecuteRespondInput, Reject, DispatchFails
  <2>2. PICK m : \/ doc' = doc
                 \/ doc' = [doc EXCEPT ![d] = Merge(doc[d], MessageOp(m))]
      BY <2>1 DEF DeliverPrompt
  <2>3. d \in opened /\ opened' = opened
      BY <1>4 DEF Execute
  <2> QED
      BY <1>1, <2>2, <2>3
<1>5. ASSUME NEW d \in Devices, Settle(d) PROVE Moves
  <2>1. PICK o : doc' = [doc EXCEPT ![d] = Merge(doc[d], OutcomeOp(o))]
      BY <1>5 DEF Settle
  <2> QED
      BY <1>1, <1>5, <2>1 DEF Settle
<1>6. ASSUME NEW d \in Devices, AssistantEntry(d) PROVE Moves
  <2>1. PICK m : doc' = [doc EXCEPT ![d] = Merge(doc[d], MessageOp(m))]
      BY <1>6 DEF AssistantEntry
  <2> QED
      BY <1>1, <1>6, <2>1 DEF AssistantEntry
<1>7. CASE UNCHANGED <<doc, opened>>
    BY <1>7 DEF Moves
<1> QED
    BY <1>2, <1>3, <1>4, <1>5, <1>6, <1>7
    DEF Moves, Next, vars, Tick, Push, SaveSnapshot, BeginDrain, EndDrain,
        Decide, TurnEnds, WriteRow, SeeRow

LEMMA NextUnopened == TypeOK /\ Unopened /\ [Next]_vars => Unopened'
<1> SUFFICES ASSUME TypeOK, Unopened, [Next]_vars PROVE Unopened'
    OBVIOUS
<1>1. ASSUME NEW d \in Devices, Open(d) PROVE Unopened'
    BY <1>1 DEF Open, Unopened, TypeOK
<1>2. ASSUME NEW d \in Devices, Crash(d) PROVE Unopened'
    BY <1>2 DEF Crash, Unopened, TypeOK
<1>3. ASSUME \A d \in Devices : ~Open(d) /\ ~Crash(d) PROVE Unopened'
  <2>1. ASSUME NEW d \in opened \cap Devices, NEW op, opened' = opened,
               doc' = [doc EXCEPT ![d] = Merge(doc[d], op)]
        PROVE  Unopened'
      BY <2>1 DEF Unopened, TypeOK
  <2>2. ASSUME doc' = doc, opened' = opened PROVE Unopened'
      BY <2>2 DEF Unopened
  <2> QED
      BY <1>3, <2>1, <2>2, DocMoves DEF MergedInto
<1> QED
    BY <1>1, <1>2, <1>3

(* Replicas grow with every step that is not a crash.                       *)
LEMMA DocsGrow ==
    ASSUME TypeOK, Unopened, [Next]_vars, \A d \in Devices : ~Crash(d)
    PROVE  \A x \in Devices : /\ doc[x].cmds \subseteq doc'[x].cmds
                              /\ doc[x].outs \subseteq doc'[x].outs
<1> DEFINE Grows == \A x \in Devices : /\ doc[x].cmds \subseteq doc'[x].cmds
                                       /\ doc[x].outs \subseteq doc'[x].outs
<1>1. ASSUME NEW d \in Devices, Open(d) PROVE Grows
  <2>1. doc[d].cmds = {} /\ doc[d].outs = {}
      BY <1>1 DEF Open, Unopened, EmptyReplica
  <2>2. \A x \in Devices : x # d => doc'[x] = doc[x]
      BY <1>1 DEF Open, TypeOK
  <2> QED
      BY <2>1, <2>2
<1>2. \A d \in Devices : ~Crash(d)
    OBVIOUS
<1>3. ASSUME \A d \in Devices : ~Open(d) PROVE Grows
  <2>1. ASSUME NEW d \in opened \cap Devices, NEW op,
               doc' = [doc EXCEPT ![d] = Merge(doc[d], op)]
        PROVE  Grows
      BY <2>1, MergeGrows
  <2>2. ASSUME doc' = doc PROVE Grows
      BY <2>2
  <2> QED
      BY <1>2, <1>3, <2>1, <2>2, DocMoves DEF MergedInto
<1> QED
    BY <1>1, <1>3

(* A ledger gains only what the pass then has in hand.                      *)
LEMMA LedgerMoves ==
    ASSUME TypeOK, [Next]_vars
    PROVE  \A x \in Devices : \A c \in ledger'[x] :
              c \in ledger[x] \/ InHand(x, c)'
<1>1. ASSUME NEW d \in Devices, Decide(d)
      PROVE  \A x \in Devices : \A c \in ledger'[x] :
                c \in ledger[x] \/ InHand(x, c)'
  <2>1. PICK e, verdict :
          /\ ledger' = [ledger EXCEPT ![d] = ledger[d] \cup {e.id}]
          /\ drain' = [drain EXCEPT ![d] =
                         [step |-> "decided", cmd |-> e.id,
                          verdict |-> verdict, status |-> "applied"]]
      BY <1>1 DEF Decide, MarkProcessed
  <2>2. drain'[d].step = "decided" /\ drain'[d].cmd = e.id
      BY <2>1 DEF TypeOK
  <2>3. \A x \in Devices : ledger'[x] \subseteq
            ledger[x] \cup (IF x = d THEN {e.id} ELSE {})
      BY <2>1 DEF TypeOK
  <2> QED
      BY <2>2, <2>3 DEF InHand
<1>2. CASE UNCHANGED ledger
    BY <1>2
<1> QED
    BY <1>1, <1>2 DEF Next, vars, Tick, Open, QueueCommand, Push, Pull,
       SaveSnapshot, BeginDrain, EndDrain, Execute, Settle, AssistantEntry,
       TurnEnds, WriteRow, SeeRow, Crash

(* A hand lets go of a command only by writing its outcome, or by dying.    *)
LEMMA HandLetsGo ==
    ASSUME TypeOK, [Next]_vars, \A d \in Devices : ~Crash(d)
    PROVE  \A x \in Devices, c \in Commands :
              InHand(x, c) => InHand(x, c)' \/ SettledHere(x, c)'
<1> USE DEF docVars, runVars, rowVars
<1> DEFINE Holds == \A x \in Devices, c \in Commands :
                      InHand(x, c) => InHand(x, c)' \/ SettledHere(x, c)'
<1>1. ASSUME NEW d \in Devices, drain[d].step \in {"idle", "scan"},
             \A x \in Devices : x # d => drain'[x] = drain[x]
      PROVE  Holds
    BY <1>1 DEF InHand
<1>2. ASSUME NEW d \in Devices, BeginDrain(d) \/ EndDrain(d) \/ Decide(d)
      PROVE  Holds
  <2>1. drain[d].step \in {"idle", "scan"}
      BY <1>2 DEF BeginDrain, EndDrain, Decide
  <2>2. PICK r : drain' = [drain EXCEPT ![d] = r]
      BY <1>2 DEF BeginDrain, EndDrain, Decide
  <2> QED
      BY <1>1, <2>1, <2>2 DEF TypeOK
<1>3. ASSUME NEW d \in Devices, Execute(d) PROVE Holds
  <2>1. PICK status : Executed(d, status)
      BY <1>3 DEF Execute, ExecuteRun, ExecuteSteer, ExecuteInterrupt,
         ExecuteRespondInput, Apply, Reject, DispatchFails
  <2>2. drain'[d].step = "executed" /\ drain'[d].cmd = drain[d].cmd
      BY <2>1 DEF Executed, TypeOK
  <2>3. \A x \in Devices : x # d => drain'[x] = drain[x]
      BY <2>1 DEF Executed, TypeOK
  <2> QED
      BY <2>2, <2>3 DEF InHand
<1>4. ASSUME NEW d \in Devices, Settle(d) PROVE Holds
  <2>1. doc' = [doc EXCEPT ![d] = Merge(doc[d], OutcomeOp(Settled(d)))]
      BY <1>4 DEF Settle, Settled, StatusInHand
  <2>2. Settled(d) \in doc'[d].outs
      BY <2>1 DEF TypeOK, Merge, OutcomeOp
  <2>3. Settled(d).cmd = drain[d].cmd /\ Settled(d).by = d
      BY DEF Settled
  <2>4. \A c \in Commands : InHand(d, c) => SettledHere(d, c)'
      BY <2>2, <2>3 DEF InHand, SettledHere
  <2>5. \A x \in Devices : x # d => drain'[x] = drain[x]
      BY <1>4 DEF Settle, TypeOK
  <2>6. \A x \in Devices, c \in Commands :
           x # d /\ InHand(x, c) => InHand(x, c)'
      BY <2>5 DEF InHand
  <2> QED
      BY <2>4, <2>6
<1>5. CASE UNCHANGED drain
    BY <1>5 DEF InHand
<1> QED
    BY <1>2, <1>3, <1>4, <1>5 DEF Next, vars, Tick, Open, QueueCommand, Push,
       Pull, SaveSnapshot, AssistantEntry, TurnEnds, WriteRow, SeeRow

(* The entry that a composer queues, and where it goes.                     *)
Fresh(n) == \A e \in entries : e.id # n.id
LEMMA QueueWrites ==
    ASSUME TypeOK, NEW d \in Devices, QueueCommand(d)
    PROVE  \E n : /\ entries' = entries \cup {n} /\ Fresh(n)
                  /\ n.by = d /\ n.after = doc[d].cmds
                  /\ doc'[d].cmds = doc[d].cmds \cup {n.id}
                  /\ \A x \in Devices : x # d => doc'[x] = doc[x]
<1> PICK c \in Commands, k \in QueuedKinds, m \in LastMessages(doc[d].msgs) :
        /\ \A e \in entries : e.id # c
        /\ entries' = entries \cup
              {[id |-> c, kind |-> k, by |-> d, issuedAt |-> NowAt(d),
                basedOn |-> m, after |-> doc[d].cmds]}
        /\ doc' = [doc EXCEPT ![d] = Merge(doc[d], CommandOp(c))]
    BY DEF QueueCommand
<1> DEFINE n == [id |-> c, kind |-> k, by |-> d, issuedAt |-> NowAt(d),
                 basedOn |-> m, after |-> doc[d].cmds]
<1>1. n.id = c /\ n.by = d /\ n.after = doc[d].cmds
    OBVIOUS
<1>2. entries' = entries \cup {n} /\ Fresh(n)
    BY <1>1 DEF Fresh
<1>3. doc'[d].cmds = doc[d].cmds \cup {c}
    BY DEF TypeOK, Merge, CommandOp
<1>4. \A x \in Devices : x # d => doc'[x] = doc[x]
    BY DEF TypeOK
<1> HIDE DEF n
<1> QED
    BY <1>1, <1>2, <1>3, <1>4

LEMMA NextKept ==
    TypeOK /\ Unopened /\ CommandsKept /\ [Next]_vars => CommandsKept'
<1> SUFFICES ASSUME TypeOK, Unopened, CommandsKept, [Next]_vars, crashes' = 0
             PROVE  KeptByAuthor' /\ ClaimsHeld'
    BY DEF CommandsKept
<1>1. \A d \in Devices : ~Crash(d)
    BY DEF Crash, TypeOK
<1>2. crashes = 0
    BY <1>1 DEF Next, vars, Tick, Open, QueueCommand, Push, Pull, SaveSnapshot,
       BeginDrain, EndDrain, Decide, Execute, Settle, AssistantEntry, TurnEnds,
       WriteRow, SeeRow
<1>3. KeptByAuthor /\ ClaimsHeld
    BY <1>2 DEF CommandsKept
<1>4. \A x \in Devices : /\ doc[x].cmds \subseteq doc'[x].cmds
                         /\ doc[x].outs \subseteq doc'[x].outs
    BY <1>1, DocsGrow
<1>5. KeptByAuthor'
  <2>1. ASSUME NEW d \in Devices, QueueCommand(d) PROVE KeptByAuthor'
    <3>1. PICK n : /\ entries' = entries \cup {n}
                   /\ n.by = d /\ doc'[d].cmds = doc[d].cmds \cup {n.id}
        BY <2>1, QueueWrites
    <3> QED
        BY <1>3, <1>4, <3>1 DEF KeptByAuthor
  <2>2. ASSUME \A d \in Devices : ~QueueCommand(d) PROVE KeptByAuthor'
      BY <1>3, <1>4, <2>2, EntriesStay DEF KeptByAuthor
  <2> QED
      BY <2>1, <2>2
<1>6. ASSUME NEW x \in Devices, NEW c \in ledger'[x]
      PROVE  InHand(x, c)' \/ SettledHere(x, c)'
  <2>1. c \in ledger[x] \/ InHand(x, c)'
      BY LedgerMoves
  <2>2. c \in ledger[x] => c \in Commands /\ (InHand(x, c) \/ SettledHere(x, c))
      BY <1>3 DEF ClaimsHeld, TypeOK
  <2>3. c \in Commands /\ InHand(x, c) => InHand(x, c)' \/ SettledHere(x, c)'
      BY <1>1, HandLetsGo
  <2>4. SettledHere(x, c) => SettledHere(x, c)'
      BY <1>4 DEF SettledHere
  <2> QED
      BY <2>1, <2>2, <2>3, <2>4
<1>7. ClaimsHeld'
    BY <1>6 DEF ClaimsHeld
<1> QED
    BY <1>5, <1>7

(* While no engine crashes, no command is lost on its way: its author keeps *)
(* the entry, and a device that has claimed it either still has it in hand  *)
(* or has written its outcome into its own replica. There is no third place *)
(* where a claimed command could be forgotten.                              *)
THEOREM CommandsAreKept == Spec => []CommandsKept
<1> QED
    BY InitType, InitKept, NextType, NextUnopened, NextKept, PTL DEF Spec

-----------------------------------------------------------------------------
(* The host never sleeps on a command                                       *)
(*                                                                          *)
(* A pass takes the first eligible entry, so it could end early if none of  *)
(* them came first. That one does rests on causality: a replica that holds  *)
(* an entry holds all that its author could see, and "could see" orders the *)
(* entries. SleepMoves adds that whatever reaches the host leaves it awake. *)

Queued == {e.id : e \in entries}
Unclaimed(d) == PendingIn(doc[d]) \ ledger[d]
Eligible(d) == {e \in PendingEntries(doc[d]) : e.id \notin ledger[d]}

(* Commands that a replica can hold together: with each one what its author *)
(* could see when it was queued.                                            *)
Causal(ids) == /\ ids \subseteq Queued
               /\ \A e \in entries : e.id \in ids => e.after \subseteq ids
CausalOrder ==
    \A e \in entries : /\ Causal(e.after)
                       /\ e.id \notin e.after
CausalReplicas ==
    /\ Causal(room.cmds)
    /\ \A d \in Devices : Causal(doc[d].cmds) /\ Causal(disk[d].cmds)

CausalInv == IsFiniteSet(Queued) /\ CausalOrder /\ CausalReplicas

LEMMA InitCausal == Init => CausalInv
<1> SUFFICES ASSUME Init PROVE CausalInv
    OBVIOUS
<1>1. entries = {} /\ Queued = {}
    BY DEF Init, Queued
<1>2. CausalReplicas
    BY <1>1 DEF Init, CausalReplicas, Causal, EmptyReplica
<1> QED
    BY <1>1, <1>2, FS_EmptySet DEF CausalInv, CausalOrder

LEMMA CausalUnion ==
    ASSUME NEW a, NEW b, Causal(a), Causal(b) PROVE Causal(a \cup b)
BY DEF Causal

(* A step that queues nothing keeps what was causal.                        *)
LEMMA CausalStays ==
    ASSUME NEW ids, Causal(ids), entries' = entries PROVE Causal(ids)'
BY DEF Causal, Queued

LEMMA CausalFrame ==
    ASSUME entries' = entries, Causal(room'.cmds),
           \A x \in Devices : Causal(doc'[x].cmds) /\ Causal(disk'[x].cmds)
    PROVE  CausalReplicas'
BY DEF CausalReplicas, Causal, Queued

LEMMA NextCausal == TypeOK /\ CausalInv /\ [Next]_vars => CausalInv'
<1> SUFFICES ASSUME TypeOK, CausalInv, [Next]_vars PROVE CausalInv'
    OBVIOUS
<1> USE DEF docVars, runVars, rowVars
<1>c. /\ IsFiniteSet(Queued) /\ CausalOrder /\ Causal(room.cmds)
      /\ \A x \in Devices : Causal(doc[x].cmds) /\ Causal(disk[x].cmds)
    BY DEF CausalInv, CausalReplicas
<1>e. Causal(EmptyReplica.cmds)
    BY DEF Causal, EmptyReplica
<1>1. ASSUME NEW d \in Devices, QueueCommand(d) PROVE CausalInv'
  <2>1. PICK n : /\ entries' = entries \cup {n} /\ Fresh(n)
                 /\ n.by = d /\ n.after = doc[d].cmds
                 /\ doc'[d].cmds = doc[d].cmds \cup {n.id}
                 /\ \A x \in Devices : x # d => doc'[x] = doc[x]
      BY <1>1, QueueWrites
  <2>2. n.id \notin Queued
      BY <2>1 DEF Fresh, Queued
  <2>3. Queued' = Queued \cup {n.id}
      BY <2>1 DEF Queued
  <2>4. IsFiniteSet(Queued')
      BY <1>c, <2>3, FS_AddElement
  <2>5. \A ids : Causal(ids) => Causal(ids)'
      BY <2>1, <2>2, <2>3 DEF Causal
  <2>6. \A ids : Causal(ids) => n.id \notin ids
      BY <2>2 DEF Causal
  <2>7. CausalOrder'
    <3>1. \A e \in entries : Causal(e.after)' /\ e.id \notin e.after
        BY <1>c, <2>5 DEF CausalOrder
    <3>2. Causal(n.after)' /\ n.id \notin n.after
        BY <1>c, <2>1, <2>5, <2>6
    <3> QED
        BY <2>1, <3>1, <3>2 DEF CausalOrder
  <2>8. Causal(doc[d].cmds)'
    <3>1. doc'[d].cmds \subseteq Queued'
        BY <1>c, <2>1, <2>3 DEF Causal
    <3>2. \A e \in entries : e.id \in doc'[d].cmds => e.after \subseteq doc'[d].cmds
        BY <1>c, <2>1 DEF Causal, Fresh
    <3>3. n.after \subseteq doc'[d].cmds
        BY <2>1
    <3> QED
        BY <2>1, <3>1, <3>2, <3>3 DEF Causal
  <2>9. UNCHANGED <<room, disk>>
      BY <1>1 DEF QueueCommand
  <2>10. CausalReplicas'
    <3>1. Causal(room.cmds)' /\ \A x \in Devices : Causal(disk[x].cmds)'
        BY <1>c, <2>5, <2>9
    <3>2. \A x \in Devices : Causal(doc[x].cmds)'
        BY <1>c, <2>1, <2>5, <2>8
    <3> QED
        BY <3>1, <3>2 DEF CausalReplicas
  <2> QED
      BY <2>4, <2>7, <2>10 DEF CausalInv
<1>2. ASSUME entries' = entries, CausalReplicas' PROVE CausalInv'
  <2>1. Queued' = Queued
      BY <1>2 DEF Queued
  <2>2. CausalOrder'
      BY <1>2, <1>c DEF CausalOrder, Causal, Queued
  <2> QED
      BY <1>2, <1>c, <2>1, <2>2 DEF CausalInv
<1>3. ASSUME NEW d \in Devices, Open(d) PROVE CausalInv'
  <2>1. \A x \in Devices : Causal(doc'[x].cmds)
      BY <1>3, <1>c DEF Open, TypeOK
  <2> QED
      BY <1>2, <1>3, <1>c, <2>1, CausalFrame DEF Open
<1>4. ASSUME NEW d \in Devices, Push(d) PROVE CausalInv'
  <2>1. Causal(room.cmds \cup doc[d].cmds)
      BY <1>c, CausalUnion
  <2>2. room'.cmds = room.cmds \cup doc[d].cmds
      BY <1>4 DEF Push, Merge
  <2>3. Causal(room'.cmds)
      BY <2>1, <2>2
  <2> QED
      BY <1>2, <1>4, <1>c, <2>3, CausalFrame DEF Push
<1>5. ASSUME NEW d \in Devices, SaveSnapshot(d) PROVE CausalInv'
  <2>1. \A x \in Devices : Causal(disk'[x].cmds)
      BY <1>5, <1>c DEF SaveSnapshot, TypeOK
  <2> QED
      BY <1>2, <1>5, <1>c, <2>1, CausalFrame DEF SaveSnapshot
<1>6. ASSUME NEW d \in Devices, Crash(d) PROVE CausalInv'
  <2>1. \A x \in Devices : Causal(doc'[x].cmds)
      BY <1>6, <1>c, <1>e DEF Crash, TypeOK
  <2> QED
      BY <1>2, <1>6, <1>c, <2>1, CausalFrame DEF Crash
<1>7. ASSUME NEW d \in Devices, NEW op, Causal(op.cmds),
             UNCHANGED <<entries, room, disk>>,
             doc' = doc \/ doc' = [doc EXCEPT ![d] = Merge(doc[d], op)]
      PROVE  CausalInv'
  <2>1. Causal(doc[d].cmds \cup op.cmds)
      BY <1>7, <1>c, CausalUnion
  <2>2. Causal(Merge(doc[d], op).cmds)
      BY <2>1 DEF Merge
  <2>3. \A x \in Devices : Causal(doc'[x].cmds)
      BY <1>7, <1>c, <2>2 DEF TypeOK
  <2> QED
      BY <1>2, <1>7, <1>c, <2>3, CausalFrame
<1>m. \A m : Causal(MessageOp(m).cmds) /\ Causal(OutcomeOp(m).cmds)
    BY DEF Causal, MessageOp, OutcomeOp
<1>8. ASSUME NEW d \in Devices, Pull(d) PROVE CausalInv'
    BY <1>7, <1>8, <1>c DEF Pull
<1>9. ASSUME NEW d \in Devices, Execute(d) PROVE CausalInv'
  <2>1. PICK c : doc' = doc \/ DeliverPrompt(d, c)
      BY <1>9 DEF Execute, ExecuteRun, ExecuteSteer, ExecuteInterrupt,
         ExecuteRespondInput, Reject, DispatchFails
  <2>2. PICK m : \/ doc' = doc
                 \/ doc' = [doc EXCEPT ![d] = Merge(doc[d], MessageOp(m))]
      BY <2>1 DEF DeliverPrompt
  <2> QED
      BY <1>7, <1>9, <1>m, <2>2 DEF Execute
<1>10. ASSUME NEW d \in Devices, Settle(d) PROVE CausalInv'
  <2>1. PICK o : doc' = [doc EXCEPT ![d] = Merge(doc[d], OutcomeOp(o))]
      BY <1>10 DEF Settle
  <2> QED
      BY <1>7, <1>10, <1>m, <2>1 DEF Settle
<1>11. ASSUME NEW d \in Devices, AssistantEntry(d) PROVE CausalInv'
  <2>1. PICK m : doc' = [doc EXCEPT ![d] = Merge(doc[d], MessageOp(m))]
      BY <1>11 DEF AssistantEntry
  <2> QED
      BY <1>7, <1>11, <1>m, <2>1 DEF AssistantEntry
<1>12. CASE UNCHANGED <<entries, room, doc, disk>>
    BY <1>2, <1>12, <1>c, CausalFrame
<1> QED
    BY <1>1, <1>3, <1>4, <1>5, <1>6, <1>8, <1>9, <1>10, <1>11, <1>12
    DEF Next, vars, Tick, BeginDrain, EndDrain, Decide, TurnEnds, WriteRow, SeeRow

(* Of the entries a pass may take, one comes first.                         *)
LEMMA FirstExists ==
    ASSUME CausalInv, NEW d \in Devices, Eligible(d) # {}
    PROVE  DrainCandidates(d) # {}
<1> DEFINE Seen == {e.after : e \in Eligible(d)}
           R == StrictSubsetOrdering(Queued)
<1>1. CausalOrder /\ IsFiniteSet(Queued)
    BY DEF CausalInv
<1>2. \A e \in Eligible(d) : e \in entries /\ e.after \subseteq Queued
    BY <1>1 DEF Eligible, PendingEntries, CausalOrder, Causal
<1>3. Seen \subseteq SUBSET Queued /\ Seen # {}
    BY <1>2
<1>4. IsWellFoundedOn(R, SUBSET Queued)
    BY <1>1, FS_StrictSubsetOrderingWellFounded, FS_FiniteSubsetsOfFinite
<1>5. PICK least \in Seen : \A other \in Seen : <<other, least>> \notin R
  <2> HIDE DEF Seen, R
  <2> QED
      BY <1>3, <1>4, WFMin
<1>6. PICK e \in Eligible(d) : e.after = least
    OBVIOUS
<1>7. ASSUME NEW other \in Eligible(d), other.id \in e.after PROVE FALSE
  <2>1. other.after \subseteq e.after /\ other.id \notin other.after
      BY <1>1, <1>2, <1>7 DEF CausalOrder, Causal
  <2>2. other.after # least /\ other.after \subseteq least
      BY <1>6, <1>7, <2>1
  <2>3. other.after \in SUBSET Queued /\ least \in SUBSET Queued
      BY <1>2, <1>6
  <2>4. <<other.after, least>> \in R
      BY <2>2, <2>3 DEF StrictSubsetOrdering
  <2> QED
      BY <1>5, <1>7, <2>4
<1> QED
    BY <1>6, <1>7 DEF DrainCandidates, Eligible

(* Whenever a pass has something left to do, it has a step to do it with.   *)
PassesMove ==
    \A d \in Devices :
        /\ drain[d].step = "scan" /\ Unclaimed(d) # {} =>
              DrainCandidates(d) # {}
        /\ drain[d].step = "decided" => drain[d].verdict # "skip"

(* Whatever is unclaimed in a replica is some entry that a pass may take.   *)
LEMMA UnclaimedIsEligible ==
    ASSUME CausalInv, NEW d \in Devices
    PROVE  Unclaimed(d) # {} <=> Eligible(d) # {}
<1>1. \A c \in Unclaimed(d) : \E e \in entries : e.id = c
    BY DEF CausalInv, CausalReplicas, Causal, Unclaimed, PendingIn, Queued
<1> QED
    BY <1>1 DEF Unclaimed, Eligible, PendingEntries

(* Nothing in hand was skipped: a pass offers evaluate_command only what is *)
(* not in its ledger.                                                       *)
NothingSkipped ==
    \A d \in Devices : drain[d].step = "decided" => drain[d].verdict # "skip"

LEMMA InitSkipped == Init => NothingSkipped
BY DEF Init, NothingSkipped, IdleDrain

LEMMA NextSkipped == TypeOK /\ NothingSkipped /\ [Next]_vars => NothingSkipped'
<1> SUFFICES ASSUME TypeOK, NothingSkipped, [Next]_vars PROVE NothingSkipped'
    OBVIOUS
<1>1. ASSUME NEW d \in Devices, Decide(d) PROVE NothingSkipped'
  <2>1. PICK e \in DrainCandidates(d), m \in LastMessages(doc[d].msgs) :
          LET cx == [processed |-> ledger[d], now |-> NowAt(d),
                     pending |-> PendingEntries(doc[d]),
                     current |-> m, past |-> doc[d].msgs]
          IN  drain' = [drain EXCEPT ![d] =
                          [step |-> "decided", cmd |-> e.id,
                           verdict |-> EvaluateCommand(e, cx),
                           status |-> "applied"]]
      BY <1>1 DEF Decide
  <2> DEFINE cx == [processed |-> ledger[d], now |-> NowAt(d),
                    pending |-> PendingEntries(doc[d]),
                    current |-> m, past |-> doc[d].msgs]
             verdict == EvaluateCommand(e, cx)
  <2>2. e.id \notin cx.processed
      BY DEF DrainCandidates
  <2>3. verdict # "skip"
    <3> HIDE DEF cx
    <3> QED
        BY <2>2 DEF EvaluateCommand
  <2>4. drain' = [drain EXCEPT ![d] = [step |-> "decided", cmd |-> e.id,
                                       verdict |-> verdict,
                                       status |-> "applied"]]
      BY <2>1
  <2> HIDE DEF verdict
  <2> QED
      BY <2>3, <2>4 DEF NothingSkipped, TypeOK
<1>2. ASSUME NEW d \in Devices, Execute(d) PROVE NothingSkipped'
  <2>1. PICK status : Executed(d, status)
      BY <1>2 DEF Execute, ExecuteRun, ExecuteSteer, ExecuteInterrupt,
         ExecuteRespondInput, Apply, Reject, DispatchFails
  <2> QED
      BY <2>1 DEF Executed, NothingSkipped, TypeOK
<1>3. ASSUME \A d \in Devices : ~Decide(d) /\ ~Execute(d)
      PROVE  NothingSkipped'
    BY <1>3, HandChanges DEF NothingSkipped
<1> QED
    BY <1>1, <1>2, <1>3

(* A drain pass never gets stuck and never ends early: while an unclaimed   *)
(* pending entry is in its replica the first of them can be taken, in       *)
(* whatever order the replicas merged, and what it took is never an entry   *)
(* that evaluate_command skips, which no branch would ever settle.          *)
THEOREM PassesAlwaysMove == Spec => []PassesMove
<1>1. CausalInv /\ NothingSkipped => PassesMove
    BY UnclaimedIsEligible, FirstExists DEF PassesMove, NothingSkipped
<1> QED
    BY <1>1, InitType, InitCausal, InitSkipped, NextType, NextCausal,
       NextSkipped, PTL DEF Spec

(* While the chat keeps its host, the host is awake whenever its open       *)
(* replica holds a pending entry it has not claimed: its document changed   *)
(* since chat_task last looked, or a pass is under way.                     *)
HostAwake ==
    \A d \in opened \cap Devices :
        IsHost(d) /\ Unclaimed(d) # {} =>
            d \in kick \/ drain[d].step # "idle"

(* What a step does to a device that could be asleep after it.              *)
Undisturbed(x) == /\ doc'[x] = doc[x] /\ ledger'[x] = ledger[x]
                  /\ x \in opened' => x \in opened
                  /\ x \in kick => x \in kick'
                  /\ drain'[x] = drain[x]
Woken(x) == x \in kick' \/ drain'[x].step # "idle" \/ x \notin opened'
WentToSleep(x) == /\ drain[x].step = "scan" /\ DrainCandidates(x) = {}
                  /\ doc'[x] = doc[x] /\ ledger'[x] = ledger[x]

LEMMA SleepMoves ==
    ASSUME TypeOK, [Next]_vars
    PROVE  \A x \in Devices :
              IsHost(x) => Undisturbed(x) \/ Woken(x) \/ WentToSleep(x)
<1> SUFFICES ASSUME NEW x \in Devices, IsHost(x)
             PROVE  Undisturbed(x) \/ Woken(x) \/ WentToSleep(x)
    OBVIOUS
<1> USE DEF docVars, runVars, rowVars
<1> DEFINE Goal == Undisturbed(x) \/ Woken(x) \/ WentToSleep(x)
<1>1. ASSUME NEW d \in Devices, Open(d) PROVE Goal
  <2>1. CASE d = x
      BY <1>1, <2>1 DEF Open, Woken
  <2>2. CASE d # x
      BY <1>1, <2>2 DEF Open, Undisturbed, TypeOK
  <2> QED
      BY <2>1, <2>2
<1>2. ASSUME NEW d \in Devices,
             QueueCommand(d) \/ AssistantEntry(d) \/ Settle(d)
      PROVE  Goal
  <2>1. CASE d = x
      BY <1>2, <2>1 DEF QueueCommand, AssistantEntry, Settle, Woken
  <2>2. CASE d # x
    <3>1. \E r : doc' = [doc EXCEPT ![d] = r]
        BY <1>2 DEF QueueCommand, AssistantEntry, Settle
    <3>2. drain' = drain \/ drain' = [drain EXCEPT ![d] = ScanDrain]
        BY <1>2 DEF QueueCommand, AssistantEntry, Settle
    <3>3. doc'[x] = doc[x] /\ drain'[x] = drain[x]
        BY <2>2, <3>1, <3>2 DEF TypeOK
    <3> QED
        BY <1>2, <3>3 DEF QueueCommand, AssistantEntry, Settle, Undisturbed
  <2> QED
      BY <2>1, <2>2
<1>3. ASSUME NEW d \in Devices, Pull(d) PROVE Goal
  <2>1. CASE d = x /\ doc'[d] # doc[d]
      BY <1>3, <2>1 DEF Pull, Notify, Woken
  <2>2. CASE d # x \/ doc'[d] = doc[d]
      BY <1>3, <2>2 DEF Pull, Notify, Undisturbed, TypeOK
  <2> QED
      BY <2>1, <2>2
<1>4. ASSUME NEW d \in Devices, BeginDrain(d) PROVE Goal
  <2>1. CASE d = x
    <3>1. drain'[x] = ScanDrain
        BY <1>4, <2>1 DEF BeginDrain, TypeOK
    <3> QED
        BY <3>1 DEF ScanDrain, Woken
  <2>2. CASE d # x
      BY <1>4, <2>2 DEF BeginDrain, Undisturbed, TypeOK
  <2> QED
      BY <2>1, <2>2
<1>5. ASSUME NEW d \in Devices, EndDrain(d) PROVE Goal
  <2>1. CASE d = x
      BY <1>5, <2>1 DEF EndDrain, WentToSleep
  <2>2. CASE d # x
      BY <1>5, <2>2 DEF EndDrain, Undisturbed, TypeOK
  <2> QED
      BY <2>1, <2>2
<1>6. ASSUME NEW d \in Devices, Decide(d) PROVE Goal
  <2>1. PICK r, l : /\ drain' = [drain EXCEPT ![d] = r] /\ r.step = "decided"
                    /\ ledger' = [ledger EXCEPT ![d] = l]
      BY <1>6 DEF Decide
  <2>2. CASE d = x
      BY <2>1, <2>2 DEF Woken, TypeOK
  <2>3. CASE d # x
      BY <1>6, <2>1, <2>3 DEF Decide, Undisturbed, TypeOK
  <2> QED
      BY <2>2, <2>3
<1>7. ASSUME NEW d \in Devices, Execute(d) PROVE Goal
  <2>1. PICK status : Executed(d, status)
      BY <1>7 DEF Execute, ExecuteRun, ExecuteSteer, ExecuteInterrupt,
         ExecuteRespondInput, Apply, Reject, DispatchFails
  <2>2. CASE d = x
      BY <2>1, <2>2 DEF Executed, Woken, TypeOK
  <2>3. CASE d # x
    <3>1. PICK c : doc' = doc \/ DeliverPrompt(d, c)
        BY <1>7 DEF Execute, ExecuteRun, ExecuteSteer, ExecuteInterrupt,
           ExecuteRespondInput, Reject, DispatchFails
    <3>2. \E r : doc' = doc \/ doc' = [doc EXCEPT ![d] = r]
        BY <3>1 DEF DeliverPrompt
    <3>3. doc'[x] = doc[x]
        BY <2>3, <3>2 DEF TypeOK
    <3>4. drain'[x] = drain[x]
        BY <2>1, <2>3 DEF Executed, TypeOK
    <3>5. ledger' = ledger /\ opened' = opened /\ kick \subseteq kick'
        BY <1>7 DEF Execute, Notify
    <3> QED
        BY <3>3, <3>4, <3>5 DEF Undisturbed
  <2> QED
      BY <2>2, <2>3
<1>8. ASSUME NEW d \in Devices, Crash(d) PROVE Goal
  <2>1. CASE d = x
      BY <1>8, <2>1 DEF Crash, Woken
  <2>2. CASE d # x
      BY <1>8, <2>2 DEF Crash, Undisturbed, TypeOK
  <2> QED
      BY <2>1, <2>2
<1>9. CASE UNCHANGED <<doc, ledger, opened, kick, drain>>
    BY <1>9 DEF Undisturbed
<1> QED
    BY <1>1, <1>2, <1>3, <1>4, <1>5, <1>6, <1>7, <1>8, <1>9
    DEF Next, vars, Tick, Push, SaveSnapshot, TurnEnds, WriteRow, SeeRow

LEMMA NextAwake ==
    ASSUME FixedHost
    PROVE  TypeOK /\ HostInv /\ HostInv' /\ TypeOK' /\ CausalInv /\ HostAwake
             /\ [Next]_vars => HostAwake'
<1> SUFFICES ASSUME TypeOK, HostInv, HostInv', TypeOK', CausalInv, HostAwake,
                    [Next]_vars, NEW x \in Devices, x \in opened',
                    IsHost(x)', Unclaimed(x)' # {}
             PROVE  x \in kick' \/ drain'[x].step # "idle"
    BY DEF HostAwake
<1>1. IsHost(x)
  <2>1. RowAt(x) = InitialHost
      BY OneRow
  <2>2. rows' = <<InitialHost>> /\ rowSeen'[x] \in 1..Len(rows')
      BY DEF HostInv, TypeOK
  <2>3. rows'[rowSeen'[x]] = InitialHost
      BY <2>2
  <2>4. RowAt(x)' = InitialHost
      BY <2>3 DEF RowAt
  <2> QED
      BY <2>1, <2>4 DEF IsHost
<1>2. CASE Undisturbed(x)
  <2>1. Unclaimed(x) # {}
      BY <1>2 DEF Undisturbed, Unclaimed
  <2> QED
      BY <1>1, <1>2, <2>1 DEF HostAwake, Undisturbed
<1>3. CASE WentToSleep(x)
  <2>1. Unclaimed(x) # {}
      BY <1>3 DEF WentToSleep, Unclaimed
  <2> QED
      BY <1>3, <2>1, UnclaimedIsEligible, FirstExists DEF WentToSleep
<1> QED
    BY <1>1, <1>2, <1>3, SleepMoves DEF Woken

(* The host of a chat that keeps its host never sleeps on a command: as     *)
(* long as its open replica holds a pending entry it has not claimed, its   *)
(* document has changed since the last pass began or a pass is under way,   *)
(* after every restart from a snapshot and in every order of the merges.    *)
THEOREM HostNeverSleeps ==
    ASSUME FixedHost PROVE Spec => []HostAwake
<1>1. Init => HostAwake
    BY DEF Init, HostAwake
<1>2. TypeOK /\ HostInv /\ [Next]_vars => HostInv'
    BY NextHost
<1>3. TypeOK /\ HostInv /\ HostInv' /\ TypeOK' /\ CausalInv /\ HostAwake
        /\ [Next]_vars => HostAwake'
    BY NextAwake
<1> QED
    BY <1>1, <1>2, <1>3, InitType, InitHost, InitCausal, NextType, NextCausal,
       PTL DEF Spec
-----------------------------------------------------------------------------
(* CommandPlane implements CommandPromise.                                  *)
Stages == [d \in Devices |-> [c \in Commands |-> Stage(d, c)]]

(* What a pass has in hand and what its device has claimed fix the stages.  *)
LEMMA StageCases ==
    ASSUME NEW d, NEW c
    PROVE  /\ c \notin ledger[d] => Stage(d, c) = "unseen"
           /\ c \in ledger[d] /\ drain[d].cmd = c /\ drain[d].step = "decided"
                => Stage(d, c) = "claimed"
           /\ c \in ledger[d] /\ drain[d].cmd = c /\ drain[d].step = "executed"
                => Stage(d, c) = "performed"
           /\ c \in ledger[d] /\ (\/ drain[d].cmd # c
                                  \/ drain[d].step \notin {"decided", "executed"})
                => Stage(d, c) = "done"
<1>1. CASE c \notin ledger[d]
    BY <1>1 DEF Stage
<1>2. CASE c \in ledger[d] /\ drain[d].cmd = c /\ drain[d].step = "decided"
    BY <1>2 DEF Stage
<1>3. CASE c \in ledger[d] /\ drain[d].cmd = c /\ drain[d].step = "executed"
    BY <1>3 DEF Stage
<1>4. CASE c \in ledger[d] /\ (\/ drain[d].cmd # c
                               \/ drain[d].step \notin {"decided", "executed"})
    BY <1>4 DEF Stage
<1> QED
    BY <1>1, <1>2, <1>3, <1>4

LEMMA StagesAt ==
    \A d \in Devices, c \in Commands : Stages[d][c] = Stage(d, c)
BY DEF Stages

(* A step that moves one command of one device.                             *)
LEMMA OneStage ==
    ASSUME NEW d \in Devices, NEW c \in Commands, NEW to,
           Stage(d, c)' = to,
           \A x \in Devices, y \in Commands :
               (x # d \/ y # c) => Stage(x, y)' = Stage(x, y)
    PROVE  Stages' = [Stages EXCEPT ![d][c] = to]
BY DEF Stages

(* The stages of a device whose ledger and hand did not change.             *)
LEMMA SameStage ==
    ASSUME NEW x, NEW y, ledger'[x] = ledger[x], drain'[x] = drain[x]
    PROVE  Stage(x, y)' = Stage(x, y)
BY DEF Stage

LEMMA SameStages ==
    ASSUME \A x \in Devices, y \in Commands : Stage(x, y)' = Stage(x, y)
    PROVE  Stages' = Stages
BY DEF Stages

LEMMA PromiseMapping ==
    /\ P!Step <=> (\/ P!Forget
                   \/ \E c \in Commands : P!Queue(c)
                   \/ \E d \in Devices, c \in Commands :
                        P!Claim(d, c) \/ P!Perform(d, c) \/ P!Publish(d, c)
                            \/ P!Abandon(d, c))
    /\ P!Forget <=> /\ AllOutcomes' \subseteq AllOutcomes
                    /\ Queued' = Queued /\ Stages' = Stages
                    /\ executions' = executions
    /\ \A c \in Commands :
         P!Queue(c) <=> /\ c \notin Queued /\ Queued' = Queued \cup {c}
                        /\ AllOutcomes' \subseteq AllOutcomes
                        /\ Stages' = Stages /\ executions' = executions
BY DEF P!Step, P!Forget, P!Queue, Queued, Stages

LEMMA PromiseMoves ==
    ASSUME NEW d \in Devices, NEW c \in Commands
    PROVE  /\ P!Claim(d, c) <=>
                /\ c \in Queued
                /\ \A other \in Commands : Stages[d][other] \notin {"claimed", "performed"}
                /\ Stages[d][c] \in {"unseen"}
                /\ Stages' = [Stages EXCEPT ![d][c] = "claimed"]
                /\ AllOutcomes' \subseteq AllOutcomes
                /\ Queued' = Queued /\ executions' = executions
           /\ P!Perform(d, c) <=>
                /\ Stages[d][c] \in {"claimed"}
                /\ Stages' = [Stages EXCEPT ![d][c] = "performed"]
                /\ executions' = [executions EXCEPT ![d][c] = @ + 1]
                /\ AllOutcomes' \subseteq AllOutcomes
                /\ Queued' = Queued
           /\ P!Abandon(d, c) <=>
                /\ Stages[d][c] \in {"claimed", "performed"}
                /\ Stages' = [Stages EXCEPT ![d][c] = "done"]
                /\ AllOutcomes' \subseteq AllOutcomes
                /\ Queued' = Queued /\ executions' = executions
           /\ P!Publish(d, c) <=>
                /\ \E status \in IF Stages[d][c] = "performed"
                                  THEN {"applied", "rejected"}
                                  ELSE {"expired", "superseded"} :
                      LET outcome == [cmd |-> c, by |-> d, status |-> status]
                      IN  /\ outcome \in AllOutcomes'
                          /\ AllOutcomes' \subseteq AllOutcomes \cup {outcome}
                /\ Stages[d][c] \in {"claimed", "performed"}
                /\ Stages' = [Stages EXCEPT ![d][c] = "done"]
                /\ Queued' = Queued /\ executions' = executions
<1> USE DEF P!Advance, P!InHand, Queued, Stages
<1>2. P!Claim(d, c) <=>
        /\ c \in Queued
        /\ \A other \in Commands : Stages[d][other] \notin {"claimed", "performed"}
        /\ Stages[d][c] \in {"unseen"}
        /\ Stages' = [Stages EXCEPT ![d][c] = "claimed"]
        /\ AllOutcomes' \subseteq AllOutcomes
        /\ Queued' = Queued /\ executions' = executions
    BY DEF P!Claim
<1>3. P!Perform(d, c) <=>
        /\ Stages[d][c] \in {"claimed"}
        /\ Stages' = [Stages EXCEPT ![d][c] = "performed"]
        /\ executions' = [executions EXCEPT ![d][c] = @ + 1]
        /\ AllOutcomes' \subseteq AllOutcomes
        /\ Queued' = Queued
    BY DEF P!Perform
<1>4. P!Abandon(d, c) <=>
        /\ Stages[d][c] \in {"claimed", "performed"}
        /\ Stages' = [Stages EXCEPT ![d][c] = "done"]
        /\ AllOutcomes' \subseteq AllOutcomes
        /\ Queued' = Queued /\ executions' = executions
    BY DEF P!Abandon
<1>5. P!Publish(d, c) <=>
        /\ \E status \in IF Stages[d][c] = "performed"
                          THEN {"applied", "rejected"}
                          ELSE {"expired", "superseded"} :
              LET outcome == [cmd |-> c, by |-> d, status |-> status]
              IN  /\ outcome \in AllOutcomes'
                  /\ AllOutcomes' \subseteq AllOutcomes \cup {outcome}
        /\ Stages[d][c] \in {"claimed", "performed"}
        /\ Stages' = [Stages EXCEPT ![d][c] = "done"]
        /\ Queued' = Queued /\ executions' = executions
    BY DEF P!Publish
<1> QED
    BY <1>2, <1>3, <1>4, <1>5

LEMMA AbandonMoves ==
    ASSUME NEW d \in Devices, NEW c \in Commands,
           Stages[d][c] \in {"claimed", "performed"},
           Stages' = [Stages EXCEPT ![d][c] = "done"],
           AllOutcomes' \subseteq AllOutcomes, Queued' = Queued, executions' = executions
    PROVE  P!Abandon(d, c)
BY PromiseMoves

-----------------------------------------------------------------------------
(* Every step is a step of the promise                                      *)

LEMMA InitPromise == Init => P!Start
<1> SUFFICES ASSUME Init PROVE P!Start
    OBVIOUS
<1>1. \A d \in Devices, c \in Commands : c \notin ledger[d]
    BY DEF Init
<1>2. \A d \in Devices, c \in Commands : Stage(d, c) = "unseen"
    BY <1>1, StageCases
<1>3. entries = {} /\ executions = [d \in Devices |-> [c \in Commands |-> 0]]
    BY DEF Init
<1> QED
    BY <1>2, <1>3, InitOutcomes DEF P!Start

LEMMA NextPromise ==
    TypeOK /\ ClaimInv /\ SteerInv /\ [Next]_vars => P!Step
<1> SUFFICES ASSUME TypeOK, ClaimInv, SteerInv, [Next]_vars
             PROVE  P!Step
    OBVIOUS
<1> USE DEF docVars, runVars, rowVars
(* A step that changes one device's pass leaves the others' stages alone.   *)
<1>o. ASSUME NEW d \in Devices, NEW r, drain' = [drain EXCEPT ![d] = r],
             \/ ledger' = ledger
             \/ \E l : ledger' = [ledger EXCEPT ![d] = l]
      PROVE  \A x \in Devices, y \in Commands : x # d => Stage(x, y)' = Stage(x, y)
  <2>1. \A x \in Devices : x # d => ledger'[x] = ledger[x] /\ drain'[x] = drain[x]
      BY <1>o DEF TypeOK
  <2> QED
      BY <2>1, SameStage
(* What is not in hand stays as it is, whatever its device takes in hand.   *)
<1>i. ASSUME NEW d \in Devices, NEW y \in Commands, ledger'[d] = ledger[d],
             \/ drain[d].cmd # y
             \/ drain[d].step \notin {"decided", "executed"},
             \/ drain'[d].cmd # y
             \/ drain'[d].step \notin {"decided", "executed"}
      PROVE  Stage(d, y)' = Stage(d, y)
    BY <1>i DEF Stage
<1>1. ASSUME NEW d \in Devices, QueueCommand(d) PROVE P!Step
  <2>1. PICK n : /\ entries' = entries \cup {n}
                 /\ \A e \in entries : e.id # n.id
                 /\ n.issuedAt \in Nat
      BY <1>1, QueueAdds
  <2>2. n \in Entry
      BY <2>1, NextType DEF TypeOK
  <2>3. n.id \in Commands /\ n.id \notin Queued /\ Queued' = Queued \cup {n.id}
      BY <2>1, <2>2 DEF Entry, Queued
  <2>4. UNCHANGED <<drain, ledger, executions>>
      BY <1>1 DEF QueueCommand
  <2>5. Stages' = Stages
      BY <2>4, SameStage, SameStages
  <2>6. ASSUME NEW x \in Devices, Settle(x) PROVE FALSE
    <3>1. entries' = entries
        BY <2>6 DEF Settle
    <3> QED
        BY <2>1, <3>1
  <2>7. AllOutcomes' \subseteq AllOutcomes
      BY <2>6, OthersSpread
  <2>8. P!Queue(n.id)
      BY <2>3, <2>4, <2>5, <2>7, PromiseMapping
  <2> QED
      BY <2>3, <2>8, PromiseMapping
<1>2. ASSUME NEW d \in Devices, Decide(d) PROVE P!Step
  <2>1. PICK e \in DrainCandidates(d), verdict \in Dispositions :
          /\ ledger' = [ledger EXCEPT ![d] = MarkProcessed(d, e.id, verdict)]
          /\ drain' = [drain EXCEPT ![d] =
                         [step |-> "decided", cmd |-> e.id,
                          verdict |-> verdict, status |-> "applied"]]
      BY <1>2, DispositionType DEF Decide
  <2>2. /\ e.id \in Commands /\ e.id \in Queued /\ e.id \notin ledger[d]
        /\ drain[d].step = "scan"
      BY <1>2 DEF Decide, DrainCandidates, PendingEntries, Queued, Entry, TypeOK
  <2>3. /\ ledger'[d] = ledger[d] \cup {e.id}
        /\ drain'[d].step = "decided" /\ drain'[d].cmd = e.id
      BY <2>1 DEF MarkProcessed, TypeOK
  <2>4. UNCHANGED <<entries, executions>>
      BY <1>2 DEF Decide
  <2>5. Stage(d, e.id) = "unseen" /\ Stage(d, e.id)' = "claimed"
      BY <2>2, <2>3 DEF Stage
  <2>6. \A y \in Commands : y # e.id => Stage(d, y)' = Stage(d, y)
      BY <2>2, <2>3 DEF Stage
  <2>7. Stages' = [Stages EXCEPT ![d][e.id] = "claimed"]
    <3>1. \A x \in Devices, y \in Commands : x # d => Stage(x, y)' = Stage(x, y)
        BY <2>1, <1>o
    <3> QED
        BY <2>2, <2>5, <2>6, <3>1, OneStage
  <2>8. \A other \in Commands : Stages[d][other] \notin {"claimed", "performed"}
    <3>1. \A other \in Commands : Stage(d, other) \in {"unseen", "done"}
        BY <2>2, StageCases
    <3> QED
        BY <3>1, StagesAt
  <2>9. ASSUME NEW x \in Devices, Settle(x) PROVE FALSE
    <3>1. ledger' = ledger
        BY <2>9 DEF Settle
    <3> QED
        BY <2>2, <2>3, <3>1
  <2>10. AllOutcomes' \subseteq AllOutcomes
      BY <2>9, OthersSpread
  <2>11. Queued' = Queued
      BY <2>4 DEF Queued
  <2>12. P!Claim(d, e.id)
      BY <2>2, <2>4, <2>5, <2>7, <2>8, <2>10, <2>11, StagesAt, PromiseMoves
  <2> QED
      BY <2>2, <2>12, PromiseMapping
<1>3. ASSUME NEW d \in Devices, Execute(d) PROVE P!Step
  <2>0. PICK c \in Commands : c = drain[d].cmd
      BY <1>3 DEF Execute, TypeOK
  <2>1. /\ c \in ledger[d] /\ drain[d].step = "decided"
        /\ ledger' = ledger /\ entries' = entries
        /\ executions' = [executions EXCEPT ![d][c] = @ + 1]
      BY <1>3, <2>0 DEF Execute, ClaimInv, DecidedIsFresh
  <2>2. PICK status \in Statuses : Executed(d, status)
      BY <1>3 DEF Execute, ExecuteRun, ExecuteSteer, ExecuteInterrupt,
         ExecuteRespondInput, Apply, Reject, DispatchFails, Statuses
  <2>3. drain'[d].step = "executed" /\ drain'[d].cmd = c
      BY <2>0, <2>2 DEF Executed, TypeOK
  <2>4. Stage(d, c) = "claimed" /\ Stage(d, c)' = "performed"
      BY <2>0, <2>1, <2>3 DEF Stage
  <2>5. \A y \in Commands : y # c => Stage(d, y)' = Stage(d, y)
      BY <2>0, <2>1, <2>3, <1>i
  <2>6. Stages' = [Stages EXCEPT ![d][c] = "performed"]
    <3>1. \A x \in Devices, y \in Commands : x # d => Stage(x, y)' = Stage(x, y)
        BY <2>1, <2>2, <1>o DEF Executed
    <3> QED
        BY <2>1, <2>4, <2>5, <3>1, OneStage
  <2>7. ASSUME NEW x \in Devices, Settle(x) PROVE FALSE
    <3>1. executions' = executions
        BY <2>7 DEF Settle
    <3> QED
        BY <2>1, <3>1 DEF TypeOK
  <2>8. AllOutcomes' \subseteq AllOutcomes
      BY <2>7, OthersSpread
  <2>9. Queued' = Queued
      BY <2>1 DEF Queued
  <2>10. P!Perform(d, c)
      BY <2>1, <2>4, <2>6, <2>8, <2>9, StagesAt, PromiseMoves
  <2> QED
      BY <2>1, <2>10, PromiseMapping
<1>4. ASSUME NEW d \in Devices, Settle(d) PROVE P!Step
  <2>0. PICK c \in Commands : c = drain[d].cmd
      BY <1>4 DEF Settle, TypeOK
  <2> DEFINE outcome == [cmd |-> c, by |-> d, status |-> StatusInHand(d)]
  <2>1. /\ drain[d].step \in {"decided", "executed"}
        /\ UNCHANGED <<entries, ledger, executions>>
        /\ drain' = [drain EXCEPT ![d] = ScanDrain]
      BY <1>4 DEF Settle
  <2>2. c \in ledger[d]
      BY <2>0, <2>1 DEF ClaimInv, DecidedIsFresh, ExecutedOnce
  <2>3. drain'[d].step = "scan"
      BY <2>1 DEF ScanDrain, TypeOK
  <2>4. Stage(d, c) = IF drain[d].step = "executed" THEN "performed" ELSE "claimed"
      BY <2>0, <2>1, <2>2 DEF Stage
  <2>5. StatusInHand(d) \in IF Stages[d][c] = "performed"
                            THEN {"applied", "rejected"}
                            ELSE {"expired", "superseded"}
    <3>1. CASE drain[d].step = "executed"
        BY <2>2, <2>4, <3>1, StagesAt DEF StatusInHand, SteerInv, ExecutedStatus
    <3>2. CASE drain[d].step # "executed"
        BY <1>4, <2>2, <2>4, <3>2, StagesAt DEF StatusInHand, Settle
    <3> QED
        BY <3>1, <3>2
  <2>6. outcome \in AllOutcomes'
    <3>1. doc' = [doc EXCEPT ![d] = Merge(doc[d], OutcomeOp(outcome))]
        BY <1>4, <2>0 DEF Settle, StatusInHand
    <3> HIDE DEF outcome
    <3>2. outcome \in doc'[d].outs
        BY <3>1 DEF TypeOK, Merge, OutcomeOp
    <3> QED
        BY <3>2 DEF AllOutcomes, AllReplicas
  <2>7. AllOutcomes' \subseteq AllOutcomes \cup {outcome}
      BY <1>4, <2>0, SettleSpreads DEF Settled
  <2>8. Stage(d, c)' = "done"
      BY <2>1, <2>2, <2>3 DEF Stage
  <2>9. \A y \in Commands : y # c => Stage(d, y)' = Stage(d, y)
      BY <2>0, <2>1, <2>3, <1>i
  <2>10. Stages' = [Stages EXCEPT ![d][c] = "done"]
    <3>1. \A x \in Devices, y \in Commands : x # d => Stage(x, y)' = Stage(x, y)
        BY <2>1, <1>o
    <3> QED
        BY <2>2, <2>8, <2>9, <3>1, OneStage
  <2>11. Queued' = Queued
      BY <2>1 DEF Queued
  <2>12. Stages[d][c] \in {"claimed", "performed"}
      BY <2>2, <2>4, StagesAt
  <2>13. P!Publish(d, c)
      BY <2>1, <2>2, <2>5, <2>6, <2>7, <2>10, <2>11, <2>12, PromiseMoves
  <2> QED
      BY <2>2, <2>13, PromiseMapping
<1>5. ASSUME NEW d \in Devices, Crash(d) PROVE P!Step
  <2>1. /\ UNCHANGED <<entries, ledger, executions>>
        /\ drain' = [drain EXCEPT ![d] = IdleDrain]
      BY <1>5 DEF Crash
  <2>2. drain'[d].step = "idle"
      BY <2>1 DEF IdleDrain, TypeOK
  <2>3. \A x \in Devices, y \in Commands : x # d => Stage(x, y)' = Stage(x, y)
      BY <2>1, <1>o
  <2>4. ASSUME NEW x \in Devices, Settle(x) PROVE FALSE
    <3>1. drain[x].step # "idle" /\ drain' = [drain EXCEPT ![x] = ScanDrain]
        BY <2>4 DEF Settle
    <3>2. drain'[x].step = "scan" /\ (x # d => drain'[x] = drain[x])
        BY <2>1, <3>1 DEF ScanDrain, TypeOK
    <3>3. drain[x].step \in {"decided", "executed"}
        BY <2>4 DEF Settle
    <3> QED
        BY <2>2, <3>2, <3>3
  <2>5. AllOutcomes' \subseteq AllOutcomes
      BY <2>4, OthersSpread
  <2>6. Queued' = Queued
      BY <2>1 DEF Queued
  <2>7. CASE drain[d].step \in {"decided", "executed"}
    <3>0. PICK c \in Commands : c = drain[d].cmd
        BY <2>7 DEF TypeOK
    <3>1. c \in ledger[d]
        BY <2>7, <3>0 DEF ClaimInv, DecidedIsFresh, ExecutedOnce
    <3>2. Stage(d, c) \in {"claimed", "performed"}
        BY <2>7, <3>0, <3>1 DEF Stage
    <3>3. Stage(d, c)' = "done"
        BY <2>1, <2>2, <3>1 DEF Stage
    <3>4. \A y \in Commands : y # c => Stage(d, y)' = Stage(d, y)
        BY <2>1, <2>2, <3>0, <1>i
    <3>5. Stages' = [Stages EXCEPT ![d][c] = "done"]
        BY <2>3, <3>1, <3>3, <3>4, OneStage
    <3>6. P!Abandon(d, c)
      <4>1. Stages[d][c] \in {"claimed", "performed"}
          BY <3>0, <3>2, StagesAt
      <4> QED
          BY <2>1, <2>5, <2>6, <3>5, <4>1, AbandonMoves
    <3> QED
        BY <3>1, <3>6, PromiseMapping
  <2>8. CASE drain[d].step \notin {"decided", "executed"}
    <3>1. \A y \in Commands : Stage(d, y)' = Stage(d, y)
        BY <2>1, <2>2, <2>8, <1>i
    <3>2. Stages' = Stages
        BY <2>3, <3>1, SameStages
    <3> QED
        BY <2>1, <2>5, <2>6, <3>2, PromiseMapping
  <2> QED
      BY <2>7, <2>8
<1>6. ASSUME UNCHANGED <<entries, ledger, executions>>, \A d \in Devices : ~Settle(d),
             \/ UNCHANGED drain
             \/ \E d \in Devices : BeginDrain(d) \/ EndDrain(d)
      PROVE  P!Step
  <2>1. AllOutcomes' \subseteq AllOutcomes
      BY <1>6, OthersSpread
  <2>2. \A x \in Devices :
           \/ drain'[x] = drain[x]
           \/ /\ drain[x].step \notin {"decided", "executed"}
              /\ drain'[x].step \notin {"decided", "executed"}
    <3>1. ASSUME NEW d \in Devices, BeginDrain(d) \/ EndDrain(d),
                 NEW x \in Devices
          PROVE  \/ drain'[x] = drain[x]
                 \/ /\ drain[x].step \notin {"decided", "executed"}
                    /\ drain'[x].step \notin {"decided", "executed"}
      <4>1. \/ drain' = [drain EXCEPT ![d] = ScanDrain]
            \/ drain' = [drain EXCEPT ![d] = IdleDrain]
          BY <3>1 DEF BeginDrain, EndDrain
      <4>2. drain[d].step \in {"idle", "scan"}
          BY <3>1 DEF BeginDrain, EndDrain
      <4> QED
          BY <4>1, <4>2 DEF ScanDrain, IdleDrain, TypeOK
    <3> QED
        BY <1>6, <3>1
  <2>3. \A x \in Devices, y \in Commands : Stage(x, y)' = Stage(x, y)
      BY <1>6, <1>i, <2>2, SameStage
  <2>4. Stages' = Stages
      BY <2>3, SameStages
  <2>5. Queued' = Queued
      BY <1>6 DEF Queued
  <2> QED
      BY <1>6, <2>1, <2>4, <2>5, PromiseMapping
<1>7. CASE \E d \in Devices :
             QueueCommand(d) \/ Decide(d) \/ Execute(d) \/ Settle(d) \/ Crash(d)
    BY <1>1, <1>2, <1>3, <1>4, <1>5, <1>7
<1>8. CASE ~\E d \in Devices :
             QueueCommand(d) \/ Decide(d) \/ Execute(d) \/ Settle(d) \/ Crash(d)
  <2>1. /\ UNCHANGED <<entries, ledger, executions>>
        /\ \/ UNCHANGED drain
           \/ \E d \in Devices : BeginDrain(d) \/ EndDrain(d)
      BY <1>8 DEF Next, vars, Tick, Open, Push, Pull, SaveSnapshot, BeginDrain,
         EndDrain, AssistantEntry, TurnEnds, WriteRow, SeeRow
  <2> QED
      BY <1>6, <1>8, <2>1
<1> QED
    BY <1>7, <1>8

(* The command plane implements the promise: each device takes each command *)
(* at most once through its stages, and an outcome is published at the end  *)
(* of that way only and says which way it went (drain_commands,             *)
(* doc_host.rs:672-720).                                                    *)
THEOREM Implements == Spec => ImplementsPromise
<1>1. TypeOK /\ ClaimInv /\ SteerInv /\ [Next]_vars => [P!Step]_(P!promise)
    BY NextPromise
<1> QED
    BY <1>1, InitType, InitClaim, InitSteer, InitPromise, NextType, NextClaim,
       NextBacked, NextEntry, NextSteer, PTL DEF Spec, ImplementsPromise, P!Promise
=============================================================================
