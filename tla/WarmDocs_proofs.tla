---------------------------- MODULE WarmDocs_proofs ----------------------------
(* Proofs about WarmDocs, for every set of chats, callers, handles and      *)
(* commands, every cap and every number of deletions: type correctness, that*)
(* only a race can lose what was written, run a command twice, or bring a   *)
(* deleted chat back, and that no task misses a pending command.            *)
(*                                                                          *)
(* The key is that a chat that is not raced has at most one living handle.  *)
EXTENDS WarmDocs, TLAPS

Steps == CallerSteps \cup TaskSteps \cup SweepSteps
Saving == {"export", "put", "store"}

-----------------------------------------------------------------------------
(* What a step makes of the process that takes it                           *)

(* Only p has moved.                                                        *)
Moves(p) ==
    /\ proc' \in [Procs -> Proc]
    /\ \A q \in Procs \ {p} : proc'[q] = proc[q]

Became(p, s, c, r, v, b, t, k) ==
    /\ Moves(p)
    /\ proc'[p].pc = s /\ proc'[p].chat = c /\ proc'[p].ref = r
    /\ proc'[p].victim = v /\ proc'[p].bytes = b
    /\ proc'[p].todo = t /\ proc'[p].cmd = k

LEMMA MovesTo ==
    ASSUME TypeOK, NEW p \in Procs, NEW r \in Proc, proc' = [proc EXCEPT ![p] = r]
    PROVE  Moves(p) /\ proc'[p] = r
BY DEF Moves, TypeOK

LEMMA BecameIdle ==
    ASSUME TypeOK, NEW p \in Procs, proc' = [proc EXCEPT ![p] = Idle]
    PROVE  Became(p, "off", NoChat, NoHandle, NoHandle, {}, {}, NoCommand)
<1>1. Idle \in Proc
    BY DEF Idle, Proc, CallerSteps
<1> QED
    BY <1>1, MovesTo DEF Became, Moves, Idle

LEMMA BecameAt ==
    ASSUME TypeOK, NEW p \in Procs, NEW s \in Steps, proc' = [proc EXCEPT ![p].pc = s]
    PROVE  Became(p, s, proc[p].chat, proc[p].ref, proc[p].victim, proc[p].bytes,
                  proc[p].todo, proc[p].cmd)
<1>1. \A r \in Proc : [r EXCEPT !.pc = s] \in Proc
    BY Zenon DEF Proc, Steps
<1>2. proc[p] \in Proc
    BY DEF TypeOK
<1>3. Moves(p) /\ proc'[p] = [proc[p] EXCEPT !.pc = s]
    BY <1>1, <1>2, MovesTo DEF TypeOK
<1> QED
    BY <1>2, <1>3 DEF Became, Moves, Proc

LEMMA BecameAtChat ==
    ASSUME TypeOK, NEW p \in Procs, NEW s \in Steps, NEW c \in Chats,
           proc' = [proc EXCEPT ![p].pc = s, ![p].chat = c]
    PROVE  Became(p, s, c, proc[p].ref, proc[p].victim, proc[p].bytes, proc[p].todo,
                  proc[p].cmd)
<1>1. \A r \in Proc : [r EXCEPT !.pc = s, !.chat = c] \in Proc
    BY Zenon DEF Proc, Steps
<1>2. proc[p] \in Proc
    BY DEF TypeOK
<1>3. Moves(p) /\ proc'[p] = [proc[p] EXCEPT !.pc = s, !.chat = c]
    BY <1>1, <1>2, MovesTo DEF TypeOK
<1> QED
    BY <1>2, <1>3 DEF Became, Moves, Proc

LEMMA BecameOpen ==
    ASSUME TypeOK, NEW p \in Procs, NEW c \in Chats, NEW h \in Handles,
           proc' = [proc EXCEPT ![p].pc = "use", ![p].chat = c, ![p].ref = h]
    PROVE  Became(p, "use", c, h, proc[p].victim, proc[p].bytes, proc[p].todo, proc[p].cmd)
<1>1. \A r \in Proc : [r EXCEPT !.pc = "use", !.chat = c, !.ref = h] \in Proc
    BY Zenon DEF Proc, CallerSteps
<1>2. proc[p] \in Proc
    BY DEF TypeOK
<1>3. Moves(p) /\ proc'[p] = [proc[p] EXCEPT !.pc = "use", !.chat = c, !.ref = h]
    BY <1>1, <1>2, MovesTo DEF TypeOK
<1> QED
    BY <1>2, <1>3 DEF Became, Moves, Proc

LEMMA BecameLoaded ==
    ASSUME TypeOK, NEW p \in Procs, NEW c \in Chats, NEW b \in SUBSET Ops,
           proc' = [proc EXCEPT ![p].pc = "insert", ![p].chat = c, ![p].bytes = b]
    PROVE  Became(p, "insert", c, proc[p].ref, proc[p].victim, b, proc[p].todo, proc[p].cmd)
<1>1. \A r \in Proc : [r EXCEPT !.pc = "insert", !.chat = c, !.bytes = b] \in Proc
    BY Zenon DEF Proc, CallerSteps
<1>2. proc[p] \in Proc
    BY DEF TypeOK
<1>3. Moves(p) /\ proc'[p] = [proc[p] EXCEPT !.pc = "insert", !.chat = c, !.bytes = b]
    BY <1>1, <1>2, MovesTo DEF TypeOK
<1> QED
    BY <1>2, <1>3 DEF Became, Moves, Proc

LEMMA BecameUser ==
    ASSUME TypeOK, NEW p \in Procs, NEW h \in Handles,
           proc' = [proc EXCEPT ![p].pc = "use", ![p].ref = h, ![p].bytes = {}]
    PROVE  Became(p, "use", proc[p].chat, h, proc[p].victim, {}, proc[p].todo, proc[p].cmd)
<1>1. \A r \in Proc : [r EXCEPT !.pc = "use", !.ref = h, !.bytes = {}] \in Proc
    BY Zenon DEF Proc, CallerSteps
<1>2. proc[p] \in Proc
    BY DEF TypeOK
<1>3. Moves(p) /\ proc'[p] = [proc[p] EXCEPT !.pc = "use", !.ref = h, !.bytes = {}]
    BY <1>1, <1>2, MovesTo DEF TypeOK
<1> QED
    BY <1>2, <1>3 DEF Became, Moves, Proc

LEMMA BecameSweeping ==
    ASSUME TypeOK, NEW p \in Procs, NEW s \in Steps, NEW t \in SUBSET Chats,
           proc' = [proc EXCEPT ![p].pc = s, ![p].todo = t]
    PROVE  Became(p, s, proc[p].chat, proc[p].ref, proc[p].victim, proc[p].bytes, t,
                  proc[p].cmd)
<1>1. \A r \in Proc : [r EXCEPT !.pc = s, !.todo = t] \in Proc
    BY Zenon DEF Proc, Steps
<1>2. proc[p] \in Proc
    BY DEF TypeOK
<1>3. Moves(p) /\ proc'[p] = [proc[p] EXCEPT !.pc = s, !.todo = t]
    BY <1>1, <1>2, MovesTo DEF TypeOK
<1> QED
    BY <1>2, <1>3 DEF Became, Moves, Proc

LEMMA BecameSparing ==
    ASSUME TypeOK, NEW p \in Procs, NEW c, proc' = [proc EXCEPT ![p].todo = @ \ {c}]
    PROVE  Became(p, proc[p].pc, proc[p].chat, proc[p].ref, proc[p].victim, proc[p].bytes,
                  proc[p].todo \ {c}, proc[p].cmd)
<1>1. \A r \in Proc : [r EXCEPT !.todo = @ \ {c}] \in Proc
    BY Zenon DEF Proc
<1>2. proc[p] \in Proc
    BY DEF TypeOK
<1>3. Moves(p) /\ proc'[p] = [proc[p] EXCEPT !.todo = @ \ {c}]
    BY <1>1, <1>2, MovesTo DEF TypeOK
<1> QED
    BY <1>2, <1>3 DEF Became, Moves, Proc

LEMMA BecameEvicting ==
    ASSUME TypeOK, NEW p \in Procs, NEW c, NEW h \in Handles,
           proc' = [proc EXCEPT ![p].pc = "export", ![p].victim = h, ![p].todo = @ \ {c}]
    PROVE  Became(p, "export", proc[p].chat, proc[p].ref, h, proc[p].bytes,
                  proc[p].todo \ {c}, proc[p].cmd)
<1>1. \A r \in Proc : [r EXCEPT !.pc = "export", !.victim = h, !.todo = @ \ {c}] \in Proc
    BY Zenon DEF Proc, SweepSteps
<1>2. proc[p] \in Proc
    BY DEF TypeOK
<1>3. Moves(p) /\ proc'[p] = [proc[p] EXCEPT !.pc = "export", !.victim = h, !.todo = @ \ {c}]
    BY <1>1, <1>2, MovesTo DEF TypeOK
<1> QED
    BY <1>2, <1>3 DEF Became, Moves, Proc

LEMMA BecameExported ==
    ASSUME TypeOK, NEW p \in Procs, NEW s \in {"put", "store"}, NEW h \in Handles,
           NEW b \in SUBSET Ops,
           proc' = [proc EXCEPT ![p].pc = s, ![p].victim = h, ![p].bytes = b]
    PROVE  Became(p, s, proc[p].chat, proc[p].ref, h, b, proc[p].todo, proc[p].cmd)
<1>0. s \in Steps
    BY DEF Steps, TaskSteps, SweepSteps
<1>1. \A r \in Proc : [r EXCEPT !.pc = s, !.victim = h, !.bytes = b] \in Proc
    BY <1>0, Zenon DEF Proc, Steps
<1>2. proc[p] \in Proc
    BY DEF TypeOK
<1>3. Moves(p) /\ proc'[p] = [proc[p] EXCEPT !.pc = s, !.victim = h, !.bytes = b]
    BY <1>1, <1>2, MovesTo DEF TypeOK
<1> QED
    BY <1>2, <1>3 DEF Became, Moves, Proc

LEMMA BecameSaved ==
    ASSUME TypeOK, NEW p \in Procs, NEW r \in Proc,
           proc' = [proc EXCEPT ![p] = [r EXCEPT !.victim = NoHandle, !.bytes = {}]]
    PROVE  Became(p, r.pc, r.chat, r.ref, NoHandle, {}, r.todo, r.cmd)
<1>1. [r EXCEPT !.victim = NoHandle, !.bytes = {}] \in Proc
    BY Zenon DEF Proc
<1>2. Moves(p) /\ proc'[p] = [r EXCEPT !.victim = NoHandle, !.bytes = {}]
    BY <1>1, MovesTo
<1> QED
    BY <1>2 DEF Became, Moves, Proc

LEMMA BecameDraining ==
    ASSUME TypeOK, NEW p \in Procs, NEW s \in Steps, NEW k \in Commands \cup {NoCommand},
           proc' = [proc EXCEPT ![p].pc = s, ![p].cmd = k]
    PROVE  Became(p, s, proc[p].chat, proc[p].ref, proc[p].victim, proc[p].bytes,
                  proc[p].todo, k)
<1>1. \A r \in Proc : [r EXCEPT !.pc = s, !.cmd = k] \in Proc
    BY Zenon DEF Proc, Steps
<1>2. proc[p] \in Proc
    BY DEF TypeOK
<1>3. Moves(p) /\ proc'[p] = [proc[p] EXCEPT !.pc = s, !.cmd = k]
    BY <1>1, <1>2, MovesTo DEF TypeOK
<1> QED
    BY <1>2, <1>3 DEF Became, Moves, Proc

-----------------------------------------------------------------------------
(* The steps, process by process                                            *)

LEMMA OpenHitMoves ==
    ASSUME TypeOK, NEW p \in Callers, NEW c \in Chats, OpenHit(p, c)
    PROVE  Became(p, "use", c, map[c], proc[p].victim, proc[p].bytes, proc[p].todo, proc[p].cmd)
BY BecameOpen DEF OpenHit, Procs, TypeOK

LEMMA OpenMissMoves ==
    ASSUME TypeOK, NEW p \in Callers, NEW c \in Chats, OpenMiss(p, c)
    PROVE  Became(p, "insert", c, proc[p].ref, proc[p].victim, snap[c], proc[p].todo, proc[p].cmd)
<1>1. snap[c] \in SUBSET Ops
    BY DEF TypeOK
<1> QED
    BY <1>1, BecameLoaded DEF OpenMiss, Procs

LEMMA InsertKeepsFirstMoves ==
    ASSUME TypeOK, NEW p \in Callers, proc[p].chat \in Chats, InsertKeepsFirst(p)
    PROVE  Became(p, "use", proc[p].chat, map[proc[p].chat], proc[p].victim, {},
                  proc[p].todo, proc[p].cmd)
BY BecameUser DEF InsertKeepsFirst, Procs, TypeOK

LEMMA SweepEndsMoves ==
    ASSUME TypeOK, NEW p \in Procs, SweepEnds(p)
    PROVE  Became(p, IF p \in Callers THEN "use" ELSE "wait", proc[p].chat, proc[p].ref,
                  proc[p].victim, proc[p].bytes, {}, proc[p].cmd)
<1>1. (IF p \in Callers THEN "use" ELSE "wait") \in Steps /\ {} \in SUBSET Chats
    BY DEF Steps, CallerSteps, TaskSteps
<1> QED
    BY <1>1, BecameSweeping DEF SweepEnds, AfterSweep

LEMMA SpareMoves ==
    ASSUME TypeOK, NEW p \in Procs, NEW c \in Chats, Spare(p, c)
    PROVE  Became(p, "sweep", proc[p].chat, proc[p].ref, proc[p].victim, proc[p].bytes,
                  proc[p].todo \ {c}, proc[p].cmd)
BY BecameSparing DEF Spare

LEMMA EvictMoves ==
    ASSUME TypeOK, NEW p \in Procs, NEW c \in Chats, Evict(p, c)
    PROVE  Became(p, "export", proc[p].chat, proc[p].ref, map[c], proc[p].bytes,
                  proc[p].todo \ {c}, proc[p].cmd)
BY BecameEvicting DEF Evict, TypeOK

LEMMA ExportVictimMoves ==
    ASSUME TypeOK, NEW p \in Procs, proc[p].victim \in Handles, ExportVictim(p)
    PROVE  Became(p, "put", proc[p].chat, proc[p].ref, proc[p].victim,
                  replica[proc[p].victim], proc[p].todo, proc[p].cmd)
<1>1. replica[proc[p].victim] \in SUBSET Ops
    BY DEF TypeOK
<1> QED
    BY <1>1, BecameExported DEF ExportVictim, Exports

LEMMA DeadlineMoves ==
    ASSUME TypeOK, NEW h \in Handles, Deadline(h)
    PROVE  Became(h, "store", proc[h].chat, proc[h].ref, h, replica[h], proc[h].todo, proc[h].cmd)
<1>1. replica[h] \in SUBSET Ops
    BY DEF TypeOK
<1> QED
    BY <1>1, BecameExported DEF Deadline, Exports, Procs

LEMMA PutVictimMoves ==
    ASSUME TypeOK, NEW p \in Procs, PutVictim(p)
    PROVE  Became(p, "sweep", proc[p].chat, proc[p].ref, NoHandle, {}, proc[p].todo, proc[p].cmd)
<1>1. proc[p] \in Proc
    BY DEF TypeOK
<1>2. \A r \in Proc : [r EXCEPT !.pc = "sweep"] \in Proc
    BY Zenon DEF Proc, SweepSteps
<1>3. LET r == [proc[p] EXCEPT !.pc = "sweep"]
      IN  Became(p, r.pc, r.chat, r.ref, NoHandle, {}, r.todo, r.cmd)
    BY <1>1, <1>2, BecameSaved DEF PutVictim, Stores
<1> QED
    BY <1>1, <1>3 DEF Proc

LEMMA SavedMoves ==
    ASSUME TypeOK, NEW h \in Handles, Saved(h)
    PROVE  \E t : Became(h, "sweep", proc[h].chat, proc[h].ref, NoHandle, {}, t, proc[h].cmd)
<1> DEFINE t == {c \in Chats : map[c] # NoHandle}
<1>1. proc[h] \in Proc /\ h \in Procs
    BY DEF TypeOK, Procs
<1>2. \A r \in Proc : [r EXCEPT !.pc = "sweep", !.todo = t] \in Proc
    BY Zenon DEF Proc, SweepSteps
<1>3. LET r == [proc[h] EXCEPT !.pc = "sweep", !.todo = t]
      IN  Became(h, r.pc, r.chat, r.ref, NoHandle, {}, r.todo, r.cmd)
    BY <1>1, <1>2, BecameSaved DEF Saved, Stores
<1>4. LET r == [proc[h] EXCEPT !.pc = "sweep", !.todo = t]
      IN  r.pc = "sweep" /\ r.chat = proc[h].chat /\ r.ref = proc[h].ref /\ r.cmd = proc[h].cmd
    BY <1>1 DEF Proc
<1> QED
    BY <1>3, <1>4

LEMMA PurgeUnmapMoves ==
    ASSUME TypeOK, NEW p \in Callers, NEW c \in Chats, PurgeUnmap(p, c)
    PROVE  Became(p, "delete", c, proc[p].ref, proc[p].victim, proc[p].bytes, proc[p].todo,
                  proc[p].cmd)
<1>1. "delete" \in Steps
    BY DEF Steps, CallerSteps
<1> QED
    BY <1>1, BecameAtChat DEF PurgeUnmap, Procs

IdleNow(p) == Became(p, "off", NoChat, NoHandle, NoHandle, {}, {}, NoCommand)

LEMMA IdleMoves ==
    ASSUME TypeOK, NEW p \in Callers,
           \/ PurgeDelete(p) \/ Release(p) \/ Leave(p)
           \/ \E c \in Commands : QueueCommand(p, c)
    PROVE  IdleNow(p)
BY BecameIdle DEF PurgeDelete, Release, Leave, QueueCommand, Procs, IdleNow

(* Only the place has changed.                                              *)
Goes(p, s) == Became(p, s, proc[p].chat, proc[p].ref, proc[p].victim, proc[p].bytes,
                     proc[p].todo, proc[p].cmd)

LEMMA GotoMoves ==
    ASSUME TypeOK, NEW p \in Procs, NEW s \in Steps, Goto(p, s)
    PROVE  Goes(p, s)
BY BecameAt DEF Goto, Goes

LEMMA CallerGoes ==
    ASSUME TypeOK, NEW p \in Callers
    PROVE  /\ Attach(p) => Goes(p, "watching")
           /\ Dispatch(p) => Goes(p, "running")
<1>1. {"watching", "running"} \subseteq Steps /\ p \in Procs
    BY DEF Steps, CallerSteps, Procs
<1> QED
    BY <1>1, GotoMoves DEF Attach, Dispatch

LEMMA TaskGoes ==
    ASSUME TypeOK, NEW h \in Handles
    PROVE  /\ TaskBegins(h) => Goes(h, IF Alive(h) THEN "drain" ELSE "ended")
           /\ TaskWakes(h) => Goes(h, "drain")
           /\ TaskEnds(h) => Goes(h, "ended")
           /\ DrainEnds(h) => Goes(h, "wait")
           /\ Claim(h) => Goes(h, "execute")
<1>1. {"drain", "ended", "wait", "execute"} \subseteq Steps /\ h \in Procs
    BY DEF Steps, TaskSteps, Procs
<1>2. (IF Alive(h) THEN "drain" ELSE "ended") \in Steps
    BY <1>1
<1> QED
    BY <1>1, <1>2, GotoMoves DEF TaskBegins, TaskWakes, TaskEnds, DrainEnds, Claim

LEMMA DrainMoves ==
    ASSUME TypeOK, NEW h \in Handles
    PROVE  /\ \A c \in Commands : Find(h, c) =>
                  Became(h, "claim", proc[h].chat, proc[h].ref, proc[h].victim, proc[h].bytes,
                         proc[h].todo, c)
           /\ Resolve(h) =>
                  Became(h, "drain", proc[h].chat, proc[h].ref, proc[h].victim, proc[h].bytes,
                         proc[h].todo, NoCommand)
<1>1. {"drain", "claim"} \subseteq Steps /\ h \in Procs
    BY DEF Steps, TaskSteps, Procs
<1> QED
    BY <1>1, BecameDraining DEF Find, Resolve

(* Insert moves two: the caller, and the task it spawns.                    *)
LEMMA InsertMoves ==
    ASSUME TypeOK, NEW p \in Callers, NEW h \in Handles, proc[p].chat \in Chats, Insert(p, h)
    PROVE  /\ proc' \in [Procs -> Proc]
           /\ \A q \in Procs \ {p, h} : proc'[q] = proc[q]
           /\ proc'[p].pc = "sweep" /\ proc'[p].chat = proc[p].chat /\ proc'[p].ref = h
           /\ proc'[h].pc = "boot" /\ proc'[h].chat = proc[p].chat /\ proc'[h].ref = h
<1> DEFINE c == proc[p].chat
           t == {d \in Chats : map[d] # NoHandle} \cup {c}
<1>1. /\ \A r \in Proc : [r EXCEPT !.pc = "sweep", !.ref = h, !.bytes = {}, !.todo = t] \in Proc
      /\ \A r \in Proc : [r EXCEPT !.pc = "boot", !.chat = c, !.ref = h] \in Proc
  <2>1. t \in SUBSET Chats
      OBVIOUS
  <2> HIDE DEF t, c
  <2>2. c \in Chats
      BY DEF c
  <2> QED
      BY <2>1, <2>2, Zenon DEF Proc, SweepSteps, TaskSteps
<1>2. p \in Procs /\ h \in Procs /\ p # h /\ proc \in [Procs -> Proc]
    BY DocsAssumption DEF Procs, TypeOK
<1> HIDE DEF t
<1>3. proc' = [proc EXCEPT ![p] = [proc[p] EXCEPT !.pc = "sweep", !.ref = h, !.bytes = {},
                                                  !.todo = t],
                           ![h] = [proc[h] EXCEPT !.pc = "boot", !.chat = c, !.ref = h]]
    BY <1>2 DEF Insert, t
<1>4. /\ proc'[p] = [proc[p] EXCEPT !.pc = "sweep", !.ref = h, !.bytes = {}, !.todo = t]
      /\ proc'[h] = [proc[h] EXCEPT !.pc = "boot", !.chat = c, !.ref = h]
      /\ \A q \in Procs \ {p, h} : proc'[q] = proc[q]
      /\ proc' = [q \in Procs |-> proc'[q]]
    BY <1>2, <1>3
<1>5. proc'[p] \in Proc /\ proc'[h] \in Proc
  <2>1. proc[p] \in Proc /\ proc[h] \in Proc
      BY <1>2
  <2> QED
      BY <1>1, <1>4, <2>1, Zenon
<1>6. proc' \in [Procs -> Proc]
    BY <1>2, <1>4, <1>5
<1>7. proc[p] \in Proc /\ proc[h] \in Proc
    BY <1>2
<1>8. /\ proc'[p].pc = "sweep" /\ proc'[p].chat = proc[p].chat /\ proc'[p].ref = h
      /\ proc'[h].pc = "boot" /\ proc'[h].chat = c /\ proc'[h].ref = h
    BY <1>4, <1>7 DEF Proc
<1> QED
    BY <1>4, <1>6, <1>8

-----------------------------------------------------------------------------
(* What every process holds, and what every document is made of             *)

OfChat(ops, c) == \A k \in Commands : <<"command", k>> \in ops => ChatOf[k] = c

(* A handle in hand is of the chat in hand; a task has its own; an exported *)
(* handle has left the map for good; a command in hand is of the chat.      *)
ProcOK(p) ==
    /\ proc[p].ref # NoHandle => proc[p].chat # NoChat /\ chatOf[proc[p].ref] = proc[p].chat
    /\ p \in Callers => (proc[p].ref = NoHandle <=> proc[p].pc \in {"off", "insert", "delete"})
    /\ p \in Handles => /\ proc[p].ref = NoHandle <=> proc[p].pc = "unborn"
                        /\ proc[p].ref \in {p, NoHandle}
    /\ proc[p].pc \in {"insert", "delete"} => proc[p].chat # NoChat
    /\ proc[p].pc = "running" => p \in Runners
    /\ proc[p].pc \in Saving => proc[p].victim # NoHandle /\ chatOf[proc[p].victim] # NoChat
    /\ proc[p].pc \in {"export", "put"} => map[chatOf[proc[p].victim]] # proc[p].victim
    /\ proc[p].pc \in {"claim", "execute"} =>
           proc[p].cmd # NoCommand /\ ChatOf[proc[p].cmd] = proc[p].chat
    /\ proc[p].pc = "insert" => OfChat(proc[p].bytes, proc[p].chat)
    /\ proc[p].pc \in {"put", "store"} => OfChat(proc[p].bytes, chatOf[proc[p].victim])

DocumentsOK ==
    /\ \A h \in Handles : proc[h].pc = "unborn" => chatOf[h] = NoChat
    /\ \A c \in Chats : map[c] # NoHandle => chatOf[map[c]] = c
    /\ \A c \in Chats : OfChat(snap[c], c)
    /\ \A h \in Handles : OfChat(replica[h], chatOf[h])

BaseInv == TypeOK /\ (\A p \in Procs : ProcOK(p)) /\ DocumentsOK

(* Chats stay with their handles, and the map only loses some.              *)
MapShrinks ==
    /\ chatOf' = chatOf
    /\ map' \in [Chats -> Handles \cup {NoHandle}]
    /\ \A c \in Chats : map'[c] \in {map[c], NoHandle}

StepOf(p) == proc'[p].pc \in IF p \in Callers THEN CallerSteps \cup SweepSteps
                                              ELSE TaskSteps \cup SweepSteps

(* The variables besides proc, map and chatOf keep their types.             *)
RestTyped ==
    /\ replica' \in [Handles -> SUBSET Ops]
    /\ woken' \subseteq Handles /\ armed' \subseteq Handles
    /\ snap' \in [Chats -> SUBSET Ops]
    /\ ledger' \subseteq Commands /\ queued' \subseteq Commands
    /\ taken' \in [Commands -> Nat]
    /\ written' \in [Chats -> SUBSET Ops]
    /\ purged' \subseteq Chats /\ purges' \in 0..MaxPurges /\ raced' \subseteq Chats

LEMMA BaseFrame ==
    ASSUME BaseInv, NEW p \in Procs, Moves(p), StepOf(p), MapShrinks, RestTyped,
           ProcOK(p)', proc'[p].pc = "unborn" => proc[p].pc = "unborn",
           \A c \in Chats : OfChat(snap'[c], c),
           \A h \in Handles : OfChat(replica'[h], chatOf[h])
    PROVE  BaseInv'
<1>1. TypeOK'
  <2>1. \A q \in Callers : proc'[q].pc \in CallerSteps \cup SweepSteps
      BY DocsAssumption DEF Moves, StepOf, BaseInv, TypeOK, Procs
  <2>2. \A q \in Handles : proc'[q].pc \in TaskSteps \cup SweepSteps
      BY DocsAssumption DEF Moves, StepOf, BaseInv, TypeOK, Procs
  <2> QED
      BY <2>1, <2>2 DEF Moves, MapShrinks, RestTyped, BaseInv, TypeOK
<1>2. ASSUME NEW q \in Procs, q # p PROVE ProcOK(q)'
  <2>1. proc'[q] = proc[q] /\ ProcOK(q) /\ proc[q] \in Proc
      BY <1>2 DEF Moves, BaseInv, TypeOK
  <2>2. proc[q].pc \in {"export", "put"} => map'[chatOf[proc[q].victim]] # proc[q].victim
    <3>1. proc[q].pc \in {"export", "put"} =>
              chatOf[proc[q].victim] \in Chats /\ proc[q].victim # NoHandle
        BY <2>1 DEF ProcOK, Saving, BaseInv, TypeOK, Proc
    <3> QED
        BY <2>1, <3>1 DEF ProcOK, MapShrinks
  <2> QED
      BY <2>1, <2>2 DEF ProcOK, MapShrinks, OfChat
<1>3. DocumentsOK'
  <2>1. \A h \in Handles : proc'[h].pc = "unborn" => chatOf'[h] = NoChat
      BY DEF Moves, MapShrinks, BaseInv, DocumentsOK, Procs
  <2>2. \A c \in Chats : map'[c] # NoHandle => chatOf'[map'[c]] = c
      BY DEF MapShrinks, BaseInv, DocumentsOK
  <2> QED
      BY <2>1, <2>2 DEF DocumentsOK, MapShrinks, OfChat
<1> QED
    BY <1>1, <1>2, <1>3 DEF BaseInv

-----------------------------------------------------------------------------
(* Steps that write nothing                                                 *)

(* p moves without a document, a snapshot or the ledger noticing, and holds *)
(* at most what was alive.                                                  *)
QuietStep(p) ==
    /\ Moves(p)
    /\ UNCHANGED <<map, chatOf, replica, written, snap, ledger, taken, purged, raced>>
    /\ proc[p].pc \notin Saving /\ proc'[p].pc \notin Saving
    /\ \A h \in Handles : HoldsBy(p, h)' => Alive(h)
    /\ proc'[p].pc = "claim" => proc'[p].cmd \notin ledger

LEMMA HolderKeepsAlive ==
    \A p \in Procs, h \in Handles : HoldsBy(p, h) => Alive(h)
BY DEF Alive, Held

LEMMA QuietBase ==
    ASSUME BaseInv, NEW p \in Procs, QuietStep(p), StepOf(p), ProcOK(p)',
           proc'[p].pc = "unborn" => proc[p].pc = "unborn",
           woken' \subseteq Handles, armed' \subseteq Handles, queued' \subseteq Commands,
           purges' = purges
    PROVE  BaseInv'
<1>1. MapShrinks
    BY DEF QuietStep, MapShrinks, BaseInv, TypeOK
<1>2. RestTyped
    BY DEF QuietStep, RestTyped, BaseInv, TypeOK
<1>3. /\ \A c \in Chats : OfChat(snap'[c], c)
      /\ \A h \in Handles : OfChat(replica'[h], chatOf[h])
    BY DEF QuietStep, BaseInv, DocumentsOK
<1> QED
    BY <1>1, <1>2, <1>3, BaseFrame DEF QuietStep

LEMMA QuietCaller ==
    ASSUME BaseInv, NEW p \in Callers,
           \/ \E c \in Chats : OpenHit(p, c) \/ OpenMiss(p, c)
           \/ InsertKeepsFirst(p) \/ Release(p) \/ Attach(p) \/ Leave(p)
    PROVE  BaseInv' /\ QuietStep(p)
<1> USE DocsAssumption DEF Procs
<1>0. /\ TypeOK /\ p \in Procs /\ ProcOK(p) /\ DocumentsOK /\ proc[p] \in Proc
      /\ p \notin Handles
    BY DEF BaseInv, TypeOK
<1>1. ASSUME NEW c \in Chats, OpenHit(p, c) PROVE BaseInv' /\ QuietStep(p)
  <2>1. Became(p, "use", c, map[c], proc[p].victim, proc[p].bytes, proc[p].todo, proc[p].cmd)
      BY <1>0, <1>1, OpenHitMoves
  <2>2. map[c] # NoHandle /\ map[c] \in Handles /\ chatOf[map[c]] = c /\ Alive(map[c])
      BY <1>0, <1>1 DEF OpenHit, DocumentsOK, TypeOK, Alive
  <2>3. QuietStep(p)
      BY <1>1, <2>1, <2>2 DEF OpenHit, QuietStep, Became, HoldsBy, Saving, docVars, ledgerVars,
         purgeVars
  <2>4. ProcOK(p)'
      BY <1>0, <1>1, <2>1, <2>2 DEF OpenHit, Became, ProcOK, Saving, docVars
  <2>5. StepOf(p) /\ proc'[p].pc # "unborn"
      BY <2>1 DEF Became, StepOf, CallerSteps
  <2>6. woken' \subseteq Handles /\ armed' \subseteq Handles /\ queued' \subseteq Commands
        /\ purges' = purges
      BY <1>0, <1>1 DEF OpenHit, docVars, purgeVars, TypeOK
  <2> QED
      BY <1>0, <2>3, <2>4, <2>5, <2>6, QuietBase
<1>2. ASSUME NEW c \in Chats, OpenMiss(p, c) PROVE BaseInv' /\ QuietStep(p)
  <2>1. Became(p, "insert", c, proc[p].ref, proc[p].victim, snap[c], proc[p].todo, proc[p].cmd)
      BY <1>0, <1>2, OpenMissMoves
  <2>2. QuietStep(p)
      BY <1>2, <2>1 DEF OpenMiss, QuietStep, Became, HoldsBy, Saving, docVars, ledgerVars,
         purgeVars
  <2>3. ProcOK(p)'
      BY <1>0, <1>2, <2>1 DEF OpenMiss, Became, ProcOK, Saving, docVars, DocumentsOK, OfChat
  <2>4. StepOf(p) /\ proc'[p].pc # "unborn"
      BY <2>1 DEF Became, StepOf, CallerSteps
  <2>5. woken' \subseteq Handles /\ armed' \subseteq Handles /\ queued' \subseteq Commands
        /\ purges' = purges
      BY <1>0, <1>2 DEF OpenMiss, docVars, purgeVars, TypeOK
  <2> QED
      BY <1>0, <2>2, <2>3, <2>4, <2>5, QuietBase
<1>3. ASSUME InsertKeepsFirst(p) PROVE BaseInv' /\ QuietStep(p)
  <2> DEFINE c == proc[p].chat
  <2>0. c \in Chats
      BY <1>0, <1>3 DEF InsertKeepsFirst, ProcOK, Proc
  <2>1. Became(p, "use", c, map[c], proc[p].victim, {}, proc[p].todo, proc[p].cmd)
      BY <1>0, <1>3, <2>0, InsertKeepsFirstMoves
  <2>2. map[c] # NoHandle /\ map[c] \in Handles /\ chatOf[map[c]] = c /\ Alive(map[c])
      BY <1>0, <1>3, <2>0 DEF InsertKeepsFirst, DocumentsOK, TypeOK, Alive
  <2>3. QuietStep(p)
      BY <1>3, <2>1, <2>2 DEF InsertKeepsFirst, QuietStep, Became, HoldsBy, Saving, docVars,
         ledgerVars, purgeVars
  <2>4. ProcOK(p)'
      BY <1>0, <1>3, <2>0, <2>1, <2>2 DEF InsertKeepsFirst, Became, ProcOK, Saving, docVars
  <2> QED
      BY <1>0, <1>3, <2>1, <2>3, <2>4, QuietBase
      DEF InsertKeepsFirst, Became, StepOf, CallerSteps, docVars, purgeVars, TypeOK
<1>4. ASSUME Release(p) \/ Leave(p) PROVE BaseInv' /\ QuietStep(p)
  <2>1. IdleNow(p)
      BY <1>0, <1>4, IdleMoves
  <2>2. QuietStep(p)
      BY <1>4, <2>1 DEF Release, Leave, IdleNow, QuietStep, Became, HoldsBy, Saving, docVars,
         ledgerVars, purgeVars
  <2>3. ProcOK(p)'
      BY <1>0, <1>4, <2>1 DEF IdleNow, Became, ProcOK, Saving
  <2> QED
      BY <1>0, <1>4, <2>1, <2>2, <2>3, QuietBase
      DEF Release, Leave, IdleNow, Became, StepOf, CallerSteps, docVars, purgeVars, TypeOK
<1>5. ASSUME Attach(p) PROVE BaseInv' /\ QuietStep(p)
  <2>1. Goes(p, "watching")
      BY <1>0, <1>5, CallerGoes
  <2>2. QuietStep(p)
      BY <1>5, <2>1 DEF Attach, Goes, QuietStep, Became, HoldsBy, Saving, docVars, ledgerVars,
         purgeVars
  <2>3. ProcOK(p)'
      BY <1>0, <1>5, <2>1 DEF Attach, Goes, Became, ProcOK, Saving, docVars
  <2> QED
      BY <1>0, <1>5, <2>1, <2>2, <2>3, QuietBase
      DEF Attach, Goes, Became, StepOf, CallerSteps, docVars, purgeVars, TypeOK
<1> QED
    BY <1>1, <1>2, <1>3, <1>4, <1>5

LEMMA QuietSweep ==
    ASSUME BaseInv, NEW p \in Procs, SweepEnds(p) \/ \E c \in Chats : Spare(p, c)
    PROVE  BaseInv' /\ QuietStep(p)
<1>0. /\ TypeOK /\ ProcOK(p) /\ proc[p] \in Proc
      /\ p \in Callers => p \notin Handles
      /\ p \notin Callers => p \in Handles
    BY DocsAssumption DEF BaseInv, TypeOK, Procs
<1>1. ASSUME SweepEnds(p) PROVE BaseInv' /\ QuietStep(p)
  <2>1. Became(p, IF p \in Callers THEN "use" ELSE "wait", proc[p].chat, proc[p].ref,
               proc[p].victim, proc[p].bytes, {}, proc[p].cmd)
      BY <1>0, <1>1, SweepEndsMoves
  <2>2. \A h \in Handles : HoldsBy(p, h)' => Alive(h)
    <3>1. proc'[p].pc \in {"use", "wait"} /\ proc'[p].ref = proc[p].ref /\ proc[p].pc = "sweep"
        BY <1>1, <2>1 DEF SweepEnds, Became
    <3>2. \A h \in Handles : HoldsBy(p, h)' => HoldsBy(p, h)
        BY <3>1 DEF HoldsBy
    <3> QED
        BY <3>2, HolderKeepsAlive
  <2>3. QuietStep(p)
      BY <1>1, <2>1, <2>2 DEF SweepEnds, QuietStep, Became, Saving, docVars, ledgerVars, purgeVars
  <2>4. ProcOK(p)'
      BY <1>0, <1>1, <2>1 DEF SweepEnds, Became, ProcOK, Saving, docVars
  <2> QED
      BY <1>0, <1>1, <2>1, <2>3, <2>4, QuietBase
      DEF SweepEnds, Became, StepOf, CallerSteps, TaskSteps, docVars, purgeVars, TypeOK
<1>2. ASSUME NEW c \in Chats, Spare(p, c) PROVE BaseInv' /\ QuietStep(p)
  <2>1. Became(p, "sweep", proc[p].chat, proc[p].ref, proc[p].victim, proc[p].bytes,
               proc[p].todo \ {c}, proc[p].cmd)
      BY <1>0, <1>2, SpareMoves
  <2>2. \A h \in Handles : HoldsBy(p, h)' => Alive(h)
      BY <1>2, <2>1, HolderKeepsAlive DEF Spare, Became, HoldsBy
  <2>3. QuietStep(p)
      BY <1>2, <2>1, <2>2 DEF Spare, QuietStep, Became, Saving, docVars, ledgerVars, purgeVars
  <2>4. ProcOK(p)'
      BY <1>0, <1>2, <2>1 DEF Spare, Became, ProcOK, Saving, docVars
  <2> QED
      BY <1>0, <1>2, <2>1, <2>3, <2>4, QuietBase
      DEF Spare, Became, StepOf, SweepSteps, docVars, purgeVars, TypeOK
<1> QED
    BY <1>1, <1>2

LEMMA QuietTask ==
    ASSUME BaseInv, NEW h \in Handles,
           \/ TaskBegins(h) \/ TaskWakes(h) \/ TaskEnds(h) \/ DrainEnds(h)
           \/ \E c \in Commands : Find(h, c)
    PROVE  BaseInv' /\ QuietStep(h)
<1>0. /\ TypeOK /\ h \in Procs /\ ProcOK(h) /\ DocumentsOK /\ proc[h] \in Proc
      /\ h \notin Callers /\ h # NoHandle
    BY DocsAssumption DEF BaseInv, TypeOK, Procs
<1>1. ASSUME NEW s \in {"drain", "ended", "wait"}, Goes(h, s),
             TaskBegins(h) \/ TaskWakes(h) \/ TaskEnds(h) \/ DrainEnds(h),
             s = "drain" => Alive(h)
      PROVE  BaseInv' /\ QuietStep(h)
  <2>1. ASSUME NEW g \in Handles, HoldsBy(h, g)' PROVE Alive(g)
    <3>1. proc'[h].pc = s /\ proc'[h].ref = proc[h].ref
        BY <1>1 DEF Goes, Became
    <3>2. s = "drain" /\ proc[h].ref = g
        BY <2>1, <3>1 DEF HoldsBy
    <3>3. g = h
        BY <1>0, <3>2, DocsAssumption DEF ProcOK
    <3> QED
        BY <1>1, <3>2, <3>3
  <2>2. proc[h].pc \in {"boot", "wait", "drain"}
      BY <1>1 DEF TaskBegins, TaskWakes, TaskEnds, DrainEnds
  <2>3. QuietStep(h)
      BY <1>1, <2>1, <2>2 DEF TaskBegins, TaskWakes, TaskEnds, DrainEnds, Goes, QuietStep, Became,
         Saving, docVars, ledgerVars, purgeVars
  <2>4. ProcOK(h)'
      BY <1>0, <1>1, <2>2, <2>3 DEF Goes, Became, ProcOK, Saving, QuietStep
  <2>5. woken' \subseteq Handles /\ armed' \subseteq Handles /\ queued' \subseteq Commands
        /\ purges' = purges
      BY <1>0, <1>1 DEF TaskBegins, TaskWakes, TaskEnds, DrainEnds, docVars, purgeVars, TypeOK
  <2> QED
      BY <1>0, <1>1, <2>3, <2>4, <2>5, QuietBase DEF Goes, Became, StepOf, TaskSteps
<1>2. CASE TaskBegins(h) \/ TaskWakes(h) \/ TaskEnds(h) \/ DrainEnds(h)
  <2>1. TaskBegins(h) => \E s \in {"drain", "ended"} : Goes(h, s) /\ (s = "drain" => Alive(h))
      BY <1>0, TaskGoes
  <2>2. TaskWakes(h) => Goes(h, "drain") /\ Alive(h)
      BY <1>0, TaskGoes DEF TaskWakes
  <2>3. TaskEnds(h) => Goes(h, "ended")
      BY <1>0, TaskGoes
  <2>4. DrainEnds(h) => Goes(h, "wait")
      BY <1>0, TaskGoes
  <2> QED
      BY <1>1, <1>2, <2>1, <2>2, <2>3, <2>4
<1>3. ASSUME NEW c \in Commands, Find(h, c) PROVE BaseInv' /\ QuietStep(h)
  <2>1. Became(h, "claim", proc[h].chat, proc[h].ref, proc[h].victim, proc[h].bytes,
               proc[h].todo, c)
      BY <1>0, <1>3, DrainMoves
  <2>2. \A g \in Handles : HoldsBy(h, g)' => Alive(g)
      BY <1>0, <1>3, <2>1, HolderKeepsAlive DEF Find, Became, HoldsBy
  <2>3. c \notin ledger /\ ChatOf[c] = chatOf[h] /\ c # NoCommand
      BY <1>0, <1>3, DocsAssumption DEF Find, Pending, DocumentsOK, OfChat
  <2>4. QuietStep(h)
      BY <1>3, <2>1, <2>2, <2>3 DEF Find, QuietStep, Became, Saving, docVars, ledgerVars, purgeVars
  <2>5. ProcOK(h)'
      BY <1>0, <1>3, <2>1, <2>3, <2>4 DEF Find, Became, ProcOK, Saving, QuietStep
  <2>6. StepOf(h) /\ proc'[h].pc # "unborn"
      BY <1>0, <2>1 DEF Became, StepOf, TaskSteps
  <2>7. woken' \subseteq Handles /\ armed' \subseteq Handles /\ queued' \subseteq Commands
        /\ purges' = purges
      BY <1>0, <1>3 DEF Find, docVars, purgeVars, TypeOK
  <2> QED
      BY <1>0, <2>4, <2>5, <2>6, <2>7, QuietBase
<1> QED
    BY <1>2, <1>3

-----------------------------------------------------------------------------
(* Steps that write through a handle                                        *)

WriteStep(p, h, new) ==
    /\ h \in Handles /\ chatOf[h] \in Chats
    /\ Moves(p) /\ WriteTo(h, new)
    /\ UNCHANGED <<map, chatOf, snap, ledger, taken, purged>>
    /\ proc[p].pc \notin Saving /\ proc'[p].pc \notin Saving
    /\ \A g \in Handles : HoldsBy(p, g)' => Alive(g)
    /\ proc'[p].pc # "claim"

LEMMA WriteBase ==
    ASSUME BaseInv, NEW p \in Procs, NEW h, NEW new \in SUBSET Ops, WriteStep(p, h, new),
           OfChat(new, chatOf[h]), StepOf(p), ProcOK(p)',
           proc'[p].pc = "unborn" => proc[p].pc = "unborn",
           armed' = armed, queued' \subseteq Commands, purges' = purges
    PROVE  BaseInv'
<1>1. MapShrinks
    BY DEF WriteStep, MapShrinks, BaseInv, TypeOK
<1>2. /\ replica' = [replica EXCEPT ![h] = @ \cup new]
      /\ written' = [written EXCEPT ![chatOf[h]] = @ \cup new]
      /\ woken' = woken \cup {h} /\ raced' \subseteq raced \cup {chatOf[h]}
      /\ h \in Handles /\ chatOf[h] \in Chats
    BY DEF WriteStep, WriteTo, Race
<1>3. RestTyped
    BY <1>2 DEF WriteStep, RestTyped, BaseInv, TypeOK
<1>4. /\ \A c \in Chats : OfChat(snap'[c], c)
      /\ \A g \in Handles : OfChat(replica'[g], chatOf[g])
    BY <1>2 DEF WriteStep, BaseInv, DocumentsOK, OfChat, TypeOK
<1> QED
    BY <1>1, <1>3, <1>4, BaseFrame DEF WriteStep

(* What is written through p's handle is of p's chat.                       *)
LEMMA InHand ==
    ASSUME BaseInv, NEW p \in Procs, proc[p].ref # NoHandle
    PROVE  /\ proc[p].ref \in Handles /\ chatOf[proc[p].ref] \in Chats
           /\ chatOf[proc[p].ref] = proc[p].chat
<1>1. ProcOK(p) /\ proc[p] \in Proc
    BY DEF BaseInv, TypeOK
<1> QED
    BY <1>1 DEF ProcOK, Proc

LEMMA WriterCaller ==
    ASSUME BaseInv, NEW p \in Callers,
           Dispatch(p) \/ RunWrites(p) \/ \E c \in Commands : QueueCommand(p, c)
    PROVE  BaseInv' /\ \E h, new : WriteStep(p, h, new)
<1> DEFINE h == proc[p].ref
<1>0. /\ TypeOK /\ p \in Procs /\ ProcOK(p) /\ proc[p] \in Proc /\ p \notin Handles
    BY DocsAssumption DEF BaseInv, TypeOK, Procs
<1>1. proc[p].pc \in {"use", "running"}
    BY DEF Dispatch, RunWrites, QueueCommand
<1>2. h # NoHandle
    BY <1>0, <1>1 DEF ProcOK
<1>3. h \in Handles /\ chatOf[h] \in Chats /\ chatOf[h] = proc[p].chat
    BY <1>0, <1>2, InHand
<1>4. ASSUME NEW c \in Commands, QueueCommand(p, c)
      PROVE  BaseInv' /\ \E g, new : WriteStep(p, g, new)
  <2> DEFINE new == {<<"command", c>>}
  <2>1. IdleNow(p)
      BY <1>0, <1>4, IdleMoves
  <2>2. WriteStep(p, h, new)
      BY <1>3, <1>4, <2>1 DEF QueueCommand, IdleNow, WriteStep, Became, HoldsBy, Saving,
         ledgerVars, purgeVars
  <2>3. new \in SUBSET Ops /\ OfChat(new, chatOf[h])
      BY <1>3, <1>4 DEF QueueCommand, Ops, OfChat
  <2>4. ProcOK(p)'
      BY <1>0, <2>1 DEF IdleNow, Became, ProcOK, Saving
  <2>5. StepOf(p) /\ proc'[p].pc # "unborn"
      BY <2>1 DEF IdleNow, Became, StepOf, CallerSteps
  <2>6. armed' = armed /\ queued' \subseteq Commands /\ purges' = purges
      BY <1>0, <1>4 DEF QueueCommand, TypeOK, purgeVars
  <2> HIDE DEF h, new
  <2>7. BaseInv'
      BY <1>0, <2>2, <2>3, <2>4, <2>5, <2>6, WriteBase
  <2> QED
      BY <2>2, <2>7
<1>5. ASSUME Dispatch(p) PROVE BaseInv' /\ \E g, new : WriteStep(p, g, new)
  <2> DEFINE new == {<<"message", p>>}
  <2>1. Goes(p, "running")
      BY <1>0, <1>5, CallerGoes
  <2>2. WriteStep(p, h, new)
      BY <1>3, <1>5, <2>1 DEF Dispatch, Goes, WriteStep, Became, HoldsBy, Saving, ledgerVars,
         purgeVars
  <2>3. new \in SUBSET Ops /\ OfChat(new, chatOf[h])
      BY <1>5 DEF Dispatch, Ops, OfChat
  <2>4. ProcOK(p)'
      BY <1>0, <1>5, <2>1 DEF Dispatch, Goes, Became, ProcOK, Saving
  <2>5. StepOf(p) /\ proc'[p].pc # "unborn"
      BY <2>1 DEF Goes, Became, StepOf, CallerSteps
  <2>6. armed' = armed /\ queued' \subseteq Commands /\ purges' = purges
      BY <1>0, <1>5 DEF Dispatch, TypeOK, purgeVars
  <2> HIDE DEF h, new
  <2>7. BaseInv'
      BY <1>0, <2>2, <2>3, <2>4, <2>5, <2>6, WriteBase
  <2> QED
      BY <2>2, <2>7
<1>6. ASSUME RunWrites(p) PROVE BaseInv' /\ \E g, new : WriteStep(p, g, new)
  <2> DEFINE new == {<<"part", p>>}
  <2>0. proc' = proc /\ chatOf' = chatOf /\ map' = map /\ proc[p].pc = "running"
      BY <1>6 DEF RunWrites
  <2>1. p \in Runners
      BY <1>0, <2>0 DEF ProcOK
  <2>2. WriteStep(p, h, new)
      BY <1>0, <1>3, <1>6, <2>0 DEF RunWrites, WriteStep, Moves, HoldsBy, Saving, ledgerVars,
         purgeVars, TypeOK
  <2>3. new \in SUBSET Ops /\ OfChat(new, chatOf[h])
      BY <2>1 DEF Ops, OfChat
  <2>4. ProcOK(p)'
      BY <1>0, <2>0 DEF ProcOK, Saving
  <2>5. StepOf(p) /\ proc'[p].pc # "unborn"
      BY <2>0 DEF StepOf, CallerSteps
  <2>6. armed' = armed /\ queued' \subseteq Commands /\ purges' = purges
      BY <1>0, <1>6 DEF RunWrites, TypeOK, purgeVars
  <2> HIDE DEF h, new
  <2>7. BaseInv'
      BY <1>0, <2>2, <2>3, <2>4, <2>5, <2>6, WriteBase
  <2> QED
      BY <2>2, <2>7
<1> QED
    BY <1>4, <1>5, <1>6

LEMMA WriterTask ==
    ASSUME BaseInv, NEW h \in Handles, Resolve(h)
    PROVE  BaseInv' /\ \E g, new : WriteStep(h, g, new)
<1> DEFINE c == proc[h].cmd
           new == {<<"outcome", c>>}
<1>0. /\ TypeOK /\ h \in Procs /\ ProcOK(h) /\ proc[h] \in Proc /\ h \notin Callers
      /\ proc[h].pc = "execute"
    BY DocsAssumption DEF BaseInv, TypeOK, Procs, Resolve
<1>1. proc[h].ref = h /\ h # NoHandle
    BY <1>0, DocsAssumption DEF ProcOK
<1>2. chatOf[h] \in Chats
    BY <1>0, <1>1, InHand
<1>3. Became(h, "drain", proc[h].chat, proc[h].ref, proc[h].victim, proc[h].bytes,
             proc[h].todo, NoCommand)
    BY <1>0, DrainMoves
<1>4. \A g \in Handles : HoldsBy(h, g)' => Alive(g)
  <2>1. \A g \in Handles : HoldsBy(h, g)' => HoldsBy(h, g)
      BY <1>0, <1>3 DEF Became, HoldsBy
  <2> QED
      BY <1>0, <2>1, HolderKeepsAlive
<1>5. WriteStep(h, h, new)
    BY <1>0, <1>2, <1>3, <1>4 DEF Resolve, WriteStep, Became, Saving, ledgerVars, purgeVars
<1>6. new \in SUBSET Ops /\ OfChat(new, chatOf[h])
  <2>1. c \in Commands
      BY <1>0 DEF ProcOK, Proc
  <2> QED
      BY <2>1 DEF Ops, OfChat
<1>7. ProcOK(h)'
    BY <1>0, <1>3, <1>5 DEF Became, ProcOK, Saving, WriteStep
<1>8. StepOf(h) /\ proc'[h].pc # "unborn"
    BY <1>0, <1>3 DEF Became, StepOf, TaskSteps
<1>9. armed' = armed /\ queued' \subseteq Commands /\ purges' = purges
    BY <1>0 DEF Resolve, TypeOK, purgeVars
<1> HIDE DEF new, c
<1> QED
    BY <1>0, <1>5, <1>6, <1>7, <1>8, <1>9, WriteBase

-----------------------------------------------------------------------------
(* Steps of the store, the map and the ledger                               *)

LEMMA ClaimBase ==
    ASSUME BaseInv, NEW h \in Handles, Claim(h)
    PROVE  BaseInv' /\ proc[h].cmd \in Commands /\ Goes(h, "execute")
<1>0. /\ TypeOK /\ h \in Procs /\ ProcOK(h) /\ proc[h] \in Proc /\ h \notin Callers
    BY DocsAssumption DEF BaseInv, TypeOK, Procs
<1>1. Goes(h, "execute")
    BY <1>0, TaskGoes
<1>2. proc[h].cmd \in Commands
    BY <1>0 DEF Claim, ProcOK, Proc
<1>3. MapShrinks /\ Moves(h)
    BY <1>0, <1>1 DEF Claim, MapShrinks, TypeOK, Goes, Became
<1>4. RestTyped
    BY <1>0, <1>2 DEF Claim, RestTyped, TypeOK, MarkProcessed, docVars, purgeVars
<1>5. ProcOK(h)'
    BY <1>0, <1>1 DEF Claim, Goes, Became, ProcOK, Saving
<1>6. StepOf(h) /\ proc'[h].pc # "unborn"
    BY <1>0, <1>1 DEF Goes, Became, StepOf, TaskSteps
<1>7. /\ \A c \in Chats : OfChat(snap'[c], c)
      /\ \A g \in Handles : OfChat(replica'[g], chatOf[g])
    BY DEF Claim, docVars, BaseInv, DocumentsOK
<1> QED
    BY <1>0, <1>1, <1>2, <1>3, <1>4, <1>5, <1>6, <1>7, BaseFrame

LEMMA ReceiveBase ==
    ASSUME BaseInv, NEW h \in Handles, NEW c \in Commands, Receive(h, c)
    PROVE  BaseInv'
<1>0. TypeOK /\ h \in Procs /\ ProcOK(h)
    BY DEF BaseInv, Procs
<1>1. MapShrinks /\ Moves(h) /\ StepOf(h) /\ proc' = proc
    BY <1>0, DocsAssumption DEF Receive, MapShrinks, Moves, StepOf, TypeOK
<1>2. {<<"command", c>>} \in SUBSET Ops
    BY DEF Ops
<1>3. RestTyped
    BY <1>0, <1>2 DEF Receive, RestTyped, TypeOK, ledgerVars, purgeVars
<1>4. ProcOK(h)'
    BY <1>0, <1>1 DEF ProcOK, Receive
<1>5. /\ \A d \in Chats : OfChat(snap'[d], d)
      /\ \A g \in Handles : OfChat(replica'[g], chatOf[g])
    BY <1>0 DEF Receive, BaseInv, DocumentsOK, OfChat, TypeOK
<1> QED
    BY <1>0, <1>1, <1>3, <1>4, <1>5, BaseFrame

LEMMA EvictBase ==
    ASSUME BaseInv, NEW p \in Procs, NEW c \in Chats, Evict(p, c)
    PROVE  BaseInv' /\ map[c] \in Handles /\ chatOf[map[c]] = c
<1>0. /\ TypeOK /\ ProcOK(p) /\ DocumentsOK /\ proc[p] \in Proc
      /\ p \in Callers => p \notin Handles
      /\ p \notin Callers => p \in Handles
    BY DocsAssumption DEF BaseInv, TypeOK, Procs
<1>1. map[c] \in Handles /\ map[c] # NoHandle /\ chatOf[map[c]] = c /\ c # NoChat
    BY <1>0, DocsAssumption DEF Evict, TypeOK, DocumentsOK
<1>2. Became(p, "export", proc[p].chat, proc[p].ref, map[c], proc[p].bytes,
             proc[p].todo \ {c}, proc[p].cmd)
    BY <1>0, EvictMoves
<1>3. MapShrinks /\ Moves(p)
    BY <1>0, <1>2 DEF Evict, MapShrinks, TypeOK, Became
<1>4. RestTyped
    BY <1>0 DEF Evict, RestTyped, TypeOK, docVars, ledgerVars, purgeVars
<1>5. ProcOK(p)'
    BY <1>0, <1>1, <1>2 DEF Evict, Became, ProcOK, Saving, TypeOK
<1>6. StepOf(p) /\ proc'[p].pc # "unborn"
    BY <1>2 DEF Became, StepOf, SweepSteps
<1>7. /\ \A d \in Chats : OfChat(snap'[d], d)
      /\ \A g \in Handles : OfChat(replica'[g], chatOf[g])
    BY <1>0 DEF Evict, docVars, DocumentsOK
<1> QED
    BY <1>0, <1>1, <1>3, <1>4, <1>5, <1>6, <1>7, BaseFrame

(* The handle whose document is being saved.                                *)
LEMMA VictimKnown ==
    ASSUME BaseInv, NEW p \in Procs, proc[p].pc \in Saving
    PROVE  proc[p].victim \in Handles /\ chatOf[proc[p].victim] \in Chats
<1>1. ProcOK(p) /\ proc[p] \in Proc
    BY DEF BaseInv, TypeOK
<1>2. proc[p].victim \in Handles
    BY <1>1 DEF ProcOK, Proc
<1> QED
    BY <1>1, <1>2 DEF ProcOK, BaseInv, TypeOK

LEMMA ExportVictimBase ==
    ASSUME BaseInv, NEW p \in Procs, ExportVictim(p)
    PROVE  /\ BaseInv'
           /\ Became(p, "put", proc[p].chat, proc[p].ref, proc[p].victim,
                     replica[proc[p].victim], proc[p].todo, proc[p].cmd)
<1>0. /\ TypeOK /\ ProcOK(p) /\ DocumentsOK /\ proc[p] \in Proc
      /\ p \in Callers => p \notin Handles
      /\ p \notin Callers => p \in Handles
    BY DocsAssumption DEF BaseInv, TypeOK, Procs
<1>1. proc[p].victim \in Handles /\ chatOf[proc[p].victim] \in Chats
    BY VictimKnown DEF ExportVictim, Saving
<1>2. Became(p, "put", proc[p].chat, proc[p].ref, proc[p].victim,
             replica[proc[p].victim], proc[p].todo, proc[p].cmd)
    BY <1>0, <1>1, ExportVictimMoves
<1>3. MapShrinks /\ Moves(p)
    BY <1>0, <1>2 DEF ExportVictim, MapShrinks, TypeOK, Became
<1>4. RestTyped
    BY <1>0, <1>1 DEF ExportVictim, Exports, Race, RestTyped, TypeOK, docVars, ledgerVars,
       purgeVars
<1>5. ProcOK(p)'
    BY <1>0, <1>1, <1>2 DEF ExportVictim, Became, ProcOK, Saving, DocumentsOK, OfChat
<1>6. StepOf(p) /\ proc'[p].pc # "unborn"
    BY <1>2 DEF Became, StepOf, SweepSteps
<1>7. /\ \A d \in Chats : OfChat(snap'[d], d)
      /\ \A g \in Handles : OfChat(replica'[g], chatOf[g])
    BY <1>0 DEF ExportVictim, docVars, DocumentsOK
<1>8. BaseInv'
    BY <1>0, <1>3, <1>4, <1>5, <1>6, <1>7, BaseFrame
<1> QED
    BY <1>2, <1>8

LEMMA DeadlineBase ==
    ASSUME BaseInv, NEW h \in Handles, Deadline(h)
    PROVE  /\ BaseInv' /\ chatOf[h] \in Chats
           /\ Became(h, "store", proc[h].chat, proc[h].ref, h, replica[h], proc[h].todo,
                     proc[h].cmd)
<1>0. /\ TypeOK /\ h \in Procs /\ ProcOK(h) /\ DocumentsOK /\ proc[h] \in Proc
      /\ h \notin Callers /\ h # NoHandle
    BY DocsAssumption DEF BaseInv, TypeOK, Procs
<1>1. proc[h].ref = h /\ chatOf[h] \in Chats
  <2>1. proc[h].ref # NoHandle
      BY <1>0 DEF Deadline, ProcOK
  <2>2. proc[h].ref = h
      BY <1>0, <2>1 DEF ProcOK
  <2> QED
      BY <1>0, <2>1, <2>2, InHand
<1>2. Became(h, "store", proc[h].chat, proc[h].ref, h, replica[h], proc[h].todo, proc[h].cmd)
    BY <1>0, DeadlineMoves
<1>3. MapShrinks /\ Moves(h)
    BY <1>0, <1>2 DEF Deadline, MapShrinks, TypeOK, Became
<1>4. RestTyped
    BY <1>0, <1>1 DEF Deadline, Exports, Race, RestTyped, TypeOK, docVars, ledgerVars, purgeVars
<1>5. ProcOK(h)'
    BY <1>0, <1>1, <1>2, DocsAssumption DEF Deadline, Became, ProcOK, Saving, DocumentsOK, OfChat
<1>6. StepOf(h) /\ proc'[h].pc # "unborn"
    BY <1>0, <1>2 DEF Became, StepOf, TaskSteps
<1>7. /\ \A d \in Chats : OfChat(snap'[d], d)
      /\ \A g \in Handles : OfChat(replica'[g], chatOf[g])
    BY <1>0 DEF Deadline, docVars, DocumentsOK
<1>8. BaseInv'
    BY <1>0, <1>3, <1>4, <1>5, <1>6, <1>7, BaseFrame
<1> QED
    BY <1>1, <1>2, <1>8

(* PutVictim, by whoever evicted, and Saved, by a task.                     *)
StoreStep(p, t) ==
    /\ proc[p].pc \in {"put", "store"}
    /\ Became(p, "sweep", proc[p].chat, proc[p].ref, NoHandle, {}, t, proc[p].cmd)
    /\ snap' = [snap EXCEPT ![chatOf[proc[p].victim]] = proc[p].bytes]
    /\ UNCHANGED <<map, chatOf, docVars, armed, ledgerVars, queued, purgeVars, raced>>

LEMMA StoreMoves ==
    ASSUME BaseInv, NEW p \in Procs, PutVictim(p) \/ (p \in Handles /\ Saved(p))
    PROVE  \E t : StoreStep(p, t)
<1>1. ASSUME PutVictim(p) PROVE \E t : StoreStep(p, t)
  <2>1. Became(p, "sweep", proc[p].chat, proc[p].ref, NoHandle, {}, proc[p].todo, proc[p].cmd)
      BY <1>1, PutVictimMoves DEF BaseInv
  <2>2. StoreStep(p, proc[p].todo)
      BY <1>1, <2>1 DEF PutVictim, Stores, StoreStep
  <2> QED
      BY <2>2
<1>2. ASSUME p \in Handles, Saved(p) PROVE \E t : StoreStep(p, t)
  <2>1. PICK t : Became(p, "sweep", proc[p].chat, proc[p].ref, NoHandle, {}, t, proc[p].cmd)
      BY <1>2, SavedMoves DEF BaseInv
  <2>2. StoreStep(p, t)
      BY <1>2, <2>1 DEF Saved, Stores, StoreStep
  <2> QED
      BY <2>2
<1> QED
    BY <1>1, <1>2

LEMMA StoreBase ==
    ASSUME BaseInv, NEW p \in Procs, NEW t, StoreStep(p, t)
    PROVE  BaseInv'
<1>0. /\ TypeOK /\ ProcOK(p) /\ DocumentsOK /\ proc[p] \in Proc
      /\ p \in Callers => p \notin Handles
      /\ p \notin Callers => p \in Handles
    BY DocsAssumption DEF BaseInv, TypeOK, Procs
<1>1. proc[p].victim \in Handles /\ chatOf[proc[p].victim] \in Chats
    BY VictimKnown DEF StoreStep, Saving
<1>2. MapShrinks /\ Moves(p)
    BY <1>0 DEF StoreStep, MapShrinks, TypeOK, Became
<1>3. RestTyped
  <2>1. proc[p].bytes \in SUBSET Ops
      BY <1>0 DEF Proc
  <2>2. snap' \in [Chats -> SUBSET Ops]
      BY <1>0, <2>1 DEF StoreStep, TypeOK
  <2> QED
      BY <1>0, <2>2 DEF StoreStep, RestTyped, TypeOK, docVars, ledgerVars, purgeVars
<1>4. ProcOK(p)'
    BY <1>0 DEF StoreStep, Became, ProcOK, Saving
<1>5. StepOf(p) /\ proc'[p].pc # "unborn"
    BY DEF StoreStep, Became, StepOf, SweepSteps
<1>6. \A d \in Chats : OfChat(snap'[d], d)
    BY <1>0, <1>1 DEF StoreStep, DocumentsOK, ProcOK, TypeOK
<1>7. \A g \in Handles : OfChat(replica'[g], chatOf[g])
    BY <1>0 DEF StoreStep, docVars, DocumentsOK
<1> QED
    BY <1>2, <1>3, <1>4, <1>5, <1>6, <1>7, BaseFrame

LEMMA PurgeUnmapBase ==
    ASSUME BaseInv, NEW p \in Callers, NEW c \in Chats, PurgeUnmap(p, c)
    PROVE  /\ BaseInv'
           /\ Became(p, "delete", c, proc[p].ref, proc[p].victim, proc[p].bytes, proc[p].todo,
                     proc[p].cmd)
<1>0. /\ TypeOK /\ p \in Procs /\ ProcOK(p) /\ DocumentsOK /\ p \notin Handles
    BY DocsAssumption DEF BaseInv, Procs
<1>1. Became(p, "delete", c, proc[p].ref, proc[p].victim, proc[p].bytes, proc[p].todo,
             proc[p].cmd)
    BY <1>0, PurgeUnmapMoves
<1>2. MapShrinks /\ Moves(p)
    BY <1>0, <1>1 DEF PurgeUnmap, MapShrinks, TypeOK, Became
<1>3. RestTyped
  <2>1. purges' \in 0..MaxPurges
      BY <1>0, DocsAssumption DEF PurgeUnmap, TypeOK
  <2>2. written' \in [Chats -> SUBSET Ops] /\ raced' \subseteq Chats
      BY <1>0 DEF PurgeUnmap, Race, TypeOK
  <2> QED
      BY <1>0, <2>1, <2>2 DEF PurgeUnmap, RestTyped, TypeOK, ledgerVars
<1>4. ProcOK(p)'
    BY <1>0, <1>1, DocsAssumption DEF PurgeUnmap, Became, ProcOK, Saving
<1>5. StepOf(p) /\ proc'[p].pc # "unborn"
    BY <1>1 DEF Became, StepOf, CallerSteps
<1>6. /\ \A d \in Chats : OfChat(snap'[d], d)
      /\ \A g \in Handles : OfChat(replica'[g], chatOf[g])
    BY <1>0 DEF PurgeUnmap, DocumentsOK
<1>7. BaseInv'
    BY <1>0, <1>2, <1>3, <1>4, <1>5, <1>6, BaseFrame
<1> QED
    BY <1>1, <1>7

LEMMA PurgeDeleteBase ==
    ASSUME BaseInv, NEW p \in Callers, PurgeDelete(p)
    PROVE  BaseInv' /\ proc[p].chat \in Chats /\ IdleNow(p)
<1> DEFINE c == proc[p].chat
<1>0. /\ TypeOK /\ p \in Procs /\ ProcOK(p) /\ DocumentsOK /\ proc[p] \in Proc
      /\ p \notin Handles
    BY DocsAssumption DEF BaseInv, TypeOK, Procs
<1>1. IdleNow(p)
    BY <1>0, IdleMoves
<1>2. c \in Chats
    BY <1>0 DEF PurgeDelete, ProcOK, Proc
<1>3. MapShrinks /\ Moves(p)
    BY <1>0, <1>1 DEF PurgeDelete, MapShrinks, TypeOK, IdleNow, Became
<1>4. RestTyped
  <2>1. snap' \in [Chats -> SUBSET Ops] /\ written' \in [Chats -> SUBSET Ops]
      BY <1>0, <1>2 DEF PurgeDelete, DeleteSnapshot, TypeOK
  <2>2. purged' \subseteq Chats /\ raced' \subseteq Chats
      BY <1>0, <1>2 DEF PurgeDelete, Race, TypeOK
  <2> QED
      BY <1>0, <2>1, <2>2 DEF PurgeDelete, RestTyped, TypeOK, ledgerVars
<1>5. ProcOK(p)'
    BY <1>0, <1>1 DEF IdleNow, Became, ProcOK, Saving
<1>6. StepOf(p) /\ proc'[p].pc # "unborn"
    BY <1>1 DEF IdleNow, Became, StepOf, CallerSteps
<1>7. /\ \A d \in Chats : OfChat(snap'[d], d)
      /\ \A g \in Handles : OfChat(replica'[g], chatOf[g])
    BY <1>0, <1>2 DEF PurgeDelete, DeleteSnapshot, DocumentsOK, OfChat, TypeOK
<1> QED
    BY <1>0, <1>1, <1>2, <1>3, <1>4, <1>5, <1>6, <1>7, BaseFrame

LEMMA InsertBase ==
    ASSUME BaseInv, NEW p \in Callers, NEW h \in Handles, Insert(p, h)
    PROVE  /\ BaseInv' /\ proc[p].chat \in Chats /\ chatOf[h] = NoChat
           /\ h # NoHandle /\ p # h
<1> DEFINE c == proc[p].chat
<1>0. /\ TypeOK /\ p \in Procs /\ h \in Procs /\ ProcOK(p) /\ DocumentsOK /\ proc[p] \in Proc
      /\ p \notin Handles /\ p # h /\ h # NoHandle /\ h \notin Callers
    BY DocsAssumption DEF BaseInv, TypeOK, Procs
<1>1. c \in Chats /\ c # NoChat
    BY <1>0, DocsAssumption DEF Insert, ProcOK, Proc
<1>2. /\ proc' \in [Procs -> Proc]
      /\ \A q \in Procs \ {p, h} : proc'[q] = proc[q]
      /\ proc'[p].pc = "sweep" /\ proc'[p].chat = c /\ proc'[p].ref = h
      /\ proc'[h].pc = "boot" /\ proc'[h].chat = c /\ proc'[h].ref = h
    BY <1>0, <1>1, InsertMoves
<1>3. /\ map[c] = NoHandle /\ map' = [map EXCEPT ![c] = h]
      /\ chatOf' = [chatOf EXCEPT ![h] = c]
      /\ replica' = [replica EXCEPT ![h] = proc[p].bytes]
      /\ snap' = snap /\ chatOf[h] = NoChat /\ proc[p].bytes \in SUBSET Ops
    BY <1>0 DEF Insert, DocumentsOK, Proc
<1> HIDE DEF c
<1>4. TypeOK'
  <2>1. \A q \in Callers : proc'[q].pc \in CallerSteps \cup SweepSteps
      BY <1>0, <1>2, DocsAssumption DEF TypeOK, SweepSteps, Procs
  <2>2. \A g \in Handles : proc'[g].pc \in TaskSteps \cup SweepSteps
      BY <1>0, <1>2, DocsAssumption DEF TypeOK, TaskSteps, Procs
  <2>3. purged' \subseteq Chats /\ raced' \subseteq Chats
      BY <1>0, <1>1 DEF Insert, Race, TypeOK, c
  <2>4. /\ woken' \subseteq Handles /\ armed' \subseteq Handles
        /\ ledger' \subseteq Commands /\ queued' \subseteq Commands
        /\ taken' \in [Commands -> Nat]
        /\ written' \in [Chats -> SUBSET Ops]
        /\ purges' \in 0..MaxPurges
      BY <1>0 DEF Insert, TypeOK, ledgerVars
  <2>5. /\ map' \in [Chats -> Handles \cup {NoHandle}]
        /\ chatOf' \in [Handles -> Chats \cup {NoChat}]
        /\ replica' \in [Handles -> SUBSET Ops]
        /\ snap' \in [Chats -> SUBSET Ops]
      BY <1>0, <1>1, <1>3 DEF TypeOK
  <2> QED
      BY <1>2, <2>1, <2>2, <2>3, <2>4, <2>5 DEF TypeOK
<1>5. ASSUME NEW q \in Procs PROVE ProcOK(q)'
  <2>1. CASE q = p
      BY <2>1, <1>0, <1>1, <1>2, <1>3 DEF ProcOK, Saving, TypeOK
  <2>2. CASE q = h
      BY <2>2, <1>0, <1>1, <1>2, <1>3 DEF ProcOK, Saving, TypeOK
  <2>3. CASE q # p /\ q # h
    <3>1. proc'[q] = proc[q] /\ ProcOK(q) /\ proc[q] \in Proc
        BY <2>3, <1>2 DEF BaseInv, TypeOK
    <3>2. proc[q].ref # NoHandle => proc[q].ref # h /\ chatOf'[proc[q].ref] = chatOf[proc[q].ref]
        BY <3>1, <1>0, <1>3 DEF ProcOK, Proc, TypeOK
    <3>3. proc[q].pc \in Saving =>
              /\ proc[q].victim # h /\ chatOf'[proc[q].victim] = chatOf[proc[q].victim]
              /\ chatOf[proc[q].victim] \in Chats
        BY <3>1, <1>0, <1>3 DEF ProcOK, Proc, TypeOK
    <3>4. proc[q].pc \in Saving => map'[chatOf[proc[q].victim]] \in {map[chatOf[proc[q].victim]], h}
        BY <3>3, <1>0, <1>3 DEF TypeOK
    <3> QED
        BY <3>1, <3>2, <3>3, <3>4 DEF ProcOK, Saving
  <2> QED
      BY <2>1, <2>2, <2>3
<1>6. DocumentsOK'
  <2>1. \A g \in Handles : proc'[g].pc = "unborn" => chatOf'[g] = NoChat
      BY <1>0, <1>2, <1>3, DocsAssumption DEF DocumentsOK, Procs, TypeOK
  <2>2. \A d \in Chats : map'[d] # NoHandle => chatOf'[map'[d]] = d
      BY <1>0, <1>1, <1>3, DocsAssumption DEF DocumentsOK, TypeOK
  <2>3. OfChat(proc[p].bytes, c)
      BY <1>0 DEF Insert, ProcOK, c
  <2>4. \A g \in Handles : OfChat(replica'[g], chatOf'[g])
      BY <1>0, <1>3, <2>3 DEF DocumentsOK, TypeOK
  <2> QED
      BY <1>0, <1>3, <2>1, <2>2, <2>4 DEF DocumentsOK
<1> QED
    BY <1>0, <1>1, <1>3, <1>4, <1>5, <1>6 DEF BaseInv, c

LEMMA InitBase ==
    ASSUME Init
    PROVE  BaseInv
<1>1. \A p \in Procs : /\ proc[p] \in Proc
                       /\ proc[p].pc = IF p \in Callers THEN "off" ELSE "unborn"
                       /\ proc[p].ref = NoHandle /\ proc[p].chat = NoChat
  <2>1. Idle \in Proc
      BY DEF Idle, Proc, CallerSteps
  <2>2. \A s \in {"off", "unborn"} : [Idle EXCEPT !.pc = s] \in Proc
    <3>1. \A s \in {"off", "unborn"} : s \in CallerSteps \cup TaskSteps \cup SweepSteps
        BY DEF CallerSteps, TaskSteps
    <3> QED
        BY <2>1, <3>1, Zenon DEF Proc
  <2> QED
      BY <2>2 DEF Init, Idle
<1>2. proc \in [Procs -> Proc]
    BY <1>1 DEF Init
<1>3. TypeOK
  <2>1. /\ \A p \in Callers : proc[p].pc \in CallerSteps \cup SweepSteps
        /\ \A h \in Handles : proc[h].pc \in TaskSteps \cup SweepSteps
      BY <1>1, DocsAssumption DEF Procs, CallerSteps, TaskSteps
  <2>2. 0 \in 0..MaxPurges /\ 0 \in Nat
      BY DocsAssumption
  <2> QED
      BY <1>2, <2>1, <2>2 DEF Init, TypeOK
<1>4. \A p \in Procs : ProcOK(p)
    BY <1>1, DocsAssumption DEF ProcOK, Saving, Procs
<1>5. DocumentsOK
    BY DEF Init, DocumentsOK, OfChat
<1> QED
    BY <1>3, <1>4, <1>5 DEF BaseInv

-----------------------------------------------------------------------------
(* The chats that are not raced                                             *)

Savers(x) == {p \in Procs : proc[p].pc \in {"put", "store"} /\ chatOf[proc[p].victim] = x}
Exporting(x) == {p \in Procs : proc[p].pc = "export" /\ chatOf[proc[p].victim] = x}
Putting(x) == {p \in Savers(x) : proc[p].pc = "put"}

(* At most one handle of x is alive, it has all that was written to x, and  *)
(* at most one save of x is under way.                                      *)
One(x) == \A g, h \in Handles : Alive(g) /\ Alive(h) /\ chatOf[g] = x /\ chatOf[h] = x => g = h
Whole(x) == \A h \in Handles : Alive(h) /\ chatOf[h] = x => written[x] \subseteq replica[h]
OneSaver(x) == \A p, q \in Savers(x) : p = q

(* Once x is out of the map and its victim exported, the bytes on their way *)
(* and then the row in the store have all that was written.                 *)
Backed(x) ==
    map[x] = NoHandle /\ Exporting(x) = {} =>
        /\ \A p \in Savers(x) : written[x] \subseteq proc[p].bytes
        /\ Putting(x) = {} => written[x] \subseteq snap[x]

Gone(x) == x \in purged => /\ snap[x] = {}
                           /\ \A h \in Handles : chatOf[h] = x => ~Alive(h)

(* A command is taken once: between the look at the ledger and the mark no  *)
(* other task of the chat is awake.                                         *)
Once(x) ==
    \A c \in Commands : ChatOf[c] = x =>
        /\ taken[c] <= 1 /\ (taken[c] = 1 => c \in ledger)
        /\ \A h \in Handles : proc[h].pc = "claim" /\ proc[h].cmd = c => c \notin ledger

LocalInv(x) == One(x) /\ Whole(x) /\ OneSaver(x) /\ Backed(x) /\ Gone(x) /\ Once(x)
DocsInv == \A x \in Chats \ raced : LocalInv(x)
(* A handle lives on in hands that had it, or came by it alive.             *)
LEMMA NoneRevived ==
    ASSUME BaseInv, NEW p \in Procs, Moves(p), MapShrinks,
           \A h \in Handles : HoldsBy(p, h)' => Alive(h)
    PROVE  \A h \in Handles : Alive(h)' => Alive(h)
<1> SUFFICES ASSUME NEW h \in Handles, Alive(h)' PROVE Alive(h)
    OBVIOUS
<1>1. CASE \E q \in Procs : HoldsBy(q, h)'
  <2>1. PICK q \in Procs : HoldsBy(q, h)'
      BY <1>1
  <2>2. CASE q = p
      BY <2>1, <2>2
  <2>3. CASE q # p
    <3>1. HoldsBy(q, h)
        BY <2>1, <2>3 DEF Moves, HoldsBy
    <3> QED
        BY <3>1, HolderKeepsAlive
  <2> QED
      BY <2>2, <2>3
<1>2. CASE \E c \in Chats : map'[c] = h
    BY <1>2, DocsAssumption DEF MapShrinks, Alive
<1> QED
    BY <1>1, <1>2 DEF Alive, Held

(* p neither begins nor ends a save.                                        *)
LEMMA SavesKept ==
    ASSUME NEW p \in Procs, Moves(p), chatOf' = chatOf,
           proc[p].pc \notin Saving, proc'[p].pc \notin Saving, NEW x
    PROVE  Savers(x)' = Savers(x) /\ Exporting(x)' = Exporting(x) /\ Putting(x)' = Putting(x)
<1>1. \A q \in Procs : \/ proc'[q] = proc[q]
                       \/ q = p
    BY DEF Moves
<1> QED
    BY <1>1 DEF Savers, Exporting, Putting, Saving

LEMMA QuietLocal ==
    ASSUME BaseInv, NEW p \in Procs, QuietStep(p), NEW x \in Chats, LocalInv(x)
    PROVE  LocalInv(x)'
<1>1. \A h \in Handles : Alive(h)' => Alive(h)
    BY NoneRevived DEF QuietStep, MapShrinks, BaseInv, TypeOK
<1>2. Savers(x)' = Savers(x) /\ Exporting(x)' = Exporting(x) /\ Putting(x)' = Putting(x)
    BY SavesKept DEF QuietStep
<1>3. \A q \in Procs : \/ proc'[q] = proc[q]
                       \/ q = p
    BY DEF QuietStep, Moves
<1>4. One(x)' /\ Whole(x)' /\ Gone(x)'
    BY <1>1 DEF QuietStep, LocalInv, One, Whole, Gone
<1>5. OneSaver(x)'
    BY <1>2 DEF LocalInv, OneSaver
<1>6. Backed(x)'
    BY <1>2, <1>3 DEF LocalInv, Backed, QuietStep, Savers, Saving
<1>7. Once(x)'
    BY <1>3 DEF LocalInv, Once, QuietStep, Procs
<1> QED
    BY <1>4, <1>5, <1>6, <1>7 DEF LocalInv

(* A write lands in the mapped handle of its chat, or the chat is raced.    *)
LEMMA WriteLocal ==
    ASSUME BaseInv, NEW p \in Procs, NEW h, NEW new, WriteStep(p, h, new),
           NEW x \in Chats \ raced', LocalInv(x)
    PROVE  LocalInv(x)'
<1>0. TypeOK /\ h \in Handles /\ chatOf[h] \in Chats
    BY DEF BaseInv, WriteStep
<1>1. \A g \in Handles : Alive(g)' => Alive(g)
    BY NoneRevived DEF WriteStep, MapShrinks, BaseInv, TypeOK
<1>2. Savers(x)' = Savers(x) /\ Exporting(x)' = Exporting(x) /\ Putting(x)' = Putting(x)
    BY SavesKept DEF WriteStep
<1>3. \A q \in Procs : \/ proc'[q] = proc[q]
                       \/ q = p
    BY DEF WriteStep, Moves
<1>4. /\ replica' = [replica EXCEPT ![h] = @ \cup new]
      /\ written' = [written EXCEPT ![chatOf[h]] = @ \cup new]
      /\ map' = map /\ chatOf' = chatOf /\ snap' = snap /\ purged' = purged
      /\ ledger' = ledger /\ taken' = taken
      /\ chatOf[h] = x => map[x] = h
    BY DEF WriteStep, WriteTo, Race
<1>5. One(x)' /\ Gone(x)'
    BY <1>1, <1>4 DEF LocalInv, One, Gone
<1>6. OneSaver(x)'
    BY <1>2 DEF LocalInv, OneSaver
<1>7. Once(x)'
    BY <1>3, <1>4 DEF LocalInv, Once, WriteStep, Procs
<1>8. Whole(x)' /\ Backed(x)'
  <2>1. CASE chatOf[h] = x
    <3>1. Alive(h)
        BY <1>4, <2>1 DEF Alive
    <3>2. Whole(x)'
        BY <1>0, <1>1, <1>4, <2>1, <3>1 DEF LocalInv, One, Whole, TypeOK
    <3> QED
        BY <1>0, <1>4, <2>1, <3>2, DocsAssumption DEF Backed
  <2>2. CASE chatOf[h] # x
    <3>1. written'[x] = written[x]
        BY <1>0, <1>4, <2>2 DEF TypeOK
    <3>2. Whole(x)'
        BY <1>0, <1>1, <1>4, <2>2, <3>1 DEF LocalInv, Whole, TypeOK
    <3>3. Backed(x)'
        BY <1>2, <1>3, <1>4, <3>1 DEF LocalInv, Backed, WriteStep, Savers, Saving
    <3> QED
        BY <3>2, <3>3
  <2> QED
      BY <2>1, <2>2
<1> QED
    BY <1>5, <1>6, <1>7, <1>8 DEF LocalInv

LEMMA ReceiveLocal ==
    ASSUME BaseInv, NEW h \in Handles, NEW c \in Commands, Receive(h, c),
           NEW x \in Chats, LocalInv(x)
    PROVE  LocalInv(x)'
<1>1. /\ proc' = proc /\ map' = map /\ chatOf' = chatOf /\ snap' = snap /\ purged' = purged
      /\ ledger' = ledger /\ taken' = taken /\ written' = written
      /\ \A g \in Handles : replica[g] \subseteq replica'[g]
    BY DEF Receive, ledgerVars, purgeVars, BaseInv, TypeOK
<1>2. \A g \in Handles : Alive(g)' = Alive(g)
    BY <1>1 DEF Alive, Held, HoldsBy
<1>3. Savers(x)' = Savers(x) /\ Exporting(x)' = Exporting(x) /\ Putting(x)' = Putting(x)
    BY <1>1 DEF Savers, Exporting, Putting
<1>4. One(x)' /\ Whole(x)' /\ Gone(x)'
    BY <1>1, <1>2 DEF LocalInv, One, Whole, Gone
<1>5. OneSaver(x)' /\ Backed(x)' /\ Once(x)'
    BY <1>1, <1>3 DEF LocalInv, OneSaver, Backed, Once
<1> QED
    BY <1>4, <1>5 DEF LocalInv

(* Whoever is between the look and the mark holds the one living handle.    *)
LEMMA ClaimLocal ==
    ASSUME BaseInv, NEW h \in Handles, Claim(h), NEW x \in Chats, LocalInv(x)
    PROVE  LocalInv(x)'
<1> DEFINE c == proc[h].cmd
<1>0. /\ TypeOK /\ h \in Procs /\ c \in Commands /\ Goes(h, "execute")
      /\ proc[h].pc = "claim"
    BY ClaimBase DEF BaseInv, Procs, Claim
<1>1. \A q \in Procs : \/ proc'[q] = proc[q]
                       \/ q = h
    BY <1>0 DEF Goes, Became, Moves
<1>2. /\ map' = map /\ chatOf' = chatOf /\ replica' = replica /\ written' = written
      /\ snap' = snap /\ purged' = purged /\ ledger' = ledger \cup {c}
      /\ taken' = [taken EXCEPT ![c] = @ + 1]
    BY DEF Claim, MarkProcessed, docVars, purgeVars
<1>3. \A g \in Handles : Alive(g)' => Alive(g)
  <2>1. \A g \in Handles : HoldsBy(h, g)' => HoldsBy(h, g)
      BY <1>0 DEF Goes, Became, HoldsBy
  <2> QED
      BY <1>0, <1>2, <2>1, HolderKeepsAlive, NoneRevived
      DEF Goes, Became, MapShrinks, TypeOK
<1>4. Savers(x)' = Savers(x) /\ Exporting(x)' = Exporting(x) /\ Putting(x)' = Putting(x)
    BY <1>0, <1>2, SavesKept DEF Goes, Became, Saving
<1>5. One(x)' /\ Whole(x)' /\ Gone(x)'
    BY <1>2, <1>3 DEF LocalInv, One, Whole, Gone
<1>6. OneSaver(x)' /\ Backed(x)'
  <2>1. \A q \in Savers(x) : proc'[q] = proc[q]
      BY <1>0, <1>1 DEF Savers
  <2> QED
      BY <1>2, <1>4, <2>1 DEF LocalInv, OneSaver, Backed
<1>7. Once(x)'
  <2> SUFFICES ASSUME NEW d \in Commands, ChatOf[d] = x
               PROVE  /\ taken'[d] <= 1 /\ (taken'[d] = 1 => d \in ledger')
                      /\ \A g \in Handles : proc'[g].pc = "claim" /\ proc'[g].cmd = d
                                                => d \notin ledger'
      BY DEF Once
  <2>1. /\ taken[d] <= 1 /\ (taken[d] = 1 => d \in ledger) /\ taken[d] \in Nat
        /\ \A g \in Handles : proc[g].pc = "claim" /\ proc[g].cmd = d => d \notin ledger
      BY <1>0 DEF LocalInv, Once, TypeOK
  <2>2. \A g \in Handles : proc'[g].pc = "claim" => g # h /\ proc[g] = proc'[g]
      BY <1>0, <1>1 DEF Goes, Became, Procs
  <2>3. CASE d # c
      BY <1>0, <1>2, <2>1, <2>2, <2>3 DEF TypeOK
  <2>4. CASE d = c
    <3>1. taken'[d] = 1
        BY <1>0, <1>2, <2>1, <2>4 DEF TypeOK
    <3>2. ASSUME NEW g \in Handles, proc[g].pc = "claim", proc[g].cmd = d PROVE g = h
      <4>1. \A k \in {g, h} : Alive(k) /\ chatOf[k] = x
        <5> SUFFICES ASSUME NEW k \in {g, h} PROVE Alive(k) /\ chatOf[k] = x
            OBVIOUS
        <5>1. k \in Procs /\ k \in Handles /\ ProcOK(k) /\ proc[k].pc = "claim" /\ proc[k].cmd = d
            BY <1>0, <2>4, <3>2 DEF BaseInv, Procs
        <5>2. proc[k].ref = k /\ k # NoHandle /\ proc[k].chat = x
            BY <5>1, DocsAssumption DEF ProcOK
        <5>3. chatOf[k] = x /\ HoldsBy(k, k)
            BY <5>1, <5>2 DEF ProcOK, HoldsBy
        <5> QED
            BY <5>1, <5>3, HolderKeepsAlive
      <4> QED
          BY <3>2, <4>1 DEF LocalInv, One
    <3> QED
        BY <1>2, <2>2, <2>4, <3>1, <3>2
  <2> QED
      BY <2>3, <2>4
<1> QED
    BY <1>5, <1>6, <1>7 DEF LocalInv

LEMMA EvictLocal ==
    ASSUME BaseInv, NEW p \in Procs, NEW c \in Chats, Evict(p, c), NEW x \in Chats, LocalInv(x)
    PROVE  LocalInv(x)'
<1>0. /\ TypeOK /\ map[c] \in Handles /\ chatOf[map[c]] = c /\ proc[p].pc = "sweep"
      /\ map[c] # NoHandle
      /\ Became(p, "export", proc[p].chat, proc[p].ref, map[c], proc[p].bytes,
                proc[p].todo \ {c}, proc[p].cmd)
    BY EvictBase, EvictMoves DEF BaseInv, Evict
<1>1. \A q \in Procs : \/ proc'[q] = proc[q]
                       \/ q = p
    BY <1>0 DEF Became, Moves
<1>2. /\ map' = [map EXCEPT ![c] = NoHandle] /\ chatOf' = chatOf /\ replica' = replica
      /\ written' = written /\ snap' = snap /\ purged' = purged /\ ledger' = ledger
      /\ taken' = taken
    BY DEF Evict, docVars, purgeVars, ledgerVars
<1>3. \A g \in Handles : Alive(g)' => Alive(g)
  <2>1. \A g \in Handles : HoldsBy(p, g)' => HoldsBy(p, g) \/ g = map[c]
      BY <1>0 DEF Became, HoldsBy
  <2>2. \A g \in Handles : HoldsBy(p, g)' => Alive(g)
      BY <2>1, HolderKeepsAlive DEF Alive
  <2>3. Moves(p) /\ MapShrinks
      BY <1>0, <1>2 DEF Became, MapShrinks, TypeOK
  <2> QED
      BY <2>2, <2>3, NoneRevived
<1>4. Savers(x)' = Savers(x) /\ Putting(x)' = Putting(x)
    BY <1>0, <1>1, <1>2 DEF Became, Savers, Putting
<1>5. One(x)' /\ Whole(x)' /\ Gone(x)'
    BY <1>2, <1>3 DEF LocalInv, One, Whole, Gone
<1>6. OneSaver(x)'
    BY <1>4 DEF LocalInv, OneSaver
<1>7. Once(x)'
    BY <1>0, <1>1, <1>2 DEF LocalInv, Once, Became, Procs
<1>8. Backed(x)'
  <2>1. CASE x = c
    <3>1. p \in Exporting(x)'
        BY <1>0, <1>2, <2>1 DEF Exporting, Became
    <3> QED
        BY <3>1 DEF Backed
  <2>2. CASE x # c
    <3>1. map'[x] = map[x] /\ Exporting(x)' = Exporting(x)
        BY <1>0, <1>1, <1>2, <2>2 DEF Exporting, Became, TypeOK
    <3>2. \A q \in Savers(x) : proc'[q] = proc[q]
        BY <1>0, <1>1 DEF Savers
    <3> QED
        BY <1>2, <1>4, <3>1, <3>2 DEF LocalInv, Backed
  <2> QED
      BY <2>1, <2>2
<1> QED
    BY <1>5, <1>6, <1>7, <1>8 DEF LocalInv

(* A step that hands the document of v, which is alive, to the store.       *)
ExportStep(p, v, s) ==
    /\ v \in Handles /\ chatOf[v] \in Chats /\ Alive(v)
    /\ s \in {"put", "store"}
    /\ \/ proc[p].pc = "export" /\ proc[p].victim = v /\ s = "put"
       \/ proc[p].pc = "wait" /\ s = "store"
    /\ Became(p, s, proc[p].chat, proc[p].ref, v, replica[v], proc[p].todo, proc[p].cmd)
    /\ \A h \in Handles : HoldsBy(p, h)' => Alive(h)
    /\ Race(chatOf[v], SaveUnderWay(chatOf[v], p))
    /\ UNCHANGED <<map, chatOf, docVars, snap, ledgerVars, purgeVars>>

LEMMA ExportLocal ==
    ASSUME BaseInv, NEW p \in Procs, NEW v, NEW s, ExportStep(p, v, s),
           NEW x \in Chats \ raced', LocalInv(x)
    PROVE  LocalInv(x)'
<1>0. /\ TypeOK /\ v \in Handles /\ Alive(v) /\ s \in {"put", "store"}
      /\ \/ proc[p].pc = "export" /\ proc[p].victim = v /\ s = "put"
         \/ proc[p].pc = "wait" /\ s = "store"
      /\ proc'[p].pc = s /\ proc'[p].victim = v /\ proc'[p].bytes = replica[v]
    BY DEF BaseInv, ExportStep, Became
<1>1. \A q \in Procs : \/ proc'[q] = proc[q]
                       \/ q = p
    BY DEF ExportStep, Became, Moves
<1>2. /\ map' = map /\ chatOf' = chatOf /\ replica' = replica /\ written' = written
      /\ snap' = snap /\ purged' = purged /\ ledger' = ledger /\ taken' = taken
    BY DEF ExportStep, docVars, purgeVars, ledgerVars
<1>3. \A g \in Handles : Alive(g)' => Alive(g)
    BY <1>0, <1>2, NoneRevived DEF ExportStep, Became, MapShrinks, TypeOK
<1>4. One(x)' /\ Whole(x)' /\ Gone(x)'
    BY <1>2, <1>3 DEF LocalInv, One, Whole, Gone
<1>5. Once(x)'
    BY <1>0, <1>1, <1>2 DEF LocalInv, Once, Procs
<1>6. OneSaver(x)' /\ Backed(x)'
  <2>1. CASE chatOf[v] = x
    <3>1. \A q \in Procs \ {p} : ~(proc[q].pc \in {"put", "store"} /\ chatOf[proc[q].victim] = x)
        BY <2>1 DEF ExportStep, Race, SaveUnderWay
    <3>2. Savers(x)' = {p}
        BY <1>0, <1>1, <1>2, <2>1, <3>1 DEF Savers
    <3>3. written[x] \subseteq replica[v]
        BY <1>0, <2>1 DEF LocalInv, Whole
    <3>4. Putting(x)' = {} => Putting(x) = {} /\ Exporting(x) = Exporting(x)'
      <4>1. Putting(x)' = {} => s = "store" /\ proc[p].pc = "wait"
          BY <1>0, <3>2 DEF Putting
      <4>2. proc[p].pc = "wait" => p \notin Putting(x)
          BY DEF Putting
      <4>3. \A q \in Procs \ {p} : q \notin Putting(x)
          BY <3>1 DEF Putting, Savers
      <4>4. Putting(x) \subseteq Procs
          BY DEF Putting, Savers
      <4>5. proc[p].pc = "wait" => Exporting(x)' = Exporting(x)
          BY <1>0, <1>1, <1>2 DEF Exporting
      <4> QED
          BY <4>1, <4>2, <4>3, <4>4, <4>5
    <3> QED
        BY <1>0, <1>2, <3>2, <3>3, <3>4 DEF LocalInv, OneSaver, Backed
  <2>2. CASE chatOf[v] # x
    <3>1. /\ Savers(x)' = Savers(x) /\ Putting(x)' = Putting(x)
          /\ Exporting(x)' = Exporting(x)
        BY <1>0, <1>1, <1>2, <2>2 DEF Savers, Putting, Exporting
    <3>2. \A q \in Savers(x) : proc'[q] = proc[q]
      <4>1. p \notin Savers(x)
          BY <1>0 DEF Savers
      <4> QED
          BY <1>1, <4>1 DEF Savers
    <3> QED
        BY <1>2, <3>1, <3>2 DEF LocalInv, OneSaver, Backed
  <2> QED
      BY <2>1, <2>2
<1> QED
    BY <1>4, <1>5, <1>6 DEF LocalInv

LEMMA Exported ==
    ASSUME BaseInv
    PROVE  /\ \A p \in Procs : ExportVictim(p) => ExportStep(p, proc[p].victim, "put")
           /\ \A h \in Handles : Deadline(h) => ExportStep(h, h, "store")
<1>1. ASSUME NEW p \in Procs, ExportVictim(p) PROVE ExportStep(p, proc[p].victim, "put")
  <2> DEFINE v == proc[p].victim
  <2>1. v \in Handles /\ chatOf[v] \in Chats /\ proc[p].pc = "export"
      BY <1>1, VictimKnown DEF ExportVictim, Saving
  <2>2. Became(p, "put", proc[p].chat, proc[p].ref, v, replica[v], proc[p].todo, proc[p].cmd)
      BY <1>1, ExportVictimBase
  <2>3. \A h \in Handles : HoldsBy(p, h)' => HoldsBy(p, h)
      BY <2>1, <2>2 DEF Became, HoldsBy
  <2>4. Alive(v) /\ \A h \in Handles : HoldsBy(p, h)' => Alive(h)
    <3>1. HoldsBy(p, v)
        BY <2>1 DEF HoldsBy
    <3> QED
        BY <2>1, <2>3, <3>1, HolderKeepsAlive
  <2>5. /\ Race(chatOf[v], SaveUnderWay(chatOf[v], p))
        /\ UNCHANGED <<map, chatOf, docVars, snap, ledgerVars, purgeVars>>
      BY <1>1 DEF ExportVictim, Exports
  <2> QED
      BY <2>1, <2>2, <2>4, <2>5 DEF ExportStep
<1>2. ASSUME NEW h \in Handles, Deadline(h) PROVE ExportStep(h, h, "store")
  <2>1. /\ chatOf[h] \in Chats
        /\ Became(h, "store", proc[h].chat, proc[h].ref, h, replica[h], proc[h].todo, proc[h].cmd)
      BY <1>2, DeadlineBase
  <2>2. ProcOK(h) /\ h # NoHandle /\ Alive(h) /\ proc[h].pc = "wait"
      BY <1>2, DocsAssumption DEF BaseInv, Procs, Deadline
  <2>3. \A g \in Handles : HoldsBy(h, g)' => g = h
      BY <2>1, <2>2, DocsAssumption DEF Became, HoldsBy, ProcOK
  <2>4. /\ Race(chatOf[h], SaveUnderWay(chatOf[h], h))
        /\ UNCHANGED <<map, chatOf, docVars, snap, ledgerVars, purgeVars>>
      BY <1>2 DEF Deadline, Exports
  <2> QED
      BY <2>1, <2>2, <2>3, <2>4 DEF ExportStep
<1> QED
    BY <1>1, <1>2

LEMMA StoreLocal ==
    ASSUME BaseInv, NEW p \in Procs, NEW t, StoreStep(p, t), NEW x \in Chats, LocalInv(x)
    PROVE  LocalInv(x)'
<1> DEFINE v == proc[p].victim
<1>0. /\ TypeOK /\ v \in Handles /\ chatOf[v] \in Chats /\ proc[p].pc \in {"put", "store"}
      /\ proc'[p].pc = "sweep"
    BY VictimKnown DEF BaseInv, StoreStep, Saving, Became
<1>1. \A q \in Procs : \/ proc'[q] = proc[q]
                       \/ q = p
    BY DEF StoreStep, Became, Moves
<1>2. /\ map' = map /\ chatOf' = chatOf /\ replica' = replica /\ written' = written
      /\ purged' = purged /\ ledger' = ledger /\ taken' = taken
      /\ snap' = [snap EXCEPT ![chatOf[v]] = proc[p].bytes]
    BY DEF StoreStep, docVars, purgeVars, ledgerVars
<1>3. \A g \in Handles : Alive(g)' => Alive(g)
  <2>1. \A g \in Handles : HoldsBy(p, g)' => HoldsBy(p, g)
      BY <1>0 DEF StoreStep, Became, HoldsBy
  <2>2. Moves(p) /\ MapShrinks
      BY <1>0, <1>2 DEF StoreStep, Became, MapShrinks, TypeOK
  <2> QED
      BY <2>1, <2>2, HolderKeepsAlive, NoneRevived
<1>4. Alive(v)
  <2>1. HoldsBy(p, v)
      BY <1>0 DEF HoldsBy
  <2> QED
      BY <1>0, <2>1, HolderKeepsAlive
<1>5. One(x)' /\ Whole(x)' /\ Once(x)'
    BY <1>0, <1>1, <1>2, <1>3 DEF LocalInv, One, Whole, Once, Procs
<1>6. Exporting(x)' = Exporting(x) /\ Savers(x)' = Savers(x) \ {p}
      /\ Putting(x)' = Putting(x) \ {p}
    BY <1>0, <1>1, <1>2 DEF Exporting, Savers, Putting
<1>7. OneSaver(x)'
    BY <1>6 DEF LocalInv, OneSaver
<1>8. Gone(x)' /\ Backed(x)'
  <2>1. CASE chatOf[v] = x
    <3>1. p \in Savers(x) /\ snap'[x] = proc[p].bytes
        BY <1>0, <1>2, <2>1 DEF Savers, TypeOK
    <3>2. Savers(x)' = {}
        BY <1>6, <3>1 DEF LocalInv, OneSaver
    <3>3. x \notin purged'
        BY <1>0, <1>2, <1>4, <2>1 DEF LocalInv, Gone
    <3> QED
        BY <1>2, <1>6, <3>1, <3>2, <3>3 DEF LocalInv, Backed, Gone
  <2>2. CASE chatOf[v] # x
    <3>1. p \notin Savers(x) /\ snap'[x] = snap[x]
        BY <1>0, <1>2, <2>2 DEF Savers, TypeOK
    <3>2. \A q \in Savers(x) : proc'[q] = proc[q]
        BY <1>1, <3>1 DEF Savers
    <3>3. Savers(x)' = Savers(x) /\ Putting(x)' = Putting(x)
        BY <1>6, <3>1 DEF Putting
    <3> QED
        BY <1>2, <1>3, <1>6, <3>1, <3>2, <3>3 DEF LocalInv, Backed, Gone
  <2> QED
      BY <2>1, <2>2
<1> QED
    BY <1>5, <1>7, <1>8 DEF LocalInv

LEMMA PurgeUnmapLocal ==
    ASSUME BaseInv, NEW p \in Callers, NEW c \in Chats, PurgeUnmap(p, c),
           NEW x \in Chats, LocalInv(x)
    PROVE  LocalInv(x)'
<1>0. /\ TypeOK /\ p \in Procs /\ proc[p].pc = "off"
      /\ Became(p, "delete", c, proc[p].ref, proc[p].victim, proc[p].bytes, proc[p].todo,
                proc[p].cmd)
    BY PurgeUnmapBase DEF BaseInv, Procs, PurgeUnmap
<1>1. \A q \in Procs : \/ proc'[q] = proc[q]
                       \/ q = p
    BY <1>0 DEF Became, Moves
<1>2. /\ map' = [map EXCEPT ![c] = NoHandle] /\ chatOf' = chatOf /\ replica' = replica
      /\ written' = [written EXCEPT ![c] = {}] /\ snap' = snap /\ purged' = purged
      /\ ledger' = ledger /\ taken' = taken
    BY DEF PurgeUnmap, ledgerVars
<1>3. \A g \in Handles : Alive(g)' => Alive(g)
  <2>1. \A g \in Handles : HoldsBy(p, g)' => Alive(g)
      BY <1>0 DEF Became, HoldsBy
  <2>2. Moves(p) /\ MapShrinks
      BY <1>0, <1>2 DEF Became, MapShrinks, TypeOK
  <2> QED
      BY <1>0, <2>1, <2>2, NoneRevived
<1>4. Savers(x)' = Savers(x) /\ Exporting(x)' = Exporting(x) /\ Putting(x)' = Putting(x)
    BY <1>0, <1>2, SavesKept DEF Became, Saving
<1>5. \/ written'[x] = {}
      \/ written'[x] = written[x] /\ map'[x] = map[x]
    BY <1>0, <1>2 DEF TypeOK
<1>6. One(x)' /\ Whole(x)' /\ Gone(x)'
    BY <1>2, <1>3, <1>5 DEF LocalInv, One, Whole, Gone
<1>7. Once(x)'
    BY <1>0, <1>1, <1>2 DEF LocalInv, Once, Became, Procs
<1>8. OneSaver(x)' /\ Backed(x)'
  <2>1. \A q \in Savers(x) : proc'[q] = proc[q]
      BY <1>0, <1>1 DEF Savers
  <2> QED
      BY <1>2, <1>4, <1>5, <2>1 DEF LocalInv, OneSaver, Backed
<1> QED
    BY <1>6, <1>7, <1>8 DEF LocalInv

LEMMA PurgeDeleteLocal ==
    ASSUME BaseInv, NEW p \in Callers, PurgeDelete(p), NEW x \in Chats \ raced', LocalInv(x)
    PROVE  LocalInv(x)'
<1> DEFINE c == proc[p].chat
<1>0. /\ TypeOK /\ DocumentsOK /\ p \in Procs /\ proc[p].pc = "delete" /\ c \in Chats /\ IdleNow(p)
    BY PurgeDeleteBase DEF BaseInv, Procs, PurgeDelete
<1>1. \A q \in Procs : \/ proc'[q] = proc[q]
                       \/ q = p
    BY <1>0 DEF IdleNow, Became, Moves
<1>2. /\ map' = map /\ chatOf' = chatOf /\ replica' = replica
      /\ written' = [written EXCEPT ![c] = {}] /\ snap' = [snap EXCEPT ![c] = {}]
      /\ purged' \subseteq purged \cup {c}
      /\ ledger' = ledger /\ taken' = taken
      /\ x = c => map[c] = NoHandle /\ ~Straggling(c)
    BY DEF PurgeDelete, DeleteSnapshot, Race, ledgerVars
<1>3. \A g \in Handles : Alive(g)' => Alive(g)
  <2>1. \A g \in Handles : HoldsBy(p, g)' => Alive(g)
      BY <1>0 DEF IdleNow, Became, HoldsBy
  <2>2. Moves(p) /\ MapShrinks
      BY <1>0, <1>2 DEF IdleNow, Became, MapShrinks, TypeOK
  <2> QED
      BY <1>0, <2>1, <2>2, NoneRevived
<1>4. Savers(x)' = Savers(x) /\ Exporting(x)' = Exporting(x) /\ Putting(x)' = Putting(x)
    BY <1>0, <1>2, SavesKept DEF IdleNow, Became, Saving
<1>5. \/ x = c /\ written'[x] = {} /\ snap'[x] = {}
      \/ x # c /\ written'[x] = written[x] /\ snap'[x] = snap[x]
    BY <1>0, <1>2 DEF TypeOK
<1>6. One(x)' /\ Whole(x)'
    BY <1>2, <1>3, <1>5 DEF LocalInv, One, Whole
<1>7. Gone(x)'
  <2>1. ASSUME x = c, NEW h \in Handles, chatOf[h] = x, Alive(h) PROVE FALSE
    <3>1. ~Held(h)
        BY <1>2, <2>1 DEF Straggling
    <3>2. PICK d \in Chats : map[d] = h
        BY <2>1, <3>1 DEF Alive
    <3>3. d = c
        BY <1>0, <2>1, <3>2, DocsAssumption DEF DocumentsOK
    <3> QED
        BY <1>2, <2>1, <3>2, <3>3, DocsAssumption
  <2> QED
      BY <1>2, <1>3, <1>5, <2>1 DEF LocalInv, Gone
<1>8. Once(x)'
    BY <1>0, <1>1, <1>2 DEF LocalInv, Once, IdleNow, Became, Procs
<1>9. OneSaver(x)' /\ Backed(x)'
  <2>1. \A q \in Savers(x) : proc'[q] = proc[q]
      BY <1>0, <1>1 DEF Savers
  <2> QED
      BY <1>2, <1>4, <1>5, <2>1 DEF LocalInv, OneSaver, Backed
<1> QED
    BY <1>6, <1>7, <1>8, <1>9 DEF LocalInv

(* A new handle is the only one of its chat, and its snapshot is all there  *)
(* is, or the chat is raced.                                                *)
LEMMA InsertLocal ==
    ASSUME BaseInv, NEW p \in Callers, NEW h \in Handles, Insert(p, h),
           NEW x \in Chats \ raced', LocalInv(x)
    PROVE  LocalInv(x)'
<1> DEFINE c == proc[p].chat
<1>0. /\ TypeOK /\ DocumentsOK /\ p \in Procs /\ h \in Procs /\ c \in Chats /\ c # NoChat
      /\ chatOf[h] = NoChat /\ h # NoHandle /\ p # h
      /\ proc[p].pc = "insert" /\ proc[h].pc = "unborn"
  <2>1. c \in Chats /\ chatOf[h] = NoChat /\ h # NoHandle /\ p # h
      BY InsertBase
  <2>2. c # NoChat
      BY <2>1, DocsAssumption
  <2>3. TypeOK /\ DocumentsOK /\ p \in Procs /\ h \in Procs
      BY Zenon DEF BaseInv, Procs
  <2>4. proc[p].pc = "insert" /\ proc[h].pc = "unborn"
      BY Zenon DEF Insert
  <2> QED
      BY <2>1, <2>2, <2>3, <2>4
<1>1. /\ \A q \in Procs : \/ proc'[q] = proc[q]
                          \/ q = p
                          \/ q = h
      /\ proc'[p].pc = "sweep" /\ proc'[p].ref = h
      /\ proc'[h].pc = "boot"
    BY <1>0, InsertMoves
<1>2. /\ map[c] = NoHandle /\ map' = [map EXCEPT ![c] = h]
      /\ chatOf' = [chatOf EXCEPT ![h] = c]
      /\ replica' = [replica EXCEPT ![h] = proc[p].bytes]
      /\ purged' = purged \ {c}
      /\ written' = written /\ snap' = snap /\ ledger' = ledger /\ taken' = taken
      /\ x = c => ~Straggling(c) /\ proc[p].bytes = snap[c]
    BY DEF Insert, Race, ledgerVars
<1> HIDE DEF c
<1>3. \A g \in Handles \ {h} : Alive(g)' => Alive(g) /\ chatOf'[g] = chatOf[g]
                                            /\ replica'[g] = replica[g]
  <2> SUFFICES ASSUME NEW g \in Handles \ {h}, Alive(g)' PROVE Alive(g)
      BY <1>0, <1>2 DEF TypeOK
  <2>1. ASSUME NEW q \in Procs, HoldsBy(q, g)' PROVE Alive(g)
    <3>1. q # p /\ q # h
        BY <1>1, <2>1 DEF HoldsBy
    <3>2. HoldsBy(q, g)
        BY <1>1, <2>1, <3>1 DEF HoldsBy
    <3> QED
        BY <3>2, HolderKeepsAlive
  <2>2. ASSUME NEW d \in Chats, map'[d] = g PROVE Alive(g)
      BY <1>0, <1>2, <2>2 DEF Alive, TypeOK
  <2> QED
      BY <2>1, <2>2 DEF Alive, Held
<1>4. Savers(x)' = Savers(x) /\ Exporting(x)' = Exporting(x) /\ Putting(x)' = Putting(x)
  <2>1. \A q \in Procs : proc[q].pc \in Saving =>
            /\ proc'[q] = proc[q]
            /\ chatOf'[proc[q].victim] = chatOf[proc[q].victim]
    <3> SUFFICES ASSUME NEW q \in Procs, proc[q].pc \in Saving
                 PROVE  /\ proc'[q] = proc[q]
                        /\ chatOf'[proc[q].victim] = chatOf[proc[q].victim]
        OBVIOUS
    <3>1. proc[q].victim \in Handles /\ chatOf[proc[q].victim] \in Chats
        BY VictimKnown
    <3>2. q # p /\ q # h
        BY <1>0 DEF Saving
    <3>3. proc[q].victim # h
        BY <1>0, <3>1, DocsAssumption
    <3> QED
        BY <1>0, <1>1, <1>2, <3>1, <3>2, <3>3 DEF TypeOK
  <2>2. \A q \in Procs : proc'[q].pc \in Saving => proc'[q] = proc[q]
      BY <1>1 DEF Saving
  <2> QED
      BY <2>1, <2>2 DEF Savers, Exporting, Putting, Saving
<1>5. \A g \in Handles : proc'[g].pc = "claim" => proc'[g] = proc[g]
    BY <1>1, <1>0, DocsAssumption DEF Procs
<1>6. OneSaver(x)' /\ Once(x)'
    BY <1>2, <1>4, <1>5 DEF LocalInv, OneSaver, Once
<1>7. CASE x # c
  <2>1. map'[x] = map[x] /\ \A g \in Handles : chatOf'[g] = x => g # h
      BY <1>0, <1>2, <1>7 DEF TypeOK
  <2>2. One(x)' /\ Whole(x)' /\ Gone(x)'
      BY <1>2, <1>3, <1>7, <2>1 DEF LocalInv, One, Whole, Gone
  <2>3. \A q \in Savers(x) : proc'[q] = proc[q]
      BY <1>0, <1>1 DEF Savers
  <2>4. Backed(x)'
      BY <1>2, <1>4, <2>1, <2>3 DEF LocalInv, Backed
  <2> QED
      BY <1>6, <2>2, <2>4 DEF LocalInv
<1>8. CASE x = c
  <2>1. \A g \in Handles : chatOf[g] = x => ~Alive(g)
    <3> SUFFICES ASSUME NEW g \in Handles, chatOf[g] = x, Alive(g) PROVE FALSE
        OBVIOUS
    <3>1. ~Held(g) /\ g # NoHandle
        BY <1>2, <1>8, DocsAssumption DEF Straggling
    <3>2. PICK d \in Chats : map[d] = g
        BY <3>1 DEF Alive
    <3>3. d = c
        BY <1>0, <1>8, <3>1, <3>2 DEF DocumentsOK
    <3> QED
        BY <1>2, <3>1, <3>2, <3>3
  <2>2. Exporting(x) = {} /\ Putting(x) = {}
    <3>1. ASSUME NEW q \in Procs, proc[q].pc \in Saving, chatOf[proc[q].victim] = x PROVE FALSE
      <4>1. proc[q].victim \in Handles
          BY <3>1, VictimKnown
      <4>2. HoldsBy(q, proc[q].victim)
          BY <3>1 DEF HoldsBy, Saving
      <4> QED
          BY <2>1, <3>1, <4>1, <4>2, HolderKeepsAlive
    <3> QED
        BY <3>1 DEF Exporting, Putting, Savers, Saving
  <2>3. written[x] \subseteq snap[x]
      BY <1>2, <1>8, <2>2 DEF LocalInv, Backed
  <2>4. \A g \in Handles : Alive(g)' /\ chatOf'[g] = x => g = h
      BY <1>3, <2>1
  <2>5. One(x)'
      BY <2>4 DEF One
  <2>6. Whole(x)'
      BY <1>0, <1>2, <1>8, <2>3, <2>4 DEF Whole, TypeOK
  <2>7. Backed(x)' /\ Gone(x)'
      BY <1>0, <1>2, <1>8 DEF Backed, Gone, TypeOK
  <2> QED
      BY <1>6, <2>5, <2>6, <2>7 DEF LocalInv
<1> QED
    BY <1>7, <1>8

-----------------------------------------------------------------------------
(* The inductive invariant, and what it says                                *)

DocsIInv == BaseInv /\ DocsInv

LEMMA InitDocs ==
    ASSUME Init
    PROVE  DocsIInv
<1>1. \A p \in Procs : proc[p].pc \in {"off", "unborn"}
    BY DEF Init, Idle
<1>2. \A h \in Handles : ~Alive(h)
    BY <1>1, DocsAssumption DEF Init, Alive, Held, HoldsBy
<1>3. ASSUME NEW x \in Chats PROVE LocalInv(x)
  <2>1. One(x) /\ Whole(x) /\ Gone(x)
      BY <1>2 DEF Init, One, Whole, Gone
  <2>2. Savers(x) = {}
      BY <1>1 DEF Savers
  <2>3. OneSaver(x) /\ Backed(x)
      BY <2>2 DEF Init, OneSaver, Backed
  <2>4. Once(x)
      BY <1>1 DEF Init, Once, Procs
  <2> QED
      BY <2>1, <2>3, <2>4 DEF LocalInv
<1> QED
    BY <1>3, InitBase DEF DocsIInv, DocsInv

LEMMA RaceGrows ==
    ASSUME NEW c, NEW cond, Race(c, cond)
    PROVE  raced \subseteq raced'
BY DEF Race

(* A chat that is not raced after a step was not before.                    *)
LEMMA LocalSteps ==
    ASSUME DocsIInv, raced \subseteq raced', BaseInv',
           \A x \in Chats \ raced' : LocalInv(x) => LocalInv(x)'
    PROVE  DocsIInv'
BY DEF DocsIInv, DocsInv

LEMMA CallerDocs ==
    ASSUME DocsIInv, NEW p \in Callers, CallerNext(p)
    PROVE  DocsIInv'
<1>0. BaseInv /\ p \in Procs
    BY DEF DocsIInv, Procs
<1>1. CASE \/ \E c \in Chats : OpenHit(p, c) \/ OpenMiss(p, c)
           \/ InsertKeepsFirst(p) \/ Release(p) \/ Attach(p) \/ Leave(p)
  <2>1. BaseInv' /\ QuietStep(p)
      BY <1>0, <1>1, QuietCaller
  <2> QED
      BY <1>0, <2>1, QuietLocal, LocalSteps DEF QuietStep
<1>2. CASE Dispatch(p) \/ RunWrites(p) \/ \E c \in Commands : QueueCommand(p, c)
  <2>1. BaseInv' /\ \E h, new : WriteStep(p, h, new)
      BY <1>0, <1>2, WriterCaller
  <2>2. PICK h, new : WriteStep(p, h, new)
      BY <2>1
  <2>3. raced \subseteq raced'
      BY <2>2, RaceGrows DEF WriteStep, WriteTo
  <2> QED
      BY <1>0, <2>1, <2>2, <2>3, WriteLocal, LocalSteps
<1>3. ASSUME NEW c \in Chats, PurgeUnmap(p, c) PROVE DocsIInv'
  <2>1. raced \subseteq raced'
      BY <1>3, RaceGrows DEF PurgeUnmap
  <2> QED
      BY <1>0, <1>3, <2>1, PurgeUnmapBase, PurgeUnmapLocal, LocalSteps
<1>4. CASE PurgeDelete(p)
  <2>1. raced \subseteq raced'
      BY <1>4, RaceGrows DEF PurgeDelete
  <2> QED
      BY <1>0, <1>4, <2>1, PurgeDeleteBase, PurgeDeleteLocal, LocalSteps
<1>5. ASSUME NEW h \in Handles, Insert(p, h) PROVE DocsIInv'
  <2>1. raced \subseteq raced'
      BY <1>5, RaceGrows DEF Insert
  <2> QED
      BY <1>0, <1>5, <2>1, InsertBase, InsertLocal, LocalSteps
<1> QED
    BY <1>1, <1>2, <1>3, <1>4, <1>5 DEF CallerNext

LEMMA StoreDocs ==
    ASSUME DocsIInv, NEW p \in Procs, PutVictim(p) \/ (p \in Handles /\ Saved(p))
    PROVE  DocsIInv'
<1>1. BaseInv
    BY DEF DocsIInv
<1>2. PICK t : StoreStep(p, t)
    BY <1>1, StoreMoves
<1>3. raced \subseteq raced'
    BY <1>2 DEF StoreStep
<1> QED
    BY <1>1, <1>2, <1>3, StoreBase, StoreLocal, LocalSteps

LEMMA TaskDocs ==
    ASSUME DocsIInv, NEW h \in Handles, TaskNext(h)
    PROVE  DocsIInv'
<1>0. BaseInv /\ h \in Procs
    BY DEF DocsIInv, Procs
<1>1. CASE \/ TaskBegins(h) \/ TaskWakes(h) \/ TaskEnds(h) \/ DrainEnds(h)
           \/ \E c \in Commands : Find(h, c)
  <2>1. BaseInv' /\ QuietStep(h)
      BY <1>0, <1>1, QuietTask
  <2> QED
      BY <1>0, <2>1, QuietLocal, LocalSteps DEF QuietStep
<1>2. CASE Deadline(h)
  <2>1. ExportStep(h, h, "store") /\ BaseInv'
      BY <1>0, <1>2, Exported, DeadlineBase
  <2>2. raced \subseteq raced'
      BY <2>1, RaceGrows DEF ExportStep
  <2> QED
      BY <1>0, <2>1, <2>2, ExportLocal, LocalSteps
<1>3. CASE Saved(h)
    BY <1>0, <1>3, StoreDocs
<1>4. CASE Claim(h)
  <2>1. raced \subseteq raced'
      BY <1>4 DEF Claim
  <2> QED
      BY <1>0, <1>4, <2>1, ClaimBase, ClaimLocal, LocalSteps
<1>5. CASE Resolve(h)
  <2>1. BaseInv' /\ \E g, new : WriteStep(h, g, new)
      BY <1>0, <1>5, WriterTask
  <2>2. PICK g, new : WriteStep(h, g, new)
      BY <2>1
  <2>3. raced \subseteq raced'
      BY <2>2, RaceGrows DEF WriteStep, WriteTo
  <2> QED
      BY <1>0, <2>1, <2>2, <2>3, WriteLocal, LocalSteps
<1> QED
    BY <1>1, <1>2, <1>3, <1>4, <1>5 DEF TaskNext

LEMMA SweepDocs ==
    ASSUME DocsIInv, NEW p \in Procs, Sweep(p)
    PROVE  DocsIInv'
<1>0. BaseInv
    BY DEF DocsIInv
<1>1. CASE SweepEnds(p) \/ \E c \in Chats : Spare(p, c)
  <2>1. BaseInv' /\ QuietStep(p)
      BY <1>0, <1>1, QuietSweep
  <2> QED
      BY <1>0, <2>1, QuietLocal, LocalSteps DEF QuietStep
<1>2. ASSUME NEW c \in Chats, Evict(p, c) PROVE DocsIInv'
  <2>1. raced \subseteq raced'
      BY <1>2 DEF Evict
  <2> QED
      BY <1>0, <1>2, <2>1, EvictBase, EvictLocal, LocalSteps
<1>3. CASE ExportVictim(p)
  <2>1. ExportStep(p, proc[p].victim, "put") /\ BaseInv'
      BY <1>0, <1>3, Exported, ExportVictimBase
  <2>2. raced \subseteq raced'
      BY <2>1, RaceGrows DEF ExportStep
  <2> QED
      BY <1>0, <2>1, <2>2, ExportLocal, LocalSteps
<1>4. CASE PutVictim(p)
    BY <1>4, StoreDocs
<1> QED
    BY <1>1, <1>2, <1>3, <1>4 DEF Sweep

LEMMA StutterDocs ==
    ASSUME DocsIInv, UNCHANGED vars
    PROVE  DocsIInv'
<1>1. BaseInv'
    BY DEF DocsIInv, vars, BaseInv, TypeOK, ProcOK, DocumentsOK, OfChat
<1>2. \A h \in Handles : Alive(h)' = Alive(h)
    BY DEF vars, Alive, Held, HoldsBy
<1>3. ASSUME NEW x \in Chats PROVE LocalInv(x) => LocalInv(x)'
  <2>1. Savers(x)' = Savers(x) /\ Exporting(x)' = Exporting(x) /\ Putting(x)' = Putting(x)
      BY DEF vars, Savers, Exporting, Putting
  <2> QED
      BY <1>2, <2>1 DEF vars, LocalInv, One, Whole, OneSaver, Backed, Gone, Once
<1> QED
    BY <1>1, <1>3, LocalSteps DEF vars

LEMMA NextDocs == DocsIInv /\ [Next]_vars => DocsIInv'
<1> SUFFICES ASSUME DocsIInv, [Next]_vars PROVE DocsIInv'
    OBVIOUS
<1>1. ASSUME NEW h \in Handles, NEW c \in Commands, Receive(h, c) PROVE DocsIInv'
  <2>1. raced \subseteq raced' /\ BaseInv
      BY <1>1 DEF Receive, DocsIInv
  <2> QED
      BY <1>1, <2>1, ReceiveBase, ReceiveLocal, LocalSteps
<1> QED
    BY <1>1, CallerDocs, TaskDocs, SweepDocs, StutterDocs DEF Next

LEMMA DocsAlways == Spec => []DocsIInv
<1>1. Init => DocsIInv
    BY InitDocs
<1> QED
    BY <1>1, NextDocs, PTL DEF Spec

(* Every variable of DocHost's map, tasks, snapshots and ledger keeps its   *)
(* type, whatever opens, evicts, saves, drains and deletes interleave.      *)
THEOREM TypeCorrect == Spec => []TypeOK
<1>1. DocsIInv => TypeOK
    BY DEF DocsIInv, BaseInv
<1> QED
    BY <1>1, DocsAlways, PTL

(* What this engine wrote into a chat that was in no race is in its warm    *)
(* handle, or in the export on its way to the store, or in the stored row   *)
(* (doc_host.rs:449-498): evict_over_budget drops the handle from the map   *)
(* before it saves, and nothing falls in between.                           *)
THEOREM EvictionLosesNothing == Spec => []LossNeedsRace
<1>1. ASSUME DocsIInv, NEW x \in Chats \ raced PROVE written[x] \subseteq Kept(x)
  <2>0. BaseInv /\ TypeOK /\ DocumentsOK /\ LocalInv(x)
      BY <1>1 DEF DocsIInv, BaseInv, DocsInv
  <2>1. CASE map[x] # NoHandle
    <3>1. map[x] \in Handles /\ Alive(map[x]) /\ chatOf[map[x]] = x
        BY <2>0, <2>1 DEF TypeOK, DocumentsOK, Alive
    <3> QED
        BY <2>0, <2>1, <3>1 DEF LocalInv, Whole, Kept
  <2>2. CASE map[x] = NoHandle /\ Exporting(x) # {}
    <3>1. PICK q \in Exporting(x) : TRUE
        BY <2>2
    <3>2. q \in Procs /\ proc[q].pc = "export" /\ chatOf[proc[q].victim] = x
        BY <3>1 DEF Exporting
    <3>3. proc[q].victim \in Handles /\ Alive(proc[q].victim)
        BY <2>0, <3>2, VictimKnown, HolderKeepsAlive DEF Saving, HoldsBy
    <3>4. written[x] \subseteq replica[proc[q].victim]
        BY <2>0, <3>2, <3>3 DEF LocalInv, Whole
    <3>5. q \in Flushing(x)
        BY <3>2 DEF Flushing
    <3> QED
        BY <2>2, <3>2, <3>4, <3>5 DEF Kept
  <2>3. CASE map[x] = NoHandle /\ Exporting(x) = {} /\ Putting(x) # {}
    <3>1. PICK q \in Putting(x) : TRUE
        BY <2>3
    <3>2. /\ q \in Procs /\ q \in Savers(x) /\ proc[q].pc = "put"
          /\ chatOf[proc[q].victim] = x
        BY <3>1 DEF Putting, Savers
    <3>3. written[x] \subseteq proc[q].bytes /\ q \in Flushing(x)
        BY <2>0, <2>3, <3>2 DEF LocalInv, Backed, Flushing
    <3> QED
        BY <2>3, <3>2, <3>3 DEF Kept
  <2>4. CASE map[x] = NoHandle /\ Exporting(x) = {} /\ Putting(x) = {}
    <3>1. written[x] \subseteq snap[x]
        BY <2>0, <2>4 DEF LocalInv, Backed
    <3> QED
        BY <2>4, <3>1 DEF Kept
  <2> QED
      BY <2>1, <2>2, <2>3, <2>4
<1>2. DocsIInv => LossNeedsRace
    BY <1>1 DEF LossNeedsRace
<1> QED
    BY <1>2, DocsAlways, PTL

(* A drain pass looks at the ledger and marks it in two calls, and the      *)
(* answer of mark_processed is ignored (doc_host.rs:682-714); a command is  *)
(* nevertheless taken once as long as its chat had one handle at a time.    *)
THEOREM DrainedOnce == Spec => []TwiceNeedsRace
<1>1. ASSUME DocsIInv, NEW c \in Commands, ChatOf[c] \notin raced PROVE ~(taken[c] > 1)
  <2>1. ChatOf[c] \in Chats /\ taken[c] \in Nat
      BY <1>1, DocsAssumption DEF DocsIInv, BaseInv, TypeOK
  <2>2. taken[c] <= 1
      BY <1>1, <2>1 DEF DocsIInv, DocsInv, LocalInv, Once
  <2> QED
      BY <2>1, <2>2
<1>2. DocsIInv => TwiceNeedsRace
    BY <1>1 DEF TwiceNeedsRace
<1> QED
    BY <1>2, DocsAlways, PTL

(* purge_chat deletes the row of a chat whose handle nobody held, and no    *)
(* later save brings it back before the chat is opened anew                 *)
(* (doc_host.rs:525-531).                                                   *)
THEOREM PurgeHolds == Spec => []PurgedStaysGone
<1>1. DocsIInv => PurgedStaysGone
    BY DEF DocsIInv, BaseInv, TypeOK, DocsInv, LocalInv, Gone, PurgedStaysGone
<1> QED
    BY <1>1, DocsAlways, PTL

-----------------------------------------------------------------------------
(* No wake-up is missed *)

(* The task of h is to look for pending commands, or has a change to see.   *)
WillDrain(h) ==
    \/ proc[h].pc \in {"boot", "drain", "claim", "execute"}
    \/ h \in woken /\ proc[h].pc # "ended"

(* A command that is pending in the warm document of a hosted chat is       *)
(* noticed: however it came, and whatever the task was at, a drain comes    *)
(* (doc_host.rs:1020-1068).                                                 *)
PendingIsNoticed ==
    \A x \in Hosted : map[x] # NoHandle /\ Pending(map[x]) # {} => WillDrain(map[x])

(* A task that has ended is of a handle nobody will find; one that waits    *)
(* left nothing pending behind.                                             *)
Noticed(h) ==
    /\ proc[h].pc = "ended" => \A c \in Chats : map[c] # h
    /\ chatOf[h] \in Hosted /\ Pending(h) # {} =>
           WillDrain(h) \/ proc[h].pc \in {"unborn", "ended"}
NoticeInv == \A h \in Handles : Noticed(h)

(* A step in which the task of h stays where it is, its handle is not put   *)
(* into the map anew, and what comes to its document wakes it.              *)
LEMMA KeepsNotice ==
    ASSUME NEW h \in Handles, Noticed(h), proc'[h].pc = proc[h].pc, chatOf'[h] = chatOf[h],
           \A c \in Chats : map'[c] = h => map[c] = h,
           replica'[h] = replica[h] \/ h \in woken',
           ledger \subseteq ledger', h \in woken => h \in woken'
    PROVE  Noticed(h)'
<1>1. replica'[h] = replica[h] => Pending(h)' \subseteq Pending(h)
  BY DEF Pending
<1> QED
  BY <1>1 DEF Noticed, WillDrain

LEMMA NextNotice ==
    ASSUME BaseInv, NoticeInv, [Next]_vars
    PROVE  NoticeInv'
<1> USE DocsAssumption DEF Procs
<1>0. /\ TypeOK /\ DocumentsOK /\ proc \in [Procs -> Proc] /\ Callers \cap Handles = {}
      /\ map \in [Chats -> Handles \cup {NoHandle}] /\ chatOf \in [Handles -> Chats \cup {NoChat}]
      /\ replica \in [Handles -> SUBSET Ops] /\ NoHandle \notin Handles
      /\ \A p \in Procs : ProcOK(p) /\ proc[p] \in Proc
  BY DEF BaseInv, TypeOK
<1>1. ASSUME NEW p \in Callers, CallerNext(p) PROVE NoticeInv'
  <2>1. ASSUME NEW h \in Handles, proc' = [proc EXCEPT ![p] = proc'[p]],
               UNCHANGED <<chatOf, ledger>>,
               \A c \in Chats : map'[c] = h => map[c] = h,
               UNCHANGED <<replica, woken>> \/ \E new : WriteTo(proc[p].ref, new)
        PROVE  Noticed(h)'
    <3>1. proc'[h] = proc[h]
      BY <1>0, <2>1
    <3>2. replica'[h] = replica[h] \/ h \in woken'
      BY <1>0, <2>1 DEF WriteTo
    <3>3. h \in woken => h \in woken'
      BY <2>1 DEF WriteTo
    <3> QED
      BY <2>1, <3>1, <3>2, <3>3, KeepsNotice DEF NoticeInv
  <2>2. CASE ~\E h \in Handles : Insert(p, h)
    <3>1. proc' = [proc EXCEPT ![p] = proc'[p]]
      BY <1>0, <1>1, <2>2 DEF CallerNext, OpenHit, OpenMiss, PurgeUnmap, InsertKeepsFirst, PurgeDelete,
         Release, Attach, Dispatch, RunWrites, Leave, QueueCommand, Goto
    <3>2. UNCHANGED <<chatOf, ledger>>
      BY <1>1, <2>2 DEF CallerNext, OpenHit, OpenMiss, PurgeUnmap, InsertKeepsFirst, PurgeDelete,
         Release, Attach, Dispatch, RunWrites, Leave, QueueCommand, ledgerVars
    <3>3. \A c \in Chats : map'[c] = map[c] \/ map'[c] = NoHandle
      BY <1>0, <1>1, <2>2 DEF CallerNext, OpenHit, OpenMiss, PurgeUnmap, InsertKeepsFirst, PurgeDelete,
         Release, Attach, Dispatch, RunWrites, Leave, QueueCommand
    <3>4. UNCHANGED <<replica, woken>> \/ \E new : WriteTo(proc[p].ref, new)
      BY <1>1, <2>2 DEF CallerNext, OpenHit, OpenMiss, PurgeUnmap, InsertKeepsFirst, PurgeDelete,
         Release, Attach, Dispatch, RunWrites, Leave, QueueCommand, docVars
    <3>5. ASSUME NEW h \in Handles PROVE Noticed(h)'
      <4>1. \A c \in Chats : map'[c] = h => map[c] = h
        BY <1>0, <3>3, <3>5
      <4> QED
        BY <2>1, <3>1, <3>2, <3>4, <3>5, <4>1
    <3> QED
      BY <3>5 DEF NoticeInv
  <2>3. ASSUME NEW g \in Handles, Insert(p, g) PROVE NoticeInv'
    <3>0. proc[p].chat \in Chats
      BY <1>0, <2>3 DEF Insert, ProcOK, Proc
    <3>1. /\ proc'[g].pc = "boot"
          /\ \A h \in Handles : h # g => proc'[h] = proc[h] /\ chatOf'[h] = chatOf[h]
                                         /\ replica'[h] = replica[h]
          /\ UNCHANGED <<woken, ledger>>
      <4>1. proc'[g].pc = "boot" /\ \A q \in Procs \ {p, g} : proc'[q] = proc[q]
        BY <1>0, <2>3, <3>0, InsertMoves
      <4>2. \A h \in Handles : h # g => proc'[h] = proc[h]
        BY <1>0, <4>1
      <4>3. \A h \in Handles : h # g => chatOf'[h] = chatOf[h] /\ replica'[h] = replica[h]
        BY <1>0, <2>3 DEF Insert
      <4>4. UNCHANGED <<woken, ledger>>
        BY <2>3 DEF Insert, ledgerVars
      <4> QED
        BY <4>1, <4>2, <4>3, <4>4
    <3>2. \A c \in Chats : map'[c] = map[c] \/ map'[c] = g
      BY <1>0, <2>3 DEF Insert
    <3>3. Noticed(g)'
      BY <3>1 DEF Noticed, WillDrain
    <3>4. ASSUME NEW h \in Handles, h # g PROVE Noticed(h)'
      BY <3>1, <3>2, <3>4, KeepsNotice DEF NoticeInv
    <3> QED
      BY <3>3, <3>4 DEF NoticeInv
  <2> QED
    BY <2>2, <2>3
(* A step of the task of g, or of the LRU pass of q: the others stay.       *)
<1>2. ASSUME NEW q \in Procs, NEW g, g = q, UNCHANGED <<chatOf>>, ledger \subseteq ledger',
             proc' = [proc EXCEPT ![q] = proc'[q]],
             \A c \in Chats : map'[c] = map[c] \/ map'[c] = NoHandle,
             \A h \in Handles : h # g => /\ h \in woken => h \in woken'
                                         /\ replica'[h] = replica[h] \/ h \in woken',
             g \in Handles => Noticed(g)'
      PROVE  NoticeInv'
  <2>1. ASSUME NEW h \in Handles, h # g PROVE Noticed(h)'
    <3>1. proc'[h] = proc[h] /\ \A c \in Chats : map'[c] = h => map[c] = h
      BY <1>0, <1>2, <2>1
    <3> QED
      BY <1>2, <2>1, <3>1, KeepsNotice DEF NoticeInv
  <2> QED
    BY <1>2, <2>1 DEF NoticeInv
<1>3. ASSUME NEW g \in Handles, TaskNext(g) PROVE NoticeInv'
  <2>1. /\ UNCHANGED <<chatOf, map>> /\ ledger \subseteq ledger'
        /\ proc' = [proc EXCEPT ![g] = proc'[g]]
        /\ \A h \in Handles : h # g => /\ h \in woken => h \in woken'
                                       /\ replica'[h] = replica[h]
    <3>1. UNCHANGED <<chatOf, map>> /\ ledger \subseteq ledger'
      BY <1>3 DEF TaskNext, TaskBegins, TaskWakes, TaskEnds, Deadline, Saved, Find, DrainEnds, Claim,
         Resolve, ledgerVars, MarkProcessed
    <3>2. proc' = [proc EXCEPT ![g] = proc'[g]]
      BY <1>0, <1>3 DEF TaskNext, TaskBegins, TaskWakes, TaskEnds, Deadline, Saved, Find, DrainEnds,
         Claim, Resolve, Goto, Exports, Stores
    <3>3. \A h \in Handles : h # g => /\ h \in woken => h \in woken'
                                      /\ replica'[h] = replica[h]
      BY <1>0, <1>3 DEF TaskNext, TaskBegins, TaskWakes, TaskEnds, Deadline, Saved, Find, DrainEnds,
         Claim, Resolve, WriteTo, docVars
    <3> QED
      BY <3>1, <3>2, <3>3
  <2>2. Noticed(g)
    BY DEF NoticeInv
  <2>3. UNCHANGED replica => Pending(g)' \subseteq Pending(g)
    BY <2>1 DEF Pending
  <2>4. ASSUME TaskBegins(g) \/ TaskEnds(g) PROVE Noticed(g)'
    <3>1. /\ proc'[g].pc \in {"drain", "ended"}
          /\ proc'[g].pc = "ended" => ~Alive(g)
      BY <1>0, <2>4, TaskGoes DEF TaskEnds, Goes, Became
    <3> QED
      BY <2>1, <3>1 DEF Noticed, WillDrain, Alive
  <2>5. ASSUME proc'[g].pc \in {"drain", "claim", "execute"} PROVE Noticed(g)'
    BY <2>5 DEF Noticed, WillDrain
  <2>6. ASSUME TaskWakes(g) \/ Resolve(g) \/ (\E c \in Commands : Find(g, c)) \/ Claim(g)
        PROVE  Noticed(g)'
    BY <1>0, <2>5, <2>6, TaskGoes, DrainMoves DEF Goes, Became
  <2>7. ASSUME Deadline(g) \/ Saved(g) PROVE Noticed(g)'
    <3>1. proc[g].pc \in {"wait", "store"} /\ UNCHANGED <<replica, woken>>
      BY <2>7 DEF Deadline, Saved, docVars
    <3>2. proc'[g].pc \in {"store", "sweep"}
      BY <1>0, <2>7, DeadlineMoves, SavedMoves DEF Became
    <3> QED
      BY <2>1, <2>2, <2>3, <3>1, <3>2 DEF Noticed, WillDrain
  <2>8. ASSUME DrainEnds(g) PROVE Noticed(g)'
    <3>1. UNCHANGED replica /\ (chatOf[g] \notin Hosted \/ Pending(g) = {})
      BY <2>8 DEF DrainEnds, docVars
    <3>2. proc'[g].pc = "wait"
      BY <1>0, <2>8, TaskGoes DEF Goes, Became
    <3> QED
      BY <2>1, <2>3, <3>1, <3>2 DEF Noticed
  <2>9. Noticed(g)'
    BY <1>3, <2>4, <2>6, <2>7, <2>8 DEF TaskNext
  <2> QED
    BY <1>0, <1>2, <2>1, <2>9
<1>4. ASSUME NEW q \in Procs, Sweep(q) PROVE NoticeInv'
  <2>1. /\ UNCHANGED <<chatOf, replica, woken, ledger>>
        /\ \A c \in Chats : map'[c] = map[c] \/ map'[c] = NoHandle
    BY <1>0, <1>4 DEF Sweep, SweepEnds, Spare, Evict, ExportVictim, PutVictim, docVars, ledgerVars
  <2>2. proc' = [proc EXCEPT ![q] = proc'[q]]
    BY <1>0, <1>4 DEF Sweep, SweepEnds, Spare, Evict, ExportVictim, PutVictim, Exports, Stores
  <2>3. /\ proc[q].pc \in {"sweep", "export", "put"}
        /\ proc'[q].pc \in {"sweep", "export", "put", "use", "wait"}
    <3>1. ASSUME SweepEnds(q) PROVE proc'[q].pc \in {"use", "wait"}
      BY <1>0, <3>1, SweepEndsMoves DEF Became
    <3>2. ASSUME NEW c \in Chats, Spare(q, c) \/ Evict(q, c)
          PROVE  proc'[q].pc \in {"sweep", "export"}
      BY <1>0, <3>2, SpareMoves, EvictMoves DEF Became
    <3>3. ASSUME ExportVictim(q) PROVE proc'[q].pc = "put"
      BY <3>3, ExportVictimBase DEF Became
    <3>4. ASSUME PutVictim(q) PROVE proc'[q].pc = "sweep"
      BY <1>0, <3>4, PutVictimMoves DEF Became
    <3> QED
      BY <1>4, <3>1, <3>2, <3>3, <3>4 DEF Sweep, SweepEnds, Spare, Evict, ExportVictim, PutVictim
  <2>4. ASSUME q \in Handles PROVE Noticed(q)'
    <3>1. Noticed(q) /\ Pending(q)' = Pending(q)
      BY <2>1, <2>4 DEF NoticeInv, Pending
    <3> QED
      BY <2>1, <2>3, <3>1 DEF Noticed, WillDrain
  <2> QED
    BY <1>2, <2>1, <2>2, <2>4
<1>5. ASSUME NEW g \in Handles, NEW c \in Commands, Receive(g, c) PROVE NoticeInv'
  <2>1. /\ UNCHANGED <<proc, map, chatOf, ledger>> /\ woken' = woken \cup {g}
        /\ \A h \in Handles : h # g => replica'[h] = replica[h]
    BY <1>0, <1>5 DEF Receive, ledgerVars
  <2> QED
    BY <2>1, KeepsNotice DEF NoticeInv
<1>6. ASSUME UNCHANGED vars PROVE NoticeInv'
  <2>1. UNCHANGED <<proc, map, chatOf, replica, woken, ledger>>
    BY <1>6 DEF vars
  <2> QED
    BY <2>1, KeepsNotice DEF NoticeInv
<1> QED
  BY <1>1, <1>3, <1>4, <1>5, <1>6 DEF Next

(* Whatever opens, saves and evictions go on, no command is left pending in *)
(* the warm document of a hosted chat without a drain to come               *)
(* (doc_host.rs:500-520, 1020-1068).                                        *)
THEOREM NoMissedWakeup == Spec => []PendingIsNoticed
<1>1. Init => NoticeInv
  <2> SUFFICES ASSUME Init, NEW h \in Handles PROVE Noticed(h)
    BY DEF NoticeInv
  <2>1. proc[h].pc = "unborn"
    BY DocsAssumption DEF Init, Procs, Idle
  <2> QED
    BY <2>1 DEF Noticed
<1>2. DocsIInv /\ NoticeInv /\ [Next]_vars => NoticeInv'
  BY NextNotice DEF DocsIInv
<1>3. ASSUME DocsIInv, NoticeInv PROVE PendingIsNoticed
  <2> SUFFICES ASSUME NEW x \in Hosted, map[x] # NoHandle, Pending(map[x]) # {}
               PROVE  WillDrain(map[x])
    BY DEF PendingIsNoticed
  <2>1. x \in Chats /\ map[x] \in Handles /\ chatOf[map[x]] = x
    BY <1>3, DocsAssumption DEF DocsIInv, BaseInv, TypeOK, DocumentsOK
  <2>2. proc[map[x]].pc # "unborn" /\ proc[map[x]].pc # "ended"
    BY <1>3, <2>1, DocsAssumption DEF DocsIInv, BaseInv, DocumentsOK, NoticeInv, Noticed
  <2> QED
    BY <1>3, <2>1, <2>2 DEF NoticeInv, Noticed
<1> QED
  BY <1>1, <1>2, <1>3, DocsAlways, PTL DEF Spec
=============================================================================
