------------------------------- MODULE WarmDocs -------------------------------
(* The warm documents of one engine: DocHost's map of open chat documents   *)
(* (engine/src/doc_host.rs). Callers (the composer, the RPC surface, the    *)
(* sessions engine, nudges) open a chat and use its handle; every handle    *)
(* has a task (chat_task) that drains commands and saves snapshots; every   *)
(* open and every save ends in an LRU pass that may evict other handles.    *)
(* They share the map, the store's snapshots and its processed ledger.      *)
(*                                                                          *)
(* A document is the set of operations its replica holds. A handle that     *)
(* left the map lives on in whoever still holds it.                         *)
EXTENDS Naturals, FiniteSets

CONSTANTS
    Chats,
    Hosted,      \* the chats this device hosts (is_host)
    Callers,     \* tasks that open documents
    Runners,     \* the callers that may dispatch a run, one each
    Handles,     \* handle ids; each ChatDocHandle ever created takes one
    Commands,
    ChatOf,      \* ChatOf[c]: the chat a command belongs to
    Cap,         \* WARM_DOC_CAP; the byte budget is a smaller cap
    MaxPurges,   \* bound on DeleteChat
    NoHandle,
    NoChat,
    NoCommand

ASSUME DocsAssumption ==
    /\ Hosted \subseteq Chats
    /\ Callers \cap Handles = {} /\ Runners \subseteq Callers
    /\ ChatOf \in [Commands -> Chats]
    /\ Handles \subseteq Nat
    /\ Cap \in Nat /\ MaxPurges \in Nat
    /\ NoHandle \notin Handles /\ NoChat \notin Chats /\ NoCommand \notin Commands

Procs == Callers \cup Handles

(* What is written into a document: a queued command, its outcome, and of   *)
(* a run its user message and its streamed parts.                           *)
Ops == ({"command", "outcome"} \X Commands) \cup ({"message", "part"} \X Runners)

CallerSteps == {"off", "insert", "use", "watching", "running", "delete"}
TaskSteps == {"unborn", "boot", "wait", "drain", "claim", "execute", "store", "ended"}
SweepSteps == {"sweep", "export", "put"}

(* ref: the handle in hand, or for a task its own. Saving: `bytes` is the   *)
(* exported snapshot of `victim`; todo: the chats the LRU pass has not seen.*)
Proc == [pc : CallerSteps \cup TaskSteps \cup SweepSteps,
         chat : Chats \cup {NoChat}, ref : Handles \cup {NoHandle},
         victim : Handles \cup {NoHandle}, bytes : SUBSET Ops,
         todo : SUBSET Chats, cmd : Commands \cup {NoCommand}]

VARIABLES
    proc,        \* proc[p]: where a caller or a handle's task stands
    map,         \* DocHostInner.handles
    chatOf,      \* chatOf[h]: the chat of handle h
    replica,     \* replica[h]: the operations in h's document
    woken,       \* handles whose change watch has an unseen change
    armed,       \* handles whose task has a save deadline
    snap,        \* DocsStore.snapshots
    ledger,      \* DocsStore.processed_commands
    queued,      \* commands queued so far, here or elsewhere
    taken,       \* taken[c]: how often a drain pass took c on (history)
    written,     \* written[c]: what this engine wrote into chat c (history)
    purged,      \* chats deleted and not opened since (history)
    purges,      \* DeleteChat calls so far
    raced        \* chats whose handles or saves have overlapped (history)

vars == <<proc, map, chatOf, replica, woken, armed, snap, ledger, queued,
          taken, written, purged, purges, raced>>
docVars == <<replica, woken, written>>
ledgerVars == <<ledger, taken>>
purgeVars == <<purged, purges>>

Idle == [pc |-> "off", chat |-> NoChat, ref |-> NoHandle, victim |-> NoHandle,
         bytes |-> {}, todo |-> {}, cmd |-> NoCommand]

TypeOK ==
    /\ proc \in [Procs -> Proc]
    /\ \A p \in Callers : proc[p].pc \in CallerSteps \cup SweepSteps
    /\ \A h \in Handles : proc[h].pc \in TaskSteps \cup SweepSteps
    /\ map \in [Chats -> Handles \cup {NoHandle}]
    /\ chatOf \in [Handles -> Chats \cup {NoChat}]
    /\ replica \in [Handles -> SUBSET Ops]
    /\ woken \subseteq Handles
    /\ armed \subseteq Handles
    /\ snap \in [Chats -> SUBSET Ops]
    /\ ledger \subseteq Commands
    /\ queued \subseteq Commands
    /\ taken \in [Commands -> Nat]
    /\ written \in [Chats -> SUBSET Ops]
    /\ purged \subseteq Chats
    /\ purges \in 0..MaxPurges
    /\ raced \subseteq Chats

Init ==
    /\ proc = [p \in Procs |-> [Idle EXCEPT !.pc = IF p \in Callers THEN "off" ELSE "unborn"]]
    /\ map = [c \in Chats |-> NoHandle]
    /\ chatOf = [h \in Handles |-> NoChat]
    /\ replica = [h \in Handles |-> {}]
    /\ woken = {} /\ armed = {}
    /\ snap = [c \in Chats |-> {}]
    /\ ledger = {} /\ queued = {}
    /\ taken = [c \in Commands |-> 0]
    /\ written = [c \in Chats |-> {}]
    /\ purged = {} /\ purges = 0 /\ raced = {}

-----------------------------------------------------------------------------
(* References, pins, saves *)

(* A process holds a strong reference to h. A task upgrades its weak one    *)
(* for a pass; subscribers and runs keep only a receiver, or the document.  *)
HoldsBy(p, h) ==
    \/ proc[p].victim = h /\ proc[p].pc \in {"export", "put", "store"}
    \/ /\ proc[p].ref = h
       /\ proc[p].pc \in {"use", "sweep", "export", "put", "store",
                          "drain", "claim", "execute"}
Held(h) == \E p \in Procs : HoldsBy(p, h)
Alive(h) == Held(h) \/ \E c \in Chats : map[c] = h

(* Somebody still holds a handle of chat c, or what he exported from it.    *)
Straggling(c) == \E h \in Handles : chatOf[h] = c /\ Held(h)

(* Commands of h without an outcome that the ledger does not know.          *)
Pending(h) ==
    {c \in Commands : /\ <<"command", c>> \in replica[h]
                      /\ <<"outcome", c>> \notin replica[h]
                      /\ c \notin ledger}

PinnedByUse(h) ==
    \E p \in Callers : proc[p].pc \in {"watching", "running"} /\ proc[p].ref = h
Pinned(h) ==
    \/ \E p \in Callers : proc[p].pc \in {"watching", "running"} /\ proc[p].ref = h
    \/ chatOf[h] \in Hosted /\ Pending(h) # {}

OverBudget == Cardinality({c \in Chats : map[c] # NoHandle}) > Cap

(* Another export of chat c is on its way to the store.                     *)
SaveUnderWay(c, p) ==
    \E q \in Procs \ {p} : proc[q].pc \in {"put", "store"} /\ chatOf[proc[q].victim] = c

Race(c, cond) == raced' = IF cond THEN raced \cup {c} ELSE raced

(* A commit to h by this engine: it bumps the change watch.                 *)
WriteTo(h, new) ==
    /\ replica' = [replica EXCEPT ![h] = @ \cup new]
    /\ written' = [written EXCEPT ![chatOf[h]] = @ \cup new]
    /\ woken' = woken \cup {h}
    /\ Race(chatOf[h], map[chatOf[h]] # h)

Goto(p, step) == proc' = [proc EXCEPT ![p].pc = step]

-----------------------------------------------------------------------------
(* Opening *)

(* The chat is warm: touch and return its handle.                           *)
OpenHit(p, c) ==
    /\ proc[p].pc = "off" /\ map[c] # NoHandle
    /\ proc' = [proc EXCEPT ![p].pc = "use", ![p].chat = c, ![p].ref = map[c]]
    /\ UNCHANGED <<map, chatOf, docVars, armed, snap, ledgerVars, queued, purgeVars, raced>>

(* It is not: load the snapshot, outside the lock of the map.               *)
OpenMiss(p, c) ==
    /\ proc[p].pc = "off" /\ map[c] = NoHandle
    /\ proc' = [proc EXCEPT ![p].pc = "insert", ![p].chat = c, ![p].bytes = snap[c]]
    /\ UNCHANGED <<map, chatOf, docVars, armed, snap, ledgerVars, queued, purgeVars, raced>>

(* A racing open was first: its handle is kept.                             *)
InsertKeepsFirst(p) ==
    LET c == proc[p].chat IN
    /\ proc[p].pc = "insert" /\ map[c] # NoHandle
    /\ proc' = [proc EXCEPT ![p].pc = "use", ![p].ref = map[c], ![p].bytes = {}]
    /\ UNCHANGED <<map, chatOf, docVars, armed, snap, ledgerVars, queued, purgeVars, raced>>

(* Insert the new handle, spawn its task, and begin the LRU pass.           *)
Insert(p, h) ==
    LET c == proc[p].chat IN
    /\ proc[p].pc = "insert" /\ map[c] = NoHandle
    /\ proc[h].pc = "unborn"
    /\ \A g \in Handles : proc[g].pc = "unborn" => h <= g
    /\ map' = [map EXCEPT ![c] = h]
    /\ chatOf' = [chatOf EXCEPT ![h] = c]
    /\ replica' = [replica EXCEPT ![h] = proc[p].bytes]
    /\ proc' = [proc EXCEPT
                 ![p].pc = "sweep", ![p].ref = h, ![p].bytes = {},
                 ![p].todo = {d \in Chats : map[d] # NoHandle} \cup {c},
                 ![h].pc = "boot", ![h].chat = c, ![h].ref = h]
    /\ purged' = purged \ {c}
    /\ Race(c, Straggling(c) \/ proc[p].bytes # snap[c])
    /\ UNCHANGED <<woken, written, armed, snap, ledgerVars, queued, purges>>

-----------------------------------------------------------------------------
(* evict_over_budget. The list of chats is taken once; budget and pins are  *)
(* looked at again for each. Its order, oldest access first, is by wall     *)
(* clock, which ties and steps: the model takes every order.                *)

AfterSweepWaits(p) == "wait"
AfterSweep(p) == IF p \in Callers THEN "use" ELSE "wait"

SweepEnds(p) ==
    /\ proc[p].pc = "sweep"
    /\ ~OverBudget \/ proc[p].todo = {}
    /\ proc' = [proc EXCEPT ![p].pc = AfterSweep(p), ![p].todo = {}]
    /\ UNCHANGED <<map, chatOf, docVars, armed, snap, ledgerVars, queued, purgeVars, raced>>

Spare(p, c) ==
    /\ proc[p].pc = "sweep" /\ OverBudget /\ c \in proc[p].todo
    /\ map[c] = NoHandle \/ Pinned(map[c])
    /\ proc' = [proc EXCEPT ![p].todo = @ \ {c}]
    /\ UNCHANGED <<map, chatOf, docVars, armed, snap, ledgerVars, queued, purgeVars, raced>>

(* Out of the map first; the final flush follows outside its lock.          *)
EvictUnsaved(p, c) ==
    /\ proc[p].pc = "sweep" /\ OverBudget /\ c \in proc[p].todo
    /\ map[c] # NoHandle /\ ~Pinned(map[c])
    /\ map' = [map EXCEPT ![c] = NoHandle]
    /\ proc' = [proc EXCEPT ![p].todo = @ \ {c}]
    /\ UNCHANGED <<chatOf, docVars, armed, snap, ledgerVars, queued, purgeVars, raced>>

Evict(p, c) ==
    /\ proc[p].pc = "sweep" /\ OverBudget /\ c \in proc[p].todo
    /\ map[c] # NoHandle /\ ~Pinned(map[c])
    /\ map' = [map EXCEPT ![c] = NoHandle]
    /\ proc' = [proc EXCEPT ![p].pc = "export", ![p].victim = map[c], ![p].todo = @ \ {c}]
    /\ UNCHANGED <<chatOf, docVars, armed, snap, ledgerVars, queued, purgeVars, raced>>

-----------------------------------------------------------------------------
(* save_snapshot: export the document, then write the row. Nothing orders   *)
(* two saves of one chat.                                                   *)

Exports(p, h, next) ==
    /\ proc' = [proc EXCEPT ![p].pc = next, ![p].victim = h, ![p].bytes = replica[h]]
    /\ Race(chatOf[h], SaveUnderWay(chatOf[h], p))

Stores(p, next) ==
    /\ snap' = [snap EXCEPT ![chatOf[proc[p].victim]] = proc[p].bytes]
    /\ proc' = [proc EXCEPT ![p] = [next EXCEPT !.victim = NoHandle, !.bytes = {}]]

ExportVictim(p) ==
    /\ proc[p].pc = "export"
    /\ Exports(p, proc[p].victim, "put")
    /\ UNCHANGED <<map, chatOf, docVars, armed, snap, ledgerVars, queued, purgeVars>>

PutVictim(p) ==
    /\ proc[p].pc = "put"
    /\ Stores(p, [proc[p] EXCEPT !.pc = "sweep"])
    /\ UNCHANGED <<map, chatOf, docVars, armed, ledgerVars, queued, purgeVars, raced>>

(* purge_chat: out of the map, then delete the row.                         *)
PurgeUnmap(p, c) ==
    /\ proc[p].pc = "off" /\ purges < MaxPurges
    /\ map' = [map EXCEPT ![c] = NoHandle]
    /\ purges' = purges + 1
    /\ proc' = [proc EXCEPT ![p].pc = "delete", ![p].chat = c]
    /\ written' = [written EXCEPT ![c] = {}]
    /\ Race(c, Straggling(c))
    /\ UNCHANGED <<chatOf, replica, woken, armed, snap, ledgerVars, queued, purged>>

KeepSnapshot(c) == snap
DeleteSnapshot(c) == [snap EXCEPT ![c] = {}]

PurgeDelete(p) ==
    LET c == proc[p].chat IN
    /\ proc[p].pc = "delete"
    /\ snap' = DeleteSnapshot(c)
    /\ written' = [written EXCEPT ![c] = {}]
    /\ purged' = IF map[c] = NoHandle THEN purged \cup {c} ELSE purged
    /\ proc' = [proc EXCEPT ![p] = Idle]
    /\ Race(c, map[c] # NoHandle \/ Straggling(c))
    /\ UNCHANGED <<map, chatOf, replica, woken, armed, ledgerVars, queued, purges>>

-----------------------------------------------------------------------------
(* What callers do with a handle *)

(* A nudge, or a caller that only looked.                                   *)
Release(p) ==
    /\ proc[p].pc = "use"
    /\ proc' = [proc EXCEPT ![p] = Idle]
    /\ UNCHANGED <<map, chatOf, docVars, armed, snap, ledgerVars, queued, purgeVars, raced>>

QueueCommand(p, c) ==
    /\ proc[p].pc = "use" /\ proc[p].chat = ChatOf[c]
    /\ c \notin queued
    /\ WriteTo(proc[p].ref, {<<"command", c>>})
    /\ queued' = queued \cup {c}
    /\ proc' = [proc EXCEPT ![p] = Idle]
    /\ UNCHANGED <<map, chatOf, armed, snap, ledgerVars, purgeVars>>

(* WATCH_DOC_MESSAGES keeps the receiver and drops the handle.              *)
Attach(p) ==
    /\ proc[p].pc = "use"
    /\ Goto(p, "watching")
    /\ UNCHANGED <<map, chatOf, docVars, armed, snap, ledgerVars, queued, purgeVars, raced>>

(* dispatch: the user message, and a run that keeps the document only.      *)
Dispatch(p) ==
    /\ p \in Runners /\ proc[p].pc = "use"
    /\ <<"message", p>> \notin replica[proc[p].ref]
    /\ WriteTo(proc[p].ref, {<<"message", p>>})
    /\ Goto(p, "running")
    /\ UNCHANGED <<map, chatOf, armed, snap, ledgerVars, queued, purgeVars>>

RunWrites(p) ==
    /\ proc[p].pc = "running"
    /\ <<"part", p>> \notin replica[proc[p].ref]
    /\ WriteTo(proc[p].ref, {<<"part", p>>})
    /\ UNCHANGED <<proc, map, chatOf, armed, snap, ledgerVars, queued, purgeVars>>

Leave(p) ==
    /\ proc[p].pc \in {"watching", "running"}
    /\ proc' = [proc EXCEPT ![p] = Idle]
    /\ UNCHANGED <<map, chatOf, docVars, armed, snap, ledgerVars, queued, purgeVars, raced>>

(* The room of a living handle imports a command, of another device or of   *)
(* another handle of the same chat.                                         *)
Receive(h, c) ==
    /\ chatOf[h] = ChatOf[c] /\ Alive(h)
    /\ <<"command", c>> \notin replica[h]
    /\ replica' = [replica EXCEPT ![h] = @ \cup {<<"command", c>>}]
    /\ woken' = woken \cup {h}
    /\ queued' = queued \cup {c}
    /\ UNCHANGED <<proc, map, chatOf, written, armed, snap, ledgerVars, purgeVars, raced>>

-----------------------------------------------------------------------------
(* chat_task and its drain passes *)

TaskBegins(h) ==
    /\ proc[h].pc = "boot"
    /\ Goto(h, IF Alive(h) THEN "drain" ELSE "ended")
    /\ UNCHANGED <<map, chatOf, docVars, armed, snap, ledgerVars, queued, purgeVars, raced>>

(* The change watch fired: drain, with a save to follow.                    *)
TaskWakes(h) ==
    /\ proc[h].pc = "wait" /\ h \in woken /\ Alive(h)
    /\ Goto(h, "drain")
    /\ woken' = woken \ {h}
    /\ armed' = armed \cup {h}
    /\ UNCHANGED <<map, chatOf, replica, written, snap, ledgerVars, queued, purgeVars, raced>>

TaskEnds(h) ==
    /\ proc[h].pc = "wait" /\ ~Alive(h)
    /\ Goto(h, "ended")
    /\ UNCHANGED <<map, chatOf, docVars, armed, snap, ledgerVars, queued, purgeVars, raced>>

(* The deadline fired: save, then an LRU pass.                              *)
Deadline(h) ==
    /\ proc[h].pc = "wait" /\ h \in armed /\ Alive(h)
    /\ armed' = armed \ {h}
    /\ Exports(h, h, "store")
    /\ UNCHANGED <<map, chatOf, docVars, snap, ledgerVars, queued, purgeVars>>

Saved(h) ==
    /\ proc[h].pc = "store"
    /\ Stores(h, [proc[h] EXCEPT !.pc = "sweep", !.todo = {c \in Chats : map[c] # NoHandle}])
    /\ UNCHANGED <<map, chatOf, docVars, armed, ledgerVars, queued, purgeVars, raced>>

(* Find a command that is pending and not processed; only a host looks.     *)
Find(h, c) ==
    /\ proc[h].pc = "drain" /\ chatOf[h] \in Hosted /\ c \in Pending(h)
    /\ proc' = [proc EXCEPT ![h].pc = "claim", ![h].cmd = c]
    /\ UNCHANGED <<map, chatOf, docVars, armed, snap, ledgerVars, queued, purgeVars, raced>>

DrainEnds(h) ==
    /\ proc[h].pc = "drain" /\ (chatOf[h] \notin Hosted \/ Pending(h) = {})
    /\ Goto(h, "wait")
    /\ UNCHANGED <<map, chatOf, docVars, armed, snap, ledgerVars, queued, purgeVars, raced>>

ForgetProcessed(c) == ledger
MarkProcessed(c) == ledger \cup {c}

(* mark_processed; whether this call was the one that claimed is not asked. *)
(* What follows is the execution, or an Expired or Superseded outcome.      *)
Claim(h) ==
    LET c == proc[h].cmd IN
    /\ proc[h].pc = "claim"
    /\ ledger' = MarkProcessed(c)
    /\ taken' = [taken EXCEPT ![c] = @ + 1]
    /\ Goto(h, "execute")
    /\ UNCHANGED <<map, chatOf, docVars, armed, snap, queued, purgeVars, raced>>

Resolve(h) ==
    LET c == proc[h].cmd IN
    /\ proc[h].pc = "execute"
    /\ WriteTo(h, {<<"outcome", c>>})
    /\ proc' = [proc EXCEPT ![h].pc = "drain", ![h].cmd = NoCommand]
    /\ UNCHANGED <<map, chatOf, armed, snap, ledgerVars, queued, purgeVars>>

-----------------------------------------------------------------------------
CallerNext(p) ==
    \/ \E c \in Chats : OpenHit(p, c) \/ OpenMiss(p, c) \/ PurgeUnmap(p, c)
    \/ \E h \in Handles : Insert(p, h)
    \/ InsertKeepsFirst(p) \/ PurgeDelete(p)
    \/ Release(p) \/ Attach(p) \/ Dispatch(p) \/ RunWrites(p) \/ Leave(p)
    \/ \E c \in Commands : QueueCommand(p, c)

TaskNext(h) ==
    \/ TaskBegins(h) \/ TaskWakes(h) \/ TaskEnds(h) \/ Deadline(h) \/ Saved(h)
    \/ \E c \in Commands : Find(h, c)
    \/ DrainEnds(h) \/ Claim(h) \/ Resolve(h)

Sweep(p) ==
    \/ SweepEnds(p)
    \/ \E c \in Chats : Spare(p, c) \/ Evict(p, c)
    \/ ExportVictim(p) \/ PutVictim(p)

Next ==
    \/ \E p \in Callers : CallerNext(p)
    \/ \E h \in Handles : TaskNext(h)
    \/ \E p \in Procs : Sweep(p)
    \/ \E h \in Handles, c \in Commands : Receive(h, c)

(* Spawned tasks are polled and timers fire; an execution returns (what     *)
(* RunEngine's CallsReturn checks). Nothing is assumed of callers.          *)
Fairness == \A h \in Handles : WF_vars(TaskNext(h) \/ Sweep(h))

Spec == Init /\ [][Next]_vars /\ Fairness

-----------------------------------------------------------------------------
(* Properties *)

(* What opening chat c now, or once the flushes under way are done, brings. *)
Flushing(c) == {p \in Procs : proc[p].pc \in {"export", "put"} /\ chatOf[proc[p].victim] = c}
Kept(c) ==
    IF map[c] # NoHandle THEN replica[map[c]]
    ELSE snap[c] \cup UNION {IF proc[p].pc = "put" THEN proc[p].bytes
                             ELSE replica[proc[p].victim] : p \in Flushing(c)}

(* The next three are worded after the code's comments; TLC refutes each,   *)
(* by the races that the three after them excuse.                           *)

(* "Eviction flushes a final snapshot, so reopen loses nothing"             *)
(* (doc_host.rs:459): a chat that is warm again has all that was written    *)
(* into it on this device.                                                  *)
ReopenLosesNothing ==
    \A c \in Chats : map[c] # NoHandle => written[c] \subseteq replica[map[c]]

(* "drain commands host-only with processed-ledger idempotence"             *)
(* (ARCHITECTURE.md:191): a command is taken on by one drain pass, whatever *)
(* handles of its chat are alive (doc_host.rs:682-714).                     *)
TakenOnce == \A c \in Commands : taken[c] <= 1

(* "Drop a chat's doc unconditionally and delete its local snapshot"        *)
(* (doc_host.rs:522): a deleted chat that nobody has opened again has no    *)
(* snapshot, whatever saves were under way.                                 *)
PurgeIsFinal == \A c \in purged : snap[c] = {}

(* Nothing this engine wrote into a chat is lost by eviction and reopening, *)
(* unless the chat was in a race: a handle inserted while an older one was  *)
(* still in someone's hands or its snapshot moved on, a write through a     *)
(* handle that had left the map, two saves at once (doc_host.rs:449-498).   *)
LossNeedsRace == \A c \in Chats : c \notin raced => written[c] \subseteq Kept(c)

(* Two drain passes execute one command only if its chat had two handles:   *)
(* the ledger is read and marked in two calls, and the second's answer is   *)
(* ignored (doc_host.rs:682-714).                                           *)
TwiceNeedsRace == \A c \in Commands : taken[c] > 1 => ChatOf[c] \in raced

(* The snapshot of a deleted chat comes back only if somebody still held    *)
(* the chat's handle when it was purged (doc_host.rs:525-531).              *)
PurgedStaysGone == \A c \in purged : c \notin raced => snap[c] = {}

(* A command that reached the warm document of a hosted chat is claimed:    *)
(* the pin keeps the handle until its task has drained it, whatever opens,  *)
(* saves and evictions go on (doc_host.rs:500-520, 1020-1068). Deleting the *)
(* chat is the only excuse.                                                 *)
PendingIsDrained ==
    \A c \in Commands :
        LET h == map[ChatOf[c]] IN
        ( /\ ChatOf[c] \in Hosted /\ h # NoHandle
          /\ <<"command", c>> \in replica[h] /\ <<"outcome", c>> \notin replica[h] )
        ~> (c \in ledger \/ purges > 0)
=============================================================================
