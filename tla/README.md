# A verification project for Comet (agent-desk)

TLA+ models of the parts of Comet on which a user's prompt, stop or answer
depends: the durable command plane between devices, the engine that runs
agents, the recovery after a crash, the engine's warm documents, the rooms that
keep replicas converged, the relay between devices, and the transcript from the
agent's events to a watching screen. TLC checks small instances of each
model; TLAPS proves the invariants that matter most for every value of the
constants. Paths below are relative to the repository's `crates/` unless they
start with `edge/`.

## 1. The system

Comet runs coding agents ("harnesses") on a user's devices and shows every chat
on all of them. A chat lives in a Loro document, replicated between the engines
of the user's devices through a room at the edge. Its workspace row names the
device that hosts it; only the host runs the agent. Every other device composes:
it appends command entries to the document, and the host drains them.

| Component | State it keeps | Operations | What makes it correct |
|---|---|---|---|
| command ledger, `doc/src/commands.rs` | none (pure) | `evaluate_command` | the last prompt survives supersession; a moot stop, and only that, is dropped |
| session document, `doc/src/schema.rs` | entries, commands, outcomes (CRDT) | queue, outcome, push, status, resolve | replicas agree on outcomes |
| document host, `engine/src/doc_host.rs` | open handles, one task per chat | open, queue, drain, execute, save, evict, purge | a command runs at most once, and reaches an outcome |
| store, `sync/src/store.rs` | snapshots, processed ledger (SQLite) | load, save, claim | a claim precedes its effect |
| workspace host, `engine/src/workspace_host.rs` | registry document: chats, devices, spaces | is_host, claim, re-home | one device believes it is the host (eventually) |
| sessions engine, `engine/src/sessions.rs` | runs map, statuses, per run a mailbox, a question table, a cancel signal | dispatch, steer, interrupt, respond, `drive_run`, `recover_stale` | one runtime per chat, stops settle, questions are answerable, nothing accepted is lost |
| run journal, `engine/src/run_journal.rs` | JSONL per chat, revival budget | append, replay, stale scan | what died is found again, without a boot loop |
| room client, `sync/src/room.rs` | socket, session, batches not yet acknowledged, fragments | dial, join, send, import, probe, deadline, redial | a quiet session is in sync; replicas only grow |
| session room, `edge/src/session-room.ts` | document, log, unflushed updates, replay counter, backup | join, update, fragments, flush, hibernate, replay, reset, backup | an acknowledged replica converges with the room; a backup is not hollowed out |
| relay, `rpc/src/device_room.rs`, `client.rs`, `server.rs`, `edge/src/device-room.ts` | cached links, sockets, virtual connections, kept nudges | dial, probe, call, relay, close, nudge | a call returns; a connection is reaped; a nudge opens its chat |
| part fold, `doc/src/parts.rs`, and segment writer, `doc/src/schema.rs` | parts, index and parts already written | fold, begin, sync, finish | the document gets what was folded |
| transcript watch, `engine/src/doc_host.rs`, `rpc.rs`, and deltas, `doc/src/transcript_delta.rs` | mirror, its dirty mark, receivers, the last frame's base | publish, attach, diff, apply | apply(diff(a, b), a) = b; a watcher ends with the transcript |
| harness adapters, `harness/src` | child processes | run, steer, interrupt | events in order, one Done per turn |
| auth, accounts, git, repositories, diffs, terminals, uploads, titles, catalogs, updater, `minswe`, the desktop UI (55k lines), the mobile app, edge routes, the daemon | — | — | not modelled; `PROJECT.json` gives each one's reason |

How they interact. A composer's `queue_command` commits an entry to its
replica; the room clients carry it; the change subscription of the host's
replica wakes `chat_task`, whose drain pass claims the entry in the ledger,
executes it against the sessions engine, and commits the outcome. A dispatch
either puts the prompt into the mailbox of a live run or replaces that run. The
run's task, `drive_run`, journals each event of the harness's stream before it
folds it into the document. On boot, `recover_stale` finds the journals that do
not end in a `Done`, stamps what they left streaming, and may dispatch the last
prompt again. Tasks run on a multi-threaded executor and share state under
short locks; the awaits and unlocks between two looks at that state are where
this system is hard, and where the models put their steps.

`PROJECT.json` lists under "hazards" what in this code is hard to test, line by
line; the properties below are aimed at them.

## 2. Modules

| Module | Models | Used by |
|---|---|---|
| `CommandLedger` | the pure rules of `commands.rs` | extended by `CommandPlane` |
| `CommandPlane` | replicas, room, ledger, host row, drain and execution for one chat on several devices | `MCCommandPlane`, `CommandPlane_proofs` |
| `CommandPromise` | abstract: the life of a command on each device, and what an outcome says of it | instantiated by `CommandPlane` |
| `RunEngine` | one chat's runs in one engine: calls, run tasks, harnesses | `MCRunEngine`, `RunEngine_proofs` |
| `RunRecovery` | what of a turn is durable, crashes, the boot sweep | `MCRunRecovery`, `RunRecovery_proofs` |
| `WarmDocs` | one engine's open documents: handles, tasks, saves, eviction, purge | `MCWarmDocs`, `WarmDocs_proofs` |
| `SharedDocument` | abstract: replicas that grow and learn from each other | instantiated by `RoomSync` |
| `RoomSync` | room clients and the session room of one document | `MCRoomSync`, `RoomSync_proofs` |
| `DeviceRelay` | calls and nudges to one device through its room | `MCDeviceRelay`, `DeviceRelay_proofs` |
| `TranscriptDelta` | diff and apply of transcript frames (pure) | extended by `Transcript`, `TranscriptDelta_proofs` |
| `Transcript` | fold, segment writer, message list, watch, streams | `MCTranscript`, `Transcript_proofs` |

`CommandPlane` sees a run only as "the turn that streams"; `RunEngine` sees the
command plane only as callers; `RunRecovery` sees both as a turn and a drain,
and adds what survives a crash. `WarmDocs` opens up the one handle per chat
that `CommandPlane` assumes, `RoomSync` the exchange behind its `Push` and
`Pull`; `SharedDocument` is what that exchange promises, and what a merge of
replicas in `CommandPlane` relies on. `DeviceRelay` carries the nudge that makes
a host `Open` a chat. `Transcript` takes the list of messages that the others
leave out. Each abstraction lets the others' steps happen
at any time, so a property of one does not lean on the timing of another.

### 2.1 CommandPlane

| Variable | In the code |
|---|---|
| `entries` | `SessionCommandEntry` records, immutable once queued |
| `doc`, `room`, `disk` | the open replica, the room's copy, the last saved snapshot: sets of operations, so a merge is a union |
| `opened`, `kick`, `drain` | `DocHost.handles`, the change watch of `chat_task`, and the pass of `drain_commands` |
| `ledger` | the table `processed_commands` |
| `rows`, `rowSeen` | the successive values of the chat row's `deviceId`, and how far each workspace replica has come |
| `live`, `turns` | the turn that the device's run streams |
| `executions` | history: how often a device began executing a command |

One action per operation: `QueueCommand`, `Open`, `Push`, `Pull`,
`SaveSnapshot`, then the pass `BeginDrain`, `Decide` (read, evaluate, claim: no
await in between), `Execute` (one disjunct per command kind, the failing
dispatch included), `Settle`, `EndDrain`. `Crash` drops replica, pass and run.
The position of a command in the Loro list is abstracted to causality: an entry
follows those its author could see. Two concurrent entries are drained in either order.

### 2.2 RunEngine

A *thread* is a call in progress (a caller, or the task of a failed-resume
retry); `pc[t]` names the next step of `dispatch_inner`, `steer` or
`interrupt`. The steps are cut where the code releases the lock of the runs
map or awaits: `Route` (read the map, clone the sender), `Send` (`try_send`),
`Write`; `Lookup`, `Drain` (unpark the question), `Signal`, `Wait` (bounded);
`Insert`, `Working`, `Spawn`. A *run* is a `drive_run` task: `phase[r]` goes
from inserted over starting, turn and parked to closing (out of the loop),
removed (out of the map) and ended. Each arm of its `select!` is an action, and
its bias is in the guards: `Selecting(r)` says that no unobserved cancel is
pending. The harness is outside the code: it streams, asks, completes, fails,
takes prompts from its mailbox and dies whenever it likes.

### 2.3 RunRecovery

Durable: the journal's last event, the `.resume` file, the processed prompts
and the snapshot. Lost in a crash: the document behind the snapshot, the run,
the drain and the sweep. A turn goes through the pipeline's steps in the order
of the code: `JournalEvent`, `CommitEntry` (the coalesced tick), `JournalDone`,
`FinishEntry`, `EndTurn`, and `SaveSnapshot` at any time. The sweep's steps are
those of `recover_stale`: `Scan` (live check, open), `Choose` (prompt,
freshness, budget), `Publish`, `Stamp`, `NoteAttempt`, `Revive`. A crash may
fall between any two steps.

### 2.4 WarmDocs

| Variable | In the code |
|---|---|
| `proc` | where each caller and each `chat_task` stands, the handle it holds, the snapshot it has exported, the chats its LRU pass has still to see |
| `map`, `chatOf`, `replica` | `DocHostInner.handles`, and each `ChatDocHandle`'s chat and document; a handle out of the map lives on in whoever holds it |
| `woken`, `armed` | a task's unseen change and save deadline |
| `snap`, `ledger` | the store's two tables |
| `queued`, `taken`, `written`, `purged`, `raced` | history |

`open` is cut where it leaves the map's lock: `OpenHit`, or `OpenMiss` (load)
and `Insert` or `InsertKeepsFirst`. A save is `Exports`, then `Stores`. The LRU
pass takes the list of chats once and then looks at each: `Spare`, or `Evict`,
`ExportVictim`, `PutVictim`. `purge_chat` is `PurgeUnmap`, then `PurgeDelete`.
A drain pass finds, claims and resolves, and ignores whether its claim was the
first, as the code does.

### 2.5 RoomSync and SharedDocument

| Variable | In the code |
|---|---|
| `doc`, `sock`, `sess` | a replica, its `RoomActor`, its `Session` (joined, outstanding join or probe, batches not acknowledged) |
| `up`, `down` | the two directions of the websocket, in order, lost with it |
| `loaded`, `unflushed`, `frags`, `member`, `cache` | the room's memory |
| `log`, `meta`, `heavy`, `backup` | its durable state: log, meta row, a log too long to replay, the blob of the last backup |
| `mute`, `alarm`, `faults` | a room that accepts sockets and handles nothing; a put under way; the fault budget |

A client's actions are the arms of its actor's loop (`Dial`, `OnJoinOk`,
`ApplyRemote`, `OnAckOk`, `OnFragmentTimeout`, `Probe`, `Deadline`); the room's
are its handlers, each starting with `ensureDoc`, whose replay counts its
attempt durably first and drops the log at the limit (`EnsureDoc`,
`ReplayDies`), and `flush`, `alarm`, hibernation, `/reset-log`. Faults: a
socket lost, a dial refused, a crash of the room, a room gone mute, a log grown
too long, a reset. The refinement mapping is `held <- doc`.

### 2.6 DeviceRelay

`pc[p]` walks a caller through `LinkCache::client` (cached link, dial lock,
cool-down, attempts, readiness probe) and `forward` (send, answer or failure,
`invalidate`). A link `l` has `client[l]`, its pump, and queues `up[l]`,
`down[l]`; a host session `h` has `host[h]`, the host's end, membership in
`hosts`, the room's view, and `cut`, a socket that has died without telling
either end. `conns` and `running` are `HostRelay`'s virtual connections and the
requests they serve; `queued` is `pending_nudges`. The room's actions are
`Relay`, `RelayBack`, `ClientClosed`, `HostClosed` and `Nudge`, which go by
`pickLiveHost`; the supervisor's are `HostJoins`, `HandleFrame`, `HostEnds`.

### 2.7 TranscriptDelta and Transcript

`TranscriptDelta` is `diff_transcript` and `apply_transcript_frame` as operators
over sequences of entries, the desync errors and the reset rule included. The
number of a text part stands for its text, so that an append and its length
check keep their meaning; the upserts and appends of a frame are numbered by the
places in `next` they are of, and applied in that order. In `Transcript`, `run` is the fold of `drive_run` and
its `SegmentWriter`, which knows its entry by a number in the list: `Tick`,
`BeginIndex`, `BeginPush`, `Sync`, `Boundary`, `Stamp`. `WriteUser` and
`MergeForeign` put other entries into the list between any two of those. A
publisher is `chat_task` or a stream that attaches: `TaskWakes`, `Check` (the
number of receivers), `Mark`, `Clear`, or `Read` and `Send`. A stream diffs what
it last sent against what the watch now holds (`FirstFrame`, `NextFrame`), and
its consumer applies the frame and subscribes again on a desync.

## 3. What is checked

| Run | Properties | Instance | Result |
|---|---|---|---|
| `command_home` | `OutcomesAgree`, `LastSteerSurvives` | 2 devices, 2 steers, skewed clocks, 1 crash of the host, fixed host | holds, 3.4M states |
| `command_moves` | `TypeOK`, `AtMostOnce`, `OutcomesAreBacked` | 2 devices, 1 command (run or steer), no row at first, up to 2 row values, 1 crash | holds, 2.8M states |
| `command_live` | `CommandsSettle`, `ImplementsPromise` | a composer and a host that may crash, 2 stops or answers | holds, 354k states |
| `engine_race` | `TypeOK`, `LiveRunReachable`, `HandleIsAttended`, `QuestionAnswerable`, `RetryOnce` | 2 callers, 2 prompts, 3 runs, 1 question | holds, 2.1M states up to symmetry |
| `engine_stop` | `StopsSettle`, `CallsReturn` | 2 callers, 1 prompt, 2 runs, 1 stop, 1 question | holds, 84k states |
| `engine_mailbox` | `PromptNotLost` | 2 callers, 2 prompts, 2 runs | violated, finding 1 |
| `engine_gate` | `GateHolds` | 2 prompts, 2 runs | violated, finding 2 |
| `recovery_boot` | `TypeOK`, `RevivalBudget`, `OrphanHidesBehindDone`, `TwiceNeedsSweep`, `PickedUp`, `StaleIsStamped` | 4 turns, 2 prompts, 3 crashes, budget 1 | holds, 83k states |
| `docs_warm` | `TypeOK`, `LossNeedsRace`, `TwiceNeedsRace`, `PurgedStaysGone`, `PendingIsDrained` | 1 hosted chat, a cap of 0, 2 handles, 2 callers, 1 run, 1 command, 1 deletion | holds, 1.6M states |
| `room_sync` | `TypeOK`, `QuietMeansEqual`, `RecordedBackupGrows`, `ImplementsShared`, `Converges` | 2 clients, 1 writer, 2 operations, 1 per frame, 2 faults, replay limit 2 | holds, 1.5M states |
| `relay_calls` | `TypeOK`, `NoLeakedConn`, `CallsAttended`, `OnlyTakeoverHangs`, `NudgeOpens` | 2 callers, 2 links, 2 host sessions, 1 chat, 2 inputs, 1 fault | holds, 421k states |
| `transcript_watch` | `TypeOK`, `SegmentsWhole`, `FramesReplay`, `StaleNeedsOverlap`, `WatchersSettle` | 1 segment of 2 events, 1 user message, 1 merged entry, 1 watcher, reset floor 2 | holds, 1.1M states |

What the properties say:

- `AtMostOnce`: a device begins a command at most once, though its snapshot may
  bring an old pending entry back after a crash. `OutcomesAreBacked`: whatever
  replica an outcome turns up in, its author claimed the command, and executed
  it if the outcome says so. `OutcomesAgree`: while the host stays, replicas
  never hold two outcomes of one command. `LastSteerSurvives`: supersession
  always leaves a later steer standing. `CommandsSettle`: a queued command gets
  an outcome its composer sees, and the only excuse is an engine crash.
  `ImplementsPromise`: each device takes a command once from unseen over claimed
  and performed to done, one at a time; an outcome is published on the step to
  done only, applied or rejected if the command was performed, expired or
  superseded if not, and a crash in between leaves it done without one. The run
  reaches all of these but expiry, which its clock leaves out and the theorem covers.
- `LiveRunReachable`: a run that means to go on is the one in the runs map.
  `HandleIsAttended`: the map never names a run that is past its own clean-up.
  `QuestionAnswerable`: an open question in the transcript can be answered, or
  is about to be closed. `RetryOnce`: a rejected resume id is retried once.
  `StopsSettle` and `CallsReturn`: stops end runs and calls return although
  the harness may hang.
- `RevivalBudget`: revivals between two completed turns are bounded.
  `PickedUp`: a fresh dead turn with budget left runs again unless the engine
  dies first. `StaleIsStamped`: what a sweep finds streaming it stamps.
  `OrphanHidesBehindDone`: after a boot an entry streams alone only if its
  journal ends in a `Done`, which is the one case the sweep cannot see.
  `TwiceNeedsSweep`: between two crashes only the sweep hands a prompt over a
  second time, and once.
- `LossNeedsRace`: what the engine wrote survives eviction and reopening
  unless the chat's handles or saves overlapped. `TwiceNeedsRace`: two drains
  take one command only if the chat had two handles. `PurgedStaysGone`: a
  deleted snapshot comes back only if a handle outlived the purge.
  `PendingIsDrained`: a pending command keeps its handle until it is claimed.
- `QuietMeansEqual`: a joined session with nothing in flight has what the room
  has. `RecordedBackupGrows`: a recorded backup is replaced by a larger one
  only. `ImplementsShared`: replicas grow, and hold nothing that its writer does
  not. `Converges`: when faults end, joined replicas become equal for good.
- `NoLeakedConn`: a virtual connection has a client, or word of its end is on
  its way. `CallsAttended`: what will end a call that waits is somewhere: its
  link is down, its request, its answer or word of its host's end is on its way,
  or a session the room still lists has it; with the exceptions of the next
  property. `OnlyTakeoverHangs`: a call returns unless its host's socket died
  silently, or its close was kept from the clients because another host socket
  counted as live. `NudgeOpens`: a nudge opens its chat, with the same
  exceptions named.
- `SegmentsWhole`: a finished segment stands in the document as it was
  folded. `FramesReplay`: a consumer holds what its stream last saw and the next
  frame takes it exactly to the present. `StaleNeedsOverlap`, `WatchersSettle`: a
  quiet watcher has the transcript, unless a publication overlapped an attach
  or another. All but `StaleNeedsOverlap` say so unless a writer has lost its
  place (`displaced`).

Conditional properties. `LossNeedsRace`, `TwiceNeedsRace`, `PurgedStaysGone` and
`SegmentsWhole` have an unconditional form that a comment promises and TLC
refutes: `ReopenLosesNothing`, `TakenOnce`, `PurgeIsFinal` and
`WriterKeepsToItsEntry`, which is half of it (section 5). So the overlap itself is not excluded by
anything here: the conditional form says that there is no *other* way to the
damage. Its condition is a history variable. For `WarmDocs` it is at times wider
than the overlap: a chat purged while anybody holds its handle counts as raced
for good, whatever he does with it. `StaleNeedsOverlap` and the exceptions of
`DeviceRelay` are of the same kind; their unconditional forms are observations
in section 5.

Bounds. The races of `RunEngine` need a run that ends, one that replaces it and
one that replaces that or retries it: three runs, and two callers beside the
retry's own thread. `RevivalBudget` needs three crashes to pass its bound (two
notes and the revival between them), and four turns to be revived in.
Commands meet at most one other command of their kind in `evaluate_command`, so
two suffice; the second device is the composer that lags or the host that was.
`MaxTime` 2 with `TTL` 2 lets an entry expire on a skewed clock and not on another.
In `docs_warm` the cap of 0 puts a
handle over the budget whenever it is not pinned, so every open and every save
may evict; two handles are one eviction and one reopening. One chat's pass
evicting the handle of another chat takes two chats, which the theorems of
`WarmDocs_proofs` cover, for any cap. The constraint `Unraced` stops at states
in which a chat is raced: the safety properties say nothing of a raced chat,
and no chat stops being one; `PendingIsDrained` is thereby checked for
behaviours without such overlaps only. `Fits` 1 makes a batch of two operations
go in fragments; two faults allow a reset and then a crash, or a fragment lost
in a rejoin; a replay limit of 2 (3 in the code) lets a room die in replay,
count, and drop its log. In `relay_calls` two sessions are a host and its
successor, and one fault is a silent death, a restart, a wake or a lost link.
`ResetFloor` is 2 (4 in the code), so that transcripts of three entries reach
the reset rule; the constraint `InPlace` stops where an entry was put
before the one being written. From there on `SegmentsWhole` and `FramesReplay`
claim nothing and no step takes them back; the two other properties are
thereby checked for behaviours without it only, and `StaleNeedsOverlap` is
proved for all.
The deadlock check is off where a model may run out of its bounded
inputs and stop. Each property has a mutated operator of its module that
breaks it (`PROJECT.json`, "mutants").

Fairness. In `CommandPlane`: an engine that is up keeps its tasks running,
its room client exchanges what is missing, and a device that was nudged or is
used opens the chat; nothing is assumed of the snapshot timer, of runs, or of
crashes. In `RunEngine`: spawned tasks are polled and timers fire (the grace
deadline, the bounded wait), which tokio provides; nothing is assumed of the
harness, which may never start, stream or obey. In `RunRecovery`: a dead engine
is started again and its tasks are scheduled; nothing is assumed of the
harness or of the snapshot timer. In `WarmDocs`: each `chat_task` is polled, its
deadline fires and the execution it awaits returns (`CallsReturn`); nothing is
assumed of callers, evictions by callers included. In `RoomSync`: actors are
polled, timers fire, frames on an open socket are delivered, a room that is not
mute handles them; faults and writes are never forced, nor are flushes,
hibernation and backups. In `DeviceRelay`: tasks are polled, frames of working
sockets are relayed, closes of working host sockets are seen by the room, a
silence lease fires and the supervisor dials again, handlers return; no close
of a silently dead socket is assumed. In `Transcript`: while some task of the
engine can run, one runs; nothing is assumed of harness, user and other
devices.

## 4. What is proved

For every set of devices, chats, handles, commands, callers, prompts and runs, every bound and
every budget, from the named assumptions on constants in each module:

| Theorem | States |
|---|---|
| `CommandPlane_proofs!TypeCorrect`, `ExecutesAtMostOnce`, `OutcomesAlwaysBacked` | `[]TypeOK`, `[]AtMostOnce`, `[]OutcomesAreBacked` |
| `CommandPlane_proofs!HostOutcomesAgree`, `LastSteerAlwaysSurvives` | `[]OutcomesAgree` for a chat that has a host and keeps it, `[]LastSteerSurvives` |
| `CommandPlane_proofs!CommandsAreKept`, `PassesAlwaysMove`, `HostNeverSleeps` | `[]CommandsKept`: while no engine crashes, an author keeps its entry, and a claimed one is in hand or has its outcome; `[]PassesMove`: a pass never ends early and never gets stuck; `[]HostAwake`: the fixed host does not sleep on a pending command it has not claimed |
| `CommandPlane_proofs!Implements` | `ImplementsPromise` |
| `RunEngine_proofs!TypeCorrect`, `OneRunPerChat`, `NoOrphanedHandle`, `RetriesOnce`, `QuestionsAnswerable` | `[]TypeOK`, `[]LiveRunReachable`, `[]HandleIsAttended`, `[]RetryOnce`, `[]QuestionAnswerable` |
| `RunEngine_proofs!NoEndlessWait` | `[]WaitsEnd`: the run a call waits for has the signal and is over, starting, in its loop or its clean-up, or held by a thread that does not wait |
| `RunRecovery_proofs!TypeCorrect`, `NoBootLoop`, `OrphansHide`, `HandedTwiceAtMost` | `[]TypeOK`, `[]RevivalBudget`, `[]OrphanHidesBehindDone`, `[]TwiceNeedsSweep` |
| `RoomSync_proofs!TypeCorrect`, `WritersHoldAll`, `Implements`, `BackupsGrow` | `[]TypeOK`, the invariant `Committed`, `ImplementsShared`, `RecordedBackupGrows` |
| `RoomSync_proofs!QuietIsInSync` | `[]QuietMeansEqual` |
| `WarmDocs_proofs!TypeCorrect`, `EvictionLosesNothing`, `DrainedOnce`, `PurgeHolds` | `[]TypeOK`, `[]LossNeedsRace`, `[]TwiceNeedsRace`, `[]PurgedStaysGone` |
| `WarmDocs_proofs!NoMissedWakeup` | `[]PendingIsNoticed`: while a command is pending in the warm document of a hosted chat, its task is draining, about to, or has a change to see |
| `DeviceRelay_proofs!TypeCorrect`, `ConnectionsReaped` | `[]TypeOK`, `[]NoLeakedConn` |
| `DeviceRelay_proofs!WaitingCallsAttended`, `AcceptedNudgesKept` | `[]CallsAttended`, and `[]NudgesKept`: an accepted nudge is kept, was sent to a session or has opened its chat, unless more chats are nudged than the queue keeps |
| `TranscriptDelta_proofs!RoundTrip` | `Apply(old, Diff(old, next))` is `next`, and not refused, for any two transcripts that keep one order and whose parts have ids of their own |
| `Transcript_proofs!TypeCorrect`, `AttachedSee`, `SegmentsKept`, `FramesBring` | `[]TypeOK`, `[]StaleNeedsOverlap`, `[]SegmentsWhole`, `[]FramesReplay` |

`NudgesKept`, `PendingIsNoticed`, `CommandsKept`, `PassesMove`, `HostAwake` and `WaitsEnd` are
defined beside their proofs and are in no run: they are the safety halves of
`NudgeOpens`, `PendingIsDrained`, `CommandsSettle` (three of them) and `CallsReturn`, which
are. They say that in no state is the next step towards the promised end missing;
that the step is taken is fairness, and TLC's.

The arguments.

- *At most once.* `AtMostOnce` alone is not inductive: nothing in it stops a
  second `Execute`. `ClaimInv` adds that whatever a device executed is in its
  ledger, and that a command it has decided to execute has not been executed
  yet; `Decide` only takes commands outside the ledger, and a crash keeps the
  ledger and drops the decision. `ReplicasBacked` states `OutcomesAreBacked`
  replica by replica and is preserved by merges, since a union of backed
  replicas is backed, and the ledger only grows.
- *Outcomes agree.* An author never contradicts itself (`AuthorInv`): a pass with
  a command in hand has no outcome of it anywhere, since it picked the command
  outside its ledger and every outcome is backed. While the chat keeps the host
  it has (`FixedHost`), only that host has a pass, so all outcomes have one author
  (`HostInv`). Every other step spreads outcomes and makes none, which is proved
  once (`OthersSpread`).
- *The last steer.* Supersession is decided on what one replica shows at one
  moment; what survives is that a later steer was queued (`SteerInv`). Ids are
  unique, claimed commands are queued ones and issue times are bounded
  (`EntryInv`), so among the later steers one is issued last, and had it been
  superseded, there would be a still later one. That a bounded set of naturals
  has a greatest element comes from the library's well-foundedness of `<`.
- *No command is lost or slept on.* A replica loses nothing but by a crash (`DocsGrow`, with
  `Unopened`: what the first open replaces is empty), a ledger gains only what is
  then in hand (`LedgerMoves`), and a hand lets go only by writing the outcome
  (`HandLetsGo`). That a pass always finds a first entry rests on causality:
  `CausalInv` says that every replica, and what every author could see, is closed under
  "could see"; "first" is then minimal in a well-founded order, the strict inclusion of
  finite sets, and no cycle of entries can hide all of them from `DrainCandidates`.
  `SleepMoves` lists the three things a step can do to a device: leave it as it
  is, wake it, or end its pass, and that only when nothing is left.
  `HostAwake` needs `FixedHost`: when a row moves, the new host learns it without a
  change of the session document and stays asleep until the next one.
- *Command promise.* The stage of a command is read off the ledger and the pass;
  with `ClaimInv` and `SteerInv` each step of `CommandPlane` maps to one step of
  `CommandPromise` or leaves the stages alone and at most loses outcomes.
- *One run per chat.* `MapInv` joins `LiveRunReachable` and `HandleIsAttended`:
  an insertion cancels the run it replaces by dropping its sender, and
  `remove_run` forgets an entry only if it still names the run that leaves.
  It needs `OwnsBirth`: between its insertion and its spawn a run is owned by
  one thread.
- *Retry once.* `RetryInv`: only callers inject a resume id, and a run whose
  maker is a retry has none.
- *Questions.* `QuestionInv` counts the two engine events of a question on
  their way through the run's queue, in order.
- *No endless wait.* `WaitInv`: whoever waits has sent the signal, and a run that is in the map
  without a task (`inserted`) has a maker that stands right before the spawn. With
  `HandleIsAttended` that covers every phase; and since a maker never waits, calls cannot
  wait for each other in a ring. It uses `RetryInv`: a retry's thread is off until
  its run has ended, so it cannot be the maker that is overwritten.
- *No boot loop.* `CountInv`: revivals are at most the noted attempts plus one,
  and between a note and its dispatch at most the notes. The one in excess is
  real: a turn may complete, and clear the budget, between the sweep's note and
  its dispatch. While a completed turn has not yet cleared the budget, at most
  the sweep under way can add a revival. `SpendInv` carries the comparison with
  the budget from the sweep's choice to its note; that nothing else raises the
  budget in between is what makes `attempts <= MaxAutoResume` invariant.

- *Orphans.* `JournalInv` says what the sweep may conclude from the journal: an
  open journal without a live turn is a sweep's that has not come to it, a
  published turn has closed it, and without a journal no entry ever streamed.
- *Handed over twice.* `HandedInv`: the executor hands over what it has marked,
  once; at most one prompt has one more, and while the sweep is under way none.
- *Shared document.* `Within(G)` says that every operation in any replica,
  channel, batch, fragment or room state lies in `G`. It is proved to be
  preserved for every `G` that the committed operations stay in, once, and used
  twice: with all operations it is the type invariant, with `Committed`, the
  operations that their writer holds, it is `WritersHoldAll`. From that each
  step of `RoomSync` maps to a `Commit`, a `Learn` or a stutter.
- *Quiet is in sync.* `QuietMeansEqual` says nothing of a session that is not
  quiet. `SyncInv` does: what a member lacks of the room's content is in an
  update on its way down (`DownInv`); what the room lacks of a joined replica is
  on its way up, or in a batch still unacknowledged whose fragment the room
  cannot place, so that a `fragment_timeout` will bring it again (`UpInv`);
  channels and sessions exist only for connected members (`Membership`); and
  replay attempts are only counted while nobody is in the room (`ReplayInv`),
  without which a log dropped at the limit would leave a quiet member ahead.
- *Warm documents.* The three properties speak of chats that are in no race, so
  the invariant `DocsIInv` says, of each such chat, what makes it safe: at most
  one of its handles is alive (`One`), that handle has all that was written
  (`Whole`), at most one save of it is under way (`OneSaver`), and between the
  eviction and the row the bytes on their way have it (`Backed`). `One` is what
  makes the two calls on the ledger harmless (`Once`): a task that looked and
  has not yet marked is the only one awake. `BaseInv` carries the bookkeeping:
  a handle keeps its chat, and a victim never comes back to the map. The steps
  that write nothing, write through a handle, export and store are each proved
  once, for all actions of their kind.
- *No wake-up is missed.* `NoticeInv`: whatever comes to a document bumps the
  change watch of its handle, in whatever step its task is; a task that goes back
  to waiting has left nothing pending, and one that ends is of a handle that no
  entry of the map names, nor ever will. This is the safety half of
  `PendingIsDrained`; `DocsIInv` supplies that a mapped handle has a task.

- *Connections are reaped.* Sessions come one after the other (`SessionInv`): a
  session joins when all before it have ended, so the one that is up is the
  greatest, the room lists it and has not found it stale, and what `LiveHost`
  picks is that session as long as its socket works. `ConnInv` then looks into
  the queue: not only each connection, but each request that will open one is of
  a listed client, or word of that client's end comes *after* it (`TellsAfter`).
  A request of a client that is gone cannot enter a queue behind that word, since
  the room takes a client's last frame before its close.
- *Waiting calls are attended.* `CallsAttended` follows a call's request from the
  link over the room and the host session to the answer's way back. It needs to
  know of the links that one is dialed once and never up again (`Aged`), and that
  the room lists each that is up (`LinkInv`), so that an answer or a bounce finds
  its client or the call has failed; and that word of a client's end is in a
  host's queue only when that end has come (`FramesBorn`), so that a session drops
  the requests of ended links only. A step that leaves one call's end where it
  is is handled once (`KeepsEnd`). This is the safety half of
  `OnlyTakeoverHangs`: what is left to TLC is that each of these moves on.
- *Nudges are kept.* `QueueInv`: the queue keeps one nudge of each chat, so one
  that is dropped at the cap means that more chats were nudged (`DistinctCount`);
  and a session that has not joined was sent none, so that the replay of a join
  replaces nothing. This is the safety half of `NudgeOpens`.
- *A stale watch needs an overlap.* `WatchInv`, of behaviours without one: at most
  one publisher is between its read and its send (`OneSends`), what it read is the
  document or the document's change is still to be published (`ReadsCurrent`),
  the same of the watch while somebody is attached (`AttendedCurrent`) and while
  the mirror is not marked dirty (`CleanCurrent`), and the task clears the watch
  only with nobody attached (`ClearsAlone`), which is what an overlap breaks.
- *Segments are whole.* `SegmentsWhole` says nothing of the segment being written.
  `Holds` does: the entry at the writer's place is its own, streaming, and has
  the parts the writer remembers; so `Sync` finds each part it looks for, and
  leaves what was folded. `OwnEntry` says that a segment is pushed once.
- *Frames.* `RoundTrip` is about two loops over a frame. Each recursive function
  is unfolded once, and induction is done over the set of the places up to
  which a statement holds (`NatInduct`, from the well-foundedness of `<`), so no
  theorem that takes an operator is needed. `Walked` is the invariant of the
  upserts: the places passed are as in `next`, and behind them stand, in the
  order of `next`, the old entries whose turn has not come. `AppendOne` is a step of
  the appends. Of the system it needs three invariants: the lists in the watch,
  on their way there and in a stream were the document's once, and its entries
  are never removed nor swapped (`OrderInv`; `Embeds` for one step); parts are
  named by their places (`NamesInv`); and a consumer holds what its stream diffs
  from (`StreamInv`), also after an empty delta, which is not sent.

Only model-checked is liveness (`CommandsSettle`, `StopsSettle`, `CallsReturn`,
`PickedUp`, `StaleIsStamped`, `PendingIsDrained`, `Converges`, `OnlyTakeoverHangs`,
`NudgeOpens`, `WatchersSettle`), which the proof system's fairness rules do
not reach here. The properties that TLC refutes (section 5) are no theorems.

## 5. Findings

Two runs expect a violation of a property worded after the comment that
promises it; `PROJECT.json` quotes the lines.

1. **An accepted prompt is lost** (`engine_mailbox`). A mailbox accepts as long
   as its receiver exists. When the run ends first, in particular when the
   failed-resume retry retires it (`engine/src/sessions.rs:1258-1299`), what the
   mailbox holds is dropped, though its command is `Applied`.
2. **The updater's gate opens under a turn** (`engine_gate`).
   `sessions.rs:1472-1473` first leaves the map and then writes the status.

Four more disagreements are excused by a condition in what the runs check. The
unconditional property, worded after the comment, and a configuration that makes
TLC refute it in under a minute stand beside them.

- **A reopened chat lacks what was written** (`ReopenLosesNothing`,
  `MCWarmDocs_reopen.cfg`; excused by `raced` in `LossNeedsRace`). "Eviction
  flushes a final snapshot, so reopen loses nothing" (`engine/src/doc_host.rs:459`),
  but the handle leaves the map (484-490) before the flush (494). An open in
  between loads the older snapshot; and a caller that still has the evicted handle
  goes on writing into it. In the trace a composer's command is lost in this way, on a
  device that does not host the chat; the room brings it back only if the evicted
  handle's client had sent it. An open may even evict the very handle it
  returns, if that is the only one not pinned.
- **A command is taken twice** (`TakenOnce`, `MCWarmDocs_twice.cfg`; excused by
  `raced` in `TwiceNeedsRace`). "drain commands host-only with processed-ledger
  idempotence" (`ARCHITECTURE.md:191`), but while the evicted handle's drain pass
  goes on, the reopened one's task begins another; both read the ledger
  (`doc_host.rs:682-692`) before either marks it (714), and the answer of
  `mark_processed`, which tells the second (`sync/src/store.rs:104-105`), is ignored.
- **A deleted chat's snapshot comes back** (`PurgeIsFinal`, `MCWarmDocs_purge.cfg`;
  excused by `raced` in `PurgedStaysGone`). "the chat is gone" (`doc_host.rs:523`), but
  `purge_chat` (525-531) waits for nobody: a task whose handle somebody still
  holds, or that is in its save, stores the snapshot after the row is deleted.
- **A run writes into the user's message** (`WriterKeepsToItsEntry`,
  `MCTranscript_place.cfg`; excused by `displaced` in `SegmentsWhole`).
  "Incremental streaming writer for one assistant entry" (`doc/src/schema.rs:568`),
  but `SegmentWriter::begin` reads the length of the list (594) and then pushes
  (595): the user message of a steer that falls in between (`sessions.rs:490-491`) has
  the number the writer keeps, and gets the run's parts and its status. A merge that
  puts an entry before the writer's does the same later.

Observations: what the code does in a corner that a comment seems to exclude.
No run is about them; where a property is, its condition names the corner.

- A stop that was composed before the running turn wrote its entry is dropped as
  "aimed at a turn that already finished": `drain_commands` uses ids of
  transcript entries where `EvaluationContext` asks for ids of turns
  (`engine/src/doc_host.rs:699-701`).
- An entry may stream for ever. The journal's `Done` is durable before the
  document's entry is; after a crash in between, the journal is not stale and no
  sweep looks at the document (the condition in `OrphanHidesBehindDone`).
- A prompt may be handed over twice. `recover_stale` opens the document, which
  starts the executor, and then reads the last user message, which may by now
  be the executor's (the condition in `TwiceNeedsSweep`).
- A new watcher may be left an empty mirror: `publish_messages_if_watched` reads
  the number of receivers before it clears the mirror (`doc_host.rs:311-316`), and an
  attach falls in between (`overlap` in `StaleNeedsOverlap`; the comment at 197-199
  speaks of this race). The next commit heals it.
- A backup put before a crash and not yet recorded leaves the next one unguarded
  by its version (`edge/src/session-room.ts:879-881`, the condition in
  `RecordedBackupGrows`). An update accepted while the put is awaited is marked
  clean; and an alarm that is refused the put is armed again only by the next
  update, where the comment (861-862) says that the chain keeps trying.
- A host socket's close is told to the clients only if no other socket counts as
  live (`edge/src/device-room.ts:317-321`), so that calls in flight on it wait;
  the stand-in relay of `rpc/tests/device_room.rs` always broadcasts, and
  the comment at its line 504 says they fail (`untold` in `OnlyTakeoverHangs`).
- A nudge relayed to a socket that has died silently is kept by nobody, where
  `edge/src/device-room.ts:86-89` says "never stranded" (the condition in `NudgeOpens`).
- A writer that has lost its place may put a second part of one id into
  the other entry, and an append goes by the id (`displaced` in `FramesReplay`). The consumer's length
  check refuses the frame and it subscribes again, unless the two parts are
  equally long: then the wrong one grows and nobody notices.

## 6. What the models leave out

- Titles, memory samples, push notifications, freshness stamps: no property
  reads them. The text of entries is a length.
- A power loss that undoes acknowledged SQLite writes (`synchronous=NORMAL`)
  or a journal write that is in the page cache only. A *crash* here is the
  death of the engine process.
- Failing writes of the store, the journal and the document. The one failure
  that changes control, a failed claim, halts the pass and is the same as a
  pass that has not begun.
- In `CommandPlane`, a nudge is never lost for good: `Open` is weakly fair, which is
  more than a best-effort nudge guarantees (`DeviceRelay` has its loss), unless
  somebody uses the chat on its host.
- In `RunRecovery`, the revived run always finds a run configuration, and its
  dispatch succeeds; the code logs and gives up otherwise
  (`sessions.rs:668-671`, 684-686).
- `RunEngine`'s mailbox has no capacity (32 in the code): a full mailbox is a
  failed `try_send`, whose path the dead harness takes. A harness
  that completes a turn while its own question is open is left out; one that ends
  there is not. An insertion cancels the run it replaces at once; in the code a
  stop that has cloned the run's cancel sender (`sessions.rs:504`) keeps the channel
  open until it has signalled the run itself, without an await in between.
- `WarmDocs`: `flush_all` at shutdown, the drains that `set_sessions` starts, the
  byte budget (a smaller cap), the order of the LRU pass (every order is taken).
- `RoomSync`: refused updates (`InvalidUpdate`, the capped rejoins and the full
  resync they lead to), failed imports, the fold and trim of the log, ownership, presence,
  the tail and snapshot routes, the port of the room to `apps/server`. The room's
  handlers are taken one at a time, though `ensureDoc` awaits; a reset, a hibernation
  or going mute does not fall into the put of a backup. An import is a union of
  sets, so that `ImplementsShared` says that no path replaces a document, not that
  Loro merges right. A client's engine does not crash (`CommandPlane` has that), and
  a deadline ends the session of a mute room only, not of a slow one.
- `DeviceRelay`: streams and their cancellation, the capacity of the queues between
  tasks, two engines under one device id, the frame codec. The calls on a dropped
  link fail at once: the window in which one is entered into the pending table
  after its reader has drained it (`rpc/src/client.rs:93-107`) is left out.
- `Transcript`: input, plan, error and reasoning parts, continuation entries, splitting of
  long parts, sanitizing, echoes of the user's message, the refresh of a tool call
  by its id. One run writes: the late writer of a replaced run, and the writes of
  `resolve_input`, `append_error_part` and `set_message_status` are left out, and so is
  the boot sweep, which publishes too (`engine/src/doc_host.rs:287`). `BeginPush` is
  one step; the code pushes an empty entry and then fills it, and a reader in
  between skips it (`doc/src/schema.rs:203-226`) until the next commit.
- Entries have ids of their own (`TranscriptDelta`'s theorem assumes it,
  `Transcript`'s inputs satisfy it). A user's entry takes its id from the client;
  `write_user_message` looks for it before it pushes (`engine/src/doc_host.rs:222`),
  but two devices that both execute one run command around a re-homing may each push it.

Not modelled at all, with the reason beside each in `PROJECT.json`: accounts,
git and spaces, terminals, uploads, titles, catalogs, the `minswe` agent, the
desktop UI but for its consumer of transcript frames, the mobile app, edge
routes, daemon, scripts. They are most of the repository's lines. Nearly all of it
is rendering, parsing of third-party formats, subprocess and file I/O, or
stateless handlers, in which there is no interleaving to explore.

## 7. Plan

Done, in this order: command plane, run engine, recovery; then warm documents,
room sync with its refinement, device relay, transcript.

What is left and worth a module:

1. Pure algorithms: the journal's replay with cursor eras and torn tails; the
   merge of session rows.
2. `WorkspaceRows`: the registry's row merge, presence, and the merge of
   obsolete device registrations; the single-flight token refresh of `auth.rs`.
3. The refusal paths of `room.rs` (`InvalidUpdate`, capped rejoins, resync).

Every invariant and action property of the passing runs is proved, and of
the liveness properties of `CommandPlane`, `DeviceRelay` and `WarmDocs`, and of
`CallsReturn`, the safety halves. For the others a proved invariant of the runs already says
what can be said without fairness: `OrphanHidesBehindDone` for `StaleIsStamped`,
`QuietMeansEqual` for `Converges`, `StaleNeedsOverlap` for `WatchersSettle`. `StopsSettle` and
`PickedUp` have no such half worth stating: the next step is enabled by the hypothesis,
and the sweep carries its choice in its own record.

## 8. Running it

    tlc -workers 2 -config MCRunEngine_race.cfg MCRunEngine
    tlapm RunEngine_proofs.tla

Each `MC*.tla` has one configuration per run, named after it, and those of section 5.
