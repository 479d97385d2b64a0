------------------------------- MODULE RoomSync -------------------------------
(* One document, its room at the edge (edge/src/session-room.ts), and the   *)
(* room clients that keep replicas of it converged (sync/src/room.rs).      *)
(*                                                                          *)
(* Channels are FIFO and die with their socket. A document is the set of    *)
(* operations it holds; its version is that set. The room's handlers run    *)
(* one at a time; it may crash, be hibernated, be killed while it replays   *)
(* its log, go mute, or be reset. A backup of the document goes to a blob   *)
(* store every day.                                                         *)
EXTENDS Naturals, Sequences, FiniteSets

CONSTANTS
    Clients,
    Writers,      \* the clients that commit operations
    MaxWrites,    \* operations per writer
    Fits,         \* operations that fit one frame; more go in fragments
    MaxFaults,    \* bound on lost sockets, crashes, mutes and resets
    ReplayLimit   \* REPLAY_CRASH_LIMIT

ASSUME RoomAssumption ==
    /\ Writers \subseteq Clients
    /\ MaxWrites \in Nat /\ Fits \in Nat /\ MaxFaults \in Nat
    /\ ReplayLimit \in Nat \ {0}

Ops == Writers \X (1..MaxWrites)

(* Up: a join with the client's version, an update, or an update in two     *)
(* fragments (its header, the rest). Down: JoinResponseOk with the room's   *)
(* version, an update, an Ack. The updates of a batch stand for its id.     *)
UpKinds == {"join", "update", "header", "fragment"}
DownKinds == {"joined", "update", "ok", "fragment_timeout"}
Message == [kind : UpKinds \cup DownKinds, ops : SUBSET Ops]
Msg(kind, ops) == [kind |-> kind, ops |-> ops]

(* "new" and "dialed": connect() has not returned; "failed": it never will. *)
Sockets == {"new", "dialed", "up", "down", "failed"}
Sessions == [joined : BOOLEAN, out : {"none", "join", "probe"},
             pending : SUBSET (SUBSET Ops)]
Metas == [attempts : 0..ReplayLimit, postReset : BOOLEAN, dirty : BOOLEAN,
          backupVV : SUBSET Ops, backedUp : BOOLEAN]

VARIABLES
    doc,        \* doc[c]: the client's replica
    sock,       \* sock[c]: its RoomActor
    sess,       \* sess[c]: its Session
    up, down,   \* the two directions of its socket
    member,     \* sockets that have joined %LOR
    loaded,     \* SessionRoom.doc is materialized
    log,        \* durable: snapshot blob and update log
    unflushed,  \* accepted, in memory only
    frags,      \* frags[c]: batches whose header the room has seen
    meta,       \* durable meta
    cache,      \* metaCache
    heavy,      \* replaying the log exceeds the CPU limit
    mute,       \* the room accepts sockets and handles nothing
    alarm,      \* "off", or "put": the blob store has it, meta not yet
    backup,     \* backup/<chat>/latest.loro
    faults      \* faults so far

vars == <<doc, sock, sess, up, down, member, loaded, log, unflushed, frags, meta,
          cache, heavy, mute, alarm, backup, faults>>
clientVars == <<doc, sock, sess>>
storeVars == <<log, meta, heavy>>
backupVars == <<alarm, backup>>

FreshSession == [joined |-> FALSE, out |-> "none", pending |-> {}]
FreshMeta == [attempts |-> 0, postReset |-> FALSE, dirty |-> FALSE,
              backupVV |-> {}, backedUp |-> FALSE]

TypeOK ==
    /\ doc \in [Clients -> SUBSET Ops]
    /\ sock \in [Clients -> Sockets]
    /\ sess \in [Clients -> Sessions]
    /\ up \in [Clients -> Seq(Message)]
    /\ down \in [Clients -> Seq(Message)]
    /\ member \subseteq Clients
    /\ loaded \in BOOLEAN
    /\ log \subseteq Ops
    /\ unflushed \subseteq Ops
    /\ frags \in [Clients -> SUBSET (SUBSET Ops)]
    /\ meta \in Metas
    /\ cache \in Metas
    /\ heavy \in BOOLEAN
    /\ mute \in BOOLEAN
    /\ alarm \in {"off", "put"}
    /\ backup \subseteq Ops
    /\ faults \in 0..MaxFaults

Init ==
    /\ doc = [c \in Clients |-> {}]
    /\ sock = [c \in Clients |-> "new"]
    /\ sess = [c \in Clients |-> FreshSession]
    /\ up = [c \in Clients |-> <<>>] /\ down = [c \in Clients |-> <<>>]
    /\ member = {} /\ loaded = FALSE
    /\ log = {} /\ unflushed = {} /\ frags = [c \in Clients |-> {}]
    /\ meta = FreshMeta /\ cache = FreshMeta
    /\ heavy = FALSE /\ mute = FALSE
    /\ alarm = "off" /\ backup = {} /\ faults = 0

Content == log \cup unflushed

-----------------------------------------------------------------------------
(* Sockets *)

Connected(c) == sock[c] \in {"dialed", "up"}

(* The sockets of cs close: what was under way is lost. A client that had   *)
(* not joined yet gives up (connect() fails); any other will dial again.    *)
CloseSockets(cs) ==
    /\ sock' = [c \in Clients |->
                 IF c \in cs /\ sock[c] = "dialed" THEN "failed"
                 ELSE IF c \in cs /\ sock[c] = "up" THEN "down" ELSE sock[c]]
    /\ sess' = [c \in Clients |-> IF c \in cs THEN FreshSession ELSE sess[c]]
    /\ up' = [c \in Clients |-> IF c \in cs THEN <<>> ELSE up[c]]
    /\ down' = [c \in Clients |-> IF c \in cs THEN <<>> ELSE down[c]]
    /\ member' = member \ cs

Fault == faults < MaxFaults /\ faults' = faults + 1

(* A connection is lost, or the join refused: an expired token, a deploy,   *)
(* a system that woke from suspend.                                         *)
Lose(c) ==
    /\ Connected(c) /\ Fault
    /\ CloseSockets({c})
    /\ frags' = [frags EXCEPT ![c] = {}]
    /\ UNCHANGED <<doc, loaded, storeVars, unflushed, cache, mute, backupVars>>

DialFails(c) ==
    /\ sock[c] = "new" /\ Fault
    /\ sock' = [sock EXCEPT ![c] = "failed"]
    /\ UNCHANGED <<doc, sess, up, down, member, loaded, storeVars, unflushed, frags, cache,
                   mute, backupVars>>

(* Dial and send the first join. A fresh dial re-instantiates a mute room.  *)
Dial(c) ==
    /\ sock[c] \in {"new", "down"}
    /\ sock' = [sock EXCEPT ![c] = IF @ = "new" THEN "dialed" ELSE "up"]
    /\ sess' = [sess EXCEPT ![c] = [FreshSession EXCEPT !.out = "join"]]
    /\ up' = [up EXCEPT ![c] = <<Msg("join", doc[c])>>]
    /\ mute' = FALSE
    /\ UNCHANGED <<doc, down, member, loaded, storeVars, unflushed, frags, cache, backupVars, faults>>

-----------------------------------------------------------------------------
(* The client's session *)

(* send_loro_updates: one message, or a header and a fragment; kept until   *)
(* it is acknowledged.                                                      *)
Batch(ops) ==
    IF Cardinality(ops) <= Fits THEN <<Msg("update", ops)>>
    ELSE <<Msg("header", ops), Msg("fragment", ops)>>

Sends(c, ops, session) ==
    /\ up' = [up EXCEPT ![c] = @ \o Batch(ops)]
    /\ sess' = [sess EXCEPT ![c] = [session EXCEPT !.pending = @ \cup {ops}]]

(* A local commit; an open session forwards it once it has joined.          *)
Write(c) ==
    LET n == Cardinality({o \in doc[c] : o[1] = c}) + 1 IN
    /\ c \in Writers /\ n <= MaxWrites
    /\ doc' = [doc EXCEPT ![c] = @ \cup {<<c, n>>}]
    /\ IF Connected(c) /\ sess[c].joined THEN Sends(c, {<<c, n>>}, sess[c])
                                         ELSE UNCHANGED <<up, sess>>
    /\ UNCHANGED <<sock, down, member, loaded, storeVars, unflushed, frags, cache, mute,
                   backupVars, faults>>

Arrives(c, kind) ==
    /\ Connected(c) /\ down[c] # <<>> /\ Head(down[c]).kind = kind
    /\ down' = [down EXCEPT ![c] = Tail(@)]
    /\ UNCHANGED <<member, loaded, storeVars, unflushed, frags, cache, mute, backupVars, faults>>

(* on_join_ok: push what the room lacks. A probe's answer does no more.     *)
OnJoinOk(c) ==
    LET missing == doc[c] \ Head(down[c]).ops
        joined == [sess[c] EXCEPT !.joined = TRUE, !.out = "none"] IN
    /\ Arrives(c, "joined")
    /\ sock' = [sock EXCEPT ![c] = "up"]
    /\ IF missing = {} THEN sess' = [sess EXCEPT ![c] = joined] /\ UNCHANGED up
                       ELSE Sends(c, missing, joined)
    /\ UNCHANGED doc

ReplaceByRemote(c) ==
    /\ Arrives(c, "update")
    /\ doc' = [doc EXCEPT ![c] = Head(down[c]).ops]
    /\ UNCHANGED <<sock, sess, up>>

ApplyRemote(c) ==
    /\ Arrives(c, "update")
    /\ doc' = [doc EXCEPT ![c] = @ \cup Head(down[c]).ops]
    /\ UNCHANGED <<sock, sess, up>>

OnAckOk(c) ==
    /\ Arrives(c, "ok")
    /\ sess' = [sess EXCEPT ![c].pending = @ \ {Head(down[c]).ops}]
    /\ UNCHANGED <<doc, sock, up>>

(* The room lost the reassembly of a batch: send it again.                  *)
OnFragmentTimeout(c) ==
    LET ops == Head(down[c]).ops IN
    /\ Arrives(c, "fragment_timeout")
    /\ IF ops \in sess[c].pending THEN Sends(c, ops, sess[c]) ELSE UNCHANGED <<up, sess>>
    /\ UNCHANGED <<doc, sock>>

(* An established session that has received nothing for long rejoins. A     *)
(* room that is up has answered what was sent by then.                      *)
Probe(c) ==
    /\ Connected(c) /\ sess[c].joined /\ sess[c].out = "none"
    /\ down[c] = <<>> /\ (up[c] = <<>> \/ mute)
    /\ sess' = [sess EXCEPT ![c].out = "probe"]
    /\ up' = [up EXCEPT ![c] = Append(@, Msg("join", doc[c]))]
    /\ UNCHANGED <<doc, sock, down, member, loaded, storeVars, unflushed, frags, cache, mute,
                   backupVars, faults>>

FirstJoinDeadline(c) ==
    /\ Connected(c) /\ sess[c].out = "join" /\ down[c] = <<>> /\ mute
    /\ CloseSockets({c})
    /\ frags' = [frags EXCEPT ![c] = {}]
    /\ UNCHANGED <<doc, loaded, storeVars, unflushed, cache, mute, backupVars, faults>>

(* JOIN_RESPONSE_DEADLINE. A room that is up answers in time; a buffered    *)
(* frame beats the deadline.                                                *)
Deadline(c) ==
    /\ Connected(c) /\ sess[c].out # "none" /\ down[c] = <<>> /\ mute
    /\ CloseSockets({c})
    /\ frags' = [frags EXCEPT ![c] = {}]
    /\ UNCHANGED <<doc, loaded, storeVars, unflushed, cache, mute, backupVars, faults>>

-----------------------------------------------------------------------------
(* The room. ensureDoc materializes the document: before the replay it      *)
(* counts the attempt durably, and past the limit it drops the log.         *)

DeadPastLimit == ~loaded /\ heavy /\ cache.attempts <= ReplayLimit
Dead == ~loaded /\ heavy /\ cache.attempts < ReplayLimit
Dropping == ~loaded /\ cache.attempts >= ReplayLimit
FlushedBasis == IF Dropping THEN {} ELSE log
Basis == IF Dropping THEN {} ELSE Content
EnsuredMeta ==
    IF loaded THEN cache
    ELSE [cache EXCEPT !.attempts = 0, !.postReset = IF Dropping THEN TRUE ELSE @]

EnsureDoc ==
    /\ ~Dead /\ ~mute
    /\ loaded' = TRUE
    /\ log' = IF Dropping THEN {} ELSE log
    /\ heavy' = (heavy /\ ~Dropping)
    /\ meta' = IF loaded THEN meta ELSE EnsuredMeta

(* The instance dies: memory is lost and every socket closes.               *)
Dies ==
    /\ CloseSockets(Clients)
    /\ loaded' = FALSE /\ mute' = FALSE
    /\ unflushed' = {} /\ frags' = [c \in Clients |-> {}]
    /\ alarm' = "off"

ToRoom(c, kind) == up[c] # <<>> /\ Head(up[c]).kind = kind /\ ~mute

NeedsDoc(c) ==
    \/ ToRoom(c, "join") \/ ToRoom(c, "update")
    \/ ToRoom(c, "fragment") /\ Head(up[c]).ops \in frags[c]

(* The replay exceeds the CPU limit; its attempt has been counted.          *)
ReplayDies ==
    /\ Dead /\ (cache.dirty \/ \E c \in Clients : NeedsDoc(c)) /\ ~mute
    /\ Dies
    /\ meta' = [cache EXCEPT !.attempts = @ + 1]
    /\ cache' = meta'
    /\ UNCHANGED <<doc, log, heavy, backup, faults>>

(* handleJoin: answer with the version, then send what the client lacks.    *)
HandleJoin(c) ==
    LET missing == Basis \ Head(up[c]).ops
        backfill == IF missing = {} THEN <<>> ELSE <<Msg("update", missing)>> IN
    /\ ToRoom(c, "join") /\ EnsureDoc
    /\ cache' = EnsuredMeta
    /\ unflushed' = IF Dropping THEN {} ELSE unflushed
    /\ member' = member \cup {c}
    /\ up' = [up EXCEPT ![c] = Tail(@)]
    /\ down' = [down EXCEPT ![c] = @ \o <<Msg("joined", Basis)>> \o backfill]
    /\ UNCHANGED <<clientVars, frags, mute, backupVars, faults>>

(* applyUpdates and recordLoroUpdates: import, buffer, acknowledge, relay.  *)
Accept(c, ops) ==
    /\ EnsureDoc
    /\ cache' = [EnsuredMeta EXCEPT !.dirty = TRUE, !.postReset = FALSE]
    /\ unflushed' = (IF Dropping THEN {} ELSE unflushed) \cup ops
    /\ up' = [up EXCEPT ![c] = Tail(@)]
    /\ down' = [d \in Clients |->
                 IF d = c THEN Append(down[d], Msg("ok", ops))
                 ELSE IF d \in member THEN Append(down[d], Msg("update", ops)) ELSE down[d]]
    /\ UNCHANGED <<clientVars, member, mute, backupVars, faults>>

HandleUpdate(c) ==
    /\ ToRoom(c, "update")
    /\ Accept(c, Head(up[c]).ops)
    /\ UNCHANGED frags

HandleFragmentHeader(c) ==
    /\ ToRoom(c, "header")
    /\ frags' = [frags EXCEPT ![c] = @ \cup {Head(up[c]).ops}]
    /\ up' = [up EXCEPT ![c] = Tail(@)]
    /\ UNCHANGED <<clientVars, down, member, loaded, storeVars, unflushed, cache, mute,
                   backupVars, faults>>

HandleFragment(c) ==
    LET ops == Head(up[c]).ops IN
    /\ ToRoom(c, "fragment") /\ ops \in frags[c]
    /\ Accept(c, ops)
    /\ frags' = [frags EXCEPT ![c] = @ \ {ops}]

UnknownFragment(c) ==
    LET ops == Head(up[c]).ops IN
    /\ ToRoom(c, "fragment") /\ ops \notin frags[c]
    /\ up' = [up EXCEPT ![c] = Tail(@)]
    /\ down' = [down EXCEPT ![c] = Append(@, Msg("fragment_timeout", ops))]
    /\ UNCHANGED <<clientVars, member, loaded, storeVars, unflushed, frags, cache, mute,
                   backupVars, faults>>

(* flush: the meta first, then the buffered updates as one row.             *)
FlushMeta ==
    /\ meta # cache /\ ~mute
    /\ meta' = cache
    /\ UNCHANGED <<clientVars, up, down, member, loaded, log, heavy, unflushed, frags, cache,
                   mute, backupVars, faults>>

FlushLog ==
    /\ unflushed # {} /\ meta = cache /\ ~mute
    /\ log' = log \cup unflushed
    /\ unflushed' = {}
    /\ UNCHANGED <<clientVars, up, down, member, loaded, meta, heavy, frags, cache, mute,
                   backupVars, faults>>

(* Idle, with no flush timer: memory goes, sockets stay. Idle between the   *)
(* frames of a batch is a fault of the network.                             *)
Hibernate ==
    /\ loaded /\ unflushed = {} /\ meta = cache /\ alarm = "off" /\ ~mute
    /\ IF \E c \in Clients : frags[c] # {} THEN Fault ELSE UNCHANGED faults
    /\ loaded' = FALSE
    /\ frags' = [c \in Clients |-> {}]
    /\ UNCHANGED <<clientVars, up, down, member, storeVars, unflushed, cache, mute,
                   backupVars>>

Crash ==
    /\ Fault /\ Dies
    /\ cache' = meta
    /\ UNCHANGED <<doc, storeVars, backup>>

(* The log grows past what one invocation can replay.                       *)
GrowHeavy ==
    /\ Fault /\ log # {} /\ ~heavy
    /\ heavy' = TRUE
    /\ UNCHANGED <<clientVars, up, down, member, loaded, log, meta, unflushed, frags, cache,
                   mute, backupVars>>

GoMute ==
    /\ Fault /\ ~mute /\ alarm = "off"
    /\ mute' = TRUE
    /\ UNCHANGED <<clientVars, up, down, member, loaded, storeVars, unflushed, frags, cache,
                   backupVars>>

(* POST /reset-log: drop the log, close every socket.                       *)
ResetLog ==
    /\ Fault /\ alarm = "off" /\ ~mute
    /\ CloseSockets(Clients)
    /\ loaded' = FALSE
    /\ log' = {} /\ unflushed' = {} /\ heavy' = FALSE
    /\ frags' = [c \in Clients |-> {}]
    /\ cache' = [cache EXCEPT !.postReset = TRUE]
    /\ meta' = cache'
    /\ UNCHANGED <<doc, mute, backupVars>>

-----------------------------------------------------------------------------
(* alarm: the daily backup. It flushes first and stops if nothing is dirty. *)

AlarmLoads ==
    /\ alarm = "off" /\ cache.dirty /\ unflushed = {} /\ meta = cache /\ ~loaded
    /\ EnsureDoc
    /\ cache' = EnsuredMeta
    /\ UNCHANGED <<clientVars, up, down, member, unflushed, frags, mute, backupVars, faults>>

(* Not after a reset emptied the document, and not if it lacks something of *)
(* the last backup.                                                         *)
NotEmptied == ~cache.postReset
MayReplace == ~cache.postReset /\ (cache.backedUp => cache.backupVV \subseteq Content)

AlarmPut ==
    /\ alarm = "off" /\ cache.dirty /\ unflushed = {} /\ meta = cache /\ loaded /\ ~mute
    /\ MayReplace
    /\ backup' = Content
    /\ alarm' = "put"
    /\ UNCHANGED <<clientVars, up, down, member, loaded, storeVars, unflushed, frags, cache,
                   mute, faults>>

(* The put was awaited: updates may have been accepted meanwhile.           *)
AlarmRecord ==
    /\ alarm = "put"
    /\ cache' = [cache EXCEPT !.backupVV = Content, !.backedUp = TRUE, !.dirty = FALSE]
    /\ alarm' = "off"
    /\ UNCHANGED <<clientVars, up, down, member, loaded, storeVars, unflushed, frags, mute,
                   backup, faults>>

-----------------------------------------------------------------------------
Session(c) ==
    \/ OnJoinOk(c) \/ ApplyRemote(c) \/ OnAckOk(c) \/ OnFragmentTimeout(c)

Timers(c) == Dial(c) \/ Deadline(c)

Handle(c) ==
    \/ HandleJoin(c) \/ HandleUpdate(c)
    \/ HandleFragmentHeader(c) \/ HandleFragment(c) \/ UnknownFragment(c)

Alarm == AlarmLoads \/ AlarmPut \/ AlarmRecord

Next ==
    \/ \E c \in Clients : \/ Write(c) \/ Session(c) \/ Timers(c) \/ Probe(c) \/ Handle(c)
                          \/ Lose(c) \/ DialFails(c)
    \/ ReplayDies \/ FlushMeta \/ FlushLog \/ Hibernate \/ Alarm
    \/ Crash \/ GrowHeavy \/ GoMute \/ ResetLog

(* Actors are polled, timers fire, frames are delivered in order, and a     *)
(* room that is not mute handles them. Faults and writes are not forced.    *)
Fairness ==
    /\ \A c \in Clients : /\ WF_vars(Session(c)) /\ WF_vars(Timers(c))
                          /\ WF_vars(Probe(c)) /\ WF_vars(Handle(c))
    /\ WF_vars(ReplayDies)

Spec == Init /\ [][Next]_vars /\ Fairness

-----------------------------------------------------------------------------
(* Properties *)

(* A joined session with nothing in flight is in sync: replica and room     *)
(* hold the same operations, whatever crashes, hibernations, resets and     *)
(* lost fragments came before (room.rs:895-966, session-room.ts:408-533).   *)
QuietMeansEqual ==
    \A c \in Clients :
        (/\ Connected(c) /\ sess[c].joined /\ sess[c].out = "none"
         /\ up[c] = <<>> /\ down[c] = <<>>)
        => doc[c] = Content

(* A backup on record is never replaced by one that lacks something of it,  *)
(* not even after the room dropped its log: only a put whose record was     *)
(* lost in a crash leaves the next one unguarded (session-room.ts:854-883). *)
RecordedBackupGrows ==
    [][(cache.backedUp /\ backup \subseteq cache.backupVV) => backup \subseteq backup']_vars

(* When faults and writes have ceased, all devices that ever joined hold    *)
(* the same operations for good: joins are answered or redialed, a mute     *)
(* room is found out, and a room that dies in every replay heals itself     *)
(* (room.rs:436-556, session-room.ts:613-685).                              *)
Converges ==
    <>[](\A c, d \in Clients : doc[c] = doc[d] \/ "failed" \in {sock[c], sock[d]})

(* The replicas are a shared document: none learns an operation that its    *)
(* writer does not hold, and none forgets one.                              *)
S == INSTANCE SharedDocument WITH held <- doc
ImplementsShared == S!Shared
=============================================================================
