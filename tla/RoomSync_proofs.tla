--------------------------- MODULE RoomSync_proofs ---------------------------
(* Proofs about RoomSync, for every set of clients and writers and every    *)
(* bound: type correctness, that the replicas implement SharedDocument, and *)
(* that a quiet session is in sync.                                         *)
(*                                                                          *)
(* The first two rest on one fact about a set G of operations: if replicas, *)
(* room and messages hold operations of G only, they do after any step but  *)
(* a Write, which adds the operation it commits.                            *)
EXTENDS RoomSync, SequenceTheorems, FiniteSetTheorems, TLAPS

Messages(G) == [kind : UpKinds \cup DownKinds, ops : SUBSET G]
SessionsOf(G) == [joined : BOOLEAN, out : {"none", "join", "probe"},
                  pending : SUBSET (SUBSET G)]

(* Whatever is anywhere is of G.                                            *)
Within(G) ==
    /\ doc \in [Clients -> SUBSET G]
    /\ sess \in [Clients -> SessionsOf(G)]
    /\ up \in [Clients -> Seq(Messages(G))]
    /\ down \in [Clients -> Seq(Messages(G))]
    /\ log \subseteq G
    /\ unflushed \subseteq G
    /\ frags \in [Clients -> SUBSET (SUBSET G)]

(* The rest of TypeOK.                                                      *)
ControlOK ==
    /\ sock \in [Clients -> Sockets]
    /\ member \subseteq Clients
    /\ loaded \in BOOLEAN
    /\ meta \in Metas
    /\ cache \in Metas
    /\ heavy \in BOOLEAN
    /\ mute \in BOOLEAN
    /\ alarm \in {"off", "put"}
    /\ backup \subseteq Ops
    /\ faults \in 0..MaxFaults

LEMMA TypeParts == TypeOK <=> Within(Ops) /\ ControlOK
BY DEF TypeOK, Within, ControlOK, Message, Messages, Sessions, SessionsOf

(* The operations that their writers hold.                                  *)
Committed == {o \in Ops : o \in doc[o[1]]}

-----------------------------------------------------------------------------
(* Messages and batches of G                                                *)

LEMMA MsgWithin ==
    ASSUME NEW G, NEW k \in UpKinds \cup DownKinds, NEW ops \in SUBSET G
    PROVE  /\ Msg(k, ops) \in Messages(G) /\ Msg(k, ops).ops = ops
           /\ <<Msg(k, ops)>> \in Seq(Messages(G))
<1>1. Msg(k, ops) \in Messages(G) /\ Msg(k, ops).ops = ops
    BY DEF Msg, Messages
<1> QED
    BY <1>1

LEMMA HeadWithin ==
    ASSUME NEW G, NEW s \in Seq(Messages(G)), s # <<>>
    PROVE  /\ Head(s) \in Messages(G) /\ Head(s).ops \in SUBSET G
           /\ Tail(s) \in Seq(Messages(G))
<1>1. Head(s) \in Messages(G) /\ Tail(s) \in Seq(Messages(G))
    OBVIOUS
<1> QED
    BY <1>1 DEF Messages

LEMMA BatchWithin ==
    ASSUME NEW G, NEW ops \in SUBSET G
    PROVE  Batch(ops) \in Seq(Messages(G))
<1>1. /\ Msg("update", ops) \in Messages(G)
      /\ Msg("header", ops) \in Messages(G) /\ Msg("fragment", ops) \in Messages(G)
    BY DEF Msg, Messages, UpKinds, DownKinds
<1> QED
    BY <1>1 DEF Batch

(* Sending ops in a session of G leaves a channel and sessions of G.        *)
LEMMA SendsWithin ==
    ASSUME NEW G, NEW c \in Clients, NEW ops \in SUBSET G, NEW s \in SessionsOf(G),
           sess \in [Clients -> SessionsOf(G)],
           up \in [Clients -> Seq(Messages(G))], Sends(c, ops, s)
    PROVE  /\ sess' \in [Clients -> SessionsOf(G)]
           /\ up' \in [Clients -> Seq(Messages(G))]
<1>1. up[c] \o Batch(ops) \in Seq(Messages(G))
    BY BatchWithin
<1>2. [s EXCEPT !.pending = @ \cup {ops}] \in SessionsOf(G)
    BY DEF SessionsOf
<1> QED
    BY <1>1, <1>2 DEF Sends

LEMMA FreshWithin ==
    ASSUME NEW G
    PROVE  /\ FreshSession \in SessionsOf(G)
           /\ [FreshSession EXCEPT !.out = "join"] \in SessionsOf(G)
BY DEF FreshSession, SessionsOf

LEMMA SessionWith ==
    ASSUME NEW G, NEW s \in SessionsOf(G)
    PROVE  /\ [s EXCEPT !.joined = TRUE, !.out = "none"] \in SessionsOf(G)
           /\ [s EXCEPT !.out = "probe"] \in SessionsOf(G)
BY Zenon DEF SessionsOf

LEMMA CloseWithin ==
    ASSUME NEW G, NEW cs, Within(G), ControlOK, CloseSockets(cs)
    PROVE  /\ sess' \in [Clients -> SessionsOf(G)]
           /\ up' \in [Clients -> Seq(Messages(G))]
           /\ down' \in [Clients -> Seq(Messages(G))]
           /\ sock' \in [Clients -> Sockets] /\ member' \subseteq Clients
<1>1. <<>> \in Seq(Messages(G))
    OBVIOUS
<1>2. sess' \in [Clients -> SessionsOf(G)]
    BY FreshWithin DEF CloseSockets, Within
<1>3. up' \in [Clients -> Seq(Messages(G))] /\ down' \in [Clients -> Seq(Messages(G))]
    BY <1>1 DEF CloseSockets, Within
<1>4. sock' \in [Clients -> Sockets] /\ member' \subseteq Clients
    BY DEF CloseSockets, ControlOK, Sockets
<1> QED
    BY <1>2, <1>3, <1>4

LEMMA MetaWith ==
    ASSUME NEW m \in Metas, NEW n \in 0..ReplayLimit, NEW b \in BOOLEAN
    PROVE  [m EXCEPT !.attempts = n, !.postReset = b] \in Metas
BY Zenon DEF Metas

LEMMA EnsuredType == ASSUME ControlOK PROVE EnsuredMeta \in Metas
<1>1. cache \in Metas /\ 0 \in 0..ReplayLimit
    BY RoomAssumption DEF ControlOK
<1>2. cache.postReset \in BOOLEAN
    BY <1>1 DEF Metas
<1>3. (IF Dropping THEN TRUE ELSE cache.postReset) \in BOOLEAN
    BY <1>2, Zenon
<1>4. [cache EXCEPT !.attempts = 0, !.postReset = IF Dropping THEN TRUE ELSE @] \in Metas
    BY <1>1, <1>3, MetaWith, Zenon
<1> QED
    BY <1>1, <1>4, Zenon DEF EnsuredMeta

LEMMA EnsureWithin ==
    ASSUME NEW G, Within(G), ControlOK, EnsureDoc
    PROVE  /\ log' \subseteq G /\ loaded' \in BOOLEAN
           /\ meta' \in Metas /\ heavy' \in BOOLEAN
<1>1. log' \subseteq G /\ loaded' \in BOOLEAN
    BY DEF EnsureDoc, Within
<1>2. meta' \in Metas
    BY EnsuredType DEF EnsureDoc, ControlOK
<1>3. heavy' \in BOOLEAN
    BY Zenon DEF EnsureDoc, ControlOK
<1> QED
    BY <1>1, <1>2, <1>3

LEMMA DiesWithin ==
    ASSUME NEW G, Within(G), ControlOK, Dies
    PROVE  /\ sess' \in [Clients -> SessionsOf(G)]
           /\ up' \in [Clients -> Seq(Messages(G))]
           /\ down' \in [Clients -> Seq(Messages(G))]
           /\ sock' \in [Clients -> Sockets] /\ member' \subseteq Clients
           /\ unflushed' \subseteq G /\ frags' \in [Clients -> SUBSET (SUBSET G)]
           /\ loaded' \in BOOLEAN /\ mute' \in BOOLEAN /\ alarm' \in {"off", "put"}
<1>1. CloseSockets(Clients)
    BY DEF Dies
<1> QED
    BY <1>1, CloseWithin DEF Dies
-----------------------------------------------------------------------------
(* Steps: sockets and sessions                                              *)

LEMMA StutterStep ==
    ASSUME NEW G, Within(G), ControlOK, UNCHANGED vars
    PROVE  Within(G)' /\ ControlOK'
BY DEF Within, ControlOK, vars

LEMMA FaultType == ASSUME ControlOK, Fault PROVE faults' \in 0..MaxFaults
BY RoomAssumption DEF ControlOK, Fault

LEMMA CloseStep ==
    ASSUME NEW G, Within(G), ControlOK, NEW c \in Clients, Lose(c) \/ Deadline(c)
    PROVE  Within(G)' /\ ControlOK'
<1>1. /\ CloseSockets({c}) /\ frags' = [frags EXCEPT ![c] = {}]
      /\ UNCHANGED <<doc, loaded, log, meta, heavy, unflushed, cache, mute, alarm, backup>>
    BY DEF Lose, Deadline, storeVars, backupVars
<1>2. faults' \in 0..MaxFaults
    BY FaultType DEF Lose, Deadline, ControlOK
<1> QED
    BY <1>1, <1>2, CloseWithin DEF Within, ControlOK

LEMMA DialFailsStep ==
    ASSUME NEW G, Within(G), ControlOK, NEW c \in Clients, DialFails(c)
    PROVE  Within(G)' /\ ControlOK'
<1>1. sock' \in [Clients -> Sockets]
    BY DEF DialFails, ControlOK, Sockets
<1>2. faults' \in 0..MaxFaults
    BY FaultType DEF DialFails
<1> QED
    BY <1>1, <1>2 DEF DialFails, Within, ControlOK, storeVars, backupVars

LEMMA DialStep ==
    ASSUME NEW G, Within(G), ControlOK, NEW c \in Clients, Dial(c)
    PROVE  Within(G)' /\ ControlOK'
<1>1. sock' \in [Clients -> Sockets]
    BY DEF Dial, ControlOK, Sockets
<1>2. sess' \in [Clients -> SessionsOf(G)]
    BY FreshWithin DEF Dial, Within
<1>3. <<Msg("join", doc[c])>> \in Seq(Messages(G))
    BY MsgWithin DEF Within, UpKinds, DownKinds
<1>4. up' \in [Clients -> Seq(Messages(G))]
    BY <1>3 DEF Dial, Within
<1>5. mute' \in BOOLEAN
    BY DEF Dial
<1> QED
    BY <1>1, <1>2, <1>4, <1>5 DEF Dial, Within, ControlOK, storeVars, backupVars

LEMMA ArrivesWithin ==
    ASSUME NEW G, Within(G), NEW c \in Clients, NEW k, Arrives(c, k)
    PROVE  /\ down' \in [Clients -> Seq(Messages(G))]
           /\ Head(down[c]).ops \in SUBSET G
           /\ UNCHANGED <<member, loaded, log, meta, heavy, unflushed, frags, cache, mute,
                          alarm, backup, faults>>
<1>1. down[c] \in Seq(Messages(G)) /\ down[c] # <<>>
    BY DEF Within, Arrives
<1> QED
    BY <1>1, HeadWithin DEF Arrives, Within, storeVars, backupVars

LEMMA OnJoinOkStep ==
    ASSUME NEW G, Within(G), ControlOK, NEW c \in Clients, OnJoinOk(c)
    PROVE  Within(G)' /\ ControlOK'
<1> DEFINE missing == doc[c] \ Head(down[c]).ops
           joined == [sess[c] EXCEPT !.joined = TRUE, !.out = "none"]
<1>1. Arrives(c, "joined") /\ sock' = [sock EXCEPT ![c] = "up"] /\ UNCHANGED doc
    BY DEF OnJoinOk
<1>2. joined \in SessionsOf(G)
    <2>1. sess[c] \in SessionsOf(G)
        BY DEF Within
    <2> QED
        BY <2>1, SessionWith
<1>3. missing \in SUBSET G
    BY DEF Within
<1>4. sess' \in [Clients -> SessionsOf(G)] /\ up' \in [Clients -> Seq(Messages(G))]
    <2>1. CASE missing = {}
        BY <1>2, <2>1 DEF OnJoinOk, Within
    <2>2. CASE missing # {}
        <3>1. Sends(c, missing, joined)
            BY <2>2 DEF OnJoinOk
        <3> HIDE DEF missing, joined
        <3> QED
            BY <1>2, <1>3, <3>1, SendsWithin DEF Within
    <2> QED
        BY <2>1, <2>2
<1>5. sock' \in [Clients -> Sockets]
    BY <1>1 DEF ControlOK, Sockets
<1>6. /\ down' \in [Clients -> Seq(Messages(G))]
      /\ UNCHANGED <<member, loaded, log, meta, heavy, unflushed, frags, cache, mute, alarm,
                     backup, faults>>
    BY <1>1, ArrivesWithin
<1> HIDE DEF missing, joined
<1>7. Within(G)'
    BY <1>1, <1>4, <1>6 DEF Within
<1>8. ControlOK'
    BY <1>5, <1>6 DEF ControlOK
<1> QED
    BY <1>7, <1>8

LEMMA ApplyRemoteStep ==
    ASSUME NEW G, Within(G), ControlOK, NEW c \in Clients, ApplyRemote(c)
    PROVE  Within(G)' /\ ControlOK'
<1>1. Arrives(c, "update") /\ doc' = [doc EXCEPT ![c] = @ \cup Head(down[c]).ops]
      /\ UNCHANGED <<sock, sess, up>>
    BY DEF ApplyRemote
<1>2. /\ down' \in [Clients -> Seq(Messages(G))] /\ Head(down[c]).ops \in SUBSET G
      /\ UNCHANGED <<member, loaded, log, meta, heavy, unflushed, frags, cache, mute, alarm,
                     backup, faults>>
    BY <1>1, ArrivesWithin
<1>3. doc' \in [Clients -> SUBSET G]
    BY <1>1, <1>2 DEF Within
<1>4. Within(G)'
    BY <1>1, <1>2, <1>3 DEF Within
<1>5. ControlOK'
    BY <1>1, <1>2 DEF ControlOK
<1> QED
    BY <1>4, <1>5

LEMMA OnAckOkStep ==
    ASSUME NEW G, Within(G), ControlOK, NEW c \in Clients, OnAckOk(c)
    PROVE  Within(G)' /\ ControlOK'
<1>1. Arrives(c, "ok") /\ UNCHANGED <<doc, sock, up>>
      /\ sess' = [sess EXCEPT ![c].pending = @ \ {Head(down[c]).ops}]
    BY DEF OnAckOk
<1>2. sess[c] \in SessionsOf(G)
    BY DEF Within
<1>3. [sess[c] EXCEPT !.pending = @ \ {Head(down[c]).ops}] \in SessionsOf(G)
    BY <1>2 DEF SessionsOf
<1>4. sess' = [sess EXCEPT ![c] = [sess[c] EXCEPT !.pending = @ \ {Head(down[c]).ops}]]
    BY <1>1
<1>5. sess' \in [Clients -> SessionsOf(G)]
    BY <1>3, <1>4 DEF Within
<1>6. /\ down' \in [Clients -> Seq(Messages(G))]
      /\ UNCHANGED <<member, loaded, log, meta, heavy, unflushed, frags, cache, mute, alarm,
                     backup, faults>>
    BY <1>1, ArrivesWithin
<1>7. Within(G)'
    BY <1>1, <1>5, <1>6 DEF Within
<1>8. ControlOK'
    BY <1>1, <1>6 DEF ControlOK
<1> QED
    BY <1>7, <1>8

LEMMA OnFragmentTimeoutStep ==
    ASSUME NEW G, Within(G), ControlOK, NEW c \in Clients, OnFragmentTimeout(c)
    PROVE  Within(G)' /\ ControlOK'
<1> DEFINE ops == Head(down[c]).ops
<1>1. Arrives(c, "fragment_timeout") /\ UNCHANGED <<doc, sock>>
    BY DEF OnFragmentTimeout
<1>2. ops \in SUBSET G
    BY <1>1, ArrivesWithin
<1>3. sess' \in [Clients -> SessionsOf(G)] /\ up' \in [Clients -> Seq(Messages(G))]
    <2>1. CASE ops \in sess[c].pending
        <3>1. Sends(c, ops, sess[c])
            BY <2>1 DEF OnFragmentTimeout
        <3>2. sess[c] \in SessionsOf(G)
            BY DEF Within
        <3> HIDE DEF ops
        <3> QED
            BY <1>2, <3>1, <3>2, SendsWithin DEF Within
    <2>2. CASE ops \notin sess[c].pending
        BY <2>2 DEF OnFragmentTimeout, Within
    <2> QED
        BY <2>1, <2>2
<1> QED
    BY <1>1, <1>3, ArrivesWithin DEF Within, ControlOK

LEMMA ProbeStep ==
    ASSUME NEW G, Within(G), ControlOK, NEW c \in Clients, Probe(c)
    PROVE  Within(G)' /\ ControlOK'
<1>1. Msg("join", doc[c]) \in Messages(G)
    BY MsgWithin DEF Within, UpKinds, DownKinds
<1>2. up' \in [Clients -> Seq(Messages(G))]
    BY <1>1 DEF Probe, Within
<1>3. [sess[c] EXCEPT !.out = "probe"] \in SessionsOf(G)
    <2>1. sess[c] \in SessionsOf(G)
        BY DEF Within
    <2> QED
        BY <2>1, SessionWith
<1>4. sess' = [sess EXCEPT ![c] = [sess[c] EXCEPT !.out = "probe"]]
    BY DEF Probe
<1>5. sess' \in [Clients -> SessionsOf(G)]
    BY <1>3, <1>4 DEF Within
<1> QED
    BY <1>2, <1>5 DEF Probe, Within, ControlOK, storeVars, backupVars


-----------------------------------------------------------------------------
(* Steps: the room                                                          *)

LEMMA FreshMetaType == FreshMeta \in Metas
BY RoomAssumption DEF FreshMeta, Metas

LEMMA CountedType ==
    ASSUME ControlOK, Dead PROVE [cache EXCEPT !.attempts = @ + 1] \in Metas
<1>1. cache \in Metas
    BY DEF ControlOK
<1>2. cache.attempts + 1 \in 0..ReplayLimit
    BY <1>1, RoomAssumption DEF Dead, Metas
<1>3. cache.postReset \in BOOLEAN
    BY <1>1 DEF Metas
<1>4. \A n \in 0..ReplayLimit : [cache EXCEPT !.attempts = n] \in Metas
    BY <1>1, Zenon DEF Metas
<1> QED
    BY <1>2, <1>4

LEMMA ReplayDiesStep ==
    ASSUME NEW G, Within(G), ControlOK, ReplayDies
    PROVE  Within(G)' /\ ControlOK'
<1>1. /\ Dead /\ Dies /\ meta' = [cache EXCEPT !.attempts = @ + 1] /\ cache' = meta'
      /\ UNCHANGED <<doc, log, heavy, backup, faults>>
    BY DEF ReplayDies
<1>2. meta' \in Metas /\ cache' \in Metas
    BY <1>1, CountedType
<1> QED
    BY <1>1, <1>2, DiesWithin DEF Within, ControlOK

LEMMA ToRoomWithin ==
    ASSUME NEW G, Within(G), NEW c \in Clients, NEW k, ToRoom(c, k)
    PROVE  /\ Head(up[c]).ops \in SUBSET G
           /\ [up EXCEPT ![c] = Tail(@)] \in [Clients -> Seq(Messages(G))]
<1>1. up[c] \in Seq(Messages(G)) /\ up[c] # <<>>
    BY DEF Within, ToRoom
<1> QED
    BY <1>1, HeadWithin DEF Within

LEMMA HandleJoinStep ==
    ASSUME NEW G, Within(G), ControlOK, NEW c \in Clients, HandleJoin(c)
    PROVE  Within(G)' /\ ControlOK'
<1> DEFINE missing == Basis \ Head(up[c]).ops
           backfill == IF missing = {} THEN <<>> ELSE <<Msg("update", missing)>>
<1>1. /\ ToRoom(c, "join") /\ EnsureDoc /\ cache' = EnsuredMeta
      /\ unflushed' = IF Dropping THEN {} ELSE unflushed
      /\ member' = member \cup {c} /\ up' = [up EXCEPT ![c] = Tail(@)]
      /\ down' = [down EXCEPT ![c] = @ \o <<Msg("joined", Basis)>> \o backfill]
      /\ UNCHANGED <<doc, sock, sess, frags, mute, alarm, backup, faults>>
    BY DEF HandleJoin, clientVars, backupVars
<1>2. Basis \in SUBSET G /\ missing \in SUBSET G
    BY DEF Basis, Content, Within
<1>3. <<Msg("joined", Basis)>> \in Seq(Messages(G)) /\ backfill \in Seq(Messages(G))
    BY <1>2, MsgWithin DEF UpKinds, DownKinds
<1>4. down[c] \o <<Msg("joined", Basis)>> \o backfill \in Seq(Messages(G))
    <2> HIDE DEF backfill
    <2>1. down[c] \in Seq(Messages(G))
        BY DEF Within
    <2> QED
        BY <1>3, <2>1
<1>5. down' \in [Clients -> Seq(Messages(G))]
    <2> HIDE DEF backfill
    <2> QED
        BY <1>1, <1>4 DEF Within
<1>6. up' \in [Clients -> Seq(Messages(G))]
    BY <1>1, ToRoomWithin
<1>7. unflushed' \subseteq G /\ member' \subseteq Clients
    BY <1>1 DEF Within, ControlOK
<1> QED
    BY <1>1, <1>5, <1>6, <1>7, EnsureWithin, EnsuredType DEF Within, ControlOK

LEMMA AcceptWithin ==
    ASSUME NEW G, Within(G), ControlOK, NEW c \in Clients, NEW ops \in SUBSET G,
           [up EXCEPT ![c] = Tail(@)] \in [Clients -> Seq(Messages(G))],
           frags' \in [Clients -> SUBSET (SUBSET G)], Accept(c, ops)
    PROVE  Within(G)' /\ ControlOK'
<1>1. /\ EnsureDoc /\ cache' = [EnsuredMeta EXCEPT !.dirty = TRUE, !.postReset = FALSE]
      /\ unflushed' = (IF Dropping THEN {} ELSE unflushed) \cup ops
      /\ up' = [up EXCEPT ![c] = Tail(@)]
      /\ UNCHANGED <<doc, sock, sess, member, mute, alarm, backup, faults>>
    BY DEF Accept, clientVars, backupVars
<1>2. Msg("ok", ops) \in Messages(G) /\ Msg("update", ops) \in Messages(G)
    BY MsgWithin DEF UpKinds, DownKinds
<1>3. \A d \in Clients : /\ down[d] \in Seq(Messages(G))
                         /\ Append(down[d], Msg("ok", ops)) \in Seq(Messages(G))
                         /\ Append(down[d], Msg("update", ops)) \in Seq(Messages(G))
    BY <1>2 DEF Within
<1>4. down' \in [Clients -> Seq(Messages(G))]
    BY <1>3, Zenon DEF Accept
<1>5. \A m \in Metas : [m EXCEPT !.dirty = TRUE, !.postReset = FALSE] \in Metas
    BY Zenon DEF Metas
<1>6. cache' \in Metas
    BY <1>1, <1>5, EnsuredType
<1>7. unflushed' \subseteq G
    BY <1>1 DEF Within
<1> QED
    BY <1>1, <1>4, <1>6, <1>7, EnsureWithin DEF Within, ControlOK

LEMMA HandleUpdateStep ==
    ASSUME NEW G, Within(G), ControlOK, NEW c \in Clients, HandleUpdate(c)
    PROVE  Within(G)' /\ ControlOK'
<1>1. ToRoom(c, "update") /\ Accept(c, Head(up[c]).ops) /\ UNCHANGED frags
    BY DEF HandleUpdate
<1>2. frags' \in [Clients -> SUBSET (SUBSET G)]
    BY <1>1 DEF Within
<1> QED
    BY <1>1, <1>2, ToRoomWithin, AcceptWithin

LEMMA HandleFragmentStep ==
    ASSUME NEW G, Within(G), ControlOK, NEW c \in Clients, HandleFragment(c)
    PROVE  Within(G)' /\ ControlOK'
<1>1. /\ ToRoom(c, "fragment") /\ Accept(c, Head(up[c]).ops)
      /\ frags' = [frags EXCEPT ![c] = @ \ {Head(up[c]).ops}]
    BY DEF HandleFragment
<1>2. frags' \in [Clients -> SUBSET (SUBSET G)]
    BY <1>1 DEF Within
<1> QED
    BY <1>1, <1>2, ToRoomWithin, AcceptWithin

LEMMA FramesStep ==
    ASSUME NEW G, Within(G), ControlOK, NEW c \in Clients,
           HandleFragmentHeader(c) \/ UnknownFragment(c)
    PROVE  Within(G)' /\ ControlOK'
<1> DEFINE ops == Head(up[c]).ops
<1>1. /\ ToRoom(c, "header") \/ ToRoom(c, "fragment")
      /\ up' = [up EXCEPT ![c] = Tail(@)]
      /\ frags' = [frags EXCEPT ![c] = @ \cup {ops}] \/ UNCHANGED frags
      /\ down' = [down EXCEPT ![c] = Append(@, Msg("fragment_timeout", ops))] \/ UNCHANGED down
      /\ UNCHANGED <<doc, sock, sess, member, loaded, log, meta, heavy, unflushed, cache,
                     mute, alarm, backup, faults>>
    BY DEF HandleFragmentHeader, UnknownFragment, clientVars, storeVars, backupVars
<1>2. ops \in SUBSET G /\ up' \in [Clients -> Seq(Messages(G))]
    BY <1>1, ToRoomWithin
<1> HIDE DEF ops
<1>3. frags' \in [Clients -> SUBSET (SUBSET G)]
    <2>1. frags \in [Clients -> SUBSET (SUBSET G)]
        BY DEF Within
    <2>2. frags[c] \cup {ops} \in SUBSET (SUBSET G)
        BY <1>2, <2>1
    <2>3. [frags EXCEPT ![c] = @ \cup {ops}] \in [Clients -> SUBSET (SUBSET G)]
        BY <2>1, <2>2
    <2> QED
        BY <1>1, <2>1, <2>3
<1>4. Msg("fragment_timeout", ops) \in Messages(G)
    BY <1>2, MsgWithin DEF UpKinds, DownKinds
<1>5. down' \in [Clients -> Seq(Messages(G))]
    <2>1. down \in [Clients -> Seq(Messages(G))]
        BY DEF Within
    <2>2. [down EXCEPT ![c] = Append(@, Msg("fragment_timeout", ops))]
              \in [Clients -> Seq(Messages(G))]
        BY <1>4, <2>1
    <2> QED
        BY <1>1, <2>1, <2>2
<1> QED
    BY <1>1, <1>2, <1>3, <1>5 DEF Within, ControlOK

LEMMA FlushStep ==
    ASSUME NEW G, Within(G), ControlOK, FlushMeta \/ FlushLog \/ Hibernate
    PROVE  Within(G)' /\ ControlOK'
<1>1. CASE FlushMeta
    BY <1>1 DEF FlushMeta, Within, ControlOK, clientVars, backupVars
<1>2. CASE FlushLog
    BY <1>2 DEF FlushLog, Within, ControlOK, clientVars, backupVars
<1>3. CASE Hibernate
    <2>1. faults' \in 0..MaxFaults
        BY <1>3, FaultType DEF Hibernate, ControlOK
    <2> QED
        BY <1>3, <2>1 DEF Hibernate, Within, ControlOK, clientVars, storeVars, backupVars
<1> QED
    BY <1>1, <1>2, <1>3

LEMMA RoomFaultStep ==
    ASSUME NEW G, Within(G), ControlOK, Crash \/ GrowHeavy \/ GoMute \/ ResetLog
    PROVE  Within(G)' /\ ControlOK'
<1>0. faults' \in 0..MaxFaults
    BY FaultType DEF Crash, GrowHeavy, GoMute, ResetLog
<1>1. CASE Crash
    <2>1. Dies /\ cache' = meta /\ UNCHANGED <<doc, log, meta, heavy, backup>>
        BY <1>1 DEF Crash, storeVars
    <2> QED
        BY <1>0, <2>1, DiesWithin DEF Within, ControlOK
<1>2. CASE GrowHeavy
    BY <1>0, <1>2 DEF GrowHeavy, Within, ControlOK, clientVars, backupVars
<1>3. CASE GoMute
    BY <1>0, <1>3 DEF GoMute, Within, ControlOK, clientVars, storeVars, backupVars
<1>4. CASE ResetLog
    <2>1. /\ CloseSockets(Clients) /\ loaded' = FALSE
          /\ log' = {} /\ unflushed' = {} /\ heavy' = FALSE
          /\ frags' = [c \in Clients |-> {}]
          /\ cache' = [cache EXCEPT !.postReset = TRUE] /\ meta' = cache'
          /\ UNCHANGED <<doc, mute, alarm, backup>>
        BY <1>4 DEF ResetLog, backupVars
    <2>2. \A m \in Metas : [m EXCEPT !.postReset = TRUE] \in Metas
        BY Zenon DEF Metas
    <2>3. cache' \in Metas /\ meta' \in Metas
        BY <2>1, <2>2 DEF ControlOK
    <2>4. frags' \in [Clients -> SUBSET (SUBSET G)]
        BY <2>1
    <2> QED
        BY <1>0, <2>1, <2>3, <2>4, CloseWithin DEF Within, ControlOK
<1> QED
    BY <1>1, <1>2, <1>3, <1>4

LEMMA AlarmStep ==
    ASSUME NEW G, G \subseteq Ops, Within(G), ControlOK, Alarm
    PROVE  Within(G)' /\ ControlOK'
<1>1. CASE AlarmLoads
    <2>1. /\ EnsureDoc /\ cache' = EnsuredMeta
          /\ UNCHANGED <<doc, sock, sess, up, down, member, unflushed, frags, mute, alarm,
                         backup, faults>>
        BY <1>1 DEF AlarmLoads, clientVars, backupVars
    <2> QED
        BY <2>1, EnsureWithin, EnsuredType DEF Within, ControlOK
<1>2. CASE AlarmPut
    <2>1. backup' \subseteq Ops
        BY <1>2 DEF AlarmPut, Content, Within
    <2> QED
        BY <1>2, <2>1 DEF AlarmPut, Within, ControlOK, clientVars, storeVars
<1>3. CASE AlarmRecord
    <2>1. \A m \in Metas, v \in SUBSET Ops :
              [m EXCEPT !.backupVV = v, !.backedUp = TRUE, !.dirty = FALSE] \in Metas
        BY Zenon DEF Metas
    <2>2. Content \in SUBSET Ops
        BY DEF Content, Within
    <2>3. cache' \in Metas
        BY <1>3, <2>1, <2>2 DEF AlarmRecord, ControlOK
    <2> QED
        BY <1>3, <2>3 DEF AlarmRecord, Within, ControlOK, clientVars, storeVars
<1> QED
    BY <1>1, <1>2, <1>3 DEF Alarm

-----------------------------------------------------------------------------
(* Writes: a writer's operations are numbered without gaps                  *)

Numbered(c) == \E k \in 0..MaxWrites : S!By(c, doc[c]) = {c} \X (1..k)

OwnInv == \A c \in Clients : Numbered(c)

(* The number of the operation a Write commits is the next one.             *)
LEMMA NextNumber ==
    ASSUME NEW c \in Clients, NEW k \in 0..MaxWrites, S!By(c, doc[c]) = {c} \X (1..k)
    PROVE  Cardinality({o \in doc[c] : o[1] = c}) + 1 = k + 1
<1>1. k \in Nat /\ IsFiniteSet(1..k) /\ Cardinality(1..k) = k
    BY FS_Interval, RoomAssumption
<1>2. IsFiniteSet({c}) /\ Cardinality({c}) = 1
    BY FS_Singleton
<1>3. Cardinality({c} \X (1..k)) = 1 * k
    <2>1. PICK one, upto : one = {c} /\ upto = 1..k
        OBVIOUS
    <2>2. IsFiniteSet(one) /\ IsFiniteSet(upto) /\ Cardinality(one) = 1 /\ Cardinality(upto) = k
        BY <1>1, <1>2, <2>1
    <2>3. Cardinality(one \X upto) = Cardinality(one) * Cardinality(upto)
        BY <2>2, FS_Product
    <2> QED
        BY <2>1, <2>2, <2>3
<1>4. {o \in doc[c] : o[1] = c} = {c} \X (1..k)
    BY DEF S!By
<1>5. Cardinality({o \in doc[c] : o[1] = c}) = 1 * k
    BY <1>3, <1>4
<1> QED
    BY <1>1, <1>5

LEMMA Widen ==
    ASSUME NEW G, NEW H, G \subseteq H, Within(G)
    PROVE  Within(H)
<1>1. SessionsOf(G) \subseteq SessionsOf(H)
    BY DEF SessionsOf
<1>2. Messages(G) \subseteq Messages(H)
    BY DEF Messages
<1>3. Seq(Messages(G)) \subseteq Seq(Messages(H))
    BY <1>2
<1> QED
    BY <1>1, <1>3 DEF Within

LEMMA WriteStep ==
    ASSUME NEW G, Within(G), ControlOK, OwnInv, NEW c \in Clients, Write(c)
    PROVE  \E n \in 1..MaxWrites :
              /\ c \in Writers
              /\ S!By(c, doc[c]) = {c} \X (1..(n - 1))
              /\ doc' = [doc EXCEPT ![c] = @ \cup {<<c, n>>}]
              /\ Within(G \cup {<<c, n>>})' /\ ControlOK'
<1>1. PICK k \in 0..MaxWrites : S!By(c, doc[c]) = {c} \X (1..k)
    BY DEF OwnInv, Numbered
<1> DEFINE n == Cardinality({o \in doc[c] : o[1] = c}) + 1
           H == G \cup {<<c, k + 1>>}
<1>2. n = k + 1
    BY <1>1, NextNumber
<1>3. /\ c \in Writers /\ k + 1 <= MaxWrites
      /\ doc' = [doc EXCEPT ![c] = @ \cup {<<c, k + 1>>}]
      /\ \/ Sends(c, {<<c, k + 1>>}, sess[c])
         \/ UNCHANGED <<up, sess>>
      /\ UNCHANGED <<sock, down, member, loaded, log, meta, heavy, unflushed, frags, cache,
                     mute, alarm, backup, faults>>
    BY <1>2 DEF Write, storeVars, backupVars
<1>4. k + 1 \in 1..MaxWrites /\ (k + 1) - 1 = k
    BY <1>3, RoomAssumption
<1>5. Within(H) /\ {<<c, k + 1>>} \in SUBSET H
    BY Widen
<1>6. doc' \in [Clients -> SUBSET H]
    <2>1. doc[c] \cup {<<c, k + 1>>} \in SUBSET H
        BY <1>5 DEF Within
    <2> HIDE DEF H
    <2> QED
        BY <1>3, <1>5, <2>1 DEF Within
<1> HIDE DEF H
<1>7. sess' \in [Clients -> SessionsOf(H)] /\ up' \in [Clients -> Seq(Messages(H))]
    <2>1. sess[c] \in SessionsOf(H)
        BY <1>5 DEF Within
    <2> QED
        BY <1>3, <1>5, <2>1, SendsWithin DEF Within
<1>8. Within(H)'
    BY <1>3, <1>5, <1>6, <1>7 DEF Within
<1>9. ControlOK'
    BY <1>3 DEF ControlOK
<1> QED
    BY <1>1, <1>3, <1>4, <1>8, <1>9 DEF H

-----------------------------------------------------------------------------
(* Every step but a Write                                                   *)

Quiet ==
    \/ \E c \in Clients : \/ Session(c) \/ Timers(c) \/ Probe(c) \/ Handle(c)
                          \/ Lose(c) \/ DialFails(c)
    \/ ReplayDies \/ FlushMeta \/ FlushLog \/ Hibernate \/ Alarm
    \/ Crash \/ GrowHeavy \/ GoMute \/ ResetLog
    \/ UNCHANGED vars

LEMMA NextParts == [Next]_vars => Quiet \/ \E c \in Clients : Write(c)
BY Zenon DEF Next, Quiet

LEMMA QuietStep ==
    ASSUME NEW G, G \subseteq Ops, Within(G), ControlOK, Quiet
    PROVE  Within(G)' /\ ControlOK'
<1>1. ASSUME NEW c \in Clients, Session(c)
      PROVE  Within(G)' /\ ControlOK'
    BY <1>1, OnJoinOkStep, ApplyRemoteStep, OnAckOkStep, OnFragmentTimeoutStep, Zenon
       DEF Session
<1>2. ASSUME NEW c \in Clients, Timers(c) \/ Probe(c) \/ Lose(c) \/ DialFails(c)
      PROVE  Within(G)' /\ ControlOK'
    BY <1>2, DialStep, CloseStep, ProbeStep, DialFailsStep, Zenon DEF Timers
<1>3. ASSUME NEW c \in Clients, Handle(c)
      PROVE  Within(G)' /\ ControlOK'
    BY <1>3, HandleJoinStep, HandleUpdateStep, HandleFragmentStep, FramesStep, Zenon
       DEF Handle
<1>4. ASSUME ReplayDies \/ FlushMeta \/ FlushLog \/ Hibernate \/ Alarm
      PROVE  Within(G)' /\ ControlOK'
    BY <1>4, ReplayDiesStep, FlushStep, AlarmStep, Zenon
<1>5. ASSUME Crash \/ GrowHeavy \/ GoMute \/ ResetLog \/ UNCHANGED vars
      PROVE  Within(G)' /\ ControlOK'
    BY <1>5, RoomFaultStep, StutterStep, Zenon
<1> QED
    BY <1>1, <1>2, <1>3, <1>4, <1>5, Zenon DEF Quiet

(* A quiet step only lets a replica learn what some message holds.          *)
LEMMA QuietLearns ==
    ASSUME NEW G, Within(G), Quiet
    PROVE  \/ UNCHANGED doc
           \/ \E c \in Clients, ops \in SUBSET G : doc' = [doc EXCEPT ![c] = @ \cup ops]
<1>1. CASE \E c \in Clients : ApplyRemote(c)
    <2>1. PICK c \in Clients : ApplyRemote(c)
        BY <1>1
    <2>2. Head(down[c]).ops \in SUBSET G
        BY <2>1, ArrivesWithin DEF ApplyRemote
    <2> QED
        BY <2>1, <2>2 DEF ApplyRemote
<1>2. CASE ~ \E c \in Clients : ApplyRemote(c)
    <2>1. ASSUME NEW c \in Clients, Session(c) \/ Timers(c) \/ Probe(c)
          PROVE  UNCHANGED doc
        BY <1>2, <2>1, Zenon DEF Session, OnJoinOk, OnAckOk, OnFragmentTimeout, Timers, Dial,
                          Deadline, Probe
    <2>2. ASSUME NEW c \in Clients, Handle(c) \/ Lose(c) \/ DialFails(c)
          PROVE  UNCHANGED doc
        BY <2>2, Zenon DEF Handle, HandleJoin, HandleUpdate, HandleFragmentHeader,
                      HandleFragment, UnknownFragment, Accept, Lose, DialFails, clientVars
    <2>3. ASSUME ReplayDies \/ FlushMeta \/ FlushLog \/ Hibernate \/ Alarm
          PROVE  UNCHANGED doc
        BY <2>3, Zenon DEF ReplayDies, FlushMeta, FlushLog, Hibernate, Alarm, AlarmLoads, AlarmPut,
                      AlarmRecord, clientVars
    <2>4. ASSUME Crash \/ GrowHeavy \/ GoMute \/ ResetLog \/ UNCHANGED vars
          PROVE  UNCHANGED doc
        BY <2>4, Zenon DEF Crash, GrowHeavy, GoMute, ResetLog, clientVars, vars
    <2> QED
        BY <2>1, <2>2, <2>3, <2>4, Zenon DEF Quiet
<1> QED
    BY <1>1, <1>2

-----------------------------------------------------------------------------
(* The inductive invariant: whatever is anywhere, its writer holds.         *)

RoomInv == Within(Committed) /\ ControlOK /\ OwnInv

LEMMA CommittedGrows ==
    ASSUME doc \in [Clients -> SUBSET Ops], NEW c \in Clients, NEW ops \in SUBSET Ops,
           doc' = [doc EXCEPT ![c] = @ \cup ops]
    PROVE  /\ Committed \subseteq Committed'
           /\ \A o \in ops : o[1] = c => o \in Committed'
<1>1. \A d \in Clients : doc[d] \subseteq doc'[d]
    OBVIOUS
<1>2. \A o \in Ops : o[1] \in Clients
    BY RoomAssumption DEF Ops
<1> QED
    BY <1>1, <1>2 DEF Committed

LEMMA InitInv == Init => RoomInv
<1> SUFFICES ASSUME Init PROVE RoomInv
    OBVIOUS
<1>1. Within(Committed)
    BY FreshWithin DEF Init, Within
<1>2. ControlOK
    <2>1. meta \in Metas /\ cache \in Metas
        BY FreshMetaType DEF Init
    <2>2. 0 \in 0..MaxFaults
        BY RoomAssumption
    <2> QED
        BY <2>1, <2>2 DEF Init, ControlOK, Sockets
<1>3. ASSUME NEW c \in Clients PROVE Numbered(c)
    <2>1. 0 \in 0..MaxWrites /\ {c} \X (1..0) = {}
        BY RoomAssumption
    <2>2. S!By(c, doc[c]) = {}
        BY DEF Init, S!By
    <2> QED
        BY <2>1, <2>2 DEF Numbered
<1> QED
    BY <1>1, <1>2, <1>3 DEF RoomInv, OwnInv

(* A quiet step is a Learn of the shared document, or nothing to it.        *)
LEMMA QuietShared ==
    ASSUME RoomInv, Quiet
    PROVE  RoomInv' /\ (S!Step \/ UNCHANGED doc)
<1>1. PICK G : G = Committed
    OBVIOUS
<1>2. G \subseteq Ops /\ Within(G) /\ ControlOK
    BY <1>1 DEF RoomInv, Committed
<1>3. Within(G)' /\ ControlOK'
    BY <1>2, QuietStep
<1>4. CASE UNCHANGED doc
    <2>1. Committed' = G /\ OwnInv'
        BY <1>1, <1>4 DEF Committed, RoomInv, OwnInv, Numbered
    <2> QED
        BY <1>3, <1>4, <2>1 DEF RoomInv
<1>5. ASSUME NEW c \in Clients, NEW ops \in SUBSET G, doc' = [doc EXCEPT ![c] = @ \cup ops]
      PROVE  RoomInv' /\ S!Step
    <2>1. \A o \in ops : o \in Ops /\ o[1] \in Clients /\ o \in doc[o[1]]
        BY <1>1, RoomAssumption DEF Committed, Ops
    <2>2. doc \in [Clients -> SUBSET G]
        BY <1>2 DEF Within
    <2>3. G \subseteq Committed'
        BY <1>1, <1>2, <1>5, <2>2, CommittedGrows
    <2>4. Within(Committed)'
        <3>1. PICK H : H = Committed'
            OBVIOUS
        <3>2. Within(H)'
            <4>1. SessionsOf(G) \subseteq SessionsOf(H)
                BY <2>3, <3>1 DEF SessionsOf
            <4>2. Messages(G) \subseteq Messages(H)
                BY <2>3, <3>1 DEF Messages
            <4>3. Seq(Messages(G)) \subseteq Seq(Messages(H))
                BY <4>2
            <4> QED
                BY <1>3, <2>3, <3>1, <4>1, <4>3 DEF Within
        <3> QED
            BY <3>1, <3>2
    <2>5. ASSUME NEW d \in Clients PROVE S!By(d, doc'[d]) = S!By(d, doc[d])
        BY <1>5, <2>1, <2>2 DEF S!By
    <2>6. OwnInv'
        <3>1. ASSUME NEW d \in Clients PROVE Numbered(d)'
            <4>1. PICK k \in 0..MaxWrites : S!By(d, doc[d]) = {d} \X (1..k)
                BY DEF RoomInv, OwnInv, Numbered
            <4> QED
                BY <2>5, <4>1 DEF Numbered, S!By
        <3> QED
            BY <3>1 DEF OwnInv
    <2>7. ops \in SUBSET UNION {doc[d] : d \in Clients}
        BY <2>1
    <2>8. S!Learn(c)
        BY <1>5, <2>1, <2>7 DEF S!Learn
    <2> QED
        BY <1>3, <2>4, <2>6, <2>8 DEF RoomInv, S!Step
<1> QED
    BY <1>2, <1>4, <1>5, QuietLearns

(* A Write is a Commit of the shared document.                              *)
LEMMA WriteShared ==
    ASSUME RoomInv, NEW c \in Clients, Write(c)
    PROVE  RoomInv' /\ S!Step
<1>1. PICK G : G = Committed
    OBVIOUS
<1>2. G \subseteq Ops /\ Within(G) /\ ControlOK /\ OwnInv
    BY <1>1 DEF RoomInv, Committed
<1>3. PICK n \in 1..MaxWrites :
          /\ c \in Writers
          /\ S!By(c, doc[c]) = {c} \X (1..(n - 1))
          /\ doc' = [doc EXCEPT ![c] = @ \cup {<<c, n>>}]
          /\ Within(G \cup {<<c, n>>})' /\ ControlOK'
    BY <1>2, WriteStep
<1>4. S!Commit(c)
    BY <1>3 DEF S!Commit
<1>5. doc \in [Clients -> SUBSET Ops] /\ <<c, n>> \in Ops
    BY <1>2, <1>3 DEF Within, Ops
<1>6. G \cup {<<c, n>>} \subseteq Committed'
    <2>1. PICK ops \in SUBSET Ops : ops = {<<c, n>>}
        BY <1>5
    <2>2. Committed \subseteq Committed' /\ \A o \in ops : o[1] = c => o \in Committed'
        BY <1>3, <1>5, <2>1, CommittedGrows
    <2>3. <<c, n>> \in Committed'
        BY <2>1, <2>2
    <2> QED
        BY <1>1, <2>2, <2>3
<1>7. Within(Committed)'
    <2>1. PICK H, K : H = Committed' /\ K = G \cup {<<c, n>>}
        OBVIOUS
    <2>2. SessionsOf(K) \subseteq SessionsOf(H)
        BY <1>6, <2>1 DEF SessionsOf
    <2>3. Messages(K) \subseteq Messages(H)
        BY <1>6, <2>1 DEF Messages
    <2>4. Seq(Messages(K)) \subseteq Seq(Messages(H))
        BY <2>3
    <2>5. Within(K)'
        BY <1>3, <2>1
    <2>6. Within(H)'
        BY <1>6, <2>1, <2>2, <2>4, <2>5 DEF Within
    <2> QED
        BY <2>1, <2>6
<1>8. OwnInv'
    <2>1. ASSUME NEW d \in Clients, d # c PROVE Numbered(d)'
        <3>1. PICK k \in 0..MaxWrites : S!By(d, doc[d]) = {d} \X (1..k)
            BY <1>2 DEF OwnInv, Numbered
        <3>2. doc'[d] = doc[d]
            BY <1>3, <1>5, <2>1
        <3> QED
            BY <3>1, <3>2 DEF Numbered, S!By
    <2>2. Numbered(c)'
        <3>1. doc'[c] = doc[c] \cup {<<c, n>>}
            BY <1>3, <1>5
        <3>2. S!By(c, doc'[c]) = S!By(c, doc[c]) \cup {<<c, n>>}
            BY <3>1 DEF S!By
        <3>3. (1..(n - 1)) \cup {n} = 1..n
            BY <1>3, RoomAssumption
        <3>4. S!By(c, doc'[c]) = {c} \X (1..n)
            <4>1. \A A, B : ({c} \X A) \cup ({c} \X B) = {c} \X (A \cup B)
                OBVIOUS
            <4>2. {<<c, n>>} = {c} \X {n}
                OBVIOUS
            <4> QED
                BY <1>3, <3>2, <3>3, <4>1, <4>2
        <3>5. n \in 0..MaxWrites
            BY RoomAssumption
        <3> QED
            BY <3>4, <3>5 DEF Numbered, S!By
    <2> QED
        BY <2>1, <2>2 DEF OwnInv
<1> QED
    BY <1>3, <1>4, <1>7, <1>8 DEF RoomInv, S!Step

LEMMA NextShared == RoomInv /\ [Next]_vars => RoomInv' /\ (S!Step \/ UNCHANGED doc)
<1> SUFFICES ASSUME RoomInv, [Next]_vars PROVE RoomInv' /\ (S!Step \/ UNCHANGED doc)
    OBVIOUS
<1> QED
    BY NextParts, QuietShared, WriteShared

LEMMA RoomInvType == RoomInv => TypeOK
<1> SUFFICES ASSUME RoomInv PROVE TypeOK
    OBVIOUS
<1>1. PICK G : G = Committed
    OBVIOUS
<1>2. Within(G) /\ G \subseteq Ops /\ ControlOK
    BY <1>1 DEF RoomInv, Committed
<1> QED
    BY <1>2, Widen, TypeParts

-----------------------------------------------------------------------------
(* Every variable keeps its type (the records and channels of RoomActor,    *)
(* Session and SessionRoom), whatever the bounds.                           *)
THEOREM TypeCorrect == Spec => []TypeOK
BY InitInv, NextShared, RoomInvType, PTL DEF Spec

(* No operation is anywhere, in a replica, the room or under way, that its  *)
(* writer does not hold: no loss of a log or of an instance can make the    *)
(* room spread what nobody wrote, nor a writer lose what it wrote.          *)
THEOREM WritersHoldAll == Spec => []Within(Committed)
<1>1. RoomInv => Within(Committed)
    BY DEF RoomInv
<1> QED
    BY <1>1, InitInv, NextShared, PTL DEF Spec

(* The replicas the room clients maintain implement SharedDocument: each    *)
(* step commits the writer's next operation, learns what writers hold, or   *)
(* changes no replica.                                                      *)
THEOREM Implements == Spec => ImplementsShared
<1>1. Init => S!Start
    BY DEF Init, S!Start
<1>2. RoomInv /\ [Next]_vars => [S!Step]_doc
    BY NextShared
<1> QED
    BY <1>1, <1>2, InitInv, NextShared, PTL DEF Spec, ImplementsShared, S!Shared

(* Only the alarm's put replaces the backup, and a backup on record is then *)
(* a part of what replaces it (session-room.ts:854-883).                    *)
THEOREM BackupsGrow == Spec => RecordedBackupGrows
<1> DEFINE Grows == cache.backedUp /\ backup \subseteq cache.backupVV => backup \subseteq backup'
<1>1. [Next]_vars => Grows
  <2> SUFFICES ASSUME [Next]_vars PROVE Grows
      OBVIOUS
  <2>1. ASSUME NEW c \in Clients,
               \/ Write(c) \/ Session(c) \/ Timers(c) \/ Probe(c) \/ Handle(c)
               \/ Lose(c) \/ DialFails(c)
        PROVE  backup' = backup
    <3>1. CASE Write(c) \/ Probe(c) \/ Timers(c) \/ Lose(c) \/ DialFails(c)
        BY <3>1 DEF Write, Probe, Timers, Dial, Deadline, Lose, DialFails, backupVars
    <3>2. CASE Session(c)
        BY <3>2 DEF Session, OnJoinOk, ApplyRemote, OnAckOk, OnFragmentTimeout, Arrives, backupVars
    <3>3. CASE Handle(c)
        BY <3>3 DEF Handle, HandleJoin, HandleUpdate, HandleFragmentHeader, HandleFragment,
           UnknownFragment, Accept, backupVars
    <3> QED
        BY <2>1, <3>1, <3>2, <3>3
  <2>2. ASSUME \/ ReplayDies \/ FlushMeta \/ FlushLog \/ Hibernate \/ AlarmLoads
               \/ AlarmRecord \/ Crash \/ GrowHeavy \/ GoMute \/ ResetLog \/ UNCHANGED vars
        PROVE  backup' = backup
      BY <2>2 DEF ReplayDies, FlushMeta, FlushLog, Hibernate, AlarmLoads, AlarmRecord, Crash,
         GrowHeavy, GoMute, ResetLog, backupVars, vars
  <2>3. AlarmPut => Grows
      BY DEF AlarmPut, MayReplace
  <2> QED
      BY <2>1, <2>2, <2>3 DEF Next, Alarm
<1> QED
    BY <1>1, PTL DEF Spec, RecordedBackupGrows

-----------------------------------------------------------------------------
(* Quiet sessions are in sync.                                              *)
(*                                                                          *)
(* What a member lacks of the room's content is on its way down; what the   *)
(* room lacks of a joined client's replica is on its way up, or waits for   *)
(* the client to learn that its fragments were lost. The content shrinks    *)
(* only in steps that leave the room without members.                       *)

Elems(s) == {s[i] : i \in 1..Len(s)}

(* Operation o of c's replica is on its way to the room. A fragment the     *)
(* room cannot place is sent again as long as its batch is unacknowledged.  *)
Carried(c, o) ==
    \/ \E m \in Elems(up[c]) : m.kind = "update" /\ o \in m.ops
    \/ \E m \in Elems(up[c]) : m.kind = "fragment" /\ m.ops \in sess[c].pending /\ o \in m.ops
    \/ \E m \in Elems(down[c]) :
           m.kind = "fragment_timeout" /\ m.ops \in sess[c].pending /\ o \in m.ops

Membership(c) ==
    /\ c \in member \/ up[c] # <<>> => Connected(c)
    /\ sess[c].joined \/ down[c] # <<>> => c \in member

UpInv(c) ==
    /\ \A m \in Elems(up[c]) : m.ops \subseteq doc[c] /\ (m.kind # "join" => sess[c].joined)
    /\ \A ops \in sess[c].pending : ops \subseteq doc[c] /\ sess[c].joined
    /\ sess[c].joined => \A o \in doc[c] : o \in Content \/ Carried(c, o)

DownInv(c) ==
    /\ \A m \in Elems(down[c]) : m.kind # "fragment_timeout" => m.ops \subseteq Content
    /\ c \in member => \A o \in Content :
           o \in doc[c] \/ \E m \in Elems(down[c]) : m.kind = "update" /\ o \in m.ops

Synced(c) == Membership(c) /\ UpInv(c) /\ DownInv(c)

(* Replay attempts are counted while nobody is in the room.                 *)
ReplayInv == cache.attempts > 0 => member = {} /\ ~loaded

SyncInv == (\A c \in Clients : Synced(c)) /\ ReplayInv

-----------------------------------------------------------------------------
(* Elements of channels                                                     *)

LEMMA ElemsEmpty == Elems(<<>>) = {}
BY DEF Elems

LEMMA ElemsAppend ==
    ASSUME NEW M, NEW s \in Seq(M), NEW x \in M
    PROVE  Elems(Append(s, x)) = Elems(s) \cup {x}
<1>1. Len(Append(s, x)) = Len(s) + 1 /\ Append(s, x)[Len(s) + 1] = x
    OBVIOUS
<1>2. \A i \in 1..Len(s) : Append(s, x)[i] = s[i]
    OBVIOUS
<1>3. 1..(Len(s) + 1) = (1..Len(s)) \cup {Len(s) + 1}
    BY LenProperties
<1> QED
    BY <1>1, <1>2, <1>3 DEF Elems

LEMMA ElemsTail ==
    ASSUME NEW M, NEW s \in Seq(M), s # <<>>
    PROVE  Elems(s) = {Head(s)} \cup Elems(Tail(s))
<1>1. Len(s) \in Nat \ {0} /\ Len(Tail(s)) = Len(s) - 1
    OBVIOUS
<1>2. \A i \in 1..(Len(s) - 1) : Tail(s)[i] = s[i + 1]
    BY <1>1
<1>3. Head(s) = s[1]
    OBVIOUS
<1>4. ASSUME NEW x \in Elems(s) PROVE x \in {Head(s)} \cup Elems(Tail(s))
    <2>1. PICK i \in 1..Len(s) : x = s[i]
        BY <1>4 DEF Elems
    <2>2. CASE i = 1
        BY <1>3, <2>1, <2>2
    <2>3. CASE i # 1
        <3>1. (i - 1) \in 1..Len(Tail(s)) /\ Tail(s)[i - 1] = x
            BY <1>1, <1>2, <2>1, <2>3
        <3> QED
            BY <3>1 DEF Elems
    <2> QED
        BY <2>2, <2>3
<1>5. ASSUME NEW x \in Elems(Tail(s)) PROVE x \in Elems(s)
    <2>1. PICK i \in 1..Len(Tail(s)) : x = Tail(s)[i]
        BY <1>5 DEF Elems
    <2>2. (i + 1) \in 1..Len(s) /\ s[i + 1] = x
        BY <1>1, <1>2, <2>1
    <2> QED
        BY <2>2 DEF Elems
<1>6. Head(s) \in Elems(s)
    BY <1>1, <1>3 DEF Elems
<1> QED
    BY <1>4, <1>5, <1>6

LEMMA ElemsConcat ==
    ASSUME NEW M, NEW s \in Seq(M), NEW t \in Seq(M)
    PROVE  Elems(s \o t) = Elems(s) \cup Elems(t)
<1>1. Len(s) \in Nat /\ Len(t) \in Nat /\ Len(s \o t) = Len(s) + Len(t)
    OBVIOUS
<1>2. \A i \in 1..(Len(s) + Len(t)) : (s \o t)[i] = IF i <= Len(s) THEN s[i] ELSE t[i - Len(s)]
    OBVIOUS
<1>3. ASSUME NEW x \in Elems(s \o t) PROVE x \in Elems(s) \cup Elems(t)
    <2>1. PICK i \in 1..(Len(s) + Len(t)) : x = (s \o t)[i]
        BY <1>1, <1>3 DEF Elems
    <2>2. CASE i <= Len(s)
        BY <1>1, <1>2, <2>1, <2>2 DEF Elems
    <2>3. CASE ~(i <= Len(s))
        <3>1. (i - Len(s)) \in 1..Len(t) /\ x = t[i - Len(s)]
            BY <1>1, <1>2, <2>1, <2>3
        <3> QED
            BY <3>1 DEF Elems
    <2> QED
        BY <2>2, <2>3
<1>4. ASSUME NEW x \in Elems(s) PROVE x \in Elems(s \o t)
    <2>1. PICK i \in 1..Len(s) : x = s[i]
        BY <1>4 DEF Elems
    <2>2. i \in 1..(Len(s) + Len(t)) /\ (s \o t)[i] = x
        BY <1>1, <1>2, <2>1
    <2> QED
        BY <1>1, <2>2 DEF Elems
<1>5. ASSUME NEW x \in Elems(t) PROVE x \in Elems(s \o t)
    <2>1. PICK i \in 1..Len(t) : x = t[i]
        BY <1>5 DEF Elems
    <2>2. (i + Len(s)) \in 1..(Len(s) + Len(t)) /\ (s \o t)[i + Len(s)] = x
        BY <1>1, <1>2, <2>1
    <2> QED
        BY <1>1, <2>2 DEF Elems
<1> QED
    BY <1>3, <1>4, <1>5

LEMMA ElemsOne == \A x : Elems(<<x>>) = {x}
BY DEF Elems

LEMMA MsgFields == \A k, ops : Msg(k, ops).kind = k /\ Msg(k, ops).ops = ops
BY DEF Msg

(* A batch carries its operations in an update or in a fragment.            *)
LEMMA BatchElems ==
    ASSUME NEW ops \in SUBSET Ops
    PROVE  /\ \A m \in Elems(Batch(ops)) : m.ops = ops /\ m.kind # "join"
           /\ \E m \in Elems(Batch(ops)) : m.kind \in {"update", "fragment"} /\ m.ops = ops
<1>1. CASE Cardinality(ops) <= Fits
    <2>1. Elems(Batch(ops)) = {Msg("update", ops)}
        BY <1>1, ElemsOne DEF Batch
    <2> QED
        BY <2>1, MsgFields
<1>2. CASE ~(Cardinality(ops) <= Fits)
    <2>1. Batch(ops) = <<Msg("header", ops), Msg("fragment", ops)>>
        BY <1>2 DEF Batch
    <2>2. Elems(Batch(ops)) = {Msg("header", ops), Msg("fragment", ops)}
        <3>1. \A x, y : Elems(<<x, y>>) = {x, y}
            BY DEF Elems
        <3> QED
            BY <2>1, <3>1
    <2> QED
        BY <2>2, MsgFields
<1> QED
    BY <1>1, <1>2

LEMMA Typed ==
    ASSUME TypeOK, NEW c \in Clients
    PROVE  /\ doc[c] \in SUBSET Ops /\ sess[c] \in Sessions
           /\ up[c] \in Seq(Message) /\ down[c] \in Seq(Message)
           /\ sess[c].pending \in SUBSET (SUBSET Ops)
<1>1. /\ doc[c] \in SUBSET Ops /\ sess[c] \in Sessions
      /\ up[c] \in Seq(Message) /\ down[c] \in Seq(Message)
    BY DEF TypeOK
<1> QED
    BY <1>1 DEF Sessions

-----------------------------------------------------------------------------
(* Clients a step leaves alone, or whose sockets it closes                  *)

LEMMA SameStep ==
    ASSUME NEW d \in Clients, Synced(d), doc'[d] = doc[d], sock'[d] = sock[d],
           sess'[d] = sess[d], up'[d] = up[d], down'[d] = down[d],
           d \in member' <=> d \in member, Content' = Content
    PROVE  Synced(d)'
BY DEF Synced, Membership, UpInv, DownInv, Carried, Connected

(* Outside the room the content does not matter.                            *)
LEMMA OutsideStep ==
    ASSUME NEW d \in Clients, Synced(d), d \notin member, d \notin member',
           doc'[d] = doc[d], sess'[d] = sess[d], up'[d] = up[d], down'[d] = down[d],
           up[d] # <<>> => sock'[d] = sock[d]
    PROVE  Synced(d)'
BY ElemsEmpty DEF Synced, Membership, UpInv, DownInv, Connected

LEMMA ClosedStep ==
    ASSUME NEW d \in Clients, d \notin member', sess'[d] = FreshSession,
           up'[d] = <<>>, down'[d] = <<>>
    PROVE  Synced(d)'
BY ElemsEmpty DEF Synced, Membership, UpInv, DownInv, FreshSession

LEMMA CloseSync ==
    ASSUME SyncInv, TypeOK, NEW cs, CloseSockets(cs), UNCHANGED <<doc, Content>>
    PROVE  \A d \in Clients : Synced(d)'
<1> SUFFICES ASSUME NEW d \in Clients PROVE Synced(d)'
    OBVIOUS
<1>1. CASE d \in cs
    BY <1>1, ClosedStep DEF CloseSockets
<1>2. CASE d \notin cs
    BY <1>2, SameStep DEF CloseSockets, SyncInv, TypeOK
<1> QED
    BY <1>1, <1>2

LEMMA AllClosed ==
    ASSUME CloseSockets(Clients)
    PROVE  (\A d \in Clients : Synced(d)') /\ member' \cap Clients = {}
BY ClosedStep DEF CloseSockets

-----------------------------------------------------------------------------
(* Steps of sockets                                                         *)

LEMMA CloseKeeps ==
    ASSUME SyncInv, TypeOK, NEW c \in Clients, Lose(c) \/ Deadline(c)
    PROVE  SyncInv'
<1>1. /\ CloseSockets({c}) /\ UNCHANGED <<doc, log, unflushed, cache, loaded>>
    BY DEF Lose, Deadline, storeVars
<1>2. Content' = Content /\ member' \subseteq member
    BY <1>1 DEF Content, CloseSockets
<1> QED
    BY <1>1, <1>2, CloseSync DEF SyncInv, ReplayInv

LEMMA DialFailsKeeps ==
    ASSUME SyncInv, TypeOK, NEW c \in Clients, DialFails(c)
    PROVE  SyncInv'
<1>1. /\ sock[c] = "new" /\ sock' = [sock EXCEPT ![c] = "failed"]
      /\ UNCHANGED <<doc, sess, up, down, member, loaded, log, unflushed, cache>>
    BY DEF DialFails, storeVars
<1>2. c \notin member /\ up[c] = <<>>
    BY <1>1 DEF SyncInv, Synced, Membership, Connected
<1>3. ASSUME NEW d \in Clients PROVE Synced(d)'
    <2>1. CASE d = c
        BY <1>1, <1>2, <2>1, OutsideStep DEF SyncInv
    <2>2. CASE d # c
        BY <1>1, <2>2, SameStep DEF SyncInv, Content, TypeOK
    <2> QED
        BY <2>1, <2>2
<1> QED
    BY <1>1, <1>3 DEF SyncInv, ReplayInv

LEMMA DialKeeps ==
    ASSUME SyncInv, TypeOK, NEW c \in Clients, Dial(c)
    PROVE  SyncInv'
<1>1. /\ sock[c] \in {"new", "down"}
      /\ sock' = [sock EXCEPT ![c] = IF @ = "new" THEN "dialed" ELSE "up"]
      /\ sess' = [sess EXCEPT ![c] = [FreshSession EXCEPT !.out = "join"]]
      /\ up' = [up EXCEPT ![c] = <<Msg("join", doc[c])>>]
      /\ UNCHANGED <<doc, down, member, loaded, log, unflushed, cache>>
    BY DEF Dial, storeVars
<1>2. c \notin member /\ down[c] = <<>>
    BY <1>1 DEF SyncInv, Synced, Membership, Connected
<1>3. ASSUME NEW d \in Clients PROVE Synced(d)'
    <2>1. CASE d = c
        <3>1. sock'[c] \in {"dialed", "up"} /\ ~sess'[c].joined /\ sess'[c].pending = {}
            BY <1>1 DEF TypeOK, FreshSession
        <3>2. Elems(up'[c]) = {Msg("join", doc[c])} /\ Elems(down'[c]) = {}
            BY <1>1, <1>2, ElemsOne, ElemsEmpty DEF TypeOK
        <3>3. Membership(c)'
            BY <1>1, <1>2, <3>1 DEF Membership, Connected
        <3>4. UpInv(c)'
            BY <1>1, <3>1, <3>2, MsgFields DEF UpInv
        <3>5. DownInv(c)'
            BY <1>1, <1>2, <3>2 DEF DownInv
        <3> QED
            BY <2>1, <3>3, <3>4, <3>5 DEF Synced
    <2>2. CASE d # c
        BY <1>1, <2>2, SameStep DEF SyncInv, Content, TypeOK
    <2> QED
        BY <2>1, <2>2
<1> QED
    BY <1>1, <1>3 DEF SyncInv, ReplayInv

-----------------------------------------------------------------------------
(* Steps of sessions                                                        *)

(* Sending ops puts them on their way and takes nothing off it.             *)
LEMMA SendsCarries ==
    ASSUME TypeOK, NEW c \in Clients, NEW ops \in SUBSET Ops, NEW s \in Sessions,
           s.pending = sess[c].pending, Sends(c, ops, s)
    PROVE  /\ sess'[c].pending = sess[c].pending \cup {ops}
           /\ sess'[c].joined = s.joined
           /\ Elems(up'[c]) = Elems(up[c]) \cup Elems(Batch(ops))
           /\ up'[c] # <<>>
           /\ \A o \in ops : Carried(c, o)'
           /\ \A d \in Clients \ {c} : up'[d] = up[d] /\ sess'[d] = sess[d]
<1>1. /\ up' = [up EXCEPT ![c] = @ \o Batch(ops)]
      /\ sess' = [sess EXCEPT ![c] = [s EXCEPT !.pending = @ \cup {ops}]]
    BY DEF Sends
<1>2. up'[c] = up[c] \o Batch(ops) /\ sess'[c] = [s EXCEPT !.pending = @ \cup {ops}]
    BY <1>1 DEF TypeOK
<1>3. sess'[c].pending = sess[c].pending \cup {ops} /\ sess'[c].joined = s.joined
    BY <1>2 DEF Sessions
<1>4. Batch(ops) \in Seq(Message)
    BY BatchWithin DEF Message, Messages
<1>5. Elems(up'[c]) = Elems(up[c]) \cup Elems(Batch(ops))
    BY <1>2, <1>4, Typed, ElemsConcat
<1>6. \A o \in ops : Carried(c, o)'
    BY <1>3, <1>5, BatchElems DEF Carried
<1>7. up'[c] # <<>>
    BY <1>5, BatchElems, ElemsEmpty
<1>8. \A d \in Clients \ {c} : up'[d] = up[d] /\ sess'[d] = sess[d]
    BY <1>1 DEF TypeOK
<1> QED
    BY <1>3, <1>5, <1>6, <1>7, <1>8

LEMMA CarriedGrows ==
    ASSUME NEW c \in Clients, NEW o, Carried(c, o), Elems(up[c]) \subseteq Elems(up'[c]),
           sess[c].pending \subseteq sess'[c].pending, Elems(down[c]) \subseteq Elems(down'[c])
    PROVE  Carried(c, o)'
BY DEF Carried

LEMMA WriteKeeps ==
    ASSUME SyncInv, TypeOK, TypeOK', NEW c \in Clients, Write(c)
    PROVE  SyncInv'
<1>1. PICK op :
          /\ doc' = [doc EXCEPT ![c] = @ \cup {op}]
          /\ IF Connected(c) /\ sess[c].joined THEN Sends(c, {op}, sess[c])
                                               ELSE UNCHANGED <<up, sess>>
          /\ UNCHANGED <<sock, down, member, loaded, log, unflushed, cache>>
    BY DEF Write, storeVars
<1>2. doc'[c] = doc[c] \cup {op} /\ Content' = Content
    BY <1>1 DEF TypeOK, Content
<1>3. {op} \in SUBSET Ops
    BY <1>2 DEF TypeOK
<1>4. Synced(c)
    BY DEF SyncInv
<1>5. CASE sess[c].joined
    <2>1. Connected(c)
        BY <1>4, <1>5 DEF Synced, Membership
    <2>2. sess[c] \in Sessions
        BY Typed
    <2>3. Sends(c, {op}, sess[c])
        BY <1>1, <1>5, <2>1
    <2>4. /\ sess'[c].pending = sess[c].pending \cup {{op}} /\ sess'[c].joined
          /\ Elems(up'[c]) = Elems(up[c]) \cup Elems(Batch({op}))
          /\ \A o \in {op} : Carried(c, o)'
          /\ \A d \in Clients \ {c} : up'[d] = up[d] /\ sess'[d] = sess[d]
        BY <1>3, <1>5, <2>2, <2>3, SendsCarries
    <2>5. Membership(c)'
        BY <1>1, <1>4, <1>5, <2>1 DEF Synced, Membership, Connected
    <2>6. UpInv(c)'
        <3>1. \A m \in Elems(up'[c]) : m.ops \subseteq doc'[c]
            BY <1>2, <1>3, <1>4, <2>4, BatchElems DEF Synced, UpInv
        <3>2. \A ops \in sess'[c].pending : ops \subseteq doc'[c] /\ sess'[c].joined
            BY <1>2, <1>4, <2>4 DEF Synced, UpInv
        <3>3. ASSUME NEW o \in doc'[c] PROVE o \in Content' \/ Carried(c, o)'
            <4>1. CASE o \in doc[c]
                BY <1>1, <1>2, <1>4, <1>5, <2>4, <4>1, CarriedGrows DEF Synced, UpInv
            <4>2. CASE o = op
                BY <2>4, <4>2
            <4> QED
                BY <1>2, <4>1, <4>2
        <3> QED
            BY <2>4, <3>1, <3>2, <3>3 DEF UpInv
    <2>7. DownInv(c)'
        BY <1>1, <1>2, <1>4 DEF Synced, DownInv
    <2>8. ASSUME NEW d \in Clients, d # c PROVE Synced(d)'
        BY <1>1, <1>2, <2>4, <2>8, SameStep DEF SyncInv, TypeOK
    <2> QED
        BY <1>1, <2>5, <2>6, <2>7, <2>8 DEF SyncInv, Synced, ReplayInv
<1>6. CASE ~sess[c].joined
    <2>1. UNCHANGED <<up, sess>>
        BY <1>1, <1>6
    <2>2. Synced(c)'
        <3>1. Membership(c)'
            BY <1>1, <1>4, <2>1 DEF Synced, Membership, Connected
        <3>2. UpInv(c)'
            BY <1>2, <1>4, <1>6, <2>1 DEF Synced, UpInv
        <3>3. DownInv(c)'
            BY <1>1, <1>2, <1>4 DEF Synced, DownInv
        <3> QED
            BY <3>1, <3>2, <3>3 DEF Synced
    <2>3. ASSUME NEW d \in Clients, d # c PROVE Synced(d)'
        BY <1>1, <1>2, <2>1, <2>3, SameStep DEF SyncInv, TypeOK
    <2> QED
        BY <1>1, <2>2, <2>3 DEF SyncInv, ReplayInv
<1> QED
    BY <1>5, <1>6

(* A message that arrives at c was in its channel; the rest stays there.    *)
LEMMA ArrivesFacts ==
    ASSUME SyncInv, TypeOK, NEW c \in Clients, NEW k, Arrives(c, k)
    PROVE  /\ c \in member /\ Connected(c) /\ Synced(c)
           /\ Head(down[c]).kind = k /\ Head(down[c]).ops \in SUBSET Ops
           /\ Elems(down[c]) = {Head(down[c])} \cup Elems(down'[c])
           /\ \A d \in Clients \ {c} : down'[d] = down[d]
           /\ UNCHANGED <<member, loaded, log, unflushed, cache>> /\ Content' = Content
<1>1. /\ down[c] # <<>> /\ Head(down[c]).kind = k /\ down' = [down EXCEPT ![c] = Tail(@)]
      /\ UNCHANGED <<member, loaded, log, unflushed, cache>> /\ Connected(c)
    BY DEF Arrives, storeVars
<1>2. down[c] \in Seq(Message) /\ down'[c] = Tail(down[c])
    BY <1>1, Typed DEF TypeOK
<1>3. Head(down[c]) \in Message
    BY <1>1, <1>2
<1>4. c \in member /\ Synced(c)
    BY <1>1 DEF SyncInv, Synced, Membership
<1> QED
    BY <1>1, <1>2, <1>3, <1>4, ElemsTail DEF TypeOK, Message, Content

LEMMA OnJoinOkKeeps ==
    ASSUME SyncInv, TypeOK, NEW c \in Clients, OnJoinOk(c)
    PROVE  SyncInv'
<1> DEFINE h == Head(down[c])
           missing == doc[c] \ h.ops
           joined == [sess[c] EXCEPT !.joined = TRUE, !.out = "none"]
<1>1. /\ Arrives(c, "joined") /\ UNCHANGED doc
      /\ sock' = [sock EXCEPT ![c] = "up"]
      /\ IF missing = {} THEN sess' = [sess EXCEPT ![c] = joined] /\ UNCHANGED up
                         ELSE Sends(c, missing, joined)
    BY DEF OnJoinOk
<1>2. /\ c \in member /\ Synced(c) /\ h.kind = "joined" /\ h.ops \subseteq Content
      /\ Elems(down[c]) = {h} \cup Elems(down'[c])
      /\ \A d \in Clients \ {c} : down'[d] = down[d]
      /\ UNCHANGED <<member, loaded, log, unflushed, cache>> /\ Content' = Content
    BY <1>1, ArrivesFacts DEF Synced, DownInv
<1>3. sess[c] \in Sessions /\ missing \in SUBSET Ops
    BY Typed
<1>4. joined \in Sessions /\ joined.pending = sess[c].pending /\ joined.joined
    BY <1>3, SessionWith, Zenon DEF Sessions, SessionsOf
<1>5. /\ sess'[c].joined /\ sess[c].pending \subseteq sess'[c].pending
      /\ \A ops \in sess'[c].pending : ops \in sess[c].pending \/ ops = missing
      /\ Elems(up[c]) \subseteq Elems(up'[c])
      /\ \A m \in Elems(up'[c]) : m \in Elems(up[c]) \/ m.ops = missing
      /\ \A o \in missing : Carried(c, o)'
      /\ \A d \in Clients \ {c} : up'[d] = up[d] /\ sess'[d] = sess[d]
    <2>1. CASE missing = {}
        BY <1>1, <1>4, <2>1 DEF TypeOK
    <2>2. CASE missing # {}
        <3>1. PICK ops \in SUBSET Ops, s \in Sessions : ops = missing /\ s = joined
            BY <1>3, <1>4
        <3>2. Sends(c, ops, s) /\ s.pending = sess[c].pending /\ s.joined
            BY <1>1, <1>4, <2>2, <3>1
        <3>3. /\ sess'[c].pending = sess[c].pending \cup {ops} /\ sess'[c].joined
              /\ Elems(up'[c]) = Elems(up[c]) \cup Elems(Batch(ops))
              /\ \A o \in ops : Carried(c, o)'
              /\ \A d \in Clients \ {c} : up'[d] = up[d] /\ sess'[d] = sess[d]
            BY <3>2, SendsCarries
        <3>4. \A m \in Elems(Batch(ops)) : m.ops = ops
            BY BatchElems
        <3> QED
            BY <3>1, <3>3, <3>4
    <2> QED
        BY <2>1, <2>2
<1> HIDE DEF joined
<1>6. Membership(c)'
    BY <1>1, <1>2 DEF Membership, Connected, TypeOK
<1>7. UpInv(c)'
    <2>1. \A m \in Elems(up'[c]) : m.ops \subseteq doc'[c]
        BY <1>1, <1>2, <1>5 DEF Synced, UpInv
    <2>2. \A ops \in sess'[c].pending : ops \subseteq doc'[c] /\ sess'[c].joined
        BY <1>1, <1>2, <1>5 DEF Synced, UpInv
    <2>3. \A o \in doc'[c] : o \in Content' \/ Carried(c, o)'
        BY <1>1, <1>2, <1>5
    <2> QED
        BY <1>5, <2>1, <2>2, <2>3 DEF UpInv
<1>8. DownInv(c)'
    BY <1>1, <1>2 DEF Synced, DownInv
<1>9. ASSUME NEW d \in Clients, d # c PROVE Synced(d)'
    BY <1>1, <1>2, <1>5, <1>9, SameStep DEF SyncInv, TypeOK
<1> QED
    BY <1>2, <1>6, <1>7, <1>8, <1>9 DEF SyncInv, Synced, ReplayInv

LEMMA ApplyRemoteKeeps ==
    ASSUME SyncInv, TypeOK, NEW c \in Clients, ApplyRemote(c)
    PROVE  SyncInv'
<1> DEFINE h == Head(down[c])
<1>1. Arrives(c, "update") /\ UNCHANGED <<sock, sess, up>>
      /\ doc' = [doc EXCEPT ![c] = @ \cup h.ops]
    BY DEF ApplyRemote
<1>2. /\ c \in member /\ Synced(c) /\ h.kind = "update" /\ h.ops \subseteq Content
      /\ Elems(down[c]) = {h} \cup Elems(down'[c])
      /\ \A d \in Clients \ {c} : down'[d] = down[d]
      /\ UNCHANGED <<member, loaded, log, unflushed, cache>> /\ Content' = Content
    BY <1>1, ArrivesFacts DEF Synced, DownInv
<1>3. doc'[c] = doc[c] \cup h.ops
    BY <1>1 DEF TypeOK
<1>4. Membership(c)'
    BY <1>1, <1>2 DEF Synced, Membership, Connected
<1>5. UpInv(c)'
    <2>1. \A o \in Ops : Carried(c, o) => Carried(c, o)'
        BY <1>1, <1>2 DEF Carried
    <2>2. doc[c] \in SUBSET Ops
        BY Typed
    <2>3. sess'[c].joined => \A o \in doc'[c] : o \in Content' \/ Carried(c, o)'
        BY <1>1, <1>2, <1>3, <2>1, <2>2 DEF Synced, UpInv
    <2> QED
        BY <1>1, <1>2, <1>3, <2>3 DEF Synced, UpInv
<1>6. DownInv(c)'
    BY <1>2, <1>3 DEF Synced, DownInv
<1>7. ASSUME NEW d \in Clients, d # c PROVE Synced(d)'
    BY <1>1, <1>2, <1>7, SameStep DEF SyncInv, TypeOK
<1> QED
    BY <1>2, <1>4, <1>5, <1>6, <1>7 DEF SyncInv, Synced, ReplayInv

(* What is acknowledged is in the room: its carriers are not needed.        *)
LEMMA OnAckOkKeeps ==
    ASSUME SyncInv, TypeOK, NEW c \in Clients, OnAckOk(c)
    PROVE  SyncInv'
<1> DEFINE h == Head(down[c])
<1>1. Arrives(c, "ok") /\ UNCHANGED <<doc, sock, up>>
      /\ sess' = [sess EXCEPT ![c] = [sess[c] EXCEPT !.pending = @ \ {h.ops}]]
    BY DEF OnAckOk
<1>2. /\ c \in member /\ Synced(c) /\ h.kind = "ok" /\ h.ops \subseteq Content
      /\ Elems(down[c]) = {h} \cup Elems(down'[c])
      /\ \A d \in Clients \ {c} : down'[d] = down[d]
      /\ UNCHANGED <<member, loaded, log, unflushed, cache>> /\ Content' = Content
    BY <1>1, ArrivesFacts DEF Synced, DownInv
<1>3. /\ sess'[c].pending = sess[c].pending \ {h.ops}
      /\ sess'[c].joined = sess[c].joined
      /\ \A d \in Clients \ {c} : sess'[d] = sess[d]
    BY <1>1, Typed DEF TypeOK, Sessions
<1>4. Membership(c)'
    BY <1>1, <1>2, <1>3 DEF Synced, Membership, Connected
<1>5. UpInv(c)'
    <2>1. ASSUME NEW o, Carried(c, o) PROVE o \in Content \/ Carried(c, o)'
        BY <1>1, <1>2, <1>3, <2>1 DEF Carried
    <2>2. sess'[c].joined => \A o \in doc'[c] : o \in Content' \/ Carried(c, o)'
        BY <1>1, <1>2, <1>3, <2>1 DEF Synced, UpInv
    <2> QED
        BY <1>1, <1>2, <1>3, <2>2 DEF Synced, UpInv
<1>6. DownInv(c)'
    BY <1>1, <1>2 DEF Synced, DownInv
<1>7. ASSUME NEW d \in Clients, d # c PROVE Synced(d)'
    BY <1>1, <1>2, <1>3, <1>7, SameStep DEF SyncInv, TypeOK
<1> QED
    BY <1>2, <1>4, <1>5, <1>6, <1>7 DEF SyncInv, Synced, ReplayInv

LEMMA OnFragmentTimeoutKeeps ==
    ASSUME SyncInv, TypeOK, NEW c \in Clients, OnFragmentTimeout(c)
    PROVE  SyncInv'
<1> DEFINE h == Head(down[c])
<1>1. Arrives(c, "fragment_timeout") /\ UNCHANGED <<doc, sock>>
      /\ IF h.ops \in sess[c].pending THEN Sends(c, h.ops, sess[c]) ELSE UNCHANGED <<up, sess>>
    BY DEF OnFragmentTimeout
<1>2. /\ c \in member /\ Synced(c) /\ h.kind = "fragment_timeout" /\ h.ops \in SUBSET Ops
      /\ Elems(down[c]) = {h} \cup Elems(down'[c]) /\ Connected(c)
      /\ \A d \in Clients \ {c} : down'[d] = down[d]
      /\ UNCHANGED <<member, loaded, log, unflushed, cache>> /\ Content' = Content
    BY <1>1, ArrivesFacts
<1>3. /\ sess'[c].pending = sess[c].pending /\ sess'[c].joined = sess[c].joined
      /\ Elems(up[c]) \subseteq Elems(up'[c])
      /\ \A m \in Elems(up'[c]) :
             m \in Elems(up[c]) \/ (m.ops = h.ops /\ h.ops \in sess[c].pending)
      /\ \A d \in Clients \ {c} : up'[d] = up[d] /\ sess'[d] = sess[d]
      /\ h.ops \in sess[c].pending => \A o \in h.ops : Carried(c, o)'
    <2>1. CASE h.ops \in sess[c].pending
        <3>1. PICK ops \in SUBSET Ops, s \in Sessions : ops = h.ops /\ s = sess[c]
            BY <1>2, Typed
        <3>2. Sends(c, ops, s)
            BY <1>1, <2>1, <3>1
        <3>3. /\ sess'[c].pending = sess[c].pending \cup {ops}
              /\ sess'[c].joined = sess[c].joined
              /\ Elems(up'[c]) = Elems(up[c]) \cup Elems(Batch(ops))
              /\ \A o \in ops : Carried(c, o)'
              /\ \A d \in Clients \ {c} : up'[d] = up[d] /\ sess'[d] = sess[d]
            BY <3>1, <3>2, SendsCarries
        <3>4. \A m \in Elems(Batch(ops)) : m.ops = ops
            BY BatchElems
        <3> QED
            BY <2>1, <3>1, <3>3, <3>4
    <2>2. CASE h.ops \notin sess[c].pending
        BY <1>1, <2>2
    <2> QED
        BY <2>1, <2>2
<1>4. Membership(c)'
    BY <1>1, <1>2, <1>3 DEF Synced, Membership, Connected
<1>5. UpInv(c)'
    <2>1. ASSUME NEW o, Carried(c, o) PROVE Carried(c, o)'
        BY <1>2, <1>3, <2>1 DEF Carried
    <2>2. sess'[c].joined => \A o \in doc'[c] : o \in Content' \/ Carried(c, o)'
        BY <1>1, <1>2, <1>3, <2>1 DEF Synced, UpInv
    <2>3. \A ops \in sess'[c].pending : ops \subseteq doc'[c] /\ sess'[c].joined
        BY <1>1, <1>2, <1>3 DEF Synced, UpInv
    <2>4. \A m \in Elems(up'[c]) : m.ops \subseteq doc'[c]
        BY <1>1, <1>2, <1>3 DEF Synced, UpInv
    <2> QED
        BY <1>2, <1>3, <2>2, <2>3, <2>4 DEF Synced, UpInv
<1>6. DownInv(c)'
    BY <1>1, <1>2 DEF Synced, DownInv
<1>7. ASSUME NEW d \in Clients, d # c PROVE Synced(d)'
    BY <1>1, <1>2, <1>3, <1>7, SameStep DEF SyncInv, TypeOK
<1> QED
    BY <1>2, <1>4, <1>5, <1>6, <1>7 DEF SyncInv, Synced, ReplayInv

LEMMA ProbeKeeps ==
    ASSUME SyncInv, TypeOK, NEW c \in Clients, Probe(c)
    PROVE  SyncInv'
<1>1. /\ sess[c].joined /\ Connected(c)
      /\ sess' = [sess EXCEPT ![c] = [sess[c] EXCEPT !.out = "probe"]]
      /\ up' = [up EXCEPT ![c] = Append(@, Msg("join", doc[c]))]
      /\ UNCHANGED <<doc, sock, down, member, loaded, log, unflushed, cache>>
    BY DEF Probe, storeVars
<1>2. Content' = Content /\ Synced(c) /\ doc[c] \in SUBSET Ops /\ up[c] \in Seq(Message)
    BY <1>1, Typed DEF Content, SyncInv
<1>3. /\ sess'[c].pending = sess[c].pending /\ sess'[c].joined
      /\ \A d \in Clients \ {c} : sess'[d] = sess[d] /\ up'[d] = up[d]
    BY <1>1, Typed DEF TypeOK, Sessions
<1>4. Elems(up'[c]) = Elems(up[c]) \cup {Msg("join", doc[c])}
    <2>1. Msg("join", doc[c]) \in Message
        BY <1>2 DEF Msg, Message, UpKinds
    <2>2. up'[c] = Append(up[c], Msg("join", doc[c]))
        BY <1>1 DEF TypeOK
    <2> QED
        BY <1>2, <2>1, <2>2, ElemsAppend
<1>5. Membership(c)'
    BY <1>1, <1>2, <1>3 DEF Synced, Membership, Connected
<1>6. UpInv(c)'
    <2>1. \A o : Carried(c, o) => Carried(c, o)'
        BY <1>1, <1>3, <1>4 DEF Carried
    <2>2. sess'[c].joined => \A o \in doc'[c] : o \in Content' \/ Carried(c, o)'
        BY <1>1, <1>2, <1>3, <2>1 DEF Synced, UpInv
    <2> QED
        BY <1>1, <1>2, <1>3, <1>4, <2>2, MsgFields DEF Synced, UpInv
<1>7. DownInv(c)'
    BY <1>1, <1>2 DEF Synced, DownInv
<1>8. ASSUME NEW d \in Clients, d # c PROVE Synced(d)'
    BY <1>1, <1>2, <1>3, <1>8, SameStep DEF SyncInv, TypeOK
<1> QED
    BY <1>1, <1>5, <1>6, <1>7, <1>8 DEF SyncInv, Synced, ReplayInv

-----------------------------------------------------------------------------
(* Steps of the room                                                        *)

(* The head of c's channel to the room; only a join comes from outside.     *)
LEMMA ToRoomFacts ==
    ASSUME SyncInv, TypeOK, NEW c \in Clients, NEW k, ToRoom(c, k),
           up' = [up EXCEPT ![c] = Tail(@)]
    PROVE  /\ Connected(c) /\ Synced(c)
           /\ Head(up[c]).kind = k /\ Head(up[c]).ops \in SUBSET Ops
           /\ Head(up[c]).ops \subseteq doc[c]
           /\ k # "join" => sess[c].joined /\ c \in member
           /\ Elems(up[c]) = {Head(up[c])} \cup Elems(up'[c])
           /\ \A d \in Clients \ {c} : up'[d] = up[d]
<1>1. up[c] # <<>> /\ Head(up[c]).kind = k /\ up[c] \in Seq(Message) /\ Synced(c)
    BY Typed DEF ToRoom, SyncInv
<1>2. up'[c] = Tail(up[c]) /\ \A d \in Clients \ {c} : up'[d] = up[d]
    BY DEF TypeOK
<1>3. Elems(up[c]) = {Head(up[c])} \cup Elems(up'[c])
    BY <1>1, <1>2, ElemsTail
<1>4. Head(up[c]) \in Message
    BY <1>1
<1> QED
    BY <1>1, <1>2, <1>3, <1>4 DEF Synced, Membership, UpInv, Message

(* The log is dropped in an empty room only.                                *)
LEMMA DroppingEmpty ==
    ASSUME SyncInv, TypeOK, Dropping
    PROVE  member = {}
<1>1. cache.attempts >= ReplayLimit /\ cache.attempts \in Nat
    BY DEF Dropping, TypeOK, Metas
<1> QED
    BY <1>1, RoomAssumption DEF SyncInv, ReplayInv

LEMMA EnsuredAttempts ==
    ASSUME SyncInv, TypeOK
    PROVE  EnsuredMeta.attempts = 0
<1>1. CASE loaded
    BY <1>1 DEF EnsuredMeta, SyncInv, ReplayInv, TypeOK, Metas
<1>2. CASE ~loaded
    BY <1>2 DEF EnsuredMeta, TypeOK, Metas
<1> QED
    BY <1>1, <1>2

LEMMA HandleJoinKeeps ==
    ASSUME SyncInv, TypeOK, NEW c \in Clients, HandleJoin(c)
    PROVE  SyncInv'
<1> DEFINE h == Head(up[c])
           missing == Basis \ h.ops
           backfill == IF missing = {} THEN <<>> ELSE <<Msg("update", missing)>>
<1>1. /\ ToRoom(c, "join") /\ EnsureDoc /\ cache' = EnsuredMeta
      /\ unflushed' = IF Dropping THEN {} ELSE unflushed
      /\ member' = member \cup {c} /\ up' = [up EXCEPT ![c] = Tail(@)]
      /\ down' = [down EXCEPT ![c] = @ \o <<Msg("joined", Basis)>> \o backfill]
      /\ UNCHANGED <<doc, sock, sess>>
    BY DEF HandleJoin, clientVars
<1>2. /\ Connected(c) /\ Synced(c) /\ h.kind = "join" /\ h.ops \subseteq doc[c]
      /\ Elems(up[c]) = {h} \cup Elems(up'[c])
      /\ \A d \in Clients \ {c} : up'[d] = up[d]
    BY <1>1, ToRoomFacts
<1>3. Content' = Basis /\ Basis \in SUBSET Ops
    BY <1>1 DEF EnsureDoc, Content, Basis, TypeOK
<1>4. /\ Elems(down'[c]) = Elems(down[c]) \cup {Msg("joined", Basis)} \cup Elems(backfill)
      /\ \A d \in Clients \ {c} : down'[d] = down[d]
    <2>1. <<Msg("joined", Basis)>> \in Seq(Message) /\ backfill \in Seq(Message)
        <3>1. \A k \in DownKinds, ops \in SUBSET Ops : <<Msg(k, ops)>> \in Seq(Message)
            BY MsgWithin DEF Message, Messages
        <3> QED
            BY <1>3, <3>1 DEF DownKinds
    <2>2. down[c] \in Seq(Message)
        BY Typed
    <2>3. Elems(<<Msg("joined", Basis)>>) = {Msg("joined", Basis)}
        BY ElemsOne
    <2> HIDE DEF backfill
    <2>4. down'[c] = down[c] \o <<Msg("joined", Basis)>> \o backfill
        BY <1>1 DEF TypeOK
    <2>5. down[c] \o <<Msg("joined", Basis)>> \in Seq(Message)
        BY <2>1, <2>2
    <2>6. Elems(down[c] \o <<Msg("joined", Basis)>>) = Elems(down[c]) \cup {Msg("joined", Basis)}
        <3>1. PICK t \in Seq(Message) : t = <<Msg("joined", Basis)>>
            BY <2>1
        <3>2. Elems(down[c] \o t) = Elems(down[c]) \cup Elems(t)
            BY <2>2, ElemsConcat
        <3> QED
            BY <2>3, <3>1, <3>2
    <2>7. Elems(down'[c]) = Elems(down[c] \o <<Msg("joined", Basis)>>) \cup Elems(backfill)
        <3>1. PICK s, t : s = down[c] \o <<Msg("joined", Basis)>> /\ t = backfill
            OBVIOUS
        <3>2. s \in Seq(Message) /\ t \in Seq(Message)
            BY <2>1, <2>5, <3>1
        <3>3. Elems(s \o t) = Elems(s) \cup Elems(t)
            BY <3>2, ElemsConcat
        <3> QED
            BY <2>4, <3>1, <3>3
    <2>8. \A d \in Clients \ {c} : down'[d] = down[d]
        BY <1>1 DEF TypeOK
    <2> QED
        BY <2>6, <2>7, <2>8
<1>5. /\ \A m \in Elems(backfill) : m.kind = "update" /\ m.ops = missing
      /\ missing # {} => \E m \in Elems(backfill) : m.kind = "update" /\ m.ops = missing
    BY ElemsEmpty, ElemsOne, MsgFields
<1>6. Dropping => member = {}
    BY DroppingEmpty
<1>7. ~Dropping => Content' = Content
    BY <1>3 DEF Basis
<1> HIDE DEF backfill
<1>8. Membership(c)'
    BY <1>1, <1>2 DEF Membership, Connected
<1>9. UpInv(c)'
    <2>1. sess[c].joined => Content' = Content
        BY <1>2, <1>6, <1>7 DEF Synced, Membership
    <2>2. \A o : Carried(c, o) => Carried(c, o)'
        BY <1>1, <1>2, <1>4 DEF Carried
    <2>3. sess'[c].joined => \A o \in doc'[c] : o \in Content' \/ Carried(c, o)'
        BY <1>1, <1>2, <2>1, <2>2 DEF Synced, UpInv
    <2>4. \A m \in Elems(up'[c]) : m.ops \subseteq doc'[c] /\ (m.kind # "join" => sess'[c].joined)
        BY <1>1, <1>2 DEF Synced, UpInv
    <2>5. \A ops \in sess'[c].pending : ops \subseteq doc'[c] /\ sess'[c].joined
        BY <1>1, <1>2 DEF Synced, UpInv
    <2> QED
        BY <2>3, <2>4, <2>5 DEF UpInv
<1>10. DownInv(c)'
    <2>1. \A m \in Elems(down[c]) : m.kind # "fragment_timeout" => m.ops \subseteq Content'
        <3>1. CASE Dropping
            BY <1>2, <1>6, <3>1, ElemsEmpty DEF Synced, Membership
        <3>2. CASE ~Dropping
            BY <1>2, <1>7, <3>2 DEF Synced, DownInv
        <3> QED
            BY <3>1, <3>2
    <2>2. \A m \in Elems(down'[c]) : m.kind # "fragment_timeout" => m.ops \subseteq Content'
        BY <1>3, <1>4, <1>5, <2>1, MsgFields
    <2>3. \A o \in Content' :
              o \in doc'[c] \/ \E m \in Elems(down'[c]) : m.kind = "update" /\ o \in m.ops
        BY <1>1, <1>2, <1>3, <1>4, <1>5
    <2> QED
        BY <2>2, <2>3 DEF DownInv
<1>11. ASSUME NEW d \in Clients, d # c PROVE Synced(d)'
    <2>1. UNCHANGED <<doc[d], sock[d], sess[d], up[d], down[d]>> /\ (d \in member' <=> d \in member)
        BY <1>1, <1>2, <1>4, <1>11
    <2>2. CASE Dropping
        BY <1>1, <1>6, <1>11, <2>1, <2>2, OutsideStep DEF SyncInv
    <2>3. CASE ~Dropping
        BY <1>7, <2>1, <2>3, SameStep DEF SyncInv
    <2> QED
        BY <2>2, <2>3
<1>12. ReplayInv'
    BY <1>1, EnsuredAttempts DEF ReplayInv
<1> QED
    BY <1>8, <1>9, <1>10, <1>11, <1>12 DEF SyncInv, Synced

(* The room takes ops of c: it holds them, and sends them to the others.    *)
LEMMA AcceptKeeps ==
    ASSUME SyncInv, TypeOK, NEW c \in Clients, NEW k \in {"update", "fragment"},
           ToRoom(c, k), Accept(c, Head(up[c]).ops)
    PROVE  SyncInv'
<1> DEFINE h == Head(up[c])
           ops == h.ops
<1>1. /\ EnsureDoc /\ cache' = [EnsuredMeta EXCEPT !.dirty = TRUE, !.postReset = FALSE]
      /\ unflushed' = (IF Dropping THEN {} ELSE unflushed) \cup ops
      /\ up' = [up EXCEPT ![c] = Tail(@)]
      /\ down' = [d \in Clients |->
                   IF d = c THEN Append(down[d], Msg("ok", ops))
                   ELSE IF d \in member THEN Append(down[d], Msg("update", ops)) ELSE down[d]]
      /\ UNCHANGED <<doc, sock, sess, member>>
    BY DEF Accept, clientVars
<1>2. /\ Connected(c) /\ Synced(c) /\ h.kind = k /\ ops \in SUBSET Ops /\ ops \subseteq doc[c]
      /\ sess[c].joined /\ c \in member
      /\ Elems(up[c]) = {h} \cup Elems(up'[c])
      /\ \A d \in Clients \ {c} : up'[d] = up[d]
    BY <1>1, ToRoomFacts
<1>3. ~Dropping
    BY <1>2, DroppingEmpty
<1>4. Content' = Content \cup ops
    BY <1>1, <1>3 DEF EnsureDoc, Content
<1>5. /\ Elems(down'[c]) = Elems(down[c]) \cup {Msg("ok", ops)}
      /\ \A d \in Clients \ {c} :
             d \in member => Elems(down'[d]) = Elems(down[d]) \cup {Msg("update", ops)}
      /\ \A d \in Clients \ {c} : d \notin member => down'[d] = down[d]
    <2>1. Msg("ok", ops) \in Message /\ Msg("update", ops) \in Message
        BY <1>2 DEF Msg, Message, UpKinds, DownKinds
    <2>2. \A d \in Clients : down[d] \in Seq(Message)
        BY Typed
    <2> QED
        BY <1>1, <2>1, <2>2, ElemsAppend
<1> HIDE DEF ops
<1>6. Synced(c)'
    <2>1. Membership(c)'
        BY <1>1, <1>2 DEF Membership, Connected
    <2>2. UpInv(c)'
        <3>1. \A o : Carried(c, o) => o \in Content' \/ Carried(c, o)'
            BY <1>1, <1>2, <1>4, <1>5 DEF Carried, ops
        <3>2. \A o \in doc'[c] : o \in Content' \/ Carried(c, o)'
            BY <1>1, <1>2, <1>4, <3>1 DEF Synced, UpInv
        <3>3. \A m \in Elems(up'[c]) : m.ops \subseteq doc'[c]
            BY <1>1, <1>2 DEF Synced, UpInv
        <3>4. \A b \in sess'[c].pending : b \subseteq doc'[c]
            BY <1>1, <1>2 DEF Synced, UpInv
        <3> QED
            BY <1>1, <1>2, <3>2, <3>3, <3>4 DEF UpInv
    <2>3. DownInv(c)'
        <3>1. \A m \in Elems(down'[c]) : m.kind # "fragment_timeout" => m.ops \subseteq Content'
            BY <1>2, <1>4, <1>5, MsgFields DEF Synced, DownInv
        <3>2. \A o \in Content' :
                  o \in doc'[c] \/ \E m \in Elems(down'[c]) : m.kind = "update" /\ o \in m.ops
            BY <1>1, <1>2, <1>4, <1>5 DEF Synced, DownInv
        <3> QED
            BY <3>1, <3>2 DEF DownInv
    <2> QED
        BY <2>1, <2>2, <2>3 DEF Synced
<1>7. ASSUME NEW d \in Clients, d # c PROVE Synced(d)'
    <2>0. Synced(d) /\ UNCHANGED <<doc[d], sock[d], sess[d], up[d], member>>
        BY <1>1, <1>2, <1>7 DEF SyncInv
    <2>1. CASE d \notin member
        BY <1>5, <1>7, <2>0, <2>1, OutsideStep
    <2>2. CASE d \in member
        <3>1. Elems(down'[d]) = Elems(down[d]) \cup {Msg("update", ops)}
            BY <1>5, <1>7, <2>2
        <3>2. Membership(d)'
            BY <2>0, <2>2 DEF Synced, Membership, Connected
        <3>3. UpInv(d)'
            <4>1. \A o : Carried(d, o) => Carried(d, o)'
                BY <2>0, <3>1 DEF Carried
            <4>2. sess'[d].joined => \A o \in doc'[d] : o \in Content' \/ Carried(d, o)'
                BY <1>4, <2>0, <4>1 DEF Synced, UpInv
            <4> QED
                BY <2>0, <4>2 DEF Synced, UpInv
        <3>4. DownInv(d)'
            <4>1. \A m \in Elems(down'[d]) : m.kind # "fragment_timeout" => m.ops \subseteq Content'
                BY <1>4, <2>0, <3>1, MsgFields DEF Synced, DownInv
            <4>2. \A o \in Content' :
                      o \in doc'[d] \/ \E m \in Elems(down'[d]) : m.kind = "update" /\ o \in m.ops
                BY <1>4, <2>0, <2>2, <3>1, MsgFields DEF Synced, DownInv
            <4> QED
                BY <4>1, <4>2 DEF DownInv
        <3> QED
            BY <3>2, <3>3, <3>4 DEF Synced
    <2> QED
        BY <2>1, <2>2
<1>8. ReplayInv'
    <2>1. EnsuredMeta \in Metas
        BY TypeParts, EnsuredType
    <2>2. cache'.attempts = EnsuredMeta.attempts
        BY <1>1, <2>1 DEF Metas
    <2> QED
        BY <2>2, EnsuredAttempts DEF ReplayInv
<1> QED
    BY <1>6, <1>7, <1>8 DEF SyncInv

(* A header carries nothing; a fragment without one is reported lost.       *)
LEMMA FramesKeep ==
    ASSUME SyncInv, TypeOK, NEW c \in Clients, HandleFragmentHeader(c) \/ UnknownFragment(c)
    PROVE  SyncInv'
<1> DEFINE h == Head(up[c])
<1>1. PICK k \in {"header", "fragment"} :
          /\ ToRoom(c, k) /\ up' = [up EXCEPT ![c] = Tail(@)]
          /\ IF k = "header" THEN UNCHANGED down
             ELSE down' = [down EXCEPT ![c] = Append(@, Msg("fragment_timeout", h.ops))]
          /\ UNCHANGED <<doc, sock, sess, member, loaded, log, unflushed, cache>>
    BY DEF HandleFragmentHeader, UnknownFragment, clientVars, storeVars
<1>2. /\ Connected(c) /\ Synced(c) /\ h.kind = k /\ h.ops \in SUBSET Ops
      /\ sess[c].joined /\ c \in member
      /\ Elems(up[c]) = {h} \cup Elems(up'[c])
      /\ \A d \in Clients \ {c} : up'[d] = up[d]
    BY <1>1, ToRoomFacts
<1>3. /\ k = "header" => Elems(down'[c]) = Elems(down[c])
      /\ k = "fragment" =>
             Elems(down'[c]) = Elems(down[c]) \cup {Msg("fragment_timeout", h.ops)}
      /\ \A d \in Clients \ {c} : down'[d] = down[d]
    <2>1. Msg("fragment_timeout", h.ops) \in Message /\ down[c] \in Seq(Message)
        BY <1>2, Typed DEF Msg, Message, DownKinds
    <2>2. k = "fragment" => down'[c] = Append(down[c], Msg("fragment_timeout", h.ops))
        BY <1>1 DEF TypeOK
    <2>3. Elems(Append(down[c], Msg("fragment_timeout", h.ops)))
              = Elems(down[c]) \cup {Msg("fragment_timeout", h.ops)}
        BY <2>1, ElemsAppend
    <2>4. \A d \in Clients \ {c} : down'[d] = down[d]
        BY <1>1 DEF TypeOK
    <2>5. k = "header" => down' = down
        BY <1>1
    <2> QED
        BY <2>2, <2>3, <2>4, <2>5
<1>4. Content' = Content
    BY <1>1 DEF Content
<1>5. Membership(c)'
    BY <1>1, <1>2 DEF Membership, Connected
<1>6. UpInv(c)'
    <2>1. \A o : Carried(c, o) => Carried(c, o)'
        BY <1>1, <1>2, <1>3, MsgFields DEF Carried
    <2>2. \A o \in doc'[c] : o \in Content' \/ Carried(c, o)'
        BY <1>1, <1>2, <1>4, <2>1 DEF Synced, UpInv
    <2> QED
        BY <1>1, <1>2, <2>2 DEF Synced, UpInv
<1>7. DownInv(c)'
    <2>1. \A m \in Elems(down'[c]) : m.kind # "fragment_timeout" => m.ops \subseteq Content'
        BY <1>2, <1>3, <1>4, MsgFields DEF Synced, DownInv
    <2>2. Elems(down[c]) \subseteq Elems(down'[c])
        BY <1>3
    <2> QED
        BY <1>1, <1>2, <1>4, <2>1, <2>2 DEF Synced, DownInv
<1>8. ASSUME NEW d \in Clients, d # c PROVE Synced(d)'
    BY <1>1, <1>2, <1>3, <1>4, <1>8, SameStep DEF SyncInv
<1> QED
    BY <1>1, <1>5, <1>6, <1>7, <1>8 DEF SyncInv, Synced, ReplayInv

(* Steps that leave clients, channels and content alone.                    *)
LEMMA QuietRoomKeeps ==
    ASSUME SyncInv, TypeOK, FlushMeta \/ FlushLog \/ Hibernate \/ GrowHeavy \/ GoMute
                            \/ AlarmPut \/ AlarmRecord \/ UNCHANGED vars
    PROVE  SyncInv'
<1>1. /\ UNCHANGED <<doc, sock, sess, up, down, member>>
      /\ loaded' = loaded \/ loaded' = FALSE
      /\ cache'.attempts = cache.attempts
    <2>1. CASE AlarmRecord
        BY <2>1 DEF AlarmRecord, clientVars, TypeOK, Metas
    <2>2. CASE ~AlarmRecord
        BY <2>2, Zenon DEF FlushMeta, FlushLog, Hibernate, GrowHeavy, GoMute, AlarmPut, clientVars,
                    vars
    <2> QED
        BY <2>1, <2>2
<1>2. Content' = Content
    BY DEF FlushMeta, FlushLog, Hibernate, GrowHeavy, GoMute, AlarmPut, AlarmRecord, Content,
           storeVars, vars
<1> QED
    BY <1>1, <1>2, SameStep DEF SyncInv, ReplayInv

LEMMA AlarmLoadsKeeps ==
    ASSUME SyncInv, TypeOK, AlarmLoads
    PROVE  SyncInv'
<1>1. /\ EnsureDoc /\ cache' = EnsuredMeta
      /\ UNCHANGED <<doc, sock, sess, up, down, member, unflushed>>
    BY DEF AlarmLoads, clientVars
<1>2. ASSUME NEW d \in Clients PROVE Synced(d)'
    <2>1. CASE Dropping
        BY <1>1, <2>1, DroppingEmpty, OutsideStep DEF SyncInv
    <2>2. CASE ~Dropping
        BY <1>1, <2>2, SameStep DEF SyncInv, EnsureDoc, Content
    <2> QED
        BY <2>1, <2>2
<1>3. ReplayInv'
    BY <1>1, EnsuredAttempts DEF ReplayInv
<1> QED
    BY <1>2, <1>3 DEF SyncInv

(* An instance that dies takes every socket with it.                        *)
LEMMA DiesKeeps ==
    ASSUME SyncInv, TypeOK, ReplayDies \/ Crash \/ ResetLog
    PROVE  SyncInv'
<1>1. CloseSockets(Clients) /\ loaded' = FALSE
    BY DEF ReplayDies, Crash, ResetLog, Dies
<1>2. member' = {}
    BY <1>1 DEF CloseSockets, TypeOK
<1> QED
    BY <1>1, <1>2, AllClosed DEF SyncInv, ReplayInv

-----------------------------------------------------------------------------
LEMMA InitSync == Init => SyncInv
<1> SUFFICES ASSUME Init PROVE SyncInv
    OBVIOUS
<1>1. ASSUME NEW c \in Clients PROVE Synced(c)
    BY ElemsEmpty DEF Init, Synced, Membership, UpInv, DownInv, FreshSession
<1>2. ReplayInv
    BY DEF Init, ReplayInv, FreshMeta
<1> QED
    BY <1>1, <1>2 DEF SyncInv

LEMMA NextSync == SyncInv /\ TypeOK /\ TypeOK' /\ [Next]_vars => SyncInv'
<1> SUFFICES ASSUME SyncInv, TypeOK, TypeOK', [Next]_vars PROVE SyncInv'
    OBVIOUS
<1>1. ASSUME NEW c \in Clients, Session(c) PROVE SyncInv'
    BY <1>1, OnJoinOkKeeps, ApplyRemoteKeeps, OnAckOkKeeps, OnFragmentTimeoutKeeps DEF Session
<1>2. ASSUME NEW c \in Clients, Timers(c) \/ Probe(c) \/ Lose(c) \/ DialFails(c) \/ Write(c)
      PROVE  SyncInv'
    BY <1>2, DialKeeps, CloseKeeps, ProbeKeeps, DialFailsKeeps, WriteKeeps DEF Timers
<1>3. ASSUME NEW c \in Clients, Handle(c) PROVE SyncInv'
    <2>1. CASE HandleUpdate(c)
        BY <2>1, AcceptKeeps DEF HandleUpdate
    <2>2. CASE HandleFragment(c)
        BY <2>2, AcceptKeeps DEF HandleFragment
    <2> QED
        BY <1>3, <2>1, <2>2, HandleJoinKeeps, FramesKeep DEF Handle
<1>4. CASE Alarm
    BY <1>4, AlarmLoadsKeeps, QuietRoomKeeps DEF Alarm
<1>5. CASE \/ ReplayDies \/ FlushMeta \/ FlushLog \/ Hibernate \/ Crash \/ GrowHeavy \/ GoMute
           \/ ResetLog \/ UNCHANGED vars
    BY <1>5, QuietRoomKeeps, DiesKeeps
<1> QED
    BY <1>1, <1>2, <1>3, <1>4, <1>5, NextParts DEF Quiet

(* A joined session with nothing in flight holds exactly what the room      *)
(* holds, for any clients, bounds, crashes, hibernations, resets and lost   *)
(* fragments (room.rs:895-966, session-room.ts:408-533).                    *)
THEOREM QuietIsInSync == Spec => []QuietMeansEqual
<1>1. SyncInv => QuietMeansEqual
    <2> SUFFICES ASSUME SyncInv, NEW c \in Clients,
                        sess[c].joined, up[c] = <<>>, down[c] = <<>>
                 PROVE  doc[c] = Content
        BY DEF QuietMeansEqual
    <2>1. c \in member /\ Elems(up[c]) = {} /\ Elems(down[c]) = {}
        BY ElemsEmpty DEF SyncInv, Synced, Membership
    <2>2. Content \subseteq doc[c]
        BY <2>1 DEF SyncInv, Synced, DownInv
    <2>3. doc[c] \subseteq Content
        BY <2>1 DEF SyncInv, Synced, UpInv, Carried
    <2> QED
        BY <2>2, <2>3
<1>2. RoomInv /\ [Next]_vars => RoomInv'
    BY NextShared
<1> QED
    BY <1>1, <1>2, InitInv, InitSync, RoomInvType, NextSync, PTL DEF Spec
=============================================================================
