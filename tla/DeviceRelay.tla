----------------------------- MODULE DeviceRelay -----------------------------
(* Calls and nudges to one remote device: callers that share a LinkCache    *)
(* (rpc/src/device_room.rs, rpc/src/client.rs), the device room at the edge *)
(* that relays their frames (edge/src/device-room.ts), and the HostRelay of *)
(* the device with its virtual connections (rpc/src/server.rs).             *)
(*                                                                          *)
(* Sockets are FIFO. A socket may die silently: neither end is told, its    *)
(* own end notices by its silence lease, the room when a host has not       *)
(* pinged for HOST_LIVENESS_MS. The room stays up, or restarts as a fault.  *)
EXTENDS Naturals, Sequences, FiniteSets

CONSTANTS
    Callers,
    Links,         \* ids of client sockets, in the order they are dialed
    Sessions,      \* ids of host sockets, in the order they join
    Chats,         \* chats that are nudged, once each
    DialAttempts,  \* DIAL_ATTEMPTS
    NudgeCap,      \* NUDGE_MAX_PENDING
    MaxCalls,      \* bound on the calls of a caller
    MaxInputs,     \* bound on calls and nudges together
    MaxFaults,     \* bound on lost sockets, restarts and wakes
    NoLink, NoSession, NoCaller

ASSUME RelayAssumption ==
    /\ Links \subseteq Nat /\ Sessions \subseteq Nat
    /\ DialAttempts \in Nat \ {0} /\ NudgeCap \in Nat \ {0}
    /\ MaxCalls \in Nat /\ MaxInputs \in Nat /\ MaxFaults \in Nat
    /\ NoLink \notin Links /\ NoSession \notin Sessions /\ NoCaller \notin Callers

(* Frames. A caller has at most one request under way, which it names.      *)
Request(l, p) == [kind |-> "request", link |-> l, of |-> p]
Answer(l, p) == [kind |-> "answer", link |-> l, of |-> p]
Control(l) == [kind |-> "relay", link |-> l, of |-> NoCaller]
NudgeFor(c) == [kind |-> "nudge", link |-> NoLink, of |-> c]
Requests == [kind : {"request"}, link : Links, of : Callers]
Answers == [kind : {"answer"}, link : Links, of : Callers]
Controls == [kind : {"relay"}, link : Links, of : {NoCaller}]
Nudges == [kind : {"nudge"}, link : {NoLink}, of : Chats]

CallerSteps == {"idle", "lock", "dial", "probe", "send", "call", "closed"}
Ends == {"unborn", "up", "ended"}

VARIABLES
    pc,         \* pc[p]: where LinkCache::client or forward stands
    mine,       \* mine[p]: the link in hand
    calls,      \* calls[p]: calls begun
    attempt,    \* attempt[p]: dials in this call of LinkCache::client
    cached,     \* LinkCache.links
    dialing,    \* who holds the dial lock
    cooling,    \* DialState.cooldown_until lies ahead
    client,     \* client[l]: the pump of the DeviceLink
    clients,    \* client sockets the room lists
    up, down,   \* up[l], down[l]: frames to and from the room
    host,       \* host[h]: the host's end of its session
    hosts,      \* host sockets the room lists
    cut,        \* host sockets that have died silently
    stale,      \* those not seen for HOST_LIVENESS_MS
    toHost, fromHost,
    conns,      \* conns[h]: clients with a virtual connection
    running,    \* running[h]: requests being handled
    queued,     \* pending_nudges, oldest first
    nudged, opened, \* chats nudged, and opened by on_nudge
    routed,     \* routed[p]: the session p's last request went to (history)
    untold,     \* sessions whose close no client was told of (history)
    faults

vars == <<pc, mine, calls, attempt, cached, dialing, cooling, client, clients, up, down,
          host, hosts, cut, stale, toHost, fromHost, conns, running, queued,
          nudged, opened, routed, untold, faults>>
callerVars == <<pc, mine, calls, attempt, dialing, cooling>>
nudgeVars == <<queued, nudged, opened>>
hostVars == <<host, hosts, cut, stale, untold>>
servedVars == <<conns, running>>

TypeOK ==
    /\ pc \in [Callers -> CallerSteps]
    /\ mine \in [Callers -> Links \cup {NoLink}]
    /\ calls \in [Callers -> 0..MaxCalls]
    /\ attempt \in [Callers -> 0..DialAttempts]
    /\ \A p \in Callers : pc[p] \in {"dial", "probe"} => attempt[p] < DialAttempts
    /\ cached \in Links \cup {NoLink}
    /\ dialing \in Callers \cup {NoCaller}
    /\ cooling \in BOOLEAN
    /\ client \in [Links -> Ends]
    /\ clients \subseteq Links
    /\ up \in [Links -> Seq(Requests)]
    /\ down \in [Links -> Seq(Answers \cup Controls)]
    /\ host \in [Sessions -> Ends]
    /\ hosts \subseteq Sessions /\ cut \subseteq Sessions
    /\ stale \subseteq Sessions /\ untold \subseteq Sessions
    /\ toHost \in [Sessions -> Seq(Requests \cup Controls \cup Nudges)]
    /\ fromHost \in [Sessions -> Seq(Answers)]
    /\ conns \in [Sessions -> SUBSET Links]
    /\ running \in [Sessions -> SUBSET (Links \X Callers)]
    /\ queued \in Seq(Chats) /\ Len(queued) <= NudgeCap
    /\ nudged \subseteq Chats /\ opened \subseteq Chats
    /\ routed \in [Callers -> Sessions \cup {NoSession}]
    /\ faults \in 0..MaxFaults

Init ==
    /\ pc = [p \in Callers |-> "idle"] /\ mine = [p \in Callers |-> NoLink]
    /\ calls = [p \in Callers |-> 0] /\ attempt = [p \in Callers |-> 0]
    /\ cached = NoLink /\ dialing = NoCaller /\ cooling = FALSE
    /\ client = [l \in Links |-> "unborn"] /\ clients = {}
    /\ up = [l \in Links |-> <<>>] /\ down = [l \in Links |-> <<>>]
    /\ host = [h \in Sessions |-> "unborn"]
    /\ hosts = {} /\ cut = {} /\ stale = {} /\ untold = {}
    /\ toHost = [h \in Sessions |-> <<>>] /\ fromHost = [h \in Sessions |-> <<>>]
    /\ conns = [h \in Sessions |-> {}] /\ running = [h \in Sessions |-> {}]
    /\ queued = <<>> /\ nudged = {} /\ opened = {}
    /\ routed = [p \in Callers |-> NoSession]
    /\ faults = 0

Fault == faults < MaxFaults /\ faults' = faults + 1
Begun == {c \in Callers \X (1..MaxCalls) : c[2] <= calls[c[1]]}
MoreInput == Cardinality(Begun) + Cardinality(nudged) < MaxInputs

-----------------------------------------------------------------------------
(* LinkCache: one dial at a time, retried in place, then a cooldown         *)

(* A link leaves a hand or the cache: its pump ends with its last owner.    *)
(* What waits on it fails, by the reader that its pump fed.                 *)
Orphans(ls) == [l \in Links |-> IF l \in ls /\ client[l] = "up" THEN "ended" ELSE client[l]]
Deaf(ls) == [l \in Links |-> IF l \in ls THEN <<>> ELSE down[l]]
DropLinks(ls) == client' = Orphans(ls) /\ down' = Deaf(ls)

Cached == IF cached # NoLink /\ client[cached] = "up" THEN cached ELSE NoLink

(* The fast path, outside any lock; a closed link does not count.           *)
Ask(p) ==
    /\ pc[p] = "idle" /\ calls[p] < MaxCalls /\ MoreInput
    /\ calls' = [calls EXCEPT ![p] = @ + 1]
    /\ pc' = [pc EXCEPT ![p] = IF Cached # NoLink THEN "send" ELSE "lock"]
    /\ mine' = [mine EXCEPT ![p] = Cached]
    /\ UNCHANGED <<attempt, cached, dialing, cooling, client, clients, up, down, hostVars,
                   toHost, fromHost, servedVars, nudgeVars, routed, faults>>

(* Under the lock: look again, then the cooldown, then dial.                *)
Lock(p) ==
    /\ pc[p] = "lock" /\ dialing = NoCaller
    /\ \/ /\ Cached # NoLink
          /\ pc' = [pc EXCEPT ![p] = "send"] /\ mine' = [mine EXCEPT ![p] = Cached]
          /\ UNCHANGED <<dialing, attempt>>
       \/ /\ Cached = NoLink /\ cooling
          /\ pc' = [pc EXCEPT ![p] = "idle"]
          /\ UNCHANGED <<mine, dialing, attempt>>
       \/ /\ Cached = NoLink /\ ~cooling
          /\ pc' = [pc EXCEPT ![p] = "dial"] /\ dialing' = p
          /\ attempt' = [attempt EXCEPT ![p] = 0]
          /\ UNCHANGED mine
    /\ UNCHANGED <<calls, cached, cooling, client, clients, up, down, hostVars, toHost, fromHost,
                   servedVars, nudgeVars, routed, faults>>

(* The room lets clients in once a host has claimed it. A new link sends    *)
(* its readiness probe at once.                                             *)
Dial(p, l) ==
    /\ pc[p] = "dial" /\ client[l] = "unborn"
    /\ \A m \in Links : client[m] = "unborn" => l <= m
    /\ \E h \in Sessions : host[h] # "unborn"
    /\ client' = [client EXCEPT ![l] = "up"] /\ clients' = clients \cup {l}
    /\ up' = [up EXCEPT ![l] = <<Request(l, p)>>]
    /\ mine' = [mine EXCEPT ![p] = l] /\ pc' = [pc EXCEPT ![p] = "probe"]
    /\ UNCHANGED <<calls, attempt, cached, dialing, cooling, down, hostVars, toHost, fromHost,
                   servedVars, nudgeVars, routed, faults>>

(* A dial failed, or its probe did: the next attempt, or a cooldown.        *)
ExhaustsLate(p) ==
    LET last == attempt[p] = DialAttempts IN
    /\ attempt' = [attempt EXCEPT ![p] = @ + 1]
    /\ pc' = [pc EXCEPT ![p] = IF last THEN "idle" ELSE "dial"]
    /\ mine' = [mine EXCEPT ![p] = NoLink]
    /\ dialing' = IF last THEN NoCaller ELSE dialing
    /\ cooling' = (cooling \/ last)

Exhausts(p) ==
    LET last == attempt[p] + 1 = DialAttempts IN
    /\ attempt' = [attempt EXCEPT ![p] = @ + 1]
    /\ pc' = [pc EXCEPT ![p] = IF last THEN "idle" ELSE "dial"]
    /\ mine' = [mine EXCEPT ![p] = NoLink]
    /\ dialing' = IF last THEN NoCaller ELSE dialing
    /\ cooling' = (cooling \/ last)

DialFails(p) ==
    /\ pc[p] = "dial"
    /\ Exhausts(p)
    /\ UNCHANGED <<calls, cached, client, clients, up, down, hostVars, toHost, fromHost, servedVars,
                   nudgeVars, routed, faults>>

(* The probe's timeout fires, or its link is down.                          *)
ProbeFails(p) ==
    /\ pc[p] = "probe"
    /\ Exhausts(p)
    /\ DropLinks({mine[p]})
    /\ UNCHANGED <<calls, cached, clients, up, hostVars, toHost, fromHost, servedVars, nudgeVars,
                   routed, faults>>

Answered(p) ==
    /\ mine[p] # NoLink /\ client[mine[p]] = "up"
    /\ down[mine[p]] # <<>> /\ Head(down[mine[p]]) = Answer(mine[p], p)
    /\ down' = [down EXCEPT ![mine[p]] = Tail(@)]

ProbeAnswered(p) ==
    /\ pc[p] = "probe" /\ Answered(p)
    /\ cached' = mine[p]
    /\ dialing' = NoCaller /\ cooling' = FALSE
    /\ pc' = [pc EXCEPT ![p] = "send"]
    /\ UNCHANGED <<mine, calls, attempt, client, clients, up, hostVars, toHost, fromHost, servedVars,
                   nudgeVars, routed, faults>>

(* The cooldown ends, or presence says that the device is alive.            *)
CooldownEnds ==
    /\ cooling
    /\ cooling' = FALSE
    /\ UNCHANGED <<pc, mine, calls, attempt, dialing, cached, client, clients, up, down, hostVars,
                   toHost, fromHost, servedVars, nudgeVars, routed, faults>>

-----------------------------------------------------------------------------
(* forward: the call itself *)

Send(p) ==
    LET l == mine[p] IN
    /\ pc[p] = "send"
    /\ IF client[l] = "up"
       THEN /\ up' = [up EXCEPT ![l] = Append(@, Request(l, p))]
            /\ pc' = [pc EXCEPT ![p] = "call"]
       ELSE pc' = [pc EXCEPT ![p] = "closed"] /\ UNCHANGED up
    /\ routed' = [routed EXCEPT ![p] = NoSession]
    /\ UNCHANGED <<mine, calls, attempt, dialing, cooling, cached, client, clients, down, hostVars,
                   toHost, fromHost, servedVars, nudgeVars, faults>>

CallAnswered(p) ==
    /\ pc[p] = "call" /\ Answered(p)
    /\ pc' = [pc EXCEPT ![p] = "idle"] /\ mine' = [mine EXCEPT ![p] = NoLink]
    /\ UNCHANGED <<calls, attempt, dialing, cooling, cached, client, clients, up, hostVars, toHost,
                   fromHost, servedVars, nudgeVars, routed, faults>>

CallFails(p) ==
    /\ pc[p] = "call" /\ client[mine[p]] = "ended"
    /\ pc' = [pc EXCEPT ![p] = "closed"]
    /\ UNCHANGED <<mine, calls, attempt, dialing, cooling, cached, client, clients, up, down, hostVars,
                   toHost, fromHost, servedVars, nudgeVars, routed, faults>>

(* invalidate: whichever link is cached by now goes, with its calls.        *)
Invalidate(p) ==
    /\ pc[p] = "closed"
    /\ cached' = NoLink
    /\ DropLinks({cached})
    /\ pc' = [pc EXCEPT ![p] = "idle"] /\ mine' = [mine EXCEPT ![p] = NoLink]
    /\ UNCHANGED <<calls, attempt, dialing, cooling, clients, up, hostVars, toHost, fromHost,
                   servedVars, nudgeVars, routed, faults>>

(* The pump meets a control frame of the room: host_offline, host_closed.   *)
LinkTold(l) ==
    /\ client[l] = "up" /\ down[l] # <<>> /\ Head(down[l]).kind = "relay"
    /\ DropLinks({l})
    /\ UNCHANGED <<callerVars, cached, clients, up, hostVars, toHost, fromHost, servedVars,
                   nudgeVars, routed, faults>>

(* Or its socket fails or falls silent, with what was on its way.           *)
LinkLost(l) ==
    /\ client[l] = "up" /\ Fault
    /\ DropLinks({l})
    /\ up' = [up EXCEPT ![l] = <<>>]
    /\ UNCHANGED <<callerVars, cached, clients, hostVars, toHost, fromHost, servedVars,
                   nudgeVars, routed>>

(* The system woke: links and cooldowns are cleared.                        *)
Wake ==
    /\ Fault
    /\ cached' = NoLink /\ cooling' = FALSE
    /\ DropLinks({cached})
    /\ UNCHANGED <<pc, mine, calls, attempt, dialing, clients, up, hostVars, toHost, fromHost,
                   servedVars, nudgeVars, routed>>

-----------------------------------------------------------------------------
(* The room *)

(* pickLiveHost. A session joins after the one before has stopped pinging,  *)
(* so the freshest is the last that joined.                                 *)
LiveHost(candidates) ==
    IF \E h \in candidates : h \notin stale
    THEN CHOOSE h \in candidates : \A g \in candidates : g <= h
    ELSE NoSession

(* A frame of a client: to the live host, or bounced.                       *)
Relay(l) ==
    LET h == LiveHost(hosts) IN
    /\ l \in clients /\ up[l] # <<>>
    /\ up' = [up EXCEPT ![l] = Tail(@)]
    /\ IF h = NoSession
       THEN /\ down' = IF client[l] = "up" THEN [down EXCEPT ![l] = Append(@, Control(l))]
                                           ELSE down
            /\ UNCHANGED <<toHost, routed>>
       ELSE /\ toHost' = [toHost EXCEPT ![h] = Append(@, Head(up[l]))]
            /\ routed' = [p \in Callers |-> IF Head(up[l]) = Request(mine[p], p) THEN h
                                             ELSE routed[p]]
            /\ UNCHANGED down
    /\ UNCHANGED <<callerVars, cached, client, clients, hostVars, fromHost, servedVars,
                   nudgeVars, faults>>

(* A frame of a host: to its client, or bounced.                            *)
RelayBack(h) ==
    LET frame == Head(fromHost[h]) IN
    /\ h \in hosts /\ fromHost[h] # <<>> /\ h \notin cut
    /\ fromHost' = [fromHost EXCEPT ![h] = Tail(@)]
    /\ IF frame.link \in clients
       THEN /\ down' = IF client[frame.link] = "up"
                       THEN [down EXCEPT ![frame.link] = Append(@, frame)] ELSE down
            /\ UNCHANGED toHost
       ELSE toHost' = [toHost EXCEPT ![h] = Append(@, Control(frame.link))] /\ UNCHANGED down
    /\ UNCHANGED <<callerVars, cached, client, clients, up, hostVars, servedVars, nudgeVars,
                   routed, faults>>

(* webSocketClose of a client, after its last frame: the live host is told. *)
TellNobody(l) == toHost
TellHost(l) ==
    LET h == LiveHost(hosts) IN
    IF h = NoSession THEN toHost ELSE [toHost EXCEPT ![h] = Append(@, Control(l))]

ClientClosed(l) ==
    /\ l \in clients /\ client[l] = "ended" /\ up[l] = <<>>
    /\ clients' = clients \ {l}
    /\ toHost' = TellHost(l)
    /\ UNCHANGED <<callerVars, cached, client, up, down, hostVars, fromHost, servedVars,
                   nudgeVars, routed, faults>>

(* webSocketClose of a host: clients are told only if no live host is left. *)
SilentClose(h) == down
Broadcast(h) ==
    IF LiveHost(hosts \ {h}) # NoSession THEN down
    ELSE [l \in Links |-> IF l \in clients /\ client[l] = "up"
                          THEN Append(down[l], Control(l)) ELSE down[l]]

HostClosed(h) ==
    /\ h \in hosts /\ host[h] = "ended"
    /\ h \notin cut => fromHost[h] = <<>>
    /\ hosts' = hosts \ {h}
    /\ down' = Broadcast(h)
    /\ untold' = IF LiveHost(hosts \ {h}) = NoSession THEN untold ELSE untold \cup {h}
    /\ UNCHANGED <<callerVars, cached, client, clients, up, host, cut, stale, toHost, fromHost,
                   servedVars, nudgeVars, routed, faults>>

(* HOST_LIVENESS_MS without a pong.                                         *)
GoesStale(h) ==
    /\ h \in hosts \ stale /\ (h \in cut \/ host[h] = "ended")
    /\ \A g \in hosts \ stale : h <= g
    /\ stale' = stale \cup {h}
    /\ UNCHANGED <<callerVars, cached, client, clients, up, down, host, hosts, cut, untold,
                   toHost, fromHost, servedVars, nudgeVars, routed, faults>>

(* POST /nudge: to the live host, or kept until a host joins.               *)
Keep(c) ==
    LET kept == {i \in DOMAIN queued : queued[i] = c}
        i == CHOOSE i \in kept : TRUE
        others == IF kept = {} THEN queued
                  ELSE SubSeq(queued, 1, i - 1) \o SubSeq(queued, i + 1, Len(queued))
        all == Append(others, c) IN
    IF Len(all) > NudgeCap THEN Tail(all) ELSE all

Nudge(c) ==
    LET h == LiveHost(hosts) IN
    /\ c \notin nudged /\ MoreInput /\ \E g \in Sessions : host[g] # "unborn"
    /\ nudged' = nudged \cup {c}
    /\ IF h = NoSession
       THEN queued' = Keep(c) /\ UNCHANGED toHost
       ELSE toHost' = [toHost EXCEPT ![h] = Append(@, NudgeFor(c))] /\ UNCHANGED queued
    /\ UNCHANGED <<callerVars, cached, client, clients, up, down, hostVars, fromHost,
                   servedVars, opened, routed, faults>>

-----------------------------------------------------------------------------
(* HostRelay: an immortal supervisor, one session after the other *)

Up(h) == host[h] = "up" /\ h \notin cut

(* Join: predecessors are closed (their close may never complete), and the  *)
(* kept nudges are replayed.                                                *)
ReplayNone(h) == toHost
Replay(h) == [toHost EXCEPT ![h] = [i \in 1..Len(queued) |-> NudgeFor(queued[i])]]

HostJoins(h) ==
    /\ host[h] = "unborn"
    /\ \A g \in Sessions : g < h => host[g] = "ended"
    /\ host' = [host EXCEPT ![h] = "up"]
    /\ hosts' = hosts \cup {h}
    /\ toHost' = Replay(h) /\ queued' = <<>>
    /\ UNCHANGED <<callerVars, cached, client, clients, up, down, cut, stale, untold, fromHost,
                   servedVars, nudged, opened, routed, faults>>

HandleFrame(h) ==
    LET frame == Head(toHost[h]) IN
    /\ Up(h) /\ toHost[h] # <<>>
    /\ toHost' = [toHost EXCEPT ![h] = Tail(@)]
    /\ \/ /\ frame.kind = "request"
          /\ conns' = [conns EXCEPT ![h] = @ \cup {frame.link}]
          /\ running' = [running EXCEPT ![h] = @ \cup {<<frame.link, frame.of>>}]
          /\ UNCHANGED opened
       \/ /\ frame.kind = "relay"
          /\ conns' = [conns EXCEPT ![h] = @ \ {frame.link}]
          /\ running' = [running EXCEPT ![h] = {r \in @ : r[1] # frame.link}]
          /\ UNCHANGED opened
       \/ /\ frame.kind = "nudge"
          /\ opened' = opened \cup {frame.of}
          /\ UNCHANGED servedVars
    /\ UNCHANGED <<callerVars, cached, client, clients, up, down, hostVars, fromHost, queued,
                   nudged, routed, faults>>

(* A handler returns, well or not; its reply is pumped to the socket.       *)
Reply(h, l, p) ==
    /\ host[h] = "up" /\ <<l, p>> \in running[h]
    /\ running' = [running EXCEPT ![h] = @ \ {<<l, p>>}]
    /\ fromHost' = [fromHost EXCEPT ![h] = Append(@, Answer(l, p))]
    /\ UNCHANGED <<callerVars, cached, client, clients, up, down, hostVars, toHost, conns,
                   nudgeVars, routed, faults>>

(* The session is over for the host: its connections and tasks are dropped. *)
EndSession(h) ==
    /\ host' = [host EXCEPT ![h] = "ended"]
    /\ conns' = [conns EXCEPT ![h] = {}] /\ running' = [running EXCEPT ![h] = {}]

HostEnds(h) ==
    /\ host[h] = "up"
    /\ IF h \in cut THEN UNCHANGED faults ELSE Fault
    /\ EndSession(h)
    /\ UNCHANGED <<callerVars, cached, client, clients, up, down, hosts, cut, stale, untold,
                   toHost, fromHost, nudgeVars, routed>>

(* The network under the host's socket dies and tells nobody.               *)
HostCut(h) ==
    /\ Up(h) /\ Fault
    /\ cut' = cut \cup {h}
    /\ UNCHANGED <<callerVars, cached, client, clients, up, down, host, hosts, stale, untold,
                   toHost, fromHost, servedVars, nudgeVars, routed>>

(* The room restarts: every socket is closed, kept nudges survive.          *)
RoomRestarts ==
    /\ Fault
    /\ DropLinks(Links)
    /\ clients' = {} /\ up' = [l \in Links |-> <<>>]
    /\ hosts' = {}
    /\ host' = [h \in Sessions |-> IF host[h] = "up" THEN "ended" ELSE host[h]]
    /\ conns' = [h \in Sessions |-> {}] /\ running' = [h \in Sessions |-> {}]
    /\ UNCHANGED <<callerVars, cached, cut, stale, untold, toHost, fromHost, nudgeVars, routed>>

-----------------------------------------------------------------------------
Cache(p) ==
    \/ Lock(p) \/ (\E l \in Links : Dial(p, l)) \/ DialFails(p)
    \/ ProbeAnswered(p) \/ ProbeFails(p)

Call(p) == Send(p) \/ CallAnswered(p) \/ CallFails(p) \/ Invalidate(p)

Next ==
    \/ \E p \in Callers : Ask(p) \/ Cache(p) \/ Call(p)
    \/ \E l \in Links : LinkTold(l) \/ LinkLost(l) \/ Relay(l) \/ ClientClosed(l)
    \/ \E h \in Sessions : \/ RelayBack(h) \/ HostClosed(h) \/ GoesStale(h)
                           \/ HostJoins(h) \/ HandleFrame(h) \/ HostEnds(h) \/ HostCut(h)
                           \/ \E l \in Links, p \in Callers : Reply(h, l, p)
    \/ \E c \in Chats : Nudge(c)
    \/ CooldownEnds \/ Wake \/ RoomRestarts

(* Tasks are polled; frames of sockets that work are delivered and handled, *)
(* and so are the closes of host sockets that work; the silence lease fires *)
(* and the supervisor dials again; handlers return. Nobody is forced to ask.*)
Fairness ==
    /\ \A p \in Callers : WF_vars(Cache(p)) /\ WF_vars(Call(p))
    /\ \A l \in Links : WF_vars(LinkTold(l)) /\ WF_vars(Relay(l))
    /\ \A h \in Sessions :
        /\ WF_vars(RelayBack(h)) /\ WF_vars(h \notin cut /\ HostClosed(h))
        /\ WF_vars(HostJoins(h)) /\ WF_vars(HandleFrame(h))
        /\ \A l \in Links, p \in Callers : WF_vars(Reply(h, l, p))
        /\ WF_vars(h \in cut /\ HostEnds(h)) /\ WF_vars(GoesStale(h))

Spec == Init /\ [][Next]_vars /\ Fairness

-----------------------------------------------------------------------------
(* Properties *)

(* The host reaps what it runs for clients that are gone: a virtual         *)
(* connection has a client the room still lists, or word of its end is on   *)
(* its way (device-room.ts:305-312, device_room.rs:443-452).                *)
NoLeakedConn ==
    \A h \in Sessions : Up(h) =>
        \A l \in conns[h] :
            l \in clients \/ \E i \in 1..Len(toHost[h]) : toHost[h][i] = Control(l)

(* A call returns, unless its request went to a host session whose socket   *)
(* died silently, or whose close the room kept to itself since another host *)
(* socket counted as live (device-room.ts:318-328, device_room.rs:521-571). *)
OnlyTakeoverHangs ==
    \A p \in Callers :
        pc[p] = "call" ~> (pc[p] # "call" \/ routed[p] \in cut \cup untold)

(* Somewhere there is what will end a call that waits: its link is down,    *)
(* its request, its answer or word of the end of its host is on its way, or *)
(* the host session its request went to has it, or has ended and the room   *)
(* has not yet seen that; with the same exceptions                          *)
(* (client.rs:60-109, device-room.ts:274-328, server.rs:61-118).            *)
In(queue, frame) == \E i \in 1..Len(queue) : queue[i] = frame
Has(h, l, p) ==
    /\ h \in hosts
    /\ \/ host[h] = "ended" \/ <<l, p>> \in running[h]
       \/ In(toHost[h], Request(l, p)) \/ In(fromHost[h], Answer(l, p))
EndsCall(p, l) ==
    \/ client[l] = "ended"
    \/ In(up[l], Request(l, p)) \/ In(down[l], Answer(l, p)) \/ In(down[l], Control(l))
    \/ routed[p] \in cut \cup untold \/ Has(routed[p], l, p)
CallsAttended == \A p \in Callers : pc[p] = "call" => EndsCall(p, mine[p])

(* A nudge opens its chat, through host restarts and rooms without a host,  *)
(* unless it was handed to a session that died before it read it, or more   *)
(* chats are nudged than the queue keeps (device-room.ts:226-262).          *)
NudgeOpens ==
    \A c \in Chats :
        c \in nudged
        ~> (c \in opened \/ Cardinality(nudged) > NudgeCap \/ \E h \in Sessions :
               /\ ~Up(h) /\ \E i \in 1..Len(toHost[h]) : toHost[h][i] = NudgeFor(c))
=============================================================================
