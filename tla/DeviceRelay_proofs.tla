-------------------------- MODULE DeviceRelay_proofs --------------------------
(* Proofs about DeviceRelay, for every set of callers, links, sessions and  *)
(* chats and every bound: type correctness, that the host reaps the virtual *)
(* connections of clients that are gone, that a call that waits is attended,*)
(* and that the room loses no nudge.                                        *)
EXTENDS DeviceRelay, SequenceTheorems, FiniteSetTheorems, WellFoundedInduction, TLAPS

(* The room lists sessions up to some number.                               *)
HostsBounded == \E b \in Nat : \A h \in hosts : h <= b

(* Sessions come one after the other, so the one that is up is the last;    *)
(* the room lists it, and has seen it, as long as its socket works.         *)
SessionInv ==
    /\ \A g, h \in Sessions : g < h /\ host[h] # "unborn" => host[g] = "ended"
    /\ \A h \in hosts \cup cut \cup stale : host[h] # "unborn"
    /\ \A h \in Sessions : Up(h) => h \in hosts /\ h \notin stale

(* Word of the end of client l comes to h after place i of its queue.       *)
TellsAfter(h, l, i) == \E j \in (i + 1)..Len(toHost[h]) : toHost[h][j] = Control(l)

(* Each virtual connection, and each request that will open one, is of a    *)
(* client the room lists, or word of its end comes later.                   *)
Attended(h) ==
    /\ \A l \in conns[h] : l \in clients \/ TellsAfter(h, l, 0)
    /\ \A i \in 1..Len(toHost[h]) : \A l \in Links :
           toHost[h][i].kind = "request" /\ toHost[h][i].link = l
           => l \in clients \/ TellsAfter(h, l, i)

UpNamed == \A l \in Links : \A i \in 1..Len(up[l]) : up[l][i].link = l

ConnInv ==
    /\ UpNamed
    /\ \A h \in Sessions : host[h] = "unborn" => conns[h] = {}
    /\ \A h \in Sessions : Up(h) => Attended(h)


-----------------------------------------------------------------------------
(* Queues *)

LEMMA AppendAt ==
    ASSUME NEW I, NEW S, NEW q \in [I -> Seq(S)], NEW i, NEW e, i \in I => e \in S
    PROVE  [q EXCEPT ![i] = Append(@, e)] \in [I -> Seq(S)]
<1>1. \A j \in I : [q EXCEPT ![i] = Append(@, e)][j] \in Seq(S)
    OBVIOUS
<1> QED
    BY <1>1

LEMMA TailAt ==
    ASSUME NEW I, NEW S, NEW q \in [I -> Seq(S)], NEW i, i \in I => q[i] # <<>>
    PROVE  [q EXCEPT ![i] = Tail(@)] \in [I -> Seq(S)]
<1>1. \A j \in I : [q EXCEPT ![i] = Tail(@)][j] \in Seq(S)
    OBVIOUS
<1> QED
    BY <1>1

LEMMA HeadOf ==
    ASSUME NEW S, NEW s \in Seq(S), s # <<>>
    PROVE  Head(s) \in S /\ Head(s) = s[1] /\ 1 \in 1..Len(s)
OBVIOUS

LEMMA FramesInSets ==
    ASSUME RelayAssumption
    PROVE  /\ \A l \in Links, p \in Callers : Request(l, p) \in Requests
           /\ \A l \in Links, p \in Callers : Answer(l, p) \in Answers
           /\ \A l \in Links : Control(l) \in Controls
           /\ \A c \in Chats : NudgeFor(c) \in Nudges
BY DEF Request, Answer, Control, NudgeFor, Requests, Answers, Controls, Nudges

(* A bounded set of naturals has a greatest element.                        *)
LEMMA GreatestExists ==
    ASSUME NEW T \in SUBSET Nat, T # {}, NEW B \in Nat, \A n \in T : n <= B
    PROVE  \E m \in T : \A n \in T : n <= m
<1> DEFINE Gaps == {B - n : n \in T}
           R == OpToRel(<, Nat)
<1>0. \A n \in T : n \in Nat /\ B - n \in Nat
    OBVIOUS
<1>1. Gaps \subseteq Nat /\ Gaps # {}
    BY <1>0
<1>2. IsWellFoundedOn(R, Nat)
    BY NatLessThanWellFounded
<1>3. PICK g \in Gaps : \A k \in Gaps : <<k, g>> \notin R
  <2> HIDE DEF Gaps, R
  <2> QED
      BY <1>1, <1>2, WFMin
<1>4. \A k \in Gaps : ~(k < g)
    BY <1>1, <1>3 DEF OpToRel
<1>5. PICK m \in T : g = B - m
    OBVIOUS
<1>6. \A n \in T : ~(B - n < B - m)
    BY <1>4, <1>5
<1> QED
    BY <1>0, <1>6

(* The room's pick is one of the candidates, and no smaller than any.       *)
LEMMA LiveHostListed ==
    ASSUME RelayAssumption, HostsBounded, hosts \subseteq Sessions,
           NEW candidates \in SUBSET hosts, LiveHost(candidates) # NoSession
    PROVE  LiveHost(candidates) \in Sessions
<1>1. candidates \in SUBSET Nat /\ candidates # {}
    BY DEF LiveHost, RelayAssumption
<1>2. PICK b \in Nat : \A h \in candidates : h <= b
    BY DEF HostsBounded
<1>3. \E m \in candidates : \A n \in candidates : n <= m
    BY <1>1, <1>2, GreatestExists
<1> QED
    BY <1>3 DEF LiveHost

-----------------------------------------------------------------------------
(* Types *)

(* The frames to a host: what the room may add.                             *)
HostFrames == Requests \cup Controls \cup Nudges


(* TypeOK, part by part.                                                    *)
CallerOK ==
    /\ pc \in [Callers -> CallerSteps]
    /\ mine \in [Callers -> Links \cup {NoLink}]
    /\ calls \in [Callers -> 0..MaxCalls]
    /\ attempt \in [Callers -> 0..DialAttempts]
    /\ \A p \in Callers : pc[p] \in {"dial", "probe"} => attempt[p] < DialAttempts
    /\ dialing \in Callers \cup {NoCaller}
    /\ cooling \in BOOLEAN
LinkOK ==
    /\ cached \in Links \cup {NoLink}
    /\ client \in [Links -> Ends]
    /\ clients \subseteq Links
UpOK == up \in [Links -> Seq(Requests)]
DownOK == down \in [Links -> Seq(Answers \cup Controls)]
HostOK ==
    /\ host \in [Sessions -> Ends]
    /\ hosts \subseteq Sessions /\ cut \subseteq Sessions
    /\ stale \subseteq Sessions /\ untold \subseteq Sessions
ToHostOK == toHost \in [Sessions -> Seq(HostFrames)]
FromHostOK == fromHost \in [Sessions -> Seq(Answers)]
ServedOK ==
    /\ conns \in [Sessions -> SUBSET Links]
    /\ running \in [Sessions -> SUBSET (Links \X Callers)]
NudgeOK ==
    /\ queued \in Seq(Chats) /\ Len(queued) <= NudgeCap
    /\ nudged \subseteq Chats /\ opened \subseteq Chats
HistoryOK ==
    /\ routed \in [Callers -> Sessions \cup {NoSession}]
    /\ faults \in 0..MaxFaults

Parts ==
    /\ CallerOK /\ LinkOK /\ UpOK /\ DownOK /\ HostOK /\ ToHostOK /\ FromHostOK
    /\ ServedOK /\ NudgeOK /\ HistoryOK

LEMMA TypeParts == (TypeOK <=> Parts) /\ (TypeOK' <=> Parts')
BY DEF TypeOK, Parts, CallerOK, LinkOK, UpOK, DownOK, HostOK, ToHostOK, FromHostOK, ServedOK,
   NudgeOK, HistoryOK, HostFrames

LEMMA InitType == ASSUME RelayAssumption, Init PROVE TypeOK /\ HostsBounded
<1>0. \A S : <<>> \in Seq(S)
    OBVIOUS
<1>1. CallerOK
    <2>1. 0 \in 0..MaxCalls /\ 0 \in 0..DialAttempts
        BY DEF RelayAssumption
    <2>2. pc = [p \in Callers |-> "idle"] /\ attempt = [p \in Callers |-> 0]
        BY DEF Init
    <2>3. \A p \in Callers : pc[p] = "idle"
        BY <2>2
    <2> QED
        BY <2>1, <2>2, <2>3 DEF Init, CallerOK, CallerSteps
<1>2. LinkOK /\ UpOK /\ DownOK
    BY <1>0 DEF Init, LinkOK, UpOK, DownOK, Ends
<1>3. HostOK /\ ToHostOK /\ FromHostOK
    BY <1>0 DEF Init, HostOK, ToHostOK, FromHostOK, Ends
<1>4. ServedOK
    BY DEF Init, ServedOK
<1>5. NudgeOK /\ HistoryOK
    BY <1>0 DEF Init, NudgeOK, HistoryOK, RelayAssumption
<1>6. HostsBounded
    BY DEF Init, HostsBounded
<1> QED
    BY <1>1, <1>2, <1>3, <1>4, <1>5, <1>6, TypeParts DEF Parts

(* Links that end take nothing but their pumps and what they have not read. *)
LEMMA DropType ==
    ASSUME LinkOK, DownOK, NEW ls, DropLinks(ls)
    PROVE  client' \in [Links -> Ends] /\ DownOK'
BY DEF LinkOK, DownOK, DropLinks, Orphans, Deaf, Ends

(* Steps of the callers and of the links' pumps.                            *)
LEMMA CallerTypes ==
    ASSUME RelayAssumption, Parts, NEW p \in Callers, Ask(p) \/ Cache(p) \/ Call(p)
    PROVE  Parts'
<1> USE DEF Parts
<1>0. Cached \in Links \cup {NoLink}
    BY DEF LinkOK, Cached
<1>1. ASSUME Ask(p) PROVE Parts'
  <2>1. CallerOK'
    BY <1>0, <1>1 DEF CallerOK, CallerSteps, Ask, RelayAssumption
  <2> QED
    BY <1>1, <2>1 DEF Ask, hostVars, servedVars, nudgeVars, LinkOK, UpOK, DownOK, HostOK,
       ToHostOK, FromHostOK, ServedOK, NudgeOK, HistoryOK
<1>2. ASSUME Lock(p) PROVE Parts'
  <2>1. CallerOK'
    BY <1>0, <1>2 DEF CallerOK, CallerSteps, Lock, RelayAssumption
  <2> QED
    BY <1>2, <2>1 DEF Lock, hostVars, servedVars, nudgeVars, LinkOK, UpOK, DownOK, HostOK,
       ToHostOK, FromHostOK, ServedOK, NudgeOK, HistoryOK
<1>3. ASSUME NEW l \in Links, Dial(p, l) PROVE Parts'
  <2>1. CallerOK'
    BY <1>3 DEF CallerOK, CallerSteps, Dial
  <2>2. LinkOK'
    BY <1>3 DEF LinkOK, Ends, Dial
  <2>3. UpOK'
    BY <1>3, FramesInSets DEF UpOK, Dial
  <2> QED
    BY <1>3, <2>1, <2>2, <2>3 DEF Dial, hostVars, servedVars, nudgeVars, DownOK, HostOK,
       ToHostOK, FromHostOK, ServedOK, NudgeOK, HistoryOK
<1>4. ASSUME pc[p] \in {"dial", "probe"}, Exhausts(p), calls' = calls PROVE CallerOK'
  BY <1>4 DEF CallerOK, CallerSteps, Exhausts, RelayAssumption
<1>5. ASSUME DialFails(p) PROVE Parts'
  <2>1. CallerOK'
    BY <1>4, <1>5 DEF DialFails
  <2> QED
    BY <1>5, <2>1 DEF DialFails, hostVars, servedVars, nudgeVars, LinkOK, UpOK, DownOK, HostOK,
       ToHostOK, FromHostOK, ServedOK, NudgeOK, HistoryOK
<1>6. ASSUME ProbeFails(p) PROVE Parts'
  <2>1. CallerOK'
    BY <1>4, <1>6 DEF ProbeFails
  <2>2. client' \in [Links -> Ends] /\ DownOK'
    BY <1>6, DropType DEF ProbeFails
  <2> QED
    BY <1>6, <2>1, <2>2 DEF ProbeFails, hostVars, servedVars, nudgeVars, LinkOK, UpOK, HostOK,
       ToHostOK, FromHostOK, ServedOK, NudgeOK, HistoryOK
<1>7. ASSUME Answered(p) PROVE DownOK'
  BY <1>7, TailAt DEF Answered, DownOK
<1>8. ASSUME ProbeAnswered(p) PROVE Parts'
  <2>1. CallerOK'
    BY <1>8 DEF CallerOK, CallerSteps, ProbeAnswered
  <2>2. LinkOK' /\ DownOK'
    BY <1>7, <1>8 DEF LinkOK, CallerOK, ProbeAnswered
  <2> QED
    BY <1>8, <2>1, <2>2 DEF ProbeAnswered, hostVars, servedVars, nudgeVars, UpOK, HostOK,
       ToHostOK, FromHostOK, ServedOK, NudgeOK, HistoryOK
<1>9. ASSUME Send(p) PROVE Parts'
  <2>1. CallerOK'
    BY <1>9 DEF CallerOK, CallerSteps, Send
  <2>2. UpOK'
    <3>1. CASE client[mine[p]] = "up"
      <4>1. up' = [up EXCEPT ![mine[p]] = Append(@, Request(mine[p], p))]
        BY <1>9, <3>1 DEF Send
      <4> QED
        BY <4>1, AppendAt, FramesInSets DEF UpOK
    <3>2. CASE client[mine[p]] # "up"
      BY <1>9, <3>2 DEF UpOK, Send
    <3> QED
      BY <3>1, <3>2
  <2>3. HistoryOK'
    BY <1>9 DEF HistoryOK, Send
  <2> QED
    BY <1>9, <2>1, <2>2, <2>3 DEF Send, hostVars, servedVars, nudgeVars, LinkOK, DownOK, HostOK,
       ToHostOK, FromHostOK, ServedOK, NudgeOK
<1>10. ASSUME CallAnswered(p) PROVE Parts'
  <2>1. CallerOK' /\ DownOK'
    BY <1>7, <1>10 DEF CallerOK, CallerSteps, CallAnswered
  <2> QED
    BY <1>10, <2>1 DEF CallAnswered, hostVars, servedVars, nudgeVars, LinkOK, UpOK, HostOK,
       ToHostOK, FromHostOK, ServedOK, NudgeOK, HistoryOK
<1>11. ASSUME CallFails(p) PROVE Parts'
  <2>1. CallerOK'
    BY <1>11 DEF CallerOK, CallerSteps, CallFails
  <2> QED
    BY <1>11, <2>1 DEF CallFails, hostVars, servedVars, nudgeVars, LinkOK, UpOK, DownOK, HostOK,
       ToHostOK, FromHostOK, ServedOK, NudgeOK, HistoryOK
<1>12. ASSUME Invalidate(p) PROVE Parts'
  <2>1. CallerOK'
    BY <1>12 DEF CallerOK, CallerSteps, Invalidate
  <2>2. client' \in [Links -> Ends] /\ DownOK'
    BY <1>12, DropType DEF Invalidate
  <2> QED
    BY <1>12, <2>1, <2>2 DEF Invalidate, hostVars, servedVars, nudgeVars, LinkOK, UpOK, HostOK,
       ToHostOK, FromHostOK, ServedOK, NudgeOK, HistoryOK
<1> QED
  BY <1>1, <1>2, <1>3, <1>5, <1>6, <1>8, <1>9, <1>10, <1>11, <1>12 DEF Cache, Call

LEMMA LinkTypes ==
    ASSUME RelayAssumption, Parts, HostsBounded, NEW l \in Links,
           LinkTold(l) \/ LinkLost(l) \/ Relay(l) \/ ClientClosed(l)
    PROVE  Parts'
<1> USE DEF Parts
<1>0. Control(l) \in Controls
    BY FramesInSets
<1>1. ASSUME LinkTold(l) PROVE Parts'
  <2>1. client' \in [Links -> Ends] /\ DownOK'
    BY <1>1, DropType DEF LinkTold
  <2> QED
    BY <1>1, <2>1 DEF LinkTold, callerVars, hostVars, servedVars, nudgeVars, CallerOK, LinkOK,
       UpOK, HostOK, ToHostOK, FromHostOK, ServedOK, NudgeOK, HistoryOK
<1>2. ASSUME LinkLost(l) PROVE Parts'
  <2>1. client' \in [Links -> Ends] /\ DownOK'
    BY <1>2, DropType DEF LinkLost
  <2>2. UpOK'
    BY <1>2 DEF LinkLost, UpOK
  <2>3. HistoryOK'
    BY <1>2 DEF LinkLost, Fault, HistoryOK, RelayAssumption
  <2> QED
    BY <1>2, <2>1, <2>2, <2>3 DEF LinkLost, callerVars, hostVars, servedVars, nudgeVars, CallerOK,
       LinkOK, HostOK, ToHostOK, FromHostOK, ServedOK, NudgeOK
<1>3. ASSUME Relay(l) PROVE Parts'
  <2> DEFINE h == LiveHost(hosts)
  <2>0. up[l] # <<>> /\ up[l] \in Seq(Requests)
    BY <1>3 DEF Relay, UpOK
  <2>1. Head(up[l]) \in HostFrames
    BY <2>0, HeadOf DEF HostFrames
  <2>2. UpOK'
    BY <1>3, <2>0, TailAt DEF Relay, UpOK
  <2>3. DownOK'
    <3>1. [down EXCEPT ![l] = Append(@, Control(l))] \in [Links -> Seq(Answers \cup Controls)]
      BY <1>0, AppendAt DEF DownOK
    <3> QED
      BY <1>3, <3>1 DEF Relay, DownOK
  <2>4. h # NoSession => h \in Sessions
    BY LiveHostListed DEF HostOK
  <2>5. ToHostOK' /\ HistoryOK'
    <3> HIDE DEF h
    <3>1. CASE h = NoSession
      BY <1>3, <3>1 DEF Relay, ToHostOK, HistoryOK, h
    <3>2. CASE h # NoSession
      <4>1. toHost' = [toHost EXCEPT ![h] = Append(@, Head(up[l]))]
        BY <1>3, <3>2 DEF Relay, h
      <4>2. ToHostOK'
        BY <2>1, <4>1, AppendAt DEF ToHostOK
      <4>3. routed' = [p \in Callers |-> IF Head(up[l]) = Request(mine[p], p) THEN h
                                          ELSE routed[p]]
        BY <1>3, <3>2 DEF Relay, h
      <4>4. HistoryOK'
        BY <1>3, <2>4, <3>2, <4>3 DEF Relay, HistoryOK
      <4> QED
        BY <4>2, <4>4
    <3> QED
      BY <3>1, <3>2
  <2> QED
    BY <1>3, <2>2, <2>3, <2>5 DEF Relay, callerVars, hostVars, servedVars, nudgeVars, CallerOK,
       LinkOK, HostOK, FromHostOK, ServedOK, NudgeOK
<1>4. ASSUME ClientClosed(l) PROVE Parts'
  <2>1. Control(l) \in HostFrames
    BY <1>0 DEF HostFrames
  <2>2. ToHostOK'
    BY <1>4, <2>1, AppendAt DEF ClientClosed, TellHost, ToHostOK
  <2> QED
    BY <1>4, <2>2 DEF ClientClosed, callerVars, hostVars, servedVars, nudgeVars, CallerOK, LinkOK,
       UpOK, DownOK, HostOK, FromHostOK, ServedOK, NudgeOK, HistoryOK
<1> QED
  BY <1>1, <1>2, <1>3, <1>4

LEMMA RoomTypes ==
    ASSUME RelayAssumption, Parts, NEW h \in Sessions,
           RelayBack(h) \/ HostClosed(h) \/ GoesStale(h)
    PROVE  Parts'
<1> USE DEF Parts
<1>1. ASSUME RelayBack(h) PROVE Parts'
  <2> DEFINE frame == Head(fromHost[h])
  <2>1. fromHost[h] # <<>> /\ fromHost[h] \in Seq(Answers)
    BY <1>1 DEF RelayBack, FromHostOK
  <2>2. frame \in Answers
    BY <2>1, HeadOf
  <2>3. frame.link \in Links /\ frame \in Answers \cup Controls
    BY <2>2 DEF Answers
  <2>4. Control(frame.link) \in HostFrames
    BY <2>3, FramesInSets DEF HostFrames
  <2> HIDE DEF frame
  <2>5. FromHostOK'
    BY <1>1, <2>1, TailAt DEF RelayBack, FromHostOK
  <2>6. DownOK'
    <3>1. [down EXCEPT ![frame.link] = Append(@, frame)] \in [Links -> Seq(Answers \cup Controls)]
      BY <2>3, AppendAt DEF DownOK
    <3> QED
      BY <1>1, <3>1 DEF RelayBack, DownOK, frame
  <2>7. ToHostOK'
    <3>1. PICK c : c = Control(frame.link)
      OBVIOUS
    <3>2. toHost' = toHost \/ toHost' = [toHost EXCEPT ![h] = Append(@, c)]
      BY <1>1, <3>1 DEF RelayBack, frame
    <3>3. [toHost EXCEPT ![h] = Append(@, c)] \in [Sessions -> Seq(HostFrames)]
      BY <2>4, <3>1, AppendAt DEF ToHostOK
    <3> QED
      BY <3>2, <3>3 DEF ToHostOK
  <2> QED
    BY <1>1, <2>5, <2>6, <2>7 DEF RelayBack, callerVars, hostVars, servedVars, nudgeVars, CallerOK,
       LinkOK, UpOK, HostOK, ServedOK, NudgeOK, HistoryOK
<1>2. ASSUME HostClosed(h) PROVE Parts'
  <2>1. DownOK'
    <3>1. \A l \in Links : Append(down[l], Control(l)) \in Seq(Answers \cup Controls)
      BY FramesInSets DEF DownOK
    <3>2. down' = Broadcast(h)
      BY <1>2 DEF HostClosed
    <3>3. Broadcast(h) \in [Links -> Seq(Answers \cup Controls)]
      BY <3>1 DEF Broadcast, DownOK
    <3> QED
      BY <3>2, <3>3 DEF DownOK
  <2>2. HostOK'
    BY <1>2 DEF HostClosed, HostOK
  <2> QED
    BY <1>2, <2>1, <2>2 DEF HostClosed, callerVars, servedVars, nudgeVars, CallerOK, LinkOK, UpOK,
       ToHostOK, FromHostOK, ServedOK, NudgeOK, HistoryOK
<1>3. ASSUME GoesStale(h) PROVE Parts'
  <2>1. HostOK'
    BY <1>3 DEF GoesStale, HostOK
  <2> QED
    BY <1>3, <2>1 DEF GoesStale, callerVars, servedVars, nudgeVars, CallerOK, LinkOK, UpOK, DownOK,
       ToHostOK, FromHostOK, ServedOK, NudgeOK, HistoryOK
<1> QED
  BY <1>1, <1>2, <1>3

(* A kept nudge is kept once, and no more than NudgeCap are.                *)
LEMMA KeepType ==
    ASSUME RelayAssumption, NudgeOK, NEW c \in Chats
    PROVE  Keep(c) \in Seq(Chats) /\ Len(Keep(c)) <= NudgeCap
<1> DEFINE kept == {i \in DOMAIN queued : queued[i] = c}
           i == CHOOSE i \in kept : TRUE
           others == IF kept = {} THEN queued
                     ELSE SubSeq(queued, 1, i - 1) \o SubSeq(queued, i + 1, Len(queued))
           all == Append(others, c)
<1>1. queued \in Seq(Chats) /\ Len(queued) \in Nat /\ NudgeCap \in Nat /\ NudgeCap # 0
    BY DEF NudgeOK, RelayAssumption
<1>2. others \in Seq(Chats) /\ Len(others) <= Len(queued)
  <2>1. CASE kept = {}
    BY <1>1, <2>1
  <2>2. CASE kept # {}
    <3>1. i \in 1..Len(queued)
      BY <1>1, <2>2
    <3> HIDE DEF i
    <3>2. /\ SubSeq(queued, 1, i - 1) \in Seq(Chats)
          /\ Len(SubSeq(queued, 1, i - 1)) = i - 1
      BY <1>1, <3>1, SubSeqProperties
    <3>3. /\ SubSeq(queued, i + 1, Len(queued)) \in Seq(Chats)
          /\ Len(SubSeq(queued, i + 1, Len(queued))) = Len(queued) - i
      <4>1. \A k \in (i + 1)..Len(queued) : queued[k] \in Chats
        BY <1>1, <3>1
      <4> QED
        BY <1>1, <3>1, <4>1, SubSeqProperties
    <3>4. others = SubSeq(queued, 1, i - 1) \o SubSeq(queued, i + 1, Len(queued))
      BY <2>2
    <3> DEFINE left == SubSeq(queued, 1, i - 1)
               right == SubSeq(queued, i + 1, Len(queued))
    <3>5. left \o right \in Seq(Chats) /\ Len(left \o right) = Len(left) + Len(right)
      <4> HIDE DEF left, right
      <4> QED
        BY <3>2, <3>3, ConcatProperties DEF left, right
    <3> QED
      <4>1. others = left \o right
        BY <3>4
      <4>2. Len(left) = i - 1 /\ Len(right) = Len(queued) - i
        BY <3>2, <3>3
      <4> HIDE DEF left, right, others
      <4>3. Len(left \o right) = (i - 1) + (Len(queued) - i)
        BY <3>5, <4>2
      <4>4. (i - 1) + (Len(queued) - i) <= Len(queued)
        BY <1>1, <3>1
      <4> QED
        BY <3>5, <4>1, <4>3, <4>4
  <2> QED
    BY <2>1, <2>2
<1> HIDE DEF others
<1>3. all \in Seq(Chats) /\ Len(all) = Len(others) + 1 /\ Len(others) \in Nat
    BY <1>2
<1>4. Keep(c) = IF Len(all) > NudgeCap THEN Tail(all) ELSE all
    BY DEF Keep, others
<1>5. all # <<>>
    BY <1>3
<1> HIDE DEF all
<1>6. Tail(all) \in Seq(Chats) /\ Len(Tail(all)) = Len(all) - 1
    BY <1>3, <1>5, HeadTailProperties
<1>7. Len(queued) <= NudgeCap
    BY DEF NudgeOK
<1> QED
    BY <1>1, <1>2, <1>3, <1>4, <1>6, <1>7

LEMMA HostTypes ==
    ASSUME RelayAssumption, Parts, NEW h \in Sessions,
           \/ HostJoins(h) \/ HandleFrame(h) \/ HostEnds(h) \/ HostCut(h)
           \/ \E l \in Links, p \in Callers : Reply(h, l, p)
    PROVE  Parts'
<1> USE DEF Parts
<1>1. ASSUME HostJoins(h) PROVE Parts'
  <2>1. ToHostOK'
    <3>1. \A i \in 1..Len(queued) : NudgeFor(queued[i]) \in HostFrames
      BY FramesInSets DEF NudgeOK, HostFrames
    <3>2. [i \in 1..Len(queued) |-> NudgeFor(queued[i])] \in Seq(HostFrames)
      BY <3>1 DEF NudgeOK
    <3>3. toHost' = [toHost EXCEPT ![h] = [i \in 1..Len(queued) |-> NudgeFor(queued[i])]]
      BY <1>1 DEF HostJoins, Replay
    <3> QED
      BY <3>2, <3>3 DEF ToHostOK
  <2>2. HostOK'
    BY <1>1 DEF HostJoins, HostOK, Ends
  <2>3. NudgeOK'
    BY <1>1 DEF HostJoins, NudgeOK, RelayAssumption
  <2> QED
    BY <1>1, <2>1, <2>2, <2>3 DEF HostJoins, callerVars, servedVars, CallerOK, LinkOK, UpOK,
       DownOK, FromHostOK, ServedOK, HistoryOK
<1>2. ASSUME HandleFrame(h) PROVE Parts'
  <2> DEFINE frame == Head(toHost[h])
  <2>1. toHost[h] # <<>> /\ toHost[h] \in Seq(HostFrames)
    BY <1>2 DEF HandleFrame, ToHostOK
  <2>2. frame \in HostFrames
    BY <2>1, HeadOf
  <2>3. /\ frame.kind = "request" => frame.link \in Links /\ frame.of \in Callers
        /\ frame.kind = "nudge" => frame.of \in Chats
    BY <2>2 DEF HostFrames, Requests, Controls, Nudges
  <2> HIDE DEF frame
  <2>4. ToHostOK'
    BY <1>2, <2>1, TailAt DEF HandleFrame, ToHostOK
  <2>5. ServedOK' /\ opened' \subseteq Chats
    BY <1>2, <2>3 DEF HandleFrame, ServedOK, NudgeOK, servedVars, frame
  <2> QED
    BY <1>2, <2>4, <2>5 DEF HandleFrame, callerVars, hostVars, CallerOK, LinkOK, UpOK, DownOK,
       HostOK, FromHostOK, NudgeOK, HistoryOK
<1>3. ASSUME EndSession(h) PROVE host' \in [Sessions -> Ends] /\ ServedOK'
  BY <1>3 DEF EndSession, HostOK, ServedOK, Ends
<1>4. ASSUME HostEnds(h) PROVE Parts'
  <2>1. HistoryOK'
    BY <1>4 DEF HostEnds, Fault, HistoryOK, RelayAssumption
  <2> QED
    BY <1>3, <1>4, <2>1 DEF HostEnds, callerVars, nudgeVars, CallerOK, LinkOK, UpOK, DownOK, HostOK,
       ToHostOK, FromHostOK, NudgeOK
<1>5. ASSUME HostCut(h) PROVE Parts'
  <2>1. HistoryOK' /\ HostOK'
    BY <1>5 DEF HostCut, Fault, HistoryOK, HostOK, RelayAssumption
  <2> QED
    BY <1>5, <2>1 DEF HostCut, callerVars, servedVars, nudgeVars, CallerOK, LinkOK, UpOK, DownOK,
       ToHostOK, FromHostOK, ServedOK, NudgeOK
<1>6. ASSUME NEW l \in Links, NEW p \in Callers, Reply(h, l, p) PROVE Parts'
  <2>1. FromHostOK'
    BY <1>6, FramesInSets, AppendAt DEF Reply, FromHostOK
  <2>2. ServedOK'
    BY <1>6 DEF Reply, ServedOK
  <2> QED
    BY <1>6, <2>1, <2>2 DEF Reply, callerVars, hostVars, nudgeVars, CallerOK, LinkOK, UpOK, DownOK,
       HostOK, ToHostOK, NudgeOK, HistoryOK
<1> QED
  BY <1>1, <1>2, <1>4, <1>5, <1>6

LEMMA NextType ==
    ASSUME RelayAssumption, TypeOK, HostsBounded, [Next]_vars
    PROVE  TypeOK'
<1> SUFFICES ASSUME Parts PROVE Parts'
    BY TypeParts
<1> USE DEF Parts
<1>1. ASSUME NEW c \in Chats, Nudge(c) PROVE Parts'
  <2> DEFINE h == LiveHost(hosts)
  <2>1. NudgeFor(c) \in HostFrames
    BY FramesInSets DEF HostFrames
  <2>2. ToHostOK'
    <3>1. CASE h = NoSession
      BY <1>1, <3>1 DEF Nudge, ToHostOK
    <3>2. CASE h # NoSession
      <4>1. toHost' = [toHost EXCEPT ![h] = Append(@, NudgeFor(c))]
        BY <1>1, <3>2 DEF Nudge
      <4> QED
        BY <2>1, <4>1, AppendAt DEF ToHostOK
    <3> QED
      BY <3>1, <3>2
  <2>3. NudgeOK'
    BY <1>1, KeepType DEF Nudge, NudgeOK
  <2> QED
    BY <1>1, <2>2, <2>3 DEF Nudge, callerVars, hostVars, servedVars, CallerOK, LinkOK, UpOK,
       DownOK, HostOK, FromHostOK, ServedOK, HistoryOK
<1>2. ASSUME CooldownEnds PROVE Parts'
  BY <1>2 DEF CooldownEnds, hostVars, servedVars, nudgeVars, CallerOK, LinkOK, UpOK, DownOK,
     HostOK, ToHostOK, FromHostOK, ServedOK, NudgeOK, HistoryOK
<1>3. ASSUME Wake PROVE Parts'
  <2>1. client' \in [Links -> Ends] /\ DownOK'
    BY <1>3, DropType DEF Wake
  <2>2. HistoryOK'
    BY <1>3 DEF Wake, Fault, HistoryOK, RelayAssumption
  <2> QED
    BY <1>3, <2>1, <2>2 DEF Wake, hostVars, servedVars, nudgeVars, CallerOK, LinkOK, UpOK,
       HostOK, ToHostOK, FromHostOK, ServedOK, NudgeOK
<1>4. ASSUME RoomRestarts PROVE Parts'
  <2>1. client' \in [Links -> Ends] /\ DownOK'
    BY <1>4, DropType DEF RoomRestarts
  <2>2. HistoryOK' /\ UpOK'
    BY <1>4 DEF RoomRestarts, Fault, HistoryOK, UpOK, RelayAssumption
  <2>3. HostOK' /\ ServedOK'
    BY <1>4 DEF RoomRestarts, HostOK, ServedOK, Ends
  <2> QED
    BY <1>4, <2>1, <2>2, <2>3 DEF RoomRestarts, callerVars, nudgeVars, CallerOK, LinkOK, ToHostOK,
       FromHostOK, NudgeOK
<1>5. ASSUME UNCHANGED vars PROVE Parts'
  BY <1>5 DEF vars, CallerOK, LinkOK, UpOK, DownOK,
     HostOK, ToHostOK, FromHostOK, ServedOK, NudgeOK, HistoryOK
<1> QED
  BY <1>1, <1>2, <1>3, <1>4, <1>5, CallerTypes, LinkTypes, RoomTypes, HostTypes DEF Next

LEMMA NextBounded ==
    ASSUME RelayAssumption, TypeOK, HostsBounded, [Next]_vars
    PROVE  HostsBounded'
<1>0. hosts \subseteq Sessions
  BY DEF TypeOK
<1>1. hosts' \subseteq hosts \/ \E h \in Sessions : hosts' = hosts \cup {h}
  <2>1. ASSUME NEW p \in Callers, Ask(p) \/ Cache(p) \/ Call(p) PROVE hosts' = hosts
    BY <2>1 DEF Ask, Cache, Lock, Dial, DialFails, ProbeAnswered, ProbeFails, Call, Send,
       CallAnswered, CallFails, Invalidate, hostVars
  <2>2. ASSUME NEW l \in Links, LinkTold(l) \/ LinkLost(l) \/ Relay(l) \/ ClientClosed(l)
        PROVE  hosts' = hosts
    BY <2>2 DEF LinkTold, LinkLost, Relay, ClientClosed, hostVars
  <2>3. ASSUME NEW h \in Sessions,
               \/ RelayBack(h) \/ GoesStale(h) \/ HandleFrame(h) \/ HostEnds(h) \/ HostCut(h)
               \/ \E l \in Links, p \in Callers : Reply(h, l, p)
        PROVE  hosts' = hosts
    BY <2>3 DEF RelayBack, GoesStale, HandleFrame, HostEnds, HostCut, Reply, hostVars
  <2>4. ASSUME NEW h \in Sessions, HostClosed(h) PROVE hosts' \subseteq hosts
    BY <2>4 DEF HostClosed
  <2>5. ASSUME NEW h \in Sessions, HostJoins(h) PROVE hosts' = hosts \cup {h}
    BY <2>5 DEF HostJoins
  <2>6. RoomRestarts => hosts' \subseteq hosts
    BY DEF RoomRestarts
  <2>7. ASSUME (\E c \in Chats : Nudge(c)) \/ CooldownEnds \/ Wake \/ UNCHANGED vars
        PROVE  hosts' = hosts
    BY <2>7 DEF Nudge, CooldownEnds, Wake, vars, hostVars
  <2> QED
    BY <2>1, <2>2, <2>3, <2>4, <2>5, <2>6, <2>7 DEF Next
<1>2. PICK b \in Nat : \A h \in hosts : h <= b
  BY DEF HostsBounded
<1>3. CASE hosts' \subseteq hosts
  BY <1>2, <1>3 DEF HostsBounded
<1>4. ASSUME NEW h \in Sessions, hosts' = hosts \cup {h} PROVE HostsBounded'
  <2>1. h \in Nat
    BY DEF RelayAssumption
  <2>2. PICK m \in Nat : b <= m /\ h <= m
    <3>1. CASE b <= h
      BY <2>1, <3>1
    <3>2. CASE ~(b <= h)
      BY <2>1, <3>2
    <3> QED
      BY <3>1, <3>2
  <2>3. \A g \in hosts' : g <= m
    <3> SUFFICES ASSUME NEW g \in hosts' PROVE g <= m
      OBVIOUS
    <3>1. CASE g = h
      BY <2>2, <3>1
    <3>2. CASE g \in hosts
      <4>1. g \in Nat /\ g <= b
        BY <1>2, <1>0, <3>2 DEF RelayAssumption
      <4> QED
        BY <1>2, <2>2, <4>1
    <3> QED
      BY <1>4, <3>1, <3>2
  <2> QED
    BY <2>2, <2>3 DEF HostsBounded
<1> QED
  BY <1>1, <1>3, <1>4

(* Callers, links, host sessions and the room keep their types, whatever    *)
(* is lost, cut, restarted or closed in between.                            *)
THEOREM TypeCorrect == Spec => []TypeOK
<1>1. Init => TypeOK /\ HostsBounded
  BY InitType, RelayAssumption
<1>2. TypeOK /\ HostsBounded /\ [Next]_vars => TypeOK' /\ HostsBounded'
  BY NextType, NextBounded, RelayAssumption
<1> QED
  BY <1>1, <1>2, PTL DEF Spec

-----------------------------------------------------------------------------
(* Host sessions *)

LEMMA NextSession ==
    ASSUME RelayAssumption, TypeOK, SessionInv, [Next]_vars
    PROVE  SessionInv'
<1> USE DEF Up
<1>0. /\ host \in [Sessions -> Ends]
      /\ hosts \subseteq Sessions /\ cut \subseteq Sessions /\ stale \subseteq Sessions
  BY DEF TypeOK
<1>1. ASSUME UNCHANGED <<host, hosts, cut, stale>> PROVE SessionInv'
  BY <1>1 DEF SessionInv
<1>2. ASSUME NEW p \in Callers, Ask(p) \/ Cache(p) \/ Call(p) PROVE SessionInv'
  BY <1>1, <1>2 DEF Ask, Cache, Lock, Dial, DialFails, ProbeAnswered, ProbeFails, Call, Send,
     CallAnswered, CallFails, Invalidate, hostVars
<1>3. ASSUME NEW l \in Links, LinkTold(l) \/ LinkLost(l) \/ Relay(l) \/ ClientClosed(l)
      PROVE  SessionInv'
  BY <1>1, <1>3 DEF LinkTold, LinkLost, Relay, ClientClosed, hostVars
<1>4. ASSUME NEW h \in Sessions,
             \/ RelayBack(h) \/ HandleFrame(h)
             \/ \E l \in Links, p \in Callers : Reply(h, l, p)
      PROVE  SessionInv'
  BY <1>1, <1>4 DEF RelayBack, HandleFrame, Reply, hostVars
<1>5. ASSUME (\E c \in Chats : Nudge(c)) \/ CooldownEnds \/ Wake \/ UNCHANGED vars
      PROVE  SessionInv'
  BY <1>1, <1>5 DEF Nudge, CooldownEnds, Wake, vars, hostVars
<1>6. ASSUME NEW h \in Sessions, HostClosed(h) PROVE SessionInv'
  BY <1>6 DEF HostClosed, SessionInv
<1>7. ASSUME NEW h \in Sessions, GoesStale(h) PROVE SessionInv'
  BY <1>7 DEF GoesStale, SessionInv
<1>8. ASSUME NEW h \in Sessions, HostJoins(h) PROVE SessionInv'
  <2>1. host' = [host EXCEPT ![h] = "up"] /\ host[h] = "unborn"
    BY <1>8 DEF HostJoins
  <2>2. hosts' = hosts \cup {h} /\ UNCHANGED <<cut, stale>>
    BY <1>8 DEF HostJoins
  <2>3. \A g, k \in Sessions : g < k /\ host'[k] # "unborn" => host'[g] = "ended"
    <3> SUFFICES ASSUME NEW g \in Sessions, NEW k \in Sessions, g < k, host'[k] # "unborn"
                 PROVE  host'[g] = "ended"
      OBVIOUS
    <3>1. g # k
      BY DEF RelayAssumption
    <3>2. CASE k = h
      BY <1>0, <1>8, <2>1, <3>1, <3>2 DEF HostJoins
    <3>3. CASE k # h
      BY <1>0, <2>1, <3>3 DEF SessionInv
    <3> QED
      BY <3>2, <3>3
  <2>4. \A k \in (hosts \cup cut \cup stale)' : host'[k] # "unborn"
    BY <1>0, <2>1, <2>2 DEF SessionInv
  <2>5. \A k \in Sessions : Up(k)' => k \in hosts' /\ k \notin stale'
    BY <1>0, <2>1, <2>2 DEF SessionInv
  <2> QED
    BY <2>3, <2>4, <2>5 DEF SessionInv
<1>9. ASSUME NEW h \in Sessions, HostEnds(h) PROVE SessionInv'
  BY <1>0, <1>9 DEF HostEnds, EndSession, SessionInv
<1>10. ASSUME NEW h \in Sessions, HostCut(h) PROVE SessionInv'
  BY <1>10 DEF HostCut, SessionInv
<1>11. ASSUME RoomRestarts PROVE SessionInv'
  BY <1>0, <1>11 DEF RoomRestarts, SessionInv
<1> QED
  BY <1>2, <1>3, <1>4, <1>5, <1>6, <1>7, <1>8, <1>9, <1>10, <1>11 DEF Next

(* So the room's pick is the session that is up.                            *)
LEMMA LiveHostUp ==
    ASSUME RelayAssumption, TypeOK, SessionInv, NEW h \in Sessions, Up(h)
    PROVE  LiveHost(hosts) = h /\ h # NoSession
<1>1. h \in hosts /\ h \notin stale /\ hosts \subseteq Sessions /\ host[h] = "up"
  BY DEF SessionInv, TypeOK, Up
<1>2. \A g \in hosts : g <= h
  BY <1>1 DEF SessionInv, RelayAssumption
<1>3. \A m \in hosts : (\A g \in hosts : g <= m) => m = h
  <2> SUFFICES ASSUME NEW m \in hosts, \A g \in hosts : g <= m PROVE m = h
    OBVIOUS
  <2>1. m \in Nat /\ h \in Nat /\ m <= h /\ h <= m
    BY <1>1, <1>2 DEF RelayAssumption
  <2> QED
    BY <2>1
<1>4. LiveHost(hosts) = CHOOSE m \in hosts : \A g \in hosts : g <= m
  BY <1>1 DEF LiveHost
<1>5. (CHOOSE m \in hosts : \A g \in hosts : g <= m) = h
  BY <1>1, <1>2, <1>3
<1> QED
  BY <1>1, <1>4, <1>5 DEF RelayAssumption

-----------------------------------------------------------------------------
(* Virtual connections *)

(* Word on its way stays on its way when more is put behind it.             *)
LEMMA TellsKept ==
    ASSUME toHost \in [Sessions -> Seq(HostFrames)], NEW k, NEW e,
           toHost' = [toHost EXCEPT ![k] = Append(@, e)],
           NEW h \in Sessions, NEW l, NEW i \in Nat, TellsAfter(h, l, i)
    PROVE  TellsAfter(h, l, i)'
<1>1. PICK j \in (i + 1)..Len(toHost[h]) : toHost[h][j] = Control(l)
  BY DEF TellsAfter
<1>2. j \in (i + 1)..Len(toHost'[h]) /\ toHost'[h][j] = Control(l)
  <2>1. CASE h = k
    <3>1. toHost'[h] = Append(toHost[h], e) /\ toHost[h] \in Seq(HostFrames)
      BY <2>1
    <3>0. Len(toHost[h]) \in Nat
      BY <3>1
    <3>2. j \in 1..Len(toHost[h]) /\ Len(toHost'[h]) = Len(toHost[h]) + 1
      BY <1>1, <3>0, <3>1
    <3>3. toHost'[h][j] = toHost[h][j]
      BY <3>1, <3>2
    <3> QED
      BY <1>1, <3>2, <3>3
  <2>2. CASE h # k
    <3>1. toHost'[h] = toHost[h]
      BY <2>2
    <3> QED
      BY <1>1, <3>1
  <2> QED
    BY <2>1, <2>2
<1> QED
  BY <1>2 DEF TellsAfter

(* A frame at the end of h's queue leaves h attended, unless it is a        *)
(* request of a client that is gone; and a client may go if it is a word    *)
(* of that.                                                                 *)
LEMMA AppendAttended ==
    ASSUME toHost \in [Sessions -> Seq(HostFrames)], conns \in [Sessions -> SUBSET Links],
           NEW h \in Sessions, Attended(h), NEW k, NEW e,
           toHost' = [toHost EXCEPT ![k] = Append(@, e)], UNCHANGED conns,
           \A l \in clients \ clients' : k = h /\ e = Control(l),
           h = k /\ e.kind = "request" => e.link \in clients'
    PROVE  Attended(h)'
<1>0. toHost[h] \in Seq(HostFrames) /\ Len(toHost[h]) \in Nat
  OBVIOUS
<1>1. h = k => /\ toHost'[h] = Append(toHost[h], e)
               /\ Len(toHost'[h]) = Len(toHost[h]) + 1
               /\ toHost'[h][Len(toHost[h]) + 1] = e
               /\ \A i \in 1..Len(toHost[h]) : toHost'[h][i] = toHost[h][i]
  BY <1>0
<1>2. h # k => toHost'[h] = toHost[h]
  OBVIOUS
<1>3. ASSUME NEW l \in clients \ clients', NEW i \in 0..Len(toHost[h]) PROVE TellsAfter(h, l, i)'
  <2>1. /\ Len(toHost[h]) + 1 \in (i + 1)..Len(toHost'[h])
        /\ toHost'[h][Len(toHost[h]) + 1] = Control(l)
    BY <1>0, <1>1
  <2> QED
    BY <2>1 DEF TellsAfter
<1>4. ASSUME NEW l, NEW i \in 0..Len(toHost[h]), l \in clients \/ TellsAfter(h, l, i)
      PROVE  l \in clients' \/ TellsAfter(h, l, i)'
  <2>1. CASE l \in clients
    BY <1>3, <2>1
  <2>2. CASE TellsAfter(h, l, i)
    <3>1. i \in Nat
      BY <1>0
    <3>2. TellsAfter(h, l, i)'
      BY <2>2, <3>1, TellsKept
    <3> QED
      BY <3>2
  <2> QED
    BY <1>4, <2>1, <2>2
<1>5. \A l \in conns'[h] : l \in clients' \/ TellsAfter(h, l, 0)'
  <2>1. 0 \in 0..Len(toHost[h])
    BY <1>0
  <2> QED
    BY <1>4, <2>1 DEF Attended
<1>6. ASSUME NEW i \in 1..Len(toHost'[h]), NEW l \in Links,
             toHost'[h][i].kind = "request", toHost'[h][i].link = l
      PROVE  l \in clients' \/ TellsAfter(h, l, i)'
  <2>1. CASE i \in 1..Len(toHost[h])
    <3>1. toHost'[h][i] = toHost[h][i] /\ i \in 0..Len(toHost[h])
      BY <1>0, <1>1, <1>2, <2>1
    <3>2. l \in clients \/ TellsAfter(h, l, i)
      BY <1>6, <2>1, <3>1 DEF Attended
    <3> QED
      BY <1>4, <3>1, <3>2
  <2>2. CASE i \notin 1..Len(toHost[h])
    <3>1. h = k
      BY <1>2, <1>6, <2>2
    <3>2. i = Len(toHost[h]) + 1
      BY <1>0, <1>1, <1>6, <2>2, <3>1
    <3> QED
      BY <1>1, <1>6, <3>1, <3>2
  <2> QED
    BY <2>1, <2>2
<1> QED
  BY <1>5, <1>6 DEF Attended

LEMMA NextConn ==
    ASSUME RelayAssumption, TypeOK, SessionInv, ConnInv, [Next]_vars
    PROVE  ConnInv'
<1> DEFINE served == <<conns, toHost, clients, host, cut>>
<1>0. /\ up \in [Links -> Seq(Requests)] /\ clients \subseteq Links
      /\ toHost \in [Sessions -> Seq(HostFrames)]
      /\ conns \in [Sessions -> SUBSET Links] /\ host \in [Sessions -> Ends]
  BY DEF TypeOK, HostFrames
<1>1. ASSUME UNCHANGED served, UpNamed' PROVE ConnInv'
  BY <1>1 DEF ConnInv, Attended, TellsAfter, Up
<1>2. ASSUME UNCHANGED up PROVE UpNamed'
  BY <1>2 DEF ConnInv, UpNamed
<1>3. ASSUME UNCHANGED <<conns, host>>, UpNamed',
             \A h \in Sessions : Up(h)' => Up(h) /\ Attended(h)'
      PROVE  ConnInv'
  BY <1>3 DEF ConnInv, Up
<1>4. ASSUME NEW p \in Callers, Ask(p) \/ Cache(p) \/ Call(p) PROVE ConnInv'
  <2>1. CASE \/ Ask(p) \/ Lock(p) \/ DialFails(p) \/ ProbeAnswered(p) \/ ProbeFails(p)
             \/ CallAnswered(p) \/ CallFails(p) \/ Invalidate(p)
    <3>1. UNCHANGED up /\ UNCHANGED served
      BY <2>1 DEF Ask, Lock, DialFails, ProbeAnswered, ProbeFails, CallAnswered, CallFails,
         Invalidate, hostVars, servedVars
    <3> QED
      BY <1>1, <1>2, <3>1
  <2>2. ASSUME NEW l \in Links, Dial(p, l) PROVE ConnInv'
    <3>1. up' = [up EXCEPT ![l] = <<Request(l, p)>>]
      BY <2>2 DEF Dial
    <3>2. UpNamed'
      BY <1>0, <3>1 DEF ConnInv, UpNamed, Request
    <3>3. clients' = clients \cup {l} /\ UNCHANGED <<conns, toHost, host, cut>>
      BY <2>2 DEF Dial, hostVars, servedVars
    <3>4. \A h \in Sessions : Up(h)' => Up(h) /\ Attended(h)'
      BY <3>3 DEF ConnInv, Attended, TellsAfter, Up
    <3> QED
      BY <1>3, <3>2, <3>3, <3>4
  <2>3. CASE Send(p)
    <3>1. UNCHANGED served
      BY <2>3 DEF Send, hostVars, servedVars
    <3>2. UpNamed'
      <4>1. CASE client[mine[p]] = "up"
        <5>1. up' = [up EXCEPT ![mine[p]] = Append(@, Request(mine[p], p))]
          BY <2>3, <4>1 DEF Send
        <5>2. ASSUME NEW m \in Links, NEW i \in 1..Len(up'[m]) PROVE up'[m][i].link = m
          <6>0. up[m] \in Seq(Requests)
            BY <1>0
          <6>1. CASE m = mine[p]
            <7>1. up'[m] = Append(up[m], Request(m, p))
              BY <1>0, <5>1, <6>1
            <7>2. CASE i = Len(up[m]) + 1
              BY <6>0, <7>1, <7>2 DEF Request
            <7>3. CASE i # Len(up[m]) + 1
              <8>1. i \in 1..Len(up[m]) /\ up'[m][i] = up[m][i]
                BY <5>2, <6>0, <7>1, <7>3
              <8> QED
                BY <8>1 DEF ConnInv, UpNamed
            <7> QED
              BY <7>2, <7>3
          <6>2. CASE m # mine[p]
            BY <1>0, <5>1, <5>2, <6>2 DEF ConnInv, UpNamed
          <6> QED
            BY <6>1, <6>2
        <5> QED
          BY <5>2 DEF UpNamed
      <4>2. CASE client[mine[p]] # "up"
        BY <1>2, <2>3, <4>2 DEF Send
      <4> QED
        BY <4>1, <4>2
    <3> QED
      BY <1>1, <3>1, <3>2
  <2> QED
    BY <1>4, <2>1, <2>2, <2>3 DEF Cache, Call
<1>5. ASSUME NEW l \in Links, LinkTold(l) \/ LinkLost(l) PROVE ConnInv'
  <2>1. UNCHANGED served
    BY <1>5 DEF LinkTold, LinkLost, hostVars, servedVars
  <2>2. UpNamed'
    <3>1. CASE LinkTold(l)
      BY <1>2, <3>1 DEF LinkTold
    <3>2. CASE LinkLost(l)
      <4>1. up' = [up EXCEPT ![l] = <<>>]
        BY <3>2 DEF LinkLost
      <4> QED
        BY <1>0, <4>1 DEF ConnInv, UpNamed
    <3> QED
      BY <1>5, <3>1, <3>2
  <2> QED
    BY <1>1, <2>1, <2>2
<1>6. ASSUME NEW k, NEW e, toHost' = [toHost EXCEPT ![k] = Append(@, e)],
             UNCHANGED <<conns, host, cut>>, UpNamed',
             \A l \in clients \ clients' : e = Control(l) /\ \A h \in Sessions : Up(h) => k = h,
             e.kind = "request" => e.link \in clients'
      PROVE  ConnInv'
  <2>1. ASSUME NEW h \in Sessions, Up(h)' PROVE Attended(h)'
    <3>1. Up(h) /\ Attended(h)
      BY <1>6, <2>1 DEF Up, ConnInv
    <3>2. \A l \in clients \ clients' : k = h /\ e = Control(l)
      BY <1>6, <3>1
    <3> QED
      BY <1>0, <1>6, <3>1, <3>2, AppendAttended
  <2> QED
    BY <1>3, <1>6, <2>1 DEF Up
<1>7. ASSUME NEW l \in Links, Relay(l) PROVE ConnInv'
  <2> DEFINE k == LiveHost(hosts)
             e == Head(up[l])
  <2>1. l \in clients /\ up[l] # <<>> /\ up' = [up EXCEPT ![l] = Tail(@)]
    BY <1>7 DEF Relay
  <2>2. UNCHANGED <<conns, clients, host, cut>>
    BY <1>7 DEF Relay, hostVars, servedVars
  <2>3. e = up[l][1] /\ 1 \in 1..Len(up[l])
    BY <1>0, <2>1, HeadOf
  <2>4. e.link = l
    <3>1. \A i \in 1..Len(up[l]) : up[l][i].link = l
      BY Zenon DEF ConnInv, UpNamed
    <3> QED
      BY <2>3, <3>1, Zenon
  <2>5. UpNamed'
    <3> SUFFICES ASSUME NEW m \in Links, NEW i \in 1..Len(up'[m]) PROVE up'[m][i].link = m
      BY DEF UpNamed
    <3>1. CASE m = l
      <4>1. up'[l] = Tail(up[l]) /\ up[l] \in Seq(Requests)
        BY <1>0, <2>1
      <4>2. Len(Tail(up[l])) = Len(up[l]) - 1 /\ Len(up[l]) \in Nat
        BY <2>1, <4>1
      <4>3. i \in 1..Len(Tail(up[l])) /\ i + 1 \in 1..Len(up[l])
        <5>1. Len(up'[l]) = Len(Tail(up[l])) /\ i \in 1..Len(up'[l])
          BY <3>1, <4>1
        <5> QED
          BY <4>2, <5>1
      <4>4. up'[l][i] = up[l][i + 1]
        BY <2>1, <4>1, <4>3, HeadTailProperties
      <4> QED
        BY <3>1, <4>3, <4>4 DEF ConnInv, UpNamed
    <3>2. CASE m # l
      BY <1>0, <2>1, <3>2 DEF ConnInv, UpNamed
    <3> QED
      BY <3>1, <3>2
  <2>6. CASE k = NoSession
    <3>1. UNCHANGED toHost
      BY <1>7, <2>6 DEF Relay
    <3> QED
      BY <1>1, <2>2, <2>5, <3>1
  <2>7. CASE k # NoSession
    <3>1. toHost' = [toHost EXCEPT ![k] = Append(@, e)]
      BY <1>7, <2>7 DEF Relay
    <3>2. e.link \in clients'
      BY <2>1, <2>2, <2>4
    <3> HIDE DEF k, e
    <3> QED
      BY <1>6, <2>2, <2>5, <3>1, <3>2
  <2> QED
    BY <2>6, <2>7
<1>8. ASSUME NEW l \in Links, ClientClosed(l) PROVE ConnInv'
  <2> DEFINE k == LiveHost(hosts)
  <2>1. UpNamed' /\ clients' = clients \ {l} /\ UNCHANGED <<conns, host, cut>>
    BY <1>2, <1>8 DEF ClientClosed, hostVars, servedVars
  <2>2. \A h \in Sessions : Up(h) => k = h /\ h # NoSession
    BY LiveHostUp
  <2>3. CASE k = NoSession
    BY <1>3, <2>1, <2>2, <2>3 DEF Up
  <2>4. CASE k # NoSession
    <3>1. toHost' = [toHost EXCEPT ![k] = Append(@, Control(l))]
      BY <1>8, <2>4 DEF ClientClosed, TellHost
    <3>2. \A m \in clients \ clients' : m = l
      BY <2>1
    <3>3. Control(l).kind # "request"
      BY DEF Control
    <3>4. \A m \in clients \ clients' :
               Control(l) = Control(m) /\ \A h \in Sessions : Up(h) => k = h
      BY <2>2, <3>2
    <3> DEFINE e == Control(l)
    <3> HIDE DEF k, e
    <3> QED
      BY <1>6, <2>1, <3>1, <3>3, <3>4 DEF e
  <2> QED
    BY <2>3, <2>4
<1>9. ASSUME NEW h \in Sessions, RelayBack(h) PROVE ConnInv'
  <2> DEFINE e == Control(Head(fromHost[h]).link)
  <2>1. UpNamed' /\ UNCHANGED <<conns, clients, host, cut>>
    BY <1>2, <1>9 DEF RelayBack, hostVars, servedVars
  <2>2. \/ toHost' = toHost
        \/ toHost' = [toHost EXCEPT ![h] = Append(@, e)]
    BY <1>9 DEF RelayBack
  <2>3. e.kind # "request"
    BY DEF Control
  <2>4. CASE toHost' = toHost
    BY <1>1, <2>1, <2>4
  <2>5. CASE toHost' = [toHost EXCEPT ![h] = Append(@, e)]
    <3> HIDE DEF e
    <3> QED
      BY <1>6, <2>1, <2>3, <2>5
  <2> QED
    BY <2>2, <2>4, <2>5
<1>10. ASSUME NEW c \in Chats, Nudge(c) PROVE ConnInv'
  <2> DEFINE k == LiveHost(hosts)
  <2>1. UpNamed' /\ UNCHANGED <<conns, clients, host, cut>>
    BY <1>2, <1>10 DEF Nudge, hostVars, servedVars
  <2>2. \/ toHost' = toHost
        \/ toHost' = [toHost EXCEPT ![k] = Append(@, NudgeFor(c))]
    BY <1>10 DEF Nudge
  <2>3. NudgeFor(c).kind # "request"
    BY DEF NudgeFor
  <2>4. CASE toHost' = toHost
    BY <1>1, <2>1, <2>4
  <2>5. CASE toHost' = [toHost EXCEPT ![k] = Append(@, NudgeFor(c))]
    <3> HIDE DEF k
    <3> QED
      BY <1>6, <2>1, <2>3, <2>5
  <2> QED
    BY <2>2, <2>4, <2>5
<1>11. ASSUME NEW h \in Sessions,
              \/ HostClosed(h) \/ GoesStale(h)
              \/ \E l \in Links, p \in Callers : Reply(h, l, p)
       PROVE  ConnInv'
  <2>1. UNCHANGED up /\ UNCHANGED served
    BY <1>11 DEF HostClosed, GoesStale, Reply, hostVars, servedVars
  <2> QED
    BY <1>1, <1>2, <2>1
<1>12. ASSUME NEW h \in Sessions, HostJoins(h) PROVE ConnInv'
  <2>1. /\ host' = [host EXCEPT ![h] = "up"] /\ host[h] = "unborn"
        /\ UNCHANGED <<conns, clients, up, cut>>
        /\ toHost' = [toHost EXCEPT ![h] = [i \in 1..Len(queued) |-> NudgeFor(queued[i])]]
    BY <1>12 DEF HostJoins, Replay, servedVars
  <2>2. conns[h] = {}
    BY <2>1 DEF ConnInv
  <2>3. \A i \in 1..Len(toHost'[h]) : toHost'[h][i].kind = "nudge"
    <3>1. toHost'[h] = [i \in 1..Len(queued) |-> NudgeFor(queued[i])]
      BY <1>0, <2>1
    <3>2. Len(queued) \in Nat
      BY DEF TypeOK
    <3>3. Len(toHost'[h]) = Len(queued)
      BY <3>1, <3>2
    <3> QED
      BY <3>1, <3>3 DEF NudgeFor
  <2>4. Attended(h)'
    BY <2>1, <2>2, <2>3 DEF Attended
  <2>5. \A g \in Sessions : g # h /\ Up(g)' => Up(g) /\ Attended(g)'
    <3>1. \A g \in Sessions : g # h => toHost'[g] = toHost[g] /\ host'[g] = host[g]
      BY <1>0, <2>1
    <3> QED
      BY <2>1, <3>1 DEF ConnInv, Attended, TellsAfter, Up
  <2>6. \A g \in Sessions : host'[g] = "unborn" => conns'[g] = {}
    BY <1>0, <2>1 DEF ConnInv
  <2> QED
    BY <1>2, <2>1, <2>4, <2>5, <2>6 DEF ConnInv
<1>13. ASSUME NEW h \in Sessions, HandleFrame(h) PROVE ConnInv'
  <2> DEFINE frame == Head(toHost[h])
  <2>1. Up(h) /\ toHost[h] # <<>> /\ toHost' = [toHost EXCEPT ![h] = Tail(@)]
    BY <1>13 DEF HandleFrame
  <2>2. UNCHANGED <<clients, host, cut>> /\ UpNamed'
    BY <1>2, <1>13 DEF HandleFrame, hostVars
  <2>3. toHost[h] \in Seq(HostFrames) /\ Len(toHost[h]) \in Nat
    BY <1>0
  <2>4. frame \in HostFrames /\ frame = toHost[h][1] /\ 1 \in 1..Len(toHost[h])
    BY <2>1, <2>3, HeadOf
  <2>5. /\ toHost'[h] = Tail(toHost[h])
        /\ Len(Tail(toHost[h])) = Len(toHost[h]) - 1
        /\ \A i \in 1..Len(Tail(toHost[h])) : Tail(toHost[h])[i] = toHost[h][i + 1]
    BY <1>0, <2>1, <2>3, HeadTailProperties
  <2>6. ASSUME NEW l, NEW i \in Nat, i >= 1, TellsAfter(h, l, i) PROVE TellsAfter(h, l, i - 1)'
    <3>1. PICK j \in (i + 1)..Len(toHost[h]) : toHost[h][j] = Control(l)
      BY <2>6 DEF TellsAfter
    <3>2. /\ j - 1 \in ((i - 1) + 1)..Len(toHost'[h])
          /\ j - 1 \in 1..Len(Tail(toHost[h])) /\ (j - 1) + 1 = j
      BY <2>3, <2>5, <2>6, <3>1
    <3>3. toHost'[h][j - 1] = Control(l)
      BY <2>5, <3>1, <3>2
    <3> QED
      BY <3>2, <3>3 DEF TellsAfter
  <2>7. Attended(h)
    BY <2>1 DEF ConnInv
  <2>8. ASSUME NEW i \in 1..Len(toHost'[h]), NEW l \in Links,
               toHost'[h][i].kind = "request", toHost'[h][i].link = l
        PROVE  l \in clients' \/ TellsAfter(h, l, i)'
    <3>1. i + 1 \in 1..Len(toHost[h]) /\ toHost'[h][i] = toHost[h][i + 1]
      BY <2>3, <2>5, <2>8
    <3>2. l \in clients \/ TellsAfter(h, l, i + 1)
      BY <2>7, <2>8, <3>1 DEF Attended
    <3>3. (i + 1) - 1 = i /\ i + 1 >= 1 /\ i + 1 \in Nat
      BY <2>8
    <3>4. TellsAfter(h, l, i + 1) => TellsAfter(h, l, i)'
      <4> DEFINE n == i + 1
      <4>1. n \in Nat /\ n >= 1 /\ n - 1 = i
        BY <3>3
      <4>2. TellsAfter(h, l, n) => TellsAfter(h, l, n - 1)'
        <5> HIDE DEF n
        <5> QED
          BY <2>6, <4>1
      <4> QED
        BY <4>1, <4>2
    <3> QED
      BY <2>2, <3>2, <3>4
  <2>9. ASSUME NEW l \in conns'[h] PROVE l \in clients' \/ TellsAfter(h, l, 0)'
    <3> DEFINE i == 1
    <3>1. i \in Nat /\ i >= 1 /\ i - 1 = 0 /\ 0 + 1 = i
      OBVIOUS
    <3>2. CASE l \in conns[h] /\ frame # Control(l)
      <4>1. l \in clients \/ TellsAfter(h, l, 0)
        BY <2>7, <3>2 DEF Attended
      <4>2. ASSUME TellsAfter(h, l, 0) PROVE TellsAfter(h, l, 1)
        <5>1. PICK j \in 1..Len(toHost[h]) : toHost[h][j] = Control(l)
          BY <4>2 DEF TellsAfter
        <5>2. j # 1
          BY <2>4, <3>2, <5>1
        <5>3. j \in (1 + 1)..Len(toHost[h])
          BY <2>3, <5>1, <5>2
        <5> QED
          BY <5>1, <5>3 DEF TellsAfter
      <4> QED
        BY <2>2, <2>6, <3>1, <4>1, <4>2
    <3>3. CASE frame.kind = "request" /\ l = frame.link
      <4>1. l \in Links
        BY <2>4, <3>3 DEF HostFrames, Requests, Controls, Nudges
      <4>2. l \in clients \/ TellsAfter(h, l, 1)
        BY <2>4, <2>7, <3>3, <4>1 DEF Attended
      <4> QED
        BY <2>2, <2>6, <3>1, <4>2
    <3>4. frame.kind = "request" => conns' = [conns EXCEPT ![h] = @ \cup {frame.link}]
      BY <1>13 DEF HandleFrame
    <3>5. frame.kind = "relay" => conns' = [conns EXCEPT ![h] = @ \ {frame.link}]
      BY <1>13 DEF HandleFrame
    <3>6. frame.kind \notin {"request", "relay"} => conns' = conns
      BY <1>13 DEF HandleFrame, servedVars
    <3>7. frame = Control(l) => frame.kind = "relay" /\ frame.link = l
      BY DEF Control
    <3> HIDE DEF frame
    <3>8. l \in conns[h] \/ (frame.kind = "request" /\ l = frame.link)
      BY <1>0, <2>9, <3>4, <3>5, <3>6
    <3>9. frame = Control(l) => l \notin conns'[h]
      BY <1>0, <3>5, <3>7
    <3> QED
      BY <2>9, <3>2, <3>3, <3>8, <3>9
  <2>10. Attended(h)'
    BY <2>8, <2>9 DEF Attended
  <2>11. ASSUME NEW g \in Sessions, g # h PROVE toHost'[g] = toHost[g] /\ conns'[g] = conns[g]
    BY <1>0, <1>13, <2>1, <2>11 DEF HandleFrame, servedVars
  <2>12. \A g \in Sessions : g # h /\ Up(g)' => Attended(g)'
    <3> SUFFICES ASSUME NEW g \in Sessions, g # h, Up(g)' PROVE Attended(g)'
      OBVIOUS
    <3>1. Attended(g)
      BY <2>2 DEF ConnInv, Up
    <3>2. toHost'[g] = toHost[g] /\ conns'[g] = conns[g]
      BY <2>11
    <3>3. \A l, i : TellsAfter(g, l, i) => TellsAfter(g, l, i)'
      BY <3>2 DEF TellsAfter
    <3> QED
      BY <2>2, <3>1, <3>2, <3>3 DEF Attended
  <2>13. \A g \in Sessions : host'[g] = "unborn" => conns'[g] = {}
    BY <2>1, <2>2, <2>11 DEF ConnInv, Up
  <2> QED
    BY <2>2, <2>10, <2>12, <2>13 DEF ConnInv
<1>14. ASSUME NEW h \in Sessions, HostEnds(h) PROVE ConnInv'
  <2>1. /\ host' = [host EXCEPT ![h] = "ended"] /\ conns' = [conns EXCEPT ![h] = {}]
        /\ UNCHANGED <<clients, cut, toHost, up>>
    BY <1>14 DEF HostEnds, EndSession
  <2>2. \A g \in Sessions : Up(g)' => g # h
    BY <1>0, <2>1 DEF Up
  <2>3. \A g \in Sessions : g # h => host'[g] = host[g] /\ conns'[g] = conns[g]
    BY <1>0, <2>1
  <2>4. \A g \in Sessions : Up(g)' => Attended(g)'
    BY <2>1, <2>2, <2>3 DEF ConnInv, Attended, TellsAfter, Up
  <2>5. \A g \in Sessions : host'[g] = "unborn" => conns'[g] = {}
    BY <1>0, <2>1, <2>3 DEF ConnInv
  <2> QED
    BY <1>2, <2>1, <2>4, <2>5 DEF ConnInv
<1>15. ASSUME NEW h \in Sessions, HostCut(h) PROVE ConnInv'
  <2>1. UNCHANGED <<conns, toHost, clients, host, up>> /\ cut' = cut \cup {h}
    BY <1>15 DEF HostCut, servedVars
  <2> QED
    BY <1>2, <2>1 DEF ConnInv, Attended, TellsAfter, Up
<1>16. ASSUME RoomRestarts PROVE ConnInv'
  <2>1. /\ up' = [l \in Links |-> <<>>] /\ conns' = [h \in Sessions |-> {}]
        /\ host' = [h \in Sessions |-> IF host[h] = "up" THEN "ended" ELSE host[h]]
    BY <1>16 DEF RoomRestarts
  <2>2. \A h \in Sessions : ~Up(h)'
    BY <2>1 DEF Up
  <2>3. \A l \in Links : Len(up'[l]) = 0
    BY <2>1
  <2>4. UpNamed'
    BY <2>3 DEF UpNamed
  <2>5. \A h \in Sessions : conns'[h] = {}
    BY <2>1
  <2> QED
    BY <2>2, <2>4, <2>5 DEF ConnInv
<1>17. ASSUME CooldownEnds \/ Wake \/ UNCHANGED vars PROVE ConnInv'
  <2>1. UNCHANGED up /\ UNCHANGED served
    BY <1>17 DEF CooldownEnds, Wake, vars, hostVars, servedVars
  <2> QED
    BY <1>1, <1>2, <2>1
<1> QED
  BY <1>4, <1>5, <1>7, <1>8, <1>9, <1>10, <1>11, <1>12, <1>13, <1>14, <1>15, <1>16, <1>17 DEF Next

(* The host reaps what it runs for clients that are gone: a virtual         *)
(* connection of a session that works has a client the room still lists, or *)
(* word of its end is in the session's queue, in whatever order clients,    *)
(* frames, hosts and restarts come and go (device-room.ts:305-312,          *)
(* device_room.rs:443-452).                                                 *)
THEOREM ConnectionsReaped == Spec => []NoLeakedConn
<1>1. Init => TypeOK /\ HostsBounded
  BY InitType, RelayAssumption
<1>2. Init => SessionInv /\ ConnInv
  BY DEF Init, SessionInv, ConnInv, UpNamed, Up
<1>3. /\ TypeOK /\ HostsBounded /\ SessionInv /\ ConnInv /\ [Next]_vars
      => TypeOK' /\ HostsBounded' /\ SessionInv' /\ ConnInv'
  BY NextType, NextBounded, NextSession, NextConn, RelayAssumption
<1>4. ConnInv => NoLeakedConn
  BY DEF ConnInv, Attended, TellsAfter, NoLeakedConn
<1> QED
  BY <1>1, <1>2, <1>3, <1>4, PTL DEF Spec
-----------------------------------------------------------------------------
(* What is in a queue *)

LEMMA InAppend ==
    ASSUME NEW S, NEW s \in Seq(S), NEW e
    PROVE  \A f : In(Append(s, e), f) <=> In(s, f) \/ f = e
<1> SUFFICES ASSUME NEW f PROVE In(Append(s, e), f) <=> In(s, f) \/ f = e
  OBVIOUS
<1>1. /\ Len(s) \in Nat /\ Len(Append(s, e)) = Len(s) + 1
      /\ Append(s, e)[Len(s) + 1] = e
      /\ \A i \in 1..Len(s) : Append(s, e)[i] = s[i]
  OBVIOUS
<1>2. \A i \in 1..(Len(s) + 1) : i \in 1..Len(s) \/ i = Len(s) + 1
  BY <1>1
<1>3. Len(s) + 1 \in 1..(Len(s) + 1) /\ \A i \in 1..Len(s) : i \in 1..(Len(s) + 1)
  BY <1>1
<1> QED
  BY <1>1, <1>2, <1>3, Zenon DEF In

LEMMA InTail ==
    ASSUME NEW S, NEW s \in Seq(S), s # <<>>
    PROVE  /\ In(s, Head(s))
           /\ \A f : In(s, f) <=> f = Head(s) \/ In(Tail(s), f)
<1>1. /\ Len(s) \in Nat /\ Len(Tail(s)) = Len(s) - 1 /\ Head(s) = s[1] /\ Len(s) >= 1
      /\ \A i \in 1..Len(Tail(s)) : Tail(s)[i] = s[i + 1]
  BY HeadTailProperties
<1>2. \A i \in 1..Len(Tail(s)) : i + 1 \in 1..Len(s)
  BY <1>1
<1>3. \A i \in 1..Len(s) : i = 1 \/ (i - 1 \in 1..Len(Tail(s)) /\ (i - 1) + 1 = i)
  BY <1>1
<1>4. 1 \in 1..Len(s)
  BY <1>1
<1>5. ASSUME NEW f, In(s, f) PROVE f = Head(s) \/ In(Tail(s), f)
  <2>1. PICK i \in 1..Len(s) : s[i] = f
    BY <1>5 DEF In
  <2>2. i = 1 \/ Tail(s)[i - 1] = f
    BY <1>1, <1>3, <2>1
  <2> QED
    BY <1>1, <1>3, <2>1, <2>2 DEF In
<1>6. ASSUME NEW f, In(Tail(s), f) PROVE In(s, f)
  BY <1>1, <1>2, <1>6 DEF In
<1>7. In(s, Head(s))
  BY <1>1, <1>4 DEF In
<1> QED
  BY <1>5, <1>6, <1>7

(* The same of each of the queues between callers, room and hosts.         *)
LEMMA UpAppend ==
    ASSUME up \in [Links -> Seq(Requests)], NEW k, NEW e, up' = [up EXCEPT ![k] = Append(@, e)]
    PROVE  \A f : \A i \in Links : In(up'[i], f) <=> In(up[i], f) \/ (i = k /\ f = e)
<1> SUFFICES ASSUME NEW i \in Links
             PROVE  \A f : In(up'[i], f) <=> In(up[i], f) \/ (i = k /\ f = e)
  OBVIOUS
<1>1. CASE i = k
  <2>1. up'[i] = Append(up[i], e) /\ up[i] \in Seq(Requests)
    BY <1>1
  <2>2. \A f : In(Append(up[i], e), f) <=> In(up[i], f) \/ f = e
    BY <2>1, InAppend
  <2> QED
    BY <1>1, <2>1, <2>2
<1>2. CASE i # k
  <2>1. up'[i] = up[i]
    BY <1>2
  <2> QED
    BY <1>2, <2>1
<1> QED
  BY <1>1, <1>2

LEMMA UpTail ==
    ASSUME up \in [Links -> Seq(Requests)], NEW k \in Links, up[k] # <<>>,
           up' = [up EXCEPT ![k] = Tail(@)]
    PROVE  /\ \A f : \A i \in Links : In(up'[i], f) => In(up[i], f)
           /\ \A f : \A i \in Links :
                  In(up[i], f) => In(up'[i], f) \/ (i = k /\ f = Head(up[k]))
           /\ In(up[k], Head(up[k]))
<1>1. up'[k] = Tail(up[k]) /\ up[k] \in Seq(Requests)
  OBVIOUS
<1>2. \A i \in Links : i # k => up'[i] = up[i]
  OBVIOUS
<1>3. /\ In(up[k], Head(up[k]))
      /\ \A f : In(up[k], f) <=> f = Head(up[k]) \/ In(Tail(up[k]), f)
  BY <1>1, InTail
<1> QED
  BY <1>1, <1>2, <1>3

LEMMA DownAppend ==
    ASSUME down \in [Links -> Seq(Answers \cup Controls)], NEW k, NEW e,
           down' = [down EXCEPT ![k] = Append(@, e)]
    PROVE  \A f : \A i \in Links : In(down'[i], f) <=> In(down[i], f) \/ (i = k /\ f = e)
<1> SUFFICES ASSUME NEW i \in Links
             PROVE  \A f : In(down'[i], f) <=> In(down[i], f) \/ (i = k /\ f = e)
  OBVIOUS
<1>1. CASE i = k
  <2>1. down'[i] = Append(down[i], e) /\ down[i] \in Seq(Answers \cup Controls)
    BY <1>1
  <2>2. \A f : In(Append(down[i], e), f) <=> In(down[i], f) \/ f = e
    BY <2>1, InAppend
  <2> QED
    BY <1>1, <2>1, <2>2
<1>2. CASE i # k
  <2>1. down'[i] = down[i]
    BY <1>2
  <2> QED
    BY <1>2, <2>1
<1> QED
  BY <1>1, <1>2

LEMMA DownTail ==
    ASSUME down \in [Links -> Seq(Answers \cup Controls)], NEW k \in Links, down[k] # <<>>,
           down' = [down EXCEPT ![k] = Tail(@)]
    PROVE  /\ \A f : \A i \in Links : In(down'[i], f) => In(down[i], f)
           /\ \A f : \A i \in Links :
                  In(down[i], f) => In(down'[i], f) \/ (i = k /\ f = Head(down[k]))
           /\ In(down[k], Head(down[k]))
<1>1. down'[k] = Tail(down[k]) /\ down[k] \in Seq(Answers \cup Controls)
  OBVIOUS
<1>2. \A i \in Links : i # k => down'[i] = down[i]
  OBVIOUS
<1>3. /\ In(down[k], Head(down[k]))
      /\ \A f : In(down[k], f) <=> f = Head(down[k]) \/ In(Tail(down[k]), f)
  BY <1>1, InTail
<1> QED
  BY <1>1, <1>2, <1>3

LEMMA ToHostAppend ==
    ASSUME toHost \in [Sessions -> Seq(HostFrames)], NEW k, NEW e,
           toHost' = [toHost EXCEPT ![k] = Append(@, e)]
    PROVE  \A f : \A i \in Sessions : In(toHost'[i], f) <=> In(toHost[i], f) \/ (i = k /\ f = e)
<1> SUFFICES ASSUME NEW i \in Sessions
             PROVE  \A f : In(toHost'[i], f) <=> In(toHost[i], f) \/ (i = k /\ f = e)
  OBVIOUS
<1>1. CASE i = k
  <2>1. toHost'[i] = Append(toHost[i], e) /\ toHost[i] \in Seq(HostFrames)
    BY <1>1
  <2>2. \A f : In(Append(toHost[i], e), f) <=> In(toHost[i], f) \/ f = e
    BY <2>1, InAppend
  <2> QED
    BY <1>1, <2>1, <2>2
<1>2. CASE i # k
  <2>1. toHost'[i] = toHost[i]
    BY <1>2
  <2> QED
    BY <1>2, <2>1
<1> QED
  BY <1>1, <1>2

LEMMA ToHostTail ==
    ASSUME toHost \in [Sessions -> Seq(HostFrames)], NEW k \in Sessions, toHost[k] # <<>>,
           toHost' = [toHost EXCEPT ![k] = Tail(@)]
    PROVE  /\ \A f : \A i \in Sessions : In(toHost'[i], f) => In(toHost[i], f)
           /\ \A f : \A i \in Sessions :
                  In(toHost[i], f) => In(toHost'[i], f) \/ (i = k /\ f = Head(toHost[k]))
           /\ In(toHost[k], Head(toHost[k]))
<1>1. toHost'[k] = Tail(toHost[k]) /\ toHost[k] \in Seq(HostFrames)
  OBVIOUS
<1>2. \A i \in Sessions : i # k => toHost'[i] = toHost[i]
  OBVIOUS
<1>3. /\ In(toHost[k], Head(toHost[k]))
      /\ \A f : In(toHost[k], f) <=> f = Head(toHost[k]) \/ In(Tail(toHost[k]), f)
  BY <1>1, InTail
<1> QED
  BY <1>1, <1>2, <1>3

LEMMA FromHostAppend ==
    ASSUME fromHost \in [Sessions -> Seq(Answers)], NEW k, NEW e,
           fromHost' = [fromHost EXCEPT ![k] = Append(@, e)]
    PROVE  \A f : \A i \in Sessions : In(fromHost'[i], f) <=> In(fromHost[i], f) \/ (i = k /\ f = e)
<1> SUFFICES ASSUME NEW i \in Sessions
             PROVE  \A f : In(fromHost'[i], f) <=> In(fromHost[i], f) \/ (i = k /\ f = e)
  OBVIOUS
<1>1. CASE i = k
  <2>1. fromHost'[i] = Append(fromHost[i], e) /\ fromHost[i] \in Seq(Answers)
    BY <1>1
  <2>2. \A f : In(Append(fromHost[i], e), f) <=> In(fromHost[i], f) \/ f = e
    BY <2>1, InAppend
  <2> QED
    BY <1>1, <2>1, <2>2
<1>2. CASE i # k
  <2>1. fromHost'[i] = fromHost[i]
    BY <1>2
  <2> QED
    BY <1>2, <2>1
<1> QED
  BY <1>1, <1>2

LEMMA FromHostTail ==
    ASSUME fromHost \in [Sessions -> Seq(Answers)], NEW k \in Sessions, fromHost[k] # <<>>,
           fromHost' = [fromHost EXCEPT ![k] = Tail(@)]
    PROVE  /\ \A f : \A i \in Sessions : In(fromHost'[i], f) => In(fromHost[i], f)
           /\ \A f : \A i \in Sessions :
                  In(fromHost[i], f) => In(fromHost'[i], f) \/ (i = k /\ f = Head(fromHost[k]))
           /\ In(fromHost[k], Head(fromHost[k]))
<1>1. fromHost'[k] = Tail(fromHost[k]) /\ fromHost[k] \in Seq(Answers)
  OBVIOUS
<1>2. \A i \in Sessions : i # k => fromHost'[i] = fromHost[i]
  OBVIOUS
<1>3. /\ In(fromHost[k], Head(fromHost[k]))
      /\ \A f : In(fromHost[k], f) <=> f = Head(fromHost[k]) \/ In(Tail(fromHost[k]), f)
  BY <1>1, InTail
<1> QED
  BY <1>1, <1>2, <1>3

LEMMA FrameKinds ==
    ASSUME RelayAssumption
    PROVE  /\ \A e \in Requests : \E l \in Links, p \in Callers : e = Request(l, p)
           /\ \A e \in Answers : \E l \in Links, p \in Callers : e = Answer(l, p)
           /\ \A e \in Controls : \E l \in Links : e = Control(l)
           /\ \A e \in Nudges : \E c \in Chats : e = NudgeFor(c)
           /\ \A l, m, p, q : Request(l, p) = Request(m, q) => l = m /\ p = q
           /\ \A l, m, p, q : Answer(l, p) = Answer(m, q) => l = m /\ p = q
           /\ \A l, m : Control(l) = Control(m) => l = m
           /\ \A c, d : NudgeFor(c) = NudgeFor(d) => c = d
<1>1. /\ \A e \in Requests : e = Request(e.link, e.of) /\ e.link \in Links /\ e.of \in Callers
      /\ \A e \in Answers : e = Answer(e.link, e.of) /\ e.link \in Links /\ e.of \in Callers
      /\ \A e \in Controls : e = Control(e.link) /\ e.link \in Links
      /\ \A e \in Nudges : e = NudgeFor(e.of) /\ e.of \in Chats
  BY DEF Requests, Answers, Controls, Nudges, Request, Answer, Control, NudgeFor
<1>2. \A l, p : /\ Request(l, p).link = l /\ Request(l, p).of = p
                /\ Answer(l, p).link = l /\ Answer(l, p).of = p
                /\ Control(l).link = l /\ NudgeFor(p).of = p
  BY DEF Request, Answer, Control, NudgeFor
<1>3. ASSUME NEW l, NEW m, NEW p, NEW q, Request(l, p) = Request(m, q) PROVE l = m /\ p = q
  BY <1>2, <1>3
<1>4. ASSUME NEW l, NEW m, NEW p, NEW q, Answer(l, p) = Answer(m, q) PROVE l = m /\ p = q
  BY <1>2, <1>4
<1>5. ASSUME NEW l, NEW m, Control(l) = Control(m) PROVE l = m
  BY <1>2, <1>5
<1>6. ASSUME NEW c, NEW d, NudgeFor(c) = NudgeFor(d) PROVE c = d
  BY <1>2, <1>6
<1> QED
  BY <1>1, <1>3, <1>4, <1>5, <1>6

LEMMA Kinds ==
    /\ \A l, p : Request(l, p).kind = "request" /\ Answer(l, p).kind = "answer"
    /\ \A l : Control(l).kind = "relay" /\ NudgeFor(l).kind = "nudge"
BY DEF Request, Answer, Control, NudgeFor

(* Links that are dropped end; the others stay as they were.                *)
LEMMA DropEnds ==
    ASSUME LinkOK, NEW ls, DropLinks(ls), NEW l \in Links
    PROVE  /\ l \notin ls => client'[l] = client[l] /\ down'[l] = down[l]
           /\ l \in ls => client'[l] = IF client[l] = "up" THEN "ended" ELSE client[l]
BY DEF LinkOK, DropLinks, Orphans, Deaf

LEMMA LiveHostOf ==
    ASSUME RelayAssumption, TypeOK, HostsBounded, LiveHost(hosts) # NoSession
    PROVE  LiveHost(hosts) \in hosts
<1>1. hosts \in SUBSET Nat /\ hosts # {}
  BY DEF LiveHost, RelayAssumption, TypeOK
<1>2. PICK b \in Nat : \A h \in hosts : h <= b
  BY DEF HostsBounded
<1>3. \E m \in hosts : \A n \in hosts : n <= m
  BY <1>1, <1>2, GreatestExists
<1> QED
  BY <1>3 DEF LiveHost

-----------------------------------------------------------------------------
(* Links: dialed once, and never up again when they have ended              *)

Born(l) == client[l] # "unborn"
Aged ==
    \A l \in Links : /\ Born(l) => Born(l)'
                     /\ client[l] = "ended" => client'[l] = "ended"

(* A caller's link was dialed, and the room lists each link that is up.     *)
LinkInv ==
    /\ \A l \in Links : client[l] = "up" => l \in clients
    /\ \A p \in Callers : pc[p] \in {"probe", "send", "call"} => mine[p] \in Links /\ Born(mine[p])

(* Frames are of links that were dialed; word of an end, of one that ended. *)
FramesBorn ==
    /\ \A l, m \in Links, p \in Callers : In(up[l], Request(m, p)) => Born(m)
    /\ \A h \in Sessions, m \in Links, p \in Callers :
          \/ In(toHost[h], Request(m, p)) \/ <<m, p>> \in running[h]
          \/ In(fromHost[h], Answer(m, p))
          => Born(m)
    /\ \A h \in Sessions, m \in Links : In(toHost[h], Control(m)) => client[m] = "ended"

LEMMA NextAged ==
    ASSUME TypeOK, [Next]_vars
    PROVE  Aged
<1>0. client \in [Links -> Ends] /\ LinkOK
  BY TypeParts DEF Parts, LinkOK
<1>1. ASSUME UNCHANGED client PROVE Aged
  BY <1>1 DEF Aged, Born
<1>2. ASSUME NEW ls, DropLinks(ls) PROVE Aged
  <2> SUFFICES ASSUME NEW l \in Links
               PROVE  /\ Born(l) => Born(l)'
                      /\ client[l] = "ended" => client'[l] = "ended"
    BY DEF Aged
  <2>1. client'[l] = client[l] \/ (client[l] = "up" /\ client'[l] = "ended")
    BY <1>0, <1>2, DropEnds
  <2> QED
    BY <2>1 DEF Born
<1>3. ASSUME NEW p \in Callers, Ask(p) \/ Cache(p) \/ Call(p) PROVE Aged
  <2>1. CASE \/ Ask(p) \/ Lock(p) \/ DialFails(p) \/ ProbeAnswered(p) \/ Send(p)
             \/ CallAnswered(p) \/ CallFails(p)
    BY <1>1, <2>1 DEF Ask, Lock, DialFails, ProbeAnswered, Send, CallAnswered, CallFails
  <2>2. CASE ProbeFails(p) \/ Invalidate(p)
    BY <1>2, <2>2 DEF ProbeFails, Invalidate
  <2>3. ASSUME NEW l \in Links, Dial(p, l) PROVE Aged
    BY <1>0, <2>3 DEF Aged, Born, Dial
  <2> QED
    BY <1>3, <2>1, <2>2, <2>3 DEF Cache, Call
<1>4. ASSUME NEW l \in Links, LinkTold(l) \/ LinkLost(l) \/ Relay(l) \/ ClientClosed(l)
      PROVE  Aged
  BY <1>1, <1>2, <1>4 DEF LinkTold, LinkLost, Relay, ClientClosed
<1>5. ASSUME NEW h \in Sessions,
             \/ RelayBack(h) \/ HostClosed(h) \/ GoesStale(h) \/ HostJoins(h) \/ HandleFrame(h)
             \/ HostEnds(h) \/ HostCut(h) \/ \E l \in Links, p \in Callers : Reply(h, l, p)
      PROVE  Aged
  BY <1>1, <1>5 DEF RelayBack, HostClosed, GoesStale, HostJoins, HandleFrame, HostEnds, HostCut,
     Reply
<1>6. ASSUME (\E c \in Chats : Nudge(c)) \/ CooldownEnds \/ Wake \/ RoomRestarts \/ UNCHANGED vars
      PROVE  Aged
  BY <1>1, <1>2, <1>6 DEF Nudge, CooldownEnds, Wake, RoomRestarts, vars
<1> QED
  BY <1>3, <1>4, <1>5, <1>6 DEF Next

LEMMA NextLinks ==
    ASSUME RelayAssumption, TypeOK, LinkInv, Aged, [Next]_vars
    PROVE  LinkInv'
<1> DEFINE Listed == \A l \in Links : client[l] = "up" => l \in clients
           Held == \A p \in Callers : pc[p] \in {"probe", "send", "call"} =>
                                        mine[p] \in Links /\ Born(mine[p])
           Lives(l) == client'[l] # "unborn"
<1>0. /\ client \in [Links -> Ends] /\ LinkOK /\ pc \in [Callers -> CallerSteps]
      /\ mine \in [Callers -> Links \cup {NoLink}]
  BY TypeParts DEF Parts, LinkOK, CallerOK
<1>1. ASSUME UNCHANGED <<pc, mine>> PROVE Held'
  BY <1>1 DEF LinkInv, Aged
<1>2. ASSUME UNCHANGED <<client, clients>> PROVE Listed'
  BY <1>2 DEF LinkInv
<1>3. ASSUME NEW ls, DropLinks(ls), UNCHANGED clients PROVE Listed'
  <2> SUFFICES ASSUME NEW l \in Links, client'[l] = "up" PROVE l \in clients'
    OBVIOUS
  <2>1. client[l] = "up"
    BY <1>0, <1>3, DropEnds
  <2> QED
    BY <1>3, <2>1 DEF LinkInv
<1>4. ASSUME NEW p \in Callers, NEW step, NEW l,
             pc' = [pc EXCEPT ![p] = step], mine' = [mine EXCEPT ![p] = l],
             step \in {"probe", "send", "call"} => l \in Links /\ Lives(l)
      PROVE  Held'
  <2> SUFFICES ASSUME NEW q \in Callers, pc'[q] \in {"probe", "send", "call"}
               PROVE  mine'[q] \in Links /\ Lives(mine'[q])
    BY DEF Born
  <2>1. CASE q = p
    BY <1>0, <1>4, <2>1 DEF Born
  <2>2. CASE q # p
    <3>1. pc'[q] = pc[q] /\ mine'[q] = mine[q]
      BY <1>0, <1>4, <2>2
    <3> QED
      BY <3>1 DEF LinkInv, Aged, Born
  <2> QED
    BY <2>1, <2>2
<1>5. ASSUME NEW p \in Callers, NEW step, pc' = [pc EXCEPT ![p] = step], UNCHANGED mine,
             step \in {"probe", "send", "call"} => mine[p] \in Links /\ Lives(mine[p])
      PROVE  Held'
  <2>1. mine' = [mine EXCEPT ![p] = mine[p]]
    BY <1>0, <1>5
  <2> QED
    BY <1>4, <1>5, <2>1
<1>6. Cached # NoLink => Cached \in Links /\ Born(Cached)
  BY <1>0 DEF Cached, LinkOK, Born
<1> DEFINE C == Cached
<1> HIDE DEF Listed, Held, C
<1>8. ASSUME NEW p \in Callers, Ask(p) \/ Cache(p) \/ Call(p) PROVE Listed' /\ Held'
  <2>1. CASE Ask(p)
    <3>1. /\ pc' = [pc EXCEPT ![p] = IF Cached # NoLink THEN "send" ELSE "lock"]
          /\ mine' = [mine EXCEPT ![p] = Cached] /\ UNCHANGED <<client, clients>>
      BY <2>1 DEF Ask
    <3>2. (IF Cached # NoLink THEN "send" ELSE "lock") \in {"probe", "send", "call"}
          => Cached \in Links /\ Lives(Cached)
      BY <1>6, <3>1 DEF Born
    <3> QED
      BY <1>2, <1>4, <3>1, <3>2 DEF Born
  <2>2. CASE Lock(p)
    <3>1. UNCHANGED <<client, clients>>
      BY <2>2 DEF Lock
    <3>2. Held'
      <4>1. CASE /\ C # NoLink
                 /\ pc' = [pc EXCEPT ![p] = "send"] /\ mine' = [mine EXCEPT ![p] = C]
        <5>1. C \in Links /\ Lives(C)
          BY <1>6, <3>1, <4>1 DEF C, Born
        <5> QED
          BY <1>4, <4>1, <5>1
      <4>2. CASE pc' = [pc EXCEPT ![p] = "idle"] /\ UNCHANGED mine
        BY <1>5, <4>2
      <4>3. CASE pc' = [pc EXCEPT ![p] = "dial"] /\ UNCHANGED mine
        BY <1>5, <4>3
      <4> QED
        BY <2>2, <4>1, <4>2, <4>3 DEF Lock, C
    <3> QED
      BY <1>2, <3>1, <3>2
  <2>3. ASSUME NEW l \in Links, Dial(p, l) PROVE Listed' /\ Held'
    <3>1. /\ client' = [client EXCEPT ![l] = "up"] /\ clients' = clients \cup {l}
          /\ pc' = [pc EXCEPT ![p] = "probe"] /\ mine' = [mine EXCEPT ![p] = l]
      BY <2>3 DEF Dial
    <3>2. Lives(l)
      BY <1>0, <3>1 DEF Born
    <3>3. Listed'
      BY <1>0, <3>1 DEF Listed, LinkInv
    <3> QED
      BY <1>4, <3>1, <3>2, <3>3
  <2>4. CASE DialFails(p) \/ ProbeFails(p)
    <3>1. PICK step \in {"idle", "dial"} : pc' = [pc EXCEPT ![p] = step]
      BY <2>4 DEF DialFails, ProbeFails, Exhausts
    <3>2. mine' = [mine EXCEPT ![p] = NoLink]
      BY <2>4 DEF DialFails, ProbeFails, Exhausts
    <3>3. Held'
      BY <1>4, <3>1, <3>2
    <3>4. Listed'
      BY <1>2, <1>3, <2>4 DEF DialFails, ProbeFails
    <3> QED
      BY <3>3, <3>4
  <2>5. CASE ProbeAnswered(p)
    <3>1. /\ pc' = [pc EXCEPT ![p] = "send"] /\ pc[p] = "probe"
          /\ UNCHANGED <<mine, client, clients>>
      BY <2>5 DEF ProbeAnswered
    <3>2. mine[p] \in Links /\ Lives(mine[p])
      BY <3>1 DEF LinkInv, Born
    <3> QED
      BY <1>2, <1>5, <3>1, <3>2
  <2>6. CASE Send(p)
    <3>1. PICK step \in {"call", "closed"} : pc' = [pc EXCEPT ![p] = step]
      BY <2>6 DEF Send
    <3>2. pc[p] = "send" /\ UNCHANGED <<mine, client, clients>>
      BY <2>6 DEF Send
    <3>3. mine[p] \in Links /\ Lives(mine[p])
      BY <3>2 DEF LinkInv, Born
    <3> QED
      BY <1>2, <1>5, <3>1, <3>2, <3>3
  <2>7. CASE CallAnswered(p)
    <3>1. /\ pc' = [pc EXCEPT ![p] = "idle"] /\ mine' = [mine EXCEPT ![p] = NoLink]
          /\ UNCHANGED <<client, clients>>
      BY <2>7 DEF CallAnswered
    <3> QED
      BY <1>2, <1>4, <3>1
  <2>8. CASE CallFails(p)
    <3>1. pc' = [pc EXCEPT ![p] = "closed"] /\ UNCHANGED <<mine, client, clients>>
      BY <2>8 DEF CallFails
    <3> QED
      BY <1>2, <1>5, <3>1
  <2>9. CASE Invalidate(p)
    <3>1. /\ pc' = [pc EXCEPT ![p] = "idle"] /\ mine' = [mine EXCEPT ![p] = NoLink]
          /\ UNCHANGED clients /\ DropLinks({cached})
      BY <2>9 DEF Invalidate
    <3> QED
      BY <1>3, <1>4, <3>1
  <2> QED
    BY <1>8, <2>1, <2>2, <2>3, <2>4, <2>5, <2>6, <2>7, <2>8, <2>9 DEF Cache, Call
<1>9. ASSUME NEW l \in Links, LinkTold(l) \/ LinkLost(l) \/ Relay(l) PROVE Listed' /\ Held'
  BY <1>1, <1>2, <1>3, <1>9 DEF LinkTold, LinkLost, Relay, callerVars
<1>10. ASSUME NEW l \in Links, ClientClosed(l) PROVE Listed' /\ Held'
  <2>1. clients' = clients \ {l} /\ client[l] = "ended" /\ UNCHANGED <<pc, mine, client>>
    BY <1>10 DEF ClientClosed, callerVars
  <2>2. Listed'
    BY <2>1 DEF Listed, LinkInv
  <2> QED
    BY <1>1, <2>1, <2>2
<1>11. ASSUME NEW h \in Sessions,
              \/ RelayBack(h) \/ HostClosed(h) \/ GoesStale(h) \/ HostJoins(h) \/ HandleFrame(h)
              \/ HostEnds(h) \/ HostCut(h) \/ \E l \in Links, p \in Callers : Reply(h, l, p)
       PROVE  Listed' /\ Held'
  BY <1>1, <1>2, <1>11 DEF RelayBack, HostClosed, GoesStale, HostJoins, HandleFrame, HostEnds,
     HostCut, Reply, callerVars
<1>12. ASSUME (\E c \in Chats : Nudge(c)) \/ CooldownEnds \/ Wake \/ UNCHANGED vars
       PROVE  Listed' /\ Held'
  BY <1>1, <1>2, <1>3, <1>12 DEF Nudge, CooldownEnds, Wake, vars, callerVars
<1>13. ASSUME RoomRestarts PROVE Listed' /\ Held'
  <2>1. DropLinks(Links) /\ UNCHANGED <<pc, mine>>
    BY <1>13 DEF RoomRestarts, callerVars
  <2>2. \A l \in Links : client'[l] # "up"
    BY <1>0, <2>1, DropEnds
  <2> QED
    BY <1>1, <2>1, <2>2 DEF Listed
<1>14. Listed' /\ Held'
  BY <1>8, <1>9, <1>10, <1>11, <1>12, <1>13 DEF Next
<1> QED
  BY <1>14 DEF LinkInv, Listed, Held

LEMMA NextFrames ==
    ASSUME RelayAssumption, TypeOK, LinkInv, FramesBorn, Aged, [Next]_vars
    PROVE  FramesBorn'
<1> DEFINE Ups == \A l, m \in Links, p \in Callers : In(up[l], Request(m, p)) => Born(m)
           Runs == \A h \in Sessions, m \in Links, p \in Callers :
                      <<m, p>> \in running[h] => Born(m)
           Froms == \A h \in Sessions, m \in Links, p \in Callers :
                       In(fromHost[h], Answer(m, p)) => Born(m)
           Tos == \A h \in Sessions, m \in Links :
                     /\ \A p \in Callers : In(toHost[h], Request(m, p)) => Born(m)
                     /\ In(toHost[h], Control(m)) => client[m] = "ended"
<1>0. /\ up \in [Links -> Seq(Requests)] /\ toHost \in [Sessions -> Seq(HostFrames)]
      /\ fromHost \in [Sessions -> Seq(Answers)] /\ client \in [Links -> Ends]
      /\ running \in [Sessions -> SUBSET (Links \X Callers)]
      /\ mine \in [Callers -> Links \cup {NoLink}]
  BY DEF TypeOK, HostFrames
<1>1. Ups /\ Runs /\ Froms /\ Tos
  BY DEF FramesBorn
<1>2. ASSUME \A f : \A l \in Links : In(up'[l], f) => In(up[l], f) PROVE Ups'
  BY <1>1, <1>2 DEF Aged
<1>3. ASSUME \A r : \A h \in Sessions : r \in running'[h] => r \in running[h] PROVE Runs'
  BY <1>1, <1>3 DEF Aged
<1>4. ASSUME \A f : \A h \in Sessions : In(fromHost'[h], f) => In(fromHost[h], f) PROVE Froms'
  BY <1>1, <1>4 DEF Aged
<1>5. ASSUME \A f : \A h \in Sessions : In(toHost'[h], f) => In(toHost[h], f) PROVE Tos'
  BY <1>1, <1>5 DEF Aged
<1>6. ASSUME NEW k, NEW e, toHost' = [toHost EXCEPT ![k] = Append(@, e)],
             \A m \in Links, p \in Callers : e = Request(m, p) => Born(m),
             \A m \in Links : e = Control(m) => client[m] = "ended"
      PROVE  Tos'
  <2>1. \A f : \A h \in Sessions : In(toHost'[h], f) => In(toHost[h], f) \/ f = e
    BY <1>0, <1>6, ToHostAppend
  <2> QED
    BY <1>1, <1>6, <2>1 DEF Aged
<1>7. /\ UNCHANGED up => Ups'
      /\ UNCHANGED running => Runs'
      /\ UNCHANGED fromHost => Froms'
      /\ UNCHANGED toHost => Tos'
  BY <1>2, <1>3, <1>4, <1>5
<1>8. /\ \A m, p, l, q : Request(m, p) = Request(l, q) => m = l
      /\ \A m, p, l, q : Answer(m, p) = Answer(l, q) => m = l
      /\ \A m, l : Control(m) = Control(l) => m = l
      /\ \A m, p, l : Request(m, p) # Control(l) /\ Request(m, p) # NudgeFor(l)
      /\ \A m, l : Control(m) # NudgeFor(l)
  <2>1. /\ \A m, p, l : Request(m, p) # Control(l) /\ Request(m, p) # NudgeFor(l)
        /\ \A m, l : Control(m) # NudgeFor(l)
    BY Kinds
  <2> QED
    BY <2>1, FrameKinds
<1> HIDE DEF Ups, Runs, Froms, Tos
<1>9. ASSUME NEW p \in Callers, Ask(p) \/ Cache(p) \/ Call(p) PROVE Ups' /\ Runs' /\ Froms' /\ Tos'
  <2>1. Runs' /\ Froms' /\ Tos'
    BY <1>7, <1>9 DEF Ask, Cache, Lock, Dial, DialFails, ProbeAnswered, ProbeFails, Call, Send,
       CallAnswered, CallFails, Invalidate, servedVars
  <2>2. CASE \/ Ask(p) \/ Lock(p) \/ DialFails(p) \/ ProbeAnswered(p) \/ ProbeFails(p)
             \/ CallAnswered(p) \/ CallFails(p) \/ Invalidate(p)
    BY <1>7, <2>1, <2>2 DEF Ask, Lock, DialFails, ProbeAnswered, ProbeFails, CallAnswered, CallFails,
       Invalidate
  <2>3. ASSUME NEW l \in Links, Dial(p, l) PROVE Ups'
    <3>1. up' = [up EXCEPT ![l] = <<Request(l, p)>>] /\ client' = [client EXCEPT ![l] = "up"]
      BY <2>3 DEF Dial
    <3>2. Born(l)'
      BY <1>0, <3>1 DEF Born
    <3>3. \A f : \A k \in Links : In(up'[k], f) => In(up[k], f) \/ f = Request(l, p)
      BY <1>0, <3>1 DEF In
    <3> QED
      BY <1>1, <1>8, <3>2, <3>3 DEF Ups, Aged
  <2>4. CASE Send(p)
    <3>1. pc[p] = "send"
      BY <2>4 DEF Send
    <3>2. mine[p] \in Links /\ Born(mine[p])
      BY <3>1 DEF LinkInv
    <3>3. CASE client[mine[p]] = "up"
      <4>1. up' = [up EXCEPT ![mine[p]] = Append(@, Request(mine[p], p))]
        BY <2>4, <3>3 DEF Send
      <4>2. \A f : \A k \in Links : In(up'[k], f) => In(up[k], f) \/ f = Request(mine[p], p)
        BY <1>0, <4>1, UpAppend
      <4>3. ASSUME NEW k \in Links, NEW m \in Links, NEW q \in Callers, In(up'[k], Request(m, q))
            PROVE  Born(m)
        <5>1. In(up[k], Request(m, q)) \/ Request(m, q) = Request(mine[p], p)
          BY <4>2, <4>3
        <5> QED
          BY <1>1, <1>8, <3>2, <5>1 DEF Ups
      <4> QED
        BY <2>1, <4>3 DEF Ups, Aged
    <3>4. CASE client[mine[p]] # "up"
      BY <1>7, <2>1, <2>4, <3>4 DEF Send
    <3> QED
      BY <3>3, <3>4
  <2> QED
    BY <1>9, <2>1, <2>2, <2>3, <2>4 DEF Cache, Call
<1>10. ASSUME NEW l \in Links, LinkTold(l) \/ LinkLost(l) PROVE Ups' /\ Runs' /\ Froms' /\ Tos'
  <2>1. Runs' /\ Froms' /\ Tos'
    BY <1>7, <1>10 DEF LinkTold, LinkLost, servedVars
  <2>2. CASE LinkTold(l)
    BY <1>7, <2>1, <2>2 DEF LinkTold
  <2>3. CASE LinkLost(l)
    <3>1. up' = [up EXCEPT ![l] = <<>>]
      BY <2>3 DEF LinkLost
    <3>2. \A f : \A k \in Links : In(up'[k], f) => In(up[k], f)
      BY <1>0, <3>1 DEF In
    <3> QED
      BY <1>2, <2>1, <3>2
  <2> QED
    BY <1>10, <2>2, <2>3
<1>11. ASSUME NEW l \in Links, Relay(l) PROVE Ups' /\ Runs' /\ Froms' /\ Tos'
  <2> DEFINE k == LiveHost(hosts)
             e == Head(up[l])
  <2>1. Runs' /\ Froms'
    BY <1>7, <1>11 DEF Relay, servedVars
  <2>2. up[l] # <<>> /\ up' = [up EXCEPT ![l] = Tail(@)]
    BY <1>11 DEF Relay
  <2>3. (\A f : \A i \in Links : In(up'[i], f) => In(up[i], f)) /\ In(up[l], e)
    BY <1>0, <2>2, UpTail
  <2>4. Ups'
    BY <1>2, <2>3
  <2>5. e \in Requests
    BY <1>0, <2>2, HeadOf
  <2>6. toHost' = toHost \/ toHost' = [toHost EXCEPT ![k] = Append(@, e)]
    BY <1>11 DEF Relay
  <2> HIDE DEF k, e
  <2>7. PICK m \in Links, q \in Callers : e = Request(m, q)
    BY <2>5, FrameKinds
  <2>8. Born(m)
    BY <1>1, <2>3, <2>7 DEF Ups
  <2>9. \A n \in Links, p \in Callers : e = Request(n, p) => Born(n)
    BY <1>8, <2>7, <2>8
  <2>10. \A n \in Links : e # Control(n)
    BY <1>8, <2>7
  <2>11. Tos'
    BY <1>6, <1>7, <2>6, <2>9, <2>10
  <2> QED
    BY <2>1, <2>4, <2>11
<1>12. ASSUME NEW l \in Links, ClientClosed(l) PROVE Ups' /\ Runs' /\ Froms' /\ Tos'
  <2> DEFINE k == LiveHost(hosts)
             e == Control(l)
  <2>1. Ups' /\ Runs' /\ Froms'
    BY <1>7, <1>12 DEF ClientClosed, servedVars
  <2>2. client[l] = "ended" /\ (toHost' = toHost \/ toHost' = [toHost EXCEPT ![k] = Append(@, e)])
    BY <1>12 DEF ClientClosed, TellHost
  <2> HIDE DEF k
  <2>3. Tos'
    BY <1>6, <1>7, <1>8, <2>2
  <2> QED
    BY <2>1, <2>3
<1>13. ASSUME NEW h \in Sessions, RelayBack(h) PROVE Ups' /\ Runs' /\ Froms' /\ Tos'
  <2> DEFINE frame == Head(fromHost[h])
  <2>1. Ups' /\ Runs'
    BY <1>7, <1>13 DEF RelayBack, servedVars
  <2>2. fromHost[h] # <<>> /\ fromHost' = [fromHost EXCEPT ![h] = Tail(@)]
    BY <1>13 DEF RelayBack
  <2>3. /\ \A f : \A i \in Sessions : In(fromHost'[i], f) => In(fromHost[i], f)
        /\ In(fromHost[h], frame)
    BY <1>0, <2>2, FromHostTail
  <2>4. Froms'
    BY <1>4, <2>3
  <2>5. frame \in Answers
    BY <1>0, <2>2, HeadOf
  <2>6. CASE frame.link \in clients
    <3>1. toHost' = toHost
      BY <1>13, <2>6 DEF RelayBack
    <3> QED
      BY <1>7, <2>1, <2>4, <3>1
  <2>7. CASE frame.link \notin clients
    <3>1. toHost' = [toHost EXCEPT ![h] = Append(@, Control(frame.link))]
      BY <1>13, <2>7 DEF RelayBack
    <3> HIDE DEF frame
    <3>2. PICK m \in Links, q \in Callers : frame = Answer(m, q)
      BY <2>5, FrameKinds
    <3>3. frame.link = m
      BY <3>2 DEF Answer
    <3>4. Born(m)
      BY <1>1, <2>3, <3>2 DEF Froms
    <3>5. client[m] = "ended"
      BY <1>0, <2>7, <3>3, <3>4 DEF LinkInv, Born, Ends
    <3> DEFINE e == Control(m)
    <3>6. toHost' = [toHost EXCEPT ![h] = Append(@, e)]
      BY <3>1, <3>3
    <3>7. Tos'
      BY <1>6, <1>8, <3>5, <3>6
    <3> QED
      BY <2>1, <2>4, <3>7
  <2> QED
    BY <2>6, <2>7
<1>14. ASSUME NEW h \in Sessions,
              \/ HostClosed(h) \/ GoesStale(h) \/ HostCut(h)
       PROVE  Ups' /\ Runs' /\ Froms' /\ Tos'
  BY <1>7, <1>14 DEF HostClosed, GoesStale, HostCut, servedVars
<1>15. ASSUME NEW h \in Sessions, HostEnds(h) PROVE Ups' /\ Runs' /\ Froms' /\ Tos'
  <2>1. running' = [running EXCEPT ![h] = {}] /\ UNCHANGED <<up, fromHost, toHost>>
    BY <1>15 DEF HostEnds, EndSession
  <2> QED
    BY <1>0, <1>3, <1>7, <2>1
<1>16. ASSUME NEW h \in Sessions, HostJoins(h) PROVE Ups' /\ Runs' /\ Froms' /\ Tos'
  <2>1. /\ toHost' = [toHost EXCEPT ![h] = [i \in 1..Len(queued) |-> NudgeFor(queued[i])]]
        /\ UNCHANGED <<up, fromHost, running>>
    BY <1>16 DEF HostJoins, Replay, servedVars
  <2>2. \A f : \A g \in Sessions :
           In(toHost'[g], f) => In(toHost[g], f) \/ \E i \in 1..Len(queued) : f = NudgeFor(queued[i])
    <3>1. Len(queued) \in Nat
      BY DEF TypeOK
    <3> DEFINE s == [i \in 1..Len(queued) |-> NudgeFor(queued[i])]
    <3>2. Len(s) = Len(queued)
      BY <3>1
    <3>3. \A f : In(s, f) => \E i \in 1..Len(queued) : f = NudgeFor(queued[i])
      BY <3>1, <3>2 DEF In
    <3>4. \A g \in Sessions : toHost'[g] = IF g = h THEN s ELSE toHost[g]
      BY <1>0, <2>1
    <3> HIDE DEF s
    <3> QED
      BY <3>3, <3>4
  <2>3. ASSUME NEW g \in Sessions, NEW m \in Links
        PROVE  /\ \A p \in Callers : In(toHost'[g], Request(m, p)) => In(toHost[g], Request(m, p))
               /\ In(toHost'[g], Control(m)) => In(toHost[g], Control(m))
    <3>1. \A p, c : Request(m, p) # NudgeFor(c) /\ Control(m) # NudgeFor(c)
      BY <1>8
    <3> QED
      BY <2>2, <3>1, Zenon
  <2>4. Tos'
    BY <1>1, <2>3 DEF Tos, Aged
  <2> QED
    BY <1>7, <2>1, <2>4
<1>17. ASSUME NEW h \in Sessions, HandleFrame(h) PROVE Ups' /\ Runs' /\ Froms' /\ Tos'
  <2> DEFINE frame == Head(toHost[h])
  <2>1. Ups' /\ Froms'
    BY <1>7, <1>17 DEF HandleFrame
  <2>2. toHost[h] # <<>> /\ toHost' = [toHost EXCEPT ![h] = Tail(@)]
    BY <1>17 DEF HandleFrame
  <2>3. (\A f : \A i \in Sessions : In(toHost'[i], f) => In(toHost[i], f)) /\ In(toHost[h], frame)
    BY <1>0, <2>2, ToHostTail
  <2>4. Tos'
    BY <1>5, <2>3
  <2>5. frame \in HostFrames
    BY <1>0, <2>2, HeadOf
  <2>6. \/ running' = running
        \/ /\ frame.kind = "request"
           /\ running' = [running EXCEPT ![h] = @ \cup {<<frame.link, frame.of>>}]
        \/ running' = [running EXCEPT ![h] = {r \in @ : r[1] # frame.link}]
    BY <1>17 DEF HandleFrame, servedVars
  <2> HIDE DEF frame
  <2>7. CASE /\ frame.kind = "request"
             /\ running' = [running EXCEPT ![h] = @ \cup {<<frame.link, frame.of>>}]
    <3>1. frame \in Requests
      BY <2>5, <2>7 DEF HostFrames, Controls, Nudges
    <3>2. PICK m \in Links, q \in Callers : frame = Request(m, q)
      BY <3>1, FrameKinds
    <3>3. Born(m) /\ frame.link = m /\ frame.of = q
      BY <1>1, <2>3, <3>2 DEF Tos, Request
    <3>4. \A r : \A g \in Sessions : r \in running'[g] => r \in running[g] \/ r = <<m, q>>
      BY <1>0, <2>7, <3>3
    <3>5. Runs'
      BY <1>1, <3>3, <3>4 DEF Runs, Aged
    <3> QED
      BY <2>1, <2>4, <3>5
  <2>8. CASE running' = [running EXCEPT ![h] = {r \in @ : r[1] # frame.link}]
    <3>1. \A r : \A g \in Sessions : r \in running'[g] => r \in running[g]
      BY <1>0, <2>8
    <3> QED
      BY <1>3, <2>1, <2>4, <3>1
  <2> QED
    BY <1>7, <2>1, <2>4, <2>6, <2>7, <2>8
<1>18. ASSUME NEW h \in Sessions, NEW l \in Links, NEW p \in Callers, Reply(h, l, p)
       PROVE  Ups' /\ Runs' /\ Froms' /\ Tos'
  <2>1. /\ UNCHANGED <<up, toHost>> /\ <<l, p>> \in running[h]
        /\ running' = [running EXCEPT ![h] = @ \ {<<l, p>>}]
        /\ fromHost' = [fromHost EXCEPT ![h] = Append(@, Answer(l, p))]
    BY <1>18 DEF Reply
  <2>2. \A r : \A g \in Sessions : r \in running'[g] => r \in running[g]
    BY <1>0, <2>1
  <2>3. Born(l)
    BY <1>1, <2>1 DEF Runs
  <2>4. \A f : \A g \in Sessions : In(fromHost'[g], f) => In(fromHost[g], f) \/ f = Answer(l, p)
    BY <1>0, <2>1, FromHostAppend
  <2>5. Froms'
    BY <1>1, <1>8, <2>3, <2>4 DEF Froms, Aged
  <2> QED
    BY <1>3, <1>7, <2>1, <2>2, <2>5
<1>19. ASSUME NEW c \in Chats, Nudge(c) PROVE Ups' /\ Runs' /\ Froms' /\ Tos'
  <2> DEFINE k == LiveHost(hosts)
             e == NudgeFor(c)
  <2>1. /\ UNCHANGED <<up, running, fromHost>>
        /\ toHost' = toHost \/ toHost' = [toHost EXCEPT ![k] = Append(@, e)]
    BY <1>19 DEF Nudge, servedVars
  <2>2. /\ \A n \in Links, p \in Callers : e # Request(n, p)
        /\ \A n \in Links : e # Control(n)
    BY <1>8
  <2> HIDE DEF k, e
  <2>3. Tos'
    BY <1>6, <1>7, <2>1, <2>2
  <2> QED
    BY <1>7, <2>1, <2>3
<1>20. ASSUME CooldownEnds \/ Wake \/ UNCHANGED vars PROVE Ups' /\ Runs' /\ Froms' /\ Tos'
  BY <1>7, <1>20 DEF CooldownEnds, Wake, vars, servedVars
<1>21. ASSUME RoomRestarts PROVE Ups' /\ Runs' /\ Froms' /\ Tos'
  <2>1. /\ up' = [l \in Links |-> <<>>] /\ running' = [h \in Sessions |-> {}]
        /\ UNCHANGED <<toHost, fromHost>>
    BY <1>21 DEF RoomRestarts
  <2>2. \A f : \A l \in Links : ~In(up'[l], f)
    BY <2>1 DEF In
  <2> QED
    BY <1>2, <1>3, <1>7, <2>1, <2>2
<1>22. Ups' /\ Runs' /\ Froms' /\ Tos'
  BY <1>9, <1>10, <1>11, <1>12, <1>13, <1>14, <1>15, <1>16, <1>17, <1>18, <1>19, <1>20, <1>21 DEF Next
<1> QED
  BY <1>22 DEF FramesBorn, Ups, Runs, Froms, Tos

-----------------------------------------------------------------------------
(* Calls that wait *)

(* A step keeps what will end a call if it leaves it where it is.           *)
LEMMA KeepsEnd ==
    ASSUME NEW p \in Callers, NEW l, NEW h, EndsCall(p, l), routed[p] = h, routed'[p] = h,
           client[l] = "ended" => client'[l] = "ended",
           In(up[l], Request(l, p)) => In(up'[l], Request(l, p)),
           In(down[l], Answer(l, p)) => In(down'[l], Answer(l, p)),
           In(down[l], Control(l)) => In(down'[l], Control(l)),
           cut \subseteq cut', untold \subseteq untold',
           Has(h, l, p) => EndsCall(p, l)' \/ Has(h, l, p)'
    PROVE  EndsCall(p, l)'
BY DEF EndsCall

LEMMA NextAttended ==
    ASSUME RelayAssumption, TypeOK, HostsBounded, SessionInv, LinkInv, FramesBorn, Aged,
           CallsAttended, [Next]_vars
    PROVE  CallsAttended'
<1> DEFINE hostSide == <<hostVars, toHost, fromHost, servedVars>>
           linkSide == <<client, up, down>>
           callSide == <<pc, mine, routed>>
<1>0. /\ up \in [Links -> Seq(Requests)] /\ down \in [Links -> Seq(Answers \cup Controls)]
      /\ toHost \in [Sessions -> Seq(HostFrames)] /\ fromHost \in [Sessions -> Seq(Answers)]
      /\ client \in [Links -> Ends] /\ host \in [Sessions -> Ends]
      /\ running \in [Sessions -> SUBSET (Links \X Callers)]
      /\ pc \in [Callers -> CallerSteps] /\ mine \in [Callers -> Links \cup {NoLink}]
      /\ routed \in [Callers -> Sessions \cup {NoSession}]
      /\ hosts \subseteq Sessions /\ NoSession \notin Sessions /\ LinkOK
  BY TypeParts DEF TypeOK, HostFrames, RelayAssumption, LinkOK
<1>1. ASSUME NEW p \in Callers, pc[p] = "call"
      PROVE  /\ EndsCall(p, mine[p]) /\ mine[p] \in Links
             /\ client[mine[p]] # "unborn"
             /\ client[mine[p]] = "ended" => client'[mine[p]] = "ended"
  BY <1>1 DEF CallsAttended, LinkInv, Born, Aged
<1>2. ASSUME UNCHANGED hostSide, NEW h, NEW l, NEW p, Has(h, l, p) PROVE Has(h, l, p)'
  BY <1>2 DEF Has, hostVars, servedVars
<1>3. ASSUME UNCHANGED callSide,
             \A p \in Callers : pc[p] = "call" => EndsCall(p, mine[p])'
      PROVE  CallsAttended'
  BY <1>3 DEF CallsAttended
(* A step of caller q. *)
<1>4. ASSUME NEW q \in Callers, Ask(q) \/ Cache(q) \/ Call(q) PROVE CallsAttended'
  <2>1. UNCHANGED hostSide
    BY <1>4 DEF Ask, Cache, Lock, Dial, DialFails, ProbeAnswered, ProbeFails, Call, Send,
       CallAnswered, CallFails, Invalidate
  <2>2. ASSUME NEW p \in Callers, p # q
        PROVE  pc'[p] = pc[p] /\ mine'[p] = mine[p] /\ routed'[p] = routed[p]
    BY <1>0, <1>4, <2>2 DEF Ask, Cache, Lock, Dial, DialFails, ProbeAnswered, ProbeFails, Exhausts,
       Call, Send, CallAnswered, CallFails, Invalidate
  <2>3. pc'[q] = "call" => Send(q)
    BY <1>0, <1>4 DEF Ask, Cache, Lock, Dial, DialFails, ProbeAnswered, ProbeFails, Exhausts, Call,
       CallAnswered, CallFails, Invalidate
  <2>4. ASSUME NEW p \in Callers, p # q, pc[p] = "call", NEW l, l = mine[p],
               In(up[l], Request(l, p)) => In(up'[l], Request(l, p)),
               In(down[l], Answer(l, p)) => In(down'[l], Answer(l, p)),
               In(down[l], Control(l)) => In(down'[l], Control(l))
        PROVE  EndsCall(p, l)'
    <3>0. PICK h : h = routed[p]
      OBVIOUS
    <3>1. /\ routed'[p] = h /\ routed[p] = h /\ EndsCall(p, l)
          /\ client[l] = "ended" => client'[l] = "ended"
      BY <1>1, <2>2, <2>4, <3>0
    <3>2. Has(h, l, p) => Has(h, l, p)'
      BY <1>2, <2>1
    <3>3. cut \subseteq cut' /\ untold \subseteq untold'
      BY <2>1 DEF hostVars
    <3> QED
      BY <2>4, <3>1, <3>2, <3>3, KeepsEnd
  <2>5. ASSUME NEW p \in Callers, p # q, pc[p] = "call", NEW l, l = mine[p]
        PROVE  EndsCall(p, l)'
    <3>0. l \in Links /\ client[l] # "unborn"
      BY <1>1, <2>5
    <3>1. CASE UNCHANGED linkSide
      BY <2>4, <2>5, <3>1
    <3>2. CASE Ask(q) \/ Lock(q) \/ DialFails(q) \/ CallFails(q)
      BY <3>1, <3>2 DEF Ask, Lock, DialFails, CallFails
    <3>3. ASSUME NEW m \in Links, Dial(q, m) PROVE EndsCall(p, l)'
      <4>1. m # l /\ up' = [up EXCEPT ![m] = <<Request(m, q)>>] /\ UNCHANGED down
        BY <3>0, <3>3 DEF Dial
      <4>2. up'[l] = up[l]
        BY <1>0, <3>0, <4>1
      <4> QED
        BY <2>4, <2>5, <4>1, <4>2
    <3>4. ASSUME NEW ls, DropLinks(ls), UNCHANGED up PROVE EndsCall(p, l)'
      <4>1. CASE l \in ls
        <5>1. client'[l] = "ended"
          BY <1>0, <3>0, <3>4, <4>1, DropEnds DEF Ends
        <5> QED
          BY <5>1 DEF EndsCall
      <4>2. CASE l \notin ls
        <5>1. down'[l] = down[l]
          BY <1>0, <3>0, <3>4, <4>2, DropEnds
        <5> QED
          BY <2>4, <2>5, <3>4, <5>1
      <4> QED
        BY <4>1, <4>2
    <3>5. CASE ProbeFails(q) \/ Invalidate(q)
      BY <3>4, <3>5 DEF ProbeFails, Invalidate
    <3>6. CASE ProbeAnswered(q) \/ CallAnswered(q)
      <4> DEFINE m == mine[q]
      <4>1. /\ m \in Links /\ down[m] # <<>> /\ Head(down[m]) = Answer(m, q)
            /\ down' = [down EXCEPT ![m] = Tail(@)] /\ UNCHANGED up
        BY <1>0, <3>6 DEF ProbeAnswered, CallAnswered, Answered
      <4> HIDE DEF m
      <4>2. \A f : In(down[l], f) => In(down'[l], f) \/ f = Answer(m, q)
        BY <1>0, <3>0, <4>1, DownTail
      <4>3. Answer(l, p) # Answer(m, q) /\ Control(l) # Answer(m, q)
        BY <2>5 DEF Answer, Control
      <4>4. up' = up
        BY <4>1
      <4> QED
        BY <2>4, <2>5, <4>2, <4>3, <4>4
    <3>7. CASE Send(q)
      <4> DEFINE m == mine[q]
      <4>1. UNCHANGED down /\ (up' = up \/ up' = [up EXCEPT ![m] = Append(@, Request(m, q))])
        BY <3>7 DEF Send
      <4> HIDE DEF m
      <4>2. \A f : In(up[l], f) => In(up'[l], f)
        <5>1. CASE up' = up
          BY <5>1
        <5>2. CASE up' = [up EXCEPT ![m] = Append(@, Request(m, q))]
          <6> DEFINE e == Request(m, q)
          <6> HIDE DEF e
          <6> QED
            BY <1>0, <3>0, <5>2, UpAppend DEF e
        <5> QED
          BY <4>1, <5>1, <5>2
      <4> QED
        BY <2>4, <2>5, <4>1, <4>2
    <3> QED
      BY <1>4, <3>2, <3>3, <3>5, <3>6, <3>7 DEF Cache, Call
  <2>6. ASSUME Send(q), pc'[q] = "call" PROVE EndsCall(q, mine[q])' /\ mine'[q] = mine[q]
    <3> DEFINE l == mine[q]
               e == Request(l, q)
    <3>1. pc[q] = "send" /\ mine' = mine
      BY <2>6 DEF Send
    <3>2. l \in Links
      BY <3>1 DEF LinkInv
    <3>3. up' = [up EXCEPT ![l] = Append(@, e)]
      BY <1>0, <2>6, <3>1 DEF Send
    <3>4. \A f : In(up'[l], f) <=> In(up[l], f) \/ f = e
      <4> HIDE DEF l, e
      <4> QED
        BY <1>0, <3>2, <3>3, UpAppend
    <3>5. In(up'[l], e)
      BY <3>4
    <3> QED
      BY <3>1, <3>5 DEF EndsCall
  <2> SUFFICES ASSUME NEW p \in Callers, pc'[p] = "call" PROVE EndsCall(p, mine[p])'
    BY DEF CallsAttended
  <2>7. CASE p = q
    BY <2>3, <2>6, <2>7
  <2>8. CASE p # q
    <3>1. PICK l : l = mine[p]
      OBVIOUS
    <3>2. EndsCall(p, l)' /\ mine'[p] = l
      BY <2>2, <2>5, <2>8, <3>1
    <3> QED
      BY <3>2 DEF EndsCall
  <2> QED
    BY <2>7, <2>8
(* The other steps leave callers where they are. *)
<1>5. ASSUME UNCHANGED <<pc, mine>>,
             \A p \in Callers, l \in Links : pc[p] = "call" /\ l = mine[p] => EndsCall(p, l)'
      PROVE  CallsAttended'
  <2> SUFFICES ASSUME NEW p \in Callers, pc'[p] = "call" PROVE EndsCall(p, mine[p])'
    BY DEF CallsAttended
  <2>1. PICK l : l = mine[p]
    OBVIOUS
  <2>2. pc[p] = "call" /\ mine'[p] = l /\ l \in Links
    BY <1>1, <1>5, <2>1
  <2>3. EndsCall(p, l)'
    BY <1>5, <2>1, <2>2
  <2> QED
    BY <2>2, <2>3 DEF EndsCall
<1>6. ASSUME NEW p \in Callers, NEW l \in Links, pc[p] = "call", l = mine[p], NEW h, h = routed[p],
             UNCHANGED <<up, routed>>, \A f : In(down[l], f) => In(down'[l], f),
             cut \subseteq cut', untold \subseteq untold',
             Has(h, l, p) => EndsCall(p, l)' \/ Has(h, l, p)'
      PROVE  EndsCall(p, l)'
  <2>1. /\ EndsCall(p, l) /\ (client[l] = "ended" => client'[l] = "ended")
        /\ routed[p] = h /\ routed'[p] = h /\ up'[l] = up[l]
    BY <1>1, <1>6
  <2> QED
    BY <1>6, <2>1, KeepsEnd
<1>7. ASSUME NEW p \in Callers, NEW l \in Links, pc[p] = "call", l = mine[p], NEW ls, DropLinks(ls),
             UNCHANGED hostSide, UNCHANGED routed, l \notin ls => up'[l] = up[l]
      PROVE  EndsCall(p, l)'
  <2>0. client[l] # "unborn"
    BY <1>1, <1>7
  <2>1. CASE l \in ls
    <3>1. client'[l] = "ended"
      BY <1>0, <1>7, <2>0, <2>1, DropEnds DEF Ends
    <3> QED
      BY <3>1 DEF EndsCall
  <2>2. CASE l \notin ls
    <3>1. down'[l] = down[l] /\ up'[l] = up[l]
      BY <1>0, <1>7, <2>2, DropEnds
    <3>2. PICK h : h = routed[p]
      OBVIOUS
    <3>3. cut \subseteq cut' /\ untold \subseteq untold'
      BY <1>7 DEF hostVars
    <3>4. Has(h, l, p) => Has(h, l, p)'
      BY <1>2, <1>7
    <3>5. routed[p] = h /\ routed'[p] = h
      BY <1>7, <3>2
    <3> QED
      BY <1>1, <1>7, <3>1, <3>3, <3>4, <3>5, KeepsEnd
  <2> QED
    BY <2>1, <2>2
<1> HIDE DEF hostSide
<1>8. ASSUME NEW m \in Links, LinkTold(m) \/ LinkLost(m) PROVE CallsAttended'
  <2>1. /\ DropLinks({m}) /\ UNCHANGED hostSide /\ UNCHANGED routed /\ UNCHANGED <<pc, mine>>
        /\ \A l \in Links : l \notin {m} => up'[l] = up[l]
    BY <1>0, <1>8 DEF LinkTold, LinkLost, hostSide, callerVars
  <2> QED
    BY <1>5, <1>7, <2>1
<1>9. ASSUME Wake PROVE CallsAttended'
  <2>1. /\ DropLinks({cached}) /\ UNCHANGED hostSide /\ UNCHANGED routed /\ UNCHANGED <<pc, mine>>
        /\ UNCHANGED up
    BY <1>9 DEF Wake, hostSide
  <2>2. PICK ls : ls = {cached}
    OBVIOUS
  <2>3. DropLinks(ls) /\ \A l \in Links : l \notin ls => up'[l] = up[l]
    BY <2>1, <2>2
  <2> QED
    BY <1>5, <1>7, <2>1, <2>3
<1>10. ASSUME CooldownEnds \/ UNCHANGED vars PROVE CallsAttended'
  <2>1. UNCHANGED callSide /\ UNCHANGED linkSide /\ UNCHANGED hostSide
    BY <1>10 DEF CooldownEnds, vars, hostSide, hostVars, servedVars
  <2> QED
    BY <2>1 DEF CallsAttended, EndsCall, Has, hostSide, hostVars, servedVars
<1>11. ASSUME NEW m \in Links, Relay(m) PROVE CallsAttended'
  <2> DEFINE k == LiveHost(hosts)
             e == Head(up[m])
  <2>1. /\ up[m] # <<>> /\ up' = [up EXCEPT ![m] = Tail(@)]
        /\ UNCHANGED <<pc, mine, client, host, hosts, cut, untold, running, fromHost>>
    BY <1>11 DEF Relay, callerVars, hostVars, servedVars
  <2>2. \A f : \A l \in Links : In(up[l], f) => In(up'[l], f) \/ (l = m /\ f = e)
    BY <1>0, <2>1, UpTail
  <2>3. k = NoSession \/ k \in hosts
    BY LiveHostOf
  <2>4. CASE k = NoSession
    <3>1. /\ down' = IF client[m] = "up" THEN [down EXCEPT ![m] = Append(@, Control(m))] ELSE down
          /\ UNCHANGED <<toHost, routed>>
      BY <1>11, <2>4 DEF Relay
    <3> DEFINE c == Control(m)
    <3>2. \A f : \A l \in Links : In(down[l], f) => In(down'[l], f)
      <4>1. CASE down' = [down EXCEPT ![m] = Append(@, c)]
        <5> HIDE DEF c
        <5> QED
          BY <1>0, <4>1, DownAppend
      <4> QED
        BY <3>1, <4>1
    <3>3. client[m] = "up" => In(down'[m], Control(m))
      <4>1. CASE down' = [down EXCEPT ![m] = Append(@, c)]
        <5> HIDE DEF c
        <5>1. In(down'[m], c)
          BY <1>0, <4>1, DownAppend
        <5> QED
          BY <5>1 DEF c
      <4> QED
        BY <3>1, <4>1
    <3>4. ASSUME NEW p \in Callers, NEW l \in Links, pc[p] = "call", l = mine[p]
          PROVE  EndsCall(p, l)'
      <4>1. CASE In(up[l], Request(l, p)) => In(up'[l], Request(l, p))
        <5>1. PICK h : h = routed[p]
          OBVIOUS
        <5>2. Has(h, l, p) => Has(h, l, p)'
          BY <2>1, <3>1 DEF Has
        <5>3. /\ EndsCall(p, l) /\ (client[l] = "ended" => client'[l] = "ended")
              /\ routed[p] = h /\ routed'[p] = h
          BY <1>1, <3>1, <3>4, <5>1
        <5>4. cut \subseteq cut' /\ untold \subseteq untold'
          BY <2>1
        <5> QED
          BY <3>2, <4>1, <5>2, <5>3, <5>4, KeepsEnd
      <4>2. CASE l = m
        <5>1. client'[l] = client[l] /\ client[l] \in {"up", "ended"}
          <6>1. l \in Links /\ client[l] # "unborn"
            BY <1>1, <3>4
          <6>2. client[l] \in Ends
            BY <1>0, <6>1
          <6> QED
            BY <2>1, <6>1, <6>2 DEF Ends
        <5>2. client[l] = "up" => In(down'[l], Control(l))
          BY <3>3, <4>2
        <5> HIDE DEF c, e, k
        <5> QED
          BY <5>1, <5>2 DEF EndsCall
      <4> QED
        BY <2>2, <4>1, <4>2
    <3> QED
      BY <1>5, <2>1, <3>4
  <2>5. CASE k # NoSession
    <3>1. /\ toHost' = [toHost EXCEPT ![k] = Append(@, e)] /\ UNCHANGED down
          /\ routed' = [p \in Callers |-> IF e = Request(mine[p], p) THEN k ELSE routed[p]]
      BY <1>11, <2>5 DEF Relay
    <3>2. k \in hosts /\ k \in Sessions
      BY <1>0, <2>3, <2>5
    <3> HIDE DEF k, e
    <3>3. \A f : \A h \in Sessions : In(toHost'[h], f) <=> In(toHost[h], f) \/ (h = k /\ f = e)
      BY <1>0, <3>1, ToHostAppend
    <3>4. ASSUME NEW p \in Callers, NEW l \in Links, pc[p] = "call", l = mine[p]
          PROVE  EndsCall(p, l)'
      <4>1. CASE e = Request(l, p)
        <5>1. routed'[p] = k
          BY <3>1, <3>4, <4>1
        <5>2. In(toHost'[k], Request(l, p))
          BY <3>2, <3>3, <4>1
        <5> QED
          BY <2>1, <3>2, <5>1, <5>2 DEF EndsCall, Has
      <4>2. CASE e # Request(l, p)
        <5>1. PICK h : h = routed[p]
          OBVIOUS
        <5>2. Has(h, l, p) => Has(h, l, p)'
          BY <1>0, <2>1, <3>3 DEF Has
        <5>3. /\ EndsCall(p, l) /\ (client[l] = "ended" => client'[l] = "ended")
              /\ routed[p] = h /\ routed'[p] = h
          BY <1>1, <3>1, <3>4, <4>2, <5>1
        <5>4. /\ cut \subseteq cut' /\ untold \subseteq untold' /\ down'[l] = down[l]
              /\ In(up[l], Request(l, p)) => In(up'[l], Request(l, p))
          BY <2>1, <2>2, <3>1, <4>2
        <5> QED
          BY <5>2, <5>3, <5>4, KeepsEnd
      <4> QED
        BY <4>1, <4>2
    <3> QED
      BY <1>5, <2>1, <3>4
  <2> QED
    BY <2>4, <2>5
<1>12. ASSUME NEW k, NEW e,
              toHost' = toHost \/ toHost' = [toHost EXCEPT ![k] = Append(@, e)],
              UNCHANGED <<pc, mine, routed, up, down, host, hosts, cut, untold, running, fromHost>>
       PROVE  CallsAttended'
  <2>1. \A f : \A h \in Sessions : In(toHost[h], f) => In(toHost'[h], f)
    <3>1. CASE toHost' = [toHost EXCEPT ![k] = Append(@, e)]
      BY <1>0, <3>1, ToHostAppend
    <3> QED
      BY <1>12, <3>1
  <2>2. ASSUME NEW p \in Callers, NEW l \in Links, pc[p] = "call", l = mine[p]
        PROVE  EndsCall(p, l)'
    <3>1. PICK h : h = routed[p]
      OBVIOUS
    <3>2. Has(h, l, p) => Has(h, l, p)'
      BY <1>0, <1>12, <2>1 DEF Has
    <3>3. cut \subseteq cut' /\ untold \subseteq untold' /\ \A f : In(down[l], f) => In(down'[l], f)
      BY <1>12
    <3>4. UNCHANGED <<up, routed>>
      BY <1>12
    <3> QED
      BY <1>6, <2>2, <3>1, <3>2, <3>3, <3>4
  <2> QED
    BY <1>5, <1>12, <2>2
<1>13. ASSUME NEW m \in Links, ClientClosed(m) PROVE CallsAttended'
  <2> DEFINE k == LiveHost(hosts)
             e == Control(m)
  <2>1. /\ toHost' = toHost \/ toHost' = [toHost EXCEPT ![k] = Append(@, e)]
        /\ UNCHANGED <<pc, mine, routed, up, down, host, hosts, cut, untold, running, fromHost>>
    BY <1>13 DEF ClientClosed, TellHost, callerVars, hostVars, servedVars
  <2> HIDE DEF k, e
  <2> QED
    BY <1>12, <2>1
<1>14. ASSUME NEW c \in Chats, Nudge(c) PROVE CallsAttended'
  <2> DEFINE k == LiveHost(hosts)
             e == NudgeFor(c)
  <2>1. /\ toHost' = toHost \/ toHost' = [toHost EXCEPT ![k] = Append(@, e)]
        /\ UNCHANGED <<pc, mine, routed, up, down, host, hosts, cut, untold, running, fromHost>>
    BY <1>14 DEF Nudge, callerVars, hostVars, servedVars
  <2> HIDE DEF k, e
  <2> QED
    BY <1>12, <2>1
<1>15. ASSUME NEW k \in Sessions, RelayBack(k) PROVE CallsAttended'
  <2> DEFINE frame == Head(fromHost[k])
  <2>1. /\ fromHost[k] # <<>> /\ fromHost' = [fromHost EXCEPT ![k] = Tail(@)]
        /\ UNCHANGED <<pc, mine, routed, up, client, host, hosts, cut, untold, running>>
    BY <1>15 DEF RelayBack, callerVars, hostVars, servedVars
  <2>2. frame \in Answers
    BY <1>0, <2>1, HeadOf
  <2>3. PICK n \in Links, q \in Callers : frame = Answer(n, q)
    BY <2>2, FrameKinds
  <2>4. frame.link = n
    BY <2>3 DEF Answer
  <2>5. /\ n \in clients => UNCHANGED toHost
        /\ n \in clients /\ client[n] = "up" => down' = [down EXCEPT ![n] = Append(@, frame)]
        /\ n \in clients /\ client[n] # "up" => UNCHANGED down
        /\ n \notin clients =>
              toHost' = [toHost EXCEPT ![k] = Append(@, Control(n))] /\ UNCHANGED down
    BY <1>15, <2>4 DEF RelayBack
  <2>6. \A f : \A h \in Sessions : In(fromHost[h], f) => In(fromHost'[h], f) \/ (h = k /\ f = frame)
    BY <1>0, <2>1, FromHostTail
  <2> HIDE DEF frame
  <2>7. \A f : \A l \in Links : In(down[l], f) => In(down'[l], f)
    <3>1. CASE down' = [down EXCEPT ![n] = Append(@, frame)]
      BY <1>0, <3>1, DownAppend
    <3> QED
      BY <2>5, <3>1
  <2>8. \A f : \A h \in Sessions : In(toHost[h], f) => In(toHost'[h], f)
    <3> DEFINE e == Control(n)
    <3>1. CASE toHost' = [toHost EXCEPT ![k] = Append(@, e)]
      <4> HIDE DEF e
      <4> QED
        BY <1>0, <3>1, ToHostAppend
    <3> QED
      BY <2>5, <3>1
  <2>9. n \in clients /\ client[n] = "up" => In(down'[n], frame)
    <3>1. CASE down' = [down EXCEPT ![n] = Append(@, frame)]
      BY <1>0, <3>1, DownAppend
    <3> QED
      BY <2>5, <3>1
  <2>10. ASSUME NEW p \in Callers, NEW l \in Links, pc[p] = "call", l = mine[p]
         PROVE  EndsCall(p, l)'
    <3>1. PICK h : h = routed[p]
      OBVIOUS
    <3>2. CASE frame = Answer(l, p)
      <4>1. n = l
        BY <2>3, <3>2 DEF Answer
      <4>2. client'[l] = "ended" \/ In(down'[l], Answer(l, p))
        BY <1>0, <1>1, <2>1, <2>9, <2>10, <3>2, <4>1 DEF LinkInv, Ends
      <4> QED
        BY <4>2 DEF EndsCall
    <3>3. CASE frame # Answer(l, p)
      <4>1. Has(h, l, p) => Has(h, l, p)'
        BY <1>0, <2>1, <2>6, <2>8, <3>3 DEF Has
      <4>2. UNCHANGED <<up, routed>> /\ cut \subseteq cut' /\ untold \subseteq untold'
        BY <2>1
      <4> QED
        BY <1>6, <2>7, <2>10, <3>1, <4>1, <4>2
    <3> QED
      BY <3>2, <3>3
  <2> QED
    BY <1>5, <2>1, <2>10
<1>16. ASSUME NEW k \in Sessions, HostClosed(k) PROVE CallsAttended'
  <2>1. /\ hosts' = hosts \ {k} /\ down' = Broadcast(k)
        /\ untold' = IF LiveHost(hosts \ {k}) = NoSession THEN untold ELSE untold \cup {k}
        /\ UNCHANGED <<pc, mine, routed, up, client, clients, host, cut, toHost, fromHost, running>>
    BY <1>16 DEF HostClosed, callerVars, servedVars
  <2>2. ASSUME NEW l \in Links
        PROVE  /\ \A f : In(down[l], f) => In(down'[l], f)
               /\ LiveHost(hosts \ {k}) = NoSession /\ l \in clients /\ client[l] = "up"
                  => In(down'[l], Control(l))
    <3>1. down'[l] = down[l] \/ down'[l] = Append(down[l], Control(l))
      BY <1>0, <2>1 DEF Broadcast
    <3>2. LiveHost(hosts \ {k}) = NoSession /\ l \in clients /\ client[l] = "up"
          => down'[l] = Append(down[l], Control(l))
      BY <1>0, <2>1 DEF Broadcast
    <3>3. \A f : In(Append(down[l], Control(l)), f) <=> In(down[l], f) \/ f = Control(l)
      BY <1>0, InAppend
    <3> QED
      BY <3>1, <3>2, <3>3
  <2>3. ASSUME NEW p \in Callers, NEW l \in Links, pc[p] = "call", l = mine[p]
        PROVE  EndsCall(p, l)'
    <3>1. PICK h : h = routed[p]
      OBVIOUS
    <3>2. CASE h = k
      <4>1. CASE LiveHost(hosts \ {k}) = NoSession
        <5>1. client'[l] = "ended" \/ In(down'[l], Control(l))
          BY <1>0, <1>1, <2>1, <2>2, <2>3, <4>1 DEF LinkInv, Ends
        <5> QED
          BY <5>1 DEF EndsCall
      <4>2. CASE LiveHost(hosts \ {k}) # NoSession
        <5>1. routed'[p] \in untold'
          BY <2>1, <3>1, <3>2, <4>2
        <5> QED
          BY <5>1 DEF EndsCall
      <4> QED
        BY <4>1, <4>2
    <3>3. CASE h # k
      <4>1. Has(h, l, p) => Has(h, l, p)'
        BY <2>1, <3>3 DEF Has
      <4>2. /\ UNCHANGED <<up, routed>> /\ cut \subseteq cut' /\ untold \subseteq untold'
            /\ \A f : In(down[l], f) => In(down'[l], f)
        BY <2>1, <2>2
      <4> QED
        BY <1>6, <2>3, <3>1, <4>1, <4>2
    <3> QED
      BY <3>2, <3>3
  <2> QED
    BY <1>5, <2>1, <2>3
<1>17. ASSUME UNCHANGED <<pc, mine, routed, up, down>>,
              cut \subseteq cut', untold \subseteq untold',
              \A h : \A p \in Callers, l \in Links : Has(h, l, p) => Has(h, l, p)'
       PROVE  CallsAttended'
  <2>1. ASSUME NEW p \in Callers, NEW l \in Links, pc[p] = "call", l = mine[p]
        PROVE  EndsCall(p, l)'
    <3>1. PICK h : h = routed[p]
      OBVIOUS
    <3>2. Has(h, l, p) => Has(h, l, p)'
      BY <1>17
    <3>3. UNCHANGED <<up, routed>> /\ \A f : In(down[l], f) => In(down'[l], f)
      BY <1>17
    <3> QED
      BY <1>6, <1>17, <2>1, <3>1, <3>2, <3>3
  <2> QED
    BY <1>5, <1>17, <2>1
<1>18. ASSUME NEW k \in Sessions, GoesStale(k) \/ HostCut(k) PROVE CallsAttended'
  <2>1. /\ UNCHANGED <<pc, mine, routed, up, down, host, hosts, untold, toHost, fromHost, running>>
        /\ cut \subseteq cut'
    BY <1>18 DEF GoesStale, HostCut, callerVars, servedVars
  <2>2. \A h : \A p \in Callers, l \in Links : Has(h, l, p) => Has(h, l, p)'
    BY <2>1 DEF Has
  <2> QED
    BY <1>17, <2>1, <2>2
<1>19. ASSUME NEW k \in Sessions, HostEnds(k) PROVE CallsAttended'
  <2>1. /\ UNCHANGED <<pc, mine, routed, up, down, hosts, cut, untold, toHost, fromHost>>
        /\ host' = [host EXCEPT ![k] = "ended"] /\ running' = [running EXCEPT ![k] = {}]
    BY <1>19 DEF HostEnds, EndSession, callerVars
  <2>2. ASSUME NEW p \in Callers, NEW l \in Links, NEW h, Has(h, l, p) PROVE Has(h, l, p)'
    <3>1. h \in Sessions
      BY <1>0, <2>2 DEF Has
    <3>2. CASE h = k
      BY <1>0, <2>1, <2>2, <3>1, <3>2 DEF Has
    <3>3. CASE h # k
      <4>1. host'[h] = host[h] /\ running'[h] = running[h]
        BY <1>0, <2>1, <3>1, <3>3
      <4> QED
        BY <2>1, <2>2, <4>1 DEF Has
    <3> QED
      BY <3>2, <3>3
  <2> QED
    BY <1>17, <2>1, <2>2
<1>20. ASSUME NEW k \in Sessions, HostJoins(k) PROVE CallsAttended'
  <2>1. /\ UNCHANGED <<pc, mine, routed, up, down, cut, untold, fromHost, running>>
        /\ host[k] = "unborn" /\ host' = [host EXCEPT ![k] = "up"] /\ hosts' = hosts \cup {k}
        /\ toHost' = [toHost EXCEPT ![k] = [i \in 1..Len(queued) |-> NudgeFor(queued[i])]]
    BY <1>20 DEF HostJoins, Replay, callerVars, servedVars
  <2>2. ASSUME NEW p \in Callers, NEW l \in Links, NEW h, Has(h, l, p) PROVE Has(h, l, p)'
    <3>1. h \in Sessions /\ h \in hosts /\ h # k
      BY <1>0, <2>1, <2>2 DEF Has, SessionInv
    <3>2. host'[h] = host[h] /\ toHost'[h] = toHost[h]
      BY <1>0, <2>1, <3>1
    <3> QED
      BY <2>1, <2>2, <3>2 DEF Has
  <2> QED
    BY <1>17, <2>1, <2>2
<1>21. ASSUME NEW k \in Sessions, NEW n \in Links, NEW q \in Callers, Reply(k, n, q)
       PROVE  CallsAttended'
  <2> DEFINE e == Answer(n, q)
  <2>1. /\ UNCHANGED <<pc, mine, routed, up, down, host, hosts, cut, untold, toHost>>
        /\ running' = [running EXCEPT ![k] = @ \ {<<n, q>>}]
        /\ fromHost' = [fromHost EXCEPT ![k] = Append(@, e)]
    BY <1>21 DEF Reply, callerVars, hostVars
  <2>2. \A f : \A h \in Sessions : In(fromHost'[h], f) <=> In(fromHost[h], f) \/ (h = k /\ f = e)
    <3> HIDE DEF e
    <3> QED
      BY <1>0, <2>1, FromHostAppend
  <2>3. ASSUME NEW p \in Callers, NEW l \in Links, NEW h, Has(h, l, p) PROVE Has(h, l, p)'
    <3>1. h \in Sessions
      BY <1>0, <2>3 DEF Has
    <3>2. CASE h = k /\ l = n /\ p = q
      <4>1. In(fromHost'[h], Answer(l, p))
        BY <2>2, <3>1, <3>2
      <4> QED
        BY <2>1, <2>3, <4>1 DEF Has
    <3>3. CASE ~(h = k /\ l = n /\ p = q)
      <4>1. <<l, p>> \in running[h] => <<l, p>> \in running'[h]
        BY <1>0, <2>1, <3>1, <3>3
      <4>2. In(fromHost[h], Answer(l, p)) => In(fromHost'[h], Answer(l, p))
        BY <2>2, <3>1
      <4> QED
        BY <2>1, <2>3, <4>1, <4>2 DEF Has
    <3> QED
      BY <3>2, <3>3
  <2>4. cut \subseteq cut' /\ untold \subseteq untold'
    BY <2>1
  <2> QED
    BY <1>17, <2>1, <2>3, <2>4
<1>22. ASSUME NEW k \in Sessions, HandleFrame(k) PROVE CallsAttended'
  <2> DEFINE frame == Head(toHost[k])
  <2>1. /\ toHost[k] # <<>> /\ toHost' = [toHost EXCEPT ![k] = Tail(@)]
        /\ UNCHANGED <<pc, mine, routed, up, down, client, host, hosts, cut, untold, fromHost>>
    BY <1>22 DEF HandleFrame, callerVars, hostVars
  <2>2. /\ \A f : \A h \in Sessions : In(toHost[h], f) => In(toHost'[h], f) \/ (h = k /\ f = frame)
        /\ In(toHost[k], frame)
    BY <1>0, <2>1, ToHostTail
  <2>3. /\ frame.kind = "request"
           => running' = [running EXCEPT ![k] = @ \cup {<<frame.link, frame.of>>}]
        /\ frame.kind = "relay" => running' = [running EXCEPT ![k] = {r \in @ : r[1] # frame.link}]
        /\ frame.kind \notin {"request", "relay"} => UNCHANGED running
    BY <1>22 DEF HandleFrame, servedVars
  <2>4. frame \in HostFrames
    BY <1>0, <2>1, HeadOf
  <2> HIDE DEF frame
  <2>5. ASSUME NEW p \in Callers, NEW l \in Links, pc[p] = "call", l = mine[p], NEW h, Has(h, l, p)
        PROVE  EndsCall(p, l)' \/ Has(h, l, p)'
    <3>1. h \in Sessions
      BY <1>0, <2>5 DEF Has
    <3>2. CASE h # k
      <4>1. running'[h] = running[h] /\ toHost'[h] = toHost[h]
        BY <1>0, <2>1, <2>3, <3>1, <3>2
      <4> QED
        BY <2>1, <2>5, <4>1 DEF Has
    <3>3. CASE h = k /\ frame = Request(l, p)
      <4>1. frame.kind = "request" /\ frame.link = l /\ frame.of = p
        BY <3>3 DEF Request
      <4>2. <<l, p>> \in running'[h]
        BY <1>0, <2>3, <3>1, <3>3, <4>1
      <4> QED
        BY <2>1, <2>5, <4>2 DEF Has
    <3>4. CASE h = k /\ frame # Request(l, p)
      <4>1. In(toHost[h], Request(l, p)) => In(toHost'[h], Request(l, p))
        BY <2>2, <3>1, <3>4
      <4>2. CASE <<l, p>> \in running[h] => <<l, p>> \in running'[h]
        BY <2>1, <2>5, <4>1, <4>2 DEF Has
      <4>3. CASE <<l, p>> \in running[h] /\ <<l, p>> \notin running'[h]
        <5>1. frame.kind = "relay" /\ frame.link = l
          BY <1>0, <2>3, <3>1, <3>4, <4>3
        <5>2. frame \in Controls
          BY <2>4, <5>1 DEF HostFrames, Requests, Nudges
        <5>3. PICK n \in Links : frame = Control(n)
          BY <5>2, FrameKinds
        <5>4. frame = Control(l)
          BY <5>1, <5>3 DEF Control
        <5>5. client'[l] = "ended"
          BY <2>1, <2>2, <5>4 DEF FramesBorn
        <5> QED
          BY <5>5 DEF EndsCall
      <4> QED
        BY <4>2, <4>3
    <3> QED
      BY <3>2, <3>3, <3>4
  <2>6. ASSUME NEW p \in Callers, NEW l \in Links, pc[p] = "call", l = mine[p]
        PROVE  EndsCall(p, l)'
    <3>1. PICK h : h = routed[p]
      OBVIOUS
    <3>2. Has(h, l, p) => EndsCall(p, l)' \/ Has(h, l, p)'
      BY <2>5, <2>6
    <3>3. /\ UNCHANGED <<up, routed>> /\ cut \subseteq cut' /\ untold \subseteq untold'
          /\ \A f : In(down[l], f) => In(down'[l], f)
      BY <2>1
    <3> QED
      BY <1>6, <2>6, <3>1, <3>2, <3>3
  <2> QED
    BY <1>5, <2>1, <2>6
<1>23. ASSUME RoomRestarts PROVE CallsAttended'
  <2>1. DropLinks(Links) /\ UNCHANGED <<pc, mine>>
    BY <1>23 DEF RoomRestarts, callerVars
  <2>2. ASSUME NEW p \in Callers, NEW l \in Links, pc[p] = "call", l = mine[p]
        PROVE  EndsCall(p, l)'
    <3>1. client'[l] = "ended"
      BY <1>0, <1>1, <2>1, <2>2, DropEnds DEF Ends
    <3> QED
      BY <3>1 DEF EndsCall
  <2> QED
    BY <1>5, <2>1, <2>2
<1> QED
  BY <1>4, <1>8, <1>9, <1>10, <1>11, <1>13, <1>14, <1>15, <1>16, <1>18, <1>19, <1>20, <1>21, <1>22,
     <1>23 DEF Next

(* A call that waits is attended: whatever is lost, told or restarted, its  *)
(* end is on its way or at the host, unless the host's socket died silently *)
(* or its close was kept from the clients (client.rs:60-109,                *)
(* device-room.ts:274-328).                                                 *)
THEOREM WaitingCallsAttended == Spec => []CallsAttended
<1>1. Init => TypeOK /\ HostsBounded
  BY InitType, RelayAssumption
<1>2. Init => SessionInv
  BY DEF Init, SessionInv, Up
<1>3. Init => LinkInv /\ FramesBorn /\ CallsAttended
  <2> SUFFICES ASSUME Init PROVE LinkInv /\ FramesBorn /\ CallsAttended
    OBVIOUS
  <2>1. /\ \A l \in Links : client[l] = "unborn" /\ up[l] = <<>>
        /\ \A p \in Callers : pc[p] = "idle"
        /\ \A h \in Sessions : toHost[h] = <<>> /\ fromHost[h] = <<>> /\ running[h] = {}
    BY DEF Init
  <2>2. \A f : ~In(<<>>, f)
    BY DEF In
  <2> QED
    BY <2>1, <2>2 DEF LinkInv, FramesBorn, CallsAttended
<1>4. /\ TypeOK /\ HostsBounded /\ SessionInv /\ LinkInv /\ FramesBorn /\ CallsAttended
      /\ [Next]_vars
      => TypeOK' /\ HostsBounded' /\ SessionInv' /\ LinkInv' /\ FramesBorn' /\ CallsAttended'
  <2> SUFFICES ASSUME TypeOK, HostsBounded, SessionInv, LinkInv, FramesBorn, CallsAttended,
                      [Next]_vars
               PROVE  /\ TypeOK' /\ HostsBounded' /\ SessionInv'
                      /\ LinkInv' /\ FramesBorn' /\ CallsAttended'
    OBVIOUS
  <2>1. Aged
    BY NextAged
  <2> QED
    BY <2>1, NextType, NextBounded, NextSession, NextLinks, NextFrames, NextAttended,
       RelayAssumption
<1> QED
  BY <1>1, <1>2, <1>3, <1>4, PTL DEF Spec

-----------------------------------------------------------------------------
(* Nudges *)

(* A nudge is kept, sent to a session, or read, unless more chats are       *)
(* nudged than the queue keeps (device-room.ts:226-262).                    *)
NudgesKept ==
    \A c \in nudged :
        \/ c \in opened \/ In(queued, c) \/ \E h \in Sessions : In(toHost[h], NudgeFor(c))
        \/ Cardinality(nudged) > NudgeCap

(* The queue keeps one nudge of each chat, and a session that has not       *)
(* joined was sent none: what a join replays replaces nothing.              *)
QueueInv ==
    /\ IsFiniteSet(nudged)
    /\ \A i, j \in 1..Len(queued) : queued[i] = queued[j] => i = j
    /\ \A i \in 1..Len(queued) : queued[i] \in nudged
    /\ \A h \in Sessions, c \in Chats : host[h] = "unborn" => ~In(toHost[h], NudgeFor(c))

(* A queue with an entry for each of more chats than fit is of more nudges. *)
LEMMA DistinctCount ==
    ASSUME NEW S, IsFiniteSet(S), NEW s \in Seq(S),
           \A i, j \in 1..Len(s) : s[i] = s[j] => i = j
    PROVE  Len(s) <= Cardinality(S)
<1> DEFINE f == [i \in 1..Len(s) |-> s[i]]
<1>1. Len(s) \in Nat /\ \A i \in 1..Len(s) : s[i] \in S
  OBVIOUS
<1>2. f \in Injection(1..Len(s), S)
  BY <1>1 DEF Injection, IsInjective
<1>3. Cardinality(1..Len(s)) <= Cardinality(S)
  BY <1>2, FS_Injection
<1>4. Cardinality(1..Len(s)) = Len(s)
  <2>1. 1 \in Int /\ Len(s) \in Int /\ (1 > Len(s) => Len(s) = 0)
    BY <1>1
  <2> QED
    BY <1>1, <2>1, FS_Interval
<1> QED
  BY <1>3, <1>4

LEMMA NextQueue ==
    ASSUME RelayAssumption, TypeOK, HostsBounded, SessionInv, QueueInv, NudgesKept, [Next]_vars
    PROVE  QueueInv' /\ NudgesKept'
<1>0. /\ toHost \in [Sessions -> Seq(HostFrames)] /\ host \in [Sessions -> Ends]
      /\ up \in [Links -> Seq(Requests)] /\ NudgeOK
      /\ NudgeCap \in Nat /\ nudged \subseteq Chats /\ hosts \subseteq Sessions
  BY TypeParts DEF Parts, ToHostOK, HostOK, UpOK, NudgeOK, RelayAssumption
<1>1. /\ \A l, p, c : Request(l, p) # NudgeFor(c)
      /\ \A l, c : Control(l) # NudgeFor(c)
  BY DEF Request, Control, NudgeFor
(* Most steps send no nudge and take none from a queue.                     *)
<1>2. ASSUME UNCHANGED nudgeVars,
             \A h \in Sessions : host'[h] = "unborn" => host[h] = "unborn",
             \A h \in Sessions, c \in Chats :
                 In(toHost'[h], NudgeFor(c)) <=> In(toHost[h], NudgeFor(c))
      PROVE  QueueInv' /\ NudgesKept'
  <2>1. nudged' = nudged /\ queued' = queued /\ opened' = opened
    BY <1>2 DEF nudgeVars
  <2>2. QueueInv'
    BY <1>2, <2>1 DEF QueueInv
  <2>3. NudgesKept'
    BY <1>0, <1>2, <2>1 DEF NudgesKept
  <2> QED
    BY <2>2, <2>3
<1>3. ASSUME UNCHANGED <<nudgeVars, toHost>>,
             \A h \in Sessions : host'[h] = "unborn" => host[h] = "unborn"
      PROVE  QueueInv' /\ NudgesKept'
  BY <1>2, <1>3
<1>4. ASSUME UNCHANGED nudgeVars, UNCHANGED host, NEW k, NEW e, \A c : e # NudgeFor(c),
             toHost' = toHost \/ toHost' = [toHost EXCEPT ![k] = Append(@, e)]
      PROVE  QueueInv' /\ NudgesKept'
  <2>1. CASE toHost' = [toHost EXCEPT ![k] = Append(@, e)]
    <3>1. \A f : \A h \in Sessions : In(toHost'[h], f) <=> In(toHost[h], f) \/ (h = k /\ f = e)
      BY <1>0, <2>1, ToHostAppend
    <3> QED
      BY <1>2, <1>4, <3>1
  <2> QED
    BY <1>3, <1>4, <2>1
<1>5. ASSUME NEW p \in Callers, Ask(p) \/ Cache(p) \/ Call(p) PROVE QueueInv' /\ NudgesKept'
  <2>1. UNCHANGED <<nudgeVars, toHost>> /\ UNCHANGED host
    BY <1>5 DEF Ask, Cache, Lock, Dial, DialFails, ProbeAnswered, ProbeFails, Call, Send,
       CallAnswered, CallFails, Invalidate, hostVars
  <2> QED
    BY <1>3, <2>1
<1>6. ASSUME NEW l \in Links, LinkTold(l) \/ LinkLost(l) PROVE QueueInv' /\ NudgesKept'
  BY <1>3, <1>6 DEF LinkTold, LinkLost, hostVars
<1>7. ASSUME NEW l \in Links, Relay(l) PROVE QueueInv' /\ NudgesKept'
  <2> DEFINE k == LiveHost(hosts)
             e == Head(up[l])
  <2>1. /\ UNCHANGED nudgeVars /\ UNCHANGED host /\ up[l] # <<>>
        /\ toHost' = toHost \/ toHost' = [toHost EXCEPT ![k] = Append(@, e)]
    BY <1>7 DEF Relay, hostVars
  <2>2. e \in Requests
    BY <1>0, <2>1, HeadOf
  <2>3. \A c : e # NudgeFor(c)
    BY <1>1, <2>2, FrameKinds
  <2> HIDE DEF k, e
  <2> QED
    BY <1>4, <2>1, <2>3
<1>8. ASSUME NEW l \in Links, ClientClosed(l) PROVE QueueInv' /\ NudgesKept'
  <2> DEFINE k == LiveHost(hosts)
             e == Control(l)
  <2>1. /\ UNCHANGED nudgeVars /\ UNCHANGED host
        /\ toHost' = toHost \/ toHost' = [toHost EXCEPT ![k] = Append(@, e)]
    BY <1>8 DEF ClientClosed, TellHost, hostVars
  <2>2. \A c : e # NudgeFor(c)
    BY <1>1
  <2> HIDE DEF k, e
  <2> QED
    BY <1>4, <2>1, <2>2
<1>9. ASSUME NEW k \in Sessions, RelayBack(k) PROVE QueueInv' /\ NudgesKept'
  <2> DEFINE e == Control(Head(fromHost[k]).link)
  <2>1. /\ UNCHANGED nudgeVars /\ UNCHANGED host
        /\ toHost' = toHost \/ toHost' = [toHost EXCEPT ![k] = Append(@, e)]
    BY <1>9 DEF RelayBack, hostVars
  <2>2. \A c : e # NudgeFor(c)
    BY <1>1
  <2> HIDE DEF e
  <2> QED
    BY <1>4, <2>1, <2>2
<1>10. ASSUME NEW k \in Sessions, HostClosed(k) \/ GoesStale(k) \/ HostCut(k)
                                  \/ \E l \in Links, p \in Callers : Reply(k, l, p)
       PROVE  QueueInv' /\ NudgesKept'
  <2>1. UNCHANGED <<nudgeVars, toHost>> /\ UNCHANGED host
    BY <1>10 DEF HostClosed, GoesStale, HostCut, Reply, hostVars
  <2> QED
    BY <1>3, <2>1
<1>11. ASSUME NEW k \in Sessions, HostEnds(k) PROVE QueueInv' /\ NudgesKept'
  <2>1. UNCHANGED <<nudgeVars, toHost>> /\ host' = [host EXCEPT ![k] = "ended"]
    BY <1>11 DEF HostEnds, EndSession
  <2>2. \A h \in Sessions : host'[h] = "unborn" => host[h] = "unborn"
    BY <1>0, <2>1
  <2> QED
    BY <1>3, <2>1, <2>2
<1>12. ASSUME RoomRestarts PROVE QueueInv' /\ NudgesKept'
  <2>1. UNCHANGED <<nudgeVars, toHost>>
    BY <1>12 DEF RoomRestarts
  <2>2. \A h \in Sessions : host'[h] = "unborn" => host[h] = "unborn"
    BY <1>12 DEF RoomRestarts
  <2> QED
    BY <1>3, <2>1, <2>2
<1>13. ASSUME CooldownEnds \/ Wake \/ UNCHANGED vars PROVE QueueInv' /\ NudgesKept'
  <2>1. UNCHANGED <<nudgeVars, toHost>> /\ UNCHANGED host
    BY <1>13 DEF CooldownEnds, Wake, vars, nudgeVars, hostVars
  <2> QED
    BY <1>3, <2>1
(* A join replays what is kept to a session that was sent no nudge yet.     *)
<1>14. ASSUME NEW k \in Sessions, HostJoins(k) PROVE QueueInv' /\ NudgesKept'
  <2>1. /\ host[k] = "unborn" /\ host' = [host EXCEPT ![k] = "up"]
        /\ toHost' = [toHost EXCEPT ![k] = [i \in 1..Len(queued) |-> NudgeFor(queued[i])]]
        /\ queued' = <<>> /\ nudged' = nudged /\ opened' = opened
    BY <1>14 DEF HostJoins, Replay
  <2>2. /\ \A h \in Sessions : h # k => toHost'[h] = toHost[h] /\ host'[h] = host[h]
        /\ host'[k] = "up" /\ toHost'[k] = [i \in 1..Len(queued) |-> NudgeFor(queued[i])]
    BY <1>0, <2>1
  <2>3. \A c : In(queued, c) => In(toHost'[k], NudgeFor(c))
    <3>1. Len(queued) \in Nat
      BY <1>0 DEF NudgeOK
    <3>2. /\ Len(toHost'[k]) = Len(queued)
          /\ \A i \in 1..Len(queued) : toHost'[k][i] = NudgeFor(queued[i])
      BY <2>2, <3>1
    <3> QED
      BY <3>2 DEF In
  <2>4. QueueInv'
    <3>1. Len(queued') = 0
      BY <2>1
    <3>2. IsFiniteSet(nudged') /\ \A i \in 1..Len(queued') : FALSE
      BY <2>1, <3>1 DEF QueueInv
    <3>3. \A h \in Sessions, c \in Chats : host'[h] = "unborn" => ~In(toHost'[h], NudgeFor(c))
      BY <2>2 DEF QueueInv
    <3> QED
      BY <3>2, <3>3 DEF QueueInv
  <2>5. NudgesKept'
    <3> SUFFICES ASSUME NEW c \in nudged, c \notin opened, ~(Cardinality(nudged) > NudgeCap)
                 PROVE  \E h \in Sessions : In(toHost'[h], NudgeFor(c))
      BY <2>1 DEF NudgesKept
    <3>1. CASE In(queued, c)
      BY <2>3, <3>1
    <3>2. ASSUME NEW h \in Sessions, In(toHost[h], NudgeFor(c))
          PROVE  In(toHost'[h], NudgeFor(c))
      <4>1. h # k
        BY <1>0, <2>1, <3>2 DEF QueueInv
      <4> QED
        BY <2>2, <3>2, <4>1
    <3> QED
      BY <3>1, <3>2 DEF NudgesKept
  <2> QED
    BY <2>4, <2>5
(* A nudge that is read opens its chat; no other frame carries one.         *)
<1>15. ASSUME NEW k \in Sessions, HandleFrame(k) PROVE QueueInv' /\ NudgesKept'
  <2> DEFINE frame == Head(toHost[k])
  <2>1. /\ toHost[k] # <<>> /\ toHost' = [toHost EXCEPT ![k] = Tail(@)]
        /\ UNCHANGED host /\ queued' = queued /\ nudged' = nudged
        /\ opened' = opened \/ opened' = opened \cup {frame.of}
        /\ frame.kind = "nudge" => opened' = opened \cup {frame.of}
    BY <1>15 DEF HandleFrame, hostVars
  <2>2. /\ \A f : \A h \in Sessions : In(toHost'[h], f) => In(toHost[h], f)
        /\ \A f : \A h \in Sessions : In(toHost[h], f) => In(toHost'[h], f) \/ f = frame
    BY <1>0, <2>1, ToHostTail
  <2> HIDE DEF frame
  <2>3. QueueInv'
    BY <2>1, <2>2 DEF QueueInv
  <2>4. ASSUME NEW c, frame = NudgeFor(c) PROVE c \in opened'
    <3>1. frame.kind = "nudge" /\ frame.of = c
      BY <2>4 DEF NudgeFor
    <3> QED
      BY <2>1, <3>1
  <2>5. NudgesKept'
    BY <2>1, <2>2, <2>4 DEF NudgesKept
  <2> QED
    BY <2>3, <2>5
<1>16. ASSUME NEW d \in Chats, Nudge(d) PROVE QueueInv' /\ NudgesKept'
  <2> DEFINE k == LiveHost(hosts)
             e == NudgeFor(d)
             all == Append(queued, d)
  <2>0. queued \in Seq(Chats) /\ Len(queued) \in Nat
    BY <1>0 DEF NudgeOK
  <2>1. /\ nudged' = nudged \cup {d} /\ d \notin nudged /\ UNCHANGED host /\ opened' = opened
    BY <1>16 DEF Nudge, hostVars
  <2>2. /\ IsFiniteSet(nudged') /\ Cardinality(nudged') \in Nat /\ Cardinality(nudged) \in Nat
        /\ Cardinality(nudged') >= Cardinality(nudged)
    <3>1. IsFiniteSet(nudged)
      BY DEF QueueInv
    <3>2. /\ IsFiniteSet(nudged \cup {d})
          /\ Cardinality(nudged \cup {d}) = Cardinality(nudged) + 1
      BY <2>1, <3>1, FS_AddElement
    <3> QED
      BY <2>1, <3>1, <3>2, FS_CardinalityType
  <2>3. CASE k # NoSession
    <3>1. toHost' = [toHost EXCEPT ![k] = Append(@, e)] /\ queued' = queued
      BY <1>16, <2>3 DEF Nudge
    <3>2. k \in hosts
      BY <2>3, LiveHostOf
    <3>3. host[k] # "unborn" /\ k \in Sessions
      BY <1>0, <3>2 DEF SessionInv
    <3> HIDE DEF k, e
    <3>4. \A f : \A h \in Sessions : In(toHost'[h], f) <=> In(toHost[h], f) \/ (h = k /\ f = e)
      BY <1>0, <3>1, ToHostAppend
    <3>5. QueueInv'
      BY <2>1, <2>2, <3>1, <3>3, <3>4 DEF QueueInv
    <3>6. \E h \in Sessions : In(toHost'[h], NudgeFor(d))
      BY <3>3, <3>4 DEF e
    <3>7. NudgesKept'
      BY <1>0, <2>1, <2>2, <3>1, <3>4, <3>6 DEF NudgesKept
    <3> QED
      BY <3>5, <3>7
  <2>4. CASE k = NoSession
    <3>1. /\ toHost' = toHost
          /\ queued' = IF Len(all) > NudgeCap THEN Tail(all) ELSE all
      <4>1. {i \in DOMAIN queued : queued[i] = d} = {}
        BY <2>0, <2>1 DEF QueueInv
      <4>2. Keep(d) = IF Len(all) > NudgeCap THEN Tail(all) ELSE all
        BY <4>1 DEF Keep
      <4> QED
        BY <1>16, <2>4, <4>2 DEF Nudge
    <3>2. /\ all \in Seq(nudged') /\ Len(all) = Len(queued) + 1
          /\ all[Len(queued) + 1] = d /\ \A i \in 1..Len(queued) : all[i] = queued[i]
      <4>1. queued \in Seq(nudged')
        <5>1. \A i \in 1..Len(queued) : queued[i] \in nudged'
          BY <2>1 DEF QueueInv
        <5> QED
          BY <2>0, <5>1
      <4> QED
        BY <2>0, <2>1, <4>1
    <3>3. \A i \in 1..Len(all) : i \in 1..Len(queued) \/ i = Len(queued) + 1
      BY <2>0, <3>2
    <3>4. \A i \in 1..Len(queued) : queued[i] # d
      BY <2>1 DEF QueueInv
    <3>5. \A i, j \in 1..Len(all) : all[i] = all[j] => i = j
      BY <3>2, <3>3, <3>4 DEF QueueInv
    <3>6. \A c : In(all, c) <=> In(queued, c) \/ c = d
      BY <2>0, InAppend
    <3> HIDE DEF all
    <3>7. /\ IsFiniteSet(nudged')
          /\ \A h \in Sessions, c \in Chats : host'[h] = "unborn" => ~In(toHost'[h], NudgeFor(c))
      BY <2>1, <2>2, <3>1 DEF QueueInv
    <3>8. CASE Len(all) > NudgeCap
      <4>1. Cardinality(nudged') > NudgeCap
        <5>1. Len(all) <= Cardinality(nudged')
          BY <2>2, <3>2, <3>5, DistinctCount
        <5> QED
          BY <1>0, <2>0, <2>2, <3>2, <3>8, <5>1
      <4>2. queued' = Tail(all) /\ all # <<>> /\ Len(all) \in Nat
        BY <2>0, <3>1, <3>2, <3>8
      <4>3. /\ Len(queued') = Len(all) - 1
            /\ \A i \in 1..Len(queued') : queued'[i] = all[i + 1] /\ i + 1 \in 1..Len(all)
        BY <3>2, <4>2
      <4>4. \A i, j \in 1..Len(queued') : queued'[i] = queued'[j] => i = j
        BY <3>5, <4>2, <4>3
      <4>5. \A i \in 1..Len(queued') : queued'[i] \in nudged'
        BY <3>2, <4>3
      <4> QED
        BY <3>7, <4>1, <4>4, <4>5 DEF QueueInv, NudgesKept
    <3>9. CASE ~(Len(all) > NudgeCap)
      <4>1. queued' = all
        BY <3>1, <3>9
      <4>2. QueueInv'
        BY <3>2, <3>5, <3>7, <4>1 DEF QueueInv
      <4>3. NudgesKept'
        BY <1>0, <2>1, <2>2, <3>1, <3>6, <4>1 DEF NudgesKept
      <4> QED
        BY <4>2, <4>3
    <3> QED
      BY <3>8, <3>9
  <2> QED
    BY <2>3, <2>4
<1> QED
  BY <1>5, <1>6, <1>7, <1>8, <1>9, <1>10, <1>11, <1>12, <1>13, <1>14, <1>15, <1>16 DEF Next

(* No nudge is lost in the room: one that was accepted is kept, was sent to *)
(* a session or has opened its chat, unless more chats are nudged than the  *)
(* queue keeps (device-room.ts:226-262).                                    *)
THEOREM AcceptedNudgesKept == Spec => []NudgesKept
<1>1. Init => TypeOK /\ HostsBounded
  BY InitType, RelayAssumption
<1>2. Init => SessionInv
  BY DEF Init, SessionInv, Up
<1>3. Init => QueueInv /\ NudgesKept
  <2> SUFFICES ASSUME Init PROVE QueueInv /\ NudgesKept
    OBVIOUS
  <2>1. /\ queued = <<>> /\ nudged = {} /\ \A h \in Sessions : toHost[h] = <<>>
    BY DEF Init
  <2>2. \A f : ~In(<<>>, f)
    BY DEF In
  <2> QED
    BY <2>1, <2>2, FS_EmptySet DEF QueueInv, NudgesKept
<1>4. /\ TypeOK /\ HostsBounded /\ SessionInv /\ QueueInv /\ NudgesKept /\ [Next]_vars
      => TypeOK' /\ HostsBounded' /\ SessionInv' /\ QueueInv' /\ NudgesKept'
  BY NextType, NextBounded, NextSession, NextQueue, RelayAssumption
<1> QED
  BY <1>1, <1>2, <1>3, <1>4, PTL DEF Spec
=============================================================================
