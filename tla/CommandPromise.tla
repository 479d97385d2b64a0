--------------------------- MODULE CommandPromise ---------------------------
(* What the durable command plane promises of every command, whatever       *)
(* becomes of replicas, hosts and processes: each device takes it at most   *)
(* once through unseen, claimed, performed and done; it publishes an        *)
(* outcome only on the step to done, and the outcome says which way it      *)
(* went. A device that dies in between is done with the command, too.       *)
(* CommandPlane implements it.                                              *)
EXTENDS Naturals

CONSTANTS
    Devices,
    Commands

VARIABLES
    queued,     \* the commands that somebody has queued
    stage,      \* stage[d][c]: how far d has come with c
    effects,    \* effects[d][c]: times d has begun executing c
    published   \* the outcomes that some replica holds

promise == <<queued, stage, effects, published>>

InHand == {"claimed", "performed"}

Start ==
    /\ queued = {}
    /\ stage = [d \in Devices |-> [c \in Commands |-> "unseen"]]
    /\ effects = [d \in Devices |-> [c \in Commands |-> 0]]
    /\ published = {}

Advance(d, c, from, to) ==
    /\ stage[d][c] \in from
    /\ stage' = [stage EXCEPT ![d][c] = to]

Queue(c) ==
    /\ c \notin queued
    /\ queued' = queued \cup {c}
    /\ published' \subseteq published
    /\ UNCHANGED <<stage, effects>>

(* A device has one command in hand at a time.                              *)
Claim(d, c) ==
    /\ c \in queued
    /\ \A other \in Commands : stage[d][other] \notin InHand
    /\ Advance(d, c, {"unseen"}, "claimed")
    /\ published' \subseteq published
    /\ UNCHANGED <<queued, effects>>

Perform(d, c) ==
    /\ Advance(d, c, {"claimed"}, "performed")
    /\ effects' = [effects EXCEPT ![d][c] = @ + 1]
    /\ published' \subseteq published
    /\ UNCHANGED queued

(* Applied and rejected are said of what was performed, expired and         *)
(* superseded of what was not.                                              *)
Publish(d, c) ==
    /\ \E status \in IF stage[d][c] = "performed" THEN {"applied", "rejected"}
                     ELSE {"expired", "superseded"} :
         LET outcome == [cmd |-> c, by |-> d, status |-> status]
         IN  /\ outcome \in published'
             /\ published' \subseteq published \cup {outcome}
    /\ Advance(d, c, InHand, "done")
    /\ UNCHANGED <<queued, effects>>

(* The device dies with the command in hand.                                *)
Abandon(d, c) ==
    /\ Advance(d, c, InHand, "done")
    /\ published' \subseteq published
    /\ UNCHANGED <<queued, effects>>

(* A replica that alone held an outcome is gone.                            *)
Forget ==
    /\ published' \subseteq published
    /\ UNCHANGED <<queued, stage, effects>>

Step ==
    \/ Forget
    \/ \E c \in Commands : Queue(c)
    \/ \E d \in Devices, c \in Commands :
         Claim(d, c) \/ Perform(d, c) \/ Publish(d, c) \/ Abandon(d, c)

Promise == Start /\ [][Step]_promise
=============================================================================
