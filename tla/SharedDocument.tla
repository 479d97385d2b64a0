--------------------------- MODULE SharedDocument ---------------------------
(* What the sync layer promises the rest of the engine: every replica of a  *)
(* document holds a growing set of operations, each written by the replica  *)
(* it is named after, and replicas learn from each other and from nobody    *)
(* else. RoomSync implements it; the documents of CommandPlane assume it.   *)
EXTENDS Naturals

CONSTANTS
    Clients,
    Writers,     \* the clients that commit operations
    MaxWrites    \* operations per writer

Ops == Writers \X (1..MaxWrites)

VARIABLE held    \* held[c]: the operations of replica c

By(c, ops) == {o \in ops : o[1] = c}

Start == held = [c \in Clients |-> {}]

(* c commits its next operation.                                            *)
Commit(c) ==
    \E n \in 1..MaxWrites :
        /\ By(c, held[c]) = {c} \X (1..(n - 1))
        /\ held' = [held EXCEPT ![c] = @ \cup {<<c, n>>}]

(* c learns operations that their writers hold; its own it knew.            *)
Learn(c) ==
    \E ops \in SUBSET UNION {held[d] : d \in Clients} :
        /\ \A o \in ops : o \in held[o[1]]
        /\ held' = [held EXCEPT ![c] = @ \cup ops]

Step == (\E c \in Writers : Commit(c)) \/ (\E c \in Clients : Learn(c))

Shared == Start /\ [][Step]_held
=============================================================================
