--------------------------- MODULE CommandLedger ---------------------------
(* The pure part of the durable command ledger: doc/src/commands.rs.        *)
(* A command entry is immutable; the host evaluates each pending entry      *)
(* against its own processed ledger, its clock, the other entries of the    *)
(* document and the transcript, and reaches one of four dispositions.       *)
EXTENDS Integers

CONSTANTS
    TTL,        \* COMMAND_DEFAULT_TTL_MS, in ticks
    NoMessage   \* based_on is absent: the transcript was empty

ASSUME TTLAssumption == TTL \in Nat \ {0}

Kinds == {"run", "steer", "interrupt", "respondInput"}
Dispositions == {"skip", "expired", "superseded", "execute"}

EffectiveExpiry(entry) == entry.issuedAt + TTL

NewerOrEqual(entry, pending) ==
    {other \in pending : /\ other.id # entry.id
                         /\ other.kind = entry.kind
                         /\ other.issuedAt >= entry.issuedAt}

(* The entries that a steer or an interrupt gives way to.                   *)
Newer(entry, pending) ==
    {other \in pending : /\ other.id # entry.id
                         /\ other.kind = entry.kind
                         /\ other.issuedAt > entry.issuedAt}

(* cx.processed : ids in the evaluating device's ledger                     *)
(* cx.now       : the evaluating device's clock                             *)
(* cx.pending   : the document's entries whose status is Pending            *)
(* cx.current   : current_turn_id, as the caller fills it in                *)
(* cx.past      : the ids for which turn_is_past answers true               *)
EvaluateCommand(entry, cx) ==
    IF entry.id \in cx.processed THEN "skip"
    ELSE IF cx.now >= EffectiveExpiry(entry) THEN "expired"
    ELSE IF /\ entry.kind \in {"steer", "interrupt"}
            /\ Newer(entry, cx.pending) # {}
         THEN "superseded"
    ELSE IF /\ entry.kind = "interrupt"
            /\ entry.basedOn # NoMessage
            /\ entry.basedOn # cx.current
            /\ entry.basedOn \in cx.past
         THEN "superseded"
    ELSE "execute"
============================================================================
