--------------------------- MODULE TranscriptDelta ---------------------------
(* The frames of WATCH_DOC_MESSAGES (doc/src/transcript_delta.rs): what     *)
(* changed between two transcripts, and how a consumer applies it.          *)
(*                                                                          *)
(* A transcript is a sequence of entries with distinct ids. An entry has an *)
(* id, a status and parts; a part an id, a kind and a number: the length of *)
(* a text (texts only grow), 1 for a resolved tool call.                    *)
EXTENDS Naturals, Sequences, SequencesExt

CONSTANTS
    ResetFloor,    \* transcripts no longer than this are never reset
    NoEntry

Part == [id : Nat, kind : {"text", "tool"}, n : Nat]
EntryOf(names) == [id : names, status : {"streaming", "settled"}, parts : Seq(Part)]

Ids(entries) == {entries[i].id : i \in DOMAIN entries}
Place(entries, id) == CHOOSE i \in DOMAIN entries : entries[i].id = id
Before(entries, i) == IF i = 1 THEN NoEntry ELSE entries[i - 1].id

-----------------------------------------------------------------------------
(* try_text_append: exactly one text part has grown, nothing else changed.  *)

Grown(old, new) == {j \in DOMAIN new.parts : new.parts[j] # old.parts[j]}
GrowsBy(old, new, j) ==
    /\ old.parts[j].kind = "text" /\ new.parts[j].kind = "text"
    /\ old.parts[j].id = new.parts[j].id
    /\ old.parts[j].n <= new.parts[j].n

GrowsAnyStatus(old, new) ==
    /\ Len(old.parts) = Len(new.parts)
    /\ \E j \in DOMAIN new.parts : Grown(old, new) = {j} /\ GrowsBy(old, new, j)

Grows(old, new) ==
    /\ old.status = new.status
    /\ Len(old.parts) = Len(new.parts)
    /\ \E j \in DOMAIN new.parts : Grown(old, new) = {j} /\ GrowsBy(old, new, j)

TextAppend(old, new) ==
    LET j == CHOOSE j \in DOMAIN new.parts : Grown(old, new) = {j} IN
    [entry |-> new.id, part |-> new.parts[j].id,
     text |-> new.parts[j].n - old.parts[j].n, len |-> new.parts[j].n]

-----------------------------------------------------------------------------
(* diff_transcript. The upserts and appends of a frame are numbered by the  *)
(* places in `next` they are of, and applied in that order.                 *)

Reset(entries) == [kind |-> "reset", entries |-> entries]

Old(prev, next, i) == prev[Place(prev, next[i].id)]
Settled(prev, next, i) ==
    /\ next[i].id \in Ids(prev)
    /\ Before(prev, Place(prev, next[i].id)) = Before(next, i)
Appends(prev, next) ==
    {i \in DOMAIN next : /\ Settled(prev, next, i) /\ Old(prev, next, i) # next[i]
                         /\ Grows(Old(prev, next, i), next[i])}
Upserts(prev, next) ==
    {i \in DOMAIN next \ Appends(prev, next) :
        ~(Settled(prev, next, i) /\ Old(prev, next, i) = next[i])}

Diff(prev, next) ==
    LET appends == Appends(prev, next)
        upserts == Upserts(prev, next)
    IN  IF 2 * Cardinality(upserts) >= Len(next) /\ Len(next) > ResetFloor
        THEN Reset(next)
        ELSE [kind |-> "delta",
              upsert |-> [i \in upserts |-> [after |-> Before(next, i), entry |-> next[i]]],
              append |-> [i \in appends |-> TextAppend(Old(prev, next, i), next[i])],
              remove |-> Ids(prev) \ Ids(next),
              count |-> Len(next)]

EmptyDelta(frame) ==
    /\ frame.kind = "delta"
    /\ DOMAIN frame.upsert = {} /\ DOMAIN frame.append = {} /\ frame.remove = {}

-----------------------------------------------------------------------------
(* apply_transcript_frame. `ok` turns FALSE where the code returns a        *)
(* TranscriptDesync; what was applied by then stays.                        *)

Without(entries, ids) ==
    LET kept[k \in 0..Len(entries)] ==
            IF k = 0 THEN <<>>
            ELSE IF entries[k].id \in ids THEN kept[k - 1]
            ELSE Append(kept[k - 1], entries[k])
    IN  kept[Len(entries)]

Upsert(state, u) ==
    LET rest == IF u.entry.id \in Ids(state.entries)
                THEN RemoveAt(state.entries, Place(state.entries, u.entry.id))
                ELSE state.entries IN
    IF ~state.ok THEN state
    ELSE IF u.after = NoEntry THEN [state EXCEPT !.entries = InsertAt(rest, 1, u.entry)]
    ELSE IF u.after \in Ids(rest)
         THEN [state EXCEPT !.entries = InsertAt(rest, Place(rest, u.after) + 1, u.entry)]
         ELSE [ok |-> FALSE, entries |-> rest]

AppendText(state, a) ==
    LET targets == {i \in DOMAIN state.entries : state.entries[i].id = a.entry}
        i == CHOOSE i \in targets : TRUE
        texts == {j \in DOMAIN state.entries[i].parts :
                    /\ state.entries[i].parts[j].kind = "text"
                    /\ state.entries[i].parts[j].id = a.part}
        first == CHOOSE j \in texts : \A k \in texts : j <= k
        len == state.entries[i].parts[first].n + a.text IN
    IF ~state.ok THEN state
    ELSE IF targets = {} \/ texts = {} THEN [state EXCEPT !.ok = FALSE]
    ELSE [ok |-> len = a.len, entries |-> [state.entries EXCEPT ![i].parts[first].n = len]]

Upserted(state, frame) ==
    LET done[k \in 0..frame.count] ==
            IF k = 0 THEN state
            ELSE IF k \in DOMAIN frame.upsert THEN Upsert(done[k - 1], frame.upsert[k])
            ELSE done[k - 1]
    IN  done[frame.count]

Appended(state, frame) ==
    LET done[k \in 0..frame.count] ==
            IF k = 0 THEN state
            ELSE IF k \in DOMAIN frame.append THEN AppendText(done[k - 1], frame.append[k])
            ELSE done[k - 1]
    IN  done[frame.count]

Apply(current, frame) ==
    IF frame.kind = "reset" THEN [ok |-> TRUE, entries |-> frame.entries]
    ELSE LET kept == [ok |-> TRUE, entries |-> Without(current, frame.remove)]
             applied == Appended(Upserted(kept, frame), frame)
         IN  [applied EXCEPT !.ok = @ /\ Len(applied.entries) = frame.count]
=============================================================================
