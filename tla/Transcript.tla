------------------------------ MODULE Transcript ------------------------------
(* One chat's transcript on the device that runs it: the run's task folds   *)
(* its harness's events into parts and writes them into the document        *)
(* (doc/src/parts.rs, SegmentWriter in doc/src/schema.rs, drive_run in      *)
(* engine/src/sessions.rs), other replicas' entries are merged into the     *)
(* list meanwhile, chat_task publishes the list to a watch                  *)
(* (engine/src/doc_host.rs), and streams turn what they see of the watch    *)
(* into frames for their consumers (engine/src/rpc.rs, ui/src/state.rs).    *)
(*                                                                          *)
(* The messages of a document are one list. A writer remembers its entry by *)
(* its place in the list. The watch keeps the last value only.              *)
EXTENDS TranscriptDelta

CONSTANTS
    Users,         \* user messages of this engine's dispatches
    Foreign,       \* entries that other replicas put into the list
    Watchers,      \* consumers of the transcript
    MaxSegments,   \* bound on assistant entries
    MaxEvents,     \* bound on folded events
    MaxAttaches,   \* bound on subscriptions
    Task           \* chat_task

ASSUME TranscriptAssumption ==
    /\ ResetFloor \in Nat
    /\ MaxSegments \in Nat /\ MaxEvents \in Nat /\ MaxAttaches \in Nat
    /\ Task \notin Watchers
    /\ NoEntry \notin Users \cup Foreign \cup (1..MaxSegments)
    /\ (Users \cup Foreign) \cap (1..MaxSegments) = {}

Segments == 1..MaxSegments
Publishers == Watchers \cup {Task}

Names == Users \cup Foreign \cup Segments
Entry == EntryOf(Names)
MessageOf(id) ==
    [id |-> id, status |-> "settled", parts |-> <<[id |-> 0, kind |-> "text", n |-> 1]>>]

VARIABLES
    messages,   \* the document's list
    run,        \* drive_run's fold, and its SegmentWriter
    said,       \* said[s]: what segment s folded to in the end (history)
    events,     \* events folded so far
    woken,      \* chat_task's change watch has an unseen change
    pub,        \* pub[p]: where a publisher stands
    got,        \* got[p]: the transcript it has read
    dirty,      \* mirror_dirty
    mirror,     \* the value of the watch
    unseen,     \* streams whose receiver has an unseen value
    prev,       \* prev[w]: what stream w last diffed, in a set; {} before
    copy,       \* copy[w]: the consumer's transcript
    attaches,   \* subscriptions so far
    overlap,    \* a publication has overlapped an attach (history)
    displaced   \* an entry has been put before the one being written (history)

vars == <<messages, run, said, events, woken, pub, got, dirty, mirror, unseen, prev, copy,
          attaches, overlap, displaced>>
docVars == <<messages, woken, displaced>>
runVars == <<run, said, events>>
mirrorVars == <<got, dirty, mirror>>
streamVars == <<prev, copy>>
watchVars == <<pub, mirrorVars, unseen, streamVars, attaches, overlap>>

Fresh(s) == [pc |-> "fold", segment |-> s, folded |-> <<>>, at |-> 0, written |-> <<>>,
             ending |-> FALSE]
NotYet == {}

Run == [pc : {"fold", "index", "push", "sync", "stamp"}, segment : 1..(MaxSegments + 1),
        folded : Seq(Part), at : Nat, written : Seq(Part), ending : BOOLEAN]

TypeOK ==
    /\ messages \in Seq(Entry) /\ mirror \in Seq(Entry)
    /\ run \in Run
    /\ Len(run.written) <= Len(run.folded)
    /\ run.at \in 0..(Len(messages) + 1)
    /\ said \in [Segments -> Seq(Part)]
    /\ events \in 0..MaxEvents /\ attaches \in 0..MaxAttaches
    /\ pub \in [Publishers -> {"off", "load", "read", "send", "on", "check", "mark", "clear"}]
    /\ got \in [Publishers -> Seq(Entry)]
    /\ unseen \subseteq Watchers
    /\ prev \in [Watchers -> SUBSET Seq(Entry)]
    /\ copy \in [Watchers -> Seq(Entry)]
    /\ {dirty, woken, overlap, displaced} \subseteq BOOLEAN

Init ==
    /\ messages = <<>>
    /\ run = Fresh(1) /\ said = [s \in Segments |-> <<>>] /\ events = 0
    /\ woken = FALSE
    /\ pub = [p \in Publishers |-> IF p = Task THEN "on" ELSE "off"]
    /\ got = [p \in Publishers |-> <<>>]
    /\ dirty = TRUE /\ mirror = <<>> /\ unseen = {}
    /\ prev = [w \in Watchers |-> NotYet]
    /\ copy = [w \in Watchers |-> <<>>]
    /\ attaches = 0 /\ overlap = FALSE /\ displaced = FALSE

-----------------------------------------------------------------------------
(* The list *)

(* Every commit, local or imported, bumps the change watch.                 *)
SleepsOn == woken
Bumped == TRUE

Inserts(entry, place) ==
    /\ messages' = InsertAt(messages, place, entry)
    /\ woken' = Bumped
    /\ displaced' = (displaced \/ (run.at # 0 /\ place <= run.at))

(* write_user_message, idempotent by id.                                    *)
WriteUser(u) ==
    /\ u \notin Ids(messages)
    /\ Inserts(MessageOf(u), Len(messages) + 1)
    /\ UNCHANGED <<runVars, watchVars>>

(* An import: the entry follows what its author had seen, or all of what it *)
(* had not.                                                                 *)
MergeForeign(f, place) ==
    /\ f \notin Ids(messages) /\ place \in 1..(Len(messages) + 1)
    /\ Inserts(MessageOf(f), place)
    /\ UNCHANGED <<runVars, watchVars>>

-----------------------------------------------------------------------------
(* fold_event_into_parts *)

WithText(parts) ==
    IF parts # <<>> /\ Last(parts).kind = "text"
    THEN [parts EXCEPT ![Len(parts)].n = @ + 1]
    ELSE Append(parts, [id |-> Len(parts), kind |-> "text", n |-> 1])
WithTool(parts) == Append(parts, [id |-> Len(parts), kind |-> "tool", n |-> 0])
Resolved(parts, j) == [parts EXCEPT ![j].n = 1]

Folds(parts) ==
    /\ run.pc = "fold" /\ run.segment \in Segments /\ events < MaxEvents
    /\ run' = [run EXCEPT !.folded = parts]
    /\ events' = events + 1
    /\ UNCHANGED <<docVars, said, watchVars>>

TextDelta == Folds(WithText(run.folded))
ToolCall == Folds(WithTool(run.folded))
ToolResult ==
    \E j \in DOMAIN run.folded :
        run.folded[j].kind = "tool" /\ run.folded[j].n = 0 /\ Folds(Resolved(run.folded, j))

-----------------------------------------------------------------------------
(* SegmentWriter. Neither the place nor the entry at it is held across      *)
(* calls by more than its number.                                           *)

StampsOnly(at) == IF at = 0 THEN "index" ELSE "stamp"
Writes(at) == IF at = 0 THEN "index" ELSE "sync"

(* The coalesced tick: sync_segment.                                        *)
Tick ==
    /\ run.pc = "fold" /\ run.folded # run.written
    /\ run' = [run EXCEPT !.pc = IF run.at = 0 THEN "index" ELSE "sync"]
    /\ UNCHANGED <<docVars, said, events, watchVars>>

(* Steered or Done: finish_segment. Whether the status it stamps says       *)
(* complete, aborted or failed makes no difference here.                    *)
Boundary ==
    /\ run.pc = "fold" /\ run.folded # <<>>
    /\ run' = [run EXCEPT !.pc = Writes(run.at), !.ending = TRUE]
    /\ said' = [said EXCEPT ![run.segment] = run.folded]
    /\ UNCHANGED <<docVars, events, watchVars>>

(* begin: the index is read, then the entry is pushed.                      *)
BeginIndex ==
    /\ run.pc = "index"
    /\ run' = [run EXCEPT !.pc = "push", !.at = Len(messages) + 1]
    /\ UNCHANGED <<docVars, said, events, watchVars>>

BeginPush ==
    /\ run.pc = "push"
    /\ messages' = Append(messages, [id |-> run.segment, status |-> "streaming", parts |-> <<>>])
    /\ woken' = Bumped
    /\ run' = [run EXCEPT !.pc = "sync"]
    /\ UNCHANGED <<displaced, said, events, watchVars>>

(* sync: part by part, against what was written before; it stops at a part  *)
(* it cannot find.                                                          *)
Lost(parts) ==
    {i \in DOMAIN run.written :
        /\ run.folded[i] # run.written[i]
        /\ i > Len(parts) \/ (run.folded[i].kind = "text" /\ parts[i].kind # "text")}
Reached(parts, i) == \A j \in Lost(parts) : i < j

SyncPart(part, old, new) ==
    IF new = old THEN part
    ELSE IF new.kind = "text" THEN [part EXCEPT !.n = @ + (new.n - old.n)]
    ELSE IF part.kind = "text" THEN part
    ELSE [part EXCEPT !.n = new.n]

SyncParts(parts) ==
    [i \in DOMAIN parts |->
        IF i \in DOMAIN run.written /\ Reached(parts, i)
        THEN SyncPart(parts[i], run.written[i], run.folded[i]) ELSE parts[i]]
    \o IF Lost(parts) = {} THEN SubSeq(run.folded, Len(run.written) + 1, Len(run.folded))
                           ELSE <<>>
Noted(parts) ==
    IF Lost(parts) = {} THEN run.folded
    ELSE [i \in DOMAIN run.written |->
             IF Reached(parts, i) THEN run.folded[i] ELSE run.written[i]]

Sync ==
    LET parts == messages[run.at].parts
        next == [run EXCEPT !.written = Noted(parts)] IN
    /\ run.pc = "sync"
    /\ messages' = [messages EXCEPT ![run.at].parts = SyncParts(parts)]
    /\ woken' = (woken \/ messages' # messages)
    /\ run' = IF ~run.ending THEN [next EXCEPT !.pc = "fold"]
              ELSE IF Lost(parts) = {} THEN [next EXCEPT !.pc = "stamp"]
              ELSE Fresh(run.segment + 1)
    /\ UNCHANGED <<displaced, said, events, watchVars>>

KeepsWritten(s) == [Fresh(s) EXCEPT !.written = run.written]
NextSegment(s) == Fresh(s)

Stamp ==
    /\ run.pc = "stamp"
    /\ messages' = [messages EXCEPT ![run.at].status = "settled"]
    /\ woken' = Bumped
    /\ run' = NextSegment(run.segment + 1)
    /\ UNCHANGED <<displaced, said, events, watchVars>>

-----------------------------------------------------------------------------
(* Publishing *)

Receivers == {w \in Watchers : pub[w] # "off"}
Publishing(p) == pub[p] \in {"read", "send"}

(* chat_task wakes: publish_messages_if_watched.                            *)
TaskWakes ==
    /\ pub[Task] = "on" /\ woken
    /\ woken' = FALSE
    /\ pub' = [pub EXCEPT ![Task] = "check"]
    /\ overlap' = (overlap /\ \E w \in Watchers : pub[w] \in {"load", "read", "send"})
    /\ UNCHANGED <<messages, displaced, runVars, mirrorVars, unseen, streamVars, attaches>>

Check ==
    /\ pub[Task] = "check"
    /\ pub' = [pub EXCEPT ![Task] = IF Receivers = {} THEN "mark" ELSE "read"]
    /\ UNCHANGED <<docVars, runVars, mirrorVars, unseen, streamVars, attaches, overlap>>

Mark ==
    /\ pub[Task] = "mark"
    /\ dirty' = TRUE
    /\ pub' = [pub EXCEPT ![Task] = "clear"]
    /\ UNCHANGED <<docVars, runVars, got, mirror, unseen, streamVars, attaches, overlap>>

Replaces(p, value) ==
    /\ mirror' = value
    /\ unseen' = {w \in Watchers : pub[w] # "off" /\ prev[w] # NotYet}
    /\ pub' = [pub EXCEPT ![p] = "on"]

Clear ==
    /\ pub[Task] = "clear"
    /\ Replaces(Task, <<>>)
    /\ UNCHANGED <<docVars, runVars, got, dirty, streamVars, attaches, overlap>>

(* publish_messages, by chat_task or by an attach.                          *)
Read(p) ==
    /\ pub[p] = "read"
    /\ dirty' = FALSE
    /\ got' = [got EXCEPT ![p] = messages]
    /\ pub' = [pub EXCEPT ![p] = "send"]
    /\ overlap' = (overlap \/ \E q \in Publishers \ {p} : pub[q] = "send")
    /\ UNCHANGED <<docVars, runVars, mirror, unseen, streamVars, attaches>>

Send(p) ==
    /\ pub[p] = "send"
    /\ Replaces(p, got[p])
    /\ got' = [got EXCEPT ![p] = <<>>]
    /\ UNCHANGED <<docVars, runVars, dirty, streamVars, attaches, overlap>>

(* watch_messages: subscribe, then look at mirror_dirty.                    *)
Attach(w) ==
    /\ pub[w] = "off" /\ attaches < MaxAttaches
    /\ attaches' = attaches + 1
    /\ pub' = [pub EXCEPT ![w] = "load"]
    /\ overlap' = (overlap \/ pub[Task] \in {"mark", "clear"})
    /\ UNCHANGED <<docVars, runVars, mirrorVars, unseen, streamVars>>

TrustsMirror == FALSE
NeedsRefresh == dirty

Load(w) ==
    /\ pub[w] = "load"
    /\ pub' = [pub EXCEPT ![w] = IF NeedsRefresh THEN "read" ELSE "on"]
    /\ UNCHANGED <<docVars, runVars, mirrorVars, unseen, streamVars, attaches, overlap>>

Detach(w) ==
    /\ pub[w] = "on"
    /\ pub' = [pub EXCEPT ![w] = "off"]
    /\ prev' = [prev EXCEPT ![w] = NotYet] /\ copy' = [copy EXCEPT ![w] = <<>>]
    /\ unseen' = unseen \ {w}
    /\ UNCHANGED <<docVars, runVars, mirrorVars, attaches, overlap>>

-----------------------------------------------------------------------------
(* doc_messages_stream and its consumer. Frames arrive in order and nobody  *)
(* else sees them: a frame is applied as it is pulled. A desync makes the   *)
(* consumer subscribe again.                                                *)

Emits(w, frame) ==
    /\ unseen' = unseen \ {w}
    /\ \E applied \in {IF EmptyDelta(frame) THEN [ok |-> TRUE, entries |-> copy[w]]
                                            ELSE Apply(copy[w], frame)} :
        /\ copy' = [copy EXCEPT ![w] = applied.entries]
        /\ IF applied.ok
           THEN prev' = [prev EXCEPT ![w] = {mirror}] /\ UNCHANGED <<pub, overlap>>
           ELSE /\ prev' = [prev EXCEPT ![w] = NotYet]
                /\ pub' = [pub EXCEPT ![w] = "load"]
                /\ overlap' = (overlap \/ pub[Task] \in {"mark", "clear"})
    /\ UNCHANGED <<docVars, runVars, mirrorVars, attaches>>

FirstFrame(w) ==
    /\ pub[w] = "on" /\ prev[w] = NotYet
    /\ Emits(w, Reset(mirror))

NextFrame(w) ==
    /\ pub[w] = "on" /\ w \in unseen
    /\ \E entries \in prev[w] : \E frame \in {Diff(entries, mirror)} : Emits(w, frame)

-----------------------------------------------------------------------------
Writer == Tick \/ BeginIndex \/ BeginPush \/ Sync \/ Stamp
Publish(p) == Read(p) \/ Send(p) \/ (p = Task /\ (TaskWakes \/ Check \/ Mark \/ Clear))
Stream(w) == Load(w) \/ FirstFrame(w) \/ NextFrame(w)

Next ==
    \/ TextDelta \/ ToolCall \/ ToolResult
    \/ Boundary \/ Writer
    \/ \E u \in Users : WriteUser(u)
    \/ \E f \in Foreign, place \in 1..(Len(messages) + 1) : MergeForeign(f, place)
    \/ \E p \in Publishers : Publish(p)
    \/ \E w \in Watchers : Attach(w) \/ Detach(w) \/ Stream(w)

(* While some task can run, one runs. Nothing is assumed of harnesses,      *)
(* users and other devices.                                                 *)
Tasks == Writer \/ (\E p \in Publishers : Publish(p)) \/ (\E w \in Watchers : Stream(w))
Fairness == WF_vars(Tasks)

Spec == Init /\ [][Next]_vars /\ Fairness

-----------------------------------------------------------------------------
(* Properties *)

(* A segment that was finished stands in the document as its run folded it, *)
(* in an entry of its own, and nobody else's entry is touched, unless an    *)
(* entry was put before the one being written: then its number names        *)
(* another (schema.rs:577-700).                                             *)
SegmentsWhole ==
    ~displaced =>
        \A i \in DOMAIN messages :
            IF messages[i].id \in Segments
            THEN messages[i].id < run.segment =>
                    /\ messages[i].parts = said[messages[i].id]
                    /\ messages[i].status # "streaming"
            ELSE messages[i] = MessageOf(messages[i].id)

(* "Incremental streaming writer for one assistant entry" (schema.rs:568):  *)
(* whatever is merged into the list meanwhile, what other authors put there *)
(* stays as they wrote it. TLC refutes it: SegmentsWhole excuses a writer   *)
(* that has lost its place.                                                 *)
WriterKeepsToItsEntry ==
    \A i \in DOMAIN messages :
        messages[i].id \notin Segments => messages[i] = MessageOf(messages[i].id)

(* A consumer holds exactly what its stream last saw, and the frame from    *)
(* there to what the watch holds now brings it exactly there and is not     *)
(* refused: across merges into the middle, streamed tails, settled tools    *)
(* and publications that go back (transcript_delta.rs:112-248). Unless a    *)
(* writer has lost its place: it may put parts of one name into one entry,  *)
(* and an append goes by the name.                                          *)
FramesReplay ==
    ~displaced =>
        \A w \in Watchers : pub[w] = "on" => \A entries \in prev[w] :
            /\ copy[w] = entries
            /\ Apply(entries, Diff(entries, mirror)) = [ok |-> TRUE, entries |-> mirror]

(* "a commit racing this attach then sees a live receiver and publishes,    *)
(* instead of [...] leaving the new watcher a cleared mirror"               *)
(* (doc_host.rs:197-199): with nothing under way, an attached watcher's     *)
(* watch has the transcript.                                                *)
AttachedSeesAll ==
    (~woken /\ pub[Task] = "on" /\ \A p \in Publishers : ~Publishing(p)) =>
        \A w \in Watchers : pub[w] = "on" => mirror = messages

(* So it has, unless an attach fell between chat_task's look at the number  *)
(* of receivers and its clearing, or two publications crossed; and the next *)
(* commit heals both (doc_host.rs:194-205, 293-319).                        *)
StaleNeedsOverlap == overlap \/ AttachedSeesAll

(* Consumers end up with the transcript, unless publications overlapped or a*)
(* writer has lost its place: a frame may then be refused or misapplied     *)
(* (doc_host.rs:293-319, transcript_delta.rs:167-248).                      *)
WatchersSettle ==
    <>[](\A w \in Watchers : pub[w] = "on" => copy[w] = messages \/ overlap \/ displaced)
=============================================================================
