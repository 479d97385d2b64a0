-------------------------- MODULE Transcript_proofs --------------------------
(* Theorems about Transcript: type correctness; an attached watcher whose   *)
(* watch is stale has seen an overlap of its attach with a publication; a   *)
(* finished segment stands in the document as its run folded it; and every  *)
(* frame brings its consumer to what the watch holds.                       *)
EXTENDS Transcript, TranscriptDelta_proofs

-----------------------------------------------------------------------------
(* Type correctness *)

PC == {"fold", "index", "push", "sync", "stamp"}
Places == {"off", "load", "read", "send", "on", "check", "mark", "clear"}

DocType == messages \in Seq(Entry) /\ woken \in BOOLEAN /\ displaced \in BOOLEAN

(* What a part has become since.                                            *)
Grew(old, new) ==
    /\ Len(old) <= Len(new)
    /\ \A i \in 1..Len(old) :
          /\ new[i].id = old[i].id /\ new[i].kind = old[i].kind /\ old[i].n <= new[i].n
Numbered(parts) == \A i \in 1..Len(parts) : parts[i].id = i - 1

RunType ==
    /\ run \in Run /\ said \in [Segments -> Seq(Part)] /\ events \in 0..MaxEvents
    /\ Numbered(run.folded) /\ Grew(run.written, run.folded)

WriterInv ==
    /\ run.pc # "push" => run.at <= Len(messages)
    /\ run.at <= Len(messages) + 1
    /\ run.pc = "index" => run.at = 0
    /\ run.pc \in {"push", "sync", "stamp"} => run.at # 0
    /\ run.pc # "fold" \/ run.folded # <<>> => run.segment \in Segments
    /\ run.at = 0 \/ run.pc = "push" => run.written = <<>>
    /\ run.ending => run.pc # "fold" /\ said[run.segment] = run.folded
    /\ run.pc = "stamp" => run.ending

WatchType ==
    /\ pub \in [Publishers -> Places]
    /\ got \in [Publishers -> Seq(Entry)]
    /\ dirty \in BOOLEAN
    /\ mirror \in Seq(Entry)
    /\ unseen \subseteq Watchers
    /\ prev \in [Watchers -> SUBSET Seq(Entry)]
    /\ copy \in [Watchers -> Seq(Entry)]
    /\ attaches \in 0..MaxAttaches
    /\ overlap \in BOOLEAN

TypeInv == DocType /\ RunType /\ WriterInv /\ WatchType

LEMMA TypeInvEnough == TypeInv => TypeOK
<1> SUFFICES ASSUME TypeInv PROVE TypeOK
  OBVIOUS
<1> USE DEF TypeInv
<1>1. run.at \in 0..(Len(messages) + 1)
  <2>1. run.at \in Nat /\ Len(messages) \in Nat
    BY DEF DocType, RunType, Run
  <2> QED
    BY <2>1 DEF WriterInv
<1> QED
  BY <1>1 DEF TypeOK, DocType, RunType, Grew, WatchType, Places

LEMMA TypeInit == Init => TypeInv
<1> SUFFICES ASSUME Init PROVE TypeInv
  OBVIOUS
<1> USE TranscriptAssumption
<1>0. <<>> \in Seq(Entry) /\ <<>> \in Seq(Part) /\ Len(<<>>) = 0
  OBVIOUS
<1>1. DocType
  BY <1>0 DEF Init, DocType
<1>2. 1 \in 1..(MaxSegments + 1)
  OBVIOUS
<1>3. RunType
  <2>1. Fresh(1) \in Run
    BY <1>0, <1>2 DEF Fresh, Run
  <2>2. Numbered(<<>>) /\ Grew(<<>>, <<>>)
    BY <1>0 DEF Numbered, Grew
  <2> QED
    BY <1>0, <2>1, <2>2 DEF Init, RunType, Fresh
<1>4. WriterInv
  BY <1>0 DEF Init, WriterInv, Fresh
<1>5. WatchType
  <2>1. pub \in [Publishers -> Places]
    BY DEF Init, Places
  <2>2. got \in [Publishers -> Seq(Entry)] /\ mirror \in Seq(Entry)
    BY <1>0 DEF Init
  <2>3. prev \in [Watchers -> SUBSET Seq(Entry)]
    BY DEF Init, NotYet
  <2>4. copy \in [Watchers -> Seq(Entry)]
    BY <1>0 DEF Init
  <2>5. dirty \in BOOLEAN /\ overlap \in BOOLEAN /\ unseen \subseteq Watchers
    BY Zenon DEF Init
  <2>6. attaches \in 0..MaxAttaches
    BY DEF Init
  <2> QED
    BY <2>1, <2>2, <2>3, <2>4, <2>5, <2>6 DEF WatchType
<1> QED
  BY <1>1, <1>3, <1>4, <1>5 DEF TypeInv

(* Where the entries of a document are after one has been put between them. *)
LEMMA Inserted ==
  ASSUME TypeInv, NEW entry \in Entry, NEW place \in 1..(Len(messages) + 1),
         messages' = InsertAt(messages, place, entry)
  PROVE  /\ messages' \in Seq(Entry) /\ Len(messages') = Len(messages) + 1
         /\ \A i \in 1..(Len(messages) + 1) :
               messages'[i] = IF i < place THEN messages[i] ELSE IF i = place THEN entry
                              ELSE messages[i - 1]
<1>1. messages \in Seq(Entry)
  BY DEF TypeInv, DocType
<1> DEFINE list == InsertAt(messages, place, entry)
<1>2. /\ list \in Seq(Entry) /\ Len(list) = Len(messages) + 1
      /\ \A i \in 1..(Len(messages) + 1) :
            list[i] = IF i < place THEN messages[i] ELSE IF i = place THEN entry
                      ELSE messages[i - 1]
  <2>1. PICK E, old : E = Entry /\ old = messages
    OBVIOUS
  <2>2. old \in Seq(E) /\ entry \in E /\ place \in 1..(Len(old) + 1)
    BY <1>1, <2>1
  <2>3. list = InsertAt(old, place, entry)
    BY <2>1
  <2> HIDE DEF list
  <2>4. list \in Seq(E) /\ PutAt(list, old, place, entry)
    BY <2>2, <2>3, InsertAtPuts
  <2> QED
    BY <2>1, <2>4 DEF PutAt
<1>3. messages' = list
  OBVIOUS
<1> HIDE DEF list
<1> QED
  BY <1>2, <1>3

(* Entries of others come and go without the run.                           *)
LEMMA InsertType ==
  ASSUME TypeInv, NEW entry \in Entry, NEW place \in 1..(Len(messages) + 1),
         Inserts(entry, place), UNCHANGED <<runVars, watchVars>>
  PROVE  TypeInv'
<1> USE DEF TypeInv
<1>1. messages \in Seq(Entry) /\ Len(messages) \in Nat
  BY DEF DocType
<1>2. messages' \in Seq(Entry) /\ Len(messages') = Len(messages) + 1
  BY Inserted DEF Inserts
<1>3. DocType'
  BY <1>2 DEF DocType, Inserts, Bumped
<1>4. RunType' /\ WatchType'
  BY DEF RunType, WatchType, runVars, watchVars, mirrorVars, streamVars
<1>5. WriterInv'
  <2>1. run.at \in Nat
    BY DEF RunType, Run
  <2>2. run' = run /\ said' = said
    BY DEF runVars
  <2> QED
    BY <1>1, <1>2, <2>1, <2>2 DEF WriterInv
<1> QED
  BY <1>3, <1>4, <1>5

LEMMA MessageType ==
  ASSUME NEW id \in Users \cup Foreign
  PROVE  MessageOf(id) \in Entry
<1>1. [id |-> 0, kind |-> "text", n |-> 1] \in Part
  BY DEF Part
<1>2. <<[id |-> 0, kind |-> "text", n |-> 1]>> \in Seq(Part)
  BY <1>1
<1> QED
  BY <1>2 DEF MessageOf, Entry, EntryOf, Names

LEMMA FoldsType ==
  ASSUME TypeInv, NEW parts, Folds(parts), parts \in Seq(Part), parts # <<>>,
         Numbered(parts), Grew(run.folded, parts)
  PROVE  TypeInv'
<1> USE DEF TypeInv
<1>1. run \in Run
  BY DEF RunType
<1>2. run' = [run EXCEPT !.folded = parts] /\ run' \in Run
  BY <1>1 DEF Folds, Run
<1>3. Grew(run.written, parts)
  <2>0. /\ run.written \in Seq(Part) /\ run.folded \in Seq(Part) /\ Len(run.folded) \in Nat
        /\ Len(run.written) \in Nat
    BY <1>1 DEF Run
  <2>1. /\ Len(run.written) <= Len(run.folded) /\ Len(run.folded) <= Len(parts)
        /\ Len(parts) \in Nat
    BY DEF RunType, Grew
  <2>2. ASSUME NEW i \in 1..Len(run.written)
        PROVE  /\ parts[i].id = run.written[i].id /\ parts[i].kind = run.written[i].kind
               /\ run.written[i].n <= parts[i].n
    <3>1. i \in 1..Len(run.folded) /\ i \in 1..Len(parts)
      BY <2>0, <2>1
    <3>2. run.written[i] \in Part /\ run.folded[i] \in Part /\ parts[i] \in Part
      BY <2>0, <3>1
    <3>3. /\ parts[i].id = run.folded[i].id /\ parts[i].kind = run.folded[i].kind
          /\ run.folded[i].n <= parts[i].n
      BY <3>1 DEF Grew
    <3>4. /\ run.folded[i].id = run.written[i].id /\ run.folded[i].kind = run.written[i].kind
          /\ run.written[i].n <= run.folded[i].n
      BY DEF RunType, Grew
    <3>5. parts[i].n \in Nat /\ run.folded[i].n \in Nat /\ run.written[i].n \in Nat
      BY <3>2 DEF Part
    <3> HIDE DEF TypeInv
    <3> QED
      BY <3>3, <3>4, <3>5
  <2> QED
    BY <2>0, <2>1, <2>2 DEF Grew
<1>4. RunType'
  <2>1. events' \in 0..MaxEvents
    BY TranscriptAssumption DEF Folds, RunType
  <2>2. run'.folded = parts /\ run'.written = run.written
    BY <1>1, <1>2 DEF Run
  <2> QED
    BY <1>2, <1>3, <2>1, <2>2 DEF RunType, Folds
<1>5. WriterInv'
  <2>1. /\ run'.pc = "fold" /\ run.pc = "fold" /\ run'.at = run.at /\ run'.written = run.written
        /\ run'.ending = run.ending /\ run'.segment = run.segment /\ run.segment \in Segments
    BY <1>1, <1>2 DEF Folds, Run
  <2> QED
    BY <2>1 DEF WriterInv, Folds, docVars
<1>6. DocType' /\ WatchType'
  BY DEF Folds, DocType, WatchType, docVars, watchVars, mirrorVars, streamVars
<1> QED
  BY <1>4, <1>5, <1>6

LEMMA PartNumber == \A part \in Part : part.n \in Nat
BY DEF Part

(* The three things a harness's event does to the fold.                     *)
LEMMA WithTextGrew ==
  ASSUME NEW parts \in Seq(Part), Numbered(parts)
  PROVE  /\ WithText(parts) \in Seq(Part) /\ WithText(parts) # <<>>
         /\ Numbered(WithText(parts)) /\ Grew(parts, WithText(parts))
<1>0. Len(parts) \in Nat
  OBVIOUS
<1>1. CASE parts # <<>> /\ Last(parts).kind = "text"
  <2>1. Len(parts) \in 1..Len(parts) /\ parts[Len(parts)] \in Part
    BY <1>0, <1>1
  <2> DEFINE part == parts[Len(parts)]
             new == [part EXCEPT !.n = @ + 1]
  <2>2. /\ new \in Part /\ new.id = part.id /\ new.kind = part.kind /\ part.n <= new.n
    BY <2>1 DEF Part
  <2>3. WithText(parts) = [parts EXCEPT ![Len(parts)] = new]
    BY <1>1 DEF WithText
  <2> HIDE DEF new
  <2>4. /\ WithText(parts) \in Seq(Part) /\ Len(WithText(parts)) = Len(parts)
        /\ \A i \in 1..Len(parts) :
              WithText(parts)[i] = IF i = Len(parts) THEN new ELSE parts[i]
    BY <2>1, <2>2, <2>3
  <2>5. ASSUME NEW i \in 1..Len(parts)
        PROVE  /\ WithText(parts)[i].id = parts[i].id
               /\ WithText(parts)[i].kind = parts[i].kind
               /\ parts[i].n <= WithText(parts)[i].n
    <3>1. parts[i].n \in Nat
      BY PartNumber
    <3> QED
      BY <2>2, <2>4, <3>1
  <2>6. WithText(parts) # <<>>
    BY <2>1, <2>4
  <2> QED
    BY <1>0, <2>4, <2>5, <2>6 DEF Numbered, Grew
<1>2. CASE ~(parts # <<>> /\ Last(parts).kind = "text")
  <2> DEFINE new == [id |-> Len(parts), kind |-> "text", n |-> 1]
  <2>1. new \in Part /\ new.id = Len(parts)
    BY <1>0 DEF Part
  <2>2. WithText(parts) = Append(parts, new)
    BY <1>2 DEF WithText
  <2> HIDE DEF new
  <2>3. /\ WithText(parts) \in Seq(Part) /\ Len(WithText(parts)) = Len(parts) + 1
        /\ \A i \in 1..(Len(parts) + 1) :
              WithText(parts)[i] = IF i = Len(parts) + 1 THEN new ELSE parts[i]
    BY <1>0, <2>1, <2>2
  <2>4. Numbered(WithText(parts))
    BY <1>0, <2>1, <2>3 DEF Numbered
  <2>5. \A i \in 1..Len(parts) : parts[i].n \in Nat
    BY PartNumber
  <2>6. Grew(parts, WithText(parts))
    BY <1>0, <2>3, <2>5 DEF Grew
  <2> QED
    BY <1>0, <2>3, <2>4, <2>6
<1> QED
  BY <1>1, <1>2

LEMMA WithToolGrew ==
  ASSUME NEW parts \in Seq(Part), Numbered(parts)
  PROVE  /\ WithTool(parts) \in Seq(Part) /\ WithTool(parts) # <<>>
         /\ Numbered(WithTool(parts)) /\ Grew(parts, WithTool(parts))
<1>0. Len(parts) \in Nat
  OBVIOUS
<1> DEFINE new == [id |-> Len(parts), kind |-> "tool", n |-> 0]
<1>1. new \in Part /\ new.id = Len(parts)
  BY <1>0 DEF Part
<1>2. WithTool(parts) = Append(parts, new)
  BY DEF WithTool
<1> HIDE DEF new
<1>3. /\ WithTool(parts) \in Seq(Part) /\ Len(WithTool(parts)) = Len(parts) + 1
      /\ \A i \in 1..(Len(parts) + 1) :
            WithTool(parts)[i] = IF i = Len(parts) + 1 THEN new ELSE parts[i]
  BY <1>0, <1>1, <1>2
<1>4. Numbered(WithTool(parts))
  BY <1>0, <1>1, <1>3 DEF Numbered
<1>5. \A i \in 1..Len(parts) : parts[i].n \in Nat
  BY PartNumber
<1>6. Grew(parts, WithTool(parts))
  BY <1>0, <1>3, <1>5 DEF Grew
<1> QED
  BY <1>0, <1>3, <1>4, <1>6

LEMMA ResolvedGrew ==
  ASSUME NEW parts \in Seq(Part), Numbered(parts), NEW j \in DOMAIN parts, parts[j].n = 0
  PROVE  /\ Resolved(parts, j) \in Seq(Part) /\ Resolved(parts, j) # <<>>
         /\ Numbered(Resolved(parts, j)) /\ Grew(parts, Resolved(parts, j))
<1>0. Len(parts) \in Nat /\ j \in 1..Len(parts) /\ parts[j] \in Part
  OBVIOUS
<1> DEFINE new == [parts[j] EXCEPT !.n = 1]
<1>1. new \in Part /\ new.id = parts[j].id /\ new.kind = parts[j].kind /\ new.n = 1
  BY <1>0 DEF Part
<1>2. Resolved(parts, j) = [parts EXCEPT ![j] = new]
  BY DEF Resolved
<1> HIDE DEF new
<1>3. /\ Resolved(parts, j) \in Seq(Part) /\ Len(Resolved(parts, j)) = Len(parts)
      /\ \A i \in 1..Len(parts) : Resolved(parts, j)[i] = IF i = j THEN new ELSE parts[i]
  BY <1>0, <1>1, <1>2
<1>4. ASSUME NEW i \in 1..Len(parts)
      PROVE  /\ Resolved(parts, j)[i].id = parts[i].id
             /\ Resolved(parts, j)[i].kind = parts[i].kind
             /\ parts[i].n <= Resolved(parts, j)[i].n
  <2>1. parts[i].n \in Nat
    BY PartNumber
  <2> QED
    BY <1>1, <1>3, <2>1
<1>5. Resolved(parts, j) # <<>>
  BY <1>0, <1>3
<1> QED
  BY <1>0, <1>3, <1>4, <1>5 DEF Numbered, Grew

LEMMA EventType ==
  ASSUME TypeInv, TextDelta \/ ToolCall \/ ToolResult
  PROVE  TypeInv'
<1>1. run.folded \in Seq(Part) /\ Numbered(run.folded)
  BY DEF TypeInv, RunType, Run
<1>2. CASE TextDelta
  BY <1>1, <1>2, WithTextGrew, FoldsType DEF TextDelta
<1>3. CASE ToolCall
  BY <1>1, <1>3, WithToolGrew, FoldsType DEF ToolCall
<1>4. CASE ToolResult
  <2>1. PICK j \in DOMAIN run.folded :
            run.folded[j].n = 0 /\ Folds(Resolved(run.folded, j))
    BY <1>4 DEF ToolResult
  <2> QED
    BY <1>1, <2>1, ResolvedGrew, FoldsType
<1> QED
  BY <1>2, <1>3, <1>4

(* The writer.                                                              *)
LEMMA TickType ==
  ASSUME TypeInv, Tick PROVE TypeInv'
<1> USE DEF TypeInv
<1>1. run \in Run /\ run.pc = "fold"
  BY DEF RunType, Tick
<1> DEFINE pc == IF run.at = 0 THEN "index" ELSE "sync"
<1>2. run' = [run EXCEPT !.pc = pc] /\ pc \in {"index", "sync"}
  BY DEF Tick
<1>3. pc = "sync" => run.at # 0
  OBVIOUS
<1>4. pc = "index" => run.at = 0
  OBVIOUS
<1> HIDE DEF pc
<1>5. /\ run' \in Run /\ run'.pc = pc /\ run'.at = run.at /\ run'.segment = run.segment
      /\ run'.folded = run.folded /\ run'.written = run.written /\ run'.ending = run.ending
  BY <1>1, <1>2 DEF Run
<1>6. messages' = messages /\ said' = said /\ events' = events
  BY DEF Tick, docVars
<1>7. run.folded # <<>>
  <2>1. run.folded = <<>> => run.written = <<>>
    <3>1. run.written \in Seq(Part) /\ run.folded \in Seq(Part)
      BY <1>1 DEF Run
    <3>2. Len(run.written) <= Len(run.folded)
      BY DEF RunType, Grew
    <3> QED
      BY <3>1, <3>2
  <2> QED
    BY <2>1 DEF Tick
<1>8. RunType'
  BY <1>5, <1>6 DEF RunType
<1>9. WriterInv'
  BY <1>1, <1>2, <1>3, <1>4, <1>5, <1>6, <1>7 DEF WriterInv
<1>10. DocType' /\ WatchType'
  BY DEF Tick, DocType, WatchType, docVars, watchVars, mirrorVars, streamVars
<1> QED
  BY <1>8, <1>9, <1>10

LEMMA BoundaryType ==
  ASSUME TypeInv, Boundary PROVE TypeInv'
<1> USE DEF TypeInv
<1>1. /\ run \in Run /\ run.pc = "fold" /\ run.folded # <<>> /\ run.segment \in Segments
  BY DEF RunType, Boundary, WriterInv
<1> DEFINE pc == Writes(run.at)
<1>2. run' = [run EXCEPT !.pc = pc, !.ending = TRUE] /\ pc \in {"index", "sync"}
  BY DEF Boundary, Writes
<1>3. (pc = "sync" => run.at # 0) /\ (pc = "index" => run.at = 0)
  BY DEF Writes
<1> HIDE DEF pc
<1>4. /\ run' \in Run /\ run'.pc = pc /\ run'.at = run.at /\ run'.segment = run.segment
      /\ run'.folded = run.folded /\ run'.written = run.written /\ run'.ending = TRUE
  BY <1>1, <1>2 DEF Run
<1>5. messages' = messages /\ events' = events
  BY DEF Boundary, docVars
<1>6. said' \in [Segments -> Seq(Part)] /\ said'[run.segment] = run.folded
  BY <1>1 DEF Boundary, RunType, Run
<1>7. RunType'
  BY <1>4, <1>5, <1>6 DEF RunType
<1>8. WriterInv'
  BY <1>1, <1>2, <1>3, <1>4, <1>5, <1>6 DEF WriterInv
<1>9. DocType' /\ WatchType'
  BY DEF Boundary, DocType, WatchType, docVars, watchVars, mirrorVars, streamVars
<1> QED
  BY <1>7, <1>8, <1>9

LEMMA BeginType ==
  ASSUME TypeInv, BeginIndex \/ BeginPush PROVE TypeInv'
<1> USE DEF TypeInv
<1>0. run \in Run /\ messages \in Seq(Entry) /\ Len(messages) \in Nat
  BY DEF RunType, DocType
<1>1. CASE BeginIndex
  <2> DEFINE at == Len(messages) + 1
  <2>1. run' = [run EXCEPT !.pc = "push", !.at = at] /\ run.pc = "index"
    BY <1>1 DEF BeginIndex
  <2>0. at \in Nat /\ at <= Len(messages) + 1 /\ at # 0
    BY <1>0
  <2> HIDE DEF at
  <2>2. /\ run' \in Run /\ run'.pc = "push" /\ run'.at = at
        /\ run'.segment = run.segment /\ run'.folded = run.folded
        /\ run'.written = run.written /\ run'.ending = run.ending
    BY <1>0, <2>0, <2>1 DEF Run
  <2>3. messages' = messages /\ said' = said /\ events' = events
    BY <1>1 DEF BeginIndex, docVars
  <2>4. RunType'
    BY <2>2, <2>3 DEF RunType
  <2>5. WriterInv'
    BY <1>0, <2>0, <2>1, <2>2, <2>3 DEF WriterInv
  <2>6. DocType' /\ WatchType'
    BY <1>1 DEF BeginIndex, DocType, WatchType, docVars, watchVars, mirrorVars, streamVars
  <2> QED
    BY <2>4, <2>5, <2>6
<1>2. CASE BeginPush
  <2> DEFINE entry == [id |-> run.segment, status |-> "streaming", parts |-> <<>>]
  <2>1. run.pc = "push" /\ run.segment \in Segments /\ run' = [run EXCEPT !.pc = "sync"]
    BY <1>2 DEF BeginPush, WriterInv
  <2>2. /\ run' \in Run /\ run'.pc = "sync" /\ run'.at = run.at
        /\ run'.segment = run.segment /\ run'.folded = run.folded
        /\ run'.written = run.written /\ run'.ending = run.ending
    BY <1>0, <2>1 DEF Run
  <2>3. entry \in Entry
    BY <2>1 DEF Entry, EntryOf, Names
  <2>4. messages' = Append(messages, entry) /\ said' = said /\ events' = events
    BY <1>2 DEF BeginPush
  <2> HIDE DEF entry
  <2>5. messages' \in Seq(Entry) /\ Len(messages') = Len(messages) + 1
    BY <1>0, <2>3, <2>4
  <2>6. RunType'
    BY <2>2, <2>4 DEF RunType
  <2>7. WriterInv'
    <3>1. run.at \in Nat
      BY <1>0 DEF Run
    <3> QED
      BY <1>0, <2>1, <2>2, <2>4, <2>5, <3>1 DEF WriterInv
  <2>8. DocType' /\ WatchType'
    BY <1>2, <2>5 DEF BeginPush, DocType, WatchType, watchVars, mirrorVars, streamVars, Bumped
  <2> QED
    BY <2>6, <2>7, <2>8
<1> QED
  BY <1>1, <1>2

(* What sync makes of an entry's parts, and of its own record of them.      *)
LEMMA SyncTypes ==
  ASSUME RunType, NEW parts \in Seq(Part)
  PROVE  /\ SyncParts(parts) \in Seq(Part)
         /\ Noted(parts) \in Seq(Part) /\ Grew(Noted(parts), run.folded)
<1> DEFINE written == run.written
           folded == run.folded
           first == [i \in DOMAIN parts |->
                       IF i \in DOMAIN written /\ Reached(parts, i)
                       THEN SyncPart(parts[i], written[i], folded[i]) ELSE parts[i]]
           new == IF Lost(parts) = {} THEN SubSeq(folded, Len(written) + 1, Len(folded))
                                      ELSE <<>>
           noted == [i \in DOMAIN written |-> IF Reached(parts, i) THEN folded[i] ELSE written[i]]
<1>0. /\ written \in Seq(Part) /\ folded \in Seq(Part)
      /\ Len(written) \in Nat /\ Len(folded) \in Nat /\ Len(parts) \in Nat
      /\ Len(written) <= Len(folded)
  BY DEF RunType, Run, Grew
<1>1. ASSUME NEW i \in 1..Len(written)
      PROVE  /\ written[i] \in Part /\ folded[i] \in Part
             /\ folded[i].id = written[i].id /\ folded[i].kind = written[i].kind
             /\ written[i].n <= folded[i].n
  <2>1. i \in 1..Len(folded)
    BY <1>0
  <2> QED
    BY <1>0, <2>1 DEF RunType, Grew
<1>2. SyncParts(parts) = first \o new /\ Noted(parts) = IF Lost(parts) = {} THEN folded ELSE noted
  BY DEF SyncParts, Noted
<1>3. ASSUME NEW i \in 1..Len(parts) PROVE first[i] \in Part
  <2>1. parts[i] \in Part
    OBVIOUS
  <2>2. CASE i \in DOMAIN written /\ Reached(parts, i)
    <3>1. i \in 1..Len(written)
      BY <1>0, <2>2
    <3> DEFINE old == written[i]
               now == folded[i]
               part == parts[i]
    <3>2. old \in Part /\ now \in Part /\ part \in Part /\ old.n <= now.n
      BY <1>1, <2>1, <3>1
    <3>3. first[i] = SyncPart(part, old, now)
      BY <2>2
    <3> HIDE DEF old, now, part, first
    <3>4. part.n + (now.n - old.n) \in Nat /\ now.n \in Nat
      BY <3>2 DEF Part
    <3>5. [part EXCEPT !.n = part.n + (now.n - old.n)] \in Part
      BY <3>2, <3>4 DEF Part
    <3>6. [part EXCEPT !.n = now.n] \in Part
      BY <3>2, <3>4 DEF Part
    <3> QED
      BY <3>2, <3>3, <3>5, <3>6 DEF SyncPart
  <2>3. CASE ~(i \in DOMAIN written /\ Reached(parts, i))
    BY <2>1, <2>3
  <2> QED
    BY <2>2, <2>3
<1>4. first \in Seq(Part)
  <2>1. first = [i \in 1..Len(parts) |-> first[i]]
    OBVIOUS
  <2> HIDE DEF first
  <2> QED
    BY <1>0, <1>3, <2>1
<1>5. new \in Seq(Part)
  <2>1. SubSeq(folded, Len(written) + 1, Len(folded)) \in Seq(Part)
    BY <1>0
  <2>2. <<>> \in Seq(Part)
    OBVIOUS
  <2> QED
    BY <2>1, <2>2
<1>6. SyncParts(parts) \in Seq(Part)
  <2> HIDE DEF first, new
  <2> QED
    BY <1>2, <1>4, <1>5, ConcatProperties
<1>7. noted \in Seq(Part) /\ Len(noted) = Len(written) /\ DOMAIN noted = 1..Len(written)
  <2>1. \A i \in 1..Len(written) : noted[i] \in Part
    BY <1>0, <1>1
  <2>2. noted = [i \in 1..Len(written) |-> noted[i]]
    BY <1>0
  <2> HIDE DEF noted, written, folded
  <2> QED
    BY <1>0, <2>1, <2>2, ListOf
<1>8. Grew(noted, folded)
  <2>1. ASSUME NEW i \in 1..Len(written)
        PROVE  /\ folded[i].id = noted[i].id /\ folded[i].kind = noted[i].kind
               /\ noted[i].n <= folded[i].n
    <3>1. folded[i].n \in Nat /\ (noted[i] = folded[i] \/ noted[i] = written[i])
      BY <1>0, <1>1, PartNumber
    <3> HIDE DEF noted, written, folded
    <3> QED
      BY <1>1, <3>1
  <2> HIDE DEF noted
  <2> QED
    BY <1>0, <1>7, <2>1 DEF Grew
<1>9. Grew(folded, folded)
  <2>1. \A i \in 1..Len(folded) : folded[i].n \in Nat
    BY <1>0, PartNumber
  <2> QED
    BY <1>0, <2>1 DEF Grew
<1> HIDE DEF noted, first, new, written, folded
<1> QED
  BY <1>0, <1>2, <1>6, <1>7, <1>8, <1>9 DEF folded

LEMMA FreshType ==
  ASSUME NEW s \in 1..(MaxSegments + 1)
  PROVE  /\ Fresh(s) \in Run /\ Numbered(Fresh(s).folded)
         /\ Grew(Fresh(s).written, Fresh(s).folded)
<1>1. <<>> \in Seq(Part) /\ Len(<<>>) = 0
  OBVIOUS
<1>2. Numbered(<<>>) /\ Grew(<<>>, <<>>)
  BY <1>1 DEF Numbered, Grew
<1> QED
  BY <1>1, <1>2 DEF Fresh, Run

LEMMA SyncType ==
  ASSUME TypeInv, Sync PROVE TypeInv'
<1> USE DEF TypeInv
<1> DEFINE entry == messages[run.at]
           parts == entry.parts
           noted == Noted(parts)
           next == [run EXCEPT !.written = noted]
<1>0. /\ run \in Run /\ messages \in Seq(Entry) /\ Len(messages) \in Nat /\ run.pc = "sync"
      /\ run.segment \in Segments /\ run.at \in 1..Len(messages)
  BY DEF RunType, DocType, Sync, WriterInv, Run
<1>1. entry \in Entry /\ parts \in Seq(Part)
  <2>1. entry \in Entry
    BY <1>0
  <2> HIDE DEF entry
  <2> QED
    BY <2>1 DEF Entry, EntryOf, Names
<1>2. noted \in Seq(Part) /\ Grew(noted, run.folded) /\ SyncParts(parts) \in Seq(Part)
  BY <1>1, SyncTypes
<1>3. messages' \in Seq(Entry) /\ Len(messages') = Len(messages)
  <2> DEFINE new == [entry EXCEPT !.parts = SyncParts(parts)]
  <2>1. new \in Entry
    BY <1>1, <1>2 DEF Entry, EntryOf, Names
  <2>2. messages' = [messages EXCEPT ![run.at] = new]
    BY Zenon DEF Sync
  <2> HIDE DEF new
  <2> QED
    BY <1>0, <2>1, <2>2
<1>4. woken' \in BOOLEAN /\ displaced' = displaced /\ said' = said /\ events' = events
  <2>1. woken' = (woken \/ messages' # messages)
    BY DEF Sync
  <2> QED
    BY <2>1 DEF Sync
<1>5. run' = IF ~run.ending THEN [next EXCEPT !.pc = "fold"]
             ELSE IF Lost(parts) = {} THEN [next EXCEPT !.pc = "stamp"]
             ELSE Fresh(run.segment + 1)
  BY Zenon DEF Sync
<1> HIDE DEF entry, parts, noted
<1>6. ASSUME NEW pc \in {"fold", "stamp"}, pc = "stamp" => run.ending,
             pc = "fold" => ~run.ending,
             run' = [next EXCEPT !.pc = pc]
      PROVE  RunType' /\ WriterInv'
  <2>1. /\ run' \in Run /\ run'.pc = pc /\ run'.at = run.at
        /\ run'.segment = run.segment /\ run'.folded = run.folded
        /\ run'.written = noted /\ run'.ending = run.ending
    BY <1>0, <1>2, <1>6 DEF Run
  <2>2. RunType'
    BY <1>2, <1>4, <2>1 DEF RunType
  <2>3. WriterInv'
    BY <1>0, <1>3, <1>4, <1>6, <2>1 DEF WriterInv
  <2> QED
    BY <2>2, <2>3
<1>7. ASSUME run' = Fresh(run.segment + 1)
      PROVE  RunType' /\ WriterInv'
  <2>1. run.segment + 1 \in 1..(MaxSegments + 1)
    BY <1>0, TranscriptAssumption DEF Segments
  <2>2. RunType'
    BY <1>4, <1>7, <2>1, FreshType DEF RunType
  <2>3. WriterInv'
    BY <1>0, <1>3, <1>7 DEF WriterInv, Fresh
  <2> QED
    BY <2>2, <2>3
<1>8. RunType' /\ WriterInv'
  BY <1>5, <1>6, <1>7
<1>9. DocType' /\ WatchType'
  BY <1>3, <1>4 DEF Sync, DocType, WatchType, watchVars, mirrorVars, streamVars
<1> QED
  BY <1>8, <1>9

LEMMA StampType ==
  ASSUME TypeInv, Stamp PROVE TypeInv'
<1> USE DEF TypeInv
<1> DEFINE entry == messages[run.at]
<1>0. /\ run \in Run /\ messages \in Seq(Entry) /\ Len(messages) \in Nat /\ run.pc = "stamp"
      /\ run.segment \in Segments /\ run.at \in 1..Len(messages)
  BY DEF RunType, DocType, Stamp, WriterInv, Run
<1>1. entry \in Entry
  BY <1>0
<1>2. messages' \in Seq(Entry) /\ Len(messages') = Len(messages)
  <2> DEFINE new == [entry EXCEPT !.status = "settled"]
  <2>1. new \in Entry
    BY <1>1 DEF Entry, EntryOf, Names
  <2>2. messages' = [messages EXCEPT ![run.at] = new]
    BY Zenon DEF Stamp
  <2> HIDE DEF new
  <2> QED
    BY <1>0, <2>1, <2>2
<1>3. run' = Fresh(run.segment + 1) /\ said' = said /\ events' = events
  BY DEF Stamp, NextSegment
<1>4. run.segment + 1 \in 1..(MaxSegments + 1)
  BY <1>0, TranscriptAssumption DEF Segments
<1>5. RunType'
  BY <1>3, <1>4, FreshType DEF RunType
<1>6. WriterInv'
  BY <1>0, <1>2, <1>3 DEF WriterInv, Fresh
<1>7. DocType' /\ WatchType'
  BY <1>2 DEF Stamp, DocType, WatchType, watchVars, mirrorVars, streamVars, Bumped
<1> QED
  BY <1>5, <1>6, <1>7

(* The watch and its streams.                                               *)
LEMMA WatchOnly ==
  ASSUME TypeInv, UNCHANGED <<messages, displaced, runVars>>, woken' \in BOOLEAN, WatchType'
  PROVE  TypeInv'
BY DEF TypeInv, DocType, RunType, WriterInv, runVars

LEMMA PublisherIs ==
  /\ Task \in Publishers /\ Watchers \subseteq Publishers /\ Task \notin Watchers
BY TranscriptAssumption DEF Publishers

LEMMA TaskType ==
  ASSUME TypeInv, TaskWakes \/ Check \/ Mark \/ Clear
  PROVE  TypeInv'
<1>0. pub \in [Publishers -> Places] /\ overlap \in BOOLEAN /\ Task \in Publishers
  BY PublisherIs DEF TypeInv, WatchType
<1>1. CASE TaskWakes
  <2>1. overlap' \in BOOLEAN
    <3>1. overlap' = (overlap /\ \E w \in Watchers : pub[w] \in {"load", "read", "send"})
      BY <1>1 DEF TaskWakes
    <3> QED
      BY <3>1
  <2>2. pub' \in [Publishers -> Places]
    BY <1>0, <1>1 DEF TaskWakes, Places
  <2>3. WatchType'
    BY <1>1, <2>1, <2>2 DEF TypeInv, WatchType, TaskWakes, mirrorVars, streamVars
  <2> QED
    BY <1>1, <2>3, WatchOnly DEF TaskWakes
<1>2. CASE Check
  <2>1. pub' \in [Publishers -> Places]
    BY <1>0, <1>2 DEF Check, Places
  <2>2. WatchType'
    BY <1>2, <2>1 DEF TypeInv, WatchType, Check, mirrorVars, streamVars
  <2> QED
    BY <1>2, <2>2, WatchOnly DEF Check, docVars, TypeInv, DocType
<1>3. CASE Mark
  <2>1. pub' \in [Publishers -> Places]
    BY <1>0, <1>3 DEF Mark, Places
  <2>2. WatchType'
    BY <1>3, <2>1 DEF TypeInv, WatchType, Mark, streamVars
  <2> QED
    BY <1>3, <2>2, WatchOnly DEF Mark, docVars, TypeInv, DocType
<1>4. CASE Clear
  <2>1. pub' \in [Publishers -> Places]
    BY <1>0, <1>4 DEF Clear, Replaces, Places
  <2>2. mirror' \in Seq(Entry) /\ unseen' \subseteq Watchers
    BY <1>4 DEF Clear, Replaces
  <2>3. WatchType'
    BY <1>4, <2>1, <2>2 DEF TypeInv, WatchType, Clear, streamVars
  <2> QED
    BY <1>4, <2>3, WatchOnly DEF Clear, docVars, TypeInv, DocType
<1> QED
  BY <1>1, <1>2, <1>3, <1>4

LEMMA PublishType ==
  ASSUME TypeInv, NEW p \in Publishers, Read(p) \/ Send(p)
  PROVE  TypeInv'
<1>0. /\ pub \in [Publishers -> Places] /\ overlap \in BOOLEAN /\ messages \in Seq(Entry)
      /\ got \in [Publishers -> Seq(Entry)]
  BY DEF TypeInv, WatchType, DocType
<1>1. CASE Read(p)
  <2>1. pub' \in [Publishers -> Places]
    BY <1>0, <1>1 DEF Read, Places
  <2>2. overlap' \in BOOLEAN
    <3>1. overlap' = (overlap \/ \E q \in Publishers \ {p} : pub[q] = "send")
      BY <1>1 DEF Read
    <3> QED
      BY <1>0, <3>1
  <2>3. got' \in [Publishers -> Seq(Entry)]
    BY <1>0, <1>1 DEF Read
  <2>4. WatchType'
    BY <1>1, <2>1, <2>2, <2>3 DEF TypeInv, WatchType, Read, streamVars
  <2> QED
    BY <1>1, <2>4, WatchOnly DEF Read, docVars, TypeInv, DocType
<1>2. CASE Send(p)
  <2>1. pub' \in [Publishers -> Places]
    BY <1>0, <1>2 DEF Send, Replaces, Places
  <2>2. mirror' \in Seq(Entry) /\ unseen' \subseteq Watchers
    BY <1>0, <1>2 DEF Send, Replaces
  <2>3. got' \in [Publishers -> Seq(Entry)]
    <3>1. <<>> \in Seq(Entry)
      OBVIOUS
    <3> QED
      BY <1>0, <1>2, <3>1 DEF Send
  <2>4. WatchType'
    BY <1>2, <2>1, <2>2, <2>3 DEF TypeInv, WatchType, Send, streamVars
  <2> QED
    BY <1>2, <2>4, WatchOnly DEF Send, docVars, TypeInv, DocType
<1> QED
  BY <1>1, <1>2

LEMMA AttachType ==
  ASSUME TypeInv, NEW w \in Watchers, Attach(w) \/ Load(w) \/ Detach(w)
  PROVE  TypeInv'
<1>0. /\ pub \in [Publishers -> Places] /\ overlap \in BOOLEAN /\ w \in Publishers
      /\ prev \in [Watchers -> SUBSET Seq(Entry)] /\ copy \in [Watchers -> Seq(Entry)]
  BY PublisherIs DEF TypeInv, WatchType
<1>1. CASE Attach(w)
  <2>1. pub' \in [Publishers -> Places]
    BY <1>0, <1>1 DEF Attach, Places
  <2>2. overlap' \in BOOLEAN
    <3>1. overlap' = (overlap \/ pub[Task] \in {"mark", "clear"})
      BY <1>1 DEF Attach
    <3> QED
      BY <1>0, <3>1
  <2>3. attaches' \in 0..MaxAttaches
    BY <1>1, TranscriptAssumption DEF Attach, TypeInv, WatchType
  <2>4. WatchType'
    BY <1>1, <2>1, <2>2, <2>3 DEF TypeInv, WatchType, Attach, mirrorVars, streamVars
  <2> QED
    BY <1>1, <2>4, WatchOnly DEF Attach, docVars, TypeInv, DocType
<1>2. CASE Load(w)
  <2>1. pub' \in [Publishers -> Places]
    BY <1>0, <1>2 DEF Load, Places
  <2>2. WatchType'
    BY <1>2, <2>1 DEF TypeInv, WatchType, Load, mirrorVars, streamVars
  <2> QED
    BY <1>2, <2>2, WatchOnly DEF Load, docVars, TypeInv, DocType
<1>3. CASE Detach(w)
  <2>1. pub' \in [Publishers -> Places]
    BY <1>0, <1>3 DEF Detach, Places
  <2>2. prev' \in [Watchers -> SUBSET Seq(Entry)]
    BY <1>0, <1>3 DEF Detach, NotYet
  <2>3. copy' \in [Watchers -> Seq(Entry)]
    <3>1. <<>> \in Seq(Entry)
      OBVIOUS
    <3> QED
      BY <1>0, <1>3, <3>1 DEF Detach
  <2>4. WatchType'
    BY <1>3, <2>1, <2>2, <2>3 DEF TypeInv, WatchType, Detach, mirrorVars
  <2> QED
    BY <1>3, <2>4, WatchOnly DEF Detach, docVars, TypeInv, DocType
<1> QED
  BY <1>1, <1>2, <1>3

LEMMA StreamType ==
  ASSUME TypeInv, NEW w \in Watchers, FirstFrame(w) \/ NextFrame(w)
  PROVE  TypeInv'
<1>0. /\ pub \in [Publishers -> Places] /\ overlap \in BOOLEAN /\ w \in Publishers
      /\ mirror \in Seq(Entry) /\ unseen \subseteq Watchers
      /\ prev \in [Watchers -> SUBSET Seq(Entry)] /\ copy \in [Watchers -> Seq(Entry)]
  BY PublisherIs DEF TypeInv, WatchType
<1>1. ASSUME NEW frame, Apply(copy[w], frame) \in StateOf(Names), Emits(w, frame) PROVE TypeInv'
  <2>1. PICK applied \in StateOf(Names) :
          /\ copy' = [copy EXCEPT ![w] = applied.entries]
          /\ IF applied.ok
             THEN prev' = [prev EXCEPT ![w] = {mirror}] /\ UNCHANGED <<pub, overlap>>
             ELSE /\ prev' = [prev EXCEPT ![w] = NotYet]
                  /\ pub' = [pub EXCEPT ![w] = "load"]
                  /\ overlap' = (overlap \/ pub[Task] \in {"mark", "clear"})
    <3>1. [ok |-> TRUE, entries |-> copy[w]] \in StateOf(Names)
      BY <1>0 DEF StateOf, Entry
    <3>2. (IF EmptyDelta(frame) THEN [ok |-> TRUE, entries |-> copy[w]]
                                ELSE Apply(copy[w], frame)) \in StateOf(Names)
      BY <1>1, <3>1
    <3> QED
      BY <1>1, <3>2 DEF Emits
  <2>2. copy' \in [Watchers -> Seq(Entry)]
    <3>1. applied.entries \in Seq(Entry)
      BY DEF StateOf, Entry
    <3> QED
      BY <1>0, <2>1, <3>1
  <2>3. prev' \in [Watchers -> SUBSET Seq(Entry)]
    <3>1. {mirror} \in SUBSET Seq(Entry) /\ NotYet \in SUBSET Seq(Entry)
      BY <1>0 DEF NotYet
    <3>2. \E list \in SUBSET Seq(Entry) : prev' = [prev EXCEPT ![w] = list]
      BY <2>1, <3>1
    <3> QED
      BY <1>0, <3>2
  <2>4. pub' \in [Publishers -> Places]
    BY <1>0, <2>1 DEF Places
  <2>5. overlap' \in BOOLEAN
    BY <1>0, <2>1
  <2>6. unseen' \subseteq Watchers /\ UNCHANGED <<docVars, runVars, mirrorVars, attaches>>
    BY <1>0, <1>1 DEF Emits
  <2>7. WatchType'
    BY <2>2, <2>3, <2>4, <2>5, <2>6 DEF TypeInv, WatchType, mirrorVars
  <2> QED
    BY <2>6, <2>7, WatchOnly DEF docVars, TypeInv, DocType
<1>2. CASE FirstFrame(w)
  BY <1>0, <1>1, <1>2, ApplyType DEF FirstFrame, Entry
<1>3. CASE NextFrame(w)
  <2>1. PICK entries \in prev[w] : Emits(w, Diff(entries, mirror))
    BY <1>3 DEF NextFrame
  <2>2. entries \in Seq(Entry)
    BY <1>0
  <2> QED
    BY <1>0, <1>1, <2>1, <2>2, ApplyType DEF Entry
<1> QED
  BY <1>2, <1>3

LEMMA TypeNext == TypeInv /\ [Next]_vars => TypeInv'
<1> SUFFICES ASSUME TypeInv, [Next]_vars PROVE TypeInv'
  OBVIOUS
<1>0. messages \in Seq(Entry) /\ Len(messages) \in Nat
  BY DEF TypeInv, DocType
<1>1. CASE UNCHANGED vars
  BY <1>1 DEF vars, mirrorVars, TypeInv, DocType, RunType, WriterInv, WatchType
<1>2. CASE TextDelta \/ ToolCall \/ ToolResult
  BY <1>2, EventType
<1>3. CASE Boundary
  BY <1>3, BoundaryType
<1>4. CASE Writer
  BY <1>4, TickType, BeginType, SyncType, StampType DEF Writer
<1>5. ASSUME NEW u \in Users, WriteUser(u) PROVE TypeInv'
  <2>1. Len(messages) + 1 \in 1..(Len(messages) + 1)
    BY <1>0
  <2> QED
    BY <1>5, <2>1, MessageType, InsertType DEF WriteUser
<1>6. ASSUME NEW f \in Foreign, NEW place \in 1..(Len(messages) + 1), MergeForeign(f, place)
      PROVE  TypeInv'
  BY <1>6, MessageType, InsertType DEF MergeForeign
<1>7. ASSUME NEW p \in Publishers, Publish(p) PROVE TypeInv'
  BY <1>7, TaskType, PublishType DEF Publish
<1>8. ASSUME NEW w \in Watchers, Attach(w) \/ Detach(w) \/ Stream(w) PROVE TypeInv'
  BY <1>8, AttachType, StreamType DEF Stream
<1> QED
  BY <1>1, <1>2, <1>3, <1>4, <1>5, <1>6, <1>7, <1>8 DEF Next

LEMMA TypeHolds == Spec => []TypeInv
<1> QED
  BY TypeInit, TypeNext, PTL DEF Spec

(* The document, its writer, the watch and every copy of it stay what they  *)
(* are: a list of entries of numbered parts, whatever frames a consumer     *)
(* applies to what it has, refused ones too (transcript_delta.rs:170-248),  *)
(* and whatever entry a writer that lost its place syncs into               *)
(* (schema.rs:635-736).                                                     *)
THEOREM TypeCorrect == Spec => []TypeOK
<1> QED
  BY TypeHolds, TypeInvEnough, PTL

-----------------------------------------------------------------------------
(* Publication                                                              *)

SomeonePublishes == \E p \in Publishers : Publishing(p)
Current(value) == value = messages \/ woken \/ pub[Task] \in {"check", "read"}

OneSends == \A p, q \in Publishers : pub[p] = "send" /\ pub[q] = "send" => p = q
ReadsCurrent == \A p \in Publishers : pub[p] = "send" => Current(got[p])
AttendedCurrent == (\E w \in Watchers : pub[w] = "on") => Current(mirror) \/ SomeonePublishes
CleanCurrent == ~dirty /\ pub[Task] # "mark" => Current(mirror) \/ SomeonePublishes
ClearsAlone ==
    /\ pub[Task] \in {"mark", "clear"} => \A w \in Watchers : pub[w] = "off"
    /\ pub[Task] = "clear" => dirty

(* What is read is what is sent, and what a watcher trusts is current: while *)
(* nothing overlaps an attach.                                              *)
WatchInv ==
    ~overlap => OneSends /\ ReadsCurrent /\ AttendedCurrent /\ CleanCurrent /\ ClearsAlone

LEMMA WatchInit == Init => WatchInv
<1> SUFFICES ASSUME Init PROVE WatchInv
  OBVIOUS
<1>1. \A p \in Publishers : pub[p] = IF p = Task THEN "on" ELSE "off"
  BY DEF Init
<1>2. \A w \in Watchers : pub[w] = "off"
  BY <1>1, PublisherIs
<1>3. pub[Task] = "on" /\ dirty
  BY <1>1, PublisherIs DEF Init
<1> QED
  BY <1>1, <1>2, <1>3
     DEF WatchInv, OneSends, ReadsCurrent, AttendedCurrent, CleanCurrent, ClearsAlone

(* A commit is seen by chat_task later, so all that is read may be older.   *)
LEMMA WatchDoc ==
  ASSUME WatchInv, UNCHANGED watchVars,
         woken' \/ (messages' = messages /\ woken' = woken)
  PROVE  WatchInv'
<1>1. \A v : Current(v) => (Current(v))'
  BY DEF Current, watchVars
<1>2. /\ pub' = pub /\ got' = got /\ dirty' = dirty /\ mirror' = mirror /\ overlap' = overlap
  BY DEF watchVars, mirrorVars
<1> QED
  BY <1>1, <1>2 DEF WatchInv, OneSends, ReadsCurrent, AttendedCurrent, CleanCurrent,
                    ClearsAlone, SomeonePublishes, Publishing

LEMMA WatchTask ==
  ASSUME TypeInv, WatchInv, TaskWakes \/ Check \/ Mark \/ Clear
  PROVE  WatchInv'
<1> USE PublisherIs
<1>0. pub \in [Publishers -> Places]
  BY DEF TypeInv, WatchType
<1> SUFFICES ASSUME ~overlap' PROVE (OneSends /\ ReadsCurrent /\ AttendedCurrent /\ CleanCurrent
                                      /\ ClearsAlone)'
  BY DEF WatchInv
<1>1. CASE TaskWakes
  <2>1. /\ \A p \in Publishers : pub'[p] = IF p = Task THEN "check" ELSE pub[p]
        /\ pub[Task] = "on"
    BY <1>0, <1>1 DEF TaskWakes
  <2>2. \A v : (Current(v))'
    BY <2>1 DEF Current
  <2>3. OneSends'
    <3>1. CASE overlap
      BY <1>1, <2>1, <3>1 DEF TaskWakes, OneSends, Publishers
    <3>2. CASE ~overlap
      BY <2>1, <3>2 DEF WatchInv, OneSends
    <3> QED
      BY <3>1, <3>2
  <2> QED
    BY <2>1, <2>2, <2>3 DEF ReadsCurrent, AttendedCurrent, CleanCurrent, ClearsAlone
<1>2. CASE Check
  <2> DEFINE place == IF Receivers = {} THEN "mark" ELSE "read"
  <2>1. /\ \A p \in Publishers : pub'[p] = IF p = Task THEN place ELSE pub[p]
        /\ pub[Task] = "check" /\ ~overlap
    BY <1>0, <1>2 DEF Check
  <2>2. CASE Receivers = {}
    <3>1. \A w \in Watchers : pub'[w] = "off"
      BY <2>1, <2>2 DEF Receivers
    <3>2. \A p \in Publishers : pub'[p] \in {"off", "mark"}
      BY <2>1, <2>2, <3>1 DEF Publishers
    <3>3. pub'[Task] = "mark"
      BY <2>1, <2>2
    <3> QED
      BY <3>1, <3>2, <3>3
         DEF OneSends, ReadsCurrent, AttendedCurrent, CleanCurrent, ClearsAlone
  <2>3. CASE Receivers # {}
    <3>1. \A p \in Publishers : pub'[p] = IF p = Task THEN "read" ELSE pub[p]
      BY <2>1, <2>3
    <3>2. \A v : (Current(v))'
      BY <3>1 DEF Current
    <3>3. OneSends'
      BY <2>1, <3>1 DEF WatchInv, OneSends
    <3> QED
      BY <3>1, <3>2, <3>3 DEF ReadsCurrent, AttendedCurrent, CleanCurrent, ClearsAlone
  <2> QED
    BY <2>2, <2>3
<1>3. CASE Mark
  <2>1. /\ \A p \in Publishers : pub'[p] = IF p = Task THEN "clear" ELSE pub[p]
        /\ pub[Task] = "mark" /\ ~overlap /\ dirty'
    BY <1>0, <1>3 DEF Mark
  <2>2. \A w \in Watchers : pub'[w] = "off"
    BY <2>1 DEF WatchInv, ClearsAlone
  <2>3. \A p \in Publishers : pub'[p] \in {"off", "clear"}
    BY <2>1, <2>2 DEF Publishers
  <2> QED
    BY <2>1, <2>2, <2>3 DEF OneSends, ReadsCurrent, AttendedCurrent, CleanCurrent, ClearsAlone
<1>4. CASE Clear
  <2>1. /\ \A p \in Publishers : pub'[p] = IF p = Task THEN "on" ELSE pub[p]
        /\ pub[Task] = "clear" /\ ~overlap /\ dirty' = dirty
    BY <1>0, <1>4 DEF Clear, Replaces
  <2>2. (\A w \in Watchers : pub'[w] = "off") /\ dirty'
    BY <2>1 DEF WatchInv, ClearsAlone
  <2>3. \A p \in Publishers : pub'[p] \in {"off", "on"}
    BY <2>1, <2>2 DEF Publishers
  <2> QED
    BY <2>1, <2>2, <2>3 DEF OneSends, ReadsCurrent, AttendedCurrent, CleanCurrent, ClearsAlone
<1> QED
  BY <1>1, <1>2, <1>3, <1>4

LEMMA WatchPublish ==
  ASSUME TypeInv, WatchInv, NEW p \in Publishers, Read(p) \/ Send(p)
  PROVE  WatchInv'
<1> USE PublisherIs
<1>0. pub \in [Publishers -> Places] /\ got \in [Publishers -> Seq(Entry)]
  BY DEF TypeInv, WatchType
<1> SUFFICES ASSUME ~overlap' PROVE (OneSends /\ ReadsCurrent /\ AttendedCurrent /\ CleanCurrent
                                      /\ ClearsAlone)'
  BY DEF WatchInv
<1>1. CASE Read(p)
  <2>1. /\ \A q \in Publishers : pub'[q] = IF q = p THEN "send" ELSE pub[q]
        /\ pub[p] = "read" /\ ~overlap /\ messages' = messages
        /\ got'[p] = messages
        /\ \A q \in Publishers \ {p} : pub[q] # "send"
    BY <1>0, <1>1 DEF Read, docVars
  <2>2. OneSends'
    BY <2>1 DEF OneSends
  <2>3. ReadsCurrent'
    BY <2>1 DEF ReadsCurrent, Current
  <2>4. SomeonePublishes'
    BY <2>1 DEF SomeonePublishes, Publishing
  <2>5. ClearsAlone'
    BY <2>1 DEF WatchInv, ClearsAlone, Publishers
  <2> QED
    BY <2>2, <2>3, <2>4, <2>5 DEF AttendedCurrent, CleanCurrent
<1>2. CASE Send(p)
  <2>1. /\ \A q \in Publishers : pub'[q] = IF q = p THEN "on" ELSE pub[q]
        /\ pub[p] = "send" /\ ~overlap /\ messages' = messages /\ woken' = woken
        /\ mirror' = got[p] /\ dirty' = dirty
        /\ \A q \in Publishers : q # p => got'[q] = got[q]
    BY <1>0, <1>2 DEF Send, Replaces, docVars
  <2>2. \A q \in Publishers : pub'[q] # "send"
    BY <2>1 DEF WatchInv, OneSends
  <2>3. OneSends' /\ ReadsCurrent'
    BY <2>2 DEF OneSends, ReadsCurrent
  <2>4. (Current(mirror))'
    <3>1. Current(got[p])
      BY <2>1 DEF WatchInv, ReadsCurrent
    <3> QED
      BY <2>1, <3>1 DEF Current
  <2>5. ClearsAlone'
    BY <2>1 DEF WatchInv, ClearsAlone, Publishers
  <2> QED
    BY <2>3, <2>4, <2>5 DEF AttendedCurrent, CleanCurrent
<1> QED
  BY <1>1, <1>2

(* A consumer that subscribes, leaves, or subscribes again.                 *)
LEMMA WatchLeaves ==
  ASSUME TypeInv, WatchInv, NEW w \in Watchers, NEW place \in {"off", "load"},
         pub[w] \in {"off", "on"}, pub' = [pub EXCEPT ![w] = place],
         UNCHANGED <<docVars, mirrorVars>>,
         ~overlap' => ~overlap /\ (place = "off" \/ pub[Task] \notin {"mark", "clear"})
  PROVE  WatchInv'
<1> USE PublisherIs
<1> SUFFICES ASSUME ~overlap' PROVE (OneSends /\ ReadsCurrent /\ AttendedCurrent /\ CleanCurrent
                                      /\ ClearsAlone)'
  BY DEF WatchInv
<1>1. /\ \A q \in Publishers : pub'[q] = IF q = w THEN place ELSE pub[q]
      /\ pub'[Task] = pub[Task] /\ ~overlap
      /\ messages' = messages /\ woken' = woken /\ got' = got /\ mirror' = mirror /\ dirty' = dirty
  BY DEF TypeInv, WatchType, docVars, mirrorVars
<1>2. /\ OneSends /\ ReadsCurrent /\ AttendedCurrent /\ CleanCurrent /\ ClearsAlone
  BY <1>1 DEF WatchInv
<1>3. \A v : (Current(v))' <=> Current(v)
  BY <1>1 DEF Current
<1>4. SomeonePublishes => SomeonePublishes'
  BY <1>1 DEF SomeonePublishes, Publishing
<1>5. (\E x \in Watchers : pub'[x] = "on") => \E x \in Watchers : pub[x] = "on"
  BY <1>1
<1>6. OneSends'
  BY <1>1, <1>2 DEF OneSends
<1>7. ReadsCurrent'
  BY <1>1, <1>2, <1>3 DEF ReadsCurrent
<1>8. AttendedCurrent'
  BY <1>1, <1>2, <1>3, <1>4, <1>5 DEF AttendedCurrent
<1>9. CleanCurrent'
  BY <1>1, <1>2, <1>3, <1>4 DEF CleanCurrent
<1>10. ClearsAlone'
  BY <1>1, <1>2 DEF ClearsAlone
<1> QED
  BY <1>6, <1>7, <1>8, <1>9, <1>10

LEMMA WatchLoad ==
  ASSUME TypeInv, WatchInv, NEW w \in Watchers, Load(w)
  PROVE  WatchInv'
<1> USE PublisherIs
<1> SUFFICES ASSUME ~overlap' PROVE (OneSends /\ ReadsCurrent /\ AttendedCurrent /\ CleanCurrent
                                      /\ ClearsAlone)'
  BY DEF WatchInv
<1>1. /\ \A q \in Publishers : pub'[q] = IF q = w THEN IF dirty THEN "read" ELSE "on" ELSE pub[q]
      /\ pub[w] = "load" /\ pub'[Task] = pub[Task] /\ ~overlap
      /\ messages' = messages /\ woken' = woken /\ got' = got /\ mirror' = mirror /\ dirty' = dirty
  BY DEF TypeInv, WatchType, docVars, mirrorVars, Load, NeedsRefresh
<1>2. /\ OneSends /\ ReadsCurrent /\ AttendedCurrent /\ CleanCurrent /\ ClearsAlone
  BY <1>1 DEF WatchInv
<1>3. \A v : (Current(v))' <=> Current(v)
  BY <1>1 DEF Current
<1>4. SomeonePublishes => SomeonePublishes'
  BY <1>1 DEF SomeonePublishes, Publishing
<1>5. pub[Task] \notin {"mark", "clear"}
  BY <1>1, <1>2 DEF ClearsAlone
<1>6. ~dirty => Current(mirror) \/ SomeonePublishes
  BY <1>2, <1>5 DEF CleanCurrent
<1>7. dirty => SomeonePublishes'
  BY <1>1 DEF SomeonePublishes, Publishing
<1>8. (Current(mirror))' \/ SomeonePublishes'
  <2>1. (Current(mirror))' <=> Current(mirror)
    BY <1>1 DEF Current
  <2> QED
    BY <1>4, <1>6, <1>7, <2>1
<1>9. OneSends'
  BY <1>1, <1>2 DEF OneSends
<1>10. ReadsCurrent'
  BY <1>1, <1>2, <1>3 DEF ReadsCurrent
<1>11. ClearsAlone'
  BY <1>1, <1>5 DEF ClearsAlone
<1> QED
  BY <1>8, <1>9, <1>10, <1>11 DEF AttendedCurrent, CleanCurrent

LEMMA WatchStream ==
  ASSUME TypeInv, WatchInv, NEW w \in Watchers, FirstFrame(w) \/ NextFrame(w)
  PROVE  WatchInv'
<1>1. PICK frame : pub[w] = "on" /\ Emits(w, frame)
  BY DEF FirstFrame, NextFrame
<1>2. UNCHANGED <<docVars, mirrorVars>>
  BY <1>1 DEF Emits
<1>3. CASE UNCHANGED <<pub, overlap>>
  <2>1. /\ pub' = pub /\ got' = got /\ dirty' = dirty /\ mirror' = mirror /\ overlap' = overlap
        /\ messages' = messages /\ woken' = woken
    BY <1>2, <1>3 DEF docVars, mirrorVars
  <2> QED
    BY <2>1 DEF WatchInv, OneSends, ReadsCurrent, AttendedCurrent, CleanCurrent,
                ClearsAlone, SomeonePublishes, Publishing, Current
<1>4. CASE /\ pub' = [pub EXCEPT ![w] = "load"]
           /\ overlap' = (overlap \/ pub[Task] \in {"mark", "clear"})
  BY <1>1, <1>2, <1>4, WatchLeaves
<1> QED
  BY <1>1, <1>3, <1>4 DEF Emits

LEMMA WatchNext == TypeInv /\ WatchInv /\ [Next]_vars => WatchInv'
<1> SUFFICES ASSUME TypeInv, WatchInv, [Next]_vars PROVE WatchInv'
  OBVIOUS
<1>1. CASE UNCHANGED vars
  BY <1>1, WatchDoc DEF vars, watchVars, mirrorVars, streamVars
<1>2. CASE TextDelta \/ ToolCall \/ ToolResult \/ Boundary \/ Tick \/ BeginIndex
  BY <1>2, WatchDoc
     DEF TextDelta, ToolCall, ToolResult, Folds, Boundary, Tick, BeginIndex, docVars
<1>3. CASE BeginPush \/ Stamp
  BY <1>3, WatchDoc DEF BeginPush, Stamp, Bumped
<1>4. CASE Sync
  <2>1. woken' = (woken \/ messages' # messages) /\ UNCHANGED watchVars
    BY <1>4 DEF Sync
  <2>2. woken \in BOOLEAN
    BY DEF TypeInv, DocType
  <2> QED
    BY <2>1, <2>2, WatchDoc
<1>5. ASSUME NEW u \in Users, WriteUser(u) PROVE WatchInv'
  BY <1>5, WatchDoc DEF WriteUser, Inserts, Bumped
<1>6. ASSUME NEW f \in Foreign, NEW place \in 1..(Len(messages) + 1), MergeForeign(f, place)
      PROVE  WatchInv'
  BY <1>6, WatchDoc DEF MergeForeign, Inserts, Bumped
<1>7. ASSUME NEW p \in Publishers, Publish(p) PROVE WatchInv'
  BY <1>7, WatchTask, WatchPublish DEF Publish
<1>8. ASSUME NEW w \in Watchers, Attach(w) PROVE WatchInv'
  BY <1>8, WatchLeaves DEF Attach
<1>9. ASSUME NEW w \in Watchers, Detach(w) PROVE WatchInv'
  BY <1>9, WatchLeaves DEF Detach
<1>10. ASSUME NEW w \in Watchers, Stream(w) PROVE WatchInv'
  BY <1>10, WatchLoad, WatchStream DEF Stream
<1> QED
  BY <1>1, <1>2, <1>3, <1>4, <1>5, <1>6, <1>7, <1>8, <1>9, <1>10 DEF Next, Writer

(* Unless an attach fell between chat_task's look at its receivers and its  *)
(* clearing, or two publications crossed, and no commit has come since, an  *)
(* attached consumer's watch has the transcript when nothing is under way   *)
(* (doc_host.rs:194-205, 293-319).                                          *)
THEOREM AttachedSee == Spec => []StaleNeedsOverlap
<1>1. WatchInv => StaleNeedsOverlap
  BY DEF WatchInv, AttendedCurrent, Current, SomeonePublishes, StaleNeedsOverlap, AttachedSeesAll
<1>2. Spec => []WatchInv
  BY TypeHolds, WatchInit, WatchNext, PTL DEF Spec
<1> QED
  BY <1>1, <1>2, PTL

-----------------------------------------------------------------------------
(* Segments                                                                 *)

(* Segments are numbered as they come, and one is pushed once.              *)
OwnEntry ==
    /\ Distinct(messages)
    /\ \A i \in DOMAIN messages : messages[i].id \in Segments => messages[i].id <= run.segment
    /\ run.segment \in Segments /\ (run.at = 0 \/ run.pc = "push") =>
          run.segment \notin Ids(messages)

(* The entry being written is where the writer thinks it is, and says what  *)
(* the writer thinks it says.                                               *)
Holds ==
    /\ run.at # 0 /\ run.pc # "push" =>
          messages[run.at] =
              [id |-> run.segment, status |-> "streaming", parts |-> run.written]
    /\ run.pc = "push" => run.at = Len(messages) + 1
    /\ run.pc = "stamp" => run.written = run.folded

Whole ==
    \A i \in DOMAIN messages :
        IF messages[i].id \in Segments
        THEN messages[i].id < run.segment =>
                /\ messages[i].parts = said[messages[i].id]
                /\ messages[i].status # "streaming"
        ELSE messages[i] = MessageOf(messages[i].id)

SegmentInv == OwnEntry /\ (~displaced => Holds /\ Whole)

LEMMA SegmentInit == Init => SegmentInv
BY DEF Init, SegmentInv, OwnEntry, Holds, Whole, Distinct, Ids, Fresh

(* A writer that has not lost its place finds what it wrote, so a sync      *)
(* brings the entry to the fold.                                            *)
LEMMA SyncInPlace ==
  ASSUME RunType
  PROVE  /\ Lost(run.written) = {}
         /\ SyncParts(run.written) = run.folded
         /\ Noted(run.written) = run.folded
<1> DEFINE written == run.written
           folded == run.folded
           first == [i \in DOMAIN written |->
                       IF i \in DOMAIN written /\ Reached(written, i)
                       THEN SyncPart(written[i], written[i], folded[i]) ELSE written[i]]
           new == SubSeq(folded, Len(written) + 1, Len(folded))
<1>0. /\ written \in Seq(Part) /\ folded \in Seq(Part)
      /\ Len(written) \in Nat /\ Len(folded) \in Nat
      /\ Len(written) <= Len(folded)
  BY DEF RunType, Run, Grew
<1>1. ASSUME NEW i \in 1..Len(written)
      PROVE  /\ written[i] \in Part /\ folded[i] \in Part
             /\ folded[i].id = written[i].id /\ folded[i].kind = written[i].kind
             /\ written[i].n <= folded[i].n
  <2>1. i \in 1..Len(folded)
    BY <1>0
  <2> QED
    BY <1>0, <2>1 DEF RunType, Grew
<1>2. Lost(written) = {}
  <2> SUFFICES ASSUME NEW i \in Lost(written) PROVE FALSE
    OBVIOUS
  <2>1. i \in 1..Len(written)
    BY <1>0 DEF Lost
  <2>2. folded[i].kind = "text" /\ written[i].kind # "text"
    BY <1>0, <2>1 DEF Lost
  <2> QED
    BY <1>1, <2>1, <2>2
<1>3. \A i \in DOMAIN written : Reached(written, i)
  BY <1>2 DEF Reached
<1>4. ASSUME NEW i \in 1..Len(written) PROVE first[i] = folded[i]
  <2> DEFINE old == written[i]
             now == folded[i]
  <2>1. /\ old \in Part /\ now \in Part /\ now.id = old.id /\ now.kind = old.kind
        /\ old.n <= now.n
    BY <1>1
  <2>2. first[i] = SyncPart(old, old, now)
    BY <1>0, <1>3
  <2> HIDE DEF old, now, first
  <2>3. old.n + (now.n - old.n) = now.n
    BY <2>1 DEF Part
  <2>4. [old EXCEPT !.n = now.n] = now
    BY <2>1 DEF Part
  <2>5. SyncPart(old, old, now) \in {old, now} /\ (now # old => SyncPart(old, old, now) = now)
    <3>1. CASE now = old
      BY <3>1 DEF SyncPart
    <3>2. CASE now # old /\ now.kind = "text"
      <4>1. SyncPart(old, old, now) = [old EXCEPT !.n = old.n + (now.n - old.n)]
        BY <3>2 DEF SyncPart
      <4> QED
        BY <2>3, <2>4, <4>1
    <3>3. CASE now # old /\ now.kind # "text"
      BY <2>1, <2>4, <3>3 DEF SyncPart
    <3> QED
      BY <3>1, <3>2, <3>3
  <2>6. first[i] = now
    BY <2>2, <2>5
  <2> QED
    BY <2>6 DEF now
<1>5. first \in Seq(Part) /\ Len(first) = Len(written)
  <2>1. \A i \in 1..Len(written) : first[i] \in Part
    BY <1>1, <1>4
  <2>2. first = [i \in 1..Len(written) |-> first[i]]
    BY <1>0
  <2> HIDE DEF first, written, folded
  <2> QED
    BY <1>0, <2>1, <2>2, ListOf
<1>7. SyncParts(written) = first \o new
  BY <1>2 DEF SyncParts
<1> HIDE DEF first
<1>8. first \o new = folded
  BY <1>0, <1>4, <1>5, FrontAndRest
<1>9. Noted(written) = folded
  BY <1>2 DEF Noted
<1> QED
  BY <1>2, <1>7, <1>8, <1>9

LEMMA SegmentInsert ==
  ASSUME TypeInv, SegmentInv, NEW id \in Users \cup Foreign, id \notin Ids(messages),
         NEW place \in 1..(Len(messages) + 1), Inserts(MessageOf(id), place), UNCHANGED runVars
  PROVE  SegmentInv'
<1> DEFINE entry == MessageOf(id)
<1>0. /\ messages \in Seq(Entry) /\ Len(messages) \in Nat /\ run.at \in Nat /\ entry \in Entry
      /\ id \notin Segments /\ entry.id = id
  BY MessageType, TranscriptAssumption
     DEF TypeInv, DocType, RunType, Run, Segments, MessageOf
<1>1. /\ messages' \in Seq(Entry) /\ Len(messages') = Len(messages) + 1
      /\ \A i \in 1..(Len(messages) + 1) :
            messages'[i] = IF i < place THEN messages[i] ELSE IF i = place THEN entry
                           ELSE messages[i - 1]
  <2>1. messages' = InsertAt(messages, place, entry)
    BY DEF Inserts
  <2>2. entry \in Entry
    BY <1>0
  <2> HIDE DEF entry
  <2> QED
    BY <2>1, <2>2, Inserted
<1>2. run' = run /\ said' = said
  BY DEF runVars
<1> DEFINE From(i) == IF i < place THEN i ELSE i - 1
<1>3. ASSUME NEW i \in DOMAIN messages', i # place
      PROVE  From(i) \in DOMAIN messages /\ messages'[i] = messages[From(i)]
  BY <1>0, <1>1, <1>3
<1>4. place \in DOMAIN messages' /\ messages'[place] = entry
  BY <1>0, <1>1
<1>5. ASSUME NEW i \in DOMAIN messages', NEW j \in DOMAIN messages',
             messages'[i].id = messages'[j].id
      PROVE  i = j
  <2>1. \A k \in DOMAIN messages : messages[k].id # id
    BY DEF Ids
  <2>2. i = place <=> j = place
    BY <1>0, <1>3, <1>4, <1>5, <2>1
  <2>3. ASSUME i # place, j # place PROVE i = j
    <3>1. From(i) = From(j)
      BY <1>3, <1>5, <2>3 DEF SegmentInv, OwnEntry, Distinct
    <3> QED
      BY <1>1, <2>3, <3>1
  <2> QED
    BY <2>2, <2>3
<1>6. OwnEntry'
  <2>1. ASSUME NEW i \in DOMAIN messages', messages'[i].id \in Segments
        PROVE  messages'[i].id <= run.segment
    <3>1. i # place
      BY <1>0, <1>4, <2>1
    <3> QED
      BY <1>3, <2>1, <3>1 DEF SegmentInv, OwnEntry
  <2>2. Ids(messages') = Ids(messages) \cup {id}
    <3>1. Ids(messages') \subseteq Ids(messages) \cup {id}
      BY <1>0, <1>3, <1>4 DEF Ids
    <3>2. ASSUME NEW k \in DOMAIN messages PROVE messages[k].id \in Ids(messages')
      <4> DEFINE i == IF k < place THEN k ELSE k + 1
      <4>1. i \in DOMAIN messages' /\ messages'[i] = messages[k]
        BY <1>0, <1>1
      <4> QED
        BY <4>1 DEF Ids
    <3>3. id \in Ids(messages')
      BY <1>0, <1>4 DEF Ids
    <3> QED
      BY <3>1, <3>2, <3>3 DEF Ids
  <2>3. run.segment \in Segments => run.segment # id
    BY <1>0
  <2> QED
    BY <1>2, <1>5, <2>1, <2>2, <2>3 DEF SegmentInv, OwnEntry, Distinct
<1>7. ASSUME ~displaced' PROVE (Holds /\ Whole)'
  <2>1. ~displaced /\ (run.at = 0 \/ ~(place <= run.at))
    BY <1>7 DEF Inserts
  <2>2. Holds /\ Whole
    BY <2>1 DEF SegmentInv
  <2>3. run.pc # "push"
    BY <1>0, <2>1, <2>2 DEF Holds
  <2>4. run.at # 0 => messages'[run.at] = messages[run.at]
    <3>1. SUFFICES ASSUME run.at # 0 PROVE messages'[run.at] = messages[run.at]
      OBVIOUS
    <3>2. run.at \in 1..(Len(messages) + 1) /\ run.at < place
      BY <1>0, <2>1, <3>1
    <3> QED
      BY <1>1, <3>2
  <2>5. Holds'
    BY <1>2, <2>2, <2>3, <2>4 DEF Holds
  <2>6. Whole'
    <3>1. ASSUME NEW i \in DOMAIN messages'
          PROVE  IF messages'[i].id \in Segments
                 THEN messages'[i].id < run.segment =>
                         /\ messages'[i].parts = said[messages'[i].id]
                         /\ messages'[i].status # "streaming"
                 ELSE messages'[i] = MessageOf(messages'[i].id)
      <4>1. CASE i = place
        BY <1>0, <1>4, <4>1
      <4>2. CASE i # place
        BY <1>3, <2>2, <4>2 DEF Whole
      <4> QED
        BY <4>1, <4>2
    <3> QED
      BY <1>2, <3>1 DEF Whole
  <2> QED
    BY <2>5, <2>6
<1> QED
  BY <1>6, <1>7 DEF SegmentInv

LEMMA SegmentRun ==
  ASSUME TypeInv, SegmentInv,
         TextDelta \/ ToolCall \/ ToolResult \/ Tick \/ Boundary \/ BeginIndex
  PROVE  SegmentInv'
<1>0. /\ run \in Run /\ messages \in Seq(Entry) /\ Len(messages) \in Nat
      /\ said \in [Segments -> Seq(Part)]
  BY DEF TypeInv, DocType, RunType
<1>1. messages' = messages /\ displaced' = displaced
  BY DEF TextDelta, ToolCall, ToolResult, Folds, Tick, Boundary, BeginIndex, docVars
<1>2. CASE TextDelta \/ ToolCall \/ ToolResult
  <2>1. PICK parts : Folds(parts)
    BY <1>2 DEF TextDelta, ToolCall, ToolResult
  <2>2. /\ run'.pc = "fold" /\ run.pc = "fold" /\ run'.at = run.at /\ run'.written = run.written
        /\ run'.segment = run.segment /\ said' = said
    BY <1>0, <2>1 DEF Folds, Run
  <2> QED
    BY <1>1, <2>2 DEF SegmentInv, OwnEntry, Holds, Whole
<1>3. CASE Tick \/ Boundary
  <2>1. run'.pc = IF run.at = 0 THEN "index" ELSE "sync"
    BY <1>0, <1>3 DEF Tick, Boundary, Writes, Run
  <2>2. /\ run.pc = "fold" /\ run'.at = run.at /\ run'.written = run.written
        /\ run'.segment = run.segment /\ run'.folded = run.folded
    BY <1>0, <1>3 DEF Tick, Boundary, Run
  <2>3. \A s \in Segments : s # run.segment => said'[s] = said[s]
    BY <1>0, <1>3 DEF Tick, Boundary
  <2>4. run'.pc \in {"index", "sync"}
    BY <2>1
  <2>5. OwnEntry'
    BY <1>1, <2>2, <2>4 DEF SegmentInv, OwnEntry
  <2>6. Holds => Holds'
    BY <1>1, <2>2, <2>4 DEF Holds
  <2>7. Whole => Whole'
    <3>1. SUFFICES ASSUME Whole, NEW i \in DOMAIN messages
          PROVE  IF messages[i].id \in Segments
                 THEN messages[i].id < run.segment =>
                         /\ messages[i].parts = said'[messages[i].id]
                         /\ messages[i].status # "streaming"
                 ELSE messages[i] = MessageOf(messages[i].id)
      BY <1>1, <2>2 DEF Whole
    <3>2. run.segment \in Nat
      BY <1>0 DEF Run
    <3>3. messages[i].id \in Segments /\ messages[i].id < run.segment =>
             messages[i].id # run.segment
      BY <3>2 DEF Segments
    <3> QED
      BY <2>3, <3>1, <3>3 DEF Whole
  <2> QED
    BY <1>1, <2>5, <2>6, <2>7 DEF SegmentInv
<1>4. CASE BeginIndex
  <2> DEFINE at == Len(messages) + 1
  <2>1. run' = [run EXCEPT !.pc = "push", !.at = at] /\ run.pc = "index" /\ run.at = 0
    BY <1>4 DEF BeginIndex, TypeInv, WriterInv
  <2> HIDE DEF at
  <2>2. /\ run'.pc = "push" /\ run'.at = at /\ run'.segment = run.segment
        /\ run'.written = run.written /\ run'.folded = run.folded /\ said' = said
    BY <1>0, <1>4, <2>1 DEF Run, BeginIndex
  <2>3. OwnEntry'
    BY <1>1, <2>1, <2>2 DEF SegmentInv, OwnEntry
  <2>4. Holds'
    BY <1>1, <2>2 DEF Holds, at
  <2>5. Whole => Whole'
    BY <1>1, <2>2 DEF Whole
  <2> QED
    BY <1>1, <2>3, <2>4, <2>5 DEF SegmentInv
<1> QED
  BY <1>2, <1>3, <1>4

LEMMA SegmentPush ==
  ASSUME TypeInv, SegmentInv, BeginPush PROVE SegmentInv'
<1> DEFINE entry == [id |-> run.segment, status |-> "streaming", parts |-> <<>>]
<1>0. /\ run \in Run /\ messages \in Seq(Entry) /\ Len(messages) \in Nat
      /\ run.pc = "push" /\ run.segment \in Segments /\ run.at # 0 /\ run.written = <<>>
  BY DEF TypeInv, DocType, RunType, WriterInv, BeginPush
<1>1. /\ run'.pc = "sync" /\ run'.at = run.at /\ run'.segment = run.segment
      /\ run'.written = run.written /\ run'.folded = run.folded
      /\ said' = said /\ displaced' = displaced
  BY <1>0 DEF BeginPush, Run
<1>2. entry \in Entry /\ entry.id = run.segment
  BY <1>0 DEF Entry, EntryOf, Names
<1>3. messages' = Append(messages, entry)
  BY DEF BeginPush
<1>4. /\ Len(messages') = Len(messages) + 1 /\ DOMAIN messages' = 1..(Len(messages) + 1)
      /\ \A i \in DOMAIN messages : messages'[i] = messages[i]
      /\ messages'[Len(messages) + 1] = entry
  <2> HIDE DEF entry
  <2> QED
    BY <1>0, <1>2, <1>3
<1>5. \A i \in DOMAIN messages' : i # Len(messages) + 1 => i \in DOMAIN messages
  BY <1>0, <1>4
<1>6. run.segment \notin Ids(messages)
  BY <1>0 DEF SegmentInv, OwnEntry
<1>7. OwnEntry'
  <2>1. \A i \in DOMAIN messages' :
           messages'[i].id \in Segments => messages'[i].id <= run.segment
    <3>1. run.segment \in Nat
      BY <1>0 DEF Run
    <3> QED
      BY <1>2, <1>4, <1>5, <3>1 DEF SegmentInv, OwnEntry
  <2>2. Distinct(messages')
    <3>1. \A i \in DOMAIN messages : messages[i].id # run.segment
      BY <1>6 DEF Ids
    <3> QED
      BY <1>2, <1>4, <1>5, <3>1 DEF SegmentInv, OwnEntry, Distinct
  <2> QED
    BY <1>0, <1>1, <2>1, <2>2 DEF OwnEntry
<1>8. ASSUME ~displaced PROVE (Holds /\ Whole)'
  <2>1. Holds /\ Whole
    BY <1>8 DEF SegmentInv
  <2>2. run.at = Len(messages) + 1
    BY <1>0, <2>1 DEF Holds
  <2>3. Holds'
    BY <1>0, <1>1, <1>4, <2>2 DEF Holds
  <2>4. Whole'
    <3>1. SUFFICES ASSUME NEW i \in DOMAIN messages'
          PROVE  IF messages'[i].id \in Segments
                 THEN messages'[i].id < run.segment =>
                         /\ messages'[i].parts = said[messages'[i].id]
                         /\ messages'[i].status # "streaming"
                 ELSE messages'[i] = MessageOf(messages'[i].id)
      BY <1>1 DEF Whole
    <3>2. CASE i = Len(messages) + 1
      <4>1. run.segment \in Nat
        BY <1>0 DEF Run
      <4> QED
        BY <1>0, <1>2, <1>4, <3>2, <4>1
    <3>3. CASE i # Len(messages) + 1
      BY <1>4, <1>5, <2>1, <3>3 DEF Whole
    <3> QED
      BY <3>2, <3>3
  <2> QED
    BY <2>3, <2>4
<1> QED
  BY <1>1, <1>7, <1>8 DEF SegmentInv

(* What a change to one entry that leaves its name alone does.              *)
LEMMA SameNames ==
  ASSUME TypeInv, OwnEntry, NEW entry, entry.id = messages[run.at].id,
         run.at \in DOMAIN messages, messages' = [messages EXCEPT ![run.at] = entry],
         \/ run'.segment = run.segment /\ run'.at = run.at /\ run'.pc # "push"
         \/ run'.segment = run.segment + 1
  PROVE  /\ OwnEntry' /\ DOMAIN messages' = DOMAIN messages
         /\ \A i \in DOMAIN messages : i # run.at => messages'[i] = messages[i]
         /\ messages'[run.at] = entry
<1>0. messages \in Seq(Entry) /\ run \in Run
  BY DEF TypeInv, DocType, RunType
<1>1. /\ DOMAIN messages' = DOMAIN messages
      /\ \A i \in DOMAIN messages : i # run.at => messages'[i] = messages[i]
      /\ messages'[run.at] = entry
  BY <1>0
<1>2. \A i \in DOMAIN messages : messages'[i].id = messages[i].id
  BY <1>1
<1>3. Ids(messages') = Ids(messages) /\ Distinct(messages')
  BY <1>1, <1>2 DEF Ids, OwnEntry, Distinct
<1>4. run.segment \in Nat /\ \A s \in Segments : s \in Nat
  BY <1>0 DEF Run, Segments
<1>5. CASE run'.segment = run.segment /\ run'.at = run.at /\ run'.pc # "push"
  <2>1. run.at # 0
    BY <1>0
  <2> QED
    BY <1>1, <1>2, <1>3, <1>5, <2>1 DEF OwnEntry
<1>6. CASE run'.segment = run.segment + 1
  <2>1. ASSUME NEW i \in DOMAIN messages, messages[i].id \in Segments
        PROVE  messages[i].id <= run.segment + 1 /\ messages[i].id # run.segment + 1
    <3>1. messages[i].id <= run.segment
      BY <2>1 DEF OwnEntry
    <3> QED
      BY <1>4, <2>1, <3>1
  <2>2. run.segment + 1 \in Segments => run.segment + 1 \notin Ids(messages)
    BY <2>1 DEF Ids
  <2> QED
    BY <1>1, <1>2, <1>3, <1>6, <2>1, <2>2 DEF OwnEntry
<1> QED
  BY <1>1, <1>5, <1>6

LEMMA SegmentSync ==
  ASSUME TypeInv, SegmentInv, Sync PROVE SegmentInv'
<1> DEFINE old == messages[run.at]
           entry == [old EXCEPT !.parts = SyncParts(old.parts)]
           next == [run EXCEPT !.written = Noted(old.parts)]
<1>0. /\ run \in Run /\ messages \in Seq(Entry) /\ Len(messages) \in Nat /\ run.pc = "sync"
      /\ run.at \in DOMAIN messages /\ run.at # 0 /\ old \in Entry
  BY DEF TypeInv, DocType, RunType, WriterInv, Sync, Run
<1>1. messages' = [messages EXCEPT ![run.at] = entry]
  BY Zenon DEF Sync
<1>2. entry.id = old.id
  BY <1>0 DEF Entry, EntryOf, Names
<1>3. run' = IF ~run.ending THEN [next EXCEPT !.pc = "fold"]
             ELSE IF Lost(old.parts) = {} THEN [next EXCEPT !.pc = "stamp"]
             ELSE Fresh(run.segment + 1)
  BY Zenon DEF Sync
<1>4. said' = said /\ displaced' = displaced
  BY DEF Sync
<1>5. ASSUME NEW pc \in {"fold", "stamp"}, run' = [next EXCEPT !.pc = pc]
      PROVE  /\ run'.pc = pc /\ run'.at = run.at /\ run'.segment = run.segment
             /\ run'.folded = run.folded /\ run'.written = Noted(old.parts)
  BY <1>0, <1>5 DEF Run
<1>6. \/ run'.segment = run.segment /\ run'.at = run.at /\ run'.pc # "push"
      \/ run'.segment = run.segment + 1
  BY <1>3, <1>5 DEF Fresh
<1> HIDE DEF entry, old, next
<1>7. /\ OwnEntry' /\ DOMAIN messages' = DOMAIN messages
      /\ \A i \in DOMAIN messages : i # run.at => messages'[i] = messages[i]
      /\ messages'[run.at] = entry
  BY <1>0, <1>1, <1>2, <1>6, SameNames DEF SegmentInv, old
<1>8. ASSUME ~displaced PROVE (Holds /\ Whole)'
  <2>1. Holds /\ Whole
    BY <1>8 DEF SegmentInv
  <2>2. old = [id |-> run.segment, status |-> "streaming", parts |-> run.written]
    BY <1>0, <2>1 DEF Holds, old
  <2>3. old.parts = run.written
    BY <2>2
  <2>4. /\ Lost(old.parts) = {} /\ SyncParts(old.parts) = run.folded
        /\ Noted(old.parts) = run.folded
    BY <2>3, SyncInPlace DEF TypeInv
  <2>5. entry = [id |-> run.segment, status |-> "streaming", parts |-> run.folded]
    BY <2>2, <2>4 DEF entry
  <2>6. /\ run'.pc \in {"fold", "stamp"} /\ run'.at = run.at /\ run'.segment = run.segment
        /\ run'.folded = run.folded /\ run'.written = run.folded
    BY <1>3, <1>5, <2>4
  <2>7. Holds'
    BY <1>7, <2>5, <2>6 DEF Holds
  <2>8. Whole'
    <3>1. SUFFICES ASSUME NEW i \in DOMAIN messages
          PROVE  IF messages'[i].id \in Segments
                 THEN messages'[i].id < run.segment =>
                         /\ messages'[i].parts = said[messages'[i].id]
                         /\ messages'[i].status # "streaming"
                 ELSE messages'[i] = MessageOf(messages'[i].id)
      BY <1>4, <1>7, <2>6 DEF Whole
    <3>2. CASE i = run.at
      <4>1. messages'[i].id = run.segment /\ run.segment \in Nat /\ run.segment \in Segments
        BY <1>0, <1>7, <2>5, <3>2 DEF Run, TypeInv, WriterInv
      <4> QED
        BY <4>1
    <3>3. CASE i # run.at
      BY <1>7, <2>1, <3>3 DEF Whole
    <3> QED
      BY <3>2, <3>3
  <2> QED
    BY <2>7, <2>8
<1> QED
  BY <1>4, <1>7, <1>8 DEF SegmentInv

LEMMA SegmentStamp ==
  ASSUME TypeInv, SegmentInv, Stamp PROVE SegmentInv'
<1> DEFINE old == messages[run.at]
           entry == [old EXCEPT !.status = "settled"]
<1>0. /\ run \in Run /\ messages \in Seq(Entry) /\ Len(messages) \in Nat /\ run.pc = "stamp"
      /\ run.at \in DOMAIN messages /\ run.at # 0 /\ old \in Entry
      /\ run.segment \in Segments /\ said[run.segment] = run.folded
  BY DEF TypeInv, DocType, RunType, WriterInv, Stamp, Run
<1>1. messages' = [messages EXCEPT ![run.at] = entry]
  BY Zenon DEF Stamp
<1>2. entry.id = old.id /\ entry.parts = old.parts /\ entry.status = "settled"
  BY <1>0 DEF Entry, EntryOf, Names
<1>3. /\ run' = Fresh(run.segment + 1) /\ run'.segment = run.segment + 1
      /\ run'.at = 0 /\ run'.pc = "fold"
      /\ said' = said /\ displaced' = displaced
  BY DEF Stamp, NextSegment, Fresh
<1> HIDE DEF entry, old
<1>4. /\ OwnEntry' /\ DOMAIN messages' = DOMAIN messages
      /\ \A i \in DOMAIN messages : i # run.at => messages'[i] = messages[i]
      /\ messages'[run.at] = entry
  BY <1>0, <1>1, <1>2, <1>3, SameNames DEF SegmentInv, old
<1>5. ASSUME ~displaced PROVE (Holds /\ Whole)'
  <2>1. Holds /\ Whole
    BY <1>5 DEF SegmentInv
  <2>2. old = [id |-> run.segment, status |-> "streaming", parts |-> run.written]
        /\ run.written = run.folded
    BY <1>0, <2>1 DEF Holds, old
  <2>3. Holds'
    BY <1>3 DEF Holds
  <2>4. Whole'
    <3>1. SUFFICES ASSUME NEW i \in DOMAIN messages
          PROVE  IF messages'[i].id \in Segments
                 THEN messages'[i].id < run.segment + 1 =>
                         /\ messages'[i].parts = said[messages'[i].id]
                         /\ messages'[i].status # "streaming"
                 ELSE messages'[i] = MessageOf(messages'[i].id)
      BY <1>3, <1>4 DEF Whole
    <3>2. CASE i = run.at
      BY <1>0, <1>2, <1>4, <2>2, <3>2
    <3>3. CASE i # run.at
      <4>1. messages'[i] = messages[i]
        BY <1>4, <3>3
      <4>2. messages[i].id # run.segment
        BY <1>0, <2>2, <3>3 DEF SegmentInv, OwnEntry, Distinct, old
      <4>3. messages[i].id \in Segments /\ messages[i].id < run.segment + 1 =>
               messages[i].id < run.segment
        BY <1>0, <4>2 DEF Segments, Run
      <4> QED
        BY <2>1, <4>1, <4>3 DEF Whole
    <3> QED
      BY <3>2, <3>3
  <2> QED
    BY <2>3, <2>4
<1> QED
  BY <1>3, <1>4, <1>5 DEF SegmentInv

LEMMA SegmentNext == TypeInv /\ SegmentInv /\ [Next]_vars => SegmentInv'
<1> SUFFICES ASSUME TypeInv, SegmentInv, [Next]_vars PROVE SegmentInv'
  OBVIOUS
<1>0. messages \in Seq(Entry) /\ Len(messages) \in Nat
  BY DEF TypeInv, DocType
<1>1. ASSUME UNCHANGED <<docVars, runVars>> PROVE SegmentInv'
  BY <1>1 DEF docVars, runVars, SegmentInv, OwnEntry, Holds, Whole
<1>2. CASE UNCHANGED vars
  BY <1>1, <1>2 DEF vars, docVars, runVars
<1>3. CASE TextDelta \/ ToolCall \/ ToolResult \/ Tick \/ Boundary \/ BeginIndex
  BY <1>3, SegmentRun
<1>4. CASE BeginPush \/ Sync \/ Stamp
  BY <1>4, SegmentPush, SegmentSync, SegmentStamp
<1>5. ASSUME NEW u \in Users, WriteUser(u) PROVE SegmentInv'
  <2>1. Len(messages) + 1 \in 1..(Len(messages) + 1)
    BY <1>0
  <2> QED
    BY <1>5, <2>1, SegmentInsert DEF WriteUser
<1>6. ASSUME NEW f \in Foreign, NEW place \in 1..(Len(messages) + 1), MergeForeign(f, place)
      PROVE  SegmentInv'
  BY <1>6, SegmentInsert DEF MergeForeign
<1>7. ASSUME NEW p \in Publishers, Publish(p) PROVE SegmentInv'
  <2>1. CASE TaskWakes
    BY <2>1 DEF TaskWakes, runVars, SegmentInv, OwnEntry, Holds, Whole
  <2>2. CASE ~TaskWakes
    BY <1>1, <1>7, <2>2 DEF Publish, Check, Mark, Clear, Read, Send
  <2> QED
    BY <2>1, <2>2
<1>8. ASSUME NEW w \in Watchers, Attach(w) \/ Detach(w) \/ Stream(w) PROVE SegmentInv'
  BY <1>1, <1>8 DEF Attach, Detach, Stream, Load, FirstFrame, NextFrame, Emits
<1> QED
  BY <1>2, <1>3, <1>4, <1>5, <1>6, <1>7, <1>8 DEF Next, Writer

(* A finished segment stands in the document as its run folded it, and      *)
(* nobody else's entry is touched, unless an entry was put before the one   *)
(* being written (schema.rs:577-700).                                       *)
THEOREM SegmentsKept == Spec => []SegmentsWhole
<1>1. SegmentInv => SegmentsWhole
  BY DEF SegmentInv, Whole, SegmentsWhole
<1>2. Spec => []SegmentInv
  BY TypeHolds, SegmentInit, SegmentNext, PTL DEF Spec
<1> QED
  BY <1>1, <1>2, PTL

-----------------------------------------------------------------------------
(* Frames                                                                   *)

(* A list is what another one was, or a part of it, in its order.           *)
ViewOf(list, of) == Ids(list) \subseteq Ids(of) /\ InOrder(list, of)

(* Every list in the watch, on its way there or in a stream was the         *)
(* document's once.                                                         *)
OrderInv ==
    /\ ViewOf(mirror, messages)
    /\ \A p \in Publishers : ViewOf(got[p], messages)
    /\ \A w \in Watchers : \A entries \in prev[w] : ViewOf(entries, messages)

(* The places of a list's entries in a longer one.                          *)
Embeds(at, list, next) ==
    /\ \A i \in DOMAIN list : at[i] \in DOMAIN next /\ next[at[i]].id = list[i].id
    /\ \A i, j \in DOMAIN list : i < j => at[i] < at[j]

LEMMA ViewGrows ==
  ASSUME NEW list, NEW of, NEW next, NEW at, ViewOf(list, of), Embeds(at, of, next), Distinct(next)
  PROVE  ViewOf(list, next)
<1>1. ASSUME NEW i \in DOMAIN list
      PROVE  \E a \in DOMAIN of : of[a].id = list[i].id
  BY DEF ViewOf, Ids
<1>2. Ids(list) \subseteq Ids(next)
  <2>1. Ids(of) \subseteq Ids(next)
    BY DEF Embeds, Ids
  <2> QED
    BY <2>1 DEF ViewOf
<1>3. ASSUME NEW i \in DOMAIN list, NEW j \in DOMAIN list, NEW a \in DOMAIN next,
             NEW b \in DOMAIN next, list[i].id = next[a].id, list[j].id = next[b].id, i < j
      PROVE  a < b
  <2>1. PICK c \in DOMAIN of : of[c].id = list[i].id
    BY <1>1
  <2>2. PICK d \in DOMAIN of : of[d].id = list[j].id
    BY <1>1
  <2>3. c < d
    BY <1>3, <2>1, <2>2 DEF ViewOf, InOrder
  <2>4. at[c] = a /\ at[d] = b
    BY <1>3, <2>1, <2>2 DEF Embeds, Distinct
  <2> QED
    BY <2>3, <2>4 DEF Embeds
<1> QED
  BY <1>2, <1>3 DEF ViewOf, InOrder

(* No step takes an entry out of the document or past another.              *)
LEMMA MessagesGrow ==
  ASSUME TypeInv, [Next]_vars
  PROVE  \E at : Embeds(at, messages, messages')
<1>0. /\ messages \in Seq(Entry) /\ Len(messages) \in Nat /\ run \in Run
      /\ DOMAIN messages = 1..Len(messages)
  BY DEF TypeInv, DocType, RunType
<1> DEFINE same == [i \in DOMAIN messages |-> i]
<1>1. ASSUME \A i \in DOMAIN messages :
                i \in DOMAIN messages' /\ messages'[i].id = messages[i].id
      PROVE  \E at : Embeds(at, messages, messages')
  <2>1. Embeds(same, messages, messages')
    BY <1>1 DEF Embeds
  <2> QED
    BY <2>1
<1>2. ASSUME NEW id \in Users \cup Foreign, NEW place \in 1..(Len(messages) + 1),
             Inserts(MessageOf(id), place)
      PROVE  \E at : Embeds(at, messages, messages')
  <2> DEFINE at == [i \in DOMAIN messages |-> IF i < place THEN i ELSE i + 1]
             entry == MessageOf(id)
  <2>0. messages' = InsertAt(messages, place, entry)
    BY <1>2 DEF Inserts
  <2>1. messages' = InsertAt(messages, place, entry) /\ entry \in Entry
    BY <2>0, MessageType
  <2> HIDE DEF entry
  <2>2. /\ messages' \in Seq(Entry) /\ Len(messages') = Len(messages) + 1
        /\ \A i \in 1..(Len(messages) + 1) :
              messages'[i] = IF i < place THEN messages[i] ELSE IF i = place THEN entry
                             ELSE messages[i - 1]
    BY <2>1, Inserted
  <2>3. ASSUME NEW i \in DOMAIN messages
        PROVE  at[i] \in DOMAIN messages' /\ messages'[at[i]].id = messages[i].id
    <3>1. CASE i < place
      <4>1. at[i] = i /\ i \in 1..(Len(messages) + 1)
        BY <1>0, <3>1
      <4> QED
        BY <2>2, <3>1, <4>1
    <3>2. CASE ~(i < place)
      <4>1. /\ at[i] = i + 1 /\ i + 1 \in 1..(Len(messages) + 1) /\ (i + 1) - 1 = i
            /\ ~(i + 1 < place) /\ i + 1 # place
        BY <1>0, <3>2
      <4> HIDE DEF at
      <4> QED
        BY <2>2, <4>1
    <3> QED
      BY <3>1, <3>2
  <2>4. \A i, j \in DOMAIN messages : i < j => at[i] < at[j]
    BY <1>0
  <2>5. Embeds(at, messages, messages')
    BY <2>3, <2>4 DEF Embeds
  <2> QED
    BY <2>5
<1>3. ASSUME messages' = messages PROVE \E at : Embeds(at, messages, messages')
  BY <1>1, <1>3
<1>4. CASE UNCHANGED vars
  BY <1>3, <1>4 DEF vars
<1>5. CASE TextDelta \/ ToolCall \/ ToolResult \/ Boundary \/ Tick \/ BeginIndex
  BY <1>3, <1>5
     DEF TextDelta, ToolCall, ToolResult, Folds, Boundary, Tick, BeginIndex, docVars
<1>6. CASE BeginPush
  <2> DEFINE entry == [id |-> run.segment, status |-> "streaming", parts |-> <<>>]
  <2>1. messages' = Append(messages, entry)
    BY <1>6 DEF BeginPush
  <2> HIDE DEF entry
  <2>2. \A i \in DOMAIN messages : i \in DOMAIN messages' /\ messages'[i] = messages[i]
    BY <1>0, <2>1
  <2> QED
    BY <1>1, <2>2
<1>7. CASE Sync
  <2> DEFINE old == messages[run.at]
             entry == [old EXCEPT !.parts = SyncParts(old.parts)]
  <2>1. messages' = [messages EXCEPT ![run.at] = entry]
    BY <1>7, Zenon DEF Sync
  <2>2. run.at \in DOMAIN messages
    BY <1>0, <1>7 DEF TypeInv, WriterInv, Sync, Run
  <2>3. entry.id = old.id
    BY <1>0, <2>2 DEF Entry, EntryOf
  <2> HIDE DEF entry, old
  <2>4. \A i \in DOMAIN messages : i \in DOMAIN messages' /\ messages'[i].id = messages[i].id
    BY <1>0, <2>1, <2>2, <2>3 DEF old
  <2> QED
    BY <1>1, <2>4
<1>8. CASE Stamp
  <2> DEFINE old == messages[run.at]
             entry == [old EXCEPT !.status = "settled"]
  <2>1. messages' = [messages EXCEPT ![run.at] = entry]
    BY <1>8, Zenon DEF Stamp
  <2>2. run.at \in DOMAIN messages
    BY <1>0, <1>8 DEF TypeInv, WriterInv, Stamp, Run
  <2>3. entry.id = old.id
    BY <1>0, <2>2 DEF Entry, EntryOf
  <2> HIDE DEF entry, old
  <2>4. \A i \in DOMAIN messages : i \in DOMAIN messages' /\ messages'[i].id = messages[i].id
    BY <1>0, <2>1, <2>2, <2>3 DEF old
  <2> QED
    BY <1>1, <2>4
<1>9. ASSUME NEW u \in Users, WriteUser(u) PROVE \E at : Embeds(at, messages, messages')
  <2>1. Len(messages) + 1 \in 1..(Len(messages) + 1)
    BY <1>0
  <2> QED
    BY <1>2, <1>9, <2>1 DEF WriteUser
<1>10. ASSUME NEW f \in Foreign, NEW place \in 1..(Len(messages) + 1), MergeForeign(f, place)
       PROVE  \E at : Embeds(at, messages, messages')
  BY <1>2, <1>10 DEF MergeForeign
<1>11. ASSUME NEW p \in Publishers, Publish(p) PROVE \E at : Embeds(at, messages, messages')
  BY <1>3, <1>11 DEF Publish, TaskWakes, Check, Mark, Clear, Read, Send, docVars
<1>12. ASSUME NEW w \in Watchers, Attach(w) \/ Detach(w) \/ Stream(w)
       PROVE  \E at : Embeds(at, messages, messages')
  BY <1>3, <1>12 DEF Attach, Detach, Stream, Load, FirstFrame, NextFrame, Emits, docVars
<1> QED
  BY <1>4, <1>5, <1>6, <1>7, <1>8, <1>9, <1>10, <1>11, <1>12 DEF Next, Writer

(* A step moves lists on, and reads a new one off the document only.        *)
Seen == {<<>>, mirror} \cup {got[p] : p \in Publishers}
Moved ==
    /\ mirror' \in Seen
    /\ \A p \in Publishers : got'[p] \in Seen \/ (got'[p] = messages /\ messages' = messages)
    /\ \A w \in Watchers : \A entries \in prev'[w] : entries \in prev[w] \/ entries = mirror

LEMMA ListsMove ==
  ASSUME TypeInv, [Next]_vars
  PROVE  Moved
<1>0. got \in [Publishers -> Seq(Entry)] /\ prev \in [Watchers -> SUBSET Seq(Entry)]
  BY DEF TypeInv, WatchType
<1>1. \A p \in Publishers : got[p] \in Seen
  BY DEF Seen
<1>2. mirror \in Seen /\ <<>> \in Seen
  BY DEF Seen
<1>3. ASSUME UNCHANGED <<got, mirror, prev>> PROVE Moved
  BY <1>1, <1>2, <1>3 DEF Moved
<1>4. CASE UNCHANGED vars
  BY <1>3, <1>4 DEF vars, mirrorVars
<1>5. CASE TextDelta \/ ToolCall \/ ToolResult \/ Boundary \/ Tick \/ BeginIndex
           \/ BeginPush \/ Sync \/ Stamp
  BY <1>3, <1>5
     DEF TextDelta, ToolCall, ToolResult, Folds, Boundary, Tick, BeginIndex, BeginPush, Sync,
         Stamp, watchVars, mirrorVars, streamVars
<1>6. ASSUME NEW u \in Users, WriteUser(u) PROVE Moved
  BY <1>3, <1>6 DEF WriteUser, watchVars, mirrorVars, streamVars
<1>7. ASSUME NEW f \in Foreign, NEW place \in 1..(Len(messages) + 1), MergeForeign(f, place)
      PROVE  Moved
  BY <1>3, <1>7 DEF MergeForeign, watchVars, mirrorVars, streamVars
<1>8. ASSUME NEW p \in Publishers, Publish(p) PROVE Moved
  <2>1. CASE TaskWakes \/ Check \/ Mark
    BY <1>3, <2>1 DEF TaskWakes, Check, Mark, mirrorVars, streamVars
  <2>2. CASE Clear
    <3>1. mirror' = <<>> /\ got' = got /\ prev' = prev
      BY <2>2 DEF Clear, Replaces, streamVars
    <3> QED
      BY <1>1, <1>2, <3>1 DEF Moved
  <2>3. CASE Read(p)
    <3>1. /\ mirror' = mirror /\ prev' = prev /\ messages' = messages
          /\ got' = [got EXCEPT ![p] = messages]
      BY <2>3 DEF Read, docVars, streamVars
    <3>2. \A q \in Publishers : got'[q] = got[q] \/ got'[q] = messages
      BY <1>0, <3>1
    <3> QED
      BY <1>1, <1>2, <3>1, <3>2 DEF Moved
  <2>4. CASE Send(p)
    <3>1. mirror' = got[p] /\ prev' = prev /\ got' = [got EXCEPT ![p] = <<>>]
      BY <2>4 DEF Send, Replaces, streamVars
    <3>2. \A q \in Publishers : got'[q] = got[q] \/ got'[q] = <<>>
      BY <1>0, <3>1
    <3> QED
      BY <1>1, <1>2, <3>1, <3>2 DEF Moved
  <2> QED
    BY <1>8, <2>1, <2>2, <2>3, <2>4 DEF Publish
<1>9. ASSUME NEW w \in Watchers, Attach(w) \/ Detach(w) \/ Stream(w) PROVE Moved
  <2>1. mirror' = mirror /\ got' = got
    BY <1>9 DEF Attach, Detach, Stream, Load, FirstFrame, NextFrame, Emits, mirrorVars
  <2>2. prev' = prev \/ prev' = [prev EXCEPT ![w] = NotYet] \/ prev' = [prev EXCEPT ![w] = {mirror}]
    BY <1>9 DEF Attach, Detach, Stream, Load, FirstFrame, NextFrame, Emits, streamVars
  <2>3. \A v \in Watchers : \A entries \in prev'[v] : entries \in prev[v] \/ entries = mirror
    BY <1>0, <2>2 DEF NotYet
  <2> QED
    BY <1>1, <1>2, <2>1, <2>3 DEF Moved
<1> QED
  BY <1>4, <1>5, <1>6, <1>7, <1>8, <1>9 DEF Next, Writer

LEMMA OrderInit == Init => OrderInv
BY DEF Init, OrderInv, ViewOf, InOrder, Ids, NotYet

LEMMA OrderNext ==
  TypeInv /\ SegmentInv /\ SegmentInv' /\ OrderInv /\ [Next]_vars => OrderInv'
<1> SUFFICES ASSUME TypeInv, SegmentInv, SegmentInv', OrderInv, [Next]_vars PROVE OrderInv'
  OBVIOUS
<1>1. PICK at : Embeds(at, messages, messages')
  BY MessagesGrow
<1>2. Distinct(messages') /\ Distinct(messages)
  BY DEF SegmentInv, OwnEntry
<1>3. \A list : ViewOf(list, messages) => ViewOf(list, messages')
  BY <1>1, <1>2, ViewGrows
<1>4. ViewOf(messages, messages) /\ ViewOf(<<>>, messages)
  <2>1. messages \in Seq(Entry)
    BY DEF TypeInv, DocType
  <2>2. InOrder(messages, messages)
    BY <1>2, <2>1 DEF InOrder, Distinct
  <2> QED
    BY <2>2 DEF ViewOf, InOrder, Ids
<1>5. \A list \in Seen : ViewOf(list, messages')
  BY <1>3, <1>4 DEF Seen, OrderInv
<1>6. Moved
  BY ListsMove
<1> QED
  BY <1>3, <1>4, <1>5, <1>6 DEF Moved, OrderInv, Seen

-----------------------------------------------------------------------------
(* The parts of an entry are named by their places, unless a writer has     *)
(* lost its entry and put its own parts behind another's.                   *)
PartsNumbered(entries) == \A i \in DOMAIN entries : Numbered(entries[i].parts)
SaidInv == \A s \in Segments : Numbered(said[s])
NamesInv ==
    /\ SaidInv
    /\ ~displaced => PartsNumbered(mirror) /\ \A p \in Publishers : PartsNumbered(got[p])

LEMMA MessagesNumbered ==
  TypeInv /\ SegmentInv /\ SaidInv /\ ~displaced => PartsNumbered(messages)
<1> SUFFICES ASSUME TypeInv, SegmentInv, SaidInv, ~displaced, NEW i \in DOMAIN messages
             PROVE  Numbered(messages[i].parts)
  BY DEF PartsNumbered
<1>0. Holds /\ Whole /\ OwnEntry /\ run \in Run
  BY DEF SegmentInv, TypeInv, RunType
<1>1. CASE messages[i].id \notin Segments
  <2>1. messages[i] = MessageOf(messages[i].id)
    BY <1>0, <1>1 DEF Whole
  <2>2. messages[i].parts = <<[id |-> 0, kind |-> "text", n |-> 1]>>
    BY <2>1 DEF MessageOf
  <2> QED
    BY <2>2 DEF Numbered
<1>2. CASE messages[i].id \in Segments /\ messages[i].id < run.segment
  BY <1>0, <1>2 DEF Whole, SaidInv
<1>3. CASE messages[i].id \in Segments /\ ~(messages[i].id < run.segment)
  <2>1. messages[i].id = run.segment
    <3>1. messages[i].id <= run.segment /\ messages[i].id \in Nat /\ run.segment \in Nat
      BY <1>0, <1>3 DEF OwnEntry, Segments, Run
    <3> QED
      BY <1>3, <3>1
  <2>2. run.segment \in Ids(messages)
    BY <2>1 DEF Ids
  <2>3. run.at # 0 /\ run.pc # "push"
    BY <1>0, <1>3, <2>1, <2>2 DEF OwnEntry
  <2>4. messages[run.at] = [id |-> run.segment, status |-> "streaming", parts |-> run.written]
    BY <1>0, <2>3 DEF Holds
  <2>5. run.at \in DOMAIN messages
    BY <1>0, <2>3 DEF TypeInv, DocType, WriterInv, Run
  <2>6. i = run.at
    BY <1>0, <2>1, <2>4, <2>5 DEF OwnEntry, Distinct
  <2>7. Numbered(run.written)
    BY DEF TypeInv, RunType, WriterInv, Grew, Numbered
  <2> QED
    BY <2>4, <2>6, <2>7
<1> QED
  BY <1>1, <1>2, <1>3

LEMMA NamesInit == Init => NamesInv
BY DEF Init, NamesInv, SaidInv, PartsNumbered, Numbered

LEMMA DisplacedStays == TypeInv /\ [Next]_vars /\ displaced => displaced'
BY DEF Next, vars, TextDelta, ToolCall, ToolResult, Folds, Boundary, Writer, Tick, BeginIndex,
       BeginPush, Sync, Stamp, WriteUser, MergeForeign, Inserts, Publish, TaskWakes, Check, Mark,
       Clear, Read, Send, Attach, Detach, Stream, Load, FirstFrame, NextFrame, Emits, docVars

LEMMA SaidNext == TypeInv /\ SaidInv /\ [Next]_vars => SaidInv'
<1> SUFFICES ASSUME TypeInv, SaidInv, [Next]_vars PROVE SaidInv'
  OBVIOUS
<1>1. CASE Boundary
  <2>1. said \in [Segments -> Seq(Part)] /\ said' = [said EXCEPT ![run.segment] = run.folded]
    BY <1>1 DEF TypeInv, RunType, Boundary
  <2>2. Numbered(run.folded)
    BY DEF TypeInv, RunType, WriterInv
  <2> QED
    BY <2>1, <2>2 DEF SaidInv
<1>2. CASE ~Boundary
  <2>1. said' = said
    BY <1>2 DEF Next, vars, TextDelta, ToolCall, ToolResult, Folds, Writer, Tick, BeginIndex,
       BeginPush, Sync, Stamp, WriteUser, MergeForeign, Inserts, Publish, TaskWakes, Check, Mark,
       Clear, Read, Send, Attach, Detach, Stream, Load, FirstFrame, NextFrame, Emits, runVars
  <2> QED
    BY <2>1 DEF SaidInv
<1> QED
  BY <1>1, <1>2

LEMMA NamesNext == TypeInv /\ SegmentInv /\ NamesInv /\ [Next]_vars => NamesInv'
<1> SUFFICES ASSUME TypeInv, SegmentInv, NamesInv, [Next]_vars PROVE NamesInv'
  OBVIOUS
<1>1. SaidInv'
  BY SaidNext DEF NamesInv
<1>2. ASSUME ~displaced'
      PROVE  PartsNumbered(mirror') /\ \A p \in Publishers : PartsNumbered(got'[p])
  <2>1. ~displaced
    BY <1>2, DisplacedStays
  <2>2. PartsNumbered(messages)
    BY <2>1, MessagesNumbered DEF NamesInv
  <2>3. \A list \in Seen : PartsNumbered(list)
    <3>1. PartsNumbered(<<>>)
      BY DEF PartsNumbered
    <3> QED
      BY <2>1, <3>1 DEF NamesInv, Seen
  <2>4. Moved
    BY ListsMove
  <2> QED
    BY <2>2, <2>3, <2>4 DEF Moved
<1> QED
  BY <1>1, <1>2 DEF NamesInv

-----------------------------------------------------------------------------
(* What a consumer holds is what its stream diffs from.                     *)
StreamInv ==
    \A w \in Watchers :
        /\ pub[w] # "on" => prev[w] = NotYet
        /\ ~displaced => \A entries \in prev[w] : copy[w] = entries

(* What a stream last saw and what the watch holds are two states of one    *)
(* document.                                                                *)
LEMMA FrameBrings ==
  ASSUME TypeInv, SegmentInv, OrderInv, NamesInv, ~displaced,
         NEW w \in Watchers, NEW entries \in prev[w]
  PROVE  /\ Apply(entries, Diff(entries, mirror)) = [ok |-> TRUE, entries |-> mirror]
         /\ EmptyDelta(Diff(entries, mirror)) => entries = mirror
<1>1. /\ entries \in Seq(EntryOf(Names)) /\ mirror \in Seq(EntryOf(Names))
      /\ messages \in Seq(EntryOf(Names))
  BY DEF TypeInv, WatchType, DocType, Entry
<1>2. ViewOf(entries, messages) /\ ViewOf(mirror, messages) /\ Distinct(messages)
  BY DEF OrderInv, SegmentInv, OwnEntry
<1>3. ASSUME NEW list \in Seq(EntryOf(Names)), ViewOf(list, messages) PROVE Distinct(list)
  <2>1. ASSUME NEW i \in DOMAIN list, NEW j \in DOMAIN list, list[i].id = list[j].id, i < j
        PROVE  FALSE
    <3>1. PICK a \in DOMAIN messages : messages[a].id = list[i].id
      BY <1>3 DEF ViewOf, Ids
    <3>2. a < a
      BY <1>3, <2>1, <3>1 DEF ViewOf, InOrder
    <3> QED
      BY <1>1, <3>2
  <2>2. \A i, j \in DOMAIN list : i < j \/ j < i \/ i = j
    OBVIOUS
  <2> QED
    BY <2>1, <2>2 DEF Distinct
<1>4. InOrder(entries, mirror)
  <2>1. SUFFICES ASSUME NEW i \in DOMAIN entries, NEW j \in DOMAIN entries,
                        NEW a \in DOMAIN mirror, NEW b \in DOMAIN mirror,
                        entries[i].id = mirror[a].id, entries[j].id = mirror[b].id, i < j
                 PROVE  a < b
    BY DEF InOrder
  <2>2. PICK c \in DOMAIN messages : messages[c].id = entries[i].id
    BY <1>2 DEF ViewOf, Ids
  <2>3. PICK d \in DOMAIN messages : messages[d].id = entries[j].id
    BY <1>2 DEF ViewOf, Ids
  <2>4. c < d
    BY <1>2, <2>1, <2>2, <2>3 DEF ViewOf, InOrder
  <2>5. b < a => d < c
    BY <1>2, <2>1, <2>2, <2>3 DEF ViewOf, InOrder
  <2>6. a = b => c = d
    BY <1>2, <2>1, <2>2, <2>3 DEF Distinct
  <2> QED
    BY <1>1, <2>4, <2>5, <2>6
<1>5. Comparable(Names, entries, mirror)
  BY <1>1, <1>2, <1>3, <1>4 DEF Comparable
<1>6. PartsApart(mirror)
  <2>1. \A i \in DOMAIN mirror : mirror[i].parts \in Seq(Part) /\ Numbered(mirror[i].parts)
    <3>1. \A i \in DOMAIN mirror : mirror[i] \in EntryOf(Names)
      BY <1>1
    <3> QED
      BY <3>1 DEF NamesInv, PartsNumbered, EntryOf
  <2>2. SUFFICES ASSUME NEW i \in DOMAIN mirror, NEW j \in DOMAIN mirror[i].parts,
                        NEW k \in DOMAIN mirror[i].parts,
                        mirror[i].parts[j].id = mirror[i].parts[k].id
                 PROVE  j = k
    BY DEF PartsApart
  <2> DEFINE parts == mirror[i].parts
  <2>3. parts \in Seq(Part) /\ Numbered(parts)
    BY <2>1
  <2>4. j \in 1..Len(parts) /\ k \in 1..Len(parts) /\ parts[j].id = parts[k].id
    BY <2>2, <2>3
  <2> HIDE DEF parts
  <2> QED
    BY <2>3, <2>4 DEF Numbered
<1>7. NoEntry \notin Names
  BY TranscriptAssumption DEF Names, Segments
<1> QED
  BY <1>5, <1>6, <1>7, RoundTrip, EmptySame

LEMMA StreamInit == Init => StreamInv
BY DEF Init, StreamInv, NotYet

LEMMA StreamFrame ==
  ASSUME TypeInv, SegmentInv, OrderInv, NamesInv, StreamInv,
         NEW w \in Watchers, FirstFrame(w) \/ NextFrame(w)
  PROVE  StreamInv'
<1>0. /\ prev \in [Watchers -> SUBSET Seq(Entry)] /\ copy \in [Watchers -> Seq(Entry)]
      /\ pub \in [Publishers -> Places] /\ w \in Publishers /\ Watchers \subseteq Publishers
      /\ pub[w] = "on" /\ displaced' = displaced
  BY PublisherIs DEF TypeInv, WatchType, FirstFrame, NextFrame, Emits, docVars
<1>1. ASSUME NEW frame, Emits(w, frame),
             ~displaced => (IF EmptyDelta(frame) THEN [ok |-> TRUE, entries |-> copy[w]]
                            ELSE Apply(copy[w], frame)) = [ok |-> TRUE, entries |-> mirror]
      PROVE  StreamInv'
  <2> DEFINE applied == IF EmptyDelta(frame) THEN [ok |-> TRUE, entries |-> copy[w]]
                        ELSE Apply(copy[w], frame)
  <2>1. /\ copy' = [copy EXCEPT ![w] = applied.entries]
        /\ \/ prev' = [prev EXCEPT ![w] = {mirror}] /\ UNCHANGED pub
           \/ /\ prev' = [prev EXCEPT ![w] = NotYet]
              /\ pub' = [pub EXCEPT ![w] = "load"]
    BY <1>1 DEF Emits
  <2>2. ~displaced => applied.entries = mirror
    BY <1>1
  <2> HIDE DEF applied
  <2>3. \A v \in Watchers : v # w => /\ copy'[v] = copy[v] /\ prev'[v] = prev[v]
                                     /\ pub'[v] = pub[v]
    BY <1>0, <2>1
  <2>4. copy'[w] = applied.entries
    BY <1>0, <2>1
  <2>5. \/ prev'[w] = {mirror} /\ pub'[w] = "on"
        \/ prev'[w] = NotYet
    BY <1>0, <2>1
  <2> QED
    BY <1>0, <2>2, <2>3, <2>4, <2>5 DEF StreamInv, NotYet
<1>2. CASE FirstFrame(w)
  <2>1. Apply(copy[w], Reset(mirror)) = [ok |-> TRUE, entries |-> mirror]
    BY DEF Apply, Reset
  <2>2. ~EmptyDelta(Reset(mirror))
    BY DEF EmptyDelta, Reset
  <2> QED
    BY <1>1, <1>2, <2>1, <2>2 DEF FirstFrame
<1>3. CASE NextFrame(w)
  <2>1. PICK entries \in prev[w] : Emits(w, Diff(entries, mirror))
    BY <1>3 DEF NextFrame
  <2>2. ~displaced => copy[w] = entries
    BY DEF StreamInv
  <2>3. ~displaced => /\ Apply(entries, Diff(entries, mirror)) = [ok |-> TRUE, entries |-> mirror]
                      /\ EmptyDelta(Diff(entries, mirror)) => entries = mirror
    BY FrameBrings
  <2> QED
    BY <1>1, <2>1, <2>2, <2>3
<1> QED
  BY <1>2, <1>3

LEMMA StreamNext ==
  TypeInv /\ SegmentInv /\ OrderInv /\ NamesInv /\ StreamInv /\ [Next]_vars => StreamInv'
<1> SUFFICES ASSUME TypeInv, SegmentInv, OrderInv, NamesInv, StreamInv, [Next]_vars
             PROVE  StreamInv'
  OBVIOUS
<1>0. /\ prev \in [Watchers -> SUBSET Seq(Entry)] /\ copy \in [Watchers -> Seq(Entry)]
      /\ pub \in [Publishers -> Places] /\ Watchers \subseteq Publishers
      /\ (displaced => displaced') /\ Task \notin Watchers
  BY PublisherIs, DisplacedStays DEF TypeInv, WatchType
<1>1. ASSUME UNCHANGED <<prev, copy>>, \A w \in Watchers : pub'[w] # "on" => pub[w] # "on"
      PROVE  StreamInv'
  BY <1>0, <1>1 DEF StreamInv
<1>2. CASE UNCHANGED vars
  BY <1>1, <1>2 DEF vars
<1>3. CASE TextDelta \/ ToolCall \/ ToolResult \/ Boundary \/ Tick \/ BeginIndex
           \/ BeginPush \/ Sync \/ Stamp
  BY <1>1, <1>3
     DEF TextDelta, ToolCall, ToolResult, Folds, Boundary, Tick, BeginIndex, BeginPush, Sync,
         Stamp, watchVars, streamVars
<1>4. ASSUME NEW u \in Users, WriteUser(u) PROVE StreamInv'
  BY <1>1, <1>4 DEF WriteUser, watchVars, streamVars
<1>5. ASSUME NEW f \in Foreign, NEW place \in 1..(Len(messages) + 1), MergeForeign(f, place)
      PROVE  StreamInv'
  BY <1>1, <1>5 DEF MergeForeign, watchVars, streamVars
<1>6. ASSUME NEW p \in Publishers, Publish(p) PROVE StreamInv'
  <2>1. UNCHANGED <<prev, copy>>
    BY <1>6 DEF Publish, TaskWakes, Check, Mark, Clear, Read, Send, streamVars
  <2>2. \A w \in Watchers : pub'[w] # "on" => pub[w] # "on"
    <3>1. CASE TaskWakes \/ Check \/ Mark \/ Clear
      BY <1>0, <3>1 DEF TaskWakes, Check, Mark, Clear, Replaces
    <3>2. CASE Read(p) \/ Send(p)
      BY <1>0, <3>2 DEF Read, Send, Replaces
    <3> QED
      BY <1>6, <3>1, <3>2 DEF Publish
  <2> QED
    BY <1>1, <2>1, <2>2
<1>7. ASSUME NEW w \in Watchers, Attach(w) \/ Load(w) PROVE StreamInv'
  <2>1. \A v \in Watchers : pub'[v] # "on" => pub[v] # "on"
    BY <1>0, <1>7 DEF Attach, Load
  <2> QED
    BY <1>1, <1>7, <2>1 DEF Attach, Load, streamVars
<1>8. ASSUME NEW w \in Watchers, Detach(w) PROVE StreamInv'
  <2>1. \A v \in Watchers : v # w => /\ copy'[v] = copy[v] /\ prev'[v] = prev[v]
                                     /\ pub'[v] = pub[v]
    BY <1>0, <1>8 DEF Detach
  <2>2. prev'[w] = NotYet
    BY <1>0, <1>8 DEF Detach
  <2> QED
    BY <1>0, <2>1, <2>2 DEF StreamInv, NotYet
<1>9. ASSUME NEW w \in Watchers, FirstFrame(w) \/ NextFrame(w) PROVE StreamInv'
  BY <1>9, StreamFrame
<1> QED
  BY <1>2, <1>3, <1>4, <1>5, <1>6, <1>7, <1>8, <1>9 DEF Next, Writer, Stream

(* A consumer holds what its stream last saw, and the frame from there to   *)
(* what the watch holds brings it there and is not refused, unless a writer *)
(* has lost its place (transcript_delta.rs:112-248).                        *)
THEOREM FramesBring == Spec => []FramesReplay
<1>1. TypeInv /\ SegmentInv /\ OrderInv /\ NamesInv /\ StreamInv => FramesReplay
  BY FrameBrings DEF StreamInv, FramesReplay
<1>2. Spec => []SegmentInv
  BY TypeHolds, SegmentInit, SegmentNext, PTL DEF Spec
<1>3. Spec => []OrderInv
  BY <1>2, TypeHolds, OrderInit, OrderNext, PTL DEF Spec
<1>4. Spec => []NamesInv
  BY <1>2, TypeHolds, NamesInit, NamesNext, PTL DEF Spec
<1>5. Spec => []StreamInv
  BY <1>2, <1>3, <1>4, TypeHolds, StreamInit, StreamNext, PTL DEF Spec
<1> QED
  BY <1>1, <1>2, <1>3, <1>4, <1>5, TypeHolds, PTL
=============================================================================
