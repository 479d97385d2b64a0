---------------------------- MODULE RunRecovery ----------------------------
(* Crash recovery of one chat on its host device: what of a turn is durable *)
(* (run journal, revival budget, processed ledger, doc snapshot), what a    *)
(* crash loses (the doc behind the debounced snapshot, the run), and the    *)
(* boot sweep that stamps, closes and picks up what died. engine/src/       *)
(* sessions.rs, run_journal.rs, doc_host.rs. The routing of a prompt into a *)
(* live run is RunEngine's; here a live turn simply takes it.               *)
EXTENDS Naturals, FiniteSets

CONSTANTS
    MaxTurns,       \* bound on assistant turns
    MaxPrompts,     \* bound on user prompts, queued as run commands
    MaxAutoResume,  \* revivals in a row without a completed turn
    MaxCrashes,     \* bound on crashes
    Ages            \* TRUE: twelve hours may pass

ASSUME RecoveryAssumption ==
    /\ MaxTurns \in Nat /\ MaxPrompts \in Nat
    /\ MaxAutoResume \in Nat /\ MaxCrashes \in Nat /\ Ages \in BOOLEAN

(* Turns and prompts are numbered in their order; a turn's entry has the    *)
(* turn's number.                                                           *)
Turns == 1..MaxTurns
Prompts == 1..MaxPrompts
NoTurn == 0
NoPrompt == 0

EntryStates == {"absent", "streaming", "complete", "aborted"}
TurnPhases == {"unborn", "started", "open", "published", "settled", "over", "dead"}
Endings == {"none", "barren", "errored", "completed"}
Doc == [last : Prompts \cup {NoPrompt}, entry : [Turns -> EntryStates]]
RecoverySteps == {"off", "scan", "choose", "publish", "stamp", "note", "revive"}
Recovery == [at : RecoverySteps, prompt : Prompts \cup {NoPrompt}, revive : BOOLEAN]
Recovered == [at |-> "off", prompt |-> NoPrompt, revive |-> FALSE]

VARIABLES
    \* durable
    journal,    \* the journal's last event: none, open (not a Done) or done
    attempts,   \* the chat's .resume file
    processed,  \* prompts whose commands are in the processed ledger
    disk,       \* the saved snapshot
    \* lost in a crash
    engine,     \* "up" or "down"
    doc,        \* the open document: last user message, assistant entries
    live,       \* the turn that runs
    phase,      \* phase[t]: how far turn t has come
    ending,     \* ending[t]: how it ended
    drain,      \* the prompt the executor is about to dispatch
    rec,        \* where the boot sweep stands
    \* the world, and history
    aged,       \* turns that began more than twelve hours ago
    crashes,
    revivals,   \* revivals since a turn last completed
    handed      \* handed[p]: times p went to the harness since boot

vars == <<journal, attempts, processed, disk, engine, doc, live, phase, ending, drain,
          rec, aged, crashes, revivals, handed>>
durable == <<journal, attempts, processed, disk>>
turnVars == <<live, phase, ending>>
worldVars == <<aged, crashes>>
history == <<revivals, handed>>

TypeOK ==
    /\ journal \in {"none", "open", "done"}
    /\ attempts \in 0..MaxAutoResume
    /\ processed \subseteq Prompts
    /\ disk \in Doc /\ doc \in Doc
    /\ engine \in {"up", "down"}
    /\ live \in Turns \cup {NoTurn}
    /\ phase \in [Turns -> TurnPhases]
    /\ ending \in [Turns -> Endings]
    /\ drain \in Prompts \cup {NoPrompt}
    /\ rec \in Recovery
    /\ aged \subseteq Turns
    /\ crashes \in 0..MaxCrashes
    /\ revivals \in Nat
    /\ handed \in [Prompts -> Nat]

EmptyDoc == [last |-> NoPrompt, entry |-> [t \in Turns |-> "absent"]]

Init ==
    /\ journal = "none" /\ attempts = 0 /\ processed = {} /\ disk = EmptyDoc
    /\ engine = "up" /\ doc = EmptyDoc /\ live = NoTurn
    /\ phase = [t \in Turns |-> "unborn"]
    /\ ending = [t \in Turns |-> "none"]
    /\ drain = NoPrompt /\ rec = Recovered
    /\ aged = {} /\ crashes = 0 /\ revivals = 0
    /\ handed = [p \in Prompts |-> 0]

Streaming == {t \in Turns : doc.entry[t] = "streaming"}
SetEntry(t, state) == doc' = [doc EXCEPT !.entry[t] = state]

----------------------------------------------------------------------------
(* Dispatch and the turn it starts *)

(* A live steerable run takes the prompt; otherwise a turn is spawned.      *)
Dispatch(p) ==
    /\ handed' = [handed EXCEPT ![p] = @ + 1]
    /\ \/ live # NoTurn /\ UNCHANGED turnVars
       \/ /\ live = NoTurn
          /\ \E t \in Turns :
               /\ phase[t] = "unborn"
               /\ \A u \in 1..(t - 1) : phase[u] # "unborn"
               /\ live' = t
               /\ phase' = [phase EXCEPT ![t] = "started"]
          /\ UNCHANGED ending

(* Mutated form: the command is executed without a claim.                   *)
Unclaimed(p) == processed
Claimed(p) == processed \cup {p}

(* The executor takes the first queued run command: marked first, then its  *)
(* user message is written. The doc is opened by the sweep or after it.     *)
TakeCommand(p) ==
    /\ engine = "up" /\ rec.at # "scan"
    /\ drain = NoPrompt
    /\ p \notin processed
    /\ 1..(p - 1) \subseteq processed
    /\ processed' = Claimed(p)
    /\ doc' = [doc EXCEPT !.last = p]
    /\ drain' = p
    /\ UNCHANGED <<journal, attempts, disk, engine, turnVars, rec, worldVars, history>>

RunCommand ==
    /\ engine = "up"
    /\ drain # NoPrompt
    /\ Dispatch(drain)
    /\ drain' = NoPrompt
    /\ UNCHANGED <<durable, engine, doc, rec, worldVars, revivals>>

(* Every event is journaled before it reaches the document.                 *)
JournalEvent(t) ==
    /\ live = t
    /\ phase[t] \in {"started", "open"}
    /\ phase[t] = "open" => journal = "done"
    /\ journal' = "open"
    /\ phase' = [phase EXCEPT ![t] = "open"]
    /\ UNCHANGED <<attempts, processed, disk, engine, doc, live, ending, drain, rec,
                   worldVars, history>>

(* The coalesced commit creates the entry.                                  *)
CommitEntry(t) ==
    /\ live = t /\ phase[t] = "open"
    /\ doc.entry[t] = "absent"
    /\ SetEntry(t, "streaming")
    /\ UNCHANGED <<durable, engine, turnVars, drain, rec, worldVars, history>>

JournalDone(t) ==
    /\ live = t /\ phase[t] \in {"started", "open"}
    /\ journal' = "done"
    /\ phase' = [phase EXCEPT ![t] = "published"]
    /\ \E how \in {"errored", "completed"} :
         /\ ending' = [ending EXCEPT ![t] = IF phase[t] = "started" THEN "barren" ELSE how]
         /\ revivals' = IF ending'[t] = "completed" THEN 0 ELSE revivals
    /\ UNCHANGED <<attempts, processed, disk, engine, doc, live, drain, rec, worldVars,
                   handed>>

FinishEntry(t) ==
    /\ live = t /\ phase[t] = "published"
    /\ phase' = [phase EXCEPT ![t] = "settled"]
    /\ IF ending[t] = "barren" THEN UNCHANGED doc ELSE SetEntry(t, "complete")
    /\ UNCHANGED <<durable, engine, live, ending, drain, rec, worldVars, history>>

EndTurn(t) ==
    /\ live = t /\ phase[t] = "settled"
    /\ attempts' = IF ending[t] = "completed" THEN 0 ELSE attempts
    /\ phase' = [phase EXCEPT ![t] = "over"]
    /\ live' = NoTurn
    /\ UNCHANGED <<journal, processed, disk, engine, doc, ending, drain, rec, worldVars,
                   history>>

(* The snapshot is debounced: it may be saved at any later time.            *)
SaveSnapshot ==
    /\ engine = "up" /\ disk # doc
    /\ disk' = doc
    /\ UNCHANGED <<journal, attempts, processed, engine, doc, turnVars, drain, rec,
                   worldVars, history>>

----------------------------------------------------------------------------
(* Crash, boot and the sweep: recover_stale *)

Crash ==
    /\ engine = "up" /\ crashes < MaxCrashes
    /\ crashes' = crashes + 1
    /\ engine' = "down"
    /\ doc' = disk
    /\ live' = NoTurn /\ drain' = NoPrompt /\ rec' = Recovered
    /\ phase' = [t \in Turns |-> IF t = live THEN "dead" ELSE phase[t]]
    /\ handed' = [p \in Prompts |-> 0]
    /\ UNCHANGED <<durable, ending, aged, revivals>>

(* Not while the sweep runs: it takes milliseconds.                         *)
TwelveHoursPass ==
    /\ Ages /\ aged = {}
    /\ rec.at = "off"
    /\ aged' = {t \in Turns : phase[t] # "unborn"}
    /\ UNCHANGED <<durable, engine, doc, turnVars, drain, rec, crashes, history>>

RecGoTo(step) == rec' = [at |-> step, prompt |-> rec.prompt, revive |-> rec.revive]

(* A journal whose last event is not a Done is stale. Mutated form: not if  *)
(* it has been swept before.                                                *)
StaleOnce == journal = "open" /\ attempts = 0
Stale == journal = "open"

Boot ==
    /\ engine = "down"
    /\ engine' = "up"
    /\ rec' = [Recovered EXCEPT !.at = IF Stale THEN "scan" ELSE "off"]
    /\ UNCHANGED <<durable, doc, turnVars, drain, worldVars, history>>

(* The live check, then the doc is opened, which starts the executor.       *)
Scan ==
    /\ rec.at = "scan"
    /\ RecGoTo(IF live # NoTurn THEN "off" ELSE "choose")
    /\ UNCHANGED <<durable, engine, doc, turnVars, drain, worldVars, history>>

(* Mutated forms: the budget's last revival is refused, or one too many is  *)
(* granted.                                                                 *)
BudgetLeftShort == attempts + 1 < MaxAutoResume
BudgetLeftOver == attempts <= MaxAutoResume
BudgetLeft == attempts < MaxAutoResume

Choose ==
    /\ rec.at = "choose"
    /\ rec' = [at |-> "publish", prompt |-> doc.last,
               revive |-> /\ Streaming \ aged # {}
                          /\ doc.last # NoPrompt
                          /\ BudgetLeft]
    /\ UNCHANGED <<durable, engine, doc, turnVars, drain, worldVars, history>>

Publish ==
    /\ rec.at = "publish"
    /\ journal' = "done"
    /\ RecGoTo("stamp")
    /\ UNCHANGED <<attempts, processed, disk, engine, doc, turnVars, drain, worldVars,
                   history>>

(* Mutated form: only the fresh ones among the abandoned are stamped.       *)
AbandonedFresh == Streaming \ aged
Abandoned == Streaming

Stamp ==
    /\ rec.at = "stamp"
    /\ doc' = [doc EXCEPT !.entry = [t \in Turns |->
                 IF t \in Abandoned THEN "aborted" ELSE doc.entry[t]]]
    /\ IF rec.revive THEN RecGoTo("note") ELSE rec' = Recovered
    /\ UNCHANGED <<durable, engine, turnVars, drain, worldVars, history>>

(* Mutated form: the attempt is not written down.                           *)
ForgottenAttempt == attempts
NotedAttempt == attempts + 1

NoteAttempt ==
    /\ rec.at = "note"
    /\ attempts' = NotedAttempt
    /\ RecGoTo("revive")
    /\ UNCHANGED <<journal, processed, disk, engine, doc, turnVars, drain, worldVars,
                   history>>

Revive ==
    /\ rec.at = "revive"
    /\ Dispatch(rec.prompt)
    /\ revivals' = revivals + 1
    /\ rec' = Recovered
    /\ UNCHANGED <<durable, engine, doc, drain, worldVars>>

RecoveryStep == Scan \/ Choose \/ Publish \/ Stamp \/ NoteAttempt \/ Revive

Next ==
    \/ \E p \in Prompts : TakeCommand(p)
    \/ RunCommand \/ SaveSnapshot \/ Crash \/ TwelveHoursPass \/ Boot \/ RecoveryStep
    \/ \E t \in Turns : \/ JournalEvent(t) \/ CommitEntry(t) \/ JournalDone(t)
                        \/ FinishEntry(t) \/ EndTurn(t)

Spec == Init /\ [][Next]_vars

(* The engine is started again, and its tasks are scheduled; nothing is     *)
(* assumed of the harness or of the debounce.                               *)
FairSpec ==
    /\ Spec
    /\ WF_vars(Boot) /\ WF_vars(RecoveryStep) /\ WF_vars(RunCommand)
    /\ \A t \in Turns : WF_vars(FinishEntry(t)) /\ WF_vars(EndTurn(t))

----------------------------------------------------------------------------
(* Properties *)

(* However crashes fall between the note, the dispatch, the turn and the    *)
(* clearing of the budget, a run that takes the engine down is revived a    *)
(* bounded number of times before a turn completes: no boot loop. It can be *)
(* one more than MaxAutoResume: a turn that completes between the sweep's   *)
(* note and its dispatch clears the attempt just noted.                     *)
RevivalBudget == revivals <= MaxAutoResume + 1

(* A fresh turn that died with budget left is picked up again unless the    *)
(* engine dies again first (and the instance has a turn left to start).     *)
PickedUp ==
    (/\ rec.at = "choose" /\ attempts < MaxAutoResume /\ doc.last # NoPrompt
     /\ \E t \in Turns : phase[t] = "unborn"
     /\ \E t \in Turns \ aged : doc.entry[t] = "streaming")
        ~> (live # NoTurn \/ engine = "down")

(* Every entry a stale journal's sweep finds streaming is stamped, revived  *)
(* or not, unless the engine dies during the sweep.                         *)
StaleIsStamped ==
    \A t \in Turns :
        (rec.at = "scan" /\ doc.entry[t] = "streaming")
            ~> (doc.entry[t] # "streaming" \/ engine = "down")

(* "abandoned streaming entries from a dead run are stamped aborted"        *)
(* (schema.rs:325-326): once a boot's sweep is over and nothing runs, an    *)
(* entry can still stream only behind a journal that ended in a Done, where *)
(* no sweep looks: the engine died between that Done and the snapshot that  *)
(* would have said so.                                                      *)
OrphanHidesBehindDone ==
    (engine = "up" /\ rec.at = "off" /\ live = NoTurn /\ journal # "done") => Streaming = {}

(* A prompt goes to the harness once between two crashes, or twice when the *)
(* sweep chose its prompt while the executor was taking a queued one        *)
(* ("must never double-run a command", doc_host.rs:712-713); never a third  *)
(* time, and never two prompts twice.                                       *)
TwiceNeedsSweep ==
    /\ \A p \in Prompts : handed[p] <= 2
    /\ \A p, q \in Prompts : handed[p] = 2 /\ handed[q] = 2 => p = q
=============================================================================
