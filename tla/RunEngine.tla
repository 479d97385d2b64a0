------------------------------ MODULE RunEngine ------------------------------
(* The sessions engine of one chat: engine/src/sessions.rs. Callers (the    *)
(* command executor, RPC handlers, boot recovery) dispatch, steer, stop and *)
(* answer; each run is a task (drive_run) that consumes one harness stream, *)
(* parks between turns, and cleans up after itself. They share the runs     *)
(* map, the run's mailbox and question table, and the chat's status.        *)
(*                                                                          *)
(* The harness is outside: it takes prompts from the mailbox, streams       *)
(* events, asks a question, completes turns, fails, and dies.               *)
EXTENDS Naturals, FiniteSets, Sequences

CONSTANTS
    Callers,     \* concurrent tasks that call the engine
    Prompts,     \* user prompts; each is dispatched or steered once
    Runs,        \* run ids
    NoRun,       \* the runs map has no entry; no target
    NoPrompt,
    MaxStops,    \* bound on interrupts from outside dispatch
    MaxAsks      \* bound on the questions harnesses ask

ASSUME EngineAssumption ==
    /\ NoRun \notin Runs \cup Callers
    /\ Runs \cap Callers = {}
    /\ NoPrompt \notin Prompts
    /\ MaxStops \in Nat
    /\ MaxAsks \in Nat

(* A failed-resume retry of run r is a task of its own, named r.            *)
Threads == Callers \cup Runs

Phases == {"unborn", "inserted", "starting", "turn", "parked", "closing",
           "removed", "ended"}
HarnessStates == {"booting", "busy", "idle", "dead"}
Statuses == {"none", "working", "awaiting", "idle", "errored"}
Steps == {"off", "route", "send", "write", "lookup", "drain", "signal", "wait",
          "insert", "working", "spawn"}
Thread == [at : Steps, op : {"dispatch", "steer", "stop"},
           prompt : Prompts \cup {NoPrompt}, run : Runs \cup {NoRun}]
Off == [at |-> "off", op |-> "stop", prompt |-> NoPrompt, run |-> NoRun]

VARIABLES
    pc,          \* pc[t]: where a thread stands in its operation
    handle,      \* runs[chat_id]: the run the map names, or NoRun
    phase,       \* phase[r]: how far the run's task has come
    cancelled,   \* cancel_rx of r has something: true was sent, or the sender dropped
    interrupted, \* r's loop has observed it
    harness,     \* harness[r]: state of the harness task behind r
    mailbox,     \* mailbox[r]: prompts accepted and not yet taken by the harness
    steerable,   \* steerable[r]: RunHandle::steerable
    first,       \* first[r]: the prompt r was dispatched with
    injected,    \* injected[r]: dispatch injected a resume id
    maker,       \* maker[r]: the thread that created r
    started,     \* started[r]: SessionStarted seen, or something streamed
    ask,         \* ask[r]: the run's question: none, pending resolver, closed
    engineQ,     \* engineQ[r]: the engine's own events on their way to r's loop
    shown,       \* shown[r]: an unresolved question part stands in the open entry
    final,       \* final[r]: the status the ending task will write
    status,      \* the chat's session status
    prompted,    \* the prompts used so far
    stops,       \* interrupts so far
    asks         \* questions so far

vars == <<pc, handle, phase, cancelled, interrupted, harness, mailbox, steerable,
          first, injected, maker, started, ask, engineQ, shown, final, status,
          prompted, stops, asks>>
birthVars == <<steerable, first, injected, maker>>
inputVars == <<ask, engineQ, shown>>
countVars == <<prompted, stops, asks>>

TypeOK ==
    /\ pc \in [Threads -> Thread]
    /\ handle \in Runs \cup {NoRun}
    /\ phase \in [Runs -> Phases]
    /\ cancelled \in [Runs -> BOOLEAN]
    /\ interrupted \in [Runs -> BOOLEAN]
    /\ harness \in [Runs -> HarnessStates]
    /\ mailbox \in [Runs -> SUBSET Prompts]
    /\ steerable \in [Runs -> BOOLEAN]
    /\ first \in [Runs -> Prompts \cup {NoPrompt}]
    /\ injected \in [Runs -> BOOLEAN]
    /\ maker \in [Runs -> Threads \cup {NoRun}]
    /\ started \in [Runs -> BOOLEAN]
    /\ ask \in [Runs -> {"none", "pending", "closed"}]
    /\ engineQ \in [Runs -> Seq({"requested", "resolved"})]
    /\ shown \in [Runs -> BOOLEAN]
    /\ final \in [Runs -> Statuses]
    /\ status \in Statuses
    /\ prompted \subseteq Prompts
    /\ stops \in 0..MaxStops
    /\ asks \in 0..MaxAsks

Init ==
    /\ pc = [t \in Threads |-> Off]
    /\ handle = NoRun
    /\ phase = [r \in Runs |-> "unborn"]
    /\ cancelled = [r \in Runs |-> FALSE]
    /\ interrupted = [r \in Runs |-> FALSE]
    /\ harness = [r \in Runs |-> "booting"]
    /\ mailbox = [r \in Runs |-> {}]
    /\ steerable = [r \in Runs |-> FALSE]
    /\ first = [r \in Runs |-> NoPrompt]
    /\ injected = [r \in Runs |-> FALSE]
    /\ maker = [r \in Runs |-> NoRun]
    /\ started = [r \in Runs |-> FALSE]
    /\ ask = [r \in Runs |-> "none"]
    /\ engineQ = [r \in Runs |-> <<>>]
    /\ shown = [r \in Runs |-> FALSE]
    /\ final = [r \in Runs |-> "none"]
    /\ status = "none"
    /\ prompted = {}
    /\ stops = 0
    /\ asks = 0

InLoop(r) == phase[r] \in {"turn", "parked"}
Alive(r) == phase[r] \in {"inserted", "starting", "turn", "parked", "closing"}

----------------------------------------------------------------------------
(* Threads: dispatch_inner, steer, interrupt, respond_input *)

GoTo(t, step) ==
    pc' = [pc EXCEPT ![t] = [at |-> step, op |-> pc[t].op,
                             prompt |-> pc[t].prompt, run |-> pc[t].run]]
GoToWith(t, step, r) ==
    pc' = [pc EXCEPT ![t] = [at |-> step, op |-> pc[t].op,
                             prompt |-> pc[t].prompt, run |-> r]]
(* The executor's fallback: a steer that finds no taker becomes a dispatch. *)
FallBack(t) ==
    pc' = [pc EXCEPT ![t] = [at |-> "route", op |-> "dispatch",
                             prompt |-> pc[t].prompt, run |-> NoRun]]
Return(t) == pc' = [pc EXCEPT ![t] = Off]

threadOnly == <<handle, phase, cancelled, interrupted, harness, mailbox,
                birthVars, started, inputVars, final, status>>

Call(c) ==
    /\ pc[c].at = "off"
    /\ \/ \E p \in Prompts \ prompted, op \in {"dispatch", "steer"} :
            /\ prompted' = prompted \cup {p}
            /\ pc' = [pc EXCEPT ![c] = [at |-> "route", op |-> op,
                                        prompt |-> p, run |-> NoRun]]
            /\ UNCHANGED stops
       \/ /\ stops < MaxStops
          /\ stops' = stops + 1
          /\ pc' = [pc EXCEPT ![c] = [at |-> "lookup", op |-> "stop",
                                      prompt |-> NoPrompt, run |-> NoRun]]
          /\ UNCHANGED prompted
    /\ UNCHANGED <<threadOnly, asks>>

(* Read the runs map and clone the mailbox sender; then let go of the lock. *)
Route(t) ==
    /\ pc[t].at = "route"
    /\ \/ handle # NoRun /\ steerable[handle] /\ GoToWith(t, "send", handle)
       \/ /\ handle # NoRun /\ ~steerable[handle]
          /\ IF pc[t].op = "steer" THEN FallBack(t) ELSE GoTo(t, "lookup")
       \/ /\ handle = NoRun
          /\ IF pc[t].op = "steer" THEN FallBack(t) ELSE GoTo(t, "insert")
    /\ UNCHANGED <<threadOnly, countVars>>

(* try_send: accepted as long as the harness holds the receiver.            *)
Send(t) ==
    /\ pc[t].at = "send"
    /\ IF harness[pc[t].run] # "dead"
       THEN /\ mailbox' = [mailbox EXCEPT ![pc[t].run] = @ \cup {pc[t].prompt}]
            /\ GoTo(t, "write")
       ELSE /\ IF pc[t].op = "steer" THEN FallBack(t) ELSE GoTo(t, "lookup")
            /\ UNCHANGED mailbox
    /\ UNCHANGED <<handle, phase, cancelled, interrupted, harness, birthVars,
                   started, inputVars, final, status, countVars>>

(* The accepted prompt's user entry; a routed dispatch also reports Working. *)
Write(t) ==
    /\ pc[t].at = "write"
    /\ status' = IF pc[t].op = "dispatch" THEN "working" ELSE status
    /\ Return(t)
    /\ UNCHANGED <<handle, phase, cancelled, interrupted, harness, mailbox,
                   birthVars, started, inputVars, final, countVars>>

(* interrupt(): look the run up, unpark its question, signal it, wait.      *)
Lookup(t) ==
    /\ pc[t].at = "lookup"
    /\ IF handle # NoRun THEN GoToWith(t, "drain", handle)
       ELSE IF pc[t].op = "stop" THEN Return(t) ELSE GoTo(t, "insert")
    /\ UNCHANGED <<threadOnly, countVars>>

Drain(t) ==
    /\ pc[t].at = "drain"
    /\ LET r == pc[t].run IN
         ask' = IF ask[r] = "pending" THEN [ask EXCEPT ![r] = "closed"] ELSE ask
    /\ GoTo(t, "signal")
    /\ UNCHANGED <<handle, phase, cancelled, interrupted, harness, mailbox,
                   birthVars, started, engineQ, shown, final, status, countVars>>

Signal(t) ==
    /\ pc[t].at = "signal"
    /\ cancelled' = [cancelled EXCEPT ![pc[t].run] = TRUE]
    /\ GoTo(t, "wait")
    /\ UNCHANGED <<handle, phase, interrupted, harness, mailbox, birthVars,
                   started, inputVars, final, status, countVars>>

(* The wait ends when the run is out of the map, or after five seconds. A   *)
(* run in its loop settles within its three seconds of grace; one whose     *)
(* harness is still starting does not look at the signal.                   *)
Settled(r) == handle # r
WaitIsOver(r) == handle # r \/ phase[r] = "starting"

Wait(t) ==
    /\ pc[t].at = "wait"
    /\ WaitIsOver(pc[t].run)
    /\ IF pc[t].op = "stop" THEN Return(t) ELSE GoTo(t, "insert")
    /\ UNCHANGED <<threadOnly, countVars>>

DropsNothing(old) == cancelled
(* Replacing a handle drops its cancel sender: the old run's receiver errs. *)
CancelReplaced(old) ==
    [r \in Runs |-> cancelled[r] \/ r = old]

(* Only callers inject a resume id: a retry starts fresh.                   *)
MayInjectAlways(t) == BOOLEAN
MayInject(t) == IF t \in Callers THEN BOOLEAN ELSE {FALSE}

Insert(t) ==
    /\ pc[t].at = "insert"
    /\ \E r \in Runs, canSteer \in BOOLEAN, resume \in MayInject(t) :
         /\ phase[r] = "unborn"
         /\ phase' = [phase EXCEPT ![r] = "inserted"]
         /\ handle' = r
         /\ cancelled' = CancelReplaced(handle)
         /\ steerable' = [steerable EXCEPT ![r] = canSteer]
         /\ first' = [first EXCEPT ![r] = pc[t].prompt]
         /\ injected' = [injected EXCEPT ![r] = resume]
         /\ maker' = [maker EXCEPT ![r] = t]
         /\ GoToWith(t, "working", r)
    /\ UNCHANGED <<interrupted, harness, mailbox, started, inputVars, final,
                   status, countVars>>

Working(t) ==
    /\ pc[t].at = "working"
    /\ status' = "working"
    /\ GoTo(t, "spawn")
    /\ UNCHANGED <<handle, phase, cancelled, interrupted, harness, mailbox,
                   birthVars, started, inputVars, final, countVars>>

Spawn(t) ==
    /\ pc[t].at = "spawn"
    /\ phase' = [phase EXCEPT ![pc[t].run] = "starting"]
    /\ Return(t)
    /\ UNCHANGED <<handle, cancelled, interrupted, harness, mailbox, birthVars,
                   started, inputVars, final, status, countVars>>

NoResolvedEvent(r) == engineQ
ResolvedEvent(r) == [engineQ EXCEPT ![r] = Append(@, "resolved")]

RespondInput(c) ==
    /\ pc[c].at = "off"
    /\ handle # NoRun
    /\ ask[handle] = "pending"
    /\ ask' = [ask EXCEPT ![handle] = "closed"]
    /\ engineQ' = ResolvedEvent(handle)
    /\ UNCHANGED <<pc, handle, phase, cancelled, interrupted, harness, mailbox,
                   birthVars, started, shown, final, status, countVars>>

----------------------------------------------------------------------------
(* The run's task: drive_run *)

loopOnly == <<pc, handle, cancelled, mailbox, birthVars, countVars>>

StartOk(r) ==
    /\ phase[r] = "starting"
    /\ phase' = [phase EXCEPT ![r] = "turn"]
    /\ harness' = [harness EXCEPT ![r] = "busy"]
    /\ UNCHANGED <<loopOnly, interrupted, started, inputVars, final, status>>

Close(r, outcome) ==
    /\ phase' = [phase EXCEPT ![r] = "closing"]
    /\ final' = [final EXCEPT ![r] = outcome]

StartErr(r) ==
    /\ phase[r] = "starting"
    /\ Close(r, "errored")
    /\ harness' = [harness EXCEPT ![r] = "dead"]
    /\ UNCHANGED <<loopOnly, interrupted, started, inputVars, status>>

(* The select is biased: a pending cancel is observed before anything else. *)
ObserveCancel(r) ==
    /\ InLoop(r)
    /\ cancelled[r] /\ ~interrupted[r]
    /\ interrupted' = [interrupted EXCEPT ![r] = TRUE]
    /\ UNCHANGED <<loopOnly, phase, harness, started, inputVars, final, status>>

Selecting(r) == InLoop(r) /\ (cancelled[r] => interrupted[r])

Unpark(r) == phase' = [phase EXCEPT ![r] = "turn"]
Unparked(r) == IF phase[r] = "parked" THEN "working" ELSE status

(* Three seconds after the signal a Done is synthesized, parked or not; a   *)
(* Done resolves the open entry's question part.                            *)
DeadlineOfTurn(r) == interrupted[r] /\ phase[r] = "turn"
Deadline(r) == interrupted[r]

GraceExpires(r) ==
    /\ Selecting(r)
    /\ Deadline(r)
    /\ Close(r, "idle")
    /\ shown' = [shown EXCEPT ![r] = FALSE]
    /\ status' = Unparked(r)
    /\ UNCHANGED <<loopOnly, interrupted, harness, started, ask, engineQ>>

(* A streamed event; on a parked run it begins the next turn.               *)
Activity(r) ==
    /\ Selecting(r)
    /\ harness[r] = "busy"
    /\ phase[r] = "parked" \/ ~started[r]
    /\ started' = [started EXCEPT ![r] = TRUE]
    /\ Unpark(r)
    /\ status' = Unparked(r)
    /\ UNCHANGED <<loopOnly, interrupted, harness, inputVars, final>>

EngineEvent(r) ==
    /\ Selecting(r)
    /\ engineQ[r] # <<>>
    /\ engineQ' = [engineQ EXCEPT ![r] = Tail(@)]
    /\ Unpark(r)
    /\ \/ /\ Head(engineQ[r]) = "requested"
          /\ handle = r /\ ask[r] = "pending"
          /\ shown' = [shown EXCEPT ![r] = TRUE]
          /\ started' = [started EXCEPT ![r] = TRUE]
          /\ status' = "awaiting"
       \/ /\ Head(engineQ[r]) = "requested"
          /\ ~(handle = r /\ ask[r] = "pending")
          /\ status' = Unparked(r)
          /\ UNCHANGED <<shown, started>>
       \/ /\ Head(engineQ[r]) = "resolved"
          /\ shown' = [shown EXCEPT ![r] = FALSE]
          /\ status' = "working"
          /\ UNCHANGED started
    /\ UNCHANGED <<loopOnly, interrupted, harness, ask, final>>

(* Done(Completed): a steerable run parks with its child and mailbox warm.  *)
TurnCompletes(r) ==
    /\ Selecting(r)
    /\ harness[r] = "busy"
    /\ ask[r] # "pending"
    /\ harness' = [harness EXCEPT ![r] = "idle"]
    /\ shown' = [shown EXCEPT ![r] = FALSE]
    /\ started' = [started EXCEPT ![r] = TRUE]
    /\ IF steerable[r] /\ ~interrupted[r]
       THEN /\ phase' = [phase EXCEPT ![r] = "parked"]
            /\ status' = "idle"
            /\ UNCHANGED final
       ELSE Close(r, "idle") /\ status' = Unparked(r)
    /\ UNCHANGED <<loopOnly, interrupted, ask, engineQ>>

MustRetry(r) == injected[r] /\ ~started[r] /\ ~interrupted[r]

(* The stream ends or errs: interrupted, clean when parked, else an error.  *)
StreamEnds(r) ==
    /\ Selecting(r)
    /\ ~MustRetry(r)
    /\ harness' = [harness EXCEPT ![r] = "dead"]
    /\ \/ interrupted[r] /\ Close(r, "idle") /\ status' = Unparked(r)
       \/ ~interrupted[r] /\ phase[r] = "parked" /\ Close(r, "idle") /\ UNCHANGED status
       \/ Close(r, "errored") /\ status' = Unparked(r)
    /\ shown' = [shown EXCEPT ![r] = FALSE]
    /\ UNCHANGED <<loopOnly, interrupted, started, ask, engineQ>>

NothingToRetry(r) == NoPrompt
RetryPrompt(r) == first[r]

(* The harness rejected the injected resume id: forget it, leave the map    *)
(* and dispatch the same prompt once more, in a task of its own.            *)
RetryFresh(r) ==
    /\ Selecting(r)
    /\ MustRetry(r)
    /\ harness' = [harness EXCEPT ![r] = "dead"]
    /\ phase' = [phase EXCEPT ![r] = "ended"]
    /\ handle' = IF handle = r THEN NoRun ELSE handle
    /\ pc' = [pc EXCEPT ![r] = [at |-> "route", op |-> "dispatch",
                                prompt |-> RetryPrompt(r), run |-> NoRun]]
    /\ UNCHANGED <<cancelled, mailbox, birthVars, countVars, interrupted,
                   started, inputVars, final, status>>

(* The idle reaper.                                                         *)
Reap(r) ==
    /\ Selecting(r)
    /\ phase[r] = "parked"
    /\ Close(r, "idle")
    /\ UNCHANGED <<loopOnly, interrupted, harness, started, inputVars, status>>

(* remove_run forgets the entry only if it still names this run.            *)
LeaveEntry(r) == handle
RemoveOwn(r) == IF handle = r THEN NoRun ELSE handle

Remove(r) ==
    /\ phase[r] = "closing"
    /\ phase' = [phase EXCEPT ![r] = "removed"]
    /\ handle' = RemoveOwn(r)
    /\ UNCHANGED <<pc, cancelled, mailbox, birthVars, countVars, interrupted,
                   harness, started, inputVars, final, status>>

Finish(r) ==
    /\ phase[r] = "removed"
    /\ phase' = [phase EXCEPT ![r] = "ended"]
    /\ status' = final[r]
    /\ UNCHANGED <<loopOnly, interrupted, harness, started, inputVars, final>>

----------------------------------------------------------------------------
(* The harness *)

(* It takes a prompt between turns, or as a steer of the turn it is in.     *)
TakePrompt(r) ==
    /\ harness[r] \in {"busy", "idle"}
    /\ ask[r] # "pending"
    /\ \E p \in mailbox[r] : mailbox' = [mailbox EXCEPT ![r] = @ \ {p}]
    /\ harness' = [harness EXCEPT ![r] = "busy"]
    /\ UNCHANGED <<pc, handle, phase, cancelled, interrupted, birthVars, started,
                   inputVars, final, status, countVars>>

(* request_input: park the resolver, and surface the event.                 *)
AskUser(r) ==
    /\ InLoop(r)
    /\ harness[r] = "busy"
    /\ ask[r] = "none"
    /\ asks < MaxAsks
    /\ asks' = asks + 1
    /\ ask' = [ask EXCEPT ![r] = "pending"]
    /\ engineQ' = [engineQ EXCEPT ![r] = Append(@, "requested")]
    /\ UNCHANGED <<pc, handle, cancelled, mailbox, birthVars, prompted, stops,
                   phase, interrupted, harness, started, shown, final, status>>

(* Its token is cancelled, or nobody reads its stream any more: it quits.   *)
HarnessQuits(r) ==
    /\ harness[r] \in {"busy", "idle"}
    /\ cancelled[r] \/ ~InLoop(r)
    /\ harness' = [harness EXCEPT ![r] = "dead"]
    /\ UNCHANGED <<loopOnly, phase, interrupted, started, inputVars, final,
                   status>>

ThreadStep(t) ==
    \/ Route(t) \/ Send(t) \/ Write(t) \/ Lookup(t) \/ Drain(t) \/ Signal(t)
    \/ Wait(t) \/ Insert(t) \/ Working(t) \/ Spawn(t)
RunStep(r) ==
    \/ StartOk(r) \/ StartErr(r) \/ ObserveCancel(r) \/ GraceExpires(r)
    \/ Activity(r) \/ EngineEvent(r) \/ TurnCompletes(r) \/ StreamEnds(r)
    \/ RetryFresh(r) \/ Reap(r) \/ Remove(r) \/ Finish(r)
HarnessStep(r) == TakePrompt(r) \/ AskUser(r) \/ HarnessQuits(r)

Next ==
    \/ \E c \in Callers : Call(c) \/ RespondInput(c)
    \/ \E t \in Threads : ThreadStep(t)
    \/ \E r \in Runs : RunStep(r) \/ HarnessStep(r)

Spec == Init /\ [][Next]_vars

(* Tasks are scheduled and timers fire. Nothing is assumed of the harness:  *)
(* it may never start, never stream, and ignore its token.                  *)
Fairness ==
    /\ \A t \in Threads : WF_vars(ThreadStep(t))
    /\ \A r \in Runs : /\ WF_vars(ObserveCancel(r)) /\ WF_vars(GraceExpires(r))
                       /\ WF_vars(Remove(r)) /\ WF_vars(Finish(r))

FairSpec == Spec /\ Fairness

----------------------------------------------------------------------------
(* Properties *)

(* Every run that still works and has not been told to stop is the one the  *)
(* runs map names, so a stop can reach it, and no chat has two runtimes     *)
(* that both mean to go on (dispatch: "never two runtimes driving one       *)
(* chat"), even when dispatchers race or an interrupt wait times out.       *)
LiveRunReachable ==
    \A r \in Runs : (Alive(r) /\ ~cancelled[r]) => handle = r

(* The map never names a run whose task is past its own clean-up: nobody    *)
(* would take such an entry out again, and every stop would wait in vain.   *)
HandleIsAttended == handle # NoRun => Alive(handle)

(* A question the transcript shows as open can be answered: its resolver is *)
(* parked, or its resolution is on its way, or the run is being stopped.    *)
QuestionAnswerable ==
    \A r \in Runs :
        (shown[r] /\ InLoop(r)) =>
            \/ ask[r] = "pending" /\ handle = r
            \/ \E i \in DOMAIN engineQ[r] : engineQ[r][i] = "resolved"
            \/ cancelled[r]
            \/ \E t \in Threads : pc[t].at = "signal" /\ pc[t].run = r

(* A rejected resume id is retried once: the retry's run is never itself    *)
(* retried, however it fails.                                               *)
RetryOnce == \A r \in Runs : maker[r] \in Runs => pc[r].at = "off"

(* A run in its loop that is told to stop comes to its end, whatever its    *)
(* harness does, parked or in a turn, with its question open or not.        *)
StopsSettle == \A r \in Runs : (InLoop(r) /\ cancelled[r]) ~> phase[r] = "ended"

(* Every dispatch, steer and stop returns, though a harness that is still   *)
(* starting never looks at the signal and may never come up.                *)
CallsReturn == \A t \in Threads : (pc[t].at # "off") ~> (pc[t].at = "off")

(* "A live steerable run receives the prompt as its next turn via the       *)
(* mailbox": no accepted prompt is left in the mailbox of a run that ended. *)
PromptNotLost ==
    \A r \in Runs : (phase[r] = "ended" /\ harness[r] = "dead") => mailbox[r] = {}

(* any_active, the updater's "don't restart from under a session" gate,     *)
(* holds off a restart while a turn runs and no call is in flight.          *)
GateHolds ==
    (/\ \A t \in Threads : pc[t].at = "off"
     /\ handle # NoRun /\ phase[handle] = "turn")
        => status \in {"working", "awaiting"}
=============================================================================
