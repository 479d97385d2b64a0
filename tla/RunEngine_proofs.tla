-------------------------- MODULE RunEngine_proofs --------------------------
(* Theorems about RunEngine: type correctness, that a run which has not     *)
(* been told to stop is the one the runs map names, that the map never      *)
(* names a run past its clean-up, that a rejected resume id is retried at   *)
(* most once, that a shown question can be answered, and that no call waits *)
(* for a run that nobody will end.                                          *)
EXTENDS RunEngine, TLAPS

(* Threads past routing carry a prompt, and a run was born with one.        *)
Carrying == {"route", "send", "write", "insert", "working", "spawn"}
ThreadsKnown ==
    \A t \in Threads : /\ pc[t].at \in Carrying => pc[t].op # "stop"
                       /\ pc[t].op # "stop" => pc[t].prompt \in Prompts
RunsKnown == \A r \in Runs : phase[r] # "unborn" => first[r] \in Prompts

(* A thread between inserting a run and spawning its task owns that run.    *)
OwnsBirth ==
    \A t \in Threads :
        pc[t].at \in {"working", "spawn"} =>
            /\ pc[t].run \in Runs
            /\ phase[pc[t].run] = "inserted"
            /\ maker[pc[t].run] = t

TypeInv == TypeOK /\ ThreadsKnown /\ RunsKnown /\ OwnsBirth

LEMMA InitType == Init => TypeInv
<1> SUFFICES ASSUME Init PROVE TypeInv
    OBVIOUS
<1> USE EngineAssumption
<1>1. Off \in Thread
    BY DEF Off, Thread, Steps
<1>2. TypeOK
    BY <1>1 DEF Init, TypeOK, Phases, HarnessStates, Statuses
<1>3. ThreadsKnown /\ RunsKnown /\ OwnsBirth
    BY DEF Init, ThreadsKnown, RunsKnown, OwnsBirth, Carrying, Off
<1> QED
    BY <1>2, <1>3 DEF TypeInv

(* What a thread's step makes of its own record, and of nobody else's.      *)
LEMMA PcAfter ==
    ASSUME TypeOK, NEW t \in Threads, NEW step \in Steps, NEW r \in Runs \cup {NoRun}
    PROVE  /\ (GoTo(t, step) \/ GoToWith(t, step, r) \/ FallBack(t) \/ Return(t)) =>
                 /\ pc' \in [Threads -> Thread]
                 /\ \A u \in Threads : u # t => pc'[u] = pc[u]
           /\ GoTo(t, step) =>
                 /\ pc'[t].at = step /\ pc'[t].op = pc[t].op
                 /\ pc'[t].prompt = pc[t].prompt /\ pc'[t].run = pc[t].run
           /\ GoToWith(t, step, r) =>
                 /\ pc'[t].at = step /\ pc'[t].op = pc[t].op
                 /\ pc'[t].prompt = pc[t].prompt /\ pc'[t].run = r
           /\ FallBack(t) =>
                 /\ pc'[t].at = "route" /\ pc'[t].op = "dispatch"
                 /\ pc'[t].prompt = pc[t].prompt /\ pc'[t].run = NoRun
           /\ Return(t) =>
                 /\ pc'[t].at = "off" /\ pc'[t].op = "stop"
<1>1. pc[t] \in Thread /\ pc \in [Threads -> Thread]
    BY DEF TypeOK
<1>2. pc[t].op \in {"dispatch", "steer", "stop"} /\ pc[t].prompt \in Prompts \cup {NoPrompt}
         /\ pc[t].run \in Runs \cup {NoRun}
    BY <1>1 DEF Thread
<1>3. ASSUME GoTo(t, step)
      PROVE  /\ pc' \in [Threads -> Thread]
             /\ \A u \in Threads : u # t => pc'[u] = pc[u]
             /\ pc'[t].at = step /\ pc'[t].op = pc[t].op
             /\ pc'[t].prompt = pc[t].prompt /\ pc'[t].run = pc[t].run
    BY <1>1, <1>2, <1>3 DEF GoTo, Thread
<1>4. ASSUME GoToWith(t, step, r)
      PROVE  /\ pc' \in [Threads -> Thread]
             /\ \A u \in Threads : u # t => pc'[u] = pc[u]
             /\ pc'[t].at = step /\ pc'[t].op = pc[t].op
             /\ pc'[t].prompt = pc[t].prompt /\ pc'[t].run = r
    BY <1>1, <1>2, <1>4 DEF GoToWith, Thread
<1>5. ASSUME FallBack(t)
      PROVE  /\ pc' \in [Threads -> Thread]
             /\ \A u \in Threads : u # t => pc'[u] = pc[u]
             /\ pc'[t].at = "route" /\ pc'[t].op = "dispatch"
             /\ pc'[t].prompt = pc[t].prompt /\ pc'[t].run = NoRun
    BY <1>1, <1>2, <1>5 DEF FallBack, Thread, Steps
<1>6. ASSUME Return(t)
      PROVE  /\ pc' \in [Threads -> Thread]
             /\ \A u \in Threads : u # t => pc'[u] = pc[u]
             /\ pc'[t].at = "off" /\ pc'[t].op = "stop"
    BY <1>1, <1>6 DEF Return, Off, Thread, Steps
<1> QED
    BY <1>3, <1>4, <1>5, <1>6

LEMMA CallType ==
    ASSUME TypeInv, NEW c \in Callers, Call(c) \/ RespondInput(c)
    PROVE  TypeInv'
<1> USE EngineAssumption DEF TypeInv, threadOnly, birthVars, inputVars, countVars
<1>0. c \in Threads
    BY DEF Threads
<1>1. CASE Call(c)
  <2>1. PICK rec \in Thread :
            /\ pc' = [pc EXCEPT ![c] = rec]
            /\ rec.at \in {"route", "lookup"}
            /\ rec.at = "route" => rec.op # "stop"
            /\ rec.op # "stop" => rec.prompt \in Prompts
    <3>1. CASE \E p \in Prompts \ prompted, op \in {"dispatch", "steer"} :
                 pc' = [pc EXCEPT ![c] = [at |-> "route", op |-> op,
                                          prompt |-> p, run |-> NoRun]]
      <4>1. PICK p \in Prompts, op \in {"dispatch", "steer"} :
                 pc' = [pc EXCEPT ![c] = [at |-> "route", op |-> op,
                                          prompt |-> p, run |-> NoRun]]
          BY <3>1
      <4>2. [at |-> "route", op |-> op, prompt |-> p, run |-> NoRun] \in Thread
          BY DEF Thread, Steps
      <4> QED
          BY <4>1, <4>2
    <3>2. CASE pc' = [pc EXCEPT ![c] = [at |-> "lookup", op |-> "stop",
                                        prompt |-> NoPrompt, run |-> NoRun]]
      <4>1. [at |-> "lookup", op |-> "stop", prompt |-> NoPrompt, run |-> NoRun] \in Thread
          BY DEF Thread, Steps
      <4> QED
          BY <3>2, <4>1
    <3> QED
        BY <1>1, <3>1, <3>2 DEF Call
  <2>2. /\ pc' \in [Threads -> Thread] /\ pc'[c] = rec
        /\ \A u \in Threads : u # c => pc'[u] = pc[u]
    BY <1>0, <2>1 DEF TypeOK
  <2>3. prompted' \subseteq Prompts /\ stops' \in 0..MaxStops
    BY <1>1 DEF Call, TypeOK
  <2>4. TypeOK'
    BY <1>1, <2>2, <2>3 DEF Call, TypeOK
  <2>5. ThreadsKnown'
    BY <2>1, <2>2 DEF ThreadsKnown, Carrying
  <2>6. RunsKnown' /\ OwnsBirth'
    BY <1>1, <2>1, <2>2 DEF Call, RunsKnown, OwnsBirth
  <2> QED
    BY <2>4, <2>5, <2>6
<1>2. CASE RespondInput(c)
  <2>1. engineQ' \in [Runs -> Seq({"requested", "resolved"})]
    BY <1>2 DEF RespondInput, ResolvedEvent, TypeOK
  <2>2. TypeOK'
    BY <1>2, <2>1 DEF RespondInput, TypeOK
  <2>3. ThreadsKnown' /\ RunsKnown' /\ OwnsBirth'
    BY <1>2 DEF RespondInput, ThreadsKnown, RunsKnown, OwnsBirth
  <2> QED
    BY <2>2, <2>3
<1> QED
    BY <1>1, <1>2

LEMMA ThreadStepType ==
    ASSUME TypeInv, NEW t \in Threads, ThreadStep(t)
    PROVE  TypeInv'
<1> USE EngineAssumption DEF TypeInv, threadOnly, birthVars, inputVars, countVars
<1>0. /\ pc[t] \in Thread /\ handle \in Runs \cup {NoRun} /\ NoRun \in Runs \cup {NoRun}
      /\ {"send", "write", "lookup", "drain", "signal", "wait", "insert", "working",
          "spawn"} \subseteq Steps
    BY DEF TypeOK, Steps
<1>1. CASE Route(t)
  <2>1. /\ pc' \in [Threads -> Thread]
        /\ \A u \in Threads : u # t => pc'[u] = pc[u]
    BY <1>0, <1>1, PcAfter DEF Route
  <2>2. TypeOK'
    BY <1>1, <2>1 DEF Route, TypeOK, Statuses
  <2>3. ThreadsKnown'
    BY <1>0, <1>1, <2>1, PcAfter DEF Route, ThreadsKnown, Carrying
  <2>4. RunsKnown' /\ OwnsBirth'
    BY <1>0, <1>1, <2>1, PcAfter DEF Route, RunsKnown, OwnsBirth
  <2> QED
    BY <2>2, <2>3, <2>4
<1>2. CASE Send(t)
  <2>1. /\ pc' \in [Threads -> Thread]
        /\ \A u \in Threads : u # t => pc'[u] = pc[u]
    BY <1>0, <1>2, PcAfter DEF Send
  <2>5. mailbox' \in [Runs -> SUBSET Prompts]
    <3>1. pc[t].prompt \in Prompts
        BY <1>2 DEF Send, ThreadsKnown, Carrying
    <3>2. CASE harness[pc[t].run] # "dead"
      <4> DEFINE r == pc[t].run
      <4>1. /\ mailbox' = [mailbox EXCEPT ![r] = mailbox[r] \cup {pc[t].prompt}]
            /\ mailbox \in [Runs -> SUBSET Prompts]
          BY <1>2, <3>2 DEF Send, TypeOK
      <4>2. r \in Runs => mailbox[r] \cup {pc[t].prompt} \in SUBSET Prompts
          BY <3>1, <4>1
      <4> QED
          BY <4>1, <4>2
    <3>3. CASE harness[pc[t].run] = "dead"
        BY <1>2, <3>3 DEF Send, TypeOK
    <3> QED
        BY <3>2, <3>3
  <2>2. TypeOK'
    BY <1>2, <2>1, <2>5 DEF Send, TypeOK, Statuses
  <2>3. ThreadsKnown'
    BY <1>0, <1>2, <2>1, PcAfter DEF Send, ThreadsKnown, Carrying
  <2>4. RunsKnown' /\ OwnsBirth'
    BY <1>0, <1>2, <2>1, PcAfter DEF Send, RunsKnown, OwnsBirth
  <2> QED
    BY <2>2, <2>3, <2>4
<1>3. CASE Write(t)
  <2>1. /\ pc' \in [Threads -> Thread]
        /\ \A u \in Threads : u # t => pc'[u] = pc[u]
    BY <1>0, <1>3, PcAfter DEF Write
  <2>2. TypeOK'
    BY <1>3, <2>1 DEF Write, TypeOK, Statuses
  <2>3. ThreadsKnown'
    BY <1>0, <1>3, <2>1, PcAfter DEF Write, ThreadsKnown, Carrying
  <2>4. RunsKnown' /\ OwnsBirth'
    BY <1>0, <1>3, <2>1, PcAfter DEF Write, RunsKnown, OwnsBirth
  <2> QED
    BY <2>2, <2>3, <2>4
<1>4. CASE Lookup(t)
  <2>1. /\ pc' \in [Threads -> Thread]
        /\ \A u \in Threads : u # t => pc'[u] = pc[u]
    BY <1>0, <1>4, PcAfter DEF Lookup
  <2>2. TypeOK'
    BY <1>4, <2>1 DEF Lookup, TypeOK, Statuses
  <2>3. ThreadsKnown'
    BY <1>0, <1>4, <2>1, PcAfter DEF Lookup, ThreadsKnown, Carrying
  <2>4. RunsKnown' /\ OwnsBirth'
    BY <1>0, <1>4, <2>1, PcAfter DEF Lookup, RunsKnown, OwnsBirth
  <2> QED
    BY <2>2, <2>3, <2>4
<1>5. CASE Drain(t)
  <2>1. /\ pc' \in [Threads -> Thread]
        /\ \A u \in Threads : u # t => pc'[u] = pc[u]
    BY <1>0, <1>5, PcAfter DEF Drain
  <2>5. ask' \in [Runs -> {"none", "pending", "closed"}]
    BY <1>5 DEF Drain, TypeOK
  <2>2. TypeOK'
    BY <1>5, <2>1, <2>5 DEF Drain, TypeOK, Statuses
  <2>3. ThreadsKnown'
    BY <1>0, <1>5, <2>1, PcAfter DEF Drain, ThreadsKnown, Carrying
  <2>4. RunsKnown' /\ OwnsBirth'
    BY <1>0, <1>5, <2>1, PcAfter DEF Drain, RunsKnown, OwnsBirth
  <2> QED
    BY <2>2, <2>3, <2>4
<1>6. CASE Signal(t)
  <2>1. /\ pc' \in [Threads -> Thread]
        /\ \A u \in Threads : u # t => pc'[u] = pc[u]
    BY <1>0, <1>6, PcAfter DEF Signal
  <2>2. TypeOK'
    BY <1>6, <2>1 DEF Signal, TypeOK, Statuses
  <2>3. ThreadsKnown'
    BY <1>0, <1>6, <2>1, PcAfter DEF Signal, ThreadsKnown, Carrying
  <2>4. RunsKnown' /\ OwnsBirth'
    BY <1>0, <1>6, <2>1, PcAfter DEF Signal, RunsKnown, OwnsBirth
  <2> QED
    BY <2>2, <2>3, <2>4
<1>7. CASE Wait(t)
  <2>1. /\ pc' \in [Threads -> Thread]
        /\ \A u \in Threads : u # t => pc'[u] = pc[u]
    BY <1>0, <1>7, PcAfter DEF Wait
  <2>2. TypeOK'
    BY <1>7, <2>1 DEF Wait, TypeOK, Statuses
  <2>3. ThreadsKnown'
    BY <1>0, <1>7, <2>1, PcAfter DEF Wait, ThreadsKnown, Carrying
  <2>4. RunsKnown' /\ OwnsBirth'
    BY <1>0, <1>7, <2>1, PcAfter DEF Wait, RunsKnown, OwnsBirth
  <2> QED
    BY <2>2, <2>3, <2>4
<1>8. CASE Insert(t)
  <2>1. PICK r \in Runs, canSteer \in BOOLEAN, resume \in MayInject(t) :
            /\ phase[r] = "unborn"
            /\ phase' = [phase EXCEPT ![r] = "inserted"]
            /\ handle' = r
            /\ cancelled' = CancelReplaced(handle)
            /\ steerable' = [steerable EXCEPT ![r] = canSteer]
            /\ first' = [first EXCEPT ![r] = pc[t].prompt]
            /\ injected' = [injected EXCEPT ![r] = resume]
            /\ maker' = [maker EXCEPT ![r] = t]
            /\ GoToWith(t, "working", r)
    BY <1>8 DEF Insert
  <2>2. /\ pc' \in [Threads -> Thread]
        /\ \A u \in Threads : u # t => pc'[u] = pc[u]
        /\ pc'[t].at = "working" /\ pc'[t].run = r
        /\ pc'[t].op = pc[t].op /\ pc'[t].prompt = pc[t].prompt
    BY <1>0, <2>1, PcAfter
  <2>3. pc[t].prompt \in Prompts /\ pc[t].op # "stop" /\ resume \in BOOLEAN
    BY <1>8 DEF Insert, ThreadsKnown, Carrying, MayInject
  <2>4. cancelled' \in [Runs -> BOOLEAN]
    BY <2>1 DEF CancelReplaced, TypeOK
  <2>5. /\ phase' \in [Runs -> Phases] /\ handle' \in Runs \cup {NoRun}
        /\ steerable' \in [Runs -> BOOLEAN] /\ injected' \in [Runs -> BOOLEAN]
    BY <2>1, <2>3 DEF TypeOK, Phases
  <2>6. /\ first' \in [Runs -> Prompts \cup {NoPrompt}]
        /\ maker' \in [Runs -> Threads \cup {NoRun}]
    BY <2>1, <2>3 DEF TypeOK
  <2>7. TypeOK'
    BY <1>8, <2>2, <2>4, <2>5, <2>6 DEF Insert, TypeOK
  <2>8. ThreadsKnown'
    BY <2>2, <2>3 DEF ThreadsKnown
  <2>9. RunsKnown'
    BY <2>1, <2>3 DEF TypeOK, RunsKnown
  <2>10. OwnsBirth'
    <3> SUFFICES ASSUME NEW u \in Threads, pc'[u].at \in {"working", "spawn"}
                 PROVE  /\ pc'[u].run \in Runs
                        /\ phase'[pc'[u].run] = "inserted"
                        /\ maker'[pc'[u].run] = u
        BY DEF OwnsBirth
    <3>1. CASE u = t
        BY <2>1, <2>2, <3>1 DEF TypeOK
    <3>2. CASE u # t
      <4>1. /\ pc'[u] = pc[u] /\ pc[u].run \in Runs
            /\ phase[pc[u].run] = "inserted" /\ maker[pc[u].run] = u
          BY <2>2, <3>2 DEF OwnsBirth
      <4>2. pc[u].run # r
          BY <2>1, <4>1
      <4> QED
          BY <2>1, <4>1, <4>2 DEF TypeOK
    <3> QED
        BY <3>1, <3>2
  <2> QED
    BY <2>7, <2>8, <2>9, <2>10
<1>9. CASE Working(t)
  <2>1. /\ pc' \in [Threads -> Thread]
        /\ \A u \in Threads : u # t => pc'[u] = pc[u]
    BY <1>0, <1>9, PcAfter DEF Working
  <2>2. TypeOK'
    BY <1>9, <2>1 DEF Working, TypeOK, Statuses
  <2>3. ThreadsKnown'
    BY <1>0, <1>9, <2>1, PcAfter DEF Working, ThreadsKnown, Carrying
  <2>4. RunsKnown' /\ OwnsBirth'
    BY <1>0, <1>9, <2>1, PcAfter DEF Working, RunsKnown, OwnsBirth
  <2> QED
    BY <2>2, <2>3, <2>4
<1>10. CASE Spawn(t)
  <2>1. /\ pc' \in [Threads -> Thread]
        /\ \A u \in Threads : u # t => pc'[u] = pc[u]
    BY <1>0, <1>10, PcAfter DEF Spawn
  <2>5. phase' \in [Runs -> Phases]
    BY <1>10 DEF Spawn, TypeOK, Phases
  <2>2. TypeOK'
    BY <1>10, <2>1, <2>5 DEF Spawn, TypeOK, Statuses
  <2>3. ThreadsKnown'
    BY <1>0, <1>10, <2>1, PcAfter DEF Spawn, ThreadsKnown, Carrying
  <2>6. pc'[t].at = "off"
    BY <1>0, <1>10, PcAfter DEF Spawn
  <2>7. /\ pc[t].run \in Runs /\ phase[pc[t].run] = "inserted"
        /\ maker[pc[t].run] = t /\ maker' = maker /\ first' = first
        /\ phase' = [phase EXCEPT ![pc[t].run] = "starting"]
    BY <1>10 DEF Spawn, OwnsBirth
  <2>8. RunsKnown'
    BY <2>7 DEF TypeOK, RunsKnown
  <2>9. OwnsBirth'
    <3> SUFFICES ASSUME NEW u \in Threads, pc'[u].at \in {"working", "spawn"}
                 PROVE  /\ pc'[u].run \in Runs
                        /\ phase'[pc'[u].run] = "inserted"
                        /\ maker'[pc'[u].run] = u
        BY DEF OwnsBirth
    <3>1. u # t
        BY <2>6
    <3>2. /\ pc'[u] = pc[u] /\ pc[u].run \in Runs
          /\ phase[pc[u].run] = "inserted" /\ maker[pc[u].run] = u
        BY <2>1, <3>1 DEF OwnsBirth
    <3>3. pc[u].run # pc[t].run
        BY <2>7, <3>1, <3>2
    <3> QED
        BY <2>7, <3>2, <3>3 DEF TypeOK
  <2>4. RunsKnown' /\ OwnsBirth'
    BY <2>8, <2>9
  <2> QED
    BY <2>2, <2>3, <2>4
<1> QED
    BY <1>1, <1>2, <1>3, <1>4, <1>5, <1>6, <1>7, <1>8, <1>9, <1>10 DEF ThreadStep

(* The run's task and its harness never touch a run that is being inserted. *)
LEMMA RunStepType ==
    ASSUME TypeInv, NEW r \in Runs, RunStep(r) \/ HarnessStep(r)
    PROVE  TypeInv'
<1> USE EngineAssumption DEF loopOnly, birthVars, inputVars, countVars
<1> DEFINE Untouched ==
        /\ first' = first /\ maker' = maker
        /\ \A q \in Runs : phase'[q] # phase[q] =>
               phase[q] \notin {"unborn", "inserted"} /\ phase'[q] # "unborn"
        /\ \/ pc' = pc
           \/ /\ phase[r] # "unborn"
              /\ pc' = [pc EXCEPT ![r] = [at |-> "route", op |-> "dispatch",
                                          prompt |-> first[r], run |-> NoRun]]
<1>0. TypeOK /\ ThreadsKnown /\ RunsKnown /\ OwnsBirth /\ r \in Threads
    BY DEF TypeInv, Threads
<1>100. ASSUME TypeOK', Untouched PROVE TypeInv'
  <2>1. CASE pc' = pc
    <3>1. ThreadsKnown'
        BY <1>0, <2>1 DEF ThreadsKnown
    <3>2. RunsKnown'
        BY <1>0, <1>100 DEF RunsKnown
    <3>3. OwnsBirth'
        BY <1>0, <1>100, <2>1 DEF OwnsBirth
    <3> QED
        BY <1>100, <3>1, <3>2, <3>3 DEF TypeInv
  <2>2. CASE phase[r] # "unborn" /\ pc' = [pc EXCEPT ![r] =
                [at |-> "route", op |-> "dispatch", prompt |-> first[r], run |-> NoRun]]
    <3>1. /\ pc'[r].at = "route" /\ pc'[r].op = "dispatch" /\ pc'[r].prompt = first[r]
          /\ \A u \in Threads : u # r => pc'[u] = pc[u]
        BY <1>0, <2>2 DEF TypeOK
    <3>2. ThreadsKnown'
        BY <1>0, <2>2, <3>1 DEF ThreadsKnown, RunsKnown
    <3>3. RunsKnown'
        BY <1>0, <1>100 DEF RunsKnown
    <3>4. OwnsBirth'
        BY <1>0, <1>100, <3>1 DEF OwnsBirth
    <3> QED
        BY <1>100, <3>2, <3>3, <3>4 DEF TypeInv
  <2> QED
    BY <1>100, <2>1, <2>2
<1>1. CASE StartOk(r)
  <2>1. TypeOK'
    BY <1>1, <1>0 DEF StartOk, TypeOK, Phases, HarnessStates
  <2>2. Untouched
    BY <1>0, <1>1 DEF StartOk, TypeOK
  <2> QED
    BY <1>100, <2>1, <2>2
<1>2. CASE StartErr(r)
  <2>1. TypeOK'
    BY <1>2, <1>0 DEF StartErr, TypeOK, Phases, HarnessStates, Statuses, Close
  <2>2. Untouched
    BY <1>0, <1>2 DEF StartErr, TypeOK, Close
  <2> QED
    BY <1>100, <2>1, <2>2
<1>3. CASE ObserveCancel(r)
  <2>1. TypeOK'
    BY <1>3, <1>0 DEF ObserveCancel, TypeOK
  <2>2. Untouched
    BY <1>0, <1>3 DEF ObserveCancel, TypeOK
  <2> QED
    BY <1>100, <2>1, <2>2
<1>4. CASE GraceExpires(r)
  <2>1. TypeOK'
    BY <1>4, <1>0 DEF GraceExpires, TypeOK, Phases, Statuses, Close, Unparked
  <2>2. Untouched
    BY <1>0, <1>4 DEF GraceExpires, TypeOK, Selecting, InLoop, Close
  <2> QED
    BY <1>100, <2>1, <2>2
<1>5. CASE Activity(r)
  <2>1. TypeOK'
    BY <1>5, <1>0 DEF Activity, TypeOK, Phases, Statuses, Unpark, Unparked
  <2>2. Untouched
    BY <1>0, <1>5 DEF Activity, TypeOK, Selecting, InLoop, Unpark
  <2> QED
    BY <1>100, <2>1, <2>2
<1>6. CASE EngineEvent(r)
  <2>0. engineQ' \in [Runs -> Seq({"requested", "resolved"})]
    BY <1>0, <1>6 DEF EngineEvent, TypeOK
  <2>1. TypeOK'
    BY <1>6, <1>0, <2>0 DEF EngineEvent, TypeOK, Phases, Statuses, Unpark, Unparked
  <2>2. Untouched
    BY <1>0, <1>6 DEF EngineEvent, TypeOK, Selecting, InLoop, Unpark
  <2> QED
    BY <1>100, <2>1, <2>2
<1>7. CASE TurnCompletes(r)
  <2>3. /\ harness' \in [Runs -> HarnessStates] /\ shown' \in [Runs -> BOOLEAN]
        /\ started' \in [Runs -> BOOLEAN]
    BY <1>7, <1>0 DEF TurnCompletes, TypeOK, HarnessStates
  <2>4. phase' \in [Runs -> Phases] /\ final' \in [Runs -> Statuses] /\ status' \in Statuses
    <3>1. CASE steerable[r] /\ ~interrupted[r]
      BY <1>7, <1>0, <3>1 DEF TurnCompletes, TypeOK, Phases, Statuses
    <3>2. CASE ~(steerable[r] /\ ~interrupted[r])
      <4>1. Close(r, "idle") /\ status' = Unparked(r)
        BY <1>7, <3>2 DEF TurnCompletes
      <4> QED
        BY <1>0, <4>1 DEF TypeOK, Phases, Statuses, Close, Unparked
    <3> QED
      BY <3>1, <3>2
  <2>1. TypeOK'
    BY <1>7, <1>0, <2>3, <2>4 DEF TurnCompletes, TypeOK
  <2>2. Untouched
    BY <1>0, <1>7 DEF TurnCompletes, TypeOK, Selecting, InLoop, Close
  <2> QED
    BY <1>100, <2>1, <2>2
<1>8. CASE StreamEnds(r)
  <2>1. TypeOK'
    BY <1>8, <1>0 DEF StreamEnds, TypeOK, Phases, HarnessStates, Statuses, Close, Unparked
  <2>2. Untouched
    BY <1>0, <1>8 DEF StreamEnds, TypeOK, Selecting, InLoop, Close
  <2> QED
    BY <1>100, <2>1, <2>2
<1>9. CASE RetryFresh(r)
  <2>0. pc' \in [Threads -> Thread]
    BY <1>0, <1>9 DEF RetryFresh, RetryPrompt, TypeOK, Thread, Steps
  <2>1. TypeOK'
    BY <1>9, <1>0, <2>0 DEF RetryFresh, TypeOK, Phases, HarnessStates
  <2>2. Untouched
    BY <1>0, <1>9 DEF RetryFresh, TypeOK, RetryPrompt, Selecting, InLoop
  <2> QED
    BY <1>100, <2>1, <2>2
<1>10. CASE Reap(r)
  <2>1. TypeOK'
    BY <1>10, <1>0 DEF Reap, TypeOK, Phases, Statuses, Close
  <2>2. Untouched
    BY <1>0, <1>10 DEF Reap, TypeOK, Selecting, InLoop, Close
  <2> QED
    BY <1>100, <2>1, <2>2
<1>11. CASE Remove(r)
  <2>1. TypeOK'
    BY <1>11, <1>0 DEF Remove, TypeOK, Phases, RemoveOwn
  <2>2. Untouched
    BY <1>0, <1>11 DEF Remove, TypeOK
  <2> QED
    BY <1>100, <2>1, <2>2
<1>12. CASE Finish(r)
  <2>1. TypeOK'
    BY <1>12, <1>0 DEF Finish, TypeOK, Phases
  <2>2. Untouched
    BY <1>0, <1>12 DEF Finish, TypeOK
  <2> QED
    BY <1>100, <2>1, <2>2
<1>13. CASE TakePrompt(r)
  <2>1. TypeOK'
    BY <1>13, <1>0 DEF TakePrompt, TypeOK, HarnessStates
  <2>2. Untouched
    BY <1>0, <1>13 DEF TakePrompt, TypeOK
  <2> QED
    BY <1>100, <2>1, <2>2
<1>14. CASE AskUser(r)
  <2>0. engineQ' \in [Runs -> Seq({"requested", "resolved"})]
    BY <1>0, <1>14 DEF AskUser, TypeOK
  <2>1. TypeOK'
    BY <1>14, <1>0, <2>0 DEF AskUser, TypeOK
  <2>2. Untouched
    BY <1>0, <1>14 DEF AskUser, TypeOK
  <2> QED
    BY <1>100, <2>1, <2>2
<1>15. CASE HarnessQuits(r)
  <2>1. TypeOK'
    BY <1>15, <1>0 DEF HarnessQuits, TypeOK, HarnessStates
  <2>2. Untouched
    BY <1>0, <1>15 DEF HarnessQuits, TypeOK
  <2> QED
    BY <1>100, <2>1, <2>2
<1> QED
    BY <1>1, <1>2, <1>3, <1>4, <1>5, <1>6, <1>7, <1>8, <1>9, <1>10, <1>11, <1>12, <1>13,
       <1>14, <1>15 DEF RunStep, HarnessStep

LEMMA NextType == TypeInv /\ [Next]_vars => TypeInv'
<1> SUFFICES ASSUME TypeInv, [Next]_vars PROVE TypeInv'
    OBVIOUS
<1>1. CASE Next
    BY <1>1, CallType, ThreadStepType, RunStepType DEF Next
<1>2. CASE UNCHANGED vars
    BY <1>2 DEF vars, TypeInv, TypeOK, ThreadsKnown, RunsKnown, OwnsBirth
<1> QED
    BY <1>1, <1>2

(* Every variable keeps its type, however calls, runs and harnesses mix.    *)
THEOREM TypeCorrect == Spec => []TypeOK
<1>1. TypeInv => TypeOK
    BY DEF TypeInv
<1> QED
    BY InitType, NextType, <1>1, PTL DEF Spec

(* The map and the runs agree: what it names is alive, and what is alive and *)
(* not told to stop is what it names.                                        *)
MapInv == LiveRunReachable /\ HandleIsAttended

LEMMA InitMap == Init => MapInv
BY EngineAssumption DEF Init, MapInv, LiveRunReachable, HandleIsAttended, Alive

LEMMA NextMap == TypeInv /\ MapInv /\ [Next]_vars => MapInv'
<1> SUFFICES ASSUME TypeInv, MapInv, [Next]_vars PROVE MapInv'
    OBVIOUS
<1> USE EngineAssumption DEF threadOnly, loopOnly
<1>0. TypeOK /\ OwnsBirth /\ LiveRunReachable /\ HandleIsAttended
    BY DEF TypeInv, MapInv
<1>1. ASSUME handle' = handle, cancelled' = cancelled, phase' = phase PROVE MapInv'
    BY <1>0, <1>1 DEF MapInv, LiveRunReachable, HandleIsAttended, Alive
(* The life of one run goes on, under the same entry.                        *)
<1>2. ASSUME NEW r \in Runs, NEW next \in Phases, Alive(r),
             next \in {"starting", "turn", "parked", "closing"},
             handle' = handle, cancelled' = cancelled,
             phase' = [phase EXCEPT ![r] = next]
      PROVE  MapInv'
    BY <1>0, <1>2 DEF TypeOK, MapInv, LiveRunReachable, HandleIsAttended, Alive
(* A run leaves the map as it ends its life.                                 *)
<1>3. ASSUME NEW r \in Runs, NEW next \in {"removed", "ended"},
             handle' = IF handle = r THEN NoRun ELSE handle, cancelled' = cancelled,
             phase' = [phase EXCEPT ![r] = next]
      PROVE  MapInv'
  <2>1. ASSUME NEW q \in Runs, phase'[q] \in {"inserted", "starting", "turn", "parked",
                                               "closing"}, ~cancelled'[q]
        PROVE  handle' = q
      BY <1>0, <1>3, <2>1 DEF TypeOK, LiveRunReachable, Alive
  <2>2. handle' # NoRun => /\ handle' \in Runs /\ handle' # r
                           /\ phase'[handle'] \in {"inserted", "starting", "turn",
                                                   "parked", "closing"}
      BY <1>0, <1>3 DEF TypeOK, HandleIsAttended, Alive
  <2> QED
      BY <2>1, <2>2 DEF MapInv, LiveRunReachable, HandleIsAttended, Alive
<1>4. ASSUME NEW c \in Callers, Call(c) \/ RespondInput(c) PROVE MapInv'
    BY <1>1, <1>4 DEF Call, RespondInput
<1>5. ASSUME NEW t \in Threads, ThreadStep(t) PROVE MapInv'
  <2>1. CASE Route(t) \/ Send(t) \/ Write(t) \/ Lookup(t) \/ Drain(t) \/ Wait(t) \/ Working(t)
      BY <1>1, <2>1 DEF Route, Send, Write, Lookup, Drain, Wait, Working
  <2>2. CASE Signal(t)
    <3>1. /\ handle' = handle /\ phase' = phase
          /\ \A q \in Runs : cancelled[q] => cancelled'[q]
        BY <1>0, <2>2 DEF Signal, TypeOK
    <3> QED
        BY <1>0, <3>1 DEF MapInv, LiveRunReachable, HandleIsAttended, Alive
  <2>3. CASE Insert(t)
    <3>1. PICK r \in Runs :
              /\ phase[r] = "unborn"
              /\ phase' = [phase EXCEPT ![r] = "inserted"]
              /\ handle' = r
              /\ cancelled' = CancelReplaced(handle)
        BY <2>3 DEF Insert
    <3>2. HandleIsAttended'
        BY <1>0, <3>1 DEF TypeOK, HandleIsAttended, Alive
    <3>3. LiveRunReachable'
      <4> SUFFICES ASSUME NEW q \in Runs, Alive(q)', ~cancelled'[q], q # r PROVE FALSE
          BY <3>1 DEF LiveRunReachable
      <4>1. Alive(q) /\ ~cancelled[q] /\ handle # q
          BY <1>0, <3>1 DEF TypeOK, Alive, CancelReplaced
      <4> QED
          BY <1>0, <4>1 DEF LiveRunReachable
    <3> QED
        BY <3>2, <3>3 DEF MapInv
  <2>4. CASE Spawn(t)
    <3>1. pc[t].run \in Runs /\ Alive(pc[t].run)
        BY <1>0, <2>4 DEF Spawn, OwnsBirth, Alive
    <3> QED
        BY <1>2, <2>4, <3>1 DEF Spawn, Phases
  <2> QED
      BY <1>5, <2>1, <2>2, <2>3, <2>4 DEF ThreadStep
<1>6. ASSUME NEW r \in Runs, RunStep(r) \/ HarnessStep(r) PROVE MapInv'
  <2>1. CASE ObserveCancel(r) \/ Finish(r) \/ HarnessStep(r)
    <3>1. CASE ObserveCancel(r) \/ HarnessStep(r)
        BY <1>1, <3>1 DEF ObserveCancel, HarnessStep, TakePrompt, AskUser, HarnessQuits
    <3>2. CASE Finish(r)
      <4>1. handle # r
          BY <1>0, <3>2 DEF Finish, HandleIsAttended, Alive
      <4> QED
          BY <1>3, <3>2, <4>1 DEF Finish
    <3> QED
        BY <2>1, <3>1, <3>2
  <2>2. CASE StartOk(r) \/ StartErr(r)
      BY <1>2, <2>2 DEF StartOk, StartErr, Close, Alive, Phases
  <2>3. CASE GraceExpires(r) \/ Reap(r)
      BY <1>2, <2>3 DEF GraceExpires, Reap, Selecting, InLoop, Close, Alive, Phases
  <2>4. CASE Activity(r) \/ EngineEvent(r)
      BY <1>2, <2>4 DEF Activity, EngineEvent, Selecting, InLoop, Unpark, Alive, Phases
  <2>5. CASE TurnCompletes(r) \/ StreamEnds(r)
      BY <1>2, <2>5 DEF TurnCompletes, StreamEnds, Selecting, InLoop, Close, Alive, Phases
  <2>6. CASE Remove(r) \/ RetryFresh(r)
      BY <1>3, <2>6 DEF Remove, RemoveOwn, RetryFresh
  <2> QED
      BY <1>6, <2>1, <2>2, <2>3, <2>4, <2>5, <2>6 DEF RunStep
<1>7. CASE UNCHANGED vars
    BY <1>1, <1>7 DEF vars
<1> QED
    BY <1>4, <1>5, <1>6, <1>7 DEF Next

(* At any time at most one run means to go on, it is the one the runs map    *)
(* names, and so it is the one a stop, a steer or an answer will find.       *)
THEOREM OneRunPerChat == Spec => []LiveRunReachable
<1>1. MapInv => LiveRunReachable
    BY DEF MapInv
<1> QED
    BY InitType, NextType, InitMap, NextMap, <1>1, PTL DEF Spec

(* The map never keeps the entry of a run whose task is past its clean-up.   *)
THEOREM NoOrphanedHandle == Spec => []HandleIsAttended
<1>1. MapInv => HandleIsAttended
    BY DEF MapInv
<1> QED
    BY InitType, NextType, InitMap, NextMap, <1>1, PTL DEF Spec

(* A retry's task only exists once its run is over, and what it creates was  *)
(* not given a resume id, so it cannot be retried in its turn.               *)
RetryInv ==
    /\ \A r \in Runs : pc[r].at # "off" => phase[r] = "ended"
    /\ \A r \in Runs : maker[r] \in Runs => ~injected[r]
    /\ RetryOnce

LEMMA InitRetry == Init => RetryInv
BY EngineAssumption DEF Init, RetryInv, RetryOnce, Threads, Off

LEMMA NextRetry == TypeInv /\ RetryInv /\ [Next]_vars => RetryInv'
<1> SUFFICES ASSUME TypeInv, RetryInv, [Next]_vars PROVE RetryInv'
    OBVIOUS
<1> USE EngineAssumption DEF threadOnly, loopOnly, birthVars
<1>0. TypeOK /\ OwnsBirth /\ Runs \subseteq Threads
    BY DEF TypeInv, Threads
(* Steps that move no retry task and make no run.                            *)
<1>1. ASSUME maker' = maker, injected' = injected,
             \A q \in Runs : phase[q] = "ended" => phase'[q] = "ended",
             \A q \in Runs : pc'[q].at # "off" => pc[q].at # "off"
      PROVE  RetryInv'
    BY <1>1 DEF RetryInv, RetryOnce
<1>2. ASSUME NEW c \in Callers, Call(c) \/ RespondInput(c) PROVE RetryInv'
  <2>1. \A q \in Runs : pc'[q] = pc[q]
      BY <1>0, <1>2 DEF Call, RespondInput, TypeOK
  <2> QED
      BY <1>1, <1>2, <2>1 DEF Call, RespondInput
<1>3. ASSUME NEW t \in Threads, ThreadStep(t) PROVE RetryInv'
  <2>0. /\ pc[t].at # "off"
        /\ \A u \in Threads : u # t => pc'[u] = pc[u]
    <3>1. handle \in Runs \cup {NoRun} /\ NoRun \in Runs \cup {NoRun}
        BY <1>0 DEF TypeOK
    <3>2. {"send", "write", "lookup", "drain", "signal", "wait", "insert", "working",
           "spawn"} \subseteq Steps
        BY DEF Steps
    <3>3. CASE Route(t) \/ Send(t) \/ Write(t)
        BY <1>0, <3>1, <3>2, <3>3, PcAfter DEF Route, Send, Write
    <3>4. CASE Lookup(t) \/ Drain(t) \/ Signal(t) \/ Wait(t)
        BY <1>0, <3>1, <3>2, <3>4, PcAfter DEF Lookup, Drain, Signal, Wait
    <3>5. CASE Insert(t)
        BY <1>0, <3>2, <3>5, PcAfter DEF Insert
    <3>6. CASE Working(t) \/ Spawn(t)
        BY <1>0, <3>1, <3>2, <3>6, PcAfter DEF Working, Spawn
    <3> QED
        BY <1>3, <3>3, <3>4, <3>5, <3>6 DEF ThreadStep
  <2>1. \A q \in Runs : pc'[q].at # "off" => pc[q].at # "off"
      BY <1>0, <2>0
  <2>2. CASE Insert(t)
    <3>1. PICK r \in Runs, resume \in MayInject(t) :
              /\ phase[r] = "unborn"
              /\ phase' = [phase EXCEPT ![r] = "inserted"]
              /\ injected' = [injected EXCEPT ![r] = resume]
              /\ maker' = [maker EXCEPT ![r] = t]
        BY <2>2 DEF Insert
    <3>2. pc[r].at = "off" /\ r # t /\ pc'[r].at = "off"
        BY <1>0, <2>0, <3>1 DEF RetryInv
    <3>3. \A q \in Runs : maker'[q] \in Runs => ~injected'[q]
        BY <1>0, <3>1 DEF RetryInv, MayInject, TypeOK
    <3>4. \A q \in Runs : pc'[q].at # "off" => phase'[q] = "ended"
        BY <1>0, <2>1, <3>1, <3>2 DEF RetryInv, TypeOK
    <3>5. RetryOnce'
        BY <1>0, <2>1, <3>1, <3>2 DEF RetryInv, RetryOnce, TypeOK
    <3> QED
        BY <3>3, <3>4, <3>5 DEF RetryInv
  <2>3. CASE Spawn(t)
    <3>1. /\ pc[t].run \in Runs /\ phase[pc[t].run] = "inserted"
          /\ phase' = [phase EXCEPT ![pc[t].run] = "starting"]
          /\ maker' = maker /\ injected' = injected
        BY <1>0, <2>3 DEF Spawn, OwnsBirth
    <3>2. \A q \in Runs : phase[q] = "ended" => phase'[q] = "ended"
        BY <1>0, <3>1 DEF TypeOK
    <3> QED
        BY <1>1, <2>1, <3>1, <3>2
  <2>4. CASE ~Insert(t) /\ ~Spawn(t)
      BY <1>1, <1>3, <2>1, <2>4 DEF ThreadStep, Route, Send, Write, Lookup, Drain, Signal,
         Wait, Working
  <2> QED
      BY <2>2, <2>3, <2>4
<1>4. ASSUME NEW r \in Runs, RunStep(r) \/ HarnessStep(r) PROVE RetryInv'
  <2>1. CASE RetryFresh(r)
    <3>1. /\ phase' = [phase EXCEPT ![r] = "ended"] /\ maker' = maker /\ injected' = injected
          /\ \A q \in Runs : q # r => pc'[q] = pc[q]
        BY <1>0, <2>1 DEF RetryFresh, TypeOK
    <3>2. injected[r]
        BY <2>1 DEF RetryFresh, MustRetry
    <3>3. maker[r] \notin Runs
        BY <3>2 DEF RetryInv
    <3>4. \A q \in Runs : pc'[q].at # "off" => phase'[q] = "ended"
        BY <1>0, <3>1 DEF RetryInv, TypeOK
    <3> QED
        BY <3>1, <3>3, <3>4 DEF RetryInv, RetryOnce
  <2>2. CASE ~RetryFresh(r)
    <3>1. pc' = pc /\ maker' = maker /\ injected' = injected
        BY <1>4, <2>2 DEF RunStep, HarnessStep, StartOk, StartErr, ObserveCancel,
           GraceExpires, Activity, EngineEvent, TurnCompletes, StreamEnds, Reap, Remove,
           Finish, TakePrompt, AskUser, HarnessQuits
    <3>2. \A q \in Runs : phase[q] = "ended" => phase'[q] = "ended"
        BY <1>0, <1>4, <2>2 DEF TypeOK, RunStep, HarnessStep, StartOk, StartErr,
           ObserveCancel, GraceExpires, Activity, EngineEvent, TurnCompletes, StreamEnds,
           Reap, Remove, Finish, TakePrompt, AskUser, HarnessQuits, Selecting, InLoop,
           Close, Unpark
    <3> QED
        BY <1>1, <3>1, <3>2
  <2> QED
      BY <2>1, <2>2
<1>5. CASE UNCHANGED vars
    BY <1>1, <1>5 DEF vars
<1> QED
    BY <1>2, <1>3, <1>4, <1>5 DEF Next

(* A resume id the harness rejects costs one retry, never a loop of them.    *)
THEOREM RetriesOnce == Spec => []RetryOnce
<1>1. RetryInv => RetryOnce
    BY DEF RetryInv
<1> QED
    BY InitType, NextType, InitRetry, NextRetry, <1>1, PTL DEF Spec

(* Why the shown question of run r will be settled.                          *)
Answerable(r) ==
    \/ ask[r] = "pending" /\ handle = r
    \/ \E i \in DOMAIN engineQ[r] : engineQ[r][i] = "resolved"
    \/ cancelled[r]
    \/ \E t \in Threads : pc[t].at = "signal" /\ pc[t].run = r

(* No question is shown before the loop that shows it has begun.             *)
QuestionInv ==
    /\ QuestionAnswerable
    /\ \A r \in Runs : phase[r] \in {"unborn", "inserted", "starting"} => ~shown[r]

LEMMA InitQuestion == Init => QuestionInv
BY DEF Init, QuestionInv, QuestionAnswerable

LEMMA NextQuestion == TypeInv /\ RetryInv /\ QuestionInv /\ [Next]_vars => QuestionInv'
<1> SUFFICES ASSUME TypeInv, RetryInv, QuestionInv, [Next]_vars PROVE QuestionInv'
    OBVIOUS
<1> USE EngineAssumption DEF threadOnly, loopOnly, birthVars, inputVars
<1>0. TypeOK /\ OwnsBirth /\ Runs \subseteq Threads /\ Callers \subseteq Threads
    BY DEF TypeInv, Threads
(* It is enough that a step shows no question of its own, starts the loop of *)
(* a run that shows none, and keeps what is answerable answerable.           *)
<1>1. ASSUME \A q \in Runs : shown'[q] => shown[q],
             \A q \in Runs : InLoop(q)' => InLoop(q) \/ phase[q] = "starting",
             \A q \in Runs : phase'[q] \in {"unborn", "inserted", "starting"} =>
                                phase[q] \in {"unborn", "inserted", "starting"},
             \A q \in Runs : shown'[q] /\ InLoop(q)' /\ Answerable(q) => Answerable(q)'
      PROVE  QuestionInv'
  <2>1. ASSUME NEW q \in Runs, shown'[q], InLoop(q)' PROVE Answerable(q)'
      BY <1>1, <2>1 DEF QuestionInv, QuestionAnswerable, Answerable
  <2>2. QuestionAnswerable'
      BY <2>1 DEF QuestionAnswerable, Answerable
  <2> QED
      BY <1>1, <2>2 DEF QuestionInv
<1>2. ASSUME NEW c \in Callers, Call(c) \/ RespondInput(c) PROVE QuestionInv'
  <2>1. CASE Call(c)
    <3>1. \A u \in Threads : pc[u].at = "signal" => pc'[u] = pc[u]
        BY <1>0, <2>1 DEF Call, TypeOK
    <3> QED
        BY <1>1, <2>1, <3>1 DEF Call, InLoop, Answerable
  <2>2. CASE RespondInput(c)
    <3>1. \A q \in Runs : Answerable(q) => Answerable(q)'
      <4> SUFFICES ASSUME NEW q \in Runs, Answerable(q) PROVE Answerable(q)'
          OBVIOUS
      <4>1. CASE q = handle
        <5>1. /\ engineQ'[q] = Append(engineQ[q], "resolved")
              /\ engineQ[q] \in Seq({"requested", "resolved"})
            BY <1>0, <2>2, <4>1 DEF RespondInput, ResolvedEvent, TypeOK
        <5>2. /\ Len(engineQ[q]) + 1 \in DOMAIN engineQ'[q]
              /\ engineQ'[q][Len(engineQ[q]) + 1] = "resolved"
            BY <5>1
        <5> QED
            BY <5>2 DEF Answerable
      <4>2. CASE q # handle
          BY <1>0, <2>2, <4>2 DEF RespondInput, ResolvedEvent, TypeOK, Answerable
      <4> QED
          BY <4>1, <4>2
    <3> QED
        BY <1>1, <2>2, <3>1 DEF RespondInput, InLoop
  <2> QED
      BY <1>2, <2>1, <2>2
<1>3. ASSUME NEW t \in Threads, ThreadStep(t) PROVE QuestionInv'
  <2>0. /\ {"send", "write", "lookup", "drain", "signal", "wait", "insert", "working",
            "spawn"} \subseteq Steps
        /\ handle \in Runs \cup {NoRun} /\ NoRun \in Runs \cup {NoRun}
      BY <1>0 DEF Steps, TypeOK
  <2>1. CASE Drain(t)
    <3>1. /\ pc'[t].at = "signal" /\ pc'[t].run = pc[t].run /\ pc[t].at = "drain"
          /\ \A u \in Threads : u # t => pc'[u] = pc[u]
        BY <1>0, <2>0, <2>1, PcAfter DEF Drain
    <3>2. \A q \in Runs : q # pc[t].run => ask'[q] = ask[q]
        BY <1>0, <2>1 DEF Drain, TypeOK
    <3>3. \A q \in Runs : Answerable(q) => Answerable(q)'
        BY <2>1, <3>1, <3>2 DEF Drain, Answerable
    <3> QED
        BY <1>1, <2>1, <3>3 DEF Drain, InLoop
  <2>2. CASE Signal(t)
    <3>1. /\ \A u \in Threads : u # t => pc'[u] = pc[u]
          /\ \A q \in Runs : cancelled[q] => cancelled'[q]
          /\ pc[t].run \in Runs => cancelled'[pc[t].run]
        BY <1>0, <2>0, <2>2, PcAfter DEF Signal, TypeOK
    <3>2. \A q \in Runs : Answerable(q) => Answerable(q)'
        BY <2>2, <3>1 DEF Signal, Answerable
    <3> QED
        BY <1>1, <2>2, <3>2 DEF Signal, InLoop
  <2>3. CASE Insert(t)
    <3>1. PICK r \in Runs :
              /\ phase[r] = "unborn"
              /\ phase' = [phase EXCEPT ![r] = "inserted"]
              /\ handle' = r
              /\ cancelled' = CancelReplaced(handle)
              /\ GoToWith(t, "working", r)
        BY <2>3 DEF Insert
    <3>2. \A u \in Threads : pc[u].at = "signal" => pc'[u] = pc[u]
        BY <1>0, <2>0, <2>3, <3>1, PcAfter DEF Insert
    <3>3. \A q \in Runs : Answerable(q) => Answerable(q)'
        BY <1>0, <2>3, <3>1, <3>2 DEF Insert, Answerable, CancelReplaced
    <3>4. \A q \in Runs : phase'[q] # phase[q] => q = r
        BY <1>0, <3>1 DEF TypeOK
    <3>5. phase'[r] = "inserted"
        BY <1>0, <3>1 DEF TypeOK
    <3> QED
        BY <1>1, <2>3, <3>1, <3>3, <3>4, <3>5 DEF Insert, InLoop
  <2>4. CASE Spawn(t)
    <3>1. /\ pc[t].run \in Runs /\ phase[pc[t].run] = "inserted"
          /\ phase' = [phase EXCEPT ![pc[t].run] = "starting"]
        BY <1>0, <2>4 DEF Spawn, OwnsBirth
    <3>2. \A u \in Threads : pc[u].at = "signal" => pc'[u] = pc[u]
        BY <1>0, <2>0, <2>4, PcAfter DEF Spawn
    <3>3. \A q \in Runs : Answerable(q) => Answerable(q)'
        BY <2>4, <3>2 DEF Spawn, Answerable
    <3>4. phase'[pc[t].run] = "starting"
          /\ \A q \in Runs : q # pc[t].run => phase'[q] = phase[q]
        BY <1>0, <3>1 DEF TypeOK
    <3> QED
        BY <1>1, <2>4, <3>1, <3>3, <3>4 DEF Spawn, InLoop
  <2>5. CASE Route(t) \/ Send(t) \/ Write(t) \/ Lookup(t) \/ Wait(t) \/ Working(t)
    <3>1. pc[t].at # "signal" /\ \A u \in Threads : u # t => pc'[u] = pc[u]
      <4>1. CASE Route(t) \/ Send(t) \/ Write(t)
          BY <1>0, <2>0, <4>1, PcAfter DEF Route, Send, Write
      <4>2. CASE Lookup(t) \/ Wait(t) \/ Working(t)
          BY <1>0, <2>0, <4>2, PcAfter DEF Lookup, Wait, Working
      <4> QED
          BY <2>5, <4>1, <4>2
    <3>2. /\ phase' = phase /\ shown' = shown /\ ask' = ask /\ engineQ' = engineQ
          /\ cancelled' = cancelled /\ handle' = handle
        BY <2>5 DEF Route, Send, Write, Lookup, Wait, Working
    <3>3. \A q \in Runs : Answerable(q) => Answerable(q)'
        BY <3>1, <3>2 DEF Answerable
    <3> QED
        BY <1>1, <3>2, <3>3 DEF InLoop
  <2> QED
      BY <1>3, <2>1, <2>2, <2>3, <2>4, <2>5 DEF ThreadStep
<1>4. ASSUME NEW r \in Runs, RunStep(r) \/ HarnessStep(r) PROVE QuestionInv'
  <2>1. CASE EngineEvent(r)
    <3>0. /\ InLoop(r) /\ engineQ[r] # <<>> /\ engineQ[r] \in Seq({"requested", "resolved"})
          /\ engineQ'[r] = Tail(engineQ[r]) /\ phase' = [phase EXCEPT ![r] = "turn"]
          /\ \A q \in Runs : q # r => engineQ'[q] = engineQ[q]
          /\ ask' = ask /\ handle' = handle /\ cancelled' = cancelled /\ pc' = pc
        BY <1>0, <2>1 DEF EngineEvent, Selecting, Unpark, TypeOK
    <3>1. \A q \in Runs : InLoop(q)' <=> InLoop(q)
        BY <1>0, <3>0 DEF InLoop, TypeOK
    <3>2. \A q \in Runs : phase'[q] \in {"unborn", "inserted", "starting"} =>
                             phase'[q] = phase[q]
        BY <1>0, <3>0 DEF TypeOK
    <3>3. CASE Head(engineQ[r]) = "requested" /\ handle = r /\ ask[r] = "pending"
      <4>1. \A q \in Runs : q # r => shown'[q] = shown[q]
          BY <1>0, <2>1, <3>3 DEF EngineEvent, TypeOK
      <4>2. Answerable(r)'
          BY <3>0, <3>3 DEF Answerable
      <4>3. \A q \in Runs : q # r /\ Answerable(q) => Answerable(q)'
          BY <3>0 DEF Answerable
      <4>4. QuestionAnswerable'
          BY <3>1, <4>1, <4>2, <4>3 DEF QuestionInv, QuestionAnswerable, Answerable
      <4>5. phase'[r] = "turn"
          BY <1>0, <3>0 DEF TypeOK
      <4> QED
          BY <3>2, <4>1, <4>4, <4>5 DEF QuestionInv
    <3>4. CASE Head(engineQ[r]) = "requested" /\ ~(handle = r /\ ask[r] = "pending")
      <4>1. shown' = shown
          BY <2>1, <3>4 DEF EngineEvent
      <4>2. ASSUME NEW i \in DOMAIN engineQ[r], engineQ[r][i] = "resolved"
            PROVE  /\ i - 1 \in DOMAIN Tail(engineQ[r])
                   /\ Tail(engineQ[r])[i - 1] = "resolved"
          BY <3>0, <3>4, <4>2
      <4>3. Answerable(r) => Answerable(r)'
          BY <3>0, <3>4, <4>2 DEF Answerable
      <4>4. \A q \in Runs : Answerable(q) => Answerable(q)'
          BY <3>0, <4>3 DEF Answerable
      <4> QED
          BY <1>1, <3>1, <3>2, <4>1, <4>4
    <3>5. CASE Head(engineQ[r]) = "resolved"
      <4>1. ~shown'[r] /\ \A q \in Runs : q # r => shown'[q] = shown[q]
          BY <1>0, <2>1, <3>5 DEF EngineEvent, TypeOK
      <4>2. \A q \in Runs : q # r /\ Answerable(q) => Answerable(q)'
          BY <3>0 DEF Answerable
      <4> QED
          BY <1>1, <3>1, <3>2, <4>1, <4>2
    <3> QED
        BY <2>1, <3>3, <3>4, <3>5 DEF EngineEvent
  <2>2. CASE ~EngineEvent(r)
    <3>1. /\ cancelled' = cancelled
          /\ \A q \in Runs : shown'[q] => shown[q]
        BY <1>0, <1>4, <2>2 DEF TypeOK, RunStep, HarnessStep, StartOk, StartErr,
           ObserveCancel, GraceExpires, Activity, TurnCompletes, StreamEnds, RetryFresh,
           Reap, Remove, Finish, TakePrompt, AskUser, HarnessQuits
    <3>2. /\ \A q \in Runs : q # r => phase'[q] = phase[q]
          /\ phase'[r] # phase[r] =>
                /\ phase'[r] \notin {"unborn", "inserted", "starting"}
                /\ InLoop(r)' => InLoop(r) \/ phase[r] = "starting"
        BY <1>0, <1>4, <2>2 DEF TypeOK, RunStep, HarnessStep, StartOk, StartErr,
           ObserveCancel, GraceExpires, Activity, TurnCompletes, StreamEnds, RetryFresh,
           Reap, Remove, Finish, TakePrompt, AskUser, HarnessQuits, Selecting, InLoop,
           Close, Unpark
    <3>3. \A u \in Threads : pc[u].at = "signal" => pc'[u] = pc[u]
      <4>1. CASE RetryFresh(r)
        <5>1. /\ pc'[r].at = "route" /\ \A u \in Threads : u # r => pc'[u] = pc[u]
              /\ InLoop(r)
            BY <1>0, <4>1 DEF RetryFresh, Selecting, TypeOK
        <5>2. pc[r].at # "signal"
            BY <5>1 DEF RetryInv, InLoop
        <5> QED
            BY <5>1, <5>2
      <4>2. CASE ~RetryFresh(r)
          BY <1>4, <4>2 DEF RunStep, HarnessStep, StartOk, StartErr, ObserveCancel,
             GraceExpires, Activity, EngineEvent, TurnCompletes, StreamEnds, Reap, Remove,
             Finish, TakePrompt, AskUser, HarnessQuits
      <4> QED
          BY <4>1, <4>2
    <3>4. \A q \in Runs : \/ q = r /\ ~InLoop(q)'
                          \/ ask[q] = "pending" /\ handle = q =>
                                ask'[q] = "pending" /\ handle' = q
        BY <1>0, <1>4, <2>2 DEF TypeOK, RunStep, HarnessStep, StartOk, StartErr,
           ObserveCancel, GraceExpires, Activity, TurnCompletes, StreamEnds, RetryFresh,
           Reap, Remove, RemoveOwn, Finish, TakePrompt, AskUser, HarnessQuits, InLoop
    <3>5. \A q \in Runs : (\E i \in DOMAIN engineQ[q] : engineQ[q][i] = "resolved") =>
                          (\E i \in DOMAIN engineQ'[q] : engineQ'[q][i] = "resolved")
      <4>1. CASE AskUser(r)
        <5>1. /\ engineQ'[r] = Append(engineQ[r], "requested")
              /\ engineQ[r] \in Seq({"requested", "resolved"})
              /\ \A q \in Runs : q # r => engineQ'[q] = engineQ[q]
            BY <1>0, <4>1 DEF AskUser, TypeOK
        <5>2. \A i \in DOMAIN engineQ[r] : i \in DOMAIN engineQ'[r]
                                           /\ engineQ'[r][i] = engineQ[r][i]
            BY <5>1
        <5> QED
            BY <5>1, <5>2
      <4>2. CASE ~AskUser(r)
          BY <1>4, <2>2, <4>2 DEF RunStep, HarnessStep, StartOk, StartErr, ObserveCancel,
             GraceExpires, Activity, TurnCompletes, StreamEnds, RetryFresh, Reap, Remove,
             Finish, TakePrompt, HarnessQuits
      <4> QED
          BY <4>1, <4>2
    <3>6. \A q \in Runs : InLoop(q)' /\ Answerable(q) => Answerable(q)'
        BY <3>1, <3>3, <3>4, <3>5 DEF Answerable
    <3> QED
        BY <1>1, <3>1, <3>2, <3>6 DEF InLoop
  <2> QED
      BY <2>1, <2>2
<1>5. CASE UNCHANGED vars
    BY <1>5 DEF vars, QuestionInv, QuestionAnswerable, InLoop
<1> QED
    BY <1>2, <1>3, <1>4, <1>5 DEF Next

(* Whatever races it, a question the transcript shows as open while its run  *)
(* goes on has its resolver parked where respond_input will find it, or is   *)
(* being resolved, or its run is being stopped.                              *)
THEOREM QuestionsAnswerable == Spec => []QuestionAnswerable
<1>1. QuestionInv => QuestionAnswerable
    BY DEF QuestionInv
<1> QED
    BY InitType, NextType, InitRetry, NextRetry, InitQuestion, NextQuestion, <1>1, PTL DEF Spec

-----------------------------------------------------------------------------
(* Nobody waits for a run that no one will end                               *)
(*                                                                           *)
(* What CallsReturn needs besides fairness. A wait ends when the run has     *)
(* left the map; it is somebody's turn to bring that about in every state.   *)

Attending(t, r) == pc[t].at \in {"working", "spawn"} /\ pc[t].run = r

(* A call that waits has told its run to stop, and the run is past the map,  *)
(* on its way there under its own task, in a loop that will see the signal,  *)
(* or held by a thread that is not waiting itself and is about to spawn it.  *)
WaitsEnd ==
    \A t \in Threads : pc[t].at = "wait" =>
        LET r == pc[t].run IN
        /\ cancelled[r]
        /\ \/ WaitIsOver(r)
           \/ InLoop(r)
           \/ phase[r] = "closing"
           \/ phase[r] = "inserted" /\ \E u \in Threads : Attending(u, r)

BirthAttended ==
    \A r \in Runs : phase[r] = "inserted" =>
        maker[r] \in Threads /\ Attending(maker[r], r)

Aims(t) == /\ pc[t].at \in {"drain", "signal", "wait"} => pc[t].run \in Runs
           /\ pc[t].at = "wait" => cancelled[pc[t].run]

WaitInv == BirthAttended /\ \A t \in Threads : Aims(t)

LEMMA InitWait == Init => WaitInv
BY DEF Init, WaitInv, BirthAttended, Aims, Off

(* A step of thread t that neither creates, announces nor spawns a run.      *)
Routine(t) ==
    /\ pc[t].at \notin {"working", "spawn"}
    /\ \A u \in Threads : u # t => pc'[u] = pc[u]
    /\ pc'[t].at \in {"drain", "signal", "wait"} => pc'[t].run \in Runs
    /\ pc'[t].at = "wait" => cancelled'[pc'[t].run]
SignalsStay == \A q \in Runs : cancelled[q] => cancelled'[q]
NoBirth == /\ maker' = maker
           /\ \A q \in Runs : phase'[q] = "inserted" => phase[q] = "inserted"

LEMMA RoutineKeeps ==
    ASSUME WaitInv, NEW t \in Threads, Routine(t), SignalsStay, NoBirth
    PROVE  WaitInv'
<1>1. BirthAttended'
    BY DEF WaitInv, BirthAttended, Attending, Routine, NoBirth
<1>2. Aims(t)'
    BY DEF Aims, Routine
<1>3. ASSUME NEW u \in Threads, u # t PROVE Aims(u)'
  <2>1. Aims(u) /\ pc'[u] = pc[u]
      BY <1>3 DEF WaitInv, Routine
  <2> QED
      BY <2>1 DEF Aims, SignalsStay
<1> QED
    BY <1>1, <1>2, <1>3 DEF WaitInv

LEMMA StillKeeps ==
    ASSUME WaitInv, pc' = pc, SignalsStay, NoBirth PROVE WaitInv'
<1>1. BirthAttended'
    BY DEF WaitInv, BirthAttended, Attending, NoBirth
<1>2. ASSUME NEW u \in Threads PROVE Aims(u)'
    BY DEF WaitInv, Aims, SignalsStay
<1> QED
    BY <1>1, <1>2 DEF WaitInv

LEMMA NextWait == TypeInv /\ RetryInv /\ WaitInv /\ [Next]_vars => WaitInv'
<1> SUFFICES ASSUME TypeInv, RetryInv, WaitInv, [Next]_vars PROVE WaitInv'
    OBVIOUS
<1> USE EngineAssumption DEF threadOnly, loopOnly, birthVars
<1>0. TypeOK /\ OwnsBirth /\ Runs \subseteq Threads /\ Callers \subseteq Threads
    BY DEF TypeInv, Threads
<1>1. ASSUME NEW c \in Callers, Call(c) \/ RespondInput(c) PROVE WaitInv'
  <2>1. SignalsStay /\ NoBirth
      BY <1>1 DEF Call, RespondInput, SignalsStay, NoBirth
  <2>2. CASE Call(c)
    <3>1. Routine(c)
        BY <1>0, <2>2 DEF Call, Routine, TypeOK
    <3> QED
        BY <1>0, <2>1, <3>1, RoutineKeeps
  <2>3. CASE RespondInput(c)
      BY <2>1, <2>3, StillKeeps DEF RespondInput
  <2> QED
      BY <1>1, <2>2, <2>3
<1>2. ASSUME NEW t \in Threads, ThreadStep(t) PROVE WaitInv'
  <2>s. {"send", "write", "lookup", "drain", "signal", "wait", "insert", "working",
         "spawn"} \subseteq Steps
      BY DEF Steps
  <2>h. handle \in Runs \cup {NoRun} /\ NoRun \in Runs \cup {NoRun}
      BY <1>0 DEF TypeOK
  <2>1. CASE Route(t) \/ Send(t) \/ Write(t) \/ Wait(t)
    <3>1. pc'[t].at \notin {"drain", "signal", "wait"}
          /\ \A u \in Threads : u # t => pc'[u] = pc[u]
        BY <1>0, <2>1, <2>s, <2>h, PcAfter DEF Route, Send, Write, Wait
    <3>2. pc[t].at \notin {"working", "spawn"}
        BY <2>1 DEF Route, Send, Write, Wait
    <3>3. SignalsStay /\ NoBirth
        BY <2>1 DEF Route, Send, Write, Wait, SignalsStay, NoBirth
    <3> QED
        BY <3>1, <3>2, <3>3, RoutineKeeps DEF Routine
  <2>2. CASE Lookup(t)
    <3>1. /\ pc'[t].at = "drain" => pc'[t].run \in Runs
          /\ pc'[t].at \notin {"signal", "wait"}
          /\ \A u \in Threads : u # t => pc'[u] = pc[u]
        BY <1>0, <2>2, <2>s, <2>h, PcAfter DEF Lookup
    <3>2. SignalsStay /\ NoBirth /\ pc[t].at = "lookup"
        BY <2>2 DEF Lookup, SignalsStay, NoBirth
    <3> QED
        BY <3>1, <3>2, RoutineKeeps DEF Routine
  <2>3. CASE Drain(t)
    <3>1. pc[t].at = "drain" /\ pc[t].run \in Runs
        BY <2>3 DEF Drain, WaitInv, Aims
    <3>2. /\ pc'[t].at = "signal" /\ pc'[t].run = pc[t].run
          /\ \A u \in Threads : u # t => pc'[u] = pc[u]
        BY <1>0, <2>3, <2>s, <2>h, PcAfter DEF Drain
    <3>3. SignalsStay /\ NoBirth
        BY <2>3 DEF Drain, SignalsStay, NoBirth
    <3> QED
        BY <3>1, <3>2, <3>3, RoutineKeeps DEF Routine
  <2>4. CASE Signal(t)
    <3>1. pc[t].at = "signal" /\ pc[t].run \in Runs
        BY <2>4 DEF Signal, WaitInv, Aims
    <3>2. /\ pc'[t].at = "wait" /\ pc'[t].run = pc[t].run
          /\ \A u \in Threads : u # t => pc'[u] = pc[u]
        BY <1>0, <2>4, <2>s, <2>h, PcAfter DEF Signal
    <3>3. cancelled'[pc[t].run] /\ SignalsStay
        BY <1>0, <2>4, <3>1 DEF Signal, SignalsStay, TypeOK
    <3>4. NoBirth
        BY <2>4 DEF Signal, NoBirth
    <3> QED
        BY <3>1, <3>2, <3>3, <3>4, RoutineKeeps DEF Routine
  <2>5. CASE Insert(t)
    <3>1. PICK r \in Runs :
              /\ phase' = [phase EXCEPT ![r] = "inserted"]
              /\ cancelled' = CancelReplaced(handle)
              /\ maker' = [maker EXCEPT ![r] = t]
              /\ GoToWith(t, "working", r)
        BY <2>5 DEF Insert
    <3>2. /\ pc'[t].at = "working" /\ pc'[t].run = r
          /\ \A u \in Threads : u # t => pc'[u] = pc[u]
        BY <1>0, <2>s, <3>1, PcAfter
    <3>3. pc[t].at = "insert"
        BY <2>5 DEF Insert
    <3>4. BirthAttended'
      <4>1. /\ phase'[r] = "inserted" /\ maker'[r] = t
            /\ \A q \in Runs : q # r => phase'[q] = phase[q] /\ maker'[q] = maker[q]
          BY <1>0, <3>1 DEF TypeOK
      <4>2. \A q \in Runs : q # r /\ phase'[q] = "inserted" =>
               maker[q] \in Threads /\ Attending(maker[q], q)
          BY <4>1 DEF WaitInv, BirthAttended
      <4>3. \A q \in Runs : q # r /\ phase'[q] = "inserted" => maker[q] # t
          BY <3>3, <4>2 DEF Attending
      <4> QED
          BY <3>2, <4>1, <4>2, <4>3 DEF BirthAttended, Attending
    <3>5. SignalsStay
        BY <1>0, <3>1 DEF SignalsStay, CancelReplaced, TypeOK
    <3>6. \A u \in Threads : Aims(u)'
        BY <3>2, <3>5 DEF WaitInv, Aims, SignalsStay
    <3> QED
        BY <3>4, <3>6 DEF WaitInv
  <2>6. CASE Working(t)
    <3>1. /\ pc[t].at = "working" /\ pc'[t].at = "spawn" /\ pc'[t].run = pc[t].run
          /\ \A u \in Threads : u # t => pc'[u] = pc[u]
        BY <1>0, <2>6, <2>s, <2>h, PcAfter DEF Working
    <3>2. phase' = phase /\ maker' = maker /\ cancelled' = cancelled
        BY <2>6 DEF Working
    <3>3. BirthAttended'
        BY <3>1, <3>2 DEF WaitInv, BirthAttended, Attending
    <3>4. \A u \in Threads : Aims(u)'
        BY <3>1, <3>2 DEF WaitInv, Aims
    <3> QED
        BY <3>3, <3>4 DEF WaitInv
  <2>7. CASE Spawn(t)
    <3>1. /\ pc[t].at = "spawn" /\ pc'[t].at = "off"
          /\ \A u \in Threads : u # t => pc'[u] = pc[u]
        BY <1>0, <2>7, <2>h, <2>s, PcAfter DEF Spawn
    <3>2. /\ phase' = [phase EXCEPT ![pc[t].run] = "starting"]
          /\ maker' = maker /\ cancelled' = cancelled
        BY <2>7 DEF Spawn
    <3>3. BirthAttended'
      <4> SUFFICES ASSUME NEW q \in Runs, phase'[q] = "inserted"
                   PROVE  maker[q] \in Threads /\ Attending(maker[q], q)'
          BY <3>2 DEF BirthAttended, Attending
      <4>1. phase[q] = "inserted" /\ q # pc[t].run
          BY <1>0, <3>2 DEF TypeOK
      <4>2. maker[q] \in Threads /\ Attending(maker[q], q)
          BY <4>1 DEF WaitInv, BirthAttended
      <4>3. maker[q] # t
          BY <4>1, <4>2 DEF Attending
      <4> QED
          BY <3>1, <3>2, <4>2, <4>3 DEF Attending
    <3>4. \A u \in Threads : Aims(u)'
        BY <3>1, <3>2 DEF WaitInv, Aims
    <3> QED
        BY <3>2, <3>3, <3>4 DEF WaitInv
  <2> QED
      BY <1>2, <2>1, <2>2, <2>3, <2>4, <2>5, <2>6, <2>7 DEF ThreadStep
<1>3. ASSUME NEW r \in Runs, RunStep(r) \/ HarnessStep(r) PROVE WaitInv'
  <2>1. CASE RetryFresh(r)
    <3>1. pc[r].at = "off"
        BY <2>1 DEF RetryFresh, Selecting, InLoop, RetryInv
    <3>2. /\ pc'[r].at = "route"
          /\ \A u \in Threads : u # r => pc'[u] = pc[u]
        BY <1>0, <2>1 DEF RetryFresh, TypeOK
    <3>3. SignalsStay /\ NoBirth
        BY <1>0, <2>1 DEF RetryFresh, SignalsStay, NoBirth, TypeOK
    <3> QED
        BY <1>0, <3>1, <3>2, <3>3, RoutineKeeps DEF Routine
  <2>2. CASE ~RetryFresh(r)
    <3>1. pc' = pc /\ maker' = maker /\ cancelled' = cancelled
        BY <1>3, <2>2 DEF RunStep, HarnessStep, StartOk, StartErr, ObserveCancel,
           GraceExpires, Activity, EngineEvent, TurnCompletes, StreamEnds, Reap, Remove,
           Finish, TakePrompt, AskUser, HarnessQuits
    <3>2. \E next \in {"turn", "parked", "closing", "removed", "ended"} :
             phase' = phase \/ phase' = [phase EXCEPT ![r] = next]
        BY <1>3, <2>2 DEF RunStep, HarnessStep, StartOk, StartErr, ObserveCancel,
           GraceExpires, Activity, EngineEvent, TurnCompletes, StreamEnds, Reap, Remove,
           Finish, TakePrompt, AskUser, HarnessQuits, Close, Unpark
    <3>3. \A q \in Runs : phase'[q] = "inserted" => phase[q] = "inserted"
        BY <1>0, <3>2 DEF TypeOK
    <3> QED
        BY <3>1, <3>3, StillKeeps DEF SignalsStay, NoBirth
  <2> QED
      BY <2>1, <2>2
<1>4. CASE UNCHANGED vars
    BY <1>4, StillKeeps DEF vars, SignalsStay, NoBirth
<1> QED
    BY <1>1, <1>2, <1>3, <1>4 DEF Next

LEMMA WaitsAreAnswered == TypeOK /\ MapInv /\ WaitInv => WaitsEnd
<1> SUFFICES ASSUME TypeOK, MapInv, WaitInv, NEW t \in Threads, pc[t].at = "wait",
                    ~WaitIsOver(pc[t].run)
             PROVE  /\ cancelled[pc[t].run]
                    /\ \/ InLoop(pc[t].run)
                       \/ phase[pc[t].run] = "closing"
                       \/ /\ phase[pc[t].run] = "inserted"
                          /\ \E u \in Threads : Attending(u, pc[t].run)
    BY DEF WaitsEnd, WaitInv, Aims
<1>1. pc[t].run \in Runs /\ cancelled[pc[t].run]
    BY DEF WaitInv, Aims
<1>2. handle = pc[t].run /\ phase[pc[t].run] # "starting"
    BY DEF WaitIsOver
<1>3. Alive(pc[t].run)
    BY <1>1, <1>2, EngineAssumption DEF MapInv, HandleIsAttended
<1>4. phase[pc[t].run] = "inserted" => \E u \in Threads : Attending(u, pc[t].run)
    BY <1>1 DEF WaitInv, BirthAttended
<1> QED
    BY <1>1, <1>2, <1>3, <1>4 DEF Alive, InLoop

(* No dispatch and no stop waits for a run that nobody will end, and no two  *)
(* calls wait on each other: the awaited run has the signal, and either the  *)
(* wait is over, or the run's own task is in its loop or its clean-up, or    *)
(* the thread that has just inserted it is one that does not wait.           *)
THEOREM NoEndlessWait == Spec => []WaitsEnd
<1> QED
    BY InitType, NextType, InitMap, NextMap, InitRetry, NextRetry, InitWait, NextWait,
       WaitsAreAnswered, PTL DEF Spec, TypeInv
=============================================================================
