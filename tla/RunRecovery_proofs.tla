------------------------ MODULE RunRecovery_proofs ------------------------
(* Proofs about RunRecovery: type correctness, the bound on revivals, where *)
(* an abandoned entry can hide and how often a prompt is handed over, for   *)
(* every number of turns, prompts and crashes and every budget.             *)
EXTENDS RunRecovery, TLAPS

(* The live turn has completed and its clearing of the budget is ahead.     *)
Completing ==
    /\ live # NoTurn
    /\ phase[live] \in {"published", "settled"}
    /\ ending[live] = "completed"

(* A sweep runs in a running engine, and only what a running engine hosts   *)
(* is live; the last steps of a sweep are those of one that revives.        *)
SweepInv ==
    /\ rec.at # "off" => engine = "up"
    /\ live # NoTurn => engine = "up"
    /\ rec.at \in {"note", "revive"} => rec.revive
    /\ rec.revive => rec.prompt # NoPrompt

(* The budget, from the sweep's decision to the note that spends it.        *)
SpendInv ==
    (rec.revive /\ rec.at \in {"publish", "stamp", "note"}) => attempts < MaxAutoResume

(* Every revival but one was noted; between a sweep's note and its dispatch *)
(* every one. A turn that completes resets the count, so until it clears    *)
(* the notes at most the one sweep that was under way can add to it.        *)
CountInv ==
    /\ revivals <= attempts + 1
    /\ rec.at = "revive" => revivals <= attempts
    /\ Completing => revivals <= 1
    /\ (Completing /\ rec.at # "off") => revivals = 0

IInv == TypeOK /\ SweepInv /\ SpendInv /\ CountInv

LEMMA InitHolds == Init => IInv
<1> SUFFICES ASSUME Init PROVE IInv
    OBVIOUS
<1> USE RecoveryAssumption
<1>1. EmptyDoc \in Doc
    BY DEF EmptyDoc, Doc, EntryStates
<1>2. Recovered \in Recovery /\ Recovered.at = "off" /\ ~Recovered.revive
    BY DEF Recovered, Recovery, RecoverySteps
<1>3. TypeOK
    BY <1>1, <1>2 DEF Init, TypeOK, TurnPhases, Endings
<1>4. SweepInv /\ SpendInv /\ CountInv
    BY <1>2 DEF Init, SweepInv, SpendInv, CountInv, Completing
<1> QED
    BY <1>3, <1>4 DEF IInv

(* The prompt goes into the live turn, or a new turn starts with it.        *)
LEMMA DispatchHolds ==
    ASSUME TypeOK, NEW p \in Prompts, Dispatch(p)
    PROVE  /\ handed' \in [Prompts -> Nat]
           /\ live' \in Turns
           /\ phase' \in [Turns -> TurnPhases]
           /\ ending' = ending
           /\ live = NoTurn => phase'[live'] = "started"
           /\ live # NoTurn => live' = live /\ phase' = phase
<1>1. handed' \in [Prompts -> Nat]
    BY DEF TypeOK, Dispatch
<1>2. CASE live # NoTurn /\ UNCHANGED turnVars
    BY <1>1, <1>2 DEF TypeOK, turnVars
<1>3. CASE live = NoTurn /\ ~UNCHANGED turnVars
  <2>1. PICK t \in Turns : live' = t /\ phase' = [phase EXCEPT ![t] = "started"]
      BY <1>3 DEF Dispatch
  <2>2. ending' = ending
      BY <1>3 DEF Dispatch
  <2> QED
      BY <1>1, <1>3, <2>1, <2>2 DEF TypeOK, TurnPhases
<1>4. CASE live = NoTurn /\ UNCHANGED turnVars
  <2>1. PICK t \in Turns : live' = t
      BY <1>4 DEF Dispatch
  <2>2. t # NoTurn
      BY DEF Turns, NoTurn, RecoveryAssumption
  <2> QED
      BY <1>4, <2>1, <2>2 DEF turnVars
<1> QED
    BY <1>2, <1>3, <1>4 DEF Dispatch

LEMMA NextType == IInv /\ [Next]_vars => TypeOK'
<1> SUFFICES ASSUME IInv, [Next]_vars PROVE TypeOK'
    OBVIOUS
<1> USE RecoveryAssumption DEF IInv
<1>1. ASSUME NEW p \in Prompts, TakeCommand(p) PROVE TypeOK'
    BY <1>1 DEF TakeCommand, Claimed, TypeOK, Doc, turnVars, worldVars, history
<1>2. CASE RunCommand
  <2>1. drain \in Prompts /\ Dispatch(drain)
      BY <1>2 DEF RunCommand, TypeOK
  <2> QED
      BY <1>2, <2>1, DispatchHolds DEF RunCommand, TypeOK, durable, worldVars
<1>3. ASSUME NEW t \in Turns, JournalEvent(t) PROVE TypeOK'
    BY <1>3 DEF JournalEvent, TypeOK, TurnPhases, worldVars, history
<1>4. ASSUME NEW t \in Turns, CommitEntry(t) PROVE TypeOK'
    BY <1>4 DEF CommitEntry, SetEntry, TypeOK, Doc, EntryStates, durable, turnVars,
       worldVars, history
<1>5. ASSUME NEW t \in Turns, JournalDone(t) PROVE TypeOK'
    BY <1>5 DEF JournalDone, TypeOK, TurnPhases, Endings, worldVars
<1>6. ASSUME NEW t \in Turns, FinishEntry(t) PROVE TypeOK'
    BY <1>6 DEF FinishEntry, SetEntry, TypeOK, Doc, EntryStates, TurnPhases, durable,
       worldVars, history
<1>7. ASSUME NEW t \in Turns, EndTurn(t) PROVE TypeOK'
    BY <1>7 DEF EndTurn, TypeOK, TurnPhases, worldVars, history
<1>8. CASE SaveSnapshot
    BY <1>8 DEF SaveSnapshot, TypeOK, turnVars, worldVars, history
<1>9. CASE Crash
    BY <1>9 DEF Crash, TypeOK, TurnPhases, Recovered, Recovery, RecoverySteps, durable
<1>10. CASE TwelveHoursPass
    BY <1>10 DEF TwelveHoursPass, TypeOK, durable, turnVars, history
<1>11. CASE Boot
    BY <1>11 DEF Boot, TypeOK, Recovered, Recovery, RecoverySteps, durable, turnVars,
       worldVars, history
<1>12. CASE Scan
    BY <1>12 DEF Scan, RecGoTo, TypeOK, Recovery, RecoverySteps, durable, turnVars,
       worldVars, history
<1>13. CASE Choose
    BY <1>13 DEF Choose, BudgetLeft, TypeOK, Doc, Recovery, RecoverySteps, durable,
       turnVars, worldVars, history
<1>14. CASE Publish
    BY <1>14 DEF Publish, RecGoTo, TypeOK, Recovery, RecoverySteps, turnVars,
       worldVars, history
<1>15. CASE Stamp
  <2>1. doc' \in Doc
    <3> DEFINE stamped == [t \in Turns |->
                             IF t \in Abandoned THEN "aborted" ELSE doc.entry[t]]
    <3>1. doc' = [doc EXCEPT !.entry = stamped]
        BY <1>15 DEF Stamp
    <3>2. doc \in Doc /\ stamped \in [Turns -> EntryStates]
        BY DEF TypeOK, Doc, EntryStates
    <3> QED
        BY <3>1, <3>2 DEF Doc
  <2>2. rec' \in Recovery
    <3>1. rec \in Recovery /\ Recovered \in Recovery
        BY DEF TypeOK, Recovered, Recovery, RecoverySteps
    <3>2. rec' = Recovered \/ rec' = [at |-> "note", prompt |-> rec.prompt, revive |-> rec.revive]
        BY <1>15 DEF Stamp, RecGoTo
    <3> QED
        BY <3>1, <3>2 DEF Recovery, RecoverySteps
  <2> QED
      BY <1>15, <2>1, <2>2 DEF Stamp, TypeOK, durable, turnVars, worldVars, history
<1>16. CASE NoteAttempt
    BY <1>16 DEF NoteAttempt, NotedAttempt, SweepInv, SpendInv, RecGoTo, TypeOK,
       Recovery, RecoverySteps, turnVars, worldVars, history
<1>17. CASE Revive
  <2>1. Dispatch(rec.prompt) /\ rec' = Recovered /\ Recovered \in Recovery
      BY <1>17 DEF Revive, Recovered, Recovery, RecoverySteps
  <2>2. rec.prompt \in Prompts
      BY <1>17 DEF Revive, SweepInv, TypeOK, Recovery, NoPrompt
  <2> QED
      BY <1>17, <2>1, <2>2, DispatchHolds DEF Revive, TypeOK, durable, worldVars
<1>18. CASE UNCHANGED vars
    BY <1>18 DEF vars, TypeOK, durable, turnVars, worldVars, history
<1> QED
    BY <1>1, <1>2, <1>3, <1>4, <1>5, <1>6, <1>7, <1>8, <1>9, <1>10, <1>11, <1>12,
       <1>13, <1>14, <1>15, <1>16, <1>17, <1>18 DEF Next, RecoveryStep

LEMMA NextBudget == IInv /\ [Next]_vars => SweepInv' /\ SpendInv' /\ CountInv'
<1> SUFFICES ASSUME IInv, [Next]_vars PROVE SweepInv' /\ SpendInv' /\ CountInv'
    OBVIOUS
<1> USE RecoveryAssumption DEF IInv
<1>1. CASE UNCHANGED <<engine, turnVars, attempts, revivals, rec>>
    BY <1>1 DEF turnVars, SweepInv, SpendInv, CountInv, Completing
<1>2. ASSUME NEW p \in Prompts, TakeCommand(p)
      PROVE  UNCHANGED <<engine, turnVars, attempts, revivals, rec>>
    BY <1>2 DEF TakeCommand, history
<1>3. ASSUME NEW t \in Turns, CommitEntry(t)
      PROVE  UNCHANGED <<engine, turnVars, attempts, revivals, rec>>
    BY <1>3 DEF CommitEntry, durable, history
<1>4. CASE SaveSnapshot \/ TwelveHoursPass
  <2>1. UNCHANGED <<engine, turnVars, attempts, revivals, rec>>
      BY <1>4 DEF SaveSnapshot, TwelveHoursPass, durable, history
  <2> QED
      BY <1>1, <2>1
<1>5. CASE RunCommand
  <2>1. drain \in Prompts /\ Dispatch(drain)
      BY <1>5 DEF RunCommand, TypeOK
  <2>2. UNCHANGED <<engine, attempts, revivals, rec>> /\ engine = "up"
      BY <1>5 DEF RunCommand, durable
  <2>3. Completing' => Completing
      BY <2>1, DispatchHolds DEF Completing
  <2> QED
      BY <2>1, <2>2, <2>3, DispatchHolds DEF SweepInv, SpendInv, CountInv
<1>6. ASSUME NEW t \in Turns, JournalEvent(t) PROVE SweepInv' /\ SpendInv' /\ CountInv'
  <2>1. UNCHANGED <<engine, live, attempts, revivals, rec>> /\ live = t
      BY <1>6 DEF JournalEvent, history
  <2>2. ~Completing'
      BY <1>6, <2>1 DEF JournalEvent, Completing, TypeOK
  <2> QED
      BY <2>1, <2>2 DEF SweepInv, SpendInv, CountInv
<1>7. ASSUME NEW t \in Turns, JournalDone(t) PROVE SweepInv' /\ SpendInv' /\ CountInv'
  <2>1. UNCHANGED <<engine, live, attempts, rec>> /\ live = t /\ live' = t
      BY <1>7 DEF JournalDone
  <2>2. revivals' = IF ending'[t] = "completed" THEN 0 ELSE revivals
      BY <1>7 DEF JournalDone
  <2>3. Completing' => revivals' = 0
      BY <2>1, <2>2 DEF Completing
  <2>4. revivals' <= revivals /\ revivals' \in Nat /\ attempts \in Nat
      BY <2>2 DEF TypeOK
  <2> QED
      BY <2>1, <2>3, <2>4 DEF SweepInv, SpendInv, CountInv, TypeOK
<1>8. ASSUME NEW t \in Turns, FinishEntry(t) PROVE SweepInv' /\ SpendInv' /\ CountInv'
  <2>1. UNCHANGED <<engine, live, ending, attempts, revivals, rec>> /\ live = t
      BY <1>8 DEF FinishEntry, durable, history
  <2>2. Completing' => Completing
      BY <1>8, <2>1 DEF FinishEntry, Completing
  <2> QED
      BY <2>1, <2>2 DEF SweepInv, SpendInv, CountInv
<1>9. ASSUME NEW t \in Turns, EndTurn(t) PROVE SweepInv' /\ SpendInv' /\ CountInv'
  <2>1. UNCHANGED <<engine, revivals, rec>> /\ live' = NoTurn /\ ~Completing'
      BY <1>9 DEF EndTurn, history, Completing
  <2>2. CASE ending[t] = "completed"
    <3>1. attempts' = 0 /\ Completing
        BY <1>9, <2>2 DEF EndTurn, Completing, NoTurn, Turns
    <3> QED
        BY <2>1, <3>1 DEF SweepInv, SpendInv, CountInv, TypeOK
  <2>3. CASE ending[t] # "completed"
    <3>1. attempts' = attempts
        BY <1>9, <2>3 DEF EndTurn
    <3> QED
        BY <2>1, <3>1 DEF SweepInv, SpendInv, CountInv
  <2> QED
      BY <2>2, <2>3
<1>10. CASE Crash
  <2>1. rec' = Recovered /\ live' = NoTurn /\ UNCHANGED <<attempts, revivals>> /\ ~Completing'
      BY <1>10 DEF Crash, durable, Completing
  <2> QED
      BY <2>1 DEF Recovered, SweepInv, SpendInv, CountInv
<1>11. CASE Boot
  <2>1. UNCHANGED <<live, attempts, revivals>> /\ live = NoTurn /\ ~Completing' /\ engine' = "up"
      BY <1>11 DEF Boot, turnVars, durable, history, Completing, SweepInv
  <2>2. rec'.at \in {"scan", "off"} /\ ~rec'.revive
      BY <1>11 DEF Boot, Recovered
  <2> QED
      BY <2>1, <2>2 DEF SweepInv, SpendInv, CountInv
<1>12. CASE Scan
  <2>1. UNCHANGED <<engine, turnVars, attempts, revivals>> /\ engine = "up"
      BY <1>12 DEF Scan, durable, history, SweepInv
  <2>2. /\ rec.at = "scan" /\ rec'.at \in {"off", "choose"}
        /\ rec'.revive = rec.revive /\ rec'.prompt = rec.prompt
      BY <1>12 DEF Scan, RecGoTo
  <2> QED
      BY <2>1, <2>2 DEF SweepInv, SpendInv, CountInv, Completing, turnVars
<1>13. CASE Choose
  <2>1. UNCHANGED <<engine, turnVars, attempts, revivals>> /\ engine = "up"
      BY <1>13 DEF Choose, durable, history, SweepInv
  <2>2. /\ rec.at = "choose" /\ rec'.at = "publish"
        /\ rec'.revive => attempts < MaxAutoResume /\ rec'.prompt # NoPrompt
      BY <1>13 DEF Choose, BudgetLeft
  <2> QED
      BY <2>1, <2>2 DEF SweepInv, SpendInv, CountInv, Completing, turnVars
<1>14. CASE Publish
  <2>1. UNCHANGED <<engine, turnVars, attempts, revivals>> /\ engine = "up"
      BY <1>14 DEF Publish, history, SweepInv
  <2>2. /\ rec.at = "publish" /\ rec'.at = "stamp"
        /\ rec'.revive = rec.revive /\ rec'.prompt = rec.prompt
      BY <1>14 DEF Publish, RecGoTo
  <2> QED
      BY <2>1, <2>2 DEF SweepInv, SpendInv, CountInv, Completing, turnVars
<1>15. CASE Stamp
  <2>1. UNCHANGED <<engine, turnVars, attempts, revivals>> /\ engine = "up"
      BY <1>15 DEF Stamp, durable, history, SweepInv
  <2>2. rec.at = "stamp" /\ rec'.at \in {"note", "off"}
      BY <1>15 DEF Stamp, RecGoTo, Recovered
  <2>3. /\ rec'.at = "note" => rec'.revive
        /\ rec'.revive => rec.revive /\ rec'.prompt = rec.prompt
      BY <1>15 DEF Stamp, RecGoTo, Recovered
  <2> QED
      BY <2>1, <2>2, <2>3 DEF SweepInv, SpendInv, CountInv, Completing, turnVars
<1>16. CASE NoteAttempt
  <2>1. UNCHANGED <<engine, turnVars, revivals>> /\ engine = "up" /\ attempts' = attempts + 1
      BY <1>16 DEF NoteAttempt, NotedAttempt, history, SweepInv
  <2>2. /\ rec.at = "note" /\ rec'.at = "revive"
        /\ rec'.revive = rec.revive /\ rec'.prompt = rec.prompt
      BY <1>16 DEF NoteAttempt, RecGoTo
  <2> QED
      BY <2>1, <2>2 DEF SweepInv, SpendInv, CountInv, Completing, turnVars, TypeOK
<1>17. CASE Revive
  <2>1. rec.prompt \in Prompts /\ Dispatch(rec.prompt)
      BY <1>17 DEF Revive, SweepInv, TypeOK, Recovery, NoPrompt
  <2>2. /\ UNCHANGED <<engine, attempts>> /\ engine = "up" /\ rec.at = "revive"
        /\ revivals' = revivals + 1 /\ rec' = Recovered
      BY <1>17 DEF Revive, durable, SweepInv
  <2>3. Completing' => Completing
      BY <2>1, DispatchHolds DEF Completing
  <2> QED
      BY <2>1, <2>2, <2>3 DEF Recovered, SweepInv, SpendInv, CountInv, TypeOK
<1>18. CASE UNCHANGED vars
    BY <1>1, <1>18 DEF vars, turnVars
<1>19. ASSUME NEW p \in Prompts, TakeCommand(p) PROVE SweepInv' /\ SpendInv' /\ CountInv'
    BY <1>1, <1>2, <1>19
<1>20. ASSUME NEW t \in Turns, CommitEntry(t) PROVE SweepInv' /\ SpendInv' /\ CountInv'
    BY <1>1, <1>3, <1>20
<1> HIDE DEF IInv
<1> QED
    BY <1>4, <1>5, <1>6, <1>7, <1>8, <1>9, <1>10, <1>11, <1>12, <1>13, <1>14, <1>15, <1>16,
       <1>17, <1>18, <1>19, <1>20 DEF Next, RecoveryStep

(* Every reachable state is well typed; the spent budget never passes        *)
(* MaxAutoResume, which the sweep's decision must guarantee to its note.     *)
THEOREM TypeCorrect == Spec => []TypeOK
<1>1. IInv /\ [Next]_vars => IInv'
    BY NextType, NextBudget DEF IInv
<1>2. IInv => TypeOK
    BY DEF IInv
<1> QED
    BY InitHolds, <1>1, <1>2, PTL DEF Spec

(* However the crashes fall, a chat whose runs take the engine down is       *)
(* revived at most MaxAutoResume + 1 times before a turn completes.          *)
THEOREM NoBootLoop == Spec => []RevivalBudget
<1>1. IInv /\ [Next]_vars => IInv'
    BY NextType, NextBudget DEF IInv
<1>2. IInv => RevivalBudget
    BY RecoveryAssumption DEF IInv, TypeOK, CountInv, RevivalBudget
<1> QED
    BY InitHolds, <1>1, <1>2, PTL DEF Spec

-----------------------------------------------------------------------------
(* Orphans: the journal says what the sweep must know                       *)

(* An open journal with no live turn is a sweep's that has not closed it    *)
(* yet; a turn that has published has closed it; without a journal no turn  *)
(* ever came as far as an entry.                                            *)
JournalInv ==
    /\ (engine = "up" /\ live = NoTurn /\ journal = "open")
           => rec.at \in {"scan", "choose", "publish"}
    /\ (live # NoTurn /\ phase[live] \in {"published", "settled"}) => journal = "done"
    /\ (live # NoTurn /\ phase[live] = "open") => journal # "none"
    /\ journal = "none" => \A t \in Turns : /\ doc.entry[t] # "streaming"
                                            /\ disk.entry[t] # "streaming"

LEMMA NextJournal == IInv /\ JournalInv /\ [Next]_vars => JournalInv'
<1> SUFFICES ASSUME IInv, JournalInv, [Next]_vars PROVE JournalInv'
    OBVIOUS
<1> USE RecoveryAssumption
<1>0. TypeOK /\ SweepInv
    BY DEF IInv
<1>1. ASSUME NEW p \in Prompts, TakeCommand(p) PROVE JournalInv'
  <2>1. UNCHANGED <<engine, live, phase, journal, rec, disk>> /\ doc'.entry = doc.entry
      BY <1>0, <1>1 DEF TakeCommand, turnVars, TypeOK, Doc
  <2> QED
      BY <2>1 DEF JournalInv
<1>2. ASSUME NEW p \in Prompts, Dispatch(p),
             UNCHANGED <<engine, journal, doc, disk>>, rec' = rec \/ rec.at = "revive"
      PROVE  JournalInv'
  <2>1. /\ live' # NoTurn
        /\ live = NoTurn => phase'[live'] = "started"
        /\ live # NoTurn => live' = live /\ phase' = phase
      BY <1>0, <1>2, DispatchHolds DEF Turns, NoTurn
  <2> QED
      BY <1>2, <2>1 DEF JournalInv
<1>3. CASE RunCommand
  <2>1. drain \in Prompts /\ Dispatch(drain)
      BY <1>0, <1>3 DEF RunCommand, TypeOK
  <2> QED
      BY <1>2, <1>3, <2>1 DEF RunCommand, durable
<1>4. ASSUME NEW t \in Turns, JournalEvent(t) PROVE JournalInv'
  <2>1. /\ live = t /\ live' = t /\ journal' = "open" /\ phase'[t] = "open"
        /\ t # NoTurn
      BY <1>0, <1>4 DEF JournalEvent, TypeOK, Turns, NoTurn
  <2> QED
      BY <2>1 DEF JournalInv
<1>5. ASSUME NEW t \in Turns, CommitEntry(t) PROVE JournalInv'
  <2>1. /\ live = t /\ phase[t] = "open" /\ t # NoTurn
        /\ UNCHANGED <<engine, live, phase, journal, rec>>
      BY <1>5 DEF CommitEntry, durable, turnVars, Turns, NoTurn
  <2> QED
      BY <2>1 DEF JournalInv
<1>6. ASSUME NEW t \in Turns, JournalDone(t) PROVE JournalInv'
  <2>1. /\ live' = t /\ journal' = "done" /\ t # NoTurn
      BY <1>6 DEF JournalDone, Turns, NoTurn
  <2> QED
      BY <2>1 DEF JournalInv
<1>7. ASSUME NEW t \in Turns, FinishEntry(t) \/ EndTurn(t) PROVE JournalInv'
  <2>1. /\ live = t /\ phase[t] \in {"published", "settled"} /\ t # NoTurn
        /\ journal' = journal
      BY <1>7 DEF FinishEntry, EndTurn, durable, Turns, NoTurn
  <2>2. journal' = "done"
      BY <2>1 DEF JournalInv
  <2> QED
      BY <2>2 DEF JournalInv
<1>8. CASE SaveSnapshot \/ TwelveHoursPass
  <2>1. /\ UNCHANGED <<engine, live, phase, journal, rec, doc>>
        /\ disk' = disk \/ disk' = doc
      BY <1>8 DEF SaveSnapshot, TwelveHoursPass, turnVars, durable
  <2> QED
      BY <2>1 DEF JournalInv
<1>9. CASE Crash
  <2>1. /\ engine' = "down" /\ live' = NoTurn /\ doc' = disk
        /\ UNCHANGED <<journal, disk>>
      BY <1>9 DEF Crash, durable
  <2> QED
      BY <2>1 DEF JournalInv
<1>10. CASE Boot
  <2>1. /\ UNCHANGED <<live, phase, journal, doc, disk>>
        /\ journal = "open" => rec'.at = "scan"
      BY <1>10 DEF Boot, Stale, Recovered, durable, turnVars
  <2> QED
      BY <2>1 DEF JournalInv
<1>11. CASE Scan \/ Choose
  <2>1. /\ UNCHANGED <<engine, live, phase, journal, doc, disk>>
        /\ live = NoTurn => rec'.at \in {"choose", "publish"}
      BY <1>11 DEF Scan, Choose, RecGoTo, durable, turnVars
  <2> QED
      BY <2>1 DEF JournalInv
<1>12. CASE Publish
  <2>1. UNCHANGED <<live, phase>> /\ journal' = "done"
      BY <1>12 DEF Publish, turnVars
  <2> QED
      BY <2>1 DEF JournalInv
<1>13. CASE Stamp
  <2>1. /\ UNCHANGED <<engine, live, phase, journal, disk>> /\ rec.at = "stamp"
        /\ rec'.at \in {"note", "off"}
      BY <1>13 DEF Stamp, RecGoTo, Recovered, durable, turnVars
  <2>2. \A t \in Turns : doc'.entry[t] # "streaming"
    <3> DEFINE stamped == [t \in Turns |-> IF t \in Abandoned THEN "aborted" ELSE doc.entry[t]]
    <3>1. doc' = [doc EXCEPT !.entry = stamped]
        BY <1>13 DEF Stamp
    <3>2. doc'.entry = stamped
        BY <1>0, <3>1 DEF TypeOK, Doc
    <3> QED
        BY <3>2 DEF Abandoned, Streaming
  <2> QED
      BY <1>0, <2>1, <2>2 DEF JournalInv, TypeOK
<1>14. CASE NoteAttempt
  <2>1. UNCHANGED <<engine, live, phase, journal, doc, disk>> /\ rec.at = "note"
      BY <1>14 DEF NoteAttempt, turnVars
  <2> QED
      BY <2>1 DEF JournalInv
<1>15. CASE Revive
  <2>1. rec.prompt \in Prompts /\ Dispatch(rec.prompt) /\ rec.at = "revive"
      BY <1>0, <1>15 DEF Revive, SweepInv, TypeOK, Recovery, NoPrompt
  <2> QED
      BY <1>2, <1>15, <2>1 DEF Revive, durable
<1>16. CASE UNCHANGED vars
    BY <1>16 DEF vars, JournalInv
<1> QED
    BY <1>1, <1>3, <1>4, <1>5, <1>6, <1>7, <1>8, <1>9, <1>10, <1>11, <1>12, <1>13, <1>14,
       <1>15, <1>16 DEF Next, RecoveryStep

(* Once a boot's sweep is over and nothing runs, an entry streams only      *)
(* behind a journal that ended in a Done: recover_stale misses no other.    *)
THEOREM OrphansHide == Spec => []OrphanHidesBehindDone
<1>1. Init => JournalInv
    BY DEF Init, JournalInv, EmptyDoc
<1>2. IInv /\ [Next]_vars => IInv'
    BY NextType, NextBudget DEF IInv
<1>3. IInv /\ JournalInv => OrphanHidesBehindDone
    BY DEF IInv, TypeOK, JournalInv, OrphanHidesBehindDone, Streaming
<1> QED
    BY InitHolds, NextJournal, <1>1, <1>2, <1>3, PTL DEF Spec

-----------------------------------------------------------------------------
(* How often a prompt is handed to the harness between two crashes          *)

Once(yes) == IF yes THEN 1 ELSE 0

(* At most once by the executor, which marks a command before it runs it    *)
(* and runs what it marked once; and the sweep, over with its one revival   *)
(* or not, may have handed over r.                                          *)
HandedInv ==
    /\ drain # NoPrompt => drain \in processed
    /\ engine = "down" => \A p \in Prompts : handed[p] = 0
    /\ \E r \in Prompts \cup {NoPrompt} :
          /\ rec.at # "off" => r = NoPrompt
          /\ \A p \in Prompts :
                 handed[p] <= Once(p \in processed /\ p # drain) + Once(p = r)

LEMMA HandedSame ==
    ASSUME HandedInv, UNCHANGED <<processed, drain, handed>>, engine' = engine \/ engine' = "up",
           rec'.at # "off" => rec.at # "off"
    PROVE  HandedInv'
<1>1. PICK r \in Prompts \cup {NoPrompt} :
          /\ rec.at # "off" => r = NoPrompt
          /\ \A p \in Prompts :
                 handed[p] <= Once(p \in processed /\ p # drain) + Once(p = r)
    BY DEF HandedInv
<1>2. /\ rec'.at # "off" => r = NoPrompt
      /\ \A p \in Prompts :
             handed'[p] <= Once(p \in processed' /\ p # drain') + Once(p = r)
    BY <1>1 DEF Once
<1>3. drain' # NoPrompt => drain' \in processed'
    BY DEF HandedInv
<1>4. engine' = "down" => \A p \in Prompts : handed'[p] = 0
    BY DEF HandedInv
<1> QED
    BY <1>2, <1>3, <1>4 DEF HandedInv, Once

LEMMA NextHanded == IInv /\ HandedInv /\ [Next]_vars => HandedInv'
<1> SUFFICES ASSUME IInv, HandedInv, [Next]_vars PROVE HandedInv'
    OBVIOUS
<1> USE RecoveryAssumption
<1>0. TypeOK /\ SweepInv
    BY DEF IInv
<1>00. PICK r \in Prompts \cup {NoPrompt} :
          /\ rec.at # "off" => r = NoPrompt
          /\ \A p \in Prompts :
                 handed[p] <= Once(p \in processed /\ p # drain) + Once(p = r)
    BY DEF HandedInv
<1>1. ASSUME NEW p \in Prompts, TakeCommand(p) PROVE HandedInv'
  <2>1. /\ UNCHANGED <<engine, rec, handed>> /\ drain = NoPrompt /\ p \notin processed
        /\ processed' = processed \cup {p} /\ drain' = p /\ engine = "up"
      BY <1>1 DEF TakeCommand, Claimed, history
  <2>2. \A q \in Prompts : handed[q] <= Once(q \in processed' /\ q # drain') + Once(q = r)
      BY <1>00, <2>1 DEF Once, Prompts, NoPrompt
  <2>3. /\ drain' \in processed' /\ engine' # "down"
        /\ rec'.at # "off" => r = NoPrompt
        /\ \A q \in Prompts : handed'[q] <= Once(q \in processed' /\ q # drain') + Once(q = r)
      BY <1>00, <2>1, <2>2
  <2> QED
      BY <2>3 DEF HandedInv, Once
<1>2. CASE RunCommand
  <2>1. drain \in Prompts /\ Dispatch(drain) /\ engine = "up"
      BY <1>0, <1>2 DEF RunCommand, TypeOK
  <2>2. UNCHANGED <<engine, rec, processed>> /\ drain' = NoPrompt
      BY <1>2 DEF RunCommand, durable
  <2>3. handed' = [handed EXCEPT ![drain] = @ + 1] /\ drain \in processed
      BY <1>2, <2>1 DEF Dispatch, RunCommand, HandedInv
  <2>4. \A q \in Prompts : handed'[q] <= Once(q \in processed' /\ q # drain') + Once(q = r)
      BY <1>0, <1>00, <2>1, <2>2, <2>3 DEF Once, Prompts, NoPrompt, TypeOK
  <2>5. drain' = NoPrompt /\ engine' # "down" /\ (rec'.at # "off" => r = NoPrompt)
      BY <1>00, <2>1, <2>2
  <2> QED
      BY <2>4, <2>5 DEF HandedInv, Once
<1>3. ASSUME NEW t \in Turns, \/ JournalEvent(t) \/ CommitEntry(t) \/ JournalDone(t)
                              \/ FinishEntry(t) \/ EndTurn(t)
      PROVE  HandedInv'
  <2>1. UNCHANGED <<processed, drain, handed, engine, rec>>
      BY <1>3 DEF JournalEvent, CommitEntry, JournalDone, FinishEntry, EndTurn, durable, history
  <2> QED
      BY <2>1, HandedSame
<1>4. CASE SaveSnapshot \/ TwelveHoursPass
  <2>1. UNCHANGED <<processed, drain, handed, engine, rec>>
      BY <1>4 DEF SaveSnapshot, TwelveHoursPass, durable, history
  <2> QED
      BY <2>1, HandedSame
<1>5. CASE Crash
  <2>1. /\ drain' = NoPrompt /\ rec'.at = "off"
        /\ \A p \in Prompts : handed'[p] = 0
      BY <1>5 DEF Crash, Recovered
  <2>2. \A p \in Prompts :
            handed'[p] <= Once(p \in processed' /\ p # drain') + Once(p = NoPrompt)
      BY <2>1 DEF Once
  <2> QED
      BY <2>1, <2>2 DEF HandedInv, Once
<1>6. CASE Boot
  <2>1. /\ UNCHANGED <<processed, drain, handed>> /\ engine' = "up"
        /\ \A p \in Prompts : handed[p] = 0
      BY <1>6 DEF Boot, durable, history, HandedInv
  <2>2. \A p \in Prompts :
            handed'[p] <= Once(p \in processed' /\ p # drain') + Once(p = NoPrompt)
      BY <2>1 DEF Once
  <2>3. drain' # NoPrompt => drain' \in processed'
      BY <2>1 DEF HandedInv
  <2> QED
      BY <2>1, <2>2, <2>3 DEF HandedInv, Once
<1>7. CASE Scan \/ Choose \/ Publish \/ Stamp \/ NoteAttempt
  <2>1. UNCHANGED <<processed, drain, handed, engine>> /\ rec.at # "off"
      BY <1>7 DEF Scan, Choose, Publish, Stamp, NoteAttempt, durable, history
  <2> QED
      BY <2>1, HandedSame
<1>8. CASE Revive
  <2>1. rec.prompt \in Prompts /\ Dispatch(rec.prompt) /\ rec.at = "revive" /\ r = NoPrompt
      BY <1>0, <1>00, <1>8 DEF Revive, SweepInv, TypeOK, Recovery, NoPrompt
  <2>2. UNCHANGED <<engine, drain, processed>> /\ rec'.at = "off" /\ engine = "up"
      BY <1>0, <1>8, <2>1 DEF Revive, durable, Recovered, SweepInv
  <2>3. handed' = [handed EXCEPT ![rec.prompt] = @ + 1]
      BY <2>1 DEF Dispatch
  <2>4. \A q \in Prompts :
            handed'[q] <= Once(q \in processed' /\ q # drain') + Once(q = rec.prompt)
    <3> SUFFICES ASSUME NEW q \in Prompts
                 PROVE  handed'[q] <= Once(q \in processed' /\ q # drain') + Once(q = rec.prompt)
        OBVIOUS
    <3>1. handed[q] \in Nat /\ q # r
        BY <1>0, <2>1 DEF TypeOK, Prompts, NoPrompt
    <3>2. handed[q] <= Once(q \in processed /\ q # drain)
        BY <1>00, <3>1 DEF Once
    <3>3. handed'[q] = handed[q] + Once(q = rec.prompt)
        BY <1>0, <2>1, <2>3, <3>1 DEF Once, TypeOK
    <3> QED
        BY <2>2, <3>1, <3>2, <3>3 DEF Once
  <2>5. (drain' # NoPrompt => drain' \in processed') /\ engine' # "down"
      BY <2>2 DEF HandedInv
  <2> QED
      BY <2>1, <2>2, <2>4, <2>5 DEF HandedInv, Once
<1>9. CASE UNCHANGED vars
  <2>1. UNCHANGED <<processed, drain, handed, engine, rec>>
      BY <1>9 DEF vars
  <2> QED
      BY <2>1, HandedSame
<1> QED
    BY <1>1, <1>2, <1>3, <1>4, <1>5, <1>6, <1>7, <1>8, <1>9 DEF Next, RecoveryStep

(* Between two crashes no prompt goes to the harness three times and at     *)
(* most one goes twice: mark_processed keeps the executor from a second     *)
(* hand-over, so that only the sweep's one revival can add to it.           *)
THEOREM HandedTwiceAtMost == Spec => []TwiceNeedsSweep
<1>1. Init => HandedInv
  <2> SUFFICES ASSUME Init PROVE HandedInv
      OBVIOUS
  <2>1. \A p \in Prompts : handed[p] <= Once(p \in processed /\ p # drain) + Once(p = NoPrompt)
      BY DEF Init, Once
  <2> QED
      BY <2>1 DEF Init, HandedInv, Once
<1>2. IInv /\ [Next]_vars => IInv'
    BY NextType, NextBudget DEF IInv
<1>3. IInv /\ HandedInv => TwiceNeedsSweep
  <2> SUFFICES ASSUME IInv, HandedInv PROVE TwiceNeedsSweep
      OBVIOUS
  <2>1. PICK r \in Prompts \cup {NoPrompt} : \A p \in Prompts :
            handed[p] <= Once(p \in processed /\ p # drain) + Once(p = r)
      BY DEF HandedInv
  <2>2. \A p \in Prompts : handed[p] \in Nat
      BY DEF IInv, TypeOK
  <2> QED
      BY <2>1, <2>2 DEF TwiceNeedsSweep, Once
<1> QED
    BY InitHolds, NextHanded, <1>1, <1>2, <1>3, PTL DEF Spec
=============================================================================
