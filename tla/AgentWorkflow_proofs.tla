------------------------ MODULE AgentWorkflow_proofs ------------------------
(***************************************************************************)
(* Theorems about AgentWorkflow for every number of questions, every value *)
(* of llm_iteration, every set of ids and every behaviour of the tools.    *)
(***************************************************************************)
EXTENDS AgentWorkflow, FiniteSetTheorems, TLAPS

USE LimitsAssumption, NoneAssumption

-----------------------------------------------------------------------------
(* Entries of output_program: a new one, and what an assignment keeps.     *)

LEMMA NewEntryType == NewEntry \in Entry
  BY DEF NewEntry, Entry

LEMMA EntryUpdates ==
  ASSUME NEW e \in Entry, NEW v \in {"no", "yes"}
  PROVE  /\ [e EXCEPT !.timeout = v] \in Entry
         /\ [e EXCEPT !.event_triggered = v] \in Entry
         /\ [e EXCEPT !.timeout = v, !.event_triggered = "no"] \in Entry
         /\ \A d \in {"empty", "diagnostics"} :
              [e EXCEPT !.compilation_error = d, !.event_triggered = "no"] \in Entry
  BY DEF Entry

LEMMA EntryTransition ==
  ASSUME NEW e \in Entry, NEW p \in Program
  PROVE  [e EXCEPT !.transition = p] \in Entry
  BY DEF Entry

-----------------------------------------------------------------------------
LEMMA InitIInv == Init => IInv
<1> SUFFICES ASSUME Init PROVE IInv
  OBVIOUS
<1>1. TypeOK
  <2>1. /\ pc \in Nodes \cup {"finished", "crashed"}
        /\ q \in Questions /\ lives \in 1 .. MaxLives
        /\ results \in [Questions -> {"none", "no", "yes"}]
    BY DEF Init, Nodes, Questions
  <2>2. /\ re_generate_count \in 0 .. LlmIteration
        /\ programs \in 0 .. LlmIteration + 1
    BY DEF Init
  <2>3. latest \in Entry /\ feedback \in Feedback \cup {None}
    BY NewEntryType DEF Init
  <2>4. /\ shelf \in [WaIds -> ThreadIds \cup {None}]
        /\ threads \in [ThreadIds -> {"unborn", "live", "deleted"}]
    BY DEF Init
  <2> QED
    BY <2>1, <2>2, <2>3, <2>4 DEF Init, TypeOK
<1>2. CountsInv
  BY DEF Init, CountsInv, BeforeFirst, GenerateSteps, TriggerSteps
<1>3. ThreadInv
  BY DEF Init, ThreadInv, InGenerate, GenerateSteps, TriggerSteps
<1>4. VerdictInv
  BY DEF Init, VerdictInv, VerdictFollowsTrace, ReasonThreeMeansRan, TriggerSteps,
         GenerateSteps, BeforeFirst
<1>5. TraceInv
  BY DEF Init, TraceInv, MeasuresOwnTrace
<1> QED
  BY <1>1, <1>2, <1>3, <1>4, <1>5 DEF IInv

LEMMA TypeStep == IInv /\ [Next]_vars => TypeOK'
<1> SUFFICES ASSUME IInv, [Next]_vars PROVE TypeOK'
  OBVIOUS
<1> USE DEF IInv, TypeOK, Goto, loopVars, agentVars, serviceVars, fileVars,
            Nodes, GenerateSteps, TriggerSteps, Questions
<1>1. CASE question_rewriter
  BY <1>1, NewEntryType DEF question_rewriter, FreshState
<1>2. CASE topic_classifier
  BY <1>2 DEF topic_classifier, on_topic_router
<1>3. CASE event_classifier
  BY <1>3 DEF event_classifier, std_or_inline_router
<1>4. CASE inline_retrieve
  BY <1>4 DEF inline_retrieve
<1>5. CASE CreateThread
  BY <1>5 DEF CreateThread
<1>6. CASE store_thread
  BY <1>6 DEF store_thread, ThreadInv
<1>7. CASE RetrieveThread
  BY <1>7 DEF RetrieveThread, ThreadInv
<1>8. CASE messages_create
  BY <1>8 DEF messages_create
<1>9. CASE runs_create
  BY <1>9 DEF runs_create
<1>10. CASE runs_retrieve
  BY <1>10 DEF runs_retrieve
<1>11. CASE messages_list
  BY <1>11, NewEntryType DEF messages_list, DeleteThread, KeepThread, Live, CountsInv
<1>12. CASE CompileFails
  <2>0. PICK stderr \in {"empty", "diagnostics"} :
          latest' = [latest EXCEPT !.compilation_error = stderr, !.event_triggered = "no"]
    BY <1>12 DEF CompileFails
  <2>1. latest' \in Entry
    BY <2>0, EntryUpdates
  <2> QED
    BY <1>12, <2>1 DEF CompileFails
<1>13. CASE CompileSucceeds
  BY <1>13 DEF CompileSucceeds
<1>14. CASE SimulationCompletes
  <2>1. latest' \in Entry
    BY <1>14, EntryUpdates DEF SimulationCompletes
  <2>2. testbench_vcd' \in Trace
    BY <1>14 DEF SimulationCompletes, Trace, Program, Current
  <2> QED
    BY <1>14, <2>1, <2>2 DEF SimulationCompletes
<1>15. CASE SimulationTimesOut
  <2>1. latest' \in Entry
    BY <1>15, EntryUpdates DEF SimulationTimesOut
  <2> QED
    BY <1>15, <2>1 DEF SimulationTimesOut
<1>16. CASE SimulationFails
  <2>1. latest' \in Entry
    BY <1>16, EntryUpdates DEF SimulationFails
  <2> QED
    BY <1>16, <2>1 DEF SimulationFails
<1>17. CASE ExportSucceeds
  BY <1>17 DEF ExportSucceeds
<1>18. CASE ExportFails
  <2>1. latest' \in Entry
    BY <1>18, EntryUpdates DEF ExportFails
  <2> QED
    BY <1>18, <2>1 DEF ExportFails
<1>19. CASE VcdcatSucceeds
  BY <1>19 DEF VcdcatSucceeds
<1>20. CASE VcdcatFails
  <2>1. latest' \in Entry
    BY <1>20, EntryUpdates DEF VcdcatFails
  <2> QED
    BY <1>20, <2>1 DEF VcdcatFails
<1>21. CASE MeasuresTrigger
  <2>1. stage_txt.program \in Program
    BY <1>21 DEF MeasuresTrigger, TraceInv, Trace
  <2>2. Measured \in Entry
    BY <2>1, EntryTransition DEF Measured
  <2>3. latest' \in Entry
    BY <1>21, <2>2, EntryUpdates DEF MeasuresTrigger
  <2> QED
    BY <1>21, <2>3 DEF MeasuresTrigger, StillOpen, DeleteThread, KeepThread, Live, ThreadInv
<1>22. CASE MeasuresNoChange
  <2>1. stage_txt.program \in Program
    BY <1>22 DEF MeasuresNoChange, TraceInv, Trace
  <2>2. Measured \in Entry
    BY <2>1, EntryTransition DEF Measured
  <2>3. latest' \in Entry
    BY <1>22, <2>2, EntryUpdates DEF MeasuresNoChange
  <2> QED
    BY <1>22, <2>3 DEF MeasuresNoChange
<1>23. CASE MeasuresLess
  <2>1. stage_txt.program \in Program
    BY <1>23 DEF MeasuresLess, TraceInv, Trace
  <2>2. Measured \in Entry
    BY <2>1, EntryTransition DEF Measured
  <2>3. latest' \in Entry
    BY <1>23, <2>2, EntryUpdates DEF MeasuresLess
  <2> QED
    BY <1>23, <2>3 DEF MeasuresLess
<1>24. CASE MeasureFails
  BY <1>24 DEF MeasureFails
<1>25. CASE trigger_router
  BY <1>25 DEF trigger_router
<1>26. CASE add_compiled_log
  <2>1. feedback' \in Feedback
    BY <1>26 DEF add_compiled_log, NextCount, Feedback, ReasonCode, CompilerOutput, Entry
  <2> QED
    BY <1>26, <2>1 DEF add_compiled_log, NextCount, CountsInv
<1>27. CASE Apologise
  BY <1>27 DEF Apologise
<1>28. CASE NextQuestion
  BY <1>28, NewEntryType DEF NextQuestion, FreshState
<1>29. CASE RunEnds
  BY <1>29 DEF RunEnds
<1>30. CASE Crash
  BY <1>30 DEF Crash
<1>31. CASE Restart
  BY <1>31, NewEntryType DEF Restart, FreshState
<1>32. CASE UNCHANGED vars
  BY <1>32 DEF vars
<1> QED
  BY <1>1, <1>2, <1>3, <1>4, <1>5, <1>6, <1>7, <1>8, <1>9, <1>10, <1>11, <1>12,
     <1>13, <1>14, <1>15, <1>16, <1>17, <1>18, <1>19, <1>20, <1>21, <1>22, <1>23,
     <1>24, <1>25, <1>26, <1>27, <1>28, <1>29, <1>30, <1>31, <1>32
     DEF Next, Step, Prepare, Generate, Trigger, Decide, Stopped

LEMMA CountsStep == IInv /\ [Next]_vars => CountsInv'
<1> SUFFICES ASSUME IInv, [Next]_vars PROVE CountsInv'
  OBVIOUS
<1> USE DEF IInv, TypeOK, Goto, loopVars, agentVars, serviceVars, fileVars,
            Nodes, GenerateSteps, TriggerSteps, CountsInv, BeforeFirst
<1>1. CASE question_rewriter
  BY <1>1 DEF question_rewriter, FreshState
<1>2. CASE topic_classifier
  BY <1>2 DEF topic_classifier, on_topic_router
<1>3. CASE event_classifier
  BY <1>3 DEF event_classifier, std_or_inline_router
<1>4. CASE inline_retrieve
  BY <1>4 DEF inline_retrieve
<1>5. CASE CreateThread
  BY <1>5 DEF CreateThread
<1>6. CASE store_thread
  BY <1>6 DEF store_thread
<1>7. CASE RetrieveThread
  BY <1>7 DEF RetrieveThread
<1>8. CASE messages_create
  BY <1>8 DEF messages_create
<1>9. CASE runs_create
  BY <1>9 DEF runs_create
<1>10. CASE runs_retrieve
  BY <1>10 DEF runs_retrieve
<1>11. CASE messages_list
  BY <1>11 DEF messages_list, DeleteThread, KeepThread
<1>12. CASE CompileFails
  BY <1>12 DEF CompileFails
<1>13. CASE CompileSucceeds
  BY <1>13 DEF CompileSucceeds
<1>14. CASE SimulationCompletes
  BY <1>14 DEF SimulationCompletes
<1>15. CASE SimulationTimesOut
  BY <1>15 DEF SimulationTimesOut
<1>16. CASE SimulationFails
  BY <1>16 DEF SimulationFails
<1>17. CASE ExportSucceeds
  BY <1>17 DEF ExportSucceeds
<1>18. CASE ExportFails
  BY <1>18 DEF ExportFails
<1>19. CASE VcdcatSucceeds
  BY <1>19 DEF VcdcatSucceeds
<1>20. CASE VcdcatFails
  BY <1>20 DEF VcdcatFails
<1>21. CASE MeasuresTrigger
  BY <1>21 DEF MeasuresTrigger, StillOpen, DeleteThread, KeepThread
<1>22. CASE MeasuresNoChange
  BY <1>22 DEF MeasuresNoChange
<1>23. CASE MeasuresLess
  BY <1>23 DEF MeasuresLess
<1>24. CASE MeasureFails
  BY <1>24 DEF MeasureFails
<1>25. CASE trigger_router
  BY <1>25 DEF trigger_router, AttemptsLeft
<1>26. CASE add_compiled_log
  BY <1>26 DEF add_compiled_log, NextCount
<1>27. CASE Apologise
  BY <1>27 DEF Apologise
<1>28. CASE NextQuestion
  BY <1>28 DEF NextQuestion, FreshState
<1>29. CASE RunEnds
  BY <1>29 DEF RunEnds
<1>30. CASE Crash
  BY <1>30 DEF Crash
<1>31. CASE Restart
  BY <1>31 DEF Restart, FreshState
<1>32. CASE UNCHANGED vars
  BY <1>32 DEF vars
<1> QED
  BY <1>1, <1>2, <1>3, <1>4, <1>5, <1>6, <1>7, <1>8, <1>9, <1>10, <1>11, <1>12,
     <1>13, <1>14, <1>15, <1>16, <1>17, <1>18, <1>19, <1>20, <1>21, <1>22, <1>23,
     <1>24, <1>25, <1>26, <1>27, <1>28, <1>29, <1>30, <1>31, <1>32
     DEF Next, Step, Prepare, Generate, Trigger, Decide, Stopped

LEMMA ThreadStep == IInv /\ [Next]_vars => ThreadInv'
<1> SUFFICES ASSUME IInv, [Next]_vars PROVE ThreadInv'
  OBVIOUS
<1> USE DEF IInv, TypeOK, Goto, loopVars, agentVars, serviceVars, fileVars,
            Nodes, GenerateSteps, TriggerSteps,
            CountsInv, BeforeFirst, ThreadInv, InGenerate, ThreadOf, OpenUntilLast, Live
<1>1. CASE question_rewriter
  BY <1>1 DEF question_rewriter, FreshState
<1>2. CASE topic_classifier
  BY <1>2 DEF topic_classifier, on_topic_router
<1>3. CASE event_classifier
  BY <1>3 DEF event_classifier, std_or_inline_router
<1>4. CASE inline_retrieve
  BY <1>4 DEF inline_retrieve
<1>5. CASE CreateThread
  BY <1>5 DEF CreateThread
<1>6. CASE store_thread
  BY <1>6 DEF store_thread
<1>7. CASE RetrieveThread
  BY <1>7 DEF RetrieveThread
<1>8. CASE messages_create
  BY <1>8 DEF messages_create
<1>9. CASE runs_create
  BY <1>9 DEF runs_create
<1>10. CASE runs_retrieve
  BY <1>10 DEF runs_retrieve
<1>11. CASE messages_list
  BY <1>11 DEF messages_list, DeleteThread, KeepThread, ReachedLastRun
<1>12. CASE CompileFails
  BY <1>12 DEF CompileFails
<1>13. CASE CompileSucceeds
  BY <1>13 DEF CompileSucceeds
<1>14. CASE SimulationCompletes
  BY <1>14 DEF SimulationCompletes
<1>15. CASE SimulationTimesOut
  BY <1>15 DEF SimulationTimesOut
<1>16. CASE SimulationFails
  BY <1>16 DEF SimulationFails
<1>17. CASE ExportSucceeds
  BY <1>17 DEF ExportSucceeds
<1>18. CASE ExportFails
  BY <1>18 DEF ExportFails
<1>19. CASE VcdcatSucceeds
  BY <1>19 DEF VcdcatSucceeds
<1>20. CASE VcdcatFails
  BY <1>20 DEF VcdcatFails
<1>21. CASE MeasuresTrigger
  BY <1>21 DEF MeasuresTrigger, StillOpen, DeleteThread, KeepThread, VerdictInv
<1>22. CASE MeasuresNoChange
  BY <1>22 DEF MeasuresNoChange, VerdictInv
<1>23. CASE MeasuresLess
  BY <1>23 DEF MeasuresLess
<1>24. CASE MeasureFails
  BY <1>24 DEF MeasureFails, VerdictInv
<1>25. CASE trigger_router
  BY <1>25 DEF trigger_router, AttemptsLeft
<1>26. CASE add_compiled_log
  BY <1>26 DEF add_compiled_log, NextCount
<1>27. CASE Apologise
  BY <1>27 DEF Apologise
<1>28. CASE NextQuestion
  BY <1>28 DEF NextQuestion, FreshState
<1>29. CASE RunEnds
  BY <1>29 DEF RunEnds
<1>30. CASE Crash
  BY <1>30 DEF Crash
<1>31. CASE Restart
  BY <1>31 DEF Restart, FreshState
<1>32. CASE UNCHANGED vars
  BY <1>32 DEF vars
<1> QED
  BY <1>1, <1>2, <1>3, <1>4, <1>5, <1>6, <1>7, <1>8, <1>9, <1>10, <1>11, <1>12,
     <1>13, <1>14, <1>15, <1>16, <1>17, <1>18, <1>19, <1>20, <1>21, <1>22, <1>23,
     <1>24, <1>25, <1>26, <1>27, <1>28, <1>29, <1>30, <1>31, <1>32
     DEF Next, Step, Prepare, Generate, Trigger, Decide, Stopped

LEMMA VerdictStep == IInv /\ [Next]_vars => VerdictInv'
<1> SUFFICES ASSUME IInv, [Next]_vars PROVE VerdictInv'
  OBVIOUS
<1> USE DEF IInv, TypeOK, Goto, loopVars, agentVars, serviceVars, fileVars,
            Nodes, GenerateSteps, TriggerSteps,
            VerdictInv, VerdictFollowsTrace, ReasonThreeMeansRan, BeforeFirst
<1>1. CASE question_rewriter
  BY <1>1 DEF question_rewriter, FreshState, NewEntry
<1>2. CASE topic_classifier
  BY <1>2 DEF topic_classifier, on_topic_router
<1>3. CASE event_classifier
  BY <1>3 DEF event_classifier, std_or_inline_router
<1>4. CASE inline_retrieve
  BY <1>4 DEF inline_retrieve
<1>5. CASE CreateThread
  BY <1>5 DEF CreateThread
<1>6. CASE store_thread
  BY <1>6 DEF store_thread
<1>7. CASE RetrieveThread
  BY <1>7 DEF RetrieveThread
<1>8. CASE messages_create
  BY <1>8 DEF messages_create
<1>9. CASE runs_create
  BY <1>9 DEF runs_create
<1>10. CASE runs_retrieve
  BY <1>10 DEF runs_retrieve
<1>11. CASE messages_list
  BY <1>11 DEF messages_list, DeleteThread, KeepThread, ThreadInv, InGenerate, NewEntry
<1>12. CASE CompileFails
  BY <1>12 DEF CompileFails, TraceInv, Entry, NewEntry
<1>13. CASE CompileSucceeds
  BY <1>13 DEF CompileSucceeds, TraceInv, NewEntry
<1>14. CASE SimulationCompletes
  BY <1>14 DEF SimulationCompletes, TraceInv, Entry, NewEntry
<1>15. CASE SimulationTimesOut
  BY <1>15 DEF SimulationTimesOut, TraceInv, Entry, NewEntry
<1>16. CASE SimulationFails
  BY <1>16 DEF SimulationFails, TraceInv, Entry, NewEntry
<1>17. CASE ExportSucceeds
  BY <1>17 DEF ExportSucceeds
<1>18. CASE ExportFails
  BY <1>18 DEF ExportFails, TraceInv, Entry, NewEntry
<1>19. CASE VcdcatSucceeds
  BY <1>19 DEF VcdcatSucceeds
<1>20. CASE VcdcatFails
  BY <1>20 DEF VcdcatFails, TraceInv, Entry, NewEntry
<1>21. CASE MeasuresTrigger
  BY <1>21 DEF MeasuresTrigger, Activity, StillOpen, DeleteThread, KeepThread, Measured, TraceInv,
               ThreadInv, OpenUntilLast, ThreadOf, Live, Entry, Trace
<1>22. CASE MeasuresNoChange
  BY <1>22 DEF MeasuresNoChange, Activity, Measured, TraceInv, Entry
<1>23. CASE MeasuresLess
  BY <1>23 DEF MeasuresLess, Activity, Measured, TraceInv, Entry
<1>24. CASE MeasureFails
  BY <1>24 DEF MeasureFails, TraceInv
<1>25. CASE trigger_router
  BY <1>25 DEF trigger_router
<1>26. CASE add_compiled_log
  BY <1>26 DEF add_compiled_log, NextCount, ReasonCode, CompilerOutput, Feedback
<1>27. CASE Apologise
  BY <1>27 DEF Apologise, CountsInv
<1>28. CASE NextQuestion
  BY <1>28 DEF NextQuestion, FreshState
<1>29. CASE RunEnds
  BY <1>29 DEF RunEnds
<1>30. CASE Crash
  BY <1>30 DEF Crash
<1>31. CASE Restart
  BY <1>31 DEF Restart, FreshState, NewEntry
<1>32. CASE UNCHANGED vars
  BY <1>32 DEF vars
<1> QED
  BY <1>1, <1>2, <1>3, <1>4, <1>5, <1>6, <1>7, <1>8, <1>9, <1>10, <1>11, <1>12,
     <1>13, <1>14, <1>15, <1>16, <1>17, <1>18, <1>19, <1>20, <1>21, <1>22, <1>23,
     <1>24, <1>25, <1>26, <1>27, <1>28, <1>29, <1>30, <1>31, <1>32
     DEF Next, Step, Prepare, Generate, Trigger, Decide, Stopped

LEMMA TraceStep == IInv /\ [Next]_vars => TraceInv'
<1> SUFFICES ASSUME IInv, [Next]_vars PROVE TraceInv'
  OBVIOUS
<1> USE DEF IInv, TypeOK, Goto, loopVars, agentVars, serviceVars, fileVars,
            Nodes, GenerateSteps, TriggerSteps,
            TraceInv, MeasuresOwnTrace, Current
<1>1. CASE question_rewriter
  BY <1>1 DEF question_rewriter, FreshState, Entry, NewEntry
<1>2. CASE topic_classifier
  BY <1>2 DEF topic_classifier, on_topic_router
<1>3. CASE event_classifier
  BY <1>3 DEF event_classifier, std_or_inline_router
<1>4. CASE inline_retrieve
  BY <1>4 DEF inline_retrieve
<1>5. CASE CreateThread
  BY <1>5 DEF CreateThread
<1>6. CASE store_thread
  BY <1>6 DEF store_thread
<1>7. CASE RetrieveThread
  BY <1>7 DEF RetrieveThread
<1>8. CASE messages_create
  BY <1>8 DEF messages_create
<1>9. CASE runs_create
  BY <1>9 DEF runs_create
<1>10. CASE runs_retrieve
  BY <1>10 DEF runs_retrieve
<1>11. CASE messages_list
  BY <1>11 DEF messages_list, DeleteThread, KeepThread, NewEntry
<1>12. CASE CompileFails
  BY <1>12 DEF CompileFails, Entry, NewEntry, VerdictInv
<1>13. CASE CompileSucceeds
  BY <1>13 DEF CompileSucceeds, NewEntry
<1>14. CASE SimulationCompletes
  BY <1>14 DEF SimulationCompletes, Entry, NewEntry, Trace, Program
<1>15. CASE SimulationTimesOut
  BY <1>15 DEF SimulationTimesOut, Entry, NewEntry
<1>16. CASE SimulationFails
  BY <1>16 DEF SimulationFails, Entry, NewEntry, VerdictInv
<1>17. CASE ExportSucceeds
  BY <1>17 DEF ExportSucceeds
<1>18. CASE ExportFails
  BY <1>18 DEF ExportFails, Entry, NewEntry
<1>19. CASE VcdcatSucceeds
  BY <1>19 DEF VcdcatSucceeds
<1>20. CASE VcdcatFails
  BY <1>20 DEF VcdcatFails, Entry, NewEntry
<1>21. CASE MeasuresTrigger
  BY <1>21 DEF MeasuresTrigger, StillOpen, DeleteThread, KeepThread, Measured, Entry,
               VerdictInv
<1>22. CASE MeasuresNoChange
  BY <1>22 DEF MeasuresNoChange, Measured, Entry, VerdictInv
<1>23. CASE MeasuresLess
  BY <1>23 DEF MeasuresLess, Measured, Entry, VerdictInv
<1>24. CASE MeasureFails
  BY <1>24 DEF MeasureFails
<1>25. CASE trigger_router
  BY <1>25 DEF trigger_router
<1>26. CASE add_compiled_log
  BY <1>26 DEF add_compiled_log, NextCount
<1>27. CASE Apologise
  BY <1>27 DEF Apologise
<1>28. CASE NextQuestion
  BY <1>28 DEF NextQuestion, FreshState
<1>29. CASE RunEnds
  BY <1>29 DEF RunEnds
<1>30. CASE Crash
  BY <1>30 DEF Crash
<1>31. CASE Restart
  BY <1>31 DEF Restart, FreshState, Entry, NewEntry
<1>32. CASE UNCHANGED vars
  BY <1>32 DEF vars
<1> QED
  BY <1>1, <1>2, <1>3, <1>4, <1>5, <1>6, <1>7, <1>8, <1>9, <1>10, <1>11, <1>12,
     <1>13, <1>14, <1>15, <1>16, <1>17, <1>18, <1>19, <1>20, <1>21, <1>22, <1>23,
     <1>24, <1>25, <1>26, <1>27, <1>28, <1>29, <1>30, <1>31, <1>32
     DEF Next, Step, Prepare, Generate, Trigger, Decide, Stopped

-----------------------------------------------------------------------------
(* Theorems. *)

\* The inductive invariant holds in every reachable state.
THEOREM Invariance == Spec => []IInv
<1>1. IInv /\ [Next]_vars => IInv'
  BY TypeStep, CountsStep, ThreadStep, VerdictStep, TraceStep DEF IInv
<1> QED
  BY InitIInv, <1>1, PTL DEF Spec

\* Types, for every value of the constants.
THEOREM TypeCorrect == Spec => []TypeOK
<1>1. IInv => TypeOK
  BY DEF IInv
<1> QED
  BY Invariance, <1>1, PTL

\* However a question ends, its assistant thread has been deleted.
THEOREM ThreadsReleased == Spec => []ThreadReleased
<1>1. IInv => ThreadReleased
  BY DEF IInv, ThreadInv, ThreadReleased, ThreadOf
<1> QED
  BY Invariance, <1>1, PTL

\* No thread is deleted twice.
THEOREM NoDoubleDelete == Spec => []DeleteNeverFails
<1>1. IInv => DeleteNeverFails
  BY DEF IInv, VerdictInv, DeleteNeverFails
<1> QED
  BY Invariance, <1>1, PTL

\* Every repair request is answered by exactly one program and there are at
\* most llm_iteration + 1 of them.
THEOREM ProgramsCounted == Spec => []OneProgramPerAttempt
<1>1. IInv => OneProgramPerAttempt
  BY DEF IInv, TypeOK, CountsInv, OneProgramPerAttempt, TriggerSteps
<1> QED
  BY Invariance, <1>1, PTL

\* The answer of a question follows the last trace measured for it, and is no
\* only when every attempt was used.
THEOREM AnswerCorrect == Spec => []AnswerFollowsTrace
<1>1. IInv => AnswerFollowsTrace
  BY DEF IInv, TypeOK, CountsInv, VerdictInv, AnswerFollowsTrace
<1> QED
  BY Invariance, <1>1, PTL

\* What is measured after an export that worked is the program's own trace.
THEOREM TraceCorrect == Spec => []MeasuresOwnTrace
<1>1. IInv => MeasuresOwnTrace
  BY DEF IInv, TraceInv, MeasuresOwnTrace
<1> QED
  BY Invariance, <1>1, PTL

\* "Program compiled successfully!" is only ever said of a program that did.
THEOREM ReasonThreeCorrect == Spec => []ReasonThreeMeansRan
<1>1. IInv => ReasonThreeMeansRan
  BY DEF IInv, VerdictInv
<1> QED
  BY Invariance, <1>1, PTL

-----------------------------------------------------------------------------
(* The workflow implements the bounded repair loop.                        *)

LEMMA LoopStep == IInv /\ IInv' /\ [Next]_vars => [Loop!LoopNext]_(Loop!loop)
<1> SUFFICES ASSUME IInv, IInv', [Next]_vars
             PROVE  Loop!LoopNext \/ UNCHANGED Loop!loop
  BY DEF Loop!loop
<1> USE DEF IInv, TypeOK, Goto, loopVars, agentVars, serviceVars, fileVars,
            Nodes, GenerateSteps, TriggerSteps, CountsInv, BeforeFirst, ThreadInv,
            InGenerate, Live, Active, Conversation, Loop!loop, Loop!LoopNext
<1>1. CASE question_rewriter
  BY <1>1 DEF question_rewriter, FreshState, Loop!Begin
<1>2. CASE topic_classifier
  BY <1>2 DEF topic_classifier, on_topic_router
<1>3. CASE event_classifier
  BY <1>3 DEF event_classifier, std_or_inline_router, Loop!Open
<1>4. CASE inline_retrieve
  BY <1>4 DEF inline_retrieve
<1>5. CASE CreateThread
  BY <1>5 DEF CreateThread, Loop!Open
<1>6. CASE store_thread
  BY <1>6 DEF store_thread
<1>7. CASE RetrieveThread
  BY <1>7 DEF RetrieveThread, Loop!Open, Loop!Abort, Loop!AtRest
<1>8. CASE messages_create
  BY <1>8 DEF messages_create
<1>9. CASE runs_create
  BY <1>9 DEF runs_create
<1>10. CASE runs_retrieve
  BY <1>10 DEF runs_retrieve
<1>11. CASE messages_list
  BY <1>11 DEF messages_list, Loop!Attempt, DeleteThread, KeepThread, ReachedLastRun,
               VerdictInv, OpenUntilLast, ThreadOf, Loop!Abort, Loop!AtRest
<1>12. CASE CompileFails
  BY <1>12 DEF CompileFails, VerdictInv
<1>13. CASE CompileSucceeds
  BY <1>13 DEF CompileSucceeds
<1>14. CASE SimulationCompletes
  BY <1>14 DEF SimulationCompletes
<1>15. CASE SimulationTimesOut
  BY <1>15 DEF SimulationTimesOut, VerdictInv
<1>16. CASE SimulationFails
  BY <1>16 DEF SimulationFails, VerdictInv
<1>17. CASE ExportSucceeds
  BY <1>17 DEF ExportSucceeds
<1>18. CASE ExportFails
  BY <1>18 DEF ExportFails, VerdictInv
<1>19. CASE VcdcatSucceeds
  BY <1>19 DEF VcdcatSucceeds
<1>20. CASE VcdcatFails
  BY <1>20 DEF VcdcatFails, VerdictInv
<1>21. CASE MeasuresTrigger
  BY <1>21 DEF MeasuresTrigger, Loop!Succeed, DeleteThread, KeepThread, ReachedLastRun,
               VerdictInv, OpenUntilLast, ThreadOf, Loop!Abort, Loop!AtRest
<1>22. CASE MeasuresNoChange
  BY <1>22 DEF MeasuresNoChange
<1>23. CASE MeasuresLess
  BY <1>23 DEF MeasuresLess, VerdictInv
<1>24. CASE MeasureFails
  BY <1>24 DEF MeasureFails
<1>25. CASE trigger_router
  BY <1>25 DEF trigger_router
<1>26. CASE add_compiled_log
  BY <1>26 DEF add_compiled_log, NextCount
<1>27. CASE Apologise
  BY <1>27 DEF Apologise
<1>28. CASE NextQuestion
  BY <1>28 DEF NextQuestion, FreshState, Loop!End, Loop!AtRest, ThreadOf, VerdictInv
<1>29. CASE RunEnds
  BY <1>29 DEF RunEnds
<1>30. CASE Crash
  BY <1>30 DEF Crash, Loop!Abort, Loop!AtRest, Loop!Revive
<1>31. CASE Restart
  BY <1>31 DEF Restart, FreshState, Loop!Revive
<1>32. CASE UNCHANGED vars
  BY <1>32 DEF vars
<1> QED
  BY <1>1, <1>2, <1>3, <1>4, <1>5, <1>6, <1>7, <1>8, <1>9, <1>10, <1>11, <1>12,
     <1>13, <1>14, <1>15, <1>16, <1>17, <1>18, <1>19, <1>20, <1>21, <1>22, <1>23,
     <1>24, <1>25, <1>26, <1>27, <1>28, <1>29, <1>30, <1>31, <1>32
     DEF Next, Step, Prepare, Generate, Trigger, Decide, Stopped

\* Opened before the first attempt, never used after it is closed, closed
\* exactly once, bounded by llm_iteration + 1: for every id that can be drawn.
THEOREM Refinement == Spec => ImplementsRepairLoop
<1>1. Init => Loop!LoopInit
  BY DEF Init, Loop!LoopInit, Active, Conversation
<1> QED
  BY Invariance, <1>1, LoopStep, PTL DEF Spec, ImplementsRepairLoop, Loop!LoopSpec
-----------------------------------------------------------------------------
(* Leaks.  A question holds a live thread from the start of its generation *)
(* to its verdict or last run; at all other places, the quiet ones, there  *)
(* are fewer live threads than lives of the script.                        *)

LiveThreads == {t \in ThreadIds : threads[t] = "live"}

Quiet ==
  /\ pc \notin (GenerateSteps \ {"program_generator"}) \cup {"add_compiled_log", "crashed"}
  /\ pc = "program_generator" => re_generate_count = 0
  /\ pc \in TriggerSteps => re_generate_count = LlmIteration
  /\ pc = "trigger_router" =>
       event_is_triggered = "yes" \/ re_generate_count = LlmIteration

LeakInv == /\ IsFiniteSet(LiveThreads)
           /\ Cardinality(LiveThreads) <= lives
           /\ Quiet => Cardinality(LiveThreads) < lives

LEMMA LeakStep == IInv /\ LeakInv /\ [Next]_vars => LeakInv'
<1> SUFFICES ASSUME IInv, LeakInv, [Next]_vars PROVE LeakInv'
  OBVIOUS
<1> USE DEF IInv, TypeOK, Goto, loopVars, agentVars, serviceVars, fileVars,
            Nodes, GenerateSteps, TriggerSteps, Quiet
<1>0. ASSUME UNCHANGED <<threads, lives>>, Quiet' => Quiet
      PROVE  LeakInv'
  <2>1. LiveThreads' = LiveThreads
    BY <1>0 DEF LiveThreads
  <2> HIDE DEF Quiet
  <2> QED
    BY <1>0, <2>1 DEF LeakInv
<1>c. /\ IsFiniteSet(LiveThreads) /\ Cardinality(LiveThreads) \in Nat
      /\ lives \in Nat
      /\ Cardinality(LiveThreads) <= lives
      /\ Quiet => Cardinality(LiveThreads) < lives
  <2> HIDE DEF Quiet
  <2> QED
    BY FS_CardinalityType DEF LeakInv
<1>d. ASSUME NEW t \in ThreadIds, threads[t] = "live",
             threads' = [threads EXCEPT ![t] = "deleted"], lives' = lives
      PROVE  LeakInv'
  <2>1. LiveThreads' = LiveThreads \ {t} /\ t \in LiveThreads
    BY <1>d DEF LiveThreads
  <2>2. /\ IsFiniteSet(LiveThreads')
        /\ Cardinality(LiveThreads') = Cardinality(LiveThreads) - 1
    BY <2>1, <1>c, FS_RemoveElement
  <2> HIDE DEF Quiet
  <2> QED
    BY <1>d, <1>c, <2>2 DEF LeakInv
<1>1. CASE question_rewriter
  BY <1>1, <1>0 DEF question_rewriter, FreshState
<1>2. CASE topic_classifier
  BY <1>2, <1>0 DEF topic_classifier, on_topic_router
<1>3. CASE event_classifier
  BY <1>3, <1>0 DEF event_classifier, std_or_inline_router
<1>4. CASE inline_retrieve
  BY <1>4, <1>0 DEF inline_retrieve, CountsInv, BeforeFirst
<1>5. CASE CreateThread
  <2>1. PICK t \in ThreadIds : /\ threads[t] = "unborn"
                               /\ threads' = [threads EXCEPT ![t] = "live"]
    BY <1>5 DEF CreateThread
  <2>2. LiveThreads' = LiveThreads \cup {t}
    BY <2>1 DEF LiveThreads
  <2>3. IsFiniteSet(LiveThreads') /\ Cardinality(LiveThreads') <= Cardinality(LiveThreads) + 1
    <3>1. /\ IsFiniteSet(LiveThreads \cup {t})
          /\ Cardinality(LiveThreads \cup {t}) =
               IF t \in LiveThreads THEN Cardinality(LiveThreads)
                                    ELSE Cardinality(LiveThreads) + 1
      BY <1>c, FS_AddElement, Zenon
    <3> HIDE DEF Quiet, TypeOK, IInv
    <3> QED
      BY <2>2, <1>c, <3>1
  <2>4. Quiet
    BY <1>5 DEF CreateThread, Quiet, ThreadInv, CountsInv, ThreadOf
  <2> QED
    BY <1>5, <1>c, <2>3, <2>4, FS_CardinalityType DEF CreateThread, LeakInv, Quiet
<1>6. CASE store_thread
  BY <1>6, <1>0 DEF store_thread
<1>7. CASE RetrieveThread
  <2>1. pc' \in {"messages_create", "crashed"} /\ UNCHANGED <<threads, lives>>
    BY <1>7 DEF RetrieveThread
  <2> QED
    BY <2>1, <1>0
<1>8. CASE messages_create
  BY <1>8, <1>0 DEF messages_create
<1>9. CASE runs_create
  BY <1>9, <1>0 DEF runs_create
<1>10. CASE runs_retrieve
  BY <1>10, <1>0 DEF runs_retrieve
<1>11. CASE messages_list
  <2>1. CASE ~ReachedLastRun
    BY <1>11, <1>0, <2>1 DEF messages_list, KeepThread, ReachedLastRun
  <2>2. CASE ReachedLastRun
    <3>1. /\ Live(thread) /\ thread \in ThreadIds
          /\ threads' = [threads EXCEPT ![thread] = "deleted"]
      BY <1>11, <2>2 DEF messages_list, DeleteThread, ThreadInv, InGenerate
    <3> QED
      BY <1>11, <1>d, <3>1 DEF messages_list, Live
  <2> QED
    BY <2>1, <2>2
<1>12. CASE CompileFails
  BY <1>12, <1>0 DEF CompileFails
<1>13. CASE CompileSucceeds
  BY <1>13, <1>0 DEF CompileSucceeds
<1>14. CASE SimulationCompletes
  BY <1>14, <1>0 DEF SimulationCompletes
<1>15. CASE SimulationTimesOut
  BY <1>15, <1>0 DEF SimulationTimesOut
<1>16. CASE SimulationFails
  BY <1>16, <1>0 DEF SimulationFails
<1>17. CASE ExportSucceeds
  BY <1>17, <1>0 DEF ExportSucceeds
<1>18. CASE ExportFails
  BY <1>18, <1>0 DEF ExportFails
<1>19. CASE VcdcatSucceeds
  BY <1>19, <1>0 DEF VcdcatSucceeds
<1>20. CASE VcdcatFails
  BY <1>20, <1>0 DEF VcdcatFails
<1>21. CASE MeasuresTrigger
  <2>1. CASE ~StillOpen
    BY <1>21, <1>0, <2>1 DEF MeasuresTrigger, KeepThread, StillOpen
  <2>2. CASE StillOpen
    <3>1. /\ Live(shelf[thread_id]) /\ shelf[thread_id] \in ThreadIds
          /\ threads' = [threads EXCEPT ![shelf[thread_id]] = "deleted"]
      BY <1>21, <2>2 DEF MeasuresTrigger, DeleteThread, StillOpen, ThreadInv,
                        OpenUntilLast, ThreadOf, Live
    <3> QED
      BY <1>21, <1>d, <3>1 DEF MeasuresTrigger, Live
  <2> QED
    BY <2>1, <2>2
<1>22. CASE MeasuresNoChange
  BY <1>22, <1>0 DEF MeasuresNoChange, VerdictInv
<1>23. CASE MeasuresLess
  BY <1>23, <1>0 DEF MeasuresLess
<1>24. CASE MeasureFails
  BY <1>24, <1>0 DEF MeasureFails, VerdictInv
<1>25. CASE trigger_router
  <2>1. /\ pc = "trigger_router" /\ UNCHANGED <<threads, lives>>
        /\ pc' = "add_compiled_log" \/ event_is_triggered = "yes" \/ ~AttemptsLeft
    BY <1>25 DEF trigger_router
  <2> QED
    BY <2>1, <1>0 DEF AttemptsLeft
<1>26. CASE add_compiled_log
  BY <1>26, <1>0 DEF add_compiled_log, NextCount, CountsInv
<1>27. CASE Apologise
  BY <1>27, <1>0 DEF Apologise
<1>28. CASE NextQuestion
  BY <1>28, <1>0 DEF NextQuestion, FreshState
<1>29. CASE RunEnds
  BY <1>29, <1>0 DEF RunEnds
<1>30. CASE Crash
  <2>1. pc' = "crashed" /\ UNCHANGED <<threads, lives>>
    BY <1>30 DEF Crash
  <2> QED
    BY <2>1, <1>0
<1>31. CASE Restart
  <2>1. LiveThreads' = LiveThreads
    BY <1>31 DEF Restart, FreshState, LiveThreads
  <2> QED
    BY <1>31, <1>c, <2>1, FS_CardinalityType DEF Restart, FreshState, LeakInv, Quiet
<1>32. CASE UNCHANGED vars
  BY <1>32, <1>0 DEF vars
<1> QED
  BY <1>1, <1>2, <1>3, <1>4, <1>5, <1>6, <1>7, <1>8, <1>9, <1>10, <1>11,
     <1>12, <1>13, <1>14, <1>15, <1>16, <1>17, <1>18, <1>19, <1>20,
     <1>21, <1>22, <1>23, <1>24, <1>25, <1>26, <1>27, <1>28, <1>29,
     <1>30, <1>31, <1>32
     DEF Next, Step, Prepare, Generate, Trigger, Decide, Stopped

\* Only crashes leave threads open: while no program is being made there are
\* fewer live threads than lives of the script.
THEOREM LeaksBounded == Spec => []LeaksOnlyByCrash
<1>1. Init => LeakInv
  <2> SUFFICES ASSUME Init PROVE LeakInv
    OBVIOUS
  <2>1. LiveThreads = {} /\ lives = 1
    BY DEF Init, LiveThreads
  <2> QED
    BY <2>1, FS_EmptySet DEF LeakInv
<1>2. IInv /\ LeakInv => LeaksOnlyByCrash
  BY DEF LeakInv, LiveThreads, Quiet, LeaksOnlyByCrash, GenerateSteps, TriggerSteps
<1> QED
  BY <1>1, <1>2, LeakStep, Invariance, PTL DEF Spec
=============================================================================
