--------------------------- MODULE AgentWorkflow ---------------------------
(***************************************************************************)
(* The test-generation agent: the LangGraph workflow of                    *)
(* agent_sharlock_v0.4_may20.py with the assistant threads of              *)
(* openAI_assistant_may20.py.  For each high-level event of the slice it   *)
(* asks an assistant for a C program, compiles it, simulates it, measures  *)
(* the trace and, while the event is not triggered, sends the failure back *)
(* on the same assistant thread, at most llm_iteration times.              *)
(*                                                                         *)
(* pc names the graph node or the API call about to run.  A program is     *)
(* identified by the process life, question and attempt it comes from; a   *)
(* trace by its program and by how it compares, for the net of each        *)
(* question, with the reference trace.                                     *)
(***************************************************************************)
EXTENDS Integers, FiniteSets

CONSTANTS
  NumQuestions,   \* entries of event_data[start:end] that are not skipped
  LlmIteration,   \* state["llm_iteration"]
  DeleteCounter,  \* the literal of generate_response's "counter == 3"
  WaIds,          \* what random.randint(1000000, 9999999) can draw
  ThreadIds,      \* ids the assistants service hands out, never twice
  None,
  RunOutcomes,    \* final statuses of an assistant run
  Activities,     \* what a trace can hold: per question, its comparison
  MaxLives        \* bound: starts of the script

ASSUME LimitsAssumption ==
  /\ NumQuestions \in Nat \ {0}
  /\ LlmIteration \in Nat
  /\ DeleteCounter = LlmIteration
  /\ MaxLives \in Nat \ {0}
  /\ None \notin WaIds \cup ThreadIds
  /\ Activities \subseteq [1 .. NumQuestions -> {"more", "longer", "equal", "fewer"}]
  /\ RunOutcomes \subseteq {"completed", "failed"}

VARIABLES
  pc, q, results, lives, failure,                         \* process
  event_is_triggered, compilation_error, re_generate_count,
  programs, latest, feedback, thread_id,                  \* AgentState
  shelf, thread, threads, run,                    \* threads_db, service
  testbench_vcd, stage_vcd, stage_txt, exported           \* trace files

loopVars    == <<q, results, lives, failure>>
agentVars   == <<event_is_triggered, compilation_error, re_generate_count,
                 programs, latest, feedback, thread_id>>
serviceVars == <<shelf, thread, threads, run>>
fileVars    == <<testbench_vcd, stage_vcd, stage_txt, exported>>
vars        == <<pc, loopVars, agentVars, serviceVars, fileVars>>

Questions == 1 .. NumQuestions

\* A comparison of a trace with the reference trace for the net of a question:
\* count_post - count_pre > 0 is "more"; equal counts are "longer" with more
\* cycles and "equal" without; fewer counts are "fewer".
Program == [life : 1 .. MaxLives, q : Questions, n : Nat]
Trace   == [program : Program, activity : Activities]

ASSUME NoneAssumption == None \notin Program \cup Trace

\* The fields of output_program[-1] the code reads; "unset" is a missing key
\* and, below, "empty" is the empty string.
Entry == [compilation_error : {"unset", "empty", "diagnostics"},
          timeout           : {"unset", "no", "yes"},
          event_triggered   : {"unset", "no", "yes"},
          transition        : Program \cup {None}]

Feedback == [reason_code     : {1, 2, 3},
             compiler_output : {"empty", "diagnostics", "no_error"}]

NewEntry == [compilation_error |-> "unset", timeout |-> "unset",
             event_triggered |-> "unset", transition |-> None]

\* Nodes and calls that can raise: every one of them ends the script, whose
\* loop calls graph.invoke with no handler.
GenerateSteps == {"program_generator", "store_thread", "messages_create",
                  "runs_create", "runs_retrieve", "messages_list"}
TriggerSteps  == {"compile", "simulate", "export", "vcdcat", "measure"}
Nodes == {"question_rewriter", "topic_classifier", "off_topic_response",
          "event_classifier", "inline_retrieve", "trigger_router",
          "add_compiled_log", "couldnot_generate", "END"}
         \cup GenerateSteps \cup TriggerSteps

Init ==
  /\ pc = "question_rewriter" /\ q = 1 /\ lives = 1 /\ failure = "none"
  /\ results = [i \in Questions |-> "none"]
  /\ event_is_triggered = "no" /\ compilation_error = "empty"
  /\ re_generate_count = 0 /\ programs = 0 /\ latest = NewEntry
  /\ feedback = None /\ thread_id = None
  /\ shelf = [w \in WaIds |-> None]
  /\ threads = [t \in ThreadIds |-> "unborn"]
  /\ run = "none" /\ thread = None
  /\ testbench_vcd = None /\ stage_vcd = None /\ stage_txt = None
  /\ exported = FALSE

Goto(from, to) == pc = from /\ pc' = to

-----------------------------------------------------------------------------
(* Nodes before the first program. *)

\* What question_rewriter assigns.  Every graph.invoke of the loop runs under a
\* thread_id of its own, so a question starts with an empty AgentState and
\* no node reads a key of it before question_rewriter has set it.
FreshState ==
  /\ event_is_triggered' = "no" /\ compilation_error' = "empty"
  /\ re_generate_count' = 0 /\ programs' = 0 /\ latest' = NewEntry
  /\ feedback' = None /\ thread_id' = None

question_rewriter ==
  /\ Goto("question_rewriter", "topic_classifier")
  /\ FreshState
  /\ UNCHANGED <<loopVars, serviceVars, fileVars>>

\* Mutant: an off-topic question is asked again.
on_topic_router_AsksAgain(on_topic) ==
  IF on_topic = "Yes" THEN "event_classifier" ELSE "question_rewriter"

on_topic_router(on_topic) ==
  IF on_topic = "Yes" THEN "event_classifier" ELSE "off_topic_response"

\* Both answers lead to inline_retrieve.
std_or_inline_router(std_or_inline) == "inline_retrieve"

topic_classifier ==
  /\ \E on_topic \in {"Yes", "No"} : Goto("topic_classifier", on_topic_router(on_topic))
  /\ UNCHANGED <<loopVars, agentVars, serviceVars, fileVars>>

\* Draws the id under which the question's thread is kept.  program_generator
\* treats Standard and Inline alike, so the answer is not kept.
event_classifier ==
  /\ \E std_or_inline \in {"Standard", "Inline"} :
       Goto("event_classifier", std_or_inline_router(std_or_inline))
  /\ thread_id' \in WaIds
  /\ UNCHANGED <<loopVars, serviceVars, fileVars, event_is_triggered,
                 compilation_error, re_generate_count, programs, latest, feedback>>

inline_retrieve ==
  /\ Goto("inline_retrieve", "program_generator")
  /\ UNCHANGED <<loopVars, agentVars, serviceVars, fileVars>>

-----------------------------------------------------------------------------
(* program_generator: generate_response, one action per call that can fail. *)

Live(t) == t # None /\ threads[t] = "live"

\* No thread on the shelf under this id: the service makes one.
CreateThread ==
  /\ Goto("program_generator", "store_thread")
  /\ shelf[thread_id] = None
  /\ \E t \in ThreadIds :
       /\ threads[t] = "unborn"
       /\ threads' = [threads EXCEPT ![t] = "live"]
       /\ thread' = t
  /\ UNCHANGED <<loopVars, agentVars, fileVars, shelf, run>>

store_thread ==
  /\ Goto("store_thread", "messages_create")
  /\ shelf' = [shelf EXCEPT ![thread_id] = thread]
  /\ UNCHANGED <<loopVars, agentVars, fileVars, thread, threads, run>>

\* threads.retrieve raises for a thread that was deleted.
RetrieveThread ==
  /\ pc = "program_generator"
  /\ shelf[thread_id] # None
  /\ thread' = shelf[thread_id]
  /\ \/ Live(thread') /\ pc' = "messages_create" /\ UNCHANGED failure
     \/ ~Live(thread') /\ pc' = "crashed" /\ failure' = "retrieve_deleted_thread"
  /\ UNCHANGED <<q, results, lives, agentVars, fileVars, shelf, threads, run>>

messages_create ==
  /\ Goto("messages_create", "runs_create")
  /\ UNCHANGED <<loopVars, agentVars, serviceVars, fileVars>>

runs_create ==
  /\ Goto("runs_create", "runs_retrieve")
  /\ run' = "in_progress"
  /\ UNCHANGED <<loopVars, agentVars, fileVars, shelf, thread, threads>>

\* The service works on the run (external).
RunEnds ==
  /\ run = "in_progress" /\ run' \in RunOutcomes
  /\ UNCHANGED <<pc, loopVars, agentVars, fileVars, shelf, thread, threads>>

\* while run.status != "completed": sleep, retrieve again.
runs_retrieve ==
  /\ Goto("runs_retrieve", "messages_list")
  /\ run = "completed"
  /\ UNCHANGED <<loopVars, agentVars, serviceVars, fileVars>>

\* threads.delete raises for a thread that was deleted before.
DeleteThread(t, to) ==
  IF Live(t)
  THEN /\ threads' = [threads EXCEPT ![t] = "deleted"]
       /\ pc' = to
       /\ UNCHANGED failure
  ELSE /\ pc' = "crashed" /\ failure' = "delete_deleted_thread"
       /\ UNCHANGED threads

KeepThread(to) == pc' = to /\ UNCHANGED <<threads, failure>>

\* Mutants: generate_response counts runs from the other end of the interval.
ReachedLastRun_Late == re_generate_count = DeleteCounter + 1
ReachedLastRun_Early == re_generate_count = DeleteCounter - 1

ReachedLastRun == re_generate_count = DeleteCounter

\* The reply is read, the thread is deleted after the last run, and the
\* program becomes output_program[-1].
messages_list ==
  /\ pc = "messages_list"
  /\ IF ReachedLastRun THEN DeleteThread(thread, "compile") ELSE KeepThread("compile")
  /\ programs' = programs + 1 /\ latest' = NewEntry
  /\ run' = "none" /\ thread' = None
  /\ UNCHANGED <<q, results, lives, fileVars, shelf,
                 event_is_triggered, compilation_error, re_generate_count,
                 feedback, thread_id>>

-----------------------------------------------------------------------------
(* event_triggered: compile, simulate, export, dump and measure. *)

Current == [life |-> lives, q |-> q, n |-> programs]

\* A build may fail without a word on stderr: compilation_error is then empty,
\* as it is when nothing went wrong.
CompileFails ==
  /\ Goto("compile", "trigger_router")
  /\ \E stderr \in {"empty", "diagnostics"} :
       /\ compilation_error' = stderr
       /\ latest' = [latest EXCEPT !.compilation_error = stderr,
                                   !.event_triggered = "no"]
  /\ event_is_triggered' = "no"
  /\ UNCHANGED <<loopVars, serviceVars, fileVars, re_generate_count, programs,
                 feedback, thread_id>>

CompileSucceeds ==
  /\ Goto("compile", "simulate")
  /\ UNCHANGED <<loopVars, agentVars, serviceVars, fileVars>>

\* The old testbench.vcd is removed before fusesoc starts.
SimulationCompletes ==
  /\ Goto("simulate", "export")
  /\ \E activity \in Activities :
       testbench_vcd' = [program |-> Current, activity |-> activity]
  /\ latest' = [latest EXCEPT !.timeout = "no"]
  /\ exported' = FALSE
  /\ UNCHANGED <<loopVars, serviceVars, stage_vcd, stage_txt, event_is_triggered,
                 compilation_error, re_generate_count, programs, feedback, thread_id>>

\* TimeoutExpired after 3 s; what the killed run wrote is never exported.
SimulationTimesOut ==
  /\ Goto("simulate", "trigger_router")
  /\ testbench_vcd' = None
  /\ event_is_triggered' = "no" /\ compilation_error' = "timeout"
  /\ latest' = [latest EXCEPT !.timeout = "yes", !.event_triggered = "no"]
  /\ UNCHANGED <<loopVars, serviceVars, stage_vcd, stage_txt, exported,
                 re_generate_count, programs, feedback, thread_id>>

SimulationFails ==
  /\ Goto("simulate", "trigger_router")
  /\ testbench_vcd' = None
  /\ event_is_triggered' = "no"
  /\ latest' = [latest EXCEPT !.event_triggered = "no"]
  /\ UNCHANGED <<loopVars, serviceVars, stage_vcd, stage_txt, exported,
                 compilation_error, re_generate_count, programs, feedback, thread_id>>

ExportSucceeds ==
  /\ Goto("export", "vcdcat")
  /\ stage_vcd' = testbench_vcd
  /\ exported' = TRUE
  /\ UNCHANGED <<loopVars, agentVars, serviceVars, testbench_vcd, stage_txt>>

\* The handler records "no" and does not return: vcdcat runs on whatever
\* vcd_files/{stage}3.vcd an earlier program left.
ExportFails ==
  /\ Goto("export", "vcdcat")
  /\ event_is_triggered' = "no"
  /\ latest' = [latest EXCEPT !.event_triggered = "no"]
  /\ UNCHANGED <<loopVars, serviceVars, fileVars, compilation_error,
                 re_generate_count, programs, feedback, thread_id>>

VcdcatSucceeds ==
  /\ Goto("vcdcat", "measure")
  /\ stage_vcd # None
  /\ stage_txt' = stage_vcd
  /\ UNCHANGED <<loopVars, agentVars, serviceVars, testbench_vcd, stage_vcd, exported>>

\* Mutant: the handler falls through to the text of an earlier program.
VcdcatFails_FallsThrough ==
  /\ Goto("vcdcat", "measure")
  /\ stage_txt # None
  /\ UNCHANGED <<loopVars, agentVars, serviceVars, fileVars>>

\* open(..., "w") has truncated the text file by then.
VcdcatFails ==
  /\ Goto("vcdcat", "trigger_router")
  /\ stage_txt' = None
  /\ event_is_triggered' = "no"
  /\ latest' = [latest EXCEPT !.event_triggered = "no"]
  /\ UNCHANGED <<loopVars, serviceVars, testbench_vcd, stage_vcd, exported,
                 compilation_error, re_generate_count, programs, feedback, thread_id>>

\* Mutant: the net is looked up for the first question only.
Activity_FirstNet == stage_txt.activity[1]

Activity == stage_txt.activity[q]
Measured == [latest EXCEPT !.transition = stage_txt.program]

\* Mutants: event_triggered deletes the thread after every trigger, or never.
StillOpen_Always == TRUE
StillOpen_Never == FALSE

StillOpen == re_generate_count # LlmIteration

MeasuresTrigger ==
  /\ pc = "measure"
  /\ Activity \in {"more", "longer"}
  /\ event_is_triggered' = "yes"
  /\ latest' = [Measured EXCEPT !.event_triggered = "yes"]
  /\ IF StillOpen
     THEN DeleteThread(shelf[thread_id], "trigger_router")
     ELSE KeepThread("trigger_router")
  /\ UNCHANGED <<q, results, lives, fileVars, shelf, thread, run,
                 compilation_error, re_generate_count, programs, feedback, thread_id>>

\* Equal counts and no more cycles: neither verdict is assigned.
MeasuresNoChange ==
  /\ Goto("measure", "trigger_router")
  /\ Activity = "equal"
  /\ latest' = Measured
  /\ UNCHANGED <<loopVars, serviceVars, fileVars, event_is_triggered,
                 compilation_error, re_generate_count, programs, feedback, thread_id>>

MeasuresLess ==
  /\ Goto("measure", "trigger_router")
  /\ Activity = "fewer"
  /\ event_is_triggered' = "no"
  /\ latest' = [Measured EXCEPT !.event_triggered = "no"]
  /\ UNCHANGED <<loopVars, serviceVars, fileVars, compilation_error,
                 re_generate_count, programs, feedback, thread_id>>

\* grep, awk or wc fails: the handler only prints.
MeasureFails ==
  /\ Goto("measure", "trigger_router")
  /\ UNCHANGED <<loopVars, agentVars, serviceVars, fileVars>>

-----------------------------------------------------------------------------
(* After a verdict. *)

\* Mutant: one attempt too many.
AttemptsLeft_OneMore == re_generate_count <= LlmIteration

AttemptsLeft == re_generate_count < LlmIteration

trigger_router ==
  /\ \/ event_is_triggered = "yes" /\ Goto("trigger_router", "END")
     \/ event_is_triggered = "no" /\ ~AttemptsLeft /\ Goto("trigger_router", "couldnot_generate")
     \/ event_is_triggered = "no" /\ AttemptsLeft /\ Goto("trigger_router", "add_compiled_log")
  /\ UNCHANGED <<loopVars, agentVars, serviceVars, fileVars>>

\* Mutant: only a build failure is told apart.
ReasonCode_ForgetsTimeout == IF compilation_error = "diagnostics" THEN 1 ELSE 3

\* reason_code 2 stands behind a test that "timeout" already passed.
ReasonCode == IF compilation_error # "empty" THEN 1 ELSE 3

CompilerOutput ==
  IF ReasonCode = 3 THEN "no_error"
  ELSE IF latest.compilation_error = "unset" THEN "empty" ELSE latest.compilation_error

\* Mutant: the attempt is not counted.
NextCount_Forgotten == re_generate_count

NextCount == re_generate_count + 1

add_compiled_log ==
  /\ Goto("add_compiled_log", "program_generator")
  /\ re_generate_count' = NextCount
  /\ feedback' = [reason_code |-> ReasonCode, compiler_output |-> CompilerOutput]
  /\ UNCHANGED <<loopVars, serviceVars, fileVars, event_is_triggered,
                 compilation_error, programs, latest, thread_id>>

Apologise ==   \* off_topic_response and couldnot_generate append a message
  /\ \/ Goto("off_topic_response", "END")
     \/ Goto("couldnot_generate", "END")
  /\ UNCHANGED <<loopVars, agentVars, serviceVars, fileVars>>

\* The loop over event_subset records the answer and takes the next entry.
NextQuestion ==
  /\ Goto("END", IF q = NumQuestions THEN "finished" ELSE "question_rewriter")
  /\ results' = [results EXCEPT ![q] = event_is_triggered]
  /\ q' = IF q = NumQuestions THEN q ELSE q + 1
  /\ FreshState
  /\ UNCHANGED <<lives, failure, serviceVars, fileVars>>

\* Any API call, file access or find_net_for_event can raise.
Crash ==
  /\ pc \in Nodes \ {"END", "trigger_router", "off_topic_response", "couldnot_generate"}
  /\ pc' = "crashed" /\ failure' = "exception"
  /\ UNCHANGED <<q, results, lives, agentVars, serviceVars, fileVars>>

\* The script is started again: only threads_db, the service and the trace
\* files survive.
Restart ==
  /\ Goto("crashed", "question_rewriter")
  /\ lives < MaxLives
  /\ lives' = lives + 1 /\ q' = 1 /\ failure' = "none"
  /\ results' = [i \in Questions |-> "none"]
  /\ FreshState
  /\ run' = "none" /\ thread' = None
  /\ UNCHANGED <<shelf, threads, fileVars>>

Stopped == pc \in {"finished", "crashed"} /\ UNCHANGED vars

-----------------------------------------------------------------------------
Prepare == question_rewriter \/ topic_classifier \/ event_classifier \/ inline_retrieve

Generate == CreateThread \/ store_thread \/ RetrieveThread \/ messages_create
            \/ runs_create \/ runs_retrieve \/ messages_list

Trigger == CompileFails \/ CompileSucceeds \/ SimulationCompletes
           \/ SimulationTimesOut \/ SimulationFails \/ ExportSucceeds
           \/ ExportFails \/ VcdcatSucceeds \/ VcdcatFails \/ MeasuresTrigger
           \/ MeasuresNoChange \/ MeasuresLess \/ MeasureFails

Decide == trigger_router \/ add_compiled_log \/ Apologise \/ NextQuestion

Step == Prepare \/ Generate \/ Trigger \/ Decide

Next == Step \/ RunEnds \/ Crash \/ Restart \/ Stopped

Spec == Init /\ [][Next]_vars

\* The interpreter keeps running the script, and the service ends every run;
\* nobody owes a crash or a restart.
Fairness == WF_vars(Step) /\ WF_vars(RunEnds)

FairSpec == Spec /\ Fairness

-----------------------------------------------------------------------------
(* Properties. *)

\* Every variable keeps its type; the counters keep their relation to the
\* limits of the workflow.
TypeOK ==
  /\ pc \in Nodes \cup {"finished", "crashed"}
  /\ q \in Questions /\ lives \in 1 .. MaxLives
  /\ results \in [Questions -> {"none", "no", "yes"}]
  /\ failure \in {"none", "exception", "retrieve_deleted_thread",
                   "delete_deleted_thread"}
  /\ event_is_triggered \in {"no", "yes"}
  /\ compilation_error \in {"empty", "diagnostics", "timeout"}
  /\ re_generate_count \in 0 .. LlmIteration
  /\ programs \in 0 .. LlmIteration + 1
  /\ latest \in Entry /\ feedback \in Feedback \cup {None}
  /\ thread_id \in WaIds \cup {None}
  /\ shelf \in [WaIds -> ThreadIds \cup {None}]
  /\ thread \in ThreadIds \cup {None}
  /\ threads \in [ThreadIds -> {"unborn", "live", "deleted"}]
  /\ run \in {"none", "in_progress", "completed", "failed"}
  /\ {testbench_vcd, stage_vcd, stage_txt} \subseteq Trace \cup {None}
  /\ exported \in BOOLEAN

\* A question that got as far as a program leaves its assistant thread deleted,
\* whether it ended in a trigger (event_triggered deletes) or in the last
\* attempt (generate_response deletes): two places and two limits that must
\* agree.
ThreadReleased ==
  pc = "END" /\ programs > 0 => threads[shelf[thread_id]] = "deleted"

\* No thread is deleted twice: event_triggered's guard on re_generate_count
\* leaves out exactly the attempt whose thread generate_response deleted.
DeleteNeverFails == failure # "delete_deleted_thread"

\* Threads leak by crashes only: outside program generation at most one live
\* thread is left over per crash.
LeaksOnlyByCrash ==
  LET live == {t \in ThreadIds : threads[t] = "live"} IN
  /\ Cardinality(live) <= lives
  /\ pc \in {"question_rewriter", "topic_classifier", "event_classifier",
             "inline_retrieve", "off_topic_response", "END", "finished"}
       => Cardinality(live) < lives

\* Every repair request is answered by exactly one program, and never more
\* than llm_iteration + 1 programs are asked for.
OneProgramPerAttempt ==
  /\ programs \in {re_generate_count, re_generate_count + 1}
  /\ pc \in TriggerSteps \cup {"trigger_router", "add_compiled_log"}
       => programs = re_generate_count + 1
  /\ pc = "couldnot_generate" => programs = LlmIteration + 1

\* The verdict and the text trace it was measured on: yes needs a trace that is
\* more active than the reference for the net of this very question, and a
\* trace that was measured and is so never ends in no, although
\* event_triggered assigns no verdict when the counts are equal.
VerdictFollowsTrace ==
  /\ event_is_triggered = "yes" =>
       /\ stage_txt # None /\ latest.transition = stage_txt.program
       /\ stage_txt.activity[q] \in {"more", "longer"}
  /\ event_is_triggered = "no" /\ latest.transition # None =>
       stage_txt.activity[q] \notin {"more", "longer"}

\* The answer the loop records for a question with a program follows the last
\* trace measured, and is no only after llm_iteration + 1 programs.  Whose
\* trace that is after a failed export it does not say: see MeasuresOwnTrace.
AnswerFollowsTrace ==
  pc = "END" /\ programs > 0 =>
    /\ VerdictFollowsTrace
    /\ event_is_triggered = "no" => programs = LlmIteration + 1

\* If the export of the latest program worked, what was measured is that
\* program's trace and not one an earlier program left in the stage files.
MeasuresOwnTrace ==
  pc = "trigger_router" /\ exported /\ latest.timeout = "no" =>
    latest.transition \in {Current, None}

\* A repair request that says "Program compiled successfully!" is about a
\* program whose build gave no diagnostics and whose run did not time out.  A
\* build that failed without diagnostics does get this request.
ReasonThreeMeansRan ==
  pc \in GenerateSteps /\ feedback # None /\ feedback.reason_code = 3 =>
    latest.compilation_error # "diagnostics" /\ latest.timeout # "yes"

\* The workflow implements the bounded repair loop: a question is active from
\* its first node to END, its conversation is the live thread of its id.
Active == pc \notin {"question_rewriter", "finished", "crashed"}

Conversation ==
  Active /\ thread_id # None /\ (Live(shelf[thread_id]) \/ Live(thread))

Loop == INSTANCE RepairLoop WITH
  MaxAttempts <- LlmIteration + 1,
  phase    <- IF Active THEN "active" ELSE IF pc = "crashed" THEN "down" ELSE "idle",
  attempts <- IF Active THEN programs ELSE 0,
  open     <- Conversation,
  verdict  <- IF Active THEN event_is_triggered ELSE "no"

\* See RepairLoop: conversation opened, bounded, never used after it is closed,
\* and closed exactly once, whatever the compiler, the simulator, the
\* assistant and the random ids do.
ImplementsRepairLoop == Loop!LoopSpec

\* Every question is answered or ends the script, if assistant runs complete.
EveryQuestionEnds ==
  pc = "question_rewriter" ~> pc \in {"END", "crashed"}

-----------------------------------------------------------------------------
(* The inductive invariant the proofs use: where in the workflow the counters, *)
(* the thread of the question, the verdict and the trace files stand.      *)

BeforeFirst == {"topic_classifier", "off_topic_response", "event_classifier",
                "inline_retrieve"}
InGenerate  == {"messages_create", "runs_create", "runs_retrieve", "messages_list"}

CountsInv ==
  /\ programs \in {re_generate_count, re_generate_count + 1}
  /\ pc \in BeforeFirst => programs = 0 /\ re_generate_count = 0
  /\ pc \in GenerateSteps => programs = re_generate_count
  /\ pc \in TriggerSteps \cup {"trigger_router", "add_compiled_log"}
       => programs = re_generate_count + 1
  /\ pc = "add_compiled_log" => re_generate_count < LlmIteration
  /\ pc = "couldnot_generate" => programs = LlmIteration + 1
  /\ pc = "END" => \/ programs = 0
                   \/ event_is_triggered = "yes"
                   \/ programs = LlmIteration + 1

\* The thread is open until the verdict, or until the last run.
ThreadOf(w) == IF w = None \/ shelf[w] = None THEN "unborn" ELSE threads[shelf[w]]
OpenUntilLast == ThreadOf(thread_id) = IF re_generate_count = LlmIteration
                                       THEN "deleted" ELSE "live"

ThreadInv ==
  /\ pc \in {"topic_classifier", "off_topic_response", "event_classifier"}
       => thread_id = None
  /\ pc \in GenerateSteps \cup TriggerSteps \cup {"inline_retrieve", "trigger_router",
           "add_compiled_log", "couldnot_generate"} => thread_id \in WaIds
  /\ pc \notin GenerateSteps \cup {"crashed"} => thread = None
  /\ pc = "program_generator" => thread = None
  /\ pc = "program_generator" /\ re_generate_count > 0 => ThreadOf(thread_id) = "live"
  /\ pc = "store_thread" => Live(thread) /\ re_generate_count = 0
  /\ pc \in InGenerate => thread # None /\ shelf[thread_id] = thread /\ Live(thread)
  /\ pc \in TriggerSteps => OpenUntilLast
  /\ pc = "trigger_router" =>
       IF event_is_triggered = "yes" THEN ThreadOf(thread_id) = "deleted"
                                     ELSE OpenUntilLast
  /\ pc = "add_compiled_log" => ThreadOf(thread_id) = "live"
  /\ pc = "couldnot_generate" => ThreadOf(thread_id) = "deleted"
  /\ pc = "END" => IF programs > 0 THEN thread_id # None /\ ThreadOf(thread_id) = "deleted"
                                   ELSE thread_id = None

VerdictInv ==
  /\ event_is_triggered = "yes" =>
       pc \in {"trigger_router", "END", "crashed"}
  /\ pc \in {"trigger_router", "couldnot_generate"} => VerdictFollowsTrace
  /\ pc = "END" /\ programs > 0 => VerdictFollowsTrace
  /\ compilation_error = "empty" /\ pc \in {"trigger_router", "add_compiled_log"} =>
       latest.compilation_error # "diagnostics" /\ latest.timeout # "yes"
  /\ pc \in BeforeFirst => feedback = None
  /\ ReasonThreeMeansRan
  /\ pc \in {"compile", "simulate"} => latest = NewEntry
  /\ pc \in TriggerSteps \ {"compile"} => latest.compilation_error = "unset"
  /\ pc \in {"export", "vcdcat", "measure"} => latest.timeout = "no"
  /\ failure # "delete_deleted_thread"

TraceInv ==
  /\ pc = "export" => testbench_vcd # None /\ testbench_vcd.program = Current
                      /\ ~exported
  /\ pc \in {"vcdcat", "measure"} /\ exported =>
       stage_vcd # None /\ stage_vcd.program = Current
  /\ pc = "measure" => stage_txt # None
  /\ pc = "measure" /\ exported => stage_txt.program = Current
  /\ pc \in {"compile", "simulate", "export", "vcdcat", "measure"}
       => latest.transition = None
  /\ pc = "trigger_router" => MeasuresOwnTrace

IInv == TypeOK /\ CountsInv /\ ThreadInv /\ VerdictInv /\ TraceInv

-----------------------------------------------------------------------------
(* What a prompt says and the code does not do. *)

\* The repair prompt: reason_code 1 is about a build failure.
ReasonOneMeansBuildFailure ==
  pc \in GenerateSteps /\ feedback # None /\ feedback.reason_code = 1 =>
    latest.compilation_error # "unset" \/ latest.timeout = "yes"
=============================================================================
