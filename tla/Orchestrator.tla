----------------------------- MODULE Orchestrator -----------------------------
(***************************************************************************)
(* The pipeline orchestrator (pipeline_orchestrator/                       *)
(* pipeline_orchestrator.c) on top of the tool registry.  A run is one PHP *)
(* call; a step of the model is one step of the pipeline.  The call of a   *)
(* tool's agent and the RAG sub-call are placeholders in the code: the     *)
(* call answers with the empty request it was given and never fails.       *)
(***************************************************************************)
EXTENDS ToolRegistry, FilterSeq

CONSTANTS
    ConditionalLogic,  \* the tool that sets the condition
    OrNoTool,          \* a step without a valid tool name
    OrMaxSteps         \* bound on the length of a pipeline

ASSUME OrchestratorAssumption ==
    /\ ConditionalLogic \in TrTool
    /\ OrNoTool \notin TrTool
    /\ OrMaxSteps \in Nat

VARIABLES
    or_pc,         \* idle, running, or how the last run ended: success, false
    or_pipeline,   \* the definition: a sequence of steps
    or_next,       \* the step the loop looks at next
    or_condition,  \* last_condition_result
    or_context,    \* execution_context: tool -> the step whose output it holds
    or_ran         \* history: the steps that called their tool

orvars == <<or_pc, or_pipeline, or_next, or_condition, or_context, or_ran>>

(* A step is an array or not, names a tool or not, and is conditional or not. *)
Step == [array : {TRUE}, tool : TrTool \cup {OrNoTool}, condition_true_only : BOOLEAN]
          \cup {[array |-> FALSE, tool |-> OrNoTool, condition_true_only |-> FALSE]}

Pipelines == SeqUpTo(Step, OrMaxSteps)

OrInit ==
    /\ or_pc = "idle"
    /\ or_pipeline = <<>>
    /\ or_next = 1
    /\ or_condition = TRUE
    /\ or_context = <<>>
    /\ or_ran = {}

------------------------------------------------------------------------------
quicpro_pipeline_orchestrator_run(p) ==
    /\ or_pc = "idle"
    /\ or_pc' = "running"
    /\ or_pipeline' = p
    /\ UNCHANGED <<or_next, or_condition, or_context, or_ran>>

(* The script has the result; nothing of a run outlives it. *)
run_is_over ==
    /\ or_pc \in {"success", "false"}
    /\ or_pc' = "idle"
    /\ or_pipeline' = <<>>
    /\ or_next' = 1
    /\ or_condition' = TRUE
    /\ or_context' = <<>>
    /\ or_ran' = {}

(* The execution context is released and the half built result replaced by FALSE. *)
run_fails ==
    /\ or_pc' = "false"
    /\ or_context' = <<>>
    /\ UNCHANGED <<or_pipeline, or_next, or_condition, or_ran>>

(* Mutant: a skipped step sets the condition again, like one that ran. *)
step_skipped_Mutant ==
    /\ or_next' = or_next + 1
    /\ or_condition' = TRUE
    /\ UNCHANGED <<or_pc, or_pipeline, or_context, or_ran>>

step_skipped ==
    /\ or_next' = or_next + 1
    /\ UNCHANGED <<or_pc, or_pipeline, or_condition, or_context, or_ran>>

(* execute_mcp_call: the answer is the empty array of the request. *)
ConditionMet == FALSE

(* The output is kept under the name of the tool; any other tool sets the  *)
(* condition again.                                                        *)
step_runs(t) ==
    /\ or_context' = [u \in DOMAIN or_context \cup {t} |-> IF u = t THEN or_next ELSE or_context[u]]
    /\ or_condition' = (t = ConditionalLogic => ConditionMet)
    /\ or_ran' = or_ran \cup {or_next}
    /\ or_next' = or_next + 1
    /\ UNCHANGED <<or_pc, or_pipeline>>

(* One turn of the loop of execute_pipeline_c: the condition is looked at  *)
(* before the tool, so a step that is skipped may name a tool that does    *)
(* not exist.                                                              *)
execute_step_c ==
    /\ or_pc = "running" /\ or_next <= Len(or_pipeline)
    /\ LET s == or_pipeline[or_next]
           skip == s.condition_true_only /\ ~or_condition
       IN  \/ ~s.array /\ run_fails
           \/ s.array /\ skip /\ step_skipped
           \/ s.array /\ ~skip /\ ~quicpro_tool_handler_get(s.tool) /\ run_fails
           \/ s.array /\ ~skip /\ quicpro_tool_handler_get(s.tool) /\ step_runs(s.tool)

(* The context is destroyed; what the array made of it still holds is left *)
(* open.                                                                   *)
execute_pipeline_returns ==
    /\ or_pc = "running" /\ or_next > Len(or_pipeline)
    /\ or_pc' = "success"
    /\ or_context' = <<>>
    /\ UNCHANGED <<or_pipeline, or_next, or_condition, or_ran>>

OrNext ==
    \/ (\E p \in Pipelines : quicpro_pipeline_orchestrator_run(p)) /\ UNCHANGED trvars
    \/ execute_step_c /\ UNCHANGED trvars
    \/ execute_pipeline_returns /\ UNCHANGED trvars
    \/ run_is_over /\ UNCHANGED trvars
    \/ or_pc = "idle" /\ TrNext /\ UNCHANGED orvars

------------------------------------------------------------------------------
(* The step before i that last called its tool is a ConditionalLogic. *)
AfterCondition(i) ==
    \E j \in or_ran :
        /\ j < i /\ or_pipeline[j].tool = ConditionalLogic
        /\ \A k \in or_ran : k >= i \/ k <= j

(* No ConditionalLogic before step i has run. *)
Unconditioned(i) == \A j \in or_ran : j < i => or_pipeline[j].tool # ConditionalLogic

(* Which steps run, as far as execute_step_c and the comment on            *)
(* condition_true_only agree: of the steps the loop has passed, those that *)
(* are not conditional and those no ConditionalLogic precedes called their *)
(* tool, and a conditional one did not when nothing but skipped steps lies *)
(* between it and a ConditionalLogic, whose condition is never met; a run  *)
(* succeeds only past its last step.  Nothing is said of a conditional     *)
(* step with another tool between it and the ConditionalLogic.             *)
StepsRunByDefinition ==
    /\ or_ran \subseteq 1..(or_next - 1)
    /\ \A i \in 1..(or_next - 1) :
           /\ ~or_pipeline[i].condition_true_only \/ Unconditioned(i) => i \in or_ran
           /\ or_pipeline[i].condition_true_only /\ AfterCondition(i) => i \notin or_ran
    /\ or_pc = "success" => or_next = Len(or_pipeline) + 1

==============================================================================
