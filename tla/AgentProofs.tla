------------------------------ MODULE AgentProofs ------------------------------
(***************************************************************************)
(* Proofs about Agent: the memory of the tool registry, the steps and the  *)
(* results of a pipeline, the timeout and the answer of an MCP request,    *)
(* the buffers and the headers of an HTTP request, for any set of tools,   *)
(* pipelines, events and header lines; and about the IIBIN registries.     *)
(***************************************************************************)
EXTENDS Agent, IibinRegistry, DataInduction, TLAPS

(* The elements of a concatenation come from its two parts. *)
LEMMA RangeOfConcat ==
    ASSUME NEW S, NEW s \in Seq(S), NEW t \in Seq(S)
    PROVE  Range(s \o t) \subseteq Range(s) \cup Range(t)
<1> SUFFICES ASSUME NEW i \in DOMAIN (s \o t)
             PROVE  (s \o t)[i] \in Range(s) \cup Range(t)
  BY DEF Range
<1>1. i \in 1..(Len(s) + Len(t))
  OBVIOUS
<1>2. CASE i <= Len(s)
  BY <1>1, <1>2 DEF Range
<1>3. CASE i > Len(s)
  <2>1. i - Len(s) \in DOMAIN t /\ (s \o t)[i] = t[i - Len(s)]
    BY <1>1, <1>3
  <2> QED
    BY <2>1 DEF Range
<1> QED
  BY <1>1, <1>2, <1>3

Part == {"target", "handler", "rag", "ragtarget"}
Text == {"mcp_target"} \cup Range(TargetFields) \cup Range(SchemaFields) \cup Range(RagFields)
Field == Part \X Text

(* The parts HandlerRequired and RagRequired are put together from are     *)
(* sequences of fields.                                                    *)
LEMMA FieldSequences ==
    /\ \A part \in Part : <<<<part, "mcp_target">>>> \in Seq(Field)
    /\ \A part \in Part : /\ Of(part, TargetFields) \in Seq(Field)
                          /\ Of(part, SchemaFields) \in Seq(Field)
                          /\ Of(part, RagFields) \in Seq(Field)
<1>1. ASSUME NEW part \in Part PROVE <<<<part, "mcp_target">>>> \in Seq(Field)
  BY DEF Field, Text
<1>2. ASSUME NEW part \in Part, NEW n \in Nat, NEW s, DOMAIN s = 1..n, Range(s) \subseteq Text
      PROVE  Of(part, s) \in Seq(Field)
  <2>1. \A i \in 1..n : <<part, s[i]>> \in Field
    BY <1>2 DEF Field, Range
  <2>2. Of(part, s) \in [1..n -> Field]
    BY <1>2, <2>1 DEF Of
  <2> QED
    BY <2>2, SeqDef
<1>3. DOMAIN TargetFields = 1..4 /\ DOMAIN SchemaFields = 1..2 /\ DOMAIN RagFields = 1..5
  BY DEF TargetFields, SchemaFields, RagFields
<1> QED
  BY <1>1, <1>2, <1>3 DEF Text

(* The destructor releases every required field of a handler that owns memory. *)
LEMMA HandlerFields ==
    \A i \in DOMAIN HandlerRequired :
        Owns(HandlerRequired[i]) => HandlerRequired[i] \in tool_handler_config_dtor_internal
<1>1. Range(HandlerRequired) \subseteq {<<"target", "mcp_target">>} \cup Range(Of("target", TargetFields))
                                         \cup Range(Of("handler", SchemaFields))
  <2>1. Range(<<<<"target", "mcp_target">>>>) = {<<"target", "mcp_target">>}
    BY DEF Range
  <2> DEFINE x == <<<<"target", "mcp_target">>>>
             a == Of("target", TargetFields)
             b == Of("handler", SchemaFields)
  <2>2. x \in Seq(Field) /\ a \in Seq(Field) /\ b \in Seq(Field)
    BY FieldSequences DEF Part
  <2>3. HandlerRequired = (x \o a) \o b
    BY DEF HandlerRequired
  <2> HIDE DEF x, a, b
  <2>4. x \o a \in Seq(Field)
    BY <2>2, ConcatProperties
  <2>5. Range(x \o a) \subseteq Range(x) \cup Range(a)
    BY <2>2, RangeOfConcat
  <2>6. Range((x \o a) \o b) \subseteq Range(x \o a) \cup Range(b)
    BY <2>2, <2>4, RangeOfConcat
  <2>7. Range(x) = {<<"target", "mcp_target">>}
    BY <2>1 DEF x
  <2> QED
    BY <2>3, <2>5, <2>6, <2>7 DEF a, b
<1>2. Range(Of("target", TargetFields)) \cup Range(Of("handler", SchemaFields)) \subseteq tool_handler_config_dtor_internal
  BY DEF tool_handler_config_dtor_internal, destroy_mcp_target_config_contents
<1> QED
  BY <1>1, <1>2 DEF Range, Owns

(* The destructor releases every field of a RAG section that owns memory. *)
LEMMA RagFieldsReleased ==
    \A i \in DOMAIN RagRequired :
        Owns(RagRequired[i]) => RagRequired[i] \in tool_handler_config_dtor_internal
<1>1. Range(RagRequired) \subseteq {<<"rag", "mcp_target">>} \cup Range(Of("ragtarget", TargetFields))
                                     \cup Range(Of("rag", RagFields))
  <2>1. Range(<<<<"rag", "mcp_target">>>>) = {<<"rag", "mcp_target">>}
    BY DEF Range
  <2> DEFINE x == <<<<"rag", "mcp_target">>>>
             a == Of("ragtarget", TargetFields)
             b == Of("rag", RagFields)
  <2>2. x \in Seq(Field) /\ a \in Seq(Field) /\ b \in Seq(Field)
    BY FieldSequences DEF Part
  <2>3. RagRequired = (x \o a) \o b
    BY DEF RagRequired
  <2> HIDE DEF x, a, b
  <2>4. x \o a \in Seq(Field)
    BY <2>2, ConcatProperties
  <2>5. Range(x \o a) \subseteq Range(x) \cup Range(a)
    BY <2>2, RangeOfConcat
  <2>6. Range((x \o a) \o b) \subseteq Range(x \o a) \cup Range(b)
    BY <2>2, <2>4, RangeOfConcat
  <2>7. Range(x) = {<<"rag", "mcp_target">>}
    BY <2>1 DEF x
  <2> QED
    BY <2>3, <2>5, <2>6, <2>7 DEF a, b
<1>2. Range(Of("ragtarget", TargetFields)) \cup Range(Of("rag", RagFields)) \subseteq tool_handler_config_dtor_internal
  BY DEF tool_handler_config_dtor_internal, destroy_mcp_target_config_contents, destroy_rag_config_contents
<1> QED
  BY <1>1, <1>2 DEF Range, Owns

(* What a handler, complete or not, has allocated is what its destructor   *)
(* and the cleanup release.                                                *)
LEMMA AllocatedIsReleased ==
    ASSUME NEW c PROVE Allocated(c) \subseteq tool_handler_config_dtor_internal
<1> SUFFICES ASSUME NEW f \in Allocated(c) PROVE f \in tool_handler_config_dtor_internal
  OBVIOUS
<1>1. Owns(f)
  BY DEF Allocated
<1>2. CASE f \in {<<"handler", "struct">>, <<"handler", "tool_name">>, <<"rag", "struct">>}
  BY <1>2 DEF tool_handler_config_dtor_internal
<1>3. CASE f \in Taken(HandlerRequired, c.missing)
  BY <1>1, <1>3, HandlerFields DEF Taken
<1>4. CASE f \in Taken(RagRequired, c.missing)
  BY <1>1, <1>4, RagFieldsReleased DEF Taken
<1>5. CASE f \in {<<"target", "mcp_options">>, <<"ragtarget", "mcp_options">>} \cup HandlerOptions \cup RagOptions
  BY <1>5 DEF tool_handler_config_dtor_internal, destroy_mcp_target_config_contents,
              destroy_rag_config_contents
<1> QED
  BY <1>2, <1>3, <1>4, <1>5 DEF Allocated, parse_rag_config_from_php, parse_mcp_target_config_from_php

(* The cleanup of a partly built handler releases all that the destructor  *)
(* does (create_tool_handler_from_php's error label).                      *)
LEMMA CleanupReleasesAsMuch == tool_handler_config_dtor_internal \subseteq create_tool_handler_error
  BY DEF create_tool_handler_error, tool_handler_config_dtor_internal, HandlerOptions

------------------------------------------------------------------------------
(* The registry.  While it is down nothing is registered; and a registered *)
(* handler owns nothing that its destructor does not release.              *)
RegistryInv ==
    /\ RegistryOwnsItsMemory
    /\ ~tr_initialized => DOMAIN tr_registry = {}
    /\ \A t \in DOMAIN tr_registry : tr_registry[t] \subseteq tool_handler_config_dtor_internal

(* Registration, initialisation and shutdown keep the invariant. *)
LEMMA RegistryStep == RegistryInv /\ TrNext => RegistryInv'
<1> SUFFICES ASSUME RegistryInv, TrNext PROVE RegistryInv'
  OBVIOUS
<1>1. CASE quicpro_tool_handler_registry_init
  <2>1. CASE tr_initialized
    BY <1>1, <2>1 DEF quicpro_tool_handler_registry_init, RegistryInv, RegistryOwnsItsMemory
  <2>2. CASE ~tr_initialized
    BY <1>1, <2>2 DEF quicpro_tool_handler_registry_init, RegistryInv, RegistryOwnsItsMemory
  <2> QED
    BY <2>1, <2>2
<1>2. CASE quicpro_tool_handler_registry_shutdown
  <2>1. DOMAIN tr_registry' = {} /\ ~tr_initialized'
    BY <1>2 DEF quicpro_tool_handler_registry_shutdown
  <2>2. \A a \in tr_heap : a[1] \in DOMAIN tr_registry /\ a[2] \in tool_handler_config_dtor_internal
    BY DEF RegistryInv, RegistryOwnsItsMemory
  <2>3. tr_heap' = {}
    BY <1>2, <2>2 DEF quicpro_tool_handler_registry_shutdown
  <2> QED
    BY <2>1, <2>3 DEF RegistryInv, RegistryOwnsItsMemory
<1>3. ASSUME NEW t \in TrTool, NEW c \in Configs, register_from_php(t, c) PROVE RegistryInv'
  <2> HIDE DEF Allocated, Accepted
  <2>1. CASE Accepted(c)
    <3>1. /\ DOMAIN tr_registry' = DOMAIN tr_registry \cup {t} /\ t \notin DOMAIN tr_registry
          /\ tr_registry'[t] = Allocated(c)
          /\ \A u \in DOMAIN tr_registry : tr_registry'[u] = tr_registry[u]
          /\ tr_heap' = tr_heap \cup ({t} \X Allocated(c)) /\ tr_initialized' /\ tr_initialized
      BY <1>3, <2>1 DEF register_from_php
    <3>2. RegistryOwnsItsMemory'
      BY <3>1 DEF RegistryInv, RegistryOwnsItsMemory
    <3> QED
      BY <3>1, <3>2, AllocatedIsReleased DEF RegistryInv
  <2>2. CASE ~Accepted(c)
    <3>1. Allocated(c) \ create_tool_handler_error = {}
      BY AllocatedIsReleased, CleanupReleasesAsMuch
    <3>2. tr_heap' = tr_heap /\ tr_registry' = tr_registry /\ tr_initialized' = tr_initialized
      BY <1>3, <2>2, <3>1 DEF register_from_php
    <3> QED
      BY <3>2 DEF RegistryInv, RegistryOwnsItsMemory
  <2> QED
    BY <2>1, <2>2
<1> QED
  BY <1>1, <1>2, <1>3 DEF TrNext

(* A step of the registry, or none that touches it. *)
LEMMA RegistryMoves == [Next]_vars => TrNext \/ UNCHANGED trvars
  BY DEF Next, vars, OrNext

(* The registry's memory is what its handlers own, whatever was registered *)
(* or refused at whichever field, and nothing is left after a shutdown     *)
(* (create_tool_handler_from_php, tool_handler_config_dtor_internal).      *)
THEOREM RegistryMemoryCorrect == Spec => []RegistryOwnsItsMemory
<1>1. Init => RegistryInv
  BY DEF Init, TrInit, RegistryInv, RegistryOwnsItsMemory
<1>2. RegistryInv /\ [Next]_vars => RegistryInv'
  BY RegistryStep, RegistryMoves DEF trvars, RegistryInv, RegistryOwnsItsMemory
<1>3. RegistryInv => RegistryOwnsItsMemory
  BY DEF RegistryInv
<1> QED
  BY <1>1, <1>2, <1>3, PTL DEF Spec

(* No registration replaces or removes a handler another part may point to *)
(* (quicpro_tool_handler_register_from_php, quicpro_tool_handler_get).     *)
THEOREM HandlersStayCorrect == Spec => HandlersStay
<1> DEFINE Kept == tr_initialized' => \A t \in DOMAIN tr_registry :
                       t \in DOMAIN tr_registry' /\ tr_registry'[t] = tr_registry[t]
<1>1. Init => RegistryInv
  BY DEF Init, TrInit, RegistryInv, RegistryOwnsItsMemory
<1>2. RegistryInv /\ [Next]_vars => RegistryInv'
  BY RegistryStep, RegistryMoves DEF trvars, RegistryInv, RegistryOwnsItsMemory
<1>3. RegistryInv /\ [Next]_vars => [Kept]_trvars
  <2> SUFFICES ASSUME RegistryInv, TrNext PROVE Kept
    BY RegistryMoves
  <2>1. CASE quicpro_tool_handler_registry_init
    BY <2>1 DEF quicpro_tool_handler_registry_init, RegistryInv
  <2>2. CASE quicpro_tool_handler_registry_shutdown
    BY <2>2 DEF quicpro_tool_handler_registry_shutdown
  <2>3. ASSUME NEW t \in TrTool, NEW c \in Configs, register_from_php(t, c) PROVE Kept
    <3> HIDE DEF Allocated, Accepted
    <3> QED
      BY <2>3 DEF register_from_php
  <2> QED
    BY <2>1, <2>2, <2>3 DEF TrNext
<1> QED
  BY <1>1, <1>2, <1>3, PTL DEF Spec, HandlersStay

------------------------------------------------------------------------------
(* Pipelines.  last_condition_result is FALSE exactly when the last step   *)
(* that called its tool was a ConditionalLogic.                            *)
(* The code's own rule, sharper than what its comments promise: a step is  *)
(* passed over exactly when it is conditional and only skipped steps lie   *)
(* between it and a ConditionalLogic.                                      *)
ExactlyRun ==
    /\ or_ran = {i \in 1..(or_next - 1) : ~(or_pipeline[i].condition_true_only /\ AfterCondition(i))}
    /\ or_pc = "success" => or_next = Len(or_pipeline) + 1

PipelineInv ==
    /\ or_pc \in {"idle", "running", "success", "false"}
    /\ or_next \in Nat \ {0}
    /\ or_ran \subseteq 1..(or_next - 1)
    /\ or_condition <=> ~AfterCondition(or_next)
    /\ or_pc = "idle" => or_next = 1 /\ or_ran = {}
    /\ or_pc = "running" => or_next <= Len(or_pipeline) + 1
    /\ Len(or_pipeline) \in Nat
    /\ ExactlyRun

(* A pipeline is a sequence. *)
LEMMA PipelineLength == \A p \in Pipelines : Len(p) \in Nat
  BY OrchestratorAssumption DEF Pipelines, SeqUpTo

(* Whether a step follows a condition depends on the steps before it only. *)
LEMMA EarlierStepsDecide ==
    ASSUME NEW i \in Int, UNCHANGED or_pipeline,
           \A k : k \in or_ran => k \in Int,
           \A k : k \in or_ran' => k \in Int,
           \A k \in Int : k < i => (k \in or_ran <=> k \in or_ran')
    PROVE  AfterCondition(i)' <=> AfterCondition(i)
<1>1. ASSUME AfterCondition(i) PROVE AfterCondition(i)'
  <2>1. PICK j \in or_ran : /\ j < i /\ or_pipeline[j].tool = ConditionalLogic
                            /\ \A k \in or_ran : k >= i \/ k <= j
    BY <1>1 DEF AfterCondition
  <2>2. j \in or_ran' /\ \A k \in or_ran' : k >= i \/ k <= j
    BY <2>1
  <2> QED
    BY <2>1, <2>2 DEF AfterCondition
<1>2. ASSUME AfterCondition(i)' PROVE AfterCondition(i)
  <2>1. PICK j \in or_ran' : /\ j < i /\ or_pipeline[j].tool = ConditionalLogic
                             /\ \A k \in or_ran' : k >= i \/ k <= j
    BY <1>2 DEF AfterCondition
  <2>2. j \in or_ran /\ \A k \in or_ran : k >= i \/ k <= j
    BY <2>1
  <2> QED
    BY <2>1, <2>2 DEF AfterCondition
<1> QED
  BY <1>1, <1>2

(* A step that is passed over is a conditional one after a condition. *)
LEMMA SkippingKeeps ==
    ASSUME PipelineInv, or_pc = "running", or_next <= Len(or_pipeline),
           or_pipeline[or_next].condition_true_only, ~or_condition, step_skipped
    PROVE  PipelineInv'
<1>1. /\ or_next \in Nat \ {0} /\ or_ran \subseteq 1..(or_next - 1) /\ or_ran' = or_ran
      /\ or_next' = or_next + 1 /\ or_pipeline' = or_pipeline /\ or_pc' = or_pc
      /\ or_condition' = or_condition /\ Len(or_pipeline) \in Nat
  BY DEF PipelineInv, step_skipped
<1>2. \A i \in Int : AfterCondition(i)' <=> AfterCondition(i)
  BY <1>1 DEF AfterCondition
<1>3. AfterCondition(or_next + 1) <=> AfterCondition(or_next)
  BY <1>1 DEF AfterCondition
<1>4. AfterCondition(or_next)
  BY DEF PipelineInv
<1>5. ExactlyRun'
  <2>1. or_ran = {i \in 1..(or_next - 1) : ~(or_pipeline[i].condition_true_only /\ AfterCondition(i))}
    BY DEF PipelineInv, ExactlyRun
  <2>2. or_ran' = {i \in 1..(or_next' - 1) : ~(or_pipeline'[i].condition_true_only /\ AfterCondition(i)')}
    BY <1>1, <1>2, <1>4, <2>1
  <2> QED
    BY <1>1, <2>2 DEF ExactlyRun
<1>6. (or_condition <=> ~AfterCondition(or_next))'
  <2>1. AfterCondition(or_next)' <=> AfterCondition(or_next + 1)
    BY <1>1 DEF AfterCondition
  <2> QED
    BY <1>1, <1>3, <2>1 DEF PipelineInv
<1> QED
  BY <1>1, <1>5, <1>6 DEF PipelineInv

(* A step that calls its tool is the last one that did. *)
LEMMA RunningKeeps ==
    ASSUME PipelineInv, or_pc = "running", or_next <= Len(or_pipeline),
           ~(or_pipeline[or_next].condition_true_only /\ ~or_condition),
           step_runs(or_pipeline[or_next].tool)
    PROVE  PipelineInv'
<1>1. /\ or_next \in Nat \ {0} /\ or_ran \subseteq 1..(or_next - 1) /\ or_ran' = or_ran \cup {or_next}
      /\ or_next' = or_next + 1 /\ or_pipeline' = or_pipeline /\ or_pc' = or_pc
      /\ Len(or_pipeline) \in Nat
      /\ or_condition' <=> or_pipeline[or_next].tool # ConditionalLogic
  BY DEF PipelineInv, step_runs, ConditionMet
<1>2. ASSUME NEW i \in 1..or_next PROVE AfterCondition(i)' <=> AfterCondition(i)
  <2>1. i \in Int /\ i <= or_next
    BY <1>1, <1>2
  <2>2. \A k : k \in or_ran => k \in Int
    BY <1>1
  <2>3. \A k : k \in or_ran' => k \in Int
    BY <1>1, <2>2
  <2>4. \A k \in Int : k < i => (k \in or_ran <=> k \in or_ran')
    BY <1>1, <2>1
  <2>5. UNCHANGED or_pipeline
    BY <1>1
  <2> QED
    BY <2>1, <2>2, <2>3, <2>4, <2>5, EarlierStepsDecide
<1>3. AfterCondition(or_next)' <=> or_pipeline[or_next].tool = ConditionalLogic
  BY <1>1 DEF AfterCondition
<1>4. ExactlyRun'
  <2>1. or_ran = {i \in 1..(or_next - 1) : ~(or_pipeline[i].condition_true_only /\ AfterCondition(i))}
    BY DEF PipelineInv, ExactlyRun
  <2>2. ~(or_pipeline[or_next].condition_true_only /\ AfterCondition(or_next))
    BY DEF PipelineInv
  <2>3. or_ran' = {i \in 1..(or_next' - 1) : ~(or_pipeline'[i].condition_true_only /\ AfterCondition(i)')}
    BY <1>1, <1>2, <2>1, <2>2
  <2> QED
    BY <1>1, <2>3 DEF ExactlyRun
<1>5. (or_condition <=> ~AfterCondition(or_next))'
  BY <1>1, <1>3
<1> QED
  BY <1>1, <1>4, <1>5 DEF PipelineInv

(* Nothing but the state of the run changes. *)
LEMMA SameSteps ==
    ASSUME PipelineInv, UNCHANGED <<or_pipeline, or_next, or_condition, or_ran>>,
           or_pc' \in {or_pc, "success", "false"},
           or_pc' = "success" => or_next = Len(or_pipeline) + 1
    PROVE  PipelineInv'
<1>1. \A i \in Int : AfterCondition(i)' <=> AfterCondition(i)
  BY DEF AfterCondition
<1>2. or_ran' = {i \in 1..(or_next' - 1) : ~(or_pipeline'[i].condition_true_only /\ AfterCondition(i)')}
  <2>1. or_next \in Nat /\ or_ran = {i \in 1..(or_next - 1) : ~(or_pipeline[i].condition_true_only /\ AfterCondition(i))}
    BY DEF PipelineInv, ExactlyRun
  <2> QED
    BY <1>1, <2>1
<1>3. ExactlyRun'
  BY <1>2 DEF ExactlyRun
<1>4. (or_condition <=> ~AfterCondition(or_next))'
  BY DEF PipelineInv, AfterCondition
<1> QED
  BY <1>3, <1>4 DEF PipelineInv

(* The loop, the end of a run and the next call keep the invariant. *)
LEMMA PipelineMoves == PipelineInv /\ [Next]_vars => PipelineInv'
<1> SUFFICES ASSUME PipelineInv, [Next]_vars PROVE PipelineInv'
  OBVIOUS
<1>1. CASE UNCHANGED orvars
  BY <1>1, SameSteps DEF PipelineInv, ExactlyRun, orvars
<1>2. ASSUME NEW p \in Pipelines, quicpro_pipeline_orchestrator_run(p) PROVE PipelineInv'
  <2>1. /\ or_next' = 1 /\ or_ran' = {} /\ or_pc' = "running" /\ Len(or_pipeline') \in Nat
        /\ or_condition'
    BY <1>2, PipelineLength DEF PipelineInv, AfterCondition, quicpro_pipeline_orchestrator_run
  <2> QED
    BY <2>1 DEF PipelineInv, ExactlyRun, AfterCondition
<1>3. CASE execute_step_c
  <2>1. CASE run_fails
    BY <2>1, SameSteps DEF run_fails
  <2>2. CASE or_pipeline[or_next].condition_true_only /\ ~or_condition /\ step_skipped
    BY <1>3, <2>2, SkippingKeeps DEF execute_step_c
  <2>3. CASE ~(or_pipeline[or_next].condition_true_only /\ ~or_condition) /\ step_runs(or_pipeline[or_next].tool)
    BY <1>3, <2>3, RunningKeeps DEF execute_step_c
  <2> QED
    BY <1>3, <2>1, <2>2, <2>3 DEF execute_step_c
<1>4. CASE execute_pipeline_returns
  BY <1>4, SameSteps DEF execute_pipeline_returns, PipelineInv
<1>5. CASE run_is_over
  <2>1. /\ or_pc' = "idle" /\ or_next' = 1 /\ or_ran' = {} /\ or_condition' /\ or_pipeline' = <<>>
    BY <1>5 DEF run_is_over
  <2>2. ExactlyRun' /\ \A i : ~AfterCondition(i)'
    BY <2>1 DEF ExactlyRun, AfterCondition
  <2> QED
    BY <2>1, <2>2 DEF PipelineInv
<1>6. UNCHANGED orvars \/ OrNext
  BY DEF Next, vars
<1> QED
  BY <1>1, <1>2, <1>3, <1>4, <1>5, <1>6 DEF OrNext, orvars

(* Steps that are not conditional, and those no ConditionalLogic precedes, *)
(* call their tool, a conditional one right after a ConditionalLogic does  *)
(* not, and success comes only past the last step, for every registry,     *)
(* pipeline and set of tools (execute_step_c, execute_pipeline_c).         *)
THEOREM StepsRunByDefinitionCorrect == Spec => []StepsRunByDefinition
<1>1. Init => PipelineInv
  BY DEF Init, OrInit, PipelineInv, ExactlyRun, AfterCondition
<1>2. PipelineInv => StepsRunByDefinition
  <2> SUFFICES ASSUME PipelineInv PROVE StepsRunByDefinition
    OBVIOUS
  <2>1. /\ or_ran = {i \in 1..(or_next - 1) : ~(or_pipeline[i].condition_true_only /\ AfterCondition(i))}
        /\ or_pc = "success" => or_next = Len(or_pipeline) + 1
    BY DEF PipelineInv, ExactlyRun
  <2>2. \A i : Unconditioned(i) => ~AfterCondition(i)
    BY DEF Unconditioned, AfterCondition
  <2> QED
    BY <2>1, <2>2 DEF StepsRunByDefinition
<1> QED
  BY <1>1, <1>2, PipelineMoves, PTL DEF Spec

------------------------------------------------------------------------------
(* Cutting a time to whole seconds loses less than a second. *)
LEMMA WholeSeconds ==
    ASSUME NEW n \in Nat
    PROVE  /\ n \div McSecond \in Int
           /\ McSecond * (n \div McSecond) <= n
           /\ n <= McSecond * (n \div McSecond) + (McSecond - 1)
  BY McpAssumption

(* The clock and the start of a request are times. *)
ClockInv == mc_now \in Nat /\ mc_start \in Nat /\ mc_timeout \in Int

(* Only the clock's tick and a new request write them. *)
LEMMA ClockStep == ClockInv /\ [Next]_vars => ClockInv'
<1> SUFFICES ASSUME ClockInv, [Next]_vars PROVE ClockInv'
  OBVIOUS
<1>1. CASE UNCHANGED mcvars
  BY <1>1 DEF ClockInv, mcvars
<1>2. ASSUME NEW t \in McTimeouts, NEW es, quicpro_mcp_request(t, es) PROVE ClockInv'
  BY <1>2, McpAssumption DEF ClockInv, quicpro_mcp_request
<1>3. CASE mc_tick
  BY <1>3 DEF ClockInv, mc_tick, mcrequest
<1>4. CASE mcp_poll_turn
  <2>1. UNCHANGED <<mc_now, mc_start, mc_timeout>>
    BY <1>4 DEF mcp_poll_turn, ends
  <2> QED
    BY <2>1 DEF ClockInv
<1>5. CASE mcp_poll_times_out
  BY <1>5 DEF ClockInv, mcp_poll_times_out, ends
<1>6. ASSUME (\E c \in McConfig : quicpro_mcp_connect(c)) \/ quicpro_mcp_close \/ mcp_request_refused
      PROVE  ClockInv'
  BY <1>6 DEF ClockInv, quicpro_mcp_connect, quicpro_mcp_close, mcp_request_refused, mcrequest
<1>7. UNCHANGED mcvars \/ McNext
  BY DEF Next, vars
<1> QED
  BY <1>1, <1>2, <1>3, <1>4, <1>5, <1>6, <1>7 DEF McNext

(* A request is never given up a second or more before its timeout is over *)
(* (mcp_poll_for_response compares whole seconds), for every length of a   *)
(* second and every timeout.                                               *)
THEOREM TimeoutNotEarlyCorrect == Spec => TimeoutNotEarly
<1>1. Init => ClockInv
  BY DEF Init, McInit, ClockInv
<1>2. ASSUME ClockInv, [Next]_vars, mc_pc = "polling", mc_pc' = "timeout"
      PROVE  mc_now - mc_start > mc_timeout - (McSecond - 1)
  <2>1. Elapsed > mc_timeout
    BY <1>2 DEF Next, vars, mcvars, McNext, quicpro_mcp_connect, quicpro_mcp_close, mcrequest,
       mcp_request_refused, quicpro_mcp_request, mcp_poll_times_out, mcp_poll_turn, ends, mc_tick, TimedOut
  <2> DEFINE a == mc_now \div McSecond
             b == mc_start \div McSecond
  <2>2. a \in Int /\ McSecond * a <= mc_now
    BY <1>2, WholeSeconds DEF ClockInv
  <2>3. b \in Int /\ mc_start <= McSecond * b + (McSecond - 1)
    BY <1>2, WholeSeconds DEF ClockInv
  <2>4. McSecond * (a - b) > mc_timeout
    BY <2>1 DEF Elapsed
  <2> HIDE DEF a, b
  <2>5. McSecond * (a - b) = McSecond * a - McSecond * b
    BY <2>2, <2>3, McpAssumption
  <2>6. McSecond * a \in Int /\ McSecond * b \in Int
    BY <2>2, <2>3, McpAssumption
  <2> QED
    BY <1>2, <2>2, <2>3, <2>4, <2>5, <2>6, McpAssumption DEF ClockInv
<1>3. ClockInv /\ [Next]_vars =>
        [mc_pc = "polling" /\ mc_pc' = "timeout" => mc_now - mc_start > mc_timeout - (McSecond - 1)]_mcvars
  BY <1>2
<1> QED
  BY <1>1, <1>3, ClockStep, PTL DEF Spec, TimeoutNotEarly

------------------------------------------------------------------------------
(* What the HTTP client allocates is among what its cleanup releases. *)
HeldInv ==
    /\ hc_held \subseteq {"curl", "headers_list", "raw", "body"}
    /\ NothingHeldAfterCall

(* However a transfer ends, nothing it allocated stays allocated (the two  *)
(* cleanups of quicpro_http_request_send).                                 *)
THEOREM NothingHeldCorrect == Spec => []NothingHeldAfterCall
<1>1. Init => HeldInv
  BY DEF Init, HcInit, HeldInv, NothingHeldAfterCall
<1>2. HeldInv /\ [Next]_vars => HeldInv'
  <2> SUFFICES ASSUME HeldInv, [Next]_vars PROVE HeldInv'
    OBVIOUS
  <2>1. CASE UNCHANGED hcvars
    BY <2>1 DEF HeldInv, NothingHeldAfterCall, hcvars
  <2>2. CASE HcNext
    BY <2>2 DEF HeldInv, NothingHeldAfterCall, HcNext, http_request_starts, curl_easy_init_fails,
       curl_delivers, header_callback, write_callback, perform_fails, perform_returns
  <2> QED
    BY <2>1, <2>2 DEF Next, vars
<1>3. HeldInv => NothingHeldAfterCall
  BY DEF HeldInv
<1> QED
  BY <1>1, <1>2, <1>3, PTL DEF Spec

------------------------------------------------------------------------------
(* What a transfer has kept: while it runs, the header lines among the raw *)
(* ones are those delivered, since the first status line came before them. *)
HeadInv ==
    /\ hc_raw \in Seq(HeaderLine \cup {StatusLine})
    /\ hc_received \in Seq(HeaderLine)
    /\ hc_pc = "performing" => Among(hc_raw, HeaderLine) = hc_received
    /\ hc_pc = "performing" /\ hc_wire \in {"head", "body"} => hc_first
    /\ HeadersAreKept

(* Header lines are told from the others by their first word. *)
LEMMA LineKinds ==
    /\ StatusLine \notin HeaderLine /\ BlankLine \notin HeaderLine /\ StatusLine # BlankLine
    /\ \A w : \A l \in Named(w) : l[2][1] = w
  BY DEF StatusLine, BlankLine, HeaderLine, Named

(* A delivered line. *)
LEMMA DeliveryKeeps ==
    ASSUME HeadInv, NEW l \in HeaderLine \cup {StatusLine, BlankLine}, curl_delivers(l)
    PROVE  HeadInv'
<1> DEFINE Lines == HeaderLine \cup {StatusLine}
<1>1. hc_pc = "performing" /\ hc_pc' = "performing" /\ hc_first'
      /\ (l \in HeaderLine => hc_first)
  <2>1. hc_pc = "performing" /\ hc_pc' = "performing" /\ (l = StatusLine \/ hc_wire = "head") /\ header_callback(l)
    BY DEF curl_delivers
  <2>2. hc_wire = "head" => hc_first
    BY <2>1 DEF HeadInv
  <2>3. hc_first \/ l = StatusLine
    BY <2>1, <2>2
  <2>4. hc_first'
    <3>1. CASE hc_first
      BY <2>1, <3>1 DEF header_callback
    <3>2. CASE ~hc_first
      <4>1. l = StatusLine /\ hc_first' = (l = StatusLine)
        BY <2>1, <2>3, <3>2 DEF header_callback
      <4> QED
        BY <4>1
    <3> QED
      BY <3>1, <3>2
  <2>5. l \in HeaderLine => l # StatusLine
    BY LineKinds
  <2> QED
    BY <2>1, <2>2, <2>4, <2>5
<1>2. CASE l \in HeaderLine
  <2>1. hc_received' = Append(hc_received, l) /\ hc_raw' = Append(hc_raw, l)
    BY <1>1, <1>2, LineKinds DEF curl_delivers, header_callback
  <2>2. hc_raw \in Seq(Lines) /\ l \in Lines
    BY <1>2 DEF HeadInv
  <2>3. Among(hc_raw', HeaderLine) = Append(Among(hc_raw, HeaderLine), l)
    <3> HIDE DEF Lines
    <3>1. Among(Append(hc_raw, l), HeaderLine) = Append(Among(hc_raw, HeaderLine), l)
      BY <1>2, <2>2, AmongAppend
    <3> QED
      BY <2>1, <3>1
  <2>4. hc_raw' \in Seq(Lines) /\ hc_received' \in Seq(HeaderLine)
    BY <1>2, <2>1, <2>2, AppendProperties DEF HeadInv
  <2> QED
    BY <1>1, <2>1, <2>3, <2>4 DEF HeadInv, HeadersAreKept
<1>3. CASE l \notin HeaderLine
  <2>1. hc_received' = hc_received /\ (hc_raw' = hc_raw \/ (l = StatusLine /\ hc_raw' = Append(hc_raw, l)))
    BY <1>3 DEF curl_delivers, header_callback
  <2>2. hc_raw \in Seq(Lines) /\ StatusLine \in Lines
    BY DEF HeadInv
  <2>3. Among(Append(hc_raw, StatusLine), HeaderLine) = Among(hc_raw, HeaderLine)
    <3> HIDE DEF Lines
    <3>1. Among(Append(hc_raw, StatusLine), HeaderLine) =
             IF StatusLine \in HeaderLine THEN Append(Among(hc_raw, HeaderLine), StatusLine)
             ELSE Among(hc_raw, HeaderLine)
      BY <2>2, AmongAppend, Zenon
    <3> QED
      BY <3>1, LineKinds, Zenon
  <2>4. Append(hc_raw, StatusLine) \in Seq(Lines)
    BY <2>2, AppendProperties
  <2> QED
    BY <1>1, <2>1, <2>2, <2>3, <2>4 DEF HeadInv, HeadersAreKept
<1> QED
  BY <1>2, <1>3

(* The values of a longer sequence of lines begin with those of the first. *)
LEMMA ValuesExtend ==
    ASSUME NEW s \in Seq(HeaderLine), NEW t \in Seq(HeaderLine)
    PROVE  BeginsWith([i \in DOMAIN (s \o t) |-> (s \o t)[i][3]], [i \in DOMAIN s |-> s[i][3]])
<1> DEFINE u == s \o t
           n == Len(s)
           vs == [i \in DOMAIN s |-> s[i][3]]
           vu == [i \in DOMAIN u |-> u[i][3]]
<1>1. /\ u \in Seq(HeaderLine) /\ Len(u) = n + Len(t) /\ n \in Nat /\ Len(t) \in Nat
      /\ \A i \in 1 .. n : u[i] = s[i]
  BY ConcatProperties, LenProperties
<1>2. DOMAIN s = 1 .. n /\ DOMAIN u = 1 .. (n + Len(t))
  BY <1>1, LenProperties
<1>3. \A i \in 1 .. n : s[i][3] \in HcValue
  <2>1. \A i \in 1 .. n : s[i] \in HeaderLine
    BY ElementOfSeq
  <2> QED
    BY <2>1 DEF HeaderLine
<1>4. \A i \in 1 .. (n + Len(t)) : u[i][3] \in HcValue
  <2>1. \A i \in 1 .. (n + Len(t)) : u[i] \in HeaderLine
    BY <1>1, ElementOfSeq
  <2> QED
    BY <2>1 DEF HeaderLine
<1> HIDE DEF u, n
<1>5. vs \in Seq(HcValue) /\ Len(vs) = n
  <2>1. vs \in [1 .. n -> HcValue]
    BY <1>2, <1>3
  <2> QED
    BY <1>1, <2>1, IsASeq, LenProperties
<1>6. vu \in Seq(HcValue) /\ Len(vu) = n + Len(t)
  <2>1. vu \in [1 .. (n + Len(t)) -> HcValue] /\ n + Len(t) \in Nat
    BY <1>1, <1>2, <1>4
  <2> QED
    BY <2>1, IsASeq, LenProperties
<1>7. \A i \in 1 .. n : vs[i] = vu[i]
  BY <1>1, <1>2
<1> HIDE DEF vs, vu
<1>8. SubSeq(vu, 1, n) = vs
  <2>1. \A i \in 1 .. n : vu[i] \in HcValue
    BY <1>1, <1>6, ElementOfSeq
  <2>2. /\ SubSeq(vu, 1, n) \in Seq(HcValue)
        /\ Len(SubSeq(vu, 1, n)) = IF 1 <= n THEN n - 1 + 1 ELSE 0
        /\ \A i \in 1 .. (n - 1 + 1) : SubSeq(vu, 1, n)[i] = vu[1 + i - 1]
    BY <1>1, <2>1, SubSeqProperties
  <2>3. Len(SubSeq(vu, 1, n)) = n
    BY <1>1, <2>2
  <2>4. \A i \in 1 .. n : SubSeq(vu, 1, n)[i] = vs[i]
    BY <1>1, <1>7, <2>2
  <2> QED
    BY <1>5, <2>2, <2>3, <2>4, SeqEqual
<1>9. BeginsWith(vu, vs)
  BY <1>1, <1>5, <1>6, <1>8 DEF BeginsWith
<1> QED
  BY <1>9 DEF vs, vu, u

(* The header lines, and those of one name, of lines with more behind them. *)
LEMMA HeadersOfBoth ==
    ASSUME NEW a \in Seq(HeaderLine \cup {StatusLine}), NEW b \in Seq(HeaderLine \cup {StatusLine})
    PROVE  Among(a \o b, HeaderLine) = Among(a, HeaderLine) \o Among(b, HeaderLine)
  BY AmongConcat

(* So are those of one name. *)
LEMMA NamedOfBoth ==
    ASSUME NEW a \in Seq(HeaderLine), NEW b \in Seq(HeaderLine), NEW w
    PROVE  Among(a \o b, Named(w)) = Among(a, Named(w)) \o Among(b, Named(w))
  BY AmongConcat

(* What may be left in the buffer is a line or nothing. *)
LEMMA LeftoverLines == Leftover \subseteq Seq(HeaderLine \cup {StatusLine})
<1> SUFFICES ASSUME NEW rest \in Leftover PROVE rest \in Seq(HeaderLine \cup {StatusLine})
  OBVIOUS
<1>1. rest = <<>> \/ \E l \in HeaderLine : rest = <<l>>
  BY DEF Leftover
<1>2. \A l \in HeaderLine : <<l>> \in Seq(HeaderLine \cup {StatusLine})
  OBVIOUS
<1> QED
  BY <1>1, <1>2, EmptySeq

(* The values under a name. *)
Values(lines, w) == LET of == Among(lines, Named(w)) IN [i \in DOMAIN of |-> of[i][3]]

(* The word w is among those of all lines kept, and its values begin with  *)
(* those of the lines received.                                            *)
FirstKept(kept, received, w) ==
    /\ \E j \in DOMAIN kept : kept[j][2][1] = w
    /\ BeginsWith(Values(kept, w), Values(received, w))

(* So it is with a word that came among the lines received, whatever lines *)
(* follow them.                                                            *)
LEMMA FirstValuesKept ==
    ASSUME NEW received \in Seq(HeaderLine), NEW more \in Seq(HeaderLine), NEW w,
           Among(received, Named(w)) # <<>>
    PROVE  FirstKept(received \o more, received, w)
<1> DEFINE kept == received \o more
           of == Among(received, Named(w))
           x == Among(more, Named(w))
           of2 == Among(kept, Named(w))
<1>1. of2 = of \o x
  BY NamedOfBoth
<1>2. of \in Seq(HeaderLine) /\ x \in Seq(HeaderLine)
  BY AmongType
<1>3. kept \in Seq(HeaderLine)
  BY ConcatProperties
<1>4. of # <<>>
  OBVIOUS
<1> HIDE DEF of, x, kept
<1>5. Len(of2) \in Nat \ {0}
  <2>1. Len(of) \in Nat \ {0}
    BY <1>2, <1>4, EmptySeq
  <2> HIDE DEF of2
  <2>2. Len(of2) = Len(of) + Len(x) /\ Len(x) \in Nat
    BY <1>1, <1>2, ConcatProperties, LenProperties
  <2> QED
    BY <2>1, <2>2
<1>6. \E j \in DOMAIN kept : kept[j][2][1] = w
  <2>1. kept \in Seq(Range(kept))
    BY <1>3, SeqOfRange
  <2>2. of2 \in Seq(Range(kept)) /\ of2 \in Seq(Named(w))
    BY <2>1, AmongType, AmongMember
  <2>3. of2[1] \in Range(kept) /\ of2[1] \in Named(w)
    BY <1>5, <2>2, ElementOfSeq
  <2>4. Range(kept) = {kept[i] : i \in 1 .. Len(kept)} /\ DOMAIN kept = 1 .. Len(kept)
    BY <1>3, RangeEquality, LenProperties
  <2>5. PICK j \in DOMAIN kept : kept[j] = of2[1]
    BY <2>3, <2>4
  <2>6. kept[j][2][1] = w
    BY <2>3, <2>5, LineKinds, Zenon
  <2> QED
    BY <2>6
<1>7. BeginsWith([i \in DOMAIN (of \o x) |-> (of \o x)[i][3]], [i \in DOMAIN of |-> of[i][3]])
  BY <1>2, ValuesExtend
<1>8. BeginsWith([i \in DOMAIN of2 |-> of2[i][3]], [i \in DOMAIN of |-> of[i][3]])
  BY <1>1, <1>7
<1> QED
  BY <1>6, <1>8 DEF of, kept, FirstKept, Values

(* The array that is returned. *)
LEMMA ParsedKeeps ==
    ASSUME NEW lines, NEW received \in Seq(HeaderLine), NEW more \in Seq(HeaderLine),
           Among(lines, HeaderLine) = received \o more, NEW w,
           Among(received, Named(w)) # <<>>
    PROVE  LET of == Among(received, Named(w))
               headers == parse_raw_headers_to_assoc_array(lines)
           IN  w \in DOMAIN headers /\ BeginsWith(headers[w], [i \in DOMAIN of |-> of[i][3]])
<1> DEFINE kept == received \o more
           words == {kept[i][2][1] : i \in DOMAIN kept}
           headers == parse_raw_headers_to_assoc_array(lines)
<1>1. FirstKept(kept, received, w)
  BY FirstValuesKept
<1>2. headers = [u \in words |-> LET o == Among(kept, Named(u)) IN [i \in DOMAIN o |-> o[i][3]]]
  BY DEF parse_raw_headers_to_assoc_array
<1> HIDE DEF headers, kept
<1>3. w \in words
  BY <1>1 DEF FirstKept
<1> HIDE DEF words
<1>4. w \in DOMAIN headers /\ headers[w] = Values(kept, w)
  BY <1>2, <1>3 DEF Values
<1> QED
  BY <1>1, <1>4 DEF headers, FirstKept, Values

(* The end of a transfer. *)
LEMMA ReturnKeeps ==
    ASSUME HeadInv, perform_returns
    PROVE  HeadInv'
<1>1. /\ hc_raw' = hc_raw /\ hc_received' = hc_received /\ hc_pc = "performing" /\ hc_pc' = "array"
      /\ hc_raw \in Seq(HeaderLine \cup {StatusLine}) /\ hc_received = Among(hc_raw, HeaderLine)
      /\ hc_received \in Seq(HeaderLine)
  BY DEF perform_returns, HeadInv
<1>2. PICK rest \in Leftover : hc_headers' = parse_raw_headers_to_assoc_array(hc_raw \o rest)
  <2>1. <<>> \in Leftover
    BY DEF Leftover
  <2> QED
    BY <2>1 DEF perform_returns
<1>3. Among(hc_raw \o rest, HeaderLine) = hc_received \o Among(rest, HeaderLine)
  <2>1. rest \in Seq(HeaderLine \cup {StatusLine})
    BY LeftoverLines
  <2>2. Among(hc_raw \o rest, HeaderLine) = Among(hc_raw, HeaderLine) \o Among(rest, HeaderLine)
    BY <1>1, <2>1, HeadersOfBoth
  <2> QED
    BY <1>1, <2>2
<1>4. Among(rest, HeaderLine) \in Seq(HeaderLine)
  BY LeftoverLines, AmongMember
<1>5. ASSUME NEW w \in HcWord,
             [i \in DOMAIN Among(hc_received, Named(w)) |-> Among(hc_received, Named(w))[i][3]] # <<>>
      PROVE  /\ w \in DOMAIN hc_headers'
             /\ BeginsWith(hc_headers'[w],
                           [i \in DOMAIN Among(hc_received, Named(w)) |-> Among(hc_received, Named(w))[i][3]])
  <2> DEFINE of == Among(hc_received, Named(w))
  <2>1. of # <<>>
    BY <1>5
  <2>2. LET headers == parse_raw_headers_to_assoc_array(hc_raw \o rest)
        IN  w \in DOMAIN headers /\ BeginsWith(headers[w], [i \in DOMAIN of |-> of[i][3]])
    BY <1>1, <1>3, <1>4, <2>1, ParsedKeeps
  <2> QED
    BY <1>2, <2>2
<1>6. HeadersAreKept'
  BY <1>1, <1>5 DEF HeadersAreKept
<1> QED
  BY <1>1, <1>6 DEF HeadInv

(* Every step of a script keeps the invariant. *)
LEMMA HeadStep == HeadInv /\ [Next]_vars => HeadInv'
<1> SUFFICES ASSUME HeadInv, [Next]_vars PROVE HeadInv'
  OBVIOUS
<1>1. CASE UNCHANGED hcvars
  BY <1>1 DEF hcvars, HeadInv, HeadersAreKept
<1>2. ASSUME NEW list, http_request_starts(list) PROVE HeadInv'
  <2>1. /\ hc_raw' = <<>> /\ hc_received' = <<>> /\ hc_pc' = "performing" /\ hc_wire' = "status"
    BY <1>2 DEF http_request_starts
  <2>2. HeadersAreKept'
    BY <2>1 DEF HeadersAreKept
  <2> QED
    BY <2>1, <2>2, AmongEmpty, EmptySeq DEF HeadInv
<1>3. CASE curl_easy_init_fails
  <2>1. /\ hc_raw' = <<>> /\ hc_received' = <<>> /\ hc_pc' = "false"
    BY <1>3 DEF curl_easy_init_fails
  <2>2. HeadersAreKept'
    BY <2>1 DEF HeadersAreKept
  <2> QED
    BY <2>1, <2>2, EmptySeq DEF HeadInv
<1>4. CASE write_callback
  BY <1>4 DEF write_callback, HeadInv, HeadersAreKept
<1>5. CASE perform_fails
  BY <1>5 DEF perform_fails, HeadInv, HeadersAreKept
<1> QED
  BY <1>1, <1>2, <1>3, <1>4, <1>5, DeliveryKeeps, ReturnKeeps DEF Next, vars, HcNext

(* Whatever libcurl delivers, in however many responses, and whatever the  *)
(* unterminated buffer reads as at its end, the array that is returned     *)
(* begins each header with all its values in order (header_callback,       *)
(* parse_raw_headers_to_assoc_array).                                      *)
THEOREM HeadersAreKeptCorrect == Spec => []HeadersAreKept
<1>1. ASSUME Init PROVE HeadInv
  <2>1. hc_raw = <<>> /\ hc_received = <<>> /\ hc_pc = "idle"
    BY <1>1 DEF Init, HcInit
  <2>2. HeadersAreKept
    BY <2>1 DEF HeadersAreKept
  <2> QED
    BY <2>1, <2>2, EmptySeq DEF HeadInv
<1>2. HeadInv => HeadersAreKept
  BY DEF HeadInv
<1> QED
  BY <1>1, <1>2, HeadStep, PTL DEF Spec

------------------------------------------------------------------------------
(***************************************************************************)
(* The registries of the schemas that messages are encoded with: for every *)
(* set of names and every table of definitions, accepted and refused in    *)
(* every order, references point backwards, and a definition, once made,   *)
(* stays as it is.                                                         *)
(***************************************************************************)
(* A definition's serial number is below the counter, and exactly the      *)
(* defined names have one.  Without this the new schema's number could not *)
(* be compared with the numbers of what it refers to.                      *)
Numbered ==
    /\ serial \in Nat
    /\ DOMAIN born = DOMAIN schemas \cup DOMAIN enums
    /\ \A name \in DOMAIN born : born[name] \in Nat /\ born[name] < serial

RInv == Numbered /\ ReferencesPrecede

(* A compiled field of message or enum type names an entry of the registry *)
(* (parse_php_field_options looks it up before it accepts the field).      *)
LEMMA CompiledReference ==
    ASSUME NEW name, NEW options, parse_php_field_options(name, options) # Refused
    PROVE  LET field == parse_php_field_options(name, options)
           IN  /\ field.type = "message" => field.ref \in DOMAIN schemas
               /\ field.type = "enum" => field.ref \in DOMAIN enums
<1> DEFINE type == ResolvedType(options.type)
           field == parse_php_field_options(name, options)
<1>1. field.type = type /\ (type \in {"message", "enum"} => field.ref = options.type)
  BY DEF parse_php_field_options
<1>2. parse_php_field_type_details(options.type) # "" =>
         parse_php_field_type_details(options.type) \in Primitives
  BY RegistryAssumption DEF parse_php_field_type_details
<1>3. "message" \notin Primitives /\ "enum" \notin Primitives
  BY DEF Primitives, Varints, Fixed32s, Fixed64s, Texts
<1>4. type = "message" => get_compiled_iibin_schema_internal(options.type)
  BY <1>2, <1>3 DEF ResolvedType
<1>5. type = "enum" => get_compiled_iibin_enum_internal(options.type)
  BY <1>2, <1>3 DEF ResolvedType
<1> QED
  BY <1>1, <1>4, <1>5 DEF get_compiled_iibin_schema_internal, get_compiled_iibin_enum_internal

(* Registering the name keeps the numbering. *)
LEMMA NumberedKept ==
    ASSUME Numbered, NEW name, name \notin DOMAIN born, Defined(name),
           DOMAIN schemas' \cup DOMAIN enums' = DOMAIN schemas \cup DOMAIN enums \cup {name}
    PROVE  /\ Numbered'
           /\ born'[name] = serial
           /\ \A old \in DOMAIN born : born'[old] = born[old]
<1>1. born' = Extend(born, name, serial) /\ serial' = serial + 1
  BY DEF Defined
<1>2. /\ DOMAIN born' = DOMAIN born \cup {name}
      /\ born'[name] = serial
      /\ \A old \in DOMAIN born : born'[old] = born[old]
  BY <1>1 DEF Extend
<1> QED
  BY <1>1, <1>2 DEF Numbered

(* quicpro_iibin_define_enum, accepting or refusing, keeps RInv. *)
LEMMA EnumKeeps ==
    ASSUME RInv, NEW name, NEW def, quicpro_iibin_define_enum(name, def)
    PROVE  RInv'
<1>1. CASE Free(name) /\ EnumValid(def)
  <2>1. PICK v : enums' = Extend(enums, name, v) /\ schemas' = schemas /\ Defined(name)
    BY <1>1 DEF quicpro_iibin_define_enum
  <2>2. name \notin DOMAIN schemas /\ name \notin DOMAIN enums
    BY <1>1 DEF Free, get_compiled_iibin_schema_internal, get_compiled_iibin_enum_internal
  <2>3. DOMAIN enums' = DOMAIN enums \cup {name}
    BY <2>1, <2>2 DEF Extend
  <2>4. Numbered' /\ \A old \in DOMAIN born : born'[old] = born[old]
    BY <2>1, <2>2, <2>3, NumberedKept DEF RInv, Numbered
  <2>5. ReferencesPrecede'
    BY <2>1, <2>2, <2>3, <2>4 DEF RInv, ReferencesPrecede, Numbered
  <2> QED
    BY <2>4, <2>5 DEF RInv
<1>2. CASE ~(Free(name) /\ EnumValid(def))
  BY <1>2 DEF quicpro_iibin_define_enum, RInv, Numbered, ReferencesPrecede, registry
<1> QED
  BY <1>1, <1>2

(* quicpro_iibin_define_schema, accepting or refusing, keeps RInv. *)
LEMMA SchemaKeeps ==
    ASSUME RInv, NEW name, NEW def, quicpro_iibin_define_schema(name, def)
    PROVE  RInv'
<1> DEFINE compiled == [i \in DOMAIN def |-> parse_php_field_options(def[i].name, def[i])]
           fields == {compiled[i] : i \in DOMAIN def}
           schema == [by_tag |-> fields, ordered |-> ByTag(fields)]
           valid == /\ \A i \in DOMAIN def : compiled[i] # Refused
                    /\ \A i, j \in DOMAIN def : i # j => compiled[i].tag # compiled[j].tag
<1>1. CASE Free(name) /\ valid
  <2>1. schemas' = Extend(schemas, name, schema) /\ enums' = enums /\ Defined(name)
    BY <1>1 DEF quicpro_iibin_define_schema
  <2>2. name \notin DOMAIN schemas /\ name \notin DOMAIN enums
    BY <1>1 DEF Free, get_compiled_iibin_schema_internal, get_compiled_iibin_enum_internal
  <2> HIDE DEF schema
  <2>3. /\ DOMAIN schemas' = DOMAIN schemas \cup {name}
        /\ schemas'[name] = schema
        /\ \A old \in DOMAIN schemas : schemas'[old] = schemas[old]
    BY <2>1, <2>2 DEF Extend
  <2>4. Numbered' /\ born'[name] = serial /\ \A old \in DOMAIN born : born'[old] = born[old]
    BY <2>1, <2>2, <2>3, NumberedKept DEF RInv, Numbered
  <2>5. ASSUME NEW field \in schema.by_tag
        PROVE  /\ field.type = "message" => field.ref \in DOMAIN schemas
               /\ field.type = "enum" => field.ref \in DOMAIN enums
    <3> USE DEF schema
    <3>1. PICK i \in DOMAIN def : field = parse_php_field_options(def[i].name, def[i])
      BY <2>5
    <3>2. parse_php_field_options(def[i].name, def[i]) # Refused
      BY <1>1
    <3> QED
      BY <3>1, <3>2, CompiledReference
  <2>6. ASSUME NEW field \in schemas'[name].by_tag
        PROVE  /\ field.type = "message" => field.ref \in DOMAIN schemas' /\ born'[field.ref] < born'[name]
               /\ field.type = "enum" => field.ref \in DOMAIN enums' /\ born'[field.ref] < born'[name]
    BY <2>1, <2>3, <2>4, <2>5, <2>6 DEF RInv, Numbered
  <2>7. ASSUME NEW old \in DOMAIN schemas, NEW field \in schemas'[old].by_tag
        PROVE  /\ field.type = "message" => field.ref \in DOMAIN schemas' /\ born'[field.ref] < born'[old]
               /\ field.type = "enum" => field.ref \in DOMAIN enums' /\ born'[field.ref] < born'[old]
    BY <2>1, <2>3, <2>4, <2>7 DEF RInv, Numbered, ReferencesPrecede
  <2>8. DOMAIN schemas' \cap DOMAIN enums' = {}
    BY <2>1, <2>2, <2>3 DEF RInv, ReferencesPrecede
  <2>9. ReferencesPrecede'
    BY <2>3, <2>6, <2>7, <2>8 DEF ReferencesPrecede
  <2> QED
    BY <2>4, <2>9 DEF RInv
<1>2. CASE ~(Free(name) /\ valid)
  <2>1. UNCHANGED registry
    BY <1>2 DEF quicpro_iibin_define_schema
  <2> QED
    BY <2>1 DEF RInv, Numbered, ReferencesPrecede, registry
<1> QED
  BY <1>1, <1>2

(* References in the registries point backwards, whatever is defined.      *)
THEOREM ReferencesPointBackwards == RegistrySpec => []ReferencesPrecede
<1>1. RegistryInit => RInv
  BY DEF RegistryInit, RInv, Numbered, ReferencesPrecede
<1>2. RInv /\ [RegistryNext]_registry => RInv'
  <2> SUFFICES ASSUME RInv, [RegistryNext]_registry PROVE RInv'
    OBVIOUS
  <2>1. CASE quicpro_iibin_registries_init
    BY <2>1 DEF quicpro_iibin_registries_init, RInv, Numbered, ReferencesPrecede
  <2>2. CASE quicpro_iibin_registries_shutdown
    BY <2>2 DEF quicpro_iibin_registries_shutdown, RInv, Numbered, ReferencesPrecede
  <2>3. ASSUME NEW name \in SchemaName, NEW def \in SchemaDef(name), quicpro_iibin_define_schema(name, def)
        PROVE  RInv'
    BY <2>3, SchemaKeeps
  <2>4. ASSUME NEW name \in SchemaName, NEW def \in EnumDef(name), quicpro_iibin_define_enum(name, def)
        PROVE  RInv'
    BY <2>4, EnumKeeps
  <2>5. CASE UNCHANGED registry
    BY <2>5 DEF registry, RInv, Numbered, ReferencesPrecede
  <2> QED
    BY <2>1, <2>2, <2>3, <2>4, <2>5 DEF RegistryNext
<1>3. RInv => ReferencesPrecede
  BY DEF RInv
<1> QED
  BY <1>1, <1>2, <1>3, PTL DEF RegistrySpec

(* An accepted definition is not changed or removed until shutdown.        *)
THEOREM DefinitionsStay == RegistrySpec => DefinitionsAreFinal
<1> DEFINE Kept == registries_initialized /\ registries_initialized' =>
          /\ \A name \in DOMAIN schemas : name \in DOMAIN schemas' /\ schemas'[name] = schemas[name]
          /\ \A name \in DOMAIN enums : name \in DOMAIN enums' /\ enums'[name] = enums[name]
<1>1. ASSUME [RegistryNext]_registry PROVE [Kept]_registry
  <2>1. CASE quicpro_iibin_registries_init
    BY <2>1 DEF quicpro_iibin_registries_init
  <2>2. CASE quicpro_iibin_registries_shutdown
    BY <2>2 DEF quicpro_iibin_registries_shutdown
  <2>3. ASSUME NEW name \in SchemaName, NEW def \in SchemaDef(name), quicpro_iibin_define_schema(name, def)
        PROVE  [Kept]_registry
    <3>1. CASE UNCHANGED registry
      BY <3>1
    <3>2. CASE ~UNCHANGED registry
      <4>1. PICK v : Free(name) /\ schemas' = Extend(schemas, name, v) /\ enums' = enums
        BY <2>3, <3>2 DEF quicpro_iibin_define_schema
      <4> QED
        BY <4>1 DEF Extend, Free, get_compiled_iibin_schema_internal
    <3> QED
      BY <3>1, <3>2
  <2>4. ASSUME NEW name \in SchemaName, NEW def \in EnumDef(name), quicpro_iibin_define_enum(name, def)
        PROVE  [Kept]_registry
    <3>1. CASE UNCHANGED registry
      BY <3>1
    <3>2. CASE ~UNCHANGED registry
      <4>1. PICK v : Free(name) /\ enums' = Extend(enums, name, v) /\ schemas' = schemas
        BY <2>4, <3>2 DEF quicpro_iibin_define_enum
      <4> QED
        BY <4>1 DEF Extend, Free, get_compiled_iibin_enum_internal
    <3> QED
      BY <3>1, <3>2
  <2> HIDE DEF Kept
  <2> QED
    BY <1>1, <2>1, <2>2, <2>3, <2>4 DEF RegistryNext
<1> QED
  BY <1>1, PTL DEF RegistrySpec, DefinitionsAreFinal

==============================================================================
