----------------------------- MODULE ToolRegistry -----------------------------
(***************************************************************************)
(* The registry of tool handlers (pipeline_orchestrator/                   *)
(* tool_handler_registry.c).  A handler is parsed field by field from a    *)
(* PHP array; each field it takes over is an allocation of its own.        *)
(* tr_heap holds the allocations that exist, whoever owns them.            *)
(***************************************************************************)
EXTENDS Integers, Sequences, FiniteSets, Functions

CONSTANTS
    TrTool     \* names of tools

VARIABLES
    tr_initialized,   \* quicpro_tool_registry_initialized
    tr_registry,      \* the registered handlers: a partial function to the fields they own
    tr_heap           \* allocations <<tool, field>>

trvars == <<tr_initialized, tr_registry, tr_heap>>

(* The fields of a target, of the RAG section and of a handler, in the     *)
(* order in which they are read.                                           *)
TargetFields == <<"host", "port", "service_name", "method_name">>
RagFields == <<"enabled_param_key", "request_proto_schema", "response_proto_schema",
               "context_output_field_in_rag_response", "target_context_field_in_llm_request">>
SchemaFields == <<"input_proto_schema", "output_proto_schema">>

Of(part, fields) == [i \in DOMAIN fields |-> <<part, fields[i]>>]

(* Required fields in order; a missing array counts as a field that owns   *)
(* nothing, and so does the port.                                          *)
HandlerRequired == <<<<"target", "mcp_target">>>> \o Of("target", TargetFields) \o Of("handler", SchemaFields)
RagRequired == <<<<"rag", "mcp_target">>>> \o Of("ragtarget", TargetFields) \o Of("rag", RagFields)
Owns(f) == f[2] \notin {"mcp_target", "port"}

TargetOptions == {<<"target", "mcp_options">>}
HandlerOptions == {<<"handler", "param_map">>, <<"handler", "output_map">>}
RagOptions == {<<"ragtarget", "mcp_options">>, <<"rag", "topics_from_param_key">>,
               <<"rag", "topics_from_previous_step">>, <<"rag", "rag_param_map">>}

(* What a PHP array leaves out of the required fields, which optional      *)
(* fields it has, and whether it has a RAG section.                        *)
Configs ==
    [missing : {{}} \cup {{f} : f \in Range(HandlerRequired \o RagRequired)},
     options : {{}, TargetOptions \cup HandlerOptions \cup RagOptions},
     rag : BOOLEAN]

------------------------------------------------------------------------------
(* The fields taken over before the first required one that is missing. *)
Taken(required, missing) ==
    {required[i] : i \in {i \in DOMAIN required : \A j \in 1..i : required[j] \notin missing}}

Complete(required, missing) == Range(required) \cap missing = {}

parse_mcp_target_config_from_php(part, required, c) ==
    IF Complete(required, c.missing) THEN c.options \cap {<<part, "mcp_options">>} ELSE {}

parse_rag_config_from_php(c) ==
    Taken(RagRequired, c.missing)
      \cup parse_mcp_target_config_from_php("ragtarget", SubSeq(RagRequired, 1, 5), c)
      \cup (IF Complete(RagRequired, c.missing) THEN c.options \cap RagOptions ELSE {})

(* create_tool_handler_from_php until it returns or jumps to its cleanup: *)
(* what is allocated by then.  The RAG section comes last.                 *)
Allocated(c) ==
    {f \in {<<"handler", "struct">>, <<"handler", "tool_name">>}
             \cup Taken(HandlerRequired, c.missing)
             \cup parse_mcp_target_config_from_php("target", SubSeq(HandlerRequired, 1, 5), c)
             \cup (IF Complete(HandlerRequired, c.missing)
                   THEN (c.options \cap HandlerOptions)
                          \cup (IF c.rag THEN {<<"rag", "struct">>} \cup parse_rag_config_from_php(c) ELSE {})
                   ELSE {}) : Owns(f)}

Accepted(c) ==
    Complete(HandlerRequired, c.missing) /\ (c.rag => Complete(RagRequired, c.missing))

destroy_mcp_target_config_contents(part) ==
    Range(Of(part, TargetFields)) \cup {<<part, "mcp_options">>}

destroy_rag_config_contents ==
    destroy_mcp_target_config_contents("ragtarget")
      \cup Range(Of("rag", RagFields)) \cup (RagOptions \ {<<"ragtarget", "mcp_options">>})

tool_handler_config_dtor_internal ==
    {<<"handler", "struct">>, <<"handler", "tool_name">>}
      \cup destroy_mcp_target_config_contents("target")
      \cup Range(Of("handler", SchemaFields)) \cup HandlerOptions
      \cup destroy_rag_config_contents \cup {<<"rag", "struct">>}

(* Mutant: the cleanup has not kept up with the destructor. *)
create_tool_handler_error_Mutant ==
    {<<"handler", "struct">>, <<"handler", "tool_name">>}
      \cup destroy_mcp_target_config_contents("target")
      \cup Range(Of("handler", SchemaFields)) \cup {<<"handler", "param_map">>}
      \cup destroy_rag_config_contents \cup {<<"rag", "struct">>}

(* The second, hand-written list: the error label of                       *)
(* create_tool_handler_from_php, for a handler that is partly built.       *)
create_tool_handler_error ==
    {<<"handler", "tool_name">>}
      \cup destroy_mcp_target_config_contents("target")
      \cup Range(Of("handler", SchemaFields))
      \cup {<<"handler", "param_map">>, <<"handler", "output_map">>}
      \cup destroy_rag_config_contents
      \cup {<<"rag", "struct">>, <<"handler", "struct">>}

------------------------------------------------------------------------------
quicpro_tool_handler_get(t) == tr_initialized /\ t \in DOMAIN tr_registry

TrInit ==
    /\ tr_initialized = FALSE
    /\ tr_registry = <<>>
    /\ tr_heap = {}

quicpro_tool_handler_registry_init ==
    /\ tr_initialized' = TRUE
    /\ tr_registry' = IF tr_initialized THEN tr_registry ELSE <<>>
    /\ UNCHANGED tr_heap

quicpro_tool_handler_registry_shutdown ==
    /\ tr_initialized
    /\ tr_initialized' = FALSE
    /\ tr_registry' = <<>>
    /\ tr_heap' = {a \in tr_heap : ~(a[1] \in DOMAIN tr_registry /\ a[2] \in tool_handler_config_dtor_internal)}

(* Without a registry, or for a tool that has a handler, an exception and  *)
(* nothing else.  A configuration that is refused is cleaned up.           *)
register_from_php(t, c) ==
    /\ tr_initialized /\ t \notin DOMAIN tr_registry
    /\ \/ /\ Accepted(c)
          /\ tr_registry' = [u \in DOMAIN tr_registry \cup {t} |-> IF u = t THEN Allocated(c) ELSE tr_registry[u]]
          /\ tr_heap' = tr_heap \cup ({t} \X Allocated(c))
       \/ /\ ~Accepted(c)
          /\ tr_heap' = tr_heap \cup ({t} \X (Allocated(c) \ create_tool_handler_error))
          /\ UNCHANGED tr_registry
    /\ UNCHANGED tr_initialized

TrNext ==
    \/ quicpro_tool_handler_registry_init
    \/ quicpro_tool_handler_registry_shutdown
    \/ \E t \in TrTool, c \in Configs : register_from_php(t, c)

------------------------------------------------------------------------------
(* What is allocated is exactly what the registered handlers own: a        *)
(* registration refused at any field gives back every field it took over,  *)
(* and a shutdown leaves nothing behind (create_tool_handler_from_php's    *)
(* error label, tool_handler_config_dtor_internal).                        *)
RegistryOwnsItsMemory ==
    tr_heap = UNION {{t} \X tr_registry[t] : t \in DOMAIN tr_registry}

(* A handler stays as it was registered until the registry is shut down:   *)
(* the pipeline keeps const pointers to it (quicpro_tool_handler_get).     *)
HandlersStay ==
    [][tr_initialized' => \A t \in DOMAIN tr_registry :
          t \in DOMAIN tr_registry' /\ tr_registry'[t] = tr_registry[t]]_trvars

==============================================================================
