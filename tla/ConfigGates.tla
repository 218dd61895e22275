----------------------------- MODULE ConfigGates -----------------------------
(***************************************************************************)
(* The values a setting can be given and the tests that admit them: the    *)
(* validators of src/extension/src/validation/config_param/ and the        *)
(* conversions Zend applies to a php.ini directive.                        *)
(*                                                                         *)
(* A value is a tagged tuple: <<"long", n>>, <<"bool", b>>,                *)
(* <<"double", thousandths>>, NaN, the double that is no number, or         *)
(* <<"str", tokens>>.  A string is the                                     *)
(* sequence of tokens its consumer splits it into; a plain word is one     *)
(* token and the empty string none.  Letter case is abstracted.            *)
(***************************************************************************)
EXTENDS Integers, Sequences

L(n) == <<"long", n>>
B(b) == <<"bool", b>>
D(n) == <<"double", n>>
NaN == <<"double">>
S(w) == <<"str", <<w>>>>
T(tokens) == <<"str", tokens>>
Empty == <<"str", <<>>>>

Type(v) == v[1]
Tokens(v) == v[2]

------------------------------------------------------------------------------
(* Validators that store a number or a flag. *)

qp_validate_bool(v) == Type(v) = "bool"

qp_validate_positive_long(v) == Type(v) = "long" /\ v[2] > 0

qp_validate_non_negative_long(v) == Type(v) = "long" /\ v[2] >= 0

qp_validate_long_range(v, min, max) == Type(v) = "long" /\ v[2] \in min..max

qp_validate_niceness_value(v) == Type(v) = "long" /\ v[2] \in -20..19

(* The test refuses val < min and val > max; NaN is neither. *)
qp_validate_double_range(v, min, max) ==
    Type(v) = "double" /\ (v = NaN \/ v[2] \in min..max)

------------------------------------------------------------------------------
(* Validators that store a string. *)

qp_validate_generic_string(v) == Type(v) = "str"

qp_validate_string(v) == Type(v) = "str"

qp_validate_string_from_allowlist(v, allowed) ==
    Type(v) = "str" /\ v \in {S(w) : w \in allowed \ {""}} \cup {Empty : w \in allowed \cap {""}}

qp_validate_scheduler_policy(v) == v \in {S("other"), S("fifo"), S("rr")}

(* Comma-separated words; an empty entry is skipped. *)
qp_validate_comma_separated_string_from_allowlist(v, allowed) ==
    Type(v) = "str" /\ \A i \in DOMAIN Tokens(v) : Tokens(v)[i] \in allowed \cup {""}

(* The token "num" is text strtod reads to its end. *)
qp_validate_comma_separated_numeric_string(v) ==
    Type(v) = "str" /\ \A i \in DOMAIN Tokens(v) : Tokens(v)[i] \in {"num", ""}

(* "*" alone, or origins with scheme http or https and a host. *)
qp_validate_cors_origin_string(v) ==
    Type(v) = "str" /\ \/ v = S("*")
                       \/ \A i \in DOMAIN Tokens(v) : Tokens(v)[i] \in {"origin", ""}

(* Each entry is worker:core or worker:core-core, all three numeric. *)
qp_validate_cpu_affinity_map_string(v) ==
    Type(v) = "str" /\ \A i \in DOMAIN Tokens(v) : Tokens(v)[i] \in {"num:num", "num:num-num"}

(* sscanf("%d%c%d%c"): only the first four conversions are looked at. *)
qp_validate_erasure_coding_shards_string(v) ==
    Type(v) = "str" /\ Len(Tokens(v)) >= 4 /\ SubSeq(Tokens(v), 1, 4) = <<"num", "d", "num", "p">>

(* action:number; what follows a second colon is not looked at. *)
qp_validate_scale_up_policy_string(v) ==
    /\ Type(v) = "str" /\ Len(Tokens(v)) >= 2
    /\ Tokens(v)[1] \in {"add_nodes", "add_percent"} /\ Tokens(v)[2] = "num"

(* Tokens are the characters, by class. *)
qp_validate_host_string(v) ==
    /\ Type(v) = "str" /\ v # Empty
    /\ \A i \in DOMAIN Tokens(v) : Tokens(v)[i] \in {"alnum", ".", "-", ":"}

(* Empty means "not set"; "file" is a path VCWD_ACCESS can read. *)
qp_validate_readable_file_path(v) == v \in {Empty, S("file")}

(* Called by native_cdn and smart_contracts, defined nowhere in the tree. *)
qp_validate_writable_file_path(v) == v = S("file")
qp_validate_non_empty_string(v) == Type(v) = "str" /\ v # Empty

------------------------------------------------------------------------------
(* A gate names the test a setting's value passes through, with its        *)
(* parameters.                                                             *)

Accepts(g, v) ==
    CASE g[1] = "bool" -> qp_validate_bool(v)
      [] g[1] = "positive" -> qp_validate_positive_long(v)
      [] g[1] = "non_negative" -> qp_validate_non_negative_long(v)
      [] g[1] = "range" -> qp_validate_long_range(v, g[2], g[3])
      [] g[1] = "niceness" -> qp_validate_niceness_value(v)
      [] g[1] = "long" -> Type(v) = "long"
      [] g[1] = "double_range" -> qp_validate_double_range(v, g[2], g[3])
      [] g[1] = "double" -> Type(v) = "double"
      [] g[1] = "string" -> qp_validate_generic_string(v)
      [] g[1] = "plain_string" -> qp_validate_string(v)
      [] g[1] = "one_of" -> qp_validate_string_from_allowlist(v, g[2])
      [] g[1] = "scheduler" -> qp_validate_scheduler_policy(v)
      [] g[1] = "list_of" -> qp_validate_comma_separated_string_from_allowlist(v, g[2])
      [] g[1] = "numbers" -> qp_validate_comma_separated_numeric_string(v)
      [] g[1] = "cors" -> qp_validate_cors_origin_string(v)
      [] g[1] = "affinity" -> qp_validate_cpu_affinity_map_string(v)
      [] g[1] = "shards" -> qp_validate_erasure_coding_shards_string(v)
      [] g[1] = "scale_up" -> qp_validate_scale_up_policy_string(v)
      [] g[1] = "host" -> qp_validate_host_string(v)
      [] g[1] = "readable" -> qp_validate_readable_file_path(v)
      [] g[1] = "writable" -> qp_validate_writable_file_path(v)
      [] g[1] = "non_empty" -> qp_validate_non_empty_string(v)
      [] g[1] = "refuse" -> FALSE

(***************************************************************************)
(* What an OnUpdate handler reads from the text of a directive: zend_atol  *)
(* and zend_strtod give 0 for text that is not a number, and               *)
(* zend_ini_parse_bool FALSE for text that is no affirmative word.         *)
(***************************************************************************)
FromIni(g, v) ==
    CASE g[1] = "bool" -> IF Type(v) = "bool" THEN v ELSE B(Type(v) = "long" /\ v[2] # 0)
      [] g[1] \in {"positive", "non_negative", "range", "niceness", "long"} ->
             IF Type(v) = "long" THEN v ELSE L(IF v = B(TRUE) THEN 1 ELSE 0)
      [] g[1] \in {"double", "double_range"} ->
             IF Type(v) = "double" /\ v # NaN THEN v
             ELSE IF Type(v) = "long" THEN D(1000 * v[2]) ELSE D(0)
      [] OTHER -> IF Type(v) = "str" THEN v ELSE S("num")

------------------------------------------------------------------------------
(* Values worth offering to a gate: on and next to its boundary, of another *)
(* type, well and ill formed.                                              *)
Offers(g) ==
    CASE g[1] = "bool" -> {B(TRUE), B(FALSE), L(1)}
      [] g[1] \in {"positive", "non_negative"} -> {L(-1), L(0), L(1)}
      [] g[1] = "range" -> {L(g[2] - 1), L(g[2]), L(g[3]), L(g[3] + 1)}
      [] g[1] = "niceness" -> {L(-21), L(-20), L(19), L(20)}
      [] g[1] = "long" -> {L(-1), L(0)}
      [] g[1] = "double_range" -> {D(g[2] - 1), D(g[3]), D(g[3] + 1), NaN}
      [] g[1] = "double" -> {D(-1), D(1001), NaN}
      [] g[1] \in {"string", "plain_string", "non_empty"} -> {Empty, L(1)}
      [] g[1] = "one_of" -> {S(w) : w \in g[2] \ {""}} \cup {S("?")}
      [] g[1] = "scheduler" -> {S("fifo"), S("?")}
      [] g[1] = "list_of" -> {T(<<w, "">>) : w \in g[2]} \cup {T(<<"", "?">>)}
      [] g[1] = "numbers" -> {T(<<"num", "">>), S("?")}
      [] g[1] = "cors" -> {S("*"), T(<<"origin", "">>), T(<<"*", "origin">>)}
      [] g[1] \in {"affinity", "refuse"} -> {T(<<"num:num", "num:num-num">>), S("num")}
      [] g[1] = "shards" -> {T(<<"num", "d", "num", "p", "?">>), T(<<"num", "d", "num">>)}
      [] g[1] = "scale_up" -> {T(<<"add_percent", "num", "?">>), S("add_nodes")}
      [] g[1] = "host" -> {T(<<"alnum", ".", "alnum">>), Empty, T(<<"alnum", "?">>)}
      [] g[1] \in {"readable", "writable"} -> {S("file"), S("?")}

==============================================================================
