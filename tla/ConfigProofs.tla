----------------------------- MODULE ConfigProofs -----------------------------
(***************************************************************************)
(* What holds of the configuration whatever the families, their defaults   *)
(* and their gates are, and then what the extension's own tables add.      *)
(***************************************************************************)
EXTENDS MCConfig, TLAPS

CfgRecord == [state : {"none", "live", "frozen", "freed"}, options : BOOLEAN]

(* Domains: every family has its struct, every struct its settings. *)
Shape ==
    /\ DOMAIN mem = Family /\ \A fam \in Family : DOMAIN mem[fam] = Setting(fam)
    /\ call = [fam |-> call.fam, status |-> call.status]
    /\ call.fam \in Family /\ override \in BOOLEAN
    /\ cfgs \in [Handle -> CfgRecord]

(* What has been initialised so far, and what only happens afterwards. *)
Started ==
    /\ step \in Nat
    /\ phase = "starting" => /\ step <= Len(InitOrder) /\ call.status = "idle"
                             /\ \A i \in 1..step : InitOrder[i] \in registered
                             /\ \A h \in Handle : ~cfgs[h].options
    /\ phase = "running" => Security \in registered
    /\ call.status = "running" => override

IInv == Shape /\ Started /\ SettingsAdmissible /\ PolicyIsTheDirective

(* The start state: structs zero, nothing registered. *)
LEMMA InitIInv == Init => IInv
<1> SUFFICES ASSUME Init PROVE IInv
  OBVIOUS
<1> USE DEF Init
<1>1. Shape
  <2>1. DOMAIN mem = Family /\ \A fam \in Family : DOMAIN mem[fam] = Setting(fam)
    OBVIOUS
  <2>2. call = [fam |-> call.fam, status |-> call.status]
    BY DEF NoCall
  <2>3. call.fam \in Family
    BY ConfigAssumption DEF NoCall
  <2>4. cfgs \in [Handle -> CfgRecord]
    <3>1. NoCfg \in CfgRecord
      BY DEF NoCfg, CfgRecord
    <3> QED
      BY <3>1
  <2> QED
    BY <2>1, <2>2, <2>3, <2>4 DEF Shape
<1>2. Started
  BY ConfigAssumption DEF Started, NoCall, NoCfg
<1>3. SettingsAdmissible
  BY DEF SettingsAdmissible, Admissible
<1>4. PolicyIsTheDirective
  BY DEF PolicyIsTheDirective, NoCfg
<1> QED
  BY <1>1, <1>2, <1>3, <1>4 DEF IInv

(* A value that reaches a struct from php.ini passed the handler or is the *)
(* default: what IniValue returns is admissible.                           *)
LEMMA IniValueAdmissible ==
    ASSUME NEW fam \in Family, NEW f \in Setting(fam)
    PROVE  IniValue(fam, f) = Default[fam][f] \/ Accepts(IniGate[fam][f], IniValue(fam, f))
BY DEF IniValue

(* One family's defaults, directives and, for the security family, policy. *)
LEMMA InitModulesKeeps == IInv /\ quicpro_init_modules => IInv'
<1> SUFFICES ASSUME IInv, quicpro_init_modules PROVE IInv'
  OBVIOUS
<1> DEFINE new == InitOrder[step + 1]
<1>1. new \in Family /\ step \in Nat /\ step + 1 \in 1..Len(InitOrder)
  BY ConfigAssumption DEF quicpro_init_modules, IInv, Started
<1>2. /\ mem' = [mem EXCEPT ![new] = [f \in Setting(new) |-> IniValue(new, f)]]
      /\ registered' = registered \cup {new}
      /\ step' = step + 1 /\ phase = "starting" /\ call.status = "idle"
      /\ UNCHANGED <<call, cfgs>>
      /\ phase' = IF step' = Len(InitOrder) THEN "running" ELSE "starting"
      /\ override' = IF new = Security THEN IniValue(new, Policy) = B(TRUE) ELSE override
  BY DEF quicpro_init_modules, qp_config_init, qp_config_security_policy_apply, IInv, Started
<1>3. Shape'
  <2>1. override' \in BOOLEAN
    BY <1>2 DEF IInv, Shape
  <2>2. (DOMAIN mem = Family /\ \A fam \in Family : DOMAIN mem[fam] = Setting(fam))'
    BY <1>1, <1>2 DEF IInv, Shape, Family, Setting
  <2> QED
    BY <1>2, <2>1, <2>2 DEF IInv, Shape, Family
<1>4. \A i \in 1..step' : InitOrder[i] \in registered'
  BY <1>1, <1>2 DEF IInv, Started
<1>5. Security \in registered'
  <2>1. 1 \in 1..step' /\ InitOrder[1] = Security
    BY <1>1, <1>2, ConfigAssumption
  <2> QED
    BY <1>4, <2>1
<1>6. Started'
  <2>1. step' \in Nat /\ step' <= Len(InitOrder) /\ call'.status = "idle"
    BY <1>1, <1>2, ConfigAssumption
  <2>2. \A h \in Handle : ~cfgs'[h].options
    BY <1>2 DEF IInv, Started
  <2> QED
    BY <1>4, <1>5, <2>1, <2>2 DEF Started
<1>7. SettingsAdmissible'
  <2> SUFFICES ASSUME NEW fam \in Family, NEW f \in Setting(fam)
               PROVE  Admissible(fam, f, mem[fam][f])'
    BY DEF SettingsAdmissible, Family, Setting
  <2>1. CASE fam = new
    <3>1. mem'[fam][f] = IniValue(fam, f)
      BY <1>1, <1>2, <2>1 DEF IInv, Shape
    <3> QED
      BY <3>1, IniValueAdmissible DEF Admissible
  <2>2. CASE fam # new
    <3>1. mem'[fam][f] = mem[fam][f]
      BY <1>1, <1>2, <2>2 DEF IInv, Shape
    <3>2. Admissible(fam, f, mem[fam][f])
      BY DEF IInv, SettingsAdmissible
    <3>3. fam \in Elements(InitOrder) /\ phase' # "starting" => fam \in registered
      BY <1>1, <1>2, <1>4, <2>2, ConfigAssumption DEF Elements
    <3> QED
      BY <1>2, <2>2, <3>1, <3>2, <3>3 DEF Admissible
  <2> QED
    BY <2>1, <2>2
<1>8. PolicyIsTheDirective'
  <2>1. override' <=> mem'[Security][Policy] = B(TRUE)
    <3>1. CASE new = Security
      BY <1>1, <1>2, <3>1, ConfigAssumption DEF IInv, Shape
    <3>2. CASE new # Security
      <4>1. Security \in registered
        BY <1>2, <1>5, <3>2
      <4> QED
        BY <1>2, <3>2, <4>1, ConfigAssumption DEF IInv, Shape, PolicyIsTheDirective
    <3> QED
      BY <3>1, <3>2
  <2>2. \A h \in Handle : ~cfgs'[h].options
    BY <1>2 DEF IInv, Started
  <2> QED
    BY <2>1, <2>2 DEF PolicyIsTheDirective
<1> QED
  BY <1>3, <1>6, <1>7, <1>8 DEF IInv

(* The walk over a PHP array accepts a value or ends. *)
LEMMA ApplyKeyKeeps ==
    ASSUME NEW key, NEW value, IInv, apply_key(key, value) PROVE IInv'
<1> DEFINE fam == call.fam
<1>1. fam \in Family /\ key \in DOMAIN UserGate[fam] /\ key \in Setting(fam)
  BY ConfigAssumption DEF apply_key, IInv, Shape
<1>2. UNCHANGED <<phase, step, registered, override, cfgs>> /\ call.status = "running"
  BY DEF apply_key
<1>3. CASE ~Accepts(UserGate[fam][key], value)
  <2>1. mem' = mem /\ call' = [call EXCEPT !.status = "failed"]
    BY <1>3 DEF apply_key
  <2>2. call'.fam = call.fam /\ call'.status = "failed"
        /\ call' = [fam |-> call'.fam, status |-> call'.status]
    BY <2>1 DEF IInv, Shape
  <2>3. Shape' /\ Started'
    BY <1>2, <2>1, <2>2 DEF IInv, Shape, Started, Family, Setting
  <2>4. SettingsAdmissible' /\ PolicyIsTheDirective'
    BY <1>2, <2>1 DEF IInv, SettingsAdmissible, Admissible, PolicyIsTheDirective
  <2> QED
    BY <2>3, <2>4 DEF IInv
<1>4. CASE Accepts(UserGate[fam][key], value)
  <2>1. mem' = [mem EXCEPT ![fam][key] = value] /\ call' = call
    BY <1>4 DEF apply_key, store
  <2>3. DOMAIN mem' = Family /\ \A x \in Family : DOMAIN mem'[x] = Setting(x)
    BY <1>1, <2>1 DEF IInv, Shape
  <2>4. Shape' /\ Started'
    BY <1>2, <2>1, <2>3 DEF IInv, Shape, Started, Family, Setting
  <2>5. /\ mem'[fam][key] = value
        /\ \A x \in Family : \A f \in Setting(x) : <<x, f>> # <<fam, key>> => mem'[x][f] = mem[x][f]
    BY <1>1, <2>1 DEF IInv, Shape
  <2>6. SettingsAdmissible'
    <3> SUFFICES ASSUME NEW x \in Family, NEW f \in Setting(x)
                 PROVE  Admissible(x, f, mem[x][f])'
      BY DEF SettingsAdmissible, Family, Setting
    <3>1. CASE x = fam /\ f = key
      BY <1>1, <1>4, <2>5, <3>1 DEF Admissible
    <3>2. CASE ~(x = fam /\ f = key)
      BY <1>2, <2>5, <3>2 DEF IInv, SettingsAdmissible, Admissible
    <3> QED
      BY <3>1, <3>2
  <2>8. <<fam, key>> # <<Security, Policy>>
    BY <1>1, ConfigAssumption
  <2>9. mem'[Security][Policy] = mem[Security][Policy]
    BY <2>5, <2>8, ConfigAssumption
  <2>10. PolicyIsTheDirective'
    BY <1>2, <2>9 DEF IInv, PolicyIsTheDirective
  <2> QED
    BY <2>4, <2>6, <2>10 DEF IInv
<1> QED
  BY <1>3, <1>4

(* Steps that write no setting: what they may do to the objects, the call  *)
(* and the phase.                                                          *)
QuietCfgs ==
    /\ cfgs' \in [Handle -> CfgRecord]
    /\ \A h \in Handle : cfgs'[h].options => cfgs[h].options \/ (phase = "running" /\ override)

QuietCall ==
    /\ call'.fam \in Family
    /\ call' = [fam |-> call'.fam, status |-> call'.status]
    /\ call'.status = "running" => override

QuietPhase ==
    /\ phase' = "starting" => phase = "starting" /\ UNCHANGED <<step, registered, call, cfgs>>
    /\ phase' = "running" => phase = "running" /\ registered' = registered
    /\ phase' # "starting" => phase # "starting"
    /\ step' \in Nat /\ registered' \subseteq registered

Quiet == UNCHANGED <<mem, override>> /\ QuietCfgs /\ QuietCall /\ QuietPhase

(* Steps that write no setting keep the invariant. *)
LEMMA QuietKeeps == IInv /\ Quiet => IInv'
<1> SUFFICES ASSUME IInv, Quiet PROVE IInv'
  OBVIOUS
<1> USE DEF Quiet, QuietCfgs, QuietCall, QuietPhase
<1>1. Shape'
  BY DEF IInv, Shape, Family, Setting
<1>2. Started'
  BY DEF IInv, Started
<1>3. SettingsAdmissible'
  BY DEF IInv, SettingsAdmissible, Admissible
<1>4. PolicyIsTheDirective'
  BY DEF IInv, PolicyIsTheDirective
<1> QED
  BY <1>1, <1>2, <1>3, <1>4 DEF IInv

(* Every step of the specification preserves the invariant. *)
LEMMA NextKeeps == IInv /\ [Next]_vars => IInv'
<1> SUFFICES ASSUME IInv, [Next]_vars PROVE IInv'
  OBVIOUS
<1>0. /\ cfgs \in [Handle -> CfgRecord] /\ step \in Nat /\ call.fam \in Family
      /\ call = [fam |-> call.fam, status |-> call.status]
      /\ call.status = "running" => override
  BY DEF IInv, Shape, Started
<1>1. CASE quicpro_init_modules
  BY <1>1, InitModulesKeeps
<1>2. ASSUME NEW fam \in Family, NEW isArray \in BOOLEAN, apply_userland_config(fam, isArray)
      PROVE  IInv'
  <2>1. call' = [fam |-> fam, status |-> IF override /\ isArray THEN "running" ELSE "failed"]
    BY <1>2 DEF apply_userland_config
  <2>2. /\ call'.fam = fam /\ (call'.status = "running" => override)
        /\ call' = [fam |-> call'.fam, status |-> call'.status]
    BY <2>1
  <2>3. UNCHANGED <<mem, override, cfgs, step, registered, phase>> /\ phase = "running"
    BY <1>2 DEF apply_userland_config
  <2> QED
    BY <1>0, <2>2, <2>3, QuietKeeps DEF Quiet, QuietCfgs, QuietCall, QuietPhase
<1>3. ASSUME NEW key \in DOMAIN UserGate[call.fam], NEW value \in Offers(UserGate[call.fam][key]),
             apply_key(key, value)
      PROVE  IInv'
  BY <1>3, ApplyKeyKeeps
<1>4. CASE apply_return
  <2>1. /\ call'.fam = call.fam /\ call'.status = "ok" /\ call.status # "idle"
        /\ call' = [fam |-> call'.fam, status |-> call'.status]
    BY <1>0, <1>4 DEF apply_return
  <2>2. UNCHANGED <<mem, override, cfgs, step, registered, phase>> /\ phase # "starting"
    BY <1>4 DEF apply_return, IInv, Started
  <2> QED
    BY <1>0, <2>1, <2>2, QuietKeeps DEF Quiet, QuietCfgs, QuietCall, QuietPhase
<1>5. ASSUME NEW h \in Handle, NEW options \in BOOLEAN, quicpro_config_new_from_options(h, options)
      PROVE  IInv'
  <2>1. UNCHANGED <<mem, override, call, step, registered, phase>> /\ phase = "running"
    BY <1>5 DEF quicpro_config_new_from_options
  <2>2. mem[Security][Policy] = B(TRUE) => override
    BY <2>1 DEF IInv, Started, PolicyIsTheDirective
  <2>3. /\ cfgs' \in [Handle -> CfgRecord]
        /\ cfgs'[h].options => override
        /\ \A x \in Handle : x # h => cfgs'[x] = cfgs[x]
    BY <1>0, <1>5, <2>2 DEF quicpro_config_new_from_options, security_parse_options, CfgRecord
  <2> QED
    BY <1>0, <2>1, <2>3, QuietKeeps DEF Quiet, QuietCfgs, QuietCall, QuietPhase
<1>6. ASSUME NEW h \in Handle, quicpro_config_mark_frozen(h) \/ quicpro_config_free(h)
      PROVE  IInv'
  <2>1. UNCHANGED <<mem, override, call, step, registered, phase>> /\ phase = "running"
    BY <1>6 DEF quicpro_config_mark_frozen, quicpro_config_free
  <2>2. /\ cfgs' \in [Handle -> CfgRecord]
        /\ \A x \in Handle : cfgs'[x].options => cfgs[x].options
    <3>1. CASE quicpro_config_mark_frozen(h)
      BY <1>0, <3>1 DEF quicpro_config_mark_frozen, CfgRecord
    <3>2. CASE quicpro_config_free(h)
      BY <1>0, <3>2 DEF quicpro_config_free, CfgRecord
    <3> QED
      BY <1>6, <3>1, <3>2
  <2> QED
    BY <1>0, <2>1, <2>2, QuietKeeps DEF Quiet, QuietCfgs, QuietCall, QuietPhase
<1>7. CASE MSHUTDOWN
  <2>1. UNCHANGED <<mem, override, call, registered, cfgs>> /\ phase = "running"
        /\ phase' = "stopping" /\ step' \in Nat
    BY <1>7 DEF MSHUTDOWN
  <2> QED
    BY <1>0, <2>1, QuietKeeps DEF Quiet, QuietCfgs, QuietCall, QuietPhase
<1>8. CASE quicpro_shutdown_modules
  <2>1. UNCHANGED <<mem, override, call, cfgs>> /\ phase = "stopping" /\ registered' \subseteq registered
        /\ phase' \in {"stopping", "stopped"} /\ step' \in Nat
    BY <1>0, <1>8 DEF quicpro_shutdown_modules
  <2> QED
    BY <1>0, <2>1, QuietKeeps DEF Quiet, QuietCfgs, QuietCall, QuietPhase
<1>9. CASE UNCHANGED vars
  <2>1. UNCHANGED <<mem, override, call, cfgs, phase, step, registered>>
    BY <1>9 DEF vars
  <2> QED
    BY <1>0, <2>1, QuietKeeps DEF Quiet, QuietCfgs, QuietCall, QuietPhase
<1> QED
  BY <1>1, <1>2, <1>3, <1>4, <1>5, <1>6, <1>7, <1>8, <1>9 DEF Next

(* The invariant holds in every reachable state, for every table of        *)
(* families, gates and defaults.                                           *)
LEMMA IInvHolds == Spec => []IInv
<1>1. Init => IInv
  BY InitIInv
<1>2. IInv /\ [Next]_vars => IInv'
  BY NextKeeps
<1> QED
  BY <1>1, <1>2, PTL DEF Spec

(* Gates hold for every value of the tables: whatever sequence of php.ini  *)
(* directives and *_apply_userland_config calls, refused ones included, a   *)
(* setting holds its default or a value one of its own gates admits.       *)
THEOREM SettingsStayAdmissible == Spec => []SettingsAdmissible
BY IInvHolds, PTL DEF IInv

(* The flag the families consult is the directive quicpro.security_allow   *)
(* _config_override, and no Quicpro\Config was built from options against  *)
(* it.                                                                     *)
THEOREM FlagIsTheDirective == Spec => []PolicyIsTheDirective
BY IInvHolds, PTL DEF IInv

(* With the policy off, no step after the start writes a setting.          *)
THEOREM PolicyIsObeyed == Spec => PolicyHolds
<1>1. IInv /\ [Next]_vars => (phase # "starting" /\ ~override => mem' = mem)
  <2> SUFFICES ASSUME IInv, [Next]_vars, phase # "starting", ~override PROVE mem' = mem
    OBVIOUS
  <2>1. call.status # "running"
    BY DEF IInv, Started
  <2> QED
    BY <2>1 DEF Next, vars, quicpro_init_modules, apply_userland_config, apply_key, apply_return,
       quicpro_config_new_from_options, quicpro_config_mark_frozen, quicpro_config_free,
       MSHUTDOWN, quicpro_shutdown_modules
<1> QED
  BY <1>1, IInvHolds, PTL DEF Spec, PolicyHolds

------------------------------------------------------------------------------
(***************************************************************************)
(* The extension's own tables.                                             *)
(***************************************************************************)
Tables ==
    /\ Default = Defaults /\ IniGate = IniGates /\ UserGate = UserGates
    /\ InitOrder = init_order /\ ShutdownOrder = shutdown_order

(* The value of a setting once every family of the dispatcher is           *)
(* initialised: its default or one its gates admit.                        *)
Held(d, g, h, v) == v = d \/ Accepts(g, v) \/ Accepts(h, v)

(* What a setting can hold whose default lies within its own gate. *)
LEMMA RangeHeld ==
    ASSUME NEW d \in Int, NEW min \in Int, NEW max \in Int, min <= d, d <= max,
           NEW v, Held(L(d), LongRange(min, max), LongRange(min, max), v)
    PROVE  v[2] \in Int /\ min <= v[2] /\ v[2] <= max
<1>1. Accepts(LongRange(min, max), v) => v[2] \in Int /\ min <= v[2] /\ v[2] <= max
  BY DEF Accepts, LongRange, qp_validate_long_range
<1> QED
  BY <1>1 DEF Held, L

(* The same for a gate on thousandths, which NaN passes. *)
LEMMA RatioHeld ==
    ASSUME NEW d \in Int, NEW min \in Int, NEW max \in Int, min <= d, d <= max,
           NEW v, Held(D(d), DoubleRange(min, max), DoubleRange(min, max), v)
    PROVE  v = NaN \/ (v[2] \in Int /\ min <= v[2] /\ v[2] <= max)
<1>1. Accepts(DoubleRange(min, max), v) => v = NaN \/ (v[2] \in Int /\ min <= v[2] /\ v[2] <= max)
  BY DEF Accepts, DoubleRange, qp_validate_double_range
<1> QED
  BY <1>1 DEF Held, D

(* A counter whose gates ask for more than zero. *)
LEMMA PositiveHeld ==
    ASSUME NEW d, d[2] > 0, NEW v, Held(d, Positive, Positive, v)
    PROVE  v[2] > 0
<1>1. Accepts(Positive, v) => v[2] > 0
  BY DEF Accepts, Positive, qp_validate_positive_long
<1> QED
  BY <1>1 DEF Held

(* A setting that holds one word of a list. *)
LEMMA WordHeld ==
    ASSUME NEW words, "" \notin words, NEW d \in words,
           NEW v, Held(S(d), OneOf(words), OneOf(words), v)
    PROVE  \E w \in words : v = S(w)
<1>1. Accepts(OneOf(words), v) => \E w \in words : v = S(w)
  BY DEF Accepts, OneOf, qp_validate_string_from_allowlist
<1> QED
  BY <1>1 DEF Held

(* No family the dispatcher initialises is left at zero. *)
LEMMA RunningValue ==
    ASSUME IInv, phase = "running",
           NEW fam \in Elements(InitOrder), NEW f \in Setting(fam)
    PROVE  Held(Default[fam][f], IniGate[fam][f], UserGate[fam][f], mem[fam][f])
<1>1. fam \in Family
  BY ConfigAssumption DEF Elements
<1>2. Admissible(fam, f, mem[fam][f])
  BY <1>1 DEF IInv, SettingsAdmissible
<1> QED
  BY <1>2 DEF Admissible, Held

(* The entries of the tables: admin API, *)
LEMMA AdminTable ==
    /\ {"port", "auth_mode"} \subseteq DOMAIN admin_api_defaults
    /\ admin_api_defaults.port = L(2019) /\ admin_api_defaults.auth_mode = S("mtls")
    /\ admin_api_ini.port = LongRange(1024, 65535) /\ admin_api_ini.auth_mode = OneOf({"mtls"})
    /\ admin_api_user.port = LongRange(1024, 65535) /\ admin_api_user.auth_mode = OneOf({"mtls"})
<1>1. /\ {"port", "auth_mode"} \subseteq DOMAIN admin_api_defaults
      /\ admin_api_defaults.port = L(2019) /\ admin_api_defaults.auth_mode = S("mtls")
  BY SMT DEF admin_api_defaults, All, ++
<1>2. admin_api_ini.port = LongRange(1024, 65535) /\ admin_api_ini.auth_mode = OneOf({"mtls"})
  BY SMT DEF admin_api_ini, All, ++
<1> QED
  BY <1>1, <1>2, SMT DEF admin_api_user

(* autoscaling, *)
LEMMA CloudTable ==
    /\ {"scale_up_cpu_threshold_percent", "scale_down_cpu_threshold_percent"}
          \subseteq DOMAIN cloud_autoscale_defaults
    /\ cloud_autoscale_defaults.scale_up_cpu_threshold_percent = L(80)
    /\ cloud_autoscale_defaults.scale_down_cpu_threshold_percent = L(20)
    /\ cloud_autoscale_ini.scale_up_cpu_threshold_percent = LongRange(0, 100)
    /\ cloud_autoscale_ini.scale_down_cpu_threshold_percent = LongRange(0, 100)
    /\ cloud_autoscale_user.scale_up_cpu_threshold_percent = LongRange(0, 100)
    /\ cloud_autoscale_user.scale_down_cpu_threshold_percent = LongRange(0, 100)
<1>1. /\ {"scale_up_cpu_threshold_percent", "scale_down_cpu_threshold_percent"}
            \subseteq DOMAIN cloud_autoscale_defaults
      /\ cloud_autoscale_defaults.scale_up_cpu_threshold_percent = L(80)
      /\ cloud_autoscale_defaults.scale_down_cpu_threshold_percent = L(20)
  BY SMTT(30) DEF cloud_autoscale_defaults, All, ++
<1>2. /\ cloud_autoscale_ini.scale_up_cpu_threshold_percent = LongRange(0, 100)
      /\ cloud_autoscale_ini.scale_down_cpu_threshold_percent = LongRange(0, 100)
  BY SMTT(30) DEF cloud_autoscale_ini, All, ++
<1> QED
  BY <1>1, <1>2, SMT DEF cloud_autoscale_user

(* telemetry, *)
LEMMA OtelTable ==
    /\ "traces_sampler_ratio" \in DOMAIN otel_defaults
    /\ otel_defaults.traces_sampler_ratio = D(1000)
    /\ otel_ini.traces_sampler_ratio = DoubleRange(0, 1000)
    /\ otel_user.traces_sampler_ratio = DoubleRange(0, 1000)
<1>1. "traces_sampler_ratio" \in DOMAIN otel_defaults
  BY SMT DEF otel_defaults
<1>2. otel_defaults.traces_sampler_ratio = D(1000)
  BY SMT DEF otel_defaults
<1>3. Type(otel_defaults["traces_sampler_ratio"]) = "double"
  BY <1>2, SMT DEF Type, D
<1>4. otel_ini["traces_sampler_ratio"] = DoubleRange(0, 1000)
  BY <1>1, <1>3, SMT DEF otel_ini
<1>5. otel_user["traces_sampler_ratio"] = otel_ini["traces_sampler_ratio"]
  BY <1>1, Zenon DEF otel_ini, otel_user
<1> QED
  BY <1>1, <1>2, <1>4, <1>5, SMT

(* IIBIN, *)
LEMMA IibinTable ==
    /\ "max_recursion_depth" \in DOMAIN iibin_defaults
    /\ iibin_defaults.max_recursion_depth = L(32)
    /\ iibin_ini.max_recursion_depth = Positive /\ iibin_user.max_recursion_depth = Positive
<1>1. "max_recursion_depth" \in DOMAIN iibin_defaults /\ iibin_defaults.max_recursion_depth = L(32)
  BY SMT DEF iibin_defaults
<1>2. iibin_ini.max_recursion_depth = Positive
  BY SMT DEF iibin_ini, All, ++
<1> QED
  BY <1>1, <1>2 DEF iibin_user

(* TCP *)
LEMMA TcpTable ==
    /\ "tcp_max_connections" \in DOMAIN tcp_defaults
    /\ "tcp_tls_min_version_allowed" \in DOMAIN tcp_defaults
    /\ tcp_defaults.tcp_max_connections = L(10240)
    /\ tcp_defaults.tcp_tls_min_version_allowed = S("TLSv1.2")
    /\ tcp_ini.tcp_max_connections = Positive /\ tcp_user.tcp_max_connections = Positive
    /\ tcp_ini.tcp_tls_min_version_allowed = OneOf({"TLSv1.2", "TLSv1.3"})
    /\ tcp_user.tcp_tls_min_version_allowed = OneOf({"TLSv1.2", "TLSv1.3"})
<1>1. /\ "tcp_max_connections" \in DOMAIN tcp_defaults
      /\ "tcp_tls_min_version_allowed" \in DOMAIN tcp_defaults
  BY SMTT(30) DEF tcp_defaults, All, ++
<1>2. /\ tcp_defaults.tcp_max_connections = L(10240)
      /\ tcp_defaults.tcp_tls_min_version_allowed = S("TLSv1.2")
  BY SMTT(30) DEF tcp_defaults, All, ++
<1>3. /\ Type(tcp_defaults["tcp_max_connections"]) = "long"
      /\ Type(tcp_defaults["tcp_tls_min_version_allowed"]) = "str"
  BY <1>2, SMT DEF Type, L, S
<1>4. tcp_ini["tcp_max_connections"] = Positive
  BY <1>1, <1>3, Zenon DEF tcp_ini
<1>5. tcp_ini["tcp_tls_min_version_allowed"] = OneOf({"TLSv1.2", "TLSv1.3"})
  BY <1>1, <1>3, Zenon DEF tcp_ini
<1>6. /\ tcp_user["tcp_max_connections"] = tcp_ini["tcp_max_connections"]
      /\ tcp_user["tcp_tls_min_version_allowed"] = tcp_ini["tcp_tls_min_version_allowed"]
  BY <1>1, Zenon DEF tcp_ini, tcp_user
<1> QED
  BY <1>1, <1>2, <1>4, <1>5, <1>6, SMT

QuicCounters ==
    {"initial_max_data", "initial_max_streams_bidi", "pto_timeout_ms_initial",
     "cc_min_cwnd_packets", "active_connection_id_limit"}

(* and QUIC. *)
LEMMA QuicTable ==
    /\ \A f \in QuicCounters : /\ f \in DOMAIN quic_defaults /\ quic_defaults[f][2] > 0
                               /\ quic_ini[f] = Positive /\ quic_user[f] = Positive
    /\ "cc_algorithm" \in DOMAIN quic_defaults /\ quic_defaults.cc_algorithm = S("cubic")
    /\ quic_ini.cc_algorithm = OneOf({"cubic", "bbr"})
    /\ quic_user.cc_algorithm = OneOf({"cubic", "bbr"})
<1>1. ASSUME NEW f \in QuicCounters
      PROVE  f \in DOMAIN quic_defaults /\ quic_defaults[f][2] > 0
             /\ quic_ini[f] = Positive /\ quic_user[f] = Positive
  <2>1. f \in DOMAIN quic_defaults /\ Type(quic_defaults[f]) = "long" /\ quic_defaults[f][2] > 0
    BY SMTT(30) DEF quic_defaults, QuicCounters, Type, L
  <2>2. quic_ini[f] = Positive
    BY <2>1, Zenon DEF quic_ini, QuicCounters
  <2>3. quic_user[f] = quic_ini[f]
    BY <2>1, Zenon DEF quic_ini, quic_user, QuicCounters
  <2> QED
    BY <2>1, <2>2, <2>3
<1>2. "cc_algorithm" \in DOMAIN quic_defaults /\ quic_defaults.cc_algorithm = S("cubic")
  BY SMTT(30) DEF quic_defaults
<1>3. quic_ini["cc_algorithm"] = OneOf({"cubic", "bbr"})
  <2>1. Type(quic_defaults["cc_algorithm"]) = "str"
    BY <1>2, SMT DEF Type, S
  <2> QED
    BY <1>2, <2>1, Zenon DEF quic_ini
<1>4. quic_user["cc_algorithm"] = quic_ini["cc_algorithm"]
  BY <1>2, Zenon DEF quic_ini, quic_user
<1> QED
  BY <1>1, <1>2, <1>3, <1>4, SMT

(* Where the dispatcher finds them. *)
LEMMA FamilyTables ==
    /\ Defaults.admin_api = admin_api_defaults /\ IniGates.admin_api = admin_api_ini
    /\ UserGates.admin_api = admin_api_user
    /\ Defaults.cloud_autoscale = cloud_autoscale_defaults
    /\ IniGates.cloud_autoscale = cloud_autoscale_ini
    /\ UserGates.cloud_autoscale = cloud_autoscale_user
    /\ Defaults.otel = otel_defaults /\ IniGates.otel = otel_ini /\ UserGates.otel = otel_user
    /\ Defaults.quic = quic_defaults /\ IniGates.quic = quic_ini /\ UserGates.quic = quic_user
    /\ Defaults.iibin = iibin_defaults /\ IniGates.iibin = iibin_ini /\ UserGates.iibin = iibin_user
    /\ Defaults.tcp = tcp_defaults /\ IniGates.tcp = tcp_ini /\ UserGates.tcp = tcp_user
<1>1. /\ Defaults.admin_api = admin_api_defaults /\ Defaults.otel = otel_defaults
      /\ Defaults.cloud_autoscale = cloud_autoscale_defaults /\ Defaults.quic = quic_defaults
      /\ Defaults.iibin = iibin_defaults /\ Defaults.tcp = tcp_defaults
  BY SMTT(30) DEF Defaults
<1>2. /\ IniGates.admin_api = admin_api_ini /\ IniGates.otel = otel_ini
      /\ IniGates.cloud_autoscale = cloud_autoscale_ini /\ IniGates.quic = quic_ini
      /\ IniGates.iibin = iibin_ini /\ IniGates.tcp = tcp_ini
  BY SMTT(30) DEF IniGates
<1>3. /\ UserGates.admin_api = admin_api_user /\ UserGates.otel = otel_user
      /\ UserGates.cloud_autoscale = cloud_autoscale_user /\ UserGates.quic = quic_user
      /\ UserGates.iibin = iibin_user /\ UserGates.tcp = tcp_user
  BY SMTT(30) DEF UserGates
<1> QED
  BY <1>1, <1>2, <1>3

(* quicpro_init_modules initialises all six. *)
LEMMA Dispatched ==
    {"admin_api", "cloud_autoscale", "otel", "quic", "iibin", "tcp"} \subseteq Elements(init_order)
<1>1. /\ DOMAIN init_order = 1..20 /\ init_order[5] = "quic" /\ init_order[6] = "tcp"
      /\ init_order[9] = "iibin" /\ init_order[13] = "cloud_autoscale" /\ init_order[14] = "otel"
      /\ init_order[20] = "admin_api"
  BY SMT DEF init_order
<1> QED
  BY <1>1, SMT DEF Elements


(* The tables give every setting the consumers rely on a default in its    *)
(* range and gates that keep it there.                                     *)
LEMMA TablesAreSane ==
    ASSUME Tables, IInv, phase = "running" PROVE GuardedAdmin /\ Proportions /\ SizedTransports
<1>1. ASSUME NEW fam \in {"admin_api", "cloud_autoscale", "otel", "quic", "iibin", "tcp"},
             NEW f \in DOMAIN Defaults[fam]
      PROVE  Held(Defaults[fam][f], IniGates[fam][f], UserGates[fam][f], mem[fam][f])
  <2>1. fam \in Elements(InitOrder) /\ f \in Setting(fam)
    BY <1>1, Dispatched DEF Tables, Setting
  <2>2. Held(Default[fam][f], IniGate[fam][f], UserGate[fam][f], mem[fam][f])
    BY <2>1, RunningValue
  <2> QED
    BY <2>2 DEF Tables
<1>2. GuardedAdmin
  <2>1. Held(L(2019), LongRange(1024, 65535), LongRange(1024, 65535), mem.admin_api.port)
    BY <1>1, FamilyTables, AdminTable, SMTT(30)
  <2>2. Held(S("mtls"), OneOf({"mtls"}), OneOf({"mtls"}), mem.admin_api.auth_mode)
    BY <1>1, FamilyTables, AdminTable, SMTT(30)
  <2>3. mem.admin_api.port[2] >= 1024 /\ mem.admin_api.port[2] <= 65535
    BY <2>1, RangeHeld, SMT
  <2>4. \E w \in {"mtls"} : mem.admin_api.auth_mode = S(w)
    <3>1. "" \notin {"mtls"} /\ "mtls" \in {"mtls"}
      BY Zenon
    <3> QED
      BY <2>2, <3>1, WordHeld, Zenon
  <2> QED
    BY <2>3, <2>4, SMT DEF GuardedAdmin
<1>3. Proportions
  <2>1. /\ Held(L(80), LongRange(0, 100), LongRange(0, 100),
                mem.cloud_autoscale.scale_up_cpu_threshold_percent)
        /\ Held(L(20), LongRange(0, 100), LongRange(0, 100),
                mem.cloud_autoscale.scale_down_cpu_threshold_percent)
    BY <1>1, FamilyTables, CloudTable, SMTT(30)
  <2>2. Held(D(1000), DoubleRange(0, 1000), DoubleRange(0, 1000), mem.otel.traces_sampler_ratio)
    BY <1>1, FamilyTables, OtelTable, SMTT(30)
  <2>3. /\ mem.cloud_autoscale.scale_up_cpu_threshold_percent[2] \in Percent
        /\ mem.cloud_autoscale.scale_down_cpu_threshold_percent[2] \in Percent
    BY <2>1, RangeHeld, SMTT(30) DEF Percent
  <2>4. mem.otel.traces_sampler_ratio = NaN \/ mem.otel.traces_sampler_ratio[2] \in Thousandths
    <3> DEFINE v == mem.otel.traces_sampler_ratio
    <3> HIDE DEF v
    <3>1. v = NaN \/ (v[2] \in Int /\ 0 <= v[2] /\ v[2] <= 1000)
      BY <2>2, RatioHeld, SMT DEF v
    <3>2. v = NaN \/ v[2] \in Thousandths
      BY <3>1, SMT DEF Thousandths
    <3> QED
      BY <3>2 DEF v
  <2> QED
    BY <2>3, <2>4 DEF Proportions
<1>4. SizedTransports
  <2>1. Held(S("cubic"), OneOf({"cubic", "bbr"}), OneOf({"cubic", "bbr"}), mem.quic.cc_algorithm)
    BY <1>1, FamilyTables, QuicTable, SMTT(30)
  <2>2. mem.quic.cc_algorithm \in {S("cubic"), S("bbr")}
    <3>1. "" \notin {"cubic", "bbr"} /\ "cubic" \in {"cubic", "bbr"}
      BY Zenon
    <3>2. \E w \in {"cubic", "bbr"} : mem.quic.cc_algorithm = S(w)
      BY <2>1, <3>1, WordHeld, Zenon
    <3> QED
      BY <3>2, Zenon
  <2>3. ASSUME NEW f \in QuicCounters PROVE mem.quic[f][2] > 0
    <3>1. Held(quic_defaults[f], Positive, Positive, mem.quic[f]) /\ quic_defaults[f][2] > 0
      BY <1>1, FamilyTables, QuicTable, SMTT(30)
    <3> QED
      BY <3>1, PositiveHeld
  <2>4. mem.iibin.max_recursion_depth[2] > 0
    <3>1. Held(L(32), Positive, Positive, mem.iibin.max_recursion_depth) /\ L(32)[2] > 0
      BY <1>1, FamilyTables, IibinTable, SMTT(30) DEF L
    <3> QED
      BY <3>1, PositiveHeld
  <2>5. mem.tcp.tcp_max_connections[2] > 0
    <3>1. Held(L(10240), Positive, Positive, mem.tcp.tcp_max_connections) /\ L(10240)[2] > 0
      BY <1>1, FamilyTables, TcpTable, SMTT(30) DEF L
    <3> QED
      BY <3>1, PositiveHeld, SMT
  <2>6. Held(S("TLSv1.2"), OneOf({"TLSv1.2", "TLSv1.3"}), OneOf({"TLSv1.2", "TLSv1.3"}),
             mem.tcp.tcp_tls_min_version_allowed)
    BY <1>1, FamilyTables, TcpTable, SMTT(30)
  <2>7. mem.tcp.tcp_tls_min_version_allowed \in {S("TLSv1.2"), S("TLSv1.3")}
    <3>1. "" \notin {"TLSv1.2", "TLSv1.3"} /\ "TLSv1.2" \in {"TLSv1.2", "TLSv1.3"}
      BY Zenon
    <3>2. \E w \in {"TLSv1.2", "TLSv1.3"} : mem.tcp.tcp_tls_min_version_allowed = S(w)
      BY <2>6, <3>1, WordHeld, Zenon
    <3> QED
      BY <3>2, Zenon
  <2> QED
    BY <2>2, <2>3, <2>4, <2>5, <2>7 DEF SizedTransports, QuicCounters
<1> QED
  BY <1>2, <1>3, <1>4

(* With the extension's defaults, gates and order of initialisation, for   *)
(* every php.ini and however long PHP code goes on applying arrays: what   *)
(* the consumers of the settings rely on holds while the module runs.      *)
THEOREM SettingsAreSane == ASSUME Tables PROVE Spec => []SaneSettings
<1>1. IInv => SaneSettings
  BY TablesAreSane DEF SaneSettings
<1> QED
  BY <1>1, IInvHolds, PTL

------------------------------------------------------------------------------
(***************************************************************************)
(* The stack of registered directives.                                     *)
(***************************************************************************)
(* The second list is the first one read backwards, and names no family    *)
(* twice.                                                                  *)
Mirrored ==
    /\ Len(ShutdownOrder) = Len(InitOrder)
    /\ \A i \in 1..Len(InitOrder) : ShutdownOrder[i] = InitOrder[Len(InitOrder) + 1 - i]
    /\ \A i, j \in 1..Len(InitOrder) : InitOrder[i] = InitOrder[j] => i = j

(* The extension's lists are such a pair. *)
LEMMA ListsMirrored == Tables => Mirrored
<1> SUFFICES ASSUME Tables PROVE Mirrored
  OBVIOUS
<1>1. Len(InitOrder) = 20 /\ Len(ShutdownOrder) = 20
  BY SMT DEF Tables, init_order, shutdown_order
<1>2. ASSUME NEW i \in 1..20 PROVE shutdown_order[i] = init_order[21 - i]
  BY <1>2, SMTT(30) DEF init_order, shutdown_order
<1>3. ASSUME NEW i \in 1..20, NEW j \in 1..20, init_order[i] = init_order[j] PROVE i = j
  BY <1>3, SMTT(30) DEF init_order
<1> QED
  BY <1>1, <1>2, <1>3 DEF Mirrored, Tables

(* How many families, counted from the first, are registered. *)
Height ==
    CASE phase = "starting" -> step [] phase = "running" -> Len(InitOrder)
      [] phase = "stopping" -> Len(InitOrder) - step [] OTHER -> 0

Stacked ==
    /\ step \in Nat /\ phase \in {"starting", "running", "stopping", "stopped"}
    /\ phase \in {"starting", "stopping"} => step < Len(InitOrder)
    /\ registered = {InitOrder[i] : i \in 1..Height}

(* Nothing is registered at first. *)
LEMMA StackedInit == Init => Stacked
<1> SUFFICES ASSUME Init PROVE Stacked
  OBVIOUS
<1>1. Len(InitOrder) \in Nat /\ 0 < Len(InitOrder)
  BY ConfigAssumption
<1> QED
  BY <1>1 DEF Init, Stacked, Height

(* A family goes on top, or the top one goes. *)
LEMMA StackedNext == ASSUME Mirrored, Stacked, [Next]_vars PROVE Stacked'
<1> DEFINE n == Len(InitOrder)
<1>1. n \in Nat /\ 0 < n /\ step \in Nat
  BY ConfigAssumption DEF Stacked
<1>2. CASE quicpro_init_modules
  <2>1. /\ phase = "starting" /\ step < n /\ step' = step + 1
        /\ registered' = registered \cup {InitOrder[step + 1]}
        /\ phase' = IF step' = n THEN "running" ELSE "starting"
    BY <1>2 DEF quicpro_init_modules, qp_config_init
  <2>2. Height = step /\ Height' = step + 1
    BY <1>1, <2>1 DEF Height
  <2>3. 1..(step + 1) = 1..step \cup {step + 1}
    BY <1>1
  <2>4. registered' = {InitOrder[i] : i \in 1..(step + 1)}
    BY <2>1, <2>2, <2>3 DEF Stacked
  <2> QED
    BY <1>1, <2>1, <2>2, <2>4 DEF Stacked
<1>3. CASE quicpro_shutdown_modules
  <2>1. /\ phase = "stopping" /\ step < n /\ step' = step + 1
        /\ registered' = registered \ {ShutdownOrder[step + 1]}
        /\ phase' = IF step' = n THEN "stopped" ELSE "stopping"
    BY <1>3 DEF quicpro_shutdown_modules, Mirrored
  <2>2. Height = n - step /\ Height' = n - step - 1
    BY <1>1, <2>1 DEF Height
  <2>3. ShutdownOrder[step + 1] = InitOrder[n - step] /\ n - step \in 1..n
    BY <1>1, <2>1 DEF Mirrored
  <2>4. \A i \in 1..(n - step) : InitOrder[i] = InitOrder[n - step] => i = n - step
    <3>1. \A i, j \in 1..n : InitOrder[i] = InitOrder[j] => i = j
      BY DEF Mirrored
    <3>2. \A i \in 1..(n - step) : i \in 1..n
      BY <1>1, <2>1
    <3> HIDE DEF n
    <3> QED
      BY <2>3, <3>1, <3>2, Zenon
  <2>5. \A i \in 1..(n - step) : i # n - step <=> i \in 1..(n - step - 1)
    BY <1>1, <2>1
  <2>6. 1..(n - step - 1) \subseteq 1..(n - step)
    BY <1>1, <2>1
  <2>7. registered' = {InitOrder[i] : i \in 1..(n - step - 1)}
    <3> HIDE DEF n
    <3> QED
      BY <2>1, <2>2, <2>3, <2>4, <2>5, <2>6 DEF Stacked
  <2>8. registered' = {InitOrder[i] : i \in 1..Height'}
    BY <2>2, <2>7
  <2>9. step' \in Nat /\ phase' \in {"stopping", "stopped"} /\ (phase' = "stopping" => step' < n)
    BY <1>1, <2>1
  <2> QED
    BY <2>8, <2>9 DEF Stacked
<1>4. CASE MSHUTDOWN
  <2>1. phase = "running" /\ phase' = "stopping" /\ step' = 0 /\ registered' = registered
    BY <1>4 DEF MSHUTDOWN
  <2>2. Height = n /\ Height' = n
    BY <1>1, <2>1 DEF Height
  <2> QED
    BY <1>1, <2>1, <2>2 DEF Stacked
<1>5. CASE UNCHANGED <<phase, step, registered>>
  BY <1>5 DEF Stacked, Height
<1>6. quicpro_init_modules \/ quicpro_shutdown_modules \/ MSHUTDOWN \/ UNCHANGED <<phase, step, registered>>
  BY DEF Next, vars, apply_userland_config, apply_key, apply_return,
     quicpro_config_new_from_options, quicpro_config_mark_frozen, quicpro_config_free
<1> QED
  BY <1>2, <1>3, <1>4, <1>5, <1>6

(* With the lists of quicpro_init.c, at every step of the start and of the *)
(* stop the registered families are a prefix of the list, and at the end   *)
(* there are none.                                                         *)
THEOREM DirectivesStayAStack == ASSUME Tables PROVE Spec => []DirectivesAreAStack
<1>1. Stacked => DirectivesAreAStack
  <2> SUFFICES ASSUME Stacked PROVE DirectivesAreAStack
    OBVIOUS
  <2>1. Height \in Int /\ Height <= Len(InitOrder) /\ DOMAIN InitOrder = 1..Len(InitOrder)
    BY ConfigAssumption DEF Stacked, Height
  <2>2. phase = "stopped" => registered = {}
    BY DEF Stacked, Height
  <2>3. ASSUME NEW i \in DOMAIN InitOrder, NEW j \in DOMAIN InitOrder, i < j,
               InitOrder[j] \in registered
        PROVE  InitOrder[i] \in registered
    <3>1. PICK k \in 1..Height : InitOrder[j] = InitOrder[k]
      BY <2>3 DEF Stacked
    <3>2. k = j
      BY <2>1, <3>1, ListsMirrored, ConfigAssumption DEF Mirrored
    <3>3. i \in 1..Height
      BY <2>1, <2>3, <3>2
    <3> QED
      BY <3>3 DEF Stacked
  <2> QED
    BY <2>2, <2>3 DEF DirectivesAreAStack
<1>2. Mirrored
  BY ListsMirrored
<1>3. Stacked /\ [Next]_vars => Stacked'
  BY <1>2, StackedNext
<1> QED
  BY <1>1, <1>3, StackedInit, PTL DEF Spec

==============================================================================
