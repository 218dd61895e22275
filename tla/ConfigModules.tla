---------------------------- MODULE ConfigModules ----------------------------
(***************************************************************************)
(* The life of the configuration: quicpro_init_modules loads every family's *)
(* defaults and registers its php.ini directives, PHP code overrides        *)
(* settings through *_apply_userland_config and builds Quicpro\Config       *)
(* objects, quicpro_shutdown_modules unregisters the directives.            *)
(*                                                                         *)
(* The families are constants, so what is proved here holds for any table; *)
(* ConfigFamilies has the ones of the extension.                           *)
(***************************************************************************)
EXTENDS ConfigGates, FiniteSets

CONSTANTS
    Default,        \* [family -> [setting -> value]], the *_defaults_load functions
    IniGate,        \* [family -> [setting -> gate]], the OnUpdate handlers
    UserGate,       \* [family -> [setting -> gate]], *_apply_userland_config
    InitOrder,      \* families as quicpro_init_modules initialises them
    ShutdownOrder,  \* families as quicpro_shutdown_modules unregisters them
    Security,       \* the family that holds the override policy
    IniFiles,       \* php.ini contents: functions from <<family, setting>> to values
    Handle,         \* Quicpro\Config resources
    MaxWork         \* bound on directives in php.ini, calls and keys tried by PHP code

Family == DOMAIN Default
Setting(fam) == DOMAIN Default[fam]
Policy == "allow_config_override"
Elements(order) == {order[i] : i \in DOMAIN order}

ASSUME ConfigAssumption ==
    /\ DOMAIN IniGate = Family /\ DOMAIN UserGate = Family
    /\ \A fam \in Family : /\ DOMAIN IniGate[fam] = Setting(fam)
                           /\ DOMAIN UserGate[fam] \subseteq Setting(fam)
    /\ Security \in Family /\ Policy \in Setting(Security) \ DOMAIN UserGate[Security]
    /\ InitOrder \in Seq(Family) /\ ShutdownOrder \in Seq(Family)
    /\ InitOrder # <<>> /\ InitOrder[1] = Security
    /\ MaxWork \in Nat

VARIABLES
    php_ini,     \* what php.ini says; fixed for the life of the process
    phase,       \* "starting", "running", "stopping" or "stopped"
    step,        \* how many families the dispatcher of this phase has handled
    registered,  \* families whose directives Zend knows
    mem,         \* the families' global structs
    override,    \* quicpro_globals.is_userland_override_allowed
    call,        \* the current or latest *_apply_userland_config
    work,        \* calls made and keys tried by PHP code
    cfgs         \* the Quicpro\Config resources

vars == <<php_ini, phase, step, registered, mem, override, call, work, cfgs>>

NoCall == [fam |-> Security, status |-> "idle"]
NoCfg == [state |-> "none", options |-> FALSE]

(* A global struct before its defaults are loaded. *)
Zero(v) ==
    CASE Type(v) = "long" -> L(0) [] Type(v) = "bool" -> B(FALSE)
      [] Type(v) = "double" -> D(0) [] OTHER -> <<"null">>

Init ==
    /\ php_ini \in IniFiles
    /\ phase = "starting" /\ step = 0 /\ registered = {}
    /\ mem = [fam \in Family |-> [f \in Setting(fam) |-> Zero(Default[fam][f])]]
    /\ override = FALSE
    /\ call = NoCall /\ work = 0
    /\ cfgs = [h \in Handle |-> NoCfg]

------------------------------------------------------------------------------
(***************************************************************************)
(* Start: *_defaults_load, then REGISTER_INI_ENTRIES, which calls a         *)
(* directive's handler with the text of php.ini and, when it refuses that   *)
(* or there is none, with the directive's default.                          *)
(***************************************************************************)
IniValue(fam, f) ==
    LET g == IniGate[fam][f]
        p == <<fam, f>>
    IN  IF p \in DOMAIN php_ini /\ Accepts(g, FromIni(g, php_ini[p]))
        THEN FromIni(g, php_ini[p])
        ELSE Default[fam][f]

(* Declared by policy.h, which the tree lacks: the policy of the struct    *)
(* becomes the global flag.                                                *)
qp_config_security_policy_apply(policy) == policy = B(TRUE)

qp_config_init(fam) ==
    /\ mem' = [mem EXCEPT ![fam] = [f \in Setting(fam) |-> IniValue(fam, f)]]
    /\ registered' = registered \cup {fam}
    /\ override' = IF fam = Security THEN qp_config_security_policy_apply(IniValue(fam, Policy))
                   ELSE override

quicpro_init_modules ==
    /\ phase = "starting" /\ step < Len(InitOrder)
    /\ qp_config_init(InitOrder[step + 1])
    /\ step' = step + 1
    /\ phase' = IF step' = Len(InitOrder) THEN "running" ELSE "starting"
    /\ UNCHANGED <<php_ini, call, work, cfgs>>

------------------------------------------------------------------------------
(***************************************************************************)
(* Userland: the array is walked in its own order; a key that fails its     *)
(* validator ends the walk with FAILURE.                                    *)
(***************************************************************************)
(* Mutant: the policy is not consulted. *)
apply_userland_config_Mutant(fam, isArray) ==
    /\ phase = "running" /\ call.status # "running"
    /\ work + Cardinality(DOMAIN php_ini) < MaxWork /\ work' = work + 1
    /\ call' = [fam |-> fam, status |-> IF isArray THEN "running" ELSE "failed"]
    /\ UNCHANGED <<php_ini, phase, step, registered, mem, override, cfgs>>

apply_userland_config(fam, isArray) ==
    /\ phase = "running" /\ call.status # "running"
    /\ work + Cardinality(DOMAIN php_ini) < MaxWork /\ work' = work + 1
    /\ call' = [fam |-> fam, status |-> IF override /\ isArray THEN "running" ELSE "failed"]
    /\ UNCHANGED <<php_ini, phase, step, registered, mem, override, cfgs>>

store(fam, key, value) == mem' = [mem EXCEPT ![fam][key] = value]

apply_key(key, value) ==
    /\ call.status = "running" /\ key \in DOMAIN UserGate[call.fam]
    /\ work + Cardinality(DOMAIN php_ini) < MaxWork
    /\ work' = work + 1
    /\ IF Accepts(UserGate[call.fam][key], value)
       THEN store(call.fam, key, value) /\ UNCHANGED call
       ELSE /\ call' = [call EXCEPT !.status = "failed"]
            /\ UNCHANGED mem
    /\ UNCHANGED <<php_ini, phase, step, registered, override, cfgs>>

apply_return ==
    /\ call.status = "running"
    /\ call' = [call EXCEPT !.status = "ok"]
    /\ UNCHANGED <<php_ini, phase, step, registered, mem, override, work, cfgs>>

------------------------------------------------------------------------------
(***************************************************************************)
(* Quicpro\Config objects.  The object takes defaults and php.ini settings, *)
(* then the security options, which have no key for the policy, and only    *)
(* then asks the policy whether options were allowed at all.  The families' *)
(* parse_options functions are defined nowhere in the tree.                 *)
(***************************************************************************)
security_parse_options(policy) == policy

quicpro_config_new_from_options(h, options) ==
    LET policy == security_parse_options(mem[Security][Policy] = B(TRUE))
    IN  /\ phase = "running" /\ call.status # "running"
        /\ cfgs[h] = NoCfg
        /\ cfgs' = [cfgs EXCEPT ![h] =
                       IF options /\ ~policy THEN [state |-> "freed", options |-> FALSE]
                       ELSE [state |-> "live", options |-> options]]
        /\ UNCHANGED <<php_ini, phase, step, registered, mem, override, call, work>>

quicpro_config_mark_frozen(h) ==
    /\ phase = "running" /\ cfgs[h].state = "live"
    /\ cfgs' = [cfgs EXCEPT ![h].state = "frozen"]
    /\ UNCHANGED <<php_ini, phase, step, registered, mem, override, call, work>>

quicpro_config_free(h) ==
    /\ phase = "running" /\ cfgs[h].state \in {"live", "frozen"}
    /\ cfgs' = [cfgs EXCEPT ![h] = [state |-> "freed", options |-> FALSE]]
    /\ UNCHANGED <<php_ini, phase, step, registered, mem, override, call, work>>

------------------------------------------------------------------------------
(* Stop: the resources are gone with the last request, then every family's *)
(* directives are unregistered; the structs stay.                          *)
MSHUTDOWN ==
    /\ phase = "running" /\ call.status # "running"
    /\ \A h \in Handle : cfgs[h].state \in {"none", "freed"}
    /\ phase' = "stopping" /\ step' = 0
    /\ UNCHANGED <<php_ini, registered, mem, override, call, work, cfgs>>

quicpro_shutdown_modules ==
    /\ phase = "stopping" /\ step < Len(ShutdownOrder)
    /\ registered' = registered \ {ShutdownOrder[step + 1]}
    /\ step' = step + 1
    /\ phase' = IF step' = Len(ShutdownOrder) THEN "stopped" ELSE "stopping"
    /\ UNCHANGED <<php_ini, mem, override, call, work, cfgs>>

Next ==
    \/ quicpro_init_modules
    \/ \E fam \in Family, isArray \in BOOLEAN : apply_userland_config(fam, isArray)
    \/ \E key \in DOMAIN UserGate[call.fam] :
           \E value \in Offers(UserGate[call.fam][key]) : apply_key(key, value)
    \/ apply_return
    \/ \E h \in Handle : \/ \E options \in BOOLEAN : quicpro_config_new_from_options(h, options)
                         \/ quicpro_config_mark_frozen(h)
                         \/ quicpro_config_free(h)
    \/ MSHUTDOWN
    \/ quicpro_shutdown_modules

Spec == Init /\ [][Next]_vars

------------------------------------------------------------------------------
(* A value the setting may hold: zero as long as no dispatcher has         *)
(* initialised the family, otherwise its default or what one of its two    *)
(* gates admits.                                                           *)
Admissible(fam, f, v) ==
    \/ v = Default[fam][f]
    \/ Accepts(IniGate[fam][f], v)
    \/ f \in DOMAIN UserGate[fam] /\ Accepts(UserGate[fam][f], v)
    \/ /\ v = Zero(Default[fam][f])
       /\ fam \in Elements(InitOrder) => phase = "starting" /\ fam \notin registered

(* After any sequence of php.ini directives and PHP arrays, refused ones   *)
(* included, a setting holds its default or a value that one of its two    *)
(* gates, the OnUpdate handler or the userland validator, admits.          *)
SettingsAdmissible ==
    \A fam \in Family : \A f \in Setting(fam) : Admissible(fam, f, mem[fam][f])

(* The two hand-written lists of the dispatchers make the directives a     *)
(* stack, as quicpro_shutdown_modules says they must: as long as a family  *)
(* is registered so is every family initialised before it, the security    *)
(* policy the longest, and when the module is gone Zend knows no directive *)
(* whose handler went with it.                                             *)
DirectivesAreAStack ==
    /\ \A i, j \in DOMAIN InitOrder :
           i < j /\ InitOrder[j] \in registered => InitOrder[i] \in registered
    /\ phase = "stopped" => registered = {}

(* With quicpro.security_allow_config_override off nothing PHP code does   *)
(* changes a setting once the families are initialised.                    *)
PolicyHolds == [][phase # "starting" /\ ~override => mem' = mem]_vars

(* The global flag every family consults is the value of the directive     *)
(* from the moment the security family is initialised, and an options      *)
(* array got into a Quicpro\Config object only if it was on.               *)
PolicyIsTheDirective ==
    /\ Security \in registered => (override <=> mem[Security][Policy] = B(TRUE))
    /\ \A h \in Handle : cfgs[h].options => override

==============================================================================
