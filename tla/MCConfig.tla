------------------------------- MODULE MCConfig -------------------------------
(***************************************************************************)
(* ConfigModules with the extension's twenty-two families.  A behaviour    *)
(* has at most one directive in php.ini besides the override policy; every *)
(* value next to the boundary of a gate is offered.                        *)
(***************************************************************************)
EXTENDS ConfigModules, ConfigFamilies, TLC

PolicyOn == <<"security", "allow_config_override">> :> B(TRUE)

ini_files ==
    LET fams == {init_order[i] : i \in DOMAIN init_order}
        Directive(fam) == UNION {{(<<fam, f>> :> v) @@ PolicyOn : v \in Offers(IniGates[fam][f])} :
                                 f \in DOMAIN IniGates[fam]}
    IN  {<<>>, PolicyOn} \cup UNION {Directive(fam) : fam \in fams}

(* Bounds of the exploration; the specification has none of them.  PHP     *)
(* code calls the family the directive of php.ini belongs to, at most      *)
(* MaxWork times.  What it does with Quicpro\Config objects, and the stop,  *)
(* are explored where it has changed no setting.                           *)
Explored ==
    /\ work' # work => /\ \A h \in Handle : cfgs[h] = NoCfg
                       /\ \A p \in DOMAIN php_ini : p[1] \in {call'.fam, Security}
    /\ cfgs' # cfgs \/ phase' = "stopping" => work = 0

------------------------------------------------------------------------------
GuardedAdmin ==
    /\ mem.admin_api.port[2] >= 1024 /\ mem.admin_api.port[2] <= 65535
    /\ mem.admin_api.auth_mode = S("mtls")

Percent == 0..100
Thousandths == 0..1000

Proportions ==
    /\ mem.cloud_autoscale.scale_up_cpu_threshold_percent[2] \in Percent
    /\ mem.cloud_autoscale.scale_down_cpu_threshold_percent[2] \in Percent
    /\ mem.otel.traces_sampler_ratio = NaN \/ mem.otel.traces_sampler_ratio[2] \in Thousandths

SizedTransports ==
    /\ mem.quic.cc_algorithm \in {S("cubic"), S("bbr")}
    /\ \A f \in {"initial_max_data", "initial_max_streams_bidi", "pto_timeout_ms_initial",
                 "cc_min_cwnd_packets", "active_connection_id_limit"} : mem.quic[f][2] > 0
    /\ mem.iibin.max_recursion_depth[2] > 0 /\ mem.tcp.tcp_max_connections[2] > 0
    /\ mem.tcp.tcp_tls_min_version_allowed \in {S("TLSv1.2"), S("TLSv1.3")}

(* What the consumers of the settings rely on, whichever of php.ini and    *)
(* PHP code set them and in whatever order: the admin API stays on mutual  *)
(* TLS and an unprivileged port, thresholds and sampling ratios stay       *)
(* proportions (a ratio can also be NaN, which compares with no bound and  *)
(* passes the range test), and the counters the transports size buffers and timers    *)
(* with are never zero or negative.                                        *)
SaneSettings == phase = "running" => GuardedAdmin /\ Proportions /\ SizedTransports

==============================================================================
