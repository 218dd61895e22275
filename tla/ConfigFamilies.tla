--------------------------- MODULE ConfigFamilies ---------------------------
(***************************************************************************)
(* The twenty-two configuration families of src/extension/src/config/.     *)
(* For each one:                                                           *)
(*   <family>_defaults  what <family>/default.c stores, which is also what *)
(*                      the PHP_INI table of <family>/ini.c gives as the   *)
(*                      directive's default;                               *)
(*   <family>_ini       the test of the OnUpdate handler of each directive *)
(*                      (<family>/ini.c);                                  *)
(*   <family>_user      the test a key of the PHP array passes through in  *)
(*                      *_apply_userland_config (<family>/config.c).       *)
(* A setting has the name of its struct field.  Free text keeps only       *)
(* whether it is empty.                                                    *)
(***************************************************************************)
EXTENDS ConfigGates

Bool == <<"bool">>
Positive == <<"positive">>
NonNegative == <<"non_negative">>
AnyLong == <<"long">>
AnyString == <<"string">>
OneOf(words) == <<"one_of", words>>
LongRange(min, max) == <<"range", min, max>>
DoubleRange(min, max) == <<"double_range", min, max>>
All(fields, gate) == [f \in fields |-> gate]
Text == S("text")

(* Two tables as one; the left one has precedence. *)
f ++ g == [x \in DOMAIN f \cup DOMAIN g |-> IF x \in DOMAIN f THEN f[x] ELSE g[x]]

------------------------------------------------------------------------------
app_http3_defaults ==
    All({"http_advertise_h3_alt_svc", "http_enable_early_hints", "webtransport_enable"}, B(TRUE))
    ++ [h3_server_push_enable |-> B(FALSE), http_auto_compress |-> T(<<"brotli", "gzip">>),
        h3_max_header_list_size |-> L(65536), h3_qpack_max_table_capacity |-> L(4096),
        h3_qpack_blocked_streams |-> L(100), websocket_default_max_payload_size |-> L(16777216),
        websocket_default_ping_interval_ms |-> L(25000), websocket_handshake_timeout_ms |-> L(5000),
        webtransport_max_concurrent_sessions |-> L(10000), webtransport_max_streams_per_session |-> L(256)]

(* OnUpdateCompressionString leaves its test for later: any text is stored. *)
app_http3_ini ==
    [f \in DOMAIN app_http3_defaults |->
        CASE f = "http_auto_compress" -> AnyString
          [] Type(app_http3_defaults[f]) = "bool" -> Bool
          [] OTHER -> Positive]

app_http3_user ==
    [app_http3_ini EXCEPT !.http_auto_compress = <<"list_of", {"brotli", "gzip", "none"}>>]

------------------------------------------------------------------------------
bare_metal_defaults ==
    All({"io_engine_use_uring", "socket_enable_timestamping"}, B(TRUE))
    ++ All({"io_uring_sq_poll_ms", "socket_enable_busy_poll_us"}, L(0))
    ++ All({"io_max_batch_read_packets", "io_max_batch_write_packets"}, L(64))
    ++ All({"socket_receive_buffer_size", "socket_send_buffer_size"}, L(2097152))
    ++ [io_thread_cpu_affinity |-> Empty, io_thread_numa_node_policy |-> S("default")]

(* OnUpdateCpuAffinityString hands a zend_string to a validator that reads *)
(* a zval: the type test fails on whatever lies at that offset.            *)
bare_metal_ini ==
    All({"io_engine_use_uring", "socket_enable_timestamping"}, Bool)
    ++ All({"io_uring_sq_poll_ms", "socket_enable_busy_poll_us"}, NonNegative)
    ++ All({"io_max_batch_read_packets", "io_max_batch_write_packets",
            "socket_receive_buffer_size", "socket_send_buffer_size"}, Positive)
    ++ [io_thread_cpu_affinity |-> <<"refuse">>,
        io_thread_numa_node_policy |-> OneOf({"default", "prefer", "bind", "interleave"})]

bare_metal_user == [bare_metal_ini EXCEPT !.io_thread_cpu_affinity = AnyString]

------------------------------------------------------------------------------
cloud_autoscale_defaults ==
    All({"provider", "region", "credentials_path", "instance_type", "instance_image_id",
         "network_config", "instance_tags"}, Empty)
    ++ All({"min_nodes", "max_nodes"}, L(1))
    ++ [scale_up_cpu_threshold_percent |-> L(80), scale_down_cpu_threshold_percent |-> L(20),
        scale_up_policy |-> T(<<"add_nodes", "num">>),
        cooldown_period_sec |-> L(300), idle_node_timeout_sec |-> L(600)]

cloud_autoscale_ini ==
    All({"region", "credentials_path", "instance_type", "instance_image_id",
         "network_config", "instance_tags", "scale_up_policy"}, AnyString)
    ++ All({"min_nodes", "max_nodes", "cooldown_period_sec", "idle_node_timeout_sec"}, Positive)
    ++ All({"scale_up_cpu_threshold_percent", "scale_down_cpu_threshold_percent"}, LongRange(0, 100))
    ++ [provider |-> OneOf({"aws", "azure", "hetzner", "google_cloud", "digitalocean", ""})]

cloud_autoscale_user == [cloud_autoscale_ini EXCEPT !.scale_up_policy = <<"scale_up">>]

------------------------------------------------------------------------------
cluster_defaults ==
    All({"cluster_worker_cpu_affinity_map", "cluster_worker_cgroup_path",
         "cluster_worker_user_id", "cluster_worker_group_id"}, Empty)
    ++ [cluster_workers |-> L(0), cluster_graceful_shutdown_ms |-> L(30000),
        server_max_fd_per_worker |-> L(8192), cluster_restart_crashed_workers |-> B(TRUE),
        cluster_max_restarts_per_worker |-> L(10), cluster_restart_interval_sec |-> L(60),
        cluster_worker_niceness |-> L(0), cluster_worker_scheduler_policy |-> S("other")]

cluster_ini ==
    All({"cluster_worker_cpu_affinity_map", "cluster_worker_cgroup_path", "cluster_worker_user_id",
         "cluster_worker_group_id", "cluster_worker_scheduler_policy"}, AnyString)
    ++ All({"cluster_workers", "cluster_graceful_shutdown_ms", "server_max_fd_per_worker",
            "cluster_max_restarts_per_worker", "cluster_restart_interval_sec"}, NonNegative)
    ++ [cluster_restart_crashed_workers |-> Bool, cluster_worker_niceness |-> AnyLong]

cluster_user ==
    All({"cluster_graceful_shutdown_ms", "server_max_fd_per_worker",
         "cluster_max_restarts_per_worker", "cluster_restart_interval_sec"}, Positive)
    ++ [cluster_worker_niceness |-> <<"niceness">>, cluster_worker_scheduler_policy |-> <<"scheduler">>]
    ++ cluster_ini

------------------------------------------------------------------------------
admin_api_defaults ==
    All({"ca_file", "cert_file", "key_file"}, Empty)
    ++ [bind_host |-> T(<<"alnum", ".", "alnum">>), port |-> L(2019), auth_mode |-> S("mtls")]

admin_api_ini ==
    All({"ca_file", "cert_file", "key_file"}, <<"readable">>)
    ++ [bind_host |-> AnyString, port |-> LongRange(1024, 65535), auth_mode |-> OneOf({"mtls"})]

(* Mutant: PHP code may choose a privileged port. *)
admin_api_user_Mutant == [admin_api_ini EXCEPT !.bind_host = <<"host">>, !.port = LongRange(1, 65535)]

admin_api_user == [admin_api_ini EXCEPT !.bind_host = <<"host">>]

------------------------------------------------------------------------------
compute_ai_defaults ==
    All({"dataframe_enable", "dataframe_string_interning_enable", "gpu_p2p_enable",
         "cuda_enable_tensor_cores", "rocm_enable_gfx_optimizations",
         "arc_enable_xmx_optimizations", "arc_video_acceleration_enable"}, B(TRUE))
    ++ All({"gpu_bindings_enable", "storage_enable_directstorage"}, B(FALSE))
    ++ [dataframe_memory_limit_mb |-> L(1024), dataframe_cpu_parallelism_default |-> L(0),
        gpu_default_backend |-> S("auto"), worker_gpu_affinity_map |-> Empty,
        gpu_memory_preallocation_mb |-> L(2048), cuda_stream_pool_size |-> L(4)]

compute_ai_ini ==
    [f \in DOMAIN compute_ai_defaults |->
        CASE f = "dataframe_cpu_parallelism_default" -> AnyLong
          [] f = "gpu_default_backend" -> OneOf({"auto", "cuda", "rocm", "sycl"})
          [] f = "worker_gpu_affinity_map" -> AnyString
          [] Type(compute_ai_defaults[f]) = "bool" -> Bool
          [] OTHER -> Positive]

compute_ai_user ==
    [compute_ai_ini EXCEPT !.dataframe_cpu_parallelism_default = NonNegative,
                           !.worker_gpu_affinity_map = <<"affinity">>]

------------------------------------------------------------------------------
http2_defaults ==
    [enable |-> B(TRUE), enable_push |-> B(TRUE), initial_window_size |-> L(65535),
     max_concurrent_streams |-> L(100), max_header_list_size |-> L(0), max_frame_size |-> L(16384)]

http2_ini ==
    [enable |-> Bool, enable_push |-> Bool, initial_window_size |-> Positive,
     max_concurrent_streams |-> Positive, max_header_list_size |-> AnyLong,
     max_frame_size |-> LongRange(16384, 16777215)]

http2_user == [http2_ini EXCEPT !.max_header_list_size = NonNegative]

------------------------------------------------------------------------------
iibin_defaults ==
    [max_schema_fields |-> L(256), max_recursion_depth |-> L(32), string_interning_enable |-> B(TRUE),
     use_shared_memory_buffers |-> B(FALSE), default_buffer_size_kb |-> L(64),
     shm_total_memory_mb |-> L(256), shm_path |-> Text]

iibin_ini ==
    All({"max_schema_fields", "max_recursion_depth", "default_buffer_size_kb", "shm_total_memory_mb"},
        Positive)
    ++ All({"string_interning_enable", "use_shared_memory_buffers"}, Bool)
    ++ [shm_path |-> AnyString]

iibin_user == iibin_ini

------------------------------------------------------------------------------
mcp_defaults ==
    [mcp_default_request_timeout_ms |-> L(30000), mcp_max_message_size_bytes |-> L(4194304),
     mcp_default_retry_policy_enable |-> B(TRUE), mcp_default_retry_max_attempts |-> L(3),
     mcp_default_retry_backoff_ms_initial |-> L(100), mcp_enable_request_caching |-> B(FALSE),
     mcp_request_cache_ttl_sec |-> L(60), orchestrator_default_pipeline_timeout_ms |-> L(120000),
     orchestrator_max_recursion_depth |-> L(10), orchestrator_loop_concurrency_default |-> L(50),
     orchestrator_enable_distributed_tracing |-> B(TRUE)]

mcp_ini ==
    [f \in DOMAIN mcp_defaults |-> IF Type(mcp_defaults[f]) = "bool" THEN Bool ELSE Positive]

mcp_user == mcp_ini

------------------------------------------------------------------------------
cdn_defaults ==
    [enable |-> B(FALSE), cache_mode |-> S("disk"), cache_memory_limit_mb |-> L(512),
     cache_disk_path |-> Text, cache_default_ttl_sec |-> L(86400), cache_max_object_size_mb |-> L(1024),
     cache_respect_origin_headers |-> B(TRUE), cache_vary_on_headers |-> Text,
     origin_mcp_endpoint |-> Empty, origin_http_endpoint |-> Empty,
     origin_request_timeout_ms |-> L(15000), serve_stale_on_error |-> B(TRUE),
     response_headers_to_add |-> Text, allowed_http_methods |-> T(<<"GET", "HEAD">>)]

cdn_ini ==
    [f \in DOMAIN cdn_defaults |->
        CASE f = "cache_mode" -> OneOf({"memory", "disk", "hybrid"})
          [] Type(cdn_defaults[f]) = "bool" -> Bool
          [] Type(cdn_defaults[f]) = "long" -> Positive
          [] OTHER -> AnyString]

cdn_user ==
    [cdn_ini EXCEPT !.cache_disk_path = <<"writable">>,
                    !.allowed_http_methods = <<"list_of", {"GET", "HEAD", "POST", "PUT", "DELETE", "OPTIONS", "PATCH"}>>]

------------------------------------------------------------------------------
object_store_defaults ==
    All({"enable", "s3_api_compat_enable", "allow_anonymous_access", "enable_directstorage"}, B(FALSE))
    ++ All({"versioning_enable", "metadata_cache_enable"}, B(TRUE))
    ++ [default_redundancy_mode |-> S("erasure_coding"),
        erasure_coding_shards |-> T(<<"num", "d", "num", "p">>),
        default_replication_factor |-> L(3), default_chunk_size_mb |-> L(64),
        metadata_agent_uri |-> Text, node_discovery_mode |-> S("static"), node_static_list |-> Text,
        metadata_cache_ttl_sec |-> L(60)]

object_store_ini ==
    [f \in DOMAIN object_store_defaults |->
        CASE f = "default_redundancy_mode" -> OneOf({"erasure_coding", "replication"})
          [] f = "erasure_coding_shards" -> <<"shards">>
          [] f = "node_discovery_mode" -> OneOf({"static", "mcp_heartbeat"})
          [] Type(object_store_defaults[f]) = "bool" -> Bool
          [] Type(object_store_defaults[f]) = "long" -> Positive
          [] OTHER -> AnyString]

object_store_user == object_store_ini

------------------------------------------------------------------------------
otel_defaults ==
    [enable |-> B(TRUE), service_name |-> Text, exporter_endpoint |-> Text,
     exporter_protocol |-> S("grpc"), exporter_timeout_ms |-> L(10000), exporter_headers |-> Empty,
     batch_processor_max_queue_size |-> L(2048), batch_processor_schedule_delay_ms |-> L(5000),
     traces_sampler_type |-> S("parent_based_probability"), traces_sampler_ratio |-> D(1000),
     traces_max_attributes_per_span |-> L(128), metrics_enable |-> B(TRUE),
     metrics_export_interval_ms |-> L(60000),
     metrics_default_histogram_boundaries |-> T(<<"num", "num">>),
     logs_enable |-> B(FALSE), logs_exporter_batch_size |-> L(512)]

(* OnUpdateOtelHistogramBoundaries passes a zend_string where a zval is    *)
(* expected, as OnUpdateCpuAffinityString does.                            *)
otel_ini ==
    [f \in DOMAIN otel_defaults |->
        CASE f = "exporter_protocol" -> OneOf({"grpc", "http/protobuf"})
          [] f = "traces_sampler_type" -> OneOf({"parent_based_probability", "always_on", "always_off"})
          [] f = "traces_sampler_ratio" -> DoubleRange(0, 1000)
          [] f = "metrics_default_histogram_boundaries" -> <<"refuse">>
          [] Type(otel_defaults[f]) = "bool" -> Bool
          [] Type(otel_defaults[f]) = "long" -> Positive
          [] OTHER -> AnyString]

otel_user == [otel_ini EXCEPT !.metrics_default_histogram_boundaries = AnyString]

------------------------------------------------------------------------------
quic_defaults ==
    [cc_algorithm |-> S("cubic"), cc_initial_cwnd_packets |-> L(32), cc_min_cwnd_packets |-> L(4),
     cc_enable_hystart_plus_plus |-> B(TRUE), pacing_enable |-> B(TRUE), pacing_max_burst_packets |-> L(10),
     max_ack_delay_ms |-> L(25), ack_delay_exponent |-> L(3), pto_timeout_ms_initial |-> L(1000),
     pto_timeout_ms_max |-> L(60000), max_pto_probes |-> L(5), ping_interval_ms |-> L(15000),
     initial_max_data |-> L(10485760), initial_max_stream_data_bidi_local |-> L(1048576),
     initial_max_stream_data_bidi_remote |-> L(1048576), initial_max_stream_data_uni |-> L(1048576),
     initial_max_streams_bidi |-> L(100), initial_max_streams_uni |-> L(100),
     active_connection_id_limit |-> L(8), stateless_retry_enable |-> B(FALSE), grease_enable |-> B(TRUE),
     datagrams_enable |-> B(TRUE), dgram_recv_queue_len |-> L(1024), dgram_send_queue_len |-> L(1024)]

quic_ini ==
    [f \in DOMAIN quic_defaults |->
        CASE f = "cc_algorithm" -> OneOf({"cubic", "bbr"})
          [] f \in {"max_ack_delay_ms", "ping_interval_ms"} -> NonNegative
          [] f = "ack_delay_exponent" -> LongRange(0, 20)
          [] Type(quic_defaults[f]) = "bool" -> Bool
          [] OTHER -> Positive]

quic_user == [quic_ini EXCEPT !.ack_delay_exponent = NonNegative]

------------------------------------------------------------------------------
router_defaults ==
    [router_mode_enable |-> B(FALSE), hashing_algorithm |-> S("consistent_hash"),
     connection_id_entropy_salt |-> Text, backend_discovery_mode |-> S("static"),
     backend_static_list |-> Text, backend_mcp_endpoint |-> Text,
     backend_mcp_poll_interval_sec |-> L(10), max_forwarding_pps |-> L(1000000)]

router_ini ==
    All({"connection_id_entropy_salt", "backend_static_list", "backend_mcp_endpoint"}, AnyString)
    ++ All({"backend_mcp_poll_interval_sec", "max_forwarding_pps"}, Positive)
    ++ [router_mode_enable |-> Bool, hashing_algorithm |-> OneOf({"consistent_hash", "round_robin"}),
        backend_discovery_mode |-> OneOf({"static", "mcp"})]

router_user == router_ini

------------------------------------------------------------------------------
security_defaults ==
    [allow_config_override |-> B(FALSE), admin_api_enable |-> B(FALSE), rate_limiter_enable |-> B(TRUE),
     rate_limiter_requests_per_sec |-> L(100), rate_limiter_burst |-> L(50),
     cors_allowed_origins |-> S("*")]

security_ini ==
    All({"allow_config_override", "admin_api_enable", "rate_limiter_enable"}, Bool)
    ++ All({"rate_limiter_requests_per_sec", "rate_limiter_burst"}, NonNegative)
    ++ [cors_allowed_origins |-> <<"cors">>]

(* The policy flags have no key. *)
security_user ==
    [f \in DOMAIN security_ini \ {"allow_config_override", "admin_api_enable"} |-> security_ini[f]]

------------------------------------------------------------------------------
geometry_defaults ==
    [default_vector_dimensions |-> L(768), calculation_precision |-> S("float64"),
     convex_hull_algorithm |-> S("qhull"), point_in_polytope_algorithm |-> S("ray_casting"),
     hausdorff_distance_algorithm |-> S("exact"), spiral_search_step_size |-> D(100),
     core_consolidation_threshold |-> D(950)]

geometry_ini ==
    All({"calculation_precision", "convex_hull_algorithm", "point_in_polytope_algorithm",
         "hausdorff_distance_algorithm"}, AnyString)
    ++ All({"spiral_search_step_size", "core_consolidation_threshold"}, <<"double">>)
    ++ [default_vector_dimensions |-> AnyLong]

geometry_user ==
    All({"spiral_search_step_size", "core_consolidation_threshold"}, DoubleRange(0, 1000))
    ++ [default_vector_dimensions |-> Positive,
        calculation_precision |-> OneOf({"float32", "float64"}),
        convex_hull_algorithm |-> OneOf({"qhull", "gift_wrapping"}),
        point_in_polytope_algorithm |-> OneOf({"ray_casting", "barycentric"}),
        hausdorff_distance_algorithm |-> OneOf({"exact", "approximated"})]

------------------------------------------------------------------------------
contracts_defaults ==
    All({"smartcontract_enable", "use_hardware_wallet", "event_listener_enable"}, B(FALSE))
    ++ All({"registry_uri", "default_wallet_password_env_var", "hsm_pkcs11_library_path",
            "abi_directory"}, Text)
    ++ All({"dlt_rpc_endpoint", "default_wallet_path"}, Empty)
    ++ [dlt_provider |-> S("ethereum"), chain_id |-> L(1), default_gas_limit |-> L(300000),
        default_gas_price_gwei |-> L(20)]

contracts_ini ==
    [f \in DOMAIN contracts_defaults |->
        CASE f = "dlt_provider" -> OneOf({"ethereum", "solana", "fabric"})
          [] Type(contracts_defaults[f]) = "bool" -> Bool
          [] Type(contracts_defaults[f]) = "long" -> Positive
          [] OTHER -> AnyString]

contracts_user ==
    [f \in DOMAIN contracts_ini |-> IF contracts_ini[f] = AnyString THEN <<"non_empty">> ELSE contracts_ini[f]]

------------------------------------------------------------------------------
dns_defaults ==
    All({"dns_server_enable", "dns_semantic_mode_enable"}, B(FALSE))
    ++ All({"dns_server_enable_tcp", "dns_enable_dnssec_validation"}, B(TRUE))
    ++ All({"dns_server_bind_host", "dns_static_zone_file_path", "dns_health_agent_mcp_endpoint"}, Text)
    ++ All({"dns_recursive_forwarders", "dns_mothernode_uri"}, Empty)
    ++ [dns_server_port |-> L(53), dns_default_record_ttl_sec |-> L(60),
        dns_mode |-> S("service_discovery"), dns_service_discovery_max_ips_per_response |-> L(8),
        dns_edns_udp_payload_size |-> L(1232), dns_mothernode_sync_interval_sec |-> L(86400)]

dns_ini ==
    [f \in DOMAIN dns_defaults |->
        CASE f = "dns_mode" -> OneOf({"authoritative", "recursive_resolver", "service_discovery"})
          [] Type(dns_defaults[f]) = "bool" -> Bool
          [] Type(dns_defaults[f]) = "long" -> Positive
          [] OTHER -> AnyString]

dns_user == dns_ini

------------------------------------------------------------------------------
ssh_defaults ==
    All({"listen_host", "default_target_host"}, Text)
    ++ All({"mcp_auth_agent_uri", "user_profile_agent_uri"}, Empty)
    ++ [gateway_enable |-> B(FALSE), listen_port |-> L(2222), default_target_port |-> L(22),
        target_connect_timeout_ms |-> L(5000), gateway_auth_mode |-> S("mtls"),
        target_mapping_mode |-> S("static"), idle_timeout_sec |-> L(1800),
        log_session_activity |-> B(TRUE)]

ssh_ini ==
    [f \in DOMAIN ssh_defaults |->
        CASE f = "gateway_auth_mode" -> OneOf({"mtls", "mcp_token"})
          [] f = "target_mapping_mode" -> OneOf({"static", "user_profile"})
          [] Type(ssh_defaults[f]) = "bool" -> Bool
          [] Type(ssh_defaults[f]) = "long" -> Positive
          [] OTHER -> AnyString]

ssh_user == ssh_ini

------------------------------------------------------------------------------
state_defaults == [default_backend |-> S("memory"), default_uri |-> Empty]

state_ini ==
    [default_backend |-> OneOf({"memory", "sqlite", "redis", "postgres"}), default_uri |-> AnyString]

state_user == [state_ini EXCEPT !.default_uri = <<"plain_string">>]

------------------------------------------------------------------------------
tcp_defaults ==
    All({"tcp_enable", "tcp_reuse_port_enable", "tcp_keepalive_enable"}, B(TRUE))
    ++ All({"tcp_nodelay_enable", "tcp_cork_enable"}, B(FALSE))
    ++ [tcp_max_connections |-> L(10240), tcp_connect_timeout_ms |-> L(5000),
        tcp_listen_backlog |-> L(511), tcp_keepalive_time_sec |-> L(7200),
        tcp_keepalive_interval_sec |-> L(75), tcp_keepalive_probes |-> L(9),
        tcp_tls_min_version_allowed |-> S("TLSv1.2"), tcp_tls_ciphers_tls12 |-> Text]

tcp_ini ==
    [f \in DOMAIN tcp_defaults |->
        CASE f = "tcp_tls_min_version_allowed" -> OneOf({"TLSv1.2", "TLSv1.3"})
          [] f = "tcp_tls_ciphers_tls12" -> AnyString
          [] Type(tcp_defaults[f]) = "bool" -> Bool
          [] OTHER -> Positive]

tcp_user == [tcp_ini EXCEPT !.tcp_tls_ciphers_tls12 = <<"non_empty">>]

------------------------------------------------------------------------------
tls_defaults ==
    All({"tls_verify_peer", "tls_enable_ocsp_stapling"}, B(TRUE))
    ++ All({"tls_enable_early_data", "tls_enable_ech", "tls_require_ct_policy",
            "tls_disable_sni_validation", "transport_disable_encryption"}, B(FALSE))
    ++ All({"tls_default_ca_file", "tls_default_cert_file", "tls_default_key_file",
            "tls_ticket_key_file"}, Empty)
    ++ All({"tls_ciphers_tls13", "tls_curves"}, Text)
    ++ [tls_verify_depth |-> L(10), tls_session_ticket_lifetime_sec |-> L(7200),
        tls_server_0rtt_cache_size |-> L(100000)]

tls_ini ==
    [f \in DOMAIN tls_defaults |->
        CASE Type(tls_defaults[f]) = "bool" -> Bool
          [] Type(tls_defaults[f]) = "long" -> Positive
          [] OTHER -> AnyString]

tls_user == [f \in DOMAIN tls_ini |-> IF tls_ini[f] = AnyString THEN <<"plain_string">> ELSE tls_ini[f]]

------------------------------------------------------------------------------
(* The global struct of each configuration directory. *)
Defaults ==
    [security |-> security_defaults, cluster |-> cluster_defaults, tls |-> tls_defaults,
     bare_metal |-> bare_metal_defaults, quic |-> quic_defaults, tcp |-> tcp_defaults,
     app_http3 |-> app_http3_defaults, mcp |-> mcp_defaults, iibin |-> iibin_defaults,
     state |-> state_defaults, object_store |-> object_store_defaults,
     compute_ai |-> compute_ai_defaults, cloud_autoscale |-> cloud_autoscale_defaults,
     otel |-> otel_defaults, cdn |-> cdn_defaults, dns |-> dns_defaults, ssh |-> ssh_defaults,
     router |-> router_defaults, contracts |-> contracts_defaults, admin_api |-> admin_api_defaults,
     http2 |-> http2_defaults, geometry |-> geometry_defaults]

IniGates ==
    [security |-> security_ini, cluster |-> cluster_ini, tls |-> tls_ini, bare_metal |-> bare_metal_ini,
     quic |-> quic_ini, tcp |-> tcp_ini, app_http3 |-> app_http3_ini, mcp |-> mcp_ini,
     iibin |-> iibin_ini, state |-> state_ini, object_store |-> object_store_ini,
     compute_ai |-> compute_ai_ini, cloud_autoscale |-> cloud_autoscale_ini, otel |-> otel_ini,
     cdn |-> cdn_ini, dns |-> dns_ini, ssh |-> ssh_ini, router |-> router_ini,
     contracts |-> contracts_ini, admin_api |-> admin_api_ini, http2 |-> http2_ini,
     geometry |-> geometry_ini]

UserGates ==
    [security |-> security_user, cluster |-> cluster_user, tls |-> tls_user,
     bare_metal |-> bare_metal_user, quic |-> quic_user, tcp |-> tcp_user,
     app_http3 |-> app_http3_user, mcp |-> mcp_user, iibin |-> iibin_user, state |-> state_user,
     object_store |-> object_store_user, compute_ai |-> compute_ai_user,
     cloud_autoscale |-> cloud_autoscale_user, otel |-> otel_user, cdn |-> cdn_user,
     dns |-> dns_user, ssh |-> ssh_user, router |-> router_user, contracts |-> contracts_user,
     admin_api |-> admin_api_user, http2 |-> http2_user, geometry |-> geometry_user]

(* The order of quicpro_init_modules; http2 and semantic_geometry are not among them. *)
init_order ==
    <<"security", "cluster", "tls", "bare_metal", "quic", "tcp", "app_http3", "mcp", "iibin", "state",
      "object_store", "compute_ai", "cloud_autoscale", "otel", "cdn", "dns", "ssh", "router",
      "contracts", "admin_api">>

(* Mutant: smart_dns, added to the start, is forgotten at the stop. *)
shutdown_order_Mutant ==
    <<"admin_api", "contracts", "router", "ssh", "cdn", "otel", "cloud_autoscale", "compute_ai",
      "object_store", "state", "iibin", "mcp", "app_http3", "tcp", "quic", "bare_metal", "tls",
      "cluster", "security">>

(* The order of quicpro_shutdown_modules. *)
shutdown_order ==
    <<"admin_api", "contracts", "router", "ssh", "dns", "cdn", "otel", "cloud_autoscale", "compute_ai",
      "object_store", "state", "iibin", "mcp", "app_http3", "tcp", "quic", "bare_metal", "tls",
      "cluster", "security">>

==============================================================================
