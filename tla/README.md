# Verification of quicpro_async

quicpro_async is a PHP extension in C: QUIC, HTTP/1-3 and WebSocket endpoints
on top of libquiche, OpenSSL and nghttp2, a fork-based worker cluster, a binary
serialisation format (IIBIN), an MCP client, a pipeline orchestrator, an HTTP
client on libcurl and a large configuration layer. This directory holds TLA+
models of the extension, the TLC configurations that check them on small
instances, and TLAPS proofs. Paths below are relative to `src/extension/src/`.

## 1. The parts and their modules

| Part | Source | Modules | Proofs |
|---|---|---|---|
| Worker cluster | `cluster/cluster.c` | `ClusterSupervisor`, `WorkerPool` (what it promises), `MCCluster` | `ClusterSupervisorProofs` |
| Opening a client session | `client/session.c`, `connect/connect.c`, `php_quicpro.c` | `SessionConnect`, `MCConnect` | `SessionConnectProofs` |
| An open client session | `client/session.c`, `poll/poll.c`, `client/tls.c` | `ClientSession`, `MCSession` | `ClientSessionProofs` |
| Configuration | `config/`, `validation/`, `quicpro_init.c` | `ConfigGates`, `ConfigFamilies`, `ConfigModules`, `MCConfig` | `ConfigProofs` |
| IIBIN | `iibin/` | `IibinRegistry`, `IibinCodec`, `MCIibin` | `AgentProofs`, its last section |
| Servers | `server/` | `Http1Server`, `Http2Server`, `QuicServer`, `AdminApi`, `StreamHandlers`, `WsFrame`, `Cors`, `ServerSession`; `Server` composes them; `MCServer` | `MessageProofs`, `ServerProofs` |
| Pipelines, MCP, HTTP client | `pipeline_orchestrator/`, `mcp/mcp.c`, `http_client/http_client.c` | `ToolRegistry`, `Orchestrator`, `McpClient`, `HttpClient`; `Agent` composes them; `MCAgent` | `AgentProofs` |

`FilterSeq` (bounded sequences, and the members of a sequence that pass a test;
used by `Cors`, `Orchestrator`, `McpClient` and `HttpClient`) and `DataInduction` (what is proved about it, about
sequences and about recursive functions on the naturals) belong to no part.

The parts meet in few places. Workers of the cluster are separate processes
that run servers or clients; nothing is shared with the master but signals,
exit status and the pid file. A configuration is read when a session or a server
is created. The admin API's thread shares a flag with the generic server. The
orchestrator looks tools up in the handler registry. `ClientSession` starts where
`SessionConnect` returns a resource.

`PROJECT.json` names, for every definition that models code, the lines it
translates, and for every property a mutant of the model that breaks it. The
mutants stand next to the definitions they change.

## 2. The cluster supervisor

`ClusterSupervisor.tla` models `cluster/cluster.c`. `pc` is where the master is
between two points at which a signal or another process can make a difference.
`pid`, `restart_count`, `last_restart_time` and `is_exiting` are the fields of
`g_worker_pool`; `proc` is the kernel's process table for the master's children
(`forked` until the child has reset the inherited signal handlers, then
`running`; `zombie` until it is waited for); `pending` holds signals not yet
delivered. `restarts` is a history variable: the times at which each slot was
restarted.

| Actions | Code |
|---|---|
| `Orchestrate`, `ForkWorker`, `ForkWorkerFails` | start of `quicpro_cluster_orchestrate` and its fork loop |
| `LoopHead`, `ReloadWorkers`, `ReloadReset`, `WaitReaps`, `WaitFindsNone` | one turn of `master_supervisor_loop` |
| `IgnoreChild`, `RestartWorker`, `RestartFails`, `LimitExceeded`, `LetWorkerGo` | the handling of a child that ended |
| `SendTerm`, `GraceReaps`, `GraceEnds`, `SendKill` | the shutdown sequence |
| `SignalMaster`, `SignalWorkers` | `cluster_signal_handler`, `quicpro_cluster_signal_workers` |
| `ResetSignals`, `WorkerEnds`, `DeliverTerm`, `DeliverKill` | `worker_process_main` and the kernel |

A pass over the pool is one step: the pool is private to the master, and a
`kill()` of one worker commutes with the steps of the others. The pass
of the SIGHUP branch and the reset of `g_reload_request` are separate steps,
because a second SIGHUP can arrive between them. Pids are reused as soon as a
child is waited for. CPU affinity, priority, user ids and the PHP callbacks have
no effect on the pool and are left out; a worker whose set-up fails simply ends.

`WorkerPool.tla` says what the supervisor promises without processes, pids,
signals or time: slots are filled once at the start, refilled only while the
pool serves and only after their worker ended, and a vacated slot stays empty
until the next call. The refinement mapping takes a slot to `empty`, `live` or
`ended` by what the process table says of its pid, and `pc` to a phase;
`ImplementsWorkerPool` is the abstract specification under that mapping.

## 3. Opening a session

`SessionConnect.tla` models `quicpro_client_session_connect`, `quicpro_connect`
and `quicpro_session_dtor`. A step is one call into the operating system or
quiche, which succeeds or fails, and what the code does about it. `held` is what
each session has acquired and not given back (memory, address list, socket,
quiche objects), `exception` whether a PHP exception is pending, `todo` the
addresses of the current family the loop has left. The two functions take the
same steps in a different order and clean up differently; `api` says which one
runs. Of the answer of `getaddrinfo()` only the number of addresses of each
family matters. The configuration is one object that all sessions share;
`config_frees` counts the calls of `quiche_config_free()` on it. Only
`quicpro_connect` registers a resource of the type the destructor belongs to.

## 4. An open session

`ClientSession.tla` models what a program does with an open session: `Tick`
(with `TickRecvFails` and `TickSendFails`, its error paths), `Close`,
`FetchDatagram`, `IngestDatagram`, `ImportSessionTicket`, and `quicpro_poll`
turn by turn (`PollStart`, `PollTurn`, `PollResumes` after a Fiber was
suspended). A call other than `quicpro_poll` runs without giving up control and
is one step; a poll can be suspended, and the clock and the network move between
its turns.

quiche, the socket, the network and the peer are external. The connection `q` is
reduced to its handshake, the datagrams it wants sent, its timer and its closing
states, in the order in which the extension observes them; the network loses,
duplicates and reorders. A datagram that `sendto()` refuses has already left
quiche and is gone (`Sends`). Application streams, kernel timestamps and the
AF_XDP receive path are left out.

## 5. Configuration

`ConfigGates` has one operator for each validator and each conversion Zend applies
to a directive: what it admits. `ConfigFamilies` holds the 22 families as tables:
the defaults (`default.c`), the test of each php.ini handler (`ini.c`) and the
test of each key of the PHP array (`config.c`), and the two hand-written lists of
`quicpro_init.c`. `ConfigModules` is the machine they all share:
`quicpro_init_modules` and `quicpro_shutdown_modules` family by family, an
`*_apply_userland_config` call key by key (it stops at the first bad value and
leaves the keys before it applied), and Quicpro\Config objects from options to
free. `mem` is the families' structs, `override` the global policy flag. A NaN
compares with neither bound of a range of doubles and passes that gate. The
specification lets PHP code call any family with any keys; what a run explores of
that is bounded in `MCConfig` (`Explored`). The tables are constants of
`ConfigModules`, so its theorems hold for any families; `Tables` in `ConfigProofs`
says that they are the extension's own.

## 6. IIBIN

`IibinRegistry` models `define_enum` and `define_schema`: a PHP array is compiled
or refused, and a refusal leaves the registries as they were. `IibinCodec` adds
encoder, decoder and a channel that may cut the message. Bytes are real: varints,
zigzag, fixed-width integers, packed arrays, wire types and keys are computed,
with the widths as parameters, and integer conversions wrap as the C casts do.
Checked on 3-bit groups, 8-bit `uint32_t` and 16-bit `uint64_t`, which keeps the
relation between the widths and lets every boundary be enumerated. A long in a
float or double field is converted and sent as bits (`DoubleBits`, a parameter).
The first item of an unpacked repeated field is stored in an array that is
released at once (`iibin_decoding.c:249-250`): the field is then `Dangling`, and a
second item writes into released memory. A definition is made only before a
message is sent.

## 7. Servers

A process runs one kind of server, so `Server` chooses one and lets its module
take steps; `AdminApi` runs beside the generic server and reads its flag.

| Module | Code | State and steps |
|---|---|---|
| `Http1Server` | `server/http1.c` | connections with TLS flights, bytes sent and read; `h1_edge` the edge-triggered readiness, `h1_batch` the events of one `epoll_wait`; one event is one step, peers act between them |
| `Http2Server` | `server/http2.c` | nghttp2 streams and the `http2_stream_t` hung on them; the callbacks are operators from a stream to the streams it may become |
| `QuicServer` | `server/index.c`, `server/http3.c` | session table, the pass over it session by session and stream by stream, handlers that throw, close sessions or close the server |
| `AdminApi` | `server/admin_api.c` | one thread for each listen call: its context, its socket and what the caller was told |
| `StreamHandlers` | `server/cancel.c`, `server/early_hints.c` | cancel handlers with their references, also registered from inside a running one |
| `WsFrame` | `server/websocket.c` | the frame header as bytes, coder and parser |
| `Cors` | `server/cors.c` | the walk over the allow-list, against the set of its entries |
| `ServerSession` | `server/session.c`, `server/tls.c` | objects, what they own at each failing step of the constructor, what a second constructor call on the same object loses, the shared `quiche_config`, tickets |

A handler that closes the server it runs in destroys the table the pass iterates
over; the model ends the pass there, in `script` or in `crashed`. A handler may
also use a session resource it kept of a session the loop has removed
(`index.c:316`, `:332`); that is `q_handler_stale` and ends in `crashed`. A script
that uses the resource of a server it has closed gets a NULL pointer the code does
not test (`index.c:222`, `:350`); such calls are not made.

`http1.c:123` has a comment where bind and listen belong; `H1Init` takes the
listener as made. The first event of an HTTP/2 connection runs `SSL_accept` and
creates the nghttp2 session only if it completes in that one call; otherwise the
code goes on with a NULL session and the model stops in `crashed`. A response body
is released while nghttp2 may still read it (`http2.c:310`, `:321`): the stream's
`body` says so, and reading from it may crash. The origins offered to `Cors`
include the empty one, the lists include a missing one.

What quiche and nghttp2 do is reduced to what the code observes of it. Datagrams
are lost, repeated and reordered, and a late one for a session that is gone makes
a new session, as in the code.

## 8. Pipelines, MCP and the HTTP client

`ToolRegistry` registers a handler field by field: a configuration may be refused
at any of them, its error label is an operator of its own, and `tr_heap` is what
is allocated. `Orchestrator` runs a pipeline step by step over it (the calls of
MCP agents are placeholders in the source and return an empty array). What the
result of a run holds is left open: the code copies the context into it with a
void function and destroys the context.

`McpClient` is one request with its event loop, on a clock cut to whole seconds.
`quicpro_mcp_connect` stores the placeholder pointers 0xDEADBEEF and 0xCAFEBABE
(`mcp.c:72-79`) where its comments name the connection; the model has the
connection the comments describe, since with the placeholders no call after it
has a meaning. The polling loop sends and reads no datagram, so only events of
earlier streams can be there, and the branches that read an answer are never
taken. The inner loop goes on while `quiche_h3_conn_poll` is positive
(`mcp.c:273`): an event of stream 0 is taken, lost, and ends it.

`HttpClient` is one transfer with libcurl's callbacks; libcurl delivers any number
of heads and may fail at any point. A script waits for each call, so `Agent` lets
it work with one of the three.

## 9. Runs

| Run | States | Checks |
|---|---|---|
| `cluster_safety` | 565,214 | `PoolOwnsChildren`, `NoForgottenWorker`, `RestartRate`, `ReloadNotLost`, `ImplementsWorkerPool` |
| `cluster_liveness` | 120,012 | `ShutdownStopsAll`, `DeadWorkerNoticed` |
| `connect_safety` | 26,412 | `NothingLeaks`, `OpenIsComplete` |
| `session_safety` | 1,323,840 | `ClosedFlagSound` |
| `session_tick_liveness` | 30,092 | `HandshakeCompletes`, `DeadConnectionNoticed` |
| `session_poll_liveness` | 54,052 | `HandshakeCompletes` |
| `config_safety` | 119,690 | `DirectivesAreAStack`, `SaneSettings`, `PolicyHolds` |
| `iibin_codec` | 457,540 | `ReferencesPrecede`, `RoundTrip`, `UnknownFieldsSkipped`, `TruncationHonest` |
| `server_safety` | 268,679 | `ServerTypeOK`, `NoEventAfterFree`, `OneWholeReply`, `ResponseHasItsStream`, `AnsweredOnce`, `PassTouchesLiveSessions`, `HandlerRefsBalanced`, `HeaderRoundTrip`, `OriginIsAnEntry`, `NoSocketLeaks`, `ReadableIsHandedOver`, `ClosedIsRemoved` |
| `agent_safety` | 39,445 | `RegistryOwnsItsMemory`, `StepsRunByDefinition`, `HeadersAreKept`, `TimeoutNotEarly`, `RequestReturns` |
| `iibin_text` | | `TextRoundTrip`, violated |
| `http_body` | | `BodyIsLive`, violated |

The comment above each property says what it states. What the runs do not say:

- `PassTouchesLiveSessions` covers handlers that close sessions. A handler that
  closes the server itself destroys the table under the loop; the code goes on
  over freed memory, and the model ends the pass at that call. The property, its
  theorem and the two liveness properties of the loop say nothing about what
  follows. The same holds of a handler that uses a session already removed. The
  HTTP/2 model likewise stops in `crashed` where the code uses the NULL session
  of an unfinished handshake or a released body.
- `RoundTrip` is about schemas of numeric fields with tags below 2^29: the
  decoder refuses every string, bytes and message field (`iibin_text`). It and
  `TruncationHonest` leave out unpacked repeated fields, whose array the decoder
  releases.
- `AnsweredOnce` bounds the responses of a stream and the bytes of a body. It does
  not say that a request is answered (one that ends in a DATA frame is not) or
  which bytes are sent. `ResponseHasItsStream` is about the stream data a response
  points to, not about the body.
- `NoSocketLeaks` says what is lost and when: a second constructor call on an
  object loses the socket and connection of the first (`server/session.c:306`),
  and nothing else loses any.
- `ReadableIsHandedOver` stops at a pending exception, which blocks all handlers.
- `HeadersAreKept` is about header names that are not all digits: such a name
  is a number to a PHP array, and the code looks it up as text
  (`http_client.c:234`, `:221`).
- `TimeoutNotEarly` allows up to a second less than the time the message of
  `mcp.c:254` reports, because both clock values are whole seconds.
- `StepsRunByDefinition` says nothing of a conditional step with another tool
  between it and the ConditionalLogic, where code and comment disagree.
- `SaneSettings` allows a sampling ratio that is NaN.
- The handler registry lives longer than a request, the memory some of its
  entries come from (`ecalloc`) does not. `RegistryOwnsItsMemory` is about one
  request.

Bounds. Cluster: two workers and three pids, so that a pid can be reused while
another is held and a child of the first call can be waited for in the second; a
limit of one restart and a clock of two instants. In `cluster_safety` the interval
is zero, so that a second crash in the same instant lies inside it and one in the
next lies beyond it, where the counter is reset and a slot is restarted again; two
calls of orchestrate. In `cluster_liveness` it is one. Connect: two sessions, up
to two addresses a family (one to fail at, one to succeed at). Session: every
datagram kind can be lost, repeated and late; a budget of one microsecond lets a
poll take one turn or two. Configuration: all families, one php.ini directive
besides the policy and four calls or keys on that directive's family, with the
values on both sides of each gate; Quicpro\Config objects and the stop where no
call has changed a setting. IIBIN: the values at the end of every width in single
fields, two values in repeated ones. Server: two connections with batches of two,
a header shorter than the buffer and a request longer than it, so that bytes
follow a complete header and the buffer runs full (a header that fits exactly is
left to the proof, which holds for all lengths); two HTTP/2 streams; two datagram
sessions and one datagram on its way; one admin call; frame lengths around 125 and
65535, 2^24 and the largest TLC can count to; every allow-list of up to five
characters and every origin of up to two. Agent: pipelines of three steps over two
tools, timeouts of zero, just under a second and a second, three events, three
header lines. Symmetry is used for pids in `cluster_safety` only, a run without
liveness. Deadlock is not checked where a script may simply stop calling.

## 10. Fairness

`ClusterSupervisor`: weak fairness of the master's steps and of signal handling
in the children (the kernel schedules both), of the delivery of signals, and of
the clock. No fairness for workers that end, for signals sent by others, or for
`orchestrate` being called.

`ClientSession`: timers expire (`TimerDue("loss")`), the peer retransmits, and a
datagram sent again and again arrives in the end (strong fairness of `Deliver`
and `PeerReceives`, the usual assumption about a lossy network). The program
ticks again and again, as the comment on tick requires, or polls again and
again, with its Fiber resumed and its clock advancing. Strong fairness of a tick
or turn that gets something out, and of a poll turn that reads, says that the
kernel does not refuse for ever.

`Server`: weak fairness of the datagram server's loop; its `epoll_wait` returns
after a tenth of a second at the latest. `Agent`: weak fairness of a poll turn
that finds an event, of the timeout and of the clock. Peers, scripts and
datagrams have none.

## 11. Proofs

All theorems hold for every value of the constants that satisfies the named
assumptions of the modules; the runs evaluate those too. An invariant of a run is
seldom inductive; each proof names the strengthening it needs, shows that it
holds at the start and that each action keeps it, and ends with a temporal step.

- `ClusterSupervisorProofs`: `TypeCorrect`; `PoolCorrect` from `PoolInv` (a child
  just waited for has left the process table, slots not reached yet are empty,
  signals are pending only for live children); `RestartRateCorrect` from
  `RateInv`, which connects the counter and the one time the code keeps with all
  restart times; `ReloadNotLostCorrect`; `KillOnlyAfterGraceCorrect`;
  `SlotsNameTheirChildren`; and `SupervisorImplementsPool`, step by step under the
  refinement mapping.
- `SessionConnectProofs`: `ConnectTypeCorrect`; `ConnectOwnershipCorrect` and
  `OpenSessionsAreComplete` from what the session under construction owns at each
  step; `FamilyPreferenceCorrect`; `FailureThrowsCorrect`.
- `ClientSessionProofs`: `SessionTypeCorrect` and `ClosedFlagCorrect`. Tick and
  poll take any number of datagrams in one step through recursive functions; what
  those keep is shown by taking the least number at which it would fail.
- `ConfigProofs`, for any table of families: `SettingsStayAdmissible`,
  `FlagIsTheDirective`, `PolicyIsObeyed`, all from `IInv`. Then for the
  extension's own tables (the hypothesis `Tables`, which is what
  `MCConfig_safety.cfg` sets): `DirectivesStayAStack` and `SettingsAreSane`. A
  value is at all times a default or admitted by one of its two gates; one lemma
  for each kind of gate says what that leaves, and one for each of the six
  families concerned looks its settings up in the tables.
- `AgentProofs`: `RegistryMemoryCorrect`, `HandlersStayCorrect`,
  `StepsRunByDefinitionCorrect` (the condition flag is FALSE exactly when the last
  step that called its tool was a ConditionalLogic), `TimeoutNotEarlyCorrect`,
  `NothingHeldCorrect`; `HeadersAreKeptCorrect` from `HeadInv` (the header lines
  among the raw lines are those delivered, because a status line came before the
  first of them). For the IIBIN registries `ReferencesPointBackwards` (`RInv`:
  exactly the defined names have a serial number, below the counter) and
  `DefinitionsStay`.
- `MessageProofs` says what the two readers of text and bytes compute for inputs
  of any length. Cors: the pointer walk from a position accepts exactly the
  entries that begin there or later, by induction on the characters left; for the
  empty origin these are the places between two commas that hold only blanks.
  WsFrame: the header of every 64-bit length, in its three forms, is parsed to
  that length, opcode and end, and every proper prefix of it is incomplete.
- `ServerProofs`: `NoEventAfterFreeCorrect`, `OneWholeReplyCorrect` (`Http1Inv`);
  `ResponseHasItsStreamCorrect` and `AnsweredOnceCorrect` (`H2Inv`: how
  nghttp2's view of a stream, the data hung on it and its response go together;
  a session that is not open has no pending response);
  `PassTouchesLiveSessionsCorrect` (`PassInv`, with the limit of section 9);
  `HandlerRefsCorrect` (`RefsInv`; that the set of
  holders is finite is part of the invariant); `NoSocketLeaksCorrect`
  (`ObjectInv`: an open object owns all its native objects),
  `TicketsFitCorrect`; `OriginIsAnEntryCorrect` (`CorsInv`) and
  `HeaderRoundTripCorrect` (`WsInv`) from `MessageProofs`; `ServerTypesCorrect`
  (`TypeInv`, the conjunction of the parts' invariants: the bounds of the HTTP/1
  buffer and of a response's offset rest on them).

Induction over data. The library's induction theorems take an operator as
parameter, which these provers cannot instantiate. `DataInduction` uses sets
instead: a set of naturals that is not empty has a least element, so the set of
counterexamples is empty; and a recursive function on `0..n` satisfies its
equation. `Among` of `FilterSeq` is `SelectSeq` with a set for the test, in that
form; the modules with theorems use it in place of `SequencesExt`, whose
definitions would stand in the context of every obligation. `ConfigFamilies` joins
tables with an operator of its own, because a proof cannot expand `@@`.

Assumptions worth a look: `WsAssumption` says that a payload length is a `size_t`
of 64 bits, written with divisions because the provers know nothing of powers;
`H2Assumption` that body lengths and the frame size are natural numbers;
`CorsAssumption` that an origin holds no comma, blank or star; `ConfigAssumption`
that the gates fit the families and that the security family comes first, with a
policy PHP code cannot set.

Proved without a run: the type invariants of cluster, connect and session,
`KillOnlyAfterGrace`, `FamilyPreference`, `FailureThrows`, `SettingsAdmissible`,
`PolicyIsTheDirective`, `DefinitionsAreFinal`, `HandlersStay`,
`NothingHeldAfterCall`, `TicketsFit`.

Only model-checked: all liveness (fairness and ENABLED are outside this prover),
and `RoundTrip`, `UnknownFieldsSkipped` and `TruncationHonest` of the IIBIN codec,
whose operators recurse over messages and whose varints and integer widths are
powers of two, for which the provers have no theory. Every other safety property
of a passing run has a theorem.

## 12. Where comments and code disagree

Two runs show a disagreement: `iibin_text` (`iibin_decoding.c:112` compares the
position with a byte, so no string field can be decoded; the repository's
README decodes one) and `http_body` (`http_client.c:683` releases the body the
returned array holds; the comment at line 258 promises it).

The rest was read off the code while modelling and has no run:

- Cluster: the give-up window restarts with every restart (`cluster.c:266`,
  `cluster.h:83`); a worker stopped by SIGHUP is not replaced (`cluster.c:264`,
  `:220`); a SIGTERM between fork and the reset of the handlers is swallowed
  (`:313`, `:224`); the loop goes on with an empty pool (`:218`, `cluster.h:113`);
  the pid file is written before the handlers are installed (`:76`); restarts do
  not call `on_worker_start` (`cluster.h:74`); workers that exit with 0 are
  restarted (`cluster.h:81`); `g_shutdown_request` is never reset (`cluster.h:104`);
  SIGUSR1 ends the master (`:194`).
- Sessions: a second session frees the shared `quiche_config` again
  (`php_quicpro.c:211`, `:192`); close never sends its frame by itself
  (`session.c:550`, `:503`); every poll empties the ticket buffer because a macro
  hides the function that reads the ticket (`poll.c:106`, `:269`); an exception of
  a failed address stays pending when a later one succeeds (`session.c:130`); a
  poll that overran its budget does not yield (`poll.c:180`, `:408`).
- Configuration: settings are not "written atomically"
  (`tls_and_crypto/config.c:10`): keys before a bad one stay applied. NaN passes a
  range test (`validate_double_range.c:33`), so the sampling ratio can be NaN. The
  http2 and semantic_geometry families are never initialised. Two ini handlers
  pass a `zend_string` to a validator of zvals (`bare_metal/ini.c:69`,
  `otel/ini.c:86`). Some static handlers call themselves. `ssh config.c:116` reads
  `auth_mode`, the directive is `gateway_auth_mode`. Several php.ini gates are
  looser than the PHP ones. Security options are parsed before the override check
  (`config.c:108`).
- IIBIN: unpacked repeated arrays are released after being stored
  (`iibin_decoding.c:250`); enum names in packed arrays encode as 0; a type text
  matches any primitive it is a prefix of; tags of 2^29 and more overflow the key.
- Servers: a handler that closes its server leaves the loop on a destroyed table
  (`index.c:296`); a handler's exception blocks all later handler calls; a handler
  may keep the resource of a session the loop has removed (`index.c:316`, `:332`);
  `is_listening` stays set after an epoll failure; a request whose body ends in a
  DATA frame is never dispatched, while `http2.h:39` speaks of "each" request; a
  response body points into a released value (`http2.c:310`, `:321`), and a
  handshake that needs a second call leaves a NULL session in use (`:232`); a
  second call of a session's constructor drops the first socket and connection
  (`server/session.c:306`), and all sessions free the `quiche_config` they share;
  the HTTP/1 listener is never bound (`http1.c:123`); one `SSL_read` per edge can
  stall an HTTP/1 connection; the listen functions parse five arguments and read
  four; the admin call returns TRUE, "on successful initialization"
  (`admin_api.h:39`), although its thread may end at once; `index.h` promises
  HTTP/1.1, 2 and 3 at the same time, `cors.h` a handler nobody calls.
- Agent: the pipeline's result uses the value of a void function and then frees
  the context (`pipeline_orchestrator.c:176`); outputs are keyed by tool name, not
  by step (`pipeline_orchestrator.h:34`, `.c:144`); any tool that runs after a
  ConditionalLogic sets the condition again, so a later `condition_true_only` step
  runs, while the comment and the example speak of the preceding ConditionalLogic
  (`.h:42`, `docs/WORKFLOW_ORCHESTRATION_EXPERT_MODE_EXAMPLE.md:264`);
  `tool_handler_registry.c:311` passes the wrong pointer; the MCP connect stores
  placeholders (`mcp.c:72`), its loop neither sends nor reads datagrams and loses
  events of stream 0 (`mcp.c:273`), and its timeout can be up to a second early
  (`mcp.c:254`); heads of redirects are merged into one.

## 13. Not modelled

- AF_XDP receive path, kernel timestamps, application streams of a client
  session, functions that only read.
- The transfer of settings into `quiche_config` and the table of libcurl options:
  lists of setter calls without state of their own.
- The ownership of configuration strings, and the certificates in static
  variables of `server/tls.c`. `client/tls.c:96` applies two keys in turn and
  keeps the first when the second is refused, as in section 5.
- The end of a request: the handler registry outlives it, memory its entries took
  from the request's allocator does not.
- Decoding into objects (the function uses an undeclared name), WebSocket
  upgrade, connect, receive and close, MCP upload and download, the calls of MCP
  and RAG agents: stubs in the source.
- `client/http1.c`, `http2.c`, `http3.c`, `index.c`: declarations only.
  `client/cancel.c`, `early_hints.c`, `websocket.c`, `server/open_telemetry.c`:
  empty.
- Functions that are declared and defined nowhere, and quiche, OpenSSL, nghttp2,
  libcurl and the kernel: only as far as the extension's code looks at them.
