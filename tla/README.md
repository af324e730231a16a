# TLA+ models of the ngtcp2 example server (`src/examples/server.cc`)

The repository's only source file is the example QUIC server built on the
ngtcp2 library and OpenSSL. The ngtcp2 connection engine and OpenSSL are not
under `src/`. They are modelled from `spec.md`, at the interface the example
uses, and are marked `spec_modelled` in `PROJECT.json`.

## The system and its parts

The server runs one libev thread. Every datagram (`sreadcb` → `Server::on_read`)
and every timer expiry (`timeoutcb`) runs to completion before the next event,
so each one is **one atomic step** of the models.

| Part | Code | State | Operations |
|---|---|---|---|
| Session table | `Server::on_read`, `create_conn_key`, `handlers_` | endpoint key → `unique_ptr<Handler>` | drop, Version Negotiation, new session (admitted or discarded), dispatch, erase on error |
| Handler lifecycle | `Handler::Handler/init/on_read/feed_data/on_write`, `timeoutcb`, `~Handler` | the `ngtcp2_conn`, the `SSL`, a 5 s one-shot `ev_timer` | init (arms the timer), read, drain, delete on timeout |
| Bridge | `bio_read`, `bio_write`, `read/write_server/client_handshake` | `shandshake_`/`nsread_` (client→TLS), `chandshake_`/`ncread_` (TLS→wire) | append, read from a cursor |
| Engine callbacks | `send_server_cleartext`, `recv_handshake_data`, `handshake_completed`, `do_encrypt`, `do_decrypt` | none of their own | drive `tls_handshake`, key setup and AEAD |
| Key derivation | `Handler::setup_crypto_context` | `crypto_ctx_`, the tx and rx keys in the engine | derive, install tx, export, derive, install rx |
| Version Negotiation | `generate_reserved_vesrion`, `Server::send_version_negotiation` | none | hash, mask, encode |
| ngtcp2 engine (spec) | `ngtcp2_conn_recv/send/handshake_completed` | handshake state, first-packet flag, pending ack | calls the callbacks |
| OpenSSL (spec) | `SSL_do_handshake` | awaits ClientHello, then Finished; done or failed | reads and writes through the BIO |
| Start-up | `create_ssl_ctx`, `create_sock`, `Server::init`, `serve`, `main` | configuration | not modelled |

The parts interact as follows:
- A datagram reaches a Handler.
- `ngtcp2_conn_recv` hands the client's handshake bytes to `recv_handshake_data`.
- That callback appends them to `shandshake_` and runs `SSL_do_handshake`.
- OpenSSL reads through `bio_read` and writes its flight through `bio_write` into `chandshake_`.
- `on_write` then loops on `ngtcp2_conn_send`. While the handshake is running, that calls `send_server_cleartext`, which takes the flight out of `chandshake_`.
- When OpenSSL finishes, `tls_handshake` calls `ngtcp2_conn_handshake_completed`. The engine then calls `handshake_completed`, which runs `setup_crypto_context`.

## Modules

- **`Handler.tla`** holds the Handler, the bridge, the callbacks, key derivation and the two engines. Each C++ function is an operator with the same name. The operator takes the handler record `h` (type `HandlerRec`) and returns the **set** of possible `[h, rv]` outcomes. The set is there because the engines, OpenSSL and `sendto` may fail. The code's control flow is kept:
  - early returns and error codes;
  - the `ppkt_num && len == 0` check in `send_server_cleartext`;
  - the stale `rv` tests in `setup_crypto_context`;
  - the `on_write` loop.

  Bytes are abstracted to positions:
  - the client stream is `1..CH_LEN+FIN_LEN` (the ClientHello, then the Finished);
  - the server flight is the next `FLIGHT_LEN` numbers.

  Keys are `none`, `valid` (derived successfully) or `invalid` (a failed derivation was installed). `CryptoFailPoints` picks which steps of `setup_crypto_context` may fail.
- **`Server.tla`** (EXTENDS Handler) holds the session table. It keeps the table entry (`handlers`) apart from the Handler object (`live`), because `timeoutcb` lets the two disagree. Each datagram is one action, named after the branch of `Server::on_read` it takes:
  - `SendVersionNegotiation`;
  - `NewSession` (the Handler enters the table only if `on_read` returned 0);
  - `Dispatch` (an error erases the entry);
  - `DispatchToDeleted`, which sets `ub` to "use_after_free". A failed `init` leads to `ub = "null_conn"` in `NewSession`.

  `timers` is libev's list of active timers, by peer. `init` starts a Handler's timer, and `Handler_destroy` (`~Handler`) stops it on every path that ends a Handler. `Timeout` is the loop running that timer's `timeoutcb`. The client side is only an environment. `DatagramsFor` covers Initial or Handshake packets carrying any prefix of the client stream, which models retransmission, duplication and reordering. The Finished and 1-RTT packets become possible only once the server flight is on the wire.
- **`ServerTimed.tla`** (EXTENDS Server) adds time to the table. Two clocks are kept per live Handler, counted in ticks and capped at `IDLE_TIMEOUT` (the timer's 5 s):
  - `armed[p]`: ticks since `init` started `timer_`;
  - `quiet[p]`: ticks since the Handler's last successful read.

  `Tick` advances both. Following libev, time never passes an armed timer's deadline without running its callback. `TNewSession`, `TDispatch` and `TTimeout` are the Server actions composed with their effect on the clocks. A read resets `quiet` but leaves the timer alone, as `Handler::on_read` does. `TTimeout` fires only when `armed` reaches `IDLE_TIMEOUT`.
- **`HandshakeStream.tla`** is the abstract promise of the bridge. For each session, the two byte streams are FIFO pipes: the reader sees a prefix of what was written, and each stream only grows until the session closes. `Server` instantiates it with a refinement mapping and checks `BridgeIsFifo == Stream!Spec`. The mapping is:
  - `delivered` ← `shandshake_`;
  - `consumed` ← the bytes OpenSSL read;
  - `produced` ← `chandshake_`;
  - `sent` ← the wire.
- **`VersionNegotiation.tla`** holds `generate_reserved_vesrion` and the packet's version list. A `uint32_t` is a pair of 16-bit halves, so that multiplication modulo 2^32 fits TLC's 31-bit integers. The loop is `FnvLoop`, one `FnvStep` per byte. The state machine is `ReceiveUnsupported`, where `send_version_negotiation` encodes a packet into `buf`, followed by `SendTo`, where it leaves. A byte-wise schoolbook reference, `RefFnv`, is the definition the hash is checked against.
- **`MCServer.tla`**, **`MCServer3.tla`**, **`MCServerTimed.tla`** and **`MCVersionNegotiation.tla`** instantiate the modules for TLC: two or three peers as model values (with symmetry where only invariants are checked), and the edge-case address bytes and versions.

## Runs

| Run | What it shows |
|---|---|
| `server_safety` (`MCServer3_safety.cfg`, pass) | Three peers, 2-byte ClientHello, 2-byte Finished (so it can arrive split), 2-byte flight, five failure points of key derivation, and `init` allowed to fail. See below. |
| `server_liveness` (`MCServerTimed_liveness.cfg`, pass) | `IdleSessionEventuallyReleased`: with the tick clock and `IDLE_TIMEOUT = 3`, a Handler idle for the whole timeout is deleted unless it reads a datagram first (spec §8). It relies on `init` starting the timer on every path into the table. It also holds for a timer re-armed on every read, so it does not depend on the one-shot divergence that `idle_timer_not_rearmed` reports. The only fairness assumed is that time passes and expired timers run. |
| `timer_use_after_free` (`MCServer_uaf.cfg`, violation) | `NoUseAfterFree` fails: NewSession → Timeout → DispatchToDeleted. `timeoutcb` (server.cc:138) deletes the Handler but leaves the `handlers_` entry. The next datagram from that endpoint calls `on_read` on freed memory, and an error there frees it again. |
| `stale_rv_key_derivation` (`MCServer_stale_rv.cfg`, violation) | `InstalledKeysValid` fails. After a failed key or IV derivation, `setup_crypto_context` tests the `rv` of the earlier export (server.cc:397, 404, 419, 426), so the bad key is installed and the session goes on. |
| `sendto_failure_drops_session` (`MCServer_sendloss.cfg`, violation) | `WriteFailureKeepsSession` fails. `on_write` returns -1 when `sendto` fails (492). `Server::on_read` then discards a new Handler (611) or erases a known one (620). Spec §4.1 and §7 call write errors non-fatal. The model records this in the history variable `sendloss`, using the Handler's `sendfail` flag. |
| `init_failure_null_conn` (`MCServer_nullconn.cfg`, violation) | `NoNullConnUse` fails. When `ngtcp2_conn_server_new` fails, `init` returns -1 without starting the timer (307-312). `Server::on_read` ignores this (609) and feeds the datagram to a Handler whose `conn_` is null. In the model, `Handler_init_results` contains that Handler when `ConnNewMayFail` is TRUE. |
| `idle_timer_not_rearmed` (`MCServerTimed_rearm.cfg`, violation) | `IdleTimeoutOnlyWhenIdle` fails in the trace NewSession → Tick → Tick → Dispatch → Timeout: a session that read a datagram in the same tick is deleted at the deadline set at creation (153, 314). Spec §4.3 re-arms the timer on every successful read. |
| `timed_out_entry_never_evicted` (`MCServerTimed_leak.cfg`, violation) | `EntryEventuallyEvicted` fails under the same fairness as `server_liveness`: NewSession → Tick → Tick → Timeout, then the peer stays silent and its `handlers_` entry is never erased (138). Spec §3 and §7 (4) evict a timed-out Session from the table. The table therefore keeps a dangling entry for every silent peer that ever timed out. |
| `version_negotiation` (`MCVersionNegotiation.cfg`, pass) | `FnvMatchesReference`: the halves arithmetic equals byte-wise FNV-1a, over 36 addresses (bytes 0, 1, 10, 127, 128, 255) × 4 versions. |
| `vn_lists_requested_version` (`MCVersionNegotiation_grease.cfg`, violation) | `NeverListsRequestedVersion` fails. A real 16-byte `sockaddr_in` for 127.0.0.1:40001 asks for each of the 4096 reserved versions `0x1a?a?a?a`. For `0x1aba4a2a` the reserved entry equals the requested version (644), so the packet claims the client's version is supported. Spec §4.5 does not rule this out. For any address, about one of the 65536 reserved versions is affected. All 65536 would take TLC about 4 minutes, so the run uses the 4096. |

The `server_safety` run checks these properties:
- `KeysMatchHandshake`: keys exist in both directions or neither, exactly after the engine left the handshake state, and only after OpenSSL finished. This is broken by the unchecked client-secret export at 410.
- `AdmittedAfterServerFlight`: a session is in the table only after its whole flight left (191).
- `TimerArmedWhileLive`: libev holds a timer for a peer exactly while that peer's Handler exists. This covers three paths: a refused new session, an erase after an error, and the timeout itself (161). It is broken by a destructor that does not stop the timer.
- `BridgeIsFifo`: the refinement described above.
- `TypeOK`: includes the cursor bounds.

Every property of a passing run has a mutant in `PROJECT.json`. The mutant is a plausible bug in the mapped operator, and TLC finds the property violated when it is applied.

**Bounds.** With three peers, one peer can be timed out or erased while two others are at different stages of their handshakes. The peers share only `ub` and the socket, so more peers add no new interaction. `server_safety` runs without symmetry, because `BridgeIsFifo` is a temporal property; it has 9552 states and takes about 15 s. The timed liveness model with three peers and `IDLE_TIMEOUT = 3` does not finish within 5 minutes, so the liveness runs keep two peers. With two bytes per message, every split point of a message across datagrams occurs: none, a partial message, or all of it. It also makes a retransmission overlap what was already delivered. Each failure point covers a different branch of `setup_crypto_context`:

| Failure point | Branch |
|---|---|
| before tx | prf / export_tx |
| bad tx key | key_tx |
| after tx installed | export_rx |
| bad rx key | iv_rx |

**Fairness.** Real time always advances, so `WF(Tick)`. libev runs an expired timer as soon as the running callback returns, and no callback blocks, so `WF(TTimeout(p))`. Nothing is assumed of the network. `IDLE_TIMEOUT = 2` is the smallest value at which a read can fall strictly inside a timer's period. `server_liveness` uses `IDLE_TIMEOUT = 3`, so a session can read datagrams in two different ticks before its deadline (14776 states, about 10 s).

**Deadlock.** `CHECK_DEADLOCK FALSE` is used only because, in the models, the undefined-behaviour states (`ub`: use after free, null `conn_`) are final: the process's behaviour is undefined afterwards. In every other state some datagram is always possible.

## Not modelled

- The BIO method table plumbing (`bio_puts`, `bio_gets`, `bio_ctrl`, `bio_create`, `bio_destroy`): it changes no state.
- `create_ssl_ctx`, `create_sock`, `serve`, `main`.
- The AEAD overhead and randomness (connection IDs, packet numbers).
- `recvfrom` errors, and `create_conn_key` failing: both are dropped datagrams.
- The header fields of the Version Negotiation packet (`conn_id`, `pkt_num`, `version`). They are copied from the request (662-664). A property about them would only restate the three assignments.
- The growth of `shandshake_` and `chandshake_` (367). In the model a handshake has a fixed length, so the queues are bounded by construction. A peer sending without end is outside what TLC can explore.

- The lifecycle of spec §4.3 (Handshaking → Established → Closed) as a separate abstract module. It would map `live[p]` and `hs[p].conn.st` onto the three phases. The only step that leaves the handshake state is `after_recv`, and nothing returns to it. So the refinement holds by the shape of `ConnRec`, whatever `server.cc` does, and no plausible mutant of the code breaks it. What the code can get wrong about that lifecycle is checked by `KeysMatchHandshake` (keys installed exactly when the handshake completes) and by `EntryEventuallyEvicted` (Closed removes the Session).
- The timed liveness model with three peers: see Bounds.
- That crypto setup runs once although `tls_handshake` re-signals completion on every call (343). `server.cc` has no guard of its own, so once-ness rests entirely on the ngtcp2 engine, which is modelled from the spec. A property would check that engine model, not this code.
- The `0x?a?a?a?a` pattern of the reserved version: the two masks at 644-645 force it whatever the hash is, so a property would only restate them.
