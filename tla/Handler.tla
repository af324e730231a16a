------------------------------ MODULE Handler ------------------------------
(***************************************************************************)
(* One QUIC session of examples/server.cc (class Handler), as operators on *)
(* a record holding the Handler's state.  Everything a Handler does runs   *)
(* to completion inside one libev callback, so the operators compose the   *)
(* code's calls in the order it makes them and return the SET of possible  *)
(* outcomes; the nondeterminism is exactly where the code meets OpenSSL,   *)
(* the ngtcp2 connection engine or the socket.                             *)
(*                                                                         *)
(* Data is abstracted to positions: the client's handshake bytes are       *)
(* 1..CH_LEN+FIN_LEN (ClientHello, then Finished), the server's flight is  *)
(* FLIGHT_LEN further values.  The ngtcp2 engine and the TLS engine are not    *)
(* in src/; they are modelled at the interface the spec gives them.        *)
(***************************************************************************)
EXTENDS Integers, Sequences, SequencesExt

CONSTANTS
  CH_LEN,           \* bytes of the client's ClientHello
  FIN_LEN,          \* bytes of the client's Finished
  FLIGHT_LEN,           \* bytes of the server flight (ServerHello .. Finished)
  CryptoFailPoints, \* steps of setup_crypto_context that may fail
  ConnNewMayFail    \* ngtcp2_conn_server_new may fail (out of memory)

ASSUME CH_LEN \in Nat \ {0} /\ FIN_LEN \in Nat \ {0} /\ FLIGHT_LEN \in Nat \ {0}

CryptoSteps == {"prf", "aead", "export_tx", "key_tx", "iv_tx",
                "export_rx", "key_rx", "iv_rx"}
ASSUME CryptoFailPoints \subseteq CryptoSteps
ASSUME ConnNewMayFail \in BOOLEAN

CL == CH_LEN + FIN_LEN
ClientStream == [i \in 1..CL |-> i]
ServerFlight == [i \in 1..FLIGHT_LEN |-> CL + i]
Bytes == 1..(CL + FLIGHT_LEN)

ERR == -1   \* NGTCP2_ERR_CALLBACK_FAILURE, and the -1 of the Handler methods

KeyStates == {"none", "valid", "invalid"}

\* State of the ngtcp2_conn as the example sees it through its API.
\* st "null" stands for conn_ == nullptr.
ConnRec == [st: {"hs", "post", "null"}, hsflag: BOOLEAN, first: BOOLEAN, ack: BOOLEAN,
            tx: KeyStates, rx: KeyStates]

HandlerRec ==
  [shandshake: Seq(Bytes), nsread: Nat,   \* client bytes, TLS read cursor
   chandshake: Seq(Bytes), ncread: Nat,   \* server bytes, packet cursor
   tls: {"wait_ch", "wait_fin", "done", "failed"},
   tlsbuf: Seq(Bytes),                    \* what OpenSSL read via the BIO
   conn: ConnRec,
   ctx: 0..2,                             \* times crypto_ctx_ was populated
   timer: BOOLEAN,                        \* timer_ armed
   wire: Seq(Bytes),                      \* handshake bytes handed to sendto
   sendfail: BOOLEAN]                     \* (history) a sendto returned -1

-----------------------------------------------------------------------------
\* Mutant: init returns before ev_timer_start.
Handler_init_no_timer ==
  [shandshake |-> <<>>, nsread |-> 0, chandshake |-> <<>>, ncread |-> 0,
   tls |-> "wait_ch", tlsbuf |-> <<>>,
   conn |-> [st |-> "hs", hsflag |-> FALSE, first |-> FALSE, ack |-> FALSE,
             tx |-> "none", rx |-> "none"],
   ctx |-> 0, timer |-> FALSE, wire |-> <<>>, sendfail |-> FALSE]

(* Handler::Handler and Handler::init: fresh buffers, SSL in accept state, *)
(* a server ngtcp2_conn, the 5 s one-shot timer started.                   *)
Handler_init ==
  [shandshake |-> <<>>, nsread |-> 0, chandshake |-> <<>>, ncread |-> 0,
   tls |-> "wait_ch", tlsbuf |-> <<>>,
   conn |-> [st |-> "hs", hsflag |-> FALSE, first |-> FALSE, ack |-> FALSE,
             tx |-> "none", rx |-> "none"],
   ctx |-> 0, timer |-> TRUE, wire |-> <<>>, sendfail |-> FALSE]

\* What a Handler is after Server::on_read's make_unique and h->init: the
\* above, or, when ngtcp2_conn_server_new fails, conn_ still nullptr and
\* init returned -1 before ev_timer_start.  Server::on_read ignores which.
Handler_init_results ==
  {Handler_init} \cup
  (IF ConnNewMayFail THEN {[Handler_init EXCEPT !.conn.st = "null", !.timer = FALSE]} ELSE {})

\* Mutant: a destructor that frees the engine and the SSL object only.
Handler_destroy_no_stop(h) == h

\* Handler::~Handler: ev_timer_stop(loop_, &timer_), then ngtcp2_conn_del
\* and SSL_free.  What is left that matters is whether the timer is active.
Handler_destroy(h) == [h EXCEPT !.timer = FALSE]

(* The bridge: the BIO methods and the four buffer methods behind them.   *)

\* bio_write -> write_server_handshake: append to chandshake_.
write_server_handshake(h, data) == [h EXCEPT !.chandshake = @ \o data]

\* Mutant: the cursor advanced by the buffer size instead of set to it.
read_server_handshake_add(h) ==
  [h |-> [h EXCEPT !.ncread = @ + Len(h.chandshake)],
   data |-> SubSeq(h.chandshake, h.ncread + 1, Len(h.chandshake))]

\* read_server_handshake: everything unread, and the cursor to the end.
read_server_handshake(h) ==
  [h |-> [h EXCEPT !.ncread = Len(h.chandshake)],
   data |-> SubSeq(h.chandshake, h.ncread + 1, Len(h.chandshake))]

\* Mutant: copy_n from std::begin(shandshake_), forgetting + nsread_.
read_client_handshake_from_start(h, len) ==
  LET n == Min({len, Len(h.shandshake) - h.nsread}) IN
  [h |-> [h EXCEPT !.tlsbuf = @ \o SubSeq(h.shandshake, 1, n),
                   !.nsread = @ + n],
   n |-> n]

\* bio_read -> read_client_handshake: up to len unread bytes copied into
\* OpenSSL's buffer; n = 0 is reported to OpenSSL as "retry read".
read_client_handshake(h, len) ==
  LET n == Min({len, Len(h.shandshake) - h.nsread}) IN
  [h |-> [h EXCEPT !.tlsbuf = @ \o SubSeq(h.shandshake, h.nsread + 1, h.nsread + n),
                   !.nsread = @ + n],
   n |-> n]

\* write_client_handshake: append what the transport delivered.
write_client_handshake(h, data) == [h EXCEPT !.shandshake = @ \o data]

\* The BIO OpenSSL reads and writes through.  bio_write accepts everything;
\* bio_read turns "nothing unread" into -1 with the retry flag set, never
\* into end of file.
bio_write(h, data) == write_server_handshake(h, data)

bio_read(h, len) ==
  LET r == read_client_handshake(h, len) IN
  [h |-> r.h, rv |-> IF r.n = 0 THEN -1 ELSE r.n]

-----------------------------------------------------------------------------
(* The TLS engine (OpenSSL's SSL_do_handshake, server side), reading and   *)
(* writing through the bridge.  It reads each message up to its end; a     *)
(* complete message may be rejected (the peer's bytes are bad).            *)
MsgEnd(st) == IF st = "wait_ch" THEN CH_LEN ELSE CL

RECURSIVE SSL_do_handshake(_)
SSL_do_handshake(h) ==
  CASE h.tls = "done"   -> {[h |-> h, rv |-> "complete"]}
    [] h.tls = "failed" -> {[h |-> h, rv |-> "ssl_error"]}
    [] OTHER ->
       LET r == bio_read(h, MsgEnd(h.tls) - Len(h.tlsbuf)) IN
       IF r.rv = -1 THEN {[h |-> h, rv |-> "want_read"]}
       ELSE IF Len(r.h.tlsbuf) < MsgEnd(h.tls) THEN SSL_do_handshake(r.h)
       ELSE {[h |-> [r.h EXCEPT !.tls = "failed"], rv |-> "ssl_error"]}
            \cup SSL_do_handshake(
                   IF h.tls = "wait_ch"
                   THEN [bio_write(r.h, ServerFlight) EXCEPT !.tls = "wait_fin"]
                   ELSE [r.h EXCEPT !.tls = "done"])

\* ngtcp2_conn_handshake_completed: the engine notes completion.
ngtcp2_conn_handshake_completed(h) == [h EXCEPT !.conn.hsflag = TRUE]

\* Handler::tls_handshake: WANT_READ/WRITE is 0, an SSL error is -1, and a
\* completed handshake (rv 1) is signalled to the engine, every time.
tls_handshake(h) ==
  { CASE r.rv = "complete"  -> [h |-> ngtcp2_conn_handshake_completed(r.h), rv |-> 0]
      [] r.rv = "want_read" -> [h |-> r.h, rv |-> 0]
      [] r.rv = "ssl_error" -> [h |-> r.h, rv |-> ERR]
    : r \in SSL_do_handshake(h) }

-----------------------------------------------------------------------------
(* Handler::setup_crypto_context, failing at step f (or "none").  Export  *)
(* failures return -1; a failed key or IV derivation is NOT caught: the    *)
(* code tests the stale rv of the export call and installs what it got.    *)
\* Mutant: the export of the client secret is not checked either.
setup_crypto_context_at_rx_unchecked(h, f) ==
  LET h1 == [h EXCEPT !.ctx = Min({@ + 1, 2})]
      h2 == [h1 EXCEPT !.conn.tx = IF f \in {"key_tx", "iv_tx"} THEN "invalid" ELSE "valid"]
      h3 == [h2 EXCEPT !.conn.rx = IF f \in {"key_rx", "iv_rx"} THEN "invalid" ELSE "valid"]
  IN CASE f \in {"prf", "aead", "export_tx"} -> [h |-> h1, rv |-> ERR]
       [] f = "export_rx"                     -> [h |-> h2, rv |-> 0]
       [] OTHER                               -> [h |-> h3, rv |-> 0]

setup_crypto_context_at(h, f) ==
  LET h1 == [h EXCEPT !.ctx = Min({@ + 1, 2})]
      h2 == [h1 EXCEPT !.conn.tx = IF f \in {"key_tx", "iv_tx"} THEN "invalid" ELSE "valid"]
      h3 == [h2 EXCEPT !.conn.rx = IF f \in {"key_rx", "iv_rx"} THEN "invalid" ELSE "valid"]
  IN CASE f \in {"prf", "aead", "export_tx"} -> [h |-> h1, rv |-> ERR]
       [] f = "export_rx"                     -> [h |-> h2, rv |-> ERR]
       [] OTHER                               -> [h |-> h3, rv |-> 0]

setup_crypto_context(h) ==
  { setup_crypto_context_at(h, f) : f \in CryptoFailPoints \cup {"none"} }

\* handshake_completed callback.
handshake_completed(h) ==
  { [h |-> r.h, rv |-> IF r.rv # 0 THEN ERR ELSE 0] : r \in setup_crypto_context(h) }

\* recv_handshake_data callback.
recv_handshake_data(h, data) ==
  { [h |-> r.h, rv |-> IF r.rv # 0 THEN ERR ELSE 0]
    : r \in tls_handshake(write_client_handshake(h, data)) }

\* send_server_cleartext callback; ppkt_num is non-null for the engine's
\* first server packet, which must carry the server's answer.
\* Mutant: without the check that the first packet is not empty.
send_server_cleartext_no_empty_check(h, ppkt_num) ==
  UNION { IF r.rv # 0 THEN {[h |-> r.h, rv |-> ERR, data |-> <<>>]}
          ELSE LET s == read_server_handshake(r.h) IN
               {[h |-> s.h, rv |-> Len(s.data), data |-> s.data]}
        : r \in tls_handshake(h) }

send_server_cleartext(h, ppkt_num) ==
  UNION { IF r.rv # 0 THEN {[h |-> r.h, rv |-> ERR, data |-> <<>>]}
          ELSE LET s == read_server_handshake(r.h) IN
               IF ppkt_num /\ Len(s.data) = 0
               THEN {[h |-> s.h, rv |-> ERR, data |-> <<>>]}
               ELSE {[h |-> s.h, rv |-> Len(s.data), data |-> s.data]}
        : r \in tls_handshake(h) }

\* do_encrypt / do_decrypt -> Handler::encrypt_data / decrypt_data: AEAD
\* with the key the engine holds; a key from a failed derivation fails.
aead_ok(key) == key = "valid"

-----------------------------------------------------------------------------
(* The ngtcp2 connection engine, at the interface the example uses.        *)

\* After a packet: once TLS has signalled completion, the engine leaves the
\* handshake state and calls handshake_completed, once.
after_recv(h) ==
  IF h.conn.hsflag /\ h.conn.st = "hs"
  THEN { [h |-> [r.h EXCEPT !.conn.st = "post"], rv |-> r.rv] : r \in handshake_completed(h) }
  ELSE {[h |-> h, rv |-> 0]}

\* ngtcp2_conn_recv of a datagram d.  Handshake packets carry the client
\* stream up to offset d.upto; only the bytes not yet delivered reach
\* recv_handshake_data.  A protected packet is decrypted with the rx key
\* (dropped while there is none) and must be acknowledged.  Anything else
\* the engine either ignores or rejects.
ngtcp2_conn_recv(h, d) ==
  CASE d.kind \in {"initial", "cleartext"} ->
         IF d.upto <= Len(h.shandshake) THEN after_recv(h)
         ELSE UNION { IF r.rv # 0 THEN {r} ELSE after_recv(r.h)
                      : r \in recv_handshake_data(h, SubSeq(ClientStream, Len(h.shandshake) + 1, d.upto)) }
    [] d.kind = "protected" ->
         CASE h.conn.rx = "none" -> {[h |-> h, rv |-> 0]}
           [] aead_ok(h.conn.rx)  -> {[h |-> [h EXCEPT !.conn.ack = TRUE], rv |-> 0]}
           [] OTHER               -> {[h |-> h, rv |-> ERR]}
    [] OTHER -> {[h |-> h, rv |-> 0], [h |-> h, rv |-> ERR]}

\* ngtcp2_conn_send: rv > 0 is a packet; data is the handshake payload.
ngtcp2_conn_send(h) ==
  CASE h.conn.st = "hs" ->
         { IF r.rv > 0 THEN [r EXCEPT !.h.conn.first = TRUE] ELSE r
           : r \in send_server_cleartext(h, ~h.conn.first) }
    [] h.conn.ack /\ aead_ok(h.conn.tx) ->
         {[h |-> [h EXCEPT !.conn.ack = FALSE], rv |-> 1, data |-> <<>>]}
    [] h.conn.ack -> {[h |-> h, rv |-> ERR, data |-> <<>>]}
    [] OTHER -> {[h |-> h, rv |-> 0, data |-> <<>>]}

-----------------------------------------------------------------------------
(* The Handler's read/write path.                                          *)

\* Handler::on_write: send until the engine has nothing more; an engine
\* error or a failed sendto ends the loop with -1.
RECURSIVE on_write(_)
on_write(h) ==
  UNION { CASE r.rv < 0 -> {[h |-> r.h, rv |-> ERR]}
            [] r.rv = 0 -> {[h |-> r.h, rv |-> 0]}
            [] OTHER    -> {[h |-> [r.h EXCEPT !.sendfail = TRUE], rv |-> ERR]} \* sendto
                           \cup on_write([r.h EXCEPT !.wire = @ \o r.data])
        : r \in ngtcp2_conn_send(h) }

\* Handler::feed_data: ngtcp2_conn_recv, any error is -1.
feed_data(h, d) ==
  { [h |-> r.h, rv |-> IF r.rv # 0 THEN ERR ELSE 0] : r \in ngtcp2_conn_recv(h, d) }

\* Handler::on_read: feed the datagram, then drain the engine.
on_read(h, d) ==
  UNION { IF r.rv # 0 THEN {r} ELSE on_write(r.h) : r \in feed_data(h, d) }

=============================================================================
