------------------------------ MODULE Server -------------------------------
(***************************************************************************)
(* The UDP server of examples/server.cc: the session table handlers_ keyed *)
(* by peer endpoint (create_conn_key), the dispatch in Server::on_read,    *)
(* the per-Handler idle timer, and the Handlers themselves (module         *)
(* Handler).  One libev thread runs everything, so each datagram and each  *)
(* timer expiry is one atomic step.                                        *)
(*                                                                         *)
(* A peer is a model value standing for its numeric "[host]:port" key.     *)
(* The table entry and the Handler object are kept apart because the code  *)
(* lets them disagree: timeoutcb deletes the Handler while handlers_ still *)
(* owns it.  A dropped datagram (too short for its address family,         *)
(* rejected by ngtcp2_accept, or not a Client Initial) changes nothing and *)
(* is a stuttering step.                                                   *)
(***************************************************************************)
EXTENDS Handler

CONSTANT Peers

VARIABLES
  handlers,  \* handlers_: peer -> has an entry
  live,      \* the entry's Handler object has not been deleted
  hs,        \* state of the peer's Handler (Handler_init when there is none)
  vn,        \* a Version Negotiation packet went to the peer
  ub,        \* undefined behaviour the server ran into; nothing is defined after
  sendloss,  \* (history) a session was dropped because a sendto failed
  timers     \* the libev loop holds an active timer_ of a Handler made for the peer

vars == <<handlers, live, hs, vn, ub, sendloss, timers>>

\* ub: "use_after_free" (on_read on a Handler deleted by its timer) or
\* "null_conn" (on_read on a Handler whose init left conn_ nullptr).
UB == {"none", "use_after_free", "null_conn"}

\* Types, with the bridge's cursors inside their queues (spec, section 3).
TypeOK ==
  /\ handlers \in [Peers -> BOOLEAN]
  /\ live \in [Peers -> BOOLEAN]
  /\ hs \in [Peers -> HandlerRec]
  /\ \A p \in Peers : /\ hs[p].nsread <= Len(hs[p].shandshake)
                     /\ hs[p].ncread <= Len(hs[p].chandshake)
  /\ vn \in [Peers -> BOOLEAN]
  /\ ub \in UB
  /\ sendloss \in BOOLEAN
  /\ timers \in [Peers -> BOOLEAN]

Init ==
  /\ handlers = [p \in Peers |-> FALSE]
  /\ live = [p \in Peers |-> FALSE]
  /\ hs = [p \in Peers |-> Handler_init]
  /\ vn = [p \in Peers |-> FALSE]
  /\ ub = "none"
  /\ sendloss = FALSE
  /\ timers = [p \in Peers |-> FALSE]

\* The client learns the server flight only from the wire; before it has
\* it, it can send no Finished and no 1-RTT packet.  Handshake packets carry
\* the client stream up to some offset (retransmissions included).
ClientHasFlight(p) == hs[p].wire = ServerFlight

DatagramsFor(p) ==
  LET top == IF ClientHasFlight(p) THEN CL ELSE CH_LEN IN
  {[kind |-> k, upto |-> u] : k \in {"initial", "cleartext"}, u \in 0..top}
  \cup (IF ClientHasFlight(p) THEN {[kind |-> "protected", upto |-> 0]} ELSE {})
  \cup {[kind |-> "other", upto |-> 0]}

-----------------------------------------------------------------------------
(* Server::on_read                                                         *)

\* Unknown key, long enough, ngtcp2_accept reports an unsupported version:
\* send_version_negotiation; no Handler is made.
SendVersionNegotiation(p) ==
  /\ ub = "none"
  /\ ~handlers[p]
  /\ vn' = [vn EXCEPT ![p] = TRUE]
  /\ UNCHANGED <<handlers, live, hs, ub, sendloss, timers>>

\* Unknown key, a full-size Client Initial: a Handler is made, initialised
\* (the result of init is ignored) and fed the datagram; it enters the
\* table only if on_read returned 0, otherwise the unique_ptr destroys it.
\* on_read of a Handler without a conn_ hands nullptr to ngtcp2_conn_recv.
NewSession(p) ==
  /\ ub = "none"
  /\ ~handlers[p]
  /\ \E h0 \in Handler_init_results :
       IF h0.conn.st = "null"
       THEN /\ ub' = "null_conn"
            /\ UNCHANGED <<handlers, live, hs, vn, sendloss, timers>>
       ELSE \E u \in 0..CH_LEN : \E r \in on_read(h0, [kind |-> "initial", upto |-> u]) :
              IF r.rv # 0
              THEN /\ sendloss' = (sendloss \/ r.h.sendfail)
                   /\ timers' = [timers EXCEPT ![p] = @ \/ Handler_destroy(r.h).timer]
                   /\ UNCHANGED <<handlers, live, hs, vn, ub>>
              ELSE /\ handlers' = [handlers EXCEPT ![p] = TRUE]
                   /\ live' = [live EXCEPT ![p] = TRUE]
                   /\ hs' = [hs EXCEPT ![p] = r.h]
                   /\ timers' = [timers EXCEPT ![p] = r.h.timer]
                   /\ UNCHANGED <<vn, ub, sendloss>>

\* Known key: the datagram goes to the Handler; on error the entry is
\* erased and the Handler destroyed.
Dispatch(p) ==
  /\ ub = "none"
  /\ handlers[p]
  /\ live[p]
  /\ \E d \in DatagramsFor(p) : \E r \in on_read(hs[p], d) :
       IF r.rv # 0
       THEN /\ handlers' = [handlers EXCEPT ![p] = FALSE]
            /\ live' = [live EXCEPT ![p] = FALSE]
            /\ hs' = [hs EXCEPT ![p] = Handler_init]
            /\ sendloss' = (sendloss \/ r.h.sendfail)
            /\ timers' = [timers EXCEPT ![p] = Handler_destroy(r.h).timer]
       ELSE /\ hs' = [hs EXCEPT ![p] = r.h]
            /\ UNCHANGED <<handlers, live, sendloss, timers>>
  /\ UNCHANGED <<vn, ub>>

\* Known key whose Handler was deleted by its timer: h->on_read runs on
\* freed memory.
DispatchToDeleted(p) ==
  /\ ub = "none"
  /\ handlers[p]
  /\ ~live[p]
  /\ ub' = "use_after_free"
  /\ UNCHANGED <<handlers, live, hs, vn, sendloss, timers>>

\* The loop runs the peer's expired timer: timeoutcb does `delete h`
\* (~Handler); the one-shot timer is no longer active.  handlers_ is not
\* told.
Timeout(p) ==
  /\ ub = "none"
  /\ timers[p]
  /\ live[p]
  /\ live' = [live EXCEPT ![p] = FALSE]
  /\ hs' = [hs EXCEPT ![p] = Handler_init]
  /\ timers' = [timers EXCEPT ![p] = FALSE]
  /\ UNCHANGED <<handlers, vn, ub, sendloss>>

\* One datagram, whose recvfrom/create_conn_key give a peer and whose lookup
\* in handlers_ picks the branch, or one expired timer.
Next ==
  \E p \in Peers :
    \/ SendVersionNegotiation(p)
    \/ NewSession(p)
    \/ Dispatch(p)
    \/ DispatchToDeleted(p)
    \/ Timeout(p)

Spec == Init /\ [][Next]_vars

\* libev runs every expired timer once the current callback returns, and
\* no callback blocks: an armed timer cannot be starved.
FairSpec == Spec /\ \A p \in Peers : WF_vars(Timeout(p))

-----------------------------------------------------------------------------
(* Properties                                                              *)

\* Server::on_read never calls on_read on a Handler that timeoutcb deleted
\* while its handlers_ entry stayed behind (timer expiry, then any datagram
\* from the same endpoint).
NoUseAfterFree == ub # "use_after_free"

\* The keys of a live session match its handshake (setup_crypto_context,
\* run from the engine's handshake_completed callback after tls_handshake
\* signalled completion): keys are installed in both directions or in
\* neither, exactly when the engine has left the handshake state, and only
\* once OpenSSL has finished.  A failure after the tx keys went in must
\* take the whole session down.
KeysMatchHandshake ==
  \A p \in Peers : live[p] =>
    LET c == hs[p].conn IN
    /\ (c.tx = "none") = (c.rx = "none")
    /\ (c.rx # "none") = (c.st = "post")
    /\ c.st = "post" => hs[p].tls = "done"

\* A session only enters handlers_ after its first on_write put the whole
\* server flight on the wire (send_server_cleartext refuses an empty first
\* packet, i.e. a Client Initial without a complete ClientHello).
AdmittedAfterServerFlight ==
  \A p \in Peers : live[p] => hs[p].wire = ServerFlight

\* After every step, every derived key a live session holds is a key that
\* was derived successfully (a failed derivation aborts the session).
InstalledKeysValid ==
  \A p \in Peers : live[p] => "invalid" \notin {hs[p].conn.tx, hs[p].conn.rx}

\* The bridge of each peer's session is a pair of FIFO byte pipes: OpenSSL
\* reads a prefix of what recv_handshake_data delivered, and packets carry
\* a prefix of what OpenSSL wrote, with nothing duplicated or reordered.
Stream == INSTANCE HandshakeStream WITH
  Sessions <- Peers,
  delivered <- [p \in Peers |-> hs[p].shandshake],
  consumed <- [p \in Peers |-> hs[p].tlsbuf],
  produced <- [p \in Peers |-> hs[p].chandshake],
  sent <- [p \in Peers |-> hs[p].wire]
BridgeIsFifo == Stream!Spec

\* libev holds a Handler's timer exactly while the Handler exists: init
\* starts it, and every way a Handler ends (the unique_ptr of a refused
\* new session, the erase after an error, timeoutcb) stops it in
\* ~Handler, so the loop never runs timeoutcb on a freed Handler and no
\* live Handler is left without its timer.
TimerArmedWhileLive == \A p \in Peers : timers[p] = live[p]

\* Server::on_read never passes a datagram to a Handler whose init failed:
\* a Handler without a conn_ is never fed (ngtcp2_conn_server_new failing
\* in init, then h->on_read).
NoNullConnUse == ub # "null_conn"

\* A failed sendto never costs a session: spec 4.1 and 7 call socket write
\* errors transient, logged and non-fatal (Handler::on_write returning -1
\* on sendto failure, then Server::on_read erasing or discarding the
\* Handler).
WriteFailureKeepsSession == ~sendloss

\* Every session table entry is eventually evicted: spec 3 and 7 (4) send
\* an idle timeout down the session-fatal path, which removes the Session
\* from the table.  timeoutcb deletes the Handler but leaves its entry in
\* handlers_, so without further datagrams the table keeps one entry per
\* peer that ever timed out.
EntryEventuallyEvicted == \A p \in Peers : handlers[p] ~> (~handlers[p] \/ ub # "none")

=============================================================================
