-------------------------- MODULE HandshakeStream --------------------------
(***************************************************************************)
(* What the handshake-to-datagram bridge of each session promises: the two *)
(* cleartext handshake byte streams that cross it behave as FIFO pipes.    *)
(*                                                                         *)
(*   delivered: client handshake bytes the transport engine handed to the  *)
(*              bridge (recv_handshake_data), in stream order;             *)
(*   consumed:  the bytes the TLS engine has read out of the bridge;       *)
(*   produced:  server handshake bytes the TLS engine wrote into it;       *)
(*   sent:      the bytes that left in packets.                            *)
(*                                                                         *)
(* Every step only extends the four streams, the TLS engine only ever sees *)
(* a prefix of what was delivered, and the wire only ever carries a prefix *)
(* of what was produced: no byte is lost in the middle, duplicated or      *)
(* reordered.  Close ends the session and forgets everything.              *)
(***************************************************************************)
EXTENDS Sequences, SequencesExt

CONSTANTS
  Sessions,  \* the sessions that may exist (one per peer endpoint)
  Bytes

VARIABLES delivered, consumed, produced, sent   \* each: session -> stream

vars == <<delivered, consumed, produced, sent>>

Init ==
  /\ delivered = [s \in Sessions |-> <<>>]
  /\ consumed = [s \in Sessions |-> <<>>]
  /\ produced = [s \in Sessions |-> <<>>]
  /\ sent = [s \in Sessions |-> <<>>]

Others(s) == Sessions \ {s}

\* Session s delivers, consumes, produces and sends in any mix, as long as
\* each stream only grows and the readers stay prefixes of the writers.
Progress(s) ==
  /\ IsPrefix(delivered[s], delivered'[s])
  /\ IsPrefix(consumed[s], consumed'[s])
  /\ IsPrefix(consumed'[s], delivered'[s])
  /\ IsPrefix(produced[s], produced'[s])
  /\ IsPrefix(sent[s], sent'[s])
  /\ IsPrefix(sent'[s], produced'[s])
  /\ \A o \in Others(s) : /\ delivered'[o] = delivered[o] /\ consumed'[o] = consumed[o]
                         /\ produced'[o] = produced[o] /\ sent'[o] = sent[o]

\* Session s ends: everything it had is forgotten.
Close(s) ==
  /\ delivered' = [delivered EXCEPT ![s] = <<>>]
  /\ consumed' = [consumed EXCEPT ![s] = <<>>]
  /\ produced' = [produced EXCEPT ![s] = <<>>]
  /\ sent' = [sent EXCEPT ![s] = <<>>]

Next == \E s \in Sessions : Progress(s) \/ Close(s)

Spec == Init /\ [][Next]_vars

=============================================================================
