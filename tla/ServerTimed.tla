---------------------------- MODULE ServerTimed -----------------------------
(***************************************************************************)
(* Server with time.  Handler::Handler sets up timer_ as a one-shot 5 s    *)
(* timer (ev_timer_init(&timer_, timeoutcb, 5., 0.)) and Handler::init     *)
(* starts it; nothing ever restarts it.  Time is counted in ticks of a     *)
(* global clock, relative to each live Handler:                            *)
(*                                                                         *)
(*   armed[p]: ticks since the peer's Handler started its timer;           *)
(*   quiet[p]: ticks since that Handler last read a datagram without       *)
(*             error (or since it was made).                               *)
(*                                                                         *)
(* Both stop counting at IDLE_TIMEOUT, the 5 s of the timer, and are 0     *)
(* when the peer has no live Handler.  Each Server action is composed with *)
(* what it does to the two clocks.                                          *)
(***************************************************************************)
EXTENDS Server

CONSTANT IDLE_TIMEOUT   \* the timer's 5 s, in ticks

ASSUME IDLE_TIMEOUT \in Nat \ {0}

VARIABLES armed, quiet

tvars == <<vars, armed, quiet>>

Restart(clock, p) == [clock EXCEPT ![p] = 0]

TInit ==
  /\ Init
  /\ armed = [p \in Peers |-> 0]
  /\ quiet = [p \in Peers |-> 0]

\* Time passes.  libev runs an expired timer's callback before the loop
\* waits again, so time does not pass an armed timer's deadline.
Tick ==
  /\ ub = "none"
  /\ \E p \in Peers : live[p]
  /\ \A p \in Peers : timers[p] => armed[p] < IDLE_TIMEOUT
  /\ armed' = [p \in Peers |-> IF live[p] THEN Min({armed[p] + 1, IDLE_TIMEOUT}) ELSE 0]
  /\ quiet' = [p \in Peers |-> IF live[p] THEN Min({quiet[p] + 1, IDLE_TIMEOUT}) ELSE 0]
  /\ UNCHANGED vars

\* A new Handler: init starts the timer now.
TNewSession(p) ==
  /\ NewSession(p)
  /\ armed' = Restart(armed, p)
  /\ quiet' = Restart(quiet, p)

\* A datagram for a live Handler: a successful read makes it active again;
\* the timer keeps running (Handler::on_read does not touch timer_).  An
\* erased Handler has no clocks.
TDispatch(p) ==
  /\ Dispatch(p)
  /\ quiet' = Restart(quiet, p)
  /\ armed' = IF live'[p] THEN armed ELSE Restart(armed, p)

\* timeoutcb runs once the timer has run its 5 s.
TTimeout(p) ==
  /\ armed[p] = IDLE_TIMEOUT
  /\ Timeout(p)
  /\ armed' = Restart(armed, p)
  /\ quiet' = Restart(quiet, p)

TNext ==
  \/ Tick
  \/ \E p \in Peers :
       \/ TNewSession(p)
       \/ TDispatch(p)
       \/ TTimeout(p)
       \/ (SendVersionNegotiation(p) \/ DispatchToDeleted(p)) /\ UNCHANGED <<armed, quiet>>

TSpec == TInit /\ [][TNext]_tvars

\* Time always advances, and libev runs every expired timer.
TFairSpec == TSpec /\ WF_tvars(Tick) /\ \A p \in Peers : WF_tvars(TTimeout(p))

-----------------------------------------------------------------------------
\* The idle timer only deletes a Handler that has been idle for the whole
\* timeout: spec 4.3 re-arms the timer on every successful read, while
\* timeoutcb runs 5 s after Handler::init whatever was read since.
IdleTimeoutOnlyWhenIdle ==
  [][\A p \in Peers : (live[p] /\ ~live'[p] /\ handlers'[p]) => quiet[p] = IDLE_TIMEOUT]_tvars

\* A Handler that has been idle for the whole timeout is deleted, unless it
\* reads a datagram first (spec 8: a Session with no datagrams for the
\* idle-timeout duration is evicted).  It rests on every path into
\* handlers_ starting timer_ (Handler::init) and on libev running expired
\* timers (timeoutcb); it holds for a timer that is re-armed on every read
\* as well as for the one-shot timer of server.cc.
IdleSessionEventuallyReleased ==
  \A p \in Peers :
    (live[p] /\ quiet[p] = IDLE_TIMEOUT) ~> (~live[p] \/ quiet[p] < IDLE_TIMEOUT \/ ub # "none")

=============================================================================
