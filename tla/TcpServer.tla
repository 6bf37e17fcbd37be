----------------------------- MODULE TcpServer -----------------------------
(***************************************************************************)
(* The multi-connection server of src/socket.rs: a table of connections    *)
(* keyed by 4-tuple over one PacketIo, a backlog of established ones and   *)
(* the set of those already announced.                                     *)
(*                                                                         *)
(* poll is three steps, because datagrams keep arriving while it runs:     *)
(* timers, then any number of datagrams, then flush, announce and reap.    *)
(* Each send may fail, and the `?' after it ends the poll right there.     *)
(* recv only drains bytes that nothing else looks at and is left out.      *)
(***************************************************************************)
EXTENDS Connection

CONSTANTS
    Quads,       \* the 4-tuples that peers use
    Incoming,    \* the segments that may arrive on any of them
    Isns,        \* our initial sequence numbers (random in the code)
    Cwnds,       \* values of the congestion window
    MaxAccepts,  \* bound on the connections accepted
    MaxFaults,   \* bound on the sends that fail
    MaxSends     \* bound on the bytes the application sends

ASSUME ServerAssumption ==
    /\ Incoming \subseteq Segment
    /\ Isns \subseteq SeqNum
    /\ Cwnds \subseteq Nat
    /\ MaxAccepts \in Nat /\ MaxFaults \in Nat /\ MaxSends \in Nat

VARIABLES
    conns,      \* HashMap<Quad, Connection>
    backlog,    \* quads that wait for accept_one
    announced,  \* quads whose connection has been put in the backlog
    phase,      \* "polling"; or the application's turn: "idle", "failed" after a poll that failed
    held,       \* quads the application has taken with accept_one
    given,      \* quads taken since their present connection was opened
    offers,     \* how often the connection of a quad has been put in the backlog
    accepts, faults, sends   \* connections accepted, sends that failed, bytes sent so far

serverVars == << conns, backlog, announced, phase, held, given, offers, accepts, faults, sends >>

SE == INSTANCE SequencesExt

State4(q) == IF q \in DOMAIN conns THEN conns[q].state ELSE "none"

\* bind
ServerInit ==
    /\ conns = << >>
    /\ backlog = << >>
    /\ announced = {}
    /\ phase = "idle"
    /\ held = {}
    /\ given = {}
    /\ offers = [q \in Quads |-> 0]
    /\ accepts = 0
    /\ faults = 0
    /\ sends = 0

\* A send fails: poll returns the error at once.
SendFails ==
    /\ faults < MaxFaults
    /\ faults' = faults + 1
    /\ phase' = "failed"

-----------------------------------------------------------------------------
(* poll, phase 1: timers *)

\* What a timer can do something to: connections that the reaper or 2 MSL ends, queued segments
\* to resend (with their 4-tuple), connections whose persist timer runs.
Expirable(T) == {q \in T : conns[q].state \in {"TimeWait", "FinWait2", "CloseWait"}}

Resendable(T) == UNION {{q} \X Holes(conns[q].retx) : q \in T}

Armed(T) == {q \in T : conns[q].persist}

\* on_tick for the connections of T.  RACK and the tail loss probe resend without a timeout; an
\* RTO (rto) resends at least one hole.  The server never turns keepalive on.
Ticked(T, expired, resend, rto, persist) ==
    [q \in T |-> on_tick(conns[q],
        [expired |-> q \in expired,
         resend |-> {u \in Holes(conns[q].retx) : << q, u >> \in resend},
         rto |-> q \in rto, persist |-> q \in persist, keepalive |-> FALSE], 0)]

QuadsOf(resend) == {x[1] : x \in resend}

PollTimers ==
    /\ phase # "polling"
    /\ \E e \in SUBSET Expirable(DOMAIN conns), r \in SUBSET Resendable(DOMAIN conns),
          p \in SUBSET Armed(DOMAIN conns) :
       \E rto \in SUBSET QuadsOf(r) :
       \E f \in {Ticked(DOMAIN conns, e, r, rto, p)} :
          conns' = [q \in DOMAIN conns |-> f[q].tcb]
    /\ phase' = "polling"
    /\ UNCHANGED << backlog, announced, held, given, offers, accepts, faults, sends >>

\* The connections of T were served before a packet of one of them was refused.
PollTimersFail ==
    /\ phase # "polling"
    /\ SendFails
    /\ \E T \in SUBSET DOMAIN conns :
       \E e \in SUBSET Expirable(T), r \in SUBSET Resendable(T), p \in SUBSET Armed(T) :
       \E rto \in SUBSET QuadsOf(r) : \E f \in {Ticked(T, e, r, rto, p)} :
          /\ \E q \in T : f[q].out # {}
          /\ conns' = [q \in DOMAIN conns |-> IF q \in T THEN f[q].tcb ELSE conns[q]]
    /\ UNCHANGED << backlog, announced, held, given, offers, accepts, sends >>

-----------------------------------------------------------------------------
(* poll, phase 2: datagrams *)

\* A segment of a known 4-tuple; what it has to say in return may fail to leave.
Route(q, s) ==
    \E r \in {on_segment(conns[q], s, FALSE, 0)} :
        /\ conns' = [conns EXCEPT ![q] = r.tcb]
        /\ \/ UNCHANGED << phase, faults >>
           \/ r.out # {} /\ SendFails
        /\ UNCHANGED << backlog, announced, held, given, offers, accepts, sends >>

\* HashMap::insert
Inserted(q, c) == [k \in DOMAIN conns \cup {q} |-> IF k = q THEN c ELSE conns[k]]

\* A SYN of an unknown one.  The connection is inserted once its SYN-ACK has left.
Accept(q, s) ==
    /\ s.flags \cap {"SYN", "ACK"} = {"SYN"}
    /\ accepts < MaxAccepts
    /\ \/ /\ \E iss \in Isns : conns' = Inserted(q, accept(s, iss, 0).tcb)
          /\ offers' = [offers EXCEPT ![q] = 0]
          /\ given' = given \ {q}
          /\ accepts' = accepts + 1
          /\ UNCHANGED << phase, faults >>
       \/ /\ SendFails
          /\ UNCHANGED << conns, offers, given, accepts >>
    /\ UNCHANGED << backlog, announced, held, sends >>

\* Anything else of an unknown 4-tuple is ignored.
Ingest ==
    /\ phase = "polling"
    /\ \E q \in Quads, s \in Incoming :
          IF q \in DOMAIN conns THEN Route(q, s) ELSE Accept(q, s)

-----------------------------------------------------------------------------
(* poll, phases 3 and 4: flush, announce, reap *)

Flushed(T, cwnd) == [q \in T |-> poll_transmit(conns[q], cwnd, 0)]

\* Mutant: the backlog takes one entry at a time.
UnannouncedIfRoom(T) ==
    {q \in T : conns[q].state = "Established" /\ q \notin announced /\ backlog = << >>}

Unannounced(T) == {q \in T : conns[q].state = "Established" /\ q \notin announced}

\* The connections of T enter the backlog, in the order of the hash table.
Announce(T) ==
    /\ \E order \in SE!SetToSeqs(Unannounced(T)) : backlog' = backlog \o order
    /\ offers' = [q \in Quads |-> offers[q] + (IF q \in Unannounced(T) THEN 1 ELSE 0)]

\* Mutant: a reaped 4-tuple stays announced.
ForgetNothing(gone, T) == announced \cup Unannounced(T)

StillAnnounced(gone, T) == (announced \cup Unannounced(T)) \ gone

\* Mutant: only what the application knows of is reaped.
ClosedAnnounced == {q \in announced \cap DOMAIN conns : conns[q].state = "Closed"}

\* What the retain of phase 4 drops (poll_transmit changes no state).
ClosedConns == {q \in DOMAIN conns : conns[q].state = "Closed"}

PollEnd ==
    /\ phase = "polling"
    /\ \E cwnd \in Cwnds : \E f \in {Flushed(DOMAIN conns, cwnd)}, gone \in {ClosedConns} :
          /\ conns' = [q \in DOMAIN conns \ gone |-> f[q].tcb]
          /\ announced' = StillAnnounced(gone, DOMAIN conns)
    /\ Announce(DOMAIN conns)
    /\ phase' = "idle"
    /\ UNCHANGED << held, given, accepts, faults, sends >>

\* T is flushed and announced; then a packet of b is refused and nothing is reaped.
PollEndFails ==
    /\ phase = "polling"
    /\ \E b \in DOMAIN conns : \E T \in SUBSET (DOMAIN conns \ {b}), cwnd \in Cwnds :
       \E f \in {Flushed(T \cup {b}, cwnd)} :
          /\ f[b].out # {}
          /\ conns' = [q \in DOMAIN conns |->
                         IF q \in T \cup {b} THEN f[q].tcb ELSE conns[q]]
          /\ announced' = announced \cup Unannounced(T)
          /\ Announce(T)
    /\ SendFails
    /\ UNCHANGED << held, given, accepts, sends >>

-----------------------------------------------------------------------------
(* The application's calls, between polls *)

accept_one ==
    /\ phase # "polling"
    /\ backlog # << >>
    /\ backlog' = Tail(backlog)
    /\ held' = held \cup {Head(backlog)}
    /\ given' = given \cup {Head(backlog)}
    /\ UNCHANGED << conns, announced, phase, offers, accepts, faults, sends >>

\* send and close look the 4-tuple up: a handle of a connection long gone reaches its successor.
send ==
    /\ phase # "polling"
    /\ sends < MaxSends
    /\ sends' = sends + 1
    /\ \E q \in held \cap DOMAIN conns : conns' = [conns EXCEPT ![q] = write(@, << 1 >>)]
    /\ UNCHANGED << backlog, announced, phase, held, given, offers, accepts, faults >>

server_close ==
    /\ phase # "polling"
    /\ \E q \in held \cap DOMAIN conns :
          /\ conns[q].state \in SendOpen
          /\ conns' = [conns EXCEPT ![q] = close(@, 0).tcb]
    /\ UNCHANGED << backlog, announced, phase, held, given, offers, accepts, faults, sends >>

ServerNext ==
    \/ PollTimers \/ PollTimersFail \/ Ingest \/ PollEnd \/ PollEndFails
    \/ accept_one \/ send \/ server_close

ServerSpec == ServerInit /\ [][ServerNext]_serverVars

(***************************************************************************)
(* The application keeps polling and every batch of datagrams ends.  Sends *)
(* fail at most MaxFaults times.                                           *)
(***************************************************************************)
ServerFairSpec ==
    ServerSpec /\ WF_serverVars(PollTimers) /\ WF_serverVars(PollEnd)

-----------------------------------------------------------------------------
(* Properties *)

(***************************************************************************)
(* A connection is put in the backlog at most once, and announced says so: *)
(* across failed polls, resets in mid-batch and a 4-tuple that is used     *)
(* again after its first connection was reaped.                            *)
(***************************************************************************)
OfferedOnce ==
    /\ announced \subseteq DOMAIN conns
    /\ \A q \in DOMAIN conns : offers[q] = (IF q \in announced THEN 1 ELSE 0)

(***************************************************************************)
(* No announcement is lost: an announced connection can be reached by the  *)
(* application, because its 4-tuple waits in the backlog or was taken with *)
(* accept_one during the life of that very connection.  A handle of an     *)
(* earlier connection on the same 4-tuple does not count.                  *)
(***************************************************************************)
AnnouncedIsReachable == announced \subseteq SE!ToSet(backlog) \cup given

(***************************************************************************)
(* Under steady polling every established connection is offered, however   *)
(* many polls failed before: it is announced or leaves ESTABLISHED.  (One  *)
(* that leaves first, because its FIN came in the batch that completed the *)
(* handshake, is never announced.)                                         *)
(***************************************************************************)
EstablishedIsOffered ==
    \A q \in Quads :
        State4(q) = "Established" /\ q \notin announced
            ~> q \in announced \/ State4(q) # "Established"

\* A connection that reaches CLOSED leaves the table, although a failed poll skips the reaping.
ClosedIsReaped ==
    \A q \in Quads : State4(q) = "Closed" ~> State4(q) # "Closed"

=============================================================================
