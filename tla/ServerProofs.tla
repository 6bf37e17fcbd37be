---------------------------- MODULE ServerProofs ----------------------------
(***************************************************************************)
(* TcpServer offers each connection once and the offer reaches the         *)
(* application: for any number of peers, any segments, any number of       *)
(* failed sends and 4-tuples that are used again.                          *)
(***************************************************************************)
EXTENDS TcpServer, ConnectionProofs

\* OfferedOnce with the types it needs.
OfferInv ==
    /\ DOMAIN conns \subseteq Quads
    /\ offers \in [Quads -> Nat]
    /\ OfferedOnce

\* Announcing counts one offer more for the connections that had none.
LEMMA AnnounceCounts ==
    ASSUME OfferInv, NEW T \in SUBSET DOMAIN conns, Announce(T)
    PROVE  /\ offers' \in [Quads -> Nat]
           /\ \A q \in DOMAIN conns :
                 offers'[q] = IF q \in announced \cup Unannounced(T) THEN 1 ELSE 0
  <1>1. offers' = [q \in Quads |-> offers[q] + (IF q \in Unannounced(T) THEN 1 ELSE 0)]
    BY DEF Announce
  <1>2. offers' \in [Quads -> Nat] BY <1>1 DEF OfferInv
  <1>3. ASSUME NEW q \in DOMAIN conns
        PROVE  offers'[q] = IF q \in announced \cup Unannounced(T) THEN 1 ELSE 0
    <2>1. q \in Quads /\ offers[q] = IF q \in announced THEN 1 ELSE 0
      BY DEF OfferInv, OfferedOnce
    <2>2. q \in Unannounced(T) => q \notin announced BY DEF Unannounced
    <2> QED BY <1>1, <2>1, <2>2
  <1> QED BY <1>2, <1>3

\* A step that keeps the table's 4-tuples and the announcements keeps the invariant.
LEMMA SameTable ==
    ASSUME OfferInv, DOMAIN conns' = DOMAIN conns, UNCHANGED << announced, offers >>
    PROVE  OfferInv'
  BY DEF OfferInv, OfferedOnce

LEMMA RouteKeeps ==
    ASSUME OfferInv, NEW q \in DOMAIN conns, NEW s, Route(q, s)
    PROVE  OfferInv'
  <1>1. DOMAIN conns' = DOMAIN conns /\ UNCHANGED << announced, offers >> BY DEF Route
  <1> QED BY <1>1, SameTable

\* A 4-tuple that is used again was forgotten when its last connection was reaped.
LEMMA AcceptKeeps ==
    ASSUME OfferInv, NEW q \in Quads, q \notin DOMAIN conns, NEW s, Accept(q, s)
    PROVE  OfferInv'
  <1>1. CASE UNCHANGED << conns, offers >>
    <2>1. announced' = announced BY DEF Accept
    <2> QED BY <1>1, <2>1, SameTable
  <1>2. CASE \E iss \in Isns : conns' = Inserted(q, accept(s, iss, 0).tcb)
             /\ offers' = [offers EXCEPT ![q] = 0]
    <2>1. DOMAIN conns' = DOMAIN conns \cup {q} BY <1>2 DEF Inserted
    <2>2. announced' = announced BY DEF Accept
    <2>3. q \notin announced BY DEF OfferInv, OfferedOnce
    <2> QED BY <1>2, <2>1, <2>2, <2>3 DEF OfferInv, OfferedOnce
  <1> QED BY <1>1, <1>2 DEF Accept

LEMMA PollEndKeeps ==
    ASSUME OfferInv, PollEnd
    PROVE  OfferInv'
  <1> DEFINE T == DOMAIN conns
  <1>1. /\ DOMAIN conns' = T \ ClosedConns
        /\ announced' = (announced \cup Unannounced(T)) \ ClosedConns
    BY DEF PollEnd, StillAnnounced
  <1>2. Announce(T) BY DEF PollEnd
  <1>3. /\ offers' \in [Quads -> Nat]
        /\ \A q \in DOMAIN conns :
              offers'[q] = IF q \in announced \cup Unannounced(T) THEN 1 ELSE 0
    BY <1>2, AnnounceCounts
  <1>4. announced \subseteq T /\ Unannounced(T) \subseteq T
    BY DEF OfferInv, OfferedOnce, Unannounced
  <1> QED BY <1>1, <1>3, <1>4 DEF OfferInv, OfferedOnce

LEMMA PollEndFailsKeeps ==
    ASSUME OfferInv, PollEndFails
    PROVE  OfferInv'
  <1>1. PICK T \in SUBSET DOMAIN conns :
           /\ DOMAIN conns' = DOMAIN conns
           /\ announced' = announced \cup Unannounced(T)
           /\ Announce(T)
    BY DEF PollEndFails
  <1>2. DOMAIN conns' = DOMAIN conns BY <1>1
  <1>3. T \in SUBSET DOMAIN conns BY <1>1
  <1>4. /\ offers' \in [Quads -> Nat]
        /\ \A q \in DOMAIN conns :
              offers'[q] = IF q \in announced \cup Unannounced(T) THEN 1 ELSE 0
    BY <1>1, <1>3, AnnounceCounts
  <1>5. announced \subseteq DOMAIN conns /\ Unannounced(T) \subseteq DOMAIN conns
    BY <1>3 DEF OfferInv, OfferedOnce, Unannounced
  <1> QED BY <1>1, <1>2, <1>4, <1>5 DEF OfferInv, OfferedOnce

\* The other actions leave the 4-tuples of the table and the announcements alone.
LEMMA OthersKeep ==
    ASSUME OfferInv,
           PollTimers \/ PollTimersFail \/ accept_one \/ send \/ server_close
    PROVE  OfferInv'
  <1>1. CASE PollTimers
    <2>1. DOMAIN conns' = DOMAIN conns /\ UNCHANGED << announced, offers >>
      BY <1>1 DEF PollTimers
    <2> QED BY <2>1, SameTable
  <1>2. CASE PollTimersFail
    <2>1. DOMAIN conns' = DOMAIN conns /\ UNCHANGED << announced, offers >>
      BY <1>2 DEF PollTimersFail
    <2> QED BY <2>1, SameTable
  <1>3. CASE accept_one BY <1>3, SameTable DEF accept_one
  <1>4. CASE send
    <2>1. DOMAIN conns' = DOMAIN conns /\ UNCHANGED << announced, offers >> BY <1>4 DEF send
    <2> QED BY <2>1, SameTable
  <1>5. CASE server_close
    <2>1. DOMAIN conns' = DOMAIN conns /\ UNCHANGED << announced, offers >>
      BY <1>5 DEF server_close
    <2> QED BY <2>1, SameTable
  <1> QED BY <1>1, <1>2, <1>3, <1>4, <1>5

LEMMA OfferStep == OfferInv /\ [ServerNext]_serverVars => OfferInv'
  <1> SUFFICES ASSUME OfferInv, [ServerNext]_serverVars
               PROVE  OfferInv'
    OBVIOUS
  <1>1. CASE Ingest
    <2>1. PICK q \in Quads, s \in Incoming :
             IF q \in DOMAIN conns THEN Route(q, s) ELSE Accept(q, s)
      BY <1>1 DEF Ingest
    <2> QED BY <2>1, RouteKeeps, AcceptKeeps
  <1>2. CASE PollEnd BY <1>2, PollEndKeeps
  <1>3. CASE PollEndFails BY <1>3, PollEndFailsKeeps
  <1>4. CASE PollTimers \/ PollTimersFail \/ accept_one \/ send \/ server_close
    BY <1>4, OthersKeep
  <1>5. CASE UNCHANGED serverVars BY <1>5 DEF serverVars, OfferInv, OfferedOnce
  <1> QED BY <1>1, <1>2, <1>3, <1>4, <1>5 DEF ServerNext

(***************************************************************************)
(* A connection is put in the backlog at most once (src/socket.rs, poll):  *)
(* whatever arrives, whichever sends fail in mid-poll and however often a  *)
(* 4-tuple is used again.                                                  *)
(***************************************************************************)
THEOREM OfferedOnceHolds == ServerSpec => []OfferedOnce
  <1>1. ServerInit => OfferInv BY DEF ServerInit, OfferInv, OfferedOnce
  <1>2. OfferInv => OfferedOnce BY DEF OfferInv
  <1> QED BY <1>1, <1>2, OfferStep, PTL DEF ServerSpec

-----------------------------------------------------------------------------
(* Offers reach the application *)

(***************************************************************************)
(* AnnouncedIsReachable with the types it needs.  The table is finite,     *)
(* although nothing bounds the 4-tuples: only then is an enumeration of    *)
(* what is announced complete.                                             *)
(***************************************************************************)
ReachInv ==
    /\ IsFiniteSet(DOMAIN conns)
    /\ backlog \in Seq(Quads)
    /\ AnnouncedIsReachable

\* The quads of a sequence of them.
LEMMA ToSetLen ==
    ASSUME NEW S, NEW b \in Seq(S)
    PROVE  SE!ToSet(b) = {b[i] : i \in 1 .. Len(b)}
  BY LenProperties DEF SE!ToSet

\* The Cardinality that SequencesExt counts with is that of FiniteSets.
LEMMA SameCardinality == ASSUME NEW U PROVE SE!Cardinality(U) = Cardinality(U)
  BY DEF SE!Cardinality, Cardinality

\* An enumeration of a finite set without repetition leaves nothing out.
LEMMA EnumerationIsComplete ==
    ASSUME NEW S, NEW U \in SUBSET S, IsFiniteSet(U), NEW f \in SE!SetToSeqs(U)
    PROVE  f \in Seq(S) /\ U \subseteq SE!ToSet(f)
  <1> DEFINE D == 1 .. Cardinality(U)
  <1>1. f \in [D -> U] /\ \A i, j \in D : i # j => f[i] # f[j]
    BY SameCardinality DEF SE!SetToSeqs
  <1>2. Cardinality(U) \in Nat BY FS_CardinalityType
  <1>3. IsFiniteSet(D) /\ Cardinality(D) = Cardinality(U) BY <1>2, FS_Interval
  <1>4. f \in Injection(D, U)
    <2> HIDE DEF D
    <2> QED BY <1>1 DEF Injection, IsInjective
  <1>5. f \in Surjection(D, U)
    <2> HIDE DEF D
    <2> QED BY <1>3, <1>4, FS_Injection
  <1>6. f \in Seq(S) BY <1>1, <1>2, SeqDef
  <1>7. U \subseteq SE!ToSet(f)
    <2> HIDE DEF D
    <2> QED BY <1>1, <1>5 DEF Surjection, SE!ToSet
  <1> QED BY <1>6, <1>7

\* Announcing puts every connection it announces in the backlog and drops none that waits there.
LEMMA AnnounceReaches ==
    ASSUME ReachInv, NEW T \in SUBSET DOMAIN conns, T \subseteq Quads, Announce(T)
    PROVE  /\ backlog' \in Seq(Quads)
           /\ announced \cup Unannounced(T) \subseteq SE!ToSet(backlog') \cup given
  <1>1. PICK order \in SE!SetToSeqs(Unannounced(T)) : backlog' = backlog \o order
    BY DEF Announce
  <1>2. Unannounced(T) \in SUBSET Quads BY DEF Unannounced
  <1>3. IsFiniteSet(Unannounced(T))
    <2>1. Unannounced(T) \in SUBSET DOMAIN conns BY DEF Unannounced
    <2> QED BY <2>1, FS_Subset DEF ReachInv
  <1>4. order \in Seq(Quads) /\ Unannounced(T) \subseteq SE!ToSet(order)
    BY <1>2, <1>3, EnumerationIsComplete
  <1>5. backlog \in Seq(Quads) BY DEF ReachInv
  <1>6. /\ backlog' \in Seq(Quads)
        /\ SE!ToSet(backlog') = SE!ToSet(backlog) \cup SE!ToSet(order)
    <2>1. backlog \o order \in Seq(Quads) BY <1>4, <1>5, ConcatProperties
    <2>2. Range(backlog \o order) = Range(backlog) \cup Range(order)
      BY <1>4, <1>5, RangeConcatenation
    <2> QED BY <1>1, <2>1, <2>2 DEF Range, SE!ToSet
  <1> QED BY <1>4, <1>6 DEF ReachInv, AnnouncedIsReachable

\* accept_one hands over the head of the backlog and keeps the rest.
LEMMA AcceptOneReaches ==
    ASSUME ReachInv, accept_one
    PROVE  backlog' \in Seq(Quads) /\ AnnouncedIsReachable'
  <1>1. /\ backlog \in Seq(Quads) /\ backlog # << >> /\ backlog' = Tail(backlog)
        /\ given' = given \cup {Head(backlog)} /\ announced' = announced
    BY DEF ReachInv, accept_one
  <1>2. /\ Tail(backlog) \in Seq(Quads) /\ Len(Tail(backlog)) = Len(backlog) - 1
        /\ \A i \in 1 .. Len(Tail(backlog)) : Tail(backlog)[i] = backlog[i + 1]
    BY <1>1, HeadTailProperties
  <1>3. Len(backlog) \in Nat \ {0} BY <1>1, EmptySeq
  <1>4. Head(backlog) = backlog[1] BY <1>1
  <1>5. ASSUME NEW i \in 1 .. Len(backlog)
        PROVE  backlog[i] = Head(backlog) \/ backlog[i] \in SE!ToSet(Tail(backlog))
    <2>1. CASE i = 1 BY <1>4, <2>1
    <2>2. CASE i > 1
      <3>1. i - 1 \in 1 .. Len(Tail(backlog)) BY <1>2, <1>3, <2>2
      <3>2. Tail(backlog)[i - 1] = backlog[i] BY <1>2, <3>1
      <3>3. SE!ToSet(Tail(backlog)) = {Tail(backlog)[j] : j \in 1 .. Len(Tail(backlog))}
        BY <1>2, ToSetLen
      <3> QED BY <3>1, <3>2, <3>3
    <2> QED BY <2>1, <2>2
  <1>6. SE!ToSet(backlog) \subseteq SE!ToSet(Tail(backlog)) \cup {Head(backlog)}
    BY <1>1, <1>5, ToSetLen
  <1> QED BY <1>1, <1>2, <1>6 DEF ReachInv, AnnouncedIsReachable

LEMMA ReachStep == OfferInv /\ ReachInv /\ [ServerNext]_serverVars => ReachInv'
  <1> SUFFICES ASSUME OfferInv, ReachInv, [ServerNext]_serverVars
               PROVE  ReachInv'
    OBVIOUS
  <1>1. CASE Ingest
    <2>1. PICK q \in Quads, s \in Incoming :
             IF q \in DOMAIN conns THEN Route(q, s) ELSE Accept(q, s)
      BY <1>1 DEF Ingest
    <2>2. UNCHANGED << backlog, announced >> BY <2>1 DEF Route, Accept
    <2>3. IsFiniteSet(DOMAIN conns')
      <3>1. DOMAIN conns' \in {DOMAIN conns, DOMAIN conns \cup {q}}
        BY <2>1 DEF Route, Accept, Inserted
      <3> QED BY <3>1, FS_AddElement DEF ReachInv
    <2>4. announced \cap given \subseteq given'
      <3>1. CASE q \in DOMAIN conns BY <2>1, <3>1 DEF Route
      <3>2. CASE q \notin DOMAIN conns
        <4>1. q \notin announced BY <3>2 DEF OfferInv, OfferedOnce
        <4>2. given' = given \ {q} \/ given' = given BY <2>1, <3>2 DEF Accept
        <4> QED BY <4>1, <4>2
      <3> QED BY <3>1, <3>2
    <2> QED BY <2>2, <2>3, <2>4 DEF ReachInv, AnnouncedIsReachable
  <1>2. CASE PollEnd
    <2> DEFINE T == DOMAIN conns
    <2>1. /\ DOMAIN conns' = T \ ClosedConns /\ Announce(T) /\ given' = given
          /\ announced' = (announced \cup Unannounced(T)) \ ClosedConns
      BY <1>2 DEF PollEnd, StillAnnounced
    <2>2. /\ backlog' \in Seq(Quads)
          /\ announced \cup Unannounced(T) \subseteq SE!ToSet(backlog') \cup given
      BY <2>1, AnnounceReaches DEF OfferInv
    <2>3. IsFiniteSet(DOMAIN conns') BY <2>1, FS_Difference DEF ReachInv
    <2> QED BY <2>1, <2>2, <2>3 DEF ReachInv, AnnouncedIsReachable
  <1>3. CASE PollEndFails
    <2>1. PICK T \in SUBSET DOMAIN conns :
             /\ DOMAIN conns' = DOMAIN conns
             /\ announced' = announced \cup Unannounced(T)
             /\ Announce(T)
      BY <1>3 DEF PollEndFails
    <2>2. given' = given BY <1>3 DEF PollEndFails
    <2>3. T \in SUBSET DOMAIN conns /\ T \subseteq Quads BY <2>1 DEF OfferInv
    <2>4. /\ backlog' \in Seq(Quads)
          /\ announced \cup Unannounced(T) \subseteq SE!ToSet(backlog') \cup given
      BY <2>1, <2>3, AnnounceReaches
    <2> QED BY <2>1, <2>2, <2>4 DEF ReachInv, AnnouncedIsReachable
  <1>4. CASE accept_one
    <2>1. conns' = conns BY <1>4 DEF accept_one
    <2> QED BY <1>4, <2>1, AcceptOneReaches DEF ReachInv
  <1>5. CASE PollTimers \/ PollTimersFail \/ send \/ server_close
    <2>1. UNCHANGED << backlog, announced, given >>
      BY <1>5 DEF PollTimers, PollTimersFail, send, server_close
    <2>2. DOMAIN conns' = DOMAIN conns
      <3>1. CASE PollTimers BY <3>1 DEF PollTimers
      <3>2. CASE PollTimersFail BY <3>2 DEF PollTimersFail
      <3>3. CASE send BY <3>3 DEF send
      <3>4. CASE server_close BY <3>4 DEF server_close
      <3> QED BY <1>5, <3>1, <3>2, <3>3, <3>4
    <2> QED BY <2>1, <2>2 DEF ReachInv, AnnouncedIsReachable
  <1>6. CASE UNCHANGED serverVars BY <1>6 DEF serverVars, ReachInv, AnnouncedIsReachable
  <1> QED BY <1>1, <1>2, <1>3, <1>4, <1>5, <1>6 DEF ServerNext

(***************************************************************************)
(* No announcement is lost (src/socket.rs, poll and accept_one): whatever  *)
(* order the hash table gives and wherever a poll fails, an announced      *)
(* connection waits in the backlog or has been handed to the application   *)
(* since it was opened, also when its 4-tuple served another one before.   *)
(***************************************************************************)
THEOREM AnnouncedIsReachableHolds == ServerSpec => []AnnouncedIsReachable
  <1>1. ServerInit => OfferInv /\ ReachInv
    <2> SUFFICES ASSUME ServerInit PROVE OfferInv /\ ReachInv OBVIOUS
    <2>1. OfferInv BY DEF ServerInit, OfferInv, OfferedOnce
    <2>2. IsFiniteSet(DOMAIN conns)
      <3>1. DOMAIN conns = {} BY DEF ServerInit
      <3> QED BY <3>1, FS_EmptySet
    <2>3. backlog \in Seq(Quads) BY EmptySeq DEF ServerInit
    <2> QED BY <2>1, <2>2, <2>3 DEF ServerInit, ReachInv, AnnouncedIsReachable
  <1>2. OfferInv /\ ReachInv /\ [ServerNext]_serverVars => OfferInv' /\ ReachInv'
    BY OfferStep, ReachStep
  <1>3. ReachInv => AnnouncedIsReachable BY DEF ReachInv
  <1> QED BY <1>1, <1>2, <1>3, PTL DEF ServerSpec

=============================================================================
