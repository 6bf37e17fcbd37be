--------------------------- MODULE ReceiverProofs ---------------------------
(***************************************************************************)
(* The reassembler of src/reassembly.rs, for a stream of any length, cut   *)
(* in any way, whose segments arrive in any order and any number of times, *)
(* across the wrap of the sequence circle: recv delivers exactly the       *)
(* unbroken prefix and sack_blocks reports exactly the rest.               *)
(***************************************************************************)
EXTENDS Receiver, Arithmetic, SequenceTheorems

-----------------------------------------------------------------------------
(* Offsets: the stream is shorter than half the circle *)

LEMMA Circle == SeqMod \in Nat \ {0} /\ StreamLen \in Nat /\ StreamLen < SeqMod /\ Base \in 0 .. SeqMod - 1
BY HalfAssumption, ReceiverAssumption DEF SeqMod, SeqNum

\* From an offset to its sequence number and back.
LEMMA OffsetOf ==
    ASSUME NEW n \in 0 .. StreamLen
    PROVE  /\ wrapping_sub(wrapping_add(Base, n), Base) = n
           /\ wrapping_add(Base, n) \in SeqNum
<1> DEFINE m == SeqMod
           s == (Base + n) % m
<1>1. m \in Nat \ {0} /\ n \in 0 .. m - 1 /\ Base \in 0 .. m - 1
  BY Circle
<1>2. wrapping_add(Base, n) = s /\ wrapping_sub(s, Base) = (s - Base) % m
  BY DEF wrapping_add, wrapping_sub
<1> HIDE DEF m
<1>3. s \in 0 .. m - 1 /\ (s - Base) % m = n
  <2>1. CASE Base + n < m
    <3>1. Base + n \in 0 .. m - 1
      BY <1>1, <2>1
    <3>2. s = Base + n
      BY <1>1, <3>1, NearMod
    <3>3. s - Base = n
      BY <1>1, <3>2
    <3> QED BY <1>1, <3>1, <3>2, <3>3, NearMod
  <2>2. CASE Base + n >= m
    <3>1. Base + n \in m .. 2 * m - 1
      BY <1>1, <2>2
    <3>2. s = Base + n - m
      <4>1. \A x \in m .. 2 * m - 1 : x % m = x - m
        BY <1>1, NearMod
      <4> QED BY <1>1, <3>1, <4>1
    <3>3. s - Base \in -m .. -1 /\ (s - Base) + m = n /\ s \in 0 .. m - 1
      BY <1>1, <2>2, <3>2
    <3> QED BY <1>1, <3>3, NearMod
  <2> QED BY <1>1, <2>1, <2>2
<1> QED BY <1>2, <1>3 DEF m, SeqNum

\* Moving on from an offset.
LEMMA OffsetPlus ==
    ASSUME NEW n \in 0 .. StreamLen, NEW k \in Nat, n + k <= StreamLen
    PROVE  wrapping_add(wrapping_add(Base, n), k) = wrapping_add(Base, n + k)
<1> DEFINE m == SeqMod
           s == (Base + n) % m
<1>1. /\ m \in Nat \ {0} /\ n \in 0 .. m - 1 /\ k \in 0 .. m - 1 /\ n + k \in 0 .. m - 1
      /\ Base \in 0 .. m - 1
  BY Circle
<1>2. /\ wrapping_add(wrapping_add(Base, n), k) = (s + k) % m
      /\ wrapping_add(Base, n + k) = (Base + (n + k)) % m
  BY DEF wrapping_add
<1> HIDE DEF m
<1>3. CASE Base + n < m
  <2>1. Base + n \in 0 .. m - 1
    BY <1>1, <1>3
  <2>2. s = Base + n
    BY <1>1, <2>1, NearMod
  <2>3. s + k = Base + (n + k)
    BY <1>1, <2>2
  <2> QED BY <1>2, <2>3
<1>4. CASE Base + n >= m
  <2>1. Base + n \in m .. 2 * m - 1 /\ Base + (n + k) \in m .. 2 * m - 1
    BY <1>1, <1>4
  <2>2. s = Base + n - m /\ (Base + (n + k)) % m = Base + (n + k) - m
    <3>1. \A x \in m .. 2 * m - 1 : x % m = x - m
      BY <1>1, NearMod
    <3> QED BY <1>1, <2>1, <3>1
  <2>3. s + k = Base + (n + k) - m /\ s + k \in 0 .. m - 1
    BY <1>1, <2>1, <2>2
  <2>4. (s + k) % m = s + k
    BY <1>1, <2>3, NearMod
  <2> QED BY <1>2, <2>2, <2>3, <2>4
<1> QED BY <1>1, <1>3, <1>4

-----------------------------------------------------------------------------
(* The bytes of the stream *)

LEMMA BytesOf ==
    ASSUME NEW a \in Nat, NEW b \in Nat, a <= b
    PROVE  /\ StreamBytes(a, b) \in Seq(Nat) /\ Len(StreamBytes(a, b)) = b - a
           /\ \A i \in 1 .. b - a : StreamBytes(a, b)[i] = a + i
<1>1. b - a \in Nat
  OBVIOUS
<1>2. \A i \in 1 .. b - a : a + i \in Nat
  OBVIOUS
<1>3. StreamBytes(a, b) = [i \in 1 .. b - a |-> a + i]
  BY DEF StreamBytes
<1>4. StreamBytes(a, b) \in Seq(Nat)
  BY <1>1, <1>2, <1>3, IsASeq
<1> QED BY <1>1, <1>3, <1>4

\* Two neighbouring stretches are one.
LEMMA JoinBytes ==
    ASSUME NEW a \in Nat, NEW b \in Nat, NEW c \in Nat, a <= b, b <= c
    PROVE  StreamBytes(a, b) \o StreamBytes(b, c) = StreamBytes(a, c)
<1> DEFINE s == StreamBytes(a, b)
           t == StreamBytes(b, c)
           u == StreamBytes(a, c)
<1>1. /\ s \in Seq(Nat) /\ Len(s) = b - a /\ \A i \in 1 .. b - a : s[i] = a + i
      /\ t \in Seq(Nat) /\ Len(t) = c - b /\ \A i \in 1 .. c - b : t[i] = b + i
      /\ u \in Seq(Nat) /\ Len(u) = c - a /\ \A i \in 1 .. c - a : u[i] = a + i
  <2>1. a <= c
    OBVIOUS
  <2> QED BY <2>1, BytesOf
<1> HIDE DEF s, t, u
<1>2. /\ s \o t \in Seq(Nat) /\ Len(s \o t) = Len(s) + Len(t)
      /\ \A i \in 1 .. Len(s) + Len(t) :
            (s \o t)[i] = IF i <= Len(s) THEN s[i] ELSE t[i - Len(s)]
  BY <1>1, ConcatProperties
<1>3. Len(s \o t) = c - a /\ (b - a) + (c - b) = c - a
  BY <1>1, <1>2
<1>4. ASSUME NEW i \in 1 .. c - a PROVE (s \o t)[i] = u[i]
  <2>1. (s \o t)[i] = IF i <= b - a THEN s[i] ELSE t[i - (b - a)]
    BY <1>1, <1>2, <1>3
  <2>2. CASE i <= b - a
    BY <1>1, <2>1, <2>2
  <2>3. CASE ~(i <= b - a)
    <3>1. i - (b - a) \in 1 .. c - b /\ b + (i - (b - a)) = a + i
      BY <2>3
    <3> QED BY <1>1, <2>1, <2>3, <3>1
  <2> QED BY <2>2, <2>3
<1> QED BY <1>1, <1>2, <1>3, <1>4, SeqEqual DEF s, t, u

\* What is left of a stretch that begins with delivered bytes.
LEMMA TrimBytes ==
    ASSUME NEW a \in Nat, NEW n \in Nat, NEW b \in Nat, a <= n, n < b
    PROVE  SubSeq(StreamBytes(a, b), (n - a) + 1, b - a) = StreamBytes(n, b)
<1> DEFINE s == StreamBytes(a, b)
           t == StreamBytes(n, b)
           u == SubSeq(s, (n - a) + 1, b - a)
<1>1. /\ s \in Seq(Nat) /\ Len(s) = b - a /\ \A i \in 1 .. b - a : s[i] = a + i
      /\ t \in Seq(Nat) /\ Len(t) = b - n /\ \A i \in 1 .. b - n : t[i] = n + i
  <2>1. a <= b /\ n <= b
    OBVIOUS
  <2> QED BY <2>1, BytesOf
<1> HIDE DEF s, t
<1>2. \A i \in (n - a) + 1 .. b - a : s[i] \in Nat
  BY <1>1
<1>3. /\ u \in Seq(Nat) /\ Len(u) = b - n
      /\ \A i \in 1 .. b - n : u[i] = s[(n - a) + 1 + i - 1]
  <2>1. (b - a) - ((n - a) + 1) + 1 = b - n /\ (n - a) + 1 <= b - a
    OBVIOUS
  <2> QED BY <1>2, <2>1, SubSeqProperties
<1>4. ASSUME NEW i \in 1 .. b - n PROVE u[i] = t[i]
  <2>1. (n - a) + 1 + i - 1 \in 1 .. b - a /\ a + ((n - a) + 1 + i - 1) = n + i
    OBVIOUS
  <2> QED BY <1>1, <1>3, <2>1
<1> HIDE DEF u
<1> QED BY <1>1, <1>3, <1>4, SeqEqual DEF s, t, u

-----------------------------------------------------------------------------
(* Fragments between neighbouring cuts *)

\* One past the last offset of a fragment, on the line rather than on the circle.
Edge(f) == f.off + Len(f.data)

\* f is a whole segment of a stream that is cut at C.
Piece(f, C) ==
    /\ f.off \in C /\ Edge(f) \in C /\ f.off < Edge(f)
    /\ \A c \in C : c <= f.off \/ c >= Edge(f)
    /\ f = [off |-> f.off, data |-> StreamBytes(f.off, Edge(f))]

\* F are such segments, none before offset n.
Pieces(F, C, n) ==
    /\ C \subseteq 0 .. StreamLen /\ n \in C
    /\ \A f \in F : Piece(f, C) /\ f.off >= n

\* The offsets that F covers.
Cover(F) == UNION {FragOffsets(f) : f \in F}

LEMMA PieceNumbers ==
    ASSUME NEW C, NEW F, NEW n, Pieces(F, C, n), NEW f \in F
    PROVE  /\ n \in 0 .. StreamLen /\ n \in Int
           /\ f.off \in 0 .. StreamLen /\ f.off \in Int /\ f.off \in Nat
           /\ Edge(f) \in 0 .. StreamLen /\ Edge(f) \in Int /\ Edge(f) \in Nat
           /\ f.off < Edge(f) /\ f.off >= n
           /\ FragOffsets(f) = f.off .. Edge(f) - 1 /\ FragEnd(f) = Edge(f)
<1>1. Piece(f, C) /\ C \subseteq 0 .. StreamLen /\ n \in C /\ f.off >= n
  BY DEF Pieces
<1>2. n \in 0 .. StreamLen /\ f.off \in 0 .. StreamLen /\ Edge(f) \in 0 .. StreamLen
      /\ f.off < Edge(f)
  BY <1>1 DEF Piece
<1>3. FragOffsets(f) = f.off .. Edge(f) - 1
  <2>1. f.data = StreamBytes(f.off, Edge(f))
    <3> HIDE DEF Edge
    <3> QED BY <1>1 DEF Piece
  <2>2. Len(StreamBytes(f.off, Edge(f))) \in Int /\ f.off \in Int
    <3> DEFINE a == f.off
               b == Edge(f)
    <3>1. a \in Nat /\ b \in Nat /\ a <= b
      BY <1>2
    <3> HIDE DEF a, b
    <3>2. Len(StreamBytes(a, b)) = b - a
      BY <3>1, BytesOf
    <3> QED BY <3>1, <3>2 DEF a, b
  <2>3. Len(f.data) \in Int
    BY <2>1, <2>2
  <2> QED BY <2>2, <2>3 DEF FragOffsets, Edge
<1>4. FragEnd(f) = Edge(f)
  <2>1. FragEnd(f) = Edge(f) % SeqMod
    BY DEF FragEnd, wrapping_add, Edge
  <2>2. Edge(f) \in 0 .. SeqMod - 1
    BY <1>2, Circle
  <2>3. \A x \in 0 .. SeqMod - 1 : x % SeqMod = x
    BY Circle, NearMod
  <2> QED BY <2>1, <2>2, <2>3
<1> QED BY <1>1, <1>2, <1>3, <1>4, Circle

LEMMA CoverIs ==
    ASSUME NEW C, NEW F, NEW n, Pieces(F, C, n), NEW x
    PROVE  x \in Cover(F) <=> x \in Int /\ \E f \in F : f.off <= x /\ x < Edge(f)
<1>1. x \in Cover(F) <=> \E f \in F : x \in FragOffsets(f)
  BY DEF Cover
<1>2. ASSUME NEW f \in F
      PROVE  x \in FragOffsets(f) <=> x \in Int /\ f.off <= x /\ x < Edge(f)
  BY PieceNumbers
<1> QED BY <1>1, <1>2

\* A cut inside or at the end of a piece is its end.
LEMMA CutIsEdge ==
    ASSUME NEW C, NEW F, NEW n, Pieces(F, C, n), NEW f \in F, NEW c \in C,
           f.off < c, c <= Edge(f)
    PROVE  c = Edge(f)
<1>1. c <= f.off \/ c >= Edge(f)
  BY DEF Pieces, Piece
<1>2. c \in Int
  BY Circle DEF Pieces
<1> QED BY <1>1, <1>2, PieceNumbers

\* A cut right after a covered offset is where a piece ends.
LEMMA CoveredBefore ==
    ASSUME NEW C, NEW F, NEW n, Pieces(F, C, n), NEW c \in C, c - 1 \in Cover(F)
    PROVE  \E g \in F : Edge(g) = c /\ g.off < c
<1>1. PICK g \in F : g.off <= c - 1 /\ c - 1 < Edge(g)
  BY CoverIs
<1>2. c \in Int
  BY Circle DEF Pieces
<1>3. g.off < c /\ c <= Edge(g)
  BY <1>1, <1>2, PieceNumbers
<1> QED BY <1>3, CutIsEdge

\* Pieces at the same offset are the same.
LEMMA PieceIsItsOffset ==
    ASSUME NEW C, NEW F, NEW n, Pieces(F, C, n), NEW f \in F, NEW g \in F, f.off = g.off
    PROVE  f = g
<1>1. Piece(f, C) /\ Piece(g, C)
  BY DEF Pieces
<1>2. Edge(f) <= g.off \/ Edge(f) >= Edge(g)
  BY <1>1 DEF Piece
<1>3. Edge(g) <= f.off \/ Edge(g) >= Edge(f)
  BY <1>1 DEF Piece
<1>4. Edge(f) = Edge(g)
  BY <1>2, <1>3, PieceNumbers
<1> QED BY <1>1, <1>4 DEF Piece

\* The first offset from n on that F does not cover.
IsGap(F, n, e) ==
    e \in n .. StreamLen /\ e \notin Cover(F) /\ \A x \in n .. e - 1 : x \in Cover(F)

\* The pieces before it and the pieces beyond it.
Front(F, e) == {f \in F : f.off < e}

Back(F, e) == {f \in F : ~(f.off < e)}

LEMMA GapExists ==
    ASSUME NEW C, NEW F, NEW n, Pieces(F, C, n)
    PROVE  \E e : IsGap(F, n, e)
<1> DEFINE T == {x \in n .. StreamLen : x \notin Cover(F)}
<1>1. n \in 0 .. StreamLen /\ StreamLen \in Nat
  BY Circle DEF Pieces
<1>2. StreamLen \notin Cover(F)
  <2> SUFFICES ASSUME NEW f \in F, StreamLen < Edge(f) PROVE FALSE
    BY CoverIs
  <2> QED BY <1>1, PieceNumbers
<1>3. T \in SUBSET Nat /\ T # {}
  <2>1. StreamLen \in T
    BY <1>1, <1>2
  <2>2. T \subseteq Nat
    BY <1>1
  <2> QED BY <2>1, <2>2
<1>4. PICK e \in T : \A y \in T : e <= y
  <2> HIDE DEF T
  <2> QED BY <1>3, LeastNumber
<1>5. ASSUME NEW x \in n .. e - 1 PROVE x \in Cover(F)
  <2>1. x \in n .. StreamLen /\ ~(e <= x)
    BY <1>1
  <2>2. x \notin T
    <3> HIDE DEF T
    <3> QED BY <1>4, <2>1
  <2> QED BY <2>1, <2>2
<1> QED BY <1>5 DEF IsGap

\* A piece that begins before the gap ends there or before.
LEMMA BeforeGap ==
    ASSUME NEW C, NEW F, NEW n, Pieces(F, C, n), NEW e, IsGap(F, n, e), NEW f \in F
    PROVE  /\ e \in Int /\ f.off # e
           /\ f.off < e => Edge(f) <= e
<1>1. e \in Int /\ e \notin Cover(F)
  BY Circle DEF IsGap, Pieces
<1>2. ~(f.off <= e /\ e < Edge(f))
  BY <1>1, CoverIs
<1> QED BY <1>1, <1>2, PieceNumbers

\* The gap is at a cut.
LEMMA GapIsCut ==
    ASSUME NEW C, NEW F, NEW n, Pieces(F, C, n), NEW e, IsGap(F, n, e)
    PROVE  e \in C /\ e \in 0 .. StreamLen /\ n <= e
<1>1. n \in 0 .. StreamLen /\ n \in C /\ C \subseteq 0 .. StreamLen /\ e \in n .. StreamLen
  BY DEF Pieces, IsGap
<1>2. e \in 0 .. StreamLen /\ n <= e
  BY <1>1, Circle
<1>3. CASE e = n
  BY <1>1, <1>2, <1>3
<1>4. CASE e # n
  <2>1. e - 1 \in n .. e - 1
    BY <1>1, <1>4, Circle
  <2>2. PICK g \in F : g.off <= e - 1 /\ e - 1 < Edge(g)
    BY <2>1, CoverIs DEF IsGap
  <2>3. g.off < e
    BY <1>2, <2>2, PieceNumbers
  <2>4. Edge(g) <= e
    BY <2>3, BeforeGap
  <2>5. e = Edge(g)
    BY <1>2, <2>2, <2>4, PieceNumbers
  <2>6. Edge(g) \in C
    BY DEF Pieces, Piece
  <2> QED BY <1>2, <2>5, <2>6
<1> QED BY <1>3, <1>4

(***************************************************************************)
(* The delivery loop of recv takes exactly the pieces before the gap.  The *)
(* set of them is closed under "starts where the run has got to"; and a    *)
(* closed set that lacked one of them would lack the lowest, whose         *)
(* predecessor it has.                                                     *)
(***************************************************************************)
LEMMA RunIs ==
    ASSUME NEW C, NEW F, NEW n, Pieces(F, C, n), NEW e, IsGap(F, n, e)
    PROVE  UnbrokenRun(F, n) = Front(F, e)
<1> DEFINE Closed(D) == \A f \in F : (f.off = n \/ \E g \in D : f.off = FragEnd(g)) => f \in D
           R == {f \in F : f.off < e}
<1>1. UnbrokenRun(F, n) = {f \in F : \A D \in SUBSET F : Closed(D) => f \in D}
  BY DEF UnbrokenRun
<1>2. e \in Int /\ n \in Int /\ n <= e
  <2>1. n \in 0 .. StreamLen
    BY DEF Pieces
  <2>2. e \in 0 .. StreamLen /\ n <= e
    BY GapIsCut
  <2> QED BY <2>1, <2>2
<1>3. R \in SUBSET F
  OBVIOUS
<1>4. Closed(R)
  <2> SUFFICES ASSUME NEW f \in F, f.off = n \/ \E g \in R : f.off = FragEnd(g)
               PROVE  f.off < e
    OBVIOUS
  <2>1. f.off # e
    BY BeforeGap
  <2>2. CASE f.off = n
    BY <1>2, <2>1, <2>2
  <2>3. ASSUME NEW g \in R, f.off = FragEnd(g) PROVE f.off < e
    <3>1. g \in F /\ g.off < e
      OBVIOUS
    <3>2. FragEnd(g) = Edge(g) /\ Edge(g) <= e /\ Edge(g) \in Int
      BY <3>1, BeforeGap, PieceNumbers
    <3> QED BY <1>2, <2>1, <2>3, <3>2
  <2> QED BY <2>2, <2>3
<1>5. ASSUME NEW D \in SUBSET F, Closed(D), NEW f \in R PROVE f \in D
  <2> SUFFICES ASSUME f \notin D PROVE FALSE
    OBVIOUS
  <2> DEFINE T == {h.off : h \in R \ D}
  <2>1. T \in SUBSET Nat /\ T # {}
    <3>1. f.off \in T
      OBVIOUS
    <3>2. \A h \in R : h.off \in Nat
      BY PieceNumbers
    <3> QED BY <3>1, <3>2
  <2>2. PICK t \in T : \A y \in T : t <= y
    <3> HIDE DEF T
    <3> QED BY <2>1, LeastNumber
  <2>3. PICK h \in R \ D : t = h.off
    OBVIOUS
  <2>4. \A k \in R \ D : h.off <= k.off
    BY <2>2, <2>3
  <2> HIDE DEF T
  <2>5. h \in F /\ h.off < e /\ h \notin D
    BY <2>3
  <2>6. h.off # n
    BY <1>5, <2>5
  <2>7. h.off \in C /\ h.off \in Int /\ h.off >= n
    BY <2>5, PieceNumbers DEF Pieces, Piece
  <2>8. h.off - 1 \in n .. e - 1
    BY <1>2, <2>5, <2>6, <2>7
  <2>9. h.off - 1 \in Cover(F)
    BY <2>8 DEF IsGap
  <2>10. PICK g \in F : Edge(g) = h.off /\ g.off < h.off
    BY <2>7, <2>9, CoveredBefore
  <2>11. g.off \in Int /\ FragEnd(g) = Edge(g)
    BY PieceNumbers
  <2>12. g \in R
    BY <1>2, <2>5, <2>7, <2>10, <2>11
  <2>13. g \in D
    <3>1. ~(h.off <= g.off)
      BY <2>7, <2>10, <2>11
    <3> HIDE DEF R
    <3> QED BY <2>4, <2>12, <3>1
  <2> QED BY <1>5, <2>5, <2>10, <2>11, <2>13
<1> HIDE DEF Closed
<1>6. \A f \in F : (\A D \in SUBSET F : Closed(D) => f \in D) <=> f \in R
  <2>1. ASSUME NEW f \in F, \A D \in SUBSET F : Closed(D) => f \in D PROVE f \in R
    <3> HIDE DEF R
    <3> QED BY <1>3, <1>4, <2>1
  <2>2. ASSUME NEW f \in R PROVE \A D \in SUBSET F : Closed(D) => f \in D
    BY <1>5
  <2> HIDE DEF R
  <2> QED BY <2>1, <2>2
<1> QED BY <1>1, <1>6 DEF Front

\* The pieces before the gap cover what is before the gap; the others what is beyond it.
LEMMA CoverSplit ==
    ASSUME NEW C, NEW F, NEW n, Pieces(F, C, n), NEW e, IsGap(F, n, e)
    PROVE  /\ Cover(Front(F, e)) = n .. e - 1
           /\ Cover(F) = (n .. e - 1) \cup Cover(Back(F, e))
           /\ Pieces(Front(F, e), C, n)
           /\ Pieces(Back(F, e), C, e)
           /\ \A f \in Back(F, e) : f.off # e
<1> DEFINE R == {f \in F : f.off < e}
           Q == {f \in F : ~(f.off < e)}
<1>1. e \in C /\ e \in 0 .. StreamLen /\ n <= e
  BY GapIsCut
<1>2. n \in Int /\ e \in Int
  <2>1. n \in 0 .. StreamLen
    BY DEF Pieces
  <2> QED BY <1>1, <2>1
<1>3. Pieces(R, C, n)
  BY DEF Pieces
<1>4. Pieces(Q, C, e)
  <2>1. \A f \in Q : Piece(f, C) /\ f.off >= e
    <3>1. \A f \in F : f.off \in Int
      BY PieceNumbers
    <3> QED BY <1>2, <3>1 DEF Pieces
  <2> HIDE DEF Q
  <2> QED BY <1>1, <2>1 DEF Pieces
<1>5. Cover(R) \subseteq n .. e - 1
  <2> SUFFICES ASSUME NEW x \in Cover(R) PROVE x \in n .. e - 1
    OBVIOUS
  <2>1. PICK f \in R : x \in Int /\ f.off <= x /\ x < Edge(f)
    <3> HIDE DEF R
    <3> QED BY <1>3, CoverIs
  <2>2. f \in F /\ f.off < e
    OBVIOUS
  <2>3. Edge(f) <= e /\ f.off >= n
    BY <2>2, BeforeGap, PieceNumbers
  <2>4. f.off \in Int /\ Edge(f) \in Int
    BY <2>2, PieceNumbers
  <2> QED BY <1>2, <2>1, <2>3, <2>4
<1>6. n .. e - 1 \subseteq Cover(R)
  <2> SUFFICES ASSUME NEW x \in n .. e - 1 PROVE x \in Cover(R)
    OBVIOUS
  <2>1. x \in Cover(F)
    BY DEF IsGap
  <2>2. PICK f \in F : x \in Int /\ f.off <= x /\ x < Edge(f)
    BY <2>1, CoverIs
  <2>3. f.off \in Int
    BY PieceNumbers
  <2>4. f \in R
    BY <1>2, <2>2, <2>3
  <2> HIDE DEF R
  <2> QED BY <1>3, <2>2, <2>4, CoverIs
<1>7. Cover(F) = Cover(R) \cup Cover(Q)
  BY DEF Cover
<1>8. \A f \in F : f.off # e
  BY BeforeGap
<1> HIDE DEF R, Q
<1>9. /\ Cover(R) = n .. e - 1
      /\ Cover(F) = (n .. e - 1) \cup Cover(Q)
  BY <1>5, <1>6, <1>7
<1> QED BY <1>3, <1>4, <1>8, <1>9 DEF R, Q, Front, Back

\* What the run hands over.
LEMMA RunBytesAre ==
    ASSUME NEW C, NEW F, NEW n, Pieces(F, C, n), NEW e, IsGap(F, n, e)
    PROVE  RunBytes(Front(F, e), n) = StreamBytes(n, e)
<1> DEFINE R == Front(F, e)
<1>1. Cover(R) = n .. e - 1 /\ Pieces(R, C, n)
  BY CoverSplit
<1>2. n \in Nat /\ e \in Nat /\ n <= e
  <2>1. e \in 0 .. StreamLen /\ n <= e
    BY GapIsCut
  <2>2. n \in 0 .. StreamLen
    BY DEF Pieces
  <2> QED BY <2>1, <2>2
<1> HIDE DEF R
<1>3. RunLength(R) = e - n
  <2>1. RunLength(R) = Cardinality(n .. e - 1)
    BY <1>1 DEF RunLength, Cover
  <2>2. Cardinality(n .. e - 1) = IF n > e - 1 THEN 0 ELSE (e - 1) - n + 1
    BY <1>2, FS_Interval
  <2> QED BY <1>2, <2>1, <2>2
<1>4. ASSUME NEW i \in 1 .. e - n
      PROVE  LET f == CHOOSE g \in R : n + i - 1 \in FragOffsets(g)
             IN  f.data[n + i - f.off] = n + i
  <2> DEFINE x == n + i - 1
             f == CHOOSE g \in R : x \in FragOffsets(g)
  <2>1. x \in n .. e - 1
    BY <1>2
  <2>2. \E g \in R : x \in FragOffsets(g)
    BY <1>1, <2>1 DEF Cover
  <2>3. f \in R /\ x \in FragOffsets(f)
    <3> HIDE DEF x
    <3> QED BY <2>2
  <2> HIDE DEF f
  <2>4. /\ f.off \in Nat /\ Edge(f) \in Nat /\ f.off < Edge(f)
        /\ FragOffsets(f) = f.off .. Edge(f) - 1
    BY <1>1, <2>3, PieceNumbers
  <2>5. f.data = StreamBytes(f.off, Edge(f))
    <3> HIDE DEF R
    <3>1. Piece(f, C)
      BY <1>1, <2>3 DEF Pieces
    <3> HIDE DEF x
    <3> QED BY <3>1 DEF Piece
  <2>6. x \in f.off .. Edge(f) - 1
    BY <2>3, <2>4
  <2>7. n + i - f.off \in 1 .. Edge(f) - f.off /\ f.off + (n + i - f.off) = n + i
    BY <1>2, <2>4, <2>6
  <2>8. StreamBytes(f.off, Edge(f))[n + i - f.off] = f.off + (n + i - f.off)
    <3> DEFINE a == f.off
               b == Edge(f)
               k == n + i - f.off
    <3>1. a \in Nat /\ b \in Nat /\ a <= b /\ k \in 1 .. b - a
      BY <2>4, <2>7
    <3> HIDE DEF a, b, k
    <3>2. StreamBytes(a, b)[k] = a + k
      BY <3>1, BytesOf
    <3> QED BY <3>2 DEF a, b, k
  <2>9. f.data[n + i - f.off] = n + i
    BY <2>5, <2>7, <2>8
  <2> QED BY <2>9 DEF f
<1>5. RunBytes(R, n) = [i \in 1 .. e - n |->
                            LET f == CHOOSE g \in R : n + i - 1 \in FragOffsets(g)
                            IN  f.data[n + i - f.off]]
  BY <1>3 DEF RunBytes
<1>6. RunBytes(R, n) = [i \in 1 .. e - n |-> n + i]
  BY <1>4, <1>5
<1> QED BY <1>6 DEF R, StreamBytes

-----------------------------------------------------------------------------
(* recv *)

Larger(a, b) == IF a < b THEN b ELSE a

\* The part of a segment [a, b) from offset n on.
NewPiece(n, a, b) == [off |-> Larger(a, n), data |-> StreamBytes(Larger(a, n), b)]

\* [a, b) may be sent: no cut beyond n lies inside it.
Sendable(C, n, a, b) ==
    /\ a \in C /\ b \in C /\ a < b
    /\ \A c \in C : a < c /\ c < b => c <= n

\* A segment that is not wholly old adds a piece, or one that is there already.
LEMMA AddPiece ==
    ASSUME NEW C, NEW F, NEW n, Pieces(F, C, n), NEW a, NEW b, Sendable(C, n, a, b), n < b,
           NEW x, x = Larger(a, n), NEW p, p = NewPiece(n, a, b),
           NEW G, G = F \cup {p}
    PROVE  /\ x \in C /\ x < b /\ x \in Nat /\ b \in Nat /\ n <= x
           /\ p.off = x /\ Edge(p) = b
           /\ Pieces(G, C, n)
           /\ \A f \in F : f.off = x => f = p
           /\ Cover(G) = Cover(F) \cup (x .. b - 1)
<1>1. C \subseteq 0 .. StreamLen /\ n \in C /\ a \in C /\ b \in C
  BY DEF Pieces, Sendable
<1>2. n \in Nat /\ a \in Nat /\ b \in Nat
  <2>1. 0 .. StreamLen \subseteq Nat
    OBVIOUS
  <2> QED BY <1>1, <2>1
<1>3. x \in C /\ x \in Nat /\ x < b /\ n <= x
  BY <1>1, <1>2 DEF Larger, Sendable
<1>4. \A c \in C : c <= x \/ c >= b
  <2>1. \A c \in C : c \in Int
    BY <1>1
  <2> QED BY <1>2, <2>1 DEF Larger, Sendable
<1>5. p = [off |-> x, data |-> StreamBytes(x, b)]
  BY DEF NewPiece
<1>6. p.off = x /\ p.data = StreamBytes(x, b)
  BY <1>5
<1>7. Len(StreamBytes(x, b)) = b - x
  <2>1. x \in Nat /\ b \in Nat /\ x <= b
    BY <1>2, <1>3
  <2> QED BY <2>1, BytesOf
<1>8. Edge(p) = b
  BY <1>2, <1>3, <1>6, <1>7 DEF Edge
<1>9. Piece(p, C)
  BY <1>1, <1>3, <1>4, <1>5, <1>6, <1>8 DEF Piece
<1>10. Pieces(G, C, n)
  BY <1>2, <1>3, <1>6, <1>9 DEF Pieces
<1>11. ASSUME NEW f \in F, f.off = x PROVE f = p
  BY <1>6, <1>10, <1>11, PieceIsItsOffset
<1>12. FragOffsets(p) = x .. b - 1
  BY <1>6, <1>8, <1>10, PieceNumbers
<1>13. Cover(G) = Cover(F) \cup (x .. b - 1)
  <2>1. Cover(G) = Cover(F) \cup FragOffsets(p)
    BY DEF Cover
  <2> QED BY <1>12, <2>1
<1> QED BY <1>2, <1>3, <1>6, <1>8, <1>10, <1>11, <1>13

\* A segment that is wholly old, or too far ahead, is dropped.
Ignored(n, a, b) == b <= n \/ a - n > MaxAhead

LEMMA RecvIs ==
    ASSUME NEW C, NEW F, NEW n, Pieces(F, C, n), NEW a, NEW b, Sendable(C, n, a, b),
           NEW r, r = [base |-> Base, frags |-> F],
           NEW G, G = F \cup {NewPiece(n, a, b)},
           NEW d, d = recv(r, wrapping_add(Base, a), StreamBytes(a, b), wrapping_add(Base, n))
    PROVE  /\ Ignored(n, a, b) => d = [reasm |-> r, out |-> << >>]
           /\ ~Ignored(n, a, b) => \A e : IsGap(G, n, e) =>
                 d = [reasm |-> [base |-> Base, frags |-> Back(G, e)], out |-> StreamBytes(n, e)]
<1> DEFINE p == NewPiece(n, a, b)
           data == StreamBytes(a, b)
           old == a < n
           skip == IF old THEN n - a ELSE 0
           off == IF old THEN n ELSE a
           dropped == skip >= Len(data) \/ off - n > MaxAhead
           frag == [off |-> off, data |-> SubSeq(data, skip + 1, Len(data))]
           frags == {f \in F : f.off # off} \cup {frag}
           run == UnbrokenRun(frags, n)
<1>1. C \subseteq 0 .. StreamLen /\ n \in C /\ a \in C /\ b \in C /\ a < b
  BY DEF Pieces, Sendable
<1>2. n \in Nat /\ a \in Nat /\ b \in Nat /\ n \in 0 .. StreamLen /\ a \in 0 .. StreamLen
  <2>1. 0 .. StreamLen \subseteq Nat
    OBVIOUS
  <2> QED BY <1>1, <2>1
<1>3. d = IF dropped THEN [reasm |-> r, out |-> << >>]
          ELSE [reasm |-> [r EXCEPT !.frags = frags \ run], out |-> RunBytes(run, n)]
  <2>1. /\ wrapping_sub(wrapping_add(Base, n), Base) = n
        /\ wrapping_sub(wrapping_add(Base, a), Base) = a
    BY <1>2, OffsetOf
  <2>2. r.base = Base /\ r.frags = F
    OBVIOUS
  <2>3. d = recv(r, wrapping_add(Base, a), data, wrapping_add(Base, n))
    OBVIOUS
  <2> HIDE DEF data
  <2> QED BY <2>1, <2>2, <2>3, ZenonT(40) DEF recv
<1>4. Len(data) = b - a
  BY <1>1, <1>2, BytesOf
<1>5. MaxAhead \in Nat
  BY MaxAheadAssumption
<1>6. dropped <=> Ignored(n, a, b)
  <2> HIDE DEF data
  <2> QED BY <1>1, <1>2, <1>4, <1>5 DEF Ignored
<1>7. CASE Ignored(n, a, b)
  <2> HIDE DEF dropped
  <2> QED BY <1>3, <1>6, <1>7
<1>8. ASSUME ~Ignored(n, a, b), NEW e, IsGap(G, n, e)
      PROVE  d = [reasm |-> [base |-> Base, frags |-> Back(G, e)], out |-> StreamBytes(n, e)]
  <2>1. n < b
    BY <1>2, <1>8 DEF Ignored
  <2>2. off = Larger(a, n)
    BY DEF Larger
  <2>3. SubSeq(data, skip + 1, Len(data)) = StreamBytes(off, b)
    <3>1. CASE old
      <4>1. a <= n /\ n < b
        BY <1>2, <2>1, <3>1
      <4>2. SubSeq(data, (n - a) + 1, b - a) = StreamBytes(n, b)
        BY <1>2, <4>1, TrimBytes
      <4> HIDE DEF data
      <4> QED BY <1>4, <3>1, <4>2
    <3>2. CASE ~old
      <4>1. a <= a /\ a < b /\ (a - a) + 1 = 0 + 1
        BY <1>1, <1>2
      <4>2. SubSeq(data, (a - a) + 1, b - a) = StreamBytes(a, b)
        BY <1>2, <4>1, TrimBytes
      <4> HIDE DEF data
      <4> QED BY <1>4, <3>2, <4>1, <4>2
    <3> QED BY <3>1, <3>2
  <2>4. frag = p
    <3> HIDE DEF data, skip
    <3> QED BY <2>2, <2>3 DEF NewPiece
  <2> HIDE DEF frag
  <2>5. Pieces(G, C, n) /\ \A f \in F : f.off = Larger(a, n) => f = p
    <3>1. G = F \cup {p} /\ p = NewPiece(n, a, b)
      OBVIOUS
    <3> HIDE DEF p
    <3> QED BY <2>1, <3>1, AddPiece
  <2>6. frags = G
    <3>1. G = F \cup {p}
      OBVIOUS
    <3> HIDE DEF p, off
    <3> QED BY <2>2, <2>4, <2>5, <3>1
  <2> HIDE DEF frags
  <2>7. run = Front(G, e) /\ RunBytes(Front(G, e), n) = StreamBytes(n, e)
    BY <1>8, <2>5, <2>6, RunIs, RunBytesAre
  <2>8. G \ Front(G, e) = Back(G, e)
    BY DEF Front, Back
  <2>9. d = [reasm |-> [r EXCEPT !.frags = Back(G, e)], out |-> StreamBytes(n, e)]
    <3> HIDE DEF dropped, run
    <3> QED BY <1>3, <1>6, <1>8, <2>6, <2>7, <2>8
  <2>10. [r EXCEPT !.frags = Back(G, e)] = [base |-> Base, frags |-> Back(G, e)]
    OBVIOUS
  <2> QED BY <2>9, <2>10
<1> HIDE DEF dropped
<1> QED BY <1>7, <1>8

-----------------------------------------------------------------------------
(* The invariant *)

\* RCV.NXT as an offset.
Nxt == wrapping_sub(rcv_nxt, Base)

(***************************************************************************)
(* RCV.NXT is at a cut; what is buffered are whole segments beyond it; and *)
(* these are, with what was delivered, exactly what arrived.  It says more *)
(* than DeliversUnbrokenPrefix, which forgets the buffer.                  *)
(***************************************************************************)
ReceiverInv ==
    /\ reasm = [base |-> Base, frags |-> reasm.frags]
    /\ Pieces(reasm.frags, cuts, Nxt)
    /\ \A f \in reasm.frags : f.off # Nxt
    /\ rcv_nxt = wrapping_add(Base, Nxt)
    /\ out = StreamBytes(0, Nxt)
    /\ arrived = (0 .. Nxt - 1) \cup Cover(reasm.frags)

LEMMA ReceiverInit == ASSUME Init PROVE ReceiverInv
<1>1. cuts \subseteq 0 .. StreamLen /\ 0 \in cuts
  BY DEF Init
<1>2. reasm = [base |-> Base, frags |-> {}] /\ rcv_nxt = Base /\ out = << >> /\ arrived = {}
  BY DEF Init, NewReassembler
<1>3. wrapping_add(Base, 0) = Base
  <2>1. Base + 0 = Base /\ Base % SeqMod = Base
    BY Circle, NearMod
  <2> QED BY <2>1 DEF wrapping_add
<1>4. Nxt = 0
  <2>1. 0 \in 0 .. StreamLen
    BY Circle
  <2> QED BY <1>2, <1>3, <2>1, OffsetOf DEF Nxt
<1>5. reasm.frags = {} /\ reasm = [base |-> Base, frags |-> reasm.frags]
  BY <1>2
<1>6. StreamBytes(0, 0) = << >>
  <2>1. StreamBytes(0, 0) \in Seq(Nat) /\ Len(StreamBytes(0, 0)) = 0
    BY BytesOf
  <2> QED BY <2>1, EmptySeq
<1>7. Pieces({}, cuts, 0) /\ Cover({}) = {}
  BY <1>1 DEF Pieces, Cover
<1> QED BY <1>2, <1>3, <1>4, <1>5, <1>6, <1>7 DEF ReceiverInv

LEMMA ArriveStep ==
    ASSUME ReceiverInv, NEW a \in 0 .. StreamLen, NEW b \in 0 .. StreamLen, Arrive(a, b)
    PROVE  ReceiverInv'
<1> DEFINE F == reasm.frags
           n == Nxt
           C == cuts
           p == NewPiece(n, a, b)
           G == F \cup {p}
           x == Larger(a, n)
           r == [base |-> Base, frags |-> F]
           d == recv(r, wrapping_add(Base, a), StreamBytes(a, b), wrapping_add(Base, n))
<1>1. /\ reasm = r /\ Pieces(F, C, n) /\ (\A f \in F : f.off # n)
      /\ rcv_nxt = wrapping_add(Base, n) /\ out = StreamBytes(0, n)
      /\ arrived = (0 .. n - 1) \cup Cover(F)
  BY DEF ReceiverInv
<1>2. Sendable(C, n, a, b)
  BY DEF Arrive, Sent, Sendable, Nxt
<1>3. /\ reasm' = d.reasm /\ out' = out \o d.out /\ rcv_nxt' = wrapping_add(rcv_nxt, Len(d.out))
      /\ cuts' = cuts
  <2> HIDE DEF r
  <2>1. d = recv(reasm, wrapping_add(Base, a), StreamBytes(a, b), rcv_nxt)
    BY <1>1
  <2> HIDE DEF d
  <2> QED BY <2>1 DEF Arrive
<1>4. arrived' = IF a - n > MaxAhead THEN arrived ELSE arrived \cup (a .. b - 1)
  BY DEF Arrive, Nxt
<1>5. n \in Nat /\ n \in 0 .. StreamLen /\ a \in Nat /\ b \in Nat /\ a < b /\ C \subseteq 0 .. StreamLen
  <2>1. n \in 0 .. StreamLen /\ C \subseteq 0 .. StreamLen
    BY <1>1 DEF Pieces
  <2>2. a < b
    BY <1>2 DEF Sendable
  <2> HIDE DEF n
  <2> QED BY <2>1, <2>2
<1>6. MaxAhead \in Nat
  BY MaxAheadAssumption
<1>7. out \in Seq(Nat)
  <2>1. 0 <= n
    BY <1>5
  <2> QED BY <1>1, <1>5, <2>1, BytesOf
<1> HIDE DEF F, n, C, d
<1>8. d = recv(r, wrapping_add(Base, a), StreamBytes(a, b), wrapping_add(Base, n))
  BY DEF d
<1>9. CASE Ignored(n, a, b)
  <2>1. d = [reasm |-> r, out |-> << >>]
    BY <1>1, <1>2, <1>9, <1>8, RecvIs
  <2>2. reasm' = reasm
    BY <1>1, <1>3, <2>1
  <2>3. out' = out
    BY <1>3, <1>7, <2>1, ConcatEmptySeq
  <2>4. rcv_nxt' = rcv_nxt
    <3>1. rcv_nxt' = wrapping_add(wrapping_add(Base, n), 0)
      BY <1>1, <1>3, <2>1
    <3>2. n + 0 = n
      BY <1>5
    <3>3. wrapping_add(wrapping_add(Base, n), 0) = wrapping_add(Base, n + 0)
      BY <1>5, OffsetPlus
    <3> QED BY <1>1, <3>1, <3>2, <3>3
  <2>5. arrived' = arrived
    <3>1. CASE a - n > MaxAhead
      BY <1>4, <3>1
    <3>2. CASE ~(a - n > MaxAhead)
      <4>1. b <= n
        BY <1>9, <3>2 DEF Ignored
      <4>2. a .. b - 1 \subseteq 0 .. n - 1
        BY <1>5, <4>1
      <4>3. arrived \cup (a .. b - 1) = arrived
        BY <1>1, <4>2
      <4> QED BY <1>4, <3>2, <4>3
    <3> QED BY <3>1, <3>2
  <2> QED BY <1>3, <2>2, <2>3, <2>4, <2>5 DEF ReceiverInv, Nxt
<1>10. CASE ~Ignored(n, a, b)
  <2>1. n < b /\ ~(a - n > MaxAhead)
    BY <1>5, <1>6, <1>10 DEF Ignored
  <2>2. /\ x \in C /\ x < b /\ x \in Nat /\ n <= x
        /\ Pieces(G, C, n) /\ Cover(G) = Cover(F) \cup (x .. b - 1)
    <3> HIDE DEF x
    <3>1. x = Larger(a, n) /\ G = F \cup {p} /\ p = NewPiece(n, a, b)
      BY DEF x
    <3> HIDE DEF G, p
    <3> QED BY <1>1, <1>2, <2>1, <3>1, AddPiece
  <2>3. PICK e : IsGap(G, n, e)
    <3> HIDE DEF G
    <3> QED BY <2>2, GapExists
  <2>4. d = [reasm |-> [base |-> Base, frags |-> Back(G, e)], out |-> StreamBytes(n, e)]
    <3>1. G = F \cup {NewPiece(n, a, b)}
      OBVIOUS
    <3> HIDE DEF G
    <3> QED BY <1>1, <1>2, <1>10, <1>8, <2>3, <3>1, RecvIs
  <2>5. x = n \/ (x = a /\ n <= a)
    BY <1>5 DEF Larger
  <2> HIDE DEF G, x
  <2>6. e \in C /\ e \in 0 .. StreamLen /\ e \in Nat /\ n <= e
    <3>1. e \in C /\ e \in 0 .. StreamLen /\ n <= e
      BY <2>2, <2>3, GapIsCut
    <3> QED BY <3>1
  <2>7. /\ Cover(G) = (n .. e - 1) \cup Cover(Back(G, e))
        /\ Pieces(Back(G, e), C, e) /\ \A f \in Back(G, e) : f.off # e
    BY <2>2, <2>3, CoverSplit
  <2>8. reasm' = [base |-> Base, frags |-> Back(G, e)] /\ reasm'.frags = Back(G, e)
    BY <1>3, <2>4
  <2>9. rcv_nxt' = wrapping_add(Base, e)
    <3>1. Len(d.out) = e - n
      BY <1>5, <2>4, <2>6, BytesOf
    <3>2. e - n \in Nat /\ n + (e - n) <= StreamLen /\ n + (e - n) = e
      BY <1>5, <2>6
    <3>3. wrapping_add(wrapping_add(Base, n), e - n) = wrapping_add(Base, n + (e - n))
      BY <1>5, <3>2, OffsetPlus
    <3> QED BY <1>1, <1>3, <3>1, <3>2, <3>3
  <2>10. Nxt' = e
    BY <2>6, <2>9, OffsetOf DEF Nxt
  <2>11. out' = StreamBytes(0, e)
    <3>1. StreamBytes(0, n) \o StreamBytes(n, e) = StreamBytes(0, e)
      <4>1. 0 \in Nat /\ 0 <= n
        BY <1>5
      <4> QED BY <1>5, <2>6, <4>1, JoinBytes
    <3> QED BY <1>1, <1>3, <2>4, <3>1
  <2>12. arrived' = (0 .. e - 1) \cup Cover(Back(G, e))
    <3>1. arrived' = (0 .. n - 1) \cup Cover(F) \cup (a .. b - 1)
      BY <1>1, <1>4, <2>1
    <3>2. (0 .. n - 1) \cup (a .. b - 1) = (0 .. n - 1) \cup (x .. b - 1)
      BY <1>5, <2>1, <2>2, <2>5 DEF x, Larger
    <3>3. (0 .. n - 1) \cup (n .. e - 1) = 0 .. e - 1
      BY <1>5, <2>6
    <3> QED BY <2>2, <2>7, <3>1, <3>2, <3>3
  <2> QED BY <1>3, <2>7, <2>8, <2>9, <2>10, <2>11, <2>12 DEF ReceiverInv, C
<1> QED BY <1>9, <1>10

LEMMA ReceiverStep == ASSUME ReceiverInv, [Next]_vars PROVE ReceiverInv'
<1>1. CASE UNCHANGED vars
  BY <1>1 DEF vars, ReceiverInv, Nxt
<1> QED BY <1>1, ArriveStep DEF Next

(***************************************************************************)
(* What is buffered and what was delivered is, exactly, what arrived.      *)
(***************************************************************************)
THEOREM ReceiverInvariant == Spec => []ReceiverInv
<1> QED BY ReceiverInit, ReceiverStep, PTL DEF Spec

\* The reference's prefix is RCV.NXT.
LEMMA PrefixIsNxt == ASSUME ReceiverInv PROVE Prefix = Nxt
<1> DEFINE n == Nxt
           P(k) == 0 .. k - 1 \subseteq arrived /\ k \notin arrived
<1>1. n \in 0 .. StreamLen /\ n \in Int
  <2>1. n \in 0 .. StreamLen
    BY DEF ReceiverInv, Pieces
  <2> HIDE DEF n
  <2> QED BY <2>1
<1>2. n \notin arrived
  <2>1. n \notin Cover(reasm.frags)
    <3> SUFFICES ASSUME NEW f \in reasm.frags, f.off <= n, n < Edge(f) PROVE FALSE
      BY CoverIs DEF ReceiverInv
    <3>1. f.off >= n /\ f.off # n /\ f.off \in Int
      BY PieceNumbers DEF ReceiverInv
    <3> HIDE DEF n
    <3> QED BY <1>1, <3>1
  <2>2. n \notin 0 .. n - 1
    <3> HIDE DEF n
    <3> QED BY <1>1
  <2> QED BY <2>1, <2>2 DEF ReceiverInv
<1>3. 0 .. n - 1 \subseteq arrived
  BY DEF ReceiverInv
<1> HIDE DEF n
<1>4. ASSUME NEW k \in 0 .. StreamLen, P(k) PROVE k = n
  <2>1. ~(k < n)
    <3> SUFFICES ASSUME k < n PROVE FALSE
      OBVIOUS
    <3>1. k \in 0 .. n - 1
      BY <1>1
    <3> QED BY <1>3, <1>4, <3>1
  <2>2. ~(n < k)
    <3> SUFFICES ASSUME n < k PROVE FALSE
      OBVIOUS
    <3>1. n \in 0 .. k - 1
      BY <1>1
    <3> QED BY <1>2, <1>4, <3>1
  <2> QED BY <1>1, <2>1, <2>2
<1>5. P(n)
  BY <1>2, <1>3
<1>6. Prefix = CHOOSE k \in 0 .. StreamLen : P(k)
  BY DEF Prefix
<1> HIDE DEF P
<1>7. Prefix = n
  BY <1>1, <1>4, <1>5, <1>6
<1> QED BY <1>7 DEF n

(***************************************************************************)
(* recv (src/reassembly.rs) delivers the stream in order, once, and as     *)
(* early as possible, for every stream, every cut of it into segments and  *)
(* every order of arrival.                                                 *)
(***************************************************************************)
THEOREM DeliveryHolds == Spec => []DeliversUnbrokenPrefix
<1>1. ReceiverInv => DeliversUnbrokenPrefix
  BY PrefixIsNxt DEF ReceiverInv, DeliversUnbrokenPrefix
<1> QED BY <1>1, ReceiverInvariant, PTL

-----------------------------------------------------------------------------
(* sack_blocks *)

\* The piece right before f, as sack_blocks meets it in ascending order.
Before(F, f) == {g \in F : g.off < f.off /\ \A h \in F : h.off < f.off => h.off <= g.off}

\* The pieces that open a block.
Openers(F) == {f \in F : \A g \in Before(F, f) : FragEnd(g) # f.off}

\* f opens a block and g closes it.
Block(F, f, g) ==
    /\ f.off <= g.off
    /\ ~\E s \in Openers(F) : f.off < s.off /\ s.off <= g.off
    /\ \A h \in F : g \in Before(F, h) => h \in Openers(F)

\* j is the first offset beyond i that F does not cover.
IsEnd(F, i, j) ==
    j \in i + 1 .. StreamLen /\ i .. j - 1 \subseteq Cover(F) /\ j \notin Cover(F)

\* A piece that ends where another begins is the one right before it.
LEMMA BeforeIs ==
    ASSUME NEW C, NEW F, NEW n, Pieces(F, C, n), NEW f \in F, NEW g \in F, Edge(g) = f.off
    PROVE  g \in Before(F, f)
<1>1. g.off < f.off /\ g.off \in Int /\ f.off \in Int
  BY PieceNumbers
<1>2. ASSUME NEW h \in F, h.off < f.off PROVE h.off <= g.off
  <2>1. h.off \in Int /\ h.off \in C
    BY PieceNumbers DEF Pieces, Piece
  <2> SUFFICES ASSUME g.off < h.off PROVE FALSE
    BY <1>1, <2>1
  <2>2. h.off <= Edge(g)
    BY <1>1, <1>2, <2>1
  <2>3. h.off = Edge(g)
    BY <2>1, <2>2, CutIsEdge
  <2> QED BY <1>1, <1>2, <2>3
<1> QED BY <1>1, <1>2 DEF Before

\* A piece opens a block exactly when the offset before it is missing.
LEMMA OpenerIs ==
    ASSUME NEW C, NEW F, NEW n, Pieces(F, C, n), NEW f \in F
    PROVE  f \in Openers(F) <=> f.off - 1 \notin Cover(F)
<1>1. f.off \in Int /\ f.off \in C
  BY PieceNumbers DEF Pieces, Piece
<1>2. ASSUME f \in Openers(F), f.off - 1 \in Cover(F) PROVE FALSE
  <2>1. PICK g \in F : Edge(g) = f.off /\ g.off < f.off
    BY <1>1, <1>2, CoveredBefore
  <2>2. g \in Before(F, f)
    BY <2>1, BeforeIs
  <2>3. FragEnd(g) = f.off
    BY <2>1, PieceNumbers
  <2> QED BY <1>2, <2>2, <2>3 DEF Openers
<1>3. ASSUME f.off - 1 \notin Cover(F), NEW g \in Before(F, f), FragEnd(g) = f.off PROVE FALSE
  <2>1. g \in F
    BY DEF Before
  <2>2. Edge(g) = f.off /\ g.off \in Int /\ g.off < Edge(g)
    BY <1>3, <2>1, PieceNumbers
  <2>3. f.off - 1 \in Int /\ g.off <= f.off - 1 /\ f.off - 1 < Edge(g)
    BY <1>1, <2>2
  <2> QED BY <1>3, <2>1, <2>3, CoverIs
<1> QED BY <1>2, <1>3 DEF Openers

(***************************************************************************)
(* The pieces merged with an opener reach to the first gap.  Were one      *)
(* offset on the way missing, the lowest piece beyond it would open a      *)
(* block of its own.                                                       *)
(***************************************************************************)
LEMMA BlockReaches ==
    ASSUME NEW C, NEW F, NEW n, Pieces(F, C, n), NEW f \in F, NEW g \in F, Block(F, f, g)
    PROVE  IsEnd(F, f.off, Edge(g))
<1>1. /\ f.off \in Int /\ g.off \in Int /\ Edge(g) \in Int /\ g.off < Edge(g) /\ f.off <= g.off
      /\ Edge(g) <= StreamLen /\ Edge(g) \in C /\ StreamLen \in Int
  <2>1. f.off <= g.off
    BY DEF Block
  <2>2. Edge(g) \in C
    BY DEF Pieces, Piece
  <2> QED BY <2>1, <2>2, PieceNumbers, Circle
<1>2. ASSUME Edge(g) \in Cover(F) PROVE FALSE
  <2>1. PICK h \in F : h.off <= Edge(g) /\ Edge(g) < Edge(h)
    BY <1>2, CoverIs
  <2>2. h.off \in Int /\ Edge(h) \in Int
    BY PieceNumbers
  <2>3. h.off = Edge(g)
    <3> SUFFICES ASSUME h.off < Edge(g) PROVE FALSE
      BY <1>1, <2>1, <2>2
    <3>1. Edge(g) <= Edge(h)
      BY <1>1, <2>1, <2>2
    <3>2. Edge(g) = Edge(h)
      BY <1>1, <3>1, CutIsEdge
    <3> QED BY <2>1, <2>2, <3>2
  <2>4. h \in Openers(F)
    BY <2>3, BeforeIs DEF Block
  <2>5. h.off - 1 \in Int /\ g.off <= h.off - 1 /\ h.off - 1 < Edge(g)
    BY <1>1, <2>3
  <2>6. h.off - 1 \in Cover(F)
    BY <2>5, CoverIs
  <2> QED BY <2>4, <2>6, OpenerIs
<1>3. ASSUME NEW x \in f.off .. Edge(g) - 1, x \notin Cover(F) PROVE FALSE
  <2> DEFINE T == {t \in Nat : t > x /\ \E h \in F : h.off = t}
  <2>1. x \in Int /\ f.off <= x /\ x < Edge(g)
    BY <1>1
  <2>2. x < g.off
    <3>1. ~(g.off <= x)
      BY <1>3, <2>1, CoverIs
    <3> QED BY <1>1, <2>1, <3>1
  <2>3. g.off \in T
    BY <2>2, PieceNumbers
  <2>4. PICK t \in T : \A y \in T : t <= y
    <3>1. T \in SUBSET Nat /\ T # {}
      BY <2>3
    <3> HIDE DEF T
    <3> QED BY <3>1, LeastNumber
  <2>5. PICK s \in F : s.off = t
    OBVIOUS
  <2>6. s.off > x /\ s.off <= g.off /\ s.off \in Int /\ s.off \in C
    <3>1. s.off \in Int /\ s.off \in C
      BY PieceNumbers DEF Pieces, Piece
    <3> QED BY <2>3, <2>4, <2>5, <3>1
  <2>7. s.off - 1 \notin Cover(F)
    <3> SUFFICES ASSUME s.off - 1 \in Cover(F) PROVE FALSE
      OBVIOUS
    <3>1. PICK k \in F : Edge(k) = s.off /\ k.off < s.off
      BY <2>6, CoveredBefore
    <3>2. k.off \in Nat
      BY PieceNumbers
    <3>3. k.off <= x
      <4> SUFFICES ASSUME k.off > x PROVE FALSE
        BY <2>1, <3>2
      <4>1. k.off \in T
        BY <3>2
      <4> HIDE DEF T
      <4> QED BY <2>4, <2>5, <2>6, <3>1, <3>2, <4>1
    <3>4. x < Edge(k)
      BY <2>1, <2>6, <3>1
    <3> QED BY <1>3, <2>1, <3>3, <3>4, CoverIs
  <2>8. s \in Openers(F)
    BY <2>7, OpenerIs
  <2>9. f.off < s.off
    BY <1>1, <2>1, <2>6
  <2> QED BY <2>6, <2>8, <2>9 DEF Block
<1>4. Edge(g) \in f.off + 1 .. StreamLen
  BY <1>1
<1> QED BY <1>2, <1>3, <1>4 DEF IsEnd

\* And the piece that ends at the first gap closes the block.
LEMMA EndCloses ==
    ASSUME NEW C, NEW F, NEW n, Pieces(F, C, n), NEW f \in F, NEW g \in F,
           IsEnd(F, f.off, Edge(g))
    PROVE  Block(F, f, g)
<1>1. /\ f.off \in Int /\ f.off \in C /\ g.off \in Int /\ g.off \in C
      /\ Edge(g) \in Int /\ g.off < Edge(g)
  BY PieceNumbers DEF Pieces, Piece
<1>2. f.off < Edge(g) /\ f.off .. Edge(g) - 1 \subseteq Cover(F) /\ Edge(g) \notin Cover(F)
  <2>1. Edge(g) \in f.off + 1 .. StreamLen
    BY DEF IsEnd
  <2> QED BY <1>1, <2>1, Circle DEF IsEnd
<1>3. f.off <= g.off
  <2> SUFFICES ASSUME g.off < f.off PROVE FALSE
    BY <1>1
  <2>1. f.off <= Edge(g)
    BY <1>1, <1>2
  <2>2. f.off = Edge(g)
    BY <1>1, <2>1, CutIsEdge
  <2> QED BY <1>1, <1>2, <2>2
<1>4. ASSUME NEW s \in Openers(F), f.off < s.off, s.off <= g.off PROVE FALSE
  <2>1. s \in F
    BY DEF Openers
  <2>2. s.off \in Int
    BY <2>1, PieceNumbers
  <2>3. s.off - 1 \in f.off .. Edge(g) - 1
    BY <1>1, <1>4, <2>2
  <2> QED BY <1>2, <2>1, <2>3, OpenerIs
<1>5. ASSUME NEW h \in F, g \in Before(F, h) PROVE h \in Openers(F)
  <2> SUFFICES ASSUME h.off - 1 \in Cover(F) PROVE FALSE
    BY OpenerIs
  <2>1. h.off \in Int /\ h.off \in C /\ h.off < Edge(h)
    BY PieceNumbers DEF Pieces, Piece
  <2>2. PICK k \in F : Edge(k) = h.off /\ k.off < h.off
    BY <2>1, CoveredBefore
  <2>3. k.off \in Int
    BY PieceNumbers
  <2>4. k.off <= g.off /\ g.off < h.off
    BY <1>5, <2>2 DEF Before
  <2>5. k.off = g.off
    <3> SUFFICES ASSUME k.off < g.off PROVE FALSE
      BY <1>1, <2>3, <2>4
    <3>1. g.off <= Edge(k)
      BY <1>1, <2>1, <2>2, <2>4
    <3>2. g.off = Edge(k)
      BY <1>1, <3>1, CutIsEdge
    <3> QED BY <1>1, <2>1, <2>2, <2>4, <3>2
  <2>6. k = g
    BY <2>5, PieceIsItsOffset
  <2>7. h.off \in Cover(F)
    <3>1. h.off <= h.off
      BY <2>1
    <3> QED BY <2>1, <3>1, CoverIs
  <2> QED BY <1>2, <2>2, <2>6, <2>7
<1> QED BY <1>3, <1>4, <1>5 DEF Block

LEMMA EndIsUnique ==
    ASSUME NEW F, NEW i \in Int, NEW j, NEW k, IsEnd(F, i, j), IsEnd(F, i, k)
    PROVE  j = k
<1>1. j \in i + 1 .. StreamLen /\ k \in i + 1 .. StreamLen /\ StreamLen \in Int
  BY Circle DEF IsEnd
<1>2. j \notin i .. k - 1 /\ k \notin i .. j - 1
  BY DEF IsEnd
<1> QED BY <1>1, <1>2

\* Every covered offset has a first gap beyond it, where a piece ends.
LEMMA EndExists ==
    ASSUME NEW C, NEW F, NEW n, Pieces(F, C, n), NEW i \in Cover(F)
    PROVE  i \in Nat /\ \E g \in F : IsEnd(F, i, Edge(g))
<1> DEFINE T == {x \in i + 1 .. StreamLen : x \notin Cover(F)}
<1>1. PICK f \in F : i \in Int /\ f.off <= i /\ i < Edge(f)
  BY CoverIs
<1>2. i \in Nat /\ i < StreamLen /\ StreamLen \in Nat
  <2>1. f.off \in Nat /\ Edge(f) \in Nat /\ Edge(f) <= StreamLen
    BY PieceNumbers
  <2> QED BY <1>1, <2>1, Circle
<1>3. StreamLen \notin Cover(F)
  <2> SUFFICES ASSUME NEW h \in F, StreamLen < Edge(h) PROVE FALSE
    BY CoverIs
  <2> QED BY <1>2, PieceNumbers
<1>4. T \in SUBSET Nat /\ T # {}
  <2>1. StreamLen \in T
    BY <1>2, <1>3
  <2>2. T \subseteq Nat
    BY <1>2
  <2> QED BY <2>1, <2>2
<1>5. PICK j \in T : \A y \in T : j <= y
  <2> HIDE DEF T
  <2> QED BY <1>4, LeastNumber
<1>6. j \in i + 1 .. StreamLen /\ j \notin Cover(F) /\ j \in Int /\ i < j
  BY <1>2
<1>7. ASSUME NEW x \in i .. j - 1 PROVE x \in Cover(F)
  <2>1. CASE x = i
    BY <2>1
  <2>2. CASE x # i
    <3>1. x \in i + 1 .. StreamLen /\ ~(j <= x)
      BY <1>2, <1>6, <2>2
    <3>2. x \notin T
      <4> HIDE DEF T
      <4> QED BY <1>5, <3>1
    <3> QED BY <3>1, <3>2
  <2> QED BY <2>1, <2>2
<1>8. IsEnd(F, i, j)
  BY <1>6, <1>7 DEF IsEnd
<1>9. PICK g \in F : g.off <= j - 1 /\ j - 1 < Edge(g)
  <2>1. j - 1 \in i .. j - 1
    BY <1>2, <1>6
  <2> QED BY <1>7, <2>1, CoverIs
<1>10. Edge(g) = j
  <2>1. g.off \in Int /\ Edge(g) \in Int
    BY PieceNumbers
  <2>2. ~(g.off <= j /\ j < Edge(g))
    BY <1>6, CoverIs
  <2> QED BY <1>6, <1>9, <2>1, <2>2
<1> QED BY <1>2, <1>8, <1>10

\* A covered offset with a gap before it is where an opener begins.
LEMMA StartOpens ==
    ASSUME NEW C, NEW F, NEW n, Pieces(F, C, n), NEW i \in Cover(F), i - 1 \notin Cover(F)
    PROVE  \E f \in Openers(F) : f.off = i
<1>1. PICK f \in F : i \in Int /\ f.off <= i /\ i < Edge(f)
  BY CoverIs
<1>2. f.off \in Int /\ Edge(f) \in Int
  BY PieceNumbers
<1>3. ~(f.off <= i - 1)
  <2> SUFFICES ASSUME f.off <= i - 1 PROVE FALSE
    OBVIOUS
  <2>1. i - 1 \in Int /\ i - 1 < Edge(f)
    BY <1>1, <1>2
  <2> QED BY <2>1, CoverIs
<1>4. f.off = i
  BY <1>1, <1>2, <1>3
<1> QED BY <1>4, OpenerIs

\* The offsets that a set of them begins its unbroken ranges with.
RangeStarts(H) == {i \in H : i - 1 \notin H}

RangeEnd(H, i) == CHOOSE j \in i + 1 .. StreamLen : i .. j - 1 \subseteq H /\ j \notin H

LEMMA RangeEndIs ==
    ASSUME NEW F, NEW i \in Int, NEW j, IsEnd(F, i, j)
    PROVE  RangeEnd(Cover(F), i) = j
<1> DEFINE P(k) == i .. k - 1 \subseteq Cover(F) /\ k \notin Cover(F)
           S == i + 1 .. StreamLen
<1>1. RangeEnd(Cover(F), i) = CHOOSE k \in S : P(k)
  BY DEF RangeEnd
<1>2. j \in S /\ P(j)
  BY DEF IsEnd
<1>3. ASSUME NEW k \in S, P(k) PROVE k = j
  <2>1. IsEnd(F, i, k)
    BY <1>3 DEF IsEnd
  <2> QED BY <2>1, EndIsUnique
<1> HIDE DEF P, S
<1> QED BY <1>1, <1>2, <1>3

\* One block of sack_blocks, and of the reference.
BlockAt(i, j) == [left |-> wrapping_add(Base, i), right |-> wrapping_add(Base, j)]

LEMMA BlocksAreRanges ==
    ASSUME NEW C, NEW F, NEW n, Pieces(F, C, n)
    PROVE  {BlockAt(p[1].off, FragEnd(p[2])) :
                p \in {q \in Openers(F) \X F : Block(F, q[1], q[2])}}
           = {BlockAt(i, RangeEnd(Cover(F), i)) : i \in RangeStarts(Cover(F))}
<1> DEFINE L == {BlockAt(p[1].off, FragEnd(p[2])) :
                    p \in {q \in Openers(F) \X F : Block(F, q[1], q[2])}}
           H == Cover(F)
           R == {BlockAt(i, RangeEnd(H, i)) : i \in RangeStarts(H)}
<1>1. ASSUME NEW f \in Openers(F), NEW g \in F, Block(F, f, g)
      PROVE  f.off \in RangeStarts(H) /\ RangeEnd(H, f.off) = FragEnd(g)
  <2>1. f \in F
    BY DEF Openers
  <2>2. f.off \in Int /\ f.off < Edge(f) /\ f.off <= f.off /\ FragEnd(g) = Edge(g)
    BY <2>1, PieceNumbers
  <2>3. f.off \in H
    BY <2>1, <2>2, CoverIs
  <2>4. f.off - 1 \notin H
    BY <2>1, OpenerIs
  <2>5. IsEnd(F, f.off, Edge(g))
    BY <1>1, <2>1, BlockReaches
  <2>6. RangeEnd(H, f.off) = Edge(g)
    BY <2>2, <2>5, RangeEndIs
  <2> QED BY <2>2, <2>3, <2>4, <2>6 DEF RangeStarts
<1>2. ASSUME NEW i \in RangeStarts(H)
      PROVE  \E f \in Openers(F), g \in F :
                Block(F, f, g) /\ f.off = i /\ FragEnd(g) = RangeEnd(H, i)
  <2>1. i \in H /\ i - 1 \notin H
    BY DEF RangeStarts
  <2>2. PICK f \in Openers(F) : f.off = i
    BY <2>1, StartOpens
  <2>3. i \in Nat /\ \E g \in F : IsEnd(F, i, Edge(g))
    BY <2>1, EndExists
  <2>4. PICK g \in F : IsEnd(F, i, Edge(g))
    BY <2>3
  <2>5. f \in F
    BY DEF Openers
  <2>6. Block(F, f, g)
    BY <2>2, <2>4, <2>5, EndCloses
  <2>7. RangeEnd(H, i) = Edge(g) /\ FragEnd(g) = Edge(g)
    <3>1. i \in Int
      BY <2>3
    <3> QED BY <2>4, <3>1, RangeEndIs, PieceNumbers
  <2> QED BY <2>2, <2>6, <2>7
<1> HIDE DEF H
<1>3. ASSUME NEW b \in L PROVE b \in R
  <2>1. PICK p \in Openers(F) \X F : Block(F, p[1], p[2]) /\ b = BlockAt(p[1].off, FragEnd(p[2]))
    OBVIOUS
  <2>2. p[1] \in Openers(F) /\ p[2] \in F
    OBVIOUS
  <2>3. p[1].off \in RangeStarts(H) /\ RangeEnd(H, p[1].off) = FragEnd(p[2])
    BY <1>1, <2>1, <2>2
  <2> QED BY <2>1, <2>3
<1>4. ASSUME NEW b \in R PROVE b \in L
  <2>1. PICK i \in RangeStarts(H) : b = BlockAt(i, RangeEnd(H, i))
    OBVIOUS
  <2>2. PICK f \in Openers(F), g \in F :
            Block(F, f, g) /\ f.off = i /\ FragEnd(g) = RangeEnd(H, i)
    BY <1>2
  <2> DEFINE q == << f, g >>
  <2>3. q \in Openers(F) \X F /\ q[1] = f /\ q[2] = g
    OBVIOUS
  <2> HIDE DEF q
  <2>4. b = BlockAt(q[1].off, FragEnd(q[2])) /\ Block(F, q[1], q[2])
    BY <2>1, <2>2, <2>3
  <2> QED BY <2>3, <2>4
<1> HIDE DEF L, R
<1>5. L = R
  BY <1>3, <1>4
<1> QED BY <1>5 DEF L, R, H

\* What the reference holds is what is buffered.
LEMMA HeldIsCovered ==
    ASSUME ReceiverInv
    PROVE  {i \in arrived : i >= Prefix} = Cover(reasm.frags)
<1> DEFINE n == Nxt
           H == Cover(reasm.frags)
<1>1. n \in 0 .. StreamLen /\ arrived = (0 .. n - 1) \cup H /\ Prefix = n
  BY PrefixIsNxt DEF ReceiverInv, Pieces
<1>2. ASSUME NEW x \in H PROVE x \in Int /\ x >= n
  <2>1. PICK f \in reasm.frags : x \in Int /\ f.off <= x /\ x < Edge(f)
    BY CoverIs DEF ReceiverInv
  <2>2. f.off \in Int /\ f.off >= n
    BY PieceNumbers DEF ReceiverInv
  <2> HIDE DEF n, H
  <2> QED BY <1>1, <2>1, <2>2
<1> HIDE DEF n, H
<1>3. \A x \in 0 .. n - 1 : ~(x >= n)
  BY <1>1
<1>4. {i \in arrived : i >= Prefix} = H
  BY <1>1, <1>2, <1>3
<1> QED BY <1>4 DEF H

(***************************************************************************)
(* sack_blocks (src/reassembly.rs) reports exactly what arrived ahead of   *)
(* the gap, as maximal unbroken ranges: neighbours are merged, nothing     *)
(* delivered is reported and nothing buffered is left out.                 *)
(***************************************************************************)
THEOREM SackBlocksHold == Spec => []SackBlocksAreMaximal
<1>1. ASSUME ReceiverInv PROVE SackBlocksAreMaximal
  <2> DEFINE F == reasm.frags
             H == Cover(F)
  <2>1. reasm = [base |-> Base, frags |-> F] /\ Pieces(F, cuts, Nxt)
    BY <1>1 DEF ReceiverInv
  <2>2. reasm.base = Base
    BY <2>1
  <2>3. sack_blocks(reasm) =
            {BlockAt(p[1].off, FragEnd(p[2])) :
                p \in {q \in Openers(F) \X F : Block(F, q[1], q[2])}}
    BY <2>2 DEF sack_blocks, BlockAt, Openers, Block, Before
  <2>4. sack_blocks(reasm) = {BlockAt(i, RangeEnd(H, i)) : i \in RangeStarts(H)}
    <3> HIDE DEF F
    <3> QED BY <2>1, <2>3, BlocksAreRanges
  <2>5. {i \in arrived : i >= Prefix} = H
    BY <1>1, HeldIsCovered
  <2> HIDE DEF H, F
  <2> QED BY <2>4, <2>5 DEF SackBlocksAreMaximal, BlockAt, RangeEnd, RangeStarts
<1> QED BY <1>1, ReceiverInvariant, PTL

=============================================================================
