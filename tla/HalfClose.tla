----------------------------- MODULE HalfClose -----------------------------
(***************************************************************************)
(* What a TCP connection promises its user about opening and closing,      *)
(* abstracted from RFC 9293's ten states: two halves that close            *)
(* independently.  Ours is opened, closed by us, and then known to be      *)
(* closed by the peer; the peer's is closed when its FIN is taken in.  The *)
(* states of src/tcp.rs are names for combinations of the two.             *)
(***************************************************************************)
VARIABLES
    ours,     \* "opening", "open", "closing" (FIN sent), "closed" (FIN
              \* acknowledged) or "gone" (reset, reaped or finished)
    theirs    \* TRUE once the peer's FIN has been received in order

vars == << ours, theirs >>

Init == ours \in {"opening", "open"} /\ theirs = FALSE

\* The handshake completes; the completing segment may already carry a FIN.
Open == ours = "opening" /\ ours' = "open" /\ theirs' \in BOOLEAN

CloseOurs == ours = "open" /\ ours' = "closing" /\ theirs' = theirs

\* The peer's FIN, possibly on the segment that acknowledges ours.
CloseTheirs ==
    /\ ours \in {"open", "closing", "closed"} /\ ~theirs /\ theirs' = TRUE
    /\ ours' = ours \/ (ours = "closing" /\ ours' = "closed")

\* Our FIN is acknowledged.  If the peer closed first nothing is left to wait
\* for; if it closed at the same time the connection lingers.
OursAcknowledged ==
    /\ ours = "closing" /\ theirs' = theirs
    /\ ours' = "closed" \/ (theirs /\ ours' = "gone")

Vanish == ours # "gone" /\ ours' = "gone" /\ theirs' = theirs

Next == Open \/ CloseOurs \/ CloseTheirs \/ OursAcknowledged \/ Vanish

Spec == Init /\ [][Next]_vars

=============================================================================
