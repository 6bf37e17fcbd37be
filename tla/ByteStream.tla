----------------------------- MODULE ByteStream -----------------------------
(***************************************************************************)
(* The service a pair of connections gives its two users: a reliable byte  *)
(* stream each way, with an end that is seen only after every byte.        *)
(* Streams are counted; that the bytes are the right ones is               *)
(* TcpPair!StreamIntegrity.                                                *)
(***************************************************************************)
EXTENDS Naturals

CONSTANT Side

VARIABLES
    sent,      \* sent[e]: bytes e has put into its stream
    received,  \* received[e]: bytes e's user can read or has read
    ended,     \* ended[e]: e has ended its stream
    eof        \* eof[e]: e has seen the end of the other side's stream

vars == << sent, received, ended, eof >>

Other(e) == CHOOSE f \in Side : f # e

Init ==
    /\ sent = [e \in Side |-> 0] /\ received = [e \in Side |-> 0]
    /\ ended = [e \in Side |-> FALSE] /\ eof = [e \in Side |-> FALSE]

Send(e) ==
    /\ ~ended[e]
    /\ sent'[e] > sent[e] /\ sent' = [sent EXCEPT ![e] = sent'[e]]
    /\ UNCHANGED << received, ended, eof >>

End(e) ==
    /\ ~ended[e] /\ ended' = [ended EXCEPT ![e] = TRUE]
    /\ UNCHANGED << sent, received, eof >>

\* Bytes arrive, never more than were sent; with the last ones the end may come.
Receive(e) ==
    /\ \E n \in received[e] .. sent[Other(e)] : received' = [received EXCEPT ![e] = n]
    /\ \/ eof' = eof
       \/ /\ ended[Other(e)] /\ received'[e] = sent[Other(e)]
          /\ eof' = [eof EXCEPT ![e] = TRUE]
    /\ UNCHANGED << sent, ended >>

Next == \E e \in Side : Send(e) \/ End(e) \/ Receive(e)

Spec == Init /\ [][Next]_vars

=============================================================================
