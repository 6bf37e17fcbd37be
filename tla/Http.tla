-------------------------------- MODULE Http --------------------------------
(***************************************************************************)
(* The HTTP/1.x parser and responder of src/http.rs.  Request text is a    *)
(* sequence of tokens, each a piece of text that the parser tells apart    *)
(* from the others and that TCP may cut apart from its neighbours.         *)
(***************************************************************************)
EXTENDS Integers, Sequences

GET  == 1    \* "GET "
HEAD == 2    \* "HEAD "
GE   == 3    \* "GE", the method "GET " where TCP may cut it ...
T    == 4    \* ... and its second piece, "T "
V11  == 5    \* "/ HTTP/1.1"
V10  == 6    \* "/ HTTP/1.0"
TEXT == 7    \* text that names no version
CLOSE == 8   \* a "Connection: close" header line
KEEP  == 9   \* a "Connection: keep-alive" header line
END   == 10  \* the blank line

\* What the responder writes: a status line and headers, and a body.
OK_KEEP  == 11
OK_CLOSE == 12
BODY     == 13

\* The place of the first token of buf that is in S; 0 if there is none.
FirstOf(buf, S) ==
    LET found == {i \in 1 .. Len(buf) : buf[i] \in S}
    IN  IF found = {} THEN 0 ELSE CHOOSE i \in found : \A j \in found : i <= j

\* request_head_len: the head with its blank line; 0 stands for None.
request_head_len(buf) == FirstOf(buf, {END})

\* buf starts with a method and the space after it, in one token or in two.
looks_like_request(buf) ==
    \E m \in {<< GET >>, << HEAD >>, << GE, T >>} :
        Len(m) <= Len(buf) /\ SubSeq(buf, 1, Len(m)) = m

\* The request line: everything before the first header line or the blank line.
RequestLine(head) == SubSeq(head, 1, FirstOf(head, {CLOSE, KEEP, END}) - 1)

Malformed == [ok |-> FALSE, body |-> FALSE, keep_alive |-> FALSE]

(***************************************************************************)
(* parse_request: method, target and a version that we know; persistence   *)
(* by version unless a Connection header, the last one, says otherwise.    *)
(***************************************************************************)
parse_request(head) ==
    LET line   == RequestLine(head)
        Line(v) == {m \o << v >> : m \in {<< GET >>, << HEAD >>, << GE, T >>}}
        said   == SelectSeq(head, LAMBDA t : t \in {CLOSE, KEEP})
    IN  IF line \in Line(V11) \cup Line(V10)
        THEN [ok |-> TRUE, body |-> Head(line) # HEAD,
              keep_alive |-> IF said = << >> THEN line \in Line(V11)
                             ELSE said[Len(said)] = KEEP]
        ELSE Malformed

\* response: HEAD gets no body.
response(req) ==
    << IF req.keep_alive THEN OK_KEEP ELSE OK_CLOSE >> \o (IF req.body THEN << BODY >> ELSE << >>)

=============================================================================
