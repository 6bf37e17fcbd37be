---------------------------- MODULE MCEventLoop ----------------------------
(***************************************************************************)
(* EventLoop for TLC.  A segment holds three tokens, more than a response, *)
(* as in the code, so that Nagle applies to a response.                    *)
(***************************************************************************)
EXTENDS EventLoop, TLC

CONSTANTS q1, q2

\* A MAC without collisions for these handshakes.
MCMix(q, isn, count) == (count * 2 + (IF q = q1 THEN 0 ELSE 1)) * 2 + (isn % 2)

MCMssTable == << 2, 4 >>

\* Two requests, the second of which closes.
Pipelined == [script |-> q1 :> << GET, V11, END, HEAD, V10, END >>,
              windows |-> {6}, opens |-> 1, cookies |-> 0, ticks |-> 0, may |-> {"keepalive"}]

\* A Connection header and a request line without a version; a method that TCP may cut.
Headers == [script |-> q1 :> << HEAD, V10, KEEP, END, GET, TEXT, END >>,
            windows |-> {6}, opens |-> 1, cookies |-> 0, ticks |-> 0, may |-> {}]
Split == [script |-> q1 :> << GE, T, V11, END >>,
          windows |-> {6}, opens |-> 1, cookies |-> 0, ticks |-> 0, may |-> {"reset"}]

\* Echo with a window that closes, resends and the reaper.
Echo == [script |-> q1 :> << TEXT, TEXT, GET >>,
         windows |-> {0, 6}, opens |-> 1, cookies |-> 0, ticks |-> 0, may |-> {"resend", "reap", "keepalive"}]

\* Echo long enough for pacing to hold data when the window or the client closes.
PacedEcho == [script |-> q1 :> << TEXT, TEXT, TEXT >>,
              windows |-> {0, 6}, opens |-> 1, cookies |-> 0, ticks |-> 0, may |-> {"keepalive"}]

\* Two clients, one place in the backlog, time for cookies to expire.
Flood == [script |-> q1 :> << >> @@ q2 :> << >>,
          windows |-> {6}, opens |-> 2, cookies |-> 2, ticks |-> 4, may |-> {"reset"}]

AllScenarios == [pipelined |-> Pipelined, headers |-> Headers, split |-> Split,
                 echo |-> Echo, paced |-> PacedEcho, flood |-> Flood]

OnlyPipelined == [pipelined |-> Pipelined]

=============================================================================
