-------------------------- MODULE MCSenderControl --------------------------
(***************************************************************************)
(* SenderControl for TLC.                                                  *)
(***************************************************************************)
EXTENDS SenderControl

Everything == {"dupack", "timeout"}

\* CUBIC on a steady path, followed until its u32 arithmetic wraps.
Lossy == [controller |-> "Cubic", samples |-> {4}, window |-> 40, faults |-> Everything]

\* An unsteady round-trip time under a window that is kept small.
Jitter == [controller |-> "Cubic", samples |-> {8, 100}, window |-> 4, faults |-> Everything]

\* BBR on a path whose round-trip time changes.
Modelled == [controller |-> "Bbr", samples |-> {1, 2}, window |-> 1000, faults |-> {"timeout"}]

\* BBR on a path that reorders.
Reordered == [controller |-> "Bbr", samples |-> {1}, window |-> 1000, faults |-> {"dupack"}]

MCPaths == [lossy |-> Lossy, jitter |-> Jitter, modelled |-> Modelled, reordered |-> Reordered]

OnlyLossy == [lossy |-> Lossy]

=============================================================================
