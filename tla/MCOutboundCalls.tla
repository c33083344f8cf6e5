--------------------------- MODULE MCOutboundCalls ---------------------------
(***************************************************************************)
(* Instances of OutboundCalls for TLC: concurrent calls of one upstream,   *)
(* over HTTP or over gRPC.                                                 *)
(***************************************************************************)
EXTENDS OutboundCalls, TLC

CONSTANTS c1, c2, c3

\* Failures add up over HTTP; over gRPC the first opens the breaker, so that a
\* call can end after the breaker has closed again.
MCThresholds == [p \in {"http", "grpc"} |-> IF p = "http" THEN 2 ELSE 1]

AllReturned == (\A c \in Calls : stage[c] = "done") /\ breaker.state # "open" /\ UNCHANGED outboundVars

MCSpec == OutboundInit /\ [][OutboundNext \/ AllReturned]_outboundVars

CallSymmetry == Permutations(Calls)
=============================================================================
