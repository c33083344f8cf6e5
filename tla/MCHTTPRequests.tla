--------------------------- MODULE MCHTTPRequests ---------------------------
(***************************************************************************)
(* An instance of HTTPRequests for TLC: one key, two users, protected      *)
(* idempotent routes of both transports, a route reached with the PSK, and *)
(* routes that need no authentication.                                     *)
(***************************************************************************)
EXTENDS HTTPRequests

CONSTANTS k, u1, u2, b1, b2

MCPermissions ==
    {<<u1, "record">>, <<u2, "record">>, <<"psk", "adjust">>, <<u1, "RecordUsage">>}

From(cred, route, key, body) ==
    [cred |-> cred, route |-> route, key |-> key, body |-> body, wait |-> 1]

\* The same for a gRPC call, with the deadline of its client.
Call(cred, method, key, wait) ==
    [cred |-> cred, route |-> method, key |-> key, body |-> b1, wait |-> wait]

\* Repetitions, another body and another user under the same key, requests
\* outside the idempotent routes or without a key, refused ones, and gRPC calls
\* under the same key whose clients wait for less and for more than the TTL.
MCInputs ==
    { From(u1, "record", k, b1), From(u1, "record", k, b2),
      From(u2, "record", k, b1), From("psk", "adjust", k, b1),
      From("none", "version", k, b1), From(u1, "record", NoKey, b1),
      From(u1, "record", BadKey, b1), From("none", "record", k, b1),
      From(u1, "adjust", k, b1), From(u2, "create", k, b1),
      Call(u1, "RecordUsage", k, 1), Call(u1, "RecordUsage", k, 2),
      Call(u2, "RecordUsage", k, 1), Call("none", "Check", NoKey, 1),
      Call(u1, "RecordUsage", BadKey, 1), Call("none", "RecordUsage", k, 1) }

Quiescent ==
    /\ \A p \in Posts : stage[p] = "done"
    /\ \A x \in Keys : records[x] = Absent
    /\ UNCHANGED httpVars

MCSpec == HTTPInit /\ [][HTTPNext \/ Quiescent]_httpVars
MCFairSpec ==
    MCSpec /\ WF_httpVars(Tick) /\ \A p \in Posts : WF_httpVars(PostStep(p))
=============================================================================
