-------------------------- MODULE MCUsageIngestion --------------------------
(***************************************************************************)
(* Instances of UsageIngestion for TLC: one meter that exists from the     *)
(* start (created by c0) and one call (c1) that may change it or create    *)
(* another, two or three requests, and the batches below.                  *)
(***************************************************************************)
EXTENDS UsageIngestion, TLC

CONSTANTS k1, k2, e1, e2, t1, t2, a1, a2

S11 == [tenant |-> t1, app |-> a1]
S12 == [tenant |-> t1, app |-> a2]
S21 == [tenant |-> t2, app |-> a1]

In(event, scope) == [event |-> event, scope |-> scope, code |-> k1, defect |-> "none"]
By(who, items) == [who |-> who, adjust |-> FALSE, items |-> items]

MCGranted == {S11, S21}
OwnEventId == [e \in EventIds |-> e]
CaseFolded == [e \in EventIds |-> e1]

\* Batches that meet: the same event twice in one batch, in two batches, in
\* opposite orders, in another scope, and an adjustment of it.
Meeting ==
    { By("service", <<In(e1, S11)>>),
      By("service", <<In(e1, S11), In(e2, S21)>>),
      By("service", <<In(e2, S21), In(e1, S11)>>),
      By("service", <<In(e2, S11), In(e2, S11)>>),
      [By("service", <<In(e1, S21)>>) EXCEPT !.adjust = TRUE] }

\* Those of them that need another request to meet.
Racing == Meeting \ {By("service", <<In(e2, S11), In(e2, S11)>>)}

\* Batches that are refused for what they are, or for who sends them.
Refused ==
    { By("nobody", <<In(e1, S11)>>),
      By("service", <<>>),
      By("service", <<In(e1, S11), In(e2, S11), In(e1, S11)>>),
      By("service", <<In(e1, S11), [In(e2, S11) EXCEPT !.defect = "fields"]>>),
      By("service", <<In(e1, S11), [In(e2, S11) EXCEPT !.defect = "dimensions"]>>),
      By("service", <<In(e1, S11), In(e2, S12)>>),
      By("service", <<In(e1, S11), [In(e2, S11) EXCEPT !.code = k2]>>),
      By(t1, <<In(e1, S11), In(e2, S21)>>) }

AllBatches == Meeting \cup Refused

\* Batches that never wait for each other in a cycle.
Acyclic ==
    { By("service", <<In(e1, S11)>>),
      By("service", <<In(e2, S11)>>),
      By("service", <<In(e1, S11), In(e2, S11)>>) }

\* All calls and requests have returned: nothing is stuck.
Quiescent ==
    /\ \A c \in Calls : cpc[c] = "done"
    /\ \A r \in Requests : pc[r] = "done"
    /\ UNCHANGED vars

MCSpec == UsageInit /\ [][UsageNext \/ Quiescent]_vars
MCFairSpec == MCSpec /\ \A r \in Requests : WF_vars(RequestStep(r))

RequestSymmetry == Permutations(Requests)
=============================================================================
