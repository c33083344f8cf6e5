--------------------------- MODULE MCMeterCatalog ---------------------------
(***************************************************************************)
(* Instances of MeterCatalog for TLC.                                      *)
(***************************************************************************)
EXTENDS MeterCatalog

\* All calls have returned: the modelled period is over, and nothing is stuck.
CatalogQuiescent ==
    /\ \A c \in Calls : cpc[c] = "done"
    /\ UNCHANGED catalogVars

MCSpec == CatalogInit /\ [][CatalogNext \/ CatalogQuiescent]_catalogVars
MCFairSpec ==
    /\ MCSpec
    /\ \A c \in Calls : WF_catalogVars(CallStep(c))
=============================================================================
