--------------------------- MODULE ModuleCatalog ---------------------------
(***************************************************************************)
(* The module catalog and the workflow definitions of the orchestrator     *)
(* (nobleport-systems/orchestrator/nobleport: modules.py, registry.py,     *)
(* workflows/definitions.py), which do not change while it runs.  A run is *)
(* known by the workflow it runs: Plan gives the modules of its steps.     *)
(***************************************************************************)
EXTENDS Integers, Sequences

CONSTANTS
    Modules,   \* names of the catalog
    Risk,      \* module -> its risk
    Status,    \* module -> its operational status
    Runs,      \* workflow runs
    Plan       \* run -> the modules of its steps, in order

Risks == {"LOW", "MEDIUM", "HIGH", "CRITICAL"}
Statuses == {"LIVE", "STAGED", "READ_ONLY"}

ASSUME CatalogAssumption ==
    /\ Risk \in [Modules -> Risks]
    /\ Status \in [Modules -> Statuses]
    /\ Plan \in [Runs -> Seq(Modules)]

RequiresHumanGate(m) == Risk[m] \in {"HIGH", "CRITICAL"}

\* Treasury and securities: never run in the platform, even when approved.
HardBlocked(m) == Risk[m] = "CRITICAL"

\* The step at a cursor, which counts from 0.
StepAt(r, i) == Plan[r][i + 1]
=============================================================================
