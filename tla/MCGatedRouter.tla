--------------------------- MODULE MCGatedRouter ---------------------------
(***************************************************************************)
(* GatedRouter on a small instance: one gateway connection and two or      *)
(* three requests, for the same workflow or for one that does not exist.   *)
(***************************************************************************)
EXTENDS GatedRouter

CONSTANTS w1, ghost

MCWorkflows == {w1, ghost}
MCExisting == {w1}
MCSubjects == MCWorkflows \cup {NoWorkflow}
MCEvents == Statuses \cup {"mcp_call"}
MCWriters == Beacons \cup Requests
MCInitialStatus == {"draft", "rejected"}

Body(workflow, scope, signed, region) ==
    [workflow |-> workflow, scope |-> scope, signed |-> signed, region |-> region]

MCRequestInputs ==
    { Body(w1, "site_visit", FALSE, "none"),
      Body(w1, "treasury_movement", TRUE, "none"),
      Body(w1, "treasury_movement", FALSE, "none"),
      Body(ghost, "site_visit", TRUE, "none"),
      Body(w1, "kuzo_swap", TRUE, "New York") }

\* Requests from New York for a blocked scope, in the spellings callers use.
MCNyInputs ==
    {Body(w1, "kuzo_swap", TRUE, region) : region \in {"NY", "ny", "New York", "NYC"}}
=============================================================================
