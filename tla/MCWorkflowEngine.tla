-------------------------- MODULE MCWorkflowEngine --------------------------
(***************************************************************************)
(* WorkflowEngine on shipped workflows (workflows/definitions.py), with    *)
(* the catalog entries of their modules (modules.py).                      *)
(***************************************************************************)
EXTENDS WorkflowEngine

CONSTANTS payout1, payout2, invoice, update

AwoToInvoice ==
    <<"jobs.awo_tracker", "finance.invoice_builder", "finance.billing_state",
      "finance.payment_reconcile">>
SubcontractorPayout ==
    <<"finance.payment_reconcile", "compliance.lien_waiver", "finance.payout_release">>
ClientUpdate == <<"finance.budget_variance", "jobs.punch_list", "comms.client_updates">>

\* Name, status and risk of the modules of these workflows.
Catalog ==
    { <<"jobs.awo_tracker", "LIVE", "MEDIUM">>,
      <<"finance.invoice_builder", "LIVE", "MEDIUM">>,
      <<"finance.billing_state", "LIVE", "MEDIUM">>,
      <<"finance.payment_reconcile", "LIVE", "HIGH">>,
      <<"compliance.lien_waiver", "STAGED", "HIGH">>,
      <<"finance.payout_release", "STAGED", "CRITICAL">>,
      <<"finance.budget_variance", "LIVE", "LOW">>,
      <<"jobs.punch_list", "LIVE", "LOW">>,
      <<"comms.client_updates", "LIVE", "MEDIUM">> }

MCModules == {m[1] : m \in Catalog}
MCStatus == [n \in MCModules |-> (CHOOSE m \in Catalog : m[1] = n)[2]]
MCRisk == [n \in MCModules |-> (CHOOSE m \in Catalog : m[1] = n)[3]]

MCRuns == {payout1, payout2, invoice}
MCPlan ==
    [r \in MCRuns |-> IF r = invoice THEN AwoToInvoice ELSE SubcontractorPayout]

UpdateRuns == {update}
UpdatePlan == [r \in UpdateRuns |-> ClientUpdate]

\* The catalog describes comms.client_updates as "outbound requires approval"
\* (modules.py:214) and the workflow its step as "approval gated"
\* (definitions.py:99): no update is sent for real that nobody approved.
OutboundNeedsApproval ==
    \A r \in Runs : \A k \in DOMAIN results[r] :
        StepAt(r, k - 1) = "comms.client_updates" =>
            results[r][k].simulated \/ results[r][k].approved
=============================================================================
