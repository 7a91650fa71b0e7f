----------------------------- MODULE MCGateway -----------------------------
(***************************************************************************)
(* Gateway on a small instance.  The tools are Kuzo.io's: one read-only    *)
(* (L0), one internal write (L2) and one money / legal write (L4), and one *)
(* name that is not registered.  The envelopes are those that take         *)
(* different ways through the pipeline.                                    *)
(***************************************************************************)
EXTENDS Gateway, TLC

MCAgents == {"Kuzo.io"}
MCTargets == MCAgents
MCRequesters == {"web"}
MCTools == {"kuzo.show_project_portal_status", "kuzo.capture_lead",
            "kuzo.capture_customer_approval", "unregistered"}
MCToolLevel ==
    [t \in MCTools \ {"unregistered"} |->
        CASE t = "kuzo.show_project_portal_status" -> "L0"
          [] t = "kuzo.capture_lead" -> "L2"
          [] OTHER -> "L4"]
MCWriteTools == {"kuzo.capture_lead", "kuzo.capture_customer_approval"}
MCScopeWords == {"nbpt_sale", "kuzo_swap"}
MCRedScopes == {"nbpt_sale"}
MCNyBlocked == {"kuzo_swap"}
MCContents == {"x"}
MCKillScopes == MCTargets \cup {Global}
\* The intake clerk of Kuzo.io serves kuzo.capture_lead; the other tools have
\* no sub-agent and go to the HTTP executor.
MCDelegated == {<<"Kuzo.io", "kuzo.capture_lead">>}

Plain(requester, tool_, declared) ==
    [ requester |-> requester, target |-> "Kuzo.io", tool |-> tool_,
      declared |-> declared, humanRequired |-> FALSE, signed |-> FALSE,
      claim |-> FALSE, scopes |-> {}, region |-> "none",
      oversize |-> FALSE, content |-> "x" ]

\* A cacheable read.
Read == Plain("web", "kuzo.show_project_portal_status", "L0")
\* A write of the money tool declared as read-only: unsigned and signed.
UnderDeclared == Plain("web", "kuzo.capture_customer_approval", "L0")
Signed == [Plain("web", "kuzo.capture_customer_approval", "unlisted")
              EXCEPT !.signed = TRUE]
\* An unregistered tool for which the caller itself asks for approval.
AsksForHuman == [Plain("web", "unregistered", "L0") EXCEPT !.humanRequired = TRUE]
\* A delegated internal write, and the same from New York in a blocked scope.
Lead == Plain("web", "kuzo.capture_lead", "L0")
NyLead == [Lead EXCEPT !.region = "new-york", !.scopes = {"kuzo_swap"}]

MCEnvelopes == {Read, UnderDeclared, Signed, AsksForHuman, Lead, NyLead}
LimitsEnvelopes == {Read, UnderDeclared, Lead}

CallSymmetry == Permutations(Calls)

\* What decides where a call goes and what the properties of this view's run
\* speak of.  The pipeline never reads lastEvent; and with no more calls than
\* the limit lets through, no counter comes to exceed it.
PipelineView == <<flag, admin, env, pc, audit, calllog, tool, cache, served, armed>>
=============================================================================
