----------------------------- MODULE KillSwitch -----------------------------
(***************************************************************************)
(* The kill switch of the MCP gateway (core/gateway/killswitch.py) and its *)
(* administrators' endpoints (core/gateway/app.py).                        *)
(*                                                                         *)
(* The hot flag is a Redis key per scope; every engage or release is also  *)
(* inserted in the Postgres table kill_switch_events.  The two writes are  *)
(* two awaited steps with nothing that ties them together: the second may  *)
(* fail, and the requests of two administrators interleave between them.   *)
(***************************************************************************)
CONSTANTS
    Admins,   \* concurrent engage / release requests
    KillScopes    \* "global" and the agent names

VARIABLES
    flag,       \* the scopes whose Redis key is set
    lastEvent,  \* scope -> the newest row of kill_switch_events for it
    admin       \* request -> what it still has to record

killVars == <<flag, lastEvent, admin>>

Global == "global"
Idle == [op |-> "idle", scope |-> Global]

ASSUME KillSwitchAssumption == Global \in KillScopes

KillTypeOK ==
    /\ flag \in SUBSET KillScopes
    /\ lastEvent \in [KillScopes -> {"none", "engage", "release"}]
    /\ admin \in [Admins -> [op: {"idle", "engage", "release"}, scope: KillScopes]]

KillInit ==
    /\ flag = {}
    /\ lastEvent = [s \in KillScopes |-> "none"]
    /\ admin = [a \in Admins |-> Idle]

-----------------------------------------------------------------------------

\* engage: redis.set, then the event is recorded.  A set that raises ends the
\* request with a server error, the key set or not.
Engage(a, s) ==
    /\ admin[a] = Idle
    /\ flag' = flag \cup {s}
    /\ \/ admin' = [admin EXCEPT ![a] = [op |-> "engage", scope |-> s]]
       \/ UNCHANGED admin
    /\ UNCHANGED lastEvent

\* release: redis.delete, then the event is recorded.
Release(a, s) ==
    /\ admin[a] = Idle
    /\ flag' = flag \ {s}
    /\ \/ admin' = [admin EXCEPT ![a] = [op |-> "release", scope |-> s]]
       \/ UNCHANGED admin
    /\ UNCHANGED lastEvent

\* _record: the insert commits, or it raises and the row may be there or not.
Record(a) ==
    /\ admin[a].op # "idle"
    /\ \/ lastEvent' = [lastEvent EXCEPT ![admin[a].scope] = admin[a].op]
       \/ UNCHANGED lastEvent
    /\ admin' = [admin EXCEPT ![a] = Idle]
    /\ UNCHANGED flag
=============================================================================
