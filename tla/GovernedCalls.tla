---------------------------- MODULE GovernedCalls ----------------------------
(***************************************************************************)
(* What the MCP gateway promises of a call, without its stages, its cache, *)
(* its counters and its call log: a tool is asked at most once, together   *)
(* with the row that announces it, and only for a call the gate permits    *)
(* and no engaged switch covers since it arrived; the rows of a call come  *)
(* in one order; the answer says what the rows say, and is final.          *)
(***************************************************************************)
EXTENDS Sequences

CONSTANTS
    Calls, NoCall,
    Envelopes,       \* what callers send
    Verdict(_),      \* what the gate says of an envelope
    Reads(_),        \* its tool writes nothing
    Local(_),        \* its tool runs in the gateway's process
    Question(_)      \* what makes two envelopes the same question

VARIABLES
    env,      \* call -> its envelope
    status,   \* call -> new, open, or how it ended
    trail,    \* call -> its rows of the audit log
    tool,     \* call -> whether its tool was asked, and has taken effect
    given,    \* call -> the call whose result it was given
    halted    \* calls that arrived under a switch not released since

vars == <<env, status, trail, tool, given, halted>>

Init ==
    /\ env \in [Calls -> Envelopes]
    /\ status = [c \in Calls |-> "new"]
    /\ trail = [c \in Calls |-> <<>>]
    /\ tool = [c \in Calls |-> "idle"]
    /\ given = [c \in Calls |-> NoCall]
    /\ halted = {}

-----------------------------------------------------------------------------

Arrive(c) ==
    /\ status[c] = "new"
    /\ status' = [status EXCEPT ![c] = "open"]
    /\ halted' \in {halted, halted \cup {c}}
    /\ UNCHANGED <<env, trail, tool, given>>

\* Switches are released.
Lift ==
    /\ halted' \in SUBSET halted
    /\ UNCHANGED <<env, status, trail, tool, given>>

\* Nothing has been done for the call, and no row tells of it.
Untouched(c) ==
    /\ status[c] = "open"
    /\ tool[c] = "idle"
    /\ given[c] = NoCall
    /\ trail[c] = <<>>

\* The tool is asked: with the row that says so, or not at all.
Attempt(c) ==
    /\ Untouched(c)
    /\ trail' = [trail EXCEPT ![c] = <<"PRE">>]
    /\ tool' = [tool EXCEPT ![c] = "sent"]
    /\ UNCHANGED <<env, status, given, halted>>

\* The tool takes effect, once; behind HTTP also when the call is long over.
Effect(c) ==
    /\ tool[c] = "sent"
    /\ Local(env[c]) => status[c] = "open" /\ trail[c] = <<"PRE">>
    /\ tool' = [tool EXCEPT ![c] = "done"]
    /\ UNCHANGED <<env, status, trail, given, halted>>

\* A row is written.  Its writer may take it for lost and end in an error.
Record(c, row) ==
    /\ trail' = [trail EXCEPT ![c] = Append(@, row)]
    /\ status' \in {status, [status EXCEPT ![c] = "raised"]}
    /\ UNCHANGED <<env, tool, given, halted>>

\* The row of a call that is parked, or of an attempt that is then not made.
Announce(c) ==
    /\ Untouched(c)
    /\ Record(c, "PRE")
    /\ Verdict(env[c]) # "BLOCK"

Refuse(c) == Untouched(c) /\ Record(c, "BLOCKED")

Confirm(c) ==
    /\ status[c] = "open"
    /\ tool[c] = "done"
    /\ trail[c] = <<"PRE">>
    /\ Record(c, "SUCCESS")

\* After a confirmation too, if the gateway could not learn of it.
Fail(c) ==
    /\ status[c] = "open"
    /\ tool[c] # "idle"
    /\ Local(env[c]) => tool[c] = "done"
    /\ trail[c] \in {<<"PRE">>, <<"PRE", "SUCCESS">>}
    /\ Record(c, "FAILED")

\* The confirmed result of a read answers the same question again.
Give(c, origin) ==
    /\ Untouched(c)
    /\ tool[origin] = "done"
    /\ \E i \in DOMAIN trail[origin] : trail[origin][i] = "SUCCESS"
    /\ Reads(env[origin])
    /\ Question(env[origin]) = Question(env[c])
    /\ given' = [given EXCEPT ![c] = origin]
    /\ UNCHANGED <<env, status, trail, tool, halted>>

\* Either is only done for a call that the gate permits and no switch halts.
Serve(c) ==
    /\ Attempt(c) \/ \E origin \in Calls : Give(c, origin)
    /\ c \notin halted
    /\ Verdict(env[c]) = "PERMIT"

\* What a caller may be told, given what was done.
May(c, answer) ==
    LET spared == tool[c] = "idle" /\ given[c] = NoCall
    IN  \/ answer = "BLOCKED" /\ spared /\ trail[c] \in {<<>>, <<"BLOCKED">>}
        \/ answer = "PARKED" /\ spared /\ trail[c] = <<"PRE">> /\ Verdict(env[c]) = "PARK"
        \/ answer = "DENIED" /\ spared /\ trail[c] \in {<<>>, <<"PRE">>}
        \/ answer = "CACHED" /\ given[c] # NoCall
        \/ answer = "SUCCESS" /\ trail[c] = <<"PRE", "SUCCESS">>
        \/ answer = "FAILED" /\ trail[c] \in {<<"PRE", "FAILED">>,
                                              <<"PRE", "SUCCESS", "FAILED">>}
        \/ answer = "raised"

Answers == {"BLOCKED", "PARKED", "DENIED", "CACHED", "SUCCESS", "FAILED", "raised"}

Answer(c, answer) ==
    /\ status[c] = "open"
    /\ May(c, answer)
    /\ status' = [status EXCEPT ![c] = answer]
    /\ UNCHANGED <<env, trail, tool, given, halted>>

\* The process stops: no open call gets an answer any more.
Stop ==
    /\ status' = [c \in Calls |-> IF status[c] = "open" THEN "dropped" ELSE status[c]]
    /\ UNCHANGED <<env, trail, tool, given, halted>>

Next ==
    \/ \E c \in Calls :
          \/ Arrive(c) \/ Serve(c) \/ Effect(c) \/ Announce(c) \/ Refuse(c)
          \/ Confirm(c) \/ Fail(c)
          \/ \E answer \in Answers : Answer(c, answer)
    \/ Lift
    \/ Stop

Spec == Init /\ [][Next]_vars

-----------------------------------------------------------------------------

\* What follows for a call: its tool is asked or it is given a result, never
\* both, and neither unless the gate permits it and no switch halts it.
ServedOnce ==
    \A c \in Calls :
        /\ tool[c] = "idle" \/ given[c] = NoCall
        /\ tool[c] # "idle" \/ given[c] # NoCall
              => c \notin halted /\ Verdict(env[c]) = "PERMIT"

\* A call that has ended stays as it ended: a late effect of its tool, the
\* writes of other calls and a restart do not open it again.
AnswersAreFinal ==
    [][\A c \in Calls : status[c] \notin {"new", "open"} => status'[c] = status[c]]_vars
=============================================================================
