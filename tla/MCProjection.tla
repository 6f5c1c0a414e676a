---------------------------- MODULE MCProjection ----------------------------
(* What goes into a workspace and what agents get out of it, in behaviours  *)
(* of four kinds that share no state: two payloads with spans of two        *)
(* traces, one of which mentions a span twice, the MCP endpoint with two    *)
(* processes of each sort, the session of an agent, and a failure inbox     *)
(* that follows the deltas.                                                 *)
EXTENDS Projection, McpServer, MCMcp, DeltaStream

CONSTANTS gui1, gui2, stdio1, stdio2, inbox

VARIABLE part

A == [error |-> FALSE, start |-> 1, end |-> 2]
B == [error |-> TRUE, start |-> 2, end |-> 1]
C == [error |-> FALSE, start |-> 0, end |-> 3]
MCContents == {A, B, C}
Up(t, s, c) == [trace |-> t, id |-> s, content |-> c]
MCSpansOf ==
  ("p1" :> <<Up("t1", "a", A), Up("t2", "a", C)>>) @@
  ("p2" :> <<Up("t1", "a", A), Up("t1", "b", B), Up("t1", "b", A)>>)

RunInit ==
  /\ Init /\ EndpointInit /\ SessionInit /\ StreamInit
  /\ part \in {"traces", "endpoint", "session", "stream"}
  /\ part # "stream" => filter[inbox] = "all"

RunNext ==
  \/ part = "traces" /\ Next /\ UNCHANGED <<part, endpointVars, sessionVars, deltaVars>>
  \/ part = "endpoint" /\ EndpointNext /\ UNCHANGED <<part, vars, sessionVars, deltaVars>>
  \/ part = "session" /\ SessionNext /\ UNCHANGED <<part, vars, endpointVars, deltaVars>>
  \/ part = "stream" /\ StreamNext /\ UNCHANGED <<part, vars, endpointVars, sessionVars>>

RunSpec ==
  /\ RunInit /\ [][RunNext]_<<part, vars, endpointVars, sessionVars, deltaVars>>
  /\ Fairness
  /\ WF_deltaVars(Publish)
  /\ \A f \in Followers :
       /\ WF_deltaVars(part = "stream" /\ Loop(f))
       /\ WF_deltaVars(ReadGroups(f)) /\ WF_deltaVars(AnswerNewest(f))

=============================================================================
