------------------------------ MODULE McpEndpoint ------------------------------
(***************************************************************************)
(* Who serves the workspace to MCP clients.  The application opens the     *)
(* workspace and then listens at a socket whose path follows from the      *)
(* workspace; the executable that a client starts connects to it, and      *)
(* opens the workspace itself when nobody listens there.                   *)
(*                                                                         *)
(* DuckDB lets one process at a time open a workspace, until that process  *)
(* ends (external); it is the only lock there is.  A session with an agent *)
(* is only whom it talks to: what it says is in McpSession.                *)
(***************************************************************************)
EXTENDS Integers

CONSTANTS
  Apps,          \* processes of the application, each started any number of times
  Agents,        \* stdio processes
  Absent,        \* no process
  MaxMishaps     \* bound on crashes and failed system calls

ASSUME EndpointAssumption ==
  Absent \notin Apps \cup Agents /\ Apps \cap Agents = {} /\ MaxMishaps \in Nat

VARIABLES
  owner,      \* the process that has the workspace open
  socket,     \* workspace.sock: the process that bound it
  app,        \* the step of each application
  agent,      \* the step of each stdio process and whom it is connected to
  mishaps

endpointVars == <<owner, socket, app, agent, mishaps>>

EndpointInit ==
  /\ owner = Absent /\ socket = Absent /\ mishaps = 0
  /\ app = [a \in Apps |-> "down"] /\ agent = [g \in Agents |-> [at |-> "idle", by |-> Absent]]

Mishap == mishaps < MaxMishaps /\ mishaps' = mishaps + 1

(* Somebody accepts connections at the socket.                             *)
Listening == socket \in Apps /\ app[socket] = "serving"

(* The sessions of an application end with its listener.                   *)
CutOff(a) ==
  agent' = [g \in Agents |-> IF agent[g].by = a THEN [at |-> "cut", by |-> Absent] ELSE agent[g]]

-----------------------------------------------------------------------------
(* The application: run_live.                                              *)

(* When the workspace is taken the application ends.                       *)
OpenWorkspace(a) ==
  /\ app[a] = "down" /\ owner = Absent
  /\ owner' = a /\ app' = [app EXCEPT ![a] = "opened"]
  /\ UNCHANGED <<socket, agent, mishaps>>

(* A socket at which nobody answers was left by a crash.                   *)
FindSocket(a) ==
  /\ app[a] = "opened"
  /\ app' = [app EXCEPT ![a] = CASE socket = Absent -> "free"
                                 [] Listening -> "rivalled"
                                 [] OTHER -> "stale"]
  /\ UNCHANGED <<owner, socket, agent, mishaps>>

RemoveStale(a) ==
  /\ app[a] = "stale"
  /\ socket' = Absent /\ app' = [app EXCEPT ![a] = "free"]
  /\ UNCHANGED <<owner, agent, mishaps>>

Bind(a) ==
  /\ app[a] = "free"
  /\ IF socket = Absent
     THEN socket' = a /\ app' = [app EXCEPT ![a] = "serving"]
     ELSE app' = [app EXCEPT ![a] = "rivalled"] /\ UNCHANGED socket
  /\ UNCHANGED <<owner, agent, mishaps>>

(* The application goes on without MCP; a socket that was bound before its *)
(* permissions could not be set stays behind.                              *)
StartFails(a) ==
  /\ app[a] \in {"opened", "stale", "free"}
  /\ Mishap
  /\ app' = [app EXCEPT ![a] = "unserved"]
  /\ \/ UNCHANGED socket
     \/ app[a] = "free" /\ socket = Absent /\ socket' = a
  /\ UNCHANGED <<owner, agent>>

(* McpWorkspaceServer::shutdown first stops the listener.                  *)
Quit(a) ==
  /\ app[a] \in {"serving", "unserved", "rivalled"}
  /\ app' = [app EXCEPT ![a] = IF @ = "serving" THEN "closing" ELSE "leaving"]
  /\ CutOff(a)
  /\ UNCHANGED <<owner, socket, mishaps>>

(* It removes the file at the path, whoever made it.                       *)
Unlink(a) ==
  /\ app[a] = "closing"
  /\ socket' = Absent /\ app' = [app EXCEPT ![a] = "leaving"]
  /\ UNCHANGED <<owner, agent, mishaps>>

(* runtime.shutdown, and the process ends.                                 *)
Exit(a) ==
  /\ app[a] = "leaving"
  /\ owner' = Absent /\ app' = [app EXCEPT ![a] = "down"]
  /\ UNCHANGED <<socket, agent, mishaps>>

CrashApp(a) ==
  /\ app[a] # "down"
  /\ Mishap
  /\ owner' = Absent /\ app' = [app EXCEPT ![a] = "down"] /\ CutOff(a)
  /\ UNCHANGED socket

-----------------------------------------------------------------------------
(* The stdio process: run_stdio_entrypoint.                                *)

Connect(g) ==
  /\ agent[g].at = "idle"
  /\ agent' = [agent EXCEPT ![g] = IF Listening THEN [at |-> "served", by |-> socket]
                                   ELSE [at |-> "opening", by |-> Absent]]
  /\ UNCHANGED <<owner, socket, app, mishaps>>

(* It ends when the workspace is taken.                                    *)
OpenAlone(g) ==
  /\ agent[g].at = "opening"
  /\ IF owner = Absent
     THEN owner' = g /\ agent' = [agent EXCEPT ![g] = [at |-> "alone", by |-> g]]
     ELSE agent' = [agent EXCEPT ![g].at = "idle"] /\ UNCHANGED owner
  /\ UNCHANGED <<socket, app, mishaps>>

Leave(g) ==
  /\ agent[g].at \in {"served", "alone", "cut"}
  /\ agent' = [agent EXCEPT ![g] = [at |-> "idle", by |-> Absent]]
  /\ owner' = IF owner = g THEN Absent ELSE owner
  /\ UNCHANGED <<socket, app, mishaps>>

EndpointNext ==
  \/ \E a \in Apps :
       \/ OpenWorkspace(a) \/ FindSocket(a) \/ RemoveStale(a) \/ Bind(a) \/ StartFails(a)
       \/ Quit(a) \/ Unlink(a) \/ Exit(a) \/ CrashApp(a)
  \/ \E g \in Agents : Connect(g) \/ OpenAlone(g) \/ Leave(g)

EndpointSpec == EndpointInit /\ [][EndpointNext]_endpointVars

-----------------------------------------------------------------------------
(* Properties.                                                             *)

Steps == {"down", "opened", "stale", "free", "rivalled", "unserved", "serving", "closing",
          "leaving"}

EndpointTypeOK ==
  /\ owner \in Apps \cup Agents \cup {Absent} /\ socket \in Apps \cup {Absent}
  /\ app \in [Apps -> Steps]
  /\ agent \in [Agents -> [at : {"idle", "opening", "served", "alone", "cut"},
                           by : Apps \cup Agents \cup {Absent}]]

(* However applications and agents start, end and crash: who answers an    *)
(* agent has the workspace open; the socket of an application that serves  *)
(* is its own, so that no other one's end takes it away; and no            *)
(* application that has the workspace finds another one at the socket, so  *)
(* that without a failed call every one of them serves.                    *)
EndpointIsSound ==
  /\ EndpointTypeOK
  /\ \A g \in Agents : agent[g].by # Absent => agent[g].by = owner
  /\ \A a \in Apps : /\ app[a] # "down" => owner = a
                     /\ app[a] = "serving" => socket = a
                     /\ app[a] # "rivalled"
  /\ mishaps = 0 /\ socket # Absent => app[socket] \in {"serving", "closing"}

================================================================================
