------------------------------ MODULE MCPConfig ------------------------------
(***************************************************************************)
(* The configured MCP servers (mcp_config.py) and the commands that change *)
(* them (mcp_cli.py): one JSON file.  A command loads it, changes one      *)
(* server and writes the whole file again; several commands and the runs   *)
(* that read it share nothing but the file.                                *)
(*                                                                         *)
(* The file is what load() makes of it: a file that is absent, empty or no *)
(* JSON has no servers.  Writing opens it, which empties it, and then      *)
(* fills it; a command may die in between.                                 *)
(***************************************************************************)
EXTENDS Naturals, FiniteSets

CONSTANTS
  Names,        \* names of servers
  Commands,     \* commands that may be open at the same time
  MaxCommands   \* bound: the commands that are begun

ASSUME ConfigAssumption == MaxCommands \in Nat

VARIABLES
  file,     \* the servers in the file
  command,  \* what each open command does, and how far it is
  begun,    \* the commands begun
  asked,    \* history: the servers as the commands that succeeded have left them
  clashed   \* history: a file was written over one that was not the one loaded,
            \* or was left empty by a command that died

configVars == <<file, command, begun, asked, clashed>>
-----------------------------------------------------------------------------
\* What a call needs to know of a server.  Transport, address, credentials and
\* trust are left out: a command changes trust as it changes enabled.
Servers == [purposed : BOOLEAN, enabled : BOOLEAN]
Configurations == UNION {[names -> Servers] : names \in SUBSET Names}
NoServers == [n \in {} |-> 0]

\* harness mcp add and setup; trust, untrust, enable and disable; remove.
Changes ==
  [do : {"add"}, name : Names, server : Servers]
  \cup [do : {"update"}, name : Names, enabled : BOOLEAN]
  \cup [do : {"remove"}, name : Names]

Known(servers, change) == change.do = "add" \/ change.name \in DOMAIN servers

Added(servers, name, server) ==
  [n \in DOMAIN servers \cup {name} |-> IF n = name THEN server ELSE servers[n]]

\* MCPConfigStore.add, update and remove, on what was loaded.
Changed(servers, change) ==
  CASE change.do = "add" -> Added(servers, change.name, change.server)
    [] change.do = "remove" -> [n \in DOMAIN servers \ {change.name} |-> servers[n]]
    [] OTHER -> [servers EXCEPT ![change.name].enabled = change.enabled]
-----------------------------------------------------------------------------
\* A command's record: its change, the file it loaded, and what it will write.
NoCommand == [at |-> "none"]
At(c, at) == command[c].at = at
Closed(c) == command' = [command EXCEPT ![c] = NoCommand]

BeginCommand(c) ==
  /\ At(c, "none") /\ begun < MaxCommands
  /\ \E change \in Changes : command' = [command EXCEPT ![c] = [at |-> "begun", change |-> change]]
  /\ begun' = begun + 1
  /\ UNCHANGED <<file, asked, clashed>>

\* Mutant: the server that was changed is not put into what is written.
LoadForgets(c) ==
  /\ At(c, "begun")
  /\ IF Known(file, command[c].change)
     THEN command' = [command EXCEPT ![c] =
            [at |-> "loaded", change |-> @.change, old |-> file, new |-> file]]
     ELSE Closed(c)
  /\ UNCHANGED <<file, begun, asked, clashed>>
\* An unknown name ends the command.
LoadFile(c) ==
  /\ At(c, "begun")
  /\ IF Known(file, command[c].change)
     THEN command' = [command EXCEPT ![c] =
            [at |-> "loaded", change |-> @.change, old |-> file, new |-> Changed(file, @.change)]]
     ELSE Closed(c)
  /\ UNCHANGED <<file, begun, asked, clashed>>

\* write_text opens the file, ...
OpenFile(c) ==
  /\ At(c, "loaded")
  /\ command' = [command EXCEPT ![c] = [@ EXCEPT !.at = "opened"]]
  /\ file' = NoServers
  /\ clashed' = (clashed \/ file # command[c].old)
  /\ UNCHANGED <<begun, asked>>

\* ... and writes its text from the start of the file.  If another command has
\* written meanwhile, the end of the longer text may remain, and the file is
\* no JSON.
WriteFile(c) ==
  /\ At(c, "opened")
  /\ file' \in {command[c].new} \cup (IF file = NoServers THEN {} ELSE {NoServers})
  /\ clashed' = (clashed \/ file # NoServers \/ \E d \in Commands \ {c} : At(d, "opened"))
  /\ asked' = IF clashed' THEN asked ELSE Changed(asked, command[c].change)
  /\ Closed(c) /\ UNCHANGED begun

\* The command is killed, or an exception ends it.
CommandDies(c) ==
  /\ ~At(c, "none")
  /\ clashed' = (clashed \/ At(c, "opened"))
  /\ Closed(c) /\ UNCHANGED <<file, begun, asked>>
-----------------------------------------------------------------------------
ConfigInit ==
  /\ file \in Configurations /\ asked = file
  /\ command = [c \in Commands |-> NoCommand]
  /\ begun = 0 /\ clashed = FALSE

ConfigNext ==
  \E c \in Commands :
    BeginCommand(c) \/ LoadFile(c) \/ OpenFile(c) \/ WriteFile(c) \/ CommandDies(c)
-----------------------------------------------------------------------------
\* The file lists exactly the servers the commands that succeeded have left,
\* each as it was left, as long as no two of them wrote over each other and none
\* died while the file was open.
AsConfigured ==
  ~clashed /\ (\A c \in Commands : ~At(c, "opened")) => file = asked
=============================================================================
