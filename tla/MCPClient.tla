------------------------------ MODULE MCPClient ------------------------------
(***************************************************************************)
(* A call of a configured MCP server (mcp_client.py): list_tools or        *)
(* call_tool opens a transport, initializes it, makes one request and      *)
(* closes the transport.  Over stdio the server is a process whose lines a *)
(* thread puts into a queue; over HTTP every message is one POST.          *)
(*                                                                         *)
(* The server is the environment: it reads when it likes, answers what it  *)
(* has read, in any order and more than once, sends requests and           *)
(* notifications of its own, exits, and may ignore a signal.  Payloads,    *)
(* headers, the session and standard error are left out, except for        *)
(* arguments that fill the pipe.                                           *)
(***************************************************************************)
EXTENDS MCPConfig, Sequences

CONSTANT MaxLines  \* bound: the lines a server writes

ASSUME ClientAssumption == MaxLines \in Nat

VARIABLES
  stage,    \* where the call is
  link,     \* its transport, and whether its arguments fill the pipe
  process,  \* the server of a stdio transport
  sent,     \* the messages sent: initialize (1), initialized, tools/* (2)
  heard,    \* those the server has read
  queue,    \* lines read from the server
  said,     \* lines the server has written
  outcome,  \* what the caller gets
  answer    \* history: the line that was taken for the result

callVars == <<stage, link, process, sent, heard, queue, said, outcome, answer>>
vars == <<configVars, callVars>>
-----------------------------------------------------------------------------
\* A line has an id, 0 for none: an answer or an error has that of a request of
\* the client, a request of the server one of its own.
Lines ==
  [kind : {"answer", "error"}, id : 1 .. 2]
  \cup [kind : {"request"}, id : 0 .. 2] \cup {[kind |-> "noise", id |-> 0]}
NoLine == [kind |-> "none", id |-> 0]
Empty == [kind |-> "empty", id |-> 0]   \* the body of an HTTP response

Call(s, l, p) == stage' = s /\ link' = l /\ process' = p
Ends(result) == outcome' = result
Closing(result) == stage' = "closing" /\ Ends(result)

\* MCPConfigStore.select, by name, by purpose, or the only server there is.
Enabled == {n \in DOMAIN file : file[n].enabled}
Selections ==
  {{n} \cap Enabled : n \in Names} \cup {{n \in Enabled : file[n].purposed}, Enabled}
Select ==
  /\ stage = "idle"
  /\ \E candidates \in Selections :
       IF Cardinality(candidates) = 1 THEN stage' = "selected" /\ UNCHANGED outcome
       ELSE stage' = "over" /\ Ends("error")
  /\ UNCHANGED <<link, process, sent, heard, queue, said, answer>>

\* The transport is opened; a command that cannot be started raises.
\* Bound: the call goes on only where no command has been begun, as it has no
\* use for the file any more.
Open ==
  /\ stage = "selected" /\ begun = 0
  /\ \/ \E b \in BOOLEAN : Call("greet", [by |-> "stdio", big |-> b], "running") /\ UNCHANGED outcome
     \/ Call("over", [by |-> "stdio", big |-> FALSE], "none") /\ Ends("exception")
     \/ Call("greet", [by |-> "http", big |-> FALSE], "none") /\ UNCHANGED outcome
  /\ UNCHANGED <<sent, heard, queue, said, answer>>

Stdio == link.by = "stdio"
Http == link.by = "http"

Writing == stage \in {"greet", "greeted", "ask"}
Waiting == stage \in {"greeting", "notifying", "asking"}
AfterWriting == [greet |-> "greeting", greeted |-> "ask", ask |-> "asking"]
RequestId == IF stage \in {"greet", "greeting"} THEN 1 ELSE 2
-----------------------------------------------------------------------------
\* StdioMCPTransport._write.  Arguments that fill the pipe are written while
\* the server reads them, and only then.
Blocked == stage = "ask" /\ link.big
Write ==
  /\ Stdio /\ Writing /\ process = "running" /\ ~Blocked
  /\ sent' = sent + 1 /\ stage' = AfterWriting[stage]
  /\ UNCHANGED <<link, process, heard, queue, said, outcome, answer>>
WriteAll ==
  /\ Stdio /\ Blocked /\ process = "running"
  /\ sent' = 3 /\ heard' = 3 /\ stage' = "asking"
  /\ UNCHANGED <<link, process, queue, said, outcome, answer>>
WriteFails ==
  /\ Stdio /\ Writing /\ process = "exited"
  /\ Closing("error")
  /\ UNCHANGED <<link, process, sent, heard, queue, said, answer>>

\* Mutant: a response is taken whatever its id.
IsResponseOfAny(line) == line.id # 0
\* request(): lines with another id are skipped.
IsResponse(line) == line.id = RequestId

\* Mutant: an error is not raised.
TakeQuietly(line) ==
  IF line.kind = "error" THEN stage' = "closing" /\ UNCHANGED <<outcome, answer>>
  ELSE IF stage \in {"greet", "greeting"} THEN stage' = "greeted" /\ UNCHANGED <<outcome, answer>>
  ELSE Closing("result") /\ answer' = line
\* result_from_response: an error raises, and what has neither error nor result
\* is a result as well.
Take(line) ==
  IF line.kind = "error" THEN Closing("error") /\ UNCHANGED answer
  ELSE IF stage \in {"greet", "greeting"} THEN stage' = "greeted" /\ UNCHANGED <<outcome, answer>>
  ELSE Closing("result") /\ answer' = line

Read ==
  /\ Stdio /\ Waiting /\ queue # <<>>
  /\ queue' = Tail(queue)
  /\ CASE Head(queue).kind = "noise" -> Closing("error") /\ UNCHANGED answer
       [] Head(queue).kind # "noise" /\ IsResponse(Head(queue)) -> Take(Head(queue))
       [] OTHER -> UNCHANGED <<stage, outcome, answer>>
  /\ UNCHANGED <<link, process, sent, heard, said>>

\* _read gives up: the server has exited, or nothing has come for timeout_s.
\* Every line that comes starts the timeout again.
GivesUp == queue = <<>>
StopReading ==
  /\ Stdio /\ Waiting /\ GivesUp
  /\ Closing("error")
  /\ UNCHANGED <<link, process, sent, heard, queue, said, answer>>

\* Mutant: a server that ignores the signal is left alone.
NextSignalOnce == [running |-> "terminated", terminated |-> "terminated", exited |-> "exited"]
\* close: terminate, and kill after a second.
NextSignal == [running |-> "terminated", terminated |-> "killed", exited |-> "exited"]
Close ==
  /\ Stdio /\ stage = "closing"
  /\ process' = NextSignal[process]
  /\ stage' = IF process = "running" THEN "closing" ELSE "over"
  /\ UNCHANGED <<link, sent, heard, queue, said, outcome, answer>>
-----------------------------------------------------------------------------
\* HttpMCPTransport._post: the request, ...
AfterPost == [greet |-> "greeting", greeted |-> "notifying", ask |-> "asking"]
Post ==
  /\ Http /\ Writing
  /\ sent' = sent + 1 /\ stage' = AfterPost[stage]
  /\ UNCHANGED <<link, process, heard, queue, said, outcome, answer>>

\* ... and its response, whose id is checked.  An empty body is a result.
Respond ==
  /\ heard' = heard + 1
  /\ IF stage = "notifying" THEN stage' = "ask" /\ UNCHANGED <<outcome, answer>>
     ELSE \E line \in {Empty} \cup [kind : {"answer", "error"}, id : {RequestId}] : Take(line)
\* What urllib reports as an HTTP or URL error is an MCP error, and so is
\* another id; a timeout while the body is read, a body that is no JSON and a
\* token that is not in the environment are exceptions of other kinds.
PostFails ==
  /\ heard' \in {heard, heard + 1}
  /\ Closing("error") \/ Closing("exception")
  /\ UNCHANGED answer
HttpResponse ==
  /\ Http /\ Waiting
  /\ Respond \/ PostFails
  /\ UNCHANGED <<link, process, sent, queue, said>>
CloseHttp ==
  /\ Http /\ stage = "closing"
  /\ stage' = "over"
  /\ UNCHANGED <<link, process, sent, heard, queue, said, outcome, answer>>
-----------------------------------------------------------------------------
\* The server of a stdio transport.
Alive == process \in {"running", "terminated"}
Hear ==
  /\ Alive /\ heard < sent
  /\ heard' = heard + 1
  /\ UNCHANGED <<stage, link, process, sent, queue, said, outcome, answer>>

\* The third message is the request with id 2.
Answerable == {id \in 1 .. 2 : heard >= (IF id = 1 THEN 1 ELSE 3)}
Say ==
  /\ Alive /\ said < MaxLines
  /\ \E line \in Lines :
       /\ line.kind \in {"answer", "error"} => line.id \in Answerable
       /\ queue' = Append(queue, line)
  /\ said' = said + 1
  /\ UNCHANGED <<stage, link, process, sent, heard, outcome, answer>>
Exit ==
  /\ Alive
  /\ process' = "exited"
  /\ UNCHANGED <<stage, link, sent, heard, queue, said, outcome, answer>>
-----------------------------------------------------------------------------
CallInit ==
  /\ stage = "idle" /\ link = [by |-> "none", big |-> FALSE] /\ process = "none"
  /\ sent = 0 /\ heard = 0 /\ queue = <<>> /\ said = 0
  /\ outcome = "none" /\ answer = NoLine

Init == ConfigInit /\ CallInit

ClientStep ==
  \/ Open \/ Write \/ WriteFails \/ Read \/ StopReading \/ Close \/ Post \/ HttpResponse \/ CloseHttp
ServerStep == WriteAll \/ Hear \/ Say \/ Exit

\* Bound: commands act until the call has read the file.
Next ==
  \/ stage = "idle" /\ ConfigNext /\ UNCHANGED callVars
  \/ (Select \/ ClientStep \/ ServerStep) /\ UNCHANGED configVars

Spec == Init /\ [][Next]_vars
\* The client runs on by itself: its reads and its closing have timeouts.
FairSpec == Spec /\ WF_vars(ClientStep /\ UNCHANGED configVars)
-----------------------------------------------------------------------------
TypeOK ==
  /\ file \in Configurations /\ asked \in Configurations
  /\ begun \in 0 .. MaxCommands /\ clashed \in BOOLEAN
  /\ stage \in {"idle", "selected", "greet", "greeting", "greeted", "notifying", "ask", "asking",
               "closing", "over"}
  /\ link \in [by : {"none", "stdio", "http"}, big : BOOLEAN]
  /\ process \in {"none", "running", "terminated", "exited", "killed"}
  /\ 0 <= heard /\ heard <= sent /\ sent <= 3
  /\ queue \in Seq(Lines) /\ Len(queue) <= said /\ said <= MaxLines
  /\ outcome \in {"none", "result", "error", "exception"}
  /\ answer \in Lines \cup {NoLine, Empty}
  /\ (outcome = "none") <=> (stage \notin {"closing", "over"})

\* A call is a RequestReply: greeted before it asks, ended once, answered only
\* after it asked, and then with what was sent for its own request: the answer
\* to it, an HTTP response without a body, or, as the code has it, a request of
\* the server that happens to have the same number.  An answer to the greeting
\* that comes late or twice is never taken for it, nor is an error.
Phase ==
  IF outcome = "result" THEN "answered" ELSE IF outcome # "none" THEN "failed"
  ELSE CASE stage \in {"idle", "selected", "greet"} -> "closed"
         [] stage \in {"greeted", "notifying", "ask"} -> "greeted"
         [] OTHER -> stage
OwnReplies == {Empty} \cup [kind : {"answer", "request"}, id : {2}]
Requests ==
  INSTANCE RequestReply WITH
    phase <- Phase, reply <- answer, Replies <- OwnReplies, NoReply <- NoLine
ImplementsRequestReply == Requests!Spec

\* A call that has opened its transport comes to an end, whatever the server
\* leaves unanswered, and leaves no server running that ignores the signal,
\* unless its arguments fill the pipe and the server does not read them: writing
\* has no timeout.  (Nor does a server that writes without end let a call end,
\* as each line starts the timeout again; MaxLines bounds that.  Over HTTP it is
\* each recv that does, so a body that comes drop by drop has no end either.)
CallEnds ==
  stage \notin {"idle", "selected"} ~>
    \/ stage = "over" /\ process \notin {"running", "terminated"}
    \/ Blocked /\ process = "running"
=============================================================================
