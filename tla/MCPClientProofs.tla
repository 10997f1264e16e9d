--------------------------- MODULE MCPClientProofs ---------------------------
(***************************************************************************)
(* For any names, commands and bound: unless two commands write over each  *)
(* other or one dies with the file open, the file lists exactly the        *)
(* servers the commands have left (AsConfigured); a call is a              *)
(* RequestReply; and the types are as they should be.                      *)
(*                                                                         *)
(* The step that has to be right is the last one of a command: it writes   *)
(* what it made of the file it loaded, which must by then be what the      *)
(* commands have left. So the invariant says of a command that has opened  *)
(* the file, and is the only one, that what it loaded is what they left.   *)
(***************************************************************************)
EXTENDS MCPClient, TLAPS

\* A command that has loaded the file.
Loaders ==
  {r \in [at : {"loaded", "opened"}, change : Changes, old : Configurations, new : Configurations] :
     r.new = Changed(r.old, r.change)}

\* What a command's record, and the file, may be.
CommandType ==
  /\ file \in Configurations /\ clashed \in BOOLEAN
  /\ command \in [Commands -> {NoCommand} \cup [at : {"begun"}, change : Changes] \cup Loaders]

Opened == {c \in Commands : At(c, "opened")}

\* Without a clash, an open file is empty, and the one command that has opened
\* it has loaded what the commands before it left.
OpenFileIsOurs ==
  ~clashed => \A c \in Opened :
    /\ file = NoServers
    /\ Opened = {c} => asked = command[c].old

IInv == CommandType /\ OpenFileIsOurs /\ AsConfigured
-----------------------------------------------------------------------------
\* A change of configured servers leaves configured servers.
LEMMA ChangedIsAConfiguration ==
  ASSUME NEW s \in Configurations, NEW change \in Changes, Known(s, change)
  PROVE  Changed(s, change) \in Configurations
<1> DEFINE D(new) == DOMAIN new \in SUBSET Names /\ new \in [DOMAIN new -> Servers]
<1>1. \A new : D(new) => new \in Configurations
  BY DEF Configurations
<1>2. DOMAIN s \in SUBSET Names /\ s \in [DOMAIN s -> Servers]
  BY DEF Configurations
<1>3. CASE change \in [do : {"add"}, name : Names, server : Servers]
  <2>1. Changed(s, change) = Added(s, change.name, change.server)
    BY <1>3 DEF Changed
  <2>2. D(Added(s, change.name, change.server))
    BY <1>2, <1>3 DEF Added
  <2> QED
    BY <1>1, <2>1, <2>2
<1>4. CASE change \in [do : {"update"}, name : Names, enabled : BOOLEAN]
  <2>1. /\ change.name \in DOMAIN s /\ change.enabled \in BOOLEAN
        /\ Changed(s, change) = [s EXCEPT ![change.name].enabled = change.enabled]
    BY <1>4 DEF Changed, Known
  <2>2. [s[change.name] EXCEPT !.enabled = change.enabled] \in Servers
    BY <1>2, <2>1 DEF Servers
  <2>3. D([s EXCEPT ![change.name].enabled = change.enabled])
    BY <1>2, <2>1, <2>2
  <2> QED
    BY <1>1, <2>1, <2>3
<1>5. CASE change \in [do : {"remove"}, name : Names]
  <2>1. Changed(s, change) = [n \in DOMAIN s \ {change.name} |-> s[n]]
    BY <1>5 DEF Changed
  <2>2. D([n \in DOMAIN s \ {change.name} |-> s[n]])
    BY <1>2
  <2> QED
    BY <1>1, <2>1, <2>2
<1> QED
  BY <1>3, <1>4, <1>5 DEF Changes
-----------------------------------------------------------------------------
\* Where no command has the file open it is what the commands left, and a
\* command that is not open says nothing of its record.
LEMMA RecordOf ==
  ASSUME CommandType, NEW c \in Commands
  PROVE  /\ At(c, "begun") => command[c].change \in Changes
         /\ At(c, "loaded") \/ At(c, "opened") => command[c] \in Loaders
<1>1. command[c] \in {NoCommand} \cup [at : {"begun"}, change : Changes] \cup Loaders
  BY DEF CommandType
<1>2. NoCommand.at = "none" /\ \A r \in [at : {"begun"}, change : Changes] : r.at = "begun"
  BY DEF NoCommand
<1>3. \A r \in Loaders : r.at \in {"loaded", "opened"}
  BY DEF Loaders
<1> QED
  BY <1>1, <1>2, <1>3 DEF At

LEMMA InitHolds == Init => IInv
<1> SUFFICES ASSUME Init PROVE IInv
  OBVIOUS
<1>1. file \in Configurations /\ asked = file /\ ~clashed /\ clashed \in BOOLEAN
     /\ command = [c \in Commands |-> NoCommand]
  BY DEF Init, ConfigInit
<1>2. \A c \in Commands : ~At(c, "opened")
  BY <1>1 DEF At, NoCommand
<1> QED
  BY <1>1, <1>2 DEF IInv, CommandType, OpenFileIsOurs, Opened, AsConfigured

\* A command begins, or ends without having opened the file.
LEMMA OthersKeep ==
  ASSUME IInv, NEW c \in Commands, ~At(c, "opened"),
         NEW r \in {NoCommand} \cup [at : {"begun"}, change : Changes]
                     \cup {l \in Loaders : l.at = "loaded"},
         command' = [command EXCEPT ![c] = r],
         UNCHANGED <<file, asked, clashed>>
  PROVE  IInv'
<1>1. CommandType'
  BY DEF IInv, CommandType
<1>2. r.at # "opened"
  BY DEF NoCommand
<1>3. \A d \in Commands : command'[d] = IF d = c THEN r ELSE command[d]
  BY DEF IInv, CommandType
<1>4. Opened' = Opened /\ \A d \in Commands : At(d, "opened")' = At(d, "opened")
  BY <1>2, <1>3 DEF Opened, At
<1>5. \A d \in Opened : command'[d] = command[d]
  BY <1>3 DEF Opened
<1> QED
  BY <1>1, <1>4, <1>5 DEF IInv, OpenFileIsOurs, AsConfigured

LEMMA OpenFileKeeps ==
  ASSUME IInv, NEW c \in Commands, OpenFile(c)
  PROVE  IInv'
<1> DEFINE r == [command[c] EXCEPT !.at = "opened"]
<1>1. /\ At(c, "loaded") /\ command' = [command EXCEPT ![c] = r]
      /\ file' = NoServers /\ asked' = asked /\ clashed' = (clashed \/ file # command[c].old)
  BY DEF OpenFile
<1>2. command[c] \in Loaders
  BY <1>1, RecordOf DEF IInv
<1>3. r \in Loaders /\ r.at = "opened" /\ r.old = command[c].old
  BY <1>2 DEF Loaders
<1>4. NoServers \in Configurations
  <2>1. {} \in SUBSET Names /\ NoServers \in [{} -> Servers]
    BY DEF NoServers
  <2> QED
    BY <2>1 DEF Configurations
<1>5. CommandType'
  BY <1>1, <1>3, <1>4 DEF IInv, CommandType
<1>6. \A d \in Commands : command'[d] = IF d = c THEN r ELSE command[d]
  BY <1>1 DEF IInv, CommandType
<1>7. At(c, "opened")'
  BY <1>3, <1>6 DEF At
<1>8. Opened' = Opened \cup {c}
  BY <1>3, <1>6 DEF Opened, At
<1>9. ASSUME ~clashed', Opened' = {c} PROVE asked' = command'[c].old
  <2>1. \A d \in Commands : ~At(d, "opened")
    BY <1>1, <1>8, <1>9 DEF Opened, At
  <2>2. file = asked /\ file = command[c].old
    BY <1>1, <1>9, <2>1 DEF IInv, AsConfigured
  <2> QED
    BY <1>1, <1>3, <1>6, <2>2
<1>10. OpenFileIsOurs'
  <2>1. ASSUME ~clashed', NEW d \in Opened', Opened' = {d} PROVE asked' = command'[d].old
    BY <1>8, <1>9, <2>1
  <2> QED
    BY <1>1, <2>1 DEF OpenFileIsOurs
<1> QED
  BY <1>5, <1>7, <1>10 DEF IInv, AsConfigured

LEMMA WriteFileKeeps ==
  ASSUME IInv, NEW c \in Commands, WriteFile(c)
  PROVE  IInv'
<1> DEFINE r == command[c]
<1>1. /\ At(c, "opened") /\ command' = [command EXCEPT ![c] = NoCommand]
      /\ file' \in {r.new} \cup (IF file = NoServers THEN {} ELSE {NoServers})
      /\ clashed' = (clashed \/ file # NoServers \/ \E d \in Commands \ {c} : At(d, "opened"))
      /\ asked' = IF clashed' THEN asked ELSE Changed(asked, r.change)
  BY DEF WriteFile, Closed
<1>2. r \in Loaders
  BY <1>1, RecordOf DEF IInv
<1>3. r.new \in Configurations /\ r.new = Changed(r.old, r.change)
  BY <1>2 DEF Loaders
<1>4. NoServers \in Configurations
  <2>1. {} \in SUBSET Names /\ NoServers \in [{} -> Servers]
    BY DEF NoServers
  <2> QED
    BY <2>1 DEF Configurations
<1>5. CommandType'
  BY <1>1, <1>3, <1>4 DEF IInv, CommandType
<1>6. \A d \in Commands : command'[d] = IF d = c THEN NoCommand ELSE command[d]
  BY <1>1 DEF IInv, CommandType
<1>7. CASE clashed'
  BY <1>5, <1>7 DEF IInv, OpenFileIsOurs, AsConfigured
<1>8. CASE ~clashed'
  <2>1. ~clashed /\ file = NoServers /\ \A d \in Commands \ {c} : ~At(d, "opened")
    BY <1>1, <1>8
  <2>2. Opened = {c}
    BY <1>1, <2>1 DEF Opened
  <2>3. asked = r.old
    BY <2>1, <2>2 DEF IInv, OpenFileIsOurs
  <2>4. file' = asked'
    BY <1>1, <1>3, <1>8, <2>1, <2>3
  <2>5. Opened' = {}
    BY <1>6, <2>1 DEF Opened, At, NoCommand
  <2> QED
    BY <1>5, <2>4, <2>5 DEF IInv, OpenFileIsOurs, AsConfigured
<1> QED
  BY <1>7, <1>8

\* A command that dies with the file open is a clash.
LEMMA DyingKeeps ==
  ASSUME IInv, NEW c \in Commands, CommandDies(c)
  PROVE  IInv'
<1>1. /\ command' = [command EXCEPT ![c] = NoCommand]
      /\ clashed' = (clashed \/ At(c, "opened")) /\ UNCHANGED <<file, asked>>
  BY DEF CommandDies, Closed
<1>2. CASE At(c, "opened")
  <2>1. CommandType' /\ clashed'
    BY <1>1, <1>2 DEF IInv, CommandType
  <2> QED
    BY <2>1 DEF IInv, OpenFileIsOurs, AsConfigured
<1>3. CASE ~At(c, "opened")
  <2>1. clashed' = clashed
    BY <1>1, <1>3 DEF IInv, CommandType
  <2>2. UNCHANGED <<file, asked, clashed>>
    BY <1>1, <2>1
  <2>3. NoCommand \in {NoCommand} \cup [at : {"begun"}, change : Changes]
                       \cup {l \in Loaders : l.at = "loaded"}
    OBVIOUS
  <2> QED
    BY <1>1, <1>3, <2>2, <2>3, OthersKeep
<1> QED
  BY <1>2, <1>3

LEMMA StepKeeps == IInv /\ [Next]_vars => IInv'
<1> SUFFICES ASSUME IInv, [Next]_vars PROVE IInv'
  OBVIOUS
<1>1. CASE UNCHANGED configVars
  BY <1>1 DEF IInv, CommandType, OpenFileIsOurs, Opened, AsConfigured, At, configVars
<1>2. ASSUME NEW c \in Commands, BeginCommand(c) PROVE IInv'
  <2>1. PICK change \in Changes : command' = [command EXCEPT ![c] = [at |-> "begun", change |-> change]]
    BY <1>2 DEF BeginCommand
  <2>2. ~At(c, "opened") /\ UNCHANGED <<file, asked, clashed>>
    BY <1>2 DEF BeginCommand, At
  <2>3. [at |-> "begun", change |-> change] \in [at : {"begun"}, change : Changes]
    OBVIOUS
  <2> QED
    BY <2>1, <2>2, <2>3, OthersKeep
<1>3. ASSUME NEW c \in Commands, LoadFile(c) PROVE IInv'
  <2> DEFINE change == command[c].change
             r == [at |-> "loaded", change |-> change, old |-> file, new |-> Changed(file, change)]
  <2>1. ~At(c, "opened") /\ UNCHANGED <<file, asked, clashed>> /\ change \in Changes
    BY <1>3, RecordOf DEF LoadFile, At, IInv
  <2>2. CASE ~Known(file, change)
    <3>1. command' = [command EXCEPT ![c] = NoCommand]
      BY <1>3, <2>2 DEF LoadFile, Closed
    <3> QED
      BY <2>1, <3>1, OthersKeep
  <2>3. CASE Known(file, change)
    <3>1. command' = [command EXCEPT ![c] = r]
      BY <1>3, <2>3 DEF LoadFile
    <3>2. file \in Configurations /\ Changed(file, change) \in Configurations
      BY <2>1, <2>3, ChangedIsAConfiguration DEF IInv, CommandType
    <3>3. r \in Loaders /\ r.at = "loaded"
      BY <2>1, <3>2 DEF Loaders
    <3>4. r \in {l \in Loaders : l.at = "loaded"}
      BY <3>3
    <3> HIDE DEF r
    <3> QED
      BY <2>1, <3>1, <3>4, OthersKeep
  <2> QED
    BY <2>2, <2>3
<1> QED
  BY <1>1, <1>2, <1>3, OpenFileKeeps, WriteFileKeeps, DyingKeeps DEF Next, ConfigNext, vars

\* The file lists exactly the servers the commands that succeeded have left,
\* as long as no two of them wrote over each other and none died while the file
\* was open; for any names, commands and bounds.
THEOREM FileIsAsConfigured == Spec => []AsConfigured
<1>1. Spec => []IInv
  BY InitHolds, StepKeeps, PTL DEF Spec
<1>2. IInv => AsConfigured
  BY DEF IInv
<1> QED
  BY <1>1, <1>2, PTL
-----------------------------------------------------------------------------
\* What the simulation of a RequestReply needs to know: a call has an outcome
\* exactly from its closing on, and only an HTTP call waits for a response to
\* its notification.
Stages ==
  {"idle", "selected", "greet", "greeting", "greeted", "notifying", "ask", "asking",
   "closing", "over"}
CallInv ==
  /\ queue \in Seq(Lines) /\ stage \in Stages
  /\ (outcome # "none") <=> (stage \in {"closing", "over"})
  /\ Stdio => stage # "notifying"

\* A step of a call keeps the invariant, and moves through its phases or stays
\* where it is.
Simulates == CallInv' /\ [Requests!Next]_<<Phase, answer>>

\* A step that leaves the stage, the outcome and the answer alone.
LEMMA Stutters ==
  ASSUME CallInv, UNCHANGED <<stage, link, outcome, answer>>, queue' \in Seq(Lines)
  PROVE  Simulates
BY DEF Simulates, CallInv, Phase, Stdio

\* A call that is not closing fails with an error or an exception.
LEMMA Fails ==
  ASSUME CallInv, stage \notin {"closing", "over"},
         stage' \in {"closing", "over"}, outcome' \in {"error", "exception"},
         UNCHANGED answer, queue' \in Seq(Lines)
  PROVE  Simulates
<1>1. Phase' = "failed" /\ CallInv'
  BY DEF CallInv, Phase, Stages
<1>2. Phase \notin {"answered", "failed"}
  BY DEF CallInv, Phase, Stages
<1> QED
  BY <1>1, <1>2 DEF Simulates, Requests!Next, Requests!Fail, Requests!Ended

\* What is taken for a response: a line that has the number of the request the
\* call waits for, or an HTTP response without a body.
LEMMA TakeSimulates ==
  ASSUME CallInv, stage \in {"greeting", "asking"}, NEW line \in Lines \cup {Empty}, Take(line),
         line = Empty \/ line.id = RequestId, UNCHANGED link, queue' \in Seq(Lines)
  PROVE  Simulates
<1>1. outcome = "none"
  BY DEF CallInv
<1>2. CASE line.kind = "error"
  BY <1>2, Fails DEF Take, Closing, Ends
<1>3. CASE line.kind # "error" /\ stage = "greeting"
  <2>1. stage' = "greeted" /\ UNCHANGED <<outcome, answer>>
    BY <1>3 DEF Take
  <2>2. Phase = "greeting" /\ Phase' = "greeted"
    BY <1>1, <1>3, <2>1 DEF Phase
  <2>3. CallInv'
    BY <1>1, <2>1 DEF CallInv, Stages, Stdio
  <2> QED
    BY <2>1, <2>2, <2>3 DEF Simulates, Requests!Next, Requests!Greeted, Requests!Proceed
<1>4. CASE line.kind # "error" /\ stage = "asking"
  <2>1. stage' = "closing" /\ outcome' = "result" /\ answer' = line
    BY <1>4 DEF Take, Closing, Ends
  <2>2. line \in OwnReplies
    <3>1. line = Empty \/ line.id = 2
      BY <1>4 DEF RequestId
    <3>2. line.id = 2 => line \in [kind : {"answer", "request"}, id : {2}]
      BY <1>4 DEF Lines, Empty
    <3> QED
      BY <3>1, <3>2 DEF OwnReplies
  <2>3. Phase = "asking" /\ Phase' = "answered"
    BY <1>1, <1>4, <2>1 DEF Phase
  <2>4. CallInv'
    BY <1>1, <2>1 DEF CallInv, Stages, Stdio
  <2> QED
    BY <2>1, <2>2, <2>3, <2>4 DEF Simulates, Requests!Next, Requests!Answer
<1> QED
  BY <1>2, <1>3, <1>4

\* Writing and posting: the phases in which nothing is waited for.
LEMMA SendingSimulates ==
  ASSUME CallInv, stage \in {"greet", "greeted", "ask"},
         \/ stage = "greet" /\ stage' = "greeting"
         \/ stage = "greeted" /\ stage' = "ask"
         \/ stage = "greeted" /\ stage' = "notifying" /\ Http
         \/ stage = "ask" /\ stage' = "asking",
         UNCHANGED <<link, queue, outcome, answer>>
  PROVE  Simulates
<1>1. outcome = "none" /\ outcome' = "none"
  BY DEF CallInv
<1>2. CallInv'
  BY <1>1 DEF CallInv, Stages, Stdio, Http
<1>3. CASE stage = "greet"
  BY <1>1, <1>2, <1>3
  DEF Simulates, Phase, Requests!Next, Requests!Greet, Requests!Proceed
<1>4. CASE stage = "greeted"
  BY <1>1, <1>2, <1>4 DEF Simulates, Phase
<1>5. CASE stage = "ask"
  BY <1>1, <1>2, <1>5
  DEF Simulates, Phase, Requests!Next, Requests!Ask, Requests!Proceed
<1> QED
  BY <1>3, <1>4, <1>5

LEMMA ClientSimulates ==
  ASSUME CallInv, Select \/ ClientStep \/ ServerStep
  PROVE  Simulates
<1>1. CASE Select
  <2>1. stage = "idle" /\ UNCHANGED <<link, queue, answer>>
    BY <1>1 DEF Select
  <2>2. CASE stage' = "selected" /\ UNCHANGED outcome
    BY <2>1, <2>2 DEF CallInv, Stages, Stdio, Simulates, Phase
  <2>3. CASE stage' = "over" /\ outcome' = "error"
    BY <2>1, <2>3, Fails DEF CallInv
  <2> QED
    BY <1>1, <2>2, <2>3 DEF Select, Ends
<1>2. CASE Open
  <2>1. stage = "selected" /\ UNCHANGED <<queue, answer>>
    BY <1>2 DEF Open
  <2>2. CASE stage' = "greet" /\ UNCHANGED outcome
    BY <2>1, <2>2 DEF CallInv, Stages, Stdio, Simulates, Phase
  <2>3. CASE stage' = "over" /\ outcome' = "exception"
    BY <2>1, <2>3, Fails DEF CallInv
  <2> QED
    BY <1>2, <2>2, <2>3 DEF Open, Call, Ends
<1>3. CASE Write \/ WriteAll \/ Post
  BY <1>3, SendingSimulates
  DEF Write, WriteAll, Post, Writing, AfterWriting, AfterPost, Blocked
<1>4. CASE WriteFails \/ StopReading
  BY <1>4, Fails DEF WriteFails, StopReading, Writing, Waiting, Closing, Ends, CallInv
<1>5. CASE Read
  <2>1. /\ stage \in {"greeting", "asking"} /\ queue # <<>> /\ queue' = Tail(queue)
        /\ UNCHANGED link /\ queue \in Seq(Lines)
    BY <1>5 DEF Read, Waiting, CallInv
  <2>2. Head(queue) \in Lines /\ queue' \in Seq(Lines)
    BY <2>1
  <2>3. CASE Head(queue).kind = "noise"
    <3>1. Closing("error") /\ UNCHANGED answer
      BY <1>5, <2>3 DEF Read
    <3> QED
      BY <2>1, <2>2, <3>1, Fails DEF Closing, Ends
  <2>4. CASE Head(queue).kind # "noise" /\ IsResponse(Head(queue))
    <3>1. Take(Head(queue))
      BY <1>5, <2>4 DEF Read
    <3> QED
      BY <2>1, <2>2, <2>4, <3>1, TakeSimulates DEF IsResponse
  <2>5. CASE Head(queue).kind # "noise" /\ ~IsResponse(Head(queue))
    <3>1. UNCHANGED <<stage, outcome, answer>>
      BY <1>5, <2>5 DEF Read
    <3> QED
      BY <2>1, <2>2, <3>1, Stutters
  <2> QED
    BY <2>3, <2>4, <2>5
<1>6. CASE HttpResponse
  <2>1. Waiting /\ UNCHANGED <<link, queue>> /\ queue \in Seq(Lines) /\ Http
    BY <1>6 DEF HttpResponse, CallInv
  <2>2. CASE PostFails
    BY <2>1, <2>2, Fails DEF PostFails, Waiting, Closing, Ends
  <2>3. CASE Respond /\ stage = "notifying"
    <3>1. stage' = "ask" /\ UNCHANGED <<outcome, answer>>
      BY <2>3 DEF Respond
    <3> QED
      BY <2>1, <2>3, <3>1 DEF CallInv, Stages, Stdio, Simulates, Phase
  <2>4. CASE Respond /\ stage # "notifying"
    <3>1. PICK line \in {Empty} \cup [kind : {"answer", "error"}, id : {RequestId}] : Take(line)
      BY <2>4 DEF Respond
    <3>2. RequestId \in 1 .. 2
      BY DEF RequestId
    <3>3. line \in Lines \cup {Empty} /\ (line = Empty \/ line.id = RequestId)
      BY <3>1, <3>2 DEF Lines
    <3>4. stage \in {"greeting", "asking"}
      BY <2>1, <2>4 DEF Waiting
    <3> QED
      BY <2>1, <3>1, <3>3, <3>4, TakeSimulates
  <2> QED
    BY <1>6, <2>2, <2>3, <2>4 DEF HttpResponse
<1>7. CASE Close \/ CloseHttp
  <2>1. /\ stage = "closing" /\ stage' \in {"closing", "over"}
        /\ UNCHANGED <<link, queue, outcome, answer>>
    BY <1>7 DEF Close, CloseHttp
  <2> QED
    BY <2>1 DEF CallInv, Stages, Stdio, Simulates, Phase
<1>8. CASE Hear \/ Exit
  BY <1>8, Stutters DEF Hear, Exit, CallInv
<1>9. CASE Say
  <2>1. PICK line \in Lines : queue' = Append(queue, line)
    BY <1>9 DEF Say
  <2>2. queue' \in Seq(Lines)
    BY <2>1 DEF CallInv
  <2> QED
    BY <1>9, <2>2, Stutters DEF Say
<1> QED
  BY <1>1, <1>2, <1>3, <1>4, <1>5, <1>6, <1>7, <1>8, <1>9 DEF ClientStep, ServerStep

\* Every call is a RequestReply: greeted before it asks, ended once, and
\* answered only with a reply to its own question, whatever the server writes
\* and in whichever order.
THEOREM CallsAreAnswered == Spec => ImplementsRequestReply
<1>1. Init => CallInv /\ Requests!Init
  BY DEF Init, CallInit, CallInv, Stages, Stdio, Requests!Init, Phase
<1>2. CallInv /\ [Next]_vars => CallInv' /\ [Requests!Next]_<<Phase, answer>>
  <2> SUFFICES ASSUME CallInv, [Next]_vars PROVE Simulates
    BY DEF Simulates
  <2>1. CASE UNCHANGED callVars
    BY <2>1, Stutters DEF callVars, CallInv
  <2>2. CASE Select \/ ClientStep \/ ServerStep
    BY <2>2, ClientSimulates
  <2> QED
    BY <2>1, <2>2 DEF Next, vars
<1> QED
  BY <1>1, <1>2, PTL DEF Spec, ImplementsRequestReply, Requests!Spec
-----------------------------------------------------------------------------
\* What the commands leave is a configuration, and their number is bounded.
LeftType == asked \in Configurations /\ begun \in 0 .. MaxCommands

LEMMA LeftStep ==
  ASSUME IInv, LeftType, ConfigNext
  PROVE  LeftType'
<1>1. ASSUME NEW c \in Commands, WriteFile(c) PROVE LeftType'
  <2> DEFINE r == command[c]
  <2>1. /\ At(c, "opened") /\ begun' = begun
        /\ clashed' = (clashed \/ file # NoServers \/ \E d \in Commands \ {c} : At(d, "opened"))
        /\ asked' = IF clashed' THEN asked ELSE Changed(asked, r.change)
    BY <1>1 DEF WriteFile
  <2>2. r \in Loaders
    BY <2>1, RecordOf DEF IInv
  <2>3. r.new \in Configurations /\ r.new = Changed(r.old, r.change)
    BY <2>2 DEF Loaders
  <2>4. CASE clashed'
    BY <2>1, <2>4 DEF LeftType
  <2>5. CASE ~clashed'
    <3>1. ~clashed /\ Opened = {c}
      BY <2>1, <2>5 DEF Opened
    <3>2. asked = r.old
      BY <3>1 DEF IInv, OpenFileIsOurs
    <3> QED
      BY <2>1, <2>3, <2>5, <3>2 DEF LeftType
  <2> QED
    BY <2>4, <2>5
<1>2. ASSUME NEW c \in Commands, BeginCommand(c) PROVE LeftType'
  BY <1>2, ConfigAssumption DEF BeginCommand, LeftType
<1>3. ASSUME NEW c \in Commands, LoadFile(c) \/ OpenFile(c) \/ CommandDies(c) PROVE LeftType'
  BY <1>3 DEF LoadFile, OpenFile, CommandDies, LeftType
<1> QED
  BY <1>1, <1>2, <1>3 DEF ConfigNext

\* The types of a call, and how many messages it has sent where: the server of
\* a process may have read fewer, an HTTP server has read what was posted and
\* answered.
CallType ==
  /\ link \in [by : {"none", "stdio", "http"}, big : BOOLEAN]
  /\ process \in {"none", "running", "terminated", "exited", "killed"}
  /\ heard \in Nat /\ sent \in Nat /\ said \in Nat
  /\ Len(queue) <= said /\ said <= MaxLines
  /\ outcome \in {"none", "result", "error", "exception"}
  /\ answer \in Lines \cup {NoLine, Empty}
SentWhen(s, n, h) ==
  /\ h <= n /\ n <= 3
  /\ s \in {"idle", "selected", "greet"} => n = 0
  /\ s \in {"greeting", "greeted"} => n = 1
  /\ s \in {"notifying", "ask"} => n = 2
PostedWhen(s, n, h) ==
  /\ s \in {"greet", "greeted", "ask"} => h = n
  /\ s \in {"greeting", "notifying", "asking"} => h + 1 = n
CallCounts ==
  /\ CallType /\ CallInv /\ SentWhen(stage, sent, heard)
  /\ stage \in {"idle", "selected"} => link.by = "none"
  /\ ~Stdio => process = "none"
  /\ Stdio /\ stage \notin {"over"} => process \in {"running", "terminated", "exited"}
  /\ Http => PostedWhen(stage, sent, heard)

LEMMA TakeTypes ==
  ASSUME CallCounts, stage \in {"greeting", "asking"}, NEW line \in Lines \cup {Empty}, Take(line)
  PROVE  /\ stage' \in {"closing", "greeted"} /\ (stage' = "greeted" => stage = "greeting")
         /\ outcome' \in {"none", "result", "error", "exception"}
         /\ answer' \in Lines \cup {NoLine, Empty}
BY DEF Take, Closing, Ends, CallCounts, CallType

\* A step of the call, or of its server, keeps the counts: first those that
\* send or receive nothing, then the others.
LEMMA CountsStep ==
  ASSUME CallCounts, CallInv', Select \/ ClientStep \/ ServerStep
  PROVE  CallCounts'
<1> USE DEF CallCounts, CallType
<1>1. CASE Select
  BY <1>1 DEF Select, Ends, Stdio, Http, SentWhen, PostedWhen
<1>2. CASE Open
  <2>1. /\ stage = "selected" /\ sent = 0 /\ heard = 0
        /\ UNCHANGED <<sent, heard, queue, said, answer>>
    BY <1>2 DEF Open, SentWhen
  <2>2. ASSUME NEW b \in BOOLEAN, Call("greet", [by |-> "stdio", big |-> b], "running"), UNCHANGED outcome
        PROVE  CallCounts'
    BY <2>1, <2>2 DEF Call, Stdio, Http, SentWhen
  <2>3. CASE Call("over", [by |-> "stdio", big |-> FALSE], "none") /\ Ends("exception")
    BY <2>1, <2>3 DEF Call, Ends, Stdio, Http, SentWhen
  <2>4. CASE Call("greet", [by |-> "http", big |-> FALSE], "none") /\ UNCHANGED outcome
    BY <2>1, <2>4 DEF Call, Stdio, Http, SentWhen, PostedWhen
  <2> QED
    BY <1>2, <2>2, <2>3, <2>4 DEF Open
<1>3. CASE Write
  BY <1>3 DEF Write, Writing, AfterWriting, Stdio, Http, SentWhen, PostedWhen
<1>4. CASE WriteAll
  BY <1>4 DEF WriteAll, Blocked, Stdio, Http, SentWhen, PostedWhen
<1>5. CASE WriteFails \/ StopReading
  <2>1. /\ Stdio /\ stage # "over" /\ stage' = "closing" /\ outcome' = "error"
        /\ UNCHANGED <<link, process, sent, heard, queue, said, answer>>
    BY <1>5 DEF WriteFails, StopReading, Writing, Waiting, Closing, Ends
  <2> QED
    BY <2>1 DEF Stdio, Http, SentWhen
<1>6. CASE Read
  <2>1. /\ Stdio /\ stage \in {"greeting", "asking"} /\ queue # <<>> /\ queue' = Tail(queue)
        /\ queue \in Seq(Lines) /\ UNCHANGED <<link, process, sent, heard, said>>
    BY <1>6 DEF Read, Waiting, CallInv
  <2>2. Head(queue) \in Lines /\ Len(queue') \in Nat /\ Len(queue') <= Len(queue)
        /\ Len(queue) \in Nat
    BY <2>1
  <2>3. /\ stage' \in {stage, "closing", "greeted"} /\ (stage' = "greeted" => stage = "greeting")
        /\ outcome' \in {"none", "result", "error", "exception"}
        /\ answer' \in Lines \cup {NoLine, Empty}
    BY <1>6, <2>1, <2>2, TakeTypes DEF Read, Closing, Ends
  <2> QED
    BY <2>1, <2>2, <2>3 DEF Stdio, Http, SentWhen, PostedWhen
<1>7. CASE Close
  BY <1>7 DEF Close, NextSignal, Stdio, Http, SentWhen, PostedWhen
<1>8. CASE Post
  BY <1>8 DEF Post, Writing, AfterPost, Stdio, Http, SentWhen, PostedWhen
<1>9. CASE HttpResponse
  <2>1. Http /\ Waiting /\ UNCHANGED <<link, process, sent, queue, said>>
    BY <1>9 DEF HttpResponse
  <2>2. heard < sent
    BY <2>1 DEF Waiting, PostedWhen
  <2>3. CASE PostFails
    <3>1. /\ stage' = "closing" /\ outcome' \in {"error", "exception"}
          /\ heard' \in {heard, heard + 1} /\ UNCHANGED answer
      BY <2>3 DEF PostFails, Closing, Ends
    <3>2. heard' \in Nat /\ heard' <= sent
      BY <2>2, <3>1
    <3> QED
      BY <2>1, <3>1, <3>2 DEF Stdio, Http, SentWhen, PostedWhen
  <2>4. CASE Respond /\ stage = "notifying"
    BY <2>1, <2>2, <2>4 DEF Respond, Stdio, Http, SentWhen, PostedWhen
  <2>5. CASE Respond /\ stage # "notifying"
    <3>1. stage \in {"greeting", "asking"} /\ heard' = heard + 1
      BY <2>1, <2>5 DEF Waiting, Respond
    <3>2. PICK line \in {Empty} \cup [kind : {"answer", "error"}, id : {RequestId}] : Take(line)
      BY <2>5 DEF Respond
    <3>3. RequestId \in 1 .. 2
      BY DEF RequestId
    <3>4. line \in Lines \cup {Empty}
      BY <3>2, <3>3 DEF Lines
    <3>5. /\ stage' \in {"closing", "greeted"} /\ (stage' = "greeted" => stage = "greeting")
          /\ outcome' \in {"none", "result", "error", "exception"}
          /\ answer' \in Lines \cup {NoLine, Empty}
      BY <3>1, <3>2, <3>4, TakeTypes
    <3> QED
      BY <2>1, <2>2, <3>1, <3>5 DEF Stdio, Http, SentWhen, PostedWhen
  <2> QED
    BY <1>9, <2>3, <2>4, <2>5 DEF HttpResponse
<1>10. CASE CloseHttp
  BY <1>10 DEF CloseHttp, Stdio, Http, SentWhen, PostedWhen
<1>11. CASE Hear
  BY <1>11 DEF Hear, Alive, Stdio, Http, SentWhen, PostedWhen
<1>12. CASE Say
  <2>1. PICK line \in Lines : queue' = Append(queue, line)
    BY <1>12 DEF Say
  <2>2. Len(queue') = Len(queue) + 1 /\ Len(queue) \in Nat
    BY <2>1 DEF CallInv
  <2> QED
    BY <1>12, <2>2, ClientAssumption DEF Say, Stdio, Http, SentWhen, PostedWhen
<1>13. CASE Exit
  BY <1>13 DEF Exit, Alive, Stdio, Http, SentWhen, PostedWhen
<1> QED
  BY <1>1, <1>2, <1>3, <1>4, <1>5, <1>6, <1>7, <1>8, <1>9, <1>10, <1>11, <1>12, <1>13
  DEF ClientStep, ServerStep

\* The types, and the bounds that relate them: no more is read than was sent,
\* nothing waits in the queue that was not said, and a call has an outcome
\* exactly from its closing on.
THEOREM TypeCorrect == Spec => []TypeOK
<1>1. Init => CallCounts /\ LeftType
  <2> SUFFICES ASSUME Init PROVE CallCounts /\ LeftType
    OBVIOUS
  <2>1. CallCounts
    BY ClientAssumption
    DEF Init, CallInit, CallCounts, CallType, CallInv, Stages, Stdio, Http, SentWhen, PostedWhen
  <2>2. LeftType
    BY ConfigAssumption DEF Init, ConfigInit, LeftType
  <2> QED
    BY <2>1, <2>2
<1>2. IInv /\ CallCounts /\ LeftType /\ [Next]_vars => (CallCounts /\ LeftType)'
  <2> SUFFICES ASSUME IInv, CallCounts, LeftType, [Next]_vars PROVE (CallCounts /\ LeftType)'
    OBVIOUS
  <2>1. CASE UNCHANGED callVars /\ ConfigNext
    BY <2>1, LeftStep
    DEF callVars, CallCounts, CallType, CallInv, Stages, Stdio, Http, SentWhen, PostedWhen
  <2>2. CASE (Select \/ ClientStep \/ ServerStep) /\ UNCHANGED configVars
    <3>1. CallInv'
      BY <2>2, ClientSimulates DEF Simulates, CallCounts
    <3> QED
      BY <2>2, <3>1, CountsStep DEF configVars, LeftType
  <2>3. CASE UNCHANGED vars
    BY <2>3
    DEF vars, callVars, configVars, LeftType,
        CallCounts, CallType, CallInv, Stages, Stdio, Http, SentWhen, PostedWhen
  <2> QED
    BY <2>1, <2>2, <2>3 DEF Next
<1>3. IInv /\ CallCounts /\ LeftType => TypeOK
  BY DEF IInv, CommandType, CallCounts, CallType, CallInv, SentWhen, LeftType, Stages, TypeOK
<1> QED
  BY <1>1, <1>2, <1>3, InitHolds, StepKeeps, PTL DEF Spec
=============================================================================
