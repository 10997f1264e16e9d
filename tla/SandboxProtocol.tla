---------------------------- MODULE SandboxProtocol ----------------------------
(***************************************************************************)
(* The protocol between the host (sandbox/docker_repl.py) and the worker   *)
(* process in the container (sandbox/worker.py, sandbox/rlm_shim.py): one  *)
(* line of JSON per message over the worker's standard streams, which are  *)
(* reliable queues while the worker lives.  They are not the worker's own: *)
(* a process that a block starts inherits its standard output, and what it *)
(* prints there stands between or in the messages.                         *)
(*                                                                         *)
(* The host sends a block and reads lines until the result of that block   *)
(* arrives, serving the completion requests the block makes meanwhile.     *)
(* The worker runs the block under a timer.  Host, worker and timer are    *)
(* concurrent; the worker may die at any time.  What a block computes is   *)
(* left out, but for whether it lets the timer's exception through.  The   *)
(* host is a runtime, or the verification gate of the graph, which sends a *)
(* block for each of its checks and goes on when one of them has failed.   *)
(*                                                                         *)
(* The names keep clear of those of RLMRecursion, so that one module can   *)
(* extend both.                                                            *)
(***************************************************************************)
EXTENDS Integers, Sequences

CONSTANTS
  MaxCells,   \* bound: the blocks the host sends
  MaxAsks     \* bound: the completion requests the blocks make

ASSUME SandboxBounds == MaxCells \in Nat \ {0} /\ MaxAsks \in Nat

VARIABLES
  host,      \* where the host stands
  current,   \* the number of the block it sent last; 1 is the bootstrap code
  serving,   \* the cell whose request the host serves, and the request
  expired,   \* the deadline of _read_execute_result has passed
  toWorker,  \* standard input of the worker
  toHost,    \* standard output of the worker
  worker,    \* where the worker stands
  cell,      \* the block it runs or ran last
  asked,     \* the requests made so far; the last one is the one waited for
  timer,     \* signal.setitimer is armed
  missed,    \* the timer rang and did not end the block that was sent last
  dirty,     \* standard output of the worker ends in a line begun by others
  spoilt,    \* the result of that block was written behind such a beginning
  positive,  \* timeout_s > 0, as the command line set it
  gate       \* the host is the gate, whose blocks each run one command

protocolVars ==
  <<host, current, serving, expired, toWorker, toHost, worker, cell,
    asked, timer, missed, dirty, spoilt, positive, gate>>

hostVars == <<host, current, serving, expired>>
workerVars == <<worker, cell, asked, timer, missed>>
outputVars == <<toHost, dirty, spoilt>>
setting == <<positive, gate>>

Cells == 1..MaxCells
Asks == 1..MaxAsks
Nobody == [cell |-> 0, ask |-> 0]

Execute(c) == [kind |-> "execute", id |-> c]
Response(a) == [kind |-> "response", id |-> a]
Request(c, a) == [kind |-> "request", id |-> a, cell |-> c]
Result(c) == [kind |-> "result", id |-> c]
\* The worker's reply to a line it cannot use carries no id.
ProtocolError == Result(0)
\* A line of others that is no JSON, and one that is JSON but no object.
Noise == [kind |-> "noise"]
Number == [kind |-> "number"]
Strays == {Noise, Number}

Busy == host \in {"reading", "serving"}
InCell == worker \in {"cell", "waiting", "closing"}
-----------------------------------------------------------------------------
\* DockerREPL.__enter__ has started a container.
ProtocolInit ==
  /\ host = "idle" /\ current = 0 /\ serving = Nobody /\ expired = FALSE
  /\ toWorker = <<>> /\ toHost = <<>>
  /\ worker = "main" /\ cell = 0 /\ asked = 0 /\ timer = FALSE
  /\ missed = FALSE /\ dirty = FALSE /\ spoilt = FALSE
  /\ positive \in BOOLEAN /\ gate \in BOOLEAN /\ (gate => positive)

\* A runtime ends with the exception of an execute(); the checks of the gate
\* catch it, and the next one calls execute() on the same DockerREPL.
MaySend ==
  /\ host = "idle" \/ (gate /\ host \in {"failed", "broken"})
  /\ current < MaxCells

\* execute() up to its first read.
Send ==
  /\ MaySend /\ worker # "dead"
  /\ current' = current + 1 /\ host' = "reading" /\ expired' = FALSE
  /\ toWorker' = Append(toWorker, Execute(current'))
  /\ missed' = FALSE /\ spoilt' = FALSE
  /\ UNCHANGED <<serving, toHost, dirty, worker, cell, asked, timer, setting>>

\* start(), called first by every execute(), replaces a container that has
\* exited by a new one.
SendToNewContainer ==
  /\ MaySend /\ worker = "dead"
  /\ current' = current + 1 /\ host' = "reading" /\ expired' = FALSE
  /\ toWorker' = <<Execute(current')>> /\ toHost' = <<>> /\ dirty' = FALSE
  /\ worker' = "main" /\ timer' = FALSE /\ missed' = FALSE /\ spoilt' = FALSE
  /\ UNCHANGED <<serving, cell, asked, setting>>

\* The container does not start (SandboxError), or it died after poll() said
\* it was alive and the write raises (BrokenPipeError).
SendFails ==
  /\ MaySend /\ worker = "dead"
  /\ host' \in {"failed", "broken"}
  /\ UNCHANGED <<current, serving, expired, toWorker, outputVars, workerVars, setting>>

\* The head of the loop of _read_execute_result, after a line that was not the
\* result: only here is the deadline looked at.
ReadOn == host' = IF expired THEN "failed" ELSE "reading"

\* Mutant: any result will do.
AnyResult(m) == m.kind = "result"
\* The one line that ends execute().
Expected(m) == m.kind = "result" /\ m.id = current

\* readline() returns a line.  What is no JSON is passed over like a result of
\* another block; what is no object has no get(), and the AttributeError leaves
\* execute(), like the UnicodeDecodeError of what is no UTF-8.
ReadLine ==
  /\ host = "reading" /\ toHost # <<>>
  /\ toHost' = Tail(toHost)
  /\ LET m == Head(toHost) IN
     \/ /\ m.kind = "request"
        /\ host' = "serving" /\ serving' = [cell |-> m.cell, ask |-> m.id]
     \/ Expected(m) /\ host' = "idle" /\ UNCHANGED serving
     \/ m.kind = "result" /\ ~Expected(m) /\ ReadOn /\ UNCHANGED serving
     \/ m = Noise /\ ReadOn /\ UNCHANGED serving
     \/ m = Number /\ host' = "broken" /\ UNCHANGED serving
  /\ UNCHANGED <<current, expired, toWorker, workerVars, dirty, spoilt, setting>>

\* readline() returns nothing: the worker is gone.  (A line that was begun comes
\* first, and is passed over like any that is no JSON.)
SeeEof ==
  /\ host = "reading" /\ toHost = <<>> /\ worker = "dead"
  /\ host' = "failed"
  /\ UNCHANGED <<current, serving, expired, toWorker, outputVars, workerVars, setting>>

\* _service_*_completion: the answer, or the error that any exception becomes,
\* is written to the worker, which may have stopped waiting for it.
Serve ==
  /\ host = "serving" /\ worker # "dead"
  /\ toWorker' = Append(toWorker, Response(serving.ask))
  /\ ReadOn /\ serving' = Nobody
  /\ UNCHANGED <<current, expired, outputVars, workerVars, setting>>

\* Nobody reads the answer: the write raises, or is lost.
ServeTheDead ==
  /\ host = "serving" /\ worker = "dead"
  /\ host' = "broken" \/ ReadOn
  /\ serving' = Nobody
  /\ UNCHANGED <<current, expired, toWorker, outputVars, workerVars, setting>>

\* The deadline passes; a blocked readline() does not notice.
Expire ==
  /\ Busy /\ ~expired
  /\ expired' = TRUE
  /\ UNCHANGED <<host, current, serving, toWorker, outputVars, workerVars, setting>>
-----------------------------------------------------------------------------
\* stop(), from __exit__: standard input is closed, and after a grace period
\* the container is killed.
Close ==
  /\ host \in {"idle", "failed", "broken"}
  /\ host' = "stopping"
  /\ UNCHANGED <<current, serving, expired, toWorker, outputVars, workerVars, setting>>

\* Mutant: nobody kills a worker that does not end by itself.
KillTheIdle ==
  /\ host = "stopping" /\ worker = "main"
  /\ worker' = "dead"
  /\ UNCHANGED <<hostVars, toWorker, outputVars, cell, asked, timer, missed, setting>>
Kill ==
  /\ host = "stopping" /\ worker # "dead"
  /\ worker' = "dead"
  /\ UNCHANGED <<hostVars, toWorker, outputVars, cell, asked, timer, missed, setting>>

\* docker kill fails, or the container is not gone after five more seconds:
\* stop() raises, and leaves it.
KillFails ==
  /\ host = "stopping" /\ worker # "dead"
  /\ host' = "abandoned"
  /\ UNCHANGED <<current, serving, expired, toWorker, outputVars, workerVars, setting>>

Gone ==
  /\ host = "stopping" /\ worker = "dead"
  /\ host' = "stopped"
  /\ UNCHANGED <<current, serving, expired, toWorker, outputVars, workerVars, setting>>
-----------------------------------------------------------------------------
\* The worker writes a line, behind what others have begun.
Say(m) ==
  /\ toHost' = Append(toHost, IF dirty THEN Noise ELSE m)
  /\ dirty' = FALSE

\* A line read by the loop of main().  A response nobody waited for has no
\* "code", and a timeout must be positive: both are protocol errors.
TakeLine ==
  /\ worker = "main" /\ toWorker # <<>>
  /\ toWorker' = Tail(toWorker)
  /\ LET m == Head(toWorker) IN
     IF m.kind = "execute" /\ positive
     THEN /\ worker' = "cell" /\ cell' = m.id /\ timer' = TRUE
          /\ UNCHANGED <<toHost, dirty>>
     ELSE Say(ProtocolError) /\ UNCHANGED <<worker, cell, timer>>
  /\ UNCHANGED <<hostVars, asked, missed, spoilt, setting>>

\* Mutant: the request carries the number of the one before it.
AskHostWithOldId ==
  /\ worker = "cell" /\ ~gate /\ asked < MaxAsks
  /\ asked' = asked + 1 /\ worker' = "waiting"
  /\ Say(Request(cell, asked))
  /\ UNCHANGED <<hostVars, toWorker, cell, timer, missed, spoilt, setting>>
\* The block calls llm_query or rlm_query: _request_completion writes ...  A block
\* asks from one thread; several would read each other's answers.
AskHost ==
  /\ worker = "cell" /\ ~gate /\ asked < MaxAsks
  /\ asked' = asked + 1 /\ worker' = "waiting"
  /\ Say(Request(cell, asked'))
  /\ UNCHANGED <<hostVars, toWorker, cell, timer, missed, spoilt, setting>>

\* The response is the one to the request that waits.
Mine(m) == m.kind = "response" /\ m.id = asked

\* ... and reads until its answer arrives, dropping every other line.
TakeResponse ==
  /\ worker = "waiting" /\ toWorker # <<>>
  /\ toWorker' = Tail(toWorker)
  /\ worker' = IF Mine(Head(toWorker)) THEN "cell" ELSE "waiting"
  /\ UNCHANGED <<hostVars, outputVars, cell, asked, timer, missed, setting>>

\* The block ends, with or without an exception of its own.
EndCell ==
  /\ worker = "cell"
  /\ worker' = "closing"
  /\ UNCHANGED <<hostVars, toWorker, outputVars, cell, asked, timer, missed, setting>>

\* Mutant: a block that timed out has no result.
WriteResultInTime ==
  /\ worker = "closing"
  /\ worker' = "main" /\ timer' = FALSE
  /\ IF timer THEN Say(Result(cell)) ELSE UNCHANGED <<toHost, dirty>>
  /\ spoilt' = (spoilt \/ dirty)
  /\ UNCHANGED <<hostVars, toWorker, cell, asked, missed, setting>>
\* The end of execute_cell disarms the timer; main() writes the result.
WriteResult ==
  /\ worker = "closing"
  /\ worker' = "main" /\ timer' = FALSE
  /\ Say(Result(cell)) /\ spoilt' = (spoilt \/ dirty)
  /\ UNCHANGED <<hostVars, toWorker, cell, asked, missed, setting>>

\* SIGALRM raises CellTimeout in the block, which ends it ...
TimerRings ==
  /\ timer /\ worker \in {"cell", "waiting"}
  /\ timer' = FALSE /\ worker' = "closing"
  /\ UNCHANGED <<hostVars, toWorker, outputVars, cell, asked, missed, setting>>

\* ... or is caught by the block like any Exception; the timer rings once ...
TimerIsSwallowed ==
  /\ timer /\ worker \in {"cell", "waiting"} /\ ~gate
  /\ timer' = FALSE /\ worker' = "cell" /\ missed' = TRUE
  /\ UNCHANGED <<hostVars, toWorker, outputVars, cell, asked, setting>>

\* ... or arrives in the handlers behind the block, or in their "finally": then
\* it leaves execute_cell, and main() reports it without an id.
TimerRingsLate ==
  /\ timer /\ worker = "closing"
  /\ timer' = FALSE /\ worker' = "main" /\ missed' = TRUE
  /\ Say(ProtocolError)
  /\ UNCHANGED <<hostVars, toWorker, cell, asked, spoilt, setting>>

\* Standard input is closed: main() returns, a waiting request raises.
TakeEof ==
  /\ host \in {"stopping", "abandoned"} /\ toWorker = <<>> /\ worker \in {"main", "waiting"}
  /\ worker' = IF worker = "main" THEN "dead" ELSE "cell"
  /\ UNCHANGED <<hostVars, toWorker, outputVars, cell, asked, timer, missed, setting>>

\* A block, or a process that it has started and that may outlive it, prints to
\* the worker's standard output (the block's own print goes elsewhere) ...
Spill ==
  /\ ~gate /\ cell # 0 /\ worker # "dead" /\ ~dirty
  /\ dirty' = TRUE
  /\ UNCHANGED <<hostVars, toWorker, toHost, workerVars, spoilt, setting>>

\* ... and ends the line.  Bound: one such line is on its way at a time.
EndLine ==
  /\ dirty /\ worker # "dead" /\ \A i \in DOMAIN toHost : toHost[i] \notin Strays
  /\ \E m \in Strays : toHost' = Append(toHost, m)
  /\ dirty' = FALSE
  /\ UNCHANGED <<hostVars, toWorker, workerVars, spoilt, setting>>

\* The container is killed, runs out of memory, or the block exits the process.
Die ==
  /\ worker # "dead"
  /\ worker' = "dead" /\ timer' = FALSE
  /\ UNCHANGED <<hostVars, toWorker, outputVars, cell, asked, missed, setting>>
-----------------------------------------------------------------------------
\* Steps that happen without anybody's decision.
HostStep == ReadLine \/ SeeEof \/ Serve \/ ServeTheDead \/ Expire \/ Kill \/ Gone
WorkerStep == TakeLine \/ TakeResponse \/ WriteResult \/ TakeEof
Timer == TimerRings \/ TimerIsSwallowed \/ TimerRingsLate

\* Nothing is left to do: the host has stopped, or waits for ever.
Blocked == host = "reading" /\ toHost = <<>> /\ toWorker = <<>> /\ worker = "main"
Quiet ==
  /\ host \in {"stopped", "abandoned"} \/ (Blocked /\ expired)
  /\ UNCHANGED protocolVars

ProtocolNext ==
  \/ Send \/ SendToNewContainer \/ SendFails \/ Close \/ KillFails
  \/ AskHost \/ EndCell \/ Spill \/ EndLine \/ Die
  \/ HostStep \/ WorkerStep \/ Timer \/ Quiet

ProtocolSpec == ProtocolInit /\ [][ProtocolNext]_protocolVars

\* The processes run, the timer rings and the model client answers or raises
\* (its requests have a timeout).  Time passes, whatever the host reads.  A block
\* need not end, ask or let go, and nobody need print.
FairProtocol ==
  /\ ProtocolSpec
  /\ WF_protocolVars(HostStep) /\ WF_protocolVars(Expire)
  /\ WF_protocolVars(WorkerStep) /\ WF_protocolVars(Timer)
-----------------------------------------------------------------------------
\* Types.
ToWorkerMsgs == {Execute(c) : c \in Cells} \union {Response(a) : a \in Asks}
ToHostMsgs == {Request(c, a) : c \in Cells, a \in Asks}
                \union {Result(c) : c \in {0} \union Cells} \union Strays
ProtocolTypeOK ==
  /\ host \in {"idle", "reading", "serving", "failed", "broken", "stopping", "stopped",
              "abandoned"}
  /\ worker \in {"main", "cell", "waiting", "closing", "dead"}
  /\ current \in 0..MaxCells /\ cell \in 0..MaxCells /\ asked \in 0..MaxAsks
  /\ serving \in {Nobody} \union [cell : Cells, ask : Asks]
  /\ toWorker \in Seq(ToWorkerMsgs) /\ toHost \in Seq(ToHostMsgs)
  /\ {expired, timer, missed, dirty, spoilt, positive, gate} \subseteq BOOLEAN

\* When execute() has returned, the worker runs none of the host's code: the
\* result the host accepts is the last thing its block does.
NothingRunsUnattended == host = "idle" => ~InCell

\* The host serves only requests of the block it waits for, so what a request
\* costs is charged to the ExecutionResult of its own block.
ChargedToItsBlock == host = "serving" => serving.cell = current

\* A block that waits for an answer drops every line that is not it; the host's
\* next block is never among them.
NoBlockIsDropped ==
  worker = "waiting" => \A i \in 1..Len(toWorker) : toWorker[i].kind # "execute"

\* Host and worker agree on the block that runs, in all three respects.
SameBlock == NothingRunsUnattended /\ ChargedToItsBlock /\ NoBlockIsDropped

\* execute() returns or raises, unless the timer misses its block or cannot be
\* set, or a result stands behind what others have begun to print and is no JSON
\* any more: the worker's end of the bargain is then not kept.
ExecuteEnds == Busy ~> (~Busy \/ missed \/ spoilt \/ ~positive)

\* stop() leaves no worker behind, whatever it was doing, unless docker cannot
\* kill it.
StopCleansUp ==
  host = "stopping" ~> \/ host = "stopped" /\ worker = "dead"
                       \/ host = "abandoned"
-----------------------------------------------------------------------------
\* What the repository says and the code contradicts.

\* _read_execute_result: "timed out waiting for sandbox response", raised when
\* the deadline has passed.
DeadlineIsKept == (Busy /\ expired) ~> ~Busy
=============================================================================
