----------------------------- MODULE ToolExecutor -----------------------------
(***************************************************************************)
(* The tools of a run and the files they work on.                          *)
(*                                                                         *)
(* A run calls tools in one of two ways: the graph's typed actions go      *)
(* through ToolExecutor.execute (tools/executor.py), which asks            *)
(* authorize_tool_action first; the code blocks of the RLM runtime call    *)
(* the functions of sandbox/tools.py directly, as the REPL binds them.     *)
(* Proposed changes wait in a queue of the process.  A command of          *)
(* run_shell is a process of its own: it writes while it runs, and what it *)
(* has started may go on writing after it ended or was killed at its       *)
(* timeout.  The user edits the same files.                                *)
(*                                                                         *)
(* A file's text is a value or the torn rest of a write that failed.  A    *)
(* proposal is its place in the order of proposals.  The graph never       *)
(* passes approved = TRUE; the executor's interface allows it.             *)
(***************************************************************************)
EXTENDS Integers, Sequences

CONSTANTS
  Paths, Texts, Servers,
  TrustedServers,   \* the MCP servers marked as trusted
  MaxProposals,     \* bound: the changes that are proposed
  MaxLeftOver       \* bound: the processes that outlive their command

CONSTANT Torn       \* the text of a file whose write failed

ASSUME ToolAssumption ==
  /\ TrustedServers \subseteq Servers /\ Torn \notin Texts
  /\ MaxProposals \in Nat /\ MaxLeftOver \in Nat

VARIABLES
  mode,      \* the autonomy of the run
  way,       \* "actions" or "blocks": how the run calls its tools
  text,      \* [Paths -> Texts]: the files
  proposed,  \* every change that was proposed
  queue,     \* _PENDING_CHANGES: the proposals that wait
  fate,      \* history: what became of each proposal
  running,   \* a command of run_shell is running
  leftOver,  \* the processes that have outlived their command
  result,    \* what the last call returned
  unapproved,\* history: what replaced a file, and the servers called, without approval
  by         \* who took the last step

vars ==
  <<mode, way, text, proposed, queue, fate, running, leftOver, result, unapproved, by>>
-----------------------------------------------------------------------------
\* The registry.  "read" stands for the fifteen kinds that only look at the
\* workspace, the queue or a server's list of tools; "internal" for the kinds
\* the executor has no branch for (python_repl, rlm_task).
ReadKinds == {"read"}
LowKinds == {"clear_pending_changes", "complete_task", "record_memory"}
MediumKinds ==
  {"apply_patch", "propose_file_change", "run_shell", "mcp_call_tool", "internal"}
HighKinds == {"write_file", "apply_pending_change"}
DestructiveKinds == {}
Kinds == ReadKinds \cup LowKinds \cup MediumKinds \cup HighKinds \cup DestructiveKinds

\* side_effect = COMPLETION, side_effect = FILE_WRITE
CompletionKinds == {"complete_task"}
FileWriteKinds ==
  {"write_file", "apply_patch", "propose_file_change", "apply_pending_change"}

\* Mutant: a proposal is applied without confirmation.
ConfirmWrites == {"write_file"}

\* requires_confirmation
ConfirmKinds == {"write_file", "apply_pending_change"}

\* What the executor has no branch for, record_memory among them.
Unsupported == {"record_memory", "internal"}

\* What the REPL binds for the blocks; complete_task is the runtime's own.
Bound ==
  ReadKinds \cup FileWriteKinds \cup {"clear_pending_changes", "run_shell"}

Modes == {"ask", "plan", "propose", "sandbox", "trusted"}

\* Mutant: propose mode admits whatever writes files.
ProposeAdmitsWrites(kind) ==
  \/ kind \in ReadKinds \cup CompletionKinds
  \/ mode = "propose" /\ kind \in FileWriteKinds
  \/ mode = "sandbox" /\ kind \notin DestructiveKinds
  \/ mode = "trusted"

\* authorize_tool_action
Allowed(kind) ==
  \/ kind \in ReadKinds \cup CompletionKinds
  \/ mode = "propose" /\ kind = "propose_file_change"
  \/ mode = "sandbox" /\ kind \notin DestructiveKinds
  \/ mode = "trusted"
-----------------------------------------------------------------------------
Results ==
  {"none", "ok", "error", "timeout", "denied", "needs_confirmation", "running"}

Init ==
  /\ mode \in Modes /\ way \in {"actions", "blocks"}
  /\ text \in [Paths -> Texts]
  /\ proposed = <<>> /\ queue = {} /\ fate = <<>>
  /\ running = FALSE /\ leftOver = 0
  /\ result = "none" /\ unapproved = {} /\ by = "nobody"

Setting == <<mode, way>>
Changes == <<proposed, queue, fate>>
Commands == <<running, leftOver>>

\* Mutant: a call is made while a command still runs.
MayCallAnyTime(kind) == way = "blocks" => kind \in Bound

\* A call is made when nothing runs; it returns with a result.
MayCall(kind) == ~running /\ (way = "blocks" => kind \in Bound)
Returns(r) == result' = r /\ by' = "tool" /\ UNCHANGED Setting
Acts(what, approved) == unapproved' = IF approved THEN unapproved ELSE unapproved \cup {what}

\* The two tests of execute; a block's call meets neither.
Passes(kind, approved) ==
  way = "actions" => Allowed(kind) /\ (kind \in ConfirmKinds => approved)

Refuse(kind, approved) ==
  /\ MayCall(kind) /\ ~Passes(kind, approved)
  /\ Returns(IF Allowed(kind) THEN "needs_confirmation" ELSE "denied")
  /\ UNCHANGED <<text, Changes, Commands, unapproved>>

Begins(kind, approved) == MayCall(kind) /\ Passes(kind, approved)

\* Reading, complete_task, and kinds without a branch.
Look(kind, approved) ==
  /\ kind \in ReadKinds \cup CompletionKinds \cup Unsupported
  /\ Begins(kind, approved)
  /\ \E r \in {"ok", "error"} :
       /\ kind \in Unsupported => r = "error"
       /\ Returns(r)
  /\ UNCHANGED <<text, Changes, Commands, unapproved>>

\* write_file: opening the file empties it, and the write may fail then.
Put(path, content, kind, approved) ==
  /\ Acts(kind, approved)
  /\ \/ Returns("ok") /\ text' = [text EXCEPT ![path] = content]
     \/ Returns("error") /\ text' \in {text, [text EXCEPT ![path] = Torn]}

WriteFile(approved) ==
  /\ Begins("write_file", approved)
  /\ \E path \in Paths, content \in Texts : Put(path, content, "write_file", approved)
  /\ UNCHANGED <<Changes, Commands>>

\* git apply changes all files of the patch or none, unless it is killed.
ApplyPatch(approved) ==
  /\ Begins("apply_patch", approved)
  /\ \E path \in Paths, content \in Texts :
       \/ Returns("ok") /\ text' = [text EXCEPT ![path] = content]
       \/ Returns("error") /\ text' \in {text, [text EXCEPT ![path] = Torn]}
  /\ UNCHANGED <<Changes, Commands, unapproved>>

\* propose_file_change.  The text it was made from is kept as well, but only
\* for the diff in the listing: nothing compares it when the change is applied.
Propose(approved) ==
  /\ Begins("propose_file_change", approved) /\ Len(proposed) < MaxProposals
  /\ \/ /\ \E path \in Paths, content \in Texts :
            proposed' = Append(proposed, [path |-> path, content |-> content])
        /\ queue' = queue \cup {Len(proposed')}
        /\ fate' = Append(fate, "waits")
        /\ Returns("ok")
     \/ Returns("error") /\ UNCHANGED Changes
  /\ UNCHANGED <<text, Commands, unapproved>>

\* Mutant: the change is looked up and stays.
KeepInQueue(id) == queue' = queue

\* _PENDING_CHANGES.pop
TakeFromQueue(id) == queue' = queue \ {id}

\* apply_pending_change: the change leaves the queue before it is written.
ApplyPending(approved) ==
  /\ Begins("apply_pending_change", approved)
  /\ \/ \E id \in queue :
          /\ TakeFromQueue(id)
          /\ Put(proposed[id].path, proposed[id].content, "apply_pending_change", approved)
          /\ fate' = [fate EXCEPT ![id] =
               IF result' = "error" THEN "lost"
               ELSE IF @ = "waits" THEN "applied" ELSE "applied again"]
     \/ Returns("error") /\ UNCHANGED <<text, queue, fate, unapproved>>
  /\ UNCHANGED <<proposed, Commands>>

ClearPending(approved) ==
  /\ Begins("clear_pending_changes", approved)
  /\ queue' = {}
  /\ fate' = [id \in DOMAIN fate |-> IF id \in queue THEN "cleared" ELSE fate[id]]
  /\ Returns("ok")
  /\ UNCHANGED <<text, proposed, Commands, unapproved>>
-----------------------------------------------------------------------------
\* run_shell: looks_dangerous_command, then a shell that writes as it likes.
StartCommand(approved) ==
  /\ Begins("run_shell", approved)
  /\ \/ running' = TRUE /\ Returns("running")
     \/ running' = FALSE /\ Returns("error")
  /\ UNCHANGED <<text, Changes, leftOver, unapproved>>

CommandWrites ==
  /\ running \/ leftOver > 0
  /\ \E path \in Paths, content \in Texts : text' = [text EXCEPT ![path] = content]
  /\ by' = "command"
  /\ UNCHANGED <<Setting, Changes, Commands, result, unapproved>>

\* A command that ends, or is cut off, may leave a process behind.
LeavesBehind ==
  leftOver' \in {leftOver, leftOver + 1} /\ leftOver' <= MaxLeftOver

CommandEnds ==
  /\ running /\ running' = FALSE /\ LeavesBehind
  /\ \E r \in {"ok", "error"} : Returns(r)
  /\ UNCHANGED <<text, Changes, unapproved>>

\* The shell is killed at its timeout, what it has started is not.  What the
\* exception holds of stderr is bytes, and adding the message to it raises.
CutOff ==
  /\ running /\ running' = FALSE /\ LeavesBehind
  /\ \E saidOnStderr \in BOOLEAN :
       Returns(IF saidOnStderr THEN "error" ELSE "timeout")
  /\ UNCHANGED <<text, Changes, unapproved>>

LeftOverEnds ==
  /\ leftOver > 0 /\ leftOver' = leftOver - 1 /\ by' = "command"
  /\ UNCHANGED <<Setting, text, Changes, running, result, unapproved>>
-----------------------------------------------------------------------------
\* mcp_call_tool on the server that the configuration selects.
CallServer(approved) ==
  /\ Begins("mcp_call_tool", approved)
  /\ \/ Returns("error") /\ UNCHANGED unapproved
     \/ \E server \in Servers :
          IF server \notin TrustedServers /\ ~approved
          THEN Returns("needs_confirmation") /\ UNCHANGED unapproved
          ELSE /\ \E r \in {"ok", "error"} : Returns(r)
               /\ Acts(server, approved)
  /\ UNCHANGED <<text, Changes, Commands>>

\* The user edits a file.
Edit ==
  /\ \E path \in Paths, content \in Texts : text' = [text EXCEPT ![path] = content]
  /\ by' = "user"
  /\ UNCHANGED <<Setting, Changes, Commands, result, unapproved>>

Tool ==
  \E approved \in BOOLEAN :
    \/ \E kind \in Kinds : Refuse(kind, approved) \/ Look(kind, approved)
    \/ WriteFile(approved) \/ ApplyPatch(approved)
    \/ Propose(approved) \/ ApplyPending(approved) \/ ClearPending(approved)
    \/ StartCommand(approved) \/ CallServer(approved)

Next ==
  \/ Tool \/ CommandWrites \/ CommandEnds \/ CutOff \/ LeftOverEnds \/ Edit

Spec == Init /\ [][Next]_vars
-----------------------------------------------------------------------------
Fates == {"waits", "applied", "applied again", "cleared", "lost"}

Proposals == [path : Paths, content : Texts]

TypeOK ==
  /\ mode \in Modes /\ way \in {"actions", "blocks"}
  /\ text \in [Paths -> Texts \cup {Torn}]
  /\ proposed \in Seq(Proposals) /\ Len(proposed) <= MaxProposals
  /\ fate \in Seq(Fates) /\ Len(fate) = Len(proposed)
  /\ queue \subseteq DOMAIN proposed
  /\ running \in BOOLEAN /\ leftOver \in 0 .. MaxLeftOver
  /\ result \in Results /\ (running <=> result = "running")
  /\ unapproved \subseteq HighKinds \cup Servers
  /\ by \in {"nobody", "tool", "command", "user"}

\* In the modes ask, plan and propose no typed action changes a file, with or
\* without approval, nor does anything it has started; ask and plan leave the
\* queue alone as well and call no server's tool.
ModeIsKept ==
  [][way = "actions" /\ by' # "user" =>
       /\ mode \in {"ask", "plan", "propose"} => text' = text
       /\ mode \in {"ask", "plan"} => queue' = queue /\ unapproved' = unapproved]_vars

\* A typed action replaces a whole file, and calls the tool of a server that
\* is not trusted, only with approval.
NothingUnapproved ==
  way = "actions" => unapproved \subseteq TrustedServers

\* A proposal is written at most once, never after it was cleared, and waits
\* in the queue until then.
AppliedOnce ==
  /\ \A id \in DOMAIN fate : fate[id] # "applied again"
  /\ \A id \in DOMAIN fate : id \in queue <=> fate[id] = "waits"
=============================================================================
