----------------------------- MODULE MemoryPager -----------------------------
(***************************************************************************)
(* The memory of a run (memory/paging.py) on the store it shares with      *)
(* other runs (memory/store.py).                                           *)
(*                                                                         *)
(* At its start a run is shown what its thread remembers (hydrate).  After *)
(* every node persist_new_history appends the new steps of the history to  *)
(* the recall table, one transaction each, and page_if_needed replaces the *)
(* oldest steps by one summary in the archive when the history has grown   *)
(* too long.  The supervisor's hook calls page_if_needed once more.  Runs  *)
(* are processes on one SQLite file: their transactions interleave, and    *)
(* any of them may raise or die between two.  A run that is resumed is     *)
(* another run of the same thread.                                         *)
(*                                                                         *)
(* A step is its number, a summary the steps it stands for, a row's id its *)
(* place in the table.  Rows of one second are ordered by id as all others *)
(* are: the clock does not run backwards.  What is relevant to the task is *)
(* arbitrary.                                                              *)
(***************************************************************************)
EXTENDS Integers, Sequences, SequencesExt, FiniteSets, FiniteSetsExt

CONSTANTS
  Runs, Threads,
  Hooked,               \* the runs whose pager is the supervisor's hook
  MaxHistoryTokens,     \* max_history_tokens
  PreserveRecentSteps,  \* preserve_recent_steps
  RecallLimit,          \* recall_limit
  RecallWindow,         \* the rows recall_page reads: max(8 * limit, 20)
  ArchivalLimit,        \* archival_limit
  CandidateLimit,       \* the neighbours the vector search reads
  OtherKinds,           \* the kinds of archival rows others write
  StepSizes,            \* the tokens a step may have
  MaxSteps,             \* bound: the steps of all runs together
  MaxOthers             \* bound: the rows of other writers

ASSUME PagerAssumption ==
  /\ Hooked \subseteq Runs
  /\ {MaxHistoryTokens, PreserveRecentSteps, RecallLimit, ArchivalLimit} \subseteq Nat \ {0}
  /\ RecallWindow \in Nat /\ RecallLimit <= RecallWindow
  /\ CandidateLimit \in Nat /\ ArchivalLimit <= CandidateLimit
  /\ StepSizes \subseteq Nat \ {0} /\ {MaxSteps, MaxOthers} \subseteq Nat

VARIABLES
  thread,    \* [Runs -> Threads]: the run's thread_id
  pc,        \* what the run does next
  produced,  \* the sizes of all the steps the run has produced
  history,   \* state.history: the steps it still holds
  count,     \* scratch["memory_persisted_history_count"]
  next,      \* the place in the history of the step to append next
  again,     \* the hook's second call of page_if_needed is to come
  shown,     \* scratch["memory_recall_ids"] and ["memory_archival_ids"]
  recall,    \* the recall table
  archive    \* the archival tables

local == <<thread, pc, produced, history, count, next, again, shown>>
vars == <<local, recall, archive>>

Min2(a, b) == IF a < b THEN a ELSE b
Max2(a, b) == IF a > b THEN a ELSE b

\* history_token_count, of steps whose sizes are known.
TokenSum(sizes, steps) == FoldLeft(LAMBDA sum, n : sum + sizes[n], 0, steps)
Tokens(r) == TokenSum(produced[r], history[r])
-----------------------------------------------------------------------------
NothingShown == [recall |-> {}, archive |-> {}]

Init ==
  /\ thread \in [Runs -> Threads]
  /\ pc = [r \in Runs |-> IF r \in Hooked THEN "node" ELSE "hydrate"]
  /\ produced = [r \in Runs |-> <<>>] /\ history = [r \in Runs |-> <<>>]
  /\ count = [r \in Runs |-> 0] /\ next = [r \in Runs |-> 1]
  /\ again = [r \in Runs |-> FALSE] /\ shown = [r \in Runs |-> NothingShown]
  /\ recall = <<>> /\ archive = <<>>

Goto(r, label) == pc' = [pc EXCEPT ![r] = label]

\* The newest rows of a thread, of which recall_page takes the most relevant.
\* Mutant: the newest rows of all, then those of the thread.
NewestThenOfThread(t) ==
  {i \in DOMAIN recall : recall[i].thread = t /\ i > Len(recall) - RecallWindow}
NewestRows(t) ==
  LET mine == {i \in DOMAIN recall : recall[i].thread = t}
  IN {i \in mine : Cardinality({j \in mine : j > i}) < RecallWindow}

\* archival_search: the nearest rows of all, then the episodes of the thread.
Episodes(t, candidates) ==
  {i \in candidates : archive[i].kind = "episode" /\ archive[i].thread = t}

\* hydrate
Hydrate(r) ==
  /\ pc[r] = "hydrate"
  /\ LET rows == NewestRows(thread[r])
     IN \E events \in kSubset(Min2(RecallLimit, Cardinality(rows)), rows),
           near \in kSubset(Min2(CandidateLimit, Len(archive)), DOMAIN archive) :
          LET mine == Episodes(thread[r], near)
          IN \E results \in kSubset(Min2(ArchivalLimit, Cardinality(mine)), mine) :
               shown' = [shown EXCEPT ![r] = [recall |-> events, archive |-> results]]
  /\ Goto(r, "node")
  /\ UNCHANGED <<thread, produced, history, count, next, again, recall, archive>>

\* A node, or a turn, appends to the history, and persist_new_history looks for
\* the first step that is not in the recall table yet ...
Node(r, sizes) ==
  /\ pc[r] = "node"
  /\ produced' = [produced EXCEPT ![r] = @ \o sizes]
  /\ history' = [history EXCEPT ![r] =
                   @ \o [i \in DOMAIN sizes |-> Len(produced[r]) + i]]
  /\ next' = [next EXCEPT ![r] = Min2(Max2(count[r], 0), Len(history'[r])) + 1]
  /\ Goto(r, "append")
  /\ UNCHANGED <<thread, count, again, shown, recall, archive>>
-----------------------------------------------------------------------------
\* persist_new_history: the new steps, each in its own transaction ...
RecallAppend(r) ==
  /\ pc[r] = "append" /\ next[r] <= Len(history[r])
  /\ recall' = Append(recall, [run |-> {r}, thread |-> thread[r],
                               step |-> history[r][next[r]]])
  /\ next' = [next EXCEPT ![r] = @ + 1]
  /\ UNCHANGED <<thread, pc, produced, history, count, again, shown, archive>>

\* ... until there are no more.
PersistedAll(r) ==
  /\ pc[r] = "append" /\ next[r] > Len(history[r])
  /\ count' = [count EXCEPT ![r] = Len(history[r])]
  /\ again' = [again EXCEPT ![r] = r \in Hooked]
  /\ Goto(r, "page")
  /\ UNCHANGED <<thread, produced, history, next, shown, recall, archive>>

NeedsPaging(r) ==
  Tokens(r) > MaxHistoryTokens /\ Len(history[r]) > PreserveRecentSteps

\* Mutant: one step too many.
PageCountTooHigh(r) == Len(history[r]) - PreserveRecentSteps + 1
PageCount(r) == Len(history[r]) - PreserveRecentSteps

PagedSteps(r) == SubSeq(history[r], 1, PageCount(r))
\* Mutant: the last step of the page is kept.
RetainedStepsAndOne(r) == SubSeq(history[r], PageCount(r), Len(history[r]))
RetainedSteps(r) == SubSeq(history[r], PageCount(r) + 1, Len(history[r]))

\* page_if_needed returns, to the hook for its second call.
Return(r) ==
  /\ Goto(r, IF again[r] THEN "page" ELSE "node")
  /\ again' = [again EXCEPT ![r] = FALSE]

\* page_if_needed: the tests, and the summary of the model ...
PageIfNeeded(r) ==
  /\ pc[r] = "page"
  /\ \/ NeedsPaging(r) /\ Goto(r, "archive") /\ UNCHANGED again
     \/ ~NeedsPaging(r) /\ Return(r)
  /\ UNCHANGED <<thread, produced, history, count, next, shown, recall, archive>>

\* ... archival_add, both tables in one transaction ...
ArchivalAdd(r) ==
  /\ pc[r] = "archive"
  /\ archive' = Append(archive, [kind |-> "episode", run |-> {r}, thread |-> thread[r],
                                 steps |-> Range(PagedSteps(r))])
  /\ Goto(r, "cut")
  /\ UNCHANGED <<thread, produced, history, count, next, again, shown, recall>>

\* Mutant: the count is not reset.
CutHistoryOnly(r) ==
  /\ history' = [history EXCEPT ![r] = RetainedSteps(r)]
  /\ UNCHANGED count
CutHistory(r) ==
  /\ history' = [history EXCEPT ![r] = RetainedSteps(r)]
  /\ count' = [count EXCEPT ![r] = Len(RetainedSteps(r))]

\* ... and the history without the page.
Paged(r) ==
  /\ pc[r] = "cut" /\ CutHistory(r) /\ Return(r)
  /\ UNCHANGED <<thread, produced, next, shown, recall, archive>>

\* The run is over: after a node, or where the store, the model or the trace
\* raises, or its process dies.  What it held is gone, and so are the steps that
\* learn appends last, which no memory_write follows.
Leave(r, label) ==
  /\ Goto(r, label)
  /\ history' = [history EXCEPT ![r] = <<>>] /\ count' = [count EXCEPT ![r] = 0]
  /\ next' = [next EXCEPT ![r] = 1] /\ again' = [again EXCEPT ![r] = FALSE]
  /\ shown' = [shown EXCEPT ![r] = NothingShown]
  /\ UNCHANGED <<thread, produced, recall, archive>>

End(r) == pc[r] = "node" /\ Leave(r, "ended")

Die(r) == pc[r] \notin {"ended", "dead"} /\ Leave(r, "dead")

\* The memory commands add rows to both tables, and the audit log to the archive.
RoomForOthers ==
  Cardinality({i \in DOMAIN recall : recall[i].run = {}})
    + Cardinality({i \in DOMAIN archive : archive[i].run = {}}) < MaxOthers

RecallByOthers(t) ==
  /\ RoomForOthers
  /\ recall' = Append(recall, [run |-> {}, thread |-> t, step |-> 0])
  /\ UNCHANGED <<local, archive>>

ArchiveByOthers(kind, t) ==
  /\ RoomForOthers
  /\ archive' = Append(archive, [kind |-> kind, run |-> {}, thread |-> t, steps |-> {}])
  /\ UNCHANGED <<local, recall>>
-----------------------------------------------------------------------------
\* A node appends up to two steps, within the bound on all of them.
StepsSoFar == Cardinality(UNION {{r} \X DOMAIN produced[r] : r \in Runs})
NewSteps == UNION {[1 .. n -> StepSizes] : n \in 0 .. Min2(2, MaxSteps - StepsSoFar)}

\* The steps the interpreter takes by itself.
Step(r) ==
  \/ Hydrate(r) \/ RecallAppend(r) \/ PersistedAll(r) \/ PageIfNeeded(r)
  \/ ArchivalAdd(r) \/ Paged(r)

Next ==
  \/ \E r \in Runs : Step(r)
  \/ \E r \in Runs, sizes \in NewSteps : Node(r, sizes)
  \/ \E r \in Runs : End(r)
  \/ \E r \in Runs : Die(r)
  \/ \E t \in Threads : RecallByOthers(t)
  \/ \E kind \in OtherKinds, t \in Threads : ArchiveByOthers(kind, t)

Spec == Init /\ [][Next]_vars
-----------------------------------------------------------------------------
Alive == {r \in Runs : pc[r] \notin {"ended", "dead"}}

\* A node finds a history within its token limit, or one of the steps that are
\* always kept: one page is enough, however many steps were added.  And those
\* latest steps, which reflect and the next prompt look at, are never paged out
\* (preserve_recent_steps).
HistoryIsBounded ==
  /\ \A r \in Runs :
       pc[r] = "node" =>
         (Tokens(r) > MaxHistoryTokens => Len(history[r]) <= PreserveRecentSteps)
  /\ \A r \in Alive :
       LET n == Len(produced[r])
       IN Max2(1, n - PreserveRecentSteps + 1) .. n \subseteq Range(history[r])

\* Type and bounds.  The count of the steps already in the recall table never
\* exceeds the history it counts.
TypeOK ==
  /\ HistoryIsBounded
  /\ thread \in [Runs -> Threads]
  /\ pc \in [Runs -> {"hydrate", "node", "append", "page", "archive", "cut",
                      "ended", "dead"}]
  /\ produced \in [Runs -> Seq(StepSizes)] /\ history \in [Runs -> Seq(Nat)]
  /\ count \in [Runs -> Nat] /\ next \in [Runs -> Nat]
  /\ \A r \in Runs : count[r] <= Len(history[r])
  /\ again \in [Runs -> BOOLEAN]
  /\ shown \in [Runs -> [recall : SUBSET Nat, archive : SUBSET Nat]]
  /\ recall \in Seq([run : SUBSET Runs, thread : Threads, step : Nat])
  /\ archive \in Seq([kind : {"episode"} \union OtherKinds, run : SUBSET Runs,
                      thread : Threads, steps : SUBSET Nat])

RowsOf(r) == {i \in DOMAIN recall : recall[i].run = {r}}
ArchivesOf(r) == {i \in DOMAIN archive : archive[i].run = {r}}

\* The recall table holds the steps of a run from the first one on, each once
\* and in order, whatever pages were cut in between and wherever the run died;
\* and all of them whenever a node runs and when the run ends, but for those of
\* learn (persist_new_history).
RecallIsExact ==
  \A r \in Runs :
    LET mine == RowsOf(r)
    IN /\ {recall[i].step : i \in mine} = 1 .. Cardinality(mine)
       /\ \A i, j \in mine : i < j => recall[i].step < recall[j].step
       /\ pc[r] \in {"node", "ended"} => Cardinality(mine) = Len(produced[r])

\* What a run has produced is in its history or in a summary of its run, at
\* every point where it may die; each step is summarised once, no summary is of
\* nothing, and what the history still holds is in none, but between the two
\* writes (page_if_needed).
SummarisedOnce ==
  /\ \A r \in Alive :
       (UNION {archive[i].steps : i \in ArchivesOf(r)}) \union Range(history[r])
         = 1 .. Len(produced[r])
  /\ \A r \in Runs : \A i \in ArchivesOf(r) :
       /\ archive[i].steps # {}
       /\ \A j \in ArchivesOf(r) \ {i} : archive[i].steps \intersect archive[j].steps = {}
       /\ pc[r] # "cut" => archive[i].steps \intersect Range(history[r]) = {}

\* What a run is shown at its start is of its own thread, and is something if
\* its thread has recall rows, however many rows other threads have added since.
ResumeIsInformed ==
  [][\A r \in Runs :
       pc[r] = "hydrate" /\ pc'[r] = "node" =>
         /\ \A i \in shown'[r].recall : recall[i].thread = thread[r]
         /\ \A i \in shown'[r].archive : archive[i].thread = thread[r]
         /\ (\E i \in DOMAIN recall : recall[i].thread = thread[r]) =>
              shown'[r].recall # {}]_vars
=============================================================================
