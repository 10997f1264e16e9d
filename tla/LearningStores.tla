--------------------------- MODULE LearningStores ---------------------------
(***************************************************************************)
(* What runs and users teach the harness: taste records                    *)
(* (memory/profile.py), proposals (memory/evolution.py) and feedback       *)
(* (memory/feedback.py).  Each is one list per database, kept as JSON      *)
(* under one key of the core table; the database of the user and the one   *)
(* of the project have one list of each kind.                              *)
(*                                                                         *)
(* Every change reads a whole list, changes one record of it and writes    *)
(* the whole list back, in two transactions.  The processes are runs       *)
(* (the learn and taste nodes of the graph) and commands (harness taste,   *)
(* evolve, feedback, eval --record-failures), which work on the same       *)
(* databases and may die between any two steps.                            *)
(*                                                                         *)
(* A record is known by its key (scope, kind and text), of which the list  *)
(* gives the scope and the model keeps the text.  Confidence, evidence and *)
(* times are left out.  A task without memory touches no list.             *)
(***************************************************************************)
EXTENDS Naturals, Sequences, SequencesExt, FiniteSets, TLC

CONSTANTS
  Processes,    \* runs and commands that may be open at the same time
  Preferences,  \* texts about the user: preferences and constraints
  Conventions,  \* texts about the project: its style, its checks
  Issue,        \* the text of a proposal made of a complaint
  Regression,   \* ... of an eval case for the run that was complained of
  Incomplete,   \* ... of an eval case for a run that did not succeed
  FailedEval,   \* ... of an improvement for an eval that failed
  MaxCommands,  \* bound: the runs and commands that are begun
  MaxSteps      \* bound: the steps they have to do between them

Texts == Preferences \cup Conventions

\* The texts that are stated, scanned and taught are finitely many.
ASSUME StoresAssumption == {MaxCommands, MaxSteps} \subseteq Nat /\ IsFiniteSet(Texts)

Scopes == {"user", "project"}
Lists == {"taste", "evolution", "feedback"} \X Scopes
Kind(list) == list[1]
Ratings == {"positive", "negative", "neutral"}

Ids == 1 .. MaxCommands
TasteRecords == [key : Texts, id : Ids, status : {"active", "pending", "rejected"}]
Proposals ==
  [key : Texts \cup {Issue, Regression, Incomplete, FailedEval}, id : Ids,
   status : {"pending", "approved", "rejected"}]
\* A comment, its rating, and whether it is about a run (of which there is one).
FeedbackRecords == [key : Preferences \X Ratings \X BOOLEAN, id : Ids, status : {"given"}]

VARIABLES
  store,    \* the lists in the databases
  todo,     \* what each process has still to do, its current step first
  seen,     \* <<>>, or <<the list its current step has loaded>>
  begun,    \* the processes begun; a record's id is the number of its maker
  work,     \* the steps they had to do
  number,   \* the number of what each process runs, or 0
  acked,    \* history: the records the stores have returned
  decided,  \* history: what users have decided of proposals
  stale     \* history: the lists that lost a change to a save of an older list

vars == <<store, todo, seen, begun, work, number, acked, decided, stale>>

RecordsOf(kind) ==
  CASE kind = "taste" -> TasteRecords
    [] kind = "evolution" -> Proposals
    [] OTHER -> FeedbackRecords
ProposalKeys == {r.key : r \in Proposals}

\* What is rendered into the prompts: active taste and approved proposals.
TasteContext(records) == {r \in records : r.status = "active"}
EvolutionContext(records) == {r \in records : r.status = "approved"}
-----------------------------------------------------------------------------
\* Steps of a process: add a record to a list, give the record with an id a
\* status if the list has it, or add what a scan found and the list lacks.
Add(list, key, status) == [do |-> "add", list |-> list, key |-> key, id |-> 0, status |-> status]
Mark(list, r, status) == [do |-> "mark", list |-> list, key |-> r.key, id |-> r.id, status |-> status]
AddMissing(key) ==
  [do |-> "add_missing", list |-> <<"taste", "project">>, key |-> key, id |-> 0, status |-> "active"]

Idle(p) == todo[p] = <<>>

Run(p, steps) ==
  /\ Idle(p) /\ steps # <<>>
  /\ begun < MaxCommands /\ work + Len(steps) <= MaxSteps
  /\ begun' = begun + 1 /\ work' = work + Len(steps)
  /\ number' = [number EXCEPT ![p] = begun']
  /\ todo' = [todo EXCEPT ![p] = steps]
  /\ UNCHANGED <<store, seen, acked, decided, stale>>

\* One step for each text, in some order of the texts.
ForEach(texts, Step(_)) == SetToSeq({Step(t) : t \in texts})

ScopeOf(text) == IF text \in Conventions THEN "project" ELSE "user"

\* Preferences the task states, and checks that passed, are active at once.
Stated(texts) == ForEach(texts \cap Preferences, LAMBDA t : Add(<<"taste", "user">>, t, "active"))
Passed(texts) == ForEach(texts \cap Conventions, LAMBDA t : Add(<<"taste", "project">>, t, "active"))

\* A proposal for each record learned, and an eval case for a run that did not
\* succeed.
Promoted(text) == Add(<<"evolution", ScopeOf(text)>>, text, "pending")
InferredProposals(texts, failed) ==
  ForEach(texts, Promoted)
  \o IF failed THEN <<Add(<<"evolution", "project">>, Incomplete, "pending")>> ELSE <<>>

\* The learn node of a run.
Learn(p) ==
  \E texts \in SUBSET Texts, failed \in BOOLEAN :
    Run(p, Stated(texts) \o Passed(texts) \o InferredProposals(texts, failed))

\* scan_project_style: the files of the workspace may state any conventions; the
\* scanners' findings are joined, each text once (dedupe_records).
Found == SUBSET Conventions

\* taste_read: the project's style, as far as its records are not there yet.
Bootstrap(p) == \E texts \in Found : Run(p, ForEach(texts, AddMissing))

\* harness taste scan
Scan(p) ==
  \E texts \in Found : Run(p, ForEach(texts, LAMBDA t : Add(<<"taste", "project">>, t, "active")))

\* harness taste learn
Teach(p) ==
  \E s \in Scopes, t \in Texts, status \in {"active", "pending"} :
    Run(p, <<Add(<<"taste", s>>, t, status)>>)

\* harness taste approve and reject, harness evolve approve and reject: the id
\* is looked up in the user's database, then in that of the project.
InEither(kind, r, status) == <<Mark(<<kind, "user">>, r, status), Mark(<<kind, "project">>, r, status)>>
Shown(kind) == {a \in acked : Kind(a.list) = kind}
ApproveTaste(p) == \E a \in Shown("taste") : Run(p, InEither("taste", a, "active"))
RejectTaste(p) == \E a \in Shown("taste") : Run(p, InEither("taste", a, "rejected"))
ApproveProposal(p) == \E a \in Shown("evolution") : Run(p, InEither("evolution", a, "approved"))
RejectProposal(p) == \E a \in Shown("evolution") : Run(p, InEither("evolution", a, "rejected"))

\* harness evolve propose
Propose(p) ==
  \E s \in Scopes, t \in Texts, status \in {"approved", "pending"} :
    Run(p, <<Add(<<"evolution", s>>, t, status)>>)

\* harness eval --record-failures
RecordFailure(p) == Run(p, <<Add(<<"evolution", "project">>, FailedEval, "pending")>>)

\* harness feedback add: the comment, the taste it states, and the proposals
\* that follow from its rating.
TasteStatus(rating, active) == IF active \/ rating = "positive" THEN "active" ELSE "pending"
TasteFrom(s, t, rating, states, active) ==
  IF states THEN <<Add(<<"taste", s>>, t, TasteStatus(rating, active))>> ELSE <<>>
ProposalsFrom(s, t, rating, states, ofRun) ==
  CASE rating = "negative" ->
         <<Add(<<"evolution", s>>, Issue, "pending")>>
         \o (IF ofRun THEN <<Add(<<"evolution", "project">>, Regression, "pending")>> ELSE <<>>)
    [] rating = "positive" /\ states -> <<Add(<<"evolution", s>>, t, "pending")>>
    [] OTHER -> <<>>
GiveFeedback(p) ==
  \E s \in Scopes, t \in Preferences, rating \in Ratings, states, active, ofRun \in BOOLEAN :
    Run(p, <<Add(<<"feedback", s>>, <<t, rating, ofRun>>, "given")>>
           \o TasteFrom(s, t, rating, states, active)
           \o ProposalsFrom(s, t, rating, states, ofRun))
-----------------------------------------------------------------------------
\* _load_records, _load_proposals
Load(p) ==
  /\ ~Idle(p) /\ seen[p] = <<>>
  /\ seen' = [seen EXCEPT ![p] = <<store[Head(todo[p]).list]>>]
  /\ UNCHANGED <<store, todo, begun, work, number, acked, decided, stale>>

Loaded(p, do) == ~Idle(p) /\ seen[p] # <<>> /\ Head(todo[p]).do = do

\* Mutant: the list is loaded once and used for every step.
GoOnKeepsList(p, steps) ==
  /\ todo' = [todo EXCEPT ![p] = steps]
  /\ number' = IF steps = <<>> THEN [number EXCEPT ![p] = 0] ELSE number
  /\ UNCHANGED <<seen, begun, work>>

\* The process goes on with the steps that are left.
GoOn(p, steps) ==
  /\ todo' = [todo EXCEPT ![p] = steps]
  /\ seen' = [seen EXCEPT ![p] = <<>>]
  /\ number' = IF steps = <<>> THEN [number EXCEPT ![p] = 0] ELSE number
  /\ UNCHANGED <<begun, work>>

Known(p) == seen[p][1]
Existing(p) == {r \in Known(p) : r.key = Head(todo[p]).key}

\* Mutant: a merged record takes the id of the new one.
MergedWithNewId(kind, old, new) == [new EXCEPT !.status = old.status]

\* Mutants: the newer status wins, whatever was there.
MergedLatest(kind, old, new) == [old EXCEPT !.status = new.status]

\* add() of a record that is there: a taste record that is active, or becomes
\* it, stays active; a proposal keeps its status; feedback stays as it is.
MergedTaste(old, new) ==
  [old EXCEPT !.status = IF "active" \in {old.status, new.status} THEN "active" ELSE new.status]
MergedProposal(old, new) == old
Merged(kind, old, new) ==
  CASE kind = "taste" -> MergedTaste(old, new)
    [] kind = "evolution" -> MergedProposal(old, new)
    [] OTHER -> old

\* _save_records, _save_proposals, which write whatever is in the list by now.
Save(p, list, records) ==
  /\ store' = [store EXCEPT ![list] = records]
  /\ stale' = IF store[list] = Known(p) THEN stale ELSE stale \cup {list}

\* An addition returns the record, new or merged.
AddRecord(p) ==
  /\ Loaded(p, "add")
  /\ LET step == Head(todo[p])
         new == [key |-> step.key, id |-> number[p], status |-> step.status]
     IN  \E result \in {IF Existing(p) = {} THEN new
                        ELSE Merged(Kind(step.list), CHOOSE r \in Existing(p) : TRUE, new)} :
           /\ \/ Kind(step.list) = "feedback" /\ Existing(p) # {} /\ UNCHANGED <<store, stale>>
              \/ /\ ~(Kind(step.list) = "feedback" /\ Existing(p) # {})
                 /\ Save(p, step.list, (Known(p) \ Existing(p)) \cup {result})
           /\ acked' = acked \cup {[list |-> step.list, key |-> result.key, id |-> result.id]}
           /\ decided' =
                IF Kind(step.list) = "evolution" /\ Existing(p) = {}
                THEN [decided EXCEPT ![<<step.list, step.key>>] = step.status]
                ELSE decided
  /\ GoOn(p, Tail(todo[p]))

WithStatus(r, status) == [r EXCEPT !.status = status]

\* _set_status; an id neither list has is unknown, and nothing is written.
MarkRecord(p) ==
  /\ Loaded(p, "mark")
  /\ LET step == Head(todo[p])
         found == {r \in Known(p) : r.key = step.key /\ r.id = step.id}
     IN  \/ found = {} /\ GoOn(p, Tail(todo[p])) /\ UNCHANGED <<store, decided, stale>>
         \/ /\ found # {}
            /\ Save(p, step.list, (Known(p) \ found) \cup {WithStatus(r, step.status) : r \in found})
            /\ decided' = IF Kind(step.list) = "evolution"
                          THEN [decided EXCEPT ![<<step.list, step.key>>] = step.status]
                          ELSE decided
            /\ GoOn(p, <<>>)
  /\ UNCHANGED acked

\* _bootstrap_project_style reads the keys once and adds what is missing.
LookForMissing(p) ==
  /\ Loaded(p, "add_missing")
  /\ LET missing == {step \in ToSet(todo[p]) : \A r \in Known(p) : r.key # step.key}
     IN  GoOn(p, SetToSeq({[step EXCEPT !.do = "add"] : step \in missing}))
  /\ UNCHANGED <<store, acked, decided, stale>>

\* The process is killed, or an exception ends it.
Die(p) ==
  /\ ~Idle(p)
  /\ GoOn(p, <<>>)
  /\ UNCHANGED <<store, acked, decided, stale>>
-----------------------------------------------------------------------------
Init ==
  /\ store = [l \in Lists |-> {}]
  /\ todo = [p \in Processes |-> <<>>]
  /\ seen = [p \in Processes |-> <<>>]
  /\ begun = 0 /\ work = 0 /\ number = [p \in Processes |-> 0]
  /\ acked = {}
  /\ decided = [d \in ({"evolution"} \X Scopes) \X ProposalKeys |-> "pending"]
  /\ stale = {}

Begin(p) ==
  \/ Learn(p) \/ Bootstrap(p) \/ Scan(p) \/ Teach(p) \/ ApproveTaste(p) \/ RejectTaste(p)
  \/ ApproveProposal(p) \/ RejectProposal(p) \/ Propose(p) \/ RecordFailure(p) \/ GiveFeedback(p)

Next ==
  \E p \in Processes :
    \/ Begin(p) \/ Load(p) \/ AddRecord(p) \/ MarkRecord(p) \/ LookForMissing(p) \/ Die(p)

Spec == Init /\ [][Next]_vars
\* The processes are alike.
Twins == Permutations(Processes)
-----------------------------------------------------------------------------
\* The types of the variables.
TypeOK ==
  /\ DOMAIN store = Lists /\ \A l \in Lists : store[l] \subseteq RecordsOf(Kind(l))
  /\ \A p \in Processes : Len(seen[p]) <= 1 /\ (Idle(p) => seen[p] = <<>>)
  /\ begun \in 0 .. MaxCommands /\ work \in 0 .. MaxSteps /\ number \in [Processes -> 0 .. begun]
  /\ stale \subseteq Lists

\* A list has one record for a key, and a record a process was given stays
\* there under the id it was shown, so that approve and reject find it; except
\* in a list that lost a change to a save of an older list.
AcknowledgedStays ==
  /\ \A l \in Lists : \A r, q \in store[l] : r.key = q.key => r = q
  /\ \A a \in acked :
       a.list \notin stale => \E r \in store[a.list] : r.key = a.key /\ r.id = a.id

\* Only users decide what becomes of what was learned: whatever runs and
\* feedback add to a proposal later, its status is the last one a user gave it,
\* and an active taste record is put aside by a rejection only.
UserDecides ==
  [][\A l \in Lists : l \notin stale' =>
       IF Kind(l) = "evolution"
       THEN \A r \in store'[l] : r.status = decided'[<<l, r.key>>]
       ELSE \A r \in TasteContext(store[l]) :
              \/ \E q \in TasteContext(store'[l]) : q.key = r.key
              \/ \E p \in Processes : Loaded(p, "mark") /\ Head(todo[p]).status = "rejected"]_vars
=============================================================================
