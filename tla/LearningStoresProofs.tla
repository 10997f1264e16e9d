------------------------- MODULE LearningStoresProofs -------------------------
(***************************************************************************)
(* What the learning stores keep, for any lists, runs and commands, any    *)
(* finite set of texts and any bounds.                                     *)
(*                                                                         *)
(* A process saves the list it has loaded, changed, so what it saves is    *)
(* right only as long as what it loaded still is. The invariant says of a  *)
(* process in between that every record it has loaded is still in the list *)
(* under the same id (LoadedIsKept), unless another process has saved the  *)
(* list in the meantime and one of the changes is lost. With it, what was  *)
(* acknowledged is in the list (Kept), and a proposal has the status that  *)
(* was last decided (Decided).                                             *)
(***************************************************************************)
EXTENDS LearningStores, SequenceTheorems, FiniteSetTheorems, TLAPS

Kinds == {"taste", "evolution", "feedback"}
KeysOf(kind) ==
  CASE kind = "taste" -> Texts
    [] kind = "evolution" -> Texts \cup {Issue, Regression, Incomplete, FailedEval}
    [] OTHER -> Preferences \X Ratings \X BOOLEAN
StatusesOf(kind) ==
  CASE kind = "taste" -> {"active", "pending", "rejected"}
    [] kind = "evolution" -> {"pending", "approved", "rejected"}
    [] OTHER -> {"given"}

LEMMA RecordsAre ==
  ASSUME NEW kind \in Kinds
  PROVE  RecordsOf(kind) = [key : KeysOf(kind), id : Ids, status : StatusesOf(kind)]
<1>1. CASE kind = "taste"
  BY <1>1 DEF RecordsOf, KeysOf, StatusesOf, TasteRecords
<1>2. CASE kind = "evolution"
  BY <1>2 DEF RecordsOf, KeysOf, StatusesOf, Proposals
<1>3. CASE kind = "feedback"
  BY <1>3 DEF RecordsOf, KeysOf, StatusesOf, FeedbackRecords
<1> QED
  BY <1>1, <1>2, <1>3 DEF Kinds

\* A list has one record for a key; what was in a list is in another under the
\* same id.
OnePerKey(S) == \A r, q \in S : r.key = q.key => r = q
Keeps(S, T) == \A r \in S : \E q \in T : q.key = r.key /\ q.id = r.id

\* What an addition to a list K returns, where E are the records of K with the
\* key.
IsAddition(kind, K, new, E, result) ==
  /\ kind \in Kinds /\ K \subseteq RecordsOf(kind) /\ OnePerKey(K)
  /\ new \in RecordsOf(kind)
  /\ \A r : r \in E <=> r \in K /\ r.key = new.key
  /\ E = {} => result = new
  /\ E # {} => \E old \in E : result = Merged(kind, old, new)

LEMMA Adding ==
  ASSUME NEW kind, NEW K, NEW new, NEW E, NEW result, IsAddition(kind, K, new, E, result)
  PROVE  /\ result \in RecordsOf(kind) /\ result.key = new.key
         /\ E = {} => result = new
         /\ E # {} => \E old \in E : /\ E = {old} /\ result.id = old.id
                                     /\ kind # "taste" => result = old
                                     /\ "active" \in {old.status, new.status} /\ kind = "taste"
                                          => result.status = "active"
<1> USE DEF IsAddition
<1>1. RecordsOf(kind) = [key : KeysOf(kind), id : Ids, status : StatusesOf(kind)]
  BY RecordsAre
<1>2. CASE E = {}
  BY <1>2
<1>3. CASE E # {}
  <2>3. PICK old \in E : result = Merged(kind, old, new)
    BY <1>3
  <2>1. old \in K /\ old.key = new.key
    OBVIOUS
  <2>2. E = {old}
    BY <2>1 DEF OnePerKey
  <2>4. old \in RecordsOf(kind)
    BY <2>1
  <2>5. CASE kind = "taste"
    <3>1. result = [old EXCEPT !.status =
                         IF "active" \in {old.status, new.status} THEN "active" ELSE new.status]
      BY <2>3, <2>5 DEF Merged, MergedTaste
    <3>2. (IF "active" \in {old.status, new.status} THEN "active" ELSE new.status) \in StatusesOf(kind)
      BY <1>1, <2>5 DEF StatusesOf
    <3>3. /\ result \in RecordsOf(kind) /\ result.key = old.key /\ result.id = old.id
          /\ result.status = IF "active" \in {old.status, new.status} THEN "active" ELSE new.status
      BY <1>1, <2>4, <3>1, <3>2
    <3> QED
      BY <2>1, <2>2, <2>5, <3>3
  <2>6. CASE kind # "taste"
    <3>1. result = old
      BY <2>3, <2>6 DEF Merged, MergedProposal
    <3> QED
      BY <2>1, <2>2, <2>4, <2>6, <3>1
  <2> QED
    BY <2>5, <2>6
<1> QED
  BY <1>2, <1>3

LEMMA Added ==
  ASSUME NEW K, OnePerKey(K), NEW key, NEW E, E = {r \in K : r.key = key},
         NEW result, result.key = key, \A r \in E : r.id = result.id
  PROVE  OnePerKey((K \ E) \cup {result}) /\ Keeps(K, (K \ E) \cup {result})
BY DEF OnePerKey, Keeps

\* What a new status makes of a list K, where F are the records that get it.
IsMarking(kind, K, key, id, status, F, T) ==
  /\ kind \in Kinds /\ K \subseteq RecordsOf(kind) /\ OnePerKey(K)
  /\ status \in StatusesOf(kind)
  /\ \A r : r \in F <=> r \in K /\ r.key = key /\ r.id = id
  /\ \A q : q \in T <=> (q \in K /\ q \notin F) \/ \E r \in F : q = WithStatus(r, status)

LEMMA Marked ==
  ASSUME NEW kind, NEW K, NEW key, NEW id, NEW status, NEW F, NEW T,
         IsMarking(kind, K, key, id, status, F, T)
  PROVE  /\ T \subseteq RecordsOf(kind) /\ OnePerKey(T) /\ Keeps(K, T)
         /\ \A q \in T : (q \in K /\ q \notin F) \/ (q.key = key /\ q.status = status)
         /\ \A r \in F : \E q \in T : q.key = r.key /\ q.status = status
<1> USE DEF IsMarking
<1>1. RecordsOf(kind) = [key : KeysOf(kind), id : Ids, status : StatusesOf(kind)]
  BY RecordsAre
<1>2. \A r \in F : LET q == WithStatus(r, status)
                   IN  q \in RecordsOf(kind) /\ q.key = r.key /\ q.id = r.id /\ q.status = status
  BY <1>1 DEF WithStatus
<1>3. T \subseteq RecordsOf(kind)
  BY <1>2
<1>4. Keeps(K, T)
  BY <1>2 DEF Keeps
<1>5. \A q \in T : (q \in K /\ q \notin F) \/ \E r \in F : q = WithStatus(r, status)
  OBVIOUS
<1>6. OnePerKey(T)
  <2> SUFFICES ASSUME NEW q \in T, NEW r \in T, q.key = r.key PROVE q = r
    BY DEF OnePerKey
  <2>1. ASSUME NEW x \in F, NEW y \in F PROVE x = y
    BY <2>1 DEF OnePerKey
  <2>2. ASSUME NEW x \in F, NEW y \in K \ F PROVE x.key # y.key
    BY <2>2 DEF OnePerKey
  <2>3. ASSUME NEW x \in K, NEW y \in K, x.key = y.key PROVE x = y
    BY <2>3 DEF OnePerKey
  <2> QED
    BY <1>2, <1>5, <2>1, <2>2, <2>3
<1> QED
  BY <1>2, <1>3, <1>4, <1>5, <1>6
-----------------------------------------------------------------------------
\* The steps a process may have to do.  A mark on a taste record makes it active
\* or rejected.
Steps ==
  {s \in [do : {"add", "mark", "add_missing"}, list : Lists,
          key : UNION {KeysOf(kind) : kind \in Kinds}, id : {0} \cup Ids,
          status : UNION {StatusesOf(kind) : kind \in Kinds}] :
     /\ s.key \in KeysOf(Kind(s.list)) /\ s.status \in StatusesOf(Kind(s.list))
     /\ s.do = "mark" /\ Kind(s.list) = "taste" => s.status \in {"active", "rejected"}}

LEMMA AKind ==
  ASSUME NEW kind \in Kinds, NEW scope \in Scopes
  PROVE  <<kind, scope>> \in Lists /\ Kind(<<kind, scope>>) = kind
BY DEF Kinds, Lists, Kind

LEMMA KindsOfLists == \A l \in Lists : Kind(l) \in Kinds
BY DEF Kinds, Lists, Kind

LEMMA AddIsStep ==
  ASSUME NEW kind \in Kinds, NEW scope \in Scopes, NEW key \in KeysOf(kind),
         NEW status \in StatusesOf(kind)
  PROVE  Add(<<kind, scope>>, key, status) \in Steps
BY AKind DEF Add, Steps

LEMMA MarkIsStep ==
  ASSUME NEW kind \in Kinds, NEW scope \in Scopes, NEW r, r.key \in KeysOf(kind), r.id \in Ids,
         NEW status \in StatusesOf(kind), kind = "taste" => status \in {"active", "rejected"}
  PROVE  Mark(<<kind, scope>>, r, status) \in Steps
BY AKind DEF Mark, Steps

\* A finite set has a sequence of its members, and so have the steps made of a
\* finite set of texts.
LEMMA Listed ==
  ASSUME NEW S, IsFiniteSet(S), S \subseteq Steps
  PROVE  SetToSeq(S) \in Seq(Steps)
<1> DEFINE n == Cardinality(S)
           f == SetToSeq(S)
<1>1. n \in Nat /\ ExistsBijection(1 .. n, S)
  BY FS_CardinalityType
<1>2. \E g \in [1 .. n -> S] : IsInjective(g)
  BY <1>1 DEF ExistsBijection, Bijection, Injection
<1>3. f \in [1 .. n -> S]
  BY <1>2 DEF SetToSeq
<1> HIDE DEF n, f
<1>4. f \in Seq(S)
  BY <1>1, <1>3, SeqDef
<1>5. f \in Seq(Steps)
  BY <1>4
<1> QED
  BY <1>5 DEF f

LEMMA Images ==
  ASSUME NEW texts, IsFiniteSet(texts), NEW f, f = [t \in texts |-> f[t]],
         \A t \in texts : f[t] \in Steps
  PROVE  SetToSeq({f[t] : t \in texts}) \in Seq(Steps)
<1> DEFINE S == {f[t] : t \in texts}
<1>1. \A t \in texts : f[t] \in S
  OBVIOUS
<1>2. S \subseteq Steps /\ \A s \in S : \E t \in texts : f[t] = s
  OBVIOUS
<1> HIDE DEF S
<1>3. f \in [texts -> S]
  BY <1>1
<1>4. f \in Surjection(texts, S)
  BY <1>2, <1>3 DEF Surjection
<1>5. SetToSeq(S) \in Seq(Steps)
  BY <1>2, <1>4, FS_Surjection, Listed
<1> QED
  BY <1>5 DEF S

\* What the stores have returned.
Returned ==
  \A a \in acked : a.list \in Lists /\ a.key \in KeysOf(Kind(a.list)) /\ a.id \in Ids

LEMMA TextsAreKeys ==
  /\ Texts = KeysOf("taste") /\ Texts \subseteq KeysOf("evolution")
  /\ {Issue, Regression, Incomplete, FailedEval} \subseteq KeysOf("evolution")
  /\ Preferences \X Ratings \X BOOLEAN = KeysOf("feedback")
  /\ Preferences \subseteq Texts /\ Conventions \subseteq Texts
  /\ {"taste", "evolution", "feedback"} = Kinds
  /\ {"active", "pending", "rejected"} = StatusesOf("taste")
  /\ {"pending", "approved", "rejected"} = StatusesOf("evolution")
  /\ {"given"} = StatusesOf("feedback")
  /\ {"user", "project"} = Scopes
BY DEF KeysOf, StatusesOf, Kinds, Texts, Scopes

LEMMA StepOfText ==
  ASSUME NEW t \in Texts
  PROVE  /\ t \in Preferences => Add(<<"taste", "user">>, t, "active") \in Steps
         /\ Add(<<"taste", "project">>, t, "active") \in Steps
         /\ AddMissing(t) \in Steps
         /\ Promoted(t) \in Steps
<1>1. /\ Add(<<"taste", "user">>, t, "active") \in Steps
      /\ Add(<<"taste", "project">>, t, "active") \in Steps
  BY TextsAreKeys, AddIsStep
<1>2. AddMissing(t) \in Steps
  <2>1. <<"taste", "project">> \in Lists /\ Kind(<<"taste", "project">>) = "taste"
    BY TextsAreKeys, AKind
  <2> QED
    BY <2>1, TextsAreKeys DEF AddMissing, Steps
<1>3. Promoted(t) \in Steps
  <2>1. ScopeOf(t) \in Scopes
    BY DEF ScopeOf, Scopes
  <2> QED
    BY <2>1, TextsAreKeys, AddIsStep DEF Promoted
<1> QED
  BY <1>1, <1>2, <1>3

LEMMA StatedAreSteps ==
  ASSUME NEW T \in SUBSET Texts, T \subseteq Preferences
  PROVE  ForEach(T, LAMBDA t : Add(<<"taste", "user">>, t, "active")) \in Seq(Steps)
<1> DEFINE f == [t \in T |-> Add(<<"taste", "user">>, t, "active")]
<1>1. \A t \in T : f[t] \in Steps
  BY StepOfText
<1>2. f = [t \in T |-> f[t]]
  OBVIOUS
<1>3. SetToSeq({f[t] : t \in T}) \in Seq(Steps)
  <2>1. IsFiniteSet(T)
    BY FS_Subset, StoresAssumption
  <2> HIDE DEF f
  <2> QED
    BY <1>1, <1>2, <2>1, Images
<1>4. {f[t] : t \in T} = {Add(<<"taste", "user">>, t, "active") : t \in T}
  OBVIOUS
<1> QED
  BY <1>3, <1>4 DEF ForEach

LEMMA PassedAreSteps ==
  ASSUME NEW T \in SUBSET Texts
  PROVE  ForEach(T, LAMBDA t : Add(<<"taste", "project">>, t, "active")) \in Seq(Steps)
<1> DEFINE f == [t \in T |-> Add(<<"taste", "project">>, t, "active")]
<1>1. \A t \in T : f[t] \in Steps
  BY StepOfText
<1>2. f = [t \in T |-> f[t]]
  OBVIOUS
<1>3. SetToSeq({f[t] : t \in T}) \in Seq(Steps)
  <2>1. IsFiniteSet(T)
    BY FS_Subset, StoresAssumption
  <2> HIDE DEF f
  <2> QED
    BY <1>1, <1>2, <2>1, Images
<1>4. {f[t] : t \in T} = {Add(<<"taste", "project">>, t, "active") : t \in T}
  OBVIOUS
<1> QED
  BY <1>3, <1>4 DEF ForEach

LEMMA MissingAreSteps ==
  ASSUME NEW T \in SUBSET Texts
  PROVE  ForEach(T, AddMissing) \in Seq(Steps)
<1> DEFINE f == [t \in T |-> AddMissing(t)]
<1>1. \A t \in T : f[t] \in Steps
  BY StepOfText
<1>2. f = [t \in T |-> f[t]]
  OBVIOUS
<1>3. SetToSeq({f[t] : t \in T}) \in Seq(Steps)
  <2>1. IsFiniteSet(T)
    BY FS_Subset, StoresAssumption
  <2> HIDE DEF f
  <2> QED
    BY <1>1, <1>2, <2>1, Images
<1>4. {f[t] : t \in T} = {AddMissing(t) : t \in T}
  OBVIOUS
<1> QED
  BY <1>3, <1>4 DEF ForEach

LEMMA PromotedAreSteps ==
  ASSUME NEW T \in SUBSET Texts
  PROVE  ForEach(T, Promoted) \in Seq(Steps)
<1> DEFINE f == [t \in T |-> Promoted(t)]
<1>1. \A t \in T : f[t] \in Steps
  BY StepOfText
<1>2. f = [t \in T |-> f[t]]
  OBVIOUS
<1>3. SetToSeq({f[t] : t \in T}) \in Seq(Steps)
  <2>1. IsFiniteSet(T)
    BY FS_Subset, StoresAssumption
  <2> HIDE DEF f
  <2> QED
    BY <1>1, <1>2, <2>1, Images
<1>4. {f[t] : t \in T} = {Promoted(t) : t \in T}
  OBVIOUS
<1> QED
  BY <1>3, <1>4 DEF ForEach

LEMMA OneStep ==
  ASSUME NEW s \in Steps
  PROVE  <<s>> \in Seq(Steps)
OBVIOUS

LEMMA TwoSteps ==
  ASSUME NEW s \in Steps, NEW t \in Steps
  PROVE  <<s, t>> \in Seq(Steps)
OBVIOUS

LEMMA Joined ==
  ASSUME NEW s \in Seq(Steps), NEW t \in Seq(Steps), NEW u \in Seq(Steps)
  PROVE  s \o t \o u \in Seq(Steps)
OBVIOUS

\* Whatever a run or a command begins with are steps.
LEMMA BeginsWithSteps ==
  ASSUME Returned, NEW p \in Processes, Begin(p)
  PROVE  \E steps \in Seq(Steps) : Run(p, steps)
<1>1. CASE Learn(p)
  <2>1. PICK texts \in SUBSET Texts, failed \in BOOLEAN :
          Run(p, Stated(texts) \o Passed(texts) \o InferredProposals(texts, failed))
    BY <1>1 DEF Learn
  <2>2. Stated(texts) \in Seq(Steps)
    <3>1. texts \cap Preferences \in SUBSET Texts
      OBVIOUS
    <3> QED
      BY <3>1, StatedAreSteps DEF Stated
  <2>3. Passed(texts) \in Seq(Steps)
    <3>1. texts \cap Conventions \in SUBSET Texts
      OBVIOUS
    <3> QED
      BY <3>1, PassedAreSteps DEF Passed
  <2>4. InferredProposals(texts, failed) \in Seq(Steps)
    <3>1. Add(<<"evolution", "project">>, Incomplete, "pending") \in Steps
      BY TextsAreKeys, AddIsStep
    <3> QED
      BY <3>1, PromotedAreSteps DEF InferredProposals
  <2>5. Stated(texts) \o Passed(texts) \o InferredProposals(texts, failed) \in Seq(Steps)
    BY <2>2, <2>3, <2>4, Joined
  <2> QED
    BY <2>1, <2>5
<1>2. CASE Bootstrap(p)
  BY <1>2, MissingAreSteps, TextsAreKeys DEF Bootstrap, Found
<1>3. CASE Scan(p)
  BY <1>3, PassedAreSteps, TextsAreKeys DEF Scan, Found
<1>4. CASE Teach(p)
  <2>1. PICK s \in Scopes, t \in Texts, status \in {"active", "pending"} :
          Run(p, <<Add(<<"taste", s>>, t, status)>>)
    BY <1>4 DEF Teach
  <2>2. <<Add(<<"taste", s>>, t, status)>> \in Seq(Steps)
    BY TextsAreKeys, AddIsStep, OneStep
  <2> QED
    BY <2>1, <2>2
<1>5. ASSUME NEW kind \in {"taste", "evolution"}, NEW status \in StatusesOf(kind),
             kind = "taste" => status \in {"active", "rejected"},
             \E a \in Shown(kind) : Run(p, InEither(kind, a, status))
      PROVE  \E steps \in Seq(Steps) : Run(p, steps)
  <2>1. PICK a \in Shown(kind) : Run(p, InEither(kind, a, status))
    BY <1>5
  <2>2. kind \in Kinds /\ a.key \in KeysOf(kind) /\ a.id \in Ids
    BY TextsAreKeys DEF Shown, Returned
  <2>3. Mark(<<kind, "user">>, a, status) \in Steps /\ Mark(<<kind, "project">>, a, status) \in Steps
    BY <1>5, <2>2, TextsAreKeys, MarkIsStep
  <2>4. InEither(kind, a, status) \in Seq(Steps)
    BY <2>3, TwoSteps DEF InEither
  <2> QED
    BY <2>1, <2>4
<1>6. CASE ApproveTaste(p) \/ RejectTaste(p) \/ ApproveProposal(p) \/ RejectProposal(p)
  BY <1>5, <1>6, TextsAreKeys DEF ApproveTaste, RejectTaste, ApproveProposal, RejectProposal
<1>7. CASE Propose(p)
  <2>1. PICK s \in Scopes, t \in Texts, status \in {"approved", "pending"} :
          Run(p, <<Add(<<"evolution", s>>, t, status)>>)
    BY <1>7 DEF Propose
  <2>2. <<Add(<<"evolution", s>>, t, status)>> \in Seq(Steps)
    BY TextsAreKeys, AddIsStep, OneStep
  <2> QED
    BY <2>1, <2>2
<1>8. CASE RecordFailure(p)
  <2>1. <<Add(<<"evolution", "project">>, FailedEval, "pending")>> \in Seq(Steps)
    BY TextsAreKeys, AddIsStep, OneStep
  <2> QED
    BY <1>8, <2>1 DEF RecordFailure
<1>9. CASE GiveFeedback(p)
  <2>1. PICK s \in Scopes, t \in Preferences, rating \in Ratings,
             states \in BOOLEAN, active \in BOOLEAN, ofRun \in BOOLEAN :
          Run(p, <<Add(<<"feedback", s>>, <<t, rating, ofRun>>, "given")>>
                 \o TasteFrom(s, t, rating, states, active)
                 \o ProposalsFrom(s, t, rating, states, ofRun))
    BY <1>9 DEF GiveFeedback
  <2>2. Add(<<"feedback", s>>, <<t, rating, ofRun>>, "given") \in Steps
    BY TextsAreKeys, AddIsStep
  <2>3. TasteFrom(s, t, rating, states, active) \in Seq(Steps)
    <3>1. TasteStatus(rating, active) \in StatusesOf("taste")
      BY TextsAreKeys DEF TasteStatus
    <3>2. Add(<<"taste", s>>, t, TasteStatus(rating, active)) \in Steps
      BY <3>1, TextsAreKeys, AddIsStep
    <3> QED
      BY <3>2 DEF TasteFrom
  <2>4. ProposalsFrom(s, t, rating, states, ofRun) \in Seq(Steps)
    <3>1. /\ Add(<<"evolution", s>>, Issue, "pending") \in Steps
          /\ Add(<<"evolution", "project">>, Regression, "pending") \in Steps
          /\ Add(<<"evolution", s>>, t, "pending") \in Steps
      BY TextsAreKeys, AddIsStep
    <3>2. <<>> \in Seq(Steps)
      OBVIOUS
    <3> QED
      BY <3>1, <3>2 DEF ProposalsFrom
  <2>5. <<Add(<<"feedback", s>>, <<t, rating, ofRun>>, "given")>> \in Seq(Steps)
    BY <2>2, OneStep
  <2>6. <<Add(<<"feedback", s>>, <<t, rating, ofRun>>, "given")>>
        \o TasteFrom(s, t, rating, states, active)
        \o ProposalsFrom(s, t, rating, states, ofRun) \in Seq(Steps)
    BY <2>3, <2>4, <2>5, Joined
  <2> QED
    BY <2>1, <2>6
<1> QED
  BY <1>1, <1>2, <1>3, <1>4, <1>6, <1>7, <1>8, <1>9 DEF Begin
-----------------------------------------------------------------------------
\* The types: a process that has loaded a list still has the step to do that
\* needs it, and runs under a number.
Types ==
  /\ DOMAIN store = Lists /\ \A l \in Lists : store[l] \subseteq RecordsOf(Kind(l))
  /\ todo \in [Processes -> Seq(Steps)] /\ DOMAIN seen = Processes
  /\ \A p \in Processes : seen[p] # <<>> =>
       /\ ~Idle(p) /\ seen[p] = <<Known(p)>>
       /\ Known(p) \subseteq RecordsOf(Kind(Head(todo[p]).list))
  /\ begun \in 0 .. MaxCommands /\ work \in 0 .. MaxSteps
  /\ number \in [Processes -> 0 .. begun] /\ \A p \in Processes : ~Idle(p) => number[p] # 0
  /\ stale \subseteq Lists /\ Returned
  /\ DOMAIN decided = ({"evolution"} \X Scopes) \X ProposalKeys

\* What a process has loaded is still in the list, under the same ids, unless
\* the list has lost a change.
LoadedIsKept ==
  \A p \in Processes : seen[p] # <<>> =>
    /\ OnePerKey(Known(p))
    /\ LET l == Head(todo[p]).list IN l \notin stale => Keeps(Known(p), store[l])
Kept ==
  /\ \A l \in Lists : OnePerKey(store[l])
  /\ \A a \in acked :
       a.list \notin stale => \E r \in store[a.list] : r.key = a.key /\ r.id = a.id
  /\ LoadedIsKept

\* How a step moves the processes: what a process has loaded by now it had
\* loaded before, or is the list as it is.
Moves ==
  /\ todo' \in [Processes -> Seq(Steps)] /\ DOMAIN seen' = Processes
  /\ \A p \in Processes :
       \/ seen'[p] = <<>>
       \/ seen'[p] = seen[p] /\ todo'[p] = todo[p]
       \/ todo'[p] = todo[p] /\ ~Idle(p) /\ seen'[p] = <<store[Head(todo[p]).list]>> /\ UNCHANGED store
  /\ begun' \in 0 .. MaxCommands /\ work' \in 0 .. MaxSteps
  /\ number' \in [Processes -> 0 .. begun']
  /\ \A p \in Processes : ~Idle(p)' => number'[p] # 0

\* How a step writes the lists: a list that has lost no change keeps its records.
Writes ==
  /\ DOMAIN store' = Lists
  /\ \A l \in Lists : store'[l] \subseteq RecordsOf(Kind(l)) /\ OnePerKey(store'[l])
  /\ stale \subseteq stale' /\ stale' \subseteq Lists
  /\ \A l \in Lists \ stale' : Keeps(store[l], store'[l])
  /\ \A a \in acked' :
       \/ a \in acked
       \/ /\ a.list \in Lists /\ a.key \in KeysOf(Kind(a.list)) /\ a.id \in Ids
          /\ a.list \notin stale' => \E r \in store'[a.list] : r.key = a.key /\ r.id = a.id
  /\ DOMAIN decided' = DOMAIN decided

LEMMA KeepsOn ==
  ASSUME NEW S, NEW T, NEW U, Keeps(S, T), Keeps(T, U)
  PROVE  Keeps(S, U)
<1> SUFFICES ASSUME NEW r \in S PROVE \E q \in U : q.key = r.key /\ q.id = r.id
  BY DEF Keeps
<1>1. PICK t \in T : t.key = r.key /\ t.id = r.id
  BY DEF Keeps
<1>2. PICK u \in U : u.key = t.key /\ u.id = t.id
  BY DEF Keeps
<1> QED
  BY <1>1, <1>2

LEMMA HeadIsStep ==
  ASSUME Types, NEW p \in Processes, ~Idle(p)
  PROVE  /\ Head(todo[p]) \in Steps /\ Head(todo[p]).list \in Lists
         /\ Tail(todo[p]) \in Seq(Steps) /\ todo[p] \in Seq(Steps)
<1>1. todo[p] \in Seq(Steps) /\ todo[p] # <<>>
  BY DEF Types, Idle
<1>2. Head(todo[p]) \in Steps /\ Tail(todo[p]) \in Seq(Steps)
  BY <1>1, HeadTailProperties
<1> QED
  BY <1>1, <1>2 DEF Steps

LEMMA Lasting ==
  ASSUME Types, Kept, Moves, Writes
  PROVE  Types' /\ Kept'
<1>1. ASSUME NEW p \in Processes, seen'[p] # <<>>
      PROVE  /\ ~Idle(p)' /\ todo'[p] = todo[p] /\ seen'[p] = <<Known(p)'>>
             /\ Known(p)' \subseteq RecordsOf(Kind(Head(todo[p]).list))
             /\ OnePerKey(Known(p)')
             /\ Head(todo[p]).list \notin stale' => Keeps(Known(p)', store'[Head(todo[p]).list])
  <2>1. CASE seen'[p] = seen[p] /\ todo'[p] = todo[p]
    <3>1. /\ ~Idle(p) /\ seen[p] = <<Known(p)>> /\ Known(p)' = Known(p)
          /\ Known(p) \subseteq RecordsOf(Kind(Head(todo[p]).list))
          /\ OnePerKey(Known(p))
      BY <1>1, <2>1 DEF Types, Kept, LoadedIsKept, Known
    <3>2. ASSUME Head(todo[p]).list \notin stale'
          PROVE  Keeps(Known(p), store'[Head(todo[p]).list])
      <4> DEFINE l == Head(todo[p]).list
      <4>1. l \in Lists /\ l \notin stale /\ l \notin stale'
        BY <3>1, <3>2, HeadIsStep DEF Writes
      <4>2. Keeps(Known(p), store[l])
        BY <1>1, <2>1, <4>1 DEF Kept, LoadedIsKept
      <4>3. Keeps(store[l], store'[l])
        BY <4>1 DEF Writes
      <4> QED
        BY <4>2, <4>3, KeepsOn
    <3>3. ~Idle(p)'
      BY <2>1, <3>1 DEF Idle
    <3> QED
      BY <2>1, <3>1, <3>2, <3>3
  <2>2. CASE todo'[p] = todo[p] /\ ~Idle(p) /\ seen'[p] = <<store[Head(todo[p]).list]>> /\ UNCHANGED store
    <3> DEFINE l == Head(todo[p]).list
    <3>1. l \in Lists
      BY <2>2, HeadIsStep
    <3>2. Known(p)' = store[l] /\ store'[l] = store[l]
      BY <2>2 DEF Known
    <3>3. ~Idle(p)'
      BY <2>2 DEF Idle
    <3> HIDE DEF l
    <3>4. store[l] \subseteq RecordsOf(Kind(l)) /\ OnePerKey(store[l])
      BY <3>1 DEF Types, Kept
    <3>5. Keeps(store[l], store[l])
      BY DEF Keeps
    <3> QED
      BY <2>2, <3>2, <3>3, <3>4, <3>5 DEF l
  <2> QED
    BY <1>1, <2>1, <2>2 DEF Moves
<1>2. Types'
  BY <1>1 DEF Types, Moves, Writes, Returned
<1>3. Kept'
  <2>1. LoadedIsKept'
    BY <1>1 DEF LoadedIsKept
  <2>2. ASSUME NEW a \in acked', a.list \notin stale'
        PROVE  \E r \in store'[a.list] : r.key = a.key /\ r.id = a.id
    <3>1. CASE a \in acked
      <4>1. a.list \in Lists /\ a.list \notin stale
        BY <2>2, <3>1 DEF Types, Returned, Writes
      <4>2. PICK r \in store[a.list] : r.key = a.key /\ r.id = a.id
        BY <3>1, <4>1 DEF Kept
      <4>3. Keeps(store[a.list], store'[a.list])
        BY <2>2, <4>1 DEF Writes
      <4> QED
        BY <4>2, <4>3 DEF Keeps
    <3> QED
      BY <2>2, <3>1 DEF Writes
  <2> QED
    BY <2>1, <2>2 DEF Kept, Writes
<1> QED
  BY <1>2, <1>3
-----------------------------------------------------------------------------
LEMMA NoWrites ==
  ASSUME Types, Kept, UNCHANGED <<store, acked, decided, stale>>
  PROVE  Writes
<1>1. \A l \in Lists : Keeps(store[l], store[l])
  BY DEF Keeps
<1> QED
  BY <1>1 DEF Writes, Types, Kept

LEMMA GoOnMoves ==
  ASSUME Types, NEW p \in Processes, NEW rest \in Seq(Steps), ~Idle(p), GoOn(p, rest)
  PROVE  Moves
<1>1. /\ todo' = [todo EXCEPT ![p] = rest] /\ seen' = [seen EXCEPT ![p] = <<>>]
      /\ number' = (IF rest = <<>> THEN [number EXCEPT ![p] = 0] ELSE number)
      /\ begun' = begun /\ work' = work
  BY DEF GoOn
<1>2. todo' \in [Processes -> Seq(Steps)] /\ DOMAIN seen' = Processes
  BY <1>1 DEF Types
<1>3. \A q \in Processes : seen'[q] = <<>> \/ (seen'[q] = seen[q] /\ todo'[q] = todo[q])
  BY <1>1 DEF Types
<1>4. number' \in [Processes -> 0 .. begun]
  BY <1>1 DEF Types
<1>5. ASSUME NEW q \in Processes, ~Idle(q)' PROVE number'[q] # 0
  <2>1. todo'[q] # <<>>
    BY <1>5 DEF Idle
  <2>2. CASE q = p
    <3>1. number' = number
      BY <1>1, <2>1, <2>2 DEF Types
    <3> QED
      BY <2>2, <3>1 DEF Types
  <2>3. CASE q # p
    <3>1. number'[q] = number[q] /\ ~Idle(q)
      BY <1>1, <2>1, <2>3 DEF Types, Idle
    <3> QED
      BY <3>1 DEF Types
  <2> QED
    BY <2>2, <2>3
<1> QED
  BY <1>1, <1>2, <1>3, <1>4, <1>5 DEF Moves, Types

LEMMA RunMoves ==
  ASSUME Types, NEW p \in Processes, NEW steps \in Seq(Steps), Run(p, steps)
  PROVE  Moves
<1>1. /\ Idle(p) /\ steps # <<>> /\ begun < MaxCommands /\ work + Len(steps) <= MaxSteps
      /\ begun' = begun + 1 /\ work' = work + Len(steps)
      /\ number' = [number EXCEPT ![p] = begun'] /\ todo' = [todo EXCEPT ![p] = steps]
      /\ seen' = seen
  BY DEF Run
<1>2. Len(steps) \in Nat /\ begun \in Nat /\ work \in Nat /\ MaxSteps \in Nat /\ MaxCommands \in Nat
  BY LenProperties, StoresAssumption DEF Types
<1>3. /\ begun' \in 0 .. MaxCommands /\ work' \in 0 .. MaxSteps /\ begun' # 0
      /\ 0 .. begun \subseteq 0 .. begun' /\ begun' \in 0 .. begun'
  BY <1>1, <1>2
<1>4. number' \in [Processes -> 0 .. begun']
  BY <1>1, <1>3 DEF Types
<1>5. todo' \in [Processes -> Seq(Steps)] /\ DOMAIN seen' = Processes
  BY <1>1 DEF Types
<1>6. \A q \in Processes : seen'[q] = <<>> \/ (seen'[q] = seen[q] /\ todo'[q] = todo[q])
  BY <1>1 DEF Types
<1>7. \A q \in Processes : ~Idle(q)' => number'[q] # 0
  BY <1>1, <1>3 DEF Types, Idle
<1> QED
  BY <1>3, <1>4, <1>5, <1>6, <1>7 DEF Moves

LEMMA LoadMoves ==
  ASSUME Types, NEW p \in Processes, Load(p)
  PROVE  Moves
<1>1. /\ ~Idle(p) /\ seen' = [seen EXCEPT ![p] = <<store[Head(todo[p]).list]>>]
      /\ UNCHANGED <<store, todo, begun, work, number>>
  BY DEF Load
<1>2. \A q \in Processes :
        \/ seen'[q] = seen[q] /\ todo'[q] = todo[q]
        \/ todo'[q] = todo[q] /\ ~Idle(q) /\ seen'[q] = <<store[Head(todo[q]).list]>> /\ UNCHANGED store
  BY <1>1 DEF Types
<1> QED
  BY <1>1, <1>2 DEF Moves, Types, Idle

\* A list is written by a process that has loaded it.
LEMMA SaveWrites ==
  ASSUME Types, Kept, NEW p \in Processes, ~Idle(p), NEW S,
         S \subseteq RecordsOf(Kind(Head(todo[p]).list)), OnePerKey(S), Keeps(Known(p), S),
         Save(p, Head(todo[p]).list, S)
  PROVE  /\ DOMAIN store' = Lists
         /\ \A l \in Lists : store'[l] \subseteq RecordsOf(Kind(l)) /\ OnePerKey(store'[l])
         /\ stale \subseteq stale' /\ stale' \subseteq Lists
         /\ \A l \in Lists \ stale' : Keeps(store[l], store'[l])
         /\ store'[Head(todo[p]).list] = S
         /\ \A l \in Lists : l # Head(todo[p]).list => store'[l] = store[l]
         /\ Head(todo[p]).list \notin stale' => store[Head(todo[p]).list] = Known(p)
<1> DEFINE k == Head(todo[p]).list
<1>1. /\ k \in Lists /\ store' = [store EXCEPT ![k] = S]
      /\ stale' = IF store[k] = Known(p) THEN stale ELSE stale \cup {k}
  BY HeadIsStep DEF Save
<1>2. S \subseteq RecordsOf(Kind(k)) /\ OnePerKey(S) /\ Keeps(Known(p), S)
  OBVIOUS
<1> HIDE DEF k
<1>3. store'[k] = S /\ \A l \in Lists : l # k => store'[l] = store[l]
  BY <1>1 DEF Types
<1>4. k \notin stale' => store[k] = Known(p)
  BY <1>1
<1>5. \A l \in Lists \ stale' : Keeps(store[l], store'[l])
  BY <1>2, <1>3, <1>4 DEF Keeps
<1>6. \A l \in Lists : store'[l] \subseteq RecordsOf(Kind(l)) /\ OnePerKey(store'[l])
  BY <1>2, <1>3 DEF Types, Kept
<1>7. DOMAIN store' = Lists /\ stale \subseteq stale' /\ stale' \subseteq Lists
  BY <1>1 DEF Types
<1> QED
  BY <1>3, <1>4, <1>5, <1>6, <1>7 DEF k
-----------------------------------------------------------------------------
\* What the process that does a step knows.
LEMMA Knows ==
  ASSUME Types, Kept, NEW p \in Processes, NEW do, Loaded(p, do)
  PROVE  LET step == Head(todo[p])
         IN  /\ ~Idle(p) /\ step \in Steps /\ step.list \in Lists /\ Kind(step.list) \in Kinds
             /\ step.do = do /\ Tail(todo[p]) \in Seq(Steps)
             /\ Known(p) \subseteq RecordsOf(Kind(step.list)) /\ OnePerKey(Known(p))
             /\ number[p] \in Ids
<1>1. ~Idle(p) /\ seen[p] # <<>> /\ Head(todo[p]).do = do
  BY DEF Loaded
<1>2. number[p] \in Ids
  BY <1>1, StoresAssumption DEF Types, Ids
<1> QED
  BY <1>1, <1>2, HeadIsStep, KindsOfLists DEF Types, Kept, LoadedIsKept

\* An addition: what is returned is in the list, or for feedback was in what the
\* process has loaded; proposals keep the status they have.
LEMMA AddRecordFacts ==
  ASSUME Types, Kept, NEW p \in Processes, AddRecord(p),
         NEW step, step = Head(todo[p]), NEW l, l = step.list
  PROVE  \E result \in RecordsOf(Kind(l)) : \E S :
           /\ result.key = step.key
           /\ acked' = acked \cup {[list |-> l, key |-> result.key, id |-> result.id]}
           /\ \/ UNCHANGED <<store, stale>> /\ result \in Known(p) /\ Kind(l) = "feedback"
              \/ /\ Save(p, l, S) /\ S = (Known(p) \ Existing(p)) \cup {result}
                 /\ OnePerKey(S) /\ Keeps(Known(p), S) /\ S \subseteq RecordsOf(Kind(l))
           /\ IF Kind(l) = "evolution" /\ Existing(p) = {}
              THEN /\ decided' = [decided EXCEPT ![<<l, step.key>>] = step.status]
                   /\ result.status = step.status
              ELSE decided' = decided
           /\ Kind(l) = "evolution" /\ Existing(p) # {} => result \in Known(p)
           /\ Kind(l) = "taste" =>
                \A r \in Existing(p) : r.status = "active" => result.status = "active"
<1> DEFINE new == [key |-> step.key, id |-> number[p], status |-> step.status]
           kind == Kind(l)
           E == Existing(p)
           K == Known(p)
<1>1. /\ ~Idle(p) /\ step \in Steps /\ l \in Lists /\ kind \in Kinds
      /\ K \subseteq RecordsOf(kind) /\ OnePerKey(K) /\ number[p] \in Ids
  BY Knows DEF AddRecord
<1>2. new \in RecordsOf(kind) /\ new.key = step.key /\ new.status = step.status
  BY <1>1, RecordsAre DEF Steps
<1>3. E = {r \in K : r.key = new.key} /\ \A r : r \in E <=> r \in K /\ r.key = new.key
  BY DEF Existing
<1>4. PICK result \in {IF E = {} THEN new ELSE Merged(kind, CHOOSE r \in E : TRUE, new)} :
        /\ \/ kind = "feedback" /\ E # {} /\ UNCHANGED <<store, stale>>
           \/ /\ ~(kind = "feedback" /\ E # {})
              /\ Save(p, l, (K \ E) \cup {result})
        /\ acked' = acked \cup {[list |-> l, key |-> result.key, id |-> result.id]}
        /\ decided' = IF kind = "evolution" /\ E = {}
                      THEN [decided EXCEPT ![<<l, step.key>>] = step.status]
                      ELSE decided
  BY DEF AddRecord
<1> HIDE DEF new, kind, E, K
<1>5. /\ E = {} => result = new
      /\ E # {} => \E old \in E : result = Merged(kind, old, new)
  BY <1>4
<1>6. /\ result \in RecordsOf(kind) /\ result.key = new.key
      /\ E = {} => result = new
      /\ E # {} => \E old \in E : /\ E = {old} /\ result.id = old.id
                                  /\ kind # "taste" => result = old
                                  /\ "active" \in {old.status, new.status} /\ kind = "taste"
                                       => result.status = "active"
  <2>1. IsAddition(kind, K, new, E, result)
    BY <1>1, <1>2, <1>3, <1>5 DEF IsAddition
  <2> QED
    BY <2>1, Adding
<1>7. \A r \in E : r.id = result.id
  BY <1>6
<1> DEFINE S == (K \ E) \cup {result}
<1>8. OnePerKey(S) /\ Keeps(K, S)
  BY <1>1, <1>3, <1>6, <1>7, Added
<1>9. S \subseteq RecordsOf(kind)
  BY <1>1, <1>6
<1>10. E \subseteq K
  BY <1>3
<1>11. kind # "taste" /\ E # {} => result \in K
  BY <1>6, <1>10
<1>12. kind = "taste" => \A r \in E : r.status = "active" => result.status = "active"
  BY <1>6
<1>13. kind = "evolution" /\ E = {} => result.status = step.status
  BY <1>2, <1>6
<1>14. \/ UNCHANGED <<store, stale>> /\ result \in K /\ kind = "feedback"
       \/ Save(p, l, S)
  BY <1>4, <1>11
<1> HIDE DEF S
<1>15. /\ result \in RecordsOf(kind) /\ result.key = step.key
       /\ acked' = acked \cup {[list |-> l, key |-> result.key, id |-> result.id]}
       /\ IF kind = "evolution" /\ E = {}
          THEN /\ decided' = [decided EXCEPT ![<<l, step.key>>] = step.status]
               /\ result.status = step.status
          ELSE decided' = decided
  BY <1>2, <1>4, <1>6, <1>13
<1> QED
  BY <1>8, <1>9, <1>11, <1>12, <1>14, <1>15 DEF S, K, E, kind

LEMMA MarkRecordFacts ==
  ASSUME Types, Kept, NEW p \in Processes, MarkRecord(p),
         NEW step, step = Head(todo[p]), NEW l, l = step.list
  PROVE  \/ UNCHANGED <<store, decided, stale>> /\ GoOn(p, Tail(todo[p]))
         \/ \E F \in SUBSET Known(p) : \E S :
              /\ F # {} /\ \A r \in F : r.key = step.key
              /\ Save(p, l, S) /\ S \subseteq RecordsOf(Kind(l)) /\ OnePerKey(S) /\ Keeps(Known(p), S)
              /\ \A q \in S : (q \in Known(p) /\ q \notin F) \/ (q.key = step.key /\ q.status = step.status)
              /\ \A r \in Known(p) :
                   r \in S \/ (r \in F /\ \E q \in S : q.key = r.key /\ q.status = step.status)
              /\ decided' = IF Kind(l) = "evolution"
                            THEN [decided EXCEPT ![<<l, step.key>>] = step.status]
                            ELSE decided
              /\ GoOn(p, <<>>)
<1> DEFINE K == Known(p)
           F == {r \in K : r.key = step.key /\ r.id = step.id}
           S == (K \ F) \cup {WithStatus(r, step.status) : r \in F}
           kind == Kind(l)
<1>1. /\ ~Idle(p) /\ step \in Steps /\ l \in Lists /\ kind \in Kinds
      /\ K \subseteq RecordsOf(kind) /\ OnePerKey(K)
  BY Knows DEF MarkRecord
<1>2. step.status \in StatusesOf(kind)
  BY <1>1 DEF Steps
<1>3. \/ F = {} /\ GoOn(p, Tail(todo[p])) /\ UNCHANGED <<store, decided, stale>>
      \/ /\ F # {}
         /\ Save(p, l, S)
         /\ decided' = IF kind = "evolution"
                       THEN [decided EXCEPT ![<<l, step.key>>] = step.status]
                       ELSE decided
         /\ GoOn(p, <<>>)
  BY DEF MarkRecord
<1>4. F \subseteq K
  OBVIOUS
<1>5. \A r \in K : r \in F \/ r \in S
  OBVIOUS
<1> HIDE DEF K, kind
<1>6. /\ S \subseteq RecordsOf(kind) /\ OnePerKey(S) /\ Keeps(K, S)
      /\ \A q \in S : (q \in K /\ q \notin F) \/ (q.key = step.key /\ q.status = step.status)
      /\ \A r \in F : \E q \in S : q.key = r.key /\ q.status = step.status
  <2> DEFINE key == step.key
             id == step.id
             status == step.status
  <2>1. \A r : r \in F <=> r \in K /\ r.key = key /\ r.id = id
    OBVIOUS
  <2>2. \A q : q \in S <=> (q \in K /\ q \notin F) \/ \E r \in F : q = WithStatus(r, status)
    OBVIOUS
  <2>3. status \in StatusesOf(kind)
    BY <1>2
  <2> HIDE DEF F, S, key, id, status
  <2>4. /\ S \subseteq RecordsOf(kind) /\ OnePerKey(S) /\ Keeps(K, S)
        /\ \A q \in S : (q \in K /\ q \notin F) \/ (q.key = key /\ q.status = status)
        /\ \A r \in F : \E q \in S : q.key = r.key /\ q.status = status
    <3>1. IsMarking(kind, K, key, id, status, F, S)
      BY <1>1, <2>1, <2>2, <2>3 DEF IsMarking
    <3> QED
      BY <3>1, Marked
  <2> QED
    BY <2>4 DEF key, status
<1>7. \A r \in F : r.key = step.key
  OBVIOUS
<1> HIDE DEF F, S
<1> QED
  BY <1>3, <1>4, <1>5, <1>6, <1>7 DEF K, kind
-----------------------------------------------------------------------------
\* Each action moves the processes and writes the lists as it should.
Fine == Moves /\ Writes

LEMMA BeginIsFine ==
  ASSUME Types, Kept, NEW p \in Processes, Begin(p)
  PROVE  Fine
<1>1. PICK steps \in Seq(Steps) : Run(p, steps)
  BY BeginsWithSteps DEF Types
<1>2. UNCHANGED <<store, acked, decided, stale>>
  BY <1>1 DEF Run
<1> QED
  BY <1>1, <1>2, RunMoves, NoWrites DEF Fine

LEMMA LoadIsFine ==
  ASSUME Types, Kept, NEW p \in Processes, Load(p)
  PROVE  Fine
<1>1. UNCHANGED <<store, acked, decided, stale>>
  BY DEF Load
<1> QED
  BY <1>1, LoadMoves, NoWrites DEF Fine

LEMMA AddRecordIsFine ==
  ASSUME Types, Kept, NEW p \in Processes, AddRecord(p)
  PROVE  Fine
<1> DEFINE step == Head(todo[p])
           l == step.list
<1>1. /\ ~Idle(p) /\ step \in Steps /\ l \in Lists /\ Kind(l) \in Kinds
      /\ Tail(todo[p]) \in Seq(Steps)
      /\ Known(p) \subseteq RecordsOf(Kind(l)) /\ OnePerKey(Known(p))
  BY Knows DEF AddRecord
<1>2. Moves
  BY <1>1, GoOnMoves DEF AddRecord
<1>3. PICK result \in RecordsOf(Kind(l)) : \E S :
        /\ result.key = step.key
        /\ acked' = acked \cup {[list |-> l, key |-> result.key, id |-> result.id]}
        /\ \/ UNCHANGED <<store, stale>> /\ result \in Known(p) /\ Kind(l) = "feedback"
           \/ /\ Save(p, l, S) /\ S = (Known(p) \ Existing(p)) \cup {result}
              /\ OnePerKey(S) /\ Keeps(Known(p), S) /\ S \subseteq RecordsOf(Kind(l))
        /\ IF Kind(l) = "evolution" /\ Existing(p) = {}
           THEN /\ decided' = [decided EXCEPT ![<<l, step.key>>] = step.status]
                /\ result.status = step.status
           ELSE decided' = decided
  BY AddRecordFacts
<1>4. DOMAIN decided' = DOMAIN decided
  BY <1>3
<1>5. result.key \in KeysOf(Kind(l)) /\ result.id \in Ids
  BY <1>1, RecordsAre
<1> DEFINE a == [list |-> l, key |-> result.key, id |-> result.id]
<1>6. /\ acked' = acked \cup {a} /\ a.list = l /\ a.key = result.key /\ a.id = result.id
  BY <1>3
<1> HIDE DEF a
<1>7. CASE UNCHANGED <<store, stale>> /\ result \in Known(p)
  <2>1. l \notin stale => \E r \in store[l] : r.key = result.key /\ r.id = result.id
    BY <1>7, <1>1 DEF Kept, LoadedIsKept, Keeps, AddRecord, Loaded
  <2>2. \A k \in Lists : Keeps(store[k], store[k])
    BY DEF Keeps
  <2>3. Writes
    <3> HIDE DEF l, step
    <3> QED
      BY <1>1, <1>4, <1>5, <1>6, <1>7, <2>1, <2>2 DEF Writes, Types, Kept
  <2> QED
    BY <1>2, <2>3 DEF Fine
<1>8. ASSUME NEW S, Save(p, l, S), S = (Known(p) \ Existing(p)) \cup {result},
             OnePerKey(S), Keeps(Known(p), S), S \subseteq RecordsOf(Kind(l))
      PROVE  Fine
  <2>1. /\ DOMAIN store' = Lists
        /\ \A k \in Lists : store'[k] \subseteq RecordsOf(Kind(k)) /\ OnePerKey(store'[k])
        /\ stale \subseteq stale' /\ stale' \subseteq Lists
        /\ \A k \in Lists \ stale' : Keeps(store[k], store'[k])
        /\ store'[l] = S
    BY <1>1, <1>8, SaveWrites
  <2>2. result \in store'[l]
    BY <1>8, <2>1
  <2>3. Writes
    <3> HIDE DEF l, step
    <3> QED
      BY <1>1, <1>4, <1>5, <1>6, <2>1, <2>2 DEF Writes
  <2> QED
    BY <1>2, <2>3 DEF Fine
<1> QED
  BY <1>3, <1>7, <1>8

LEMMA MarkRecordIsFine ==
  ASSUME Types, Kept, NEW p \in Processes, MarkRecord(p)
  PROVE  Fine
<1> DEFINE step == Head(todo[p])
           l == step.list
<1>1. ~Idle(p) /\ l \in Lists /\ Tail(todo[p]) \in Seq(Steps) /\ UNCHANGED acked
  BY Knows DEF MarkRecord
<1>2. CASE UNCHANGED <<store, decided, stale>> /\ GoOn(p, Tail(todo[p]))
  BY <1>1, <1>2, GoOnMoves, NoWrites DEF Fine
<1>3. ASSUME NEW S, Save(p, l, S), S \subseteq RecordsOf(Kind(l)), OnePerKey(S), Keeps(Known(p), S),
             decided' = IF Kind(l) = "evolution"
                        THEN [decided EXCEPT ![<<l, step.key>>] = step.status]
                        ELSE decided,
             GoOn(p, <<>>)
      PROVE  Fine
  <2>1. /\ DOMAIN store' = Lists
        /\ \A k \in Lists : store'[k] \subseteq RecordsOf(Kind(k)) /\ OnePerKey(store'[k])
        /\ stale \subseteq stale' /\ stale' \subseteq Lists
        /\ \A k \in Lists \ stale' : Keeps(store[k], store'[k])
    BY <1>1, <1>3, SaveWrites
  <2>2. DOMAIN decided' = DOMAIN decided
    BY <1>3
  <2>3. Writes
    <3> HIDE DEF l, step
    <3> QED
      BY <1>1, <2>1, <2>2 DEF Writes
  <2>4. <<>> \in Seq(Steps)
    OBVIOUS
  <2>5. Moves
    BY <1>1, <1>3, <2>4, GoOnMoves
  <2> QED
    BY <2>3, <2>5 DEF Fine
<1> QED
  BY <1>2, <1>3, MarkRecordFacts

LEMMA LookForMissingIsFine ==
  ASSUME Types, Kept, NEW p \in Processes, LookForMissing(p)
  PROVE  Fine
<1> DEFINE missing == {step \in ToSet(todo[p]) : \A r \in Known(p) : r.key # step.key}
           T == {[step EXCEPT !.do = "add"] : step \in missing}
<1>1. /\ ~Idle(p) /\ GoOn(p, SetToSeq(T)) /\ UNCHANGED <<store, acked, decided, stale>>
  BY DEF LookForMissing, Loaded
<1>2. todo[p] \in Seq(Steps) /\ Len(todo[p]) \in Nat /\ DOMAIN todo[p] = 1 .. Len(todo[p])
  BY <1>1, HeadIsStep, LenProperties
<1>3. \A i \in DOMAIN todo[p] : todo[p][i] \in Steps
  BY <1>2, ElementOfSeq
<1>4. missing \subseteq Steps
  BY <1>3 DEF ToSet
<1>5. T \subseteq Steps
  <2> SUFFICES ASSUME NEW s \in Steps PROVE [s EXCEPT !.do = "add"] \in Steps
    BY <1>4
  <2> QED
    BY DEF Steps
<1>6. IsFiniteSet(T)
  <2> DEFINE n == Len(todo[p])
             i0 == {i \in 1 .. n : todo[p][i] \in missing}
             f == [i \in i0 |-> [todo[p][i] EXCEPT !.do = "add"]]
  <2>1. IsFiniteSet(1 .. n)
    BY <1>2, FS_Interval
  <2>2. IsFiniteSet(i0)
    BY <2>1, FS_Subset
  <2>3. \A t \in T : \E i \in i0 : f[i] = t
    BY <1>2 DEF ToSet
  <2>4. \A i \in i0 : f[i] \in T
    OBVIOUS
  <2>5. f \in [i0 -> T]
    <3> HIDE DEF T, missing
    <3> QED
      BY <2>4
  <2> HIDE DEF T, missing, f, i0
  <2> QED
    BY <2>2, <2>3, <2>5, FS_Surjection DEF Surjection
<1>7. SetToSeq(T) \in Seq(Steps)
  <2> HIDE DEF T
  <2> QED
    BY <1>5, <1>6, Listed
<1> HIDE DEF T
<1> QED
  BY <1>1, <1>7, GoOnMoves, NoWrites DEF Fine

LEMMA DieIsFine ==
  ASSUME Types, Kept, NEW p \in Processes, Die(p)
  PROVE  Fine
<1>1. <<>> \in Seq(Steps)
  OBVIOUS
<1> QED
  BY <1>1, GoOnMoves, NoWrites DEF Die, Fine

LEMMA StepKeeps ==
  ASSUME Types, Kept, [Next]_vars
  PROVE  Types' /\ Kept'
<1>1. CASE Next
  <2>1. Fine
    BY <1>1, BeginIsFine, LoadIsFine, AddRecordIsFine, MarkRecordIsFine, LookForMissingIsFine,
       DieIsFine DEF Next
  <2> QED
    BY <2>1, Lasting DEF Fine
<1>2. CASE UNCHANGED vars
  BY <1>2 DEF vars, Types, Kept, LoadedIsKept, Idle, Known, Returned
<1> QED
  BY <1>1, <1>2
-----------------------------------------------------------------------------
LEMMA InitKeeps ==
  ASSUME Init
  PROVE  Types /\ Kept
<1>1. 0 \in 0 .. MaxCommands /\ 0 \in 0 .. MaxSteps
  BY StoresAssumption
<1>2. <<>> \in Seq(Steps)
  OBVIOUS
<1>3. Types
  BY <1>1, <1>2 DEF Init, Types, Idle, Returned
<1>4. Kept
  BY DEF Init, Kept, LoadedIsKept, OnePerKey
<1> QED
  BY <1>3, <1>4

LEMMA AlwaysKept == Spec => [](Types /\ Kept)
<1>1. Init => Types /\ Kept
  BY InitKeeps
<1>2. (Types /\ Kept) /\ [Next]_vars => (Types /\ Kept)'
  BY StepKeeps
<1> QED
  BY <1>1, <1>2, PTL DEF Spec

\* The types of the variables, for any processes and texts.
THEOREM TypeCorrect == Spec => []TypeOK
<1>1. Types => TypeOK
  <2> SUFFICES ASSUME Types PROVE TypeOK
    OBVIOUS
  <2>1. \A p \in Processes : Len(seen[p]) <= 1 /\ (Idle(p) => seen[p] = <<>>)
    <3> SUFFICES ASSUME NEW p \in Processes PROVE Len(seen[p]) <= 1 /\ (Idle(p) => seen[p] = <<>>)
      OBVIOUS
    <3>1. CASE seen[p] = <<>>
      <4>1. Len(seen[p]) = 0
        BY <3>1
      <4> QED
        BY <3>1, <4>1
    <3>2. CASE seen[p] # <<>>
      <4>1. seen[p] = <<Known(p)>> /\ ~Idle(p)
        BY <3>2 DEF Types
      <4>2. Len(<<Known(p)>>) = 1
        OBVIOUS
      <4>3. Len(seen[p]) = 1
        BY <4>1, <4>2
      <4> QED
        BY <4>1, <4>3
    <3> QED
      BY <3>1, <3>2
  <2> QED
    BY <2>1 DEF Types, TypeOK
<1> QED
  BY <1>1, AlwaysKept, PTL

\* For any processes and texts, what the stores have returned stays where a user
\* finds it, unless the list has lost a change to a save of an older one.
THEOREM StoresKeep == Spec => []AcknowledgedStays
<1>1. Kept => AcknowledgedStays
  BY DEF Kept, OnePerKey, AcknowledgedStays
<1> QED
  BY <1>1, AlwaysKept, PTL
-----------------------------------------------------------------------------
\* In a list that has lost no change, a proposal has the status that was decided.
Decided ==
  \A l \in Lists : Kind(l) = "evolution" /\ l \notin stale =>
    \A r \in store[l] : r.status = decided[<<l, r.key>>]

\* An active taste record stays active, but for a rejection.
TasteStays ==
  \A l \in Lists : l \notin stale' /\ Kind(l) # "evolution" =>
    \A r \in TasteContext(store[l]) :
      \/ \E q \in TasteContext(store'[l]) : q.key = r.key
      \/ \E p \in Processes : Loaded(p, "mark") /\ Head(todo[p]).status = "rejected"

LEMMA OnlyTasteIsActive ==
  ASSUME Types, NEW l \in Lists, Kind(l) # "evolution", NEW r \in TasteContext(store[l])
  PROVE  Kind(l) = "taste" /\ r \in store[l] /\ r.status = "active"
<1>1. Kind(l) \in Kinds /\ r \in store[l] /\ r.status = "active" /\ r \in RecordsOf(Kind(l))
  BY KindsOfLists DEF TasteContext, Types
<1>2. r.status \in StatusesOf(Kind(l))
  BY <1>1, RecordsAre
<1> QED
  BY <1>1, <1>2 DEF Kinds, StatusesOf

LEMMA ProposalKeysAre ==
  ASSUME NEW n \in Ids
  PROVE  KeysOf("evolution") \subseteq ProposalKeys
<1> SUFFICES ASSUME NEW key \in KeysOf("evolution") PROVE key \in ProposalKeys
  OBVIOUS
<1> DEFINE r == [key |-> key, id |-> n, status |-> "pending"]
<1>1. r \in Proposals /\ r.key = key
  BY DEF Proposals, KeysOf
<1> QED
  BY <1>1 DEF ProposalKeys

\* What is decided of one proposal leaves the others as they are.
LEMMA DecidedOf ==
  ASSUME Types, NEW n \in Ids, NEW l \in Lists, Kind(l) = "evolution",
         NEW key \in KeysOf("evolution"), NEW status,
         decided' = [decided EXCEPT ![<<l, key>>] = status]
  PROVE  /\ decided'[<<l, key>>] = status
         /\ \A k, x : k # l \/ x # key => decided'[<<k, x>>] = decided[<<k, x>>]
<1>1. <<l, key>> \in DOMAIN decided
  <2>1. l \in {"evolution"} \X Scopes
    BY DEF Lists, Kind
  <2> QED
    BY <2>1, ProposalKeysAre DEF Types
<1>2. \A k, x : k # l \/ x # key => <<k, x>> # <<l, key>>
  OBVIOUS
<1>3. decided'[<<l, key>>] = status
  BY <1>1
<1>4. ASSUME NEW k, NEW x, k # l \/ x # key PROVE decided'[<<k, x>>] = decided[<<k, x>>]
  BY <1>2, <1>4
<1> QED
  BY <1>3, <1>4

LEMMA NothingDecided ==
  ASSUME Types, Decided, UNCHANGED <<store, decided, stale>>
  PROVE  Decided' /\ TasteStays
<1>1. Decided'
  BY DEF Decided
<1>2. TasteStays
  BY DEF TasteStays
<1> QED
  BY <1>1, <1>2

\* A list saved by process p, and the others.
LEMMA SavedDecides ==
  ASSUME Types, Decided, NEW l \in Lists, stale \subseteq stale',
         \A k \in Lists : k # l => store'[k] = store[k],
         \A k, x : k # l => decided'[<<k, x>>] = decided[<<k, x>>],
         l \notin stale' /\ Kind(l) = "evolution" => \A r \in store'[l] : r.status = decided'[<<l, r.key>>],
         l \notin stale' /\ Kind(l) = "taste" =>
           \A r \in store[l] : r.status = "active" =>
             \/ \E q \in store'[l] : q.key = r.key /\ q.status = "active"
             \/ \E p \in Processes : Loaded(p, "mark") /\ Head(todo[p]).status = "rejected"
  PROVE  Decided' /\ TasteStays
<1>1. Decided'
  <2> SUFFICES ASSUME NEW k \in Lists, Kind(k) = "evolution", k \notin stale', NEW r \in store'[k]
               PROVE  r.status = decided'[<<k, r.key>>]
    BY DEF Decided
  <2>1. CASE k = l
    BY <2>1
  <2>2. CASE k # l
    <3>1. r \in store[k] /\ k \notin stale
      BY <2>2
    <3>2. r.status = decided[<<k, r.key>>]
      BY <3>1 DEF Decided
    <3> QED
      BY <2>2, <3>2
  <2> QED
    BY <2>1, <2>2
<1>2. TasteStays
  <2> SUFFICES ASSUME NEW k \in Lists, k \notin stale', Kind(k) # "evolution",
                      NEW r \in TasteContext(store[k])
               PROVE  \/ \E q \in TasteContext(store'[k]) : q.key = r.key
                      \/ \E p \in Processes : Loaded(p, "mark") /\ Head(todo[p]).status = "rejected"
    BY DEF TasteStays
  <2>1. Kind(k) = "taste" /\ r \in store[k] /\ r.status = "active"
    BY OnlyTasteIsActive
  <2>2. CASE k = l
    BY <2>1, <2>2 DEF TasteContext
  <2>3. CASE k # l
    <3>1. r \in TasteContext(store'[k])
      BY <2>3
    <3> QED
      BY <3>1
  <2> QED
    BY <2>2, <2>3
<1> QED
  BY <1>1, <1>2

LEMMA AddDecides ==
  ASSUME Types, Kept, Decided, NEW p \in Processes, AddRecord(p)
  PROVE  Decided' /\ TasteStays
<1> DEFINE step == Head(todo[p])
           l == step.list
           E == Existing(p)
           K == Known(p)
<1>1. /\ ~Idle(p) /\ step \in Steps /\ l \in Lists /\ Kind(l) \in Kinds
      /\ K \subseteq RecordsOf(Kind(l)) /\ number[p] \in Ids
  BY Knows DEF AddRecord
<1>2. \A r : r \in E <=> r \in K /\ r.key = step.key
  BY DEF Existing
<1>3. PICK result \in RecordsOf(Kind(l)) : \E S :
        /\ result.key = step.key
        /\ \/ UNCHANGED <<store, stale>> /\ result \in Known(p) /\ Kind(l) = "feedback"
           \/ /\ Save(p, l, S) /\ S = (Known(p) \ Existing(p)) \cup {result}
              /\ OnePerKey(S) /\ Keeps(Known(p), S) /\ S \subseteq RecordsOf(Kind(l))
        /\ IF Kind(l) = "evolution" /\ Existing(p) = {}
           THEN /\ decided' = [decided EXCEPT ![<<l, step.key>>] = step.status]
                /\ result.status = step.status
           ELSE decided' = decided
        /\ Kind(l) = "evolution" /\ Existing(p) # {} => result \in Known(p)
        /\ Kind(l) = "taste" =>
             \A r \in Existing(p) : r.status = "active" => result.status = "active"
  BY AddRecordFacts
<1>4. CASE UNCHANGED <<store, stale>> /\ Kind(l) = "feedback"
  BY <1>3, <1>4, NothingDecided
<1>5. ASSUME NEW S, Save(p, l, S), S = (Known(p) \ Existing(p)) \cup {result},
             OnePerKey(S), Keeps(Known(p), S), S \subseteq RecordsOf(Kind(l))
      PROVE  Decided' /\ TasteStays
  <2>1. /\ stale \subseteq stale' /\ store'[l] = S
        /\ \A k \in Lists : k # l => store'[k] = store[k]
        /\ l \notin stale' => store[l] = K
    BY <1>1, <1>5, SaveWrites
  <2>2. Kind(l) = "evolution" => step.key \in KeysOf("evolution")
    BY <1>1 DEF Steps
  <2>3. S = (K \ E) \cup {result}
    BY <1>5
  <2>4. /\ result.key = step.key
        /\ Kind(l) = "evolution" /\ E = {} =>
             /\ decided' = [decided EXCEPT ![<<l, step.key>>] = step.status]
             /\ result.status = step.status
        /\ ~(Kind(l) = "evolution" /\ E = {}) => decided' = decided
        /\ Kind(l) = "evolution" /\ E # {} => result \in K
        /\ Kind(l) = "taste" => \A r \in E : r.status = "active" => result.status = "active"
    BY <1>3
  <2> HIDE DEF l, E, K
  <2>5. Kind(l) = "evolution" /\ E = {} =>
          /\ decided'[<<l, step.key>>] = step.status
          /\ \A k, x : k # l \/ x # step.key => decided'[<<k, x>>] = decided[<<k, x>>]
    BY <1>1, <2>2, <2>4, DecidedOf
  <2>6. \A k, x : k # l => decided'[<<k, x>>] = decided[<<k, x>>]
    BY <2>4, <2>5
  <2>7. ASSUME l \notin stale', Kind(l) = "evolution", NEW r \in store'[l]
        PROVE  r.status = decided'[<<l, r.key>>]
    <3>1. store[l] = K /\ l \notin stale
      BY <2>1, <2>7
    <3>2. \A q \in K : q.status = decided[<<l, q.key>>]
      BY <1>1, <2>7, <3>1 DEF Decided
    <3>3. CASE E = {}
      <4>1. CASE r = result
        BY <2>4, <2>5, <2>7, <3>3, <4>1
      <4>2. CASE r # result
        <5>1. r \in K /\ r.key # step.key
          BY <1>2, <2>1, <2>3, <2>7, <3>3, <4>2
        <5> QED
          BY <2>5, <2>7, <3>2, <3>3, <5>1
      <4> QED
        BY <4>1, <4>2
    <3>4. CASE E # {}
      <4>1. r \in K /\ decided' = decided
        BY <2>1, <2>3, <2>4, <2>7, <3>4
      <4> QED
        BY <3>2, <4>1
    <3> QED
      BY <3>3, <3>4
  <2>8. ASSUME l \notin stale', Kind(l) = "taste", NEW r \in store[l], r.status = "active"
        PROVE  \E q \in store'[l] : q.key = r.key /\ q.status = "active"
    <3>1. r \in K /\ result \in store'[l]
      BY <2>1, <2>3, <2>8
    <3>2. CASE r \in E
      BY <1>2, <2>4, <2>8, <3>1, <3>2
    <3>3. CASE r \notin E
      BY <2>1, <2>3, <2>8, <3>1, <3>3
    <3> QED
      BY <3>2, <3>3
  <2> QED
    BY <1>1, <2>1, <2>6, <2>7, <2>8, SavedDecides
<1> QED
  BY <1>3, <1>4, <1>5

LEMMA MarkDecides ==
  ASSUME Types, Kept, Decided, NEW p \in Processes, MarkRecord(p)
  PROVE  Decided' /\ TasteStays
<1> DEFINE step == Head(todo[p])
           l == step.list
           K == Known(p)
<1>1. /\ ~Idle(p) /\ step \in Steps /\ l \in Lists /\ Loaded(p, "mark") /\ step.do = "mark"
      /\ OnePerKey(K) /\ number[p] \in Ids
  BY Knows DEF MarkRecord
<1>2. CASE UNCHANGED <<store, decided, stale>>
  BY <1>2, NothingDecided
<1>3. ASSUME NEW F \in SUBSET K, NEW S,
             F # {}, \A r \in F : r.key = step.key,
             Save(p, l, S), S \subseteq RecordsOf(Kind(l)), OnePerKey(S), Keeps(Known(p), S),
             \A q \in S : (q \in Known(p) /\ q \notin F) \/ (q.key = step.key /\ q.status = step.status),
             \A r \in Known(p) :
               r \in S \/ (r \in F /\ \E q \in S : q.key = r.key /\ q.status = step.status),
             decided' = IF Kind(l) = "evolution"
                        THEN [decided EXCEPT ![<<l, step.key>>] = step.status]
                        ELSE decided
      PROVE  Decided' /\ TasteStays
  <2>1. /\ stale \subseteq stale' /\ store'[l] = S
        /\ \A k \in Lists : k # l => store'[k] = store[k]
        /\ l \notin stale' => store[l] = K
    BY <1>1, <1>3, SaveWrites
  <2>2. /\ Kind(l) = "evolution" => step.key \in KeysOf("evolution")
        /\ Kind(l) = "taste" => step.status \in {"active", "rejected"}
    BY <1>1 DEF Steps
  <2>3. \A q \in K : q \notin F => q.key # step.key
    BY <1>1, <1>3 DEF OnePerKey
  <2>4. /\ \A q \in S : (q \in K /\ q \notin F) \/ (q.key = step.key /\ q.status = step.status)
        /\ \A r \in K : r \in S \/ \E q \in S : q.key = r.key /\ q.status = step.status
        /\ Kind(l) = "evolution" => decided' = [decided EXCEPT ![<<l, step.key>>] = step.status]
        /\ Kind(l) # "evolution" => decided' = decided
    BY <1>3
  <2> HIDE DEF l, K
  <2>5. Kind(l) = "evolution" =>
          /\ decided'[<<l, step.key>>] = step.status
          /\ \A k, x : k # l \/ x # step.key => decided'[<<k, x>>] = decided[<<k, x>>]
    <3>1. /\ l \in Lists /\ number[p] \in Ids
          /\ Kind(l) = "evolution" =>
               /\ step.key \in KeysOf("evolution")
               /\ decided' = [decided EXCEPT ![<<l, step.key>>] = step.status]
      BY <1>1, <2>2, <2>4
    <3> HIDE DEF step
    <3> QED
      BY <3>1, DecidedOf
  <2>6. \A k, x : k # l => decided'[<<k, x>>] = decided[<<k, x>>]
    BY <2>4, <2>5
  <2>7. ASSUME l \notin stale', Kind(l) = "evolution", NEW r \in store'[l]
        PROVE  r.status = decided'[<<l, r.key>>]
    <3>1. store[l] = K /\ l \notin stale
      BY <2>1, <2>7
    <3>2. \A q \in K : q.status = decided[<<l, q.key>>]
      BY <1>1, <2>7, <3>1 DEF Decided
    <3>3. CASE r \in K /\ r \notin F
      BY <2>3, <2>5, <2>7, <3>2, <3>3
    <3>4. CASE r.key = step.key /\ r.status = step.status
      BY <2>5, <2>7, <3>4
    <3> QED
      BY <2>1, <2>4, <2>7, <3>3, <3>4
  <2>8. ASSUME l \notin stale', Kind(l) = "taste", NEW r \in store[l], r.status = "active",
               step.status # "rejected"
        PROVE  \E q \in store'[l] : q.key = r.key /\ q.status = "active"
    BY <2>1, <2>2, <2>4, <2>8
  <2>9. step.status = "rejected" =>
          \E q \in Processes : Loaded(q, "mark") /\ Head(todo[q]).status = "rejected"
    BY <1>1
  <2> QED
    BY <1>1, <2>1, <2>6, <2>7, <2>8, <2>9, SavedDecides
<1>4. ASSUME NEW F \in SUBSET K,
             \E S :
               /\ F # {} /\ \A r \in F : r.key = step.key
               /\ Save(p, l, S) /\ S \subseteq RecordsOf(Kind(l)) /\ OnePerKey(S) /\ Keeps(Known(p), S)
               /\ \A q \in S : (q \in Known(p) /\ q \notin F) \/ (q.key = step.key /\ q.status = step.status)
               /\ \A r \in Known(p) :
                    r \in S \/ (r \in F /\ \E q \in S : q.key = r.key /\ q.status = step.status)
               /\ decided' = IF Kind(l) = "evolution"
                             THEN [decided EXCEPT ![<<l, step.key>>] = step.status]
                             ELSE decided
               /\ GoOn(p, <<>>)
      PROVE  Decided' /\ TasteStays
  BY <1>3, <1>4
<1> QED
  BY <1>2, <1>4, MarkRecordFacts, SMTT(30)

LEMMA StepDecides ==
  ASSUME Types, Kept, Decided, [Next]_vars
  PROVE  Decided' /\ TasteStays
<1>1. ASSUME NEW p \in Processes, Begin(p) \/ Load(p) \/ LookForMissing(p) \/ Die(p)
      PROVE  UNCHANGED <<store, decided, stale>>
  <2>1. CASE Begin(p)
    <3>1. PICK steps \in Seq(Steps) : Run(p, steps)
      BY <2>1, BeginsWithSteps DEF Types
    <3> QED
      BY <3>1 DEF Run
  <2> QED
    BY <1>1, <2>1 DEF Load, LookForMissing, Die
<1>2. UNCHANGED vars => UNCHANGED <<store, decided, stale>>
  BY DEF vars
<1> QED
  BY <1>1, <1>2, AddDecides, MarkDecides, NothingDecided DEF Next

\* For any processes and texts, in a list that has lost no change only users
\* decide what becomes of what was learned.
THEOREM OnlyUsersDecide == Spec => UserDecides
<1> DEFINE Inv == Types /\ Kept /\ Decided
           Step == \A l \in Lists : l \notin stale' =>
                     IF Kind(l) = "evolution"
                     THEN \A r \in store'[l] : r.status = decided'[<<l, r.key>>]
                     ELSE \A r \in TasteContext(store[l]) :
                            \/ \E q \in TasteContext(store'[l]) : q.key = r.key
                            \/ \E p \in Processes : Loaded(p, "mark") /\ Head(todo[p]).status = "rejected"
<1>1. Init => Inv
  <2>1. Init => Decided
    BY DEF Init, Decided
  <2> QED
    BY <2>1, InitKeeps
<1>2. Inv /\ [Next]_vars => Inv' /\ Step
  <2> SUFFICES ASSUME Inv, [Next]_vars PROVE Inv' /\ Step
    OBVIOUS
  <2>1. Inv' /\ TasteStays
    BY StepKeeps, StepDecides
  <2>2. Step
    BY <2>1 DEF Decided, TasteStays
  <2> QED
    BY <2>1, <2>2
<1>3. Inv /\ [Next]_vars => [Step]_vars
  BY <1>2
<1> HIDE DEF Inv, Step
<1>4. Spec => [][Step]_vars
  BY <1>1, <1>2, <1>3, PTL DEF Spec
<1> QED
  BY <1>4 DEF UserDecides, Step
=============================================================================
