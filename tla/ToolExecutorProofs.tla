-------------------------- MODULE ToolExecutorProofs --------------------------
(***************************************************************************)
(* What the tools keep, for every set of files, texts and servers and      *)
(* every bound.  A call can only come while no command runs, and the queue *)
(* holds exactly the proposals whose fate is open: the two facts that make *)
(* the invariants inductive.  That an autonomy mode is kept needs a third: *)
(* under ask, plan and propose a typed action has never started a command. *)
(***************************************************************************)
EXTENDS ToolExecutor, SequenceTheorems, TLAPS

Careful == way = "actions" /\ mode \in {"ask", "plan", "propose"}

\* No command was ever started by a run that may not start one.
Quiet == Careful => ~running /\ leftOver = 0

IInv == TypeOK /\ AppliedOnce /\ NothingUnapproved /\ Quiet

\* What happens to the changes in a step: nothing; one more waits; one leaves
\* the queue, written or lost; all leave it.
Kept == UNCHANGED Changes
Added(p) ==
  /\ p \in Proposals /\ Len(proposed) < MaxProposals
  /\ proposed' = Append(proposed, p)
  /\ queue' = queue \cup {Len(proposed')}
  /\ fate' = Append(fate, "waits")
Taken(id, f) ==
  /\ id \in queue /\ f \in {"applied", "lost"}
  /\ proposed' = proposed /\ queue' = queue \ {id}
  /\ fate' = [fate EXCEPT ![id] = f]
Cleared ==
  /\ proposed' = proposed /\ queue' = {}
  /\ fate' = [id \in DOMAIN fate |-> IF id \in queue THEN "cleared" ELSE fate[id]]
ChangesMove ==
  \/ Kept \/ Cleared
  \/ \E p \in Proposals : Added(p)
  \/ \E id \in queue, f \in {"applied", "lost"} : Taken(id, f)

\* The part of the two invariants that is about the changes.
ChangesOK ==
  /\ proposed \in Seq(Proposals) /\ Len(proposed) <= MaxProposals
  /\ fate \in Seq(Fates) /\ Len(fate) = Len(proposed)
  /\ queue \subseteq 1 .. Len(proposed)
  /\ \A id \in 1 .. Len(fate) : fate[id] # "applied again"
  /\ \A id \in 1 .. Len(fate) : id \in queue <=> fate[id] = "waits"
-----------------------------------------------------------------------------
\* The two ways to change a sequence, element by element.
LEMMA FateExcept ==
  ASSUME NEW S, NEW s \in Seq(S), NEW i \in 1 .. Len(s), NEW f \in S
  PROVE  /\ [s EXCEPT ![i] = f] \in Seq(S)
         /\ Len([s EXCEPT ![i] = f]) = Len(s)
         /\ \A j \in 1 .. Len(s) : [s EXCEPT ![i] = f][j] = IF j = i THEN f ELSE s[j]
<1> QED  BY ExceptSeq

LEMMA OneMore ==
  ASSUME NEW S, NEW s \in Seq(S), NEW e \in S, NEW t, t = Append(s, e)
  PROVE  /\ t \in Seq(S) /\ Len(t) = Len(s) + 1 /\ Len(s) \in Nat
         /\ \A j \in 1 .. Len(s) : t[j] = s[j]
         /\ t[Len(s) + 1] = e
<1> QED  BY AppendProperties, LenProperties

LEMMA ChangesOKMeaning ==
  ASSUME TypeOK, AppliedOnce
  PROVE  ChangesOK
<1>1. DOMAIN proposed = 1 .. Len(proposed) /\ DOMAIN fate = 1 .. Len(fate)
  BY LenProperties DEF TypeOK
<1> QED  BY <1>1 DEF TypeOK, AppliedOnce, ChangesOK

\* However the changes move, the queue holds exactly those whose fate is open.
LEMMA ChangesStayOK ==
  ASSUME ChangesOK, ChangesMove
  PROVE  ChangesOK'
<1> USE ToolAssumption
<1>1. CASE Kept
  BY <1>1 DEF Kept, Changes, ChangesOK
<1>2. CASE Cleared
  <2>1. fate \in [1 .. Len(fate) -> Fates] /\ Len(fate) \in Nat
    BY LenProperties, ElementOfSeq DEF ChangesOK
  <2>2. fate' \in [1 .. Len(fate) -> Fates]
    BY <1>2, <2>1 DEF Cleared, Fates
  <2>3. fate' \in Seq(Fates) /\ Len(fate') = Len(fate)
    BY <2>1, <2>2, SeqDef, LenProperties
  <2>4. \A id \in 1 .. Len(fate) :
          fate'[id] = IF id \in queue THEN "cleared" ELSE fate[id]
    BY <1>2, <2>1 DEF Cleared
  <2>5. /\ proposed' = proposed /\ queue' = {}
        /\ \A id \in 1 .. Len(fate) : id \in queue <=> fate[id] = "waits"
        /\ \A id \in 1 .. Len(fate) : fate[id] # "applied again"
    BY <1>2 DEF Cleared, ChangesOK
  <2>6. \A id \in 1 .. Len(fate) : fate'[id] # "waits" /\ fate'[id] # "applied again"
    BY <2>4, <2>5
  <2>7. /\ proposed' \in Seq(Proposals) /\ Len(proposed') <= MaxProposals
        /\ Len(fate') = Len(proposed')
    BY <2>3, <2>5 DEF ChangesOK
  <2> QED  BY <2>3, <2>5, <2>6, <2>7 DEF ChangesOK
<1>3. ASSUME NEW p \in Proposals, Added(p) PROVE ChangesOK'
  <2>1. /\ proposed' \in Seq(Proposals) /\ Len(proposed') = Len(proposed) + 1
        /\ Len(proposed) \in Nat
    <3>1. proposed \in Seq(Proposals) /\ proposed' = Append(proposed, p)
      BY <1>3 DEF Added, ChangesOK
    <3> QED  BY <3>1, OneMore
  <2>2. "waits" \in Fates
    BY DEF Fates
  <2>3. /\ fate' \in Seq(Fates) /\ Len(fate') = Len(fate) + 1
        /\ \A id \in 1 .. Len(fate) : fate'[id] = fate[id]
        /\ fate'[Len(fate) + 1] = "waits"
    <3>1. fate \in Seq(Fates) /\ fate' = Append(fate, "waits")
      BY <1>3 DEF Added, ChangesOK
    <3> HIDE DEF Fates
    <3> QED  BY <3>1, <2>2, OneMore
  <2>4. queue' = queue \cup {Len(fate) + 1}
    BY <1>3, <2>1 DEF Added, ChangesOK
  <2>5. /\ Len(proposed) < MaxProposals /\ Len(fate) = Len(proposed)
        /\ queue \subseteq 1 .. Len(proposed)
        /\ \A id \in 1 .. Len(fate) : id \in queue <=> fate[id] = "waits"
        /\ \A id \in 1 .. Len(fate) : fate[id] # "applied again"
    BY <1>3 DEF Added, ChangesOK
  <2>6. \A n \in Nat : n < MaxProposals => n + 1 <= MaxProposals
    OBVIOUS
  <2>7. Len(proposed') <= MaxProposals /\ Len(fate') = Len(proposed')
    BY <2>1, <2>3, <2>5, <2>6, Zenon
  <2>8. \A n \in Nat :
          /\ 1 .. n \subseteq 1 .. (n + 1) /\ n + 1 \in 1 .. (n + 1)
          /\ \A i \in 1 .. (n + 1) : i \in 1 .. n \/ i = n + 1
          /\ n + 1 \notin 1 .. n
    OBVIOUS
  <2>9. queue' \subseteq 1 .. Len(proposed')
    <3>1. /\ Len(fate) \in Nat /\ queue \subseteq 1 .. Len(fate)
          /\ Len(proposed') = Len(fate) + 1
      BY <2>1, <2>5
    <3>2. /\ 1 .. Len(fate) \subseteq 1 .. (Len(fate) + 1)
          /\ Len(fate) + 1 \in 1 .. (Len(fate) + 1)
      BY <3>1, <2>8, Zenon
    <3> QED  BY <3>1, <3>2, <2>4
  <2>10. \A id \in 1 .. Len(fate') :
          fate'[id] # "applied again" /\ (id \in queue' <=> fate'[id] = "waits")
    <3>1. Len(fate) \in Nat /\ Len(fate') = Len(fate) + 1
      BY <2>1, <2>3, <2>5
    <3>2. Len(fate) + 1 \notin queue
      BY <2>1, <2>5, <2>8, Zenon
    <3> SUFFICES ASSUME NEW id \in 1 .. Len(fate')
                 PROVE  fate'[id] # "applied again" /\ (id \in queue' <=> fate'[id] = "waits")
      OBVIOUS
    <3>3. CASE id \in 1 .. Len(fate)
      <4>1. id # Len(fate) + 1
        BY <3>1, <3>3, <2>8, Zenon
      <4> QED  BY <4>1, <3>3, <2>3, <2>4, <2>5, Zenon
    <3>4. CASE id = Len(fate) + 1
      <4>1. fate'[id] = "waits" /\ id \in queue'
        BY <3>4, <2>3, <2>4, Zenon
      <4> QED  BY <4>1
    <3> QED  BY <3>1, <3>3, <3>4, <2>8, Zenon
  <2> QED  BY <2>1, <2>3, <2>7, <2>9, <2>10 DEF ChangesOK
<1>4. ASSUME NEW id \in queue, NEW f \in {"applied", "lost"}, Taken(id, f)
      PROVE  ChangesOK'
  <2>1. id \in 1 .. Len(fate) /\ f \in Fates
    BY DEF ChangesOK, Fates
  <2>2. /\ fate' \in Seq(Fates) /\ Len(fate') = Len(fate)
        /\ \A i \in 1 .. Len(fate) : fate'[i] = IF i = id THEN f ELSE fate[i]
    <3>1. fate \in Seq(Fates) /\ fate' = [fate EXCEPT ![id] = f]
      BY <1>4 DEF Taken, ChangesOK
    <3> QED  BY <3>1, <2>1, FateExcept
  <2> QED  BY <1>4, <2>2 DEF Taken, ChangesOK
<1> QED  BY <1>1, <1>2, <1>3, <1>4 DEF ChangesMove

\* Every step moves the changes in one of these ways.
LEMMA StepMovesChanges ==
  ASSUME ChangesOK, Next
  PROVE  ChangesMove
<1>1. ASSUME NEW approved \in BOOLEAN, Propose(approved) PROVE ChangesMove
  <2>1. CASE UNCHANGED Changes
    BY <2>1 DEF ChangesMove, Kept
  <2>2. CASE ~UNCHANGED Changes
    <3>1. PICK path \in Paths, content \in Texts :
            proposed' = Append(proposed, [path |-> path, content |-> content])
      BY <1>1, <2>2 DEF Propose
    <3>2. [path |-> path, content |-> content] \in Proposals
      BY DEF Proposals
    <3>3. Added([path |-> path, content |-> content])
      BY <1>1, <2>2, <3>1, <3>2 DEF Propose, Added
    <3> QED  BY <3>2, <3>3 DEF ChangesMove
  <2> QED  BY <2>1, <2>2
<1>2. ASSUME NEW approved \in BOOLEAN, ApplyPending(approved) PROVE ChangesMove
  <2>1. CASE UNCHANGED Changes
    BY <2>1 DEF ChangesMove, Kept
  <2>2. CASE ~UNCHANGED Changes
    <3>1. PICK id \in queue :
            /\ TakeFromQueue(id)
            /\ fate' = [fate EXCEPT ![id] =
                 IF result' = "error" THEN "lost"
                 ELSE IF @ = "waits" THEN "applied" ELSE "applied again"]
      BY <1>2, <2>2 DEF ApplyPending, Changes
    <3>2. fate[id] = "waits"
      BY DEF ChangesOK
    <3>3. Taken(id, IF result' = "error" THEN "lost" ELSE "applied")
      BY <1>2, <3>1, <3>2 DEF ApplyPending, Taken, TakeFromQueue
    <3> QED  BY <3>3 DEF ChangesMove
  <2> QED  BY <2>1, <2>2
<1>3. ASSUME NEW approved \in BOOLEAN, ClearPending(approved) PROVE ChangesMove
  BY <1>3 DEF ClearPending, ChangesMove, Cleared
<1>4. ASSUME NEW approved \in BOOLEAN, NEW kind \in Kinds,
             Refuse(kind, approved) \/ Look(kind, approved)
      PROVE  ChangesMove
  BY <1>4 DEF Refuse, Look, ChangesMove, Kept
<1>5. ASSUME NEW approved \in BOOLEAN,
             \/ WriteFile(approved) \/ ApplyPatch(approved)
             \/ StartCommand(approved) \/ CallServer(approved)
      PROVE  ChangesMove
  BY <1>5 DEF WriteFile, ApplyPatch, StartCommand, CallServer, ChangesMove, Kept
<1>6. ASSUME CommandWrites \/ CommandEnds \/ CutOff \/ LeftOverEnds \/ Edit
      PROVE  ChangesMove
  BY <1>6 DEF CommandWrites, CommandEnds, CutOff, LeftOverEnds, Edit, ChangesMove,
       Kept, Changes
<1> QED  BY <1>1, <1>2, <1>3, <1>4, <1>5, <1>6 DEF Next, Tool
-----------------------------------------------------------------------------
\* A run may call what it calls only with approval, where that is asked.
LEMMA StepKeepsApproval ==
  ASSUME IInv, Next
  PROVE  /\ (unapproved \subseteq HighKinds \cup Servers)'
         /\ NothingUnapproved'
<1> USE DEF IInv, TypeOK, NothingUnapproved
<1>1. ASSUME NEW approved \in BOOLEAN, WriteFile(approved)
      PROVE  /\ way' = way
             /\ unapproved' \subseteq unapproved \cup HighKinds
             /\ way = "actions" => unapproved' = unapproved
  BY <1>1 DEF WriteFile, Begins, Passes, ConfirmKinds, Put, Acts, Returns, Setting,
       HighKinds
<1>2. ASSUME NEW approved \in BOOLEAN, ApplyPending(approved)
      PROVE  /\ way' = way
             /\ unapproved' \subseteq unapproved \cup HighKinds
             /\ way = "actions" => unapproved' = unapproved
  BY <1>2 DEF ApplyPending, Begins, Passes, ConfirmKinds, Put, Acts, Returns, Setting,
       HighKinds
<1>3. ASSUME NEW approved \in BOOLEAN, CallServer(approved)
      PROVE  /\ way' = way
             /\ \/ unapproved' = unapproved
                \/ \E server \in TrustedServers : unapproved' = unapproved \cup {server}
  BY <1>3 DEF CallServer, Acts, Returns, Setting
<1>4. ASSUME NEW approved \in BOOLEAN, NEW kind \in Kinds,
             Refuse(kind, approved) \/ Look(kind, approved)
      PROVE  way' = way /\ unapproved' = unapproved
  BY <1>4 DEF Refuse, Look, Returns, Setting
<1>5. ASSUME NEW approved \in BOOLEAN,
             \/ ApplyPatch(approved) \/ Propose(approved)
             \/ ClearPending(approved) \/ StartCommand(approved)
      PROVE  way' = way /\ unapproved' = unapproved
  BY <1>5 DEF ApplyPatch, Propose, ClearPending, StartCommand, Returns, Setting
<1>6. ASSUME CommandWrites \/ CommandEnds \/ CutOff \/ LeftOverEnds \/ Edit
      PROVE  way' = way /\ unapproved' = unapproved
  BY <1>6 DEF CommandWrites, CommandEnds, CutOff, LeftOverEnds, Edit, Returns, Setting
<1>7. TrustedServers \subseteq Servers
  BY ToolAssumption
<1>8. CASE \E approved \in BOOLEAN : WriteFile(approved) \/ ApplyPending(approved)
  BY <1>8, <1>1, <1>2
<1>9. CASE \E approved \in BOOLEAN : CallServer(approved)
  BY <1>9, <1>3, <1>7
<1>10. CASE way' = way /\ unapproved' = unapproved
  BY <1>10
<1> QED  BY <1>4, <1>5, <1>6, <1>8, <1>9, <1>10 DEF Next, Tool

\* Commands: one at a time, the bound on what is left over, and none at all
\* under a mode that may not start one.
LEMMA StepKeepsCommands ==
  ASSUME IInv, Next
  PROVE  /\ (running \in BOOLEAN /\ leftOver \in 0 .. MaxLeftOver)'
         /\ (result \in Results /\ (running <=> result = "running"))'
         /\ (mode \in Modes /\ way \in {"actions", "blocks"})'
         /\ (by \in {"nobody", "tool", "command", "user"})'
         /\ Quiet'
<1> USE ToolAssumption DEF IInv, TypeOK, Quiet, Careful, Returns, Setting, Commands,
      Results
<1>1. ASSUME NEW approved \in BOOLEAN, StartCommand(approved)
      PROVE  /\ running' \in BOOLEAN /\ leftOver' = leftOver
             /\ result' \in {"running", "error"} /\ (running' <=> result' = "running")
             /\ by' = "tool" /\ mode' = mode /\ way' = way /\ ~Careful
  BY <1>1 DEF StartCommand, Begins, Passes, Allowed, ReadKinds, CompletionKinds
<1>2. ASSUME NEW approved \in BOOLEAN, NEW kind \in Kinds,
             Refuse(kind, approved) \/ Look(kind, approved)
      PROVE  /\ ~running /\ UNCHANGED Commands /\ UNCHANGED Setting /\ by' = "tool"
             /\ result' \in {"ok", "error", "denied", "needs_confirmation"}
  BY <1>2 DEF Refuse, Look, MayCall, Begins
<1>3. ASSUME NEW approved \in BOOLEAN,
             \/ WriteFile(approved) \/ ApplyPatch(approved) \/ ApplyPending(approved)
      PROVE  /\ ~running /\ UNCHANGED Commands /\ UNCHANGED Setting /\ by' = "tool"
             /\ result' \in {"ok", "error"}
  BY <1>3 DEF WriteFile, ApplyPatch, ApplyPending, Put, Begins, MayCall
<1>4. ASSUME NEW approved \in BOOLEAN,
             \/ Propose(approved) \/ ClearPending(approved) \/ CallServer(approved)
      PROVE  /\ ~running /\ UNCHANGED Commands /\ UNCHANGED Setting /\ by' = "tool"
             /\ result' \in {"ok", "error", "needs_confirmation"}
  BY <1>4 DEF Propose, ClearPending, CallServer, Begins, MayCall
<1>5. ASSUME CommandEnds \/ CutOff
      PROVE  /\ running /\ running' = FALSE /\ UNCHANGED Setting /\ by' = "tool"
             /\ leftOver' \in 0 .. MaxLeftOver
             /\ result' \in {"ok", "error", "timeout"}
  BY <1>5 DEF CommandEnds, CutOff, LeavesBehind
<1>6. ASSUME CommandWrites \/ Edit
      PROVE  /\ UNCHANGED <<Commands, Setting, result>> /\ by' \in {"command", "user"}
  BY <1>6 DEF CommandWrites, Edit
<1>7. ASSUME LeftOverEnds
      PROVE  /\ leftOver > 0 /\ leftOver' \in 0 .. MaxLeftOver
             /\ UNCHANGED <<running, Setting, result>> /\ by' = "command"
  BY <1>7 DEF LeftOverEnds
<1>8. CASE \E approved \in BOOLEAN : StartCommand(approved)
  BY <1>8, <1>1
<1>9. CASE /\ ~running /\ UNCHANGED Commands /\ UNCHANGED Setting /\ by' = "tool"
           /\ result' \in {"ok", "error", "denied", "needs_confirmation"}
  BY <1>9
<1>10. CASE CommandEnds \/ CutOff
  BY <1>10, <1>5
<1>11. CASE CommandWrites \/ Edit
  BY <1>11, <1>6
<1>12. CASE LeftOverEnds
  BY <1>12, <1>7
<1> QED  BY <1>2, <1>3, <1>4, <1>8, <1>9, <1>10, <1>11, <1>12 DEF Next, Tool

\* A file holds one of the texts, or the torn rest of a write.
LEMMA StepKeepsText ==
  ASSUME IInv, Next
  PROVE  (text \in [Paths -> Texts \cup {Torn}])'
<1> USE DEF IInv, TypeOK
<1>1. ASSUME NEW path \in Paths, NEW content \in Texts \cup {Torn},
             text' = [text EXCEPT ![path] = content]
      PROVE  text' \in [Paths -> Texts \cup {Torn}]
  BY <1>1
<1>2. ASSUME NEW path \in Paths, NEW content \in Texts, NEW kind, NEW approved,
             Put(path, content, kind, approved)
      PROVE  text' \in [Paths -> Texts \cup {Torn}]
  BY <1>1, <1>2 DEF Put
<1>3. ASSUME NEW approved \in BOOLEAN, WriteFile(approved) \/ ApplyPatch(approved)
      PROVE  text' \in [Paths -> Texts \cup {Torn}]
  BY <1>1, <1>2, <1>3 DEF WriteFile, ApplyPatch
<1>4. ASSUME NEW approved \in BOOLEAN, ApplyPending(approved)
      PROVE  text' \in [Paths -> Texts \cup {Torn}]
  <2>1. CASE text' = text
    BY <2>1
  <2>2. CASE text' # text
    <3>1. PICK id \in queue :
            Put(proposed[id].path, proposed[id].content, "apply_pending_change", approved)
      BY <1>4, <2>2 DEF ApplyPending
    <3>2. ChangesOK
      BY ChangesOKMeaning
    <3>3. proposed[id] \in Proposals
      <4>1. id \in 1 .. Len(proposed) /\ proposed \in Seq(Proposals)
        BY <3>2 DEF ChangesOK
      <4> QED  BY <4>1, ElementOfSeq
    <3>4. proposed[id].path \in Paths /\ proposed[id].content \in Texts
      BY <3>3 DEF Proposals
    <3> QED  BY <1>2, <3>1, <3>4
  <2> QED  BY <2>1, <2>2
<1>5. ASSUME NEW approved \in BOOLEAN, NEW kind \in Kinds,
             Refuse(kind, approved) \/ Look(kind, approved)
      PROVE  text' = text
  BY <1>5 DEF Refuse, Look
<1>6. ASSUME NEW approved \in BOOLEAN,
             \/ Propose(approved) \/ ClearPending(approved)
             \/ StartCommand(approved) \/ CallServer(approved)
      PROVE  text' = text
  BY <1>6 DEF Propose, ClearPending, StartCommand, CallServer
<1>7. ASSUME CommandEnds \/ CutOff \/ LeftOverEnds
      PROVE  text' = text
  BY <1>7 DEF CommandEnds, CutOff, LeftOverEnds
<1>8. ASSUME CommandWrites \/ Edit
      PROVE  text' \in [Paths -> Texts \cup {Torn}]
  BY <1>1, <1>8 DEF CommandWrites, Edit
<1>9. CASE text' = text
  BY <1>9
<1> QED  BY <1>3, <1>4, <1>5, <1>6, <1>7, <1>8, <1>9 DEF Next, Tool
-----------------------------------------------------------------------------
LEMMA InitInvariant ==
  ASSUME Init
  PROVE  IInv
<1> USE ToolAssumption DEF Init
<1>1. proposed \in Seq(Proposals) /\ fate \in Seq(Fates)
  BY EmptySeq
<1>2. DOMAIN proposed = {} /\ DOMAIN fate = {} /\ Len(proposed) = 0 /\ Len(fate) = 0
  OBVIOUS
<1>3. /\ queue \subseteq DOMAIN proposed /\ Len(proposed) <= MaxProposals
      /\ Len(fate) = Len(proposed) /\ leftOver \in 0 .. MaxLeftOver
  BY <1>2
<1>4. /\ mode \in Modes /\ way \in {"actions", "blocks"}
      /\ text \in [Paths -> Texts \cup {Torn}] /\ running \in BOOLEAN
      /\ unapproved \subseteq HighKinds \cup Servers
      /\ by \in {"nobody", "tool", "command", "user"}
  OBVIOUS
<1>5. result \in Results /\ (running <=> result = "running")
  BY DEF Results
<1>6. TypeOK
  BY <1>1, <1>3, <1>4, <1>5 DEF TypeOK
<1>7. AppliedOnce /\ NothingUnapproved /\ Quiet
  BY <1>2 DEF AppliedOnce, NothingUnapproved, Quiet
<1> QED  BY <1>6, <1>7 DEF IInv

LEMMA StepInvariant ==
  ASSUME IInv, [Next]_vars
  PROVE  IInv'
<1>1. CASE Next
  <2>1. ChangesOK'
    BY <1>1, ChangesOKMeaning, StepMovesChanges, ChangesStayOK DEF IInv
  <2>2. (DOMAIN proposed = 1 .. Len(proposed))' /\ (DOMAIN fate = 1 .. Len(fate))'
    BY <2>1, LenProperties DEF ChangesOK
  <2>3. AppliedOnce'
    BY <2>1, <2>2 DEF ChangesOK, AppliedOnce
  <2>4. TypeOK'
    BY <1>1, <2>1, <2>2, StepKeepsApproval, StepKeepsCommands, StepKeepsText
       DEF ChangesOK, TypeOK
  <2> QED  BY <1>1, <2>3, <2>4, StepKeepsApproval, StepKeepsCommands DEF IInv
<1>2. CASE UNCHANGED vars
  BY <1>2 DEF vars, IInv, TypeOK, AppliedOnce, NothingUnapproved, Quiet, Careful
<1> QED  BY <1>1, <1>2

LEMMA Inductive == Spec => []IInv
<1> QED  BY InitInvariant, StepInvariant, PTL DEF Spec

\* The values of every variable, the bounds on what waits and on what is left
\* running, and that a result is pending exactly while a command runs.
THEOREM TypeCorrect == Spec => []TypeOK
<1>1. IInv => TypeOK
  BY DEF IInv
<1> QED  BY <1>1, Inductive, PTL

\* No proposal is written twice or after it was cleared, and the queue holds
\* exactly the proposals nothing has become of yet.
THEOREM ProposalsAreAppliedOnce == Spec => []AppliedOnce
<1>1. IInv => AppliedOnce
  BY DEF IInv
<1> QED  BY <1>1, Inductive, PTL

\* A typed action replaces no file and calls no server that is not trusted
\* without approval.
THEOREM ApprovalIsAsked == Spec => []NothingUnapproved
<1>1. IInv => NothingUnapproved
  BY DEF IInv
<1> QED  BY <1>1, Inductive, PTL
-----------------------------------------------------------------------------
\* Under a careful mode every step but the user's leaves the files alone, and
\* under ask and plan the queue and the servers too.
LEMMA CarefulStep ==
  ASSUME IInv, Next, Careful, by' # "user"
  PROVE  /\ text' = text
         /\ mode \in {"ask", "plan"} => queue' = queue /\ unapproved' = unapproved
<1> USE DEF Careful, Allowed, Passes, Begins, ReadKinds, CompletionKinds
<1>1. ASSUME NEW approved \in BOOLEAN,
             \/ WriteFile(approved) \/ ApplyPatch(approved)
             \/ ApplyPending(approved) \/ ClearPending(approved)
             \/ StartCommand(approved) \/ CallServer(approved)
      PROVE  FALSE
  BY <1>1 DEF WriteFile, ApplyPatch, ApplyPending, ClearPending, StartCommand, CallServer
<1>2. ASSUME NEW approved \in BOOLEAN, Propose(approved)
      PROVE  text' = text /\ mode = "propose"
  BY <1>2 DEF Propose
<1>3. ASSUME NEW approved \in BOOLEAN, NEW kind \in Kinds,
             Refuse(kind, approved) \/ Look(kind, approved)
      PROVE  text' = text /\ queue' = queue /\ unapproved' = unapproved
  BY <1>3 DEF Refuse, Look, Changes
<1>4. ~running /\ leftOver = 0
  BY DEF IInv, Quiet
<1>5. ASSUME CommandWrites \/ CommandEnds \/ CutOff \/ LeftOverEnds \/ Edit
      PROVE  FALSE
  BY <1>4, <1>5 DEF CommandWrites, CommandEnds, CutOff, LeftOverEnds, Edit
<1> QED  BY <1>1, <1>2, <1>3, <1>5 DEF Next, Tool

\* The autonomy of a run is kept by its typed actions: ask, plan and propose
\* change no file, ask and plan propose nothing and call no server.
THEOREM ModesAreKept == Spec => ModeIsKept
<1>1. ASSUME IInv, [Next]_vars
      PROVE  [way = "actions" /\ by' # "user" =>
                /\ mode \in {"ask", "plan", "propose"} => text' = text
                /\ mode \in {"ask", "plan"} =>
                     queue' = queue /\ unapproved' = unapproved]_vars
  BY <1>1, CarefulStep DEF Careful, vars
<1> QED  BY <1>1, Inductive, PTL DEF Spec, ModeIsKept
=============================================================================
