--------------------------- MODULE MemoryPagerProofs ---------------------------
(***************************************************************************)
(* What the tables of the memory hold of each run, for any runs, threads   *)
(* and limits.  The history of a run is at all times the last of the steps *)
(* it has produced; the steps before are in its summaries, and the recall  *)
(* table has its steps up to the one to be appended next.  Neither a page  *)
(* in between nor another run changes that.                                *)
(***************************************************************************)
EXTENDS MemoryPager, SequenceTheorems, FiniteSetTheorems, WellFoundedInduction, TLAPS

Labels == {"hydrate", "node", "append", "page", "archive", "cut", "ended", "dead"}
Over == {"ended", "dead"}

\* The types, of each variable as a whole.
Types ==
  /\ thread \in [Runs -> Threads] /\ pc \in [Runs -> Labels]
  /\ produced \in [Runs -> Seq(StepSizes)] /\ history \in [Runs -> Seq(Nat)]
  /\ count \in [Runs -> Nat] /\ next \in [Runs -> Nat] /\ again \in [Runs -> BOOLEAN]
  /\ shown \in [Runs -> [recall : SUBSET Nat, archive : SUBSET Nat]]
  /\ recall \in Seq([run : SUBSET Runs, thread : Threads, step : Nat])
  /\ archive \in Seq([kind : {"episode"} \union OtherKinds, run : SUBSET Runs,
                      thread : Threads, steps : SUBSET Nat])

\* What a run holds: the last of the n steps it has produced, as many as are
\* always kept if there were that many; of these, all have been counted but
\* while they are appended.
Holds(label, n, h, c, x) ==
  /\ label \notin Over =>
       /\ Len(h) <= n /\ (Len(h) = n \/ Len(h) >= PreserveRecentSteps)
       /\ \A i \in 1..Len(h) : h[i] = n - Len(h) + i
  /\ label \in Over => h = <<>>
  /\ label = "hydrate" => n = 0
  /\ label = "append" => x \in 1..(Len(h) + 1) /\ c <= Len(h)
  /\ label # "append" => c = Len(h)
  /\ label \in {"archive", "cut"} => Len(h) > PreserveRecentSteps
Holding(r) == Holds(pc[r], Len(produced[r]), history[r], count[r], next[r])

\* A node finds a short history.
Short(label, sizes, h) ==
  label = "node" => (TokenSum(sizes, h) > MaxHistoryTokens => Len(h) <= PreserveRecentSteps)
Shortened(r) == Short(pc[r], produced[r], history[r])

Inv == Types /\ \A r \in Runs : Holding(r) /\ Shortened(r)
-----------------------------------------------------------------------------
\* The steps of a run that the recall table has.
Recalled(label, n, h, x) ==
  CASE label \in {"node", "page", "archive", "cut", "ended", "hydrate"} -> {n}
    [] label = "append" -> {n - Len(h) + x - 1}
    [] OTHER -> Nat
Ordered(rows, mine) ==
  /\ IsFiniteSet(mine) /\ {rows[i].step : i \in mine} = 1 .. Cardinality(mine)
  /\ \A i, j \in mine : i < j => rows[i].step < rows[j].step
RecallOf(r) ==
  /\ Ordered(recall, RowsOf(r))
  /\ Cardinality(RowsOf(r)) \in Recalled(pc[r], Len(produced[r]), history[r], next[r])

\* The steps a run has summaries of.
Summed(label, n, h) ==
  CASE label \in Over -> 0
    [] label = "cut" -> n - PreserveRecentSteps
    [] OTHER -> n - Len(h)
Apart(rows, mine) ==
  \A i \in mine :
    /\ rows[i].steps # {}
    /\ \A j \in mine \ {i} : rows[i].steps \intersect rows[j].steps = {}
AllSteps(rows, mine) == UNION {rows[i].steps : i \in mine}
SummariesOf(r) ==
  /\ Apart(archive, ArchivesOf(r))
  /\ pc[r] \notin Over =>
       AllSteps(archive, ArchivesOf(r)) = 1 .. Summed(pc[r], Len(produced[r]), history[r])
-----------------------------------------------------------------------------
\* A run whose state stays holds what it did.
Stays(q) ==
  /\ pc'[q] = pc[q] /\ produced'[q] = produced[q] /\ history'[q] = history[q]
  /\ count'[q] = count[q] /\ next'[q] = next[q] /\ thread'[q] = thread[q]

LEMMA StaysHolding ==
  ASSUME NEW q, Stays(q), Holding(q), Shortened(q)
  PROVE  Holding(q)' /\ Shortened(q)'
BY DEF Stays, Holding, Shortened

\* What is known of a run.
LEMMA RunTypes ==
  ASSUME Inv, NEW r \in Runs
  PROVE  /\ pc[r] \in Labels /\ produced[r] \in Seq(StepSizes) /\ Len(produced[r]) \in Nat
         /\ history[r] \in Seq(Nat) /\ Len(history[r]) \in Nat
         /\ count[r] \in Nat /\ next[r] \in Nat /\ again[r] \in BOOLEAN /\ thread[r] \in Threads
         /\ PreserveRecentSteps \in Nat /\ PreserveRecentSteps >= 1
         /\ Holds(pc[r], Len(produced[r]), history[r], count[r], next[r])
<1>1. /\ pc[r] \in Labels /\ produced[r] \in Seq(StepSizes) /\ history[r] \in Seq(Nat)
      /\ count[r] \in Nat /\ next[r] \in Nat /\ again[r] \in BOOLEAN /\ thread[r] \in Threads
  BY DEF Inv, Types
<1>2. Len(produced[r]) \in Nat /\ Len(history[r]) \in Nat
  BY <1>1, LenProperties
<1>3. PreserveRecentSteps \in Nat /\ PreserveRecentSteps >= 1
  BY PagerAssumption
<1> QED  BY <1>1, <1>2, <1>3 DEF Inv, Holding

LEMMA InitInv == Init => Inv
<1> SUFFICES ASSUME Init PROVE Inv
  OBVIOUS
<1>1. Types
  <2>1. recall = <<>> /\ archive = <<>>
    BY DEF Init
  <2>2. NothingShown \in [recall : SUBSET Nat, archive : SUBSET Nat]
    BY DEF NothingShown
  <2> QED  BY <2>1, <2>2, EmptySeq DEF Init, Types, Labels
<1>2. ASSUME NEW r \in Runs PROVE Holding(r) /\ Shortened(r)
  <2>1. /\ pc[r] \in {"node", "hydrate"} /\ produced[r] = <<>> /\ history[r] = <<>>
        /\ count[r] = 0 /\ next[r] = 1
    BY DEF Init
  <2>2. Len(history[r]) = 0 /\ Len(produced[r]) = 0
    BY <2>1
  <2>3. PreserveRecentSteps \in Nat
    BY PagerAssumption
  <2> QED  BY <2>1, <2>2, <2>3 DEF Holding, Holds, Shortened, Short, Over
<1> QED  BY <1>1, <1>2 DEF Inv
-----------------------------------------------------------------------------
\* What a run holds along its way: it begins with nothing ...
LEMMA HoldsAtStart ==
  ASSUME NEW n \in Nat, NEW h \in Seq(Nat), NEW c, NEW x, Holds("hydrate", n, h, c, x)
  PROVE  Holds("node", n, h, c, x) /\ Len(h) = 0 /\ n = 0 /\ PreserveRecentSteps \in Nat
<1>1. Len(h) \in Nat /\ PreserveRecentSteps \in Nat
  BY LenProperties, PagerAssumption
<1>2. Len(h) <= n /\ n = 0
  BY DEF Holds, Over
<1>3. Len(h) = 0
  BY <1>1, <1>2
<1> QED  BY <1>1, <1>2, <1>3 DEF Holds, Over

\* ... a node adds steps ...
LEMMA HoldsMore ==
  ASSUME NEW n \in Nat, NEW h \in Seq(Nat), NEW c, NEW x, Holds("node", n, h, c, x),
         NEW k \in Nat, NEW more \in Seq(Nat), Len(more) = k, \A i \in 1..k : more[i] = n + i
  PROVE  /\ h \o more \in Seq(Nat) /\ Len(h \o more) = Len(h) + k /\ c = Len(h)
         /\ Holds("append", n + k, h \o more, c, Len(h) + 1)
<1>1. Len(h) \in Nat /\ PreserveRecentSteps \in Nat
  BY LenProperties, PagerAssumption
<1>2. /\ c = Len(h) /\ Len(h) <= n /\ (Len(h) = n \/ Len(h) >= PreserveRecentSteps)
      /\ \A i \in 1..Len(h) : h[i] = n - Len(h) + i
  BY DEF Holds, Over
<1>3. /\ h \o more \in Seq(Nat) /\ Len(h \o more) = Len(h) + k
      /\ \A i \in 1..Len(h) + k : (h \o more)[i] = IF i <= Len(h) THEN h[i] ELSE more[i - Len(h)]
  BY ConcatProperties
<1> DEFINE t == h \o more
           l == Len(h)
<1>4. /\ t \in Seq(Nat) /\ Len(t) = l + k
      /\ \A i \in 1..(l + k) : t[i] = IF i <= l THEN h[i] ELSE more[i - l]
  BY <1>3
<1>5. /\ l \in Nat /\ c = l /\ l <= n /\ (l = n \/ l >= PreserveRecentSteps)
      /\ \A i \in 1..l : h[i] = n - l + i
  BY <1>1, <1>2
<1>6. t = h \o more /\ l = Len(h)
  OBVIOUS
<1> HIDE DEF t, l
<1>7. ASSUME NEW i \in 1..(l + k) PROVE t[i] = (n + k) - (l + k) + i
  <2>1. CASE i <= l
    <3>1. t[i] = h[i] /\ i \in 1..l
      BY <1>4, <1>5, <2>1
    <3> QED  BY <1>5, <3>1
  <2>2. CASE ~(i <= l)
    <3>1. t[i] = more[i - l] /\ i - l \in 1..k
      BY <1>4, <1>5, <2>2
    <3> QED  BY <1>5, <3>1
  <2> QED  BY <2>1, <2>2
<1>8. Holds("append", n + k, t, c, l + 1)
  BY <1>1, <1>4, <1>5, <1>7 DEF Holds, Over
<1> QED  BY <1>3, <1>2, <1>6, <1>8

\* ... which are appended to the table one by one ...
LEMMA HoldsAppended ==
  ASSUME NEW n \in Nat, NEW h \in Seq(Nat), NEW c, NEW x, Holds("append", n, h, c, x)
  PROVE  /\ Len(h) \in Nat /\ Len(h) <= n /\ x \in 1..(Len(h) + 1)
         /\ x <= Len(h) => h[x] = n - Len(h) + x /\ Holds("append", n, h, c, x + 1)
         /\ x > Len(h) => x = Len(h) + 1 /\ \A y : Holds("page", n, h, Len(h), y)
<1>1. Len(h) \in Nat
  BY LenProperties
<1>2. x \in 1..(Len(h) + 1)
  BY DEF Holds, Over
<1>3. Len(h) <= n /\ \A i \in 1..Len(h) : h[i] = n - Len(h) + i
  BY DEF Holds, Over
<1>4. ASSUME x <= Len(h)
      PROVE  h[x] = n - Len(h) + x /\ Holds("append", n, h, c, x + 1)
  BY <1>1, <1>2, <1>3, <1>4 DEF Holds, Over
<1>5. ASSUME x > Len(h)
      PROVE  x = Len(h) + 1 /\ \A y : Holds("page", n, h, Len(h), y)
  BY <1>1, <1>2, <1>5 DEF Holds, Over
<1> QED  BY <1>1, <1>2, <1>3, <1>4, <1>5

\* ... and when there are too many all but the last go into a summary ...
LEMMA HoldsTooMany ==
  ASSUME NEW n \in Nat, NEW h \in Seq(Nat), NEW c, NEW x, Holds("page", n, h, c, x)
  PROVE  /\ c = Len(h) /\ \A label \in {"page", "node"} : Holds(label, n, h, c, x)
         /\ Len(h) > PreserveRecentSteps => Holds("archive", n, h, c, x)
BY DEF Holds, Over

LEMMA HoldsPage ==
  ASSUME NEW n \in Nat, NEW h \in Seq(Nat), NEW c, NEW x, Holds("archive", n, h, c, x),
         NEW s, s = SubSeq(h, 1, Len(h) - PreserveRecentSteps)
  PROVE  /\ Holds("cut", n, h, c, x) /\ Len(h) \in Nat /\ Len(h) <= n
         /\ Len(h) > PreserveRecentSteps /\ PreserveRecentSteps \in Nat
         /\ Range(s) = (n - Len(h) + 1)..(n - PreserveRecentSteps)
         /\ Range(s) # {}
<1> DEFINE k == Len(h) - PreserveRecentSteps
<1>1. Len(h) \in Nat /\ PreserveRecentSteps \in Nat /\ Len(h) > PreserveRecentSteps
        /\ Len(h) <= n /\ \A i \in 1..Len(h) : h[i] = n - Len(h) + i
  BY LenProperties, PagerAssumption DEF Holds, Over
<1>2. s \in Seq(Nat) /\ Len(s) = k /\ \A i \in 1..k : s[i] = n - Len(h) + i
  <2>1. 1 \in 1..(Len(h) + 1) /\ k \in (1 - 1)..Len(h) /\ k \in Nat
    BY <1>1
  <2>2. /\ SubSeq(h, 1, k) \in Seq(Nat)
        /\ Len(SubSeq(h, 1, k)) = IF 1 <= k THEN k - 1 + 1 ELSE 0
        /\ \A i \in 1..(k - 1 + 1) : SubSeq(h, 1, k)[i] = h[1 + i - 1]
    BY <2>1, SubSeqProperties
  <2> QED  BY <1>1, <2>1, <2>2
<1>3. DOMAIN s = 1..k /\ k \in Nat /\ k >= 1
  BY <1>1, <1>2, LenProperties
<1>4. Range(s) = {n - Len(h) + i : i \in 1..k}
  BY <1>2, <1>3 DEF Range
<1>5. Range(s) = (n - Len(h) + 1)..(n - PreserveRecentSteps)
  <2>1. \A j \in (n - Len(h) + 1)..(n - PreserveRecentSteps) :
          j - (n - Len(h)) \in 1..k /\ j = n - Len(h) + (j - (n - Len(h)))
    BY <1>1
  <2>2. \A i \in 1..k : n - Len(h) + i \in (n - Len(h) + 1)..(n - PreserveRecentSteps)
    BY <1>1
  <2> HIDE DEF k
  <2> QED  BY <1>4, <2>1, <2>2
<1>6. n - Len(h) + 1 \in Range(s)
  BY <1>1, <1>5
<1>7. Holds("cut", n, h, c, x)
  BY DEF Holds, Over
<1> QED  BY <1>1, <1>5, <1>6, <1>7

\* ... and leave the history.
LEMMA HoldsLess ==
  ASSUME NEW n \in Nat, NEW h \in Seq(Nat), NEW c, NEW x, Holds("cut", n, h, c, x),
         NEW t, t = SubSeq(h, Len(h) - PreserveRecentSteps + 1, Len(h))
  PROVE  /\ t \in Seq(Nat) /\ Len(t) = PreserveRecentSteps /\ PreserveRecentSteps \in Nat
         /\ \A label \in {"page", "node"} : Holds(label, n, t, Len(t), x)
<1> DEFINE p == PreserveRecentSteps
           l == Len(h)
<1>1. l \in Nat /\ p \in Nat /\ p >= 1 /\ l > p
        /\ l <= n /\ \A i \in 1..l : h[i] = n - l + i
  BY LenProperties, PagerAssumption DEF Holds, Over
<1>2. /\ t \in Seq(Nat) /\ Len(t) = p
      /\ \A i \in 1..p : t[i] = h[(l - p + 1) + i - 1]
  <2>1. (l - p + 1) \in 1..(l + 1) /\ l \in ((l - p + 1) - 1)..l
    BY <1>1
  <2> DEFINE m == l - p + 1
  <2>2. m \in 1..(l + 1) /\ l \in (m - 1)..l /\ t = SubSeq(h, m, l) /\ m \in Nat
    BY <1>1, <2>1
  <2>3. m <= l /\ l - m + 1 = p
    BY <1>1
  <2> HIDE DEF m
  <2>4. /\ SubSeq(h, m, l) \in Seq(Nat)
        /\ Len(SubSeq(h, m, l)) = IF m <= l THEN l - m + 1 ELSE 0
        /\ \A i \in 1..(l - m + 1) : SubSeq(h, m, l)[i] = h[m + i - 1]
    BY <2>2, SubSeqProperties, SMTT(30)
  <2>5. /\ t \in Seq(Nat) /\ Len(t) = p
        /\ \A i \in 1..p : t[i] = h[m + i - 1]
    BY <2>2, <2>3, <2>4
  <2> QED  BY <2>5 DEF m
<1>3. \A i \in 1..p : t[i] = n - p + i
  <2> TAKE i \in 1..p
  <2>1. (l - p + 1) + i - 1 = l - p + i /\ l - p + i \in 1..l
    BY <1>1
  <2>2. t[i] = h[l - p + i]
    BY <1>2, <2>1
  <2> QED  BY <1>1, <2>1, <2>2
<1>4. Len(t) = PreserveRecentSteps
  BY <1>2
<1>5. ASSUME NEW label \in {"page", "node"} PROVE Holds(label, n, t, Len(t), x)
  <2>1. \A i \in 1..Len(t) : t[i] = n - Len(t) + i
    BY <1>3, <1>4
  <2>2. Len(t) <= n /\ Len(t) >= PreserveRecentSteps
    BY <1>1, <1>4
  <2>3. label \notin Over /\ label \notin {"hydrate", "append", "archive", "cut"}
    BY <1>5 DEF Over
  <2> QED  BY <2>1, <2>2, <2>3 DEF Holds
<1> QED  BY <1>1, <1>2, <1>4, <1>5
-----------------------------------------------------------------------------
\* The steps of a run, one by one.
LEMMA HydrateKeeps ==
  ASSUME Inv, NEW r \in Runs, Hydrate(r)
  PROVE  /\ Types' /\ Holding(r)' /\ Shortened(r)' /\ (\A q \in Runs \ {r} : Stays(q))
<1>1. /\ pc[r] = "hydrate" /\ pc' = [pc EXCEPT ![r] = "node"]
      /\ UNCHANGED <<thread, produced, history, count, next, again, recall, archive>>
  BY DEF Hydrate, Goto
<1>2. shown' \in [Runs -> [recall : SUBSET Nat, archive : SUBSET Nat]]
  <2>1. DOMAIN recall \subseteq Nat /\ DOMAIN archive \subseteq Nat
    BY LenProperties DEF Inv, Types
  <2>2. PICK events \in kSubset(Min2(RecallLimit, Cardinality(NewestRows(thread[r]))),
                                NewestRows(thread[r])),
             near \in kSubset(Min2(CandidateLimit, Len(archive)), DOMAIN archive) :
          \E results \in kSubset(Min2(ArchivalLimit, Cardinality(Episodes(thread[r], near))),
                                 Episodes(thread[r], near)) :
            shown' = [shown EXCEPT ![r] = [recall |-> events, archive |-> results]]
    BY DEF Hydrate
  <2>3. PICK results \in SUBSET Episodes(thread[r], near) :
          shown' = [shown EXCEPT ![r] = [recall |-> events, archive |-> results]]
    BY <2>2 DEF kSubset
  <2>4. events \in SUBSET Nat
    BY <2>1 DEF kSubset, NewestRows
  <2>5. results \in SUBSET Nat
    BY <2>1 DEF kSubset, Episodes
  <2> QED  BY <2>3, <2>4, <2>5 DEF Inv, Types
<1>3. Types'
  BY <1>1, <1>2 DEF Inv, Types, Labels
<1>4. /\ pc'[r] = "node" /\ produced'[r] = produced[r] /\ history'[r] = history[r]
      /\ count'[r] = count[r] /\ next'[r] = next[r]
  BY <1>1 DEF Inv, Types
<1>5. \A q \in Runs \ {r} : Stays(q)
  BY <1>1 DEF Stays, Inv, Types
<1>6. /\ Holds("node", Len(produced[r]), history[r], count[r], next[r])
      /\ Len(history[r]) = 0 /\ PreserveRecentSteps \in Nat
  BY <1>1, RunTypes, HoldsAtStart
<1>7. Holding(r)' /\ Shortened(r)'
  BY <1>4, <1>6 DEF Holding, Shortened, Short
<1> QED  BY <1>3, <1>5, <1>7

LEMMA NodeKeeps ==
  ASSUME Inv, NEW r \in Runs, NEW sizes \in Seq(StepSizes), Node(r, sizes)
  PROVE  /\ Types' /\ Holding(r)' /\ Shortened(r)' /\ (\A q \in Runs \ {r} : Stays(q))
         /\ pc[r] = "node" /\ pc'[r] = "append" /\ next'[r] = Len(history[r]) + 1
         /\ Len(produced'[r]) - Len(history'[r]) = Len(produced[r]) - Len(history[r])
<1> DEFINE P == Len(produced[r])
           h == history[r]
           more == [i \in DOMAIN sizes |-> P + i]
           x == Min2(Max2(count[r], 0), Len(history'[r])) + 1
<1>1. /\ pc[r] = "node" /\ pc' = [pc EXCEPT ![r] = "append"]
      /\ produced' = [produced EXCEPT ![r] = @ \o sizes]
      /\ history' = [history EXCEPT ![r] = @ \o more]
      /\ next' = [next EXCEPT ![r] = x]
      /\ UNCHANGED <<thread, count, again, shown, recall, archive>>
  BY DEF Node, Goto
<1>2. P \in Nat /\ Len(h) \in Nat /\ h \in Seq(Nat) /\ produced[r] \in Seq(StepSizes)
      /\ Len(sizes) \in Nat /\ DOMAIN sizes = 1..Len(sizes)
  BY RunTypes, LenProperties
<1>3. more \in Seq(Nat) /\ Len(more) = Len(sizes) /\ \A i \in 1..Len(sizes) : more[i] = P + i
  <2>1. more \in [1..Len(sizes) -> Nat]
    BY <1>2
  <2>2. \A i \in 1..Len(sizes) : more[i] = P + i
    BY <1>2
  <2> HIDE DEF more
  <2> QED  BY <1>2, <2>1, <2>2, SeqDef, LenProperties
<1> HIDE DEF more
<1> HIDE DEF P, h
<1>4. /\ h \o more \in Seq(Nat) /\ Len(h \o more) = Len(h) + Len(sizes) /\ count[r] = Len(h)
      /\ Holds("append", P + Len(sizes), h \o more, count[r], Len(h) + 1)
  <2>1. Holds("node", P, h, count[r], next[r])
    BY <1>1, RunTypes DEF P, h
  <2> QED  BY <1>2, <1>3, <2>1, HoldsMore
<1>5. produced[r] \o sizes \in Seq(StepSizes) /\ Len(produced[r] \o sizes) = P + Len(sizes)
  BY <1>2, ConcatProperties DEF P
<1>6. /\ pc'[r] = "append" /\ produced'[r] = produced[r] \o sizes /\ history'[r] = h \o more
      /\ count'[r] = count[r] /\ next'[r] = x
  BY <1>1 DEF Inv, Types, h
<1>7. x = Len(h) + 1
  BY <1>2, <1>4, <1>6 DEF Min2, Max2
<1> HIDE DEF x
<1>8. Types'
  <2>1. x \in Nat
    BY <1>2, <1>7
  <2> QED  BY <1>1, <1>4, <1>5, <2>1 DEF Inv, Types, Labels, h
<1>9. \A q \in Runs \ {r} : Stays(q)
  BY <1>1 DEF Stays, Inv, Types
<1>10. Holding(r)' /\ Shortened(r)'
  BY <1>4, <1>5, <1>6, <1>7 DEF Holding, Shortened, Short
<1>11. /\ next'[r] = Len(h) + 1
       /\ Len(produced'[r]) - Len(history'[r]) = P - Len(h)
  <2>1. /\ Len(produced'[r]) = P + Len(sizes) /\ Len(history'[r]) = Len(h) + Len(sizes)
        /\ next'[r] = Len(h) + 1
    BY <1>4, <1>5, <1>6, <1>7
  <2>2. \A k, l \in Nat : (P + k) - (l + k) = P - l
    BY <1>2
  <2> QED  BY <1>2, <2>1, <2>2
<1> QED  BY <1>1, <1>6, <1>8, <1>9, <1>10, <1>11 DEF P, h

LEMMA AppendKeeps ==
  ASSUME Inv, NEW r \in Runs, RecallAppend(r)
  PROVE  /\ Types' /\ Holding(r)' /\ Shortened(r)' /\ (\A q \in Runs \ {r} : Stays(q))
<1> DEFINE h == history[r]
           row == [run |-> {r}, thread |-> thread[r], step |-> h[next[r]]]
<1>1. /\ pc[r] = "append" /\ next[r] <= Len(h) /\ next' = [next EXCEPT ![r] = @ + 1]
      /\ recall' = Append(recall, row)
      /\ UNCHANGED <<thread, pc, produced, history, count, again, shown, archive>>
  BY DEF RecallAppend
<1>2. /\ Len(produced[r]) \in Nat /\ h \in Seq(Nat) /\ thread[r] \in Threads /\ next[r] \in Nat
      /\ Holds("append", Len(produced[r]), h, count[r], next[r])
  BY <1>1, RunTypes
<1>3. /\ next[r] \in 1..Len(h)
      /\ Holds("append", Len(produced[r]), h, count[r], next[r] + 1)
  BY <1>1, <1>2, HoldsAppended
<1>4. h[next[r]] \in Nat
  BY <1>2, <1>3, ElementOfSeq
<1>5. row \in [run : SUBSET Runs, thread : Threads, step : Nat]
  BY <1>2, <1>4
<1> HIDE DEF row
<1>6. recall' \in Seq([run : SUBSET Runs, thread : Threads, step : Nat])
  BY <1>1, <1>5, AppendProperties DEF Inv, Types
<1>7. Types'
  BY <1>1, <1>2, <1>6 DEF Inv, Types
<1>8. next'[r] = next[r] + 1
  BY <1>1 DEF Inv, Types
<1>9. \A q \in Runs \ {r} : Stays(q)
  BY <1>1 DEF Stays, Inv, Types
<1>10. Holding(r)' /\ Shortened(r)'
  BY <1>1, <1>3, <1>8 DEF Holding, Shortened, Short
<1> QED  BY <1>7, <1>9, <1>10

LEMMA PersistedKeeps ==
  ASSUME Inv, NEW r \in Runs, PersistedAll(r)
  PROVE  /\ Types' /\ Holding(r)' /\ Shortened(r)' /\ (\A q \in Runs \ {r} : Stays(q))
<1> DEFINE h == history[r]
<1>1. /\ pc[r] = "append" /\ next[r] > Len(h) /\ count' = [count EXCEPT ![r] = Len(h)]
      /\ again' = [again EXCEPT ![r] = r \in Hooked] /\ pc' = [pc EXCEPT ![r] = "page"]
      /\ UNCHANGED <<thread, produced, history, next, shown, recall, archive>>
  BY DEF PersistedAll, Goto
<1>2. /\ Len(produced[r]) \in Nat /\ h \in Seq(Nat) /\ Len(h) \in Nat
      /\ Holds("append", Len(produced[r]), h, count[r], next[r])
  BY <1>1, RunTypes
<1>3. Holds("page", Len(produced[r]), h, Len(h), next[r])
  BY <1>1, <1>2, HoldsAppended
<1>4. again' \in [Runs -> BOOLEAN]
  <2>1. (r \in Hooked) \in BOOLEAN
    OBVIOUS
  <2> DEFINE b == r \in Hooked
  <2>2. b \in BOOLEAN /\ again' = [again EXCEPT ![r] = b] /\ again \in [Runs -> BOOLEAN]
    BY <1>1, <2>1 DEF Inv, Types
  <2> HIDE DEF b
  <2> QED  BY <2>2
<1>5. Types'
  BY <1>1, <1>2, <1>4 DEF Inv, Types, Labels
<1>6. pc'[r] = "page" /\ count'[r] = Len(h)
  BY <1>1 DEF Inv, Types
<1>7. \A q \in Runs \ {r} : Stays(q)
  BY <1>1 DEF Stays, Inv, Types
<1>8. Holding(r)' /\ Shortened(r)'
  BY <1>1, <1>3, <1>6 DEF Holding, Shortened, Short
<1> QED  BY <1>5, <1>7, <1>8

\* Where page_if_needed returns to.
LEMMA ReturnTypes ==
  ASSUME Types, NEW r \in Runs, Return(r)
  PROVE  /\ pc'[r] \in {"page", "node"} /\ pc' = [pc EXCEPT ![r] = pc'[r]]
         /\ pc' \in [Runs -> Labels] /\ again' \in [Runs -> BOOLEAN]
<1>1. pc \in [Runs -> Labels] /\ again \in [Runs -> BOOLEAN]
  BY DEF Types
<1>2. again' \in [Runs -> BOOLEAN]
  BY <1>1 DEF Return
<1>3. \E label \in {"page", "node"} : pc' = [pc EXCEPT ![r] = label]
  BY DEF Return, Goto
<1> QED  BY <1>1, <1>2, <1>3 DEF Labels

LEMMA PageKeeps ==
  ASSUME Inv, NEW r \in Runs, PageIfNeeded(r)
  PROVE  /\ Types' /\ Holding(r)' /\ Shortened(r)' /\ (\A q \in Runs \ {r} : Stays(q))
         /\ pc'[r] \in {"page", "node", "archive"}
<1> DEFINE h == history[r]
<1>1. /\ pc[r] = "page" /\ UNCHANGED <<thread, produced, history, count, next, shown, recall, archive>>
      /\ \/ NeedsPaging(r) /\ pc' = [pc EXCEPT ![r] = "archive"] /\ again' = again
         \/ ~NeedsPaging(r) /\ Return(r)
  BY DEF PageIfNeeded, Goto
<1>2. /\ Len(produced[r]) \in Nat /\ h \in Seq(Nat) /\ Len(h) \in Nat /\ PreserveRecentSteps \in Nat
      /\ Holds("page", Len(produced[r]), h, count[r], next[r])
  BY <1>1, RunTypes
<1>3. /\ \A label \in {"page", "node"} : Holds(label, Len(produced[r]), h, count[r], next[r])
      /\ Len(h) > PreserveRecentSteps
           => Holds("archive", Len(produced[r]), h, count[r], next[r])
  BY <1>2, HoldsTooMany
<1>4. CASE NeedsPaging(r)
  <2>1. pc' = [pc EXCEPT ![r] = "archive"] /\ again' = again /\ pc'[r] = "archive"
    BY <1>1, <1>4 DEF Inv, Types
  <2>2. Types'
    BY <1>1, <2>1 DEF Inv, Types, Labels
  <2>3. \A q \in Runs \ {r} : Stays(q)
    BY <1>1, <2>1 DEF Stays, Inv, Types
  <2>4. Holding(r)' /\ Shortened(r)'
    BY <1>1, <1>3, <1>4, <2>1 DEF Holding, Shortened, Short, NeedsPaging
  <2> QED  BY <2>1, <2>2, <2>3, <2>4
<1>5. CASE ~NeedsPaging(r)
  <2>1. /\ pc'[r] \in {"page", "node"} /\ pc' = [pc EXCEPT ![r] = pc'[r]]
        /\ pc' \in [Runs -> Labels] /\ again' \in [Runs -> BOOLEAN]
    BY <1>1, <1>5, ReturnTypes DEF Inv
  <2>2. Types'
    BY <1>1, <2>1 DEF Inv, Types
  <2>3. \A q \in Runs \ {r} : Stays(q)
    BY <1>1, <2>1 DEF Stays, Inv, Types
  <2>4. Holding(r)' /\ Shortened(r)'
    <3>1. Tokens(r) > MaxHistoryTokens => ~(Len(h) > PreserveRecentSteps)
      BY <1>5 DEF NeedsPaging
    <3>2. ~(Len(h) > PreserveRecentSteps) => Len(h) <= PreserveRecentSteps
      BY <1>2
    <3>3. Holding(r)'
      BY <1>1, <1>3, <2>1 DEF Holding
    <3> QED  BY <1>1, <3>1, <3>2, <3>3 DEF Shortened, Short, Tokens
  <2> QED  BY <2>1, <2>2, <2>3, <2>4
<1> QED  BY <1>4, <1>5

LEMMA ArchivalKeeps ==
  ASSUME Inv, NEW r \in Runs, ArchivalAdd(r)
  PROVE  /\ Types' /\ Holding(r)' /\ Shortened(r)' /\ (\A q \in Runs \ {r} : Stays(q))
         /\ pc[r] = "archive" /\ pc'[r] = "cut" /\ UNCHANGED <<produced, history, next>>
         /\ Range(PagedSteps(r)) = (Len(produced[r]) - Len(history[r]) + 1)
                                     .. (Len(produced[r]) - PreserveRecentSteps)
         /\ Range(PagedSteps(r)) # {}
<1> DEFINE h == history[r]
           P == Len(produced[r])
           row == [kind |-> "episode", run |-> {r}, thread |-> thread[r],
                   steps |-> Range(PagedSteps(r))]
<1>1. /\ pc[r] = "archive" /\ pc' = [pc EXCEPT ![r] = "cut"] /\ archive' = Append(archive, row)
      /\ UNCHANGED <<thread, produced, history, count, next, again, shown, recall>>
  BY DEF ArchivalAdd, Goto
<1>2. /\ P \in Nat /\ h \in Seq(Nat) /\ thread[r] \in Threads
      /\ Holds("archive", P, h, count[r], next[r])
  BY <1>1, RunTypes
<1>3. PagedSteps(r) = SubSeq(h, 1, Len(h) - PreserveRecentSteps)
  BY DEF PagedSteps, PageCount
<1> HIDE DEF P
<1>4. /\ Holds("cut", P, h, count[r], next[r]) /\ Len(h) \in Nat /\ Len(h) <= P
      /\ PreserveRecentSteps \in Nat
      /\ Range(PagedSteps(r)) = (P - Len(h) + 1)..(P - PreserveRecentSteps)
      /\ Range(PagedSteps(r)) # {}
  BY <1>2, <1>3, HoldsPage
<1>5. Range(PagedSteps(r)) \in SUBSET Nat
  BY <1>2, <1>4
<1>6. row \in [kind : {"episode"} \union OtherKinds, run : SUBSET Runs,
               thread : Threads, steps : SUBSET Nat]
  BY <1>2, <1>5
<1> HIDE DEF row
<1>7. archive' \in Seq([kind : {"episode"} \union OtherKinds, run : SUBSET Runs,
                        thread : Threads, steps : SUBSET Nat])
  BY <1>1, <1>6, AppendProperties DEF Inv, Types
<1>8. Types'
  BY <1>1, <1>7 DEF Inv, Types, Labels
<1>9. pc'[r] = "cut"
  BY <1>1 DEF Inv, Types
<1>10. \A q \in Runs \ {r} : Stays(q)
  BY <1>1 DEF Stays, Inv, Types
<1>11. Holding(r)' /\ Shortened(r)'
  BY <1>1, <1>4, <1>9 DEF Holding, Shortened, Short, P
<1> QED  BY <1>1, <1>4, <1>8, <1>9, <1>10, <1>11 DEF P

LEMMA PagedKeeps ==
  ASSUME Inv, NEW r \in Runs, Paged(r)
  PROVE  /\ Types' /\ Holding(r)' /\ Shortened(r)' /\ (\A q \in Runs \ {r} : Stays(q))
         /\ pc[r] = "cut" /\ pc'[r] \in {"page", "node"} /\ UNCHANGED produced
         /\ Len(history'[r]) = PreserveRecentSteps
<1> DEFINE h == history[r]
           t == RetainedSteps(r)
<1>1. /\ pc[r] = "cut" /\ history' = [history EXCEPT ![r] = t]
      /\ count' = [count EXCEPT ![r] = Len(t)] /\ Return(r)
      /\ UNCHANGED <<thread, produced, next, shown, recall, archive>>
  BY DEF Paged, CutHistory
<1>2. /\ Len(produced[r]) \in Nat /\ h \in Seq(Nat)
      /\ Holds("cut", Len(produced[r]), h, count[r], next[r])
  BY <1>1, RunTypes
<1>3. t = SubSeq(h, Len(h) - PreserveRecentSteps + 1, Len(h))
  BY DEF RetainedSteps, PageCount
<1> HIDE DEF t
<1>4. /\ t \in Seq(Nat) /\ Len(t) = PreserveRecentSteps /\ PreserveRecentSteps \in Nat
      /\ \A label \in {"page", "node"} : Holds(label, Len(produced[r]), t, Len(t), next[r])
  BY <1>2, <1>3, HoldsLess
<1>5. /\ pc'[r] \in {"page", "node"} /\ pc' = [pc EXCEPT ![r] = pc'[r]]
      /\ pc' \in [Runs -> Labels] /\ again' \in [Runs -> BOOLEAN]
  BY <1>1, ReturnTypes DEF Inv
<1>6. history'[r] = t /\ count'[r] = Len(t)
  BY <1>1 DEF Inv, Types
<1>7. Types'
  <2>1. history' \in [Runs -> Seq(Nat)] /\ count' \in [Runs -> Nat]
    BY <1>1, <1>4 DEF Inv, Types
  <2> QED  BY <1>1, <1>5, <2>1 DEF Inv, Types
<1>8. \A q \in Runs \ {r} : Stays(q)
  BY <1>1, <1>5 DEF Stays, Inv, Types
<1>9. Holding(r)' /\ Shortened(r)'
  <2>1. Holding(r)'
    BY <1>1, <1>4, <1>5, <1>6 DEF Holding
  <2>2. Len(t) <= PreserveRecentSteps
    BY <1>4
  <2> QED  BY <1>6, <2>1, <2>2 DEF Shortened, Short
<1> QED  BY <1>1, <1>4, <1>5, <1>6, <1>7, <1>8, <1>9

LEMMA LeaveKeeps ==
  ASSUME Inv, NEW r \in Runs, NEW label \in Over, Leave(r, label)
  PROVE  /\ Types' /\ Holding(r)' /\ Shortened(r)' /\ (\A q \in Runs \ {r} : Stays(q))
         /\ pc'[r] = label /\ UNCHANGED <<produced, recall, archive>>
<1>1. /\ pc' = [pc EXCEPT ![r] = label] /\ history' = [history EXCEPT ![r] = <<>>]
      /\ count' = [count EXCEPT ![r] = 0] /\ next' = [next EXCEPT ![r] = 1]
      /\ again' = [again EXCEPT ![r] = FALSE] /\ shown' = [shown EXCEPT ![r] = NothingShown]
      /\ UNCHANGED <<thread, produced, recall, archive>>
  BY DEF Leave, Goto
<1>2. NothingShown \in [recall : SUBSET Nat, archive : SUBSET Nat] /\ <<>> \in Seq(Nat)
  BY DEF NothingShown
<1>3. Types'
  BY <1>1, <1>2 DEF Inv, Types, Labels, Over
<1>4. pc'[r] = label /\ history'[r] = <<>> /\ count'[r] = 0
  BY <1>1 DEF Inv, Types
<1>5. \A q \in Runs \ {r} : Stays(q)
  BY <1>1 DEF Stays, Inv, Types
<1>6. Holding(r)' /\ Shortened(r)'
  <2>1. Len(<<>>) = 0
    OBVIOUS
  <2> QED  BY <1>4, <2>1 DEF Holding, Holds, Shortened, Short, Over
<1> QED  BY <1>1, <1>3, <1>4, <1>5, <1>6

\* The rows of other writers.
LEMMA OthersKeep ==
  ASSUME Inv, NEW t \in Threads, RecallByOthers(t) \/ \E kind \in OtherKinds : ArchiveByOthers(kind, t)
  PROVE  Types' /\ UNCHANGED local
<1>1. CASE RecallByOthers(t)
  <2> DEFINE row == [run |-> {}, thread |-> t, step |-> 0]
  <2>1. recall' = Append(recall, row) /\ UNCHANGED <<local, archive>>
    BY <1>1 DEF RecallByOthers
  <2>2. row \in [run : SUBSET Runs, thread : Threads, step : Nat]
    OBVIOUS
  <2> HIDE DEF row
  <2>3. recall' \in Seq([run : SUBSET Runs, thread : Threads, step : Nat])
    BY <2>1, <2>2, AppendProperties DEF Inv, Types
  <2> QED  BY <2>1, <2>3 DEF Inv, Types, local
<1>2. ASSUME NEW kind \in OtherKinds, ArchiveByOthers(kind, t)
      PROVE  Types' /\ UNCHANGED local
  <2> DEFINE row == [kind |-> kind, run |-> {}, thread |-> t, steps |-> {}]
  <2>1. archive' = Append(archive, row) /\ UNCHANGED <<local, recall>>
    BY <1>2 DEF ArchiveByOthers
  <2>2. row \in [kind : {"episode"} \union OtherKinds, run : SUBSET Runs,
                 thread : Threads, steps : SUBSET Nat]
    OBVIOUS
  <2> HIDE DEF row
  <2>3. archive' \in Seq([kind : {"episode"} \union OtherKinds, run : SUBSET Runs,
                          thread : Threads, steps : SUBSET Nat])
    BY <2>1, <2>2, AppendProperties DEF Inv, Types
  <2> QED  BY <2>1, <2>3 DEF Inv, Types, local
<1> QED  BY <1>1, <1>2

\* What a node may add is a sequence of steps.
LEMMA NewStepsAreSteps == NewSteps \subseteq Seq(StepSizes)
<1> SUFFICES ASSUME NEW sizes \in NewSteps PROVE sizes \in Seq(StepSizes)
  OBVIOUS
<1>1. PICK n \in 0..Min2(2, MaxSteps - StepsSoFar) : sizes \in [1..n -> StepSizes]
  BY DEF NewSteps
<1>2. n \in Nat
  BY <1>1
<1> QED  BY <1>1, <1>2, SeqDef
-----------------------------------------------------------------------------
\* A step that keeps the types, and of the run that takes it what it holds.
LEMMA KeptByOne ==
  ASSUME Inv, NEW r \in Runs, Types', Holding(r)', Shortened(r)', \A q \in Runs \ {r} : Stays(q)
  PROVE  Inv'
<1>1. ASSUME NEW q \in Runs PROVE Holding(q)' /\ Shortened(q)'
  <2>1. CASE q = r
    BY <2>1
  <2>2. CASE q # r
    BY <2>2, StaysHolding DEF Inv
  <2> QED  BY <2>1, <2>2
<1> QED  BY <1>1 DEF Inv

LEMMA NextInv == Inv /\ [Next]_vars => Inv'
<1> SUFFICES ASSUME Inv, [Next]_vars PROVE Inv'
  OBVIOUS
<1>1. ASSUME NEW r \in Runs, Step(r) PROVE Inv'
  BY <1>1, HydrateKeeps, AppendKeeps, PersistedKeeps, PageKeeps, ArchivalKeeps, PagedKeeps,
     KeptByOne DEF Step
<1>2. ASSUME NEW r \in Runs, NEW sizes \in NewSteps, Node(r, sizes) PROVE Inv'
  BY <1>2, NewStepsAreSteps, NodeKeeps, KeptByOne
<1>3. ASSUME NEW r \in Runs, End(r) \/ Die(r) PROVE Inv'
  <2>1. \E label \in Over : Leave(r, label)
    BY <1>3 DEF End, Die, Over
  <2> QED  BY <2>1, LeaveKeeps, KeptByOne
<1>4. ASSUME NEW t \in Threads,
             RecallByOthers(t) \/ \E kind \in OtherKinds : ArchiveByOthers(kind, t)
      PROVE  Inv'
  <2>1. Types' /\ UNCHANGED local
    BY <1>4, OthersKeep
  <2>2. \A q \in Runs : Stays(q)
    BY <2>1 DEF Stays, local
  <2> QED  BY <2>1, <2>2, StaysHolding DEF Inv
<1>5. CASE UNCHANGED vars
  <2>1. Types'
    BY <1>5 DEF Inv, Types, vars, local
  <2>2. \A q \in Runs : Stays(q)
    BY <1>5 DEF Stays, vars, local
  <2> QED  BY <2>1, <2>2, StaysHolding DEF Inv
<1> QED  BY <1>1, <1>2, <1>3, <1>4, <1>5 DEF Next

LEMMA Invariance == Spec => []Inv
BY InitInv, NextInv, PTL DEF Spec

\* The steps a history holds.
LEMMA StepsHeld ==
  ASSUME NEW n \in Nat, NEW h \in Seq(Nat), Len(h) <= n, \A i \in 1..Len(h) : h[i] = n - Len(h) + i
  PROVE  Range(h) = (n - Len(h) + 1)..n
<1>1. Len(h) \in Nat /\ DOMAIN h = 1..Len(h)
  BY LenProperties
<1>2. \A j \in (n - Len(h) + 1)..n : j - (n - Len(h)) \in 1..Len(h)
                                     /\ j = n - Len(h) + (j - (n - Len(h)))
  BY <1>1
<1>3. \A i \in 1..Len(h) : n - Len(h) + i \in (n - Len(h) + 1)..n
  BY <1>1
<1>4. Range(h) = {n - Len(h) + i : i \in 1..Len(h)}
  BY <1>1 DEF Range
<1> QED  BY <1>2, <1>3, <1>4

LEMMA InvImpliesTypeOK == Inv => TypeOK
<1> SUFFICES ASSUME Inv PROVE TypeOK
  OBVIOUS
<1>1. ASSUME NEW r \in Runs PROVE count[r] <= Len(history[r])
  <2>1. Len(history[r]) \in Nat /\ count[r] \in Nat
    BY RunTypes
  <2>2. Holds(pc[r], Len(produced[r]), history[r], count[r], next[r])
    BY RunTypes
  <2> QED  BY <2>1, <2>2 DEF Holds
<1>2. ASSUME NEW r \in Runs, pc[r] = "node"
      PROVE  Tokens(r) > MaxHistoryTokens => Len(history[r]) <= PreserveRecentSteps
  BY <1>2 DEF Inv, Shortened, Short, Tokens
<1>3. ASSUME NEW r \in Alive
      PROVE  Max2(1, Len(produced[r]) - PreserveRecentSteps + 1) .. Len(produced[r])
               \subseteq Range(history[r])
  <2> DEFINE n == Len(produced[r])
             h == history[r]
  <2>1. r \in Runs /\ pc[r] \notin Over
    BY <1>3 DEF Alive, Over
  <2>2. n \in Nat /\ h \in Seq(Nat) /\ Len(h) \in Nat /\ PreserveRecentSteps \in Nat
        /\ Holds(pc[r], n, h, count[r], next[r])
    BY <2>1, RunTypes
  <2> HIDE DEF n, h
  <2>3. /\ Len(h) <= n /\ (Len(h) = n \/ Len(h) >= PreserveRecentSteps)
        /\ \A i \in 1..Len(h) : h[i] = n - Len(h) + i
    BY <2>1, <2>2 DEF Holds
  <2>4. Range(h) = (n - Len(h) + 1)..n
    BY <2>2, <2>3, StepsHeld
  <2>5. Max2(1, n - PreserveRecentSteps + 1)..n \subseteq (n - Len(h) + 1)..n
    BY <2>2, <2>3 DEF Max2
  <2> QED  BY <2>4, <2>5 DEF n, h
<1>4. HistoryIsBounded
  BY <1>2, <1>3 DEF HistoryIsBounded
<1> QED  BY <1>1, <1>4 DEF Inv, Types, Labels, TypeOK

\* The types and bounds: a node finds a history within its limit, or one of the
\* steps that are always kept, and those latest steps are never paged out
\* (page_if_needed).
THEOREM TypeCorrect == Spec => []TypeOK
BY Invariance, InvImpliesTypeOK, PTL
-----------------------------------------------------------------------------
\* A row of another run, or no row, leaves the rows of a run as they are ...
LEMMA RowsKept ==
  ASSUME Types, NEW r, UNCHANGED recall \/ \E row : recall' = Append(recall, row) /\ row.run # {r},
         Ordered(recall, RowsOf(r))
  PROVE  Ordered(recall, RowsOf(r))' /\ RowsOf(r)' = RowsOf(r)
<1>1. CASE UNCHANGED recall
  BY <1>1 DEF RowsOf, Ordered
<1>2. ASSUME NEW row, recall' = Append(recall, row), row.run # {r}
      PROVE  Ordered(recall, RowsOf(r))' /\ RowsOf(r)' = RowsOf(r)
  <2> DEFINE n == Len(recall)
  <2>1. /\ n \in Nat /\ DOMAIN recall = 1..n /\ DOMAIN recall' = 1..(n + 1)
        /\ recall'[n + 1] = row /\ \A i \in 1..n : recall'[i] = recall[i]
    BY <1>2, LenProperties DEF Types
  <2> HIDE DEF n
  <2>2. RowsOf(r)' = RowsOf(r)
    BY <1>2, <2>1 DEF RowsOf
  <2>3. \A i \in RowsOf(r) : recall'[i] = recall[i]
    BY <2>1 DEF RowsOf
  <2> QED  BY <2>2, <2>3 DEF Ordered
<1> QED  BY <1>1, <1>2

\* ... and a row of its own, for the step after the last, is one row more.
LEMMA RowAdded ==
  ASSUME Types, NEW r, NEW row, recall' = Append(recall, row), row.run = {r},
         Ordered(recall, RowsOf(r)), row.step = Cardinality(RowsOf(r)) + 1
  PROVE  Ordered(recall, RowsOf(r))' /\ Cardinality(RowsOf(r))' = Cardinality(RowsOf(r)) + 1
<1> DEFINE n == Len(recall)
           mine == RowsOf(r)
           k == Cardinality(mine)
<1>1. /\ n \in Nat /\ DOMAIN recall = 1..n /\ DOMAIN recall' = 1..(n + 1)
      /\ recall'[n + 1] = row /\ \A i \in 1..n : recall'[i] = recall[i]
  BY LenProperties DEF Types
<1> HIDE DEF n
<1>2. mine' = mine \union {n + 1} /\ n + 1 \notin mine /\ mine \subseteq 1..n
  BY <1>1 DEF RowsOf
<1>3. \A i \in mine : recall'[i] = recall[i]
  BY <1>1, <1>2
<1>4. /\ IsFiniteSet(mine) /\ {recall[i].step : i \in mine} = 1..k
      /\ \A i, j \in mine : i < j => recall[i].step < recall[j].step
  BY DEF Ordered
<1> HIDE DEF mine
<1>5. k \in Nat /\ IsFiniteSet(mine') /\ Cardinality(mine') = k + 1
  BY <1>2, <1>4, FS_CardinalityType, FS_AddElement
<1>6. row.step = k + 1 /\ recall'[n + 1].step = k + 1
  BY <1>1 DEF mine
<1> HIDE DEF k
<1>7. {recall'[i].step : i \in mine'} = 1..(k + 1)
  <2>1. {recall'[i].step : i \in mine'} = {recall[i].step : i \in mine} \union {k + 1}
    BY <1>2, <1>3, <1>6
  <2>2. (1..k) \union {k + 1} = 1..(k + 1)
    BY <1>5
  <2> QED  BY <1>4, <2>1, <2>2
<1>8. ASSUME NEW i \in mine', NEW j \in mine', i < j PROVE recall'[i].step < recall'[j].step
  <2>1. i \in mine
    BY <1>1, <1>2, <1>8
  <2>2. recall'[i].step = recall[i].step /\ recall[i].step \in 1..k
    BY <1>3, <1>4, <2>1
  <2>3. CASE j = n + 1
    <3>1. recall'[j].step = k + 1
      BY <1>6, <2>3
    <3>2. \A v \in 1..k : v < k + 1
      BY <1>5
    <3> QED  BY <2>2, <3>1, <3>2
  <2>4. CASE j \in mine
    BY <1>3, <1>4, <1>8, <2>1, <2>4
  <2> QED  BY <1>2, <2>3, <2>4
<1>9. IsFiniteSet(mine') /\ {recall'[i].step : i \in mine'} = 1..Cardinality(mine')
        /\ \A i, j \in mine' : i < j => recall'[i].step < recall'[j].step
  BY <1>5, <1>7, <1>8
<1> QED  BY <1>5, <1>9 DEF Ordered, mine, k

\* A step after which the rows of a run and what they stand for are the same.
LEMMA RecallStays ==
  ASSUME Types, NEW q, UNCHANGED recall \/ \E row : recall' = Append(recall, row) /\ row.run # {q},
         RecallOf(q),
         Cardinality(RowsOf(q)) \in Recalled(pc'[q], Len(produced'[q]), history'[q], next'[q])
  PROVE  RecallOf(q)'
BY RowsKept DEF RecallOf

LEMMA RecallInit == Init => \A r \in Runs : RecallOf(r)
<1> SUFFICES ASSUME Init, NEW r \in Runs PROVE RecallOf(r)
  OBVIOUS
<1>1. /\ recall = <<>> /\ pc[r] \in {"node", "hydrate"} /\ produced[r] = <<>>
  BY DEF Init
<1>2. RowsOf(r) = {}
  BY <1>1 DEF RowsOf
<1>3. IsFiniteSet({}) /\ Cardinality({}) = 0
  BY FS_EmptySet
<1>4. Len(produced[r]) = 0
  BY <1>1
<1>5. Ordered(recall, {})
  BY <1>3 DEF Ordered
<1> QED  BY <1>1, <1>2, <1>3, <1>4, <1>5 DEF RecallOf, Recalled

\* The step to be appended next.
LEMMA NextPlace ==
  ASSUME Inv, NEW r \in Runs, pc[r] = "append"
  PROVE  /\ next[r] <= Len(history[r])
              => history[r][next[r]] = Len(produced[r]) - Len(history[r]) + next[r]
         /\ next[r] > Len(history[r]) => next[r] = Len(history[r]) + 1
<1>1. /\ Len(produced[r]) \in Nat /\ history[r] \in Seq(Nat)
      /\ Holds("append", Len(produced[r]), history[r], count[r], next[r])
  BY RunTypes
<1>2. Len(history[r]) \in Nat /\ next[r] \in 1..(Len(history[r]) + 1)
  BY <1>1, HoldsAppended
<1>3. \A i \in 1..Len(history[r]) : history[r][i] = Len(produced[r]) - Len(history[r]) + i
  BY <1>1 DEF Holds, Over
<1>4. next[r] <= Len(history[r]) => next[r] \in 1..Len(history[r])
  BY <1>2
<1>5. next[r] > Len(history[r]) => next[r] = Len(history[r]) + 1
  BY <1>2
<1> QED  BY <1>3, <1>4, <1>5

\* The rows of a run over its steps.
LEMMA RecallStep ==
  ASSUME Inv, NEW r \in Runs, Step(r), \A q \in Runs : RecallOf(q)
  PROVE  \A q \in Runs : RecallOf(q)'
<1> DEFINE n == Len(produced[r])
           h == history[r]
<1>1. Types /\ n \in Nat /\ h \in Seq(Nat) /\ Len(h) \in Nat /\ next[r] \in Nat
      /\ Holds(pc[r], n, h, count[r], next[r])
  BY RunTypes DEF Inv
<1>2. Cardinality(RowsOf(r)) \in Recalled(pc[r], n, h, next[r]) /\ Ordered(recall, RowsOf(r))
  BY DEF RecallOf
<1>10. ASSUME pc[r] = "append"
       PROVE  /\ next[r] <= Len(h) => h[next[r]] = n - Len(h) + next[r]
              /\ next[r] > Len(h) => next[r] = Len(h) + 1
  BY <1>10, NextPlace
<1>3. CASE RecallAppend(r)
  <2> DEFINE row == [run |-> {r}, thread |-> thread[r], step |-> h[next[r]]]
  <2>1. /\ recall' = Append(recall, row) /\ pc[r] = "append" /\ next[r] <= Len(h)
        /\ UNCHANGED <<pc, produced, history>> /\ next'[r] = next[r] + 1
    BY <1>1, <1>3 DEF RecallAppend, Types
  <2>2. row.run = {r} /\ row.step = h[next[r]]
    OBVIOUS
  <2> HIDE DEF row, n, h
  <2>3. Cardinality(RowsOf(r)) = n - Len(h) + next[r] - 1
    BY <1>2, <2>1 DEF Recalled
  <2>9. h[next[r]] = n - Len(h) + next[r]
    BY <1>10, <2>1
  <2>4. row.step = Cardinality(RowsOf(r)) + 1
    BY <1>1, <2>2, <2>3, <2>9
  <2>5. Ordered(recall, RowsOf(r))' /\ Cardinality(RowsOf(r))' = Cardinality(RowsOf(r)) + 1
    BY <1>1, <1>2, <2>1, <2>2, <2>4, RowAdded
  <2>6. Cardinality(RowsOf(r))' = n - Len(h) + next'[r] - 1
    BY <1>1, <2>1, <2>3, <2>5
  <2>7. RecallOf(r)'
    BY <2>1, <2>5, <2>6 DEF RecallOf, Recalled, n, h
  <2>8. ASSUME NEW q \in Runs \ {r} PROVE RecallOf(q)'
    <3>1. row.run # {q}
      BY <2>2
    <3>2. Stays(q)
      BY <1>3, AppendKeeps
    <3> QED  BY <1>1, <2>1, <3>1, <3>2, RecallStays DEF Stays, RecallOf
  <2> QED  BY <2>7, <2>8
<1>4. ASSUME UNCHANGED recall, \A q \in Runs \ {r} : Stays(q),
             Cardinality(RowsOf(r)) \in Recalled(pc'[r], Len(produced'[r]), history'[r], next'[r])
      PROVE  \A q \in Runs : RecallOf(q)'
  <2>1. ASSUME NEW q \in Runs \ {r} PROVE RecallOf(q)'
    BY <1>1, <1>4, <2>1, RecallStays DEF Stays, RecallOf
  <2>2. RecallOf(r)'
    BY <1>1, <1>4, RecallStays
  <2> QED  BY <2>1, <2>2
<1> HIDE DEF n, h
<1>5. CASE Hydrate(r)
  <2>1. UNCHANGED recall /\ pc[r] = "hydrate" /\ pc'[r] = "node" /\ produced'[r] = produced[r]
    BY <1>1, <1>5 DEF Hydrate, Goto, Types
  <2> QED  BY <1>2, <1>4, <1>5, <2>1, HydrateKeeps DEF Recalled, n
<1>6. CASE PersistedAll(r)
  <2>1. UNCHANGED recall /\ pc[r] = "append" /\ pc'[r] = "page" /\ produced'[r] = produced[r]
        /\ next[r] > Len(h)
    BY <1>1, <1>6 DEF PersistedAll, Goto, Types, h
  <2>2. Cardinality(RowsOf(r)) = n - Len(h) + next[r] - 1
    BY <1>2, <2>1 DEF Recalled
  <2>4. next[r] = Len(h) + 1
    BY <1>10, <2>1
  <2>3. Cardinality(RowsOf(r)) = n
    BY <1>1, <2>2, <2>4
  <2> QED  BY <1>4, <1>6, <2>1, <2>3, PersistedKeeps DEF Recalled, n
<1>7. CASE PageIfNeeded(r)
  <2>1. UNCHANGED <<recall, produced>> /\ pc[r] = "page" /\ pc'[r] \in {"page", "node", "archive"}
    BY <1>7, PageKeeps DEF PageIfNeeded
  <2> QED  BY <1>2, <1>4, <1>7, <2>1, PageKeeps DEF Recalled, n
<1>8. CASE ArchivalAdd(r)
  <2>1. UNCHANGED <<recall, produced>> /\ pc[r] = "archive" /\ pc'[r] = "cut"
    BY <1>8, ArchivalKeeps DEF ArchivalAdd
  <2> QED  BY <1>2, <1>4, <1>8, <2>1, ArchivalKeeps DEF Recalled, n
<1>9. CASE Paged(r)
  <2>1. UNCHANGED <<recall, produced>> /\ pc[r] = "cut" /\ pc'[r] \in {"page", "node"}
    BY <1>9, PagedKeeps DEF Paged
  <2> QED  BY <1>2, <1>4, <1>9, <2>1, PagedKeeps DEF Recalled, n
<1> QED  BY <1>3, <1>5, <1>6, <1>7, <1>8, <1>9 DEF Step

LEMMA RecallNext ==
  ASSUME Inv, [Next]_vars, \A q \in Runs : RecallOf(q)
  PROVE  \A q \in Runs : RecallOf(q)'
<1>1. Types
  BY DEF Inv
<1>2. ASSUME NEW r \in Runs, NEW sizes \in NewSteps, Node(r, sizes)
      PROVE  \A q \in Runs : RecallOf(q)'
  <2> DEFINE n == Len(produced[r])
             h == history[r]
  <2>1. /\ UNCHANGED recall /\ (\A q \in Runs \ {r} : Stays(q)) /\ pc[r] = "node"
        /\ pc'[r] = "append" /\ next'[r] = Len(h) + 1
        /\ Len(produced'[r]) - Len(history'[r]) = n - Len(h)
    BY <1>2, NewStepsAreSteps, NodeKeeps DEF Node
  <2>2. n \in Nat /\ Len(h) \in Nat
    BY RunTypes
  <2>3. Cardinality(RowsOf(r)) = n
    BY <2>1 DEF RecallOf, Recalled
  <2>4. Len(produced'[r]) - Len(history'[r]) + next'[r] - 1 = n
    <3>1. (n - Len(h)) + (Len(h) + 1) - 1 = n
      BY <2>2
    <3> QED  BY <2>1, <3>1
  <2>5. RecallOf(r)'
    BY <1>1, <2>1, <2>3, <2>4, RecallStays DEF Recalled
  <2>6. \A q \in Runs \ {r} : RecallOf(q)'
    BY <1>1, <2>1, RecallStays DEF Stays, RecallOf
  <2> QED  BY <2>5, <2>6
<1>3. ASSUME NEW r \in Runs, End(r) \/ Die(r)
      PROVE  \A q \in Runs : RecallOf(q)'
  <2>1. PICK label \in Over : Leave(r, label) /\ (label = "dead" \/ pc[r] = "node")
    BY <1>3 DEF End, Die, Over
  <2>2. UNCHANGED <<recall, produced>> /\ pc'[r] = label /\ \A q \in Runs \ {r} : Stays(q)
    BY <2>1, LeaveKeeps
  <2>3. Cardinality(RowsOf(r)) \in Nat
    BY FS_CardinalityType DEF RecallOf, Ordered
  <2>4. Cardinality(RowsOf(r)) \in Recalled(pc'[r], Len(produced'[r]), history'[r], next'[r])
    BY <2>1, <2>2, <2>3 DEF RecallOf, Recalled, Over
  <2>5. RecallOf(r)'
    BY <1>1, <2>2, <2>4, RecallStays
  <2>6. \A q \in Runs \ {r} : RecallOf(q)'
    BY <1>1, <2>2, RecallStays DEF Stays, RecallOf
  <2> QED  BY <2>5, <2>6
<1>4. ASSUME NEW t \in Threads,
             RecallByOthers(t) \/ \E kind \in OtherKinds : ArchiveByOthers(kind, t)
      PROVE  \A q \in Runs : RecallOf(q)'
  <2>1. UNCHANGED local
    BY <1>4, OthersKeep
  <2>2. UNCHANGED recall \/ \E row : recall' = Append(recall, row) /\ row.run = {}
    <3>1. CASE RecallByOthers(t)
      <4>1. recall' = Append(recall, [run |-> {}, thread |-> t, step |-> 0])
        BY <3>1 DEF RecallByOthers
      <4>2. [run |-> {}, thread |-> t, step |-> 0].run = {}
        OBVIOUS
      <4> QED  BY <4>1, <4>2
    <3>2. CASE \E kind \in OtherKinds : ArchiveByOthers(kind, t)
      BY <3>2 DEF ArchiveByOthers
    <3> QED  BY <1>4, <3>1, <3>2
  <2>3. \A q : UNCHANGED recall \/ \E row : recall' = Append(recall, row) /\ row.run # {q}
    BY <2>2
  <2> QED  BY <1>1, <2>1, <2>3, RecallStays DEF local, RecallOf
<1>5. CASE UNCHANGED vars
  BY <1>1, <1>5, RecallStays DEF vars, local, RecallOf
<1> QED  BY <1>2, <1>3, <1>4, <1>5, RecallStep DEF Next

\* Whatever pages are cut and wherever a run dies, the recall table has its steps
\* from the first one on, each once and in order, and all of them when a node
\* runs (persist_new_history).
THEOREM RecallKeepsTheSteps == Spec => []RecallIsExact
<1>1. (\A r \in Runs : RecallOf(r)) => RecallIsExact
  BY DEF RecallIsExact, RecallOf, Ordered, Recalled
<1>2. Inv /\ (\A r \in Runs : RecallOf(r)) /\ [Next]_vars => (\A r \in Runs : RecallOf(r))'
  BY RecallNext
<1> QED  BY <1>1, <1>2, RecallInit, Invariance, PTL DEF Spec
-----------------------------------------------------------------------------
\* The summaries of a run are as they were unless the run adds one ...
LEMMA ArchivesKept ==
  ASSUME Types, NEW r, UNCHANGED archive \/ \E row : archive' = Append(archive, row) /\ row.run # {r},
         Apart(archive, ArchivesOf(r))
  PROVE  /\ Apart(archive, ArchivesOf(r))'
         /\ AllSteps(archive, ArchivesOf(r))' = AllSteps(archive, ArchivesOf(r))
<1>1. CASE UNCHANGED archive
  BY <1>1 DEF ArchivesOf, Apart, AllSteps
<1>2. ASSUME NEW row, archive' = Append(archive, row), row.run # {r}
      PROVE  /\ Apart(archive, ArchivesOf(r))'
             /\ AllSteps(archive, ArchivesOf(r))' = AllSteps(archive, ArchivesOf(r))
  <2> DEFINE n == Len(archive)
  <2>1. /\ n \in Nat /\ DOMAIN archive = 1..n /\ DOMAIN archive' = 1..(n + 1)
        /\ archive'[n + 1] = row /\ \A i \in 1..n : archive'[i] = archive[i]
    BY <1>2, LenProperties DEF Types
  <2> HIDE DEF n
  <2>2. ArchivesOf(r)' = ArchivesOf(r)
    BY <1>2, <2>1 DEF ArchivesOf
  <2>3. \A i \in ArchivesOf(r) : archive'[i] = archive[i]
    BY <2>1 DEF ArchivesOf
  <2> QED  BY <2>2, <2>3 DEF Apart, AllSteps
<1> QED  BY <1>1, <1>2

\* ... which is then of the steps that follow those it has summaries of.
LEMMA ArchiveAdded ==
  ASSUME Types, NEW r, NEW row, archive' = Append(archive, row), row.run = {r},
         NEW m \in Nat, NEW k \in Nat, m < k, row.steps = (m + 1)..k,
         Apart(archive, ArchivesOf(r)), AllSteps(archive, ArchivesOf(r)) = 1..m
  PROVE  Apart(archive, ArchivesOf(r))' /\ AllSteps(archive, ArchivesOf(r))' = 1..k
<1> DEFINE n == Len(archive)
           mine == ArchivesOf(r)
<1>1. /\ n \in Nat /\ DOMAIN archive = 1..n /\ DOMAIN archive' = 1..(n + 1)
      /\ archive'[n + 1] = row /\ \A i \in 1..n : archive'[i] = archive[i]
  BY LenProperties DEF Types
<1> HIDE DEF n
<1>2. mine' = mine \union {n + 1} /\ n + 1 \notin mine /\ mine \subseteq 1..n
  BY <1>1 DEF ArchivesOf
<1>3. \A i \in mine : archive'[i] = archive[i]
  BY <1>1, <1>2
<1>4. archive'[n + 1].steps = (m + 1)..k
  BY <1>1
<1>5. /\ \A i \in mine : archive[i].steps # {}
      /\ \A i \in mine : \A j \in mine \ {i} : archive[i].steps \intersect archive[j].steps = {}
      /\ UNION {archive[i].steps : i \in mine} = 1..m
  BY DEF Apart, AllSteps
<1> HIDE DEF mine
<1>6. UNION {archive'[i].steps : i \in mine'} = 1..k
  <2>1. {archive'[i].steps : i \in mine'} = {archive[i].steps : i \in mine} \union {(m + 1)..k}
    BY <1>2, <1>3, <1>4
  <2>2. UNION {archive'[i].steps : i \in mine'} = (1..m) \union ((m + 1)..k)
    BY <1>5, <2>1
  <2>3. (1..m) \union ((m + 1)..k) = 1..k
    OBVIOUS
  <2> QED  BY <2>2, <2>3
<1>7. \A i \in mine : archive[i].steps \subseteq 1..m
  BY <1>5
<1>8. \A i \in mine : archive[i].steps \intersect ((m + 1)..k) = {}
  <2>1. (1..m) \intersect ((m + 1)..k) = {}
    OBVIOUS
  <2> QED  BY <1>7, <2>1
<1>9. \A i \in mine' : archive'[i].steps # {}
  <2>1. m + 1 \in (m + 1)..k
    OBVIOUS
  <2>2. archive'[n + 1].steps # {}
    BY <1>4, <2>1
  <2> QED  BY <1>2, <1>3, <1>5, <2>2
<1>10. ASSUME NEW i \in mine', NEW j \in mine' \ {i}
       PROVE  archive'[i].steps \intersect archive'[j].steps = {}
  <2>1. CASE i = n + 1
    BY <1>2, <1>3, <1>4, <1>8, <2>1
  <2>2. CASE j = n + 1
    BY <1>2, <1>3, <1>4, <1>8, <2>2
  <2>3. CASE i \in mine /\ j \in mine
    BY <1>3, <1>5, <2>3
  <2> QED  BY <1>2, <2>1, <2>2, <2>3
<1> QED  BY <1>6, <1>9, <1>10 DEF Apart, AllSteps, mine

\* A step after which the summaries of a run and what they stand for are the same.
LEMMA SummariesStay ==
  ASSUME Types, NEW q, UNCHANGED archive \/ \E row : archive' = Append(archive, row) /\ row.run # {q},
         SummariesOf(q),
         pc'[q] \notin Over =>
           /\ pc[q] \notin Over
           /\ Summed(pc'[q], Len(produced'[q]), history'[q])
                = Summed(pc[q], Len(produced[q]), history[q])
  PROVE  SummariesOf(q)'
BY ArchivesKept DEF SummariesOf

LEMMA SummariesInit == Init => \A r \in Runs : SummariesOf(r)
<1> SUFFICES ASSUME Init, NEW r \in Runs PROVE SummariesOf(r)
  OBVIOUS
<1>1. /\ archive = <<>> /\ pc[r] \in {"node", "hydrate"} /\ produced[r] = <<>> /\ history[r] = <<>>
  BY DEF Init
<1>2. ArchivesOf(r) = {}
  BY <1>1 DEF ArchivesOf
<1>3. Len(produced[r]) = 0 /\ Len(history[r]) = 0
  BY <1>1
<1>4. AllSteps(archive, {}) = {} /\ Apart(archive, {}) /\ 1..0 = {}
  BY DEF AllSteps, Apart
<1>5. Summed(pc[r], Len(produced[r]), history[r]) = 0
  BY <1>1, <1>3 DEF Summed, Over
<1> QED  BY <1>2, <1>4, <1>5 DEF SummariesOf

LEMMA SummariesStep ==
  ASSUME Inv, NEW r \in Runs, Step(r), \A q \in Runs : SummariesOf(q)
  PROVE  \A q \in Runs : SummariesOf(q)'
<1> DEFINE n == Len(produced[r])
           h == history[r]
<1>1. Types /\ n \in Nat /\ h \in Seq(Nat) /\ Len(h) \in Nat /\ PreserveRecentSteps \in Nat
      /\ Holds(pc[r], n, h, count[r], next[r])
  BY RunTypes DEF Inv
<1>2. CASE ArchivalAdd(r)
  <2> DEFINE row == [kind |-> "episode", run |-> {r}, thread |-> thread[r],
                     steps |-> Range(PagedSteps(r))]
             m == n - Len(h)
             k == n - PreserveRecentSteps
  <2>1. /\ archive' = Append(archive, row) /\ pc[r] = "archive" /\ pc'[r] = "cut"
        /\ UNCHANGED <<produced, history>>
        /\ Range(PagedSteps(r)) = (m + 1)..k /\ \A q \in Runs \ {r} : Stays(q)
    BY <1>2, ArchivalKeeps DEF ArchivalAdd
  <2>2. row.run = {r} /\ row.steps = Range(PagedSteps(r))
    OBVIOUS
  <2>3. m \in Nat /\ k \in Nat /\ m < k
    <3>1. Len(h) <= n /\ Len(h) > PreserveRecentSteps
      BY <1>1, <2>1 DEF Holds, Over
    <3>2. n \in Nat /\ Len(h) \in Nat /\ PreserveRecentSteps \in Nat
      BY <1>1
    <3> HIDE DEF n, h
    <3>3. n - Len(h) \in Nat /\ n - PreserveRecentSteps \in Nat
      BY <3>1, <3>2
    <3>4. n - Len(h) < n - PreserveRecentSteps
      BY <3>1, <3>2
    <3> QED  BY <3>3, <3>4
  <2>4. Apart(archive, ArchivesOf(r)) /\ AllSteps(archive, ArchivesOf(r)) = 1..m
    BY <2>1 DEF SummariesOf, Summed, Over
  <2> HIDE DEF row, m, k
  <2>5. Apart(archive, ArchivesOf(r))' /\ AllSteps(archive, ArchivesOf(r))' = 1..k
    <3>1. archive' = Append(archive, row) /\ row.run = {r} /\ row.steps = (m + 1)..k /\ Types
      BY <1>1, <2>1, <2>2
    <3> QED  BY <2>3, <2>4, <3>1, ArchiveAdded
  <2>6. SummariesOf(r)'
    BY <2>1, <2>5 DEF SummariesOf, Summed, Over, k
  <2>7. ASSUME NEW q \in Runs \ {r} PROVE SummariesOf(q)'
    <3>1. row.run # {q}
      BY <2>2
    <3> QED  BY <1>1, <2>1, <3>1, SummariesStay DEF Stays
  <2> QED  BY <2>6, <2>7
<1>3. ASSUME UNCHANGED archive, \A q \in Runs \ {r} : Stays(q), pc[r] \notin Over,
             Summed(pc'[r], Len(produced'[r]), history'[r]) = Summed(pc[r], n, h)
      PROVE  \A q \in Runs : SummariesOf(q)'
  <2>1. ASSUME NEW q \in Runs \ {r} PROVE SummariesOf(q)'
    BY <1>1, <1>3, <2>1, SummariesStay DEF Stays
  <2>2. SummariesOf(r)'
    BY <1>1, <1>3, SummariesStay
  <2> QED  BY <2>1, <2>2
<1>4. ASSUME UNCHANGED <<archive, produced, history>>, \A q \in Runs \ {r} : Stays(q),
             {pc[r], pc'[r]} \subseteq Labels \ (Over \union {"cut"})
      PROVE  \A q \in Runs : SummariesOf(q)'
  <2>1. Summed(pc'[r], Len(produced'[r]), history'[r]) = Summed(pc[r], n, h)
    BY <1>4 DEF Summed
  <2> QED  BY <1>3, <1>4, <2>1
<1>5. CASE Hydrate(r)
  <2>1. UNCHANGED <<archive, produced, history>> /\ pc[r] = "hydrate" /\ pc'[r] = "node"
    BY <1>1, <1>5 DEF Hydrate, Goto, Types
  <2> QED  BY <1>4, <1>5, <2>1, HydrateKeeps DEF Labels, Over
<1>6. CASE RecallAppend(r)
  <2>1. UNCHANGED <<archive, produced, history>> /\ pc[r] = "append" /\ pc'[r] = "append"
    BY <1>6 DEF RecallAppend
  <2> QED  BY <1>4, <1>6, <2>1, AppendKeeps DEF Labels, Over
<1>7. CASE PersistedAll(r)
  <2>1. UNCHANGED <<archive, produced, history>> /\ pc[r] = "append" /\ pc'[r] = "page"
    BY <1>1, <1>7 DEF PersistedAll, Goto, Types
  <2> QED  BY <1>4, <1>7, <2>1, PersistedKeeps DEF Labels, Over
<1>8. CASE PageIfNeeded(r)
  <2>1. /\ UNCHANGED <<archive, produced, history>> /\ pc[r] = "page"
        /\ pc'[r] \in {"page", "node", "archive"}
    BY <1>8, PageKeeps DEF PageIfNeeded
  <2> QED  BY <1>4, <1>8, <2>1, PageKeeps DEF Labels, Over
<1>9. CASE Paged(r)
  <2>1. /\ UNCHANGED <<archive, produced>> /\ pc[r] = "cut" /\ pc'[r] \in {"page", "node"}
        /\ Len(history'[r]) = PreserveRecentSteps
    BY <1>9, PagedKeeps DEF Paged
  <2>2. Summed(pc'[r], Len(produced'[r]), history'[r]) = Summed(pc[r], n, h)
    BY <2>1 DEF Summed, Over
  <2> QED  BY <1>3, <1>9, <2>1, <2>2, PagedKeeps DEF Over
<1> QED  BY <1>2, <1>5, <1>6, <1>7, <1>8, <1>9 DEF Step

LEMMA SummariesNext ==
  ASSUME Inv, [Next]_vars, \A q \in Runs : SummariesOf(q)
  PROVE  \A q \in Runs : SummariesOf(q)'
<1>1. Types
  BY DEF Inv
<1>2. ASSUME NEW r \in Runs, NEW sizes \in NewSteps, Node(r, sizes)
      PROVE  \A q \in Runs : SummariesOf(q)'
  <2>1. /\ UNCHANGED archive /\ (\A q \in Runs \ {r} : Stays(q)) /\ pc[r] = "node"
        /\ pc'[r] = "append"
        /\ Len(produced'[r]) - Len(history'[r]) = Len(produced[r]) - Len(history[r])
    BY <1>2, NewStepsAreSteps, NodeKeeps DEF Node
  <2>2. SummariesOf(r)'
    BY <1>1, <2>1, SummariesStay DEF Summed, Over
  <2>3. \A q \in Runs \ {r} : SummariesOf(q)'
    BY <1>1, <2>1, SummariesStay DEF Stays
  <2> QED  BY <2>2, <2>3
<1>3. ASSUME NEW r \in Runs, End(r) \/ Die(r)
      PROVE  \A q \in Runs : SummariesOf(q)'
  <2>1. PICK label \in Over : Leave(r, label)
    BY <1>3 DEF End, Die, Over
  <2>2. UNCHANGED archive /\ pc'[r] \in Over /\ \A q \in Runs \ {r} : Stays(q)
    BY <2>1, LeaveKeeps
  <2>3. SummariesOf(r)'
    BY <1>1, <2>2, SummariesStay
  <2>4. \A q \in Runs \ {r} : SummariesOf(q)'
    BY <1>1, <2>2, SummariesStay DEF Stays
  <2> QED  BY <2>3, <2>4
<1>4. ASSUME NEW t \in Threads, RecallByOthers(t)
      PROVE  \A q \in Runs : SummariesOf(q)'
  <2>1. UNCHANGED <<local, archive>>
    BY <1>4 DEF RecallByOthers
  <2> QED  BY <1>1, <2>1, SummariesStay DEF local
<1>5. ASSUME NEW t \in Threads, NEW kind \in OtherKinds, ArchiveByOthers(kind, t)
      PROVE  \A q \in Runs : SummariesOf(q)'
  <2> DEFINE row == [kind |-> kind, run |-> {}, thread |-> t, steps |-> {}]
  <2>1. UNCHANGED local /\ archive' = Append(archive, row)
    BY <1>5 DEF ArchiveByOthers
  <2>2. \A q : row.run # {q}
    OBVIOUS
  <2> HIDE DEF row
  <2> QED  BY <1>1, <2>1, <2>2, SummariesStay DEF local
<1>6. CASE UNCHANGED vars
  BY <1>1, <1>6, SummariesStay DEF vars, local
<1> QED  BY <1>2, <1>3, <1>4, <1>5, <1>6, SummariesStep DEF Next

\* What the summaries and the history of a run have between them.
LEMMA SummariesAndHistory ==
  ASSUME Inv, NEW r \in Runs, SummariesOf(r)
  PROVE  /\ r \in Alive =>
              AllSteps(archive, ArchivesOf(r)) \union Range(history[r]) = 1 .. Len(produced[r])
         /\ pc[r] # "cut" => \A i \in ArchivesOf(r) :
                               archive[i].steps \intersect Range(history[r]) = {}
<1> DEFINE n == Len(produced[r])
           h == history[r]
<1>1. n \in Nat /\ h \in Seq(Nat) /\ Len(h) \in Nat /\ PreserveRecentSteps \in Nat
      /\ Holds(pc[r], n, h, count[r], next[r])
  BY RunTypes
<1>2. CASE pc[r] \in Over
  <2>1. h = <<>>
    BY <1>1, <1>2 DEF Holds
  <2>2. Range(h) = {}
    BY <2>1 DEF Range
  <2> QED  BY <1>2, <2>2 DEF Alive, Over
<1>3. CASE pc[r] \notin Over
  <2>1. AllSteps(archive, ArchivesOf(r)) = 1..Summed(pc[r], n, h)
    BY <1>3 DEF SummariesOf
  <2>2. Len(h) <= n /\ \A i \in 1..Len(h) : h[i] = n - Len(h) + i
    BY <1>1, <1>3 DEF Holds
  <2>3. pc[r] = "cut" => Len(h) > PreserveRecentSteps
    BY <1>1 DEF Holds
  <2> HIDE DEF n, h
  <2>4. Range(h) = (n - Len(h) + 1)..n
    BY <1>1, <2>2, StepsHeld
  <2>5. CASE pc[r] = "cut"
    <3>1. Summed(pc[r], n, h) = n - PreserveRecentSteps
      BY <1>3, <2>5 DEF Summed, Over
    <3>2. (1..(n - PreserveRecentSteps)) \union ((n - Len(h) + 1)..n) = 1..n
      BY <1>1, <2>2, <2>3, <2>5
    <3> QED  BY <2>1, <2>4, <2>5, <3>1, <3>2 DEF n, h
  <2>6. CASE pc[r] # "cut"
    <3>1. Summed(pc[r], n, h) = n - Len(h)
      BY <1>3, <2>6 DEF Summed
    <3>2. /\ (1..(n - Len(h))) \union ((n - Len(h) + 1)..n) = 1..n
          /\ (1..(n - Len(h))) \intersect ((n - Len(h) + 1)..n) = {}
      BY <1>1, <2>2
    <3>3. \A i \in ArchivesOf(r) : archive[i].steps \subseteq AllSteps(archive, ArchivesOf(r))
      BY DEF AllSteps
    <3> QED  BY <2>1, <2>4, <2>6, <3>1, <3>2, <3>3 DEF n, h
  <2> QED  BY <2>5, <2>6
<1> QED  BY <1>2, <1>3

\* Wherever a run dies, each of its steps is in its history or in exactly one of
\* its summaries, and none is in both but between the two writes of a page
\* (page_if_needed).
THEOREM SummariesCoverOnce == Spec => []SummarisedOnce
<1>1. Inv /\ (\A r \in Runs : SummariesOf(r)) => SummarisedOnce
  <2> SUFFICES ASSUME Inv, \A r \in Runs : SummariesOf(r) PROVE SummarisedOnce
    OBVIOUS
  <2>1. \A r \in Alive :
          AllSteps(archive, ArchivesOf(r)) \union Range(history[r]) = 1 .. Len(produced[r])
    BY SummariesAndHistory DEF Alive
  <2>2. \A r \in Runs : \A i \in ArchivesOf(r) :
          pc[r] # "cut" => archive[i].steps \intersect Range(history[r]) = {}
    BY SummariesAndHistory
  <2>3. \A r \in Runs : Apart(archive, ArchivesOf(r))
    BY DEF SummariesOf
  <2>4. \A r \in Alive :
          (UNION {archive[i].steps : i \in ArchivesOf(r)}) \union Range(history[r])
            = 1 .. Len(produced[r])
    BY <2>1 DEF AllSteps
  <2>5. \A r \in Runs : \A i \in ArchivesOf(r) :
          /\ archive[i].steps # {}
          /\ \A j \in ArchivesOf(r) \ {i} : archive[i].steps \intersect archive[j].steps = {}
    BY <2>3 DEF Apart
  <2> QED  BY <2>2, <2>4, <2>5 DEF SummarisedOnce
<1>2. Inv /\ (\A r \in Runs : SummariesOf(r)) /\ [Next]_vars => (\A r \in Runs : SummariesOf(r))'
  BY SummariesNext
<1> QED  BY <1>1, <1>2, SummariesInit, Invariance, PTL DEF Spec
-----------------------------------------------------------------------------
\* A set of places in a sequence has a last one.
Below == OpToRel(<, Nat)

LEMMA BelowIsWellFounded == IsWellFoundedOn(Below, Nat)
BY NatLessThanWellFounded DEF Below

LEMMA LastExists ==
  ASSUME NEW n \in Nat, NEW S, S \subseteq 1..n, S # {}
  PROVE  \E m \in S : \A j \in S : j <= m
<1> DEFINE D == {n - i : i \in S}
<1>1. D \subseteq Nat /\ D # {}
  <2>1. \A i \in 1..n : n - i \in Nat
    OBVIOUS
  <2>2. D \subseteq Nat
    BY <2>1
  <2>3. PICK i \in S : TRUE
    OBVIOUS
  <2>4. n - i \in D
    OBVIOUS
  <2> QED  BY <2>2, <2>4
<1>2. PICK d \in D : \A e \in D : ~(<<e, d>> \in Below)
  BY <1>1, BelowIsWellFounded, WFMin
<1>3. PICK m \in S : d = n - m
  BY <1>2
<1>4. \A e \in Nat, f \in Nat : e < f => <<e, f>> \in Below
  BY DEF Below, OpToRel
<1>5. ASSUME NEW j \in S PROVE j <= m
  <2>1. n - j \in D
    OBVIOUS
  <2>2. ~(n - j < d)
    BY <1>1, <1>2, <1>4, <2>1
  <2>3. j \in 1..n /\ m \in 1..n
    OBVIOUS
  <2> QED  BY <1>3, <2>2, <2>3
<1> QED  BY <1>5

\* The newest rows of a thread that has rows are some, and the thread's.
LEMMA NewestRowsOfThread ==
  ASSUME Types, NEW t
  PROVE  /\ IsFiniteSet(NewestRows(t)) /\ \A i \in NewestRows(t) : recall[i].thread = t
         /\ (\E i \in DOMAIN recall : recall[i].thread = t) => NewestRows(t) # {}
<1> DEFINE n == Len(recall)
           mine == {i \in DOMAIN recall : recall[i].thread = t}
<1>1. n \in Nat /\ DOMAIN recall = 1..n
  BY LenProperties DEF Types
<1> HIDE DEF n
<1>2. NewestRows(t) \subseteq mine /\ mine \subseteq 1..n
  BY <1>1 DEF NewestRows
<1>3. IsFiniteSet(NewestRows(t))
  <2>1. IsFiniteSet(1..n)
    BY <1>1, FS_Interval
  <2> QED  BY <1>2, <2>1, FS_Subset
<1>4. ASSUME mine # {} PROVE NewestRows(t) # {}
  <2>1. PICK m \in mine : \A j \in mine : j <= m
    BY <1>1, <1>2, <1>4, LastExists
  <2>2. {j \in mine : j > m} = {}
    <3>1. \A j \in mine : j \in 1..n /\ m \in 1..n /\ j <= m
      BY <1>2, <2>1
    <3> QED  BY <1>1, <3>1
  <2>3. Cardinality({j \in mine : j > m}) = 0
    BY <2>2, FS_EmptySet
  <2>4. 0 < RecallWindow
    BY PagerAssumption
  <2> QED  BY <2>1, <2>3, <2>4 DEF NewestRows
<1> QED  BY <1>2, <1>3, <1>4

\* What hydrate shows a run.
LEMMA HydrateShows ==
  ASSUME Inv, NEW r \in Runs, Hydrate(r)
  PROVE  /\ \A i \in shown'[r].recall : recall[i].thread = thread[r]
         /\ \A i \in shown'[r].archive : archive[i].thread = thread[r]
         /\ (\E i \in DOMAIN recall : recall[i].thread = thread[r]) => shown'[r].recall # {}
<1> DEFINE rows == NewestRows(thread[r])
<1>1. PICK events \in kSubset(Min2(RecallLimit, Cardinality(rows)), rows),
           near \in kSubset(Min2(CandidateLimit, Len(archive)), DOMAIN archive) :
        \E results \in kSubset(Min2(ArchivalLimit, Cardinality(Episodes(thread[r], near))),
                               Episodes(thread[r], near)) :
          shown' = [shown EXCEPT ![r] = [recall |-> events, archive |-> results]]
  BY DEF Hydrate
<1>2. PICK results \in SUBSET Episodes(thread[r], near) :
        shown' = [shown EXCEPT ![r] = [recall |-> events, archive |-> results]]
  BY <1>1 DEF kSubset
<1>3. shown'[r].recall = events /\ shown'[r].archive = results
  BY <1>2 DEF Inv, Types
<1>4. events \subseteq rows /\ Cardinality(events) = Min2(RecallLimit, Cardinality(rows))
  BY DEF kSubset
<1>5. /\ IsFiniteSet(rows) /\ \A i \in rows : recall[i].thread = thread[r]
      /\ (\E i \in DOMAIN recall : recall[i].thread = thread[r]) => rows # {}
  BY NewestRowsOfThread DEF Inv
<1> HIDE DEF rows
<1>6. \A i \in results : archive[i].thread = thread[r]
  BY DEF Episodes
<1>7. ASSUME rows # {} PROVE events # {}
  <2>1. Cardinality(rows) \in Nat /\ Cardinality(rows) # 0
    BY <1>5, <1>7, FS_CardinalityType, FS_EmptySet
  <2>2. RecallLimit \in Nat /\ RecallLimit >= 1
    BY PagerAssumption
  <2>3. Min2(RecallLimit, Cardinality(rows)) # 0
    BY <2>1, <2>2 DEF Min2
  <2> QED  BY <1>4, <2>3, FS_EmptySet
<1> QED  BY <1>3, <1>4, <1>5, <1>6, <1>7

\* A run is shown, at its start, rows of its own thread alone, and some if there
\* are any, however many rows the other threads have added (hydrate).
THEOREM ResumesInformed == Spec => ResumeIsInformed
<1> DEFINE Informed(r) ==
             /\ \A i \in shown'[r].recall : recall[i].thread = thread[r]
             /\ \A i \in shown'[r].archive : archive[i].thread = thread[r]
             /\ (\E i \in DOMAIN recall : recall[i].thread = thread[r]) =>
                  shown'[r].recall # {}
<1>1. ASSUME Inv, [Next]_vars, NEW r \in Runs, pc[r] = "hydrate", pc'[r] = "node"
      PROVE  Hydrate(r)
  <2>1. ~Stays(r)
    BY <1>1 DEF Stays
  <2>2. ASSUME NEW q \in Runs, Step(q) PROVE Hydrate(r)
    <3>1. q = r
      BY <1>1, <2>1, <2>2, HydrateKeeps, AppendKeeps, PersistedKeeps, PageKeeps, ArchivalKeeps,
         PagedKeeps DEF Step
    <3> QED  BY <1>1, <2>2, <3>1
             DEF Step, RecallAppend, PersistedAll, PageIfNeeded, ArchivalAdd, Paged
  <2>3. ASSUME NEW q \in Runs, NEW sizes \in NewSteps, Node(q, sizes) PROVE FALSE
    <3>1. q = r
      BY <1>1, <2>1, <2>3, NewStepsAreSteps, NodeKeeps
    <3> QED  BY <1>1, <2>3, <3>1 DEF Node
  <2>4. ASSUME NEW q \in Runs, End(q) \/ Die(q) PROVE FALSE
    <3>1. PICK label \in Over : Leave(q, label)
      BY <2>4 DEF End, Die, Over
    <3>2. pc'[q] = label /\ \A p \in Runs \ {q} : Stays(p)
      BY <1>1, <3>1, LeaveKeeps
    <3> QED  BY <1>1, <2>1, <3>2 DEF Over
  <2>5. ASSUME NEW t \in Threads,
               RecallByOthers(t) \/ \E kind \in OtherKinds : ArchiveByOthers(kind, t)
        PROVE  FALSE
    <3>1. UNCHANGED local
      BY <1>1, <2>5, OthersKeep
    <3> QED  BY <1>1, <3>1 DEF local
  <2>6. ~UNCHANGED vars
    BY <1>1 DEF vars, local
  <2> QED  BY <1>1, <2>2, <2>3, <2>4, <2>5, <2>6 DEF Next
<1>2. Inv /\ [Next]_vars =>
        [\A r \in Runs : pc[r] = "hydrate" /\ pc'[r] = "node" => Informed(r)]_vars
  BY <1>1, HydrateShows
<1> QED  BY <1>2, Invariance, PTL DEF Spec, ResumeIsInformed
=============================================================================
