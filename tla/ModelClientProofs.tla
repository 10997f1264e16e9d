-------------------------- MODULE ModelClientProofs --------------------------
(***************************************************************************)
(* The retries of a call, for any number of retries, size of a read and    *)
(* answers. RetriesAreEarned says nothing of the request that is made      *)
(* next; what makes it inductive is that stream() only ever stands before  *)
(* a request with an attempt left and nothing but transient failures       *)
(* behind it, that it reads only what the last reply was, and that         *)
(* complete() stands before a second request only without its format.      *)
(*                                                                         *)
(* The simulation of TokenStream follows from what has been yielded at     *)
(* each place, and the types from there being no more in the buffer than   *)
(* was read, and no more read than was sent.                               *)
(*                                                                         *)
(* That the text given is the answer rests on one number: the frames m     *)
(* that have been taken. The buffer has the bytes from the end of frame m  *)
(* to the last byte read, each still telling its frame and whether it is   *)
(* a newline (Consumed), so that the separator that is found is that of    *)
(* frame m + 1; and what was yielded is the text of the first m frames,    *)
(* none of which ends the answer (UpToHere). That only a cut harms a piece *)
(* rests on where reads end: at a multiple of their size, or where the     *)
(* answer does, in a frame that is never taken (HarmInv).                  *)
(***************************************************************************)
EXTENDS ModelClient, SequenceTheorems, FiniteSetTheorems, WellFoundedInduction, TLAPS

ReplyKinds == {"ok", "permanent"} \cup Posts
Transient == {"transient", "unreachable"}

\* How a call stands when it is about to ask or is reading an answer.
StreamStands ==
  call = "stream" =>
    /\ pc = "request" =>
         Len(replies) < MaxAttempts /\ \A i \in 1 .. Len(replies) : replies[i] \in Transient
    /\ pc = "reading" => replies # <<>> /\ replies[Len(replies)] = "ok"
CompleteStands ==
  call = "complete" =>
    /\ pc = "request" =>
         Len(replies) = 0 \/ (Len(replies) = 1 /\ replies[1] = "rejected" /\ ~format)
    /\ pc # "reading"

RetryInv ==
  /\ replies \in Seq(ReplyKinds) /\ call \in {"stream", "complete"}
  /\ pc = "called" => replies = <<>>
  /\ pc # "ended" => outcome = "none"
  /\ StreamStands /\ CompleteStands /\ RetriesAreEarned
-----------------------------------------------------------------------------
\* There is at least one attempt.
LEMMA AttemptsArePositive == MaxAttempts \in Nat /\ MaxAttempts >= 1
BY ClientAssumption DEF MaxAttempts, Max2

\* What a further reply does to the sequence of the replies.
LEMMA OneMoreReply ==
  ASSUME replies \in Seq(ReplyKinds), NEW kind \in ReplyKinds, Reply(kind)
  PROVE  /\ replies' \in Seq(ReplyKinds) /\ Len(replies') = Len(replies) + 1
         /\ replies'[Len(replies')] = kind /\ Last(replies') = kind
         /\ \A i \in 1 .. Len(replies) : replies'[i] = replies[i]
         /\ DOMAIN replies' = 1 .. Len(replies) + 1 /\ replies' # <<>>
BY DEF Reply, Last

LEMMA RetryInit == Init => RetryInv
BY DEF Init, RetryInv, StreamStands, CompleteStands, RetriesAreEarned

\* A reply to stream() ends the call, is read, or is a failure to try again.
LEMMA StreamRequestKeeps ==
  ASSUME RetryInv, StreamRequest
  PROVE  RetryInv'
<1>1. /\ pc = "request" /\ call = "stream" /\ call' = call /\ outcome = "none"
      /\ replies \in Seq(ReplyKinds)
      /\ Len(replies) < MaxAttempts /\ \A i \in 1 .. Len(replies) : replies[i] \in Transient
  BY DEF StreamRequest, Setting, RetryInv, StreamStands
<1>2. ASSUME NEW kind \in ReplyKinds, Reply(kind),
             \/ pc' = "ended" /\ (outcome' = "client_error" /\ kind \in Transient
                                    => Len(replies) + 1 = MaxAttempts)
             \/ pc' = "reading" /\ outcome' = "none" /\ kind = "ok"
             \/ /\ pc' = "request" /\ outcome' = "none" /\ kind \in Transient
                /\ Len(replies) + 1 < MaxAttempts
      PROVE  RetryInv'
  <2>1. /\ replies' \in Seq(ReplyKinds) /\ Len(replies') = Len(replies) + 1
        /\ replies'[Len(replies')] = kind /\ Last(replies') = kind
        /\ \A i \in 1 .. Len(replies) : replies'[i] = replies[i]
        /\ DOMAIN replies' = 1 .. Len(replies) + 1 /\ replies' # <<>>
    BY <1>1, <1>2, OneMoreReply
  <2>2. Len(replies) \in Nat
    BY <1>1
  <2>3. RetriesAreEarned'
    <3>1. \A i \in DOMAIN replies' : i < Len(replies') => replies'[i] \in Transient
      BY <1>1, <2>1, <2>2
    <3>2. outcome' = "client_error" /\ Last(replies') \in Transient => Len(replies') = MaxAttempts
      BY <1>2, <2>1
    <3> QED
      BY <1>1, <3>1, <3>2 DEF RetriesAreEarned, Transient
  <2>4. StreamStands'
    BY <1>1, <1>2, <2>1, <2>2 DEF StreamStands
  <2>5. CompleteStands'
    BY <1>1 DEF CompleteStands
  <2> QED
    BY <1>1, <1>2, <2>1, <2>3, <2>4, <2>5 DEF RetryInv
<1>3. Len(replies) \in Nat /\ MaxAttempts \in Nat
  BY <1>1, AttemptsArePositive
<1>4. ASSUME NEW kind \in {"transient", "permanent", "unreachable"}, Refused(kind)
      PROVE  RetryInv'
  <2>1. kind \in ReplyKinds /\ Reply(kind) /\ (kind # "permanent" => kind \in Transient)
    BY <1>4 DEF Refused, ReplyKinds, Posts, Refusals, Transient
  <2>2. CASE kind # "permanent" /\ MayRetry
    BY <1>1, <1>2, <1>3, <1>4, <2>1, <2>2 DEF Refused, MayRetry, Attempt
  <2>3. CASE kind # "permanent" /\ ~MayRetry
    <3>1. Len(replies) + 1 = MaxAttempts
      BY <1>1, <1>3, <2>3 DEF MayRetry, Attempt
    <3> QED
      BY <1>2, <1>4, <2>1, <2>3, <3>1 DEF Refused, EndWith
  <2>4. CASE kind = "permanent"
    BY <1>2, <1>4, <2>1, <2>4 DEF Refused, EndWith, Transient
  <2> QED
    BY <2>2, <2>3, <2>4
<1>5. ASSUME NEW a \in PossibleAnswers, Answered(a) PROVE RetryInv'
  BY <1>1, <1>2, <1>5 DEF Answered, ReplyKinds
<1>6. CASE Reply("timeout") /\ EndWith(Error)
  BY <1>2, <1>6 DEF EndWith, ReplyKinds, Posts, Transient
<1>7. CASE Reply("reset") /\ Escape
  BY <1>2, <1>7 DEF Escape, ReplyKinds, Posts
<1> QED
  BY <1>4, <1>5, <1>6, <1>7 DEF StreamRequest

\* A reply to complete() ends the call, or drops the format for the second
\* request.
LEMMA CompleteRequestKeeps ==
  ASSUME RetryInv, CompleteRequest
  PROVE  RetryInv'
<1>1. PICK kind \in Posts :
        /\ Reply(kind)
        /\ \/ DropFormat(kind) /\ format' = FALSE /\ UNCHANGED <<pc, events, outcome>>
           \/ pc' = "ended" /\ format' = format
  BY DEF CompleteRequest, Give, Escape
<1>2. /\ pc = "request" /\ call = "complete" /\ call' = call /\ outcome = "none"
      /\ replies \in Seq(ReplyKinds) /\ kind \in ReplyKinds
      /\ Len(replies) = 0 \/ (Len(replies) = 1 /\ replies[1] = "rejected" /\ ~format)
  BY DEF CompleteRequest, Setting, RetryInv, CompleteStands, ReplyKinds
<1>3. /\ replies' \in Seq(ReplyKinds) /\ Len(replies') = Len(replies) + 1
      /\ replies'[Len(replies')] = kind
      /\ \A i \in 1 .. Len(replies) : replies'[i] = replies[i]
      /\ replies' # <<>>
  BY <1>1, <1>2, OneMoreReply
<1>4. CASE DropFormat(kind) /\ format' = FALSE /\ UNCHANGED <<pc, events, outcome>>
  <2>1. kind = "rejected" /\ format
    BY <1>4 DEF DropFormat
  <2>2. Len(replies') = 1 /\ replies'[1] = "rejected"
    BY <1>2, <1>3, <2>1
  <2> QED
    BY <1>2, <1>3, <1>4, <2>2
    DEF RetryInv, StreamStands, CompleteStands, RetriesAreEarned
<1>5. CASE pc' = "ended" /\ format' = format
  <2>1. CASE Len(replies) = 1 /\ replies[1] = "rejected" /\ ~format
    <3>1. replies'[1] = "rejected"
      BY <1>3, <2>1
    <3>2. ~format'
      BY <1>5, <2>1
    <3> QED
      BY <1>2, <1>3, <1>5, <3>1, <3>2
      DEF RetryInv, StreamStands, CompleteStands, RetriesAreEarned
  <2>2. CASE Len(replies) = 0
    <3>1. Len(replies') # 2
      BY <1>3, <2>2
    <3> QED
      BY <1>2, <1>3, <1>5, <3>1
      DEF RetryInv, StreamStands, CompleteStands, RetriesAreEarned
  <2> QED
    BY <1>2, <2>1, <2>2
<1> QED
  BY <1>1, <1>4, <1>5

\* Reading an answer to its end asks for nothing more.
LEMMA ReadingKeeps ==
  ASSUME RetryInv, ReadChunk \/ BrokenRead \/ EndOfAnswer \/ TakeFrame
  PROVE  RetryInv'
<1>1. /\ pc = "reading" /\ UNCHANGED <<call, replies>> /\ pc' \in {"reading", "ended"}
      /\ pc' = "reading" => outcome' = outcome
  BY DEF ReadChunk, BrokenRead, EndOfAnswer, TakeFrame, EndWith, Escape, Setting
<1>2. call = "stream" /\ replies \in Seq(ReplyKinds) /\ outcome = "none"
      /\ replies # <<>> /\ replies[Len(replies)] = "ok"
  BY <1>1 DEF RetryInv, StreamStands, CompleteStands
<1>3. Last(replies) \notin Transient
  BY <1>2 DEF Last, Transient
<1>4. RetriesAreEarned'
  BY <1>1, <1>2, <1>3 DEF RetryInv, RetriesAreEarned, Transient
<1> QED
  BY <1>1, <1>2, <1>4 DEF RetryInv, StreamStands, CompleteStands

LEMMA RetryStep == RetryInv /\ [Next]_vars => RetryInv'
<1> SUFFICES ASSUME RetryInv, [Next]_vars PROVE RetryInv'
  OBVIOUS
<1>1. CASE StubStream
  BY <1>1 DEF StubStream, Setting, RetryInv, StreamStands, CompleteStands, RetriesAreEarned
<1>2. CASE StubEnds \/ StubComplete
  BY <1>2 DEF StubEnds, StubComplete, EndWith, Give, Finish, Setting, Wire,
              RetryInv, StreamStands, CompleteStands, RetriesAreEarned
<1>3. CASE Begin
  <2>1. /\ pc = "called" /\ pc' = "request" /\ UNCHANGED <<call, format, replies, outcome>>
        /\ replies = <<>> /\ outcome = "none" /\ Len(replies) = 0
    BY <1>3 DEF Begin, Setting, RetryInv
  <2>2. StreamStands' /\ CompleteStands'
    BY <2>1, AttemptsArePositive DEF StreamStands, CompleteStands
  <2> QED
    BY <2>1, <2>2 DEF RetryInv, RetriesAreEarned
<1>4. CASE StreamRequest
  BY <1>4, StreamRequestKeeps
<1>5. CASE ReadChunk \/ BrokenRead \/ EndOfAnswer \/ TakeFrame
  BY <1>5, ReadingKeeps
<1>6. CASE CompleteRequest
  BY <1>6, CompleteRequestKeeps
<1>7. CASE UNCHANGED vars
  BY <1>7 DEF vars, RetryInv, StreamStands, CompleteStands, RetriesAreEarned
<1> QED
  BY <1>1, <1>2, <1>3, <1>4, <1>5, <1>6, <1>7 DEF Next, Step, KeepAlive, Ended

\* stream() asks again only after transient failures and gives up on one only
\* with all its attempts spent; complete() asks again only without a format
\* that was refused; for any number of retries and any answers.
THEOREM AllRetriesAreEarned == Spec => []RetriesAreEarned
<1>1. Spec => []RetryInv
  BY RetryInit, RetryStep, PTL DEF Spec
<1>2. RetryInv => RetriesAreEarned
  BY DEF RetryInv
<1> QED
  BY <1>1, <1>2, PTL
-----------------------------------------------------------------------------
\* What the simulation of a TokenStream needs to know: stream() has yielded its
\* start before it asks, and nothing more until it has an answer; complete()
\* yields nothing.
SomeSequence(s) == \E S : s \in Seq(S)
Yielded == [i \in DOMAIN events |-> events[i].type]

EventsFollowControl ==
  /\ SomeSequence(events)
  /\ pc = "called" => events = <<>>
  /\ Streamed => /\ pc # "called" => events # <<>>
                 /\ pc = "request" => events = <<Start>>
  /\ ~Streamed => /\ events = <<>> /\ pc \notin {"stubbed", "reading"}
                  /\ pc = "request" => ~stub

TokenInv == RetryInv /\ EventsFollowControl

\* A step keeps what follows control, and is a step of a TokenStream or none.
TokenVars ==
  <<Yielded, IF Streamed THEN Len(replies) ELSE 0,
    IF Streamed /\ outcome # "exception" THEN outcome ELSE "none">>
Simulates == EventsFollowControl' /\ [Tokens!Next]_TokenVars

\* An event more is a type more.
LEMMA AppendYields ==
  ASSUME SomeSequence(events), NEW e, events' = Append(events, e)
  PROVE  SomeSequence(events)' /\ events' # <<>> /\ Yielded' = Append(Yielded, e.type)
<1>1. PICK S : events \in Seq(S)
  BY DEF SomeSequence
<1> DEFINE T == S \cup {e}
           U == {x.type : x \in T}
<1>2. events \in Seq(T) /\ e \in T
  BY <1>1
<1> HIDE DEF T
<1>3. events' \in Seq(T) /\ events' # <<>>
  BY <1>2
<1>4. Yielded \in Seq(U) /\ Len(Yielded) = Len(events)
  BY <1>2 DEF Yielded
<1>5. Yielded' = Append(Yielded, e.type)
  <2>1. DOMAIN events' = 1 .. Len(events) + 1 /\ DOMAIN events = 1 .. Len(events)
    BY <1>2
  <2>2. \A i \in 1 .. Len(events) : events'[i] = events[i]
    BY <1>2
  <2>3. events'[Len(events) + 1] = e
    BY <1>2
  <2>4. Len(events) \in Nat
    BY <1>2
  <2>5. Yielded' = [i \in 1 .. Len(events) + 1 |->
                     IF i = Len(events) + 1 THEN e.type ELSE Yielded[i]]
    BY <2>1, <2>2, <2>3, <2>4 DEF Yielded
  <2> QED
    BY <1>4, <2>4, <2>5
<1> QED
  BY <1>3, <1>5 DEF SomeSequence

\* Before the first token only the start has been yielded.
LEMMA OnlyTheStart ==
  ASSUME events = <<Start>>
  PROVE  Yielded = <<"start">>
BY DEF Yielded, Start

LEMMA SomeYield ==
  ASSUME SomeSequence(events), events # <<>>
  PROVE  Yielded # <<>>
BY DEF SomeSequence, Yielded

\* A delta, or the last event, of a call that streams.
LEMMA DeltaSimulates ==
  ASSUME TokenInv, Streamed, pc \in {"request", "reading"}, pc' \in {"stubbed", "reading"},
         NEW e, e.type = "delta", events' = Append(events, e),
         UNCHANGED <<call, replies, outcome>>
  PROVE  Simulates
<1>1. Yielded # <<>> /\ outcome = "none" /\ SomeSequence(events)
  BY SomeYield DEF TokenInv, RetryInv, EventsFollowControl
<1>2. SomeSequence(events)' /\ events' # <<>> /\ Yielded' = Append(Yielded, "delta")
  BY <1>1, AppendYields
<1>3. EventsFollowControl'
  BY <1>2 DEF EventsFollowControl, Streamed
<1> QED
  BY <1>1, <1>2, <1>3
  DEF Simulates, TokenVars, Yielded, Streamed, Tokens!Next, Tokens!Delta, Tokens!Open, Tokens!Yield

LEMMA EndSimulates ==
  ASSUME TokenInv, Streamed, pc \notin {"called", "ended"}, UNCHANGED <<call, replies>>,
         EndWith(Finish) \/ EndWith(Error) \/ (Escape /\ UNCHANGED events)
  PROVE  Simulates
<1>1. Yielded # <<>> /\ outcome = "none" /\ SomeSequence(events) /\ events # <<>>
  BY SomeYield DEF TokenInv, RetryInv, EventsFollowControl
<1>2. ASSUME NEW e \in {Finish, Error}, EndWith(e) PROVE Simulates
  <2>1. SomeSequence(events)' /\ events' # <<>> /\ Yielded' = Append(Yielded, e.type)
    BY <1>1, <1>2, AppendYields DEF EndWith
  <2>2. EventsFollowControl'
    BY <1>2, <2>1 DEF EventsFollowControl, Streamed, EndWith
  <2>3. \/ e.type = "finish" /\ outcome' = "response"
        \/ e.type = "error" /\ outcome' = "client_error"
    BY <1>2 DEF EndWith, Finish, Error
  <2> QED
    BY <1>1, <2>1, <2>2, <2>3
    DEF Simulates, TokenVars, Yielded, Streamed, Tokens!Next, Tokens!End, Tokens!Open,
         Tokens!Yield, Tokens!Last
<1>3. ASSUME Escape PROVE Simulates
  <2>1. EventsFollowControl' /\ outcome' = "exception" /\ UNCHANGED events
    BY <1>1, <1>3 DEF EventsFollowControl, Streamed, Escape, SomeSequence
  <2> QED
    BY <1>1, <2>1 DEF Simulates, TokenVars, Yielded, Streamed
<1> QED
  BY <1>2, <1>3

\* A request of stream(), whatever comes of it.
LEMMA RequestSimulates ==
  ASSUME TokenInv, StreamRequest
  PROVE  Simulates
<1>1. /\ Streamed /\ pc = "request" /\ UNCHANGED call /\ outcome = "none"
      /\ events = <<Start>> /\ Yielded = <<"start">> /\ SomeSequence(events)
  BY OnlyTheStart DEF StreamRequest, Setting, Streamed, TokenInv, RetryInv, EventsFollowControl
<1>2. PICK kind \in ReplyKinds :
        /\ Reply(kind)
        /\ \/ pc' \in {"request", "reading"} /\ UNCHANGED <<events, outcome>>
           \/ EndWith(Error)
           \/ Escape
  <2>1. ASSUME NEW kind \in {"transient", "permanent", "unreachable"}, Refused(kind)
        PROVE  /\ kind \in ReplyKinds /\ Reply(kind)
               /\ (pc' = "request" /\ UNCHANGED <<events, outcome>>) \/ EndWith(Error)
    BY <1>1, <2>1 DEF Refused, ReplyKinds, Posts, Refusals
  <2>2. ASSUME NEW a \in PossibleAnswers, Answered(a)
        PROVE  Reply("ok") /\ pc' = "reading" /\ UNCHANGED <<events, outcome>>
    BY <2>2 DEF Answered
  <2>3. {"ok", "timeout", "reset"} \subseteq ReplyKinds
    BY DEF ReplyKinds, Posts
  <2> QED
    BY <2>1, <2>2, <2>3 DEF StreamRequest
<1>3. Len(replies') = Len(replies) + 1
  BY <1>2, OneMoreReply DEF TokenInv, RetryInv
<1>4. Yielded # <<>>
  BY <1>1
<1>5. CASE pc' \in {"request", "reading"} /\ UNCHANGED <<events, outcome>>
  <2>1. EventsFollowControl'
    BY <1>1, <1>5 DEF EventsFollowControl, Streamed, SomeSequence
  <2> QED
    BY <1>1, <1>3, <1>4, <1>5, <2>1
    DEF Simulates, TokenVars, Yielded, Streamed, Tokens!Next, Tokens!Request, Tokens!Open
<1>6. CASE EndWith(Error)
  <2>1. SomeSequence(events)' /\ events' # <<>> /\ Yielded' = Append(Yielded, "error")
    BY <1>1, <1>6, AppendYields DEF EndWith, Error
  <2>2. EventsFollowControl' /\ outcome' = "client_error"
    BY <1>1, <1>6, <2>1 DEF EventsFollowControl, Streamed, EndWith, Error
  <2> QED
    BY <1>1, <1>3, <1>4, <2>1, <2>2
    DEF Simulates, TokenVars, Yielded, Streamed, Tokens!Next, Tokens!Request, Tokens!Open,
         Tokens!Yield, Tokens!Last
<1>7. CASE Escape
  <2>1. EventsFollowControl' /\ outcome' = "exception" /\ UNCHANGED events
    BY <1>1, <1>7 DEF EventsFollowControl, Streamed, Escape, SomeSequence
  <2> QED
    BY <1>1, <1>3, <1>4, <2>1
    DEF Simulates, TokenVars, Yielded, Streamed, Tokens!Next, Tokens!Request, Tokens!Open
<1> QED
  BY <1>2, <1>5, <1>6, <1>7

\* complete() is not a stream: whatever it does, nothing is yielded.
LEMMA CompleteYieldsNothing ==
  ASSUME TokenInv, ~Streamed, UNCHANGED <<call, events>>,
         pc' \notin {"stubbed", "reading"}, pc' = "request" => ~stub', pc' # "called"
  PROVE  Simulates
BY DEF Simulates, TokenInv, EventsFollowControl, SomeSequence, TokenVars, Yielded, Streamed

LEMMA TokenStep ==
  ASSUME TokenInv, [Next]_vars
  PROVE  Simulates
<1>1. CASE StubStream
  <2>1. Streamed /\ pc = "request" /\ pc' = "stubbed" /\ UNCHANGED <<call, replies, outcome>>
    BY <1>1 DEF StubStream, Setting, TokenInv, EventsFollowControl
  <2>2. events' = Append(events, Delta(1, TRUE)) /\ Delta(1, TRUE).type = "delta"
    BY <1>1 DEF StubStream, Delta
  <2> QED
    BY <2>1, <2>2, DeltaSimulates
<1>2. CASE StubEnds
  BY <1>2, EndSimulates DEF StubEnds, Setting, TokenInv, EventsFollowControl
<1>3. CASE StubComplete
  BY <1>3, CompleteYieldsNothing DEF StubComplete, Setting, Give, Streamed
<1>4. CASE Begin
  <2>1. /\ pc = "called" /\ pc' = "request" /\ UNCHANGED <<call, stub, replies, outcome>>
        /\ events = <<>> /\ outcome = "none"
    BY <1>4 DEF Begin, Setting, TokenInv, RetryInv, EventsFollowControl
  <2>2. CASE Streamed
    <3>1. events' = <<Start>>
      BY <1>4, <2>2 DEF Begin, Streamed
    <3>2. Yielded = <<>> /\ Yielded' = <<"start">>
      BY <2>1, <3>1 DEF Yielded, Start
    <3>3. Yielded' = Append(Yielded, "start")
      BY <3>2
    <3>4. SomeSequence(events)'
      <4>1. <<Start>> \in Seq({Start})
        OBVIOUS
      <4> QED
        BY <3>1, <4>1 DEF SomeSequence
    <3>5. EventsFollowControl'
      BY <2>1, <2>2, <3>1, <3>4 DEF EventsFollowControl, Streamed
    <3> QED
      BY <2>1, <2>2, <3>2, <3>3, <3>5
      DEF Simulates, TokenVars, Yielded, Streamed, Tokens!Next, Tokens!Start, Tokens!Yield
  <2>3. CASE ~Streamed
    BY <1>4, <2>1, <2>3, CompleteYieldsNothing DEF Begin, Streamed, TokenInv, RetryInv
  <2> QED
    BY <2>2, <2>3
<1>5. CASE StreamRequest
  BY <1>5, RequestSimulates
<1>6. ASSUME pc = "reading", UNCHANGED <<call, replies>>,
             \/ UNCHANGED <<pc, events, outcome>>
             \/ /\ pc' = pc /\ UNCHANGED outcome
                /\ \E e : e.type = "delta" /\ events' = Append(events, e)
             \/ EndWith(Finish) \/ EndWith(Error) \/ Escape
      PROVE  Simulates
  <2>1. Streamed
    BY <1>6 DEF TokenInv, EventsFollowControl
  <2>2. CASE UNCHANGED <<pc, events, outcome>>
    BY <1>6, <2>1, <2>2
    DEF Simulates, TokenInv, EventsFollowControl, SomeSequence, TokenVars, Yielded, Streamed
  <2>3. ASSUME NEW e, pc' = pc, UNCHANGED outcome, e.type = "delta", events' = Append(events, e)
        PROVE  Simulates
    BY <1>6, <2>1, <2>3, DeltaSimulates
  <2>4. CASE EndWith(Finish) \/ EndWith(Error) \/ Escape
    BY <1>6, <2>1, <2>4, EndSimulates DEF Escape
  <2> QED
    BY <1>6, <2>2, <2>3, <2>4
<1>7. CASE ReadChunk
  BY <1>6, <1>7 DEF ReadChunk, Setting
<1>8. CASE BrokenRead
  BY <1>6, <1>8 DEF BrokenRead, Setting
<1>9. CASE EndOfAnswer
  BY <1>6, <1>9 DEF EndOfAnswer, Setting
<1>10. CASE TakeFrame
  <2>1. \A i, w : Delta(i, w).type = "delta"
    BY DEF Delta
  <2> QED
    BY <1>6, <1>10, <2>1 DEF TakeFrame, Setting
<1>11. CASE CompleteRequest
  <2>1. /\ pc = "request" /\ ~Streamed /\ UNCHANGED <<call, stub, events>>
        /\ pc' \in {"request", "ended"}
    BY <1>11 DEF CompleteRequest, Setting, Give, Escape, Streamed
  <2>2. ~stub
    BY <2>1 DEF TokenInv, EventsFollowControl
  <2> QED
    BY <2>1, <2>2, CompleteYieldsNothing
<1>12. CASE UNCHANGED vars
  BY <1>12
  DEF vars, Simulates, TokenInv, EventsFollowControl, SomeSequence, TokenVars, Yielded, Streamed
<1> QED
  BY <1>1, <1>2, <1>3, <1>4, <1>5, <1>7, <1>8, <1>9, <1>10, <1>11, <1>12 DEF Next, Step, KeepAlive, Ended

\* An ended call has its last event, unless a reset broke it.
LEMMA LastEventStep ==
  ASSUME TokenInv, LastEventIsThere, [Next]_vars
  PROVE  LastEventIsThere'
<1>1. ASSUME EndWith(Finish) \/ EndWith(Error) PROVE LastEventIsThere'
  <2>1. PICK e \in {Finish, Error} : events' = Append(events, e)
    BY <1>1 DEF EndWith
  <2>2. PICK S : events \in Seq(S)
    BY DEF TokenInv, EventsFollowControl, SomeSequence
  <2> DEFINE T == S \cup {Finish, Error}
  <2>3. events \in Seq(T) /\ e \in T
    BY <2>2
  <2> HIDE DEF T
  <2>4. events'[Len(events')] = e
    BY <2>1, <2>3
  <2>5. e.type \in {"finish", "error"}
    BY DEF Finish, Error
  <2> QED
    BY <2>4, <2>5 DEF LastEventIsThere
<1>2. ASSUME pc' # "ended" \/ call' # "stream" PROVE LastEventIsThere'
  BY <1>2 DEF LastEventIsThere, Streamed
<1>3. CASE StreamRequest
  <2>1. CASE Reply("reset")
    <3>1. replies' \in Seq(ReplyKinds) /\ replies' # <<>> /\ replies'[Len(replies')] = "reset"
      BY <2>1, OneMoreReply DEF TokenInv, RetryInv, ReplyKinds, Posts
    <3>2. Len(replies') \in DOMAIN replies'
      BY <3>1
    <3> QED
      BY <3>1, <3>2 DEF LastEventIsThere, BrokenByReset
  <2>2. CASE pc' # "ended" \/ EndWith(Error)
    BY <1>1, <1>2, <2>2
  <2>3. pc = "request"
    BY <1>3 DEF StreamRequest
  <2> QED
    BY <1>3, <2>1, <2>2, <2>3 DEF StreamRequest, Refused, Answered
<1>4. CASE BrokenRead
  <2>1. CASE answer.ends = "reset" /\ answer' = answer
    BY <2>1 DEF LastEventIsThere, BrokenByReset
  <2> QED
    BY <1>1, <1>4, <2>1 DEF BrokenRead, Wire
<1>5. CASE StubStream \/ Begin \/ ReadChunk
  BY <1>2, <1>5 DEF StubStream, Begin, ReadChunk
<1>6. CASE StubEnds \/ EndOfAnswer
  BY <1>1, <1>6 DEF StubEnds, EndOfAnswer
<1>7. CASE StubComplete \/ CompleteRequest
  BY <1>2, <1>7 DEF StubComplete, CompleteRequest, Setting
<1>8. CASE TakeFrame
  BY <1>1, <1>2, <1>8 DEF TakeFrame
<1>9. CASE UNCHANGED vars
  BY <1>9 DEF vars, LastEventIsThere, BrokenByReset, Streamed
<1> QED
  BY <1>3, <1>4, <1>5, <1>6, <1>7, <1>8, <1>9 DEF Next, Step, KeepAlive, Ended

\* stream() yields one start, deltas, then at most one finish or error and
\* nothing behind it, and sends no request again once a token has been yielded;
\* and an ended call has its finish or error unless a reset broke it.  For any
\* number of retries, size of a read and answers.
THEOREM StreamsAreTokenStreams == Spec => ImplementsTokenStream
<1>1. Init => TokenInv
  <2>1. <<>> \in Seq({})
    OBVIOUS
  <2> QED
    BY <2>1, RetryInit DEF Init, TokenInv, EventsFollowControl, SomeSequence, Streamed
<1>2. Init => Tokens!Init
  BY DEF Init, Tokens!Init, Streamed
<1>3. TokenInv /\ [Next]_vars => TokenInv' /\ [Tokens!Next]_TokenVars
  BY RetryStep, TokenStep DEF TokenInv, Simulates
<1>4. Init => LastEventIsThere
  BY DEF Init, LastEventIsThere
<1>5. TokenInv /\ LastEventIsThere /\ [Next]_vars => LastEventIsThere'
  BY LastEventStep
<1>6. Spec => Tokens!Spec
  BY <1>1, <1>2, <1>3, PTL DEF Spec, Tokens!Spec, TokenVars, Yielded
<1>7. Spec => []LastEventIsThere
  BY <1>1, <1>3, <1>4, <1>5, PTL DEF Spec
<1> QED
  BY <1>6, <1>7 DEF ImplementsTokenStream
-----------------------------------------------------------------------------
\* The first of a set of numbers.
Below == OpToRel(<, Nat)

LEMMA BelowIsWellFounded == IsWellFoundedOn(Below, Nat)
BY NatLessThanWellFounded DEF Below

LEMMA FirstExists ==
  ASSUME NEW S, S \subseteq Nat, S # {}
  PROVE  \E i \in S : \A j \in S : i <= j
<1>1. PICK i \in S : \A j \in S : ~(<<j, i>> \in Below)
  BY BelowIsWellFounded, WFMin
<1>2. \A m \in Nat, n \in Nat : m < n => <<m, n>> \in Below
  BY DEF Below, OpToRel
<1>3. ASSUME NEW j \in S PROVE i <= j
  <2>1. ~(j < i)
    BY <1>1, <1>2
  <2> QED
    BY <2>1
<1> QED
  BY <1>3

\* A function over 1 .. n is a sequence of n elements, of whatever they are.
LEMMA AnySequence ==
  ASSUME NEW n \in Nat, NEW f, f = [i \in 1 .. n |-> f[i]]
  PROVE  SomeSequence(f) /\ Len(f) = n
<1> DEFINE S == {f[i] : i \in 1 .. n}
<1>1. f \in [1 .. n -> S]
  OBVIOUS
<1> HIDE DEF S
<1>2. f \in Seq(S)
  BY <1>1, SeqDef
<1>3. DOMAIN f = 1 .. Len(f) /\ Len(f) \in Nat
  BY <1>2, LenProperties
<1> QED
  BY <1>1, <1>2, <1>3 DEF SomeSequence

LEMMA SomeSubSeq ==
  ASSUME NEW s, NEW m \in Int, NEW n \in Int
  PROVE  /\ SomeSequence(SubSeq(s, m, n))
         /\ Len(SubSeq(s, m, n)) = IF m <= n THEN n - m + 1 ELSE 0
         /\ \A i \in 1 .. n - m + 1 : SubSeq(s, m, n)[i] = s[m + i - 1]
<1> DEFINE S == {s[i] : i \in m .. n}
<1>1. \A i \in m .. n : s[i] \in S
  OBVIOUS
<1> HIDE DEF S
<1> QED
  BY <1>1, SubSeqProperties DEF SomeSequence

LEMMA SomeConcat ==
  ASSUME NEW s, NEW t, SomeSequence(s), SomeSequence(t)
  PROVE  /\ SomeSequence(s \o t) /\ Len(s \o t) = Len(s) + Len(t)
         /\ Len(s) \in Nat /\ Len(t) \in Nat
         /\ \A i \in 1 .. Len(s) + Len(t) :
              (s \o t)[i] = IF i <= Len(s) THEN s[i] ELSE t[i - Len(s)]
<1>1. PICK S : s \in Seq(S)
  BY DEF SomeSequence
<1>2. PICK T : t \in Seq(T)
  BY DEF SomeSequence
<1>3. s \in Seq(S \cup T) /\ t \in Seq(S \cup T)
  BY <1>1, <1>2
<1> QED
  BY <1>3, ConcatProperties, LenProperties DEF SomeSequence

\* Decoding keeps the length of a chunk: no byte is lost or made up.
LEMMA DecodeKeepsLength ==
  ASSUME NEW chunk, SomeSequence(chunk)
  PROVE  SomeSequence(Decode(chunk)) /\ Len(Decode(chunk)) = Len(chunk)
<1>1. Len(chunk) \in Nat /\ DOMAIN chunk = 1 .. Len(chunk)
  BY LenProperties DEF SomeSequence
<1>2. Decode(chunk) = [k \in 1 .. Len(chunk) |-> Decode(chunk)[k]]
  BY <1>1 DEF Decode
<1> QED
  BY <1>1, <1>2, AnySequence

\* Where there is a frame, it ends in the buffer.
LEMMA FrameEndIsInBuffer ==
  ASSUME SomeSequence(buffer), HasFrame
  PROVE  FrameEnd \in DOMAIN buffer /\ DOMAIN buffer = 1 .. Len(buffer) /\ Len(buffer) \in Nat
<1> DEFINE S == {k \in DOMAIN buffer : Separator(k)}
<1>1. DOMAIN buffer = 1 .. Len(buffer) /\ Len(buffer) \in Nat
  BY LenProperties DEF SomeSequence
<1>2. S \subseteq Nat /\ S # {}
  BY <1>1 DEF HasFrame
<1>3. PICK k \in S : \A j \in S : k <= j
  BY <1>2, FirstExists
<1>4. \A j \in 1 .. k - 1 : ~Separator(j)
  <2> SUFFICES ASSUME NEW j \in 1 .. k - 1, Separator(j) PROVE FALSE
    OBVIOUS
  <2>1. k \in 1 .. Len(buffer)
    BY <1>1
  <2>2. j \in DOMAIN buffer
    BY <1>1, <2>1
  <2>3. k <= j
    BY <1>3, <2>2
  <2> QED
    BY <1>1, <2>1, <2>3
<1> QED
  BY <1>1, <1>3, <1>4 DEF FrameEnd
-----------------------------------------------------------------------------
\* What has come over the wire: no more is in the buffer than was read, and no
\* more read than was sent; nothing before the answer to a request.
WireInv ==
  /\ answer.frames \in SeqOf(FrameKinds, MaxFrames)
  /\ answer.ends \in Endings /\ answer.at \in 0 .. 4 * MaxFrames
  /\ read \in Nat /\ read <= answer.at
  /\ SomeSequence(buffer) /\ Len(buffer) <= read
  /\ pc \in {"called", "request"} => answer = NoAnswer /\ read = 0 /\ buffer = <<>>

EventTypes == {"start", "delta", "finish", "error"}
CallTypes ==
  /\ stub \in BOOLEAN /\ format \in BOOLEAN /\ outcome \in Outcomes
  /\ pc \in {"called", "request", "stubbed", "reading", "ended"}
  /\ Yielded \in Seq(EventTypes)
  /\ Len(replies) <= (IF call = "stream" THEN MaxAttempts ELSE 2)

\* The empty sequence is one, and so has length 0.
LEMMA NothingIsSequence == SomeSequence(<<>>) /\ Len(<<>>) = 0
<1>1. <<>> \in Seq({})
  BY EmptySeq
<1> QED
  BY <1>1, EmptySeq DEF SomeSequence

LEMMA WireInit == Init => WireInv
<1> SUFFICES ASSUME Init PROVE WireInv
  OBVIOUS
<1>1. /\ answer = NoAnswer /\ read = 0 /\ buffer = <<>>
      /\ NoAnswer.frames = <<>> /\ NoAnswer.ends = "eof" /\ NoAnswer.at = 0
  BY DEF Init, NoAnswer
<1>2. MaxFrames \in Nat
  BY ClientAssumption
<1>3. <<>> \in SeqOf(FrameKinds, MaxFrames)
  <2>1. <<>> \in [1 .. 0 -> FrameKinds] /\ 0 \in 0 .. MaxFrames
    BY <1>2
  <2> QED
    BY <2>1 DEF SeqOf
<1>4. 0 \in 0 .. 4 * MaxFrames
  BY <1>2
<1> QED
  BY <1>1, <1>3, <1>4, NothingIsSequence DEF WireInv, Endings

LEMMA WireStep ==
  ASSUME WireInv, [Next]_vars
  PROVE  WireInv'
<1>1. ASSUME UNCHANGED Wire, pc' \in {"called", "request"} => pc \in {"called", "request"}
      PROVE  WireInv'
  BY <1>1 DEF WireInv, Wire, SomeSequence
<1>2. CASE StubStream
  <2>1. /\ answer' = [NoAnswer EXCEPT !.frames = <<"text">>] /\ read' = read /\ buffer' = buffer
        /\ pc' = "stubbed" /\ read = 0 /\ buffer = <<>>
    BY <1>2 DEF StubStream, WireInv
  <2>2. answer'.frames = <<"text">> /\ answer'.ends = "eof" /\ answer'.at = 0
    BY <2>1 DEF NoAnswer
  <2>3. MaxFrames \in Nat /\ MaxFrames >= 1
    BY ClientAssumption
  <2>4. <<"text">> \in SeqOf(FrameKinds, MaxFrames)
    <3>1. <<"text">> \in [1 .. 1 -> FrameKinds] /\ 1 \in 0 .. MaxFrames
      BY <2>3 DEF FrameKinds, TextFrames
    <3> QED
      BY <3>1 DEF SeqOf
  <2>5. 0 \in 0 .. 4 * MaxFrames
    BY <2>3
  <2> QED
    BY <2>1, <2>2, <2>4, <2>5, NothingIsSequence DEF WireInv, Endings
<1>3. CASE StubEnds \/ StubComplete \/ Begin \/ CompleteRequest \/ EndOfAnswer \/ BrokenRead
  BY <1>1, <1>3 DEF StubEnds, StubComplete, Begin, CompleteRequest, EndOfAnswer, BrokenRead,
                    EndWith, Give, Escape
<1>4. CASE StreamRequest
  <2>1. ASSUME NEW kind, Refused(kind) PROVE WireInv'
    BY <1>1, <1>4, <2>1 DEF Refused, EndWith, StreamRequest
  <2>2. ASSUME NEW a \in PossibleAnswers, Answered(a) PROVE WireInv'
    <3>1. /\ answer' = a /\ read' = 0 /\ buffer' = <<>> /\ pc' = "reading"
      BY <2>2 DEF Answered
    <3>2. /\ a.frames \in SeqOf(FrameKinds, MaxFrames) /\ a.ends \in Endings
          /\ a.at \in 0 .. 4 * MaxFrames
      BY DEF PossibleAnswers, Answers
    <3>3. 0 <= a.at
      BY <3>2
    <3> QED
      BY <3>1, <3>2, <3>3, NothingIsSequence DEF WireInv
  <2>3. CASE EndWith(Error) /\ UNCHANGED Wire
    BY <1>1, <2>3 DEF EndWith
  <2>4. CASE Escape /\ UNCHANGED Wire
    BY <1>1, <2>4 DEF Escape
  <2> QED
    BY <1>4, <2>1, <2>2, <2>3, <2>4 DEF StreamRequest
<1>5. CASE ReadChunk
  <2> DEFINE k == Min2(ReadSize, Left)
  <2>1. /\ buffer' = buffer \o Decode(Chunk) /\ read' = read + Len(Chunk)
        /\ pc = "reading" /\ pc' = pc /\ answer' = answer
    BY <1>5 DEF ReadChunk, Received
  <2>2. read \in Nat /\ answer.at \in Nat /\ read <= answer.at /\ ReadSize \in Nat
    BY ClientAssumption DEF WireInv
  <2>3. k \in Nat /\ read + k <= answer.at
    BY <2>2 DEF Left, Min2
  <2>4. Chunk = [i \in 1 .. k |-> Chunk[i]]
    BY DEF Chunk
  <2> HIDE DEF k
  <2>5. SomeSequence(Chunk) /\ Len(Chunk) = k
    BY <2>3, <2>4, AnySequence
  <2>6. SomeSequence(Decode(Chunk)) /\ Len(Decode(Chunk)) = k
    BY <2>5, DecodeKeepsLength
  <2>7. SomeSequence(buffer') /\ Len(buffer') = Len(buffer) + k /\ Len(buffer) \in Nat
    BY <2>1, <2>6, SomeConcat DEF WireInv
  <2>8. /\ read' \in Nat /\ read' <= answer'.at /\ Len(buffer') <= read'
    BY <2>1, <2>2, <2>3, <2>5, <2>7 DEF WireInv
  <2> QED
    BY <2>1, <2>7, <2>8 DEF WireInv, SomeSequence
<1>6. CASE TakeFrame
  <2>1. /\ buffer' = SubSeq(buffer, FrameEnd + 2, Len(buffer)) /\ UNCHANGED <<answer, read>>
        /\ HasFrame /\ pc' \notin {"called", "request"}
    BY <1>6 DEF TakeFrame, AfterFrame, EndWith
  <2>2. FrameEnd \in 1 .. Len(buffer) /\ Len(buffer) \in Nat
    BY <2>1, FrameEndIsInBuffer DEF WireInv
  <2>3. /\ SomeSequence(buffer')
        /\ Len(buffer') = IF FrameEnd + 2 <= Len(buffer)
                          THEN Len(buffer) - (FrameEnd + 2) + 1 ELSE 0
    BY <2>1, <2>2, SomeSubSeq
  <2>4. Len(buffer') <= Len(buffer) /\ Len(buffer') \in Nat
    BY <2>2, <2>3
  <2>5. Len(buffer') <= read'
    BY <2>1, <2>2, <2>4 DEF WireInv
  <2> QED
    BY <2>1, <2>3, <2>5 DEF WireInv, SomeSequence
<1>7. CASE UNCHANGED vars
  BY <1>1, <1>7 DEF vars, Wire
<1> QED
  BY <1>2, <1>3, <1>4, <1>5, <1>6, <1>7 DEF Next, Step, KeepAlive, Ended

LEMMA CallTypesStep ==
  ASSUME TokenInv, CallTypes, [Next]_vars
  PROVE  CallTypes'
<1>1. ASSUME NEW e, e.type \in EventTypes, events' = Append(events, e)
      PROVE  Yielded' \in Seq(EventTypes)
  <2>1. Yielded' = Append(Yielded, e.type)
    BY <1>1, AppendYields DEF TokenInv, EventsFollowControl
  <2> QED
    BY <1>1, <2>1 DEF CallTypes
<1>2. ASSUME UNCHANGED events PROVE Yielded' \in Seq(EventTypes)
  BY <1>2 DEF CallTypes, Yielded
<1>3. ASSUME NEW e \in {Finish, Error}, EndWith(e)
      PROVE  pc' = "ended" /\ outcome' \in Outcomes /\ Yielded' \in Seq(EventTypes)
  BY <1>1, <1>3 DEF EndWith, Finish, Error, EventTypes, Outcomes
<1>4. ASSUME Escape \/ \E result \in Outcomes : Give(result)
      PROVE  pc' = "ended" /\ outcome' \in Outcomes /\ Yielded' \in Seq(EventTypes) /\ format' = format
  BY <1>2, <1>4 DEF Escape, Give, Outcomes
<1>5. CASE StubStream
  <2>1. Delta(1, TRUE).type \in EventTypes
    BY DEF Delta, EventTypes
  <2> QED
    BY <1>1, <1>5, <2>1 DEF StubStream, Setting, CallTypes
<1>6. CASE StubEnds
  BY <1>3, <1>6 DEF StubEnds, Setting, CallTypes
<1>7. CASE StubComplete
  BY <1>4, <1>7 DEF StubComplete, Setting, CallTypes, Outcomes
<1>8. CASE Begin
  <2>1. events' = <<Start>> => Yielded' = <<"start">>
    BY DEF Yielded, Start
  <2>2. CASE call = "stream"
    <3>1. <<"start">> \in Seq(EventTypes)
      BY DEF EventTypes
    <3>2. Yielded' = <<"start">>
      BY <1>8, <2>1, <2>2 DEF Begin
    <3> QED
      BY <1>8, <3>1, <3>2 DEF Begin, Setting, CallTypes
  <2>3. CASE call # "stream"
    <3>1. UNCHANGED events
      BY <1>8, <2>3 DEF Begin
    <3> QED
      BY <1>2, <1>8, <3>1 DEF Begin, Setting, CallTypes
  <2> QED
    BY <2>2, <2>3
<1>9. CASE StreamRequest
  <2>1. /\ pc = "request" /\ call = "stream" /\ UNCHANGED <<call, stub>>
        /\ Len(replies) < MaxAttempts /\ Len(replies) \in Nat /\ MaxAttempts \in Nat
        /\ replies \in Seq(ReplyKinds)
    BY <1>9, AttemptsArePositive DEF StreamRequest, Setting, TokenInv, RetryInv, StreamStands
  <2>2. PICK kind \in ReplyKinds :
          /\ Reply(kind)
          /\ \/ pc' \in {"request", "reading"} /\ UNCHANGED <<events, outcome, format>>
             \/ EndWith(Error) /\ UNCHANGED format
             \/ Escape
    <3>1. ASSUME NEW kind \in {"transient", "permanent", "unreachable"}, Refused(kind)
          PROVE  /\ kind \in ReplyKinds /\ Reply(kind)
                 /\ (pc' = "request" /\ UNCHANGED <<events, outcome>>) \/ EndWith(Error)
      BY <2>1, <3>1 DEF Refused, ReplyKinds, Posts, Refusals
    <3>2. ASSUME NEW a \in PossibleAnswers, Answered(a)
          PROVE  Reply("ok") /\ pc' = "reading" /\ UNCHANGED <<events, outcome>>
      BY <3>2 DEF Answered
    <3>3. {"ok", "timeout", "reset"} \subseteq ReplyKinds
      BY DEF ReplyKinds, Posts
    <3> QED
      BY <1>9, <3>1, <3>2, <3>3 DEF StreamRequest
  <2>3. Len(replies') = Len(replies) + 1
    BY <2>1, <2>2, OneMoreReply
  <2>4. Len(replies') <= MaxAttempts
    BY <2>1, <2>3
  <2>5. /\ pc' \in {"request", "reading", "ended"} /\ outcome' \in Outcomes /\ format' = format
        /\ Yielded' \in Seq(EventTypes)
    BY <1>2, <1>3, <1>4, <2>2 DEF CallTypes
  <2> QED
    BY <2>1, <2>4, <2>5 DEF CallTypes
<1>10. CASE ReadChunk
  BY <1>2, <1>10 DEF ReadChunk, Setting, CallTypes
<1>11. CASE BrokenRead \/ EndOfAnswer
  <2>1. /\ UNCHANGED <<call, stub, replies, format>> /\ pc' = "ended" /\ outcome' \in Outcomes
        /\ Yielded' \in Seq(EventTypes)
    BY <1>3, <1>4, <1>11 DEF BrokenRead, EndOfAnswer, Setting
  <2> QED
    BY <2>1 DEF CallTypes
<1>12. CASE TakeFrame
  <2>1. UNCHANGED <<call, stub, replies, format>>
    BY <1>12 DEF TakeFrame, Setting
  <2>2. \A i, w : Delta(i, w).type \in EventTypes
    BY DEF Delta, EventTypes
  <2>3. \/ UNCHANGED <<pc, outcome>> /\ \E e : e.type \in EventTypes /\ events' = Append(events, e)
        \/ UNCHANGED <<pc, events, outcome>>
        \/ EndWith(Finish)
    BY <1>12, <2>2 DEF TakeFrame
  <2> QED
    BY <1>1, <1>2, <1>3, <2>1, <2>3 DEF CallTypes
<1>13. CASE CompleteRequest
  <2>1. PICK kind \in Posts :
          /\ Reply(kind)
          /\ \/ format' = FALSE /\ UNCHANGED <<pc, events, outcome>>
             \/ Escape \/ \E result \in Outcomes : Give(result)
    BY <1>13 DEF CompleteRequest, Outcomes
  <2>2. /\ call = "complete" /\ UNCHANGED <<call, stub>> /\ replies \in Seq(ReplyKinds)
        /\ Len(replies) <= 1 /\ kind \in ReplyKinds
    <3>1. /\ pc = "request" /\ call = "complete" /\ UNCHANGED <<call, stub>>
          /\ replies \in Seq(ReplyKinds) /\ CompleteStands
      BY <1>13 DEF CompleteRequest, Setting, TokenInv, RetryInv
    <3>2. Len(replies) = 0 \/ Len(replies) = 1
      BY <3>1 DEF CompleteStands
    <3>3. kind \in ReplyKinds
      BY DEF ReplyKinds
    <3>4. Len(replies) <= 1
      <4> DEFINE n == Len(replies)
      <4>1. n \in Nat /\ (n = 0 \/ n = 1)
        BY <3>1, <3>2, LenProperties
      <4> HIDE DEF n
      <4>2. n <= 1
        BY <4>1
      <4> QED
        BY <4>2 DEF n
    <3>5. call' = call /\ stub' = stub
      BY <3>1
    <3> QED
      BY <3>1, <3>3, <3>4, <3>5
  <2>3. Len(replies') = Len(replies) + 1 /\ Len(replies) \in Nat
    BY <2>1, <2>2, OneMoreReply
  <2>4. Len(replies') <= 2
    BY <2>2, <2>3
  <2>5. /\ pc' \in {pc, "ended"} /\ outcome' \in Outcomes /\ format' \in BOOLEAN
        /\ Yielded' \in Seq(EventTypes)
    BY <1>2, <1>4, <2>1 DEF CallTypes
  <2> QED
    BY <2>2, <2>4, <2>5 DEF CallTypes
<1>14. CASE UNCHANGED vars
  BY <1>2, <1>14 DEF vars, CallTypes
<1> QED
  BY <1>5, <1>6, <1>7, <1>8, <1>9, <1>10, <1>11, <1>12, <1>13, <1>14 DEF Next, Step, KeepAlive, Ended

LEMMA CallInit == Init => TokenInv /\ WireInv /\ CallTypes
<1> SUFFICES ASSUME Init PROVE TokenInv /\ WireInv /\ CallTypes
  OBVIOUS
<1>1. TokenInv
  BY RetryInit, NothingIsSequence DEF Init, TokenInv, EventsFollowControl, Streamed
<1>2. Yielded = <<>>
  BY DEF Init, Yielded
<1>3. CallTypes
  BY <1>2, AttemptsArePositive DEF Init, CallTypes, Outcomes
<1> QED
  BY <1>1, <1>3, WireInit

\* The types of the variables: no call makes more requests than its limit, and
\* however an answer is cut into reads, no more is buffered than was read.
THEOREM TypeCorrect == Spec => []TypeOK
<1>1. Init => TokenInv /\ WireInv /\ CallTypes
  BY CallInit
<1>2. TokenInv /\ WireInv /\ CallTypes /\ [Next]_vars => (TokenInv /\ WireInv /\ CallTypes)'
  BY RetryStep, TokenStep, WireStep, CallTypesStep DEF TokenInv, Simulates
<1>3. TokenInv /\ WireInv /\ CallTypes => TypeOK
  <2> SUFFICES ASSUME TokenInv, WireInv, CallTypes PROVE TypeOK
    OBVIOUS
  <2>1. \A i \in DOMAIN events : events[i].type \in EventTypes
    <3>1. \A i \in DOMAIN events : i \in DOMAIN Yielded /\ Yielded[i] = events[i].type
      BY DEF Yielded
    <3>2. \A i \in DOMAIN Yielded : Yielded[i] \in EventTypes
      BY DEF CallTypes
    <3> QED
      BY <3>1, <3>2
  <2>2. read \in 0 .. answer.at
    BY ClientAssumption DEF WireInv
  <2> QED
    BY <2>1, <2>2 DEF TokenInv, RetryInv, WireInv, CallTypes, EventTypes, TypeOK
<1> QED
  BY <1>1, <1>2, <1>3, PTL DEF Spec
-----------------------------------------------------------------------------
\* The bytes of an answer.
Frames(frames) == frames \in Seq(FrameKinds)
Width(kind) == IF kind = "wide" THEN 4 ELSE 3

\* Each frame ends as far behind the one before it as it is wide, so that the
\* ends are in the order of the frames.
LEMMA EndsOfFrames ==
  ASSUME NEW frames, Frames(frames)
  PROVE  /\ \A i \in 0 .. Len(frames) : EndOf(frames, i) \in Nat
         /\ EndOf(frames, 0) = 0
         /\ \A i \in 1 .. Len(frames) :
              EndOf(frames, i) = EndOf(frames, i - 1) + Width(frames[i])
         /\ \A i, j \in 0 .. Len(frames) : i <= j => EndOf(frames, i) <= EndOf(frames, j)
<1> DEFINE Wide(i) == {j \in 1 .. i : frames[j] = "wide"}
           n == Len(frames)
<1>1. n \in Nat
  BY LenProperties DEF Frames
<1>2. \A i \in 0 .. n : IsFiniteSet(Wide(i)) /\ Cardinality(Wide(i)) \in Nat
  <2> SUFFICES ASSUME NEW i \in 0 .. n PROVE IsFiniteSet(Wide(i)) /\ Cardinality(Wide(i)) \in Nat
    OBVIOUS
  <2>1. IsFiniteSet(1 .. i)
    BY <1>1, FS_Interval
  <2>2. Wide(i) \in SUBSET (1 .. i)
    OBVIOUS
  <2>3. IsFiniteSet(Wide(i))
    BY <2>1, <2>2, FS_Subset
  <2> QED
    BY <2>3, FS_CardinalityType
<1>3. \A i \in 0 .. n : EndOf(frames, i) = 3 * i + Cardinality(Wide(i))
  BY DEF EndOf
<1>4. EndOf(frames, 0) = 0
  <2>1. Wide(0) = {}
    OBVIOUS
  <2>2. Cardinality(Wide(0)) = 0
    BY <2>1, FS_EmptySet
  <2>3. 0 \in 0 .. n
    BY <1>1
  <2> HIDE DEF Wide
  <2>4. EndOf(frames, 0) = 3 * 0 + Cardinality(Wide(0))
    BY <1>3, <2>3
  <2> QED
    BY <2>2, <2>4
<1>5. ASSUME NEW i \in 1 .. n
      PROVE  EndOf(frames, i) = EndOf(frames, i - 1) + Width(frames[i])
  <2>1. i - 1 \in 0 .. n /\ i \in 0 .. n
    BY <1>1
  <2>2. i \notin Wide(i - 1)
    BY <1>1
  <2>3. Wide(i) = IF frames[i] = "wide" THEN Wide(i - 1) \cup {i} ELSE Wide(i - 1)
    BY <1>1
  <2> HIDE DEF Wide
  <2>4. Cardinality(Wide(i)) =
          IF frames[i] = "wide" THEN Cardinality(Wide(i - 1)) + 1 ELSE Cardinality(Wide(i - 1))
    BY <1>2, <2>1, <2>2, <2>3, FS_AddElement
  <2>5. Cardinality(Wide(i - 1)) \in Nat
    BY <1>2, <2>1
  <2>6. /\ EndOf(frames, i) = 3 * i + Cardinality(Wide(i))
        /\ EndOf(frames, i - 1) = 3 * (i - 1) + Cardinality(Wide(i - 1))
    BY <1>3, <2>1
  <2> QED
    BY <2>4, <2>5, <2>6 DEF Width
<1>6. ASSUME NEW i \in 0 .. n, NEW j \in 0 .. n, i <= j
      PROVE  EndOf(frames, i) <= EndOf(frames, j)
  <2>1. Wide(i) \in SUBSET Wide(j)
    BY <1>6
  <2> HIDE DEF Wide
  <2>2. Cardinality(Wide(i)) <= Cardinality(Wide(j))
    BY <1>2, <2>1, FS_Subset
  <2> QED
    BY <1>2, <1>3, <1>6, <2>2
<1>7. \A i \in 0 .. n : EndOf(frames, i) \in Nat
  <2> HIDE DEF Wide
  <2> QED
    BY <1>2, <1>3
<1> QED
  BY <1>4, <1>5, <1>6, <1>7

\* Which byte of which frame a byte of an answer is.
LEMMA ByteOfFrame ==
  ASSUME NEW frames, Frames(frames), NEW p \in 1 .. Len(frames), NEW w \in 1 .. Width(frames[p])
  PROVE  /\ EndOf(frames, p - 1) \in Nat
         /\ ByteOf(frames, EndOf(frames, p - 1) + w)
              = [frame |-> p, byte |-> FrameBytes(frames[p])[w]]
<1> DEFINE n == Len(frames)
           E(i) == EndOf(frames, i)
           k == E(p - 1) + w
           In(i) == E(i - 1) < k /\ k <= E(i)
<1>1. n \in Nat /\ p - 1 \in 0 .. n /\ DOMAIN frames = 1 .. n /\ w \in Nat /\ w >= 1
  BY LenProperties DEF Frames, Width
<1>2. \A i \in 0 .. n : E(i) \in Nat
  BY EndsOfFrames
<1>3. E(p) = E(p - 1) + Width(frames[p]) /\ Width(frames[p]) \in Nat
  BY EndsOfFrames DEF Width
<1>4. \A i, j \in 0 .. n : i <= j => E(i) <= E(j)
  BY EndsOfFrames
<1> HIDE DEF E
<1>5. In(p) /\ k \in Nat
  BY <1>1, <1>2, <1>3
<1>6. ASSUME NEW i \in 1 .. n, In(i) PROVE i = p
  <2>1. i \in 0 .. n /\ i - 1 \in 0 .. n /\ p \in 0 .. n
    BY <1>1
  <2>2. CASE i < p
    <3>1. i <= p - 1
      BY <1>1, <2>2
    <3>2. E(i) <= E(p - 1) /\ E(i) \in Nat /\ E(p - 1) \in Nat
      BY <1>1, <1>2, <1>4, <2>1, <3>1
    <3>3. E(p - 1) < k /\ k <= E(i)
      BY <1>5, <1>6
    <3> HIDE DEF k
    <3> QED
      BY <1>5, <3>2, <3>3
  <2>3. CASE p < i
    <3>1. p <= i - 1
      BY <1>1, <2>3
    <3>2. E(p) <= E(i - 1) /\ E(p) \in Nat /\ E(i - 1) \in Nat
      BY <1>1, <1>2, <1>4, <2>1, <3>1
    <3>3. E(i - 1) < k /\ k <= E(p)
      BY <1>5, <1>6
    <3> HIDE DEF k
    <3> QED
      BY <1>5, <3>2, <3>3
  <2> QED
    BY <1>1, <2>2, <2>3
<1>7. FrameOf(frames, k) = p
  <2>1. \A i \in 1 .. n : (EndOf(frames, i - 1) < k /\ k <= EndOf(frames, i)) => i = p
    BY <1>6 DEF E
  <2>2. EndOf(frames, p - 1) < k /\ k <= EndOf(frames, p)
    BY <1>5 DEF E
  <2> HIDE DEF k
  <2> QED
    BY <1>1, <2>1, <2>2 DEF FrameOf
<1>8. k - E(p - 1) = w
  BY <1>1, <1>2
<1> QED
  BY <1>1, <1>2, <1>7, <1>8 DEF ByteOf, E

\* The last two bytes of a frame are its newlines, and no others.
LEMMA NewlinesOfFrame ==
  ASSUME NEW kind, NEW w \in 1 .. Width(kind)
  PROVE  (FrameBytes(kind)[w] = "nl") = (w >= Width(kind) - 1)
<1>1. CASE kind = "wide"
  <2>1. w = 1 \/ w = 2 \/ w = 3 \/ w = 4
    BY <1>1 DEF Width
  <2> QED
    BY <1>1, <2>1 DEF FrameBytes, Width
<1>2. CASE kind # "wide"
  <2>1. w = 1 \/ w = 2 \/ w = 3
    BY <1>2 DEF Width
  <2> QED
    BY <1>2, <2>1 DEF FrameBytes, Width
<1> QED
  BY <1>1, <1>2

LEMMA AnswersAreFrames ==
  ASSUME WireInv
  PROVE  Frames(answer.frames) /\ Len(answer.frames) \in Nat
<1>1. PICK n \in 0 .. MaxFrames : answer.frames \in [1 .. n -> FrameKinds]
  BY DEF WireInv, SeqOf
<1>2. n \in Nat
  BY ClientAssumption
<1>3. answer.frames \in Seq(FrameKinds)
  BY <1>1, <1>2, SeqDef
<1> QED
  BY <1>3, LenProperties DEF Frames
-----------------------------------------------------------------------------
\* The first m frames of the answer have been taken, and the buffer has the
\* bytes behind them, as far as they were read: of each it still tells the
\* frame, and whether it is a newline.
Taken(m) == EndOf(answer.frames, m)
SameByte(b, c) == b.frame = c.frame /\ (b.byte = "nl") = (c.byte = "nl")
Consumed(m) ==
  /\ m \in 0 .. Len(answer.frames) /\ Taken(m) <= read /\ Len(buffer) = read - Taken(m)
  /\ \A k \in 1 .. Len(buffer) : SameByte(buffer[k], ByteOf(answer.frames, Taken(m) + k))

\* What the buffer starts with is the frame behind those that were taken.
LEMMA BufferIsNextFrame ==
  ASSUME WireInv, NEW m, Consumed(m), m < Len(answer.frames),
         NEW k \in 1 .. Len(buffer), k <= Width(answer.frames[m + 1])
  PROVE  /\ buffer[k].frame = m + 1
         /\ (buffer[k].byte = "nl") = (k >= Width(answer.frames[m + 1]) - 1)
<1>1. /\ Frames(answer.frames) /\ Len(answer.frames) \in Nat /\ m \in 0 .. Len(answer.frames)
      /\ SameByte(buffer[k], ByteOf(answer.frames, EndOf(answer.frames, m) + k))
  BY AnswersAreFrames DEF Consumed, Taken
<1>2. /\ m + 1 \in 1 .. Len(answer.frames) /\ (m + 1) - 1 = m
      /\ k \in 1 .. Width(answer.frames[m + 1])
  BY <1>1 DEF Width
<1> DEFINE p == m + 1
<1>3. p \in 1 .. Len(answer.frames) /\ p - 1 = m
  BY <1>2
<1> HIDE DEF p
<1>4. ByteOf(answer.frames, EndOf(answer.frames, p - 1) + k)
        = [frame |-> p, byte |-> FrameBytes(answer.frames[p])[k]]
  BY <1>1, <1>2, <1>3, ByteOfFrame DEF p
<1>5. buffer[k].frame = p /\ (buffer[k].byte = "nl") = (FrameBytes(answer.frames[p])[k] = "nl")
  BY <1>1, <1>3, <1>4 DEF SameByte
<1>6. (FrameBytes(answer.frames[p])[k] = "nl") = (k >= Width(answer.frames[p]) - 1)
  BY <1>2, NewlinesOfFrame DEF p
<1> QED
  BY <1>5, <1>6 DEF p

\* The separator that is found is the one of that frame, and it is found once
\* the frame is there.
LEMMA NextFrameIsFound ==
  ASSUME WireInv, answer.at <= Length(answer.frames), NEW m, Consumed(m)
  PROVE  /\ HasFrame =>
              /\ m < Len(answer.frames) /\ Place = m + 1
              /\ FrameEnd = Width(answer.frames[m + 1]) - 1
              /\ Width(answer.frames[m + 1]) <= Len(buffer)
         /\ m < Len(answer.frames) /\ EndOf(answer.frames, m + 1) <= read => HasFrame
<1> DEFINE n == Len(answer.frames)
           W == Width(answer.frames[m + 1])
           l == Len(buffer)
<1>1. /\ Frames(answer.frames) /\ n \in Nat /\ m \in 0 .. n /\ l \in Nat /\ DOMAIN buffer = 1 .. l
      /\ read \in Nat /\ Taken(m) \in Nat /\ l = read - Taken(m) /\ W \in {3, 4}
  <2>1. Frames(answer.frames) /\ n \in Nat /\ m \in 0 .. n
    BY AnswersAreFrames DEF Consumed
  <2>2. l \in Nat /\ DOMAIN buffer = 1 .. l /\ read \in Nat
    BY LenProperties DEF WireInv, SomeSequence
  <2>3. Taken(m) \in Nat
    BY <2>1, EndsOfFrames DEF Taken
  <2> QED
    BY <2>1, <2>2, <2>3 DEF Consumed, Width
<1>2. l > 0 => m < n
  <2>1. EndOf(answer.frames, n) \in Nat
    BY <1>1, EndsOfFrames
  <2>2. answer.at \in Nat /\ read <= answer.at /\ answer.at <= EndOf(answer.frames, n)
    BY ClientAssumption DEF WireInv, Length
  <2>3. read <= EndOf(answer.frames, n)
    BY <1>1, <2>1, <2>2
  <2> QED
    BY <1>1, <2>3 DEF Taken
<1>3. ASSUME m < n
      PROVE  \A k \in 1 .. l : k <= W =>
               buffer[k].frame = m + 1 /\ (buffer[k].byte = "nl") = (k >= W - 1)
  BY <1>3, BufferIsNextFrame
<1>4. ASSUME m < n, W <= l PROVE Separator(W - 1) /\ W - 1 \in DOMAIN buffer
  <2>1. W - 1 \in 1 .. l /\ W \in 1 .. l /\ (W - 1) + 1 = W /\ W - 1 < l
    BY <1>1, <1>4
  <2>2. buffer[W - 1].byte = "nl" /\ buffer[W].byte = "nl"
    BY <1>1, <1>3, <1>4, <2>1
  <2> HIDE DEF W
  <2> QED
    BY <1>1, <2>1, <2>2 DEF Separator
<1>5. ASSUME NEW k \in DOMAIN buffer, Separator(k) PROVE m < n /\ W - 1 <= k /\ W <= l
  <2>1. k \in 1 .. l /\ k < l /\ buffer[k].byte = "nl"
    BY <1>1, <1>5 DEF Separator
  <2>2. m < n
    BY <1>1, <1>2, <2>1
  <2>3. W - 1 <= k
    BY <1>1, <1>3, <2>1, <2>2
  <2> QED
    BY <1>1, <2>1, <2>2, <2>3
<1>6. ASSUME HasFrame
      PROVE  m < n /\ Place = m + 1 /\ FrameEnd = W - 1 /\ W <= l
  <2>1. m < n /\ W <= l
    BY <1>5, <1>6 DEF HasFrame
  <2>2. 1 \in 1 .. l /\ 1 <= W
    BY <1>1, <2>1
  <2>3. Place = m + 1
    BY <1>3, <2>1, <2>2 DEF Place
  <2>4. Separator(W - 1) /\ W - 1 \in DOMAIN buffer
    BY <1>4, <2>1
  <2>5. \A j \in 1 .. (W - 1) - 1 : ~Separator(j)
    <3> SUFFICES ASSUME NEW j \in 1 .. (W - 1) - 1, Separator(j) PROVE FALSE
      OBVIOUS
    <3>1. j \in DOMAIN buffer /\ j < W - 1
      BY <1>1, <2>1
    <3> QED
      BY <1>1, <1>5, <3>1
  <2>6. \A k \in DOMAIN buffer : Separator(k) /\ (\A j \in 1 .. k - 1 : ~Separator(j)) => k = W - 1
    <3> SUFFICES ASSUME NEW k \in DOMAIN buffer, Separator(k), k # W - 1,
                        \A j \in 1 .. k - 1 : ~Separator(j)
                 PROVE  FALSE
      OBVIOUS
    <3>1. W - 1 <= k
      BY <1>5
    <3>2. W - 1 \in 1 .. k - 1
      BY <1>1, <3>1
    <3> QED
      BY <2>4, <3>2
  <2> HIDE DEF W
  <2>7. FrameEnd = W - 1
    BY <2>4, <2>5, <2>6 DEF FrameEnd
  <2> QED
    BY <2>1, <2>3, <2>7
<1>7. ASSUME m < n, EndOf(answer.frames, m + 1) <= read PROVE HasFrame
  <2>1. EndOf(answer.frames, m + 1) = Taken(m) + W
    <3> DEFINE p == m + 1
    <3>1. p \in 1 .. n /\ p - 1 = m
      BY <1>1, <1>7
    <3> HIDE DEF p
    <3>2. EndOf(answer.frames, p) = EndOf(answer.frames, p - 1) + Width(answer.frames[p])
      BY <1>1, <3>1, EndsOfFrames
    <3> QED
      BY <3>1, <3>2 DEF p, Taken
  <2>2. W <= l
    BY <1>1, <1>7, <2>1
  <2> QED
    BY <1>4, <1>7, <2>2 DEF HasFrame
<1> QED
  BY <1>6, <1>7
\* A frame that is taken leaves the bytes behind it.
LEMMA TakingConsumes ==
  ASSUME WireInv, answer.at <= Length(answer.frames), NEW m, Consumed(m), HasFrame,
         buffer' = AfterFrame, UNCHANGED <<answer, read>>
  PROVE  /\ Consumed(m + 1)' /\ m < Len(answer.frames) /\ Place = m + 1
         /\ EndOf(answer.frames, m + 1) <= read
<1> DEFINE n == Len(answer.frames)
           W == Width(answer.frames[m + 1])
           l == Len(buffer)
<1>1. /\ m < n /\ Place = m + 1 /\ FrameEnd = W - 1 /\ W <= l
  BY NextFrameIsFound
<1>2. /\ Frames(answer.frames) /\ n \in Nat /\ m \in 0 .. n /\ l \in Nat /\ read \in Nat
      /\ W \in Nat
  BY AnswersAreFrames, LenProperties DEF Consumed, WireInv, SomeSequence, Width
<1>3. Taken(m) \in Nat /\ l = read - Taken(m)
  BY <1>2, EndsOfFrames DEF Taken, Consumed
<1>4. EndOf(answer.frames, m + 1) = Taken(m) + W
  <2> DEFINE p == m + 1
  <2>1. p \in 1 .. n /\ p - 1 = m
    BY <1>1, <1>2
  <2> HIDE DEF p
  <2>2. EndOf(answer.frames, p) = EndOf(answer.frames, p - 1) + Width(answer.frames[p])
    BY <1>2, <2>1, EndsOfFrames
  <2> QED
    BY <2>1, <2>2 DEF p, Taken
<1>5. buffer' = SubSeq(buffer, W + 1, l)
  <2> HIDE DEF W
  <2>1. FrameEnd + 2 = W + 1
    BY <1>1, <1>2
  <2> QED
    BY <2>1 DEF AfterFrame
<1>6. Len(buffer') = l - W /\ \A k \in 1 .. l - W : buffer'[k] = buffer[W + k]
  <2> HIDE DEF W, l
  <2>1. Len(buffer') = l - W
    BY <1>1, <1>2, <1>5, SomeSubSeq
  <2>2. ASSUME NEW k \in 1 .. l - W PROVE buffer'[k] = buffer[W + k]
    <3>1. k \in 1 .. (l - (W + 1) + 1) /\ (W + 1) + k - 1 = W + k
      BY <1>2
    <3>2. SubSeq(buffer, W + 1, l)[k] = buffer[(W + 1) + k - 1]
      BY <1>2, <3>1, SomeSubSeq
    <3> QED
      BY <1>5, <3>1, <3>2
  <2> QED
    BY <2>1, <2>2
<1>7. ASSUME NEW k \in 1 .. l - W
      PROVE  SameByte(buffer'[k], ByteOf(answer.frames, EndOf(answer.frames, m + 1) + k))
  <2>1. W + k \in 1 .. l /\ Taken(m) + (W + k) = EndOf(answer.frames, m + 1) + k
    BY <1>2, <1>3, <1>4
  <2>2. SameByte(buffer[W + k], ByteOf(answer.frames, Taken(m) + (W + k)))
    BY <2>1 DEF Consumed
  <2> QED
    BY <1>6, <2>1, <2>2
<1>8. /\ m + 1 \in 0 .. n /\ EndOf(answer.frames, m + 1) <= read
      /\ l - W = read - EndOf(answer.frames, m + 1)
  BY <1>1, <1>2, <1>3, <1>4
<1> HIDE DEF W, l
<1>9. Consumed(m + 1)'
  BY <1>6, <1>7, <1>8 DEF Consumed, Taken
<1> QED
  BY <1>1, <1>8, <1>9

\* Whichever bytes a read returns, they go behind those that are there.
LEMMA ReadingConsumes ==
  ASSUME WireInv, NEW m, Consumed(m), ReadChunk
  PROVE  Consumed(m)'
<1> DEFINE c == Min2(ReadSize, Left)
           l == Len(buffer)
<1>1. /\ buffer' = buffer \o Decode(Chunk) /\ read' = read + Len(Chunk) /\ answer' = answer
  BY DEF ReadChunk, Received
<1>2. /\ Frames(answer.frames) /\ Len(answer.frames) \in Nat /\ m \in 0 .. Len(answer.frames)
      /\ l \in Nat /\ read \in Nat /\ read <= answer.at /\ answer.at \in Nat /\ ReadSize \in Nat
  BY ClientAssumption, AnswersAreFrames, LenProperties DEF Consumed, WireInv, SomeSequence
<1>3. Taken(m) \in Nat /\ Taken(m) <= read /\ l = read - Taken(m)
  BY <1>2, EndsOfFrames DEF Taken, Consumed
<1>4. c \in Nat
  BY <1>2 DEF Left, Min2
<1>5. Chunk = [k \in 1 .. c |-> ByteOf(answer.frames, read + k)]
  BY DEF Chunk
<1> HIDE DEF c
<1>6. SomeSequence(Chunk) /\ Len(Chunk) = c
  <2>1. Chunk = [k \in 1 .. c |-> Chunk[k]]
    BY <1>5
  <2> QED
    BY <1>4, <2>1, AnySequence
<1>7. SomeSequence(Decode(Chunk)) /\ Len(Decode(Chunk)) = c
  BY <1>6, DecodeKeepsLength
<1>8. ASSUME NEW j \in 1 .. c PROVE SameByte(Decode(Chunk)[j], ByteOf(answer.frames, read + j))
  <2> DEFINE b == ByteOf(answer.frames, read + j)
  <2>1. DOMAIN Chunk = 1 .. c /\ Chunk[j] = b
    BY <1>5
  <2>2. \E f, y : b = [frame |-> f, byte |-> y]
    BY DEF ByteOf
  <2> HIDE DEF b
  <2>3. PICK f, y : b = [frame |-> f, byte |-> y]
    BY <2>2
  <2>4. b.frame = f /\ b.byte = y
    BY <2>3
  <2>5. \E z : (z = "nl") = (y = "nl") /\ Decode(Chunk)[j] = [b EXCEPT !.byte = z]
    BY <2>1, <2>4 DEF Decode
  <2>6. PICK z : (z = "nl") = (y = "nl") /\ Decode(Chunk)[j] = [b EXCEPT !.byte = z]
    BY <2>5
  <2>7. Decode(Chunk)[j] = [frame |-> f, byte |-> z]
    BY <2>3, <2>6
  <2> QED
    BY <2>4, <2>6, <2>7 DEF SameByte, b
<1>9. /\ Len(buffer') = l + c
      /\ \A k \in 1 .. l + c : buffer'[k] = IF k <= l THEN buffer[k] ELSE Decode(Chunk)[k - l]
  <2> HIDE DEF l
  <2>1. Len(buffer') = l + c
    BY <1>1, <1>7, SomeConcat DEF WireInv, l
  <2>2. \A k \in 1 .. l + c : buffer'[k] = IF k <= l THEN buffer[k] ELSE Decode(Chunk)[k - l]
    BY <1>1, <1>7, SomeConcat DEF WireInv, l
  <2> QED
    BY <2>1, <2>2
<1>10. ASSUME NEW k \in 1 .. l + c
       PROVE  SameByte(buffer'[k], ByteOf(answer.frames, Taken(m) + k))
  <2>1. CASE k <= l
    <3>1. k \in 1 .. l
      BY <1>2, <2>1
    <3> QED
      BY <1>9, <2>1, <3>1 DEF Consumed
  <2>2. CASE k > l
    <3>1. k - l \in 1 .. c /\ read + (k - l) = Taken(m) + k
      <4> HIDE DEF l
      <4> QED
        BY <1>2, <1>3, <1>4, <2>2
    <3>2. buffer'[k] = Decode(Chunk)[k - l]
      BY <1>2, <1>4, <1>9, <2>2
    <3>3. SameByte(Decode(Chunk)[k - l], ByteOf(answer.frames, read + (k - l)))
      BY <1>8, <3>1
    <3> QED
      BY <3>1, <3>2, <3>3
  <2> QED
    BY <1>2, <1>4, <2>1, <2>2
<1>11. read' = read + c /\ Taken(m) <= read + c /\ l + c = (read + c) - Taken(m)
  BY <1>1, <1>2, <1>3, <1>4, <1>6
<1> HIDE DEF l
<1> QED
  BY <1>1, <1>2, <1>9, <1>10, <1>11 DEF Consumed, Taken
-----------------------------------------------------------------------------
\* What has been yielded of the answer. While it is read, that is the text of
\* the frames that were taken, none of which ends it; a call that has ended
\* keeps what PiecesAreGiven says of it.
TextsOf(m) == {i \in 1 .. m : answer.frames[i] \in TextFrames}
NoEnd(m) == \A i \in 1 .. m : answer.frames[i] \notin EndFrames
PiecesInOrder == \A j, k \in Deltas : j < k => events[j].piece < events[k].piece

Stubbed ==
  /\ answer.frames = <<"text">> /\ answer.ends = "eof" /\ answer.at = 0
  /\ TextYielded = {1}
UpToHere ==
  /\ answer.at <= Length(answer.frames)
  /\ \E m \in 0 .. Len(answer.frames) : Consumed(m) /\ NoEnd(m) /\ TextYielded = TextsOf(m)

AnswerInv ==
  /\ PiecesInOrder
  /\ pc \in {"called", "request"} => TextYielded = {}
  /\ pc = "stubbed" => Stubbed
  /\ pc = "reading" => UpToHere
  /\ pc = "ended" => PiecesAreGiven

\* An event more is at the end of the events, and the others are as they were.
LEMMA OneMoreEvent ==
  ASSUME SomeSequence(events), NEW e, events' = Append(events, e)
  PROVE  /\ Len(events) \in Nat /\ DOMAIN events = 1 .. Len(events)
         /\ DOMAIN events' = 1 .. Len(events) + 1
         /\ \A i \in DOMAIN events : events'[i] = events[i]
         /\ events'[Len(events) + 1] = e
<1>1. PICK S : events \in Seq(S)
  BY DEF SomeSequence
<1> DEFINE T == S \cup {e}
<1>2. events \in Seq(T) /\ e \in T
  BY <1>1
<1> HIDE DEF T
<1>3. Len(events) \in Nat /\ DOMAIN events = 1 .. Len(events)
  BY <1>2, LenProperties
<1>4. /\ DOMAIN events' = 1 .. Len(events) + 1
      /\ \A i \in 1 .. Len(events) : events'[i] = events[i]
      /\ events'[Len(events) + 1] = e
  BY <1>2, <1>3
<1> QED
  BY <1>3, <1>4

\* An event that is not a piece of text yields none.
LEMMA NoTextMore ==
  ASSUME SomeSequence(events), NEW e, events' = Append(events, e),
         e.type # "delta" \/ e.piece = 0
  PROVE  TextYielded' = TextYielded /\ (PiecesInOrder => PiecesInOrder')
<1>1. /\ Len(events) \in Nat /\ DOMAIN events = 1 .. Len(events)
      /\ DOMAIN events' = 1 .. Len(events) + 1
      /\ \A i \in DOMAIN events : events'[i] = events[i]
      /\ events'[Len(events) + 1] = e
  BY OneMoreEvent
<1>2. Deltas' = Deltas
  <2>1. \A k \in 1 .. Len(events) + 1 : k \in Deltas' <=> k \in Deltas
    <3> TAKE k \in 1 .. Len(events) + 1
    <3>1. CASE k \in 1 .. Len(events)
      BY <1>1, <3>1 DEF Deltas
    <3>2. CASE k = Len(events) + 1
      BY <1>1, <3>2 DEF Deltas
    <3> QED
      BY <1>1, <3>1, <3>2
  <2>2. Deltas \subseteq 1 .. Len(events) + 1 /\ Deltas' \subseteq 1 .. Len(events) + 1
    BY <1>1 DEF Deltas
  <2> QED
    BY <2>1, <2>2
<1>3. \A k \in Deltas : events'[k] = events[k]
  BY <1>1 DEF Deltas
<1>4. TextYielded' = TextYielded
  BY <1>2, <1>3 DEF TextYielded
<1>5. PiecesInOrder => PiecesInOrder'
  BY <1>2, <1>3 DEF PiecesInOrder
<1> QED
  BY <1>4, <1>5

\* A piece of text behind all that were yielded keeps them in order.
LEMMA OneTextMore ==
  ASSUME SomeSequence(events), NEW i \in Nat \ {0}, NEW whole,
         events' = Append(events, Delta(i, whole)),
         PiecesInOrder, \A j \in TextYielded : j < i
  PROVE  TextYielded' = TextYielded \cup {i} /\ PiecesInOrder'
<1> DEFINE e == Delta(i, whole)
           n == Len(events) + 1
<1>1. e.type = "delta" /\ e.piece = i /\ i # 0
  BY DEF Delta
<1> HIDE DEF e
<1>2. /\ Len(events) \in Nat /\ DOMAIN events = 1 .. Len(events)
      /\ DOMAIN events' = 1 .. n
      /\ \A k \in DOMAIN events : events'[k] = events[k]
      /\ events'[n] = e
  BY OneMoreEvent DEF e
<1>3. n \notin Deltas /\ n \in Nat
  BY <1>2 DEF Deltas
<1>4. Deltas' = Deltas \cup {n}
  <2>1. \A k \in 1 .. n : k \in Deltas' <=> (k \in Deltas \/ k = n)
    <3> TAKE k \in 1 .. n
    <3>1. CASE k \in 1 .. Len(events)
      BY <1>2, <3>1 DEF Deltas
    <3>2. CASE k = n
      BY <1>1, <1>2, <3>2 DEF Deltas
    <3> QED
      BY <1>2, <3>1, <3>2
  <2>2. Deltas \subseteq 1 .. n /\ Deltas' \subseteq 1 .. n
    BY <1>2 DEF Deltas
  <2> HIDE DEF n
  <2>3. n \in 1 .. n
    BY <1>2 DEF n
  <2> QED
    BY <2>1, <2>2, <2>3
<1>5. \A k \in Deltas : events'[k] = events[k]
  BY <1>2 DEF Deltas
<1>6. events'[n].piece = i
  BY <1>1, <1>2
<1> HIDE DEF n
<1>7. TextYielded' = TextYielded \cup {i}
  BY <1>4, <1>5, <1>6 DEF TextYielded
<1>8. \A k \in Deltas : k < n /\ events[k].piece \in TextYielded
  BY <1>2 DEF Deltas, TextYielded, n
<1>9. ASSUME NEW j \in Deltas', NEW k \in Deltas', j < k
      PROVE  events'[j].piece < events'[k].piece
  <2>1. CASE k \in Deltas
    <3>1. j # n /\ j \in Deltas
      <4>1. k \in Nat /\ k < n
        BY <1>2, <1>8, <2>1 DEF Deltas
      <4>2. j # n
        BY <1>3, <1>9, <4>1
      <4> QED
        BY <1>4, <4>2
    <3> QED
      BY <1>5, <1>9, <2>1, <3>1 DEF PiecesInOrder
  <2>2. CASE k = n
    <3>1. j \in Deltas
      BY <1>3, <1>4, <1>9, <2>2
    <3>2. events[j].piece < i
      BY <1>8, <3>1
    <3> QED
      BY <1>5, <1>6, <2>2, <3>1, <3>2
  <2> QED
    BY <1>4, <2>1, <2>2
<1> QED
  BY <1>7, <1>9 DEF PiecesInOrder
-----------------------------------------------------------------------------
\* The text of the first frames is text of the answer without a gap, and all
\* of it where nothing or an end follows them.
LEMMA TextsAreSent ==
  ASSUME WireInv, NEW m \in 0 .. Len(answer.frames), NoEnd(m)
  PROVE  /\ TextsOf(m) \subseteq TextSent
         /\ \A i \in TextsOf(m), j \in TextSent : j < i => j \in TextsOf(m)
         /\ \/ m = Len(answer.frames)
            \/ m < Len(answer.frames) /\ answer.frames[m + 1] \in EndFrames
            => TextsOf(m) = TextSent
<1> DEFINE n == Len(answer.frames)
<1>1. n \in Nat /\ DOMAIN answer.frames = 1 .. n
  BY AnswersAreFrames, LenProperties DEF Frames
<1>2. TextsOf(m) \subseteq TextSent
  <2> SUFFICES ASSUME NEW i \in TextsOf(m) PROVE i \in TextSent
    OBVIOUS
  <2>1. i \in 1 .. m /\ i \in 1 .. n /\ \A j \in 1 .. i : j \in 1 .. m
    BY <1>1 DEF TextsOf
  <2> QED
    BY <1>1, <2>1 DEF TextsOf, TextSent, BeforeTheEnd, NoEnd
<1>3. ASSUME NEW j \in TextSent, j <= m PROVE j \in TextsOf(m)
  <2>1. j \in 1 .. m
    BY <1>1, <1>3 DEF TextSent, BeforeTheEnd
  <2> QED
    BY <2>1 DEF TextSent, TextsOf
<1>4. \A i \in TextsOf(m), j \in TextSent : j < i => j \in TextsOf(m)
  <2> SUFFICES ASSUME NEW i \in TextsOf(m), NEW j \in TextSent, j < i PROVE j \in TextsOf(m)
    OBVIOUS
  <2>1. j <= m
    BY <1>1 DEF TextsOf, TextSent, BeforeTheEnd
  <2> QED
    BY <1>3, <2>1
<1>5. ASSUME m = n \/ (m < n /\ answer.frames[m + 1] \in EndFrames), NEW j \in TextSent
      PROVE  j <= m
  <2>1. j \in 1 .. n /\ \A i \in 1 .. j : answer.frames[i] \notin EndFrames
    BY <1>1 DEF TextSent, BeforeTheEnd
  <2>2. CASE m = n
    BY <1>1, <2>1, <2>2
  <2>3. CASE m < n /\ answer.frames[m + 1] \in EndFrames
    <3>1. m + 1 \notin 1 .. j
      BY <2>1, <2>3
    <3> QED
      BY <1>1, <2>1, <3>1
  <2> QED
    BY <1>5, <2>2, <2>3
<1> QED
  BY <1>2, <1>3, <1>4, <1>5
-----------------------------------------------------------------------------
\* A call that ends with an answer in this state leaves what
\* PiecesAreGiven says.
LEMMA EndsWithAnswer ==
  ASSUME PiecesInOrder', TextYielded' = TextYielded, UNCHANGED <<call, answer, read>>,
         TextYielded \subseteq TextSent,
         \A i \in TextYielded, j \in TextSent : j < i => j \in TextYielded,
         call = "stream" /\ outcome' = "response" =>
           /\ answer.at = Length(answer.frames) => TextYielded = TextSent
           /\ answer.ends # "eof" => \E i \in ReadInFull : answer.frames[i] \in EndFrames
  PROVE  PiecesAreGiven'
<1>1. TextSent' = TextSent /\ ReadInFull' = ReadInFull
  BY DEF TextSent, BeforeTheEnd, ReadInFull
<1> QED
  BY <1>1 DEF PiecesAreGiven, PiecesInOrder

\* A call that ends with no text yielded and without a response.
LEMMA EndsWithNothing ==
  ASSUME PiecesInOrder', TextYielded' = TextYielded, TextYielded = {},
         call' = "stream" => outcome' # "response"
  PROVE  PiecesAreGiven'
BY DEF PiecesAreGiven, PiecesInOrder

\* Nothing new is yielded, and the answer is as it was.
LEMMA NothingYielded ==
  ASSUME AnswerInv, UNCHANGED <<events>>
  PROVE  PiecesInOrder' /\ TextYielded' = TextYielded
<1>1. Deltas' = Deltas
  BY DEF Deltas
<1> QED
  BY <1>1 DEF AnswerInv, PiecesInOrder, TextYielded

LEMMA LastEventIsNoText ==
  ASSUME AnswerInv, TokenInv, EndWith(Finish) \/ EndWith(Error)
  PROVE  PiecesInOrder' /\ TextYielded' = TextYielded
<1>1. PICK e \in {Finish, Error} : events' = Append(events, e)
  BY DEF EndWith
<1>2. e.type # "delta"
  BY DEF Finish, Error
<1> QED
  BY <1>1, <1>2, NoTextMore DEF AnswerInv, TokenInv, EventsFollowControl

\* The stub's answer is its one piece of text.
LEMMA StubAnswers ==
  ASSUME AnswerInv, TokenInv, WireInv, StubStream \/ StubEnds
  PROVE  AnswerInv'
<1>1. CASE StubStream
  <2>1. /\ answer' = [NoAnswer EXCEPT !.frames = <<"text">>] /\ pc = "request" /\ pc' = "stubbed"
        /\ events' = Append(events, Delta(1, TRUE)) /\ TextYielded = {} /\ PiecesInOrder
        /\ SomeSequence(events)
    BY <1>1 DEF StubStream, AnswerInv, TokenInv, EventsFollowControl
  <2>2. TextYielded' = TextYielded \cup {1} /\ PiecesInOrder'
    <3>1. 1 \in Nat \ {0} /\ \A j \in TextYielded : j < 1
      BY <2>1
    <3> QED
      BY <2>1, <3>1, OneTextMore
  <2>3. answer'.frames = <<"text">> /\ answer'.ends = "eof" /\ answer'.at = 0
    BY <2>1 DEF NoAnswer
  <2> QED
    BY <2>1, <2>2, <2>3 DEF AnswerInv, Stubbed
<1>2. CASE StubEnds
  <2>1. /\ Stubbed /\ pc' = "ended" /\ EndWith(Finish) /\ UNCHANGED <<call, answer, read>>
    BY <1>2 DEF StubEnds, EndWith, Setting, Wire, AnswerInv
  <2>2. PiecesInOrder' /\ TextYielded' = TextYielded
    BY <2>1, LastEventIsNoText
  <2>3. /\ DOMAIN answer.frames = {1} /\ answer.frames[1] = "text"
        /\ Len(answer.frames) = 1
    BY <2>1 DEF Stubbed
  <2>4. \A j \in 1 .. 1 : j = 1
    OBVIOUS
  <2>5. TextSent = {1}
    BY <2>3, <2>4 DEF TextSent, BeforeTheEnd, TextFrames, EndFrames
  <2>6. PiecesAreGiven'
    BY <2>1, <2>2, <2>5, EndsWithAnswer DEF Stubbed
  <2> QED
    BY <2>1, <2>2, <2>6 DEF AnswerInv
<1> QED
  BY <1>1, <1>2

\* An answer begins with none of its frames taken.
LEMMA AnswerBegins ==
  ASSUME AnswerInv, TokenInv, WireInv, StreamRequest
  PROVE  AnswerInv'
<1>1. /\ pc = "request" /\ TextYielded = {} /\ PiecesInOrder
  BY DEF StreamRequest, AnswerInv
<1>2. ASSUME UNCHANGED <<pc, events>> PROVE AnswerInv'
  BY <1>1, <1>2, NothingYielded DEF AnswerInv
<1>3. ASSUME EndWith(Error) PROVE AnswerInv'
  <2>1. pc' = "ended" /\ outcome' = "client_error"
    BY <1>3 DEF EndWith, Error
  <2> QED
    BY <1>1, <1>3, <2>1, LastEventIsNoText, EndsWithNothing DEF AnswerInv
<1>4. ASSUME Escape PROVE AnswerInv'
  <2>1. pc' = "ended" /\ outcome' = "exception" /\ UNCHANGED events
    BY <1>4 DEF Escape
  <2> QED
    BY <1>1, <2>1, NothingYielded, EndsWithNothing DEF AnswerInv
<1>5. ASSUME NEW a \in PossibleAnswers, Answered(a) PROVE AnswerInv'
  <2>1. /\ answer' = a /\ read' = 0 /\ buffer' = <<>> /\ pc' = "reading" /\ UNCHANGED events
    BY <1>5 DEF Answered
  <2>2. PiecesInOrder' /\ TextYielded' = {}
    BY <1>1, <2>1, NothingYielded
  <2>3. a.at <= Length(a.frames)
    BY DEF PossibleAnswers
  <2>4. Frames(a.frames) /\ Len(a.frames) \in Nat
    <3>1. PICK n \in 0 .. MaxFrames : a.frames \in [1 .. n -> FrameKinds]
      BY DEF PossibleAnswers, Answers, SeqOf
    <3>2. n \in Nat
      BY ClientAssumption
    <3>3. a.frames \in Seq(FrameKinds)
      BY <3>1, <3>2, SeqDef
    <3> QED
      BY <3>3, LenProperties DEF Frames
  <2>5. EndOf(a.frames, 0) = 0
    BY <2>4, EndsOfFrames
  <2>6. 0 \in 0 .. Len(a.frames)
    BY <2>4
  <2>7. Consumed(0)'
    BY <2>1, <2>5, <2>6, NothingIsSequence DEF Consumed, Taken
  <2>8. NoEnd(0)' /\ TextsOf(0)' = {}
    BY DEF NoEnd, TextsOf
  <2>9. UpToHere'
    BY <2>1, <2>2, <2>3, <2>6, <2>7, <2>8 DEF UpToHere
  <2> QED
    BY <2>1, <2>2, <2>9 DEF AnswerInv
<1>6. \/ \E kind \in {"transient", "permanent", "unreachable"} : Refused(kind)
      \/ \E a \in PossibleAnswers : Answered(a)
      \/ EndWith(Error) \/ Escape
  BY DEF StreamRequest
<1>7. ASSUME NEW kind, Refused(kind) PROVE UNCHANGED <<pc, events>> \/ EndWith(Error)
  BY <1>7 DEF Refused
<1> QED
  BY <1>2, <1>3, <1>4, <1>5, <1>6, <1>7

\* Reading on: a read, a frame that is taken, or the end of the answer.
LEMMA AnswerGoesOn ==
  ASSUME AnswerInv, TokenInv, WireInv, ReadChunk \/ BrokenRead \/ EndOfAnswer \/ TakeFrame
  PROVE  AnswerInv'
<1> DEFINE n == Len(answer.frames)
<1>1. /\ pc = "reading" /\ UNCHANGED <<call, answer>> /\ PiecesInOrder
      /\ answer.at <= Length(answer.frames) /\ SomeSequence(events)
  BY DEF ReadChunk, BrokenRead, EndOfAnswer, TakeFrame, Setting, Wire, AnswerInv, UpToHere,
         TokenInv, EventsFollowControl
<1>2. Frames(answer.frames) /\ n \in Nat
  BY AnswersAreFrames
<1>3. PICK m \in 0 .. n : Consumed(m) /\ NoEnd(m) /\ TextYielded = TextsOf(m)
  BY <1>1 DEF AnswerInv, UpToHere
<1>4. /\ TextYielded \subseteq TextSent
      /\ \A i \in TextYielded, j \in TextSent : j < i => j \in TextYielded
      /\ m = n => TextYielded = TextSent
      /\ m < n /\ answer.frames[m + 1] \in EndFrames => TextYielded = TextSent
  BY <1>3, TextsAreSent
<1>5. CASE ReadChunk
  <2>1. pc' = "reading" /\ UNCHANGED events
    BY <1>5 DEF ReadChunk
  <2>2. PiecesInOrder' /\ TextYielded' = TextYielded
    BY <2>1, NothingYielded
  <2>3. Consumed(m)'
    BY <1>3, <1>5, ReadingConsumes
  <2>4. NoEnd(m)' /\ TextsOf(m)' = TextsOf(m)
    BY <1>1, <1>3 DEF NoEnd, TextsOf
  <2>5. UpToHere'
    BY <1>1, <1>3, <2>2, <2>3, <2>4 DEF UpToHere
  <2> QED
    BY <2>1, <2>2, <2>5 DEF AnswerInv
<1>6. CASE BrokenRead
  <2>1. pc' = "ended" /\ read' = read /\ outcome' # "response"
    BY <1>6 DEF BrokenRead, EndWith, Escape, Error, Wire
  <2>2. PiecesInOrder' /\ TextYielded' = TextYielded
    BY <1>6, NothingYielded, LastEventIsNoText DEF BrokenRead, Escape
  <2>3. PiecesAreGiven'
    BY <1>1, <1>4, <2>1, <2>2, EndsWithAnswer
  <2> QED
    BY <2>1, <2>2, <2>3 DEF AnswerInv
<1>7. CASE EndOfAnswer
  <2>1. /\ pc' = "ended" /\ read' = read /\ EndWith(Finish) /\ ~HasFrame
        /\ answer.at - read = 0 /\ answer.ends = "eof"
    BY <1>7 DEF EndOfAnswer, EndWith, Wire, Left
  <2>2. PiecesInOrder' /\ TextYielded' = TextYielded
    BY <2>1, LastEventIsNoText
  <2>3. ASSUME answer.at = Length(answer.frames) PROVE m = n
    <3>1. CASE m < n
      <4>1. m + 1 \in 0 .. n /\ n \in 0 .. n /\ m + 1 <= n
        BY <1>2, <1>3, <3>1
      <4>2. EndOf(answer.frames, m + 1) <= EndOf(answer.frames, n)
        BY <1>2, <4>1, EndsOfFrames
      <4>3. EndOf(answer.frames, n) = read
        <5>1. read \in Nat /\ answer.at \in Nat
          BY ClientAssumption DEF WireInv
        <5> QED
          BY <2>1, <2>3, <5>1 DEF Length
      <4> QED
        BY <1>1, <1>3, <2>1, <3>1, <4>2, <4>3, NextFrameIsFound
    <3> QED
      BY <1>2, <1>3, <3>1
  <2>4. PiecesAreGiven'
    BY <1>1, <1>4, <2>1, <2>2, <2>3, EndsWithAnswer
  <2> QED
    BY <2>1, <2>2, <2>4 DEF AnswerInv
<1>8. CASE TakeFrame
  <2>1. buffer' = AfterFrame /\ HasFrame /\ UNCHANGED <<answer, read>>
    BY <1>8 DEF TakeFrame
  <2>2. /\ Consumed(m + 1)' /\ m < n /\ Place = m + 1
        /\ EndOf(answer.frames, m + 1) <= read
    BY <1>1, <1>3, <2>1, TakingConsumes
  <2> DEFINE p == m + 1
  <2>3. p \in 1 .. n /\ p \in 0 .. n /\ p \in Nat \ {0} /\ \A i \in 1 .. p : i \in 1 .. m \/ i = p
    BY <1>2, <1>3, <2>2
  <2>4. Kind = answer.frames[p]
    BY <2>2 DEF Kind
  <2> HIDE DEF p
  <2>5. ASSUME PiecesInOrder', TextYielded' = TextsOf(p), Kind \notin EndFrames, pc' = "reading"
        PROVE  AnswerInv'
    <3>1. NoEnd(p)'
      BY <1>1, <1>3, <2>3, <2>4, <2>5 DEF NoEnd
    <3>2. TextsOf(p)' = TextsOf(p) /\ Consumed(p)'
      BY <1>1, <2>2 DEF TextsOf, p
    <3>3. UpToHere'
      BY <1>1, <2>3, <2>5, <3>1, <3>2 DEF UpToHere
    <3> QED
      BY <2>5, <3>3 DEF AnswerInv
  <2>6. TextsOf(p) = IF Kind \in TextFrames THEN TextsOf(m) \cup {p} ELSE TextsOf(m)
    <3>1. \A i \in 1 .. m : i \in 1 .. p
      BY <1>3, <2>3 DEF p
    <3>2. p \in 1 .. p
      BY <2>3
    <3> QED
      BY <2>3, <2>4, <3>1, <3>2 DEF TextsOf
  <2>7. CASE Kind \in TextFrames /\ events' = Append(events, Delta(Place, Whole)) /\ pc' = pc
    <3>1. \A j \in TextYielded : j < p
      BY <1>3 DEF TextsOf, p
    <3>2. events' = Append(events, Delta(p, Whole))
      BY <2>2, <2>7 DEF p
    <3>3. TextYielded' = TextYielded \cup {p} /\ PiecesInOrder'
      BY <1>1, <2>3, <3>1, <3>2, OneTextMore
    <3>4. Kind \notin EndFrames
      BY <2>7 DEF TextFrames, EndFrames
    <3> QED
      BY <1>1, <1>3, <2>5, <2>6, <2>7, <3>3, <3>4
  <2>8. CASE Kind = "failed" /\ events' = Append(events, Delta(0, TRUE)) /\ pc' = pc
    <3>1. Delta(0, TRUE).piece = 0
      BY DEF Delta
    <3>2. TextYielded' = TextYielded /\ PiecesInOrder'
      BY <1>1, <2>8, <3>1, NoTextMore
    <3>3. Kind \notin EndFrames /\ Kind \notin TextFrames
      BY <2>8 DEF TextFrames, EndFrames
    <3> QED
      BY <1>1, <1>3, <2>5, <2>6, <2>8, <3>2, <3>3
  <2>9. CASE Kind = "noise" /\ UNCHANGED <<pc, events, outcome>>
    <3>1. PiecesInOrder' /\ TextYielded' = TextYielded
      BY <2>9, NothingYielded
    <3>2. Kind \notin EndFrames /\ Kind \notin TextFrames
      BY <2>9 DEF TextFrames, EndFrames
    <3> QED
      BY <1>1, <1>3, <2>5, <2>6, <2>9, <3>1, <3>2
  <2>10. CASE Kind \in EndFrames /\ EndWith(Finish)
    <3>1. PiecesInOrder' /\ TextYielded' = TextYielded
      BY <2>10, LastEventIsNoText
    <3>2. TextYielded = TextSent
      BY <1>4, <2>2, <2>4, <2>10 DEF p
    <3>3. p \in ReadInFull /\ answer.frames[p] \in EndFrames
      <4>1. p \in DOMAIN answer.frames
        BY <1>2, <2>3, LenProperties DEF Frames
      <4> QED
        BY <2>2, <2>4, <2>10, <4>1 DEF ReadInFull, p
    <3>4. PiecesAreGiven'
      BY <1>1, <1>4, <2>1, <3>1, <3>2, <3>3, EndsWithAnswer
    <3>5. pc' = "ended"
      BY <2>10 DEF EndWith
    <3> QED
      BY <3>1, <3>4, <3>5 DEF AnswerInv
  <2> QED
    BY <1>8, <2>7, <2>8, <2>9, <2>10 DEF TakeFrame
<1> QED
  BY <1>5, <1>6, <1>7, <1>8

LEMMA AnswerStep ==
  ASSUME AnswerInv, TokenInv, WireInv, [Next]_vars
  PROVE  AnswerInv'
<1>1. CASE StubStream \/ StubEnds
  BY <1>1, StubAnswers
<1>2. CASE StubComplete
  <2>1. /\ pc = "called" /\ pc' = "ended" /\ UNCHANGED events /\ call' # "stream"
        /\ TextYielded = {}
    BY <1>2 DEF StubComplete, Give, Setting, AnswerInv
  <2> QED
    BY <2>1, NothingYielded, EndsWithNothing DEF AnswerInv
<1>3. CASE Begin
  <2>1. pc = "called" /\ pc' = "request" /\ TextYielded = {} /\ events = <<>> /\ PiecesInOrder
    BY <1>3 DEF Begin, AnswerInv, TokenInv, EventsFollowControl
  <2>2. CASE call = "stream"
    <3>1. events' = Append(events, Start)
      BY <1>3, <2>1, <2>2 DEF Begin
    <3>2. Start.type # "delta"
      BY DEF Start
    <3>3. TextYielded' = {} /\ PiecesInOrder'
      BY <2>1, <3>1, <3>2, NoTextMore DEF TokenInv, EventsFollowControl
    <3> QED
      BY <2>1, <3>3 DEF AnswerInv
  <2>3. CASE call # "stream"
    BY <1>3, <2>1, <2>3, NothingYielded DEF Begin, AnswerInv
  <2> QED
    BY <2>2, <2>3
<1>4. CASE StreamRequest
  BY <1>4, AnswerBegins
<1>5. CASE ReadChunk \/ BrokenRead \/ EndOfAnswer \/ TakeFrame
  BY <1>5, AnswerGoesOn
<1>6. CASE CompleteRequest
  <2>1. /\ pc = "request" /\ call' # "stream" /\ UNCHANGED events /\ pc' \in {"request", "ended"}
        /\ TextYielded = {}
    BY <1>6 DEF CompleteRequest, Give, Escape, Setting, AnswerInv
  <2> QED
    BY <2>1, NothingYielded, EndsWithNothing DEF AnswerInv
<1>7. CASE UNCHANGED vars
  <2>1. UNCHANGED <<call, pc, answer, read, buffer, events, outcome>>
    BY <1>7 DEF vars
  <2>2. PiecesInOrder' /\ TextYielded' = TextYielded
    BY <2>1, NothingYielded
  <2>3. pc = "ended" => PiecesAreGiven'
    <3>1. /\ Deltas' = Deltas /\ TextSent' = TextSent /\ ReadInFull' = ReadInFull
      BY <2>1 DEF Deltas, TextSent, BeforeTheEnd, ReadInFull
    <3> QED
      BY <2>1, <2>2, <3>1 DEF AnswerInv, PiecesAreGiven
  <2>4. (Stubbed => Stubbed') /\ (UpToHere => UpToHere')
    <3>1. \A m : Consumed(m) => Consumed(m)'
      BY <2>1 DEF Consumed, Taken
    <3>2. \A m : (NoEnd(m) => NoEnd(m)') /\ TextsOf(m)' = TextsOf(m)
      BY <2>1 DEF NoEnd, TextsOf
    <3> QED
      BY <2>1, <2>2, <3>1, <3>2 DEF UpToHere, Stubbed
  <2> QED
    BY <2>1, <2>2, <2>3, <2>4 DEF AnswerInv
<1> QED
  BY <1>1, <1>2, <1>3, <1>4, <1>5, <1>6, <1>7 DEF Next, Step, KeepAlive, Ended

-----------------------------------------------------------------------------
\* A piece is harmed only by a read that cuts it: reads end at multiples of
\* their size or where the answer does, and a half character that was replaced
\* lies at such an end, or in a frame that never comes in full.
Harmed(i) == CutByARead(i) \/ EndOf(answer.frames, i) > answer.at
HarmInv ==
  /\ HarmedOnlyByCuts
  /\ pc = "reading" =>
       /\ read = answer.at \/ \E n \in Nat : read = n * ReadSize
       /\ \A k \in 1 .. Len(buffer) : buffer[k].byte = "replaced" => Harmed(buffer[k].frame)

\* Every byte of an answer is one of a frame.
LEMMA EveryByteHasFrame ==
  ASSUME NEW frames, Frames(frames), NEW k \in 1 .. Length(frames)
  PROVE  \E p \in 1 .. Len(frames) : \E w \in 1 .. Width(frames[p]) :
           k = EndOf(frames, p - 1) + w
<1> DEFINE n == Len(frames)
           S == {i \in 1 .. n : k <= EndOf(frames, i)}
<1>1. n \in Nat /\ \A i \in 0 .. n : EndOf(frames, i) \in Nat
  BY EndsOfFrames, LenProperties DEF Frames
<1>2. EndOf(frames, 0) = 0 /\ k <= EndOf(frames, n) /\ k \in Nat /\ k >= 1
  BY <1>1, EndsOfFrames DEF Length
<1>3. n \in 1 .. n
  BY <1>1, <1>2
<1>4. PICK p \in S : \A j \in S : p <= j
  <2>1. n \in S /\ S \subseteq Nat
    BY <1>2, <1>3
  <2> HIDE DEF S
  <2> QED
    BY <2>1, FirstExists
<1>5. p \in 1 .. n /\ p - 1 \in 0 .. n /\ k <= EndOf(frames, p)
  BY <1>1
<1>6. EndOf(frames, p - 1) < k
  <2>1. CASE p = 1
    BY <1>2, <2>1
  <2>2. CASE p # 1
    <3>1. p - 1 \in 1 .. n /\ p - 1 \notin S
      BY <1>1, <1>4, <1>5, <2>2
    <3> QED
      BY <1>1, <1>2, <1>5, <3>1
  <2> QED
    BY <2>1, <2>2
<1>7. EndOf(frames, p) = EndOf(frames, p - 1) + Width(frames[p]) /\ Width(frames[p]) \in Nat
  BY <1>5, EndsOfFrames DEF Width
<1> DEFINE w == k - EndOf(frames, p - 1)
<1>8. w \in 1 .. Width(frames[p]) /\ k = EndOf(frames, p - 1) + w
  BY <1>1, <1>2, <1>5, <1>6, <1>7
<1> QED
  BY <1>5, <1>8

\* The two bytes of a character are the first two of a wide frame.
LEMMA HalvesOfFrame ==
  ASSUME NEW kind, NEW w \in 1 .. Width(kind)
  PROVE  /\ FrameBytes(kind)[w] = "lead" => Width(kind) = 4 /\ w = 1
         /\ FrameBytes(kind)[w] = "trail" => Width(kind) = 4 /\ w = 2
         /\ FrameBytes(kind)[w] # "replaced"
<1>1. CASE kind = "wide"
  <2>1. w = 1 \/ w = 2 \/ w = 3 \/ w = 4
    BY <1>1 DEF Width
  <2> QED
    BY <1>1, <2>1 DEF FrameBytes, Width
<1>2. CASE kind # "wide"
  <2>1. w = 1 \/ w = 2 \/ w = 3
    BY <1>2 DEF Width
  <2> QED
    BY <1>2, <2>1 DEF FrameBytes, Width
<1> QED
  BY <1>1, <1>2

\* A read of full size behind n others ends at the next multiple of it.
LEMMA ReadsInARow ==
  ASSUME NEW n \in Nat
  PROVE  /\ n * ReadSize + ReadSize = (n + 1) * ReadSize
         /\ n <= n * ReadSize /\ n * ReadSize \in Nat
<1>1. ReadSize \in Nat /\ ReadSize >= 1
  BY ClientAssumption
<1>2. n * ReadSize + ReadSize = (n + 1) * ReadSize /\ n * ReadSize \in Nat
  BY <1>1
<1>3. n * ReadSize = n + n * (ReadSize - 1)
  BY <1>1
<1>4. n * (ReadSize - 1) \in Nat
  BY <1>1
<1> QED
  BY <1>2, <1>3, <1>4

\* What a read replaces is half of a character that it cuts, or one that the
\* end of the answer does.
LEMMA ReadingHarms ==
  ASSUME WireInv, answer.at <= Length(answer.frames), pc = "reading", HarmInv, ReadChunk,
         NEW j \in 1 .. Min2(ReadSize, Left), Decode(Chunk)[j].byte = "replaced"
  PROVE  Harmed(Decode(Chunk)[j].frame)
<1> DEFINE c == Min2(ReadSize, Left)
           f == answer.frames
<1>1. /\ Frames(f) /\ read \in Nat /\ answer.at \in Nat /\ read <= answer.at
      /\ ReadSize \in Nat /\ ReadSize >= 1
  BY ClientAssumption, AnswersAreFrames DEF WireInv
<1>2. /\ c \in Nat /\ j \in Nat /\ 1 <= j /\ j <= c /\ c <= ReadSize /\ read + c <= answer.at
      /\ c = ReadSize \/ read + c = answer.at
  BY <1>1 DEF Left, Min2
<1>3. Length(f) \in Nat
  BY <1>1, EndsOfFrames, LenProperties DEF Length, Frames
<1>4. read + j \in 1 .. Length(f)
  BY <1>1, <1>2, <1>3
<1>5. PICK p \in 1 .. Len(f) : \E w \in 1 .. Width(f[p]) : read + j = EndOf(f, p - 1) + w
  BY <1>1, <1>4, EveryByteHasFrame
<1>6. PICK w \in 1 .. Width(f[p]) : read + j = EndOf(f, p - 1) + w
  BY <1>5
<1>7. /\ EndOf(f, p - 1) \in Nat
      /\ ByteOf(f, read + j) = [frame |-> p, byte |-> FrameBytes(f[p])[w]]
  BY <1>1, <1>6, ByteOfFrame
<1>8. EndOf(f, p) = EndOf(f, p - 1) + Width(f[p])
  BY <1>1, EndsOfFrames
<1> DEFINE y == FrameBytes(f[p])[w]
<1>9. DOMAIN Chunk = 1 .. c /\ Chunk[j] = [frame |-> p, byte |-> y] /\ Len(Chunk) = c
  <2>1. Chunk = [k \in 1 .. c |-> ByteOf(f, read + k)]
    BY DEF Chunk
  <2> HIDE DEF c
  <2>2. Chunk = [k \in 1 .. c |-> Chunk[k]]
    BY <2>1
  <2>3. Len(Chunk) = c
    BY <1>2, <2>2, AnySequence
  <2>4. j \in 1 .. c
    BY <1>2
  <2> QED
    BY <1>7, <2>1, <2>3, <2>4
<1> HIDE DEF c, y
<1>10. y # "replaced"
  BY HalvesOfFrame DEF y
<1>11. /\ Decode(Chunk)[j].frame = p
       /\ (y = "lead" /\ j = c) \/ (y = "trail" /\ j = 1)
  <2>1. j \in DOMAIN Chunk /\ Chunk[j].byte = y /\ Chunk[j].frame = p
    BY <1>2, <1>9
  <2>2. Decode(Chunk)[j] =
          [Chunk[j] EXCEPT !.byte =
            CASE y = "nl" -> "nl"
              [] y = "lead" /\ j = c -> "replaced"
              [] y = "trail" /\ j = 1 -> "replaced"
              [] OTHER -> "char"]
    BY <1>9, <2>1 DEF Decode
  <2>3. Decode(Chunk)[j].frame = p
    BY <1>9, <2>2
  <2>4. Decode(Chunk)[j].byte =
          CASE y = "nl" -> "nl"
            [] y = "lead" /\ j = c -> "replaced"
            [] y = "trail" /\ j = 1 -> "replaced"
            [] OTHER -> "char"
    BY <1>9, <2>2
  <2> QED
    BY <2>3, <2>4
<1>12. PICK n \in Nat : read = n * ReadSize
  <2>1. read # answer.at
    BY <1>1, <1>2
  <2> QED
    BY <2>1 DEF HarmInv
<1>13. CASE y = "lead" /\ j = c
  <2>1. EndOf(f, p) - 3 = read + c
    <3>1. Width(f[p]) = 4 /\ w = 1
      BY <1>13, HalvesOfFrame DEF y
    <3> QED
      BY <1>1, <1>2, <1>6, <1>7, <1>8, <1>13, <3>1
  <2>2. CASE c = ReadSize
    <3>1. read + c = (n + 1) * ReadSize
      BY <1>12, <2>2, ReadsInARow
    <3>2. n + 1 <= (n + 1) * ReadSize
      <4>1. n + 1 \in Nat
        OBVIOUS
      <4> HIDE DEF f
      <4> QED
        BY <4>1, ReadsInARow
    <3>3. n + 1 \in 1 .. answer.at
      BY <1>1, <1>2, <3>1, <3>2
    <3>4. CutByARead(p)
      BY <2>1, <3>1, <3>3 DEF CutByARead
    <3> QED
      BY <1>11, <3>4 DEF Harmed
  <2>3. CASE read + c = answer.at
    <3>1. EndOf(f, p) > answer.at
      BY <1>1, <1>7, <1>8, <2>1, <2>3 DEF Width
    <3> QED
      BY <1>11, <3>1 DEF Harmed
  <2> QED
    BY <1>2, <2>2, <2>3
<1>14. CASE y = "trail" /\ j = 1
  <2>1. EndOf(f, p) - 3 = read /\ read >= 1
    <3>1. Width(f[p]) = 4 /\ w = 2
      BY <1>14, HalvesOfFrame DEF y
    <3> QED
      BY <1>1, <1>6, <1>7, <1>8, <1>14, <3>1
  <2>2. n <= read /\ n # 0
    BY <1>1, <1>12, <2>1, ReadsInARow
  <2>3. n \in 1 .. answer.at
    BY <1>1, <2>2
  <2>4. CutByARead(p)
    BY <1>12, <2>1, <2>3 DEF CutByARead
  <2> QED
    BY <1>11, <2>4 DEF Harmed
<1> QED
  BY <1>11, <1>13, <1>14

\* An event is no piece of text, or one that only a cut harmed.
LEMMA OneMorePiece ==
  ASSUME SomeSequence(events), HarmedOnlyByCuts, UNCHANGED answer,
         NEW e, events' = Append(events, e),
         e.type = "delta" /\ e.piece # 0 => e.whole \/ CutByARead(e.piece)
  PROVE  HarmedOnlyByCuts'
<1>1. /\ Len(events) \in Nat /\ DOMAIN events = 1 .. Len(events)
      /\ DOMAIN events' = 1 .. Len(events) + 1
      /\ \A i \in DOMAIN events : events'[i] = events[i]
      /\ events'[Len(events) + 1] = e
  BY OneMoreEvent
<1>2. ASSUME NEW k \in Deltas' PROVE events'[k].whole \/ CutByARead(events'[k].piece)
  <2>1. CASE k \in DOMAIN events
    BY <1>1, <1>2, <2>1 DEF Deltas, HarmedOnlyByCuts
  <2>2. CASE k = Len(events) + 1
    BY <1>1, <1>2, <2>2 DEF Deltas
  <2> QED
    BY <1>1, <1>2, <2>1, <2>2 DEF Deltas
<1>3. \A i : CutByARead(i)' <=> CutByARead(i)
  BY DEF CutByARead
<1> QED
  BY <1>2, <1>3 DEF HarmedOnlyByCuts

LEMMA NoPieceMore ==
  ASSUME SomeSequence(events), HarmedOnlyByCuts, UNCHANGED answer,
         UNCHANGED events \/ EndWith(Finish) \/ EndWith(Error)
  PROVE  HarmedOnlyByCuts'
<1>1. CASE UNCHANGED events
  BY <1>1 DEF HarmedOnlyByCuts, Deltas, CutByARead
<1>2. ASSUME NEW e \in {Finish, Error}, EndWith(e) PROVE HarmedOnlyByCuts'
  <2>1. e.type # "delta"
    BY DEF Finish, Error
  <2> QED
    BY <1>2, <2>1, OneMorePiece DEF EndWith
<1> QED
  BY <1>1, <1>2

\* A frame that is taken was read in full, so that only a cut can have harmed it.
LEMMA TakingHarms ==
  ASSUME WireInv, TokenInv, AnswerInv, HarmInv, TakeFrame
  PROVE  HarmInv'
<1> DEFINE l == Len(buffer)
<1>1. /\ pc = "reading" /\ HasFrame /\ buffer' = AfterFrame /\ UNCHANGED <<answer, read>>
      /\ SomeSequence(events) /\ answer.at <= Length(answer.frames)
  BY DEF TakeFrame, AnswerInv, UpToHere, TokenInv, EventsFollowControl
<1>2. PICK m \in 0 .. Len(answer.frames) : Consumed(m)
  BY <1>1 DEF AnswerInv, UpToHere
<1>3. /\ m < Len(answer.frames) /\ Place = m + 1
      /\ FrameEnd = Width(answer.frames[m + 1]) - 1 /\ Width(answer.frames[m + 1]) <= l
  BY <1>1, <1>2, NextFrameIsFound
<1>4. EndOf(answer.frames, m + 1) <= read
  BY <1>1, <1>2, TakingConsumes
<1>5. l \in Nat /\ read \in Nat /\ answer.at \in Nat /\ read <= answer.at
  BY ClientAssumption, LenProperties DEF WireInv, SomeSequence
<1>6. ASSUME ~Whole PROVE CutByARead(Place)
  <2>1. PICK k \in 1 .. FrameEnd - 1 : buffer[k].byte = "replaced"
    BY <1>6 DEF Whole
  <2>2. k \in 1 .. l /\ k <= Width(answer.frames[m + 1])
    BY <1>3, <1>5 DEF Width
  <2>3. buffer[k].frame = m + 1
    BY <1>2, <1>3, <2>2, BufferIsNextFrame
  <2>4. Harmed(m + 1)
    BY <1>1, <2>1, <2>2, <2>3 DEF HarmInv
  <2>5. ~(EndOf(answer.frames, m + 1) > answer.at)
    <3>1. EndOf(answer.frames, m + 1) \in Nat
      <4>1. m + 1 \in 0 .. Len(answer.frames) /\ Frames(answer.frames)
        BY <1>3, AnswersAreFrames
      <4> QED
        BY <4>1, EndsOfFrames
    <3> QED
      BY <1>4, <1>5, <3>1
  <2> QED
    BY <1>3, <2>4, <2>5 DEF Harmed
<1>7. HarmedOnlyByCuts'
  <2>1. Delta(0, TRUE).piece = 0
    BY DEF Delta
  <2>2. ASSUME events' = Append(events, Delta(Place, Whole)) PROVE HarmedOnlyByCuts'
    <3>1. Delta(Place, Whole).piece = Place /\ Delta(Place, Whole).whole = Whole
      BY DEF Delta
    <3> QED
      BY <1>1, <1>6, <2>2, <3>1, OneMorePiece DEF HarmInv
  <2>3. ASSUME events' = Append(events, Delta(0, TRUE)) PROVE HarmedOnlyByCuts'
    BY <1>1, <2>1, <2>3, OneMorePiece DEF HarmInv
  <2>4. ASSUME UNCHANGED events \/ EndWith(Finish) PROVE HarmedOnlyByCuts'
    BY <1>1, <2>4, NoPieceMore DEF HarmInv
  <2> QED
    BY <2>2, <2>3, <2>4 DEF TakeFrame
<1>8. ASSUME NEW k \in 1 .. Len(buffer'), buffer'[k].byte = "replaced"
      PROVE  Harmed(buffer'[k].frame)
  <2>1. FrameEnd \in Nat
    BY <1>3 DEF Width
  <2>2. buffer' = SubSeq(buffer, FrameEnd + 2, l)
    BY <1>1 DEF AfterFrame
  <2>3. Len(buffer') = (IF FrameEnd + 2 <= l THEN l - (FrameEnd + 2) + 1 ELSE 0)
    BY <1>5, <2>1, <2>2, SomeSubSeq
  <2>4. k \in 1 .. l - (FrameEnd + 2) + 1
    BY <1>5, <1>8, <2>1, <2>3
  <2>5. buffer'[k] = buffer[(FrameEnd + 2) + k - 1]
    BY <1>5, <2>1, <2>2, <2>4, SomeSubSeq
  <2>6. (FrameEnd + 2) + k - 1 \in 1 .. l
    BY <1>5, <2>1, <2>4
  <2> QED
    BY <1>1, <1>8, <2>5, <2>6 DEF HarmInv
<1>9. pc' = "reading" => read' = answer'.at \/ \E n \in Nat : read' = n * ReadSize
  BY <1>1 DEF HarmInv
<1> QED
  BY <1>1, <1>7, <1>8, <1>9 DEF HarmInv, Harmed, CutByARead

\* A further read ends where the reads do, and harms what it cuts.
LEMMA ReadingOnHarms ==
  ASSUME WireInv, TokenInv, AnswerInv, HarmInv, ReadChunk
  PROVE  HarmInv'
<1> DEFINE c == Min2(ReadSize, Left)
           l == Len(buffer)
<1>1. /\ pc = "reading" /\ buffer' = buffer \o Decode(Chunk) /\ read' = read + Len(Chunk)
      /\ UNCHANGED <<answer, events>> /\ SomeSequence(events)
      /\ answer.at <= Length(answer.frames)
  BY DEF ReadChunk, Received, AnswerInv, UpToHere, TokenInv, EventsFollowControl
<1>2. /\ read \in Nat /\ answer.at \in Nat /\ read <= answer.at
      /\ ReadSize \in Nat /\ ReadSize >= 1 /\ SomeSequence(buffer)
  BY ClientAssumption DEF WireInv
<1>3. /\ c \in Nat /\ read + c <= answer.at
      /\ (c = ReadSize /\ read # answer.at) \/ read + c = answer.at
  BY <1>2 DEF Left, Min2
<1>4. SomeSequence(Chunk) /\ Len(Chunk) = c
  <2>1. Chunk = [k \in 1 .. c |-> Chunk[k]]
    BY DEF Chunk
  <2> HIDE DEF c
  <2> QED
    BY <1>3, <2>1, AnySequence
<1>5. SomeSequence(Decode(Chunk)) /\ Len(Decode(Chunk)) = c
  BY <1>4, DecodeKeepsLength
<1>6. /\ l \in Nat /\ Len(buffer') = l + c
      /\ \A k \in 1 .. l + c : buffer'[k] = IF k <= l THEN buffer[k] ELSE Decode(Chunk)[k - l]
  <2> HIDE DEF c
  <2> QED
    BY <1>1, <1>2, <1>5, SomeConcat
<1>7. \A j \in 1 .. c : Decode(Chunk)[j].byte = "replaced" => Harmed(Decode(Chunk)[j].frame)
  BY <1>1, ReadingHarms
<1> HIDE DEF c, l
<1>8. ASSUME NEW k \in 1 .. Len(buffer'), buffer'[k].byte = "replaced"
      PROVE  Harmed(buffer'[k].frame)
  <2>1. CASE k <= l
    <3>1. k \in 1 .. l /\ buffer'[k] = buffer[k]
      BY <1>3, <1>6, <1>8, <2>1
    <3> QED
      BY <1>1, <1>8, <3>1 DEF HarmInv, l
  <2>2. CASE k > l
    <3>1. k - l \in 1 .. c /\ buffer'[k] = Decode(Chunk)[k - l]
      BY <1>3, <1>6, <1>8, <2>2
    <3> QED
      BY <1>7, <1>8, <3>1
  <2> QED
    BY <1>6, <1>8, <2>1, <2>2
<1>9. read' = answer'.at \/ \E n \in Nat : read' = n * ReadSize
  <2>1. CASE read + c = answer.at
    BY <1>1, <1>4, <2>1
  <2>2. CASE c = ReadSize /\ read # answer.at
    <3>1. PICK n \in Nat : read = n * ReadSize
      BY <1>1, <2>2 DEF HarmInv
    <3>2. read' = (n + 1) * ReadSize
      BY <1>1, <1>4, <2>2, <3>1, ReadsInARow
    <3> QED
      BY <3>2
  <2> QED
    BY <1>3, <2>1, <2>2
<1>10. HarmedOnlyByCuts'
  BY <1>1, NoPieceMore DEF HarmInv
<1> QED
  BY <1>1, <1>8, <1>9, <1>10 DEF HarmInv, Harmed, CutByARead

LEMMA HarmStep ==
  ASSUME WireInv, TokenInv, AnswerInv, HarmInv, [Next]_vars
  PROVE  HarmInv'
<1>1. SomeSequence(events) /\ HarmedOnlyByCuts
  BY DEF TokenInv, EventsFollowControl, HarmInv
<1>2. ASSUME TextYielded = {} PROVE Deltas = {}
  BY <1>2 DEF TextYielded
<1>3. CASE StubStream
  <2>1. /\ pc = "request" /\ pc' = "stubbed" /\ events' = Append(events, Delta(1, TRUE))
        /\ Delta(1, TRUE).whole = TRUE
    BY <1>3 DEF StubStream, Delta
  <2>2. Deltas = {}
    BY <1>2, <2>1 DEF AnswerInv
  <2>3. /\ Len(events) \in Nat /\ DOMAIN events = 1 .. Len(events)
        /\ DOMAIN events' = 1 .. Len(events) + 1
        /\ \A i \in DOMAIN events : events'[i] = events[i]
        /\ events'[Len(events) + 1] = Delta(1, TRUE)
    BY <1>1, <2>1, OneMoreEvent
  <2>4. ASSUME NEW k \in Deltas' PROVE events'[k].whole
    <3>1. k \in DOMAIN events' /\ k \notin DOMAIN events
      BY <2>2, <2>3 DEF Deltas
    <3>2. k = Len(events) + 1
      BY <2>3, <3>1
    <3> QED
      BY <2>1, <2>3, <3>2
  <2> QED
    BY <2>1, <2>4 DEF HarmInv, HarmedOnlyByCuts
<1>4. CASE StubEnds
  BY <1>1, <1>4, NoPieceMore DEF StubEnds, EndWith, Wire, HarmInv
<1>5. CASE StubComplete \/ CompleteRequest
  <2>1. UNCHANGED <<answer, events>>
    BY <1>5 DEF StubComplete, CompleteRequest, Give, Escape, Wire
  <2>2. pc' # "reading"
    BY <1>5 DEF StubComplete, CompleteRequest, Give, Escape
  <2> QED
    BY <1>1, <2>1, <2>2, NoPieceMore DEF HarmInv
<1>6. CASE Begin
  <2>1. /\ pc' = "request" /\ UNCHANGED answer
        /\ events' = <<Start>> \/ UNCHANGED events
    BY <1>6 DEF Begin, Wire
  <2>2. CASE events' = <<Start>>
    <3>1. Start.type # "delta"
      BY DEF Start
    <3>2. Deltas' = {}
      BY <2>2, <3>1 DEF Deltas
    <3> QED
      BY <2>1, <3>2 DEF HarmInv, HarmedOnlyByCuts
  <2>3. CASE UNCHANGED events
    BY <1>1, <2>1, <2>3, NoPieceMore DEF HarmInv
  <2> QED
    BY <2>1, <2>2, <2>3
<1>7. CASE StreamRequest
  <2>1. pc = "request" /\ Deltas = {}
    BY <1>2, <1>7 DEF StreamRequest, AnswerInv
  <2>2. ASSUME UNCHANGED Wire, pc' # "reading",
               UNCHANGED events \/ EndWith(Error)
        PROVE  HarmInv'
    BY <1>1, <2>2, NoPieceMore DEF HarmInv, Wire
  <2>3. ASSUME NEW kind, Refused(kind) PROVE HarmInv'
    BY <2>1, <2>2, <2>3 DEF Refused, EndWith
  <2>4. ASSUME NEW a \in PossibleAnswers, Answered(a) PROVE HarmInv'
    <3>1. read' = 0 /\ buffer' = <<>> /\ UNCHANGED events
      BY <2>4 DEF Answered
    <3>2. Deltas' = {} /\ Len(buffer') = 0 /\ 0 = 0 * ReadSize
      BY <2>1, <3>1, NothingIsSequence, ClientAssumption DEF Deltas
    <3> QED
      BY <3>1, <3>2 DEF HarmInv, HarmedOnlyByCuts
  <2> QED
    BY <1>7, <2>2, <2>3, <2>4 DEF StreamRequest, EndWith, Escape
<1>8. CASE ReadChunk
  BY <1>8, ReadingOnHarms
<1>9. CASE BrokenRead \/ EndOfAnswer
  <2>1. /\ pc' = "ended" /\ UNCHANGED answer
        /\ UNCHANGED events \/ EndWith(Finish) \/ EndWith(Error)
    BY <1>9 DEF BrokenRead, EndOfAnswer, EndWith, Escape, Wire
  <2> QED
    BY <1>1, <2>1, NoPieceMore DEF HarmInv
<1>10. CASE TakeFrame
  BY <1>10, TakingHarms
<1>11. CASE UNCHANGED vars
  BY <1>1, <1>11, NoPieceMore DEF vars, HarmInv, Harmed, CutByARead
<1> QED
  BY <1>3, <1>4, <1>5, <1>6, <1>7, <1>8, <1>9, <1>10, <1>11 DEF Next, Step, KeepAlive, Ended

\* However an answer is cut into reads, the pieces of its text are yielded in
\* order, none twice and none left out, each as it was sent unless a read cuts
\* a character of it, and a broken answer is no response unless its end had
\* come; for any answers, number of retries and size of a read.
THEOREM AnswersAreGiven == Spec => []ResponseIsTheAnswer
<1> DEFINE Inv == AnswerInv /\ TokenInv /\ WireInv /\ CallTypes /\ HarmInv
<1>1. Init => Inv
  <2> SUFFICES ASSUME Init PROVE Inv
    OBVIOUS
  <2>1. Deltas = {}
    BY DEF Init, Deltas
  <2>2. AnswerInv
    BY <2>1 DEF Init, AnswerInv, PiecesInOrder, TextYielded
  <2>3. HarmInv
    BY <2>1 DEF Init, HarmInv, HarmedOnlyByCuts
  <2> QED
    BY <2>2, <2>3, CallInit
<1>2. Inv /\ [Next]_vars => Inv'
  BY RetryStep, TokenStep, WireStep, CallTypesStep, AnswerStep, HarmStep DEF TokenInv, Simulates
<1>3. Inv => ResponseIsTheAnswer
  <2> SUFFICES ASSUME Inv, pc # "ended" PROVE PiecesAreGiven
    BY DEF AnswerInv, HarmInv, ResponseIsTheAnswer
  <2>1. outcome = "none" /\ PiecesInOrder
    BY DEF TokenInv, RetryInv, AnswerInv
  <2>2. /\ TextYielded \subseteq TextSent
        /\ \A i \in TextYielded, j \in TextSent : j < i => j \in TextYielded
    <3>1. CASE TextYielded = {}
      BY <3>1
    <3>2. CASE Stubbed
      <4>1. DOMAIN answer.frames = {1} /\ answer.frames[1] = "text"
        BY <3>2 DEF Stubbed
      <4>2. TextSent = {1}
        BY <4>1 DEF TextSent, BeforeTheEnd, TextFrames, EndFrames
      <4> QED
        BY <3>2, <4>2 DEF Stubbed
    <3>3. CASE UpToHere
      <4>1. PICK m \in 0 .. Len(answer.frames) : NoEnd(m) /\ TextYielded = TextsOf(m)
        BY <3>3 DEF UpToHere
      <4> QED
        BY <4>1, TextsAreSent
    <3>4. pc \in {"called", "request", "stubbed", "reading"}
      BY DEF CallTypes
    <3> QED
      BY <3>1, <3>2, <3>3, <3>4 DEF AnswerInv
  <2> QED
    BY <2>1, <2>2 DEF PiecesAreGiven, PiecesInOrder
<1> QED
  BY <1>1, <1>2, <1>3, PTL DEF Spec
=============================================================================
