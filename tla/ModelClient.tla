----------------------------- MODULE ModelClient -----------------------------
(***************************************************************************)
(* One call of the model client (model_client.py): stream(), as the        *)
(* runtime's _stream_model_call consumes it, or complete().                *)
(*                                                                         *)
(* The provider is the environment.  It refuses a request, is not there,   *)
(* or answers; an answer to stream() is a sequence of SSE frames, and the  *)
(* connection may end after any byte of it, quietly, with a reset or by    *)
(* the socket's timeout, or be kept open for ever by a provider that goes  *)
(* on sending comments.  Bytes are read ReadSize at a time and decoded    *)
(* chunk by chunk, so that frames, their separators and characters of      *)
(* more than one byte may lie across two reads.  What the caller waits     *)
(* between two attempts is left out.                                       *)
(*                                                                         *)
(* Frames end in two newlines, as the docstring of the client expects.     *)
(* A piece of text is the place of its frame in the answer.                *)
(***************************************************************************)
EXTENDS Integers, Sequences, SequencesExt, FiniteSets

CONSTANTS
  MaxStreamRetries,  \* max_stream_retries
  ReadSize,          \* the bytes of one response.read
  MaxFrames          \* bound: the frames of an answer

ASSUME ClientAssumption ==
  MaxStreamRetries \in Int /\ {ReadSize, MaxFrames} \subseteq Nat \ {0}

VARIABLES
  call,      \* "stream" or "complete"
  stub,      \* the provider is "stub"
  format,    \* the payload has a response_format
  pc,        \* where the call is
  replies,   \* what became of each request so far
  answer,    \* what the provider sends in reply to the last request
  read,      \* the bytes of it that were read
  buffer,    \* decoded, and not yet split into frames
  events,    \* what the generator has yielded
  outcome    \* what the caller of the client gets

vars == <<call, stub, format, pc, replies, answer, read, buffer, events, outcome>>

Max2(a, b) == IF a > b THEN a ELSE b
Min2(a, b) == IF a < b THEN a ELSE b

\* max_attempts
MaxAttempts == Max2(1, MaxStreamRetries)
-----------------------------------------------------------------------------
\* Frames.  "wide" is text with a character of two bytes, "last" text together
\* with a finish_reason or a usage, "stop" one of these without text or [DONE],
\* "noise" a comment, a ping or no JSON, "failed" the provider's error object.
TextFrames == {"text", "wide"}
EndFrames == {"last", "stop"}
FrameKinds == TextFrames \cup EndFrames \cup {"noise", "failed"}

FrameBytes(kind) ==
  IF kind = "wide" THEN <<"lead", "trail", "nl", "nl">> ELSE <<"char", "nl", "nl">>

\* The bytes up to the end of frame i: three of each frame, and one more of a
\* wide one.
EndOf(frames, i) == 3 * i + Cardinality({j \in 1 .. i : frames[j] = "wide"})
Length(frames) == EndOf(frames, Len(frames))

\* Byte k of an answer, with the place of its frame.
FrameOf(frames, k) ==
  CHOOSE i \in DOMAIN frames : EndOf(frames, i - 1) < k /\ k <= EndOf(frames, i)
ByteOf(frames, k) ==
  LET i == FrameOf(frames, k)
  IN  [frame |-> i, byte |-> FrameBytes(frames[i])[k - EndOf(frames, i - 1)]]

Endings == {"eof", "reset", "timeout", "endless"}

\* An answer: its frames, how the connection ends and after how many bytes.  An
\* "endless" one goes on with comments, each byte of them within the timeout.
Answers ==
  {[frames |-> f, ends |-> e, at |-> n] :
     f \in SeqOf(FrameKinds, MaxFrames), e \in Endings, n \in 0 .. 4 * MaxFrames}
NoAnswer == [frames |-> <<>>, ends |-> "eof", at |-> 0]

PossibleAnswers ==
  {a \in Answers :
     /\ a.at <= Length(a.frames) /\ (a.ends = "endless" => a.at = Length(a.frames))
     /\ \A i \in DOMAIN a.frames : i > 1 /\ a.frames[i - 1] \in EndFrames => a.frames[i] = "stop"}

\* .decode("utf-8", "replace") of one chunk: half a character is replaced.
Decode(chunk) ==
  [k \in DOMAIN chunk |->
    [chunk[k] EXCEPT !.byte =
      CASE @ = "nl" -> "nl"
        [] @ = "lead" /\ k = Len(chunk) -> "replaced"
        [] @ = "trail" /\ k = 1 -> "replaced"
        [] OTHER -> "char"]]

Separator(k) == k < Len(buffer) /\ buffer[k].byte = "nl" /\ buffer[k + 1].byte = "nl"
HasFrame == \E k \in DOMAIN buffer : Separator(k)
FrameEnd == CHOOSE k \in DOMAIN buffer : Separator(k) /\ \A j \in 1 .. k - 1 : ~Separator(j)
Place == buffer[1].frame
Whole == \A k \in 1 .. FrameEnd - 1 : buffer[k].byte # "replaced"
-----------------------------------------------------------------------------
Start == [type |-> "start", piece |-> 0, whole |-> TRUE]
Delta(i, whole) == [type |-> "delta", piece |-> i, whole |-> whole]
Finish == [type |-> "finish", piece |-> 0, whole |-> TRUE]
Error == [type |-> "error", piece |-> 0, whole |-> TRUE]

Outcomes == {"none", "response", "client_error", "exception"}

Init ==
  /\ call \in {"stream", "complete"} /\ stub \in BOOLEAN /\ format \in BOOLEAN
  /\ pc = "called" /\ replies = <<>> /\ answer = NoAnswer
  /\ read = 0 /\ buffer = <<>> /\ events = <<>> /\ outcome = "none"

Setting == <<call, stub>>
Wire == <<answer, read, buffer>>

\* Mutant: the error is yielded and the generator goes on to the end.
ErrorThenFinish(event) ==
  /\ events' = events \o (IF event.type = "error" THEN <<event, Finish>> ELSE <<event>>)
  /\ outcome' = IF event.type = "error" THEN "client_error" ELSE "response"
  /\ pc' = "ended"

\* The generator returns after one last event; _stream_model_call raises an
\* LMClientError for an "error", and joins the deltas otherwise.
EndWith(event) ==
  /\ events' = Append(events, event)
  /\ outcome' = IF event.type = "error" THEN "client_error" ELSE "response"
  /\ pc' = "ended"

\* complete() returns or raises.
Give(result) == outcome' = result /\ pc' = "ended" /\ UNCHANGED <<events, format>>

\* An exception no handler of the client is written for.
Escape == outcome' = "exception" /\ pc' = "ended" /\ UNCHANGED <<events, format>>

\* The stub answers at once, in one piece; which text it picks for which prompt
\* is left out.
StubStream ==
  /\ pc = "request" /\ stub
  /\ events' = Append(events, Delta(1, TRUE))
  /\ answer' = [NoAnswer EXCEPT !.frames = <<"text">>]
  /\ pc' = "stubbed"
  /\ UNCHANGED <<Setting, format, replies, read, buffer, outcome>>
StubEnds ==
  /\ pc = "stubbed"
  /\ EndWith(Finish)
  /\ UNCHANGED <<Setting, format, replies, Wire>>

StubComplete ==
  /\ pc = "called" /\ stub /\ call = "complete"
  /\ Give("response")
  /\ UNCHANGED <<Setting, replies, Wire>>

Begin ==
  /\ pc = "called" /\ ~(stub /\ call = "complete")
  /\ events' = IF call = "stream" THEN <<Start>> ELSE events
  /\ pc' = "request"
  /\ UNCHANGED <<Setting, format, replies, Wire, outcome>>
-----------------------------------------------------------------------------
\* stream().

Attempt == Len(replies) + 1
Reply(kind) == replies' = Append(replies, kind)

\* Mutants: one attempt less, one attempt more.
MayRetryButLast == Attempt + 1 < MaxAttempts
MayRetryOnceMore == Attempt <= MaxAttempts

\* The handlers of HTTPError and URLError.  A URLError is always transient.
MayRetry == Attempt < MaxAttempts

Refused(kind) ==
  /\ Reply(kind)
  /\ \/ kind # "permanent" /\ MayRetry /\ UNCHANGED <<pc, events, outcome>>
     \/ ~(kind # "permanent" /\ MayRetry) /\ EndWith(Error)
  /\ UNCHANGED Wire

Answered(a) ==
  /\ Reply("ok")
  /\ answer' = a /\ read' = 0 /\ buffer' = <<>>
  /\ pc' = "reading"
  /\ UNCHANGED <<events, outcome>>

\* urlopen.  The connection may break before the status line: a reset escapes,
\* a timeout is reported.
StreamRequest ==
  /\ pc = "request" /\ call = "stream" /\ ~stub
  /\ \/ \E kind \in {"transient", "permanent", "unreachable"} : Refused(kind) /\ UNCHANGED format
     \/ \E a \in PossibleAnswers : Answered(a) /\ UNCHANGED format
     \/ Reply("timeout") /\ EndWith(Error) /\ UNCHANGED <<Wire, format>>
     \/ Reply("reset") /\ Escape /\ UNCHANGED Wire
  /\ UNCHANGED Setting

Left == answer.at - read
Chunk == [k \in 1 .. Min2(ReadSize, Left) |-> ByteOf(answer.frames, read + k)]

\* Mutant: what the last chunk left over is forgotten.
ReceivedNow == Decode(Chunk)

Received == buffer \o Decode(Chunk)

\* response.read blocks until it has ReadSize bytes or the connection ends; what
\* it lacks of them may be comments.
ReadChunk ==
  /\ pc = "reading" /\ ~HasFrame
  /\ Left >= ReadSize \/ (answer.ends \in {"eof", "endless"} /\ Left > 0)
  /\ buffer' = Received
  /\ read' = read + Len(Chunk)
  /\ UNCHANGED <<Setting, format, pc, replies, answer, events, outcome>>

\* Mutant: a timeout in the middle of the answer is taken for its end.
BrokenReadEnds ==
  /\ pc = "reading" /\ ~HasFrame /\ Left < ReadSize
  /\ \/ answer.ends = "timeout" /\ EndWith(Finish) /\ UNCHANGED format
     \/ answer.ends = "reset" /\ Escape
  /\ UNCHANGED <<Setting, replies, Wire>>

\* What a broken read had received is gone with it.
BrokenRead ==
  /\ pc = "reading" /\ ~HasFrame /\ Left < ReadSize
  /\ \/ answer.ends = "timeout" /\ EndWith(Error) /\ UNCHANGED format
     \/ answer.ends = "reset" /\ Escape
  /\ UNCHANGED <<Setting, replies, Wire>>

\* The provider closed the stream: a finish is made up.
EndOfAnswer ==
  /\ pc = "reading" /\ ~HasFrame /\ Left = 0 /\ answer.ends = "eof"
  /\ EndWith(Finish)
  /\ UNCHANGED <<Setting, format, replies, Wire>>

\* More comments: the timeout is that of one recv, and begins again with each.
KeepAlive ==
  /\ pc = "reading" /\ ~HasFrame /\ Left = 0 /\ answer.ends = "endless"
  /\ UNCHANGED vars

Kind == answer.frames[Place]
\* Mutant: a frame that is skipped stays in the buffer.
AfterFrameUnlessNoise ==
  IF Kind = "noise" THEN buffer ELSE SubSeq(buffer, FrameEnd + 2, Len(buffer))

AfterFrame == SubSeq(buffer, FrameEnd + 2, Len(buffer))

\* _sse_to_token_event: no frame becomes an "error"; the provider's error
\* object is a delta without text, and text beside a finish_reason or a usage is
\* dropped.
TakeFrame ==
  /\ pc = "reading" /\ HasFrame
  /\ buffer' = AfterFrame
  /\ \/ Kind \in TextFrames /\ events' = Append(events, Delta(Place, Whole)) /\ UNCHANGED <<pc, outcome>>
     \/ Kind = "failed" /\ events' = Append(events, Delta(0, TRUE)) /\ UNCHANGED <<pc, outcome>>
     \/ Kind = "noise" /\ UNCHANGED <<pc, events, outcome>>
     \/ Kind \in EndFrames /\ EndWith(Finish)
  /\ UNCHANGED <<Setting, format, replies, answer, read>>
-----------------------------------------------------------------------------
\* complete().

\* An HTTPError: what its body says, when the body can be read, tells a refusal
\* of the response_format from any other.
Refusals == {"rejected", "permanent", "transient"}

\* What becomes of one post: an object, an object without content or no object,
\* no JSON, or an exception of the connection.
Posts == {"ok", "malformed", "not_json", "unreachable", "timeout", "reset"} \cup Refusals

\* should_retry_without_response_format
DropFormat(kind) == kind = "rejected" /\ format

\* The first request, and the one without a response_format made in the
\* handler of the first, where only an HTTPError is still handled.
CompleteRequest ==
  /\ pc = "request" /\ call = "complete"
  /\ \E kind \in Posts :
       /\ Reply(kind)
       /\ \/ kind = "ok" /\ Give("response")
          \/ DropFormat(kind) /\ format' = FALSE /\ UNCHANGED <<pc, events, outcome>>
          \/ kind \in Refusals \cup {"malformed"} /\ ~DropFormat(kind) /\ Give("client_error")
          \/ kind \in {"not_json", "unreachable"} /\ Attempt = 1 /\ Give("client_error")
          \/ kind \in {"not_json", "unreachable"} /\ Attempt = 2 /\ Escape
          \/ kind \in {"timeout", "reset"} /\ Escape
  /\ UNCHANGED <<Setting, Wire>>

Ended == pc = "ended" /\ UNCHANGED vars

Step ==
  \/ StubStream \/ StubEnds \/ StubComplete \/ Begin
  \/ StreamRequest \/ ReadChunk \/ BrokenRead \/ EndOfAnswer \/ TakeFrame
  \/ CompleteRequest
Next == Step \/ KeepAlive \/ Ended

Spec == Init /\ [][Next]_vars
\* A generator that is consumed to its end, and sockets where each recv returns
\* or times out.
FairSpec == Spec /\ WF_vars(Step)
-----------------------------------------------------------------------------
\* The frames of the answer that were read with their separator.
ReadInFull == {i \in DOMAIN answer.frames : EndOf(answer.frames, i) <= read}
BeforeTheEnd ==
  {i \in DOMAIN answer.frames : \A j \in 1 .. i : answer.frames[j] \notin EndFrames}

\* The pieces of text of the answer, up to the frame that ends it, and those
\* that were yielded.
TextSent == {i \in BeforeTheEnd : answer.frames[i] \in TextFrames}
Deltas == {k \in DOMAIN events : events[k].type = "delta" /\ events[k].piece # 0}
TextYielded == {events[k].piece : k \in Deltas}

\* The types of the variables; no call makes more requests than its limit.
TypeOK ==
  /\ call \in {"stream", "complete"} /\ stub \in BOOLEAN /\ format \in BOOLEAN
  /\ pc \in {"called", "request", "stubbed", "reading", "ended"}
  /\ outcome \in Outcomes
  /\ answer.frames \in SeqOf(FrameKinds, MaxFrames)
  /\ answer.ends \in Endings /\ answer.at \in 0 .. 4 * MaxFrames
  /\ read \in 0 .. answer.at /\ Len(buffer) <= read
  /\ Len(replies) <= (IF call = "stream" THEN MaxAttempts ELSE 2)
  /\ \A i \in DOMAIN events : events[i].type \in {"start", "delta", "finish", "error"}

\* stream() is a TokenStream: one start, deltas, one finish or error and nothing
\* behind it, the caller is told what that last event says, and no request is
\* sent again once a token has been yielded.  A call that has ended has its last
\* event, but not "always", as the docstring of stream() has it: a reset, before
\* the status line or in the middle of the answer, escapes as an exception and
\* leaves the stream without one.  A call of complete() yields nothing.
Streamed == call = "stream"
BrokenByReset == answer.ends = "reset" \/ \E i \in DOMAIN replies : replies[i] = "reset"
LastEventIsThere ==
  Streamed /\ pc = "ended" /\ ~BrokenByReset
    => events[Len(events)].type \in {"finish", "error"}
Tokens ==
  INSTANCE TokenStream WITH
    yielded <- [i \in DOMAIN events |-> events[i].type],
    requests <- IF Streamed THEN Len(replies) ELSE 0,
    outcome <- IF Streamed /\ outcome # "exception" THEN outcome ELSE "none"
ImplementsTokenStream == Tokens!Spec /\ []LastEventIsThere

\* In order, none twice and none left out; and all of them when the answer came
\* in full.
PiecesAreGiven ==
  /\ \A j, k \in Deltas : j < k => events[j].piece < events[k].piece
  /\ TextYielded \subseteq TextSent
  /\ \A i \in TextYielded, j \in TextSent : j < i => j \in TextYielded
  /\ call = "stream" /\ outcome = "response" /\ answer.at = Length(answer.frames)
       => TextYielded = TextSent
  /\ call = "stream" /\ outcome = "response" /\ answer.ends # "eof"
       => \E i \in ReadInFull : answer.frames[i] \in EndFrames

\* The first byte of the character of a wide frame is the last one of a read.
CutByARead(i) == \E n \in 1 .. answer.at : EndOf(answer.frames, i) - 3 = n * ReadSize
HarmedOnlyByCuts == \A k \in Deltas : events[k].whole \/ CutByARead(events[k].piece)

\* However the answer is cut into reads, the pieces of its text are yielded in
\* order, none twice and none left out.  Only text beside a finish_reason or a
\* usage is not among them, and only a piece with a character that a read itself
\* cuts in two is not what was sent.  An answer that a timeout or a reset broke,
\* or that does not end, is never given as a response, unless the frame that
\* ends it had come.
ResponseIsTheAnswer == PiecesAreGiven /\ HarmedOnlyByCuts

\* stream() asks again only after failures that are transient, and gives up on
\* one of these only with all its attempts spent.  complete() asks again only
\* when the first request was refused for its response_format, without one.
RetriesAreEarned ==
  /\ call = "stream" =>
       /\ \A i \in DOMAIN replies :
            i < Len(replies) => replies[i] \in {"transient", "unreachable"}
       /\ outcome = "client_error" /\ Last(replies) \in {"transient", "unreachable"}
            => Len(replies) = MaxAttempts
  /\ call = "complete" /\ Len(replies) = 2 => replies[1] = "rejected" /\ ~format

\* A provider that goes on sending keeps stream() reading for ever: no deadline
\* is set for the whole of an answer.
KeptOpen == answer.ends = "endless" /\ \A i \in DOMAIN answer.frames : answer.frames[i] \notin EndFrames

\* Every call ends, however requests fail and answers break off, unless the
\* provider keeps an answer open that has no end.
CallEnds == <>(pc = "ended" \/ KeptOpen)
=============================================================================
