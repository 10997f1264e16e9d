----------------------------- MODULE RequestReply -----------------------------
(***************************************************************************)
(* What a call of an MCP server promises: it greets the server, asks only  *)
(* when the greeting has been answered, and ends once, with a reply to     *)
(* what it asked or with a failure.                                        *)
(***************************************************************************)
CONSTANTS
  Replies,  \* what may be taken for a reply to the question
  NoReply

VARIABLES
  phase,
  reply

Ended == phase \in {"answered", "failed"}

Init == phase = "closed" /\ reply = NoReply

Proceed(from, to) == phase = from /\ phase' = to /\ UNCHANGED reply
Greet == Proceed("closed", "greeting")
Greeted == Proceed("greeting", "greeted")
Ask == Proceed("greeted", "asking")
Answer == phase = "asking" /\ phase' = "answered" /\ reply' \in Replies
Fail == ~Ended /\ phase' = "failed" /\ UNCHANGED reply

Next == Greet \/ Greeted \/ Ask \/ Answer \/ Fail
Spec == Init /\ [][Next]_<<phase, reply>>
=============================================================================
