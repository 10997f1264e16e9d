----------------------------- MODULE TokenStream -----------------------------
(***************************************************************************)
(* What stream() promises its caller: always a start first, then deltas,   *)
(* then exactly one finish or error last.  The request may be sent again   *)
(* as long as no token has been yielded.                                   *)
(***************************************************************************)
EXTENDS Naturals, Sequences

VARIABLES
  yielded,   \* the types of the events yielded
  requests,  \* the requests sent
  outcome    \* what the caller makes of the events

Init == yielded = <<>> /\ requests = 0 /\ outcome = "none"

Open == yielded # <<>> /\ outcome = "none"
Yield(type) == yielded' = Append(yielded, type)

Start == yielded = <<>> /\ Yield("start") /\ UNCHANGED <<requests, outcome>>
Delta == Open /\ Yield("delta") /\ UNCHANGED <<requests, outcome>>

Last == \/ Yield("finish") /\ outcome' = "response"
        \/ Yield("error") /\ outcome' = "client_error"
End == Open /\ Last /\ UNCHANGED requests
Request ==
  /\ Open /\ yielded = <<"start">>
  /\ requests' = requests + 1
  /\ Last \/ UNCHANGED <<yielded, outcome>>

Next == Start \/ Delta \/ End \/ Request
Spec == Init /\ [][Next]_<<yielded, requests, outcome>>
=============================================================================
