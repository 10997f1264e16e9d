---------------------------- MODULE RunLifecycle ----------------------------
(***************************************************************************)
(* What the trace database and the command line promise about one run,     *)
(* whatever control plane executes it.  A run has one row.  The row is     *)
(* opened as "running", closed at most once, and the status the caller is  *)
(* shown afterwards is a rendering of the status the row was closed with.  *)
(* A process that dies simply stops taking steps.                          *)
(***************************************************************************)
VARIABLES
  row,      \* runs.status of the run: "absent" before start_run
  report    \* the status run_task prints and turns into an exit code

vars == <<row, report>>

\* The statuses a row can be closed with.
Closed == {"done", "failed", "stopped", "unverified", "error"}

\* The statuses a caller may be shown for a row closed with s.
Rendering(s) == IF s = "error" THEN {"error", "failed"} ELSE {s}

Init == row = "absent" /\ report = "none"

Open == row = "absent" /\ report = "none" /\ row' = "running" /\ UNCHANGED report

Close == row = "running" /\ row' \in Closed /\ UNCHANGED report

Report ==
  /\ row \in Closed
  /\ report = "none"
  /\ report' \in Rendering(row)
  /\ UNCHANGED row

\* The preflight check turns a request down before any row exists.
Refuse == row = "absent" /\ report = "none" /\ report' = "refused" /\ UNCHANGED row

Next == Open \/ Close \/ Report \/ Refuse

Spec == Init /\ [][Next]_vars
=============================================================================
