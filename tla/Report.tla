------------------------------- MODULE Report -------------------------------
(***************************************************************************)
(* What Che master may rely on when it runs a broker: the events it hears  *)
(* are a report, from its first event on, and how the process ends agrees  *)
(* with it, as long as the line to the broker is not lost.                 *)
(***************************************************************************)
EXTENDS Sequences

VARIABLES
  heard,          \* kinds of the events the master has heard
  line,           \* "none", "up" or "lost"
  outcome         \* "none" while the broker runs, or how it ended

reportVars == <<heard, line, outcome>>

Heard(kind) == \E i \in DOMAIN heard : heard[i] = kind

(* The grammar of a report: STARTED, logs, and DONE or FAILED; a broker    *)
(* may fail before it has started.  FAILED is explained by one more log.   *)
MayFollow ==
  IF heard = <<>> THEN {"STARTED", "FAILED"}
  ELSE IF heard[Len(heard)] = "FAILED" THEN {"LOG"}
  ELSE IF Heard("FAILED") \/ Heard("DONE") THEN {}
  ELSE {"LOG", "DONE", "FAILED"}

ReportInit == heard = <<>> /\ line = "none" /\ outcome = "none"

Call ==
  /\ line = "none" /\ outcome = "none"
  /\ line' = "up"
  /\ UNCHANGED <<heard, outcome>>

Hear(kind) ==
  /\ line = "up" /\ outcome = "none"
  /\ kind \in MayFollow
  /\ heard' = Append(heard, kind)
  /\ UNCHANGED <<line, outcome>>

Lose ==
  /\ line = "up" /\ outcome = "none"
  /\ line' = "lost"
  /\ UNCHANGED <<heard, outcome>>

(* With the line up, the result and the end of the process are the same.   *)
(* A process that panics says nothing.                                     *)
End(result) ==
  /\ outcome = "none"
  /\ line = "up" /\ result = "ok" => Heard("DONE")
  /\ line = "up" /\ result = "fatal" => Heard("FAILED")
  /\ outcome' = result
  /\ UNCHANGED <<heard, line>>

ReportNext ==
  \/ Call
  \/ \E kind \in {"STARTED", "LOG", "DONE", "FAILED"} : Hear(kind)
  \/ Lose
  \/ \E result \in {"ok", "fatal", "panic"} : End(result)

ReportSpec == ReportInit /\ [][ReportNext]_reportVars
=============================================================================
