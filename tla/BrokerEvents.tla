---------------------------- MODULE BrokerEvents ----------------------------
(***************************************************************************)
(* How a broker starts, reports to Che master, and ends.  Both brokers run *)
(* this code: their main functions, src/common and the vendored JSON-RPC   *)
(* tunnel.  Once main has read its settings and connected the tunnel, if   *)
(* it is told to, it publishes events on the bus, whose one consumer hands *)
(* them to the tunnel's unbuffered channel jsonOut; the write loop takes   *)
(* them from there to the connection; the read loop waits for messages of  *)
(* the master and closes the tunnel when the connection breaks.  The       *)
(* process ends when main returns, calls log.Fatal, or a goroutine panics, *)
(* whatever the others are doing.                                          *)
(***************************************************************************)
EXTENDS Naturals, Sequences

CONSTANTS
  MaxLogs,        \* bound: log events published between STARTED and the end
  MaxRequests,    \* bound: requests the master sends
  None            \* the write loop holds no message

Kind == {"STARTED", "LOG", "DONE", "FAILED"}
Event == [kind : Kind, nr : Nat \ {0}]

(* What the read loop sends for a request of an unknown method.            *)
Response == [kind |-> "RESPONSE", nr |-> 0]

ASSUME BoundsAssumption == MaxLogs \in Nat /\ MaxRequests \in Nat
ASSUME NoneAssumption == None \notin Event \union {Response}

(* Goroutines that may close the tunnel.                                   *)
Closer == {"main", "reader"}

VARIABLES
  pc,             \* what main does next
  status,         \* how the process ended: "ok", "fatal" or "panic"
  logs,           \* log events published while working
  requests,       \* requests received
  tunnel,         \* Tunnel.state: "running" or "closed"
  jsonOut,        \* the channel: "open" or "closed"
  closing,        \* how far each goroutine is in closeOnce
  writer,         \* the write loop: "waiting", "writing" or "stopped"
  writing,        \* the message it writes
  reader,         \* the read loop: "reading", "answering" or "stopped"
  link,           \* the connection: "none", "up", "down" (lost) or "shut" (closed here)
  published,      \* the events Notify has accepted
  received        \* the events that have reached the master

main == <<pc, status, logs>>
loops == <<writer, writing, reader, requests>>
history == <<published, received>>
vars == <<main, loops, tunnel, jsonOut, closing, link, history>>

TypeOK ==
  /\ pc \in {"configure", "certificates", "connect", "parse", "early", "earlyLog", "dying",
             "start", "working", "failedLog", "close", "closeFailed", "exited"}
  /\ status \in IF pc = "exited" THEN {"ok", "fatal", "panic"} ELSE {"none"}
  /\ logs \in 0 .. MaxLogs
  /\ requests \in 0 .. MaxRequests
  /\ tunnel \in {"running", "closed"}
  /\ jsonOut \in {"open", "closed"}
  /\ closing \in [Closer -> {"no", "won", "draining", "returned"}]
  /\ writer \in {"waiting", "writing", "stopped"}
  /\ writing \in IF writer = "writing" THEN Event \union {Response} ELSE {None}
  /\ reader \in {"reading", "answering", "stopped"}
  /\ link \in {"none", "up", "down", "shut"}
  /\ published \in Seq(Event)
  /\ received \in Seq(Event)

(* The process has been created, and the tunnel not yet.                   *)
Init ==
  /\ pc = "configure"
  /\ status = "none"
  /\ logs = 0
  /\ requests = 0
  /\ tunnel = "running"
  /\ jsonOut = "open"
  /\ closing = [c \in Closer |-> "no"]
  /\ writer = "waiting"
  /\ writing = None
  /\ reader = "reading"
  /\ link = "none"
  /\ published = <<>>
  /\ received = <<>>

Running == pc # "exited"

(* There is a tunnel, and its connection was not lost.                     *)
Connected == link \in {"up", "shut"}

-----------------------------------------------------------------------------
(* The main goroutine, before it can be heard *)

(* Flags and environment variables.                                        *)
Parse ==
  /\ pc = "configure"
  /\ pc' = "certificates"
  /\ UNCHANGED <<status, logs, loops, tunnel, jsonOut, closing, link, history>>

(* A file of the certificates' directory that cannot be used is skipped.   *)
(* DisablePushingToEndpoint decides whether there will be a tunnel.        *)
ConfigureCertPool ==
  /\ pc = "certificates"
  /\ pc' \in {"connect", "parse"}
  /\ UNCHANGED <<status, logs, loops, tunnel, jsonOut, closing, link, history>>

(* The loops of the tunnel start, and it becomes the consumer of the bus.  *)
Connect ==
  /\ pc = "connect"
  /\ pc' = "parse"
  /\ link' = "up"
  /\ UNCHANGED <<status, logs, loops, tunnel, jsonOut, closing, history>>

(* A setting is missing or malformed, the certificates cannot be read, or  *)
(* the master cannot be reached: log.Fatal, and nobody to tell.            *)
StartUpFails ==
  /\ pc \in {"configure", "certificates", "connect"}
  /\ pc' = "exited"
  /\ status' = "fatal"
  /\ UNCHANGED <<logs, loops, tunnel, jsonOut, closing, link, history>>

ParsePluginFQNs ==
  /\ pc = "parse"
  /\ pc' \in {"start", "early"}
  /\ UNCHANGED <<status, logs, loops, tunnel, jsonOut, closing, link, history>>

-----------------------------------------------------------------------------
(* The main goroutine, publishing *)

(* Mutants: nothing is published between FAILED and the end of the         *)
(* process; a start that fails goes on to the next plugin.                 *)
PubFailedOnly == { <<"early", "FAILED", "dying">>, <<"working", "FAILED", "failedLog">> }
PubFailedAndGoOn == { <<"early", "FAILED", "earlyLog">>, <<"working", "FAILED", "working">> }

(* Where main publishes what: <<here, the event, and where it goes from    *)
(* there>>.  A configuration that cannot be parsed is reported before      *)
(* Start; fail publishes FAILED and then the error as a log.               *)
PubStarted == { <<"start", "STARTED", "working">> }
PubFailed == { <<"early", "FAILED", "earlyLog">>, <<"working", "FAILED", "failedLog">> }
PubDone == { <<"working", "DONE", "close">> }
PubLog ==
  { <<"earlyLog", "LOG", "dying">>,
    <<"working", "LOG", "working">>,
    <<"failedLog", "LOG", "closeFailed">> }

Steps == PubStarted \union PubFailed \union PubDone \union PubLog

(* MaxLogs bounds the logs of a start.                                     *)
CountLog(step) ==
  IF step[1] = step[3]
  THEN logs < MaxLogs /\ logs' = logs + 1
  ELSE UNCHANGED logs

(* Bus.Pub, Accept, Notify and trySend: main and the write loop meet at    *)
(* the channel.                                                            *)
Publish(step) ==
  /\ pc = step[1]
  /\ link # "none"
  /\ jsonOut = "open"
  /\ writer = "waiting"
  /\ LET event == [kind |-> step[2], nr |-> Len(published) + 1]
     IN  /\ writing' = event
         /\ published' = Append(published, event)
  /\ writer' = "writing"
  /\ pc' = step[3]
  /\ CountLog(step)
  /\ UNCHANGED <<status, reader, requests, tunnel, jsonOut, closing, link, received>>

(* A bus without consumers.                                                *)
PublishUnheard(step) ==
  /\ pc = step[1]
  /\ link = "none"
  /\ pc' = step[3]
  /\ CountLog(step)
  /\ UNCHANGED <<status, loops, tunnel, jsonOut, closing, link, history>>

(* Sending on a closed channel: trySend recovers from the panic and Accept *)
(* ends the process.                                                       *)
PublishOnClosed ==
  /\ \E step \in Steps : pc = step[1]
  /\ jsonOut = "closed"
  /\ pc' = "exited"
  /\ status' = "fatal"
  /\ UNCHANGED <<logs, loops, tunnel, jsonOut, closing, link, history>>

(* log.Fatal in main, with the tunnel open.                                *)
Die ==
  /\ pc = "dying"
  /\ pc' = "exited"
  /\ status' = "fatal"
  /\ UNCHANGED <<logs, loops, tunnel, jsonOut, closing, link, history>>

(* Mutant: main forgets the error of Start.                                *)
ExitWithoutStatus ==
  /\ pc \in {"close", "closeFailed"}
  /\ link = "none" \/ closing["main"] = "returned"
  /\ pc' = "exited"
  /\ UNCHANGED <<status, logs, loops, tunnel, jsonOut, closing, link, history>>

(* Start returns once the consumers, if any, are closed; main after it.    *)
Exit ==
  /\ pc \in {"close", "closeFailed"}
  /\ link = "none" \/ closing["main"] = "returned"
  /\ pc' = "exited"
  /\ status' = IF pc = "close" THEN "ok" ELSE "fatal"
  /\ UNCHANGED <<logs, loops, tunnel, jsonOut, closing, link, history>>

-----------------------------------------------------------------------------
(* closeOnce *)

(* Mutant: the consumers are closed before the result is published.        *)
ClosesEarly(c) ==
  /\ closing[c] = "no"
  /\ \/ c = "main" /\ pc \in {"working", "close", "closeFailed"} /\ link # "none"
     \/ c = "reader" /\ reader = "reading" /\ link \in {"down", "shut"}

(* Main closes the tunnel in CloseConsumers, the read loop when Next fails *)
(* on a connection that is no longer up.                                   *)
WantsToClose(c) ==
  /\ closing[c] = "no"
  /\ \/ c = "main" /\ pc \in {"close", "closeFailed"} /\ link # "none"
     \/ c = "reader" /\ reader = "reading" /\ link \in {"down", "shut"}

(* Mutant: closeOnce without the compare-and-swap.                         *)
AlwaysWin(c) ==
  /\ Running
  /\ WantsToClose(c)
  /\ closing' = [closing EXCEPT ![c] = "won"]
  /\ tunnel' = "closed"
  /\ UNCHANGED <<main, loops, jsonOut, link, history>>

(* The compare-and-swap of the state: one goroutine wins, and the other    *)
(* does not wait for it.                                                   *)
CloseOnce(c) ==
  /\ Running
  /\ WantsToClose(c)
  /\ IF tunnel = "running"
     THEN closing' = [closing EXCEPT ![c] = "won"]
     ELSE closing' = [closing EXCEPT ![c] = "returned"]
  /\ tunnel' = "closed"
  /\ UNCHANGED <<main, loops, jsonOut, link, history>>

CloseOut(c) ==
  /\ Running
  /\ closing[c] = "won"
  /\ jsonOut' = "closed"
  /\ closing' = [closing EXCEPT ![c] = "draining"]
  /\ UNCHANGED <<main, loops, tunnel, link, history>>

(* Mutant: closeOnce does not wait for the write loop.                     *)
CloseLink(c) ==
  /\ Running
  /\ closing[c] = "draining"
  /\ link' = IF link = "up" THEN "shut" ELSE link
  /\ closing' = [closing EXCEPT ![c] = "returned"]
  /\ UNCHANGED <<main, loops, tunnel, jsonOut, history>>

(* The write loop has signalled outClosed; the connection is closed.       *)
Drained(c) ==
  /\ Running
  /\ closing[c] = "draining"
  /\ writer = "stopped"
  /\ link' = IF link = "up" THEN "shut" ELSE link
  /\ closing' = [closing EXCEPT ![c] = "returned"]
  /\ UNCHANGED <<main, loops, tunnel, jsonOut, history>>

-----------------------------------------------------------------------------
(* The write loop *)

Write ==
  /\ Running
  /\ writer = "writing"
  /\ link = "up"
  /\ received' = IF writing = Response THEN received ELSE Append(received, writing)
  /\ writer' = "waiting"
  /\ writing' = None
  /\ UNCHANGED <<main, reader, requests, tunnel, jsonOut, closing, link, published>>

(* Mutant: a message that cannot be written is tried again.                *)
WriteAgain ==
  /\ Running
  /\ writer = "writing"
  /\ link # "up"
  /\ UNCHANGED vars

(* Mutant: a message may fail to be written while the connection is up.    *)
WriteSkips ==
  /\ Running
  /\ writer = "writing"
  /\ writer' = "waiting"
  /\ writing' = None
  /\ UNCHANGED <<main, reader, requests, tunnel, jsonOut, closing, link, history>>

(* The connection is gone: the error is logged, the message is lost.       *)
WriteFails ==
  /\ Running
  /\ writer = "writing"
  /\ link \in {"down", "shut"}
  /\ writer' = "waiting"
  /\ writing' = None
  /\ UNCHANGED <<main, reader, requests, tunnel, jsonOut, closing, link, history>>

(* The channel is closed: the range loop ends and outClosed is signalled.  *)
WriterStops ==
  /\ Running
  /\ writer = "waiting"
  /\ jsonOut = "closed"
  /\ writer' = "stopped"
  /\ UNCHANGED <<main, writing, reader, requests, tunnel, jsonOut, closing, link, history>>

-----------------------------------------------------------------------------
(* The read loop *)

(* A request of the master: the broker has no handlers.                    *)
ReadRequest ==
  /\ Running
  /\ reader = "reading"
  /\ closing["reader"] = "no"
  /\ link = "up"
  /\ requests < MaxRequests
  /\ requests' = requests + 1
  /\ reader' = "answering"
  /\ UNCHANGED <<main, writer, writing, tunnel, jsonOut, closing, link, history>>

Answer ==
  /\ Running
  /\ reader = "answering"
  /\ jsonOut = "open"
  /\ writer = "waiting"
  /\ writer' = "writing"
  /\ writing' = Response
  /\ reader' = "reading"
  /\ UNCHANGED <<main, requests, tunnel, jsonOut, closing, link, history>>

(* handleRequest sends without trySend: on a closed channel it panics.     *)
AnswerOnClosed ==
  /\ Running
  /\ reader = "answering"
  /\ jsonOut = "closed"
  /\ pc' = "exited"
  /\ status' = "panic"
  /\ UNCHANGED <<logs, loops, tunnel, jsonOut, closing, link, history>>

ReaderStops ==
  /\ Running
  /\ reader = "reading"
  /\ closing["reader"] = "returned"
  /\ reader' = "stopped"
  /\ UNCHANGED <<main, writer, writing, requests, tunnel, jsonOut, closing, link, history>>

(* The network or the master drops the connection.                         *)
LinkBreaks ==
  /\ Running
  /\ link = "up"
  /\ link' = "down"
  /\ UNCHANGED <<main, loops, tunnel, jsonOut, closing, history>>

-----------------------------------------------------------------------------
StartUp == Parse \/ ConfigureCertPool \/ Connect \/ StartUpFails \/ ParsePluginFQNs

MainStep ==
  \/ StartUp
  \/ \E step \in Steps : Publish(step) \/ PublishUnheard(step)
  \/ PublishOnClosed
  \/ Die
  \/ CloseOnce("main") \/ CloseOut("main") \/ Drained("main")
  \/ Exit

WriteLoop == Write \/ WriteFails \/ WriterStops

ReadLoop ==
  \/ ReadRequest \/ Answer \/ AnswerOnClosed
  \/ CloseOnce("reader") \/ CloseOut("reader") \/ Drained("reader")
  \/ ReaderStops

(* The process has ended.                                                  *)
Ended == ~Running /\ UNCHANGED vars

Next == MainStep \/ WriteLoop \/ ReadLoop \/ LinkBreaks \/ Ended

Spec == Init /\ [][Next]_vars

(* The Go scheduler runs every goroutine that is not blocked.              *)
FairSpec ==
  Spec /\ WF_vars(MainStep) /\ WF_vars(WriteLoop) /\ WF_vars(ReadLoop)

-----------------------------------------------------------------------------
(* Properties *)

(* The master sees the events in the order in which they were published,   *)
(* none of them skipped: what it has is a prefix.  (One channel, one write *)
(* loop; an error of Write is only logged.)                                *)
InOrder ==
  /\ Len(received) <= Len(published)
  /\ \A i \in DOMAIN received : received[i] = published[i]

(* Main closes the tunnel before it returns, and Close waits for the write *)
(* loop: when Start is over, nothing is left behind, unless the connection *)
(* was lost (then the read loop may have closed the tunnel first, and Close*)
(* returns at once).                                                       *)
Flushed ==
  pc = "exited" /\ status # "panic" /\ Connected /\ closing["main"] = "returned" =>
    received = published

Result(kind) == {i \in DOMAIN received : received[i].kind = kind}

(* A process that has connected and ends by itself has told the master its *)
(* result, exactly one, and the right one: DONE with status 0 or FAILED    *)
(* with status 1.  It holds for the failure before Start too, where        *)
(* nothing closes the tunnel before log.Fatal.                             *)
ResultDelivered ==
  pc = "exited" /\ status # "panic" /\ Connected =>
    /\ \E i \in DOMAIN received :
         Result("DONE") \union Result("FAILED") = {i}
    /\ status = "ok" <=> Result("DONE") # {}

(* close(jsonOut) runs once, and one goroutine waits for the write loop:   *)
(* nobody is about to close a channel that has been closed (it would       *)
(* panic), and never both of main and the read loop, which may call        *)
(* closeOnce at the same time or one after the other.                      *)
ClosedByOne ==
  /\ jsonOut = "closed" => \A c \in Closer : closing[c] # "won"
  /\ ~\E c, d \in Closer : c # d /\ {closing[c], closing[d]} \subseteq {"won", "draining"}

IsResult(event) == event.kind \in {"DONE", "FAILED"}

(* What a request of the master that comes at the wrong moment can do: the *)
(* read loop panics on the closed channel only after main has published    *)
(* its result and begun to close the tunnel, and of what was published the *)
(* master misses one event at most.                                        *)
PanicsLate ==
  status = "panic" =>
    /\ closing["main"] # "no"
    /\ \E i \in DOMAIN published : IsResult(published[i])
    /\ Connected => Len(published) <= Len(received) + 1

(* The process ends: main is never stuck at the channel or in Close,       *)
(* whenever the connection breaks and whatever the loops are doing.        *)
Exits == <>(pc = "exited")

Kinds(events) == [i \in DOMAIN events |-> events[i].kind]

Line == IF Connected THEN "up" ELSE IF link = "down" THEN "lost" ELSE "none"

Master == INSTANCE Report WITH heard <- Kinds(received), line <- Line, outcome <- status

(* What the master hears is a report: STARTED, logs, then DONE, or FAILED  *)
(* and its explanation, with nothing after it; and while the line is not   *)
(* lost, a process does not end before the report does, and ends as the    *)
(* report says.  (However main, the loops and the connection take turns.)  *)
ImplementsReport == Master!ReportSpec

-----------------------------------------------------------------------------
(* The inductive invariant that the safety properties rest on.             *)

(* At most one message is on its way, in the hands of the write loop.      *)
InFlight == IF writing \in Event THEN 1 ELSE 0

(* While the connection is not lost, what has been published has arrived   *)
(* but for the message in flight.                                          *)
NothingLost ==
  link # "down" =>
    /\ Len(published) = Len(received) + InFlight
    /\ InFlight = 1 => writing = published[Len(published)]

(* A closed tunnel is closed by someone; the read loop closes it only when *)
(* the connection is no longer up and it has no request to answer, and     *)
(* main only when it is done.  There is none before main has connected.    *)
ClosedBy ==
  /\ pc \in {"configure", "certificates", "connect"} => link = "none"
  /\ tunnel = "running" <=> \A c \in Closer : closing[c] = "no"
  /\ closing["reader"] # "no" => link \in {"down", "shut"}
  /\ closing["main"] # "no" => pc \in {"close", "closeFailed", "exited"} /\ link # "none"
  /\ closing["reader"] \in {"won", "draining"} => link = "down"
  /\ reader = "answering" => closing["reader"] = "no"

(* The channel, the write loop and the connection are closed in this order. *)
CloseOrder ==
  /\ jsonOut = "closed" => tunnel = "closed"
  /\ \A c \in Closer : closing[c] = "draining" => jsonOut = "closed"
  /\ writer = "stopped" => jsonOut = "closed"
  /\ link = "shut" => writer = "stopped" /\ closing["main"] = "returned"
  /\ closing["main"] = "returned" => writer = "stopped" \/ link = "down"

(* What main has published, by how far it is.                              *)
PublishedSoFar ==
  /\ pc \in {"parse", "early", "start"} \/ link = "none" => published = <<>>
  /\ pc = "working" => \A i \in DOMAIN published : published[i].kind \in {"STARTED", "LOG"}
  /\ link # "none" =>
       /\ pc = "working" => published # <<>>
       /\ pc \in {"earlyLog", "dying"} => published # <<>> /\ published[1].kind = "FAILED"
       /\ pc = "earlyLog" => Len(published) = 1
       /\ pc = "dying" => Len(published) = 2 /\ published[2].kind = "LOG"
       /\ pc = "failedLog" => published[Len(published)].kind = "FAILED"
       /\ pc \in {"failedLog", "close", "closeFailed"} =>
            \E i \in DOMAIN published :
              /\ published[i].kind = IF pc = "close" THEN "DONE" ELSE "FAILED"
              /\ \A j \in DOMAIN published : IsResult(published[j]) => j = i

(* The event on its way to the master is one that may come next.           *)
FitsReport ==
  link = "up" /\ writing \in Event => writing.kind \in Master!MayFollow

EventsInv ==
  /\ TypeOK
  /\ InOrder
  /\ NothingLost
  /\ ClosedBy
  /\ CloseOrder
  /\ ClosedByOne
  /\ PublishedSoFar
  /\ FitsReport
  /\ ResultDelivered
  /\ PanicsLate
=============================================================================
