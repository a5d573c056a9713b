-------------------------- MODULE BrokerEventsProofs --------------------------
(***************************************************************************)
(* Proofs about the events of a broker, for any number of log events and   *)
(* of requests of the master.                                              *)
(***************************************************************************)
EXTENDS BrokerEvents, TLAPS

(* A published event is of type Event.                                     *)
LEMMA StepKinds ==
  ASSUME NEW step \in Steps
  PROVE  /\ step[2] \in Kind
         /\ step[1] \in {"early", "earlyLog", "start", "working", "failedLog"}
         /\ step[3] \in {"earlyLog", "dying", "working", "close", "failedLog", "closeFailed"}
BY DEF Steps, PubStarted, PubFailed, PubDone, PubLog, Kind

-----------------------------------------------------------------------------
(* Types *)

LEMMA TypeInit == Init => TypeOK
BY BoundsAssumption DEF Init, TypeOK, Closer, Event

LEMMA MainTypes ==
  ASSUME TypeOK, MainStep
  PROVE  TypeOK'
<1> USE BoundsAssumption DEF TypeOK, main, loops, history
<1>1. CASE StartUp
  BY <1>1 DEF StartUp, Parse, ConfigureCertPool, Connect, StartUpFails, ParsePluginFQNs
<1>2. ASSUME NEW step \in Steps, Publish(step) PROVE TypeOK'
  <2> DEFINE event == [kind |-> step[2], nr |-> Len(published) + 1]
  <2>1. event \in Event
    BY StepKinds DEF Event
  <2> HIDE DEF event
  <2>2. /\ writing' = event
        /\ published' = Append(published, event)
    BY <1>2 DEF Publish, event
  <2>3. published' \in Seq(Event)
    BY <2>1, <2>2
  <2>4. logs' \in 0 .. MaxLogs
    BY <1>2 DEF Publish, CountLog
  <2>5. pc' # "exited" /\ pc # "exited"
    BY <1>2, StepKinds DEF Publish
  <2> QED
    BY <1>2, <2>1, <2>2, <2>3, <2>4, <2>5, StepKinds DEF Publish
<1>7. ASSUME NEW step \in Steps, PublishUnheard(step) PROVE TypeOK'
  <2>1. logs' \in 0 .. MaxLogs
    BY <1>7 DEF PublishUnheard, CountLog
  <2>2. pc' # "exited" /\ pc # "exited"
    BY <1>7, StepKinds DEF PublishUnheard
  <2> QED
    BY <1>7, <2>1, <2>2, StepKinds DEF PublishUnheard
<1>3. CASE PublishOnClosed
  BY <1>3 DEF PublishOnClosed
<1>4. CASE Die
  BY <1>4 DEF Die
<1>5. ASSUME NEW c \in Closer, CloseOnce(c) \/ CloseOut(c) \/ Drained(c) PROVE TypeOK'
  BY <1>5 DEF CloseOnce, CloseOut, Drained
<1>6. CASE Exit
  BY <1>6 DEF Exit
<1> QED
  BY <1>1, <1>2, <1>3, <1>4, <1>5, <1>6, <1>7 DEF MainStep, Closer

LEMMA LoopTypes ==
  ASSUME TypeOK, WriteLoop \/ ReadLoop \/ LinkBreaks
  PROVE  TypeOK'
<1> USE BoundsAssumption DEF TypeOK, main, loops, history
<1>1. CASE Write
  <2>1. received' \in Seq(Event)
    BY <1>1 DEF Write
  <2> QED
    BY <1>1, <2>1 DEF Write
<1>2. CASE WriteFails
  BY <1>2 DEF WriteFails
<1>3. CASE WriterStops
  BY <1>3 DEF WriterStops
<1>4. CASE ReadRequest
  BY <1>4 DEF ReadRequest
<1>5. CASE Answer
  BY <1>5 DEF Answer
<1>6. CASE AnswerOnClosed
  BY <1>6 DEF AnswerOnClosed
<1>7. ASSUME NEW c \in Closer, CloseOnce(c) \/ CloseOut(c) \/ Drained(c) PROVE TypeOK'
  BY <1>7 DEF CloseOnce, CloseOut, Drained
<1>8. CASE ReaderStops
  BY <1>8 DEF ReaderStops
<1>9. CASE LinkBreaks
  BY <1>9 DEF LinkBreaks
<1> QED
  BY <1>1, <1>2, <1>3, <1>4, <1>5, <1>6, <1>7, <1>8, <1>9 DEF WriteLoop, ReadLoop, Closer

(* Every variable of the broker's process keeps to its type (TypeOK), for  *)
(* any bounds.                                                             *)
THEOREM EventsTypeCorrect == Spec => []TypeOK
<1>1. TypeOK /\ [Next]_vars => TypeOK'
  <2> SUFFICES ASSUME TypeOK, [Next]_vars PROVE TypeOK'
    OBVIOUS
  <2>1. CASE UNCHANGED vars
    BY <2>1 DEF TypeOK, vars, main, loops, history
  <2>2. CASE MainStep
    BY <2>2, MainTypes
  <2>3. CASE WriteLoop \/ ReadLoop \/ LinkBreaks
    BY <2>3, LoopTypes
  <2> QED
    BY <2>1, <2>2, <2>3 DEF Next, Ended
<1> QED
  BY <1>1, TypeInit, PTL DEF Spec

-----------------------------------------------------------------------------
(* Closing the tunnel *)

Closing == ClosedBy /\ CloseOrder /\ ClosedByOne

LEMMA ClosingInit == Init => Closing
BY DEF Init, Closing, ClosedBy, CloseOrder, ClosedByOne, Closer

(* What main and the loops do beside closeOnce does not disturb it.        *)
LEMMA ClosingMain ==
  ASSUME TypeOK, Closing,
         \/ StartUp \/ (\E step \in Steps : Publish(step) \/ PublishUnheard(step))
         \/ PublishOnClosed \/ Die \/ Exit
  PROVE  Closing'
<1> USE DEF TypeOK, Closing, ClosedBy, CloseOrder, ClosedByOne, Closer, loops
<1>1. CASE StartUp
  BY <1>1 DEF StartUp, Parse, ConfigureCertPool, Connect, StartUpFails, ParsePluginFQNs
<1>2. ASSUME NEW step \in Steps, Publish(step) \/ PublishUnheard(step) PROVE Closing'
  <2>1. /\ pc \notin {"close", "closeFailed", "exited"}
        /\ pc' \notin {"configure", "certificates", "connect"}
    BY <1>2, StepKinds DEF Publish, PublishUnheard
  <2> QED
    BY <1>2, <2>1 DEF Publish, PublishUnheard
<1>3. CASE PublishOnClosed
  BY <1>3 DEF PublishOnClosed
<1>4. CASE Die
  BY <1>4 DEF Die
<1>5. CASE Exit
  BY <1>5 DEF Exit
<1> QED
  BY <1>1, <1>2, <1>3, <1>4, <1>5

LEMMA ClosingLoops ==
  ASSUME TypeOK, Closing,
         \/ WriteLoop \/ ReadRequest \/ Answer \/ AnswerOnClosed
         \/ ReaderStops \/ LinkBreaks
  PROVE  Closing'
<1> USE DEF TypeOK, Closing, ClosedBy, CloseOrder, ClosedByOne, Closer, main, loops
<1>1. CASE Write
  BY <1>1 DEF Write
<1>2. CASE WriteFails
  BY <1>2 DEF WriteFails
<1>3. CASE WriterStops
  BY <1>3 DEF WriterStops
<1>4. CASE ReadRequest
  BY <1>4 DEF ReadRequest
<1>5. CASE Answer
  BY <1>5 DEF Answer
<1>6. CASE AnswerOnClosed
  BY <1>6 DEF AnswerOnClosed
<1>7. CASE ReaderStops
  BY <1>7 DEF ReaderStops
<1>8. CASE LinkBreaks
  BY <1>8 DEF LinkBreaks
<1> QED
  BY <1>1, <1>2, <1>3, <1>4, <1>5, <1>6, <1>7, <1>8 DEF WriteLoop

(* closeOnce: whoever changes the state of the tunnel is alone with it.    *)
LEMMA ClosingClose ==
  ASSUME TypeOK, Closing,
         NEW c \in Closer, CloseOnce(c) \/ CloseOut(c) \/ Drained(c)
  PROVE  Closing'
<1> USE DEF TypeOK, Closing, ClosedBy, CloseOrder, ClosedByOne, Closer, main, loops, Running
<1>1. CASE CloseOnce(c)
  BY <1>1 DEF CloseOnce, WantsToClose
<1>2. CASE CloseOut(c)
  BY <1>2 DEF CloseOut
<1>3. CASE Drained(c)
  BY <1>3 DEF Drained
<1> QED
  BY <1>1, <1>2, <1>3

LEMMA ClosingStep ==
  ASSUME TypeOK, Closing, [Next]_vars
  PROVE  Closing'
<1>1. CASE UNCHANGED vars
  BY <1>1 DEF Closing, ClosedBy, CloseOrder, ClosedByOne, Closer, vars, main, loops
<1>2. CASE Next
  BY <1>1, <1>2, ClosingMain, ClosingLoops, ClosingClose
     DEF Next, MainStep, ReadLoop, Ended, Closer
<1> QED
  BY <1>1, <1>2

(* The channel of the tunnel is closed by one goroutine and once           *)
(* (ClosedByOne): the compare-and-swap in closeOnce keeps main and the     *)
(* read loop apart, and whoever comes after the close away from it.        *)
THEOREM ChannelClosedByOne == Spec => []ClosedByOne
<1>1. Spec => []TypeOK
  BY EventsTypeCorrect
<1>2. TypeOK /\ Closing /\ [Next]_vars => Closing'
  BY ClosingStep
<1>3. Closing => ClosedByOne
  BY DEF Closing
<1> QED
  BY <1>1, <1>2, <1>3, ClosingInit, PTL DEF Spec

-----------------------------------------------------------------------------
(* The events on their way *)

Delivery == InOrder /\ NothingLost

LEMMA DeliveryInit == Init => Delivery
<1> SUFFICES ASSUME Init PROVE Delivery
  OBVIOUS
<1>1. writing \notin Event
  BY NoneAssumption DEF Init
<1> QED
  BY <1>1 DEF Init, Delivery, InOrder, NothingLost, InFlight

(* A message in the hands of the write loop is an event or the response.   *)
LEMMA NotInFlight ==
  /\ None \notin Event
  /\ Response \notin Event
BY NoneAssumption DEF Event, Kind, Response

LEMMA DeliveryPublish ==
  ASSUME TypeOK, Delivery, NEW step \in Steps, Publish(step)
  PROVE  Delivery'
<1> DEFINE event == [kind |-> step[2], nr |-> Len(published) + 1]
<1>1. event \in Event
  BY StepKinds DEF Event, TypeOK
<1> HIDE DEF event
<1>2. /\ writing' = event
      /\ published' = Append(published, event)
      /\ writing = None
      /\ UNCHANGED <<received, link>>
  BY DEF Publish, event, TypeOK
<1>3. /\ published \in Seq(Event)
      /\ received \in Seq(Event)
  BY DEF TypeOK
<1>4. InFlight = 0 /\ InFlight' = 1
  BY <1>1, <1>2, NotInFlight DEF InFlight
<1>5. /\ Len(published') = Len(published) + 1
      /\ published'[Len(published')] = event
      /\ \A i \in 1 .. Len(published) : published'[i] = published[i]
  BY <1>1, <1>2, <1>3
<1> QED
  BY <1>2, <1>3, <1>4, <1>5 DEF Delivery, InOrder, NothingLost

LEMMA DeliveryWrite ==
  ASSUME TypeOK, Delivery, Write
  PROVE  Delivery'
<1>1. /\ writing \in Event \union {Response}
      /\ writing' = None
      /\ link = "up"
      /\ UNCHANGED <<published, link>>
  BY DEF Write, TypeOK
<1>2. /\ published \in Seq(Event)
      /\ received \in Seq(Event)
  BY DEF TypeOK
<1>3. InFlight' = 0
  BY <1>1, NotInFlight DEF InFlight
<1>4. CASE writing = Response
  <2>1. InFlight = 0 /\ received' = received
    BY <1>4, NotInFlight DEF InFlight, Write
  <2> QED
    BY <1>1, <1>3, <2>1 DEF Delivery, InOrder, NothingLost
<1>5. CASE writing # Response
  <2>1. InFlight = 1 /\ received' = Append(received, writing) /\ writing \in Event
    BY <1>1, <1>5 DEF InFlight, Write
  <2>2. /\ Len(received') = Len(received) + 1
        /\ received'[Len(received')] = writing
        /\ \A i \in 1 .. Len(received) : received'[i] = received[i]
    BY <1>2, <2>1
  <2> QED
    BY <1>1, <1>2, <1>3, <2>1, <2>2 DEF Delivery, InOrder, NothingLost
<1> QED
  BY <1>4, <1>5

(* The write loop drops a message only when the connection is lost: a      *)
(* connection closed here is closed after the write loop has ended.        *)
LEMMA DeliveryFails ==
  ASSUME TypeOK, Closing, Delivery, WriteFails
  PROVE  Delivery'
<1>1. link = "down"
  BY DEF WriteFails, TypeOK, Closing, CloseOrder
<1> QED
  BY <1>1 DEF WriteFails, Delivery, InOrder, NothingLost, history

(* The response takes the place of no event.                               *)
LEMMA DeliveryAnswer ==
  ASSUME TypeOK, Delivery, Answer
  PROVE  Delivery'
<1>1. InFlight = 0 /\ InFlight' = 0
  BY NotInFlight DEF Answer, TypeOK, InFlight
<1> QED
  BY <1>1 DEF Answer, Delivery, InOrder, NothingLost, history

(* Nothing else moves an event.                                            *)
LEMMA DeliveryOther ==
  ASSUME TypeOK, Delivery, UNCHANGED <<published, received, writing>>,
         link' = link \/ link # "down"
  PROVE  Delivery'
BY DEF TypeOK, Delivery, InOrder, NothingLost, InFlight

LEMMA DeliveryStep ==
  ASSUME TypeOK, Closing, Delivery, [Next]_vars
  PROVE  Delivery'
<1> USE DEF main, loops, history
<1>1. CASE UNCHANGED vars
  BY <1>1, DeliveryOther DEF vars
<1>2. CASE MainStep /\ ~StartUp
  <2>1. CASE \E step \in Steps : Publish(step)
    BY <2>1, DeliveryPublish
  <2>2. \/ UNCHANGED <<published, received, writing>> /\ (link' = link \/ link # "down")
        \/ \E step \in Steps : Publish(step)
    BY <1>2 DEF MainStep, PublishUnheard, PublishOnClosed, Die, CloseOnce, CloseOut, Drained, Exit
  <2> QED
    BY <2>1, <2>2, DeliveryOther
<1>6. CASE StartUp
  <2>1. link # "down" \/ link' = link
    BY <1>6 DEF StartUp, Parse, ConfigureCertPool, Connect, StartUpFails, ParsePluginFQNs,
                Closing, ClosedBy
  <2> QED
    BY <1>6, <2>1, DeliveryOther
       DEF StartUp, Parse, ConfigureCertPool, Connect, StartUpFails, ParsePluginFQNs
<1>3. CASE WriteLoop
  BY <1>3, DeliveryWrite, DeliveryFails, DeliveryOther DEF WriteLoop, WriterStops
<1>4. CASE ReadLoop
  BY <1>4, DeliveryAnswer, DeliveryOther
     DEF ReadLoop, ReadRequest, AnswerOnClosed, CloseOnce, CloseOut, Drained, ReaderStops
<1>5. CASE LinkBreaks
  BY <1>5, DeliveryOther DEF LinkBreaks
<1> QED
  BY <1>1, <1>2, <1>3, <1>4, <1>5, <1>6 DEF Next, Ended

THEOREM DeliveryInvariant == Spec => [](TypeOK /\ Closing /\ Delivery)
<1>1. Spec => []TypeOK
  BY EventsTypeCorrect
<1>2. TypeOK /\ Closing /\ [Next]_vars => Closing'
  BY ClosingStep
<1>3. TypeOK /\ Closing /\ Delivery /\ [Next]_vars => Delivery'
  BY DeliveryStep
<1> QED
  BY <1>1, <1>2, <1>3, ClosingInit, DeliveryInit, PTL DEF Spec

(* The master sees the events in the order they were published, with none  *)
(* left out (InOrder), whenever the connection breaks.                     *)
THEOREM EventsInOrder == Spec => []InOrder
<1>1. TypeOK /\ Closing /\ Delivery => InOrder
  BY DEF Delivery
<1> QED
  BY <1>1, DeliveryInvariant, PTL

(* Close waits for the write loop: once it has returned, nothing is on its *)
(* way.                                                                    *)
LEMMA DeliveredAll ==
  ASSUME TypeOK, Closing, Delivery, link # "down", closing["main"] = "returned"
  PROVE  received = published
<1>1. writer = "stopped"
  BY DEF Closing, CloseOrder
<1>2. InFlight = 0
  BY <1>1, NotInFlight DEF TypeOK, InFlight
<1>3. /\ received \in Seq(Event) /\ published \in Seq(Event)
      /\ Len(received) = Len(published)
      /\ \A i \in 1 .. Len(received) : received[i] = published[i]
  BY <1>2 DEF TypeOK, Delivery, InOrder, NothingLost
<1> QED
  BY <1>3

(* A broker whose Start is over has left no event behind, unless the       *)
(* connection was lost (Flushed): Close waits for the write loop.          *)
THEOREM EventsFlushed == Spec => []Flushed
<1>1. TypeOK /\ Closing /\ Delivery => Flushed
  BY DeliveredAll DEF Flushed, Connected
<1> QED
  BY <1>1, DeliveryInvariant, PTL

-----------------------------------------------------------------------------
(* The result *)

LEMMA ResultsInit == Init => PublishedSoFar /\ ResultDelivered
BY DEF Init, PublishedSoFar, ResultDelivered

(* Publishing, one step of Steps after the other.                          *)
LEMMA ResultsPublish ==
  ASSUME TypeOK, PublishedSoFar, NEW step \in Steps, Publish(step)
  PROVE  PublishedSoFar'
<1> DEFINE n == Len(published)
<1> DEFINE event == [kind |-> step[2], nr |-> n + 1]
<1>1. event \in Event /\ event.kind = step[2]
  BY StepKinds DEF Event, TypeOK
<1>2. /\ pc = step[1] /\ pc' = step[3] /\ published' = Append(published, event)
      /\ link # "none" /\ link' = link
  BY DEF Publish
<1>3. published \in Seq(Event) /\ n \in Nat
  BY DEF TypeOK
<1> HIDE DEF event
<1>4. /\ DOMAIN published = 1 .. n
      /\ DOMAIN published' = 1 .. n + 1
      /\ Len(published') = n + 1
      /\ published'[n + 1] = event
      /\ \A i \in 1 .. n : published'[i] = published[i]
  BY <1>1, <1>2, <1>3
<1>0. n = 0 <=> published = <<>>
  BY <1>3
<1> HIDE DEF n
<1>5. CASE step = <<"early", "FAILED", "earlyLog">>
  <2>1. n = 0
    BY <1>0, <1>2, <1>5 DEF PublishedSoFar
  <2> QED
    BY <1>1, <1>2, <1>4, <1>5, <2>1 DEF PublishedSoFar
<1>6. CASE step = <<"earlyLog", "LOG", "dying">>
  <2>1. n = 1 /\ published[1].kind = "FAILED"
    BY <1>2, <1>6 DEF PublishedSoFar, n
  <2> QED
    BY <1>1, <1>2, <1>4, <1>6, <2>1 DEF PublishedSoFar
<1>7. CASE step[1] \in {"start", "working"} /\ step[3] = "working" /\ step[2] \in {"STARTED", "LOG"}
  <2>1. \A i \in 1 .. n : published[i].kind \in {"STARTED", "LOG"}
    BY <1>0, <1>2, <1>4, <1>7 DEF PublishedSoFar
  <2>2. published' # <<>> /\ \A i \in DOMAIN published' : published'[i].kind \in {"STARTED", "LOG"}
    BY <1>1, <1>3, <1>4, <1>7, <2>1
  <2> QED
    BY <1>2, <1>7, <2>2 DEF PublishedSoFar
<1>8. CASE /\ step[1] = "working"
           /\ \/ step[2] = "DONE" /\ step[3] = "close"
              \/ step[2] = "FAILED" /\ step[3] = "failedLog"
  <2>1. \A i \in 1 .. n : published[i].kind \in {"STARTED", "LOG"}
    BY <1>2, <1>4, <1>8 DEF PublishedSoFar
  <2>2. \A j \in 1 .. n + 1 : IsResult(published'[j]) => j = n + 1
    BY <1>3, <1>4, <2>1 DEF IsResult
  <2>3. n + 1 \in 1 .. n + 1
    BY <1>3
  <2>4. published'[Len(published')].kind = step[2]
    BY <1>1, <1>4
  <2> QED
    BY <1>1, <1>2, <1>4, <1>8, <2>2, <2>3, <2>4 DEF PublishedSoFar
<1>9. CASE step = <<"failedLog", "LOG", "closeFailed">>
  <2>1. PICK i \in 1 .. n :
          /\ published[i].kind = "FAILED"
          /\ \A j \in 1 .. n : IsResult(published[j]) => j = i
    BY <1>2, <1>4, <1>9 DEF PublishedSoFar
  <2>2. /\ published'[i].kind = "FAILED"
        /\ \A j \in 1 .. n + 1 : IsResult(published'[j]) => j = i
    BY <1>1, <1>3, <1>4, <1>9, <2>1 DEF IsResult
  <2> QED
    BY <1>2, <1>3, <1>4, <1>9, <2>2 DEF PublishedSoFar
<1> QED
  BY <1>5, <1>6, <1>7, <1>8, <1>9 DEF Steps, PubStarted, PubFailed, PubDone, PubLog

(* Without a tunnel nothing is ever published.                             *)
LEMMA ResultsUnheard ==
  ASSUME TypeOK, PublishedSoFar, NEW step \in Steps, PublishUnheard(step)
  PROVE  PublishedSoFar'
<1>1. link = "none" /\ link' = "none" /\ published = <<>> /\ published' = <<>>
  BY DEF PublishUnheard, PublishedSoFar, history
<1> QED
  BY <1>1 DEF PublishedSoFar

LEMMA ResultsStartUp ==
  ASSUME TypeOK, Closing, PublishedSoFar, StartUp
  PROVE  PublishedSoFar' /\ ResultDelivered'
<1>1. published = <<>> /\ published' = <<>>
  BY DEF StartUp, Parse, ConfigureCertPool, Connect, StartUpFails, ParsePluginFQNs,
         Closing, ClosedBy, PublishedSoFar, history
<1>2. \/ pc' = "exited" /\ link' = "none"
      \/ pc' \in {"certificates", "connect"} /\ link' = "none"
      \/ pc' \in {"parse", "start", "early"}
  BY DEF StartUp, Parse, ConfigureCertPool, Connect, StartUpFails, ParsePluginFQNs,
         Closing, ClosedBy
<1> QED
  BY <1>1, <1>2 DEF PublishedSoFar, ResultDelivered, Connected

(* Two sequences that agree have the same results.                         *)
LEMMA SameResults ==
  ASSUME UNCHANGED <<pc, published>>, PublishedSoFar, (link' = "none") <=> (link = "none")
  PROVE  PublishedSoFar'
BY DEF PublishedSoFar, IsResult

(* log.Fatal with the tunnel open: FAILED is the first of two events, and  *)
(* only the second can still be on its way.                                *)
LEMMA ResultDie ==
  ASSUME TypeOK, Delivery, PublishedSoFar, Die
  PROVE  ResultDelivered'
<1> SUFFICES ASSUME Connected
             PROVE  ResultDelivered'
  BY DEF Die, ResultDelivered, Connected
<1>1. /\ Len(published) = 2
      /\ published[1].kind = "FAILED"
      /\ published[2].kind = "LOG"
  BY DEF Die, PublishedSoFar, Connected
<1>2. /\ received \in Seq(Event)
      /\ Len(received) \in {1, 2}
      /\ \A i \in DOMAIN received : received[i] = published[i]
  <2>1. received \in Seq(Event) /\ Len(received) \in Nat
    BY DEF TypeOK
  <2>2. 2 = Len(received) + InFlight
    BY <1>1 DEF Delivery, NothingLost, Connected
  <2>3. Len(received) \in {1, 2}
    <3>1. ASSUME NEW k \in Nat, NEW j \in {0, 1}, 2 = k + j
          PROVE  k \in {1, 2}
      BY <3>1
    <3>2. InFlight \in {0, 1}
      BY DEF InFlight
    <3> QED
      BY <2>1, <2>2, <3>1, <3>2
  <2> QED
    BY <2>1, <2>3 DEF Delivery, InOrder
<1>3. \A i \in DOMAIN received : received[i].kind = IF i = 1 THEN "FAILED" ELSE "LOG"
  BY <1>1, <1>2
<1>4. Result("FAILED") = {1} /\ Result("DONE") = {}
  BY <1>2, <1>3 DEF Result
<1>5. UNCHANGED received /\ status' = "fatal"
  BY DEF Die, history
<1> QED
  BY <1>2, <1>4, <1>5 DEF ResultDelivered, Result

(* The end of main: everything has been received, one result among it.     *)
LEMMA ResultExit ==
  ASSUME TypeOK, Closing, Delivery, PublishedSoFar, Exit
  PROVE  ResultDelivered'
<1> SUFFICES ASSUME Connected
             PROVE  ResultDelivered'
  BY DEF Exit, ResultDelivered, Connected
<1>1. received = published
  BY DeliveredAll DEF Exit, Connected
<1>2. PICK i \in DOMAIN published :
        /\ published[i].kind = IF pc = "close" THEN "DONE" ELSE "FAILED"
        /\ \A j \in DOMAIN published : IsResult(published[j]) => j = i
  BY DEF Exit, PublishedSoFar, Connected
<1>3. Result("DONE") \union Result("FAILED") = {i}
  BY <1>1, <1>2 DEF Result, IsResult
<1>4. pc = "close" <=> Result("DONE") # {}
  BY <1>1, <1>2 DEF Result, IsResult
<1>5. UNCHANGED received /\ status' = IF pc = "close" THEN "ok" ELSE "fatal"
  BY DEF Exit, history
<1>6. i \in DOMAIN received
  BY <1>1
<1>7. \A kind : Result(kind)' = Result(kind)
  BY <1>5 DEF Result
<1> QED
  BY <1>3, <1>4, <1>5, <1>6, <1>7 DEF ResultDelivered

(* Main finds the channel closed only when the connection was lost.        *)
LEMMA ClosedWhenLost ==
  ASSUME TypeOK, Closing, PublishOnClosed
  PROVE  link = "down"
<1>1. pc \notin {"close", "closeFailed", "exited"}
  BY StepKinds DEF PublishOnClosed
<1>2. closing["main"] = "no" /\ closing["reader"] # "no"
  BY <1>1 DEF PublishOnClosed, Closing, ClosedBy, CloseOrder, Closer
<1> QED
  BY <1>2 DEF TypeOK, Closing, ClosedBy, CloseOrder

LEMMA ResultsStep ==
  ASSUME TypeOK, Closing, Delivery, PublishedSoFar, ResultDelivered, [Next]_vars
  PROVE  PublishedSoFar' /\ ResultDelivered'
<1> USE DEF main, loops, history
<1>1. CASE UNCHANGED vars
  BY <1>1, SameResults DEF vars, ResultDelivered, Result, Connected
<1>2. CASE StartUp
  BY <1>2, ResultsStartUp
<1>3. ASSUME NEW step \in Steps, Publish(step) \/ PublishUnheard(step)
      PROVE  PublishedSoFar' /\ ResultDelivered'
  <2>1. pc' # "exited"
    BY <1>3, StepKinds DEF Publish, PublishUnheard
  <2> QED
    BY <1>3, <2>1, ResultsPublish, ResultsUnheard DEF ResultDelivered
<1>4. CASE PublishOnClosed
  BY <1>4, ClosedWhenLost DEF PublishOnClosed, PublishedSoFar, ResultDelivered, Connected
<1>5. CASE Die
  BY <1>5, ResultDie DEF Die, PublishedSoFar
<1>6. CASE Exit
  BY <1>6, ResultExit DEF Exit, PublishedSoFar
<1>7. CASE AnswerOnClosed
  BY <1>7 DEF AnswerOnClosed, PublishedSoFar, ResultDelivered
<1>8. ASSUME UNCHANGED <<pc, published>>, Running, (link' = "none") <=> (link = "none")
      PROVE  PublishedSoFar' /\ ResultDelivered'
  BY <1>8, SameResults DEF Running, ResultDelivered
<1>9. ASSUME NEW c \in Closer, CloseOnce(c) \/ CloseOut(c) \/ Drained(c)
      PROVE  PublishedSoFar' /\ ResultDelivered'
  BY <1>8, <1>9 DEF CloseOnce, CloseOut, Drained
<1>10. CASE WriteLoop
  BY <1>8, <1>10 DEF WriteLoop, Write, WriteFails, WriterStops
<1>11. CASE ReadRequest \/ Answer \/ ReaderStops \/ LinkBreaks
  BY <1>8, <1>11 DEF ReadRequest, Answer, ReaderStops, LinkBreaks
<1> QED
  BY <1>1, <1>2, <1>3, <1>4, <1>5, <1>6, <1>7, <1>9, <1>10, <1>11
     DEF Next, MainStep, ReadLoop, Ended, Closer

-----------------------------------------------------------------------------
(* The panic *)

(* A request that is answered on a closed channel: the read loop has not   *)
(* closed it, so main has, and main is done.                               *)
LEMMA PanicsInEnd ==
  ASSUME TypeOK, Closing, Delivery, PublishedSoFar, AnswerOnClosed
  PROVE  PanicsLate'
<1>1. /\ reader = "answering" /\ jsonOut = "closed" /\ pc # "exited"
      /\ UNCHANGED <<closing, link, published, received>>
  BY DEF AnswerOnClosed, Running, history
<1>2. closing["main"] # "no" /\ pc \in {"close", "closeFailed"} /\ link # "none"
  BY <1>1 DEF Closing, ClosedBy, CloseOrder, Closer
<1>3. \E i \in DOMAIN published : IsResult(published[i])
  BY <1>2 DEF PublishedSoFar, IsResult
<1>4. Connected => Len(published) <= Len(received) + 1
  <2>1. Len(published) \in Nat /\ Len(received) \in Nat /\ InFlight \in {0, 1}
    BY DEF TypeOK, InFlight
  <2> QED
    BY <2>1 DEF Delivery, NothingLost, Connected
<1> QED
  BY <1>1, <1>2, <1>3, <1>4 DEF PanicsLate, Connected

LEMMA PanicsStep ==
  ASSUME TypeOK, Closing, Delivery, PublishedSoFar, PanicsLate, [Next]_vars
  PROVE  PanicsLate'
<1> USE DEF main, loops, history
<1>1. CASE UNCHANGED vars
  BY <1>1 DEF vars, PanicsLate, Connected
<1>2. CASE AnswerOnClosed
  BY <1>2, PanicsInEnd
<1>3. ASSUME Next, ~AnswerOnClosed, ~UNCHANGED vars PROVE status' # "panic"
  <2>1. pc # "exited" => status # "panic"
    BY DEF TypeOK
  <2>2. CASE StartUp
    BY <2>1, <2>2 DEF StartUp, Parse, ConfigureCertPool, Connect, StartUpFails, ParsePluginFQNs
  <2>3. ASSUME NEW step \in Steps, Publish(step) \/ PublishUnheard(step) PROVE status' # "panic"
    BY <2>1, <2>3, StepKinds DEF Publish, PublishUnheard
  <2>4. CASE PublishOnClosed \/ Die \/ Exit
    BY <2>4 DEF PublishOnClosed, Die, Exit
  <2>5. ASSUME NEW c \in Closer, CloseOnce(c) \/ CloseOut(c) \/ Drained(c) PROVE status' # "panic"
    BY <2>1, <2>5 DEF CloseOnce, CloseOut, Drained, Running
  <2>6. CASE WriteLoop \/ ReadRequest \/ Answer \/ ReaderStops \/ LinkBreaks
    BY <2>1, <2>6 DEF WriteLoop, Write, WriteFails, WriterStops, ReadRequest, Answer,
                      ReaderStops, LinkBreaks, Running
  <2> QED
    BY <1>3, <2>2, <2>3, <2>4, <2>5, <2>6 DEF Next, MainStep, ReadLoop, Ended, Closer
<1> QED
  BY <1>1, <1>2, <1>3 DEF PanicsLate

(* A request of the master at the wrong moment costs it one event at most, *)
(* and never comes before the result has been published (PanicsLate).      *)
THEOREM PanicIsLate == Spec => []PanicsLate
<1>1. Spec => [](TypeOK /\ Closing /\ Delivery)
  BY DeliveryInvariant
<1>2. /\ TypeOK /\ Closing /\ Delivery /\ PublishedSoFar /\ ResultDelivered /\ [Next]_vars
      => PublishedSoFar' /\ ResultDelivered'
  BY ResultsStep
<1>3. Init => PanicsLate
  BY DEF Init, PanicsLate
<1>4. TypeOK /\ Closing /\ Delivery /\ PublishedSoFar /\ PanicsLate /\ [Next]_vars => PanicsLate'
  BY PanicsStep
<1> QED
  BY <1>1, <1>2, <1>3, <1>4, ResultsInit, PTL DEF Spec

-----------------------------------------------------------------------------
(* The report *)

LEMMA KindsOf ==
  ASSUME NEW events \in Seq(Event)
  PROVE  /\ Kinds(events) \in Seq(Kind)
         /\ Len(Kinds(events)) = Len(events)
         /\ DOMAIN Kinds(events) = 1 .. Len(events)
         /\ \A i \in 1 .. Len(events) : Kinds(events)[i] = events[i].kind
         /\ events = <<>> => Kinds(events) = <<>>
<1> DEFINE n == Len(events)
<1>1. n \in Nat /\ DOMAIN events = 1 .. n /\ \A i \in 1 .. n : events[i].kind \in Kind
  <2>1. n \in Nat /\ DOMAIN events = 1 .. n /\ \A i \in 1 .. n : events[i] \in Event
    OBVIOUS
  <2> QED
    BY <2>1 DEF Event
<1>2. Kinds(events) = [i \in 1 .. n |-> events[i].kind]
  BY <1>1 DEF Kinds
<1> HIDE DEF n
<1>0. Kinds(events) \in [1 .. n -> Kind]
  BY <1>1, <1>2
<1>3. Kinds(events) \in Seq(Kind) /\ Len(Kinds(events)) = n
  <2>1. ASSUME NEW f \in [1 .. n -> Kind] PROVE f \in Seq(Kind) /\ Len(f) = n
    BY <1>1
  <2> QED
    BY <1>0, <2>1
<1>4. DOMAIN Kinds(events) = 1 .. n /\ \A i \in 1 .. n : Kinds(events)[i] = events[i].kind
  BY <1>2
<1>5. events = <<>> => Kinds(events) = <<>>
  BY <1>3 DEF n
<1> QED
  BY <1>3, <1>4, <1>5 DEF n

LEMMA KindsAppend ==
  ASSUME NEW events \in Seq(Event), NEW event \in Event
  PROVE  Kinds(Append(events, event)) = Append(Kinds(events), event.kind)
<1> DEFINE longer == Append(events, event)
<1>1. longer \in Seq(Event) /\ Len(longer) = Len(events) + 1 /\ Len(events) \in Nat
  OBVIOUS
<1>2. event.kind \in Kind
  BY DEF Event
<1>3. Append(Kinds(events), event.kind) \in Seq(Kind)
  BY <1>2, KindsOf
<1>0. /\ Kinds(events) \in Seq(Kind) /\ Len(Kinds(events)) = Len(events)
      /\ \A i \in 1 .. Len(events) : Kinds(events)[i] = events[i].kind
  BY KindsOf
<1>00. /\ Kinds(longer) \in Seq(Kind) /\ Len(Kinds(longer)) = Len(longer)
       /\ \A i \in 1 .. Len(longer) : Kinds(longer)[i] = longer[i].kind
  BY <1>1, KindsOf
<1>4. Len(Kinds(longer)) = Len(Append(Kinds(events), event.kind))
  BY <1>0, <1>00, <1>1, <1>2
<1>5. \A i \in 1 .. Len(events) + 1 : Kinds(longer)[i] = Append(Kinds(events), event.kind)[i]
  <2> TAKE i \in 1 .. Len(events) + 1
  <2>1. Kinds(longer)[i] = longer[i].kind
    BY <1>00, <1>1
  <2>2. CASE i \in 1 .. Len(events)
    BY <1>0, <1>2, <2>1, <2>2
  <2>3. CASE i = Len(events) + 1
    BY <1>0, <1>2, <2>1, <2>3
  <2>4. i \in 1 .. Len(events) \/ i = Len(events) + 1
    OBVIOUS
  <2> QED
    BY <2>2, <2>3, <2>4
<1> QED
  BY <1>00, <1>1, <1>3, <1>4, <1>5

(* When main publishes, the master has heard all there is, and the event   *)
(* is the next one of a report.                                            *)
LEMMA FitsPublish ==
  ASSUME TypeOK, Delivery, PublishedSoFar, NEW step \in Steps, Publish(step)
  PROVE  FitsReport'
<1> SUFFICES ASSUME link = "up"
             PROVE  FitsReport'
  BY DEF Publish, FitsReport
<1> DEFINE n == Len(published)
<1>1. /\ published \in Seq(Event) /\ received \in Seq(Event)
      /\ writing = None
  BY DEF Publish, TypeOK
<1>2. InFlight = 0
  BY <1>1, NotInFlight DEF InFlight
<1>3. /\ n \in Nat /\ Len(received) = n
      /\ \A i \in 1 .. n : received[i] = published[i]
  BY <1>1, <1>2 DEF Delivery, InOrder, NothingLost
<1>4. /\ Len(Kinds(received)) = n /\ DOMAIN Kinds(received) = 1 .. n
      /\ \A i \in 1 .. n : Kinds(received)[i] = published[i].kind
      /\ Kinds(received) = <<>> <=> n = 0
  BY <1>1, <1>3, KindsOf
<1>5. /\ pc = step[1]
      /\ writing'.kind = step[2]
      /\ Kinds(received)' = Kinds(received)
  BY DEF Publish, Kinds
<1>6. n = 0 <=> published = <<>>
  BY <1>1
<1> HIDE DEF n
<1>7. step[2] \in Master!MayFollow
  <2>1. CASE step[1] \in {"early", "start"}
    <3>1. n = 0
      BY <1>5, <1>6, <2>1 DEF PublishedSoFar
    <3> QED
      BY <1>4, <2>1, <3>1 DEF Master!MayFollow, Steps, PubStarted, PubFailed, PubDone, PubLog
  <2>2. CASE step = <<"earlyLog", "LOG", "dying">>
    <3>1. n = 1 /\ published[1].kind = "FAILED"
      BY <1>5, <2>2 DEF PublishedSoFar, n
    <3> QED
      BY <1>4, <2>2, <3>1 DEF Master!MayFollow
  <2>3. CASE step[1] = "working"
    <3>1. n # 0 /\ \A i \in 1 .. n : published[i].kind \in {"STARTED", "LOG"}
      BY <1>1, <1>5, <1>6, <2>3 DEF PublishedSoFar, n
    <3>2. step[2] \in {"LOG", "DONE", "FAILED"}
      BY <2>3 DEF Steps, PubStarted, PubFailed, PubDone, PubLog
    <3> QED
      BY <1>3, <1>4, <3>1, <3>2 DEF Master!MayFollow, Master!Heard
  <2>4. CASE step = <<"failedLog", "LOG", "closeFailed">>
    <3>1. n # 0 /\ published[n].kind = "FAILED"
      BY <1>1, <1>5, <2>4 DEF PublishedSoFar, n
    <3> QED
      BY <1>3, <1>4, <2>4, <3>1 DEF Master!MayFollow
  <2> QED
    BY <2>1, <2>2, <2>3, <2>4 DEF Steps, PubStarted, PubFailed, PubDone, PubLog
<1> QED
  BY <1>5, <1>7 DEF FitsReport, Master!MayFollow, Master!Heard

LEMMA FitsOther ==
  ASSUME FitsReport, UNCHANGED <<received, writing>>, link' = "up" => link = "up"
  PROVE  FitsReport'
BY DEF FitsReport, Kinds, Master!MayFollow, Master!Heard

LEMMA FitsStep ==
  ASSUME TypeOK, Closing, Delivery, PublishedSoFar, FitsReport, [Next]_vars
  PROVE  FitsReport'
<1> USE DEF main, loops, history
<1>1. CASE UNCHANGED vars
  BY <1>1, FitsOther DEF vars
<1>2. CASE StartUp
  <2>1. CASE Connect
    <3>1. link # "down" /\ published = <<>>
      BY <2>1 DEF Connect, Closing, ClosedBy, PublishedSoFar
    <3>2. received \in Seq(Event)
      BY DEF TypeOK
    <3>3. writing \notin Event
      BY <3>1, <3>2 DEF Delivery, NothingLost, InFlight
    <3> QED
      BY <2>1, <3>3 DEF Connect, FitsReport
  <2>2. CASE ~Connect
    BY <1>2, <2>2, FitsOther DEF StartUp, Parse, ConfigureCertPool, StartUpFails, ParsePluginFQNs
  <2> QED
    BY <2>1, <2>2
<1>3. ASSUME NEW step \in Steps, Publish(step) PROVE FitsReport'
  BY <1>3, FitsPublish
<1>4. ASSUME NEW step \in Steps, PublishUnheard(step) PROVE FitsReport'
  BY <1>4, FitsOther DEF PublishUnheard
<1>5. CASE PublishOnClosed \/ Die \/ Exit
  BY <1>5, FitsOther DEF PublishOnClosed, Die, Exit
<1>6. ASSUME NEW c \in Closer, CloseOnce(c) \/ CloseOut(c) \/ Drained(c) PROVE FitsReport'
  BY <1>6, FitsOther DEF CloseOnce, CloseOut, Drained
<1>7. CASE Write \/ WriteFails
  BY <1>7, NoneAssumption DEF Write, WriteFails, FitsReport
<1>8. CASE Answer
  BY <1>8, NotInFlight DEF Answer, FitsReport
<1>9. CASE WriterStops \/ ReadRequest \/ AnswerOnClosed \/ ReaderStops \/ LinkBreaks
  BY <1>9, FitsOther DEF WriterStops, ReadRequest, AnswerOnClosed, ReaderStops, LinkBreaks
<1> QED
  BY <1>1, <1>2, <1>3, <1>4, <1>5, <1>6, <1>7, <1>8, <1>9
     DEF Next, MainStep, WriteLoop, ReadLoop, Ended, Closer

(* The inductive invariant, of which every safety property above is a      *)
(* part or a consequence.                                                  *)
THEOREM EventsInvariant == Spec => []EventsInv
<1>1. Spec => [](TypeOK /\ Closing /\ Delivery)
  BY DeliveryInvariant
<1>2. /\ TypeOK /\ Closing /\ Delivery /\ PublishedSoFar /\ ResultDelivered /\ [Next]_vars
      => PublishedSoFar' /\ ResultDelivered'
  BY ResultsStep
<1>3. Init => FitsReport
  BY DEF Init, FitsReport
<1>4. /\ TypeOK /\ Closing /\ Delivery /\ PublishedSoFar /\ FitsReport /\ [Next]_vars
      => FitsReport'
  BY FitsStep
<1>5. /\ TypeOK /\ Closing /\ Delivery /\ PublishedSoFar /\ FitsReport /\ ResultDelivered
      /\ PanicsLate
      => EventsInv
  BY DEF EventsInv, Closing, Delivery
<1> QED
  BY <1>1, <1>2, <1>3, <1>4, <1>5, ResultsInit, PanicIsLate, PTL DEF Spec

(* Steps the master does not notice.                                       *)
LEMMA ReportStutters ==
  ASSUME UNCHANGED <<received, status>>, link' = link \/ (link = "up" /\ link' = "shut")
  PROVE  UNCHANGED <<Kinds(received), Line, status>>
BY DEF Kinds, Line, Connected

(* However the process ends: ResultDelivered says what the master knows.   *)
LEMMA ReportEnds ==
  ASSUME TypeOK, TypeOK', ResultDelivered', pc # "exited", pc' = "exited",
         UNCHANGED <<received, link>>
  PROVE  Master!ReportNext
<1>1. status = "none" /\ status' \in {"ok", "fatal", "panic"}
  BY DEF TypeOK
<1>2. UNCHANGED <<Kinds(received), Line>>
  BY DEF Kinds, Line, Connected
<1>3. \A kind : Master!Heard(kind) <=> Result(kind)' # {}
  BY DEF Master!Heard, Result, Kinds
<1>4. Line = "up" => Connected'
  BY DEF Line, Connected
<1>5. Line = "up" /\ status' = "ok" => Master!Heard("DONE")
  BY <1>3, <1>4 DEF ResultDelivered
<1>6. Line = "up" /\ status' = "fatal" => Master!Heard("FAILED")
  BY <1>3, <1>4 DEF ResultDelivered
<1>7. Master!End(status')
  BY <1>1, <1>2, <1>5, <1>6 DEF Master!End
<1> QED
  BY <1>1, <1>7 DEF Master!ReportNext

LEMMA ReportInitial == Init => Master!ReportInit
<1> SUFFICES ASSUME Init PROVE Master!ReportInit
  OBVIOUS
<1>1. Kinds(received) = <<>>
  <2>1. received \in Seq(Event) /\ received = <<>>
    BY DEF Init
  <2> QED
    BY <2>1, KindsOf
<1>2. Line = "none" /\ status = "none"
  BY DEF Init, Line, Connected
<1> QED
  BY <1>1, <1>2 DEF Master!ReportInit

LEMMA ReportStep ==
  ASSUME EventsInv, EventsInv', [Next]_vars
  PROVE  [Master!ReportNext]_(Master!reportVars)
<1> USE DEF main, loops, history
<1> DEFINE Unnoticed ==
      UNCHANGED <<received, status>> /\ (link' = link \/ (link = "up" /\ link' = "shut"))
<1>0. TypeOK /\ TypeOK' /\ ResultDelivered' /\ ClosedBy /\ FitsReport
  BY DEF EventsInv
<1>a. Unnoticed => UNCHANGED Master!reportVars
  BY ReportStutters DEF Master!reportVars
<1>b. /\ pc # "exited" /\ pc' = "exited"
      /\ UNCHANGED <<received, link>>
      => Master!ReportNext
  BY <1>0, ReportEnds
<1>c. pc # "exited" => status = "none"
  BY <1>0 DEF TypeOK
<1>1. CASE UNCHANGED vars
  <2>1. Unnoticed
    BY <1>1 DEF vars
  <2> QED
    BY <1>a, <2>1
<1>2. CASE Connect
  <2>1. link = "none" /\ link' = "up" /\ status = "none" /\ UNCHANGED <<received, status>>
    BY <1>0, <1>2, <1>c DEF Connect, ClosedBy
  <2>2. Line = "none" /\ Line' = "up" /\ Kinds(received)' = Kinds(received)
    BY <2>1 DEF Line, Connected, Kinds
  <2> QED
    BY <2>1, <2>2 DEF Master!ReportNext, Master!Call
<1>3. CASE Parse \/ ConfigureCertPool \/ ParsePluginFQNs
  <2>1. Unnoticed
    BY <1>3 DEF Parse, ConfigureCertPool, ParsePluginFQNs
  <2> QED
    BY <1>a, <2>1
<1>4. ASSUME NEW step \in Steps, Publish(step) \/ PublishUnheard(step) PROVE Unnoticed
  BY <1>4 DEF Publish, PublishUnheard
<1>5. CASE StartUpFails \/ PublishOnClosed \/ Die \/ Exit \/ AnswerOnClosed
  <2>1. /\ pc # "exited" /\ pc' = "exited"
        /\ UNCHANGED <<received, link>>
    BY <1>5, StepKinds DEF StartUpFails, PublishOnClosed, Die, Exit, AnswerOnClosed, Running
  <2> QED
    BY <1>b, <2>1
<1>6. ASSUME NEW c \in Closer, CloseOnce(c) \/ CloseOut(c) \/ Drained(c) PROVE Unnoticed
  BY <1>6 DEF CloseOnce, CloseOut, Drained
<1>7. CASE Write
  <2>1. /\ writing \in Event \union {Response} /\ received \in Seq(Event)
        /\ link = "up" /\ link' = "up" /\ status = "none" /\ status' = status
    BY <1>0, <1>7, <1>c DEF Write, TypeOK, Running
  <2>2. CASE writing = Response
    <3>1. Unnoticed
      BY <1>7, <2>1, <2>2 DEF Write
    <3> QED
      BY <1>a, <3>1
  <2>3. CASE writing # Response
    <3>1. writing \in Event /\ received' = Append(received, writing)
      BY <1>7, <2>1, <2>3 DEF Write
    <3>2. Kinds(received') = Append(Kinds(received), writing.kind)
      BY <2>1, <3>1, KindsAppend
    <3>3. Kinds(received)' = Append(Kinds(received), writing.kind)
      BY <3>2 DEF Kinds
    <3>4. writing.kind \in Master!MayFollow /\ writing.kind \in Kind
      BY <1>0, <2>1, <3>1 DEF FitsReport, Event
    <3>5. Line = "up" /\ Line' = "up"
      BY <2>1 DEF Line, Connected
    <3>6. Master!Hear(writing.kind)
      BY <2>1, <3>3, <3>4, <3>5 DEF Master!Hear
    <3> QED
      BY <3>4, <3>6 DEF Master!ReportNext, Kind
  <2> QED
    BY <2>2, <2>3
<1>8. CASE WriteFails \/ WriterStops \/ ReadRequest \/ Answer \/ ReaderStops
  <2>1. Unnoticed
    BY <1>8 DEF WriteFails, WriterStops, ReadRequest, Answer, ReaderStops
  <2> QED
    BY <1>a, <2>1
<1>9. CASE LinkBreaks
  <2>1. /\ link = "up" /\ link' = "down" /\ status = "none"
        /\ UNCHANGED <<received, status>>
    BY <1>9, <1>c DEF LinkBreaks, Running
  <2>2. Line = "up" /\ Line' = "lost" /\ Kinds(received)' = Kinds(received)
    BY <2>1 DEF Line, Connected, Kinds
  <2> QED
    BY <2>1, <2>2 DEF Master!ReportNext, Master!Lose
<1> QED
  BY <1>a, <1>1, <1>2, <1>3, <1>4, <1>5, <1>6, <1>7, <1>8, <1>9
     DEF Next, MainStep, StartUp, WriteLoop, ReadLoop, Ended, Closer

(* What the master hears is a report, and the process ends as the report   *)
(* says (ImplementsReport), for any number of log events and requests.     *)
THEOREM ReportImplemented == Spec => ImplementsReport
<1>1. EventsInv /\ EventsInv' /\ [Next]_vars => [Master!ReportNext]_(Master!reportVars)
  BY ReportStep
<1> QED
  BY <1>1, ReportInitial, EventsInvariant, PTL DEF Spec, ImplementsReport, Master!ReportSpec

(* A process that ends by itself, the connection not lost, has told the    *)
(* master exactly one result, the one its exit status stands for           *)
(* (ResultDelivered).                                                      *)
THEOREM ResultIsDelivered == Spec => []ResultDelivered
<1>1. EventsInv => ResultDelivered
  BY DEF EventsInv
<1> QED
  BY <1>1, EventsInvariant, PTL
=============================================================================
