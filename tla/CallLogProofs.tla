--------------------------- MODULE CallLogProofs ---------------------------
(***************************************************************************)
(* The call log for any number of calls, hang-up requests, clock ticks and *)
(* restarts: the rows say what the first event decided, a placed call that *)
(* left activeCalls is final, and the statements implement the documented  *)
(* life of a row.  The invariant ties a row to the line it records, to the *)
(* handler that placed the call and to the callback that ends it.          *)
(***************************************************************************)
EXTENDS CallLog, TLAPS

\* What a row met, and what it holds because of that.
RowInv ==
  \A k \in Rows :
    /\ endedAt[k] # Never <=> "terminate" \in met[k]
    /\ first[k] = "none" <=> met[k] = {}
    /\ first[k] # "none" => first[k] \in met[k]
    /\ first[k] # "offer"
    /\ result[k] = "none" => met[k] = {}

\* An event of the end is only sent once the call is over, and a row under
\* callChatJID holds the time WhatsApp gave.
LineInv ==
  \A c \in Calls :
    /\ overAt[c] # Never <=> line[c] = "over"
    /\ "terminate" \in sent[c] => line[c] = "over"
    /\ endedAt[callChatJID(c)] \in {Never, overAt[c]}

\* Where the handler of a placed call stands, what it has written so far.
PlaceInv ==
  \A c \in Outbound :
    /\ place[c] = "idle" => line[c] = "none"
    /\ place[c] \in {"idle", "placed", "dead"} => c \notin active
    /\ place[c] \in {"active", "stored"} => c \in active
    /\ place[c] \in {"idle", "placed", "active"} => result[Dialled(c)] = "none"
    /\ place[c] \in {"stored", "done"} => result[Dialled(c)] # "none"

\* The callback runs for a registered call that is over, once past activeCalls,
\* and the row has no end before it.
EndingInv ==
  \A c \in Outbound :
    /\ \A s \in Sides : ending[c][s] # "no" => place[c] = "done" /\ line[c] = "over"
    /\ \A s \in Sides : ending[c][s] = "removed" =>
         c \notin active /\ endedAt[Dialled(c)] = Never
    /\ \A s, o \in Sides : ending[c][s] = "removed" /\ ending[c][o] = "removed" => s = o
    /\ c \in active => endedAt[Dialled(c)] = Never

IInv ==
  /\ TypeOK /\ RowInv /\ LineInv /\ PlaceInv /\ EndingInv
  /\ FirstEventDecides /\ RemovedIsFinal

-----------------------------------------------------------------------------
(* The four statements on one row. *)

RowTypes ==
  /\ result \in [Rows -> Results]
  /\ endedAt \in [Rows -> {Never} \union 0..MaxTime]
  /\ first \in [Rows -> Events \union {"none"}]
  /\ met \in [Rows -> SUBSET Events]

RowsOK == RowTypes /\ RowInv /\ FirstEventDecides

\* INSERT OR IGNORE only ever adds a row that has met nothing.
LEMMA OfferKeepsRows ==
  ASSUME RowsOK, NEW k \in Rows, StoreCallOffer(k)
  PROVE  RowsOK'
BY DEF RowsOK, RowTypes, RowInv, FirstEventDecides, StoreCallOffer, Results, Events, Never

\* An accept changes a row in progress, which has met nothing before.
LEMMA AnswerKeepsRows ==
  ASSUME RowsOK, NEW k \in Rows, MarkCallAnswered(k)
  PROVE  RowsOK'
BY DEF RowsOK, RowTypes, RowInv, FirstEventDecides, MarkCallAnswered, Meet, Results, Events, Never

\* The same for a reject.
LEMMA RejectKeepsRows ==
  ASSUME RowsOK, NEW k \in Rows, MarkCallRejected(k)
  PROVE  RowsOK'
BY DEF RowsOK, RowTypes, RowInv, FirstEventDecides, MarkCallRejected, Meet, Results, Events, Never

\* The end turns what the first event decided into a final result.
LEMMA EndKeepsRows ==
  ASSUME RowsOK, NEW k \in Rows, NEW t \in 0..MaxTime, MarkCallTerminated(k, t)
  PROVE  RowsOK'
BY DEF RowsOK, RowTypes, RowInv, FirstEventDecides, MarkCallTerminated, Meet, Results, Events, Never

\* Every event of a call goes to one row; the rows of placed calls are others.
LEMMA Keys ==
  /\ \A c \in Calls : callChatJID(c) \in Rows
  /\ \A c \in Outbound : Dialled(c) \in Rows
  /\ \A c, d \in Calls : callChatJID(c) = callChatJID(d) => c = d
  /\ \A c, d \in Outbound : Dialled(c) = Dialled(d) => c = d
  /\ \A c \in Outbound, d \in Calls : Dialled(c) # callChatJID(d)
BY CallAssumption DEF callChatJID, Dialled, Rows, Calls

-----------------------------------------------------------------------------
(* The invariant *)

\* Nothing has happened, so nothing is wrong.
LEMMA InitIInv == Init => IInv
<1> SUFFICES ASSUME Init PROVE IInv
  OBVIOUS
<1>1. TypeOK
  BY CallAssumption DEF Init, TypeOK, Results, Events, Never, Sides
<1>2. RowInv /\ FirstEventDecides
  BY DEF Init, RowInv, FirstEventDecides, Events
<1>3. LineInv
  BY Keys DEF Init, LineInv
<1>4. PlaceInv /\ RemovedIsFinal
  BY Keys DEF Init, PlaceInv, RemovedIsFinal, Calls
<1>5. EndingInv
  BY DEF Init, EndingInv
<1>6. QED
  BY <1>1, <1>2, <1>3, <1>4, <1>5 DEF IInv

\* The part of the invariant about rows holds as long as the rows are left alone.
LEMMA RowsStay == RowsOK /\ UNCHANGED tables => RowsOK'
BY DEF RowsOK, RowTypes, RowInv, FirstEventDecides, tables

\* What WhatsApp does to a call leaves the rows alone.
LEMMA LineStep == IInv /\ Line => IInv'
<1> SUFFICES ASSUME IInv, Line PROVE IInv'
  OBVIOUS
<1> USE DEF IInv, Line, tables
<1>1. RowsOK /\ RowsOK'
  BY RowsStay DEF TypeOK, RowsOK, RowTypes
<1>2. \A c \in Calls : UNCHANGED <<endedAt[callChatJID(c)]>>
  OBVIOUS
<1>3. TypeOK' /\ LineInv' /\ PlaceInv' /\ EndingInv' /\ RemovedIsFinal'
  <2>1. ASSUME NEW c \in Inbound, Ring(c)
        PROVE  TypeOK' /\ LineInv' /\ PlaceInv' /\ EndingInv' /\ RemovedIsFinal'
    <3> USE <2>1, CallAssumption DEF Ring, Send, Calls
    <3>1. TypeOK'  BY DEF TypeOK, Events
    <3>2. LineInv'  BY DEF TypeOK, LineInv
    <3>3. PlaceInv'  BY DEF TypeOK, PlaceInv
    <3>4. EndingInv' /\ RemovedIsFinal'  BY DEF EndingInv, RemovedIsFinal
    <3>5. QED  BY <3>1, <3>2, <3>3, <3>4
  <2>2. ASSUME NEW c \in Calls, Accept(c)
        PROVE  TypeOK' /\ LineInv' /\ PlaceInv' /\ EndingInv' /\ RemovedIsFinal'
    <3> USE <2>2 DEF Accept, Send, Calls
    <3>1. TypeOK'  BY DEF TypeOK, Events
    <3>2. LineInv'  BY DEF TypeOK, LineInv
    <3>3. PlaceInv'  BY DEF TypeOK, PlaceInv
    <3>4. EndingInv' /\ RemovedIsFinal'  BY DEF EndingInv, RemovedIsFinal
    <3>5. QED  BY <3>1, <3>2, <3>3, <3>4
  <2>3. ASSUME NEW c \in Calls, NEW es \in SUBSET Events, End(c, es, "remote")
        PROVE  TypeOK' /\ LineInv' /\ PlaceInv' /\ EndingInv' /\ RemovedIsFinal'
    <3> USE <2>3 DEF End, Send, Invoke, Sides
    <3>1. TypeOK'  BY DEF TypeOK, Events, Never
    <3>2. LineInv'  BY DEF TypeOK, LineInv, Never
    <3>3. PlaceInv'  BY DEF TypeOK, PlaceInv, Calls
    <3>4. EndingInv'  BY DEF TypeOK, EndingInv
    <3>5. RemovedIsFinal'  BY DEF TypeOK, RemovedIsFinal, PlaceInv, EndingInv
    <3>6. QED  BY <3>1, <3>2, <3>3, <3>4, <3>5
  <2>4. QED
    BY <2>1, <2>2, <2>3 DEF Reject, Terminate, Events
<1>4. QED
  BY <1>1, <1>3 DEF RowsOK

\* An event changes one row, and never one of a placed call.
LEMMA HandleEventStep ==
  ASSUME IInv, NEW c \in Calls, NEW e \in Events, HandleEvent(c, e)
  PROVE  IInv'
<1> DEFINE k == callChatJID(c)
<1> k \in Rows
  BY Keys
<1>a. RowsOK
  BY DEF IInv, TypeOK, RowsOK, RowTypes
<1>b. e = "terminate" => overAt[c] \in 0..MaxTime /\ overAt[c] # Never
  BY DEF IInv, TypeOK, LineInv, HandleEvent, Never
<1>c. \/ StoreCallOffer(k)
      \/ MarkCallAnswered(k)
      \/ MarkCallRejected(k)
      \/ e = "terminate" /\ MarkCallTerminated(k, overAt[c])
  BY DEF HandleEvent, Events
<1> HIDE DEF k
<1>1. RowsOK'
  BY <1>a, <1>b, <1>c, OfferKeepsRows, AnswerKeepsRows, RejectKeepsRows, EndKeepsRows
<1>2. /\ \A r \in Rows : r # k => result'[r] = result[r] /\ endedAt'[r] = endedAt[r]
      /\ endedAt'[k] \in {endedAt[k], overAt[c]}
  BY <1>a, <1>c DEF RowsOK, RowTypes, StoreCallOffer, MarkCallAnswered, MarkCallRejected,
                    MarkCallTerminated
<1>3. \A d \in Outbound : /\ result'[Dialled(d)] = result[Dialled(d)]
                           /\ endedAt'[Dialled(d)] = endedAt[Dialled(d)]
  BY <1>2, Keys DEF k
<1> USE DEF HandleEvent, bridge, network
<1>4. TypeOK'
  BY <1>1 DEF IInv, TypeOK, RowsOK, RowTypes, Events
<1>5. LineInv'
  BY <1>2, Keys DEF IInv, LineInv, k
<1>6. PlaceInv'
  BY <1>3 DEF IInv, PlaceInv
<1>7. EndingInv'
  BY <1>3 DEF IInv, EndingInv
<1>8. RemovedIsFinal'
  BY <1>3 DEF IInv, RemovedIsFinal
<1>9. QED
  BY <1>1, <1>4, <1>5, <1>6, <1>7, <1>8 DEF IInv, RowsOK

\* The handler that places a call, up to the registration of OnEnd.
LEMMA PlaceStep ==
  ASSUME IInv, NEW c \in Outbound,
         PlaceCall(c) \/ RegisterCall(c) \/ StorePlacedCall(c) \/ RegisterOnEnd(c)
  PROVE  IInv'
<1> USE DEF Step
<1>a. RowsOK /\ c \in Calls
  BY DEF IInv, TypeOK, RowsOK, RowTypes, Calls
<1>1. CASE PlaceCall(c)
  <2> USE <1>1 DEF PlaceCall
  <2>1. RowsOK'
    BY <1>a, RowsStay
  <2>2. TypeOK'
    BY DEF IInv, TypeOK, tables
  <2>3. LineInv'
    BY <1>a DEF IInv, TypeOK, LineInv, PlaceInv, tables
  <2>4. PlaceInv'
    BY DEF IInv, TypeOK, PlaceInv, Calls, tables
  <2>5. EndingInv' /\ RemovedIsFinal'
    BY DEF IInv, TypeOK, EndingInv, RemovedIsFinal, Calls, tables
  <2>6. QED
    BY <2>1, <2>2, <2>3, <2>4, <2>5 DEF IInv, RowsOK
<1>2. CASE RegisterCall(c)
  <2> USE <1>2 DEF RegisterCall
  <2>1. RowsOK'
    BY <1>a, RowsStay
  <2>2. TypeOK'
    BY DEF IInv, TypeOK, tables, network
  <2>3. LineInv'
    BY DEF IInv, LineInv, tables, network
  <2>4. PlaceInv'
    BY DEF IInv, TypeOK, PlaceInv, tables, network
  <2>5. EndingInv'
    BY <1>a, Keys DEF IInv, TypeOK, EndingInv, PlaceInv, RowInv, tables, network
  <2>6. RemovedIsFinal'
    BY DEF IInv, TypeOK, RemovedIsFinal, tables, network
  <2>7. QED
    BY <2>1, <2>2, <2>3, <2>4, <2>5, <2>6 DEF IInv, RowsOK
<1>3. CASE StorePlacedCall(c)
  <2> USE <1>3 DEF StorePlacedCall
  <2>0. Dialled(c) \in Rows
    BY Keys
  <2>1. RowsOK'
    BY <1>a, <2>0, OfferKeepsRows
  <2>2. TypeOK'
    BY <2>1 DEF IInv, TypeOK, RowsOK, RowTypes, network
  <2>3. LineInv'
    BY DEF IInv, LineInv, StoreCallOffer, network
  <2>4. PlaceInv'
    BY <2>0, Keys DEF IInv, TypeOK, PlaceInv, StoreCallOffer, network
  <2>5. EndingInv'
    BY DEF IInv, TypeOK, EndingInv, StoreCallOffer, network
  <2>6. RemovedIsFinal'
    BY <2>0, Keys DEF IInv, TypeOK, RemovedIsFinal, StoreCallOffer, Final, network
  <2>7. QED
    BY <2>1, <2>2, <2>3, <2>4, <2>5, <2>6 DEF IInv, RowsOK
<1>4. CASE RegisterOnEnd(c)
  <2> USE <1>4 DEF RegisterOnEnd, Sides
  <2>1. RowsOK'
    BY <1>a, RowsStay
  <2>2. TypeOK'
    <3>1. /\ ending' \in [Outbound -> [Sides -> {"no", "invoked", "removed", "done"}]]
          /\ place' \in [Outbound -> {"idle", "placed", "active", "stored", "done", "dead"}]
      BY DEF IInv, TypeOK
    <3>2. QED
      BY <3>1 DEF IInv, TypeOK, tables, network
  <2>3. LineInv'
    BY DEF IInv, LineInv, tables, network
  <2>4. PlaceInv'
    BY DEF IInv, TypeOK, PlaceInv, tables, network
  <2>5. EndingInv'
    BY DEF IInv, TypeOK, EndingInv, tables, network
  <2>6. RemovedIsFinal'
    BY DEF IInv, TypeOK, RemovedIsFinal, PlaceInv, tables, network
  <2>7. QED
    BY <2>1, <2>2, <2>3, <2>4, <2>5, <2>6 DEF IInv, RowsOK
<1>5. QED
  BY <1>1, <1>2, <1>3, <1>4

\* The callback up to its unlock, and after it.
LEMMA OnEndStep ==
  ASSUME IInv, NEW c \in Outbound, NEW s \in Sides, OnEndRemoves(c, s) \/ OnEndStores(c, s)
  PROVE  IInv'
<1>a. RowsOK /\ c \in Calls /\ Dialled(c) \in Rows
  BY Keys DEF IInv, TypeOK, RowsOK, RowTypes, Calls
<1>1. CASE OnEndRemoves(c, s)
  <2> USE <1>1 DEF OnEndRemoves
  <2>1. RowsOK'
    BY <1>a, RowsStay
  <2>2. TypeOK'
    BY DEF IInv, TypeOK, tables, network
  <2>3. LineInv' /\ PlaceInv'
    BY DEF IInv, LineInv, PlaceInv, EndingInv, tables, network
  <2>4. EndingInv'
    BY DEF IInv, TypeOK, EndingInv, tables, network
  <2>5. RemovedIsFinal'
    BY DEF IInv, TypeOK, RemovedIsFinal, tables, network
  <2>6. QED
    BY <2>1, <2>2, <2>3, <2>4, <2>5 DEF IInv, RowsOK
<1>2. CASE OnEndStores(c, s)
  <2> USE <1>2 DEF OnEndStores
  <2>1. RowsOK'
    BY <1>a, EndKeepsRows DEF IInv, TypeOK
  <2>2. TypeOK'
    BY <2>1 DEF IInv, TypeOK, RowsOK, RowTypes, network
  <2>3. LineInv'
    BY Keys DEF IInv, LineInv, MarkCallTerminated, network
  <2>4. PlaceInv'
    BY <1>a, Keys DEF IInv, TypeOK, PlaceInv, MarkCallTerminated, Results, network
  <2>5. EndingInv'
    BY <1>a, Keys DEF IInv, TypeOK, EndingInv, MarkCallTerminated, network
  <2>6. result[Dialled(c)] # "none" /\ result'[Dialled(c)] \in Final
    BY <1>a DEF IInv, TypeOK, PlaceInv, EndingInv, MarkCallTerminated, Results, Final
  <2>7. RemovedIsFinal'
    BY <1>a, <2>6, Keys DEF IInv, TypeOK, RemovedIsFinal, MarkCallTerminated, network
  <2>8. QED
    BY <2>1, <2>2, <2>3, <2>4, <2>5, <2>7 DEF IInv, RowsOK
<1>3. QED
  BY <1>1, <1>2

\* Hanging up ends the line, or finds that there is nothing to end.
LEMMA HangupStep ==
  ASSUME IInv, NEW h \in Hangups, HangupLooksUp(h) \/ HangupEnds(h)
  PROVE  IInv'
<1>a. RowsOK
  BY DEF IInv, TypeOK, RowsOK, RowTypes
<1>b. RowsOK'
  BY <1>a, RowsStay DEF HangupLooksUp, HangupEnds
<1>1. CASE HangupLooksUp(h)
  <2> USE <1>1 DEF HangupLooksUp, tables, network
  <2>1. TypeOK'
    BY DEF IInv, TypeOK
  <2>2. LineInv' /\ PlaceInv' /\ EndingInv' /\ RemovedIsFinal'
    BY DEF IInv, LineInv, PlaceInv, EndingInv, RemovedIsFinal
  <2>3. QED
    BY <1>b, <2>1, <2>2 DEF IInv, RowsOK
<1>2. CASE HangupEnds(h) /\ UNCHANGED <<network, ending>>
  <2> USE <1>2 DEF HangupEnds, tables, network
  <2>1. TypeOK'
    BY DEF IInv, TypeOK
  <2>2. LineInv' /\ PlaceInv' /\ EndingInv' /\ RemovedIsFinal'
    BY DEF IInv, LineInv, PlaceInv, EndingInv, RemovedIsFinal
  <2>3. QED
    BY <1>b, <2>1, <2>2 DEF IInv, RowsOK
<1>3. CASE HangupEnds(h) /\ End(hang[h], {"terminate"}, "local")
  <2> USE <1>3 DEF HangupEnds, End, Send, Invoke, Sides, tables, Calls
  <2>1. TypeOK'
    BY DEF IInv, TypeOK, Events, Never
  <2>2. LineInv'
    BY DEF IInv, TypeOK, LineInv, Never
  <2>3. PlaceInv'
    BY DEF IInv, TypeOK, PlaceInv
  <2>4. EndingInv'
    BY DEF IInv, TypeOK, EndingInv
  <2>5. RemovedIsFinal'
    BY DEF IInv, TypeOK, RemovedIsFinal, PlaceInv, EndingInv
  <2>6. QED
    BY <1>b, <2>1, <2>2, <2>3, <2>4, <2>5 DEF IInv, RowsOK
<1>4. QED
  BY <1>1, <1>2, <1>3 DEF HangupLooksUp, HangupEnds

\* The rest: a second report, the clock, a restart.
LEMMA OtherStep ==
  ASSUME IInv, Tick \/ Restart \/ UNCHANGED vars \/ \E c \in Outbound : ReportTwice(c)
  PROVE  IInv'
<1>a. RowsOK
  BY DEF IInv, TypeOK, RowsOK, RowTypes
<1>b. RowsOK'
  BY <1>a, RowsStay DEF Tick, Restart, ReportTwice, vars
<1> USE DEF tables, bridge, network
<1>1. ASSUME NEW c \in Outbound, ReportTwice(c) PROVE IInv'
  <2> USE <1>1 DEF ReportTwice
  <2>1. TypeOK'
    BY DEF IInv, TypeOK
  <2>2. LineInv' /\ PlaceInv'
    BY DEF IInv, LineInv, PlaceInv
  <2>3. EndingInv'
    BY DEF IInv, TypeOK, EndingInv
  <2>4. RemovedIsFinal'
    BY DEF IInv, TypeOK, RemovedIsFinal
  <2>5. QED
    BY <1>b, <2>1, <2>2, <2>3, <2>4 DEF IInv, RowsOK
<1>2. CASE Tick
  <2>1. TypeOK'
    BY <1>2, CallAssumption DEF IInv, TypeOK, Tick
  <2>2. LineInv' /\ PlaceInv' /\ EndingInv' /\ RemovedIsFinal'
    BY <1>2 DEF IInv, LineInv, PlaceInv, EndingInv, RemovedIsFinal, Tick
  <2>3. QED
    BY <1>b, <2>1, <2>2 DEF IInv, RowsOK
<1>3. CASE Restart
  <2> USE <1>3 DEF Restart
  <2>1. TypeOK'
    BY CallAssumption DEF IInv, TypeOK
  <2>2. LineInv'
    BY DEF IInv, LineInv
  <2>3. PlaceInv'
    BY DEF IInv, TypeOK, PlaceInv
  <2>4. EndingInv' /\ RemovedIsFinal'
    BY DEF IInv, TypeOK, EndingInv, RemovedIsFinal
  <2>5. QED
    BY <1>b, <2>1, <2>2, <2>3, <2>4 DEF IInv, RowsOK
<1>4. CASE UNCHANGED vars
  <2> USE <1>4 DEF vars
  <2>1. TypeOK'
    BY DEF IInv, TypeOK
  <2>2. LineInv' /\ PlaceInv' /\ EndingInv' /\ RemovedIsFinal'
    BY DEF IInv, LineInv, PlaceInv, EndingInv, RemovedIsFinal
  <2>3. QED
    BY <1>b, <2>1, <2>2 DEF IInv, RowsOK
<1>5. QED
  BY <1>1, <1>2, <1>3, <1>4

\* The invariant holds in every reachable state.
THEOREM Invariance == Spec => []IInv
<1>1. Init => IInv
  BY InitIInv
<1>2. IInv /\ [Next]_vars => IInv'
  BY LineStep, HandleEventStep, PlaceStep, OnEndStep, HangupStep, OtherStep DEF Next, Handler
<1>3. QED
  BY <1>1, <1>2, PTL DEF Spec

\* The types hold, and however late, often and in whatever order the events of
\* a call are handled, the first after the offer decides its row.
THEOREM FirstEventCounts == Spec => [](TypeOK /\ FirstEventDecides)
<1>1. IInv => TypeOK /\ FirstEventDecides
  BY DEF IInv
<1>2. QED
  BY <1>1, Invariance, PTL

\* A placed call that left activeCalls is final in the log, but for the moment
\* between the callback's unlock and its statement.
THEOREM RemovedCallsAreFinal == Spec => []RemovedIsFinal
<1>1. IInv => RemovedIsFinal
  BY DEF IInv
<1>2. QED
  BY <1>1, Invariance, PTL

-----------------------------------------------------------------------------
(* The statements implement CallLifecycle *)

\* A second end of a row brings the time the first one brought, or none did.
LEMMA EndMaps ==
  ASSUME RowsOK, NEW k \in Rows, NEW t \in 0..MaxTime, endedAt[k] \in {Never, t},
         MarkCallTerminated(k, t)
  PROVE  Lifecycle!Ended(k) \/ UNCHANGED <<result, endedAt>>
<1> USE DEF RowsOK, RowTypes, RowInv, FirstEventDecides, MarkCallTerminated, Results, Events,
            Lifecycle!Ended, Lifecycle!Become, Lifecycle!Never, Never
<1>1. CASE endedAt[k] = Never /\ result[k] # "none"
  <2>1. endedAt' = [endedAt EXCEPT ![k] = t]
    BY <1>1
  <2>2. result[k] \in {"in_progress", "answered", "rejected"}
    BY <1>1
  <2>3. QED
    BY <1>1, <2>1, <2>2
<1>2. CASE endedAt[k] = t \/ result[k] = "none"
  <2>1. result[k] \in {"none", "missed", "ended", "rejected"}
    BY <1>2
  <2>2. QED
    BY <1>2, <2>1
<1>3. QED
  BY <1>1, <1>2

\* The other three add one arrow of the life of a row, or change nothing.
LEMMA StatementsMap ==
  ASSUME RowsOK, NEW k \in Rows,
         StoreCallOffer(k) \/ MarkCallAnswered(k) \/ MarkCallRejected(k)
  PROVE  \/ Lifecycle!Offered(k) \/ Lifecycle!Answered(k) \/ Lifecycle!Declined(k)
         \/ UNCHANGED <<result, endedAt>>
BY DEF RowsOK, RowTypes, StoreCallOffer, MarkCallAnswered, MarkCallRejected,
       Lifecycle!Offered, Lifecycle!Answered, Lifecycle!Declined, Lifecycle!Become

\* Every step is a step of the documented life of a row, or leaves the table alone.
LEMMA LifeStep == IInv /\ [Next]_vars => [Lifecycle!LifeNext]_(Lifecycle!lifeVars)
<1> SUFFICES ASSUME IInv, [Next]_vars
             PROVE  \/ \E k \in Rows : \/ Lifecycle!Offered(k) \/ Lifecycle!Answered(k)
                                      \/ Lifecycle!Declined(k) \/ Lifecycle!Ended(k)
                    \/ UNCHANGED <<result, endedAt>>
  BY DEF Lifecycle!LifeNext, Lifecycle!lifeVars
<1>a. RowsOK
  BY DEF IInv, TypeOK, RowsOK, RowTypes
<1>1. ASSUME NEW c \in Calls, NEW e \in Events, HandleEvent(c, e)
      PROVE  \/ \E k \in Rows : \/ Lifecycle!Offered(k) \/ Lifecycle!Answered(k)
                               \/ Lifecycle!Declined(k) \/ Lifecycle!Ended(k)
             \/ UNCHANGED <<result, endedAt>>
  <2>1. callChatJID(c) \in Rows
    BY Keys
  <2>2. CASE e = "terminate"
    <3>1. /\ overAt[c] \in 0..MaxTime
          /\ endedAt[callChatJID(c)] \in {Never, overAt[c]}
      BY <1>1, <2>2 DEF IInv, TypeOK, LineInv, HandleEvent, Never
    <3>2. MarkCallTerminated(callChatJID(c), overAt[c])
      BY <1>1, <2>2 DEF HandleEvent
    <3>3. QED
      BY <1>a, <2>1, <3>1, <3>2, EndMaps
  <2>3. CASE e # "terminate"
    BY <1>1, <1>a, <2>1, <2>3, StatementsMap DEF HandleEvent, Events
  <2>4. QED
    BY <2>2, <2>3
<1>2. ASSUME NEW c \in Outbound, StorePlacedCall(c)
      PROVE  Lifecycle!Offered(Dialled(c)) \/ Lifecycle!Answered(Dialled(c))
               \/ Lifecycle!Declined(Dialled(c)) \/ UNCHANGED <<result, endedAt>>
  BY <1>2, <1>a, Keys, StatementsMap DEF StorePlacedCall
<1>3. ASSUME NEW c \in Outbound, NEW s \in Sides, OnEndStores(c, s)
      PROVE  Lifecycle!Ended(Dialled(c)) \/ UNCHANGED <<result, endedAt>>
  <2>1. endedAt[Dialled(c)] = Never /\ now \in 0..MaxTime
    BY <1>3 DEF IInv, TypeOK, EndingInv, OnEndStores
  <2>2. QED
    BY <1>3, <1>a, <2>1, Keys, EndMaps DEF OnEndStores
<1>4. CASE \/ Line \/ Tick \/ Restart \/ UNCHANGED vars
           \/ \E c \in Outbound : \/ PlaceCall(c) \/ RegisterCall(c) \/ RegisterOnEnd(c)
                                 \/ ReportTwice(c)
                                 \/ \E s \in Sides : OnEndRemoves(c, s)
           \/ \E h \in Hangups : HangupLooksUp(h) \/ HangupEnds(h)
  BY <1>4 DEF Line, Tick, Restart, PlaceCall, RegisterCall, RegisterOnEnd, ReportTwice,
              OnEndRemoves, HangupLooksUp, HangupEnds, vars, tables
<1>5. QED
  BY <1>1, <1>2, <1>3, <1>4, Keys DEF Next, Handler

\* The call log implements the state machine documented above StoreCallOffer.
THEOREM ImplementsLifecycle == Spec => KeepsLifecycle
<1>1. Init => Lifecycle!LifeInit
  BY DEF Init, Lifecycle!LifeInit, Lifecycle!Never, Never
<1>2. IInv /\ [Next]_vars => [Lifecycle!LifeNext]_(Lifecycle!lifeVars)
  BY LifeStep
<1>3. QED
  BY <1>1, <1>2, Invariance, PTL DEF Spec, KeepsLifecycle, Lifecycle!LifeSpec
=============================================================================
