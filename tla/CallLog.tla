------------------------------ MODULE CallLog ------------------------------
(***************************************************************************)
(* The call log of the bridge: the table calls, written by the handler of  *)
(* WhatsApp's call events (main.go) and by the endpoints that place and    *)
(* hang up calls (call.go), and activeCalls, the map of placed calls.      *)
(*                                                                         *)
(* An event WhatsApp has sent may be delivered late, again, or never.  A   *)
(* placed call runs through its HTTP handler statement by statement while  *)
(* the other side answers, declines or hangs up and while other requests   *)
(* hang up too.  A restart loses the map and every callback.               *)
(*                                                                         *)
(* Left out: call type, names, the duration (ended_at minus the offer's    *)
(* time) and errors of SQLite.                                             *)
(***************************************************************************)
EXTENDS Integers

CONSTANTS
  Inbound,     \* calls other people make to the account
  Outbound,    \* calls placed through POST /api/call
  Hangups,     \* requests to POST /api/call/hangup
  MaxTime,     \* bound of the clock
  MaxCrashes   \* bound of restarts

ASSUME CallAssumption ==
  /\ Inbound \cap Outbound = {}
  /\ {"idle", "done"} \cap Outbound = {}
  /\ MaxTime \in Nat /\ MaxCrashes \in Nat

Calls   == Inbound \union Outbound
Rows    == Calls \X {"peer", "self"}
Events  == {"offer", "accept", "reject", "terminate"}
Results == {"none", "in_progress", "answered", "rejected", "missed", "ended"}
Final   == {"missed", "ended", "rejected"}
Sides   == {"local", "remote"}
Never   == -1

VARIABLES
  result,    \* column result, "none" where there is no row
  endedAt,   \* column ended_at
  active,    \* keys of activeCalls
  place,     \* control state of the handler that placed a call
  ending,    \* the OnEnd callback, invoked for either side's end
  hang,      \* hang-up requests: "idle", the call found, "done"
  line,      \* the call itself, at WhatsApp
  overAt,    \* when it ended there
  sent,      \* the events WhatsApp has sent about it
  now, crashes,
  first,     \* history: the first event a row has met after its offer
  met,       \* history: all of them
  delivered  \* history: the events handled about a call that has its row

tables  == <<result, endedAt, first, met>>
bridge  == <<active, place, ending, hang>>
network == <<line, overAt, sent>>
vars    == <<tables, bridge, network, now, crashes, delivered>>

TypeOK ==
  /\ result \in [Rows -> Results]
  /\ endedAt \in [Rows -> {Never} \union 0..MaxTime]
  /\ first \in [Rows -> Events \union {"none"}]
  /\ met \in [Rows -> SUBSET Events]
  /\ active \subseteq Outbound
  /\ place \in [Outbound -> {"idle", "placed", "active", "stored", "done", "dead"}]
  /\ ending \in [Outbound -> [Sides -> {"no", "invoked", "removed", "done"}]]
  /\ hang \in [Hangups -> {"idle", "done"} \union Outbound]
  /\ line \in [Calls -> {"none", "ringing", "talking", "over"}]
  /\ overAt \in [Calls -> {Never} \union 0..MaxTime]
  /\ sent \in [Calls -> SUBSET Events]
  /\ delivered \in [Calls -> SUBSET Events]
  /\ now \in 0..MaxTime
  /\ crashes \in 0..MaxCrashes

Init ==
  /\ result = [k \in Rows |-> "none"]
  /\ endedAt = [k \in Rows |-> Never]
  /\ first = [k \in Rows |-> "none"]
  /\ met = [k \in Rows |-> {}]
  /\ active = {}
  /\ place = [c \in Outbound |-> "idle"]
  /\ ending = [c \in Outbound |-> [s \in Sides |-> "no"]]
  /\ hang = [h \in Hangups |-> "idle"]
  /\ line = [c \in Calls |-> "none"]
  /\ overAt = [c \in Calls |-> Never]
  /\ sent = [c \in Calls |-> {}]
  /\ delivered = [c \in Calls |-> {}]
  /\ now = 0
  /\ crashes = 0

-----------------------------------------------------------------------------
(* The four statements on the table calls. *)

Meet(k, e) ==
  IF result[k] = "none"
    THEN UNCHANGED <<first, met>>
    ELSE /\ first' = [first EXCEPT ![k] = IF @ = "none" THEN e ELSE @]
         /\ met' = [met EXCEPT ![k] = @ \union {e}]

\* Mutant: INSERT OR REPLACE.
StoreCallOfferAgain(k) ==
  /\ result' = [result EXCEPT ![k] = "in_progress"]
  /\ UNCHANGED <<endedAt, first, met>>

\* INSERT OR IGNORE
StoreCallOffer(k) ==
  /\ result' = [result EXCEPT ![k] = IF @ = "none" THEN "in_progress" ELSE @]
  /\ UNCHANGED <<endedAt, first, met>>

MarkCallAnswered(k) ==
  /\ result' = [result EXCEPT ![k] = IF @ = "in_progress" THEN "answered" ELSE @]
  /\ Meet(k, "accept")
  /\ UNCHANGED endedAt

MarkCallRejected(k) ==
  /\ result' = [result EXCEPT ![k] = IF @ = "in_progress" THEN "rejected" ELSE @]
  /\ Meet(k, "reject")
  /\ UNCHANGED endedAt

MarkCallTerminated(k, t) ==
  /\ result' = [result EXCEPT ![k] = CASE @ = "in_progress" -> "missed"
                                       [] @ = "answered" -> "ended"
                                       [] OTHER -> @]
  /\ endedAt' = [endedAt EXCEPT ![k] = IF result[k] = "none" THEN @ ELSE t]
  /\ Meet(k, "terminate")

-----------------------------------------------------------------------------
(* The other side of the line. *)

Send(c, es) == sent' = [sent EXCEPT ![c] = @ \union es]

\* The end of a call invokes OnEnd if the handler has come that far.
Invoke(c, s) ==
  ending' = IF c \in Outbound /\ place[c] = "done"
              THEN [ending EXCEPT ![c][s] = "invoked"] ELSE ending

Ring(c) ==
  /\ line[c] = "none"
  /\ line' = [line EXCEPT ![c] = "ringing"]
  /\ Send(c, {"offer"})
  /\ UNCHANGED <<overAt, ending>>

Accept(c) ==
  /\ line[c] = "ringing"
  /\ line' = [line EXCEPT ![c] = "talking"]
  /\ Send(c, {"accept"})
  /\ UNCHANGED <<overAt, ending>>

End(c, es, side) ==
  /\ line[c] \in {"ringing", "talking"}
  /\ line' = [line EXCEPT ![c] = "over"]
  /\ overAt' = [overAt EXCEPT ![c] = now]
  /\ Send(c, es)
  /\ Invoke(c, side)

Reject(c) == line[c] = "ringing" /\ End(c, {"reject", "terminate"}, "remote")

Terminate(c) == End(c, {"terminate"}, "remote")

Line ==
  /\ \/ \E c \in Inbound : Ring(c)
     \/ \E c \in Calls : Accept(c) \/ Reject(c) \/ Terminate(c)
  /\ UNCHANGED <<tables, active, place, hang, now, crashes, delivered>>

\* The library may report an end twice, once for each side.
ReportTwice(c) ==
  /\ place[c] = "done"
  /\ \E s, o \in Sides :
       /\ ending[c][s] = "no" /\ ending[c][o] # "no"
       /\ ending' = [ending EXCEPT ![c][s] = "invoked"]
  /\ UNCHANGED <<tables, active, place, hang, network, now, crashes, delivered>>

-----------------------------------------------------------------------------
(* The event handler.  Every event of a call carries the account that      *)
(* created it: the peer of an incoming call, ourselves for a placed one.   *)

callChatJID(c) == <<c, IF c \in Inbound THEN "peer" ELSE "self">>

HandleEvent(c, e) ==
  /\ e \in sent[c]
  /\ delivered' = IF result[<<c, "peer">>] = "none" THEN delivered
                   ELSE [delivered EXCEPT ![c] = @ \union {e}]
  /\ CASE e = "offer"     -> StoreCallOffer(callChatJID(c))
       [] e = "accept"    -> MarkCallAnswered(callChatJID(c))
       [] e = "reject"    -> MarkCallRejected(callChatJID(c))
       [] e = "terminate" -> MarkCallTerminated(callChatJID(c), overAt[c])
  /\ UNCHANGED <<bridge, network, now, crashes>>

-----------------------------------------------------------------------------
(* POST /api/call.  Rows of placed calls carry the number that was dialled. *)

Dialled(c) == <<c, "peer">>

Step(c, from, to) ==
  /\ place[c] = from
  /\ place' = [place EXCEPT ![c] = to]

PlaceCall(c) ==
  /\ Step(c, "idle", "placed")
  /\ line' = [line EXCEPT ![c] = "ringing"]
  /\ UNCHANGED <<tables, active, ending, hang, overAt, sent, now, crashes, delivered>>

\* Mutant: the entry is stored under the recipient, where nobody looks it up.
RegisterRecipient(c) ==
  /\ Step(c, "placed", "active")
  /\ UNCHANGED <<tables, active, ending, hang, network, now, crashes, delivered>>

RegisterCall(c) ==
  /\ Step(c, "placed", "active")
  /\ active' = active \union {c}
  /\ UNCHANGED <<tables, ending, hang, network, now, crashes, delivered>>

StorePlacedCall(c) ==
  /\ Step(c, "active", "stored")
  /\ StoreCallOffer(Dialled(c))
  /\ UNCHANGED <<active, ending, hang, network, now, crashes, delivered>>

\* A call that is over by now may or may not invoke the new callback.
RegisterOnEnd(c) ==
  /\ Step(c, "stored", "done")
  /\ \/ UNCHANGED ending
     \/ line[c] = "over" /\ ending' = [ending EXCEPT ![c]["remote"] = "invoked"]
  /\ UNCHANGED <<tables, active, hang, network, now, crashes, delivered>>

\* Mutant: OnEnd without the test of "exists".
OnEndRemovesAgain(c, s) ==
  /\ ending[c][s] = "invoked"
  /\ ending' = [ending EXCEPT ![c][s] = "removed"]
  /\ active' = active \ {c}
  /\ UNCHANGED <<tables, place, hang, network, now, crashes, delivered>>

\* The callback, up to the unlock and after it.
OnEndRemoves(c, s) ==
  /\ ending[c][s] = "invoked"
  /\ ending' = [ending EXCEPT ![c][s] = IF c \in active THEN "removed" ELSE "done"]
  /\ active' = active \ {c}
  /\ UNCHANGED <<tables, place, hang, network, now, crashes, delivered>>

OnEndStores(c, s) ==
  /\ ending[c][s] = "removed"
  /\ ending' = [ending EXCEPT ![c][s] = "done"]
  /\ MarkCallTerminated(Dialled(c), now)
  /\ UNCHANGED <<active, place, hang, network, now, crashes, delivered>>

-----------------------------------------------------------------------------
(* POST /api/call/hangup: look the call up, unlock, hang up. *)

HangupLooksUp(h) ==
  /\ hang[h] = "idle"
  /\ \E c \in Outbound : hang' = [hang EXCEPT ![h] = IF c \in active THEN c ELSE "done"]
  /\ UNCHANGED <<tables, active, place, ending, network, now, crashes, delivered>>

\* Mutant: the endpoint removes the entry itself.
HangupRemoves(h) ==
  /\ hang[h] \in Outbound
  /\ hang' = [hang EXCEPT ![h] = "done"]
  /\ active' = active \ {hang[h]}
  /\ \/ End(hang[h], {"terminate"}, "local")
     \/ UNCHANGED <<network, ending>>
  /\ UNCHANGED <<tables, place, now, crashes, delivered>>

HangupEnds(h) ==
  /\ hang[h] \in Outbound
  /\ hang' = [hang EXCEPT ![h] = "done"]
  /\ \/ End(hang[h], {"terminate"}, "local")
     \/ UNCHANGED <<network, ending>>
  /\ UNCHANGED <<tables, active, place, now, crashes, delivered>>

-----------------------------------------------------------------------------
Tick ==
  /\ now < MaxTime
  /\ now' = now + 1
  /\ UNCHANGED <<tables, bridge, network, crashes, delivered>>

\* The rows stay; the map, the handlers and their callbacks are gone.
Restart ==
  /\ crashes < MaxCrashes
  /\ crashes' = crashes + 1
  /\ active' = {}
  /\ place' = [c \in Outbound |-> IF place[c] = "idle" THEN "idle" ELSE "dead"]
  /\ ending' = [c \in Outbound |-> [s \in Sides |-> "no"]]
  /\ hang' = [h \in Hangups |-> IF hang[h] = "idle" THEN "idle" ELSE "done"]
  /\ UNCHANGED <<tables, network, now, delivered>>

Handler(c) ==
  \/ RegisterCall(c) \/ StorePlacedCall(c) \/ RegisterOnEnd(c)
  \/ \E s \in Sides : OnEndRemoves(c, s) \/ OnEndStores(c, s)

Next ==
  \/ Line \/ Tick \/ Restart
  \/ \E c \in Calls, e \in Events : HandleEvent(c, e)
  \/ \E c \in Outbound : PlaceCall(c) \/ Handler(c) \/ ReportTwice(c)
  \/ \E h \in Hangups : HangupLooksUp(h) \/ HangupEnds(h)

Spec == Init /\ [][Next]_vars

\* A request's goroutine and the library's callbacks keep running.
Fairness ==
  /\ \A c \in Outbound : WF_vars(Handler(c))
  /\ \A h \in Hangups : WF_vars(HangupEnds(h))

FairSpec == Spec /\ Fairness

-----------------------------------------------------------------------------
(* Properties *)

\* However late, often or in whatever order the events of a call come, its row
\* says what the first event after the offer decided: accept, reject or the end
\* of an unanswered call (state machine above StoreCallOffer, main.go 902-909).
FirstEventDecides ==
  \A k \in Rows :
    LET over == "terminate" \in met[k]
    IN  /\ endedAt[k] # Never <=> over
        /\ result[k] \in {"none", "in_progress"} <=> first[k] = "none"
        /\ first[k] = "accept" => result[k] = IF over THEN "ended" ELSE "answered"
        /\ first[k] = "reject" => result[k] = "rejected"
        /\ first[k] = "terminate" => result[k] = "missed"

\* A placed call that left activeCalls is final in the log, except while the
\* callback that removed it has not written yet (OnEnd in call.go).
RemovedIsFinal ==
  \A c \in Outbound :
    place[c] = "done" /\ c \notin active =>
      \/ result[Dialled(c)] \in Final
      \/ \E s \in Sides : ending[c][s] = "removed"

\* The statements implement the documented life of a row: no transition is
\* made twice and the end of a call is written once, whoever reports it.
Lifecycle == INSTANCE CallLifecycle
KeepsLifecycle == Lifecycle!LifeSpec

\* Once the end of a placed call is reported to the bridge its row becomes
\* final, unless the bridge restarts (OnEnd beside the hang-up endpoint).
ReportedEndsSettle ==
  \A c \in Outbound :
    (\E s \in Sides : ending[c][s] = "invoked")
      ~> (result[Dialled(c)] \in Final \/ place[c] = "dead")

\* The comment at main.go 902-909: "Accept -> result = answered", and the end
\* of an answered call is "ended".  For a placed call the accept looks for a
\* row under our own JID, and an answered call is recorded as missed.
AnsweredIsNotMissed ==
  [][\A c \in Calls :
       "accept" \in delivered[c] /\ result[<<c, "peer">>] # "missed"
         => result'[<<c, "peer">>] # "missed"]_vars
=============================================================================
