------------------------------ MODULE Approval ------------------------------
(***************************************************************************)
(* The approval pipeline of the agent service: the pending_actions table   *)
(* of agent-service/app/db.py, the decide handler of app/agent.py and the  *)
(* HTTP call to the Go bridge with its one retry (app/bridge.py).          *)
(*                                                                         *)
(* One asyncio event loop runs every handler, so a handler runs without    *)
(* interference from one await to the next; `loop' is the handler that     *)
(* holds it.  A handler commits several SQLite transactions in a row, and  *)
(* the process may die between two of them: each commit is a step.  The    *)
(* wall clock moves at any moment, also between two time.time() calls of   *)
(* one handler.                                                            *)
(*                                                                         *)
(* Left out: the argument checks of _create_mutating_action (a proposal    *)
(* here is one that passed them), the memory rows, the texts.              *)
(***************************************************************************)
EXTENDS Naturals, FiniteSets

CONSTANTS
  Actions,      \* ids create_action may hand out (uuid4, never reused)
  Requests,     \* POST /approve/{id} requests; each is served once
  Tools,        \* names of the mutating tools
  CallTools,    \* those whose bridge client turns a 404 into success
  TTL,          \* pending_action_ttl_seconds, in clock ticks
  MaxTime,      \* bound: the clock stops here
  MaxCrashes,   \* bound: crashes of the agent service
  Free          \* the event loop is idle

ASSUME ToolsAssumption == CallTools \subseteq Tools
ASSUME BoundsAssumption == TTL \in Nat /\ MaxTime \in Nat /\ MaxCrashes \in Nat
ASSUME NamesAssumption ==
  Actions \cap Requests = {} /\ Free \notin Actions /\ Free \notin Requests

VARIABLES
  \* the table pending_actions and the audit log: these survive a crash
  status, tool, expiresAt, decidedAt, audit,
  \* the decide handlers and the event loop
  loop, pc, target, approve, won, attempt, ok, code,
  \* wire[r][k]: the k-th HTTP request made on behalf of r, seen at the bridge
  wire,
  now, crashes

rows == <<status, tool, expiresAt, decidedAt>>
handlers == <<pc, target, approve, won, attempt, ok, code>>
vars == <<rows, audit, loop, handlers, wire, now, crashes>>

Status == {"none", "pending", "approved", "rejected", "expired",
           "executed", "failed"}
Event == {"action_created", "action_approved", "action_rejected",
          "action_executed", "action_failed"}
\* new: not sent yet.  checked, decided, completed: holds the loop.
\* calling: awaits the bridge.  returned: has its answer, waits for the loop.
\* done: answered the client.  dead: the process died under it.
Control == {"new", "checked", "decided", "calling", "returned", "completed",
            "done", "dead"}
\* sent: on its way.  done: performed and answered 2xx.  refused: answered
\* with an error, nothing performed.  unsupported: answered 404.  lost: never
\* performed and never answered.
Wire == {"none", "sent", "done", "refused", "unsupported", "lost"}
Codes == {0, 200, 404, 409, 410, 500, 502}
Attempts == {1, 2}

TypeOK ==
  /\ status \in [Actions -> Status]
  /\ tool \in [Actions -> Tools]
  /\ expiresAt \in [Actions -> Nat]
  /\ decidedAt \in [Actions -> Nat]
  /\ audit \in [Actions -> SUBSET Event]
  /\ loop \in {Free} \union Actions \union Requests
  /\ pc \in [Requests -> Control]
  /\ target \in [Requests -> Actions]
  /\ approve \in [Requests -> BOOLEAN]
  /\ won \in [Requests -> BOOLEAN]
  /\ attempt \in [Requests -> {0} \union Attempts]
  /\ ok \in [Requests -> BOOLEAN]
  /\ code \in [Requests -> Codes]
  /\ wire \in [Requests -> [Attempts -> Wire]]
  /\ now \in Nat
  /\ crashes \in Nat

\* What request r asks for is fixed from the start and read when it arrives.
Init ==
  /\ status = [a \in Actions |-> "none"]
  /\ tool \in [Actions -> Tools]
  /\ expiresAt = [a \in Actions |-> 0]
  /\ decidedAt = [a \in Actions |-> 0]
  /\ audit = [a \in Actions |-> {}]
  /\ loop = Free
  /\ pc = [r \in Requests |-> "new"]
  /\ target \in [Requests -> Actions]
  /\ approve \in [Requests -> BOOLEAN]
  /\ won = [r \in Requests |-> FALSE]
  /\ attempt = [r \in Requests |-> 0]
  /\ ok = [r \in Requests |-> FALSE]
  /\ code = [r \in Requests |-> 0]
  /\ wire = [r \in Requests |-> [k \in Attempts |-> "none"]]
  /\ now = 0
  /\ crashes = 0

-----------------------------------------------------------------------------
(* The action store *)

\* Mutant: the WHERE clause lost its status = 'pending'.
ExpireEveryOverdueRow ==
  status' = [a \in Actions |->
               IF status[a] # "none" /\ expiresAt[a] <= now THEN "expired" ELSE status[a]]

\* expire_stale: every overdue pending row becomes expired; nothing is audited.
ExpireStale ==
  status' = [a \in Actions |->
               IF status[a] = "pending" /\ expiresAt[a] <= now
               THEN "expired" ELSE status[a]]

Audit(a, event) == audit' = [audit EXCEPT ![a] = @ \union {event}]

Answer(r, c) ==
  /\ pc' = [pc EXCEPT ![r] = "done"]
  /\ code' = [code EXCEPT ![r] = c]

\* A proposal that passed its checks: expire_stale, then the new row, then its
\* audit entry, all before the next await.
BeginProposal(a) ==
  /\ loop = Free /\ status[a] = "none"
  /\ ExpireStale
  /\ loop' = a
  /\ UNCHANGED <<tool, expiresAt, decidedAt, audit, handlers, wire, now, crashes>>

CreateAction(a) ==
  /\ loop = a /\ status[a] = "none"
  /\ status' = [status EXCEPT ![a] = "pending"]
  /\ expiresAt' = [expiresAt EXCEPT ![a] = now + TTL]
  /\ UNCHANGED <<tool, decidedAt, audit, loop, handlers, wire, now, crashes>>

AuditCreated(a) ==
  /\ loop = a /\ status[a] = "pending"
  /\ Audit(a, "action_created")
  /\ loop' = Free
  /\ UNCHANGED <<rows, handlers, wire, now, crashes>>

\* GET /actions/{id} expires before it reads.
GetAction ==
  /\ loop = Free
  /\ ExpireStale
  /\ UNCHANGED <<tool, expiresAt, decidedAt, audit, loop, handlers, wire, now, crashes>>

-----------------------------------------------------------------------------
(* The decide handler *)

UnknownAction(r) ==
  /\ loop = Free /\ pc[r] = "new" /\ status[target[r]] = "none"
  /\ Answer(r, 404)
  /\ UNCHANGED <<rows, audit, loop, target, approve, won, attempt, ok, wire, now, crashes>>

BeginDecide(r) ==
  /\ loop = Free /\ pc[r] = "new" /\ status[target[r]] # "none"
  /\ ExpireStale
  /\ loop' = r
  /\ pc' = [pc EXCEPT ![r] = "checked"]
  /\ UNCHANGED <<tool, expiresAt, decidedAt, audit, target, approve, won, attempt, ok, code,
                 wire, now, crashes>>

\* Mutant: the UPDATE lost its AND status = 'pending'.
DecideAnyRow(r) ==
  /\ loop = r /\ pc[r] = "checked"
  /\ status' = [status EXCEPT ![target[r]] =
                  IF approve[r] THEN "approved" ELSE "rejected"]
  /\ decidedAt' = [decidedAt EXCEPT ![target[r]] = now]
  /\ won' = [won EXCEPT ![r] = TRUE]
  /\ pc' = [pc EXCEPT ![r] = "decided"]
  /\ UNCHANGED <<tool, expiresAt, audit, loop, target, approve, attempt, ok, code,
                 wire, now, crashes>>

\* UPDATE ... WHERE status = 'pending' changed one row.
DecideAction(r) ==
  /\ loop = r /\ pc[r] = "checked" /\ status[target[r]] = "pending"
  /\ status' = [status EXCEPT ![target[r]] =
                  IF approve[r] THEN "approved" ELSE "rejected"]
  /\ decidedAt' = [decidedAt EXCEPT ![target[r]] = now]
  /\ won' = [won EXCEPT ![r] = TRUE]
  /\ pc' = [pc EXCEPT ![r] = "decided"]
  /\ UNCHANGED <<tool, expiresAt, audit, loop, target, approve, attempt, ok, code,
                 wire, now, crashes>>

\* Mutant: the loser looks again until the row is pending.
LoseDecisionAndLook(r) ==
  /\ loop = r /\ pc[r] = "checked" /\ status[target[r]] # "pending"
  /\ UNCHANGED vars

\* It changed none: somebody decided first, or the row expired.
LoseDecision(r) ==
  /\ loop = r /\ pc[r] = "checked" /\ status[target[r]] # "pending"
  /\ Answer(r, IF status[target[r]] = "expired" THEN 410 ELSE 409)
  /\ loop' = Free
  /\ UNCHANGED <<rows, audit, target, approve, won, attempt, ok, wire, now, crashes>>

AuditRejected(r) ==
  /\ loop = r /\ pc[r] = "decided" /\ ~approve[r]
  /\ Audit(target[r], "action_rejected")
  /\ Answer(r, 200)
  /\ loop' = Free
  /\ UNCHANGED <<rows, target, approve, won, attempt, ok, wire, now, crashes>>

\* Mutant: the bridge is called first, the approval is not on record yet.
CallBeforeAudit(r) ==
  /\ loop = r /\ pc[r] = "decided" /\ approve[r]
  /\ pc' = [pc EXCEPT ![r] = "calling"]
  /\ attempt' = [attempt EXCEPT ![r] = 1]
  /\ wire' = [wire EXCEPT ![r][1] = "sent"]
  /\ loop' = Free
  /\ UNCHANGED <<rows, audit, target, approve, won, ok, code, now, crashes>>

\* The approval is audited, then the handler awaits its first HTTP request.
AuditApproved(r) ==
  /\ loop = r /\ pc[r] = "decided" /\ approve[r]
  /\ Audit(target[r], "action_approved")
  /\ pc' = [pc EXCEPT ![r] = "calling"]
  /\ attempt' = [attempt EXCEPT ![r] = 1]
  /\ wire' = [wire EXCEPT ![r][1] = "sent"]
  /\ loop' = Free
  /\ UNCHANGED <<rows, target, approve, won, ok, code, now, crashes>>

-----------------------------------------------------------------------------
(* The HTTP call to the bridge: BridgeClient._send_with_retry *)

\* The bridge works on a request it has, also when the caller stopped waiting.
BridgeServes(r, k) ==
  /\ wire[r][k] = "sent"
  /\ \E w \in {"done", "refused", "lost"} \union
              (IF tool[target[r]] \in CallTools THEN {"unsupported"} ELSE {}) :
        wire' = [wire EXCEPT ![r][k] = w]
  /\ UNCHANGED <<rows, audit, loop, handlers, now, crashes>>

\* An HTTP answer came.  A 404 is a simulated success for the call tools.
CallAnswered(r) ==
  /\ pc[r] = "calling"
  /\ wire[r][attempt[r]] \in {"done", "refused", "unsupported"}
  /\ ok' = [ok EXCEPT ![r] = wire[r][attempt[r]] \in {"done", "unsupported"}]
  /\ pc' = [pc EXCEPT ![r] = "returned"]
  /\ UNCHANGED <<rows, audit, loop, target, approve, won, attempt, code, wire, now, crashes>>

\* RemoteProtocolError (whatever the bridge did with the request) or
\* ConnectError (the request is lost) on the first attempt: issued again.
CallRetries(r) ==
  /\ pc[r] = "calling" /\ attempt[r] = 1
  /\ attempt' = [attempt EXCEPT ![r] = 2]
  /\ wire' = [wire EXCEPT ![r][2] = "sent"]
  /\ UNCHANGED <<rows, audit, loop, pc, target, approve, won, ok, code, now, crashes>>

\* Mutant: the handler answers the timeout itself and records no outcome.
TimeoutForgetsRow(r) ==
  /\ pc[r] = "calling" /\ attempt[r] = 1
  /\ Answer(r, 502)
  /\ UNCHANGED <<rows, audit, loop, target, approve, won, attempt, ok, wire, now, crashes>>

\* A timeout or another httpx error on the first attempt is a BridgeError.
CallTimesOut(r) ==
  /\ pc[r] = "calling" /\ attempt[r] = 1
  /\ ok' = [ok EXCEPT ![r] = FALSE]
  /\ pc' = [pc EXCEPT ![r] = "returned"]
  /\ UNCHANGED <<rows, audit, loop, target, approve, won, attempt, code, wire, now, crashes>>

\* No handler catches an httpx error of the second attempt: the request ends
\* with a 500 and complete_action is never called.
RetryRaises(r) ==
  /\ pc[r] = "calling" /\ attempt[r] = 2
  /\ Answer(r, 500)
  /\ UNCHANGED <<rows, audit, loop, target, approve, won, attempt, ok, wire, now, crashes>>

-----------------------------------------------------------------------------
(* Recording the outcome *)

CompleteAction(r) ==
  /\ loop = Free /\ pc[r] = "returned"
  /\ status' = [status EXCEPT ![target[r]] =
                  IF @ = "approved" THEN IF ok[r] THEN "executed" ELSE "failed"
                  ELSE @]
  /\ loop' = r
  /\ pc' = [pc EXCEPT ![r] = "completed"]
  /\ UNCHANGED <<tool, expiresAt, decidedAt, audit, target, approve, won, attempt, ok, code,
                 wire, now, crashes>>

\* Mutant: both branches audit action_executed.
AuditAlwaysExecuted(r) ==
  /\ loop = r /\ pc[r] = "completed"
  /\ Audit(target[r], "action_executed")
  /\ Answer(r, IF ok[r] THEN 200 ELSE 502)
  /\ loop' = Free
  /\ UNCHANGED <<rows, target, approve, won, attempt, ok, wire, now, crashes>>

AuditCompleted(r) ==
  /\ loop = r /\ pc[r] = "completed"
  /\ Audit(target[r], IF ok[r] THEN "action_executed" ELSE "action_failed")
  /\ Answer(r, IF ok[r] THEN 200 ELSE 502)
  /\ loop' = Free
  /\ UNCHANGED <<rows, target, approve, won, attempt, ok, wire, now, crashes>>

-----------------------------------------------------------------------------
(* Environment *)

Tick ==
  /\ now < MaxTime
  /\ now' = now + 1
  /\ UNCHANGED <<rows, audit, loop, handlers, wire, crashes>>

\* The agent service dies and is started again: the tables stay, the handlers
\* are gone, and nothing looks at rows left in 'approved'.
Crash ==
  /\ crashes < MaxCrashes
  /\ crashes' = crashes + 1
  /\ pc' = [r \in Requests |-> IF pc[r] \in {"new", "done"} THEN pc[r] ELSE "dead"]
  /\ loop' = Free
  /\ UNCHANGED <<rows, audit, target, approve, won, attempt, ok, code, wire, now>>

Propose(a) == BeginProposal(a) \/ CreateAction(a) \/ AuditCreated(a)

Decide(r) ==
  \/ BeginDecide(r) \/ DecideAction(r) \/ LoseDecision(r)
  \/ AuditRejected(r) \/ AuditApproved(r)

CallBridge(r) ==
  CallAnswered(r) \/ CallRetries(r) \/ CallTimesOut(r) \/ RetryRaises(r)

Complete(r) == CompleteAction(r) \/ AuditCompleted(r)

Next ==
  \/ \E a \in Actions : Propose(a)
  \/ \E r \in Requests : \/ UnknownAction(r) \/ Decide(r) \/ CallBridge(r) \/ Complete(r)
                         \/ \E k \in Attempts : BridgeServes(r, k)
  \/ GetAction
  \/ Tick
  \/ Crash

Spec == Init /\ [][Next]_vars

\* The event loop runs what is ready, and every httpx call ends (the client is
\* built with a 10 s timeout).  Nothing is assumed of users, of the clock or of
\* the bridge.
Fairness ==
  /\ \A a \in Actions : WF_vars(CreateAction(a) \/ AuditCreated(a))
  /\ \A r \in Requests : /\ WF_vars(DecideAction(r) \/ LoseDecision(r)
                                    \/ AuditRejected(r) \/ AuditApproved(r))
                         /\ WF_vars(CallBridge(r))
                         /\ SF_vars(CompleteAction(r))
                         /\ WF_vars(AuditCompleted(r))

FairSpec == Spec /\ Fairness

-----------------------------------------------------------------------------
(* Properties *)

\* The HTTP requests by which the bridge performed action a.
EffectsOf(a) ==
  {e \in Requests \X Attempts : target[e[1]] = a /\ wire[e[1]][e[2]] = "done"}

\* Nothing is sent to the bridge for an action that nobody approved, and the
\* approval is on the audit trail before the first request leaves (decide).
NothingWithoutApproval ==
  \A r \in Requests : \A k \in Attempts :
    wire[r][k] # "none" =>
      /\ approve[r] /\ won[r]
      /\ status[target[r]] \in {"approved", "executed", "failed"}
      /\ "action_approved" \in audit[target[r]]

\* However many tabs and retries decide on an action, WhatsApp sees it at most
\* twice: once, and once more for the retry of _send_with_retry.
AtMostTwice == \A a \in Actions : Cardinality(EffectsOf(a)) <= 2

\* A row says executed only when the bridge performed it, or answered a call
\* with the 404 that the bridge client turns into a simulated success.
ExecutedIsTrue ==
  \A a \in Actions : status[a] = "executed" =>
    \E r \in Requests, k \in Attempts :
      /\ target[r] = a
      /\ \/ wire[r][k] = "done"
         \/ wire[r][k] = "unsupported" /\ tool[a] \in CallTools

\* The audit trail never claims what the table does not show, whatever order
\* the commits and crashes came in, and no outcome is audited without the
\* approval it follows.
AuditIsSound ==
  \A a \in Actions :
    /\ "action_created" \in audit[a] => status[a] # "none"
    /\ "action_rejected" \in audit[a] => status[a] = "rejected"
    /\ "action_approved" \in audit[a] => status[a] \in {"approved", "executed", "failed"}
    /\ "action_executed" \in audit[a] => status[a] = "executed"
    /\ "action_failed" \in audit[a] => status[a] = "failed"
    /\ status[a] \in {"executed", "failed"} => "action_approved" \in audit[a]

\* Of all requests that decide on one action one changes it: the others are
\* told 404, 409 or 410 (decide_action's WHERE status = 'pending').
OneWinner ==
  \A r, s \in Requests :
    target[r] = target[s] /\ won[r] /\ won[s] => r = s

\* What a client was told stays true of the row: a 200 or 502 names its final
\* state, a 410 means expired, a 409 that somebody else decided.
AnswersStayTrue ==
  \A r \in Requests : LET s == status[target[r]] IN
    /\ code[r] = 200 => s = IF approve[r] THEN "executed" ELSE "rejected"
    /\ code[r] = 502 => s = "failed"
    /\ code[r] = 500 => s = "approved"
    /\ code[r] = 410 => s = "expired"
    /\ code[r] = 409 => s \in {"approved", "rejected", "executed", "failed"} /\ ~won[r]

\* A row in 'approved' is being executed by the request that approved it,
\* unless that request died with the process or ended in the unhandled error
\* of its second attempt.
ApprovedHasOwner ==
  \A a \in Actions : status[a] = "approved" =>
    \E r \in Requests :
      /\ target[r] = a /\ won[r]
      /\ pc[r] \in {"decided", "calling", "returned", "dead"} \/ code[r] = 500

\* Rows only move along the documented lifecycle, each by one arrow.
Lifecycle ==
  [][\A a \in Actions : status'[a] # status[a] =>
       <<status[a], status'[a]>> \in
         {<<"none", "pending">>, <<"pending", "approved">>, <<"pending", "rejected">>,
          <<"pending", "expired">>, <<"approved", "executed">>, <<"approved", "failed">>}]_status

\* Every request that reached the store is answered, unless the process dies:
\* no order of locks, timeouts and retries leaves a client waiting.
RequestsEnd ==
  \A r \in Requests : pc[r] = "checked" ~> pc[r] \in {"done", "dead"}

\* The pipeline keeps the promise of ApprovalGate.
Gate == INSTANCE ApprovalGate WITH
          effects <- [a \in Actions |-> EffectsOf(a)],
          Deciders <- Requests
KeepsGate == Gate!GateSpec

-----------------------------------------------------------------------------
(* What the documentation says and the code does not do *)

\* agent-service/README.md: "Every transition is written to the audit trail."
\* There is no event for an expiry.
EveryTransitionAudited ==
  loop = Free /\ crashes = 0 =>
    \A a \in Actions :
      /\ status[a] = "rejected" => "action_rejected" \in audit[a]
      /\ status[a] = "approved" => "action_approved" \in audit[a]
      /\ status[a] = "executed" => "action_executed" \in audit[a]
      /\ status[a] = "failed" => "action_failed" \in audit[a]
      /\ status[a] = "expired" => audit[a] \ {"action_created"} # {}

\* db.py, decide_action: "overdue actions can never be approved".
OverdueNeverApproved ==
  \A a \in Actions :
    status[a] \in {"approved", "executed", "failed"} => decidedAt[a] < expiresAt[a]

\* bridge.py, _send_with_retry: "the request never reached the bridge and is
\* safe to resend", so one approval is performed at most once.
AtMostOnce == \A a \in Actions : Cardinality(EffectsOf(a)) <= 1

\* agent-service/README.md: "pending -> approved -> executed | failed".
ApprovedSettles ==
  \A a \in Actions : status[a] = "approved" ~> status[a] \in {"executed", "failed"}
=============================================================================
