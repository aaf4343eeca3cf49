--------------------------- MODULE ApprovalProofs ---------------------------
(***************************************************************************)
(* Safety of the approval pipeline for any number of actions and requests, *)
(* any TTL, and any number of clock ticks and crashes.  IInv is the        *)
(* inductive strengthening: it ties the control state of each handler to   *)
(* the row it works on.                                                    *)
(***************************************************************************)
EXTENDS Approval, FiniteSetTheorems, TLAPS

\* The event loop is held exactly by the handler that is between two commits.
LoopInv ==
  \A r \in Requests : pc[r] \in {"checked", "decided", "completed"} <=> loop = r

\* What a handler did and knows at each point of its life.
HandlerInv ==
  \A r \in Requests :
    /\ pc[r] \in {"new", "checked"} => ~won[r]
    /\ pc[r] = "checked" => status[target[r]] # "none"
    /\ pc[r] \in {"decided", "calling", "returned", "completed"} => won[r]
    /\ pc[r] \in {"calling", "returned", "completed"} =>
         approve[r] /\ "action_approved" \in audit[target[r]]
    /\ pc[r] = "calling" => attempt[r] \in Attempts
    /\ pc[r] \in {"calling", "returned"} => status[target[r]] = "approved"
    /\ pc[r] = "decided" /\ approve[r] => status[target[r]] = "approved"
    /\ pc[r] = "completed" =>
         status[target[r]] = IF ok[r] THEN "executed" ELSE "failed"
    /\ pc[r] # "done" => code[r] = 0
    /\ code[r] = 500 => won[r]

\* A decision that was taken is never taken back.
WonInv ==
  \A r \in Requests : won[r] =>
    /\ approve[r] => status[target[r]] \in {"approved", "executed", "failed"}
    /\ ~approve[r] => status[target[r]] = "rejected"

\* An attempt is on the wire only once it was made, and a positive answer of
\* the bridge is backed by what it did.
WireInv ==
  \A r \in Requests :
    /\ pc[r] = "decided" => \A k \in Attempts : wire[r][k] = "none"
    /\ pc[r] = "calling" /\ attempt[r] = 1 => wire[r][2] = "none"
    /\ \A k \in Attempts : wire[r][k] = "unsupported" => tool[target[r]] \in CallTools
    /\ pc[r] = "returned" /\ ok[r] =>
         \E k \in Attempts : wire[r][k] \in {"done", "unsupported"}

IInv ==
  /\ TypeOK
  /\ LoopInv /\ HandlerInv /\ WonInv /\ WireInv
  /\ OneWinner /\ NothingWithoutApproval /\ AuditIsSound
  /\ ExecutedIsTrue /\ AnswersStayTrue /\ ApprovedHasOwner

-----------------------------------------------------------------------------

\* The initial state has the right types and every part of the invariant.
LEMMA InitIInv == Init => IInv
<1> SUFFICES ASSUME Init PROVE IInv
  OBVIOUS
<1> USE DEF Init
<1>1. TypeOK
  BY BoundsAssumption DEF TypeOK, Status, Control, Wire, Codes, Attempts
<1>2. LoopInv /\ HandlerInv /\ WonInv /\ WireInv /\ OneWinner
  BY NamesAssumption DEF LoopInv, HandlerInv, WonInv, WireInv, OneWinner
<1>3. NothingWithoutApproval /\ AuditIsSound /\ ExecutedIsTrue
        /\ AnswersStayTrue /\ ApprovedHasOwner
  BY DEF NothingWithoutApproval, AuditIsSound, ExecutedIsTrue, AnswersStayTrue,
         ApprovedHasOwner
<1>4. QED
  BY <1>1, <1>2, <1>3 DEF IInv

\* Every step keeps the types.
LEMMA TypeOKStep == TypeOK /\ [Next]_vars => TypeOK'
<1> SUFFICES ASSUME TypeOK, [Next]_vars PROVE TypeOK'
  OBVIOUS
<1> USE DEF TypeOK, Status, Event, Control, Wire, Codes, Attempts, rows, handlers,
            Answer, Audit, ExpireStale
<1>1. ASSUME NEW a \in Actions, Propose(a) PROVE TypeOK'
  <2>1. CASE BeginProposal(a)  BY <2>1 DEF BeginProposal
  <2>2. CASE CreateAction(a)  BY <2>2, BoundsAssumption DEF CreateAction
  <2>3. CASE AuditCreated(a)  BY <2>3 DEF AuditCreated
  <2>4. QED  BY <1>1, <2>1, <2>2, <2>3 DEF Propose
<1>2. ASSUME NEW r \in Requests, UnknownAction(r) PROVE TypeOK'
  BY <1>2 DEF UnknownAction
<1>3. ASSUME NEW r \in Requests, Decide(r) PROVE TypeOK'
  <2>1. CASE BeginDecide(r)  BY <2>1 DEF BeginDecide
  <2>2. CASE DecideAction(r)  BY <2>2 DEF DecideAction
  <2>3. CASE LoseDecision(r)  BY <2>3 DEF LoseDecision
  <2>4. CASE AuditRejected(r)  BY <2>4 DEF AuditRejected
  <2>5. CASE AuditApproved(r)  BY <2>5 DEF AuditApproved
  <2>6. QED  BY <1>3, <2>1, <2>2, <2>3, <2>4, <2>5 DEF Decide
<1>4. ASSUME NEW r \in Requests, CallBridge(r) PROVE TypeOK'
  <2>1. CASE CallAnswered(r)  BY <2>1 DEF CallAnswered
  <2>2. CASE CallRetries(r)  BY <2>2 DEF CallRetries
  <2>3. CASE CallTimesOut(r)  BY <2>3 DEF CallTimesOut
  <2>4. CASE RetryRaises(r)  BY <2>4 DEF RetryRaises
  <2>5. QED  BY <1>4, <2>1, <2>2, <2>3, <2>4 DEF CallBridge
<1>5. ASSUME NEW r \in Requests, Complete(r) PROVE TypeOK'
  <2>1. CASE CompleteAction(r)  BY <2>1 DEF CompleteAction
  <2>2. CASE AuditCompleted(r)  BY <2>2 DEF AuditCompleted
  <2>3. QED  BY <1>5, <2>1, <2>2 DEF Complete
<1>6. ASSUME NEW r \in Requests, NEW k \in Attempts, BridgeServes(r, k) PROVE TypeOK'
  BY <1>6 DEF BridgeServes
<1>7. CASE GetAction  BY <1>7 DEF GetAction
<1>8. CASE Tick  BY <1>8 DEF Tick
<1>9. CASE Crash  BY <1>9 DEF Crash
<1>10. CASE UNCHANGED vars  BY <1>10 DEF vars
<1>11. QED
  BY <1>1, <1>2, <1>3, <1>4, <1>5, <1>6, <1>7, <1>8, <1>9, <1>10 DEF Next

-----------------------------------------------------------------------------

\* Every step keeps the invariant.  Under each action, the first step covers
\* the parts whose variables the action leaves alone.
LEMMA IInvStep == IInv /\ [Next]_vars => IInv'
<1> SUFFICES ASSUME IInv, [Next]_vars PROVE IInv'
  OBVIOUS
<1> USE NamesAssumption DEF TypeOK, rows, handlers, Answer, Audit, ExpireStale
<1>0. TypeOK'
  BY TypeOKStep DEF IInv
<1>1. ASSUME NEW a \in Actions, BeginProposal(a) PROVE IInv'
  <2> USE <1>1 DEF BeginProposal
  <2>0. WireInv' /\ OneWinner'
    BY DEF IInv, WireInv, OneWinner
  <2>1. LoopInv'
    BY DEF IInv, LoopInv
  <2>2. HandlerInv'
    BY DEF IInv, HandlerInv, LoopInv, WonInv, OneWinner, Attempts
  <2>3. WonInv'
    BY DEF IInv, WonInv, HandlerInv, LoopInv
  <2>4. NothingWithoutApproval'
    BY DEF IInv, NothingWithoutApproval, HandlerInv, WonInv, Attempts
  <2>5. AuditIsSound'
    BY DEF IInv, AuditIsSound, HandlerInv, WonInv
  <2>6. ExecutedIsTrue'
    BY DEF IInv, ExecutedIsTrue, WireInv, HandlerInv, Attempts
  <2>7. AnswersStayTrue'
    BY DEF IInv, AnswersStayTrue, HandlerInv, WonInv, OneWinner
  <2>8. ApprovedHasOwner'
    BY DEF IInv, ApprovedHasOwner, HandlerInv, WonInv, OneWinner
  <2>9. QED
    BY <1>0, <2>0, <2>1, <2>2, <2>3, <2>4, <2>5, <2>6, <2>7, <2>8 DEF IInv
<1>2. ASSUME NEW a \in Actions, CreateAction(a) PROVE IInv'
  <2> USE <1>2 DEF CreateAction
  <2>0. LoopInv' /\ WireInv' /\ OneWinner'
    BY DEF IInv, LoopInv, WireInv, OneWinner
  <2>1. HandlerInv'
    BY DEF IInv, HandlerInv, LoopInv, WonInv, OneWinner, Attempts
  <2>2. WonInv'
    BY DEF IInv, WonInv, HandlerInv, LoopInv
  <2>3. NothingWithoutApproval'
    BY DEF IInv, NothingWithoutApproval, HandlerInv, WonInv, Attempts
  <2>4. AuditIsSound'
    BY DEF IInv, AuditIsSound, HandlerInv, WonInv
  <2>5. ExecutedIsTrue'
    BY DEF IInv, ExecutedIsTrue, WireInv, HandlerInv, Attempts
  <2>6. AnswersStayTrue'
    BY DEF IInv, AnswersStayTrue, HandlerInv, WonInv, OneWinner
  <2>7. ApprovedHasOwner'
    BY DEF IInv, ApprovedHasOwner, HandlerInv, WonInv, OneWinner
  <2>8. QED
    BY <1>0, <2>0, <2>1, <2>2, <2>3, <2>4, <2>5, <2>6, <2>7 DEF IInv
<1>3. ASSUME NEW a \in Actions, AuditCreated(a) PROVE IInv'
  <2> USE <1>3 DEF AuditCreated
  <2>0. WonInv' /\ WireInv' /\ OneWinner' /\ ExecutedIsTrue' /\ AnswersStayTrue'
      /\ ApprovedHasOwner'
    BY DEF IInv, WonInv, WireInv, OneWinner, ExecutedIsTrue, AnswersStayTrue, ApprovedHasOwner
  <2>1. LoopInv'
    BY DEF IInv, LoopInv
  <2>2. HandlerInv'
    BY DEF IInv, HandlerInv, LoopInv, WonInv, OneWinner, Attempts
  <2>3. NothingWithoutApproval'
    BY DEF IInv, NothingWithoutApproval, HandlerInv, WonInv, Attempts
  <2>4. AuditIsSound'
    BY DEF IInv, AuditIsSound, HandlerInv, WonInv
  <2>5. QED
    BY <1>0, <2>0, <2>1, <2>2, <2>3, <2>4 DEF IInv
<1>4. ASSUME NEW r \in Requests, UnknownAction(r) PROVE IInv'
  <2> USE <1>4 DEF UnknownAction
  <2>0. WonInv' /\ OneWinner' /\ NothingWithoutApproval' /\ AuditIsSound' /\ ExecutedIsTrue'
    BY DEF IInv, WonInv, OneWinner, NothingWithoutApproval, AuditIsSound, ExecutedIsTrue
  <2>1. LoopInv'
    BY DEF IInv, LoopInv
  <2>2. HandlerInv'
    BY DEF IInv, HandlerInv, LoopInv, WonInv, OneWinner, Attempts
  <2>3. WireInv'
    BY DEF IInv, WireInv, HandlerInv, Attempts
  <2>4. AnswersStayTrue'
    BY DEF IInv, AnswersStayTrue, HandlerInv, WonInv, OneWinner
  <2>5. ApprovedHasOwner'
    BY DEF IInv, ApprovedHasOwner, HandlerInv, WonInv, OneWinner
  <2>6. QED
    BY <1>0, <2>0, <2>1, <2>2, <2>3, <2>4, <2>5 DEF IInv
<1>5. ASSUME NEW r \in Requests, BeginDecide(r) PROVE IInv'
  <2> USE <1>5 DEF BeginDecide
  <2>0. OneWinner'
    BY DEF IInv, OneWinner
  <2>1. LoopInv'
    BY DEF IInv, LoopInv
  <2>2. HandlerInv'
    BY DEF IInv, HandlerInv, LoopInv, WonInv, OneWinner, Attempts
  <2>3. WonInv'
    BY DEF IInv, WonInv, HandlerInv, LoopInv
  <2>4. WireInv'
    BY DEF IInv, WireInv, HandlerInv, Attempts
  <2>5. NothingWithoutApproval'
    BY DEF IInv, NothingWithoutApproval, HandlerInv, WonInv, Attempts
  <2>6. AuditIsSound'
    BY DEF IInv, AuditIsSound, HandlerInv, WonInv
  <2>7. ExecutedIsTrue'
    BY DEF IInv, ExecutedIsTrue, WireInv, HandlerInv, Attempts
  <2>8. AnswersStayTrue'
    BY DEF IInv, AnswersStayTrue, HandlerInv, WonInv, OneWinner
  <2>9. ApprovedHasOwner'
    <3> SUFFICES ASSUME NEW a \in Actions, status'[a] = "approved"
                 PROVE  \E s \in Requests :
                          /\ target'[s] = a /\ won'[s]
                          /\ \/ pc'[s] \in {"decided", "calling", "returned", "dead"}
                             \/ code'[s] = 500
      BY DEF ApprovedHasOwner
    <3>1. status[a] = "approved"
      BY DEF IInv
    <3>2. PICK s \in Requests :
            /\ target[s] = a /\ won[s]
            /\ pc[s] \in {"decided", "calling", "returned", "dead"} \/ code[s] = 500
      BY <3>1 DEF IInv, ApprovedHasOwner
    <3>3. s # r
      BY <3>2 DEF IInv, HandlerInv
    <3>4. QED
      BY <3>2, <3>3 DEF IInv
  <2>10. QED
    BY <1>0, <2>0, <2>1, <2>2, <2>3, <2>4, <2>5, <2>6, <2>7, <2>8, <2>9 DEF IInv
<1>6. ASSUME NEW r \in Requests, DecideAction(r) PROVE IInv'
  <2> USE <1>6 DEF DecideAction
  <2>1. LoopInv'
    BY DEF IInv, LoopInv
  <2>2. HandlerInv'
    BY DEF IInv, HandlerInv, LoopInv, WonInv, OneWinner, Attempts
  <2>3. WonInv'
    BY DEF IInv, WonInv, HandlerInv, LoopInv
  <2>4. WireInv'
    BY DEF IInv, WireInv, HandlerInv, NothingWithoutApproval, Attempts
  <2>5. OneWinner'
    <3>1. \A s \in Requests : target[s] = target[r] => ~won[s]
      BY DEF IInv, WonInv
    <3>2. QED
      BY <3>1 DEF IInv, OneWinner
  <2>6. NothingWithoutApproval'
    BY DEF IInv, NothingWithoutApproval, HandlerInv, WonInv, Attempts
  <2>7. AuditIsSound'
    BY DEF IInv, AuditIsSound, HandlerInv, WonInv
  <2>8. ExecutedIsTrue'
    BY DEF IInv, ExecutedIsTrue, WireInv, HandlerInv, Attempts
  <2>9. AnswersStayTrue'
    BY DEF IInv, AnswersStayTrue, HandlerInv, WonInv, OneWinner
  <2>10. ApprovedHasOwner'
    BY DEF IInv, ApprovedHasOwner, HandlerInv, WonInv, OneWinner
  <2>11. QED
    BY <1>0, <2>1, <2>2, <2>3, <2>4, <2>5, <2>6, <2>7, <2>8, <2>9, <2>10 DEF IInv
<1>7. ASSUME NEW r \in Requests, LoseDecision(r) PROVE IInv'
  <2> USE <1>7 DEF LoseDecision
  <2>0. WonInv' /\ OneWinner' /\ NothingWithoutApproval' /\ AuditIsSound' /\ ExecutedIsTrue'
    BY DEF IInv, WonInv, OneWinner, NothingWithoutApproval, AuditIsSound, ExecutedIsTrue
  <2>1. LoopInv'
    BY DEF IInv, LoopInv
  <2>2. HandlerInv'
    BY DEF IInv, HandlerInv, LoopInv, WonInv, OneWinner, Attempts
  <2>3. WireInv'
    BY DEF IInv, WireInv, HandlerInv, Attempts
  <2>4. AnswersStayTrue'
    BY DEF IInv, AnswersStayTrue, HandlerInv, Status
  <2>5. ApprovedHasOwner'
    BY DEF IInv, ApprovedHasOwner, HandlerInv, WonInv, OneWinner
  <2>6. QED
    BY <1>0, <2>0, <2>1, <2>2, <2>3, <2>4, <2>5 DEF IInv
<1>8. ASSUME NEW r \in Requests, AuditRejected(r) PROVE IInv'
  <2> USE <1>8 DEF AuditRejected
  <2>0. WonInv' /\ OneWinner' /\ ExecutedIsTrue'
    BY DEF IInv, WonInv, OneWinner, ExecutedIsTrue
  <2>1. LoopInv'
    BY DEF IInv, LoopInv
  <2>2. HandlerInv'
    BY DEF IInv, HandlerInv, LoopInv, WonInv, OneWinner, Attempts
  <2>3. WireInv'
    BY DEF IInv, WireInv, HandlerInv, Attempts
  <2>4. NothingWithoutApproval'
    BY DEF IInv, NothingWithoutApproval, HandlerInv, WonInv, Attempts
  <2>5. AuditIsSound'
    BY DEF IInv, AuditIsSound, HandlerInv, WonInv
  <2>6. AnswersStayTrue'
    BY DEF IInv, AnswersStayTrue, HandlerInv, WonInv, OneWinner
  <2>7. ApprovedHasOwner'
    BY DEF IInv, ApprovedHasOwner, HandlerInv, WonInv, OneWinner
  <2>8. QED
    BY <1>0, <2>0, <2>1, <2>2, <2>3, <2>4, <2>5, <2>6, <2>7 DEF IInv
<1>9. ASSUME NEW r \in Requests, AuditApproved(r) PROVE IInv'
  <2> USE <1>9 DEF AuditApproved
  <2>0. WonInv' /\ OneWinner' /\ AnswersStayTrue'
    BY DEF IInv, WonInv, OneWinner, AnswersStayTrue
  <2>1. LoopInv'
    BY DEF IInv, LoopInv
  <2>2. HandlerInv'
    BY DEF IInv, HandlerInv, LoopInv, WonInv, OneWinner, Attempts
  <2>3. WireInv'
    BY DEF IInv, WireInv, HandlerInv, Attempts
  <2>4. NothingWithoutApproval'
    BY DEF IInv, NothingWithoutApproval, HandlerInv, WonInv, Attempts
  <2>5. AuditIsSound'
    BY DEF IInv, AuditIsSound, HandlerInv, WonInv
  <2>6. ExecutedIsTrue'
    BY DEF IInv, ExecutedIsTrue, WireInv, HandlerInv, Attempts
  <2>7. ApprovedHasOwner'
    BY DEF IInv, ApprovedHasOwner, HandlerInv, WonInv, OneWinner
  <2>8. QED
    BY <1>0, <2>0, <2>1, <2>2, <2>3, <2>4, <2>5, <2>6, <2>7 DEF IInv
<1>10. ASSUME NEW r \in Requests, CallAnswered(r) PROVE IInv'
  <2> USE <1>10 DEF CallAnswered
  <2>0. WonInv' /\ OneWinner' /\ NothingWithoutApproval' /\ AuditIsSound'
      /\ ExecutedIsTrue' /\ AnswersStayTrue'
    BY DEF IInv, WonInv, OneWinner, NothingWithoutApproval, AuditIsSound, ExecutedIsTrue,
           AnswersStayTrue
  <2>1. LoopInv'
    BY DEF IInv, LoopInv
  <2>2. HandlerInv'
    BY DEF IInv, HandlerInv, LoopInv, WonInv, OneWinner, Attempts
  <2>3. WireInv'
    <3>1. attempt[r] \in Attempts
      BY DEF IInv, HandlerInv
    <3>2. ok'[r] <=> wire[r][attempt[r]] \in {"done", "unsupported"}
      BY Zenon DEF IInv
    <3>3. \A s \in Requests \ {r} : ok'[s] = ok[s] /\ pc'[s] = pc[s]
      BY DEF IInv
    <3>4. QED
      BY <3>1, <3>2, <3>3 DEF IInv, WireInv
  <2>4. ApprovedHasOwner'
    BY DEF IInv, ApprovedHasOwner, HandlerInv, WonInv, OneWinner
  <2>5. QED
    BY <1>0, <2>0, <2>1, <2>2, <2>3, <2>4 DEF IInv
<1>11. ASSUME NEW r \in Requests, CallRetries(r) PROVE IInv'
  <2> USE <1>11 DEF CallRetries
  <2>0. LoopInv' /\ WonInv' /\ OneWinner' /\ AuditIsSound' /\ AnswersStayTrue'
      /\ ApprovedHasOwner'
    BY DEF IInv, LoopInv, WonInv, OneWinner, AuditIsSound, AnswersStayTrue, ApprovedHasOwner
  <2>1. HandlerInv'
    BY DEF IInv, HandlerInv, LoopInv, WonInv, OneWinner, Attempts
  <2>2. WireInv'
    BY DEF IInv, WireInv, HandlerInv, Attempts
  <2>3. NothingWithoutApproval'
    BY DEF IInv, NothingWithoutApproval, HandlerInv, WonInv, Attempts
  <2>4. ExecutedIsTrue'
    BY DEF IInv, ExecutedIsTrue, WireInv, HandlerInv, Attempts
  <2>5. QED
    BY <1>0, <2>0, <2>1, <2>2, <2>3, <2>4 DEF IInv
<1>12. ASSUME NEW r \in Requests, CallTimesOut(r) PROVE IInv'
  <2> USE <1>12 DEF CallTimesOut
  <2>0. WonInv' /\ OneWinner' /\ NothingWithoutApproval' /\ AuditIsSound'
      /\ ExecutedIsTrue' /\ AnswersStayTrue'
    BY DEF IInv, WonInv, OneWinner, NothingWithoutApproval, AuditIsSound, ExecutedIsTrue,
           AnswersStayTrue
  <2>1. LoopInv'
    BY DEF IInv, LoopInv
  <2>2. HandlerInv'
    BY DEF IInv, HandlerInv, LoopInv, WonInv, OneWinner, Attempts
  <2>3. WireInv'
    BY DEF IInv, WireInv, HandlerInv, Attempts
  <2>4. ApprovedHasOwner'
    BY DEF IInv, ApprovedHasOwner, HandlerInv, WonInv, OneWinner
  <2>5. QED
    BY <1>0, <2>0, <2>1, <2>2, <2>3, <2>4 DEF IInv
<1>13. ASSUME NEW r \in Requests, RetryRaises(r) PROVE IInv'
  <2> USE <1>13 DEF RetryRaises
  <2>0. WonInv' /\ OneWinner' /\ NothingWithoutApproval' /\ AuditIsSound' /\ ExecutedIsTrue'
    BY DEF IInv, WonInv, OneWinner, NothingWithoutApproval, AuditIsSound, ExecutedIsTrue
  <2>1. LoopInv'
    BY DEF IInv, LoopInv
  <2>2. HandlerInv'
    BY DEF IInv, HandlerInv, LoopInv, WonInv, OneWinner, Attempts
  <2>3. WireInv'
    BY DEF IInv, WireInv, HandlerInv, Attempts
  <2>4. AnswersStayTrue'
    BY DEF IInv, AnswersStayTrue, HandlerInv, WonInv, OneWinner
  <2>5. ApprovedHasOwner'
    BY DEF IInv, ApprovedHasOwner, HandlerInv, WonInv, OneWinner
  <2>6. QED
    BY <1>0, <2>0, <2>1, <2>2, <2>3, <2>4, <2>5 DEF IInv
<1>14. ASSUME NEW r \in Requests, CompleteAction(r) PROVE IInv'
  <2> USE <1>14 DEF CompleteAction
  <2>0. OneWinner'
    BY DEF IInv, OneWinner
  <2>1. LoopInv'
    BY DEF IInv, LoopInv
  <2>2. HandlerInv'
    BY DEF IInv, HandlerInv, LoopInv, WonInv, OneWinner, Attempts
  <2>3. WonInv'
    BY DEF IInv, WonInv, HandlerInv, LoopInv
  <2>4. WireInv'
    BY DEF IInv, WireInv, HandlerInv, Attempts
  <2>5. NothingWithoutApproval'
    BY DEF IInv, NothingWithoutApproval, HandlerInv, WonInv, Attempts
  <2>6. AuditIsSound'
    BY DEF IInv, AuditIsSound, HandlerInv, WonInv
  <2>7. ExecutedIsTrue'
    BY DEF IInv, ExecutedIsTrue, WireInv, HandlerInv, Attempts
  <2>8. AnswersStayTrue'
    BY DEF IInv, AnswersStayTrue, HandlerInv, WonInv, OneWinner
  <2>9. ApprovedHasOwner'
    <3> SUFFICES ASSUME NEW a \in Actions, status'[a] = "approved"
                 PROVE  \E s \in Requests :
                          /\ target'[s] = a /\ won'[s]
                          /\ \/ pc'[s] \in {"decided", "calling", "returned", "dead"}
                             \/ code'[s] = 500
      BY DEF ApprovedHasOwner
    <3>1. a # target[r] /\ status[a] = "approved"
      BY DEF IInv, HandlerInv
    <3>2. PICK s \in Requests :
            /\ target[s] = a /\ won[s]
            /\ pc[s] \in {"decided", "calling", "returned", "dead"} \/ code[s] = 500
      BY <3>1 DEF IInv, ApprovedHasOwner
    <3>3. s # r
      BY <3>1, <3>2
    <3>4. QED
      BY <3>2, <3>3 DEF IInv
  <2>10. QED
    BY <1>0, <2>0, <2>1, <2>2, <2>3, <2>4, <2>5, <2>6, <2>7, <2>8, <2>9 DEF IInv
<1>15. ASSUME NEW r \in Requests, AuditCompleted(r) PROVE IInv'
  <2> USE <1>15 DEF AuditCompleted
  <2>0. WonInv' /\ OneWinner' /\ ExecutedIsTrue'
    BY DEF IInv, WonInv, OneWinner, ExecutedIsTrue
  <2>1. LoopInv'
    BY DEF IInv, LoopInv
  <2>2. HandlerInv'
    BY DEF IInv, HandlerInv, LoopInv, WonInv, OneWinner, Attempts
  <2>3. WireInv'
    BY DEF IInv, WireInv, HandlerInv, Attempts
  <2>4. NothingWithoutApproval'
    BY DEF IInv, NothingWithoutApproval, HandlerInv, WonInv, Attempts
  <2>5. AuditIsSound'
    BY DEF IInv, AuditIsSound, HandlerInv, WonInv
  <2>6. AnswersStayTrue'
    BY DEF IInv, AnswersStayTrue, HandlerInv, WonInv, OneWinner
  <2>7. ApprovedHasOwner'
    BY DEF IInv, ApprovedHasOwner, HandlerInv, WonInv, OneWinner
  <2>8. QED
    BY <1>0, <2>0, <2>1, <2>2, <2>3, <2>4, <2>5, <2>6, <2>7 DEF IInv
<1>16. ASSUME NEW r \in Requests, NEW k \in Attempts, BridgeServes(r, k) PROVE IInv'
  <2> USE <1>16 DEF BridgeServes
  <2>0. LoopInv' /\ HandlerInv' /\ WonInv' /\ OneWinner' /\ AuditIsSound'
      /\ AnswersStayTrue' /\ ApprovedHasOwner'
    BY DEF IInv, LoopInv, HandlerInv, WonInv, OneWinner, AuditIsSound, AnswersStayTrue,
           ApprovedHasOwner
  <2>1. WireInv'
    BY DEF IInv, WireInv, HandlerInv, Attempts
  <2>2. NothingWithoutApproval'
    BY DEF IInv, NothingWithoutApproval, HandlerInv, WonInv, Attempts
  <2>3. ExecutedIsTrue'
    BY DEF IInv, ExecutedIsTrue, WireInv, HandlerInv, Attempts
  <2>4. QED
    BY <1>0, <2>0, <2>1, <2>2, <2>3 DEF IInv
<1>17. CASE GetAction
  <2> USE <1>17 DEF GetAction
  <2>0. LoopInv' /\ WireInv' /\ OneWinner'
    BY DEF IInv, LoopInv, WireInv, OneWinner
  <2>1. HandlerInv'
    BY DEF IInv, HandlerInv, LoopInv, WonInv, OneWinner, Attempts
  <2>2. WonInv'
    BY DEF IInv, WonInv, HandlerInv, LoopInv
  <2>3. NothingWithoutApproval'
    BY DEF IInv, NothingWithoutApproval, HandlerInv, WonInv, Attempts
  <2>4. AuditIsSound'
    BY DEF IInv, AuditIsSound, HandlerInv, WonInv
  <2>5. ExecutedIsTrue'
    BY DEF IInv, ExecutedIsTrue, WireInv, HandlerInv, Attempts
  <2>6. AnswersStayTrue'
    BY DEF IInv, AnswersStayTrue, HandlerInv, WonInv, OneWinner
  <2>7. ApprovedHasOwner'
    BY DEF IInv, ApprovedHasOwner, HandlerInv, WonInv, OneWinner
  <2>8. QED
    BY <1>0, <2>0, <2>1, <2>2, <2>3, <2>4, <2>5, <2>6, <2>7 DEF IInv
<1>18. CASE Tick
  BY <1>0, <1>18 DEF Tick, IInv,
       LoopInv, HandlerInv, WonInv, WireInv, OneWinner,
       NothingWithoutApproval, AuditIsSound, ExecutedIsTrue, AnswersStayTrue, ApprovedHasOwner
<1>19. CASE Crash
  <2> USE <1>19 DEF Crash
  <2>0. WonInv' /\ OneWinner' /\ NothingWithoutApproval' /\ AuditIsSound'
      /\ ExecutedIsTrue' /\ AnswersStayTrue'
    BY DEF IInv, WonInv, OneWinner, NothingWithoutApproval, AuditIsSound, ExecutedIsTrue,
           AnswersStayTrue
  <2>1. LoopInv'
    BY DEF IInv, LoopInv
  <2>2. HandlerInv'
    BY DEF IInv, HandlerInv, LoopInv, WonInv, OneWinner, Attempts
  <2>3. WireInv'
    BY DEF IInv, WireInv, HandlerInv, Attempts
  <2>4. ApprovedHasOwner'
    BY DEF IInv, ApprovedHasOwner, HandlerInv, WonInv, OneWinner
  <2>5. QED
    BY <1>0, <2>0, <2>1, <2>2, <2>3, <2>4 DEF IInv
<1>20. CASE UNCHANGED vars
  BY <1>0, <1>20 DEF vars, IInv,
       LoopInv, HandlerInv, WonInv, WireInv, OneWinner,
       NothingWithoutApproval, AuditIsSound, ExecutedIsTrue, AnswersStayTrue, ApprovedHasOwner
<1>21. QED
  BY <1>1, <1>2, <1>3, <1>4, <1>5, <1>6, <1>7, <1>8, <1>9,
     <1>10, <1>11, <1>12, <1>13, <1>14, <1>15, <1>16, <1>17, <1>18, <1>19, <1>20
     DEF Next, Propose, Decide, CallBridge, Complete

-----------------------------------------------------------------------------

\* The invariant holds in every reachable state.
THEOREM Invariance == Spec => []IInv
<1>1. Init => IInv
  BY InitIInv
<1>2. IInv /\ [Next]_vars => IInv'
  BY IInvStep
<1>3. QED
  BY <1>1, <1>2, PTL DEF Spec

\* Every variable keeps its type.
THEOREM TypeCorrect == Spec => []TypeOK
<1>1. IInv => TypeOK
  BY DEF IInv
<1>2. QED
  BY <1>1, Invariance, PTL

\* No request reaches the bridge before its action was approved and the
\* approval audited.
THEOREM ApprovalFirst == Spec => []NothingWithoutApproval
<1>1. IInv => NothingWithoutApproval
  BY DEF IInv
<1>2. QED
  BY <1>1, Invariance, PTL

\* The audit trail never contradicts the table, between which there is a commit
\* that a crash can come in front of.
THEOREM AuditAgrees == Spec => []AuditIsSound
<1>1. IInv => AuditIsSound
  BY DEF IInv
<1>2. QED
  BY <1>1, Invariance, PTL

\* Concurrent decisions on one action: one request wins.
THEOREM DecisionsAreFinal == Spec => []OneWinner
<1>1. IInv => OneWinner
  BY DEF IInv
<1>2. QED
  BY <1>1, Invariance, PTL

\* What each client was told of the action it decided on stays true.
THEOREM ClientsStayRight == Spec => []AnswersStayTrue
<1>1. IInv => AnswersStayTrue
  BY DEF IInv
<1>2. QED
  BY <1>1, Invariance, PTL

\* 'executed' is never recorded for something the bridge did not do, and a row
\* in 'approved' has an owner or lost it to a crash or an unhandled error.
THEOREM OutcomesAreTrue == Spec => [](ExecutedIsTrue /\ ApprovedHasOwner)
<1>1. IInv => ExecutedIsTrue /\ ApprovedHasOwner
  BY DEF IInv
<1>2. QED
  BY <1>1, Invariance, PTL

\* All effects on one action come from the one request that won it, so they
\* are among its two attempts.
LEMMA EffectsFromWinner ==
  ASSUME IInv, NEW r \in Requests, NEW k \in Attempts, wire[r][k] # "none"
  PROVE  EffectsOf(target[r]) \subseteq {<<r, 1>>, <<r, 2>>}
<1> SUFFICES ASSUME NEW s \in Requests, NEW m \in Attempts,
                    target[s] = target[r], wire[s][m] = "done"
             PROVE  s = r
  BY DEF EffectsOf, Attempts
<1>1. won[s] /\ won[r]
  BY DEF IInv, NothingWithoutApproval
<1>2. QED
  BY <1>1 DEF IInv, OneWinner

\* A set of at most two elements: the cardinality of a pair.
LEMMA PairIsSmall ==
  ASSUME NEW x, NEW y
  PROVE  IsFiniteSet({x, y}) /\ Cardinality({x, y}) <= 2
<1>1. IsFiniteSet({x}) /\ Cardinality({x}) = 1
  BY FS_Singleton
<1>2. {x, y} = {x} \union {y}
  OBVIOUS
<1>3. QED
  BY <1>1, <1>2, FS_AddElement

\* The invariant leaves an action at most the two attempts of its one winner.
LEMMA TwiceFromIInv == IInv => AtMostTwice
<1> SUFFICES ASSUME IInv, NEW a \in Actions
             PROVE  Cardinality(EffectsOf(a)) <= 2
  BY DEF AtMostTwice
<1>1. CASE EffectsOf(a) = {}
  BY <1>1, FS_EmptySet
<1>2. CASE EffectsOf(a) # {}
  <2>1. PICK r \in Requests, k \in Attempts : target[r] = a /\ wire[r][k] = "done"
    BY <1>2 DEF EffectsOf
  <2>2. EffectsOf(a) \subseteq {<<r, 1>>, <<r, 2>>}
    BY <2>1, EffectsFromWinner
  <2>3. IsFiniteSet({<<r, 1>>, <<r, 2>>}) /\ Cardinality({<<r, 1>>, <<r, 2>>}) <= 2
    BY PairIsSmall
  <2>4. Cardinality(EffectsOf(a)) <= Cardinality({<<r, 1>>, <<r, 2>>})
    BY <2>2, <2>3, FS_Subset
  <2>5. Cardinality(EffectsOf(a)) \in Nat /\ Cardinality({<<r, 1>>, <<r, 2>>}) \in Nat
    BY <2>2, <2>3, FS_Subset, FS_CardinalityType
  <2>6. QED
    BY <2>3, <2>4, <2>5
<1>3. QED
  BY <1>1, <1>2

\* One approval reaches WhatsApp at most twice, however many requests decide
\* on it and whatever the network does.
THEOREM AtMostTwoEffects == Spec => []AtMostTwice
<1>1. IInv => AtMostTwice
  BY TwiceFromIInv
<1>2. QED
  BY <1>1, Invariance, PTL

-----------------------------------------------------------------------------

\* Rows only move by one arrow of the lifecycle at a time.
LEMMA LifecycleStep ==
  IInv /\ [Next]_vars =>
    [\A a \in Actions : status'[a] # status[a] =>
       <<status[a], status'[a]>> \in
         {<<"none", "pending">>, <<"pending", "approved">>, <<"pending", "rejected">>,
          <<"pending", "expired">>, <<"approved", "executed">>, <<"approved", "failed">>}]_status
<1> DEFINE Arrows ==
  {<<"none", "pending">>, <<"pending", "approved">>, <<"pending", "rejected">>,
   <<"pending", "expired">>, <<"approved", "executed">>, <<"approved", "failed">>}
<1> SUFFICES ASSUME IInv, [Next]_vars, NEW a \in Actions, status'[a] # status[a]
             PROVE  <<status[a], status'[a]>> \in Arrows
  OBVIOUS
<1> USE DEF IInv, TypeOK, ExpireStale, rows, handlers
<1>1. ASSUME NEW b \in Actions, Propose(b) PROVE <<status[a], status'[a]>> \in Arrows
  BY <1>1 DEF Propose, BeginProposal, CreateAction, AuditCreated
<1>2. ASSUME NEW r \in Requests, Decide(r) PROVE <<status[a], status'[a]>> \in Arrows
  BY <1>2 DEF Decide, BeginDecide, DecideAction, LoseDecision, AuditRejected, AuditApproved
<1>3. ASSUME NEW r \in Requests, Complete(r) PROVE <<status[a], status'[a]>> \in Arrows
  BY <1>3 DEF Complete, CompleteAction, AuditCompleted
<1>4. CASE GetAction
  BY <1>4 DEF GetAction
<1>5. ASSUME NEW r \in Requests,
             \/ UnknownAction(r) \/ CallBridge(r) \/ \E k \in Attempts : BridgeServes(r, k)
      PROVE  status' = status
  BY <1>5 DEF UnknownAction, CallBridge, CallAnswered, CallRetries, CallTimesOut, RetryRaises,
              BridgeServes
<1>6. Tick \/ Crash \/ UNCHANGED vars => status' = status
  BY DEF Tick, Crash, vars
<1>7. QED
  BY <1>1, <1>2, <1>3, <1>4, <1>5, <1>6 DEF Next

\* No interleaving of decisions, expiries and completions leaves the lifecycle.
THEOREM LifecycleHolds == Spec => Lifecycle
<1>1. QED
  BY LifecycleStep, Invariance, PTL DEF Spec, Lifecycle

-----------------------------------------------------------------------------
(* The pipeline implements ApprovalGate *)

effectsBar == [a \in Actions |-> EffectsOf(a)]

\* A step that keeps targets and wire states keeps the effects.
LEMMA SameEffects ==
  ASSUME wire' = wire, target' = target
  PROVE  effectsBar' = effectsBar
BY DEF effectsBar, EffectsOf

\* The store starts as the gate does: no action, no effect.
LEMMA GateInitially == Init => Gate!GateInit
<1> SUFFICES ASSUME Init PROVE Gate!GateInit
  OBVIOUS
<1>1. \A a \in Actions : EffectsOf(a) = {}
  BY DEF Init, EffectsOf
<1>2. QED
  BY <1>1 DEF Init, Gate!GateInit

\* expire_stale maps to the simultaneous expiry of the overdue rows.
LEMMA GateExpires ==
  ASSUME IInv, ExpireStale, UNCHANGED <<tool, wire, target>>
  PROVE  Gate!GateNext
<1> DEFINE S == {a \in Actions : status[a] = "pending" /\ expiresAt[a] <= now}
<1>1. Gate!Expire(S)
  <2>1. \A a \in S : status[a] = "pending"
    OBVIOUS
  <2>2. status' = [a \in Actions |-> IF a \in S THEN "expired" ELSE status[a]]
    BY DEF ExpireStale
  <2>3. QED
    BY <2>1, <2>2, SameEffects DEF Gate!Expire, effectsBar
<1>2. S \in SUBSET Actions
  OBVIOUS
<1>3. QED
  BY <1>1, <1>2 DEF Gate!GateNext

\* The bridge serving a request maps to one more effect, or to a stutter.
LEMMA GatePerforms ==
  ASSUME IInv, NEW r \in Requests, NEW k \in Attempts, BridgeServes(r, k)
  PROVE  [Gate!GateNext]_(Gate!gateVars)
<1> DEFINE t == target[r]
<1> USE DEF IInv, TypeOK, rows, handlers, BridgeServes
<1>1. PICK w \in {"done", "refused", "lost", "unsupported"} :
        wire' = [wire EXCEPT ![r][k] = w]
  OBVIOUS
<1>2. CASE w # "done"
  <2>1. \A s \in Requests, m \in Attempts : wire'[s][m] = "done" <=> wire[s][m] = "done"
    BY <1>1, <1>2
  <2>2. effectsBar' = effectsBar
    BY <2>1 DEF effectsBar, EffectsOf
  <2>3. QED
    BY <2>2 DEF Gate!gateVars, effectsBar
<1>3. CASE w = "done"
  <2>1. \A s \in Requests, m \in Attempts :
          wire'[s][m] = "done" <=> wire[s][m] = "done" \/ <<s, m>> = <<r, k>>
    BY <1>1, <1>3
  <2>2. effectsBar' = [effectsBar EXCEPT ![t] = @ \union {<<r, k>>}]
    <3>1. ASSUME NEW a \in Actions, a # t
          PROVE  EffectsOf(a)' = EffectsOf(a)
      BY <2>1, <3>1 DEF EffectsOf
    <3>2. EffectsOf(t)' = EffectsOf(t) \union {<<r, k>>}
      BY <2>1 DEF EffectsOf
    <3>3. t \in Actions
      OBVIOUS
    <3>4. QED
      BY <3>1, <3>2, <3>3 DEF effectsBar
  <2>3. <<r, k>> \in (Requests \X Attempts) \ EffectsOf(t)
    BY DEF EffectsOf
  <2>4. \A e \in EffectsOf(t) : e[1] = r
    <3>1. EffectsOf(t) \subseteq {<<r, 1>>, <<r, 2>>}
      BY EffectsFromWinner
    <3>2. <<r, 1>>[1] = r /\ <<r, 2>>[1] = r
      OBVIOUS
    <3>3. QED
      BY ONLY <3>1, <3>2
  <2>5. status[t] \in {"approved", "executed", "failed"}
    BY DEF NothingWithoutApproval
  <2>6. Gate!Perform(t)
    <3>1. effectsBar[t] = EffectsOf(t)
      BY DEF effectsBar
    <3>2. UNCHANGED <<status, tool>>
      OBVIOUS
    <3>3. QED
      BY <2>2, <2>3, <2>4, <2>5, <3>1, <3>2 DEF Gate!Perform, effectsBar
  <2>7. QED
    BY <2>6 DEF Gate!GateNext
<1>4. QED
  BY <1>1, <1>2, <1>3

\* Recording an outcome maps to the report of it.
LEMMA GateReports ==
  ASSUME IInv, NEW r \in Requests, CompleteAction(r)
  PROVE  Gate!GateNext
<1> DEFINE t == target[r]
<1> USE DEF IInv, TypeOK, rows, handlers, CompleteAction
<1>1. status[t] = "approved" /\ effectsBar' = effectsBar
  BY SameEffects DEF HandlerInv
<1>2. CASE ok[r]
  <2>1. PICK k \in Attempts : wire[r][k] \in {"done", "unsupported"}
    BY <1>2 DEF WireInv
  <2>2. EffectsOf(t) # {} \/ tool[t] \in CallTools
    <3>1. CASE wire[r][k] = "done"
      <4>1. <<r, k>> \in EffectsOf(t)
        BY <3>1 DEF EffectsOf
      <4>2. QED
        BY <4>1
    <3>2. CASE wire[r][k] = "unsupported"
      BY <3>2 DEF WireInv
    <3>3. QED
      BY <2>1, <3>1, <3>2
  <2>3. Gate!Report(t)
    BY <1>1, <1>2, <2>2 DEF Gate!Report, Gate!Move, effectsBar
  <2>4. QED
    BY <2>3 DEF Gate!GateNext
<1>3. CASE ~ok[r]
  <2>1. Gate!Report(t)
    BY <1>1, <1>3 DEF Gate!Report, Gate!Move, effectsBar
  <2>2. QED
    BY <2>1 DEF Gate!GateNext
<1>4. QED
  BY <1>2, <1>3

\* Every step maps to a step of the gate or to a stutter.
LEMMA GateStep == IInv /\ [Next]_vars => [Gate!GateNext]_(Gate!gateVars)
<1> SUFFICES ASSUME IInv, [Next]_vars PROVE [Gate!GateNext]_(Gate!gateVars)
  OBVIOUS
<1> USE DEF IInv, TypeOK, rows, handlers
<1>1. ASSUME UNCHANGED <<status, tool, wire, target>>
      PROVE  UNCHANGED Gate!gateVars
  BY <1>1, SameEffects DEF Gate!gateVars, effectsBar
<1>2. ASSUME NEW a \in Actions, Propose(a) PROVE [Gate!GateNext]_(Gate!gateVars)
  <2>1. CASE BeginProposal(a)
    BY <2>1, GateExpires DEF BeginProposal
  <2>2. CASE CreateAction(a)
    <3>1. Gate!Propose(a)
      BY <2>2, SameEffects DEF CreateAction, Gate!Propose, Gate!Move, effectsBar
    <3>2. QED
      BY <3>1 DEF Gate!GateNext
  <2>3. CASE AuditCreated(a)
    BY <1>1, <2>3 DEF AuditCreated
  <2>4. QED
    BY <1>2, <2>1, <2>2, <2>3 DEF Propose
<1>3. ASSUME NEW r \in Requests, Decide(r) PROVE [Gate!GateNext]_(Gate!gateVars)
  <2>1. CASE BeginDecide(r)
    BY <2>1, GateExpires DEF BeginDecide
  <2>2. CASE DecideAction(r)
    <3>1. Gate!Decide(target[r])
      BY <2>2, SameEffects DEF DecideAction, Gate!Decide, Gate!Move, effectsBar
    <3>2. QED
      BY <3>1 DEF Gate!GateNext
  <2>3. CASE LoseDecision(r) \/ AuditRejected(r)
    BY <1>1, <2>3 DEF LoseDecision, AuditRejected, Answer
  <2>4. CASE AuditApproved(r)
    <3>1. wire[r][1] = "none"
      BY <2>4 DEF AuditApproved, WireInv, Attempts
    <3>2. \A s \in Requests, m \in Attempts : wire'[s][m] = "done" <=> wire[s][m] = "done"
      BY <2>4, <3>1 DEF AuditApproved, Attempts
    <3>3. effectsBar' = effectsBar
      BY <2>4, <3>2 DEF AuditApproved, effectsBar, EffectsOf
    <3>4. QED
      BY <2>4, <3>3 DEF AuditApproved, Gate!gateVars, effectsBar
  <2>5. QED
    BY <1>3, <2>1, <2>2, <2>3, <2>4 DEF Decide
<1>4. ASSUME NEW r \in Requests, CallBridge(r) PROVE [Gate!GateNext]_(Gate!gateVars)
  <2>1. CASE CallRetries(r)
    <3>1. wire[r][2] = "none"
      BY <2>1 DEF CallRetries, WireInv
    <3>2. \A s \in Requests, m \in Attempts : wire'[s][m] = "done" <=> wire[s][m] = "done"
      BY <2>1, <3>1 DEF CallRetries, Attempts
    <3>3. effectsBar' = effectsBar
      BY <2>1, <3>2 DEF CallRetries, effectsBar, EffectsOf
    <3>4. QED
      BY <2>1, <3>3 DEF CallRetries, Gate!gateVars, effectsBar
  <2>2. CASE CallAnswered(r) \/ CallTimesOut(r) \/ RetryRaises(r)
    BY <1>1, <2>2 DEF CallAnswered, CallTimesOut, RetryRaises, Answer
  <2>3. QED
    BY <1>4, <2>1, <2>2 DEF CallBridge
<1>5. ASSUME NEW r \in Requests, Complete(r) PROVE [Gate!GateNext]_(Gate!gateVars)
  <2>1. CASE CompleteAction(r)
    BY <2>1, GateReports
  <2>2. CASE AuditCompleted(r)
    BY <1>1, <2>2 DEF AuditCompleted, Answer
  <2>3. QED
    BY <1>5, <2>1, <2>2 DEF Complete
<1>6. ASSUME NEW r \in Requests, UnknownAction(r) PROVE [Gate!GateNext]_(Gate!gateVars)
  BY <1>1, <1>6 DEF UnknownAction, Answer
<1>7. ASSUME NEW r \in Requests, NEW k \in Attempts, BridgeServes(r, k)
      PROVE  [Gate!GateNext]_(Gate!gateVars)
  BY <1>7, GatePerforms
<1>8. CASE GetAction
  BY <1>8, GateExpires DEF GetAction
<1>9. CASE Tick \/ Crash \/ UNCHANGED vars
  BY <1>1, <1>9 DEF Tick, Crash, vars
<1>10. QED
  BY <1>2, <1>3, <1>4, <1>5, <1>6, <1>7, <1>8, <1>9 DEF Next

\* Whatever the handlers, the clock, the network and crashes do, the pipeline
\* behaves as the abstract gate: decided once, performed only after approval
\* and at most twice, reported as executed only if it was performed.
THEOREM Refinement == Spec => KeepsGate
<1>1. Init => Gate!GateInit
  BY GateInitially
<1>2. IInv /\ [Next]_vars => [Gate!GateNext]_(Gate!gateVars)
  BY GateStep
<1>3. QED
  BY <1>1, <1>2, Invariance, PTL DEF Spec, KeepsGate, Gate!GateSpec
=============================================================================
