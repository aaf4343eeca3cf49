---------------------------- MODULE ApprovalGate ----------------------------
(***************************************************************************)
(* What the approval pipeline promises the account's owner, without a      *)
(* clock, handlers, requests or an event loop.  A proposal is decided at   *)
(* most once.  Only after an approval may the mutation be performed, by    *)
(* one decider and at most once per attempt, also late: after it was       *)
(* reported as executed or failed.  It is reported as executed only when   *)
(* it was performed, or when the tool may be simulated.                    *)
(***************************************************************************)
CONSTANTS Actions, Tools, CallTools, Deciders, Attempts

VARIABLES
  status,   \* life of each proposal
  tool,     \* what it would do
  effects   \* who performed it on WhatsApp, at which attempt

gateVars == <<status, tool, effects>>

GateInit ==
  /\ status = [a \in Actions |-> "none"]
  /\ tool \in [Actions -> Tools]
  /\ effects = [a \in Actions |-> {}]

Move(a, from, to) ==
  /\ status[a] = from
  /\ status' = [status EXCEPT ![a] = to]
  /\ UNCHANGED <<tool, effects>>

Propose(a) == Move(a, "none", "pending")

Decide(a) == Move(a, "pending", "approved") \/ Move(a, "pending", "rejected")

\* Proposals expire lazily, several at once.
Expire(S) ==
  /\ \A a \in S : status[a] = "pending"
  /\ status' = [a \in Actions |-> IF a \in S THEN "expired" ELSE status[a]]
  /\ UNCHANGED <<tool, effects>>

Perform(a) ==
  /\ status[a] \in {"approved", "executed", "failed"}
  /\ \E d \in Deciders, k \in Attempts :
       /\ <<d, k>> \notin effects[a]
       /\ \A e \in effects[a] : e[1] = d
       /\ effects' = [effects EXCEPT ![a] = @ \union {<<d, k>>}]
  /\ UNCHANGED <<status, tool>>

Report(a) ==
  \/ Move(a, "approved", "failed")
  \/ /\ effects[a] # {} \/ tool[a] \in CallTools
     /\ Move(a, "approved", "executed")

GateNext ==
  \/ \E a \in Actions : Propose(a) \/ Decide(a) \/ Perform(a) \/ Report(a)
  \/ \E S \in SUBSET Actions : Expire(S)

GateSpec == GateInit /\ [][GateNext]_gateVars
=============================================================================
