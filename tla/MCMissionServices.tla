-------------------------- MODULE MCMissionServices --------------------------
(***************************************************************************)
(* The services around the mission engine.  They share no state that any   *)
(* of these modules holds: a run explores each of those in Parts on its    *)
(* own, part says which one.                                               *)
(***************************************************************************)
EXTENDS CredentialBroker, BrokerEndpoints, ApprovalGate, ProviderTurn,
        BlastRadius, FirebreakSession

CONSTANTS
  Parts,
  session, grant1, caller1, caller2, caller3,
  room1, room2, broker1, broker2,
  approval1, approval2, worker, client, key, host, other, everywhere

VARIABLE part

vars == <<part, cbVars, epVars, apVars, ptVars, blVars, fbVars>>

MCSessionOf == [g \in Grants |-> session]
MCHostOf == [r \in Rooms |-> IF r = room1 THEN broker1 ELSE broker2]
MCScopes == {[network |-> 1, credentials |-> {}, hosts |-> {host}],
             [network |-> 1, credentials |-> {}, hosts |-> {host, other}]}

MCWorld ==
  [ceiling |-> [writable |-> FALSE, network |-> "none", account |-> FALSE,
                credentials |-> FALSE, test |-> TRUE],
   walk |-> "whole", socket |-> "none", repo |-> NoRepo, grant |-> Ungranted,
   mask |-> NoMask]

\* A part that is not explored is in one fixed state and stays there.
Init ==
  /\ part \in Parts
  /\ CbInit
  /\ EpInit /\ (part # "endpoints" => dir = {})
  /\ ApInit /\ declared.hosts = {host}
  /\ PtInit /\ (part # "turn" => readOnly)
  /\ IF part = "blast" THEN BlInit ELSE world = MCWorld /\ levels = Unclassified
  /\ FbInit /\ (part # "firebreak" => want = [network |-> "none", checkpoint |-> FALSE])

Broker ==
  part = "broker" /\ CbNext /\ UNCHANGED <<part, epVars, apVars, ptVars, blVars, fbVars>>
Endpoints ==
  part = "endpoints" /\ EpNext /\ UNCHANGED <<part, cbVars, apVars, ptVars, blVars, fbVars>>
Gate ==
  part = "gate" /\ ApNext /\ UNCHANGED <<part, cbVars, epVars, ptVars, blVars, fbVars>>
Turn ==
  part = "turn" /\ PtNext /\ UNCHANGED <<part, cbVars, epVars, apVars, blVars, fbVars>>

Radius ==
  part = "blast" /\ BlNext /\ UNCHANGED <<part, cbVars, epVars, apVars, ptVars, fbVars>>
Session ==
  part = "firebreak" /\ FbNext /\ UNCHANGED <<part, cbVars, epVars, apVars, ptVars, blVars>>

Next == Broker \/ Endpoints \/ Gate \/ Turn \/ Radius \/ Session

\* CbFairness and ApFairness, each for its own part.
Fairness ==
  /\ WF_cbVars(part = "broker" /\ Serve)
  /\ WF_cbVars(part = "broker" /\ CloseQueues)
  /\ WF_cbVars(part = "broker" /\ \E c \in Callers : Handler(c))
  /\ WF_cbVars(part = "broker" /\ \E c \in Callers : DeadlinePasses(c))
  /\ WF_apVars(part = "gate" /\ WorkerLoop)
  /\ WF_apVars(part = "gate" /\ \E r \in Clients : RunStep(r))

Spec == Init /\ [][Next]_vars /\ Fairness

TypeOK == CbTypeOK /\ EpTypeOK /\ ApTypeOK /\ PtTypeOK /\ BlTypeOK /\ FbTypeOK
=============================================================================
