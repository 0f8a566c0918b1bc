----------------------------- MODULE MCDecision -----------------------------
(***************************************************************************)
(* The two parts of the decision on an invoice in one run: what its events, *)
(* rule and amounts come to, and how the clause for it is found.  They have *)
(* no variable in common, so that each is explored while the other one is   *)
(* where it began.                                                          *)
(***************************************************************************)
EXTENDS MCDetermination, MCClauseRetrieval

decisionVars == <<vars, retrievalVars>>

DecisionInit == Init /\ RetrievalInit

\* One of the initial states of Determination, for the retrieval to go on from.
AnInit == Init /\ found = {} /\ \A q \in Rates : rate <= q

DecisionNext ==
  \/ RetrievalInit /\ Next /\ UNCHANGED retrievalVars
  \/ AnInit /\ RetrievalNext /\ UNCHANGED vars

DecisionSpec == DecisionInit /\ [][DecisionNext]_decisionVars
=============================================================================
