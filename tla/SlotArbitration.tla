-------------------------- MODULE SlotArbitration --------------------------
(***************************************************************************)
(* ActiveActions with a history variable, to say what the check of an AP's *)
(* connection slots is worth.  The runtime can only count links it reckons *)
(* with: it forgets a connect whose caller gave up, never knew one that was*)
(* sent without waiting, and learns late of what the AP did.  Such links   *)
(* lapse; among those that never did, the check is exact.                  *)
(***************************************************************************)
EXTENDS ActiveActions

VARIABLE lapsed   \* links that an AP could make, or held, unreserved here

historyVars == << vars, lapsed >>

underway == Arrived \cup UNION {ToSet(wire[s]) : s \in Source}

(* Links that are up, may come up, or are about to be reported up. *)
possible ==
  linked \cup {LinkOf(c) : c \in Connects(atAP)} \cup Raised(underway)

(* A link lapses when it is possible at the AP and not reserved here, until*)
(* it is neither.                                                          *)
Lapse == lapsed' = (lapsed \cap (possible \cup reserved)') \cup (possible \ reserved)'

InitHistory == Init /\ lapsed = {}
NextHistory == Next /\ Lapse
SpecHistory == InitHistory /\ [][NextHistory]_historyVars
FairSpecHistory == SpecHistory /\ Fairness

(* The slot check holds against everything that is awaited in between: more*)
(* devices than slots are reserved only when links lapsed, that is, were   *)
(* possible at the AP while the runtime did not reckon with them           *)
(* (_local_connect_slot_response).                                         *)
SlotsRespected ==
  \A s \in Source : Cardinality({l \in reserved \ lapsed : l[1] = s}) <= Slots

=============================================================================
