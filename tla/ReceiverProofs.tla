--------------------------- MODULE ReceiverProofs ---------------------------
(***************************************************************************)
(* Proofs about Receiver: the routing table is consistent, the runtime is  *)
(* told of every loss and sends take turns, for any number of connections, *)
(* sources and sends.                                                      *)
(***************************************************************************)
EXTENDS Receiver, SequenceFacts, FiniteSetTheorems

(* The conjunction is inductive: each conjunct needs those before it.      *)
RoutingInvariant ==
  /\ TypeOK
  /\ RoutesConsistent
  /\ NoRouteToFinished
  /\ RuntimeToldOfLosses
  /\ PlacesAccountedFor
  /\ StrikesLeft
  /\ SendLocksFollowRoutes

(* What the routing invariant says of the variables that only sends change *)
(* is their type.                                                          *)
SendTypeOK ==
  /\ lockLine            \in [Send -> Seq(Send)]
  /\ sendSource          \in [Send -> Source \cup {None}]
  /\ sendConn            \in [Send -> Conn \cup {None}]
  /\ sendState           \in [Send -> {"idle", "active", "sent", "failed", "cancelled"}]

ConnTypeOK ==
  /\ phase               \in [Conn -> Phase]
  /\ activeConnections   \in SUBSET Conn
  /\ textMessages        \in [Conn -> 0 .. MaxTextMessages]
  /\ decodeErrors        \in [Conn -> 0 .. MaxDecodeErrors]

RouteTypeOK ==
  /\ connectionsBySource \in [Source -> Conn \cup {None}]
  /\ sourcesByConnection \in [Conn -> SUBSET Source]
  /\ known               \in SUBSET Source
  /\ displaced           \in SUBSET (Conn \X Source)
  /\ orphaned            \in SUBSET (Conn \X Source)

LEMMA TypeParts ==
  TypeOK <=> ConnTypeOK /\ RouteTypeOK /\ SendTypeOK
             /\ sendLocks \in [Source -> Send \cup {None}]
BY DEF TypeOK, ConnTypeOK, RouteTypeOK, SendTypeOK

(* Frames that bind nothing: only the phase, the strikes and the places    *)
(* change, and a connection that is read from stays a running one.         *)
LEMMA UnroutedStep ==
  ASSUME RoutingInvariant, NEW w \in Conn,
         \/ Refuse(w) \/ Admit(w) \/ FinishRejection(w) \/ TextMessage(w)
         \/ RejectedMessage(w) \/ UndecodableMessage(w) \/ HandlersReturn(w)
         \/ \E s \in Source : TelemetryOverSourceLimit(w, s)
  PROVE  RoutingInvariant'
<1> USE LimitAssumption DEF GoTo, routeVars, sendVars, RoutingInvariant, Phase
<1>1. UNCHANGED << routeVars, sendLocks, sendVars >>
  BY DEF Refuse, Admit, FinishRejection, TextMessage, RejectedMessage,
         UndecodableMessage, HandlersReturn, TelemetryOverSourceLimit
<1>2. ConnTypeOK
  BY TypeParts
<1>3. \/ Refuse(w) /\ phase[w] = "new" /\ phase'[w] = "refused"
      \/ Admit(w) /\ phase[w] = "new" /\ phase'[w] \in {"open", "misrouted"}
      \/ FinishRejection(w) /\ phase[w] \in {"refused", "misrouted"} /\ phase'[w] = "closed"
      \/ /\ UNCHANGED activeConnections
         /\ phase[w] \in {"open", "handling"}
         /\ phase'[w] \in {"open", "closing"}
  BY <1>2 DEF ConnTypeOK, Refuse, Admit, FinishRejection, TextMessage, RejectedMessage,
         UndecodableMessage, HandlersReturn, TelemetryOverSourceLimit
<1>4. phase' \in [Conn -> Phase] /\ \A v \in Conn \ {w} : phase'[v] = phase[v]
  BY <1>2 DEF ConnTypeOK, Refuse, Admit, FinishRejection, TextMessage, RejectedMessage,
         UndecodableMessage, HandlersReturn, TelemetryOverSourceLimit
<1>5. /\ activeConnections' \in SUBSET Conn
      /\ PlacesAccountedFor'
  BY <1>2, <1>3, <1>4 DEF ConnTypeOK, PlacesAccountedFor, Refuse, Admit, FinishRejection
<1>6. /\ textMessages' \in [Conn -> 0 .. MaxTextMessages]
      /\ \A v \in Conn : phase'[v] \notin {"closing", "closed"} => textMessages'[v] < MaxTextMessages
  <2>1. CASE TextMessage(w)
    BY <1>2, <1>4, <2>1 DEF ConnTypeOK, TextMessage, StrikesLeft
  <2>2. CASE UNCHANGED textMessages
    BY <1>2, <1>3, <1>4, <2>2 DEF ConnTypeOK, StrikesLeft
  <2>. QED
    BY <2>1, <2>2 DEF Refuse, Admit, FinishRejection, RejectedMessage,
       UndecodableMessage, HandlersReturn, TelemetryOverSourceLimit
<1>7. /\ decodeErrors' \in [Conn -> 0 .. MaxDecodeErrors]
      /\ \A v \in Conn : phase'[v] \notin {"closing", "closed"} => decodeErrors'[v] < MaxDecodeErrors
  <2>1. CASE UndecodableMessage(w)
    BY <1>2, <1>4, <2>1 DEF ConnTypeOK, UndecodableMessage, StrikesLeft
  <2>2. CASE UNCHANGED decodeErrors
    BY <1>2, <1>3, <1>4, <2>2 DEF ConnTypeOK, StrikesLeft
  <2>. QED
    BY <2>1, <2>2 DEF Refuse, Admit, FinishRejection, RejectedMessage,
       TextMessage, HandlersReturn, TelemetryOverSourceLimit
<1>8. TypeOK'
  <2>1. ConnTypeOK'
    BY <1>4, <1>5, <1>6, <1>7 DEF ConnTypeOK
  <2>2. RouteTypeOK' /\ SendTypeOK' /\ (sendLocks \in [Source -> Send \cup {None}])'
    BY <1>1, TypeParts DEF RouteTypeOK, SendTypeOK
  <2>. QED
    BY <2>1, <2>2 DEF TypeOK, ConnTypeOK, RouteTypeOK, SendTypeOK
<1>9. RoutesConsistent' /\ RuntimeToldOfLosses' /\ SendLocksFollowRoutes'
  BY <1>1 DEF RoutesConsistent, RuntimeToldOfLosses, connectedSources, SendLocksFollowRoutes
<1>10. NoRouteToFinished'
  <2>1. connectionsBySource \in [Source -> Conn \cup {None}] /\ UNCHANGED connectionsBySource
    BY <1>1 DEF TypeOK
  <2>. QED
    BY <1>3, <1>4, <2>1 DEF NoRouteToFinished
<1>11. StrikesLeft'
  BY <1>6, <1>7 DEF StrikesLeft
<1>. QED
  BY <1>5, <1>8, <1>9, <1>10, <1>11

(* Binding moves one source to w and leaves every other pair alone.        *)
LEMMA TelemetryStep ==
  ASSUME RoutingInvariant, NEW w \in Conn, NEW s \in Source, Telemetry(w, s)
  PROVE  RoutingInvariant'
<1> USE NoneAssumption DEF RoutingInvariant
<1>1. /\ phase[w] = "open"
      /\ phase' = [phase EXCEPT ![w] = "handling"]
      /\ known' = known \cup {s}
      /\ connectionsBySource' = [connectionsBySource EXCEPT ![s] = w]
      /\ UNCHANGED << activeConnections, textMessages, decodeErrors, orphaned, sendLocks, sendVars >>
  BY DEF Telemetry, BindSource, GoTo
<1>2. \A v \in Conn : sourcesByConnection'[v] =
        IF v = w THEN sourcesByConnection[v] \cup {s}
        ELSE IF v = connectionsBySource[s] THEN sourcesByConnection[v] \ {s}
        ELSE sourcesByConnection[v]
  BY DEF Telemetry, BindSource
<1>3. ConnTypeOK /\ RouteTypeOK /\ SendTypeOK /\ sendLocks \in [Source -> Send \cup {None}]
  BY TypeParts
<1>4. ConnTypeOK'
  BY <1>1, <1>3 DEF ConnTypeOK, Phase
<1>5. RouteTypeOK'
  <2>1. sourcesByConnection' \in [Conn -> SUBSET Source]
    BY <1>3 DEF RouteTypeOK, Telemetry, BindSource
  <2>2. displaced' \in SUBSET (Conn \X Source)
    BY <1>3 DEF RouteTypeOK, Telemetry, BindSource
  <2>. QED
    BY <1>1, <1>3, <2>1, <2>2 DEF RouteTypeOK
<1>6. TypeOK'
  <2>1. SendTypeOK' /\ (sendLocks \in [Source -> Send \cup {None}])'
    BY <1>1, <1>3 DEF SendTypeOK, sendVars
  <2>. QED
    BY <1>4, <1>5, <2>1 DEF TypeOK, ConnTypeOK, RouteTypeOK, SendTypeOK
<1>7. RoutesConsistent'
  <2> SUFFICES ASSUME NEW t \in Source, NEW v \in Conn
               PROVE  connectionsBySource'[t] = v <=> t \in sourcesByConnection'[v]
    BY DEF RoutesConsistent
  <2>1. connectionsBySource[t] = v <=> t \in sourcesByConnection[v]
    BY DEF RoutesConsistent
  <2>2. CASE t = s
    BY <1>1, <1>2, <1>3, <2>1, <2>2 DEF RouteTypeOK
  <2>3. CASE t # s
    <3>1. connectionsBySource'[t] = connectionsBySource[t]
      BY <1>1, <1>3, <2>3 DEF RouteTypeOK
    <3>2. t \in sourcesByConnection'[v] <=> t \in sourcesByConnection[v]
      <4> HIDE DEF RoutingInvariant
      <4>. QED
        BY <1>2, <2>3
    <3>. QED
      BY <2>1, <3>1, <3>2
  <2>. QED
    BY <2>2, <2>3
<1>8. NoRouteToFinished'
  BY <1>1, <1>3 DEF NoRouteToFinished, RouteTypeOK, ConnTypeOK
<1>9. RuntimeToldOfLosses'
  BY <1>1, <1>3 DEF RuntimeToldOfLosses, connectedSources, RouteTypeOK
<1>10. PlacesAccountedFor' /\ StrikesLeft'
  BY <1>1, <1>3 DEF PlacesAccountedFor, StrikesLeft, ConnTypeOK
<1>11. SendLocksFollowRoutes'
  BY <1>1, <1>3 DEF SendLocksFollowRoutes, RouteTypeOK
<1>. QED
  BY <1>6, <1>7, <1>8, <1>9, <1>10, <1>11

(* The `finally` block removes exactly the routes that point to w.         *)
LEMMA FinishStep ==
  ASSUME RoutingInvariant, NEW w \in Conn, Finish(w)
  PROVE  RoutingInvariant'
<1> USE NoneAssumption DEF RoutingInvariant
<1>1. /\ phase' = [phase EXCEPT ![w] = "closed"]
      /\ activeConnections' = activeConnections \ {w}
      /\ known' = known \ LostWith(w)
      /\ sourcesByConnection' = [sourcesByConnection EXCEPT ![w] = {}]
      /\ orphaned' \in SUBSET (orphaned \cup displaced)
      /\ UNCHANGED << textMessages, decodeErrors, displaced, sendVars >>
  BY DEF Finish, ForgetConnection, GoTo
<1>2. \A s \in Source :
        /\ connectionsBySource'[s] = IF s \in LostWith(w) THEN None ELSE connectionsBySource[s]
        /\ sendLocks'[s] = IF s \in LostWith(w) THEN None ELSE sendLocks[s]
  BY DEF Finish, ForgetConnection
<1>3. ConnTypeOK /\ RouteTypeOK /\ SendTypeOK /\ sendLocks \in [Source -> Send \cup {None}]
  BY TypeParts
<1>4. \A s \in Source : s \in LostWith(w) <=> connectionsBySource[s] = w
  BY DEF LostWith, RoutesConsistent
<1>5. TypeOK'
  <2>1. ConnTypeOK'
    BY <1>1, <1>3 DEF ConnTypeOK, Phase
  <2>2. connectionsBySource' \in [Source -> Conn \cup {None}]
        /\ sendLocks' \in [Source -> Send \cup {None}]
    BY <1>3 DEF Finish, ForgetConnection, RouteTypeOK
  <2>3. RouteTypeOK' /\ SendTypeOK'
    BY <1>1, <1>3, <2>2 DEF RouteTypeOK, SendTypeOK, sendVars
  <2>. QED
    BY <2>1, <2>2, <2>3 DEF TypeOK, ConnTypeOK, RouteTypeOK, SendTypeOK
<1>6. RoutesConsistent'
  <2> SUFFICES ASSUME NEW t \in Source, NEW v \in Conn
               PROVE  connectionsBySource'[t] = v <=> t \in sourcesByConnection'[v]
    BY DEF RoutesConsistent
  <2>1. connectionsBySource[t] = v <=> t \in sourcesByConnection[v]
    BY DEF RoutesConsistent
  <2>. QED
    BY <1>1, <1>2, <1>3, <1>4, <2>1 DEF RouteTypeOK
<1>7. NoRouteToFinished'
  BY <1>1, <1>2, <1>3, <1>4 DEF NoRouteToFinished, ConnTypeOK, RouteTypeOK
<1>8. RuntimeToldOfLosses'
  BY <1>1, <1>2, <1>4 DEF RuntimeToldOfLosses, connectedSources
<1>9. PlacesAccountedFor' /\ StrikesLeft'
  BY <1>1, <1>3 DEF PlacesAccountedFor, StrikesLeft, ConnTypeOK
<1>10. SendLocksFollowRoutes'
  BY <1>2 DEF SendLocksFollowRoutes
<1>. QED
  BY <1>5, <1>6, <1>7, <1>8, <1>9, <1>10

(* A send looks the route up and never changes it; the one lock it may     *)
(* make is for a source that has a route.                                  *)
LEMMA SendStep ==
  ASSUME RoutingInvariant, NEW m \in Send,
         \/ \E s \in Source : SendUnrouted(m, s) \/ SendStart(m, s)
         \/ SendSucceeds(m) \/ SendFails(m) \/ SendCancelledInLine(m)
  PROVE  RoutingInvariant'
<1> USE DEF RoutingInvariant
<1>1. ConnTypeOK /\ RouteTypeOK /\ SendTypeOK /\ sendLocks \in [Source -> Send \cup {None}]
  BY TypeParts
<1>2. UNCHANGED << connVars, routeVars >>
  BY DEF SendUnrouted, SendStart, SendSucceeds, SendFails, SendCancelledInLine
<1>3. \A k \in Send : lockLine[k] # << >> => Tail(lockLine[k]) \in Seq(Send)
  BY <1>1, HeadTailProperties DEF SendTypeOK
<1>4. SendTypeOK' /\ sendLocks' \in [Source -> Send \cup {None}] /\ SendLocksFollowRoutes'
  <2>1. CASE \E s \in Source : SendUnrouted(m, s)
    BY <1>1, <2>1 DEF SendUnrouted, SendTypeOK, SendLocksFollowRoutes, routeVars
  <2>2. ASSUME NEW s \in Source, SendStart(m, s)
        PROVE  SendTypeOK' /\ sendLocks' \in [Source -> Send \cup {None}] /\ SendLocksFollowRoutes'
    <3>1. LockFor(m, s) \in Send
      BY <1>1 DEF LockFor
    <3>2. Append(lockLine[LockFor(m, s)], m) \in Seq(Send)
      BY <1>1, <3>1, AppendProperties DEF SendTypeOK
    <3>3. connectionsBySource[s] \in Conn
      BY <1>1, <2>2 DEF SendStart, RouteTypeOK
    <3>4. SendTypeOK'
      BY <1>1, <2>2, <3>1, <3>2, <3>3 DEF SendStart, SendTypeOK
    <3>5. sendLocks' \in [Source -> Send \cup {None}]
      BY <1>1, <2>2, <3>1 DEF SendStart
    <3>6. SendLocksFollowRoutes'
      BY <1>1, <1>2, <2>2 DEF SendStart, SendLocksFollowRoutes, routeVars
    <3>. QED
      BY <3>4, <3>5, <3>6
  <2>3. CASE SendSucceeds(m)
    BY <1>1, <1>3, <2>3 DEF SendSucceeds, Release, SendTypeOK, SendLocksFollowRoutes, routeVars
  <2>4. CASE SendFails(m)
    BY <1>1, <1>3, <2>4 DEF SendFails, Release, SendTypeOK, SendLocksFollowRoutes, routeVars
  <2>5. CASE SendCancelledInLine(m)
    <3>0. PICK k \in Send :
            \E i \in DOMAIN lockLine[k] :
              lockLine' = [lockLine EXCEPT ![k] = RemoveAt(lockLine[k], i)]
      BY <1>1, <2>5 DEF SendCancelledInLine, SendTypeOK
    <3>1. PICK i \in DOMAIN lockLine[k] :
            lockLine' = [lockLine EXCEPT ![k] = RemoveAt(lockLine[k], i)]
      BY <3>0
    <3>5. RemoveAt(lockLine[k], i) \in Seq(Send)
      BY <1>1, LineSets DEF SendTypeOK
    <3>6. lockLine' \in [Send -> Seq(Send)]
      BY <1>1, <3>1, <3>5 DEF SendTypeOK
    <3>. QED
      BY <1>1, <2>5, <3>6 DEF SendCancelledInLine, SendTypeOK, SendLocksFollowRoutes, routeVars
  <2>. QED
    BY <2>1, <2>2, <2>3, <2>4, <2>5
<1>5. ConnTypeOK' /\ RouteTypeOK'
  BY <1>1, <1>2 DEF ConnTypeOK, RouteTypeOK, connVars, routeVars
<1>6. TypeOK'
  BY <1>4, <1>5 DEF TypeOK, ConnTypeOK, RouteTypeOK, SendTypeOK
<1>7. RoutesConsistent' /\ RuntimeToldOfLosses' /\ PlacesAccountedFor' /\ StrikesLeft'
  BY <1>2 DEF RoutesConsistent, RuntimeToldOfLosses, connectedSources, PlacesAccountedFor,
              StrikesLeft, connVars, routeVars
<1>8. NoRouteToFinished'
  <2>1. UNCHANGED phase /\ UNCHANGED connectionsBySource
    BY <1>2 DEF connVars, routeVars
  <2>. QED
    BY <2>1 DEF NoRouteToFinished
<1>. QED
  BY <1>4, <1>6, <1>7, <1>8

LEMMA StutteringStep == RoutingInvariant /\ UNCHANGED vars => RoutingInvariant'
<1> SUFFICES ASSUME RoutingInvariant, UNCHANGED vars PROVE RoutingInvariant'
  OBVIOUS
<1>1. UNCHANGED << connVars, routeVars, sendLocks, sendVars >>
  BY DEF vars
<1>2. TypeOK'
  BY <1>1 DEF RoutingInvariant, TypeOK, connVars, routeVars, sendVars
<1>3. RoutesConsistent' /\ NoRouteToFinished' /\ RuntimeToldOfLosses'
  BY <1>1 DEF RoutingInvariant, RoutesConsistent, NoRouteToFinished, RuntimeToldOfLosses,
              connectedSources, connVars, routeVars
<1>4. PlacesAccountedFor' /\ StrikesLeft' /\ SendLocksFollowRoutes'
  BY <1>1 DEF RoutingInvariant, PlacesAccountedFor, StrikesLeft, SendLocksFollowRoutes,
              connVars, routeVars
<1>. QED
  BY <1>2, <1>3, <1>4 DEF RoutingInvariant

LEMMA InitRouting == Init => RoutingInvariant
<1> SUFFICES ASSUME Init PROVE RoutingInvariant
  OBVIOUS
<1>1. TypeOK
  BY EmptySeq, LimitAssumption DEF Init, TypeOK, Phase
<1>. QED
  BY <1>1, NoneAssumption, LimitAssumption
     DEF Init, RoutingInvariant, RoutesConsistent, NoRouteToFinished, RuntimeToldOfLosses,
         connectedSources, PlacesAccountedFor, StrikesLeft, SendLocksFollowRoutes

(* Every reachable state satisfies the routing invariant. *)
THEOREM RoutingIsInvariant == Spec => []RoutingInvariant
<1>1. RoutingInvariant /\ [Next]_vars => RoutingInvariant'
  <2> SUFFICES ASSUME RoutingInvariant, Next PROVE RoutingInvariant'
    BY StutteringStep
  <2>1. ASSUME NEW w \in Conn,
               \/ Refuse(w) \/ Admit(w) \/ FinishRejection(w) \/ TextMessage(w)
               \/ RejectedMessage(w) \/ UndecodableMessage(w) \/ HandlersReturn(w)
               \/ \E s \in Source : TelemetryOverSourceLimit(w, s)
        PROVE  RoutingInvariant'
    BY <2>1, UnroutedStep
  <2>2. ASSUME NEW w \in Conn, NEW s \in Source, Telemetry(w, s)
        PROVE  RoutingInvariant'
    BY <2>2, TelemetryStep
  <2>3. ASSUME NEW w \in Conn, Finish(w)
        PROVE  RoutingInvariant'
    BY <2>3, FinishStep
  <2>4. ASSUME NEW m \in Send,
               \/ \E s \in Source : SendUnrouted(m, s) \/ SendStart(m, s)
               \/ SendSucceeds(m) \/ SendFails(m) \/ SendCancelledInLine(m)
        PROVE  RoutingInvariant'
    BY <2>4, SendStep
  <2>. QED
    BY <2>1, <2>2, <2>3, <2>4 DEF Next
<1>. QED
  BY InitRouting, <1>1, PTL DEF Spec

(* The two routing dictionaries always agree. *)
THEOREM RoutesStayConsistent == Spec => []RoutesConsistent
BY RoutingIsInvariant, PTL DEF RoutingInvariant

(* No route outlives the handler of the connection it points to. *)
THEOREM RoutesEndWithConnections == Spec => []NoRouteToFinished
BY RoutingIsInvariant, PTL DEF RoutingInvariant

(* The runtime's view of the connected sources is the routing table's. *)
THEOREM LossesAreReported == Spec => []RuntimeToldOfLosses
BY RoutingIsInvariant, PTL DEF RoutingInvariant

(* Every place counted against MAX_CONNECTIONS is held by a running handler.*)
THEOREM PlacesDoNotLeak == Spec => []PlacesAccountedFor
BY RoutingIsInvariant, PTL DEF RoutingInvariant

(* No order of bad frames and good telemetry outlives the strike limits. *)
THEOREM StrikesAreLeft == Spec => []StrikesLeft
BY RoutingIsInvariant, PTL DEF RoutingInvariant

(* A send lock is in the dictionary only while its source has a route. *)
THEOREM SendLocksEndWithRoutes == Spec => []SendLocksFollowRoutes
BY RoutingIsInvariant, PTL DEF RoutingInvariant

(* Connections, routes and sends keep their types. *)
THEOREM ReceiverTypeOK == Spec => []TypeOK
BY RoutingIsInvariant, PTL DEF RoutingInvariant

-----------------------------------------------------------------------------
(* The limits.  Only finitely many places and routes are ever taken.       *)

WithinLimits ==
  /\ IsFiniteSet(activeConnections) /\ IsFiniteSet(connectedSources)
  /\ LimitsHold

LEMMA FewerIsWithin ==
  ASSUME NEW S, IsFiniteSet(S), NEW n \in Nat, Cardinality(S) <= n, NEW T \in SUBSET S
  PROVE  IsFiniteSet(T) /\ Cardinality(T) <= n
<1>1. /\ IsFiniteSet(T) /\ Cardinality(T) <= Cardinality(S)
      /\ Cardinality(S) \in Nat /\ Cardinality(T) \in Nat
  BY FS_Subset, FS_CardinalityType
<1>. QED
  BY <1>1

LEMMA OneMoreIsWithin ==
  ASSUME NEW S, IsFiniteSet(S), NEW n \in Nat, Cardinality(S) < n, NEW x
  PROVE  IsFiniteSet(S \cup {x}) /\ Cardinality(S \cup {x}) <= n
<1>1. /\ IsFiniteSet(S \cup {x}) /\ Cardinality(S) \in Nat
      /\ Cardinality(S \cup {x}) = IF x \in S THEN Cardinality(S) ELSE Cardinality(S) + 1
  BY FS_AddElement, FS_CardinalityType
<1>. QED
  BY <1>1

LEMMA PlacesStayWithin ==
  ASSUME WithinLimits, [Next]_vars
  PROVE  IsFiniteSet(activeConnections') /\ Cardinality(activeConnections') <= MaxConnections
<1>1. CASE activeConnections' \subseteq activeConnections
  BY <1>1, LimitAssumption, FewerIsWithin DEF WithinLimits, LimitsHold
<1>2. ASSUME NEW w \in Conn, Admit(w)
      PROVE  IsFiniteSet(activeConnections') /\ Cardinality(activeConnections') <= MaxConnections
  BY <1>2, LimitAssumption, OneMoreIsWithin DEF WithinLimits, Admit
<1>3. \/ activeConnections' \subseteq activeConnections
      \/ \E w \in Conn : Admit(w)
  BY DEF Next, Refuse, FinishRejection, TextMessage, RejectedMessage, UndecodableMessage,
         Telemetry, TelemetryOverSourceLimit, HandlersReturn, Finish, SendUnrouted, SendStart,
         SendSucceeds, SendFails, SendCancelledInLine, vars, connVars
<1>. QED
  BY <1>1, <1>2, <1>3

LEMMA SourcesStayWithin ==
  ASSUME TypeOK, WithinLimits, [Next]_vars
  PROVE  IsFiniteSet(connectedSources') /\ Cardinality(connectedSources') <= MaxSources
<1>1. CASE connectedSources' \subseteq connectedSources
  BY <1>1, LimitAssumption, FewerIsWithin DEF WithinLimits, LimitsHold
<1>2. ASSUME NEW w \in Conn, NEW s \in Source, Telemetry(w, s)
      PROVE  IsFiniteSet(connectedSources') /\ Cardinality(connectedSources') <= MaxSources
  <2>1. connectedSources' \subseteq connectedSources \cup {s}
    BY <1>2 DEF Telemetry, BindSource, connectedSources, TypeOK
  <2>2. CASE connectionsBySource[s] # None
    <3>1. connectedSources' \subseteq connectedSources
      BY <2>1, <2>2 DEF connectedSources
    <3>. QED
      BY <1>1, <3>1
  <2>3. CASE connectionsBySource[s] = None
    <3>1. ~ (Cardinality(connectedSources) >= MaxSources)
      BY <1>2, <2>3 DEF Telemetry, SourceLimitReached
    <3>2. Cardinality(connectedSources) \in Nat
      BY FS_CardinalityType DEF WithinLimits
    <3>3. Cardinality(connectedSources) < MaxSources
      BY <3>1, <3>2, LimitAssumption
    <3>4. /\ IsFiniteSet(connectedSources \cup {s})
          /\ Cardinality(connectedSources \cup {s}) <= MaxSources
      BY <3>3, LimitAssumption, OneMoreIsWithin DEF WithinLimits
    <3>. QED
      BY <2>1, <3>4, LimitAssumption, FewerIsWithin
  <2>. QED
    BY <2>2, <2>3
<1>3. ASSUME NEW w \in Conn, Finish(w)
      PROVE  connectedSources' \subseteq connectedSources
  BY <1>3 DEF Finish, ForgetConnection, connectedSources
<1>4. \/ connectionsBySource' = connectionsBySource
      \/ \E w \in Conn : Finish(w) \/ \E s \in Source : Telemetry(w, s)
  BY DEF Next, Refuse, Admit, FinishRejection, TextMessage, RejectedMessage,
         UndecodableMessage, TelemetryOverSourceLimit, HandlersReturn, SendUnrouted, SendStart,
         SendSucceeds, SendFails, SendCancelledInLine, vars, routeVars
<1>5. CASE connectionsBySource' = connectionsBySource
  BY <1>1, <1>5 DEF connectedSources
<1>. QED
  BY <1>1, <1>2, <1>3, <1>4, <1>5

(* MAX_CONNECTIONS and MAX_SOURCES are never exceeded, whatever is awaited *)
(* between the comparison and the next one.                                *)
THEOREM LimitsAreKept == Spec => []LimitsHold
<1>1. Init => WithinLimits
  <2> SUFFICES ASSUME Init PROVE WithinLimits
    OBVIOUS
  <2>1. activeConnections = {} /\ connectedSources = {}
    BY DEF Init, connectedSources
  <2>2. IsFiniteSet({}) /\ Cardinality({}) = 0
    BY FS_EmptySet
  <2>. QED
    BY <2>1, <2>2, LimitAssumption DEF WithinLimits, LimitsHold
<1>2. TypeOK /\ WithinLimits /\ [Next]_vars => WithinLimits'
  BY PlacesStayWithin, SourcesStayWithin DEF WithinLimits, LimitsHold
<1>3. WithinLimits => LimitsHold
  BY DEF WithinLimits
<1>. QED
  BY <1>1, <1>2, <1>3, ReceiverTypeOK, PTL DEF Spec

-----------------------------------------------------------------------------
(* Send locks.  The routing invariant leaves open that a lock is dropped,  *)
(* and another made, while sends still wait for the first.                 *)

InLine(m, k) == m \in ToSet(lockLine[k])

QueuedHaveStarted ==
  \A k, m \in Send : InLine(m, k) =>
    sendState[m] # "idle" /\ sendSource[m] \in Source /\ sendConn[m] \in Conn

Orphan(m) == << sendConn[m], sendSource[m] >> \in orphaned

(* A send waits for the lock its source has now, and its socket has the    *)
(* route or has been displaced, unless that socket is finished or was      *)
(* displaced when the route went.                                          *)
QueuedAtRoute ==
  \A k, m \in Send : InLine(m, k) =>
    \/ /\ sendLocks[sendSource[m]] = k
       /\ \/ connectionsBySource[sendSource[m]] = sendConn[m]
          \/ << sendConn[m], sendSource[m] >> \in displaced
    \/ Orphan(m)
    \/ phase[sendConn[m]] = "closed"

(* Sends of one source to one socket are in one line. *)
OneLinePerSocket ==
  \A k, l, m, n \in Send :
    InLine(m, k) /\ InLine(n, l) /\ sendSource[m] = sendSource[n] /\ sendConn[m] = sendConn[n]
      => k = l \/ Orphan(m)

SendInvariant ==
  /\ QueuedHaveStarted
  /\ QueuedAtRoute
  /\ OneLinePerSocket

(* Nobody new in any line, and no route moved: nothing to show. *)
LEMMA LinesOnlyShrink ==
  ASSUME SendInvariant,
         UNCHANGED << connectionsBySource, displaced, orphaned, sendLocks, sendSource, sendConn >>,
         \A v \in Conn : phase[v] = "closed" => phase'[v] = "closed",
         \A m \in Send : sendState[m] # "idle" => sendState'[m] # "idle",
         \A k \in Send : ToSet(lockLine'[k]) \subseteq ToSet(lockLine[k])
  PROVE  SendInvariant'
<1>1. \A k, m \in Send : InLine(m, k)' => InLine(m, k)
  BY DEF InLine
<1>2. QueuedHaveStarted'
  BY <1>1 DEF SendInvariant, QueuedHaveStarted
<1>3. QueuedAtRoute'
  <2> SUFFICES ASSUME NEW k \in Send, NEW m \in Send, InLine(m, k)'
               PROVE  \/ /\ sendLocks[sendSource[m]] = k
                         /\ \/ connectionsBySource[sendSource[m]] = sendConn[m]
                            \/ << sendConn[m], sendSource[m] >> \in displaced
                      \/ Orphan(m)
                      \/ phase'[sendConn[m]] = "closed"
    BY DEF QueuedAtRoute, Orphan
  <2>. QED
    BY <1>1 DEF SendInvariant, QueuedAtRoute, QueuedHaveStarted
<1>4. OneLinePerSocket'
  BY <1>1 DEF SendInvariant, OneLinePerSocket, Orphan
<1>. QED
  BY <1>2, <1>3, <1>4 DEF SendInvariant

(* A send joins the line of the lock that everybody who sends for this     *)
(* source to this socket joined before it.                                 *)
LEMMA SendStartKeepsLines ==
  ASSUME RoutingInvariant, SendInvariant, NEW m \in Send, NEW s \in Source, SendStart(m, s)
  PROVE  SendInvariant'
<1> DEFINE k == LockFor(m, s)
           w == connectionsBySource[s]
<1>1. /\ sendState[m] = "idle" /\ w # None
      /\ sendState'  = [sendState EXCEPT ![m] = "active"]
      /\ sendSource' = [sendSource EXCEPT ![m] = s]
      /\ sendConn'   = [sendConn EXCEPT ![m] = w]
      /\ sendLocks'  = [sendLocks EXCEPT ![s] = k]
      /\ lockLine'   = [lockLine EXCEPT ![k] = Append(@, m)]
      /\ UNCHANGED << connectionsBySource, displaced, orphaned, phase >>
  BY DEF SendStart, connVars, routeVars
<1>2. /\ SendTypeOK /\ RouteTypeOK /\ sendLocks \in [Source -> Send \cup {None}]
  BY TypeParts DEF RoutingInvariant
<1>3. k \in Send /\ w \in Conn /\ (sendLocks[s] # None => k = sendLocks[s])
  BY <1>1, <1>2, NoneAssumption DEF LockFor, RouteTypeOK
<1>4. phase[w] # "closed"
  BY <1>1 DEF RoutingInvariant, NoRouteToFinished
<1>5. /\ \A n \in Send \ {m} : sendSource'[n] = sendSource[n] /\ sendConn'[n] = sendConn[n]
                               /\ sendState'[n] = sendState[n]
      /\ sendSource'[m] = s /\ sendConn'[m] = w /\ sendState'[m] = "active"
      /\ sendLocks'[s] = k /\ \A t \in Source \ {s} : sendLocks'[t] = sendLocks[t]
  BY <1>1, <1>2 DEF SendTypeOK
<1>6. \A n, l \in Send : InLine(n, l) => n # m
  BY <1>1 DEF SendInvariant, QueuedHaveStarted
<1>7. \A n, l \in Send : InLine(n, l)' <=> InLine(n, l) \/ (n = m /\ l = k)
  <2>1. ToSet(Append(lockLine[k], m)) = ToSet(lockLine[k]) \cup {m}
    BY <1>2, <1>3, LineSets DEF SendTypeOK
  <2>2. lockLine'[k] = Append(lockLine[k], m) /\ \A l \in Send \ {k} : lockLine'[l] = lockLine[l]
    BY <1>1, <1>2, <1>3 DEF SendTypeOK
  <2>. QED
    BY <2>1, <2>2 DEF InLine
<1> HIDE DEF k, w
<1>8. \A n, l \in Send : InLine(n, l) /\ sendSource[n] = s /\ sendConn[n] = w =>
        l = k \/ << w, s >> \in orphaned
  <2> SUFFICES ASSUME NEW n \in Send, NEW l \in Send, InLine(n, l), sendSource[n] = s, sendConn[n] = w,
                      << w, s >> \notin orphaned
               PROVE  l = k
    OBVIOUS
  <2>1. sendLocks[s] = l
    BY <1>4 DEF SendInvariant, QueuedAtRoute, Orphan
  <2>2. sendLocks[s] # None
    BY <2>1, NoneAssumption
  <2>. QED
    BY <1>3, <2>1, <2>2
<1>9. QueuedHaveStarted'
  BY <1>3, <1>5, <1>6, <1>7 DEF SendInvariant, QueuedHaveStarted
<1>10. QueuedAtRoute'
  <2> SUFFICES ASSUME NEW l \in Send, NEW n \in Send, InLine(n, l)'
               PROVE  \/ /\ sendLocks'[sendSource'[n]] = l
                         /\ \/ connectionsBySource[sendSource'[n]] = sendConn'[n]
                            \/ << sendConn'[n], sendSource'[n] >> \in displaced
                      \/ << sendConn'[n], sendSource'[n] >> \in orphaned
                      \/ phase[sendConn'[n]] = "closed"
    BY <1>1 DEF QueuedAtRoute, Orphan
  <2>1. CASE n = m
    <3>1. l = k
      BY <1>6, <1>7, <2>1
    <3>. QED
      BY <1>5, <2>1, <3>1 DEF w
  <2>2. CASE n # m
    <3>1. InLine(n, l) /\ sendSource[n] \in Source
      BY <1>7, <2>2 DEF SendInvariant, QueuedHaveStarted
    <3>2. CASE sendLocks[sendSource[n]] = l
      <4>1. sendSource[n] = s => l = k
        BY <1>3, <3>2, NoneAssumption
      <4>2. sendLocks'[sendSource'[n]] = l
        BY <1>5, <2>2, <3>1, <3>2, <4>1
      <4>. QED
        BY <1>5, <2>2, <3>1, <4>2 DEF SendInvariant, QueuedAtRoute, Orphan
    <3>. QED
      BY <1>5, <2>2, <3>1, <3>2 DEF SendInvariant, QueuedAtRoute, Orphan
  <2>. QED
    BY <2>1, <2>2
<1>11. OneLinePerSocket'
  <2> SUFFICES ASSUME NEW k1 \in Send, NEW k2 \in Send, NEW m1 \in Send, NEW m2 \in Send,
                      InLine(m1, k1)', InLine(m2, k2)',
                      sendSource'[m1] = sendSource'[m2], sendConn'[m1] = sendConn'[m2]
               PROVE  k1 = k2 \/ << sendConn'[m1], sendSource'[m1] >> \in orphaned
    BY <1>1 DEF OneLinePerSocket, Orphan
  <2>1. CASE m1 # m /\ m2 # m
    BY <1>5, <1>7, <2>1 DEF SendInvariant, OneLinePerSocket, Orphan
  <2>2. CASE m1 = m
    <3>1. k1 = k
      BY <1>6, <1>7, <2>2
    <3>. QED
      BY <1>5, <1>6, <1>7, <1>8, <2>2, <3>1
  <2>3. CASE m2 = m
    <3>1. k2 = k
      BY <1>6, <1>7, <2>3
    <3>. QED
      BY <1>5, <1>6, <1>7, <1>8, <2>3, <3>1
  <2>. QED
    BY <2>1, <2>2, <2>3
<1>. QED
  BY <1>9, <1>10, <1>11 DEF SendInvariant

(* A takeover leaves the lock to the source: those who wait for the socket *)
(* that lost the source are in its line, and so will be those who send to  *)
(* the new one, which may have had the source before.                      *)
LEMMA TelemetryKeepsLines ==
  ASSUME RoutingInvariant, SendInvariant, NEW w \in Conn, NEW s \in Source, Telemetry(w, s)
  PROVE  SendInvariant'
<1>1. /\ connectionsBySource' = [connectionsBySource EXCEPT ![s] = w]
      /\ displaced' = (displaced \cup
           {p \in {connectionsBySource[s]} \X {s} : connectionsBySource[s] # None}) \ {<< w, s >>}
      /\ phase' = [phase EXCEPT ![w] = "handling"] /\ phase[w] = "open"
      /\ UNCHANGED << orphaned, sendLocks, lockLine, sendSource, sendConn, sendState >>
  BY DEF Telemetry, BindSource, GoTo, sendVars
<1>2. /\ ConnTypeOK /\ RouteTypeOK
  BY TypeParts DEF RoutingInvariant
<1>3. /\ connectionsBySource'[s] = w
      /\ \A t \in Source \ {s} : connectionsBySource'[t] = connectionsBySource[t]
      /\ \A v \in Conn : phase[v] = "closed" => phase'[v] = "closed"
  BY <1>1, <1>2 DEF ConnTypeOK, RouteTypeOK
<1>4. \A k, m \in Send : InLine(m, k)' <=> InLine(m, k)
  BY <1>1 DEF InLine
<1>5. QueuedHaveStarted' /\ OneLinePerSocket'
  BY <1>1, <1>4 DEF SendInvariant, QueuedHaveStarted, OneLinePerSocket, Orphan
<1>6. \A v \in Conn, t \in Source :
        connectionsBySource[t] = v \/ << v, t >> \in displaced =>
          connectionsBySource'[t] = v \/ << v, t >> \in displaced'
  <2> SUFFICES ASSUME NEW v \in Conn, NEW t \in Source,
                      connectionsBySource[t] = v \/ << v, t >> \in displaced
               PROVE  connectionsBySource'[t] = v \/ << v, t >> \in displaced'
    OBVIOUS
  <2>1. CASE t = s /\ v = w
    BY <1>3, <2>1
  <2>2. CASE ~ (t = s /\ v = w) /\ << v, t >> \in displaced
    BY <1>1, <2>2
  <2>3. CASE ~ (t = s /\ v = w) /\ connectionsBySource[t] = v
    <3>1. CASE t = s
      <4>1. << v, s >> \in {connectionsBySource[s]} \X {s} /\ connectionsBySource[s] # None
        BY <2>3, <3>1, NoneAssumption
      <4>2. << v, s >> # << w, s >>
        BY <2>3, <3>1
      <4>. QED
        BY <1>1, <3>1, <4>1, <4>2
    <3>2. CASE t # s
      BY <1>3, <2>3, <3>2
    <3>. QED
      BY <3>1, <3>2
  <2>. QED
    BY <2>1, <2>2, <2>3
<1>7. QueuedAtRoute'
  <2> SUFFICES ASSUME NEW k \in Send, NEW m \in Send, InLine(m, k)
               PROVE  \/ /\ sendLocks[sendSource[m]] = k
                         /\ \/ connectionsBySource'[sendSource[m]] = sendConn[m]
                            \/ << sendConn[m], sendSource[m] >> \in displaced'
                      \/ Orphan(m)
                      \/ phase'[sendConn[m]] = "closed"
    BY <1>1, <1>4 DEF QueuedAtRoute, Orphan
  <2>1. sendSource[m] \in Source /\ sendConn[m] \in Conn
    BY DEF SendInvariant, QueuedHaveStarted
  <2>. QED
    BY <1>3, <1>6, <2>1 DEF SendInvariant, QueuedAtRoute
<1>. QED
  BY <1>5, <1>7 DEF SendInvariant

(* The lock goes with the route; those who still wait for it wait for the  *)
(* socket that is finished, or for one that is orphaned now.               *)
LEMMA FinishKeepsLines ==
  ASSUME RoutingInvariant, SendInvariant, NEW w \in Conn, Finish(w)
  PROVE  SendInvariant'
<1>1. /\ phase' = [phase EXCEPT ![w] = "closed"]
      /\ orphaned' = orphaned \cup {p \in displaced : p[2] \in LostWith(w)}
      /\ UNCHANGED << displaced, lockLine, sendSource, sendConn, sendState >>
  BY DEF Finish, ForgetConnection, GoTo, sendVars
<1>2. \A s \in Source :
        /\ connectionsBySource'[s] = IF s \in LostWith(w) THEN None ELSE connectionsBySource[s]
        /\ sendLocks'[s] = IF s \in LostWith(w) THEN None ELSE sendLocks[s]
  BY DEF Finish, ForgetConnection
<1>3. \A s \in Source : s \in LostWith(w) => connectionsBySource[s] = w
  BY DEF LostWith
<1>4. phase'[w] = "closed" /\ \A v \in Conn : phase[v] = "closed" => phase'[v] = "closed"
  BY <1>1 DEF RoutingInvariant, TypeOK
<1>5. \A k, m \in Send : InLine(m, k)' <=> InLine(m, k)
  BY <1>1 DEF InLine
<1>6. QueuedHaveStarted' /\ OneLinePerSocket'
  BY <1>1, <1>5 DEF SendInvariant, QueuedHaveStarted, OneLinePerSocket, Orphan
<1>7. QueuedAtRoute'
  <2> SUFFICES ASSUME NEW k \in Send, NEW m \in Send, InLine(m, k)
               PROVE  \/ /\ sendLocks'[sendSource[m]] = k
                         /\ \/ connectionsBySource'[sendSource[m]] = sendConn[m]
                            \/ << sendConn[m], sendSource[m] >> \in displaced
                      \/ << sendConn[m], sendSource[m] >> \in orphaned'
                      \/ phase'[sendConn[m]] = "closed"
    BY <1>1, <1>5 DEF QueuedAtRoute, Orphan
  <2>1. sendSource[m] \in Source /\ sendConn[m] \in Conn
    BY DEF SendInvariant, QueuedHaveStarted
  <2>2. CASE sendSource[m] \in LostWith(w) /\ connectionsBySource[sendSource[m]] = sendConn[m]
    BY <1>3, <1>4, <2>1, <2>2
  <2>3. CASE sendSource[m] \in LostWith(w) /\ << sendConn[m], sendSource[m] >> \in displaced
    BY <1>1, <2>3
  <2>4. CASE sendSource[m] \notin LostWith(w)
    BY <1>1, <1>2, <1>4, <2>1, <2>4 DEF SendInvariant, QueuedAtRoute, Orphan
  <2>5. CASE Orphan(m) \/ phase[sendConn[m]] = "closed"
    BY <1>1, <1>4, <2>1, <2>5 DEF Orphan
  <2>. QED
    BY <2>2, <2>3, <2>4, <2>5 DEF SendInvariant, QueuedAtRoute
<1>. QED
  BY <1>6, <1>7 DEF SendInvariant

(* A send that ends, or gives up waiting, leaves a line. *)
LEMMA SendEndKeepsLines ==
  ASSUME RoutingInvariant, SendInvariant, NEW m \in Send,
         SendSucceeds(m) \/ SendFails(m) \/ SendCancelledInLine(m)
  PROVE  SendInvariant'
<1>1. SendTypeOK
  BY TypeParts DEF RoutingInvariant
<1>2. UNCHANGED << phase, connectionsBySource, displaced, orphaned, sendLocks, sendSource, sendConn >>
  BY DEF SendSucceeds, SendFails, SendCancelledInLine, connVars, routeVars
<1>3. \A n \in Send : sendState[n] # "idle" => sendState'[n] # "idle"
  BY <1>1 DEF SendTypeOK, SendSucceeds, SendFails, SendCancelledInLine, Release, Sending
<1>4. \A k \in Send : ToSet(lockLine'[k]) \subseteq ToSet(lockLine[k])
  <2>1. CASE SendSucceeds(m) \/ SendFails(m)
    <3>1. \A k \in Send : lockLine'[k] = lockLine[k]
                          \/ (lockLine[k] # << >> /\ lockLine'[k] = Tail(lockLine[k]))
      BY <2>1 DEF SendSucceeds, SendFails, Release
    <3>2. \A k \in Send : lockLine[k] # << >> => ToSet(Tail(lockLine[k])) \subseteq ToSet(lockLine[k])
      BY <1>1, LineSets DEF SendTypeOK
    <3>. QED
      BY <3>1, <3>2
  <2>2. CASE SendCancelledInLine(m)
    <3>1. PICK k \in Send : \E i \in DOMAIN lockLine[k] :
            lockLine' = [lockLine EXCEPT ![k] = RemoveAt(@, i)]
      BY <2>2 DEF SendCancelledInLine
    <3>2. PICK i \in DOMAIN lockLine[k] : lockLine' = [lockLine EXCEPT ![k] = RemoveAt(@, i)]
      BY <3>1
    <3>3. ToSet(RemoveAt(lockLine[k], i)) \subseteq ToSet(lockLine[k])
      BY <1>1, LineSets DEF SendTypeOK
    <3>4. /\ lockLine'[k] = RemoveAt(lockLine[k], i)
          /\ \A l \in Send \ {k} : lockLine'[l] = lockLine[l]
      BY <1>1, <3>2 DEF SendTypeOK
    <3>. QED
      BY <3>3, <3>4
  <2>. QED
    BY <2>1, <2>2
<1>. QED
  BY <1>2, <1>3, <1>4, LinesOnlyShrink

(* Everything else leaves sends, routes and locks alone. *)
LEMMA OtherStepsKeepLines ==
  ASSUME RoutingInvariant, SendInvariant,
         UNCHANGED << routeVars, sendLocks, lockLine, sendConn >>,
         \A v \in Conn : phase[v] = "closed" => phase'[v] = "closed",
         \A n \in Send : sendState[n] # "idle" =>
           sendState'[n] # "idle" /\ sendSource'[n] = sendSource[n]
  PROVE  SendInvariant'
<1>1. UNCHANGED << connectionsBySource, displaced, orphaned >>
  BY DEF routeVars
<1>2. \A k, m \in Send : InLine(m, k)' <=> InLine(m, k)
  BY DEF InLine
<1>3. \A k, m \in Send : InLine(m, k) =>
        /\ sendState'[m] # "idle" /\ sendSource'[m] = sendSource[m]
        /\ sendSource[m] \in Source /\ sendConn[m] \in Conn
  BY DEF SendInvariant, QueuedHaveStarted
<1>4. QueuedHaveStarted'
  BY <1>2, <1>3 DEF QueuedHaveStarted
<1>5. QueuedAtRoute'
  <2> SUFFICES ASSUME NEW k \in Send, NEW m \in Send, InLine(m, k)
               PROVE  \/ /\ sendLocks[sendSource[m]] = k
                         /\ \/ connectionsBySource[sendSource[m]] = sendConn[m]
                            \/ << sendConn[m], sendSource[m] >> \in displaced
                      \/ Orphan(m)
                      \/ phase'[sendConn[m]] = "closed"
    BY <1>1, <1>2, <1>3 DEF QueuedAtRoute, Orphan
  <2>. QED
    BY <1>3 DEF SendInvariant, QueuedAtRoute
<1>6. OneLinePerSocket'
  BY <1>1, <1>2, <1>3 DEF SendInvariant, OneLinePerSocket, Orphan
<1>. QED
  BY <1>4, <1>5, <1>6 DEF SendInvariant

LEMMA SendInvariantStep ==
  ASSUME RoutingInvariant, SendInvariant, [Next]_vars
  PROVE  SendInvariant'
<1>0. ConnTypeOK /\ SendTypeOK
  BY TypeParts DEF RoutingInvariant
<1>1. ASSUME NEW w \in Conn, NEW s \in Source, Telemetry(w, s)
      PROVE  SendInvariant'
  BY <1>1, TelemetryKeepsLines
<1>2. ASSUME NEW w \in Conn, Finish(w)
      PROVE  SendInvariant'
  BY <1>2, FinishKeepsLines
<1>3. ASSUME NEW m \in Send, NEW s \in Source, SendStart(m, s)
      PROVE  SendInvariant'
  BY <1>3, SendStartKeepsLines
<1>4. ASSUME NEW m \in Send, SendSucceeds(m) \/ SendFails(m) \/ SendCancelledInLine(m)
      PROVE  SendInvariant'
  BY <1>4, SendEndKeepsLines
<1>5. ASSUME NEW m \in Send, NEW s \in Source, SendUnrouted(m, s)
      PROVE  SendInvariant'
  <2>1. UNCHANGED << connVars, routeVars, sendLocks, lockLine, sendConn >>
    BY <1>5 DEF SendUnrouted
  <2>2. \A n \in Send : sendState[n] # "idle" =>
          sendState'[n] # "idle" /\ sendSource'[n] = sendSource[n]
    BY <1>0, <1>5 DEF SendUnrouted, SendTypeOK
  <2>. QED
    BY <2>1, <2>2, OtherStepsKeepLines DEF connVars
<1>6. ASSUME NEW w \in Conn,
             \/ Refuse(w) \/ Admit(w) \/ FinishRejection(w) \/ TextMessage(w)
             \/ RejectedMessage(w) \/ UndecodableMessage(w) \/ HandlersReturn(w)
             \/ \E s \in Source : TelemetryOverSourceLimit(w, s)
      PROVE  SendInvariant'
  <2>1. UNCHANGED << routeVars, sendLocks, sendVars >>
    BY <1>6 DEF Refuse, Admit, FinishRejection, TextMessage, RejectedMessage,
       UndecodableMessage, HandlersReturn, TelemetryOverSourceLimit
  <2>2. \A v \in Conn : phase[v] = "closed" => phase'[v] = "closed"
    BY <1>0, <1>6 DEF ConnTypeOK, GoTo, Refuse, Admit, FinishRejection, TextMessage,
       RejectedMessage, UndecodableMessage, HandlersReturn, TelemetryOverSourceLimit
  <2>. QED
    BY <2>1, <2>2, OtherStepsKeepLines DEF sendVars
<1>7. CASE UNCHANGED vars
  BY <1>7, OtherStepsKeepLines DEF vars, connVars, routeVars, sendVars
<1>. QED
  BY <1>1, <1>2, <1>3, <1>4, <1>5, <1>6, <1>7 DEF Next

(* The send locks do what they are for although they come and go with the  *)
(* routes: for any number of sockets, sources and sends, two payloads for  *)
(* one source are never written to one socket at a time, but for sockets   *)
(* that were displaced when the route, and the lock with it, went.         *)
THEOREM SendsTakeTurns == Spec => []SendsDoNotOverlap
<1>1. Init => SendInvariant
  <2> SUFFICES ASSUME Init PROVE SendInvariant
    OBVIOUS
  <2>1. \A k, m \in Send : ~ InLine(m, k)
    BY DEF Init, InLine, ToSet
  <2>. QED
    BY <2>1 DEF Init, SendInvariant, QueuedHaveStarted, QueuedAtRoute, OneLinePerSocket
<1>2. RoutingInvariant /\ SendInvariant /\ [Next]_vars => SendInvariant'
  BY SendInvariantStep
<1>3. RoutingInvariant /\ SendInvariant => SendsDoNotOverlap
  <2> SUFFICES ASSUME RoutingInvariant, SendInvariant, NEW m \in Send, NEW n \in Send,
                      Sending(m), Sending(n),
                      sendSource[m] = sendSource[n], sendConn[m] = sendConn[n],
                      ~ Orphan(m)
               PROVE  m = n
    BY DEF SendsDoNotOverlap, Orphan
  <2>1. PICK k \in Send : lockLine[k] # << >> /\ Head(lockLine[k]) = m
    BY DEF Sending
  <2>2. PICK l \in Send : lockLine[l] # << >> /\ Head(lockLine[l]) = n
    BY DEF Sending
  <2>3. InLine(m, k) /\ InLine(n, l)
    <3>1. lockLine[k] \in Seq(Send) /\ lockLine[l] \in Seq(Send)
      BY DEF RoutingInvariant, TypeOK
    <3>. QED
      BY <2>1, <2>2, <3>1, LineSets DEF InLine
  <2>4. k = l
    BY <2>3 DEF SendInvariant, OneLinePerSocket
  <2>. QED
    BY <2>1, <2>2, <2>4
<1>. QED
  BY <1>1, <1>2, <1>3, RoutingIsInvariant, PTL DEF Spec

=============================================================================
