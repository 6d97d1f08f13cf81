------------------------------ MODULE Receiver ------------------------------
(***************************************************************************)
(* ArubaBleReceiver (aruba_iot_ble/server.py): the WebSocket listener.     *)
(* Each physical connection runs _handle_connection; telemetry binds the   *)
(* AP source it reports to the connection it came in on, possibly taking   *)
(* the source over from another connection; southbound payloads go out on  *)
(* the connection that holds the route when the send starts.               *)
(*                                                                         *)
(* asyncio runs one callback at a time: everything between two awaits is   *)
(* one action.  What a message says is left out, but for the source it     *)
(* reports.  `Conn` values are websocket objects, `Send` values are calls  *)
(* of async_send_to_source; each is used once.                             *)
(***************************************************************************)
EXTENDS Naturals, Sequences, FiniteSets, SequencesExt

CONSTANTS
  Conn,
  Source,
  Send,
  None,                \* no connection, no lock, no source
  MaxConnections,      \* MAX_CONNECTIONS
  MaxSources,          \* MAX_SOURCES
  MaxTextMessages,     \* MAX_TEXT_MESSAGES
  MaxDecodeErrors      \* MAX_DECODE_ERRORS

ASSUME NoneAssumption == None \notin Conn \cup Send \cup Source
ASSUME LimitAssumption ==
  /\ MaxConnections \in Nat \ {0} /\ MaxSources \in Nat \ {0}
  /\ MaxTextMessages \in Nat \ {0} /\ MaxDecodeErrors \in Nat \ {0}

VARIABLES
  phase,               \* where each connection's handler is
  activeConnections,   \* _active_connections
  connectionsBySource, \* _connections_by_source: [Source -> Conn \cup {None}]
  sourcesByConnection, \* _sources_by_connection, an absent entry being {}
  textMessages,        \* connection_text_messages
  decodeErrors,        \* connection_decode_errors
  known,               \* sources handed to message_handler and not since
                       \* given to source_disconnect_handler
  displaced,           \* history, pairs <<w, s>>: s was taken over from w and
                       \* not reported by w since
  orphaned,            \* history, pairs <<w, s>>: the route of s, and its lock
                       \* with it, went while s was displaced from w
  sendLocks,           \* _send_locks; a lock is named by the send creating it
  lockLine,            \* holder and waiters of each lock, first come first
  sendSource,          \* the source a send was given
  sendConn,            \* the websocket it looked up
  sendState            \* idle, active (queued or in send), sent, failed, cancelled

connVars == << phase, activeConnections, textMessages, decodeErrors >>
routeVars == << connectionsBySource, sourcesByConnection, known, displaced, orphaned >>
sendVars == << lockLine, sendSource, sendConn, sendState >>
vars == << connVars, routeVars, sendLocks, sendVars >>

Init ==
  /\ phase               = [w \in Conn |-> "new"]
  /\ activeConnections   = {}
  /\ connectionsBySource = [s \in Source |-> None]
  /\ sourcesByConnection = [w \in Conn |-> {}]
  /\ textMessages        = [w \in Conn |-> 0]
  /\ decodeErrors        = [w \in Conn |-> 0]
  /\ known               = {}
  /\ displaced           = {}
  /\ orphaned            = {}
  /\ sendLocks           = [s \in Source |-> None]
  /\ lockLine            = [m \in Send |-> << >>]
  /\ sendSource          = [m \in Send |-> None]
  /\ sendConn            = [m \in Send |-> None]
  /\ sendState           = [m \in Send |-> "idle"]

connectedSources == {s \in Source : connectionsBySource[s] # None}

-----------------------------------------------------------------------------
(* The life of a connection *)

GoTo(w, p) == phase' = [phase EXCEPT ![w] = p]

(* Over the connection limit: the handler closes the socket and returns.   *)
Refuse(w) ==
  /\ phase[w] = "new"
  /\ Cardinality(activeConnections) >= MaxConnections
  /\ GoTo(w, "refused")
  /\ UNCHANGED << activeConnections, textMessages, decodeErrors, routeVars, sendLocks, sendVars >>

(* The path is checked after the connection was counted. *)
Admit(w) ==
  /\ phase[w] = "new"
  /\ Cardinality(activeConnections) < MaxConnections
  /\ activeConnections' = activeConnections \cup {w}
  /\ \E p \in {"open", "misrouted"} : GoTo(w, p)
  /\ UNCHANGED << textMessages, decodeErrors, routeVars, sendLocks, sendVars >>

(* Slip: a wrong path is turned away without giving the place back. *)
FinishRejectionKeepingPlace(w) ==
  /\ phase[w] \in {"refused", "misrouted"}
  /\ GoTo(w, "closed")
  /\ UNCHANGED << activeConnections, textMessages, decodeErrors, routeVars, sendLocks, sendVars >>

(* The close handshake of a rejected connection is over. *)
FinishRejection(w) ==
  /\ phase[w] \in {"refused", "misrouted"}
  /\ GoTo(w, "closed")
  /\ activeConnections' =
       IF phase[w] = "misrouted" THEN activeConnections \ {w} ELSE activeConnections
  /\ UNCHANGED << textMessages, decodeErrors, routeVars, sendLocks, sendVars >>

(* Text frames are ignored, up to a limit. *)
TextMessage(w) ==
  /\ phase[w] = "open"
  /\ textMessages' = [textMessages EXCEPT ![w] = @ + 1]
  /\ GoTo(w, IF textMessages[w] + 1 >= MaxTextMessages THEN "closing" ELSE "open")
  /\ UNCHANGED << activeConnections, decodeErrors, routeVars, sendLocks, sendVars >>

(* A frame with the wrong token, or naming no valid reporter MAC. *)
RejectedMessage(w) ==
  /\ phase[w] = "open"
  /\ GoTo(w, "closing")
  /\ UNCHANGED << activeConnections, textMessages, decodeErrors, routeVars, sendLocks, sendVars >>

UndecodableMessage(w) ==
  /\ phase[w] = "open"
  /\ decodeErrors' = [decodeErrors EXCEPT ![w] = @ + 1]
  /\ GoTo(w, IF decodeErrors[w] + 1 >= MaxDecodeErrors THEN "closing" ELSE "open")
  /\ UNCHANGED << activeConnections, textMessages, routeVars, sendLocks, sendVars >>

(* Slip: binding overlooks the connection that had the source. *)
BindSourceKeepingPrevious(w, s) ==
  /\ sourcesByConnection' = [sourcesByConnection EXCEPT ![w] = @ \cup {s}]
  /\ connectionsBySource' = [connectionsBySource EXCEPT ![s] = w]
  /\ displaced' = displaced \ {<< w, s >>}

(* _bind_connection_source, accepting: the source leaves the connection    *)
(* that had it, which stays open, and nobody is told.                      *)
BindSource(w, s) ==
  LET previous == connectionsBySource[s] IN
  /\ sourcesByConnection' =
       [v \in Conn |-> IF v = w THEN sourcesByConnection[v] \cup {s}
                       ELSE IF v = previous THEN sourcesByConnection[v] \ {s}
                       ELSE sourcesByConnection[v]]
  /\ connectionsBySource' = [connectionsBySource EXCEPT ![s] = w]
  /\ displaced' =
       (displaced \cup {p \in {previous} \X {s} : previous # None}) \ {<< w, s >>}

(* Slip: the source limit is compared after the fact. *)
SourceLimitReachedLate(s) ==
  connectionsBySource[s] = None /\ Cardinality(connectedSources) > MaxSources

SourceLimitReached(s) ==
  connectionsBySource[s] = None /\ Cardinality(connectedSources) >= MaxSources

(* Slip: the connection that loses the source is reported as a loss. *)
TelemetryAnnouncingTakeover(w, s) ==
  /\ phase[w] = "open"
  /\ ~ SourceLimitReached(s)
  /\ BindSource(w, s)
  /\ known' = IF connectionsBySource[s] \in {None, w} THEN known \cup {s} ELSE known \ {s}
  /\ GoTo(w, "handling")
  /\ UNCHANGED << activeConnections, textMessages, decodeErrors, orphaned, sendLocks, sendVars >>

(* Decoded telemetry reporting s: bind, then hand the message over.  The   *)
(* handlers may await, so the connection reads nothing until they return.  *)
Telemetry(w, s) ==
  /\ phase[w] = "open"
  /\ ~ SourceLimitReached(s)
  /\ BindSource(w, s)
  /\ known' = known \cup {s}
  /\ GoTo(w, "handling")
  /\ UNCHANGED << activeConnections, textMessages, decodeErrors, orphaned, sendLocks, sendVars >>

TelemetryOverSourceLimit(w, s) ==
  /\ phase[w] = "open"
  /\ SourceLimitReached(s)
  /\ GoTo(w, "closing")
  /\ UNCHANGED << activeConnections, textMessages, decodeErrors, routeVars, sendLocks, sendVars >>

HandlersReturn(w) ==
  /\ phase[w] = "handling"
  /\ GoTo(w, "open")
  /\ UNCHANGED << activeConnections, textMessages, decodeErrors, routeVars, sendLocks, sendVars >>

(* Slip: the sources whose route still points here are not looked for. *)
LostWithNothing(w) == {}

(* The sources that lose their route with w. *)
LostWith(w) == {s \in sourcesByConnection[w] : connectionsBySource[s] = w}

(* _forget_connection *)
ForgetConnection(w) ==
  /\ connectionsBySource' =
       [s \in Source |-> IF s \in LostWith(w) THEN None ELSE connectionsBySource[s]]
  /\ sourcesByConnection' = [sourcesByConnection EXCEPT ![w] = {}]
  /\ sendLocks' = [s \in Source |-> IF s \in LostWith(w) THEN None ELSE sendLocks[s]]
  /\ orphaned' = orphaned \cup {p \in displaced : p[2] \in LostWith(w)}

(* The peer went away while the handler was reading ("open"), the handler  *)
(* finished closing ("closing"), or a message handler raised or was        *)
(* cancelled ("handling"): the `finally` block, in one step.               *)
Finish(w) ==
  /\ phase[w] \in {"open", "closing", "handling"}
  /\ ForgetConnection(w)
  /\ activeConnections' = activeConnections \ {w}
  /\ known' = known \ LostWith(w)
  /\ GoTo(w, "closed")
  /\ UNCHANGED << textMessages, decodeErrors, displaced, sendVars >>

-----------------------------------------------------------------------------
(* async_send_to_source *)

Sending(m) ==
  /\ sendState[m] = "active"
  /\ \E k \in Send : lockLine[k] # << >> /\ Head(lockLine[k]) = m

(* No route: KeyError. *)
SendUnrouted(m, s) ==
  /\ sendState[m] = "idle"
  /\ connectionsBySource[s] = None
  /\ sendState'  = [sendState EXCEPT ![m] = "failed"]
  /\ sendSource' = [sendSource EXCEPT ![m] = s]
  /\ UNCHANGED << connVars, routeVars, sendLocks, lockLine, sendConn >>

(* Slip: the lock is not kept for the next sender. *)
LockForFresh(m, s) == m

LockFor(m, s) == IF sendLocks[s] = None THEN m ELSE sendLocks[s]

(* The websocket is looked up before the wait for the source's send lock. *)
SendStart(m, s) ==
  LET k == LockFor(m, s) IN
  /\ sendState[m] = "idle"
  /\ connectionsBySource[s] # None
  /\ sendState'  = [sendState EXCEPT ![m] = "active"]
  /\ sendSource' = [sendSource EXCEPT ![m] = s]
  /\ sendConn'   = [sendConn EXCEPT ![m] = connectionsBySource[s]]
  /\ sendLocks'  = [sendLocks EXCEPT ![s] = k]
  /\ lockLine'   = [lockLine EXCEPT ![k] = Append(@, m)]
  /\ UNCHANGED << connVars, routeVars >>

(* Slip: the lock is not released when the send fails. *)
ReleaseOnlyIfSent(m, outcome) ==
  /\ sendState' = [sendState EXCEPT ![m] = outcome]
  /\ lockLine' =
       [k \in Send |-> IF lockLine[k] # << >> /\ Head(lockLine[k]) = m /\ outcome = "sent"
                       THEN Tail(lockLine[k]) ELSE lockLine[k]]

(* The send is over and the next in line for its lock goes on. *)
Release(m, outcome) ==
  /\ sendState' = [sendState EXCEPT ![m] = outcome]
  /\ lockLine' =
       [k \in Send |-> IF lockLine[k] # << >> /\ Head(lockLine[k]) = m
                       THEN Tail(lockLine[k]) ELSE lockLine[k]]

(* websocket.send returned, which it can only while the socket is up. *)
SendSucceeds(m) ==
  /\ Sending(m)
  /\ phase[sendConn[m]] \in {"open", "handling"}
  /\ Release(m, "sent")
  /\ UNCHANGED << connVars, routeVars, sendLocks, sendSource, sendConn >>

(* It raised, timed out after SEND_TIMEOUT, or was cancelled. *)
SendFails(m) ==
  /\ Sending(m)
  /\ \E outcome \in {"failed", "cancelled"} : Release(m, outcome)
  /\ UNCHANGED << connVars, routeVars, sendLocks, sendSource, sendConn >>

(* The caller is cancelled while it waits for the lock. *)
SendCancelledInLine(m) ==
  /\ sendState[m] = "active"
  /\ ~ Sending(m)
  /\ \E k \in Send : \E i \in DOMAIN lockLine[k] :
       /\ lockLine[k][i] = m
       /\ lockLine' = [lockLine EXCEPT ![k] = RemoveAt(@, i)]
  /\ sendState' = [sendState EXCEPT ![m] = "cancelled"]
  /\ UNCHANGED << connVars, routeVars, sendLocks, sendSource, sendConn >>

-----------------------------------------------------------------------------

Next ==
  \/ \E w \in Conn :
       \/ Refuse(w)
       \/ Admit(w)
       \/ FinishRejection(w)
       \/ TextMessage(w)
       \/ RejectedMessage(w)
       \/ UndecodableMessage(w)
       \/ \E s \in Source : Telemetry(w, s) \/ TelemetryOverSourceLimit(w, s)
       \/ HandlersReturn(w)
       \/ Finish(w)
  \/ \E m \in Send :
       \/ \E s \in Source : SendUnrouted(m, s) \/ SendStart(m, s)
       \/ SendSucceeds(m)
       \/ SendFails(m)
       \/ SendCancelledInLine(m)

(* Only sends are obliged to go on: SEND_TIMEOUT ends each of them. *)
Fairness == \A m \in Send : WF_vars(SendSucceeds(m) \/ SendFails(m))

Spec == Init /\ [][Next]_vars

FairSpec == Spec /\ Fairness

-----------------------------------------------------------------------------

Phase == {"new", "refused", "misrouted", "open", "handling", "closing", "closed"}

TypeOK ==
  /\ phase               \in [Conn -> Phase]
  /\ activeConnections   \in SUBSET Conn
  /\ connectionsBySource \in [Source -> Conn \cup {None}]
  /\ sourcesByConnection \in [Conn -> SUBSET Source]
  /\ textMessages        \in [Conn -> 0 .. MaxTextMessages]
  /\ decodeErrors        \in [Conn -> 0 .. MaxDecodeErrors]
  /\ known               \in SUBSET Source
  /\ displaced           \in SUBSET (Conn \X Source)
  /\ orphaned            \in SUBSET (Conn \X Source)
  /\ sendLocks           \in [Source -> Send \cup {None}]
  /\ lockLine            \in [Send -> Seq(Send)]
  /\ sendSource          \in [Send -> Source \cup {None}]
  /\ sendConn            \in [Send -> Conn \cup {None}]
  /\ sendState           \in [Send -> {"idle", "active", "sent", "failed", "cancelled"}]

(* The two directions of the routing table say the same, through any       *)
(* sequence of reports, takeovers and closes (server.py keeps two          *)
(* dictionaries and updates them in _bind_connection_source and            *)
(* _forget_connection).                                                    *)
RoutesConsistent ==
  \A s \in Source, w \in Conn :
    connectionsBySource[s] = w <=> s \in sourcesByConnection[w]

(* No source is left routed to a connection whose handler has finished: an *)
(* action for it would be written to a dead socket for ever.               *)
NoRouteToFinished ==
  \A s \in Source : connectionsBySource[s] # None =>
    phase[connectionsBySource[s]] \in {"open", "handling", "closing"}

(* The runtime is told of a source's loss when, and only when, its route   *)
(* goes: a takeover is silent, closing the displaced connection too.       *)
RuntimeToldOfLosses == known = connectedSources

(* The connection limit counts the connections whose handler is running,   *)
(* so rejected and failed ones give their place back.                      *)
PlacesAccountedFor ==
  \A w \in Conn : w \in activeConnections <=>
    phase[w] \in {"misrouted", "open", "handling", "closing"}

(* A connection the handler still reads from is below both strike limits:  *)
(* no order of bad frames and good telemetry lets it outlive its strikes.  *)
StrikesLeft ==
  \A w \in Conn : phase[w] \notin {"closing", "closed"} =>
    textMessages[w] < MaxTextMessages /\ decodeErrors[w] < MaxDecodeErrors

(* MAX_CONNECTIONS and MAX_SOURCES hold at all times, whatever is awaited  *)
(* in between.                                                             *)
LimitsHold ==
  /\ Cardinality(activeConnections) <= MaxConnections
  /\ Cardinality(connectedSources) <= MaxSources

(* Send locks are dropped with their routes, so there are at most as many. *)
SendLocksFollowRoutes ==
  \A s \in Source : sendLocks[s] # None => connectionsBySource[s] # None

(* The per-source lock keeps two payloads for one source from being        *)
(* written to one socket at the same time, through takeovers back and      *)
(* forth, but for a socket that was displaced when the route went          *)
(* (orphaned): if it reports the source again it gets a second lock, while *)
(* sends of before may still hold and await the first.                     *)
SendsDoNotOverlap ==
  \A m, n \in Send :
    /\ Sending(m) /\ Sending(n)
    /\ sendSource[m] = sendSource[n]
    /\ sendConn[m] = sendConn[n]
    /\ << sendConn[m], sendSource[m] >> \notin orphaned
    => m = n

(* A send that has started ends: it never waits for good behind another,   *)
(* also when the lock it waits for has been dropped with the route.        *)
SendsEnd == \A m \in Send : sendState[m] = "active" ~> sendState[m] # "active"

=============================================================================
