------------------------------ MODULE Sessions ------------------------------
(***************************************************************************)
(* ArubaBleakClient (active_client.py): the sessions of Bleak clients      *)
(* through one AP.  connect takes one of the AP's session slots, asks the  *)
(* runtime to connect, listens for the device's loss and waits for its     *)
(* services; disconnect, a loss or a failure gives the slot back.          *)
(*                                                                         *)
(* The runtime is reduced to what the client asks of it: the outcome of an *)
(* action (ActiveActions), the active devices, and the calls of listeners. *)
(* Notifications are in a module of their own.  A client has at most one   *)
(* connect and one disconnect under way, which may overlap.                *)
(***************************************************************************)
EXTENDS Naturals, Sequences, FiniteSets, SequencesExt

CONSTANTS
  Client, Device,
  Slots,       \* session_slots
  DeviceOf     \* a client's address

ASSUME SlotsAssumption == Slots \in Nat \ {0}
ASSUME ClientAssumption == IsFiniteSet(Client) /\ DeviceOf \in [Client -> Device]

VARIABLES
  free,        \* session_semaphore: its value,
  queue,       \* and those who wait for it
  conn,        \* per client: where its connect is
  outcome,     \* of the connect action: none yet, ok or failed
  asking,      \* clients whose disconnect awaits its action
  holds,       \* clients with _session_slot_acquired
  connected,   \* clients with _is_connected
  listening,   \* clients with _disconnect_listener_unsub
  requested,   \* clients with _disconnect_requested
  told,        \* clients whose disconnected callback ended their last session
  active,      \* the runtime's active devices
  overlapped,  \* clients whose connect and disconnect have overlapped
  late         \* clients whose session began after its device's loss

semaphore == << free, queue, holds >>
session == << connected, listening, told >>
history == << overlapped, late >>
vars == << semaphore, session, conn, outcome, asking, requested, active, history >>

Init ==
  /\ free = Slots /\ queue = << >> /\ holds = {}
  /\ conn = [c \in Client |-> "idle"]
  /\ outcome = [c \in Client |-> "none"]
  /\ asking = {} /\ requested = {}
  /\ connected = {} /\ listening = {} /\ told = {}
  /\ active = {}
  /\ overlapped = {} /\ late = {}

At(p) == {c \in Client : conn[c] = p}
Alive(c) == DeviceOf[c] \in active       \* _runtime_reports_connected

-----------------------------------------------------------------------------
(* The semaphore and the clients' flags *)

First(n) == {queue[i] : i \in 1 .. n}

(* The first n in line get a permit; each has still to be resumed. *)
Granting(n, places) ==
  [c \in Client |-> IF c \in First(n) THEN "granted" ELSE places[c]]

Least(m, n) == IF m < n THEN m ELSE n

(* Slip: a slot is released whether the client holds one or not. *)
ReleaseUnheld(cs, places) ==
  LET n == Cardinality(cs)
      k == Least(n, Len(queue)) IN
  /\ holds' = holds \ cs
  /\ free' = free + n - k
  /\ queue' = SubSeq(queue, k + 1, Len(queue))
  /\ conn' = Granting(k, places)

(* _release_session_slot of some clients: each permit goes to the first in *)
(* line, if there is one.                                                  *)
Release(cs, places) ==
  LET n == Cardinality(cs \cap holds)
      k == Least(n, Len(queue)) IN
  /\ holds' = holds \ cs
  /\ free' = free + n - k
  /\ queue' = SubSeq(queue, k + 1, Len(queue))
  /\ conn' = Granting(k, places)

(* One who leaves Semaphore.acquire wakes others while permits are left.   *)
PassOn(n, places) ==
  LET k == Least(n, Len(queue)) IN
  /\ free' = n - k
  /\ queue' = SubSeq(queue, k + 1, Len(queue))
  /\ conn' = Granting(k, places)

Goes(c, place) == [conn EXCEPT ![c] = place]

(* _mark_disconnected of some clients, the callback called for some. *)
MarkDisconnected(cs, notified, places) ==
  /\ connected' = connected \ cs
  /\ listening' = listening \ cs
  /\ told' = told \cup (notified \cap connected)
  /\ late' = late \ cs
  /\ Release(cs, places)

Dead(c) == c \in connected /\ ~ Alive(c)

(* is_connected and every operation look at the runtime first:             *)
(* _sync_disconnected_from_runtime.                                        *)
Sync(c) ==
  /\ Dead(c)
  /\ MarkDisconnected({c}, {c}, conn)
  /\ UNCHANGED << outcome, asking, requested, active, overlapped >>

-----------------------------------------------------------------------------
(* connect *)

Overlaps(c) == overlapped' = overlapped \cup ({c} \cap asking)

(* Up to the first await.  Nobody overtakes those in line or just woken.   *)
Connect(c) ==
  /\ conn[c] = "idle" /\ c \notin connected
  /\ IF free > 0 /\ queue = << >> /\ At("granted") = {}
       THEN /\ free' = free - 1 /\ holds' = holds \cup {c}
            /\ conn' = Goes(c, "asking")
            /\ UNCHANGED queue
       ELSE /\ queue' = Append(queue, c)
            /\ conn' = Goes(c, "queued")
            /\ UNCHANGED << free, holds >>
  /\ Overlaps(c)
  /\ UNCHANGED << session, outcome, asking, requested, active, late >>

(* The same for a session that has ended unnoticed: it ends first, and its *)
(* slot is taken again unless somebody is in line for one.                 *)
ConnectAgain(c) ==
  /\ conn[c] = "idle" /\ Dead(c)
  /\ connected' = connected \ {c} /\ listening' = listening \ {c} /\ late' = late \ {c}
  /\ told' = told \cup {c}
  /\ LET given == Cardinality({c} \cap holds)
         k == Least(given, Len(queue)) IN
     IF free + given > 0 /\ queue = << >> /\ At("granted") = {}
       THEN /\ free' = free + given - 1 /\ holds' = holds \cup {c}
            /\ conn' = Goes(c, "asking")
            /\ UNCHANGED queue
       ELSE /\ free' = free + given - k /\ holds' = holds \ {c}
            /\ queue' = Append(SubSeq(queue, k + 1, Len(queue)), c)
            /\ conn' = Granting(k, Goes(c, "queued"))
  /\ Overlaps(c)
  /\ UNCHANGED << outcome, asking, requested, active >>

(* The permit has come. *)
SlotTaken(c) ==
  /\ conn[c] = "granted"
  /\ holds' = holds \cup {c}
  /\ PassOn(free, Goes(c, "asking"))
  /\ UNCHANGED << session, outcome, asking, requested, active, history >>

(* The runtime's answer; a success makes the device active. *)
Answer(c) ==
  /\ conn[c] = "asking" /\ outcome[c] = "none"
  /\ \/ outcome' = [outcome EXCEPT ![c] = "ok"] /\ active' = active \cup {DeviceOf[c]}
     \/ outcome' = [outcome EXCEPT ![c] = "failed"] /\ UNCHANGED active
  /\ UNCHANGED << semaphore, session, conn, asking, requested, history >>

(* Slip: a connect that is given up keeps its slot. *)
GivesUpAskingHolding(c) ==
  /\ conn[c] = "asking"
  /\ outcome' = [outcome EXCEPT ![c] = "none"]
  /\ conn' = Goes(c, "idle")
  /\ UNCHANGED << semaphore, session, asking, requested, active, history >>

(* The action raised (no route to the AP), or connect was cancelled: no    *)
(* disconnect is sent, whatever the AP does with the request.              *)
GivesUpAsking(c) ==
  /\ conn[c] = "asking"
  /\ outcome' = [outcome EXCEPT ![c] = "none"]
  /\ Release({c}, Goes(c, "idle"))
  /\ UNCHANGED << session, asking, requested, active, history >>

(* Cancelled in line, or woken and cancelled before it was resumed. *)
LeavesLine(c) ==
  /\ \/ /\ conn[c] = "queued"
        /\ \E i \in DOMAIN queue : queue[i] = c /\ queue' = RemoveAt(queue, i)
        /\ conn' = Goes(c, "idle")
        /\ UNCHANGED free
     \/ /\ conn[c] = "granted"
        /\ PassOn(free + 1, Goes(c, "idle"))
  /\ UNCHANGED << holds, session, outcome, asking, requested, active, history >>

(* Slip: the session is not watched. *)
BeginSessionUnheard(c) ==
  /\ conn[c] = "asking" /\ outcome[c] = "ok"
  /\ outcome' = [outcome EXCEPT ![c] = "none"]
  /\ connected' = connected \cup {c}
  /\ told' = told \ {c}
  /\ late' = late \cup {x \in {c} : ~ Alive(c)}
  /\ \E p \in {"idle", "discovering"} : conn' = Goes(c, p)
  /\ UNCHANGED << semaphore, listening, asking, requested, active, overlapped >>

(* The device may be lost again.  With its services known, connect returns;*)
(* otherwise it waits for them.                                            *)
BeginSession(c) ==
  /\ conn[c] = "asking" /\ outcome[c] = "ok"
  /\ outcome' = [outcome EXCEPT ![c] = "none"]
  /\ connected' = connected \cup {c}
  /\ listening' = listening \cup {c}
  /\ told' = told \ {c}
  /\ late' = late \cup {x \in {c} : ~ Alive(c)}
  /\ \E p \in {"idle", "discovering"} : conn' = Goes(c, p)
  /\ UNCHANGED << semaphore, asking, requested, active, overlapped >>

(* A failed action: a disconnect is sent, best effort. *)
Reject(c) ==
  /\ conn[c] = "asking" /\ outcome[c] = "failed"
  /\ outcome' = [outcome EXCEPT ![c] = "none"]
  /\ conn' = Goes(c, "rejecting")
  /\ UNCHANGED << semaphore, session, asking, requested, active, history >>

(* Sent, not sent or cancelled: connect raises. *)
Rejected(c) ==
  /\ conn[c] = "rejecting"
  /\ Release({c}, Goes(c, "idle"))
  /\ UNCHANGED << session, outcome, asking, requested, active, history >>

(* The services have come or the wait timed out, and connect returns. *)
Discovered(c) ==
  /\ conn[c] = "discovering"
  /\ c \in connected /\ Alive(c)
  /\ conn' = Goes(c, "idle")
  /\ UNCHANGED << semaphore, session, outcome, asking, requested, active, history >>

(* The session ended meanwhile, heard of or not: connect raises. *)
DiscoveredLost(c) ==
  /\ conn[c] = "discovering"
  /\ c \notin connected \/ Dead(c)
  /\ MarkDisconnected({c}, {c}, Goes(c, "idle"))
  /\ UNCHANGED << outcome, asking, requested, active, overlapped >>

(* The wait raised or was cancelled: _cleanup_failed_connect. *)
DiscoveryFails(c) ==
  /\ conn[c] = "discovering"
  /\ IF c \in connected /\ Alive(c)
       THEN conn' = Goes(c, "cleaning") /\ UNCHANGED << semaphore, session, late >>
       ELSE MarkDisconnected({c}, {}, Goes(c, "idle"))
  /\ UNCHANGED << outcome, asking, requested, active, overlapped >>

(* Its disconnect was sent, or could not be. *)
Cleaned(c) ==
  /\ conn[c] = "cleaning"
  /\ MarkDisconnected({c}, {}, Goes(c, "idle"))
  /\ UNCHANGED << outcome, asking, requested, active, overlapped >>

(* Cancelled once more: the session stays, and with it the slot. *)
CleaningCancelled(c) ==
  /\ conn[c] = "cleaning"
  /\ conn' = Goes(c, "idle")
  /\ UNCHANGED << semaphore, session, outcome, asking, requested, active, history >>

-----------------------------------------------------------------------------
(* disconnect *)

Meets(c) == overlapped' = overlapped \cup {x \in {c} : conn[c] # "idle"}

(* Without a session: what is left of one is cleared, a slot taken by a    *)
(* connect under way included.                                             *)
DisconnectAtOnce(c) ==
  /\ c \notin asking
  /\ c \notin connected \/ Dead(c)
  /\ MarkDisconnected({c}, {c}, conn)
  /\ Meets(c)
  /\ UNCHANGED << outcome, asking, requested, active >>

(* Slip: the slot is given back before the disconnect is sent. *)
DisconnectReleasing(c) ==
  /\ c \notin asking
  /\ c \in connected /\ Alive(c)
  /\ asking' = asking \cup {c}
  /\ requested' = requested \cup {c}
  /\ Release({c}, conn)
  /\ Meets(c)
  /\ UNCHANGED << session, outcome, active, late >>

Disconnect(c) ==
  /\ c \notin asking
  /\ c \in connected /\ Alive(c)
  /\ asking' = asking \cup {c}
  /\ requested' = requested \cup {c}
  /\ Meets(c)
  /\ UNCHANGED << semaphore, session, conn, outcome, active, late >>

(* Its result, any failure, or its cancellation. *)
DisconnectEnds(c) ==
  /\ c \in asking
  /\ asking' = asking \ {c}
  /\ requested' = requested \ {c}
  /\ MarkDisconnected({c}, {}, conn)
  /\ UNCHANGED << outcome, active, overlapped >>

-----------------------------------------------------------------------------
(* The device, as the runtime has it *)

(* A late result or a report, of a connect nobody waits for any more. *)
DeviceConnects(d) ==
  /\ active' = active \cup {d}
  /\ UNCHANGED << semaphore, session, conn, outcome, asking, requested, history >>

(* Slip: the callback is called for a disconnect the client asked for. *)
DeviceLostToldAll(d) ==
  LET cs == {c \in listening : DeviceOf[c] = d} IN
  /\ active' = active \ {d}
  /\ outcome' = [c \in Client |->
       IF conn[c] = "asking" /\ outcome[c] = "none" /\ DeviceOf[c] = d THEN "failed"
       ELSE outcome[c]]
  /\ MarkDisconnected(cs, cs, conn)
  /\ UNCHANGED << asking, requested, overlapped >>

(* _mark_device_disconnected: pending actions end, listeners are called    *)
(* (_handle_runtime_disconnect).                                           *)
DeviceLost(d) ==
  LET cs == {c \in listening : DeviceOf[c] = d} IN
  /\ active' = active \ {d}
  /\ outcome' = [c \in Client |->
       IF conn[c] = "asking" /\ outcome[c] = "none" /\ DeviceOf[c] = d THEN "failed"
       ELSE outcome[c]]
  /\ MarkDisconnected(cs, cs \ requested, conn)
  /\ UNCHANGED << asking, requested, overlapped >>

Next ==
  \/ \E c \in Client :
       \/ Sync(c) \/ Connect(c) \/ ConnectAgain(c) \/ SlotTaken(c) \/ Answer(c)
       \/ GivesUpAsking(c) \/ LeavesLine(c) \/ BeginSession(c) \/ Reject(c) \/ Rejected(c)
       \/ Discovered(c) \/ DiscoveredLost(c) \/ DiscoveryFails(c)
       \/ Cleaned(c) \/ CleaningCancelled(c)
       \/ DisconnectAtOnce(c) \/ Disconnect(c) \/ DisconnectEnds(c)
  \/ \E d \in Device : DeviceConnects(d) \/ DeviceLost(d)

Spec == Init /\ [][Next]_vars

-----------------------------------------------------------------------------
(* Properties *)

(* Each variable has its values; only a connect that asks has an outcome.  *)
TypeOK ==
  /\ free \in Nat /\ queue \in Seq(Client)
  /\ conn \in [Client -> {"idle", "queued", "granted", "asking", "rejecting",
                          "discovering", "cleaning"}]
  /\ outcome \in [Client -> {"none", "ok", "failed"}]
  /\ \A c \in Client : outcome[c] # "none" => conn[c] = "asking"
  /\ \A X \in {asking, holds, connected, listening, requested, told, overlapped, late} :
       X \subseteq Client
  /\ active \subseteq Device

(* The permits are free, held, or on their way to a woken caller: none is  *)
(* lost or made by any interleaving of connects, disconnects, losses and   *)
(* cancellations.                                                          *)
PermitsConserved == free + Cardinality(holds) + Cardinality(At("granted")) = Slots

(* A slot is held for a session or by a connect that asks or cleans up.    *)
SlotsNotLeaked ==
  holds \subseteq connected \cup At("asking") \cup At("rejecting")

(* A session holds a slot, so there are no more than Slots of them; but a  *)
(* disconnect that meets a connect under way takes its slot away.          *)
SessionsHoldSlots == connected \subseteq holds \cup overlapped

(* A session whose device is lost has ended, unless the loss came before   *)
(* the client listened: then only the client's next call ends it.          *)
LossEndsSession ==
  \A c \in connected : c \in listening /\ (c \notin late => Alive(c))

(* The loss of a device ends the sessions with it at once, and calls the   *)
(* disconnected callback of exactly those clients that have not asked for  *)
(* a disconnect.                                                           *)
LossIsTold ==
  \A c \in connected :
    DeviceOf[c] \in active \ active' =>
      /\ c \notin connected'
      /\ c \in told' <=> c \notin requested
ToldOfLosses == [][LossIsTold]_vars

=============================================================================
