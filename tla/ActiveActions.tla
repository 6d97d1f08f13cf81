--------------------------- MODULE ActiveActions ---------------------------
(***************************************************************************)
(* The life of an active BLE action in ArubaBleProxyRuntime:               *)
(* async_send_aruba_action queues for the operation lock, reserves a slot, *)
(* registers a future under its action id, sends the payload and waits;    *)
(* _async_handle_message and _handle_source_disconnect settle the futures  *)
(* and keep the record of active devices.  A Call is one invocation, and   *)
(* stands for its action id.                                               *)
(*                                                                         *)
(* Everything between two awaits is one action.  A message is handled      *)
(* status by status and then result by result without an await, so no      *)
(* other action is enabled (Idle) while `inbound` holds the rest of it.    *)
(*                                                                         *)
(* Before that, a message may have to wait for the scanner of its AP       *)
(* (_async_ensure_remote_scanner): the connection's handler has it in hand *)
(* while anything else happens, its source is lost or opens another        *)
(* connection, whose messages overtake it.  It is then handled as it is.   *)
(*                                                                         *)
(* The AP is not part of the repository: it may act on a payload at any    *)
(* later time or never, links drop by themselves, and what it reports      *)
(* arrives in order, up to MaxBatch reports in one message.  Counters for  *)
(* diagnostics, and the set of cancelled ids that only they read, are left *)
(* out.                                                                    *)
(***************************************************************************)
EXTENDS Naturals, Sequences, FiniteSets, SequencesExt, OperationKeys

CONSTANTS
  Call,
  NoCall,      \* a status update answers no action
  Handler,     \* connection handlers whose message may wait for a scanner
  Request,     \* the requests callers make, a set of records
  Slots,       \* active_connection_slots
  Named,       \* may a result leave out device and type?  A set of Booleans
  MaxBatch,    \* reports per message
  MaxWire,     \* reports on their way from one AP
  SilentLoss   \* may an AP lose a link without reporting it?

ASSUME RequestAssumption ==
  Request \subseteq
    [type : ActionType, source : Source, device : Device, wait : BOOLEAN]
ASSUME SlotsAssumption == Slots \in Nat \ {0}
ASSUME NoCallAssumption == NoCall \notin Call
ASSUME ReportsAssumption ==
  /\ Named \subseteq BOOLEAN /\ SilentLoss \in BOOLEAN
  /\ MaxBatch \in Nat \ {0} /\ MaxWire \in Nat

ConnectSuccess     == {"success", "alreadyConnected"}
DisconnectedStatus == {"deviceDisconnected", "notConnected", "sourceDisconnected"}
DisconnectSuccess  == {"success"} \cup DisconnectedStatus
Status == ConnectSuccess \cup DisconnectedStatus \cup {"failed", "connectionUpdate"}

Link == Source \X Device

Report ==
  [call : Call \cup {NoCall}, link : Link, status : Status, named : BOOLEAN]

VARIABLES
  pc,         \* where each call is
  req,        \* its request, once it has started
  line,       \* per lock key: who holds or waits for the lock
  pending,    \* keys of _pending_actions
  contexts,   \* keys of _pending_action_contexts
  future,     \* a call's future: unset, cancelled, or its result's status
  interrupted, \* waiting calls whose timer fired or task was cancelled
  active,     \* _active_device_keys_by_source, as one set
  lost,       \* keys of _device_connection_statuses
  connected,  \* sources the receiver routes
  inbound,    \* reports of the message being handled, in handling order
  inHand,     \* per handler: reports of the message that waits for its scanner
  atAP,       \* payloads the AP may still act on
  linked,     \* the BLE links the APs really hold
  wire,       \* reports on their way, per source
  misled      \* history: links whose record may be wrong: their loss was not
              \* reported or not identified, or is handled and an "up" is not

callVars == << pc, req, line, interrupted >>
runtimeVars == << pending, contexts, future, active, lost >>
messageVars == << inbound, inHand >>
apVars == << atAP, linked, wire >>
vars == << callVars, runtimeVars, connected, messageVars, apVars, misled >>

NoRequest == [type |-> "none"]

Init ==
  /\ pc        = [c \in Call |-> "idle"]
  /\ req       = [c \in Call |-> NoRequest]
  /\ line      = [k \in Key |-> << >>]
  /\ pending   = {}
  /\ contexts  = {}
  /\ future    = [c \in Call |-> "unset"]
  /\ interrupted = {}
  /\ active    = {}
  /\ lost      = {}
  /\ connected = {}
  /\ inbound   = << >>
  /\ inHand    = [h \in Handler |-> << >>]
  /\ atAP      = {}
  /\ linked    = {}
  /\ wire      = [s \in Source |-> << >>]
  /\ misled    = {}

LinkOf(c) == << req[c].source, req[c].device >>
KeyOf(r) == OperationLockKey(r.source, r.device, r.type)
Connects(calls) == {c \in calls : req[c].type = "connect"}

(* Links that occupy a slot in the runtime's books: active_devices_for_    *)
(* source and pending_connect_devices_for_source.                          *)
reserved == (active \ lost) \cup {LinkOf(c) : c \in Connects(contexts)}

SlotDevices(s) == {d \in Device : << s, d >> \in reserved}

-----------------------------------------------------------------------------
(* async_send_aruba_action *)

(* Slip: one device too many gets past the check. *)
LocalAnswerOneTooMany(r) ==
  /\ r.type = "connect"
  /\ \/ << r.source, r.device >> \in active \ lost
     \/ Cardinality(SlotDevices(r.source)) > Slots

(* _local_connect_slot_response: alreadyConnected or noMoreConnectionSlots.*)
LocalAnswer(r) ==
  /\ r.type = "connect"
  /\ \/ << r.source, r.device >> \in active \ lost
     \/ Cardinality(SlotDevices(r.source)) >= Slots

(* No message is being handled: the event loop runs something else. *)
Idle == inbound = << >>

GoTo(c, p) == pc' = [pc EXCEPT ![c] = p]

(* The line of the lock that request r needs. *)
LineOf(r) == line[KeyOf(r)]
SetLine(r, calls) == line' = [line EXCEPT ![KeyOf(r)] = calls]

(* The lock is ours.  Up to the first real await, in one step: answer from *)
(* the books, fail for want of a route (the registration is undone), or    *)
(* register, if the caller wants the result, and hand the payload over.    *)
Run(c, r, rest) ==
  \/ /\ LocalAnswer(r)
     /\ GoTo(c, "done") /\ SetLine(r, rest)
     /\ UNCHANGED << pending, contexts, atAP >>
  \/ /\ ~ LocalAnswer(r)
     /\ r.source \notin connected
     /\ GoTo(c, "done") /\ SetLine(r, rest)
     /\ UNCHANGED << pending, contexts, atAP >>
  \/ /\ ~ LocalAnswer(r)
     /\ r.source \in connected
     /\ GoTo(c, "sending") /\ SetLine(r, << c >> \o rest)
     /\ pending'  = IF r.wait THEN pending \cup {c} ELSE pending
     /\ contexts' = IF r.wait THEN contexts \cup {c} ELSE contexts
     /\ atAP'     = atAP \cup {c}

Arrive(c) ==
  /\ Idle
  /\ pc[c] = "idle"
  /\ \E r \in Request :
       /\ req' = [req EXCEPT ![c] = r]
       /\ IF LineOf(r) = << >>
            THEN Run(c, r, << >>)
            ELSE /\ GoTo(c, "queued") /\ SetLine(r, Append(LineOf(r), c))
                 /\ UNCHANGED << pending, contexts, atAP >>
  /\ UNCHANGED << interrupted, future, active, lost, connected, messageVars, linked, wire, misled >>

(* Slip: a call does not wait for its turn. *)
EnterOutOfTurn(c) ==
  /\ Idle
  /\ pc[c] = "queued"
  /\ Run(c, req[c], SelectSeq(LineOf(req[c]), LAMBDA d : d # c))
  /\ UNCHANGED << req, interrupted, future, active, lost, connected, messageVars, linked, wire, misled >>

(* The lock's holder left and this call is next. *)
Enter(c) ==
  /\ Idle
  /\ pc[c] = "queued"
  /\ Head(LineOf(req[c])) = c
  /\ Run(c, req[c], Tail(LineOf(req[c])))
  /\ UNCHANGED << req, interrupted, future, active, lost, connected, messageVars, linked, wire, misled >>

CancelQueued(c) ==
  /\ Idle
  /\ pc[c] = "queued"
  /\ \E i \in DOMAIN LineOf(req[c]) :
       /\ LineOf(req[c])[i] = c
       /\ SetLine(req[c], RemoveAt(LineOf(req[c]), i))
  /\ GoTo(c, "done")
  /\ UNCHANGED << req, interrupted, runtimeVars, connected, messageVars, apVars, misled >>

(* Slip: the lock is not released. *)
EndAsKeepingLock(c, p) ==
  /\ GoTo(c, p)
  /\ future' = [future EXCEPT ![c] = "unset"]
  /\ UNCHANGED line

(* The call ends, its future with it, and its lock goes to the next in line*)
EndAs(c, p) ==
  /\ GoTo(c, p)
  /\ SetLine(req[c], Tail(LineOf(req[c])))
  /\ future' = [future EXCEPT ![c] = "unset"]

Forget(c) ==
  /\ pending'  = pending \ {c}
  /\ contexts' = contexts \ {c}

(* async_send_to_source returned.  A future that is already done does not  *)
(* suspend wait_for.                                                       *)
SendReturns(c) ==
  /\ Idle
  /\ pc[c] = "sending"
  /\ \/ /\ ~ req[c].wait
        /\ EndAs(c, "done")
     \/ /\ req[c].wait
        /\ future[c] = "unset"
        /\ GoTo(c, "waiting")
        /\ UNCHANGED << line, future >>
     \/ /\ req[c].wait
        /\ future[c] # "unset"
        /\ EndAs(c, "done")
  /\ UNCHANGED << req, interrupted, pending, contexts, active, lost, connected, messageVars, apVars, misled >>

(* Slip: the context stays behind when the send fails. *)
SendRaisesKeepingContext(c) ==
  /\ Idle
  /\ pc[c] = "sending"
  /\ pending' = pending \ {c}
  /\ EndAs(c, "done")
  /\ UNCHANGED << contexts, req, interrupted, active, lost, connected, messageVars, apVars, misled >>

(* It raised or hit SEND_TIMEOUT; the payload may be out all the same.     *)
SendRaises(c) ==
  /\ Idle
  /\ pc[c] = "sending"
  /\ Forget(c)
  /\ EndAs(c, "done")
  /\ UNCHANGED << req, interrupted, active, lost, connected, messageVars, apVars, misled >>

(* `except Exception` does not catch CancelledError: nothing is undone.    *)
CancelSending(c) ==
  /\ Idle
  /\ pc[c] = "sending"
  /\ EndAs(c, "cancelledSending")
  /\ UNCHANGED << req, interrupted, pending, contexts, active, lost, connected, messageVars, apVars, misled >>

(* wait_for's timer fires or the task is cancelled.  A future that has its *)
(* result keeps it; the call resumes later and sees the interruption only. *)
Interrupt(c) ==
  /\ Idle
  /\ pc[c] = "waiting"
  /\ c \notin interrupted
  /\ interrupted' = interrupted \cup {c}
  /\ future' = [future EXCEPT ![c] = IF @ = "unset" THEN "cancelled" ELSE @]
  /\ UNCHANGED << pc, req, line, pending, contexts, active, lost, connected, messageVars, apVars, misled >>

(* The waiting task runs again: it returns its result, or takes the action *)
(* out of the dictionaries and reports the timeout or the cancellation.    *)
Resume(c) ==
  /\ Idle
  /\ pc[c] = "waiting"
  /\ future[c] # "unset"
  /\ IF c \in interrupted THEN Forget(c) ELSE UNCHANGED << pending, contexts >>
  /\ interrupted' = interrupted \ {c}
  /\ EndAs(c, "done")
  /\ UNCHANGED << req, active, lost, connected, messageVars, apVars, misled >>

-----------------------------------------------------------------------------
(* What the AP reports: _async_handle_message *)

Succeeded(type, status) ==
  CASE type = "connect"    -> status \in ConnectSuccess
    [] type = "disconnect" -> status \in DisconnectSuccess
    [] OTHER               -> status = "success"

(* set_result on the futures that are registered and not done. *)
Settled(f, calls, status) ==
  [c \in Call |-> IF c \in calls \cap pending /\ f[c] = "unset" THEN status ELSE f[c]]

IsResult(e) == e.call # NoCall

(* A report that a link is, or came, up. *)
Raises(e) ==
  \/ e.status = "connectionUpdate"
  \/ IsResult(e) /\ req[e.call].type = "connect" /\ e.status \in ConnectSuccess

(* Links whose being up is told in some reports *)
Raised(reports) == {e.link : e \in {x \in reports : Raises(x)}}

(* Reports of messages that have arrived *)
Arrived == ToSet(inbound) \cup UNION {ToSet(inHand[h]) : h \in Handler}

(* After the handling of its loss, a link's record is right, unless a      *)
(* report that it is up has arrived and is yet to be handled.  What is on  *)
(* the wire changes nothing: the record was wrong before it, or was not.   *)
Misleads(link) ==
  misled' = IF link \in Raised(Arrived') THEN misled \cup {link}
            ELSE IF link \in Raised(ToSet(wire[link[1]])) THEN misled
            ELSE misled \ {link}

(* _mark_device_disconnected with _fail_pending_actions_for_device; the    *)
(* calls `answered` have been taken out of both dictionaries before.       *)
MarkDisconnected(link, status, answered, answer) ==
  LET failing == {c \in contexts \ answered : LinkOf(c) = link} IN
  /\ Misleads(link)
  /\ active'   = active \ {link}
  /\ lost'     = lost \cup {link}
  /\ contexts' = contexts \ (answered \cup failing)
  /\ pending'  = pending \ (answered \cup failing)
  /\ future'   = Settled(Settled(future, failing, status), answered, answer)

MarkActive(link) ==
  /\ active' = active \cup {link}
  /\ lost'   = lost \ {link}

(* The next message of a source, a few reports, for which there is nothing *)
(* to wait.                                                                *)
HandleMessage(s) ==
  /\ Idle
  /\ \E n \in 1 .. MaxBatch :
       /\ n <= Len(wire[s])
       /\ inbound' = SubSeq(wire[s], 1, n)
       /\ wire' = [wire EXCEPT ![s] = SubSeq(@, n + 1, Len(@))]
  /\ UNCHANGED << callVars, runtimeVars, connected, inHand, atAP, linked, misled >>

(* The message has to wait for the scanner of its AP. *)
MessageWaits(h, s) ==
  /\ Idle
  /\ inHand[h] = << >>
  /\ \E n \in 1 .. MaxBatch :
       /\ n <= Len(wire[s])
       /\ inHand' = [inHand EXCEPT ![h] = SubSeq(wire[s], 1, n)]
       /\ wire' = [wire EXCEPT ![s] = SubSeq(@, n + 1, Len(@))]
  /\ UNCHANGED << callVars, runtimeVars, connected, inbound, atAP, linked, misled >>

(* The scanner is there, or cannot be had. *)
MessageResumes(h) ==
  /\ Idle
  /\ inHand[h] # << >>
  /\ inbound' = inHand[h]
  /\ inHand' = [inHand EXCEPT ![h] = << >>]
  /\ UNCHANGED << callVars, runtimeVars, connected, apVars, misled >>

(* _handle_status_update *)
HandleStatus(e) ==
  \/ /\ e.status \in DisconnectedStatus
     /\ MarkDisconnected(e.link, e.status, {}, "unset")
  \/ /\ e.status = "connectionUpdate"
     /\ MarkActive(e.link)
     /\ UNCHANGED << pending, contexts, future, misled >>

(* Slip: a failed action never updates the record of links. *)
ShowsNoLinkOnlySuccess(type, status) == type = "disconnect" /\ Succeeded(type, status)

(* The result says that there is no link: a disconnect that succeeded, or  *)
(* any other action that failed with notConnected and the like             *)
(* (_handle_failed_disconnect_result).                                     *)
ShowsNoLink(type, status) ==
  IF Succeeded(type, status) THEN type = "disconnect" ELSE status \in DisconnectedStatus

(* Slip: a result is recorded only if its action still waits. *)
HandleResultOfPending(e) ==
  LET c == e.call  type == req[c].type IN
  \/ /\ c \in contexts /\ ShowsNoLink(type, e.status)
     /\ MarkDisconnected(LinkOf(c), e.status, {c}, e.status)
  \/ /\ ~ (c \in contexts /\ ShowsNoLink(type, e.status))
     /\ Forget(c)
     /\ future' = Settled(future, {c}, e.status)
     /\ IF c \in contexts /\ type = "connect" /\ Succeeded(type, e.status)
          THEN MarkActive(LinkOf(c)) ELSE UNCHANGED << active, lost >>
     /\ misled' = IF ~ e.named /\ ShowsNoLink(type, e.status) THEN misled \cup {LinkOf(c)} ELSE misled

(* A result takes its action out of the dictionaries, updates the record   *)
(* of links, whether or not anybody still waits for it, and settles the    *)
(* future.  Type and device come from the result or else from the context. *)
HandleResult(e) ==
  LET c          == e.call
      type       == req[c].type
      identified == e.named \/ c \in contexts
  IN
  \/ /\ identified /\ ShowsNoLink(type, e.status)
     /\ MarkDisconnected(LinkOf(c),
          IF type = "disconnect" THEN "deviceDisconnected" ELSE e.status, {c}, e.status)
  \/ /\ ~ (identified /\ ShowsNoLink(type, e.status))
     /\ Forget(c)
     /\ future' = Settled(future, {c}, e.status)
     /\ IF identified /\ type = "connect" /\ Succeeded(type, e.status)
          THEN MarkActive(LinkOf(c)) ELSE UNCHANGED << active, lost >>
     /\ misled' = IF ShowsNoLink(type, e.status) THEN misled \cup {LinkOf(c)} ELSE misled

(* Statuses come first, results after them, each in order. *)
HandleReport ==
  /\ UNCHANGED << callVars, connected, inHand, apVars >>
  /\ \E i \in DOMAIN inbound :
       /\ \A j \in 1 .. i - 1 : IsResult(inbound[j])
       /\ inbound' = RemoveAt(inbound, i)
       /\ \/ ~ IsResult(inbound[i]) /\ HandleStatus(inbound[i])
          \/ /\ \A j \in DOMAIN inbound : IsResult(inbound[j])
             /\ i = 1
             /\ HandleResult(inbound[i])

(* The source's first telemetry, or its first since it was lost. *)
SourceConnects(s) ==
  /\ Idle
  /\ s \notin connected
  /\ connected' = connected \cup {s}
  /\ UNCHANGED << callVars, runtimeVars, messageVars, apVars, misled >>

(* Slip: only actions on devices known to be active are failed. *)
OfSourceIfActive(s) == {c \in contexts : req[c].source = s /\ LinkOf(c) \in active}

OfSource(s) == {c \in contexts : req[c].source = s}

(* _handle_source_disconnect: its devices, those known from listeners or   *)
(* callbacks included, are marked, all its actions are failed.  What was   *)
(* under way to or from the AP is gone, but for messages in hand; it may   *)
(* keep its BLE links.                                                     *)
SourceDrops(s) ==
  /\ Idle
  /\ s \in connected
  /\ connected' = connected \ {s}
  /\ active'    = {l \in active : l[1] # s}
  /\ \E others \in SUBSET Device :
       lost' = lost \cup (active \ active') \cup ({s} \X others)
  /\ contexts'  = contexts \ OfSource(s)
  /\ pending'   = pending \ OfSource(s)
  /\ future'    = Settled(future, OfSource(s), "sourceDisconnected")
  /\ atAP'      = {c \in atAP : req[c].source # s}
  /\ wire'      = [wire EXCEPT ![s] = << >>]
  /\ linked' \in {linked, {l \in linked : l[1] # s}}
  /\ misled' = {l \in misled : l[1] # s} \cup {l \in Raised(Arrived) : l[1] = s}
  /\ UNCHANGED << callVars, messageVars >>

-----------------------------------------------------------------------------
(* The AP *)

Reports(s, e) ==
  /\ s \in connected
  /\ Len(wire[s]) < MaxWire
  /\ wire' = [wire EXCEPT ![s] = Append(@, e)]

Performs(c, status) ==
  \E named \in Named :
    Reports(req[c].source, [call |-> c, link |-> LinkOf(c), status |-> status, named |-> named])

(* The AP carries an action out, or fails to, and reports. *)
APAnswers(c) ==
  /\ Idle
  /\ c \in atAP
  /\ atAP' = atAP \ {c}
  /\ LET link == LinkOf(c)  up == link \in linked IN
     \/ /\ req[c].type = "connect"
        /\ linked' = linked \cup {link}
        /\ Performs(c, IF up THEN "alreadyConnected" ELSE "success")
     \/ /\ req[c].type = "disconnect"
        /\ linked' = linked \ {link}
        /\ Performs(c, IF up THEN "success" ELSE "notConnected")
     \/ /\ req[c].type = "gatt"
        /\ UNCHANGED linked
        /\ Performs(c, IF up THEN "success" ELSE "notConnected")
     \/ /\ UNCHANGED linked
        /\ Performs(c, "failed")
  /\ UNCHANGED << callVars, runtimeVars, connected, messageVars, misled >>

StatusReport(l, status) ==
  Reports(l[1], [call |-> NoCall, link |-> l, status |-> status, named |-> TRUE])

(* Some losses show only in the next action's result, notConnected.        *)
LinkDrops(l) ==
  /\ Idle
  /\ l \in linked
  /\ linked' = linked \ {l}
  /\ \/ StatusReport(l, "deviceDisconnected") /\ UNCHANGED misled
     \/ SilentLoss /\ UNCHANGED wire /\ misled' = misled \cup {l}
  /\ UNCHANGED << callVars, runtimeVars, connected, messageVars, atAP >>

LinkUpdate(l) ==
  /\ Idle
  /\ l \in linked
  /\ StatusReport(l, "connectionUpdate")
  /\ UNCHANGED << callVars, runtimeVars, connected, messageVars, atAP, linked, misled >>

-----------------------------------------------------------------------------

InCode(c) ==
  \/ Arrive(c)
  \/ Enter(c)
  \/ CancelQueued(c)
  \/ SendReturns(c)
  \/ SendRaises(c)
  \/ CancelSending(c)
  \/ Interrupt(c)
  \/ Resume(c)

Next ==
  \/ \E c \in Call : InCode(c) \/ APAnswers(c)
  \/ \E s \in Source :
       \/ HandleMessage(s) \/ SourceConnects(s) \/ SourceDrops(s)
       \/ \E h \in Handler : MessageWaits(h, s)
  \/ \E h \in Handler : MessageResumes(h)
  \/ \E l \in Link : LinkDrops(l) \/ LinkUpdate(l)
  \/ HandleReport

(* The event loop runs what is ready in turn, between one message and the  *)
(* next (hence strong fairness: handling a message makes the others wait), *)
(* so that a call that could go on over and over does; SEND_TIMEOUT ends   *)
(* sends and wait_for has a timer.  Nothing is assumed of the AP or of the *)
(* callers.                                                                *)
Fairness ==
  /\ WF_vars(HandleReport)
  /\ \A c \in Call :
       SF_vars(Enter(c) \/ SendReturns(c) \/ SendRaises(c) \/ Interrupt(c) \/ Resume(c))

Spec == Init /\ [][Next]_vars
FairSpec == Spec /\ Fairness

-----------------------------------------------------------------------------

Ended == {"done", "cancelledSending"}

TypeOK ==
  /\ pc        \in [Call -> {"idle", "queued", "sending", "waiting"} \cup Ended]
  /\ req       \in [Call -> Request \cup {NoRequest}]
  /\ line      \in [Key -> Seq(Call)]
  /\ pending   \in SUBSET Call
  /\ contexts  \in SUBSET Call
  /\ future    \in [Call -> Status \cup {"unset", "cancelled"}]
  /\ interrupted \in SUBSET Call
  /\ active    \in SUBSET Link
  /\ lost      \in SUBSET Link
  /\ connected \in SUBSET Source
  /\ inbound   \in Seq(Report)
  /\ inHand    \in [Handler -> Seq(Report)]
  /\ atAP      \in SUBSET Call
  /\ linked    \in SUBSET Link
  /\ wire      \in [Source -> Seq(Report)]
  /\ misled    \in SUBSET Link

InFlight(c) == pc[c] \in {"sending", "waiting"}

(* No lost answer: a call that waits for a future nobody has settled is    *)
(* still in both dictionaries, so its result, the loss of its device and   *)
(* the loss of its source all find it (no path pops without settling).     *)
WaiterIsRegistered ==
  \A c \in Call : InFlight(c) /\ req[c].wait /\ future[c] = "unset" =>
    c \in pending /\ c \in contexts

(* Every entry of _pending_actions and _pending_action_contexts belongs to *)
(* a call that is still under way, but for those cancelled while their     *)
(* payload was being sent; the two dictionaries have the same keys.        *)
RegistrationsAccountedFor ==
  /\ pending = contexts
  /\ \A c \in contexts : req[c].wait /\ (InFlight(c) \/ pc[c] = "cancelledSending")

(* Losing a source leaves nothing of it behind, also what cancelled calls  *)
(* left: actions and active devices belong to sources that are connected.  *)
(* Excepted are devices that a message in hand when the source was lost    *)
(* has put back on the record.                                             *)
BooksFollowRoutes ==
  /\ \A c \in contexts : req[c].source \in connected
  /\ \A l \in active \ misled : l[1] \in connected

(* _active_device_keys_by_source and _device_connection_statuses never     *)
(* contradict each other (is_device_active consults both).                 *)
ActiveNotLost == active \cap lost = {}

(* Once all its reports are handled, a device on record as active is really*)
(* linked: no order of results, losses, timeouts and stale answers leaves a*)
(* link in the books that the AP has given up.  Excepted are links whose   *)
(* loss was not reported, came in a result that does not name the device,  *)
(* or was handled while a report that the link is up was in hand: one of   *)
(* the same message, statuses come first, or of one that waited.           *)
ActiveIsLinked ==
  \A l \in active \ misled :
    (wire[l[1]] = << >> /\ \A e \in Arrived : e.link # l) => l \in linked

(* A caller is told that a connect succeeded in the step that records the  *)
(* device as active, and that its device is not connected, or its          *)
(* disconnect succeeded, in one that leaves it off the record: no answer   *)
(* runs ahead of is_device_active, also one that another report caused.    *)
AnswersMatchBooks ==
  [][\A c \in Call : future[c] = "unset" /\ future'[c] # "unset" /\ future'[c] # "cancelled" =>
       /\ req[c].type = "connect" /\ Succeeded("connect", future'[c])
            => LinkOf(c) \in active' \ lost'
       /\ \/ req[c].type = "disconnect" /\ Succeeded("disconnect", future'[c])
          \/ future'[c] \in DisconnectedStatus
            => LinkOf(c) \notin active']_vars

(* Every call ends, whatever the AP does and however callers are cancelled.*)
CallsEnd == \A c \in Call : pc[c] # "idle" ~> pc[c] \in Ended

(* The lock every action runs under, as KeyedQueue promises it. *)
Locks == INSTANCE KeyedQueue WITH inside <- {c \in Call : InFlight(c)}

(* Actions use the operation locks as first-come-first-served lines.       *)
ActionsKeepLine == Locks!Spec

-----------------------------------------------------------------------------
(* What a test promises and the code does not keep.                        *)

(* A cancelled action leaves no pending entry                              *)
(* (test_runtime_cleans_pending_action_when_cancelled).                    *)
CancelLeavesNothing == \A c \in Call : c \in contexts => InFlight(c)

=============================================================================
