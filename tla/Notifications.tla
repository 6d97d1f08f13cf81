--------------------------- MODULE Notifications ---------------------------
(***************************************************************************)
(* GATT notifications of one characteristic of one device on one AP:       *)
(* async_start_gatt_notify, async_stop_gatt_notify, the deferred disable   *)
(* and the callbacks of ArubaBleProxyRuntime, with start_notify and        *)
(* stop_notify of the Bleak client that calls them.  The same              *)
(* characteristic may be asked for under several service UUIDs.            *)
(*                                                                         *)
(* A client stands for the callback that it registers, since it has one    *)
(* per characteristic, and calls one operation at a time.  What precedes a *)
(* subscription (connecting) and the fate of one action (ActiveActions) are*)
(* reduced to their outcome.  A call that must wait for the device's       *)
(* operation lock joins `line`; its turn comes when it heads the line.     *)
(***************************************************************************)
EXTENDS Naturals, Sequences, FiniteSets, SequencesExt

CONSTANTS
  Client,
  Service,
  Timer,      \* deferred disables that may exist at once
  NoService, NoTimer,
  Nobody,     \* the caller of a payload whose call was given up
  MaxLate     \* payloads of such calls on their way

ASSUME NullAssumption ==
  /\ NoService \notin Service /\ NoTimer \notin Timer
  /\ Nobody \notin Client \cup Timer /\ Client \cap Timer = {}
ASSUME MaxLateAssumption == MaxLate \in Nat
ASSUME FiniteAssumption == IsFiniteSet(Client) /\ IsFiniteSet(Service)

VARIABLES
  books,      \* the notification dictionaries of the runtime, see Books
  task,       \* per timer: its _async_deferred_notification_disable
  client,     \* per client: what it is doing and what it has subscribed to
  connected,  \* clients with _is_connected
  active,     \* the runtime has the device in its active devices
  line,       \* who holds or waits for the device's operation lock
  answer,     \* of an awaited payload: none yet, or the result's status
  phase,      \* how far async_stop is
  linked,     \* the AP holds a link to the device
  on,         \* services under which the AP reports the characteristic
  wire        \* payloads on their way to the AP

apVars == << linked, on, wire >>
vars == << books, task, client, connected, active, line, answer, phase, apVars >>

Caller == Client \cup Timer

Books ==
  [callbacks : [Service -> SUBSET Client],         \* _notification_callbacks
   tracked   : SUBSET Service,                     \* _notification_services_by_char
   enabled   : SUBSET Service,                     \* _notification_enabled_keys
   pending   : [Service -> Timer \cup {NoTimer}],  \* _pending_notification_disables
   armed     : [Timer -> Service \cup {NoService}], \* handles that will still fire
   count     : Nat]                                \* active_notifications_enabled

NoCall == [at |-> "idle", service |-> NoService, kept |-> "none"]
NoTask == [at |-> "none", service |-> NoService]

Init ==
  /\ books = [callbacks |-> [s \in Service |-> {}], tracked |-> {}, enabled |-> {},
              pending |-> [s \in Service |-> NoTimer],
              armed |-> [t \in Timer |-> NoService], count |-> 0]
  /\ task = [t \in Timer |-> NoTask]
  /\ client = [c \in Client |-> NoCall]
  /\ connected = {} /\ active = FALSE
  /\ line = << >>
  /\ answer = [x \in Caller |-> "none"]
  /\ phase = "running"
  /\ linked = FALSE /\ on = {} /\ wire = << >>

-----------------------------------------------------------------------------
(* What the operations do to the dictionaries *)

Less(n, k) == IF n < k THEN 0 ELSE n - k

Listened(b, s) == b.callbacks[s] # {}

(* Pop a key's deferred disable and cancel it. *)
WithoutTimer(b, s) ==
  IF b.pending[s] = NoTimer
    THEN b
    ELSE [b EXCEPT !.pending[s] = NoTimer, !.armed[b.pending[s]] = NoService]

(* Append a callback, keep the index of services, count it. *)
Registered(b, c, s) ==
  [b EXCEPT !.callbacks[s] = @ \cup {c}, !.tracked = @ \cup {s}, !.count = @ + 1]

(* Slip: the service leaves the index with its first callback. *)
RemovedTooSoon(b, c, s) ==
  [b EXCEPT !.callbacks[s] = @ \ {c}, !.tracked = @ \ {s}, !.count = Less(@, 1)]

(* Remove a callback; the index drops the service with its last one. *)
Removed(b, c, s) ==
  [b EXCEPT !.callbacks[s] = @ \ {c},
            !.tracked = IF b.callbacks[s] = {c} THEN @ \ {s} ELSE @,
            !.count = Less(@, 1)]

(* forget_gatt_notify_callback: the client is gone; nothing is sent. *)
Forgotten(b, c, s) ==
  LET rest == Removed(b, c, s) IN
  IF c \notin b.callbacks[s] THEN b
  ELSE IF Listened(rest, s) THEN rest
  ELSE [WithoutTimer(rest, s) EXCEPT !.enabled = @ \ {s}]

Total(b) == Cardinality({r \in Client \X Service : r[1] \in b.callbacks[r[2]]})

(* The handles that the dictionary of pending disables knows are cancelled.*)
Cancelled(b) ==
  [b EXCEPT !.pending = [s \in Service |-> NoTimer],
            !.armed = [t \in Timer |-> IF \E s \in Service : b.pending[s] = t
                                         THEN NoService ELSE b.armed[t]]]

(* Slip: keys stay enabled. *)
DeviceForgottenButEnabled(b) ==
  [Cancelled(b) EXCEPT !.callbacks = [s \in Service |-> {}], !.tracked = {},
                       !.count = Less(@, Total(b))]

(* _forget_device_notification_callbacks *)
DeviceForgotten(b) ==
  [Cancelled(b) EXCEPT !.callbacks = [s \in Service |-> {}], !.tracked = {},
                       !.enabled = {}, !.count = Less(@, Total(b))]

(* _notification_callbacks_for: the callbacks of an update that names the  *)
(* service, or no service.                                                 *)
CallbacksFor(b, named) ==
  IF b.tracked = {named}
    THEN b.callbacks[named]
    ELSE UNION {b.callbacks[s] : s \in b.tracked}

-----------------------------------------------------------------------------
(* The device comes and goes *)

Waiting(x) ==
  IF x \in Client THEN client[x].at = "enabling" ELSE task[x].at = "disabling"

(* The client's entry in _notify_callbacks is gone. *)
Bereft(c) == IF client[c].at = "idle" THEN NoCall ELSE [client[c] EXCEPT !.kept = "none"]

(* _mark_device_disconnected, as far as notifications go: callbacks are    *)
(* forgotten, awaited payloads fail (and go nowhere: the link or the route *)
(* is gone), the clients' listeners end their sessions.                    *)
DeviceLost ==
  /\ active' = FALSE
  /\ books' = DeviceForgotten(books)
  /\ answer' = [x \in Caller |->
                  IF Waiting(x) /\ answer[x] = "none" THEN "failed" ELSE answer[x]]
  /\ wire' = << >>
  /\ connected' = {}
  /\ client' = [c \in Client |-> IF c \in connected THEN Bereft(c) ELSE client[c]]

(* A client's connect has succeeded. *)
Connect(c) ==
  /\ phase # "stopped"
  /\ c \notin connected /\ client[c].at = "idle"
  /\ active => linked
  /\ linked \/ wire = << >>
  /\ connected' = connected \cup {c} /\ active' = TRUE
  /\ linked' = TRUE
  /\ UNCHANGED << books, task, client, line, answer, phase, on, wire >>

(* The device or the AP ends the link ... *)
LinkDrops ==
  /\ linked
  /\ linked' = FALSE /\ on' = {}
  /\ UNCHANGED << books, task, client, connected, active, line, answer, phase, wire >>

(* ... and reports it. *)
LossReported ==
  /\ active /\ ~ linked
  /\ DeviceLost
  /\ UNCHANGED << task, line, phase, linked, on >>

(* _handle_source_disconnect: the AP's WebSocket goes, the link may stay.  *)
SourceLost ==
  /\ active \/ \E s \in Service : Listened(books, s)
  /\ DeviceLost
  /\ UNCHANGED << task, line, phase, linked, on >>

(* disconnect: accepted, it loses the device for everybody; refused, it    *)
(* ends the caller's own session (_mark_disconnected).                     *)
Disconnect(c) ==
  /\ client[c].at = "idle"
  /\ \/ /\ c \in connected
        /\ DeviceLost
        /\ linked' = FALSE /\ on' = {}
     \/ /\ c \in connected \/ client[c].kept # "none"
        /\ connected' = connected \ {c}
        /\ books' = IF client[c].kept = "none" THEN books
                    ELSE Forgotten(books, c, client[c].service)
        /\ client' = [client EXCEPT ![c] = NoCall]
        /\ UNCHANGED << active, answer, apVars >>
  /\ UNCHANGED << task, line, phase >>

-----------------------------------------------------------------------------
(* start_notify *)

Becomes(c, doing, s, kept) ==
  client' = [client EXCEPT ![c] = [at |-> doing, service |-> s, kept |-> kept]]

Returns(c) == client' = [client EXCEPT ![c] = NoCall]

Send(x, s, value) ==
  wire' = Append(wire, [by |-> x, service |-> s, value |-> value])

(* x no longer waits for a result. *)
AnswerTaken(x) == answer' = [answer EXCEPT ![x] = "none"]

(* Slip: nobody looks at the session again. *)
SubscribesBlindly(c, s, b) ==
  books' = b /\ Becomes(c, "idle", s, "runtime")

(* async_start_gatt_notify has succeeded, with the callback in b: a client *)
(* whose session has ended meanwhile takes it back.                        *)
Subscribes(c, s, b) ==
  IF c \in connected /\ active
    THEN books' = b /\ Becomes(c, "idle", s, "runtime")
    ELSE books' = Forgotten(b, c, s) /\ Returns(c)

(* The critical section up to its payload; `rest` is the line behind.  A   *)
(* runtime that has stopped has no route, and the call fails.              *)
StartBody(c, s, rest) ==
  LET b == WithoutTimer(books, s)
      already == Listened(b, s) \/ s \in b.enabled IN
  \/ /\ already
     /\ Subscribes(c, s, Registered(b, c, s))
     /\ line' = rest
     /\ UNCHANGED wire
  \/ /\ ~ already /\ phase # "stopped"
     /\ books' = b
     /\ Becomes(c, "enabling", s, "none")
     /\ line' = << c >> \o rest
     /\ Send(c, s, TRUE)
  \/ /\ ~ already /\ phase = "stopped"
     /\ books' = b
     /\ Returns(c)
     /\ line' = rest
     /\ UNCHANGED wire

Start(c, s) ==
  /\ client[c].at = "idle" /\ client[c].kept = "none" /\ c \in connected
  /\ \/ /\ line = << >>
        /\ StartBody(c, s, << >>)
     \/ /\ line # << >>
        /\ Becomes(c, "starting", s, "none")
        /\ line' = Append(line, c)
        /\ UNCHANGED << books, wire >>
  /\ UNCHANGED << task, connected, active, answer, phase, linked, on >>

Heads(x) == line # << >> /\ Head(line) = x

ResumeStart(c) ==
  /\ Heads(c) /\ client[c].at = "starting"
  /\ StartBody(c, client[c].service, Tail(line))
  /\ UNCHANGED << task, connected, active, answer, phase, linked, on >>

(* The enabled service gets its first callback. *)
Enabled(c) ==
  LET s == client[c].service IN
  /\ Heads(c) /\ client[c].at = "enabling" /\ answer[c] = "success"
  /\ Subscribes(c, s, [Registered(books, c, s) EXCEPT !.enabled = @ \cup {s}])
  /\ line' = Tail(line)
  /\ AnswerTaken(c)
  /\ UNCHANGED << task, connected, active, phase, apVars >>

(* The AP does not know the characteristic, which is one the client made   *)
(* up: register_gatt_notify_callback, without another look at the session. *)
ListensLocally(c) ==
  LET s == client[c].service IN
  /\ Heads(c) /\ client[c].at = "enabling" /\ answer[c] = "notFound"
  /\ books' = Registered(books, c, s)
  /\ Becomes(c, "idle", s, "local")
  /\ line' = Tail(line)
  /\ AnswerTaken(c)
  /\ UNCHANGED << task, connected, active, phase, apVars >>

EnableRefused(c) ==
  /\ Heads(c) /\ client[c].at = "enabling" /\ answer[c] \in {"notFound", "failed"}
  /\ Returns(c)
  /\ line' = Tail(line)
  /\ AnswerTaken(c)
  /\ UNCHANGED << books, task, connected, active, phase, apVars >>

(* Nobody waits for x's payload any more: it is lost, or it is still on    *)
(* its way.                                                                *)
GivenUp(x) ==
  \/ (\A i \in DOMAIN wire : wire[i].by # x) /\ UNCHANGED wire
  \/ \E i \in DOMAIN wire :
       /\ wire[i].by = x
       /\ \/ wire' = RemoveAt(wire, i)
          \/ /\ Cardinality({j \in DOMAIN wire : wire[j].by = Nobody}) < MaxLate
             /\ wire' = [wire EXCEPT ![i].by = Nobody]

(* The action times out, or the caller is cancelled while it waits for it. *)
StartTimesOut(c) ==
  /\ Heads(c) /\ client[c].at = "enabling"
  /\ GivenUp(c)
  /\ Returns(c)
  /\ line' = Tail(line)
  /\ AnswerTaken(c)
  /\ UNCHANGED << books, task, connected, active, phase, linked, on >>

(* A caller that waits for the lock is cancelled. *)
CancelQueued(c) ==
  /\ client[c].at \in {"starting", "stopping"}
  /\ client' = [client EXCEPT ![c] = IF client[c].kept = "none"
                                      THEN NoCall ELSE [client[c] EXCEPT !.at = "idle"]]
  /\ \E i \in DOMAIN line : line[i] = c /\ line' = RemoveAt(line, i)
  /\ UNCHANGED << books, task, connected, active, answer, phase, apVars >>

-----------------------------------------------------------------------------
(* stop_notify *)

(* _schedule_notification_disable *)
Armed(b, t, s) == [WithoutTimer(b, s) EXCEPT !.pending[s] = t, !.armed[t] = s]

Free(t) == books.armed[t] = NoService /\ task[t].at = "none"

(* Slip: the last listener leaves and nothing is scheduled. *)
StopBodyUnscheduled(c) ==
  LET s == client[c].service IN
  /\ books' = IF c \in books.callbacks[s] THEN Removed(books, c, s) ELSE books
  /\ Returns(c)

(* async_stop_gatt_notify: the last callback goes at once, the AP is told  *)
(* after a grace period, if it had been told to report at all.             *)
StopBody(c) ==
  LET s    == client[c].service
      rest == Removed(books, c, s) IN
  /\ Returns(c)
  /\ \/ /\ c \notin books.callbacks[s]
        /\ UNCHANGED books
     \/ /\ c \in books.callbacks[s]
        /\ Listened(rest, s) \/ s \notin rest.enabled
        /\ books' = rest
     \/ /\ c \in books.callbacks[s]
        /\ ~ Listened(rest, s) /\ s \in rest.enabled
        /\ \E t \in Timer : Free(t) /\ books' = Armed(rest, t, s)

(* The bound on timers: none that waits for the lock to stop goes without. *)
TimerToSpare ==
  Cardinality({t \in Timer : Free(t)}) > Cardinality({x \in Client : client[x].at = "stopping"})

Stop(c) ==
  /\ client[c].at = "idle" /\ client[c].kept = "runtime" /\ c \in connected
  /\ TimerToSpare
  /\ \/ /\ line = << >>
        /\ StopBody(c)
        /\ UNCHANGED line
     \/ /\ line # << >>
        /\ client' = [client EXCEPT ![c].at = "stopping"]
        /\ line' = Append(line, c)
        /\ UNCHANGED books
  /\ UNCHANGED << task, connected, active, answer, phase, apVars >>

ResumeStop(c) ==
  /\ Heads(c) /\ client[c].at = "stopping"
  /\ StopBody(c)
  /\ line' = Tail(line)
  /\ UNCHANGED << task, connected, active, answer, phase, apVars >>

(* A callback that only the runtime knows of is dropped at once. *)
StopLocal(c) ==
  /\ client[c].at = "idle" /\ client[c].kept = "local" /\ c \in connected
  /\ books' = Forgotten(books, c, client[c].service)
  /\ Returns(c)
  /\ UNCHANGED << task, connected, active, line, answer, phase, apVars >>

-----------------------------------------------------------------------------
(* The deferred disable *)

TaskBecomes(t, doing, s) == task' = [task EXCEPT ![t] = [at |-> doing, service |-> s]]
TaskEnds(t) == task' = [task EXCEPT ![t] = NoTask]

(* _start_deferred_notification_disable: the task exists, and runs later. *)
TimerFires(t) ==
  /\ books.armed[t] # NoService
  /\ TaskBecomes(t, "created", books.armed[t])
  /\ books' = [books EXCEPT !.armed[t] = NoService]
  /\ UNCHANGED << client, connected, active, line, answer, phase, apVars >>

Unneeded(b, s) == Listened(b, s) \/ s \notin b.enabled

(* The finally clause. *)
Settled(b, s) == IF Listened(b, s) THEN b ELSE [b EXCEPT !.enabled = @ \ {s}]

(* Slip: what has happened during the wait for the lock is not looked at. *)
DisableBodyUnchecked(t, s, b, rest) ==
  /\ books' = b
  /\ TaskBecomes(t, "disabling", s)
  /\ line' = << t >> \o rest
  /\ Send(t, s, FALSE)

(* The critical section up to its payload. *)
DisableBody(t, s, b, rest) ==
  \/ /\ Unneeded(b, s) \/ phase = "stopped"
     /\ books' = Settled(b, s)
     /\ TaskEnds(t)
     /\ line' = rest
     /\ UNCHANGED wire
  \/ /\ ~ Unneeded(b, s) /\ phase # "stopped"
     /\ books' = b
     /\ TaskBecomes(t, "disabling", s)
     /\ line' = << t >> \o rest
     /\ Send(t, s, FALSE)

Popped(b, s) == [b EXCEPT !.pending[s] = NoTimer]

(* The task's first step forgets the key's timer, whichever it is. *)
TaskRuns(t) ==
  LET s == task[t].service
      b == Popped(books, s) IN
  /\ task[t].at = "created"
  /\ \/ /\ Unneeded(b, s)
        /\ books' = b
        /\ TaskEnds(t)
        /\ UNCHANGED << line, answer, wire >>
     \/ /\ ~ Unneeded(b, s) /\ line = << >>
        /\ DisableBody(t, s, b, << >>)
     \/ /\ ~ Unneeded(b, s) /\ line # << >>
        /\ books' = b
        /\ TaskBecomes(t, "queued", s)
        /\ line' = Append(line, t)
        /\ UNCHANGED wire
  /\ UNCHANGED << client, connected, active, answer, phase, linked, on >>

ResumeTask(t) ==
  /\ Heads(t) /\ task[t].at = "queued"
  /\ DisableBody(t, task[t].service, books, Tail(line))
  /\ UNCHANGED << client, connected, active, answer, phase, linked, on >>

(* Whatever the answer, the key counts as disabled. *)
Disabled(t) ==
  /\ Heads(t) /\ task[t].at = "disabling" /\ answer[t] # "none"
  /\ books' = Settled(books, task[t].service)
  /\ TaskEnds(t)
  /\ line' = Tail(line)
  /\ AnswerTaken(t)
  /\ UNCHANGED << client, connected, active, phase, apVars >>

DisableTimesOut(t) ==
  /\ Heads(t) /\ task[t].at = "disabling"
  /\ GivenUp(t)
  /\ books' = Settled(books, task[t].service)
  /\ TaskEnds(t)
  /\ line' = Tail(line)
  /\ AnswerTaken(t)
  /\ UNCHANGED << client, connected, active, phase, linked, on >>

-----------------------------------------------------------------------------
(* async_stop *)

(* _async_cancel_deferred_notification_disables: the handles that the      *)
(* runtime knows of go, and the tasks are told to; one that has not begun  *)
(* never does.  A payload of theirs is on its own.                         *)
StopRuntime ==
  /\ phase = "running" /\ phase' = "cancelling"
  /\ books' = [Cancelled(books) EXCEPT !.enabled = {}]
  /\ task' = [t \in Timer |-> IF task[t].at \in {"queued", "disabling"}
                               THEN [task[t] EXCEPT !.at = "cancelled"] ELSE NoTask]
  /\ answer' = [x \in Caller |-> IF x \in Timer THEN "none" ELSE answer[x]]
  /\ wire' = [i \in DOMAIN wire |->
                IF wire[i].by \in Timer THEN [wire[i] EXCEPT !.by = Nobody] ELSE wire[i]]
  /\ UNCHANGED << client, connected, active, line, linked, on >>

(* The task sees its cancellation, through its finally clause. *)
TaskCancelled(t) ==
  /\ task[t].at = "cancelled"
  /\ \E i \in DOMAIN line : line[i] = t /\ line' = RemoveAt(line, i)
  /\ books' = Settled(books, task[t].service)
  /\ TaskEnds(t)
  /\ UNCHANGED << client, connected, active, answer, phase, apVars >>

(* The gather: no cancelled task is left. *)
TasksAreGone ==
  /\ phase = "cancelling" /\ \A t \in Timer : task[t].at # "cancelled"
  /\ phase' = IF active THEN "stopping" ELSE "stopped"
  /\ UNCHANGED << books, task, client, connected, active, line, answer, apVars >>

(* _async_disconnect_active_devices_on_stop, after a send to each device.  *)
RuntimeStops ==
  /\ phase = "stopping"
  /\ phase' = "stopped"
  /\ DeviceLost
  /\ UNCHANGED << task, line, linked, on >>

-----------------------------------------------------------------------------
(* The AP acts on payloads in order, and its results arrive or not. *)

Result(x, status) ==
  answer' = IF x = Nobody \/ answer[x] # "none" THEN answer
            ELSE [answer EXCEPT ![x] = status]

APActs ==
  /\ wire # << >>
  /\ LET p == Head(wire) IN
     \/ /\ linked
        /\ on' = IF p.value THEN on \cup {p.service} ELSE on \ {p.service}
        /\ Result(p.by, "success") \/ UNCHANGED answer
     \/ /\ \E status \in {"notFound", "failed"} : Result(p.by, status)
        /\ UNCHANGED on
  /\ wire' = Tail(wire)
  /\ UNCHANGED << books, task, client, connected, active, line, phase, linked >>

-----------------------------------------------------------------------------
ClientStep(c) ==
  \/ Connect(c) \/ Disconnect(c)
  \/ \E s \in Service : Start(c, s)
  \/ ResumeStart(c) \/ Enabled(c) \/ ListensLocally(c) \/ EnableRefused(c)
  \/ StartTimesOut(c) \/ CancelQueued(c)
  \/ Stop(c) \/ ResumeStop(c) \/ StopLocal(c)

TaskStep(t) ==
  \/ TimerFires(t) \/ TaskRuns(t) \/ ResumeTask(t)
  \/ Disabled(t) \/ DisableTimesOut(t) \/ TaskCancelled(t)

Next ==
  \/ \E c \in Client : ClientStep(c)
  \/ \E t \in Timer : TaskStep(t)
  \/ LinkDrops \/ LossReported \/ SourceLost
  \/ StopRuntime \/ TasksAreGone \/ RuntimeStops \/ APActs

Spec == Init /\ [][Next]_vars

-----------------------------------------------------------------------------
(* Each update of the characteristic, under whatever service the AP names  *)
(* it, reaches every callback for it exactly once, and as many are counted *)
(* as there are (_notification_callbacks_for, active_notifications_enabled,*)
(* through every path that adds or removes a callback).                    *)
EveryListenerHears ==
  /\ \A named \in Service \cup {NoService} :
       CallbacksFor(books, named) = UNION {books.callbacks[s] : s \in Service}
  /\ books.count = Total(books)

(* A callback that came by a successful start belongs to a client in       *)
(* session, of a device that the runtime holds for connected: none         *)
(* survives a disconnect, however late its start resumes                   *)
(* (start_notify, forget_gatt_notify_callback).                            *)
NoDeadSubscriber ==
  \A c \in Client, s \in Service :
    (c \in books.callbacks[s] /\ client[c].kept # "local") =>
      c \in connected /\ active /\ client[c].service = s /\ client[c].kept = "runtime"

(* While the link lasts, what the runtime believes enabled is enabled at   *)
(* the AP, except while it is being disabled: the reason why a start may   *)
(* be answered already_enabled without asking the AP.                      *)
EnabledIsOn ==
  \A s \in books.enabled :
    /\ active
    /\ linked => s \in on \/ \E t \in Timer : task[t].at = "disabling" /\ task[t].service = s

(* The AP is told to stop only what nobody listens to: while a disable is  *)
(* awaited, no callback is added (the operation lock holds off starts).    *)
DisablesOnlyUnheard ==
  \A t \in Timer :
    task[t].at = "disabling" => Heads(t) /\ ~ Listened(books, task[t].service)

(* The last listener's leaving is followed up: what is enabled and heard by *)
(* nobody has a timer or a task, on the books or not, that will look at it *)
(* (async_stop_gatt_notify and the pops and cancels of a key's timer).     *)
UnheardIsFollowedUp ==
  \A s \in books.enabled : ~ Listened(books, s) =>
    \E t \in Timer : books.armed[t] = s \/ task[t].service = s

=============================================================================
