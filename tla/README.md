# A TLA+ model of Aruba BLE Proxy

Aruba BLE Proxy is a Home Assistant integration.  Aruba access points (APs) open
WebSockets to it and report BLE advertisements, statuses and results of actions;
the integration forwards advertisements to Home Assistant's Bluetooth stack and
sends actions (connect, disconnect, GATT read, write, notification) back to the
APs.  These modules model the parts that keep state across awaits, and the
parsing and UUID handling whose edges are easy to get wrong; TLC checks them on
small instances, and TLAPS proves the invariants and action properties for every instance.

All paths below are under `src/custom_components/aruba_ble_proxy/`.

## The system

Everything runs in one asyncio event loop: code between two awaits is atomic,
and all the interleavings are at awaits.  The models follow that grain.

| component | state | operations | right means |
|---|---|---|---|
| Receiver (`aruba_iot_ble/server.py`) | open connections, routing tables in both directions, send locks, strikes per connection | accept, bind a source, decode, hand over, forget, send southbound | the tables agree; routes end with their connection; the runtime is told of each loss; limits hold; payloads do not overlap on a socket |
| Operation locks (`runtime.py`, `_active_operation`) | lock slots with user counts | enter and leave a key's critical section | mutual exclusion per key, first come first served, no slot left behind |
| Active actions (`runtime.py`) | futures and contexts by action id, active devices, disconnect statuses | send an action, handle results and statuses, lose a source | answers reach their callers, the books agree with each other and with the AP, slots hold, calls end |
| Characteristics and discovery (`runtime.py`) | last values, waiters, settle timers, read futures | record, wait, read | a waiter gets a full burst or a failure; nothing survives a disconnect |
| Notifications (`runtime.py`) | callbacks, enabled keys, deferred disables | start, stop, deferred disable | enabled at the AP while somebody listens; no callback survives its client's session |
| Bleak client (`active_client.py`) | connected flag, session slot, listeners, notification handles, services | connect, disconnect, discover, read, write, notify | its session follows the runtime's link; slots are conserved; UUIDs lead back to the AP's |
| Life cycle and scanners (`runtime.py`, `scanner.py`, `__init__.py`) | receiver task, scanners and models per source | start, stop, create a scanner, unload | one scanner per source, none left after an orderly unload; learnt models are kept |
| Advertisement parsing (`aruba_iot_ble/ble_parser.py`, `ha_payload.py`) | none | AD structures to fields | every structure read once, none past the end |
| Decoding and encoding (`aruba_iot_ble/aruba_proto.py`, `active.py`, `models.py`) | none | protobuf to dataclasses and back | field by field |
| Entry, services, config flow (`__init__.py`, `config_flow.py`, `diagnostics.py`) | entries | set up, unload, services, forms | validation, order of unload |
| CLI text and compatibility (`aruba_iot_ble/aruba_cli.py`, `compatibility.py`, `cli.py`) | none | text | wording |

How they interact.  The receiver calls the runtime: `message_handler` for each
decoded message (awaited, so a connection reads nothing meanwhile),
`event_handler` for each advertisement, `source_disconnect_handler` (synchronous)
when a source loses its route.  The runtime calls the receiver's
`async_send_to_source`.  Clients and services call the runtime under an operation
lock and wait on futures that the message handler sets.  Losing a device or a
source settles the futures, clears the device's callbacks and cached
characteristics and calls the disconnect listeners of the clients.

What makes it hard: cancellation at every await; results that arrive after their
caller has timed out or been cancelled; reports that refer to an older link of
the same device; sources that move between connections; a lock that lives in an
object that comes and goes; timers that race with results.  `PROJECT.json`
lists these hazards at their lines with the properties that would catch them.

## Modules

    OperationKeys          lock keys
      OperationLocks       slots and locks          -- implements KeyedQueue
        OperationLocksProofs (with SequenceFacts)
      ActiveActions        actions and the books    -- its lines implement KeyedQueue
        ActiveActionsProofs (with SequenceFacts), MCActiveActions
        SlotArbitration    with a history, for the slot check; MCSlotArbitration
    KeyedQueue             abstract: one line of callers per key
    Receiver               connections, routes, sends
      ReceiverProofs (with SequenceFacts), MCReceiver
    Notifications          subscriptions of a characteristic
      NotificationsProofs (with SequenceFacts), MCNotifications
    Discovery              characteristics of a device, waits and reads
      DiscoveryProofs (with SequenceFacts), MCDiscovery
    Sessions               clients' sessions and the slots of an AP
      ClientProofs (with SequenceFacts), MCSessions
    Scanners               the entry, the runtime's life, scanners and their models
      ScannersProofs, MCScanners
    Advertisement          a payload, parsed
      GattServices         and the services a client offers; ClientProofs, MCGattServices
    Subsequences           what a loop that drops elements leaves of a sequence

The definition-by-definition correspondence is the `map` of `PROJECT.json`;
here is the idea of each module.  In the modules, a definition whose comment
starts with "Slip:" is a plausible mistake in the definition after it; no
specification uses it.  For each property there is a slip that breaks it.

**OperationLocks** models `_active_operation`.  A slot object is named by the
call that created it.  `Arrive` is everything up to the lock (and into the body,
if the lock is free, since asyncio then does not suspend), `Wake` the resumption
of the first waiter, `Leave` and `CancelQueued` the `finally` block.  Between
the release and the resumption of the woken waiter the lock is free but no
newcomer gets it, as in `asyncio.Lock`.  Its refinement mapping puts the
holder before the waiters and forgets the slots.

**KeyedQueue** is what callers may rely on.  `OperationLocks` and `ActiveActions`
both implement it; the latter is why `ActiveActions` may use a plain line per
key instead of slots.

**Receiver** models `_handle_connection`, `_bind_connection_source`,
`_forget_connection` and `async_send_to_source`.  A frame is reduced to its
outcome: text, rejected, undecodable, or telemetry of a source.  `known` is what
the runtime has been told: sources handed to the message handler and not since
reported lost.  A Telemetry step ends with the call of the handler, and the
connection reads again after `HandlersReturn`.  A send looks its socket up before
it waits for the source's lock, as the code does, so the socket may be gone, and
the lock dropped from the dictionary, when its turn comes.  Two histories are for
`SendsDoNotOverlap`: `displaced`, which connections have lost which source to another and
not reported it since, and `orphaned`, those of them for which the route, and the lock with
it, has gone meanwhile.

**ActiveActions** models `async_send_aruba_action` from end to end with
`_async_handle_message`, `_handle_status_update` and `_handle_source_disconnect`.

| variable | code |
|---|---|
| `pending`, `contexts` | keys of `_pending_actions`, `_pending_action_contexts` |
| `future` | the futures: unset, cancelled by `wait_for`, or the status of the result |
| `active` | `_active_device_keys_by_source`, as one set of links |
| `lost` | keys of `_device_connection_statuses` (every value stored there is a disconnected status) |
| `line` | holder and waiters of each operation lock |
| `interrupted` | calls whose timer or cancellation has fired and that have not run since |
| `inbound` | the rest of the message being handled |
| `inHand` | per connection handler the message that waits for its scanner (`runtime.py:491`) |
| `atAP`, `linked`, `wire` | the AP: payloads it may act on, its real links, its reports under way |

A message is handled report by report in the code's order, statuses first; no
other action is enabled in between, so that handling one is atomic for the rest
of the system.  Before that it may have to wait for the scanner of its AP
(`MessageWaits`, `MessageResumes`): its source may then be lost or open another connection,
whose messages overtake it, and it is handled all the same, as the code has it.  `HandleResult` folds the code's two branches (future found or
not) into one, since they differ in counters only.  The status `inactivityTimeout`
is treated by the code as `deviceDisconnected` is, and is left out.  A call that
is interrupted between the setting of its future and its resumption sees the
interruption, as `asyncio.wait_for` has it.  The AP is an environment: it may
answer at any time or never, drop links with or without a report, and with
`Named` also leave device and type out of a result.  A source's loss discards what
was under way, but for messages in hand.

`misled` is a history of the links whose record may be wrong for a reason the code cannot
help or does not look at: the loss was not reported (`SilentLoss`; the code
says so at `runtime.py:553-559`), it came in a result that names no device and whose caller
has gone, or it (or the loss of the source) was handled while a report that the link is up
had arrived and was yet to be handled, in the same message, since statuses come first, or in
one that waited.  The handling of a later report of the loss takes a link out of it.  Each of these causes is
needed: without any of them `ActiveIsLinked` or `BooksFollowRoutes` fails.

**SlotArbitration** adds a history variable to ActiveActions to say what the slot
check is worth.  A link lapses when it is possible at the AP (up, about to come up,
or about to be reported up) while the runtime does not reckon with it, which is
what timeouts, cancellations and sends without waiting cause.  `SlotsRespected`
counts reserved links that have not lapsed: the check can hold only for what the
runtime can know.

**Notifications** models the subscriptions of one characteristic of one device:
`async_start_gatt_notify`, `async_stop_gatt_notify`, `register_` and
`forget_gatt_notify_callback`, the deferred disable with its timer and its task, the
cleaning after a lost device and the cancellations of `async_stop`, together with
`start_notify` and `stop_notify` of the Bleak client.  The characteristic may be
asked for under several service UUIDs, which are different keys.

| variable | code |
|---|---|
| `books.callbacks`, `books.tracked`, `books.enabled` | `_notification_callbacks`, `_notification_services_by_char`, `_notification_enabled_keys` |
| `books.pending`, `books.armed` | `_pending_notification_disables`; the handles that the loop will still call, on those books or not |
| `books.count` | `stats.active_notifications_enabled` |
| `task` | the `_async_deferred_notification_disable` of each timer that has fired |
| `client`, `connected` | what each client does and keeps in `_notify_callbacks` (`local`: also in `_local_notify_callbacks`); `_is_connected` |
| `active` | the device is in the active devices |
| `line` | holder and waiters of the device's operation lock |
| `linked`, `on`, `wire`, `answer` | the AP: its link, the services it reports under, payloads under way; the results that have come back |

A timer is an identity, taken again once its task is over.  The time between a
timer's firing and the first step of its task is a state of its own (`created`), since
the task runs one turn of the loop later.  `Subscribes` is one step with the end of
the runtime's start because no await lies between them.  `StopRuntime` cancels
the timers on the books and asks the tasks to end; each leaves through its `finally`
clause (`TaskCancelled`) before the stop goes on.  `TimerToSpare` is the bound on timers:
a stop is called only while one is left for it, so that no caller at the head of the
line waits for a timer of the model.

Abstractions: the fate of one action is that of `ActiveActions`, here a result,
a failure or a time-out whose payload is lost or still under way.  The AP takes
payloads in order, and reports the loss of a link before the device is connected
again.  A client has one call at a time.  Other operations on the device's lock
only make a caller wait longer and are left out, as is the `gatt_notification` service,
with which a user may switch the AP behind the books' back.

**Discovery** models what the runtime knows of the characteristics of one device:
`_handle_characteristic`, `async_wait_for_device_characteristics` with the timer that settles a
burst, `_async_gatt_read_unlocked`, and the part of `_mark_device_disconnected` about them.

| variable | code |
|---|---|
| `cache` | the keys of `_last_characteristics`, oldest first |
| `waiters`, `timer` | `_pending_device_characteristics`; `_pending_device_characteristic_resolutions`, per source or for any |
| `readers` | `_pending_characteristics` |
| `wait`, `read` | the callers, with their futures; what was reported for a wait since it began is a history |
| `linked`, `burst` | the AP: the sources that report the device, what is left of their discovery |
| `inHand` | reports in messages that wait for the scanner of their AP |
| `overdue`, `late` | histories: those of them whose link has been lost since; what is cached by such a report |

A report is handled without a look at the link or the route, as in `_handle_characteristic`: one that
was in hand when its link was lost is cached after the loss.  The only statement about time is that the gaps of a burst are shorter than
`DEVICE_CHARACTERISTIC_SETTLE_DELAY`: a timer started by the latest report does not fire amid a
burst, an older one may.  The operation lock is one read per source at a time.  Of the list a wait
returns only its extent is kept: nothing, a part, or all characteristics of a source.

**Sessions** models the connection side of `ArubaBleakClient`: `connect` with every await at which
it can fail or be cancelled, `disconnect`, `_sync_disconnected_from_runtime`, the disconnect
listener, and the AP's session semaphore.  The semaphore is that of asyncio: a permit given back
goes to the first in line, who is woken and has still to run, and nobody overtakes him.  The runtime
is reduced to the outcome of an action, the active devices and the calls of listeners.

| variable | code |
|---|---|
| `free`, `queue` | the semaphore's value; those who wait for it |
| `conn`, `outcome` | where a client's `connect` is; the answer to its action |
| `asking`, `requested` | a `disconnect` under way; `_disconnect_requested` |
| `holds`, `connected`, `listening` | `_session_slot_acquired`, `_is_connected`, `_disconnect_listener_unsub` |
| `told`, `overlapped`, `late` | histories: the callback ended the last session; connect and disconnect overlapped; the session began after its device's loss |

**Scanners** models the life of the listener's entry and its runtime: `async_setup_entry`,
`async_start` and `async_stop`, `async_unload_entry`, `async_remove_entry`, and `_async_handle_message` up to the reports,
with `_async_ensure_remote_scanner`, its create lock per source, the discovery flow for an AP without an
entry, and the update of a learnt model.  A scanner is registered and then set up; an attempt may fail
before either, and what it has registered is taken back (`RolledBack`).  It has the connections too, with their routes: while a
message waits for a scanner, its source may be taken over or lost, which is where Receiver and
ActiveActions touch in a way neither module shows.

| variable | code |
|---|---|
| `phase`, `receiver`, `leaving` | where set-up and unloading are; the receiver's task; devices `async_stop` has still to disconnect |
| `scanners`, `sourceModel` | `_remote_scanners` with `_scanner_unsubs`; `_source_models` |
| `at`, `asked`, `route` | per connection the place of its message, the model given to its flow; the receiver's route |
| `active` | `_active_device_keys_by_source`, one device per AP |
| `registered`, `entryModel` | Home Assistant: scanners per source, config entries of APs |
| `left`, `untidy`, `crossed`, `stale` | histories that say which of the exceptions below has happened |

`untidy`, `crossed` and `stale` are exceptions the code makes, and the properties name them: see
the disagreements.

**Advertisement** is `parse_advertisement_data`, one AD structure per step, down to octets, as the
questions are about lengths and offsets; `FieldsFollowStructures` compares the fields with a
definition over all structures at once.  **GattServices** uses it: what a device has
advertised (`_device_advertised_service_uuids`, with its limit), the collection of
`build_service_collection`, the compatibility override with its made-up services, and the UUIDs a
client's request names to the AP (`_format_uuid` and `uuid_to_bytes`).  A UUID is its sixteen octets in both.

**Subsequences** has the one helper of `Discovery` and `GattServices` for loops that drop elements of
an ordered dictionary or list: `Kept(w, I)`, the elements of `w` at the places in `I`.  It says by places what
SelectSeq says by recursion, so that it can be reasoned about.

## Runs

| run | bounds | what it shows |
|---|---|---|
| `locks` | 4 calls, 1 AP, 2 devices | slots exclude, do not leak, implement `KeyedQueue`; nobody in line is forgotten |
| `receiver_routes` | 3 connections, 3 sources, limits of 2, 1 send | routes, limits, notices of losses, places |
| `receiver_sends` | 2 connections, 1 source, 3 sends | sends do not overlap, sends end |
| `actions_books` | 2 calls, 1 device, all requests, results that name no device, 2 reports per message, 1 message in hand, silent losses | registrations, futures and books; books against routes and real links |
| `actions_turns` | 2 calls, 2 devices, 1 slot, all requests that wait for a result | the slot check; calls take their turn and end |
| `actions_cancel` | 2 calls | a disagreement, below |
| `notify_books` | 2 clients, 2 services, 2 timers, 1 late payload | callbacks, keys, timers and the AP in step; unheard keys are followed up |
| `discovery` | 2 sources of 1 device, 2 characteristics, 2 waits, 1 read, a cache of 2, 1 report in hand; waits and reads not at once | no caller is forgotten, lists are whole, nothing of an old link but by a report in hand |
| `sessions` | 3 clients on 2 devices, 1 slot | permits, slots and sessions; losses end sessions and are told |
| `scanners` | 2 APs, 3 connections, 1 model, at most 1 scanner of an AP left behind | scanners, models, unloading, routes of active devices |
| `services` | 2 devices, 1 remembered; payloads of up to 2 of 19 fragments; reports of up to 3 of 5 characteristics | parsing, UUIDs there and back, what is remembered of devices |
| `services_fallback` | as `services` | a disagreement, below |

Why these bounds.  A slot that is dropped wrongly needs one caller that holds the
old lock, one that leaves and one that makes a new slot: three calls, and four
give one more waiter.  A takeover needs two connections and the source's return a
third step of them; limits of two with three of each reach both limits with a
takeover in between.  A stale report needs an action whose caller has gone and a
newer one for the same device; a full slot needs a second device.  Keys of different APs share
nothing in the actions but the receiver, hence one AP.  All calls, sends and
connections are used once, so the systems stop: deadlock is not checked.  A second
service tells the index of services from the keys, a second client shares a key or
waits for the lock, a second timer may be armed while the first one's task is still
to run, and a late payload meets the next call for the same key; a stopped runtime
has nothing more to do.

In `discovery`, a device that two sources report tells waits for one source from waits for any; a
burst of two characteristics has a middle; two waits share a list and a timer; a cache of
two is full after one burst; one report in hand is enough to come after its link's loss and after the
next connect.  Waits and reads have nothing in common but the cache, which neither of them changes, and the
loss of the link; so that both fit in one run, one kind is under way at a time (`Apart`).  In `sessions`, one slot for three clients gives a line of two, and
two clients of one device share its loss; a client may connect and disconnect at the same time.  In
`scanners`, two connections of one AP make the takeovers and the two messages that want one
scanner, and the second AP has its own; the default and one learnt model are the two the code
tells apart.  In `services`, two fragments put any structure before or after any other, the broken
ones included; three characteristics are two of one service and one of another; with room for one
device the second one heard makes the first forgotten.  Where symmetry is used no liveness is.

`actions_books` has one device, for which two reports per message and two on the wire put any two
reports about its link in one message, in two, or one of them in hand; `actions_turns` has the second
device, for the slot and the keys.  The message that waits is left out (`Handler = {}`) there and of `actions_cancel`:
it touches no line, and a call's timer fires whatever is in hand, so that `CallsEnd` and `ActionsKeepLine`
have nothing to learn from it; `SlotsAreRespected` is proved for any handlers, calls and batches.

`SendsDoNotOverlap` excepts orphaned sockets: A reports the source and a send for it is under way; B takes the
source over; B closes, which drops the lock; A reports the source again, and the next send makes a new lock for
the socket the first send is still using.  Returns of any other kind, while B keeps the
route or A has never lost it, are in the run, and do not make sends overlap.

`ActiveIsLinked` and `BooksFollowRoutes` except `misled` links (see ActiveActions), `CacheFollowsLink` excepts
`late` keys.  These are not bounds of a run: all that makes them happen is in the runs and in the
proofs, and a device on record against the AP for any other reason is a violation.

### Disagreements with tests and docs

Two are runs of their own, whose property is what the test or document says.

* `actions_cancel`: `test_runtime_cleans_pending_action_when_cancelled`
  asserts that a cancelled action leaves no pending entry.  A call cancelled while
  `async_send_to_source` is awaited leaves its future and context behind
  (`except Exception`, `runtime.py:1125`), and a connect left that way holds a
  slot until its result, its device's loss or its source's loss.
* `services_fallback`: SPEC.md:40-41, ACTIVE_BLE_FEASIBILITY.md:141-144 and HA_CORE_DEVELOPMENT_PLAN.md:278 have made-up
  services where the AP does not report the characteristics.  `active_client.py:136-142` takes them before
  the report, which is then neither waited for nor looked at.

The others came up in modelling.  The models do what the code does, and where a property
would be broken it names the exception.

* SPEC.md:75-76 has slots enforced before connects are sent; a connect sent with
  `wait_result` false reserves none (`runtime.py:1113`).
* ACTIVE_BLE_FEASIBILITY.md:130-132 and ACTIVE_BLE_TEST_CANDIDATE.md:24 have all active operations
  serialized per AP.  Only connects and disconnects lock the AP, other actions the device
  (`runtime.py:2334`); `test_runtime_runs_gatt_operations_in_parallel_for_different_devices_same_ap` expects that, so
  the documents are behind, and `ActionsKeepLine` is about the keys the code uses.
* A start answered characteristicNotFound registers its callback without looking at the session again
  (`active_client.py:304`); if it has ended, the callback outlives its client, which
  `forget_gatt_notify_callback` (`runtime.py:1548-1550`) says must not happen.
* `async_stop` is to cancel disables that would outlive the runtime, and cancels those on the
  books (`runtime.py:391`).  A start and a stop that run between a timer's firing and its
  task's first step arm a newer timer, whose entry the task then drops (`runtime.py:1503`).
* 128-bit UUIDs in advertisements are read with `bytes_le` (`ble_parser.py:108-109`), which turns only the
  first three fields around.  A 32-bit UUID that an AP reports cannot be named to it (`active.py:89-90`).
* HA_CORE_DEVELOPMENT_PLAN.md:460 and ACTIVE_BLE_TEST_CANDIDATE.md:119 have unloading remove the scanners.  A
  message handled after `_unregister_scanners`, while the receiver's task ends, makes a new one that stays
  (`untidy`); so does a start whose bind fails, which does not undo its registrations.
* A bind that fails after the first turn of the loop is not seen by `async_start`; `async_stop` raises
  the error after its own work (`runtime.py:385`), and the entry cannot be unloaded (`phase = "stuck"`).
* A message that has waited for its scanner is applied although its source was lost meanwhile
  (`runtime.py:491`): it puts devices of a lost source on the record (`misled`, `stale`) and characteristics of a
  lost link into the cache (`late`).
* A message with the result of a connect and the loss of that link leaves the device on the record, as
  statuses are handled before results (`runtime.py:502-504`, `misled`).
* Sends to one socket overlap after a takeover, the end of the new connection and a return to the old one
  (`server.py:165-175`, `orphaned`).
* README.md:50 has a model learnt after registration saved; one learnt while the scanner is being made is kept
  in memory only (`crossed`).

## Fairness

* `OperationLocks`: a woken waiter is resumed and a body ends (weak fairness): the
  loop runs what is ready, and every await in a body has a timeout.
* `Receiver`: a send ends (weak): `SEND_TIMEOUT`.  Nothing is assumed of peers.
* `ActiveActions`: the loop finishes a message; and a call that can go on goes on: next in
  line it enters, its send ends (`SEND_TIMEOUT`), its timer fires or, settled, it resumes.
  This is strong because handling a message disables all of it for the moment;
  the loop's ready queue is first in first out, so a callback that is ready over
  and over does run.  Nothing is assumed of the AP, of callers or of sources.
* `Notifications` states no fairness: that a key nobody listens to is disabled is checked as
  the invariant `UnheardIsFollowedUp`, a timer or a task that will look at it.
* `Discovery`, `Sessions`, `Scanners` and `GattServices` state none either.  A wait, a read and a connect have
  timeouts of their own in the code, so that they end is their timer's doing; what could go wrong is
  that they end too late or for nothing, which `NoWaitForgotten`, `NoReadInVain` and `LossEndsSession` say
  as invariants.  How long a client keeps a session is up to it, so nobody in line for a slot is promised one.

## Proofs

For any number of calls, sources, devices, connections and sends:

* `OperationLocksProofs`: `LocksInvariant`, from it `LocksExclude` (`MutualExclusion`)
  and `SlotsDoNotLeak` (`SlotIffInUse`).  Mutual exclusion alone is not inductive: a
  caller is safe because the slot it found is still the one in the dictionary
  (`FindsOwnSlot`), which holds because `users` counts exactly the calls attached to
  the slot (`UsersCounted`), so only the last one drops it.  With `LineInvariant` (a holder
  is inside, those waiting are queued there, each once; `LinesInvariant`) it is also a line:
  `LocksAreLines` (`ImplementsKeyedQueue`) maps the initial state and each step to one of `KeyedQueue` or to a stutter.
* `ReceiverProofs`: `RoutingIsInvariant`; `RoutesConsistent`, `NoRouteToFinished`,
  `RuntimeToldOfLosses`, `PlacesAccountedFor`, `StrikesLeft`, `SendLocksFollowRoutes` and
  `TypeOK` are its conjuncts.  They need each other: a finished connection has no sources because its entry is
  dropped and the tables agree.  `SendsTakeTurns` (`SendsDoNotOverlap`) has an invariant of its own:
  those who wait for a lock wait for the one their socket's other sends use (`OneLinePerSocket`), since a send starts
  at the route, and its source keeps the lock as long as its socket has the route or waits, displaced, for its
  return (`QueuedAtRoute`); a lock goes only with a route, which makes the displaced sockets orphaned.
* `ActiveActionsProofs`: `ActionsInvariant`, in layers.  The lowest is about calls:
  one in a line has asked, one that is queued is in the line of its key, one in
  flight is the first of it, so that a leaver removes itself and nobody
  else.  Over it, reports under way are well formed and name calls that
  have asked.  Over that, registrations (with futures settled only for calls in
  flight) and links; `ActionInvariant` is
  the conjunction.  From it `WaiterIsRegistered`, `RegistrationsAccountedFor`,
  `ActiveNotLost`, and the action property `AnswersMatchBooks`.  The lowest layer also gives
  `ActionsAlwaysKeepLine`, the second implementation of `KeyedQueue`.  `SlotsAreRespected` (`SlotsRespected`):
  a possible link that is not reserved has lapsed (`SlotInvariant`), so one that joins the reserved ones has passed
  the check, in whose step all reserved ones were counted, or had lapsed before.
  `BooksFollowTheRoutes` (`BooksFollowRoutes`) and `ActiveIsAlwaysLinked` (`ActiveIsLinked`) rest on `LastWord`, about each
  link that is not misled.  What says here that it is up, on record or in a message that has arrived, comes from
  a connected source (`HasRoute`).  If a report on the wire shows it and nothing behind that says it is down, then it
  is up (`WireTellsTrue`); and so it is if the record or an arrived message has it and nothing arrived or on
  the wire says it is down (`BooksTellTrue`).  The second part is lost when a loss is
  handled before an older report that the link is up, which is when the link becomes misled.
* `NotificationsProofs`: `InvariantHolds`.  Its parts are the shape of the books (the index is
  the set of services with callbacks and the counter their number), what a client keeps
  while it is in each place of its calls, that a callback in the books is the one its
  client keeps (and in session, unless local), and `DisablesOnlyUnheard`.  The lock is what
  makes it inductive: a start adds a callback only at the head of the line, where no disable
  is awaited.  From it `SubscribersInSession` (`NoDeadSubscriber`), `ListenersHear`
  (`EveryListenerHears`) and `OnlyUnheardDisabled`.  `UnheardKeysFollowedUp` (`UnheardIsFollowedUp`): an entry of the
  pending disables is an armed timer of that key, one timer one life, so that whatever pops or
  cancels an entry leaves a listener, another timer, a task or no enabled key behind.  `EnabledKeysAreOn`
  (`EnabledIsOn`) follows the payloads (`WireInvariant`): only the one at the head of the line waits for an answer, what
  it waits for is the last payload on the wire, those given up are before it and cannot undo it, and
  a success that is still to be taken means that the key is on.
* `DiscoveryProofs`: `WaitBooksHold`.  A wait is in the list of its origin exactly while it waits, what was
  reported for it is of its origin, and then a timer of that origin runs; timers of an
  origin somebody reports amid a burst are fresh.  A loss answers both its source's list and the list
  for any, which is why no waiter for any is left with a timer that was cancelled.  From it
  `NoWaitIsForgotten` and `NoReadIsInVain`.  Over it `CacheBooksHold`: what is cached has been reported over the present link, unless it is
  `late`, and so has what is in hand, unless it is `overdue` (`LinkBooks`); a
  wait has heard exactly what the cache has for it (`HeardAll`), since it began only because there was nothing.  From
  both `CacheFollowsTheLink` and `WholeBurstIsTold` (`WholeBurst`).
* `ClientProofs`: `SessionsAreConsistent`.  Those in line are exactly queued and there once
  (`InLine`), so that whoever gets a permit had none; a holder has a session or a connect that
  asks, and one without a slot has met a disconnect (`Flags`); then the permits can be counted, through
  the lemmas about giving back, passing on and taking.  From it `TypeOK`, `PermitsConserved`, `SlotsNotLeaked`,
  `SessionsHoldSlots`, `LossEndsSession` and the action property `ToldOfLosses`.
  The second part of the module is about `GattServices`.  `ServicesInvariant` follows the stages of a connect: a collection is empty, read from reports
  (`FromReports`: handles count its entries, so that a service's handle is its own) or the override's whole
  (`AllMadeUp`), and once the report is waited for, nothing can be made up any more (`NoneMadeUp`).  From it
  `RequestsNameWhatWasReported` (`AskedAsReported`), with `ThereAndBack`, which follows a UUID of any octets through
  both conversions.  `WhatWasHeardStays` (`NothingIsUnlearnt`) needs that no device is remembered twice.
  The third is about `Advertisement`.  `FieldsSayWhatIsThere` (`FieldsFollowStructures`) takes payloads of any length; its
  invariant `Reading` says, field by field, what the structures read so far have left (`Latest`, `Gathers`,
  `Keeps`), and one more structure appends its octets and changes at most one field (`StructureOctets`, `WithAdds`).
* `ScannersProofs`: `BooksHold`, in three parts: scanners, their source's models and
  registrations (a scanner is known, and known once); messages, of which only one per source makes a scanner,
  since the others wait for the lock; names, which the default does not replace once they are in
  the entry.  From it and a second invariant for the unload `ScannersTypeOK`, `ScannersAreKnown`, `SavedModelsAreKept`,
  `UnloadIsClean` and `ActiveDevicesHaveRoutes`.  `LearntModelsAreSaved` (`LearntModelIsSaved`) is proved for runs in which each AP
  names one model, as in the checked one: an update or a flow under way then was given that model (`Saving`).  With two
  names, the updates of two messages may end in either order.
* `SequenceFacts`: what Tail, RemoveAt, SubSeq, concatenation and `Kept` keep.  `LeastNumber`, that a set of naturals
  which is not empty has a least element, stands in for induction: a counterexample would have a least one.  `Ranks`,
  `KeptElements`, `GreatestNumber` and `FlattenAppend` (what one more element adds to `FlattenSeq`) rest on it.

`LimitsAreKept` of `ReceiverProofs` stands beside `RoutingIsInvariant`: with finitely many places and
routes taken at any time, each comparison with a limit is made in the step that takes one more.

Type correctness (`TypeOK`, or the typing parts of `InvariantHolds` and `WaitBooksHold`) and what only
supports another invariant (`LockInvariant`, `WaiterIsRegistered`, `ActiveNotLost`, `StrikesLeft`,
`SendLocksFollowRoutes`, `SavedModelsStay`) are proved and not checked again by a run.

The assumptions are those on the constants, named in the modules that declare
them; they say that the "none" values are no members, that limits are positive, that sets that are
counted are finite, and that requests are well formed.

Only model-checked: liveness (`QueuedIsServed`, `SendsEnd`, `CallsEnd`), which is out of
the prover's reach.

## Not modelled

* Decoding of telemetry, encoding of actions, generated code: stateless translations field by
  field; their outcomes are inputs of Receiver and ActiveActions.  UUIDs are the exception.
* `scanner.py` and `ha_payload.py`, which hand advertisements and connection candidates to Home
  Assistant; the Home Assistant side (flow manager, registry of scanners) is modelled as the code uses it.
* The integration's services and its forms: they validate and call the runtime; their calls are the
  calls of ActiveActions.  `gatt_notification` goes to the AP behind the books of Notifications.
* Reads and writes of the Bleak client, which pass on what the runtime answers; pairing,
  which is refused.
* CLI text, diagnostics and wording; counters and `_cancelled_action_ids`, which only diagnostics read.

## Plan

What is left, in the order of importance:

1. For notifications, an abstract specification (reported while somebody listens,
   silenced a grace period after) that `Notifications` implements.
2. A composition of `Sessions` with the books of `ActiveActions`, to show that the outcomes Sessions
   assumes are those the runtime gives.
