------------------------------ MODULE Scanners ------------------------------
(***************************************************************************)
(* The life of the listener's config entry (__init__.py), its runtime and  *)
(* the scanners the runtime registers with Home Assistant, one per AP:     *)
(* configured ones at the start, others when their AP first reports.  A    *)
(* message may have to wait for its AP's scanner, and that for a config    *)
(* flow, while other messages come, connections close and the entry is     *)
(* unloaded.                                                               *)
(*                                                                         *)
(* A message is reduced to the model of its AP and to what its reports do  *)
(* to the AP's active devices, here one device per AP.  Each connection is *)
(* of one AP.  The config entries, the flows and the scanner registry are  *)
(* Home Assistant's; its callbacks to unregister a scanner do not fail.    *)
(***************************************************************************)
EXTENDS Naturals, FiniteSets

CONSTANTS
  Source, Conn,
  SourceOf,      \* the AP of a connection
  Model,         \* hardware models
  DefaultModel,  \* DEFAULT_AP_MODEL, for an AP that does not name its own
  None,          \* no model, no connection
  MaxLeft        \* bound: scanners of one AP that may be left registered

ASSUME SourceOfAssumption == SourceOf \in [Conn -> Source]
ASSUME ModelAssumption == DefaultModel \notin Model /\ None \notin Model \cup {DefaultModel} \cup Conn
ASSUME MaxLeftAssumption == MaxLeft \in Nat

VARIABLES
  phase,        \* of the entry: down, starting, up, stopping, ending, stuck or
                \* removed
  receiver,     \* the receiver's task: none, binding, serving or failed
  scanners,     \* sources in _remote_scanners and _scanner_unsubs
  sourceModel,  \* _source_models
  at,           \* per connection: closed, or where the handling of its message is
  asked,        \* per connection: the model its config flow was given
  route,        \* the connection that a source's actions go to
  active,       \* sources with an active device
  leaving,      \* devices async_stop has yet to disconnect
  registered,   \* per source: scanners registered with Home Assistant
  entryModel,   \* per source: the model in its config entry, if it has one
  left,         \* per source: registered scanners of runtimes that are gone
  untidy,       \* a start failed, or a message was handled after _unregister_scanners
  crossed,      \* sources whose model was learnt while their scanner was made
  stale         \* sources with reports that were handled without their route

runtimeVars == << scanners, sourceModel >>
handling == << at, asked, route >>
devices == << active, stale >>
homeAssistant == << registered, entryModel >>
life == << phase, receiver, leaving, left, untidy >>
vars == << life, runtimeVars, handling, devices, homeAssistant, crossed >>

Init ==
  /\ phase = "down" /\ receiver = "none" /\ leaving = {}
  /\ scanners = {} /\ sourceModel = [s \in Source |-> None]
  /\ at = [c \in Conn |-> "closed"] /\ asked = [c \in Conn |-> None]
  /\ route = [s \in Source |-> None]
  /\ active = {} /\ stale = {}
  /\ registered = [s \in Source |-> 0]
  /\ entryModel \in [Source -> {None, DefaultModel} \cup Model]
  /\ left = [s \in Source |-> 0] /\ untidy = FALSE /\ crossed = {}

One(b) == IF b THEN 1 ELSE 0
HasEntry(s) == entryModel[s] # None
Busy == {c \in Conn : at[c] \in {"lock", "flow", "update"}}
Creating(s) == \E c \in Conn : SourceOf[c] = s /\ at[c] = "flow"

-----------------------------------------------------------------------------
(* Registering a scanner *)

(* How far an attempt gets: the registration fails, the setup after it, or *)
(* neither.                                                                *)
Attempt == {"refused", "halfway", "done"}

(* Slip: a scanner that is registered and not set up stays. *)
NotRolledBack(n, how) == n + One(how \in {"halfway", "done"})

(* Home Assistant's scanners, of n before, after the callbacks that an     *)
(* attempt got before it failed.                                           *)
RolledBack(n, how) ==
  LET unsubs == One(how \in {"halfway", "done"}) IN
  n + unsubs - (IF how = "done" THEN 0 ELSE unsubs)

(* _create_remote_scanner: the runtime knows the scanner only in the end.  *)
CreateScanner(s) ==
  /\ registered[s] <= MaxLeft
  /\ \E how \in Attempt :
       /\ registered' = [registered EXCEPT ![s] = RolledBack(@, how)]
       /\ scanners' = IF how = "done" THEN scanners \cup {s} ELSE scanners

(* The rest of a message, once its scanner is there or cannot be had: its  *)
(* reports may make the AP's device active or lost.                        *)
Reports(c) ==
  LET s == SourceOf[c] IN
  \/ active' = active \cup {s} /\ stale' = stale \cup {x \in {s} : route'[s] # c}
  \/ active' = active \ {s} /\ stale' = stale \ {s}
  \/ UNCHANGED devices

Handled(c) ==
  /\ at' = [at EXCEPT ![c] = "idle"]
  /\ asked' = [asked EXCEPT ![c] = None]
  /\ Reports(c)

(* _async_create_remote_scanner with the lock.  A config entry is looked   *)
(* up and gets the model; only a flow for a new one takes time.            *)
Creates(c) ==
  LET s == SourceOf[c]
      m == sourceModel'[s] IN
  IF HasEntry(s)
    THEN /\ entryModel' = [entryModel EXCEPT ![s] = m]
         /\ CreateScanner(s)
         /\ Handled(c)
    ELSE /\ at' = [at EXCEPT ![c] = "flow"]
         /\ asked' = [asked EXCEPT ![c] = m]
         /\ UNCHANGED << devices, homeAssistant, scanners >>

(* Slip: the new model is kept in memory only. *)
UpdatesModelInMemory(c) ==
  /\ UNCHANGED << homeAssistant, scanners >>
  /\ Handled(c)

(* A scanner with a new model: the entry gets it, without the lock. *)
UpdatesModel(c) ==
  LET s == SourceOf[c]
      m == sourceModel'[s] IN
  /\ UNCHANGED << registered, scanners >>
  /\ IF m # sourceModel[s] /\ ~ HasEntry(s)
       THEN /\ at' = [at EXCEPT ![c] = "update"]
            /\ asked' = [asked EXCEPT ![c] = m]
            /\ UNCHANGED << devices, entryModel >>
       ELSE /\ entryModel' = IF m # sourceModel[s] THEN [entryModel EXCEPT ![s] = m] ELSE entryModel
            /\ Handled(c)

(* A named model replaces any other, the default only none. *)
Learnt(s, m) == IF sourceModel[s] = None \/ m # DefaultModel THEN m ELSE sourceModel[s]

-----------------------------------------------------------------------------
(* A message: _async_handle_message with _async_ensure_remote_scanner *)

Message(c, m) ==
  LET s == SourceOf[c] IN
  /\ at[c] = "idle"
  /\ route' = [route EXCEPT ![s] = c]
  /\ sourceModel' = [sourceModel EXCEPT ![s] = Learnt(s, m)]
  /\ crossed' = crossed \cup {x \in {s} : Creating(s) /\ Learnt(s, m) # sourceModel[s]}
  /\ untidy' = (untidy \/ phase = "ending")
  /\ IF s \in scanners THEN UpdatesModel(c)
     ELSE IF Creating(s)
       THEN /\ at' = [at EXCEPT ![c] = "lock"]
            /\ UNCHANGED << asked, devices, homeAssistant, scanners >>
       ELSE Creates(c)
  /\ UNCHANGED << phase, receiver, leaving, left >>

(* Slip: the scanner is not looked for again. *)
LockTurnUnchecked(c) ==
  /\ at[c] = "lock" /\ ~ Creating(SourceOf[c])
  /\ UNCHANGED << route, sourceModel, crossed, life >>
  /\ Creates(c)

(* The create lock of the source has come free for a message. *)
LockTurn(c) ==
  /\ at[c] = "lock" /\ ~ Creating(SourceOf[c])
  /\ UNCHANGED << route, sourceModel, crossed, life >>
  /\ IF SourceOf[c] \in scanners
       THEN Handled(c) /\ UNCHANGED << homeAssistant, scanners >>
       ELSE Creates(c)

(* async_step_integration_discovery: a new entry, or the model of the one  *)
(* there is; a flow may also end without one.                              *)
FlowResult(c) ==
  \/ entryModel' = [entryModel EXCEPT ![SourceOf[c]] = asked[c]]
  \/ UNCHANGED entryModel

FlowEnds(c) ==
  /\ at[c] = "flow"
  /\ FlowResult(c)
  /\ CreateScanner(SourceOf[c])
  /\ UNCHANGED << route, sourceModel, crossed, life >>
  /\ Handled(c)

UpdateEnds(c) ==
  /\ at[c] = "update"
  /\ FlowResult(c)
  /\ UNCHANGED << route, sourceModel, crossed, life, registered, scanners >>
  /\ Handled(c)

-----------------------------------------------------------------------------
(* Connections *)

Opens(c) ==
  /\ receiver = "serving" /\ phase # "ending" /\ at[c] = "closed"
  /\ at' = [at EXCEPT ![c] = "idle"]
  /\ UNCHANGED << asked, route, life, runtimeVars, devices, homeAssistant, crossed >>

(* Slip: a source that is lost keeps its devices. *)
ClosesQuietly(c) ==
  LET s == SourceOf[c] IN
  /\ at[c] = "idle"
  /\ at' = [at EXCEPT ![c] = "closed"]
  /\ route' = IF route[s] = c THEN [route EXCEPT ![s] = None] ELSE route
  /\ UNCHANGED << asked, life, runtimeVars, devices, homeAssistant, crossed >>

(* A close is noticed between messages; the runtime is told of the loss of *)
(* its source, unless that has moved (_handle_source_disconnect).          *)
Closes(c) ==
  LET s == SourceOf[c] IN
  /\ at[c] = "idle"
  /\ at' = [at EXCEPT ![c] = "closed"]
  /\ IF route[s] = c
       THEN /\ route' = [route EXCEPT ![s] = None]
            /\ active' = active \ {s} /\ stale' = stale \ {s}
       ELSE UNCHANGED << route, devices >>
  /\ UNCHANGED << asked, life, runtimeVars, homeAssistant, crossed >>

-----------------------------------------------------------------------------
(* The entry *)

(* async_setup_entry, async_start: the configured scanners are registered  *)
(* without an await, each on its own; those that fail are logged.          *)
Start ==
  /\ phase = "down"
  /\ phase' = "starting" /\ receiver' = "binding"
  /\ \E how \in [{s \in Source : HasEntry(s) /\ registered[s] <= MaxLeft} -> Attempt] :
       /\ scanners' = {s \in DOMAIN how : how[s] = "done"}
       /\ registered' = [s \in Source |->
            IF s \in DOMAIN how THEN RolledBack(registered[s], how[s]) ELSE registered[s]]
  /\ sourceModel' = entryModel
  /\ UNCHANGED << handling, devices, entryModel, leaving, left, untidy, crossed >>

Bound(outcome) ==
  /\ receiver = "binding"
  /\ receiver' = outcome
  /\ UNCHANGED << phase, leaving, left, untidy, runtimeVars, handling, devices, homeAssistant, crossed >>

Gone ==
  /\ left' = [s \in Source |-> left[s] + One(s \in scanners)]
  /\ receiver' = "none" /\ scanners' = {} /\ sourceModel' = [s \in Source |-> None]
  /\ active' = {} /\ stale' = {} /\ crossed' = {}
  /\ UNCHANGED << leaving, handling, homeAssistant >>

(* async_start looks at the receiver after one turn of the loop.  An error *)
(* it finds ends the setup, without async_stop.                            *)
StartReturns ==
  /\ phase = "starting" /\ receiver # "failed"
  /\ phase' = "up"
  /\ UNCHANGED << receiver, leaving, left, untidy, runtimeVars, handling, devices, homeAssistant, crossed >>

StartFails ==
  /\ phase = "starting" /\ receiver = "failed"
  /\ phase' = "down" /\ untidy' = TRUE
  /\ Gone

(* async_unload_entry, async_stop: the devices active now are disconnected *)
(* one by one, with messages still coming.                                 *)
Stop ==
  /\ phase = "up"
  /\ phase' = "stopping" /\ leaving' = active
  /\ UNCHANGED << receiver, left, untidy, runtimeVars, handling, devices, homeAssistant, crossed >>

StopDisconnects(s) ==
  /\ phase = "stopping" /\ s \in leaving
  /\ leaving' = leaving \ {s}
  /\ active' = active \ {s} /\ stale' = stale \ {s}
  /\ UNCHANGED << phase, receiver, left, untidy, runtimeVars, handling, homeAssistant, crossed >>

(* Slip: nothing is unregistered when the receiver has failed. *)
UnregisterIfServing ==
  /\ phase = "stopping" /\ leaving = {}
  /\ phase' = "ending"
  /\ IF receiver = "failed" THEN UNCHANGED << registered, scanners >>
     ELSE /\ registered' = [s \in Source |-> registered[s] - One(s \in scanners)]
          /\ scanners' = {}
  /\ untidy' = (untidy \/ Busy # {})
  /\ UNCHANGED << receiver, leaving, left, sourceModel, handling, devices, entryModel, crossed >>

(* _unregister_scanners, and the receiver's task is told to end. *)
Unregister ==
  /\ phase = "stopping" /\ leaving = {}
  /\ phase' = "ending"
  /\ registered' = [s \in Source |-> registered[s] - One(s \in scanners)]
  /\ scanners' = {}
  /\ untidy' = (untidy \/ Busy # {})
  /\ UNCHANGED << receiver, leaving, left, sourceModel, handling, devices, entryModel, crossed >>

(* The task has ended, and its connections before it.  If it had failed    *)
(* long ago, its error comes out here: the entry cannot be unloaded.       *)
Stopped ==
  /\ phase = "ending" /\ \A c \in Conn : at[c] = "closed"
  /\ phase' = IF receiver = "failed" THEN "stuck" ELSE "down"
  /\ UNCHANGED untidy
  /\ Gone

(* A user deletes the entry of an AP. *)
EntryRemoved(s) ==
  /\ HasEntry(s)
  /\ entryModel' = [entryModel EXCEPT ![s] = None]
  /\ UNCHANGED << life, runtimeVars, handling, devices, registered, crossed >>

(* async_remove_entry of the listener: the entries of its APs go with it.  *)
Removed ==
  /\ phase \in {"down", "stuck"}
  /\ phase' = "removed"
  /\ entryModel' = [s \in Source |-> None]
  /\ UNCHANGED << receiver, leaving, left, untidy, runtimeVars, handling, devices, registered, crossed >>

Next ==
  \/ \E c \in Conn :
       \/ Opens(c) \/ Closes(c) \/ LockTurn(c) \/ FlowEnds(c) \/ UpdateEnds(c)
       \/ \E m \in Model \cup {DefaultModel} : Message(c, m)
  \/ Start \/ \E o \in {"serving", "failed"} : Bound(o)
  \/ StartReturns \/ StartFails \/ Stop \/ Unregister \/ Stopped \/ Removed
  \/ \E s \in Source : StopDisconnects(s) \/ EntryRemoved(s)

Spec == Init /\ [][Next]_vars

-----------------------------------------------------------------------------
(* Properties *)

(* Each variable has its values; a route leads to a connection of its AP,  *)
(* and nothing is unregistered that was not registered.                    *)
TypeOK ==
  /\ phase \in {"down", "starting", "up", "stopping", "ending", "stuck", "removed"}
  /\ receiver \in {"none", "binding", "serving", "failed"}
  /\ \A S \in {scanners, active, leaving, crossed, stale} : S \subseteq Source
  /\ sourceModel \in [Source -> {None, DefaultModel} \cup Model]
  /\ entryModel \in [Source -> {None, DefaultModel} \cup Model]
  /\ at \in [Conn -> {"closed", "idle", "lock", "flow", "update"}]
  /\ \A c \in Conn : IF at[c] \in {"flow", "update"} THEN asked[c] \in {DefaultModel} \cup Model
                     ELSE asked[c] = None
  /\ \A s \in Source : route[s] # None => route[s] \in Conn /\ SourceOf[route[s]] = s
  /\ registered \in [Source -> Nat] /\ left \in [Source -> Nat]
  /\ untidy \in BOOLEAN

(* The scanners Home Assistant has are those the runtime can unregister,   *)
(* at most one per source: two messages that create a scanner at the same  *)
(* time make one, and a registration that fails leaves none.               *)
RegisteredAreKnown ==
  \A s \in Source : registered[s] = left[s] + One(s \in scanners)

(* An entry that is unloaded has left no scanner with Home Assistant,      *)
(* unless a start failed or a message outlived the unregistering.          *)
CleanUnload ==
  phase \in {"down", "stuck", "removed"} /\ ~ untidy => \A s \in Source : registered[s] = 0

(* The model an AP has named is in its entry, if it has one, once no       *)
(* message waits: "A model learned after registration is saved"            *)
(* (README.md:50).  A model learnt while the scanner is made is not.       *)
LearntModelIsSaved ==
  \A s \in scanners \ crossed :
    (\A c \in Busy : SourceOf[c] # s) => entryModel[s] \in {None, sourceModel[s]}

(* No message, flow or restart replaces a model that is saved by the       *)
(* default.                                                                *)
SavedModelStays ==
  \A s \in Source : entryModel[s] \in Model => entryModel'[s] # DefaultModel
SavedModelsStay == [][SavedModelStays]_vars

(* A device is active only while its source has a route, unless a message  *)
(* that waited for its scanner was overtaken by another connection.        *)
ActiveHasRoute == \A s \in active \ stale : route[s] # None

=============================================================================
