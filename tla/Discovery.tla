------------------------------ MODULE Discovery ------------------------------
(***************************************************************************)
(* The characteristics of one device as the runtime knows them: the cache  *)
(* of last values, the callers that wait for a discovery to settle         *)
(* (async_wait_for_device_characteristics), the timer that tells them, and *)
(* GATT reads, which wait for a value (_async_gatt_read_unlocked).         *)
(*                                                                         *)
(* The device may be reached through several sources; a wait is for one    *)
(* source or for any.  Devices share nothing here but the limit of the     *)
(* cache.  The fate of an action (ActiveActions) is reduced to its         *)
(* outcome, and the operation lock (OperationLocks) to one read at a time. *)
(*                                                                         *)
(* Time: after a connect the AP reports its discovery in a burst whose     *)
(* gaps are shorter than DEVICE_CHARACTERISTIC_SETTLE_DELAY, so a timer    *)
(* armed by the latest report outlasts the burst and an older one may not. *)
(*                                                                         *)
(* A message may wait for the scanner of its AP (_async_handle_message)    *)
(* before anything in it is handled, while other connections of the AP     *)
(* come, report and go; what it says is then taken as news.                *)
(***************************************************************************)
EXTENDS Naturals, Sequences, FiniteSets, SequencesExt, Subsequences

CONSTANTS
  Source, Char, Wait, Read,
  AnySource,      \* the source None of a wait
  MaxCached,      \* _max_last_characteristics
  MaxInHand       \* bound: reports that wait for a scanner

ASSUME AnySourceAssumption == AnySource \notin Source
ASSUME MaxCachedAssumption == MaxCached \in Nat \ {0}
ASSUME MaxInHandAssumption == MaxInHand \in Nat

Key == Source \X Char
Origin == Source \cup {AnySource}

VARIABLES
  cache,     \* _last_characteristics, the keys in order of insertion
  waiters,   \* _pending_device_characteristics
  timer,     \* _pending_device_characteristic_resolutions: off, armed by the
             \* latest report of the origin (fresh), or by an earlier one (old)
  wait,      \* per wait: its place, its origin, the extent of its answer and what
             \* has been reported for it since it began and is in the cache
  readers,   \* _pending_characteristics
  read,      \* per read: its place, its key, its future
  linked,    \* sources through which the AP reports the device
  burst,     \* per source: what the AP's discovery has yet to report
  inHand,    \* reports in messages that wait for the scanner of their AP
  overdue,   \* history: those of them whose link has been lost since
  late       \* history: keys cached by such a report

apVars == << linked, burst >>
handVars == << inHand, overdue, late >>
vars == << cache, waiters, timer, wait, readers, read, apVars, handVars >>

NoWait == [at |-> "idle", origin |-> AnySource, found |-> "none", heard |-> {}]
NoRead == [at |-> "idle", key |-> << >>, future |-> "none"]

Init ==
  /\ cache = << >>
  /\ waiters = [o \in Origin |-> {}]
  /\ timer = [o \in Origin |-> "off"]
  /\ wait = [w \in Wait |-> NoWait]
  /\ readers = [k \in Key |-> {}]
  /\ read = [r \in Read |-> NoRead]
  /\ linked = {}
  /\ burst = [s \in Source |-> {}]
  /\ inHand = {} /\ overdue = {} /\ late = {}

SourcesOf(o) == IF o = AnySource THEN Source ELSE {o}
OriginsOf(s) == {s, AnySource}

InProgress(s) == burst[s] \notin {{}, Char}

-----------------------------------------------------------------------------
(* The cache *)

Known == ToSet(cache)

(* characteristics_for_device *)
CharacteristicsFrom(o) == {k \in Known : k[1] \in SourcesOf(o)}

(* At the limit the oldest entry makes room, even if k replaces itself. *)
Cached(k) ==
  LET kept == IF Len(cache) >= MaxCached THEN Tail(cache) ELSE cache IN
  IF k \in ToSet(kept) THEN kept ELSE Append(kept, k)

(* How much of a source's characteristics a list has; no more is told.     *)
Extent(ks) ==
  IF ks = {} THEN "none"
  ELSE IF \E s \in Source : {s} \X Char \subseteq ks THEN "all" ELSE "part"

(* _forget_device_characteristics, clear_device_characteristics *)
Without(s) == Kept(cache, {i \in DOMAIN cache : cache[i][1] # s})

-----------------------------------------------------------------------------
(* What is told to those who wait *)

Unanswered(o) == {w \in waiters[o] : wait[w].at = "waiting"}

(* Set the futures of an origin's waiters. *)
Answer(ws, place, found) ==
  [w \in Wait |-> IF w \in ws THEN [NoWait EXCEPT !.at = place, !.found = Extent(found)]
                  ELSE wait[w]]

(* Slip: a timer that runs is left to run. *)
ScheduleIfNone(s) ==
  [o \in Origin |-> IF o \in OriginsOf(s) /\ timer[o] = "off" /\ waiters[o] # {} THEN "fresh"
                    ELSE IF o \in OriginsOf(s) /\ timer[o] = "fresh" THEN "old"
                    ELSE timer[o]]

(* _schedule_device_characteristic_resolutions: timers of origins that     *)
(* somebody waits for start anew.                                          *)
Schedule(s) ==
  [o \in Origin |-> IF o \in OriginsOf(s) /\ waiters[o] # {} THEN "fresh"
                    ELSE IF o \in OriginsOf(s) /\ timer[o] = "fresh" THEN "old"
                    ELSE timer[o]]

(* _handle_characteristic, as far as discovery and reads go: a discovery's *)
(* report, the value of a read, or a notification.  Neither the link nor   *)
(* the route is looked at.                                                 *)
HandleCharacteristic(s, c) ==
  LET k == << s, c >> IN
  /\ cache' = Cached(k)
  /\ readers' = [readers EXCEPT ![k] = {}]
  /\ read' = [r \in Read |-> IF r \in readers[k] /\ read[r].future = "none"
                               THEN [read[r] EXCEPT !.future = "value"] ELSE read[r]]
  /\ timer' = Schedule(s)
  /\ wait' = [w \in Wait |->
       IF wait[w].at # "waiting" THEN wait[w]
       ELSE [wait[w] EXCEPT !.heard =
               (@ \cup IF wait[w].origin \in OriginsOf(s) THEN {k} ELSE {})
               \cap ToSet(Cached(k))]]
  /\ UNCHANGED waiters

(* The AP reports a characteristic of a linked device. *)
APReports(s, c) ==
  /\ s \in linked
  /\ burst' = [burst EXCEPT ![s] = @ \ {c}]
  /\ UNCHANGED linked

(* The message is handled as it comes. *)
Characteristic(s, c) ==
  /\ APReports(s, c)
  /\ HandleCharacteristic(s, c)
  /\ late' = (late \ {<< s, c >>}) \cap ToSet(Cached(<< s, c >>))
  /\ UNCHANGED << inHand, overdue >>

(* It has to wait for the scanner. *)
MessageWaits(s, c) ==
  /\ << s, c >> \notin inHand
  /\ Cardinality(inHand) < MaxInHand
  /\ APReports(s, c)
  /\ inHand' = inHand \cup {<< s, c >>}
  /\ UNCHANGED << cache, waiters, timer, wait, readers, read, overdue, late >>

(* The scanner is there, or cannot be had. *)
MessageResumes(s, c) ==
  LET k == << s, c >> IN
  /\ k \in inHand
  /\ inHand' = inHand \ {k}
  /\ overdue' = overdue \ {k}
  /\ late' = ((late \ {k}) \cup (overdue \cap {k})) \cap ToSet(Cached(k))
  /\ HandleCharacteristic(s, c)
  /\ UNCHANGED apVars

(* What a settled origin's waiters get: failing their own source, any. *)
Settled(o) ==
  IF CharacteristicsFrom(o) = {} THEN CharacteristicsFrom(AnySource) ELSE CharacteristicsFrom(o)

(* _resolve_settled_device_characteristic_waiters *)
TimerFires(o) ==
  /\ timer[o] # "off"
  /\ timer[o] = "fresh" => \A s \in SourcesOf(o) : ~ InProgress(s)
  /\ timer' = [timer EXCEPT ![o] = "off"]
  /\ wait' = Answer(Unanswered(o), "settled", Settled(o))
  /\ waiters' = [waiters EXCEPT ![o] = {}]
  /\ UNCHANGED << cache, readers, read, apVars, handVars >>

(* The link is lost, or was, and the device has connected again before the *)
(* report of the loss is handled.                                          *)
LinkGone(s) ==
  /\ \/ /\ linked' = linked \ {s}
        /\ burst' = [burst EXCEPT ![s] = {}]
        /\ overdue' = overdue \cup {k \in inHand : k[1] = s}
     \/ /\ s \in linked
        /\ UNCHANGED << apVars, overdue >>
  /\ late' = {k \in late : k[1] # s}
  /\ UNCHANGED inHand

(* Slip: reads are left to their time-out. *)
LostButForReads(s) ==
  /\ LinkGone(s)
  /\ cache' = Without(s)
  /\ timer' = [o \in Origin |-> IF o \in OriginsOf(s) THEN "off" ELSE timer[o]]
  /\ wait' = Answer(UNION {Unanswered(o) : o \in OriginsOf(s)}, "lost", {})
  /\ waiters' = [o \in Origin |-> IF o \in OriginsOf(s) THEN {} ELSE waiters[o]]
  /\ UNCHANGED << readers, read >>

(* Slip: the waiters are answered, their values stay. *)
LostButForCache(s) ==
  /\ LinkGone(s)
  /\ read' = [r \in Read |->
       IF \E c \in Char : r \in readers[<< s, c >>] /\ read[r].future = "none"
         THEN [read[r] EXCEPT !.future = "failed"] ELSE read[r]]
  /\ readers' = [k \in Key |-> IF k[1] = s THEN {} ELSE readers[k]]
  /\ timer' = [o \in Origin |-> IF o \in OriginsOf(s) THEN "off" ELSE timer[o]]
  /\ wait' = Answer(UNION {Unanswered(o) : o \in OriginsOf(s)}, "lost", {})
  /\ waiters' = [o \in Origin |-> IF o \in OriginsOf(s) THEN {} ELSE waiters[o]]
  /\ UNCHANGED cache

(* _mark_device_disconnected, as far as discovery and reads go: the AP     *)
(* says so, or the source is lost and anything of the device is on record. *)
Lost(s) ==
  /\ LinkGone(s)
  /\ cache' = Without(s)
  /\ read' = [r \in Read |->
       IF \E c \in Char : r \in readers[<< s, c >>] /\ read[r].future = "none"
         THEN [read[r] EXCEPT !.future = "failed"] ELSE read[r]]
  /\ readers' = [k \in Key |-> IF k[1] = s THEN {} ELSE readers[k]]
  /\ timer' = [o \in Origin |-> IF o \in OriginsOf(s) THEN "off" ELSE timer[o]]
  /\ wait' = Answer(UNION {Unanswered(o) : o \in OriginsOf(s)}, "lost", {})
  /\ waiters' = [o \in Origin |-> IF o \in OriginsOf(s) THEN {} ELSE waiters[o]]

(* clear_device_characteristics, on the client's clear_cache *)
Clear(s) ==
  /\ cache' = Without(s)
  /\ wait' = [w \in Wait |->
       IF wait[w].at = "waiting"
         THEN [wait[w] EXCEPT !.heard = {k \in @ : k[1] # s}] ELSE wait[w]]
  /\ late' = {k \in late : k[1] # s}
  /\ UNCHANGED << waiters, timer, readers, read, apVars, inHand, overdue >>

-----------------------------------------------------------------------------
(* async_wait_for_device_characteristics *)

(* What is known is returned at once, a burst in progress or not. *)
WaitCached(w, o) ==
  /\ wait[w].at = "idle"
  /\ CharacteristicsFrom(o) # {}
  /\ wait' = Answer({w}, "cached", CharacteristicsFrom(o))
  /\ UNCHANGED << cache, waiters, timer, readers, read, apVars, handVars >>

WaitBegins(w, o) ==
  /\ wait[w].at = "idle"
  /\ CharacteristicsFrom(o) = {}
  /\ wait' = [wait EXCEPT ![w] = [NoWait EXCEPT !.at = "waiting", !.origin = o]]
  /\ waiters' = [waiters EXCEPT ![o] = @ \cup {w}]
  /\ UNCHANGED << cache, timer, readers, read, apVars, handVars >>

(* The caller has its answer, or was interrupted after it was given: it is *)
(* no longer on record.                                                    *)
WaitReturns(w) ==
  /\ wait[w].at \in {"cached", "settled", "lost"}
  /\ wait' = [wait EXCEPT ![w] = NoWait]
  /\ UNCHANGED << cache, waiters, timer, readers, read, apVars, handVars >>

(* Slip: the list goes with the first to leave. *)
WaitInterruptedForAll(w) ==
  /\ wait[w].at = "waiting"
  /\ wait' = [wait EXCEPT ![w] = NoWait]
  /\ waiters' = [waiters EXCEPT ![wait[w].origin] = {}]
  /\ UNCHANGED << cache, timer, readers, read, apVars, handVars >>

(* Its time-out, or the caller's cancellation.  A timer that runs is left  *)
(* to run.                                                                 *)
WaitInterrupted(w) ==
  /\ wait[w].at = "waiting"
  /\ wait' = [wait EXCEPT ![w] = NoWait]
  /\ waiters' = [waiters EXCEPT ![wait[w].origin] = @ \ {w}]
  /\ UNCHANGED << cache, timer, readers, read, apVars, handVars >>

-----------------------------------------------------------------------------
(* _async_gatt_read_unlocked, called with the device's operation lock *)

ReadBegins(r, k) ==
  /\ \A q \in Read : read[q].at # "idle" => read[q].key[1] # k[1]
  /\ read[r].at = "idle"
  /\ read' = [read EXCEPT ![r] = [at |-> "asking", key |-> k, future |-> "none"]]
  /\ readers' = [readers EXCEPT ![k] = @ \cup {r}]
  /\ UNCHANGED << cache, waiters, timer, wait, apVars, handVars >>

(* The `finally` block. *)
ReadEnds(r) ==
  /\ read' = [read EXCEPT ![r] = NoRead]
  /\ readers' = [readers EXCEPT ![read[r].key] = @ \ {r}]

(* The action failed, was not sent, timed out or was cancelled. *)
ReadRefused(r) ==
  /\ read[r].at = "asking"
  /\ ReadEnds(r)
  /\ UNCHANGED << cache, waiters, timer, wait, apVars, handVars >>

(* The AP has read: its value was reported before the result or will be.   *)
ReadGranted(r) ==
  /\ read[r].at = "asking"
  /\ read[r].key[1] \in linked
  /\ read' = [read EXCEPT ![r].at = "awaiting"]
  /\ UNCHANGED << cache, waiters, timer, wait, readers, apVars, handVars >>

(* A value, a failure, the time-out or the caller's cancellation. *)
ReadReturns(r) ==
  /\ read[r].at = "awaiting"
  /\ ReadEnds(r)
  /\ UNCHANGED << cache, waiters, timer, wait, apVars, handVars >>

-----------------------------------------------------------------------------

(* The device connects through a source and the AP starts to discover it.  *)
Connects(s) ==
  /\ s \notin linked
  /\ linked' = linked \cup {s}
  /\ burst' = [burst EXCEPT ![s] = Char]
  /\ UNCHANGED << cache, waiters, timer, wait, readers, read, handVars >>

Next ==
  \/ \E s \in Source :
       \/ Connects(s) \/ Lost(s) \/ Clear(s)
       \/ \E c \in Char : Characteristic(s, c) \/ MessageWaits(s, c) \/ MessageResumes(s, c)
  \/ \E o \in Origin : TimerFires(o) \/ \E w \in Wait : WaitCached(w, o) \/ WaitBegins(w, o)
  \/ \E w \in Wait : WaitReturns(w) \/ WaitInterrupted(w)
  \/ \E r \in Read : ReadRefused(r) \/ ReadGranted(r) \/ ReadReturns(r)
                     \/ \E k \in Key : ReadBegins(r, k)

Spec == Init /\ [][Next]_vars

-----------------------------------------------------------------------------
(* Properties *)

Waiting == [at : {"waiting"}, origin : Origin, found : {"none"}, heard : SUBSET Key]
Answered == [at : {"cached", "settled", "lost"}, origin : {AnySource},
             found : {"none", "part", "all"}, heard : {{}}]
Reading == [at : {"asking", "awaiting"}, key : Key, future : {"none", "value", "failed"}]

(* A caller that waits is on record, and once something was reported for   *)
(* it a timer runs that will answer it: no interleaving of reports, other  *)
(* waiters' departures, losses and stale timers leaves it to its time-out. *)
NoWaitForgotten ==
  \A w \in Wait : wait[w].at = "waiting" =>
    /\ w \in waiters[wait[w].origin]
    /\ wait[w].heard # {} => timer[wait[w].origin] # "off"

(* A wait for which something was reported is not answered by the timer    *)
(* amid a burst, and its answer has everything reported for it that has    *)
(* not been forgotten (runtime.py:949, "after the current characteristic   *)
(* burst settles").                                                        *)
SettlesAfterBurst ==
  \A w \in Wait :
    (wait[w].at = "waiting" /\ wait'[w].at = "settled" /\ wait[w].heard # {}) =>
      /\ \A s \in SourcesOf(wait[w].origin) : ~ InProgress(s)
      /\ wait'[w].found \in {Extent(wait[w].heard), "all"}
WholeBurst == [][SettlesAfterBurst]_vars

(* Nothing that a source said of the device outlives their link: what is   *)
(* cached has been reported in the present one, so that a connect does not *)
(* find the list of an earlier one.  A message that was in hand when the   *)
(* link was lost is cached all the same (late), until the next loss.       *)
CacheFollowsLink ==
  \A k \in Known \ late : k[1] \in linked /\ k[2] \notin burst[k[1]]

(* A granted read without an answer is on record under its key, and its    *)
(* device is still linked: when the link goes, its reads fail at once.     *)
NoReadInVain ==
  \A r \in Read :
    /\ read[r].at # "idle" /\ read[r].future = "none" => r \in readers[read[r].key]
    /\ read[r].at = "awaiting" /\ read[r].future = "none" => read[r].key[1] \in linked

=============================================================================
