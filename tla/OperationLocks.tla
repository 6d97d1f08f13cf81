--------------------------- MODULE OperationLocks ---------------------------
(***************************************************************************)
(* ArubaBleProxyRuntime._active_operation: the per-key locks every active  *)
(* BLE operation runs under.  A key's lock lives in a slot object that is  *)
(* created by the first caller, counted by `users`, and dropped from the   *)
(* dictionary by the last one out.  Two callers that looked the key up at  *)
(* different times must still find the same lock.                          *)
(*                                                                         *)
(* A Call is one invocation of `async with self._active_operation(...)`.   *)
(* asyncio runs one callback at a time, so everything between two awaits   *)
(* is one action.  A slot object is named by the call that created it.     *)
(***************************************************************************)
EXTENDS Integers, Sequences, SequencesExt, OperationKeys

CONSTANTS
  Call,       \* invocations; each arrives, and leaves, once
  NoSlot      \* the dictionary has no entry

ASSUME NoSlotAssumption == NoSlot \notin Call \cup Key

VARIABLES
  slots,    \* _active_operation_slots: [Key -> Call \cup {NoSlot}]
  users,    \* slot.users
  holder,   \* the call inside slot.lock, or NoSlot when it is free
  waiters,  \* the FIFO of slot.lock
  pc,       \* where each call is
  key,      \* the key a call computed on arrival
  slot      \* the slot a call found or made on arrival

vars == << slots, users, holder, waiters, pc, key, slot >>

Attached(c) == pc[c] \in {"queued", "inside"}

Init ==
  /\ slots   = [k \in Key |-> NoSlot]
  /\ users   = [s \in Call |-> 0]
  /\ holder  = [s \in Call |-> NoSlot]
  /\ waiters = [s \in Call |-> << >>]
  /\ pc      = [c \in Call |-> "idle"]
  /\ key     = [c \in Call |-> NoSlot]
  /\ slot    = [c \in Call |-> NoSlot]

-----------------------------------------------------------------------------

(* The slot a caller uses: the one in the dictionary, or its own. *)
SlotFor(c, k) == IF slots[k] = NoSlot THEN c ELSE slots[k]

(* asyncio.Lock: free and nobody waiting means no suspension. *)
LockFree(s) == holder[s] = NoSlot /\ waiters[s] = << >>

(* Look up or create the slot, count in, and start acquiring its lock.     *)
Arrive(c, k) ==
  LET s == SlotFor(c, k) IN
  /\ pc[c] = "idle"
  /\ slots' = [slots EXCEPT ![k] = s]
  /\ users' = [users EXCEPT ![s] = @ + 1]
  /\ key'   = [key EXCEPT ![c] = k]
  /\ slot'  = [slot EXCEPT ![c] = s]
  /\ \/ /\ LockFree(s)
        /\ holder' = [holder EXCEPT ![s] = c]
        /\ pc'     = [pc EXCEPT ![c] = "inside"]
        /\ UNCHANGED waiters
     \/ /\ ~ LockFree(s)
        /\ waiters' = [waiters EXCEPT ![s] = Append(@, c)]
        /\ pc'      = [pc EXCEPT ![c] = "queued"]
        /\ UNCHANGED holder

(* Slip: any waiter of a released lock resumes. *)
WakeAny(c) ==
  LET s == slot[c] IN
  /\ pc[c] = "queued"
  /\ holder[s] = NoSlot
  /\ holder'  = [holder EXCEPT ![s] = c]
  /\ waiters' = [waiters EXCEPT ![s] = SelectSeq(@, LAMBDA w : w # c)]
  /\ pc'      = [pc EXCEPT ![c] = "inside"]
  /\ UNCHANGED << slots, users, key, slot >>

(* The first waiter of a released lock resumes. *)
Wake(c) ==
  LET s == slot[c] IN
  /\ pc[c] = "queued"
  /\ holder[s] = NoSlot
  /\ waiters[s] # << >>
  /\ Head(waiters[s]) = c
  /\ holder'  = [holder EXCEPT ![s] = c]
  /\ waiters' = [waiters EXCEPT ![s] = Tail(@)]
  /\ pc'      = [pc EXCEPT ![c] = "inside"]
  /\ UNCHANGED << slots, users, key, slot >>

(* Slip: every leaver drops the slot, not only the last. *)
CountOutDropping(c) ==
  LET s == slot[c] IN
  /\ users' = [users EXCEPT ![s] = IF @ = 0 THEN 0 ELSE @ - 1]
  /\ slots' = [slots EXCEPT ![key[c]] = NoSlot]
  /\ pc'    = [pc EXCEPT ![c] = "done"]
  /\ UNCHANGED << key, slot >>

(* Slip: the slot is never dropped. *)
CountOutKeeping(c) ==
  LET s == slot[c] IN
  /\ users' = [users EXCEPT ![s] = IF @ = 0 THEN 0 ELSE @ - 1]
  /\ pc'    = [pc EXCEPT ![c] = "done"]
  /\ UNCHANGED << key, slot, slots >>

(* The `finally` block: count out, the last one drops the key's slot. *)
CountOut(c) ==
  LET s == slot[c] IN
  /\ users' = [users EXCEPT ![s] = IF @ = 0 THEN 0 ELSE @ - 1]
  /\ slots' = IF users[s] <= 1 THEN [slots EXCEPT ![key[c]] = NoSlot] ELSE slots
  /\ pc'    = [pc EXCEPT ![c] = "done"]
  /\ UNCHANGED << key, slot >>

(* The body returned, raised, or was cancelled: the lock is released first.*)
Leave(c) ==
  /\ pc[c] = "inside"
  /\ holder' = [holder EXCEPT ![slot[c]] = NoSlot]
  /\ CountOut(c)
  /\ UNCHANGED waiters

(* Slip: a cancelled waiter counts out but stays in the lock's queue. *)
CancelQueuedStaying(c) ==
  /\ pc[c] = "queued"
  /\ CountOut(c)
  /\ UNCHANGED << holder, waiters >>

(* The task was cancelled while it waited for the lock.  This includes a   *)
(* first waiter that was already woken: the lock stays free for the next.  *)
CancelQueued(c) ==
  /\ pc[c] = "queued"
  /\ \E i \in DOMAIN waiters[slot[c]] :
       /\ waiters[slot[c]][i] = c
       /\ waiters' = [waiters EXCEPT ![slot[c]] = RemoveAt(@, i)]
  /\ CountOut(c)
  /\ UNCHANGED holder

(* An operation on a device: its arguments choose the key. *)
Begin(c) ==
  \E source \in Source, device \in Device, action \in ActionType :
    Arrive(c, OperationLockKey(source, device, action))

Next ==
  \E c \in Call :
    \/ Begin(c)
    \/ Wake(c)
    \/ Leave(c)
    \/ CancelQueued(c)

(* The event loop resumes a woken waiter, and a body ends: every await in  *)
(* it is bounded by a timeout.  Nobody is obliged to call or to cancel.    *)
Fairness == \A c \in Call : WF_vars(Wake(c)) /\ WF_vars(Leave(c))

Spec == Init /\ [][Next]_vars

FairSpec == Spec /\ Fairness

-----------------------------------------------------------------------------

TypeOK ==
  /\ slots   \in [Key -> Call \cup {NoSlot}]
  /\ users   \in [Call -> Nat]
  /\ holder  \in [Call -> Call \cup {NoSlot}]
  /\ waiters \in [Call -> Seq(Call)]
  /\ pc      \in [Call -> {"idle", "queued", "inside", "done"}]
  /\ key     \in [Call -> Key \cup {NoSlot}]
  /\ slot    \in [Call -> Call \cup {NoSlot}]

(* The calls counted by a slot's `users`. *)
usersOf == [s \in Call |-> {c \in Call : Attached(c) /\ slot[c] = s}]

(* Why it works, as an inductive invariant.  An operation that is queued or*)
(* running still finds its own slot under its key; `users` counts exactly  *)
(* those operations; a slot serves one key and is there only while used.   *)
FindsOwnSlot ==
  \A c \in Call : Attached(c) => key[c] \in Key /\ slot[c] \in Call /\ slots[key[c]] = slot[c]

InsideHoldsLock == \A c \in Call : pc[c] = "inside" => holder[slot[c]] = c

UsersCounted ==
  \A s \in Call : IsFiniteSet(usersOf[s]) /\ users[s] = Cardinality(usersOf[s])

SlotServesOneKey ==
  \A k, l \in Key : slots[k] # NoSlot /\ slots[k] = slots[l] => k = l

SlotIsUsed == \A k \in Key : slots[k] # NoSlot => usersOf[slots[k]] # {}

(* A call that has not arrived has not made its slot. *)
IdleHasNoSlot ==
  \A c \in Call : pc[c] = "idle" =>
    /\ users[c] = 0
    /\ \A k \in Key : slots[k] # c
    /\ \A d \in Call : slot[d] # c

LockInvariant ==
  /\ FindsOwnSlot
  /\ InsideHoldsLock
  /\ UsersCounted
  /\ SlotServesOneKey
  /\ SlotIsUsed
  /\ IdleHasNoSlot

(* Why callers form one line per key: what a lock holds and queues is      *)
(* exactly what the calls say of themselves, each call at most once.       *)
HolderIsInside ==
  \A s, c \in Call : holder[s] = c => pc[c] = "inside" /\ slot[c] = s

WaitersAreQueued ==
  \A s \in Call : \A i \in DOMAIN waiters[s] :
    pc[waiters[s][i]] = "queued" /\ slot[waiters[s][i]] = s

WaitsOnce ==
  \A s \in Call : \A i, j \in DOMAIN waiters[s] : waiters[s][i] = waiters[s][j] => i = j

LineInvariant ==
  /\ HolderIsInside
  /\ WaitersAreQueued
  /\ WaitsOnce

(* The lock works although its slot object comes and goes: two operations  *)
(* with the same key are never in their bodies together, whichever slot    *)
(* each of them looked up (the `async with slot.lock` of _active_operation).*)
MutualExclusion ==
  \A c, d \in Call :
    pc[c] = "inside" /\ pc[d] = "inside" /\ key[c] = key[d] => c = d

(* The dictionary does not grow with history: a key has a slot exactly     *)
(* while some operation on it is queued or running, also after             *)
(* cancellations (diagnostics report len() of this dictionary).            *)
SlotIffInUse ==
  \A k \in Key : slots[k] # NoSlot <=> \E c \in Call : Attached(c) /\ key[c] = k

(* No lost wake-up: an operation that queued for its key gets the lock or  *)
(* is cancelled, whatever the callers around it do.                        *)
QueuedIsServed ==
  \A c \in Call : pc[c] = "queued" ~> pc[c] \in {"inside", "done"}

-----------------------------------------------------------------------------

(* Refinement: the line of a key is the holder of its slot's lock and then *)
(* that lock's waiters.                                                    *)
LineOf(k) ==
  IF slots[k] = NoSlot THEN << >>
  ELSE (IF holder[slots[k]] = NoSlot THEN << >> ELSE << holder[slots[k]] >>)
         \o waiters[slots[k]]

Queue == INSTANCE KeyedQueue WITH
  line   <- [k \in Key |-> LineOf(k)],
  inside <- {c \in Call : pc[c] = "inside"}

(* The slots implement one first-come-first-served line per key: the order *)
(* of entry is the order of arrival less those who cancelled.              *)
ImplementsKeyedQueue == Queue!Spec

=============================================================================
