------------------------ MODULE OperationLocksProofs ------------------------
(***************************************************************************)
(* Proofs about OperationLocks, for any number of calls, APs and devices.  *)
(***************************************************************************)
EXTENDS OperationLocks, SequenceFacts, FiniteSetTheorems

(* The key an operation computes is a key. *)
LEMMA OperationLockKeyInKey ==
  ASSUME NEW source \in Source, NEW device \in Device, NEW action \in ActionType
  PROVE  OperationLockKey(source, device, action) \in Key
BY DEF OperationLockKey, Key

(* The step relation with the request reduced to its key. *)
LEMMA NextByKey ==
  ASSUME Next
  PROVE  \E c \in Call :
           \/ \E k \in Key : Arrive(c, k)
           \/ Wake(c)
           \/ Leave(c)
           \/ CancelQueued(c)
BY OperationLockKeyInKey DEF Next, Begin

-----------------------------------------------------------------------------

(* The slot of an attached call is a call, so its lock is a real one. *)
LEMMA TypeStep == TypeOK /\ LockInvariant /\ [Next]_vars => TypeOK'
<1> SUFFICES ASSUME TypeOK, LockInvariant, [Next]_vars
             PROVE  TypeOK'
  OBVIOUS
<1> USE DEF TypeOK
<1>1. ASSUME NEW c \in Call, NEW k \in Key, Arrive(c, k)
      PROVE  TypeOK'
  <2> DEFINE s == SlotFor(c, k)
  <2>1. s \in Call
    BY DEF SlotFor
  <2>2. Append(waiters[s], c) \in Seq(Call)
    BY <2>1, AppendProperties
  <2>3. /\ slots' = [slots EXCEPT ![k] = s]
        /\ users' = [users EXCEPT ![s] = @ + 1]
        /\ key'   = [key EXCEPT ![c] = k]
        /\ slot'  = [slot EXCEPT ![c] = s]
    BY <1>1 DEF Arrive
  <2>4. \/ /\ holder' = [holder EXCEPT ![s] = c]
           /\ pc'     = [pc EXCEPT ![c] = "inside"]
           /\ UNCHANGED waiters
        \/ /\ waiters' = [waiters EXCEPT ![s] = Append(@, c)]
           /\ pc'      = [pc EXCEPT ![c] = "queued"]
           /\ UNCHANGED holder
    BY <1>1 DEF Arrive
  <2> HIDE DEF s
  <2>5. slots' \in [Key -> Call \cup {NoSlot}] /\ users' \in [Call -> Nat]
    <3>1. users[s] + 1 \in Nat
      BY <2>1
    <3>. QED
      BY <2>1, <2>3, <3>1
  <2>6. key' \in [Call -> Key \cup {NoSlot}] /\ slot' \in [Call -> Call \cup {NoSlot}]
    BY <2>1, <2>3
  <2>7. /\ holder' \in [Call -> Call \cup {NoSlot}]
        /\ waiters' \in [Call -> Seq(Call)]
        /\ pc' \in [Call -> {"idle", "queued", "inside", "done"}]
    <3>1. /\ holder \in [Call -> Call \cup {NoSlot}]
          /\ waiters \in [Call -> Seq(Call)]
          /\ pc \in [Call -> {"idle", "queued", "inside", "done"}]
      OBVIOUS
    <3> HIDE DEF TypeOK, LockInvariant
    <3>. QED
      BY <2>1, <2>2, <2>4, <3>1
  <2>. QED
    BY <2>5, <2>6, <2>7
<1>2. ASSUME NEW c \in Call, Wake(c)
      PROVE  TypeOK'
  <2>1. slot[c] \in Call
    BY <1>2 DEF Wake, LockInvariant, FindsOwnSlot, Attached
  <2>2. Tail(waiters[slot[c]]) \in Seq(Call)
    BY <1>2, <2>1, HeadTailProperties DEF Wake
  <2>. QED
    BY <1>2, <2>1, <2>2 DEF Wake
<1>3. ASSUME NEW c \in Call, Leave(c)
      PROVE  TypeOK'
  <2>1. slot[c] \in Call /\ key[c] \in Key
    BY <1>3 DEF Leave, LockInvariant, FindsOwnSlot, Attached
  <2>. QED
    BY <1>3, <2>1 DEF Leave, CountOut
<1>4. ASSUME NEW c \in Call, CancelQueued(c)
      PROVE  TypeOK'
  <2>1. slot[c] \in Call /\ key[c] \in Key
    BY <1>4 DEF CancelQueued, LockInvariant, FindsOwnSlot, Attached
  <2>2. PICK i \in DOMAIN waiters[slot[c]] :
          waiters' = [waiters EXCEPT ![slot[c]] = RemoveAt(@, i)]
    BY <1>4 DEF CancelQueued
  <2>3. RemoveAt(waiters[slot[c]], i) \in Seq(Call)
    BY <2>1, <2>2, RemoveAtElements
  <2>4. waiters' \in [Call -> Seq(Call)]
    <3>1. waiters \in [Call -> Seq(Call)]
      OBVIOUS
    <3> HIDE DEF TypeOK, LockInvariant
    <3>. QED
      BY <2>1, <2>2, <2>3, <3>1
  <2>5. /\ slots' \in [Key -> Call \cup {NoSlot}]
        /\ users' \in [Call -> Nat]
        /\ UNCHANGED << holder, key, slot >>
        /\ pc' \in [Call -> {"idle", "queued", "inside", "done"}]
    <3>1. users[slot[c]] \in Nat
      BY <2>1
    <3>2. (IF users[slot[c]] = 0 THEN 0 ELSE users[slot[c]] - 1) \in Nat
      BY <3>1, SMTT(30)
    <3>3. users' \in [Call -> Nat]
      BY <1>4, <2>1, <3>2 DEF CancelQueued, CountOut
    <3>4. slots' \in [Key -> Call \cup {NoSlot}]
      BY <1>4, <2>1 DEF CancelQueued, CountOut
    <3>. QED
      BY <1>4, <3>3, <3>4 DEF CancelQueued, CountOut
  <2>. QED
    BY <2>4, <2>5
<1>5. CASE UNCHANGED vars
  BY <1>5 DEF vars
<1>. QED
  BY <1>1, <1>2, <1>3, <1>4, <1>5, NextByKey

-----------------------------------------------------------------------------

(* What arriving does, with the slot named s. *)
LEMMA ArriveFacts ==
  ASSUME TypeOK, NEW c \in Call, NEW k \in Key, Arrive(c, k)
  PROVE  \E s \in Call :
           /\ s = IF slots[k] = NoSlot THEN c ELSE slots[k]
           /\ pc[c] = "idle"
           /\ slots' = [slots EXCEPT ![k] = s]
           /\ users' = [users EXCEPT ![s] = @ + 1]
           /\ key'   = [key EXCEPT ![c] = k]
           /\ slot'  = [slot EXCEPT ![c] = s]
           /\ \/ /\ holder[s] = NoSlot /\ waiters[s] = << >>
                 /\ holder' = [holder EXCEPT ![s] = c]
                 /\ pc'     = [pc EXCEPT ![c] = "inside"]
                 /\ UNCHANGED waiters
              \/ /\ ~ LockFree(s)
                 /\ waiters' = [waiters EXCEPT ![s] = Append(@, c)]
                 /\ pc'      = [pc EXCEPT ![c] = "queued"]
                 /\ UNCHANGED holder
<1> DEFINE s == SlotFor(c, k)
<1>1. s \in Call
  BY DEF SlotFor, TypeOK
<1> WITNESS s \in Call
<1>. QED
  BY DEF Arrive, SlotFor, LockFree

LEMMA ArriveInvariant ==
  ASSUME TypeOK, LockInvariant, NEW c \in Call, NEW k \in Key, Arrive(c, k)
  PROVE  LockInvariant'
<1> USE DEF TypeOK, Attached
<1>1. PICK s \in Call :
           /\ s = IF slots[k] = NoSlot THEN c ELSE slots[k]
           /\ pc[c] = "idle"
           /\ slots' = [slots EXCEPT ![k] = s]
           /\ users' = [users EXCEPT ![s] = @ + 1]
           /\ key'   = [key EXCEPT ![c] = k]
           /\ slot'  = [slot EXCEPT ![c] = s]
           /\ \/ /\ holder[s] = NoSlot /\ waiters[s] = << >>
                 /\ holder' = [holder EXCEPT ![s] = c]
                 /\ pc'     = [pc EXCEPT ![c] = "inside"]
                 /\ UNCHANGED waiters
              \/ /\ ~ LockFree(s)
                 /\ waiters' = [waiters EXCEPT ![s] = Append(@, c)]
                 /\ pc'      = [pc EXCEPT ![c] = "queued"]
                 /\ UNCHANGED holder
  BY ArriveFacts
<1>2. /\ pc' \in [Call -> {"idle", "queued", "inside", "done"}]
      /\ pc'[c] \in {"queued", "inside"}
      /\ \A d \in Call \ {c} : pc'[d] = pc[d] /\ key'[d] = key[d] /\ slot'[d] = slot[d]
      /\ key'[c] = k /\ slot'[c] = s /\ slots'[k] = s
      /\ \A l \in Key \ {k} : slots'[l] = slots[l]
  BY <1>1
<1>3. NoSlot \notin Call
  BY NoSlotAssumption
<1>4. FindsOwnSlot'
  BY <1>1, <1>2, <1>3 DEF LockInvariant, FindsOwnSlot
<1>5. InsideHoldsLock'
  BY <1>1, <1>2, <1>3 DEF LockInvariant, InsideHoldsLock, FindsOwnSlot
<1>6. /\ usersOf'[s] = usersOf[s] \cup {c}
      /\ c \notin usersOf[s]
      /\ \A t \in Call \ {s} : usersOf'[t] = usersOf[t]
  BY <1>1, <1>2 DEF usersOf
<1>7. UsersCounted'
  <2>0. IsFiniteSet(usersOf[s]) /\ users[s] = Cardinality(usersOf[s])
    BY DEF LockInvariant, UsersCounted
  <2>a. /\ IsFiniteSet(usersOf[s] \cup {c})
        /\ Cardinality(usersOf[s] \cup {c}) = Cardinality(usersOf[s]) + 1
    BY <1>6, <2>0, FS_AddElement
  <2>b. users'[s] = users[s] + 1
    BY <1>1
  <2>1. IsFiniteSet(usersOf'[s]) /\ users'[s] = Cardinality(usersOf'[s])
    BY <1>6, <2>0, <2>a, <2>b
  <2>2. \A t \in Call \ {s} : users'[t] = users[t]
    BY <1>1
  <2>. QED
    BY <1>6, <2>1, <2>2 DEF LockInvariant, UsersCounted
<1>8. SlotServesOneKey'
  BY <1>1, <1>2, <1>3 DEF LockInvariant, SlotServesOneKey, IdleHasNoSlot
<1>9. SlotIsUsed'
  <2> SUFFICES ASSUME NEW l \in Key, slots'[l] # NoSlot
               PROVE  usersOf'[slots'[l]] # {}
    BY DEF SlotIsUsed
  <2>1. CASE l = k
    BY <1>2, <1>6, <2>1
  <2>2. CASE l # k
    <3>1. slots'[l] = slots[l] /\ slots[l] \in Call
      BY <1>2, <2>2
    <3>2. usersOf[slots[l]] # {}
      BY <3>1, <1>3 DEF LockInvariant, SlotIsUsed
    <3>. QED
      BY <1>6, <3>1, <3>2
  <2>. QED
    BY <2>1, <2>2
<1>10. IdleHasNoSlot'
  BY <1>1, <1>2 DEF LockInvariant, IdleHasNoSlot
<1>. QED
  BY <1>4, <1>5, <1>7, <1>8, <1>9, <1>10 DEF LockInvariant

LEMMA OneFewer ==
  ASSUME NEW U, IsFiniteSet(U), NEW x \in U
  PROVE  IsFiniteSet(U \ {x}) /\ Cardinality(U \ {x}) = Cardinality(U) - 1
BY FS_RemoveElement

(* Counting out keeps the slots and the user counts in step. *)
LEMMA CountOutInvariant ==
  ASSUME TypeOK, LockInvariant, NEW c \in Call, Attached(c), CountOut(c)
  PROVE  /\ FindsOwnSlot'
         /\ UsersCounted'
         /\ SlotServesOneKey'
         /\ SlotIsUsed'
         /\ IdleHasNoSlot'
<1> USE DEF TypeOK, Attached
<1>1. slot[c] \in Call /\ key[c] \in Key /\ slots[key[c]] = slot[c]
  BY DEF LockInvariant, FindsOwnSlot
<1>2. /\ UNCHANGED << key, slot >>
      /\ pc' = [pc EXCEPT ![c] = "done"]
      /\ \A d \in Call \ {c} : pc'[d] = pc[d]
      /\ ~ Attached(c)'
  BY DEF CountOut
<1>3. /\ usersOf'[slot[c]] = usersOf[slot[c]] \ {c}
      /\ c \in usersOf[slot[c]]
      /\ \A t \in Call \ {slot[c]} : usersOf'[t] = usersOf[t]
  BY <1>1, <1>2 DEF usersOf
<1>4. /\ IsFiniteSet(usersOf[slot[c]])
      /\ users[slot[c]] = Cardinality(usersOf[slot[c]])
      /\ users[slot[c]] \in Nat
      /\ users[slot[c]] # 0
  BY <1>1, <1>3, FS_EmptySet DEF LockInvariant, UsersCounted
<1>5. users' = [users EXCEPT ![slot[c]] = @ - 1]
  BY <1>1, <1>4 DEF CountOut
<1>6. UsersCounted'
  <2>1. /\ IsFiniteSet(usersOf[slot[c]] \ {c})
        /\ Cardinality(usersOf[slot[c]] \ {c}) = Cardinality(usersOf[slot[c]]) - 1
    <3>1. c \in usersOf[slot[c]] /\ IsFiniteSet(usersOf[slot[c]])
      BY <1>3, <1>4
    <3> HIDE DEF TypeOK
    <3>. QED
      BY <3>1, OneFewer
  <2>2. users'[slot[c]] = users[slot[c]] - 1
    <3>1. users \in [Call -> Nat]
      OBVIOUS
    <3> HIDE DEF TypeOK
    <3>. QED
      BY <1>1, <1>5, <3>1
  <2>3. \A t \in Call \ {slot[c]} : users'[t] = users[t]
    BY <1>5
  <2> SUFFICES ASSUME NEW t \in Call
               PROVE  IsFiniteSet(usersOf'[t]) /\ users'[t] = Cardinality(usersOf'[t])
    BY DEF UsersCounted
  <2>4. CASE t = slot[c]
    BY <1>3, <1>4, <2>1, <2>2, <2>4
  <2>5. CASE t # slot[c]
    BY <1>3, <2>3, <2>5 DEF LockInvariant, UsersCounted
  <2>. QED
    BY <2>4, <2>5
<1>7. CASE users[slot[c]] = 1
  <2>1. slots' = [slots EXCEPT ![key[c]] = NoSlot]
    BY <1>7 DEF CountOut
  <2>2. usersOf[slot[c]] = {c}
    <3>1. PICK x : usersOf[slot[c]] = {x}
      BY <1>4, <1>7, FS_Singleton
    <3>. QED
      BY <1>3, <3>1
  <2>3. FindsOwnSlot'
    BY <1>1, <1>2, <2>1, <2>2, NoSlotAssumption DEF LockInvariant, FindsOwnSlot, usersOf
  <2>4. SlotServesOneKey'
    BY <1>1, <2>1 DEF LockInvariant, SlotServesOneKey
  <2>5. SlotIsUsed'
    <3> SUFFICES ASSUME NEW l \in Key, slots'[l] # NoSlot
                 PROVE  usersOf'[slots'[l]] # {}
      BY DEF SlotIsUsed
    <3>1. l # key[c] /\ slots'[l] = slots[l] /\ slots[l] \in Call
      BY <1>1, <2>1
    <3>2. slots[l] # slot[c]
      BY <1>1, <3>1, NoSlotAssumption DEF LockInvariant, SlotServesOneKey
    <3>. QED
      BY <1>3, <3>1, <3>2, NoSlotAssumption DEF LockInvariant, SlotIsUsed
  <2>6. IdleHasNoSlot'
    BY <1>1, <1>2, <1>4, <1>5, <2>1, NoSlotAssumption DEF LockInvariant, IdleHasNoSlot
  <2>. QED
    BY <1>6, <2>3, <2>4, <2>5, <2>6
<1>8. CASE users[slot[c]] # 1
  <2>1. UNCHANGED slots
    <3>1. ~ (users[slot[c]] <= 1)
      <4> HIDE DEF TypeOK
      <4>. QED
        BY <1>4, <1>8
    <3>. QED
      BY <3>1 DEF CountOut
  <2>2. usersOf'[slot[c]] # {}
    <3>1. usersOf[slot[c]] # {c}
      BY <1>4, <1>8, FS_Singleton
    <3>. QED
      BY <1>3, <3>1
  <2>3. FindsOwnSlot'
    BY <1>2, <2>1 DEF LockInvariant, FindsOwnSlot
  <2>4. SlotServesOneKey'
    BY <2>1 DEF LockInvariant, SlotServesOneKey
  <2>5. SlotIsUsed'
    <3> SUFFICES ASSUME NEW l \in Key, slots'[l] # NoSlot
                 PROVE  usersOf'[slots'[l]] # {}
      BY DEF SlotIsUsed
    <3>1. slots'[l] = slots[l] /\ slots[l] \in Call
      BY <2>1
    <3>2. usersOf[slots[l]] # {}
      BY <3>1, NoSlotAssumption DEF LockInvariant, SlotIsUsed
    <3>. QED
      BY <1>3, <2>2, <3>1, <3>2
  <2>6. IdleHasNoSlot'
    BY <1>1, <1>2, <1>4, <1>5, <2>1 DEF LockInvariant, IdleHasNoSlot
  <2>. QED
    BY <1>6, <2>3, <2>4, <2>5, <2>6
<1>. QED
  BY <1>4, <1>7, <1>8

LEMMA InvariantStep == TypeOK /\ LockInvariant /\ [Next]_vars => LockInvariant'
<1> SUFFICES ASSUME TypeOK, LockInvariant, [Next]_vars
             PROVE  LockInvariant'
  OBVIOUS
<1> USE DEF TypeOK, Attached
<1>1. ASSUME NEW c \in Call, NEW k \in Key, Arrive(c, k)
      PROVE  LockInvariant'
  BY <1>1, ArriveInvariant
<1>2. ASSUME NEW c \in Call, Wake(c)
      PROVE  LockInvariant'
  <2>1. slot[c] \in Call /\ holder[slot[c]] = NoSlot
    BY <1>2 DEF Wake, LockInvariant, FindsOwnSlot
  <2>2. /\ holder' = [holder EXCEPT ![slot[c]] = c]
        /\ pc' = [pc EXCEPT ![c] = "inside"]
        /\ pc[c] = "queued"
        /\ UNCHANGED << slots, users, key, slot >>
    BY <1>2 DEF Wake
  <2>3. \A t \in Call : usersOf'[t] = usersOf[t]
    BY <2>2 DEF usersOf
  <2>4. FindsOwnSlot' /\ SlotServesOneKey'
    BY <2>2 DEF LockInvariant, FindsOwnSlot, SlotServesOneKey
  <2>5. InsideHoldsLock'
    BY <2>1, <2>2, NoSlotAssumption DEF LockInvariant, InsideHoldsLock
  <2>6. UsersCounted' /\ SlotIsUsed'
    BY <2>2, <2>3 DEF LockInvariant, UsersCounted, SlotIsUsed
  <2>7. IdleHasNoSlot'
    BY <2>2 DEF LockInvariant, IdleHasNoSlot
  <2>. QED
    BY <2>4, <2>5, <2>6, <2>7 DEF LockInvariant
<1>3. ASSUME NEW c \in Call, Leave(c)
      PROVE  LockInvariant'
  <2>1. CountOut(c) /\ pc[c] = "inside" /\ holder' = [holder EXCEPT ![slot[c]] = NoSlot]
    BY <1>3 DEF Leave
  <2>2. InsideHoldsLock'
    BY <2>1 DEF CountOut, LockInvariant, InsideHoldsLock, FindsOwnSlot
  <2>. QED
    BY <2>1, <2>2, CountOutInvariant DEF LockInvariant
<1>4. ASSUME NEW c \in Call, CancelQueued(c)
      PROVE  LockInvariant'
  <2>1. CountOut(c) /\ pc[c] = "queued" /\ UNCHANGED holder
    BY <1>4 DEF CancelQueued
  <2>2. InsideHoldsLock'
    BY <2>1 DEF CountOut, LockInvariant, InsideHoldsLock
  <2>. QED
    BY <2>1, <2>2, CountOutInvariant DEF LockInvariant
<1>5. CASE UNCHANGED vars
  <2>1. UNCHANGED usersOf
    BY <1>5 DEF vars, usersOf
  <2>2. FindsOwnSlot' /\ InsideHoldsLock'
    BY <1>5 DEF vars, LockInvariant, FindsOwnSlot, InsideHoldsLock
  <2>3. UsersCounted' /\ SlotIsUsed'
    BY <1>5, <2>1 DEF vars, LockInvariant, UsersCounted, SlotIsUsed
  <2>4. SlotServesOneKey' /\ IdleHasNoSlot'
    BY <1>5 DEF vars, LockInvariant, SlotServesOneKey, IdleHasNoSlot
  <2>. QED
    BY <2>2, <2>3, <2>4 DEF LockInvariant
<1>. QED
  BY <1>1, <1>2, <1>3, <1>4, <1>5, NextByKey

LEMMA InitInvariant == Init => TypeOK /\ LockInvariant
<1> SUFFICES ASSUME Init PROVE TypeOK /\ LockInvariant
  OBVIOUS
<1>1. TypeOK
  BY EmptySeq DEF Init, TypeOK
<1>2. \A s \in Call : usersOf[s] = {}
  BY DEF Init, usersOf, Attached
<1>3. UsersCounted
  BY <1>2, FS_EmptySet DEF Init, UsersCounted
<1>. QED
  BY <1>1, <1>3, NoSlotAssumption
     DEF Init, LockInvariant, FindsOwnSlot, InsideHoldsLock, SlotServesOneKey,
         SlotIsUsed, IdleHasNoSlot, Attached

(* The variables keep their types and the strengthened invariant holds. *)
THEOREM LocksInvariant == Spec => [](TypeOK /\ LockInvariant)
<1>1. TypeOK /\ LockInvariant /\ [Next]_vars => (TypeOK /\ LockInvariant)'
  BY TypeStep, InvariantStep
<1>. QED
  BY InitInvariant, <1>1, PTL DEF Spec

(* Locks, lines and callers keep their types: a line never holds anything  *)
(* but calls, and no use count goes below zero.                            *)
THEOREM LocksTypeOK == Spec => []TypeOK
BY LocksInvariant, PTL

(* Operations with one key never overlap, for any number of callers: the   *)
(* reason is FindsOwnSlot with InsideHoldsLock.                            *)
THEOREM LocksExclude == Spec => []MutualExclusion
<1>1. TypeOK /\ LockInvariant => MutualExclusion
  BY DEF LockInvariant, FindsOwnSlot, InsideHoldsLock, MutualExclusion, Attached
<1>. QED
  BY <1>1, LocksInvariant, PTL

(* A key has a slot exactly while an operation on it is queued or running. *)
THEOREM SlotsDoNotLeak == Spec => []SlotIffInUse
<1>1. TypeOK /\ LockInvariant => SlotIffInUse
  <2> SUFFICES ASSUME TypeOK, LockInvariant, NEW k \in Key
               PROVE  slots[k] # NoSlot <=> \E c \in Call : Attached(c) /\ key[c] = k
    BY DEF SlotIffInUse
  <2>1. ASSUME slots[k] # NoSlot
        PROVE  \E c \in Call : Attached(c) /\ key[c] = k
    <3>0. slots[k] \in Call /\ usersOf[slots[k]] # {}
      BY <2>1 DEF TypeOK, LockInvariant, SlotIsUsed
    <3>1. PICK c \in Call : Attached(c) /\ slot[c] = slots[k]
      BY <3>0 DEF usersOf
    <3>2. key[c] = k
      BY <2>1, <3>1 DEF LockInvariant, FindsOwnSlot, SlotServesOneKey
    <3>. QED
      BY <3>1, <3>2
  <2>2. ASSUME NEW c \in Call, Attached(c), key[c] = k
        PROVE  slots[k] # NoSlot
    BY <2>2, NoSlotAssumption DEF LockInvariant, FindsOwnSlot
  <2>. QED
    BY <2>1, <2>2
<1>. QED
  BY <1>1, LocksInvariant, PTL

-----------------------------------------------------------------------------
(* One line per key. *)

LEMMA ArriveLines ==
  ASSUME TypeOK, LockInvariant, LineInvariant, NEW c \in Call, NEW k \in Key, Arrive(c, k)
  PROVE  LineInvariant'
<1>1. PICK s \in Call :
        /\ s = IF slots[k] = NoSlot THEN c ELSE slots[k]
        /\ pc[c] = "idle"
        /\ slots' = [slots EXCEPT ![k] = s]
        /\ users' = [users EXCEPT ![s] = @ + 1]
        /\ key'   = [key EXCEPT ![c] = k]
        /\ slot'  = [slot EXCEPT ![c] = s]
        /\ \/ /\ holder[s] = NoSlot /\ waiters[s] = << >>
              /\ holder' = [holder EXCEPT ![s] = c]
              /\ pc'     = [pc EXCEPT ![c] = "inside"]
              /\ UNCHANGED waiters
           \/ /\ ~ LockFree(s)
              /\ waiters' = [waiters EXCEPT ![s] = Append(@, c)]
              /\ pc'      = [pc EXCEPT ![c] = "queued"]
              /\ UNCHANGED holder
  BY ArriveFacts
<1>2. /\ waiters \in [Call -> Seq(Call)]
      /\ holder \in [Call -> Call \cup {NoSlot}]
      /\ pc'[c] \in {"queued", "inside"} /\ slot'[c] = s
      /\ \A d \in Call \ {c} : pc'[d] = pc[d] /\ slot'[d] = slot[d]
  BY <1>1 DEF TypeOK
<1>3. HolderIsInside'
  <2> SUFFICES ASSUME NEW t \in Call, NEW d \in Call, holder'[t] = d
               PROVE  pc'[d] = "inside" /\ slot'[d] = t
    BY DEF HolderIsInside
  <2>1. CASE holder[t] = d
    <3>1. pc[d] = "inside" /\ slot[d] = t
      BY <2>1 DEF LineInvariant, HolderIsInside
    <3>. QED
      BY <1>1, <1>2, <3>1
  <2>2. CASE holder[t] # d
    <3>1. holder' = [holder EXCEPT ![s] = c] /\ pc' = [pc EXCEPT ![c] = "inside"]
      BY <1>1, <2>2
    <3>2. t = s /\ d = c
      BY <1>2, <2>2, <3>1
    <3>. QED
      BY <1>2, <3>1, <3>2 DEF TypeOK
  <2>. QED
    BY <2>1, <2>2
<1>4. \A t \in Call : \A i \in DOMAIN waiters[t] :
        waiters[t][i] \in Call /\ waiters[t][i] # c
  <2>1. \A t \in Call : \A i \in DOMAIN waiters[t] : waiters[t][i] \in Call
    BY <1>2, ElementOfSeq, LenProperties
  <2>. QED
    BY <1>1, <2>1 DEF LineInvariant, WaitersAreQueued
<1>5. CASE UNCHANGED waiters
  <2>1. ASSUME NEW t \in Call, NEW i \in DOMAIN waiters[t]
        PROVE  pc'[waiters[t][i]] = "queued" /\ slot'[waiters[t][i]] = t
    <3>1. waiters[t][i] \in Call \ {c}
      BY <1>4
    <3>2. pc[waiters[t][i]] = "queued" /\ slot[waiters[t][i]] = t
      BY DEF LineInvariant, WaitersAreQueued
    <3>. QED
      BY <1>2, <3>1, <3>2
  <2>2. WaitersAreQueued'
    BY <1>5, <2>1 DEF WaitersAreQueued
  <2>3. WaitsOnce'
    BY <1>5 DEF LineInvariant, WaitsOnce
  <2>. QED
    BY <1>3, <2>2, <2>3 DEF LineInvariant
<1>6. CASE waiters' = [waiters EXCEPT ![s] = Append(@, c)] /\ pc' = [pc EXCEPT ![c] = "queued"]
  <2> DEFINE w == waiters[s]
             x == Append(w, c)
  <2>0. /\ w \in Seq(Call)
        /\ \A j, i \in DOMAIN w : w[j] = w[i] => j = i
        /\ \A j \in DOMAIN w : w[j] # c
    BY <1>2, <1>4 DEF LineInvariant, WaitsOnce
  <2>1. /\ \A j, i \in DOMAIN x : x[j] = x[i] => j = i
        /\ \A j \in DOMAIN x : x[j] = c \/ \E i \in DOMAIN w : x[j] = w[i]
    <3> HIDE DEF w
    <3>. QED
      BY <2>0, AppendOnce
  <2> HIDE DEF x
  <2>2. waiters'[s] = x /\ \A t \in Call \ {s} : waiters'[t] = waiters[t]
    BY <1>2, <1>6 DEF x
  <2>3. pc'[c] = "queued"
    BY <1>6 DEF TypeOK
  <2>4. WaitersAreQueued'
    <3> SUFFICES ASSUME NEW t \in Call, NEW i \in DOMAIN waiters'[t]
                 PROVE  pc'[waiters'[t][i]] = "queued" /\ slot'[waiters'[t][i]] = t
      BY DEF WaitersAreQueued
    <3>0. ASSUME NEW u \in Call, NEW j \in DOMAIN waiters[u]
          PROVE  pc'[waiters[u][j]] = "queued" /\ slot'[waiters[u][j]] = u
      <4>1. waiters[u][j] \in Call \ {c}
        BY <1>4
      <4>2. pc[waiters[u][j]] = "queued" /\ slot[waiters[u][j]] = u
        BY DEF LineInvariant, WaitersAreQueued
      <4>. QED
        BY <1>2, <4>1, <4>2
    <3>1. CASE t # s
      BY <2>2, <3>0, <3>1
    <3>2. CASE t = s
      <4>1. i \in DOMAIN x /\ waiters'[t][i] = x[i]
        BY <2>2, <3>2
      <4>2. CASE x[i] = c
        BY <1>2, <2>3, <3>2, <4>1, <4>2
      <4>3. CASE \E j \in DOMAIN waiters[s] : x[i] = waiters[s][j]
        BY <3>0, <3>2, <4>1, <4>3
      <4>. QED
        BY <2>1, <4>1, <4>2, <4>3
    <3>. QED
      BY <3>1, <3>2
  <2>5. WaitsOnce'
    BY <2>1, <2>2 DEF LineInvariant, WaitsOnce
  <2>. QED
    BY <1>3, <2>4, <2>5 DEF LineInvariant
<1>. QED
  BY <1>1, <1>5, <1>6

(* A call that was in its line has left it. *)
LEMMA LeftLine ==
  ASSUME TypeOK, LineInvariant, NEW c \in Call, slot[c] \in Call, pc[c] = "queued",
         UNCHANGED slot,
         NEW p, pc' = [pc EXCEPT ![c] = p],
         waiters' = [waiters EXCEPT ![slot[c]] = waiters'[slot[c]]],
         \A i, j \in DOMAIN waiters'[slot[c]] :
           waiters'[slot[c]][i] = waiters'[slot[c]][j] => i = j,
         \A j \in DOMAIN waiters'[slot[c]] :
           /\ waiters'[slot[c]][j] # c
           /\ \E i \in DOMAIN waiters[slot[c]] : waiters'[slot[c]][j] = waiters[slot[c]][i]
  PROVE  WaitersAreQueued' /\ WaitsOnce'
<1>1. /\ waiters \in [Call -> Seq(Call)]
      /\ \A t \in Call \ {slot[c]} : waiters'[t] = waiters[t]
      /\ \A d \in Call \ {c} : pc'[d] = pc[d]
  BY DEF TypeOK
<1>2. \A t \in Call : \A i \in DOMAIN waiters[t] : waiters[t][i] \in Call
  BY <1>1, ElementOfSeq, LenProperties
<1>3. WaitersAreQueued'
  <2> SUFFICES ASSUME NEW t \in Call, NEW i \in DOMAIN waiters'[t]
               PROVE  pc'[waiters'[t][i]] = "queued" /\ slot[waiters'[t][i]] = t
    BY DEF WaitersAreQueued
  <2>1. CASE t # slot[c]
    BY <1>1, <1>2, <2>1 DEF LineInvariant, WaitersAreQueued
  <2>2. CASE t = slot[c]
    <3>1. PICK j \in DOMAIN waiters[t] : waiters'[t][i] = waiters[t][j]
      BY <2>2
    <3>2. waiters'[t][i] # c /\ waiters[t][j] \in Call
      BY <1>2, <2>2
    <3>. QED
      BY <1>1, <3>1, <3>2 DEF LineInvariant, WaitersAreQueued
  <2>. QED
    BY <2>1, <2>2
<1>4. WaitsOnce'
  <2> SUFFICES ASSUME NEW t \in Call, NEW i \in DOMAIN waiters'[t], NEW j \in DOMAIN waiters'[t],
                      waiters'[t][i] = waiters'[t][j]
               PROVE  i = j
    BY DEF WaitsOnce
  <2>1. CASE t = slot[c]
    BY <2>1
  <2>2. CASE t # slot[c]
    BY <1>1, <2>2 DEF LineInvariant, WaitsOnce
  <2>. QED
    BY <2>1, <2>2
<1>. QED
  BY <1>3, <1>4

(* A lock holds and queues the calls that say so, each once. *)
LEMMA LineStep ==
  TypeOK /\ LockInvariant /\ LineInvariant /\ [Next]_vars => LineInvariant'
<1> SUFFICES ASSUME TypeOK, LockInvariant, LineInvariant, [Next]_vars
             PROVE  LineInvariant'
  OBVIOUS
<1>0. NoSlot \notin Call
  BY NoSlotAssumption
<1>1. ASSUME NEW c \in Call, NEW k \in Key, Arrive(c, k)
      PROVE  LineInvariant'
  BY <1>1, ArriveLines
<1>2. ASSUME NEW c \in Call, Wake(c)
      PROVE  LineInvariant'
  <2>1. slot[c] \in Call /\ pc[c] = "queued" /\ waiters[slot[c]] \in Seq(Call)
    BY <1>2 DEF Wake, LockInvariant, FindsOwnSlot, Attached, TypeOK
  <2>2. /\ holder[slot[c]] = NoSlot
        /\ holder' = [holder EXCEPT ![slot[c]] = c]
        /\ waiters' = [waiters EXCEPT ![slot[c]] = Tail(@)]
        /\ pc' = [pc EXCEPT ![c] = "inside"]
        /\ waiters[slot[c]] # << >> /\ Head(waiters[slot[c]]) = c
        /\ UNCHANGED slot
    BY <1>2 DEF Wake
  <2>3. waiters'[slot[c]] = Tail(waiters[slot[c]])
    BY <2>1, <2>2 DEF TypeOK
  <2>4. \A i, j \in DOMAIN waiters[slot[c]] : waiters[slot[c]][i] = waiters[slot[c]][j] => i = j
    BY <2>1 DEF LineInvariant, WaitsOnce
  <2>5. /\ \A i, j \in DOMAIN waiters'[slot[c]] :
             waiters'[slot[c]][i] = waiters'[slot[c]][j] => i = j
        /\ \A j \in DOMAIN waiters'[slot[c]] :
             /\ waiters'[slot[c]][j] # c
             /\ \E i \in DOMAIN waiters[slot[c]] : waiters'[slot[c]][j] = waiters[slot[c]][i]
    <3> DEFINE w == waiters[slot[c]]
    <3>1. w \in Seq(Call) /\ w # << >> /\ Head(w) = c
      BY <2>1, <2>2
    <3>2. \A i, j \in DOMAIN w : w[i] = w[j] => i = j
      BY <2>4
    <3> HIDE DEF w
    <3>3. /\ \A i, j \in DOMAIN Tail(w) : Tail(w)[i] = Tail(w)[j] => i = j
          /\ \A j \in DOMAIN Tail(w) :
               /\ Tail(w)[j] # c
               /\ \E i \in DOMAIN w : Tail(w)[j] = w[i]
      BY <3>1, <3>2, TailOnce
    <3>. QED
      BY <2>3, <3>3 DEF w
  <2>6. WaitersAreQueued' /\ WaitsOnce'
    BY <2>1, <2>2, <2>3, <2>5, LeftLine
  <2>7. HolderIsInside'
    BY <1>0, <2>1, <2>2 DEF LineInvariant, HolderIsInside, TypeOK
  <2>. QED
    BY <2>6, <2>7 DEF LineInvariant
<1>3. ASSUME NEW c \in Call, Leave(c)
      PROVE  LineInvariant'
  <2>1. /\ pc[c] = "inside" /\ holder' = [holder EXCEPT ![slot[c]] = NoSlot]
        /\ UNCHANGED << waiters, slot >> /\ pc' = [pc EXCEPT ![c] = "done"]
    BY <1>3 DEF Leave, CountOut
  <2>2. slot[c] \in Call
    BY <2>1 DEF LockInvariant, FindsOwnSlot, Attached
  <2>3. HolderIsInside'
    BY <1>0, <2>1, <2>2 DEF LineInvariant, HolderIsInside, TypeOK
  <2>4. \A s \in Call : \A i \in DOMAIN waiters[s] :
          waiters[s][i] \in Call /\ waiters[s][i] # c
    <3>1. \A s \in Call : waiters[s] \in Seq(Call)
      BY DEF TypeOK
    <3>2. \A s \in Call : \A i \in DOMAIN waiters[s] : waiters[s][i] \in Call
      BY <3>1, ElementOfSeq, LenProperties
    <3>. QED
      BY <2>1, <3>2 DEF LineInvariant, WaitersAreQueued
  <2>5. WaitersAreQueued' /\ WaitsOnce'
    BY <2>1, <2>4 DEF LineInvariant, WaitersAreQueued, WaitsOnce, TypeOK
  <2>. QED
    BY <2>3, <2>5 DEF LineInvariant
<1>4. ASSUME NEW c \in Call, CancelQueued(c)
      PROVE  LineInvariant'
  <2>1. /\ pc[c] = "queued" /\ pc' = [pc EXCEPT ![c] = "done"]
        /\ UNCHANGED << holder, slot >>
    BY <1>4 DEF CancelQueued, CountOut
  <2>2. slot[c] \in Call /\ waiters[slot[c]] \in Seq(Call)
    BY <2>1 DEF LockInvariant, FindsOwnSlot, Attached, TypeOK
  <2>3. PICK i \in DOMAIN waiters[slot[c]] :
          /\ waiters[slot[c]][i] = c
          /\ waiters' = [waiters EXCEPT ![slot[c]] = RemoveAt(@, i)]
    BY <1>4 DEF CancelQueued
  <2>4. waiters'[slot[c]] = RemoveAt(waiters[slot[c]], i)
    BY <2>2, <2>3 DEF TypeOK
  <2>5. \A j, k \in DOMAIN waiters[slot[c]] : waiters[slot[c]][j] = waiters[slot[c]][k] => j = k
    BY <2>2 DEF LineInvariant, WaitsOnce
  <2>6. /\ \A j, k \in DOMAIN waiters'[slot[c]] :
             waiters'[slot[c]][j] = waiters'[slot[c]][k] => j = k
        /\ \A j \in DOMAIN waiters'[slot[c]] :
             /\ waiters'[slot[c]][j] # c
             /\ \E k \in DOMAIN waiters[slot[c]] : waiters'[slot[c]][j] = waiters[slot[c]][k]
    BY <2>2, <2>3, <2>4, <2>5, RemoveAtOnce
  <2>7. waiters' = [waiters EXCEPT ![slot[c]] = waiters'[slot[c]]]
    BY <2>3, <2>4
  <2>8. WaitersAreQueued' /\ WaitsOnce'
    BY <2>1, <2>2, <2>6, <2>7, LeftLine
  <2>9. HolderIsInside'
    BY <2>1 DEF LineInvariant, HolderIsInside, TypeOK
  <2>. QED
    BY <2>8, <2>9 DEF LineInvariant
<1>5. CASE UNCHANGED vars
  BY <1>5 DEF vars, LineInvariant, HolderIsInside, WaitersAreQueued, WaitsOnce
<1>. QED
  BY <1>1, <1>2, <1>3, <1>4, <1>5, NextByKey

(* The strengthened invariant with the lines. *)
THEOREM LinesInvariant == Spec => [](TypeOK /\ LockInvariant /\ LineInvariant)
<1>1. Init => LineInvariant
  <2> SUFFICES ASSUME Init PROVE LineInvariant
    OBVIOUS
  <2>1. \A s \in Call : holder[s] \notin Call /\ DOMAIN waiters[s] = {}
    BY NoSlotAssumption DEF Init
  <2>. QED
    BY <2>1 DEF LineInvariant, HolderIsInside, WaitersAreQueued, WaitsOnce
<1>2. TypeOK /\ LockInvariant /\ LineInvariant /\ [Next]_vars => LineInvariant'
  BY LineStep
<1>. QED
  BY <1>1, <1>2, LocksInvariant, PTL DEF Spec

-----------------------------------------------------------------------------
(* OperationLocks implements KeyedQueue. *)

theLine == [k \in Key |-> LineOf(k)]
theInside == {c \in Call : pc[c] = "inside"}

(* Everybody in a line is attached. *)
LEMMA LineMembers ==
  ASSUME TypeOK, LockInvariant, LineInvariant, NEW k \in Key
  PROVE  /\ LineOf(k) \in Seq(Call)
         /\ \A i \in DOMAIN LineOf(k) : Attached(LineOf(k)[i])
<1> DEFINE s == slots[k]
           w == waiters[s]
<1>1. CASE s = NoSlot
  BY <1>1 DEF LineOf
<1>2. CASE s # NoSlot
  <2>1. s \in Call /\ w \in Seq(Call) /\ holder[s] \in Call \cup {NoSlot}
    BY <1>2 DEF TypeOK
  <2>2. \A i \in DOMAIN w : Attached(w[i])
    BY <2>1 DEF LineInvariant, WaitersAreQueued, Attached
  <2>3. CASE holder[s] = NoSlot
    <3>1. LineOf(k) = << >> \o w
      BY <1>2, <2>3 DEF LineOf
    <3>2. LineOf(k) = w
      BY <2>1, <3>1, ConcatEmptySeq
    <3>. QED
      BY <2>1, <2>2, <3>2
  <2>4. CASE holder[s] # NoSlot
    <3> DEFINE d == holder[s]
    <3>1. LineOf(k) = << d >> \o w
      BY <1>2, <2>4 DEF LineOf
    <3>2. d \in Call /\ Attached(d)
      BY <2>1, <2>4 DEF LineInvariant, HolderIsInside, Attached
    <3> HIDE DEF d, w
    <3> DEFINE v == << d >> \o w
    <3>3. /\ v \in Seq(Call) /\ Len(v) = Len(w) + 1 /\ v[1] = d
          /\ \A i \in 1 .. Len(w) : v[i + 1] = w[i]
      BY <2>1, <3>2, FrontElements
    <3> HIDE DEF v
    <3>4. DOMAIN w = 1 .. Len(w) /\ Len(w) \in Nat /\ DOMAIN v = 1 .. Len(v)
      BY <2>1, <3>3, LenProperties
    <3>5. ASSUME NEW i \in DOMAIN v
          PROVE  Attached(v[i])
      <4>1. CASE i = 1
        BY <3>2, <3>3, <4>1
      <4>2. CASE i # 1
        <5>1. i - 1 \in 1 .. Len(w) /\ (i - 1) + 1 = i
          BY <3>3, <3>4, <4>2
        <5>2. v[i] = w[i - 1]
          BY <3>3, <5>1
        <5>. QED
          BY <2>2, <3>4, <5>1, <5>2
      <4>. QED
        BY <4>1, <4>2
    <3>. QED
      BY <3>1, <3>3, <3>5 DEF v
  <2>. QED
    BY <2>3, <2>4
<1>. QED
  BY <1>1, <1>2

(* A slot that nobody has made yet has a free lock. *)
LEMMA NewSlotIsFree ==
  ASSUME TypeOK, LockInvariant, LineInvariant, NEW c \in Call, pc[c] = "idle"
  PROVE  holder[c] = NoSlot /\ waiters[c] = << >>
<1>1. holder[c] = NoSlot
  <2>1. holder[c] \in Call \cup {NoSlot}
    BY DEF TypeOK
  <2>2. \A d \in Call : slot[d] # c
    BY DEF LockInvariant, IdleHasNoSlot
  <2>. QED
    BY <2>1, <2>2 DEF LineInvariant, HolderIsInside
<1>2. waiters[c] = << >>
  <2> SUFFICES ASSUME waiters[c] # << >> PROVE FALSE
    OBVIOUS
  <2>1. waiters[c] \in Seq(Call)
    BY DEF TypeOK
  <2>2. 1 \in 1 .. Len(waiters[c]) /\ DOMAIN waiters[c] = 1 .. Len(waiters[c])
    BY <2>1, EmptySeq, LenProperties
  <2>3. waiters[c][1] \in Call /\ slot[waiters[c][1]] = c
    BY <2>1, <2>2, ElementOfSeq DEF LineInvariant, WaitersAreQueued
  <2>. QED
    BY <2>3 DEF LockInvariant, IdleHasNoSlot
<1>. QED
  BY <1>1, <1>2

(* Who counts a slot's users down to nothing is its only user. *)
LEMMA LastOneOut ==
  ASSUME TypeOK, LockInvariant, NEW c \in Call, Attached(c), users[slot[c]] <= 1,
         NEW d \in Call, Attached(d), slot[d] = slot[c]
  PROVE  d = c
<1> DEFINE U == usersOf[slot[c]]
<1>1. slot[c] \in Call
  BY DEF LockInvariant, FindsOwnSlot
<1>2. c \in U /\ d \in U
  BY <1>1 DEF usersOf
<1>3. IsFiniteSet(U) /\ users[slot[c]] = Cardinality(U) /\ users[slot[c]] \in Nat
  BY <1>1 DEF LockInvariant, UsersCounted, TypeOK
<1> HIDE DEF U
<1>4. Cardinality(U) \in Nat /\ Cardinality(U) <= 1
  BY <1>3
<1>5. Cardinality(U) # 0
  BY <1>2, <1>3, FS_EmptySet
<1>6. Cardinality(U) = 1
  BY <1>4, <1>5
<1>7. PICK x : U = {x}
  BY <1>3, <1>6, FS_Singleton
<1>. QED
  BY <1>2, <1>7

(* The lines of other keys do not move. *)
LEMMA OtherLines ==
  ASSUME TypeOK, LockInvariant, NEW k \in Key, NEW s \in Call, slots[k] \in {s, NoSlot},
         slots[k] = NoSlot => \A l \in Key : slots[l] # s,
         \A l \in Key \ {k} : slots'[l] = slots[l],
         \A t \in Call \ {s} : holder'[t] = holder[t] /\ waiters'[t] = waiters[t]
  PROVE  \A l \in Key \ {k} : LineOf(l)' = LineOf(l)
<1> SUFFICES ASSUME NEW l \in Key \ {k} PROVE LineOf(l)' = LineOf(l)
  OBVIOUS
<1>1. slots[l] \in Call \cup {NoSlot} /\ slots'[l] = slots[l]
  BY DEF TypeOK
<1>2. slots[l] # s
  BY NoSlotAssumption DEF LockInvariant, SlotServesOneKey
<1>. QED
  BY <1>1, <1>2 DEF LineOf

(* What the line of one key becomes says what the lines become. *)
LEMMA LineBecomes ==
  ASSUME NEW k \in Key, \A l \in Key \ {k} : LineOf(l)' = LineOf(l), NEW x, LineOf(k)' = x
  PROVE  theLine' = [theLine EXCEPT ![k] = x]
BY DEF theLine

LEMMA ArriveRefines ==
  ASSUME TypeOK, LockInvariant, LineInvariant, NEW c \in Call, NEW k \in Key, Arrive(c, k)
  PROVE  \/ /\ theLine[k] = << >>
            /\ theLine' = [theLine EXCEPT ![k] = << c >>]
            /\ theInside' = theInside \cup {c}
         \/ /\ theLine[k] # << >>
            /\ theLine' = [theLine EXCEPT ![k] = Append(@, c)]
            /\ theInside' = theInside
<1>1. PICK s \in Call :
        /\ s = IF slots[k] = NoSlot THEN c ELSE slots[k]
        /\ pc[c] = "idle"
        /\ slots' = [slots EXCEPT ![k] = s]
        /\ users' = [users EXCEPT ![s] = @ + 1]
        /\ key'   = [key EXCEPT ![c] = k]
        /\ slot'  = [slot EXCEPT ![c] = s]
        /\ \/ /\ holder[s] = NoSlot /\ waiters[s] = << >>
              /\ holder' = [holder EXCEPT ![s] = c]
              /\ pc'     = [pc EXCEPT ![c] = "inside"]
              /\ UNCHANGED waiters
           \/ /\ ~ LockFree(s)
              /\ waiters' = [waiters EXCEPT ![s] = Append(@, c)]
              /\ pc'      = [pc EXCEPT ![c] = "queued"]
              /\ UNCHANGED holder
  BY ArriveFacts
<1>2. /\ waiters[s] \in Seq(Call) /\ holder[s] \in Call \cup {NoSlot}
      /\ slots'[k] = s /\ s # NoSlot
      /\ \A l \in Key \ {k} : slots'[l] = slots[l]
      /\ \A t \in Call \ {s} : holder'[t] = holder[t] /\ waiters'[t] = waiters[t]
  BY <1>1, NoSlotAssumption DEF TypeOK
<1>3. slots[k] = NoSlot => s = c /\ LockFree(s) /\ \A l \in Key : slots[l] # s
  BY <1>1, NewSlotIsFree DEF LockFree, LockInvariant, IdleHasNoSlot
<1>4. \A l \in Key \ {k} : LineOf(l)' = LineOf(l)
  BY <1>1, <1>2, <1>3, OtherLines
<1>5. CASE /\ holder[s] = NoSlot /\ waiters[s] = << >>
           /\ holder' = [holder EXCEPT ![s] = c]
           /\ pc'     = [pc EXCEPT ![c] = "inside"]
           /\ UNCHANGED waiters
  <2>1. LineOf(k) = << >>
    BY <1>1, <1>5 DEF LineOf
  <2>2. LineOf(k)' = << c >> \o << >>
    BY <1>2, <1>5, NoSlotAssumption DEF LineOf, TypeOK
  <2>3. LineOf(k)' = << c >>
    BY <2>2
  <2>4. theLine' = [theLine EXCEPT ![k] = << c >>]
    BY <1>4, <2>3, LineBecomes
  <2>5. theInside' = theInside \cup {c}
    BY <1>5 DEF theInside, TypeOK
  <2>. QED
    BY <2>1, <2>4, <2>5 DEF theLine
<1>6. CASE /\ ~ LockFree(s)
           /\ waiters' = [waiters EXCEPT ![s] = Append(@, c)]
           /\ pc'      = [pc EXCEPT ![c] = "queued"]
           /\ UNCHANGED holder
  <2>1. slots[k] = s
    BY <1>1, <1>3, <1>6
  <2>2. waiters'[s] = Append(waiters[s], c) /\ holder'[s] = holder[s]
    BY <1>6 DEF TypeOK
  <2>3. LineOf(k) # << >> /\ LineOf(k)' = Append(LineOf(k), c)
    <3>1. CASE holder[s] = NoSlot
      <4>1. LineOf(k) = << >> \o waiters[s] /\ LineOf(k)' = << >> \o Append(waiters[s], c)
        BY <1>2, <2>1, <2>2, <3>1 DEF LineOf
      <4>2. LineOf(k) = waiters[s] /\ LineOf(k)' = Append(waiters[s], c)
        BY <1>2, <4>1, ConcatEmptySeq, AppendProperties
      <4>. QED
        BY <1>6, <3>1, <4>2 DEF LockFree
    <3>2. CASE holder[s] # NoSlot
      <4>1. /\ LineOf(k) = << holder[s] >> \o waiters[s]
            /\ LineOf(k)' = << holder[s] >> \o Append(waiters[s], c)
        BY <1>2, <2>1, <2>2, <3>2 DEF LineOf
      <4>. QED
        BY <1>2, <3>2, <4>1, FrontLeaves, FrontAppend
    <3>. QED
      BY <3>1, <3>2
  <2>4. theLine[k] = LineOf(k) /\ theLine' = [theLine EXCEPT ![k] = Append(LineOf(k), c)]
    BY <1>4, <2>3, LineBecomes DEF theLine
  <2>5. theInside' = theInside
    BY <1>1, <1>6 DEF theInside, TypeOK
  <2>. QED
    BY <2>3, <2>4, <2>5
<1>. QED
  BY <1>1, <1>5, <1>6

LEMMA WakeRefines ==
  ASSUME TypeOK, LockInvariant, LineInvariant, NEW c \in Call, Wake(c)
  PROVE  \E k \in Key :
           /\ theLine[k] # << >> /\ Head(theLine[k]) = c /\ c \notin theInside
           /\ theInside' = theInside \cup {c}
           /\ theLine' = theLine
<1>0. PICK k \in Key, s \in Call : k = key[c] /\ s = slot[c] /\ slots[k] = s
  BY DEF Wake, LockInvariant, FindsOwnSlot, Attached
<1>1. /\ pc[c] = "queued" /\ holder[s] = NoSlot /\ waiters[s] # << >> /\ Head(waiters[s]) = c
      /\ holder' = [holder EXCEPT ![s] = c]
      /\ waiters' = [waiters EXCEPT ![s] = Tail(@)]
      /\ pc' = [pc EXCEPT ![c] = "inside"]
      /\ UNCHANGED slots
  BY <1>0 DEF Wake
<1>2. slots[k] = s /\ s # NoSlot
  BY <1>0, NoSlotAssumption
<1>3. /\ waiters[s] \in Seq(Call) /\ holder'[s] = c /\ waiters'[s] = Tail(waiters[s])
      /\ \A t \in Call \ {s} : holder'[t] = holder[t] /\ waiters'[t] = waiters[t]
  BY <1>1, <1>2 DEF TypeOK
<1>4. \A l \in Key \ {k} : LineOf(l)' = LineOf(l)
  BY <1>1, <1>2, <1>3, OtherLines
<1>5. LineOf(k) = waiters[s]
  BY <1>1, <1>2, <1>3, ConcatEmptySeq DEF LineOf
<1>6. LineOf(k)' = << c >> \o Tail(waiters[s])
  BY <1>1, <1>2, <1>3, NoSlotAssumption DEF LineOf
<1>7. LineOf(k)' = LineOf(k)
  BY <1>1, <1>3, <1>5, <1>6, HeadInFront
<1>8. theLine' = theLine
  BY <1>4, <1>7 DEF theLine
<1>9. theInside' = theInside \cup {c} /\ c \notin theInside
  BY <1>1 DEF theInside, TypeOK
<1>10. theLine[k] = LineOf(k)
  BY <1>2 DEF theLine
<1>. QED
  BY <1>1, <1>2, <1>5, <1>8, <1>9, <1>10

LEMMA LeaveRefines ==
  ASSUME TypeOK, LockInvariant, LineInvariant, NEW c \in Call, Leave(c)
  PROVE  \E k \in Key :
           /\ theLine[k] # << >> /\ Head(theLine[k]) = c /\ c \in theInside
           /\ theInside' = theInside \ {c}
           /\ theLine' = [theLine EXCEPT ![k] = Tail(@)]
<1>0. PICK k \in Key, s \in Call : k = key[c] /\ s = slot[c] /\ slots[k] = s
  BY DEF Leave, LockInvariant, FindsOwnSlot, Attached
<1> DEFINE w == waiters[s]
<1>1. /\ pc[c] = "inside"
      /\ holder' = [holder EXCEPT ![s] = NoSlot]
      /\ slots' = IF users[s] <= 1 THEN [slots EXCEPT ![k] = NoSlot] ELSE slots
      /\ pc' = [pc EXCEPT ![c] = "done"]
      /\ UNCHANGED waiters
  BY <1>0 DEF Leave, CountOut
<1>2. slots[k] = s /\ s # NoSlot /\ holder[s] = c /\ Attached(c) /\ slot[c] = s
  BY <1>0, <1>1, NoSlotAssumption DEF LockInvariant, InsideHoldsLock, Attached
<1>3. /\ w \in Seq(Call) /\ holder'[s] = NoSlot /\ waiters'[s] = w
      /\ \A t \in Call \ {s} : holder'[t] = holder[t] /\ waiters'[t] = waiters[t]
      /\ \A l \in Key \ {k} : slots'[l] = slots[l]
  BY <1>1, <1>2 DEF TypeOK
<1>4. w # << >> => \E d \in Call : Attached(d) /\ slot[d] = s /\ d # c
  <2> SUFFICES ASSUME w # << >> PROVE \E d \in Call : Attached(d) /\ slot[d] = s /\ d # c
    OBVIOUS
  <2>1. 1 \in DOMAIN w /\ w[1] \in Call
    BY <1>3, EmptySeq, LenProperties, ElementOfSeq
  <2>2. pc[w[1]] = "queued" /\ slot[w[1]] = s
    BY <1>2, <2>1 DEF LineInvariant, WaitersAreQueued
  <2>. QED
    BY <1>1, <2>1, <2>2 DEF Attached
<1>5. users[s] <= 1 => w = << >>
  BY <1>2, <1>4, LastOneOut
<1> HIDE DEF w
<1>6. \A l \in Key \ {k} : LineOf(l)' = LineOf(l)
  BY <1>1, <1>2, <1>3, OtherLines
<1>7. LineOf(k) = << c >> \o w
  BY <1>2, NoSlotAssumption DEF LineOf, w
<1>8. LineOf(k)' = w
  <2>1. CASE users[s] <= 1
    <3>1. slots'[k] = NoSlot
      BY <1>1, <1>2, <2>1 DEF TypeOK
    <3>. QED
      BY <1>5, <2>1, <3>1 DEF LineOf
  <2>2. CASE ~ (users[s] <= 1)
    <3>1. slots'[k] = s
      BY <1>1, <1>2, <2>2
    <3>2. LineOf(k)' = << >> \o w
      BY <1>2, <1>3, <3>1 DEF LineOf
    <3>. QED
      BY <1>3, <3>2, ConcatEmptySeq
  <2>. QED
    BY <2>1, <2>2
<1>9. theLine[k] = LineOf(k)
  BY <1>2 DEF theLine
<1>10. /\ LineOf(k) # << >> /\ Head(LineOf(k)) = c /\ LineOf(k)' = Tail(LineOf(k))
  BY <1>3, <1>7, <1>8, FrontLeaves
<1>11. theLine' = [theLine EXCEPT ![k] = Tail(LineOf(k))]
  BY <1>2, <1>6, <1>10, LineBecomes
<1>12. theInside' = theInside \ {c} /\ c \in theInside
  BY <1>1 DEF theInside, TypeOK
<1>. QED
  BY <1>2, <1>9, <1>10, <1>11, <1>12

LEMMA CancelRefines ==
  ASSUME TypeOK, LockInvariant, LineInvariant, NEW c \in Call, CancelQueued(c)
  PROVE  \E k \in Key :
           /\ c \notin theInside
           /\ \E i \in DOMAIN theLine[k] :
                /\ theLine[k][i] = c
                /\ theLine' = [theLine EXCEPT ![k] = RemoveAt(@, i)]
           /\ theInside' = theInside
<1>0. PICK k \in Key, s \in Call : k = key[c] /\ s = slot[c] /\ slots[k] = s
  BY DEF CancelQueued, LockInvariant, FindsOwnSlot, Attached
<1> DEFINE w == waiters[s]
<1>1. PICK i \in DOMAIN w : w[i] = c /\ waiters' = [waiters EXCEPT ![s] = RemoveAt(@, i)]
  BY <1>0 DEF CancelQueued
<1>2. /\ pc[c] = "queued"
      /\ slots' = IF users[s] <= 1 THEN [slots EXCEPT ![k] = NoSlot] ELSE slots
      /\ pc' = [pc EXCEPT ![c] = "done"]
      /\ UNCHANGED holder
  BY <1>0 DEF CancelQueued, CountOut
<1>3. slots[k] = s /\ s # NoSlot /\ Attached(c) /\ slot[c] = s
  BY <1>0, <1>2, NoSlotAssumption DEF Attached
<1>4. /\ w \in Seq(Call) /\ holder[s] \in Call \cup {NoSlot} /\ waiters'[s] = RemoveAt(w, i)
      /\ \A t \in Call \ {s} : holder'[t] = holder[t] /\ waiters'[t] = waiters[t]
      /\ \A l \in Key \ {k} : slots'[l] = slots[l]
  BY <1>1, <1>2, <1>3 DEF TypeOK
<1>5. \A j \in DOMAIN w : w[j] \in Call /\ Attached(w[j]) /\ slot[w[j]] = s
  BY <1>3, <1>4, LenProperties, ElementOfSeq DEF LineInvariant, WaitersAreQueued, Attached
<1>6. \A j \in DOMAIN w : w[j] = c => j = i
  BY <1>1, <1>3 DEF LineInvariant, WaitsOnce
<1>7. users[s] <= 1 => holder[s] = NoSlot /\ RemoveAt(w, i) = << >>
  <2> SUFFICES ASSUME users[s] <= 1 PROVE holder[s] = NoSlot /\ RemoveAt(w, i) = << >>
    OBVIOUS
  <2>1. holder[s] = NoSlot
    <3> SUFFICES ASSUME holder[s] # NoSlot PROVE FALSE
      OBVIOUS
    <3>1. holder[s] \in Call /\ pc[holder[s]] = "inside" /\ slot[holder[s]] = s
      BY <1>3, <1>4 DEF LineInvariant, HolderIsInside
    <3>2. holder[s] = c
      BY <1>3, <3>1, LastOneOut DEF Attached
    <3>. QED
      BY <1>2, <3>1, <3>2
  <2>2. \A j \in DOMAIN w : w[j] = c
    BY <1>3, <1>5, LastOneOut
  <2>3. DOMAIN w = 1 .. Len(w) /\ Len(w) \in Nat /\ Len(w) # 0
    BY <1>1, <1>4, LenProperties
  <2>4. Len(w) = 1
    <3>1. 1 \in DOMAIN w /\ Len(w) \in DOMAIN w
      BY <2>3
    <3>. QED
      BY <1>6, <2>2, <3>1
  <2>5. RemoveAt(w, i) \in Seq(Call) /\ Len(RemoveAt(w, i)) = 0
    BY <1>1, <1>4, <2>4, RemoveAtElements
  <2>6. RemoveAt(w, i) = << >>
    BY <2>5, EmptySeq
  <2>. QED
    BY <2>1, <2>6
<1> HIDE DEF w
<1>8. \A l \in Key \ {k} : LineOf(l)' = LineOf(l)
  BY <1>2, <1>3, <1>4, OtherLines
<1>9. theLine[k] = LineOf(k)
  BY <1>3 DEF theLine
<1>10. \E j \in DOMAIN LineOf(k) : LineOf(k)[j] = c /\ LineOf(k)' = RemoveAt(LineOf(k), j)
  <2>1. CASE holder[s] = NoSlot
    <3>1. LineOf(k) = << >> \o w
      BY <1>3, <2>1 DEF LineOf, w
    <3>2. LineOf(k) = w
      BY <1>4, <3>1, ConcatEmptySeq
    <3>3. LineOf(k)' = RemoveAt(w, i)
      <4>1. CASE users[s] <= 1
        <5>1. slots'[k] = NoSlot
          BY <1>2, <1>3, <4>1 DEF TypeOK
        <5>. QED
          BY <1>7, <4>1, <5>1 DEF LineOf
      <4>2. CASE ~ (users[s] <= 1)
        <5>1. slots'[k] = s /\ holder'[s] = NoSlot
          BY <1>2, <1>3, <2>1, <4>2
        <5>2. LineOf(k)' = << >> \o RemoveAt(w, i)
          BY <1>3, <1>4, <5>1 DEF LineOf
        <5>. QED
          BY <1>4, <5>2, ConcatEmptySeq, RemoveAtElements
      <4>. QED
        BY <4>1, <4>2
    <3>. QED
      BY <1>1, <3>2, <3>3
  <2>2. CASE holder[s] # NoSlot
    <3>1. slots'[k] = s /\ holder'[s] = holder[s]
      BY <1>2, <1>3, <1>7, <2>2
    <3>2. LineOf(k) = << holder[s] >> \o w
      BY <1>3, <2>2 DEF LineOf, w
    <3>3. LineOf(k)' = << holder[s] >> \o RemoveAt(w, i)
      BY <1>3, <1>4, <2>2, <3>1 DEF LineOf
    <3>4. w \in Seq(Call) /\ holder[s] \in Call /\ i \in DOMAIN w
      BY <1>1, <1>4, <2>2
    <3>5. /\ i + 1 \in DOMAIN LineOf(k) /\ LineOf(k)[i + 1] = w[i]
          /\ RemoveAt(LineOf(k), i + 1) = << holder[s] >> \o RemoveAt(w, i)
      <4> DEFINE d == holder[s]
      <4>1. d \in Call
        BY <3>4
      <4> HIDE DEF d
      <4>2. /\ i + 1 \in DOMAIN (<< d >> \o w) /\ (<< d >> \o w)[i + 1] = w[i]
            /\ RemoveAt(<< d >> \o w, i + 1) = << d >> \o RemoveAt(w, i)
        BY <3>4, <4>1, FrontRemoveAt
      <4>. QED
        BY <3>2, <4>2 DEF d
    <3>. QED
      BY <1>1, <3>3, <3>5
  <2>. QED
    BY <2>1, <2>2
<1>11. PICK j \in DOMAIN LineOf(k) : LineOf(k)[j] = c /\ LineOf(k)' = RemoveAt(LineOf(k), j)
  BY <1>10
<1>12. theLine' = [theLine EXCEPT ![k] = RemoveAt(LineOf(k), j)]
  BY <1>3, <1>8, <1>11, LineBecomes
<1>13. theInside' = theInside /\ c \notin theInside
  BY <1>2 DEF theInside, TypeOK
<1>. QED
  BY <1>3, <1>9, <1>11, <1>12, <1>13

(* Somebody who has not arrived is in no line. *)
LEMMA IdleNotInLine ==
  ASSUME TypeOK, LockInvariant, LineInvariant, NEW c \in Call, pc[c] = "idle"
  PROVE  ~ \E k \in Key : c \in ToSet(theLine[k])
<1> SUFFICES ASSUME NEW k \in Key, NEW i \in DOMAIN LineOf(k), c = LineOf(k)[i]
             PROVE  FALSE
  BY DEF theLine, ToSet
<1>. QED
  BY LineMembers DEF Attached

(* For any number of calls, APs and devices, the slots, their users counts *)
(* and their asyncio locks implement one first-come-first-served line per  *)
(* key: no call overtakes another, and one that is cancelled while it waits*)
(* leaves the order of the others as it was.                               *)
THEOREM LocksAreLines == Spec => ImplementsKeyedQueue
<1>1. Init => Queue!Init
  <2>1. ASSUME Init, NEW k \in Key
        PROVE  LineOf(k) = << >>
    BY <2>1 DEF Init, LineOf
  <2>2. Init => {c \in Call : pc[c] = "inside"} = {}
    BY DEF Init
  <2>. QED
    BY <2>1, <2>2 DEF Queue!Init
<1>2. TypeOK /\ LockInvariant /\ LineInvariant /\ [Next]_vars => [Queue!Next]_(Queue!vars)
  <2> SUFFICES ASSUME TypeOK, LockInvariant, LineInvariant, [Next]_vars
               PROVE  [Queue!Next]_(Queue!vars)
    OBVIOUS
  <2>1. ASSUME NEW c \in Call, NEW k \in Key, Arrive(c, k)
        PROVE  Queue!Next
    <3>1. pc[c] = "idle"
      BY <2>1 DEF Arrive
    <3>2. ~ Queue!InLine(c)
      BY <3>1, IdleNotInLine DEF Queue!InLine, Queue!ToSet, theLine, ToSet
    <3>3. Queue!ArriveAtEmpty(c, k) \/ Queue!ArriveBehind(c, k)
      BY <2>1, <3>2, ArriveRefines DEF Queue!ArriveAtEmpty, Queue!ArriveBehind, theLine, theInside
    <3>. QED
      BY <3>3 DEF Queue!Next
  <2>2. ASSUME NEW c \in Call, Wake(c)
        PROVE  Queue!Next
    <3>1. \E k \in Key : Queue!Enter(c, k)
      BY <2>2, WakeRefines DEF Queue!Enter, theLine, theInside
    <3>. QED
      BY <3>1 DEF Queue!Next
  <2>3. ASSUME NEW c \in Call, Leave(c)
        PROVE  Queue!Next
    <3>1. \E k \in Key : Queue!Leave(c, k)
      BY <2>3, LeaveRefines DEF Queue!Leave, theLine, theInside
    <3>. QED
      BY <3>1 DEF Queue!Next
  <2>4. ASSUME NEW c \in Call, CancelQueued(c)
        PROVE  Queue!Next
    <3>1. \E k \in Key : Queue!Abandon(c, k)
      BY <2>4, CancelRefines DEF Queue!Abandon, Queue!RemoveAt, RemoveAt, theLine, theInside
    <3>. QED
      BY <3>1 DEF Queue!Next
  <2>5. CASE UNCHANGED vars
    BY <2>5 DEF vars, Queue!vars, LineOf
  <2>. QED
    BY <2>1, <2>2, <2>3, <2>4, <2>5, NextByKey
<1>. QED
  BY <1>1, <1>2, LinesInvariant, PTL DEF Spec, Queue!Spec, ImplementsKeyedQueue

=============================================================================
