------------------------ MODULE NotificationsProofs ------------------------
(***************************************************************************)
(* Proofs about Notifications, for any number of clients, services and     *)
(* timers: no subscription survives its session, a disable is never        *)
(* awaited while somebody listens, what nobody listens to is followed up,  *)
(* and what counts as enabled is on at the AP.                             *)
(***************************************************************************)
EXTENDS Notifications, SequenceFacts, FiniteSetTheorems

(* The index of services and the counter agree with the callbacks. *)
Sound(b) ==
  /\ b \in Books
  /\ b.tracked = {s \in Service : Listened(b, s)}
  /\ b.count = Total(b)

Calls ==
  [at : {"idle", "starting", "enabling", "stopping"},
   service : Service \cup {NoService}, kept : {"none", "runtime", "local"}]

Tasks ==
  [at : {"none", "created", "queued", "disabling", "cancelled"}, service : Service \cup {NoService}]

ShapeOK ==
  /\ Sound(books)
  /\ client \in [Client -> Calls]
  /\ task \in [Timer -> Tasks]
  /\ \A t \in Timer : task[t].at # "none" => task[t].service \in Service
  /\ connected \subseteq Client
  /\ line \in Seq(Caller)

(* What a client keeps fits what it does; a callback in the dictionaries   *)
(* is the one its client keeps, and one that came by a start is kept in a  *)
(* session.  A start registers only because nothing is kept before it.     *)
KeptFits ==
  \A c \in Client :
    /\ client[c].at \in {"starting", "enabling"} => client[c].kept = "none"
    /\ client[c].at = "stopping" => client[c].kept \in {"none", "runtime"}
    /\ client[c].at # "idle" \/ client[c].kept # "none" => client[c].service \in Service

CallbacksKept ==
  \A c \in Client, s \in Service : c \in books.callbacks[s] =>
    /\ client[c].service = s
    /\ \/ client[c].kept = "local"
       \/ client[c].kept = "runtime" /\ c \in connected /\ active

NotificationInvariant ==
  /\ ShapeOK
  /\ KeptFits
  /\ CallbacksKept
  /\ DisablesOnlyUnheard

-----------------------------------------------------------------------------
(* What the operations on the dictionaries do to the callbacks *)

(* Operations that concern the timers and the keys only. *)
LEMMA SameCallbacks ==
  ASSUME NEW b, Sound(b), NEW d \in Books,
         d.callbacks = b.callbacks, d.tracked = b.tracked, d.count = b.count
  PROVE  Sound(d)
BY DEF Sound, Listened, Total

LEMMA TimersDropped ==
  ASSUME NEW b, Sound(b), NEW s \in Service
  PROVE  /\ Sound(WithoutTimer(b, s)) /\ WithoutTimer(b, s).callbacks = b.callbacks
         /\ Sound(Cancelled(b)) /\ Cancelled(b).callbacks = b.callbacks
         /\ Sound(Popped(b, s)) /\ Popped(b, s).callbacks = b.callbacks
         /\ Sound(Settled(b, s)) /\ Settled(b, s).callbacks = b.callbacks
<1>0. b \in Books
  BY DEF Sound
<1>1. Sound(WithoutTimer(b, s)) /\ WithoutTimer(b, s).callbacks = b.callbacks
  <2>1. /\ WithoutTimer(b, s) \in Books
        /\ WithoutTimer(b, s).callbacks = b.callbacks
        /\ WithoutTimer(b, s).tracked = b.tracked /\ WithoutTimer(b, s).count = b.count
    BY <1>0 DEF Books, WithoutTimer
  <2> QED
    BY <2>1, SameCallbacks
<1>2. Sound(Cancelled(b)) /\ Cancelled(b).callbacks = b.callbacks
  <2>1. /\ Cancelled(b) \in Books /\ Cancelled(b).callbacks = b.callbacks
        /\ Cancelled(b).tracked = b.tracked /\ Cancelled(b).count = b.count
    BY <1>0 DEF Books, Cancelled
  <2> QED
    BY <2>1, SameCallbacks
<1>3. Sound(Popped(b, s)) /\ Popped(b, s).callbacks = b.callbacks
  <2>1. /\ Popped(b, s) \in Books /\ Popped(b, s).callbacks = b.callbacks
        /\ Popped(b, s).tracked = b.tracked /\ Popped(b, s).count = b.count
    BY <1>0 DEF Books, Popped
  <2> QED
    BY <2>1, SameCallbacks
<1>4. Sound(Settled(b, s)) /\ Settled(b, s).callbacks = b.callbacks
  <2>1. /\ Settled(b, s) \in Books /\ Settled(b, s).callbacks = b.callbacks
        /\ Settled(b, s).tracked = b.tracked /\ Settled(b, s).count = b.count
    BY <1>0 DEF Books, Settled
  <2> QED
    BY <2>1, SameCallbacks
<1> QED
  BY <1>1, <1>2, <1>3, <1>4

LEMMA TimerArmed ==
  ASSUME NEW b, Sound(b), NEW s \in Service, NEW t \in Timer
  PROVE  Sound(Armed(b, t, s)) /\ Armed(b, t, s).callbacks = b.callbacks
<1> DEFINE w == WithoutTimer(b, s)
<1>1. Sound(w) /\ w.callbacks = b.callbacks
  BY TimersDropped
<1> HIDE DEF w
<1>2. w \in Books
  BY <1>1 DEF Sound
<1>3. /\ Armed(b, t, s) \in Books /\ Armed(b, t, s).callbacks = w.callbacks
      /\ Armed(b, t, s).tracked = w.tracked /\ Armed(b, t, s).count = w.count
  <2> DEFINE p == [w.pending EXCEPT ![s] = t]
             a == [w.armed EXCEPT ![t] = s]
  <2>1. Armed(b, t, s) = [w EXCEPT !.pending = p, !.armed = a]
    BY DEF Armed, w
  <2>2. p \in [Service -> Timer \cup {NoTimer}] /\ a \in [Timer -> Service \cup {NoService}]
    BY <1>2 DEF Books
  <2> HIDE DEF p, a
  <2> DEFINE d == Armed(b, t, s)
  <2>3. d = [w EXCEPT !.pending = p, !.armed = a]
    BY <2>1
  <2> HIDE DEF d
  <2>4. d \in Books /\ d.callbacks = w.callbacks /\ d.tracked = w.tracked /\ d.count = w.count
    BY <1>2, <2>2, <2>3 DEF Books
  <2> QED
    BY <2>4 DEF d
<1> QED
  BY <1>1, <1>3, SameCallbacks

(* The keys that count as enabled are of no concern here. *)
LEMMA KeysSet ==
  ASSUME NEW b, Sound(b), NEW keys \in SUBSET Service
  PROVE  /\ Sound([b EXCEPT !.enabled = keys])
         /\ [b EXCEPT !.enabled = keys].callbacks = b.callbacks
<1>1. /\ [b EXCEPT !.enabled = keys] \in Books
      /\ [b EXCEPT !.enabled = keys].callbacks = b.callbacks
      /\ [b EXCEPT !.enabled = keys].tracked = b.tracked
      /\ [b EXCEPT !.enabled = keys].count = b.count
  BY DEF Sound, Books
<1> QED
  BY <1>1, SameCallbacks

Registrations(b) == {r \in Client \X Service : r[1] \in b.callbacks[r[2]]}

LEMMA RegistrationsFinite ==
  ASSUME NEW b
  PROVE  IsFiniteSet(Registrations(b)) /\ Cardinality(Registrations(b)) \in Nat
<1>1. IsFiniteSet(Client \X Service)
  BY FiniteAssumption, FS_Product
<1>2. Registrations(b) \subseteq Client \X Service
  BY DEF Registrations
<1>3. IsFiniteSet(Registrations(b))
  BY <1>1, <1>2, FS_Subset
<1> QED
  BY <1>3, FS_CardinalityType

LEMMA CallbackAdded ==
  ASSUME NEW b, Sound(b), NEW c \in Client, NEW s \in Service, c \notin b.callbacks[s]
  PROVE  /\ Sound(Registered(b, c, s))
         /\ Registered(b, c, s).callbacks = [b.callbacks EXCEPT ![s] = @ \cup {c}]
<1> DEFINE d == Registered(b, c, s)
<1>1. b \in Books /\ b.count \in Nat /\ b.callbacks \in [Service -> SUBSET Client]
  BY DEF Sound, Books
<1>2. /\ d \in Books
      /\ d.callbacks = [b.callbacks EXCEPT ![s] = @ \cup {c}]
      /\ d.tracked = b.tracked \cup {s}
      /\ d.count = b.count + 1
  <2> DEFINE f == [b.callbacks EXCEPT ![s] = @ \cup {c}]
             index == b.tracked \cup {s}
             n == b.count + 1
  <2>1. d = [b EXCEPT !.callbacks = f, !.tracked = index, !.count = n]
    BY DEF Registered
  <2>2. f \in [Service -> SUBSET Client] /\ index \in SUBSET Service /\ n \in Nat
    BY <1>1 DEF Books
  <2> HIDE DEF d, f, index, n
  <2>3. d \in Books /\ d.callbacks = f /\ d.tracked = index /\ d.count = n
    BY <1>1, <2>1, <2>2 DEF Books
  <2> QED
    BY <2>3 DEF f, index, n
<1> HIDE DEF d
<1>3. d.tracked = {u \in Service : Listened(d, u)}
  BY <1>1, <1>2 DEF Sound, Listened
<1>4. Registrations(d) = Registrations(b) \cup {<< c, s >>} /\ << c, s >> \notin Registrations(b)
  BY <1>1, <1>2 DEF Registrations
<1>5. Cardinality(Registrations(d)) = Cardinality(Registrations(b)) + 1
  BY <1>4, RegistrationsFinite, FS_AddElement
<1>6. d.count = Total(d)
  BY <1>2, <1>5 DEF Sound, Total, Registrations
<1> QED
  BY <1>2, <1>3, <1>6 DEF Sound, d

LEMMA CallbackRemoved ==
  ASSUME NEW b, Sound(b), NEW c \in Client, NEW s \in Service, c \in b.callbacks[s]
  PROVE  /\ Sound(Removed(b, c, s))
         /\ Removed(b, c, s).callbacks = [b.callbacks EXCEPT ![s] = @ \ {c}]
<1> DEFINE d == Removed(b, c, s)
<1>1. b \in Books /\ b.count \in Nat /\ b.callbacks \in [Service -> SUBSET Client]
  BY DEF Sound, Books
<1>2. /\ d \in Books
      /\ d.callbacks = [b.callbacks EXCEPT ![s] = @ \ {c}]
      /\ d.tracked = IF b.callbacks[s] = {c} THEN b.tracked \ {s} ELSE b.tracked
      /\ d.count = Less(b.count, 1)
  <2> DEFINE f == [b.callbacks EXCEPT ![s] = @ \ {c}]
             index == IF b.callbacks[s] = {c} THEN b.tracked \ {s} ELSE b.tracked
             n == Less(b.count, 1)
  <2>1. d = [b EXCEPT !.callbacks = f, !.tracked = index, !.count = n]
    BY DEF Removed
  <2>2. f \in [Service -> SUBSET Client]
    BY <1>1
  <2>3. index \in SUBSET Service
    BY <1>1 DEF Books
  <2>4. n \in Nat
    BY <1>1 DEF Less
  <2> HIDE DEF d, f, index, n
  <2>5. d \in Books /\ d.callbacks = f /\ d.tracked = index /\ d.count = n
    BY <1>1, <2>1, <2>2, <2>3, <2>4 DEF Books
  <2> QED
    BY <2>5 DEF f, index, n
<1> HIDE DEF d
<1>3. d.tracked = {u \in Service : Listened(d, u)}
  <2>1. \A u \in Service : Listened(d, u) <=>
          Listened(b, u) /\ ~ (u = s /\ b.callbacks[s] = {c})
    BY <1>1, <1>2 DEF Listened
  <2> QED
    BY <1>2, <2>1 DEF Sound
<1>4. Registrations(d) = Registrations(b) \ {<< c, s >>} /\ << c, s >> \in Registrations(b)
  BY <1>1, <1>2 DEF Registrations
<1>5. Cardinality(Registrations(d)) = Cardinality(Registrations(b)) - 1
  BY <1>4, RegistrationsFinite, FS_RemoveElement
<1>6. /\ b.count = Cardinality(Registrations(b)) /\ Cardinality(Registrations(d)) \in Nat
      /\ Cardinality(Registrations(b)) \in Nat
  BY RegistrationsFinite DEF Sound, Total, Registrations
<1>7. d.count = Total(d)
  BY <1>2, <1>5, <1>6 DEF Total, Registrations, Less
<1> QED
  BY <1>2, <1>3, <1>7 DEF Sound, d

LEMMA CallbackForgotten ==
  ASSUME NEW b, Sound(b), NEW c \in Client, NEW s \in Service
  PROVE  /\ Sound(Forgotten(b, c, s))
         /\ Forgotten(b, c, s).callbacks = [b.callbacks EXCEPT ![s] = @ \ {c}]
<1> DEFINE r == Removed(b, c, s)
           w == WithoutTimer(r, s)
<1>1. CASE c \notin b.callbacks[s]
  <2>1. b.callbacks = [b.callbacks EXCEPT ![s] = @ \ {c}]
    BY <1>1 DEF Sound, Books
  <2> QED
    BY <1>1, <2>1 DEF Forgotten
<1>2. CASE c \in b.callbacks[s]
  <2>1. Sound(r) /\ r.callbacks = [b.callbacks EXCEPT ![s] = @ \ {c}]
    BY <1>2, CallbackRemoved
  <2> HIDE DEF r
  <2>2. Sound(w) /\ w.callbacks = r.callbacks
    BY <2>1, TimersDropped
  <2> HIDE DEF w
  <2>3. w.enabled \ {s} \in SUBSET Service
    BY <2>2 DEF Sound, Books
  <2>4. /\ Sound([w EXCEPT !.enabled = @ \ {s}])
        /\ [w EXCEPT !.enabled = @ \ {s}].callbacks = w.callbacks
    BY <2>2, <2>3, KeysSet
  <2> QED
    BY <1>2, <2>1, <2>2, <2>4 DEF Forgotten, r, w
<1> QED
  BY <1>1, <1>2

LEMMA CallbacksCleared ==
  ASSUME NEW b, Sound(b)
  PROVE  /\ Sound(DeviceForgotten(b))
         /\ \A s \in Service : DeviceForgotten(b).callbacks[s] = {}
<1> DEFINE k == Cancelled(b)
           d == DeviceForgotten(b)
<1>1. k \in Books /\ k.count = b.count /\ b.count = Total(b) /\ Total(b) \in Nat
  BY RegistrationsFinite DEF Sound, Books, Cancelled, Total, Registrations
<1> HIDE DEF k
<1>2. /\ d \in Books /\ d.callbacks = [s \in Service |-> {}]
      /\ d.tracked = {} /\ d.count = 0
  <2>1. d = [k EXCEPT !.callbacks = [s \in Service |-> {}], !.tracked = {},
                      !.enabled = {}, !.count = Less(@, Total(b))]
    BY DEF DeviceForgotten, k
  <2>2. Less(k.count, Total(b)) = 0
    BY <1>1 DEF Less
  <2>3. [s \in Service |-> {}] \in [Service -> SUBSET Client]
    OBVIOUS
  <2>4. d = [k EXCEPT !.callbacks = [s \in Service |-> {}], !.tracked = {},
                      !.enabled = {}, !.count = 0]
    BY <2>1, <2>2
  <2> HIDE DEF d
  <2> QED
    BY <1>1, <2>3, <2>4 DEF Books
<1> HIDE DEF d
<1>3. d.tracked = {s \in Service : Listened(d, s)}
  BY <1>2 DEF Listened
<1>4. Registrations(d) = {}
  BY <1>2 DEF Registrations
<1>5. Total(d) = 0
  BY <1>4, FS_EmptySet DEF Total, Registrations
<1> QED
  BY <1>2, <1>3, <1>5 DEF Sound, d

-----------------------------------------------------------------------------
(* Steps of a client *)

NobodyDisables == \A t \in Timer : task[t].at # "disabling"

(* A disable that is awaited heads the line, so nobody else has the lock.  *)
LEMMA LockHeld ==
  ASSUME NotificationInvariant, NEW x \in Caller, line = << >> \/ Heads(x)
  PROVE  \A t \in Timer \ {x} : task[t].at # "disabling"
BY DEF NotificationInvariant, DisablesOnlyUnheard, Heads

LEMMA ClientHoldsLock ==
  ASSUME NotificationInvariant, NEW c \in Client, line = << >> \/ Heads(c)
  PROVE  NobodyDisables
<1>1. c \in Caller /\ c \notin Timer
  BY NullAssumption DEF Caller
<1> QED
  BY <1>1, LockHeld DEF NobodyDisables

LEMMA LineBehind ==
  ASSUME NotificationInvariant, NEW x, Heads(x)
  PROVE  Tail(line) \in Seq(Caller)
BY HeadTailProperties DEF NotificationInvariant, ShapeOK, Heads

LEMMA NothingKept ==
  ASSUME NotificationInvariant, NEW c \in Client, client[c].kept = "none", NEW s \in Service
  PROVE  c \notin books.callbacks[s]
BY DEF NotificationInvariant, CallbacksKept

(* The step of client c leaves it with `call`, and adds no other callback. *)
LEMMA ClientMoves ==
  ASSUME NotificationInvariant, NEW c \in Client, NEW call \in Calls,
         Sound(books)', client' = [client EXCEPT ![c] = call],
         connected' \subseteq Client, line' \in Seq(Caller), task' = task,
         \A e \in Client \ {c} : e \in connected /\ active => e \in connected' /\ active',
         \A e \in Client \ {c}, s \in Service :
           e \in books'.callbacks[s] => e \in books.callbacks[s],
         \A s \in Service : c \in books'.callbacks[s] =>
           /\ call.service = s
           /\ call.kept = "local" \/ (call.kept = "runtime" /\ c \in connected' /\ active'),
         call.at \in {"starting", "enabling"} => call.kept = "none",
         call.at = "stopping" => call.kept \in {"none", "runtime"},
         call.at # "idle" \/ call.kept # "none" => call.service \in Service
  PROVE  ShapeOK' /\ KeptFits' /\ CallbacksKept'
<1> USE DEF NotificationInvariant
<1>1. client \in [Client -> Calls] /\ client'[c] = call
      /\ \A e \in Client \ {c} : client'[e] = client[e]
  BY DEF ShapeOK
<1>2. ShapeOK'
  BY <1>1 DEF ShapeOK
<1>3. KeptFits'
  BY <1>1 DEF KeptFits
<1>4. CallbacksKept'
  BY <1>1 DEF CallbacksKept
<1> QED
  BY <1>2, <1>3, <1>4

(* Whoever has the lock may listen again; all others only cease to.        *)
LEMMA UnheardByLock ==
  ASSUME task' = task, NobodyDisables
  PROVE  DisablesOnlyUnheard'
BY DEF DisablesOnlyUnheard, NobodyDisables

LEMMA UnheardByShrinking ==
  ASSUME NotificationInvariant, task' = task,
         line # << >> => line' # << >> /\ Head(line') = Head(line),
         \A s \in Service : books'.callbacks[s] \subseteq books.callbacks[s]
  PROVE  DisablesOnlyUnheard'
BY DEF NotificationInvariant, ShapeOK, DisablesOnlyUnheard, Heads, Listened

LEMMA NoCallIsCall == NoCall \in Calls /\ NoCall.at = "idle" /\ NoCall.kept = "none"
BY DEF NoCall, Calls

(* A client that kept nothing goes on with the same dictionaries.          *)
LEMMA ReturnsStep ==
  ASSUME NotificationInvariant, NEW c \in Client, client[c].kept = "none",
         line = << >> \/ Heads(c), Returns(c), line' \in Seq(Caller),
         Sound(books)', books'.callbacks = books.callbacks,
         UNCHANGED << task, connected, active >>
  PROVE  NotificationInvariant'
<1>1. \A s \in Service : c \notin books'.callbacks[s]
  BY NothingKept
<1>2. connected' \subseteq Client
  BY DEF NotificationInvariant, ShapeOK
<1>3. ShapeOK' /\ KeptFits' /\ CallbacksKept'
  BY <1>1, <1>2, NoCallIsCall, ClientMoves DEF Returns
<1>4. DisablesOnlyUnheard'
  BY ClientHoldsLock, UnheardByLock
<1> QED
  BY <1>3, <1>4 DEF NotificationInvariant

(* A client that kept nothing becomes the listener it has been made.       *)
LEMMA SubscribesStep ==
  ASSUME NotificationInvariant, NEW c \in Client, NEW s \in Service,
         client[c].kept = "none", line = << >> \/ Heads(c), line' \in Seq(Caller),
         NEW b, Sound(b), b.callbacks = [books.callbacks EXCEPT ![s] = @ \cup {c}],
         Subscribes(c, s, b), UNCHANGED << task, connected, active >>
  PROVE  NotificationInvariant'
<1> DEFINE call == [at |-> "idle", service |-> s, kept |-> "runtime"]
<1>1. books.callbacks \in [Service -> SUBSET Client] /\ connected' \subseteq Client
  BY DEF NotificationInvariant, ShapeOK, Sound, Books
<1>2. \A u \in Service : c \notin books.callbacks[u]
  BY NothingKept
<1>3. call \in Calls
  BY DEF Calls
<1>4. CASE c \in connected /\ active
  <2>1. books' = b /\ client' = [client EXCEPT ![c] = call]
    BY <1>4 DEF Subscribes, Becomes
  <2>2. Sound(books)'
    BY <2>1 DEF Sound, Listened, Total
  <2>3. \A e \in Client, u \in Service : e \in books'.callbacks[u] =>
          e \in books.callbacks[u] \/ (e = c /\ u = s)
    BY <2>1, <1>1
  <2>6. call.at = "idle" /\ call.kept = "runtime" /\ call.service = s
    OBVIOUS
  <2> HIDE DEF call
  <2>7. /\ \A e \in Client \ {c}, u \in Service :
             e \in books'.callbacks[u] => e \in books.callbacks[u]
        /\ \A u \in Service : c \in books'.callbacks[u] => u = s
    BY <1>2, <2>3
  <2>4. ShapeOK' /\ KeptFits' /\ CallbacksKept'
    BY <1>1, <1>3, <1>4, <2>1, <2>2, <2>6, <2>7, ClientMoves
  <2>5. DisablesOnlyUnheard'
    BY ClientHoldsLock, UnheardByLock
  <2> QED
    BY <2>4, <2>5 DEF NotificationInvariant
<1>5. CASE ~ (c \in connected /\ active)
  <2>1. books' = Forgotten(b, c, s) /\ Returns(c)
    BY <1>5 DEF Subscribes
  <2>2. /\ Sound(Forgotten(b, c, s))
        /\ Forgotten(b, c, s).callbacks = [b.callbacks EXCEPT ![s] = @ \ {c}]
    BY CallbackForgotten, SMTT(30)
  <2>3. Sound(books)' /\ books'.callbacks = books.callbacks
    BY <1>1, <1>2, <2>1, <2>2 DEF Sound, Listened, Total
  <2> QED
    BY <2>1, <2>3, ReturnsStep
<1> QED
  BY <1>4, <1>5

LEMMA StartBodyStep ==
  ASSUME NotificationInvariant, NEW c \in Client, NEW s \in Service,
         client[c].kept = "none", line = << >> \/ Heads(c),
         NEW rest \in Seq(Caller), StartBody(c, s, rest),
         UNCHANGED << task, connected, active >>
  PROVE  NotificationInvariant'
<1> DEFINE b == WithoutTimer(books, s)
           call == [at |-> "enabling", service |-> s, kept |-> "none"]
<1>1. Sound(b) /\ b.callbacks = books.callbacks
  BY TimersDropped DEF NotificationInvariant, ShapeOK
<1>2. c \notin b.callbacks[s]
  BY <1>1, NothingKept
<1>3. CASE Subscribes(c, s, Registered(b, c, s)) /\ line' = rest
  <2>1. /\ Sound(Registered(b, c, s))
        /\ Registered(b, c, s).callbacks = [books.callbacks EXCEPT ![s] = @ \cup {c}]
    BY <1>1, <1>2, CallbackAdded
  <2> QED
    BY <1>3, <2>1, SubscribesStep
<1>4. CASE books' = b /\ Becomes(c, "enabling", s, "none") /\ line' = << c >> \o rest
  <2>1. Sound(books)' /\ books'.callbacks = books.callbacks
    BY <1>1, <1>4 DEF Sound, Listened, Total
  <2>2. client' = [client EXCEPT ![c] = call] /\ call \in Calls
    BY <1>4 DEF Becomes, Calls
  <2>3. << c >> \o rest \in Seq(Caller)
    BY DEF Caller
  <2>4. \A u \in Service : c \notin books'.callbacks[u]
    BY <2>1, NothingKept
  <2>5. connected' \subseteq Client
    BY DEF NotificationInvariant, ShapeOK
  <2>6. ShapeOK' /\ KeptFits' /\ CallbacksKept'
    BY <1>4, <2>1, <2>2, <2>3, <2>4, <2>5, ClientMoves
  <2>7. DisablesOnlyUnheard'
    BY ClientHoldsLock, UnheardByLock
  <2> QED
    BY <2>6, <2>7 DEF NotificationInvariant
<1>5. CASE books' = b /\ Returns(c) /\ line' = rest
  <2>1. Sound(books)' /\ books'.callbacks = books.callbacks
    BY <1>1, <1>5 DEF Sound, Listened, Total
  <2> QED
    BY <1>5, <2>1, ReturnsStep
<1> QED
  BY <1>3, <1>4, <1>5 DEF StartBody

LEMMA StartStep ==
  ASSUME NotificationInvariant, NEW c \in Client, NEW s \in Service, Start(c, s)
  PROVE  NotificationInvariant'
<1> DEFINE call == [at |-> "starting", service |-> s, kept |-> "none"]
<1>1. /\ client[c].kept = "none" /\ UNCHANGED << task, connected, active >>
      /\ c \in Caller /\ line \in Seq(Caller) /\ connected \subseteq Client
  BY DEF Start, Caller, NotificationInvariant, ShapeOK
<1>2. CASE line = << >> /\ StartBody(c, s, << >>)
  <2>1. << >> \in Seq(Caller)
    OBVIOUS
  <2> QED
    BY <1>1, <1>2, <2>1, StartBodyStep
<1>3. CASE /\ line # << >> /\ Becomes(c, "starting", s, "none")
           /\ line' = Append(line, c) /\ UNCHANGED books
  <2>1. /\ line' \in Seq(Caller) /\ line' # << >> /\ Head(line') = Head(line)
    BY <1>1, <1>3, AppendProperties, HeadTailProperties, EmptySeq
  <2>2. client' = [client EXCEPT ![c] = call] /\ call \in Calls
    BY <1>3 DEF Becomes, Calls
  <2>3. Sound(books)'
    BY <1>3 DEF NotificationInvariant, ShapeOK, Sound, Listened, Total
  <2>4. \A u \in Service : c \notin books'.callbacks[u]
    BY <1>1, <1>3, NothingKept
  <2>5. ShapeOK' /\ KeptFits' /\ CallbacksKept'
    BY <1>1, <1>3, <2>1, <2>2, <2>3, <2>4, ClientMoves
  <2>6. DisablesOnlyUnheard'
    BY <1>1, <1>3, <2>1, UnheardByShrinking
  <2> QED
    BY <2>5, <2>6 DEF NotificationInvariant
<1> QED
  BY <1>2, <1>3 DEF Start

(* The head of the line acts on its answer, or gives up.                   *)
LEMMA AnswerStep ==
  ASSUME NotificationInvariant, NEW c \in Client,
         \/ ResumeStart(c) \/ Enabled(c) \/ ListensLocally(c) \/ EnableRefused(c)
         \/ StartTimesOut(c)
  PROVE  NotificationInvariant'
<1> DEFINE s == client[c].service
<1>1. /\ Heads(c) /\ client[c].at \in {"starting", "enabling"}
      /\ UNCHANGED << task, connected, active >>
  BY DEF ResumeStart, Enabled, ListensLocally, EnableRefused, StartTimesOut
<1>2. client[c].kept = "none" /\ s \in Service
  BY <1>1 DEF NotificationInvariant, KeptFits
<1>3. Tail(line) \in Seq(Caller)
  BY <1>1, LineBehind
<1>4. Sound(books) /\ c \notin books.callbacks[s] /\ connected' \subseteq Client
  BY <1>1, <1>2, NothingKept DEF NotificationInvariant, ShapeOK
<1>5. /\ Sound(Registered(books, c, s))
      /\ Registered(books, c, s).callbacks = [books.callbacks EXCEPT ![s] = @ \cup {c}]
  BY <1>2, <1>4, CallbackAdded
<1>6. CASE ResumeStart(c)
  BY <1>1, <1>2, <1>3, <1>6, StartBodyStep DEF ResumeStart
<1>7. CASE Enabled(c)
  <2> DEFINE r == Registered(books, c, s)
             b == [r EXCEPT !.enabled = @ \cup {s}]
  <2>1. Subscribes(c, s, b) /\ line' = Tail(line)
    BY <1>7 DEF Enabled
  <2>2. r.enabled \cup {s} \in SUBSET Service
    BY <1>2, <1>5 DEF Sound, Books
  <2>3. Sound(b) /\ b.callbacks = r.callbacks
    BY <1>5, <2>2, KeysSet
  <2>4. b.callbacks = [books.callbacks EXCEPT ![s] = @ \cup {c}]
    BY <1>5, <2>3
  <2> HIDE DEF b
  <2> QED
    BY <1>1, <1>2, <1>3, <2>1, <2>3, <2>4, SubscribesStep
<1>8. CASE ListensLocally(c)
  <2> DEFINE call == [at |-> "idle", service |-> s, kept |-> "local"]
  <2>1. /\ books' = Registered(books, c, s) /\ line' = Tail(line)
        /\ client' = [client EXCEPT ![c] = call] /\ call \in Calls
    BY <1>2, <1>8 DEF ListensLocally, Becomes, Calls
  <2>2. Sound(books)'
    BY <1>5, <2>1 DEF Sound, Listened, Total
  <2>3. books.callbacks \in [Service -> SUBSET Client]
    BY <1>4 DEF Sound, Books
  <2>4. \A e \in Client, u \in Service : e \in books'.callbacks[u] =>
          e \in books.callbacks[u] \/ (e = c /\ u = s)
    BY <1>5, <2>1, <2>3
  <2>5. \A u \in Service : c \notin books.callbacks[u]
    BY <1>2, NothingKept
  <2>6. call.at = "idle" /\ call.kept = "local" /\ call.service = s
    OBVIOUS
  <2> HIDE DEF call
  <2>7. ShapeOK' /\ KeptFits' /\ CallbacksKept'
    BY <1>1, <1>2, <1>3, <1>4, <2>1, <2>2, <2>4, <2>5, <2>6, ClientMoves, ZenonT(30)
  <2>8. DisablesOnlyUnheard'
    BY <1>1, ClientHoldsLock, UnheardByLock
  <2> QED
    BY <2>7, <2>8 DEF NotificationInvariant
<1>9. CASE EnableRefused(c) \/ StartTimesOut(c)
  <2>1. UNCHANGED books /\ Returns(c) /\ line' = Tail(line)
    BY <1>9 DEF EnableRefused, StartTimesOut
  <2>2. Sound(books)'
    BY <1>4, <2>1 DEF Sound, Listened, Total
  <2> QED
    BY <1>1, <1>2, <1>3, <2>1, <2>2, ReturnsStep
<1> QED
  BY <1>6, <1>7, <1>8, <1>9

LEMMA CancelQueuedStep ==
  ASSUME NotificationInvariant, NEW c \in Client, CancelQueued(c)
  PROVE  NotificationInvariant'
<1> DEFINE call == IF client[c].kept = "none" THEN NoCall ELSE [client[c] EXCEPT !.at = "idle"]
<1>1. /\ UNCHANGED << books, task, connected, active >> /\ client' = [client EXCEPT ![c] = call]
      /\ client[c].at \in {"starting", "stopping"}
  BY DEF CancelQueued
<1>2. /\ client[c] \in Calls /\ line \in Seq(Caller) /\ connected \subseteq Client
      /\ client[c].service \in Service
  BY <1>1 DEF NotificationInvariant, ShapeOK, KeptFits
<1>3. /\ call \in Calls /\ call.at = "idle" /\ call.kept = client[c].kept
      /\ call.kept = "none" \/ call.service = client[c].service
  BY <1>2, NoCallIsCall DEF Calls
<1>4. PICK i \in DOMAIN line : line[i] = c /\ line' = RemoveAt(line, i)
  BY DEF CancelQueued
<1>5. line' \in Seq(Caller) /\ (i # 1 => line' # << >> /\ Head(line') = Head(line))
  BY <1>2, <1>4, RemoveAtKeepsOthers
<1> HIDE DEF call
<1>6. Sound(books)'
  BY <1>1 DEF NotificationInvariant, ShapeOK, Sound, Listened, Total
<1>7. \A u \in Service : c \in books'.callbacks[u] =>
        /\ call.service = u
        /\ call.kept = "local" \/ (call.kept = "runtime" /\ c \in connected' /\ active')
  BY <1>1, <1>3 DEF NotificationInvariant, CallbacksKept
<1>8. ShapeOK' /\ KeptFits' /\ CallbacksKept'
  BY <1>1, <1>2, <1>3, <1>5, <1>6, <1>7, ClientMoves
<1>9. DisablesOnlyUnheard'
  <2>1. CASE i = 1
    <3>1. Heads(c)
      BY <1>2, <1>4, <2>1, HeadTailProperties, EmptySeq, LenProperties DEF Heads
    <3> QED
      BY <1>1, <3>1, ClientHoldsLock, UnheardByLock
  <2>2. CASE i # 1
    BY <1>1, <1>5, <2>2, UnheardByShrinking
  <2> QED
    BY <2>1, <2>2
<1> QED
  BY <1>8, <1>9 DEF NotificationInvariant

(* A client that ends a call with at most the callback it kept removed.    *)
LEMMA LeavesStep ==
  ASSUME NotificationInvariant, NEW c \in Client, NEW s \in Service,
         client[c].service = s \/ client[c].kept = "none",
         Returns(c), line' \in Seq(Caller), Sound(books)', UNCHANGED << task, active >>,
         connected' \in {connected, connected \ {c}},
         books'.callbacks = [books.callbacks EXCEPT ![s] = @ \ {c}],
         \/ line = << >> \/ Heads(c)
         \/ line # << >> /\ line' # << >> /\ Head(line') = Head(line)
  PROVE  NotificationInvariant'
<1>1. books.callbacks \in [Service -> SUBSET Client] /\ connected' \subseteq Client
  BY DEF NotificationInvariant, ShapeOK, Sound, Books
<1>2. \A u \in Service : c \notin books'.callbacks[u]
  BY <1>1, NothingKept DEF NotificationInvariant, CallbacksKept
<1>3. \A e \in Client, u \in Service : e \in books'.callbacks[u] => e \in books.callbacks[u]
  BY <1>1
<1>4. ShapeOK' /\ KeptFits' /\ CallbacksKept'
  BY <1>1, <1>2, <1>3, NoCallIsCall, ClientMoves DEF Returns
<1>5. \A u \in Service : books'.callbacks[u] \subseteq books.callbacks[u]
  BY <1>1
<1>6. DisablesOnlyUnheard'
  BY <1>5, ClientHoldsLock, UnheardByLock, UnheardByShrinking
<1> QED
  BY <1>4, <1>6 DEF NotificationInvariant

LEMMA StopBodyResult ==
  ASSUME Sound(books), NEW c \in Client, client[c].service \in Service, StopBody(c)
  PROVE  /\ Returns(c) /\ Sound(books)'
         /\ books'.callbacks = [books.callbacks EXCEPT ![client[c].service] = @ \ {c}]
<1> DEFINE s    == client[c].service
           rest == Removed(books, c, s)
<1>1. books.callbacks \in [Service -> SUBSET Client]
  BY DEF Sound, Books
<1>2. CASE c \notin books.callbacks[s] /\ UNCHANGED books
  <2>1. books.callbacks = [books.callbacks EXCEPT ![s] = @ \ {c}]
    BY <1>1, <1>2
  <2>2. Sound(books)'
    BY <1>2 DEF Sound, Listened, Total
  <2> QED
    BY <1>2, <2>1, <2>2 DEF StopBody
<1>3. CASE c \in books.callbacks[s]
  <2>1. Sound(rest) /\ rest.callbacks = [books.callbacks EXCEPT ![s] = @ \ {c}]
    BY <1>3, CallbackRemoved
  <2>2. \/ books' = rest
        \/ \E t \in Timer : books' = Armed(rest, t, s)
    BY <1>3 DEF StopBody
  <2> HIDE DEF rest
  <2>3. \E d : books' = d /\ Sound(d) /\ d.callbacks = rest.callbacks
    BY <2>1, <2>2, TimerArmed
  <2>4. Sound(books)' /\ books'.callbacks = rest.callbacks
    BY <2>3 DEF Sound, Listened, Total
  <2> QED
    BY <2>1, <2>4 DEF StopBody
<1> QED
  BY <1>2, <1>3 DEF StopBody

LEMMA StopStep ==
  ASSUME NotificationInvariant, NEW c \in Client, Stop(c) \/ ResumeStop(c) \/ StopLocal(c)
  PROVE  NotificationInvariant'
<1> DEFINE s == client[c].service
<1>1. /\ UNCHANGED << task, connected, active >> /\ c \in Caller
      /\ line \in Seq(Caller) /\ connected \subseteq Client /\ Sound(books)
      /\ client[c] \in Calls
  BY DEF Stop, ResumeStop, StopLocal, Caller, NotificationInvariant, ShapeOK
<1>2. s \in Service
  BY DEF Stop, ResumeStop, StopLocal, NotificationInvariant, KeptFits
<1>3. CASE Stop(c) /\ line = << >>
  <2>1. StopBody(c) /\ line' \in Seq(Caller)
    BY <1>1, <1>3 DEF Stop
  <2> QED
    BY <1>1, <1>2, <1>3, <2>1, StopBodyResult, LeavesStep
<1>4. CASE Stop(c) /\ line # << >>
  <2> DEFINE call == [client[c] EXCEPT !.at = "stopping"]
  <2>1. /\ client[c].kept = "runtime" /\ line' = Append(line, c) /\ UNCHANGED books
        /\ client' = [client EXCEPT ![c].at = "stopping"]
    BY <1>4 DEF Stop
  <2>2. /\ client' = [client EXCEPT ![c] = call] /\ call \in Calls
        /\ call.service = s /\ call.kept = "runtime" /\ call.at = "stopping"
    BY <1>1, <2>1 DEF Calls
  <2>3. line' \in Seq(Caller) /\ line' # << >> /\ Head(line') = Head(line)
    BY <1>1, <1>4, <2>1, AppendProperties, HeadTailProperties, EmptySeq
  <2>4. Sound(books)'
    BY <1>1, <2>1 DEF Sound, Listened, Total
  <2>5. \A u \in Service : c \in books'.callbacks[u] =>
          call.service = u /\ c \in connected' /\ active'
    BY <1>1, <2>1, <2>2 DEF NotificationInvariant, CallbacksKept
  <2> HIDE DEF call
  <2>6. ShapeOK' /\ KeptFits' /\ CallbacksKept'
    BY <1>1, <1>2, <2>1, <2>2, <2>3, <2>4, <2>5, ClientMoves
  <2>7. DisablesOnlyUnheard'
    BY <1>1, <1>4, <2>1, <2>3, UnheardByShrinking
  <2> QED
    BY <2>6, <2>7 DEF NotificationInvariant
<1>5. CASE ResumeStop(c)
  <2>1. StopBody(c) /\ Heads(c) /\ line' \in Seq(Caller)
    BY <1>5, LineBehind DEF ResumeStop
  <2> QED
    BY <1>1, <1>2, <2>1, StopBodyResult, LeavesStep
<1>6. CASE StopLocal(c)
  <2>1. books' = Forgotten(books, c, s) /\ Returns(c) /\ line' = line
    BY <1>6 DEF StopLocal
  <2>2. /\ Sound(Forgotten(books, c, s))
        /\ Forgotten(books, c, s).callbacks = [books.callbacks EXCEPT ![s] = @ \ {c}]
    BY <1>1, <1>2, CallbackForgotten
  <2>3. Sound(books)' /\ books'.callbacks = [books.callbacks EXCEPT ![s] = @ \ {c}]
    BY <2>1, <2>2 DEF Sound, Listened, Total
  <2> QED
    BY <1>1, <1>2, <2>1, <2>3, LeavesStep
<1> QED
  BY <1>3, <1>4, <1>5, <1>6

-----------------------------------------------------------------------------
(* The device comes and goes *)

LEMMA DeviceLostStep ==
  ASSUME NotificationInvariant, DeviceLost, UNCHANGED << task, line >>
  PROVE  NotificationInvariant'
<1> USE DEF NotificationInvariant
<1>1. books' = DeviceForgotten(books) /\ Sound(books)
  BY DEF DeviceLost, ShapeOK
<1>2. Sound(books)' /\ \A s \in Service : books'.callbacks[s] = {}
  BY <1>1, CallbacksCleared, ZenonT(30) DEF Sound, Listened, Total
<1>3. /\ client \in [Client -> Calls] /\ connected' = {}
      /\ client' = [c \in Client |-> IF c \in connected THEN Bereft(c) ELSE client[c]]
  BY DEF DeviceLost, ShapeOK
<1>4. \A c \in Client :
        /\ client'[c] \in Calls
        /\ client'[c] = client[c] \/ client'[c] = NoCall
           \/ (/\ client'[c].at = client[c].at /\ client'[c].service = client[c].service
               /\ client'[c].kept = "none" /\ client[c].at # "idle")
  BY <1>3, NoCallIsCall DEF Bereft, Calls
<1>5. client' \in [Client -> Calls]
  BY <1>3, <1>4
<1>6. ShapeOK'
  BY <1>2, <1>3, <1>5 DEF ShapeOK
<1>7. KeptFits'
  BY <1>4, NoCallIsCall DEF KeptFits
<1>8. CallbacksKept'
  BY <1>2 DEF CallbacksKept
<1>9. DisablesOnlyUnheard'
  BY <1>2, UnheardByShrinking
<1> QED
  BY <1>6, <1>7, <1>8, <1>9

(* Steps that leave what the invariant is about alone, or only add to the  *)
(* sessions.                                                               *)
LEMMA QuietStep ==
  ASSUME NotificationInvariant, UNCHANGED << books, client, task, line >>,
         connected' \subseteq Client, connected \subseteq connected', active => active'
  PROVE  NotificationInvariant'
<1> USE DEF NotificationInvariant
<1>1. ShapeOK'
  BY DEF ShapeOK, Sound, Listened, Total
<1>2. KeptFits'
  BY DEF KeptFits
<1>3. CallbacksKept'
  BY DEF CallbacksKept
<1>4. DisablesOnlyUnheard'
  BY DEF DisablesOnlyUnheard, Heads, Listened
<1> QED
  BY <1>1, <1>2, <1>3, <1>4

LEMMA DisconnectStep ==
  ASSUME NotificationInvariant, NEW c \in Client, Disconnect(c)
  PROVE  NotificationInvariant'
<1>1. UNCHANGED << task, line >> /\ client[c].at = "idle"
  BY DEF Disconnect
<1>2. CASE DeviceLost
  BY <1>1, <1>2, DeviceLostStep
<1>3. CASE /\ connected' = connected \ {c} /\ Returns(c) /\ UNCHANGED active
           /\ books' = IF client[c].kept = "none" THEN books
                       ELSE Forgotten(books, c, client[c].service)
  <2> DEFINE s == client[c].service
  <2>1. Sound(books) /\ line \in Seq(Caller) /\ books.callbacks \in [Service -> SUBSET Client]
    BY DEF NotificationInvariant, ShapeOK, Sound, Books
  <2>2. CASE client[c].kept = "none"
    <3>1. \A u \in Service : c \notin books.callbacks[u]
      BY <2>2, NothingKept
    <3>2. books' = books /\ Sound(books)'
      BY <1>3, <2>1, <2>2 DEF Sound, Listened, Total
    <3>3. connected' \subseteq Client /\ task' = task
      BY <1>1, <1>3 DEF NotificationInvariant, ShapeOK
    <3>4. ShapeOK' /\ KeptFits' /\ CallbacksKept'
      BY <1>1, <1>3, <2>1, <3>1, <3>2, <3>3, NoCallIsCall, ClientMoves DEF Returns
    <3>5. DisablesOnlyUnheard'
      BY <1>1, <3>2, UnheardByShrinking
    <3> QED
      BY <3>4, <3>5 DEF NotificationInvariant
  <2>3. CASE client[c].kept # "none"
    <3>1. s \in Service
      BY <2>3 DEF NotificationInvariant, KeptFits
    <3>2. /\ Sound(Forgotten(books, c, s))
          /\ Forgotten(books, c, s).callbacks = [books.callbacks EXCEPT ![s] = @ \ {c}]
      BY <2>1, <3>1, CallbackForgotten
    <3>3. Sound(books)' /\ books'.callbacks = [books.callbacks EXCEPT ![s] = @ \ {c}]
      BY <1>3, <2>3, <3>2 DEF Sound, Listened, Total
    <3> QED
      BY <1>1, <1>3, <2>1, <3>1, <3>3, LeavesStep
  <2> QED
    BY <2>2, <2>3
<1> QED
  BY <1>2, <1>3 DEF Disconnect, Returns

-----------------------------------------------------------------------------
(* Steps of a deferred disable *)

(* No callback changes; one task does, and awaits a disable only of what   *)
(* nobody listens to, at the head of the line.                             *)
LEMMA TaskMoves ==
  ASSUME NotificationInvariant, NEW t \in Timer, NEW new \in Tasks,
         task' = [task EXCEPT ![t] = new],
         new.at # "none" => new.service \in Service,
         new.at = "disabling" => Heads(t)' /\ books.callbacks[new.service] = {},
         Sound(books)', books'.callbacks = books.callbacks, line' \in Seq(Caller),
         UNCHANGED << client, connected, active >>,
         \/ line = << >> \/ Heads(t)
         \/ line # << >> => line' # << >> /\ Head(line') = Head(line)
  PROVE  NotificationInvariant'
<1> USE DEF NotificationInvariant
<1>1. task \in [Timer -> Tasks] /\ task'[t] = new /\ \A u \in Timer \ {t} : task'[u] = task[u]
  BY DEF ShapeOK
<1>2. ShapeOK'
  BY <1>1 DEF ShapeOK
<1>3. KeptFits'
  BY DEF KeptFits
<1>4. CallbacksKept'
  BY DEF CallbacksKept
<1>5. DisablesOnlyUnheard'
  <2>1. t \in Caller
    BY DEF Caller
  <2>2. line = << >> \/ Heads(t) => \A u \in Timer \ {t} : task[u].at # "disabling"
    BY <2>1, LockHeld
  <2> QED
    BY <1>1, <2>2, SMTT(30) DEF DisablesOnlyUnheard, Heads, Listened
<1> QED
  BY <1>2, <1>3, <1>4, <1>5

LEMMA NoTaskIsTask == NoTask \in Tasks /\ NoTask.at = "none"
BY DEF NoTask, Tasks

LEMMA TimerFiresStep ==
  ASSUME NotificationInvariant, NEW t \in Timer, TimerFires(t)
  PROVE  NotificationInvariant'
<1> DEFINE s   == books.armed[t]
           new == [at |-> "created", service |-> s]
<1>1. books \in Books /\ Sound(books) /\ line \in Seq(Caller)
  BY DEF NotificationInvariant, ShapeOK, Sound
<1>2. s \in Service /\ new \in Tasks
  BY <1>1 DEF TimerFires, Books, Tasks
<1>3. task' = [task EXCEPT ![t] = new] /\ UNCHANGED << client, connected, active, line >>
  BY DEF TimerFires, TaskBecomes
<1>4. /\ books' \in Books /\ books'.callbacks = books.callbacks
      /\ books'.tracked = books.tracked /\ books'.count = books.count
  BY <1>1 DEF TimerFires, Books
<1>5. Sound(books)'
  BY <1>1, <1>4 DEF Sound, Listened, Total
<1>6. new.at = "created" /\ new.service = s
  OBVIOUS
<1> HIDE DEF new
<1> QED
  BY <1>1, <1>2, <1>3, <1>4, <1>5, <1>6, TaskMoves

LEMMA DisableBodyStep ==
  ASSUME NotificationInvariant, NEW t \in Timer, NEW s \in Service, NEW b, Sound(b),
         b.callbacks = books.callbacks, NEW rest \in Seq(Caller),
         line = << >> \/ Heads(t), DisableBody(t, s, b, rest),
         UNCHANGED << client, connected, active >>
  PROVE  NotificationInvariant'
<1>1. CASE books' = Settled(b, s) /\ TaskEnds(t) /\ line' = rest
  <2>1. Sound(Settled(b, s)) /\ Settled(b, s).callbacks = b.callbacks
    BY TimersDropped
  <2>2. Sound(books)' /\ books'.callbacks = books.callbacks
    BY <1>1, <2>1 DEF Sound, Listened, Total
  <2> QED
    BY <1>1, <2>2, NoTaskIsTask, TaskMoves DEF TaskEnds
<1>2. CASE /\ ~ Unneeded(b, s) /\ books' = b /\ TaskBecomes(t, "disabling", s)
           /\ line' = << t >> \o rest
  <2> DEFINE new == [at |-> "disabling", service |-> s]
  <2>1. new \in Tasks /\ new.service = s /\ task' = [task EXCEPT ![t] = new]
    BY <1>2 DEF Tasks, TaskBecomes
  <2>2. line' \in Seq(Caller) /\ Heads(t)'
    BY <1>2 DEF Caller, Heads
  <2>3. Sound(books)' /\ books'.callbacks = books.callbacks
    BY <1>2 DEF Sound, Listened, Total
  <2>4. books.callbacks[s] = {}
    BY <1>2 DEF Unneeded, Listened
  <2> HIDE DEF new
  <2> QED
    BY <2>1, <2>2, <2>3, <2>4, TaskMoves
<1> QED
  BY <1>1, <1>2 DEF DisableBody

LEMMA TaskStepKeeps ==
  ASSUME NotificationInvariant, NEW t \in Timer, TaskStep(t)
  PROVE  NotificationInvariant'
<1> DEFINE s == task[t].service
           b == Popped(books, s)
<1>1. Sound(books) /\ line \in Seq(Caller) /\ t \in Caller
  BY DEF NotificationInvariant, ShapeOK, Caller
<1>2. task[t].at # "none" => s \in Service
  BY DEF NotificationInvariant, ShapeOK
<1>3. CASE TimerFires(t)
  BY <1>3, TimerFiresStep
<1>4. CASE TaskRuns(t)
  <2>1. s \in Service /\ UNCHANGED << client, connected, active >>
    BY <1>2, <1>4 DEF TaskRuns
  <2>2. Sound(b) /\ b.callbacks = books.callbacks
    BY <1>1, <2>1, TimersDropped
  <2>3. CASE line = << >> /\ DisableBody(t, s, b, << >>)
    <3>1. << >> \in Seq(Caller)
      OBVIOUS
    <3> QED
      BY <2>1, <2>2, <2>3, <3>1, DisableBodyStep
  <2>4. CASE books' = b /\ TaskEnds(t) /\ line' = line
    <3>1. Sound(books)' /\ books'.callbacks = books.callbacks
      BY <2>2, <2>4 DEF Sound, Listened, Total
    <3> QED
      BY <1>1, <2>1, <2>4, <3>1, NoTaskIsTask, TaskMoves DEF TaskEnds
  <2>5. CASE /\ line # << >> /\ books' = b /\ TaskBecomes(t, "queued", s)
             /\ line' = Append(line, t)
    <3> DEFINE new == [at |-> "queued", service |-> s]
    <3>1. /\ new \in Tasks /\ new.at = "queued" /\ new.service = s
          /\ task' = [task EXCEPT ![t] = new]
      BY <2>1, <2>5 DEF Tasks, TaskBecomes
    <3>2. line' \in Seq(Caller) /\ line' # << >> /\ Head(line') = Head(line)
      BY <1>1, <2>5, AppendProperties, HeadTailProperties, EmptySeq
    <3>3. Sound(books)' /\ books'.callbacks = books.callbacks
      BY <2>2, <2>5 DEF Sound, Listened, Total
    <3> HIDE DEF new
    <3> QED
      BY <2>1, <3>1, <3>2, <3>3, TaskMoves
  <2> QED
    BY <1>4, <2>3, <2>4, <2>5 DEF TaskRuns
<1>5. CASE ResumeTask(t)
  <2>1. /\ s \in Service /\ UNCHANGED << client, connected, active >>
        /\ Heads(t) /\ DisableBody(t, s, books, Tail(line))
    BY <1>2, <1>5 DEF ResumeTask
  <2>2. Tail(line) \in Seq(Caller)
    BY <2>1, LineBehind
  <2> QED
    BY <1>1, <2>1, <2>2, DisableBodyStep
<1>6. CASE Disabled(t) \/ DisableTimesOut(t)
  <2>1. /\ s \in Service /\ UNCHANGED << client, connected, active >> /\ Heads(t)
        /\ books' = Settled(books, s) /\ TaskEnds(t) /\ line' = Tail(line)
    BY <1>2, <1>6 DEF Disabled, DisableTimesOut
  <2>2. Sound(Settled(books, s)) /\ Settled(books, s).callbacks = books.callbacks
    BY <1>1, <2>1, TimersDropped
  <2>3. Sound(books)' /\ books'.callbacks = books.callbacks
    BY <2>1, <2>2 DEF Sound, Listened, Total
  <2>4. Tail(line) \in Seq(Caller)
    BY <2>1, LineBehind
  <2> QED
    BY <2>1, <2>3, <2>4, NoTaskIsTask, TaskMoves DEF TaskEnds
<1>7. CASE TaskCancelled(t)
  <2>1. s \in Service /\ books' = Settled(books, s) /\ UNCHANGED << client, connected, active >>
    BY <1>2, <1>7 DEF TaskCancelled
  <2>2. Sound(Settled(books, s)) /\ Settled(books, s).callbacks = books.callbacks
    BY <1>1, <2>1, TimersDropped
  <2>3. Sound(books)' /\ books'.callbacks = books.callbacks
    BY <2>1, <2>2 DEF Sound, Listened, Total
  <2>4. PICK i \in DOMAIN line : line[i] = t /\ line' = RemoveAt(line, i)
    BY <1>7 DEF TaskCancelled
  <2>5. line' \in Seq(Caller) /\ (i # 1 => line' # << >> /\ Head(line') = Head(line))
    BY <1>1, <2>4, RemoveAtKeepsOthers
  <2>6. i = 1 => Heads(t)
    BY <1>1, <2>4, HeadTailProperties, EmptySeq, LenProperties DEF Heads
  <2> QED
    BY <1>1, <1>7, <2>1, <2>3, <2>5, <2>6, NoTaskIsTask, TaskMoves DEF TaskCancelled, TaskEnds
<1> QED
  BY <1>3, <1>4, <1>5, <1>6, <1>7 DEF TaskStep

LEMMA StopRuntimeStep ==
  ASSUME NotificationInvariant, StopRuntime
  PROVE  NotificationInvariant'
<1> DEFINE k == Cancelled(books)
<1>1. Sound(books) /\ line \in Seq(Caller)
  BY DEF NotificationInvariant, ShapeOK
<1>2. Sound(k) /\ k.callbacks = books.callbacks
  <2>1. CASE Service = {}
    <3>1. /\ k \in Books /\ k.callbacks = books.callbacks
          /\ k.tracked = books.tracked /\ k.count = books.count
      BY <1>1 DEF Sound, Books, Cancelled
    <3> QED
      BY <1>1, <3>1, SameCallbacks
  <2>2. CASE Service # {}
    BY <1>1, <2>2, TimersDropped
  <2> QED
    BY <2>1, <2>2
<1>3. books' = [k EXCEPT !.enabled = {}]
  BY DEF StopRuntime
<1> HIDE DEF k
<1>4. Sound(books)' /\ books'.callbacks = books.callbacks
  <2>1. {} \in SUBSET Service
    OBVIOUS
  <2>2. /\ Sound([k EXCEPT !.enabled = {}])
        /\ [k EXCEPT !.enabled = {}].callbacks = k.callbacks
    BY <1>2, <2>1, KeysSet
  <2> DEFINE d == [k EXCEPT !.enabled = {}]
  <2> HIDE DEF d
  <2>3. books' = d /\ Sound(d) /\ d.callbacks = books.callbacks
    BY <1>2, <1>3, <2>2 DEF d
  <2> QED
    BY <2>3 DEF Sound, Listened, Total
<1>5. UNCHANGED << client, connected, active, line >>
  BY DEF StopRuntime
<1>6. /\ task' \in [Timer -> Tasks]
      /\ \A t \in Timer : task'[t].at # "disabling"
      /\ \A t \in Timer : task'[t].at # "none" => task'[t].service \in Service
  <2>1. ASSUME NEW t \in Timer
        PROVE  /\ task'[t] \in Tasks /\ task'[t].at # "disabling"
               /\ task'[t].at # "none" => task'[t].service \in Service
    <3>1. task[t] \in Tasks /\ (task[t].at # "none" => task[t].service \in Service)
      BY DEF NotificationInvariant, ShapeOK
    <3>2. task'[t] = IF task[t].at \in {"queued", "disabling"}
                     THEN [task[t] EXCEPT !.at = "cancelled"] ELSE NoTask
      BY DEF StopRuntime
    <3> QED
      BY <3>1, <3>2, NoTaskIsTask DEF Tasks
  <2> QED
    BY <2>1 DEF StopRuntime
<1>7. ShapeOK'
  BY <1>4, <1>5, <1>6 DEF NotificationInvariant, ShapeOK
<1>8. KeptFits' /\ CallbacksKept'
  BY <1>4, <1>5 DEF NotificationInvariant, KeptFits, CallbacksKept
<1>9. DisablesOnlyUnheard'
  BY <1>6 DEF DisablesOnlyUnheard
<1> QED
  BY <1>7, <1>8, <1>9 DEF NotificationInvariant

-----------------------------------------------------------------------------
LEMMA InitInvariant == Init => NotificationInvariant
<1> SUFFICES ASSUME Init PROVE NotificationInvariant
  OBVIOUS
<1>1. books \in Books
  BY DEF Init, Books
<1>2. Registrations(books) = {} /\ books.tracked = {s \in Service : Listened(books, s)}
  BY DEF Init, Registrations, Listened
<1>3. Sound(books)
  BY <1>1, <1>2, FS_EmptySet DEF Init, Sound, Total, Registrations
<1>4. ShapeOK
  BY <1>3, NoCallIsCall, NoTaskIsTask DEF Init, ShapeOK
<1>5. KeptFits /\ CallbacksKept /\ DisablesOnlyUnheard
  BY NoCallIsCall, NoTaskIsTask DEF Init, KeptFits, CallbacksKept, DisablesOnlyUnheard
<1> QED
  BY <1>4, <1>5 DEF NotificationInvariant

LEMMA NextInvariant == NotificationInvariant /\ [Next]_vars => NotificationInvariant'
<1> SUFFICES ASSUME NotificationInvariant, [Next]_vars PROVE NotificationInvariant'
  OBVIOUS
<1>0. connected \subseteq Client
  BY DEF NotificationInvariant, ShapeOK
<1>1. CASE \E c \in Client : ClientStep(c)
  <2>1. PICK c \in Client : ClientStep(c)
    BY <1>1
  <2>2. CASE Connect(c)
    BY <1>0, <2>2, QuietStep DEF Connect
  <2> QED
    BY <2>1, <2>2, DisconnectStep, StartStep, AnswerStep, CancelQueuedStep, StopStep
    DEF ClientStep
<1>2. CASE \E t \in Timer : TaskStep(t)
  BY <1>2, TaskStepKeeps
<1>3. CASE LossReported \/ SourceLost \/ RuntimeStops
  BY <1>3, DeviceLostStep DEF LossReported, SourceLost, RuntimeStops
<1>4. CASE LinkDrops \/ APActs \/ TasksAreGone
  BY <1>0, <1>4, QuietStep DEF LinkDrops, APActs, TasksAreGone
<1>5. CASE StopRuntime
  BY <1>5, StopRuntimeStep
<1>6. CASE UNCHANGED vars
  BY <1>0, <1>6, QuietStep DEF vars
<1> QED
  BY <1>1, <1>2, <1>3, <1>4, <1>5, <1>6 DEF Next

(* The invariant holds in every behaviour.                                 *)
THEOREM InvariantHolds == Spec => []NotificationInvariant
BY InitInvariant, NextInvariant, PTL DEF Spec

(* A callback that came by a successful start belongs to a client in       *)
(* session, whatever happens between the answer and the client's           *)
(* resumption (start_notify).                                              *)
THEOREM SubscribersInSession == Spec => []NoDeadSubscriber
<1>1. NotificationInvariant => NoDeadSubscriber
  BY DEF NotificationInvariant, CallbacksKept, NoDeadSubscriber
<1> QED
  BY <1>1, InvariantHolds, PTL

(* Every update reaches every callback exactly once, and the counter of    *)
(* subscriptions is right (_notification_callbacks_for).                   *)
THEOREM ListenersHear == Spec => []EveryListenerHears
<1>1. NotificationInvariant => EveryListenerHears
  <2> SUFFICES ASSUME Sound(books) PROVE EveryListenerHears
    BY DEF NotificationInvariant, ShapeOK
  <2>1. \A s \in Service \ books.tracked : books.callbacks[s] = {}
    BY DEF Sound, Listened
  <2>2. books.tracked \subseteq Service
    BY DEF Sound
  <2>3. UNION {books.callbacks[s] : s \in books.tracked} = UNION {books.callbacks[s] : s \in Service}
    BY <2>1, <2>2
  <2>4. ASSUME NEW named \in Service \cup {NoService}
        PROVE  CallbacksFor(books, named) = UNION {books.callbacks[s] : s \in Service}
    <3>1. books.tracked = {named} =>
            books.callbacks[named] = UNION {books.callbacks[s] : s \in books.tracked}
      OBVIOUS
    <3> QED
      BY <2>3, <3>1 DEF CallbacksFor
  <2> QED
    BY <2>4 DEF EveryListenerHears, Sound
<1> QED
  BY <1>1, InvariantHolds, PTL

(* While a disable is awaited nobody listens, and nobody else has the lock.*)
THEOREM OnlyUnheardDisabled == Spec => []DisablesOnlyUnheard
<1>1. NotificationInvariant => DisablesOnlyUnheard
  BY DEF NotificationInvariant
<1> QED
  BY <1>1, InvariantHolds, PTL

-----------------------------------------------------------------------------
(* The timers *)

(* What the dictionary of pending disables holds is armed for its key, or  *)
(* has just become a task for it; an armed timer is not yet a task.        *)
TimersKnown(b, k) ==
  /\ \A s \in Service, t \in Timer : b.pending[s] = t =>
       b.armed[t] = s \/ (k[t].at = "created" /\ k[t].service = s)
  /\ \A t \in Timer : b.armed[t] # NoService => k[t].at = "none"

FollowedUp(b, k, s) ==
  s \in b.enabled /\ ~ Listened(b, s) =>
    \E t \in Timer : b.armed[t] = s \/ (k[t].at # "none" /\ k[t].service = s)

FollowUpInvariant ==
  TimersKnown(books, task) /\ \A s \in Service : FollowedUp(books, task, s)

LEMMA TimerPopped ==
  ASSUME NEW b \in Books, NEW k, TimersKnown(b, k), NEW s \in Service
  PROVE  LET w == WithoutTimer(b, s) IN
         /\ w \in Books /\ TimersKnown(w, k) /\ w.enabled = b.enabled
         /\ w.pending[s] = NoTimer
         /\ w.callbacks = b.callbacks
         /\ \A t \in Timer : w.armed[t] \in {b.armed[t], NoService}
         /\ \A u \in Service \ {s} : FollowedUp(b, k, u) => FollowedUp(w, k, u)
<1> DEFINE w == WithoutTimer(b, s)
           t == b.pending[s]
<1>1. CASE t = NoTimer
  BY <1>1 DEF WithoutTimer
<1>2. CASE t # NoTimer
  <2>1. t \in Timer
    BY <1>2 DEF Books
  <2>2. /\ w \in Books /\ w.enabled = b.enabled /\ w.callbacks = b.callbacks
        /\ w.pending = [b.pending EXCEPT ![s] = NoTimer]
        /\ w.armed = [b.armed EXCEPT ![t] = NoService]
    BY <1>2, <2>1 DEF WithoutTimer, Books
  <2>3. b.armed[t] \in {s, NoService}
    BY <2>1 DEF TimersKnown
  <2>4. \A r \in Timer \ {t} : w.armed[r] = b.armed[r]
    BY <2>2 DEF Books
  <2>5. w.armed[t] = NoService
    BY <2>1, <2>2 DEF Books
  <2>6. w.pending[s] = NoTimer /\ \A u \in Service \ {s} : w.pending[u] = b.pending[u]
    BY <2>2 DEF Books
  <2> HIDE DEF w
  <2>7. ASSUME NEW u \in Service \ {s}, b.pending[u] = t
        PROVE  k[t].at = "created" /\ k[t].service = u
    BY <2>1, <2>3, <2>7, NullAssumption DEF TimersKnown
  <2>8. TimersKnown(w, k)
    BY <2>1, <2>4, <2>5, <2>6, <2>7, NullAssumption DEF TimersKnown
  <2>9. \A u \in Service \ {s} : FollowedUp(b, k, u) => FollowedUp(w, k, u)
    BY <2>1, <2>2, <2>3, <2>4, <2>5, NullAssumption DEF FollowedUp, Listened
  <2> QED
    BY <2>2, <2>4, <2>5, <2>6, <2>8, <2>9 DEF w
<1> QED
  BY <1>1, <1>2

(* No new key goes unheard, and the timers stay.                           *)
LEMMA TimersStay ==
  ASSUME NEW b, NEW d, NEW k, d.pending = b.pending, d.armed = b.armed
  PROVE  /\ TimersKnown(b, k) => TimersKnown(d, k)
         /\ \A s \in Service :
              /\ FollowedUp(b, k, s)
              /\ s \in d.enabled /\ ~ Listened(d, s) => s \in b.enabled /\ ~ Listened(b, s)
              => FollowedUp(d, k, s)
BY DEF TimersKnown, FollowedUp

LEMMA RegisteredFollowed ==
  ASSUME NEW b, Sound(b), NEW k, TimersKnown(b, k), NEW c \in Client, NEW s \in Service,
         c \notin b.callbacks[s],
         \A u \in Service \ {s} : FollowedUp(b, k, u),
         NEW d, d = Registered(b, c, s) \/ d = [Registered(b, c, s) EXCEPT !.enabled = @ \cup {s}]
  PROVE  TimersKnown(d, k) /\ \A u \in Service : FollowedUp(d, k, u)
<1>1. b \in Books /\ b.callbacks \in [Service -> SUBSET Client]
  BY DEF Sound, Books
<1>2. /\ d.pending = b.pending /\ d.armed = b.armed /\ d.enabled \subseteq b.enabled \cup {s}
      /\ d.callbacks = [b.callbacks EXCEPT ![s] = @ \cup {c}]
  BY <1>1 DEF Registered, Books
<1>3. d.callbacks[s] # {} /\ \A u \in Service \ {s} : d.callbacks[u] = b.callbacks[u]
  BY <1>1, <1>2
<1>4. ASSUME NEW u \in Service PROVE FollowedUp(d, k, u)
  BY <1>2, <1>3 DEF FollowedUp, Listened
<1> QED
  BY <1>2, <1>4, TimersStay

LEMMA RemovedFollowed ==
  ASSUME NEW b, Sound(b), NEW k, NEW c \in Client, NEW s \in Service
  PROVE  LET d == Removed(b, c, s) IN
         /\ d.pending = b.pending /\ d.armed = b.armed /\ d.enabled = b.enabled
         /\ \A u \in Service \ {s} : d.callbacks[u] = b.callbacks[u]
         /\ TimersKnown(b, k) => TimersKnown(d, k)
         /\ \A u \in Service \ {s} : FollowedUp(b, k, u) => FollowedUp(d, k, u)
<1> DEFINE d == Removed(b, c, s)
<1>1. b \in Books /\ b.callbacks \in [Service -> SUBSET Client]
  BY DEF Sound, Books
<1>2. /\ d.pending = b.pending /\ d.armed = b.armed /\ d.enabled = b.enabled
      /\ d.callbacks = [b.callbacks EXCEPT ![s] = @ \ {c}]
  BY <1>1 DEF Removed, Books
<1>3. \A u \in Service \ {s} : d.callbacks[u] = b.callbacks[u]
  BY <1>1, <1>2
<1> HIDE DEF d
<1>4. \A u \in Service \ {s} : FollowedUp(b, k, u) => FollowedUp(d, k, u)
  BY <1>2, <1>3 DEF FollowedUp, Listened
<1> QED
  BY <1>2, <1>3, <1>4, TimersStay DEF d

(* A client that takes its callback back leaves no unheard key behind.     *)
LEMMA ForgottenFollowed ==
  ASSUME NEW b, Sound(b), NEW k, TimersKnown(b, k), NEW c \in Client, NEW s \in Service,
         \A u \in Service \ {s} : FollowedUp(b, k, u),
         c \in b.callbacks[s] \/ FollowedUp(b, k, s)
  PROVE  LET d == Forgotten(b, c, s) IN
         /\ TimersKnown(d, k) /\ \A u \in Service : FollowedUp(d, k, u)
         /\ d.enabled \subseteq b.enabled
<1> DEFINE r == Removed(b, c, s)
           w == WithoutTimer(r, s)
           d == Forgotten(b, c, s)
<1>1. CASE c \notin b.callbacks[s]
  BY <1>1 DEF Forgotten
<1>2. CASE c \in b.callbacks[s]
  <2>1. Sound(r)
    BY <1>2, CallbackRemoved
  <2>2. /\ TimersKnown(r, k) /\ r.enabled = b.enabled
        /\ \A u \in Service \ {s} : FollowedUp(r, k, u)
    BY RemovedFollowed
  <2> HIDE DEF r
  <2>3. CASE Listened(r, s)
    <3>1. d = r
      BY <1>2, <2>3 DEF Forgotten, r
    <3>2. FollowedUp(r, k, s)
      BY <2>3 DEF FollowedUp
    <3> QED
      BY <2>2, <3>1, <3>2
  <2>4. CASE ~ Listened(r, s)
    <3>1. r \in Books
      BY <2>1 DEF Sound
    <3>2. /\ w \in Books /\ TimersKnown(w, k) /\ w.enabled = r.enabled
          /\ \A u \in Service \ {s} : FollowedUp(w, k, u)
      BY <2>2, <3>1, TimerPopped
    <3>3. d = [w EXCEPT !.enabled = @ \ {s}]
      BY <1>2, <2>4 DEF Forgotten, r, w
    <3> HIDE DEF w, d
    <3>4. /\ d.pending = w.pending /\ d.armed = w.armed /\ d.enabled = w.enabled \ {s}
          /\ d.callbacks = w.callbacks
      BY <3>2, <3>3 DEF Books
    <3>5. \A u \in Service : FollowedUp(d, k, u)
      BY <3>2, <3>4 DEF FollowedUp, Listened
    <3>6. TimersKnown(d, k)
      BY <3>2, <3>4, TimersStay
    <3> QED
      BY <2>2, <3>2, <3>4, <3>5, <3>6 DEF d
  <2> QED
    BY <2>3, <2>4
<1> QED
  BY <1>1, <1>2

(* A disable is scheduled with a timer that nobody uses.                   *)
LEMMA ArmedFollowed ==
  ASSUME NEW b \in Books, NEW k, TimersKnown(b, k), NEW s \in Service, NEW t \in Timer,
         b.armed[t] = NoService, k[t].at = "none",
         \A u \in Service \ {s} : FollowedUp(b, k, u)
  PROVE  /\ TimersKnown(Armed(b, t, s), k)
         /\ \A u \in Service : FollowedUp(Armed(b, t, s), k, u)
<1> DEFINE w == WithoutTimer(b, s)
           d == Armed(b, t, s)
<1>1. /\ w \in Books /\ TimersKnown(w, k)
      /\ w.armed[t] = NoService
      /\ \A u \in Service \ {s} : FollowedUp(w, k, u)
  BY TimerPopped
<1>2. d = [w EXCEPT !.pending[s] = t, !.armed[t] = s]
  BY DEF Armed
<1> HIDE DEF w, d
<1>3. /\ d.pending = [w.pending EXCEPT ![s] = t] /\ d.armed = [w.armed EXCEPT ![t] = s]
      /\ d.enabled = w.enabled /\ d.callbacks = w.callbacks
  BY <1>1, <1>2 DEF Books
<1>4. /\ d.pending[s] = t /\ d.armed[t] = s
      /\ \A u \in Service \ {s} : d.pending[u] = w.pending[u]
      /\ \A r \in Timer \ {t} : d.armed[r] = w.armed[r]
  BY <1>1, <1>3 DEF Books
<1>5. \A u \in Service : w.pending[u] # t
  BY <1>1, NullAssumption DEF TimersKnown
<1>6. TimersKnown(d, k)
  BY <1>1, <1>4, <1>5 DEF TimersKnown
<1>7. ASSUME NEW u \in Service PROVE FollowedUp(d, k, u)
  <2>1. CASE u = s
    BY <1>4, <2>1 DEF FollowedUp
  <2>2. CASE u # s
    BY <1>1, <1>3, <1>4, <2>2, NullAssumption DEF FollowedUp, Listened
  <2> QED
    BY <2>1, <2>2
<1> QED
  BY <1>6, <1>7 DEF d

(* All that is enabled goes with the pending timers.                       *)
LEMMA NothingEnabled ==
  ASSUME NEW b \in Books, NEW k, NEW l, TimersKnown(b, k), NEW d,
         d.pending = Cancelled(b).pending, d.armed = Cancelled(b).armed, d.enabled = {},
         \A t \in Timer : k[t].at = "none" => l[t].at = "none"
  PROVE  TimersKnown(d, l) /\ \A s \in Service : FollowedUp(d, l, s)
<1>1. /\ \A s \in Service : d.pending[s] = NoTimer
      /\ \A t \in Timer : d.armed[t] \in {b.armed[t], NoService}
  BY DEF Cancelled, Books
<1>2. TimersKnown(d, l)
  BY <1>1, NullAssumption DEF TimersKnown
<1> QED
  BY <1>2 DEF FollowedUp

(* Steps of the clients *)

LEMMA SubscribesFollowed ==
  ASSUME NEW c \in Client, NEW s \in Service, NEW b, Sound(b), NEW d,
         c \notin b.callbacks[s], TimersKnown(b, task),
         \A u \in Service \ {s} : FollowedUp(b, task, u),
         d = Registered(b, c, s) \/ d = [Registered(b, c, s) EXCEPT !.enabled = @ \cup {s}],
         Subscribes(c, s, d), task' = task
  PROVE  FollowUpInvariant'
<1> DEFINE r == Registered(b, c, s)
<1>1. Sound(d) /\ d.callbacks = [b.callbacks EXCEPT ![s] = @ \cup {c}]
  <2>1. Sound(r) /\ r.callbacks = [b.callbacks EXCEPT ![s] = @ \cup {c}]
    BY CallbackAdded
  <2>2. r.enabled \cup {s} \in SUBSET Service
    BY <2>1 DEF Sound, Books
  <2> HIDE DEF r
  <2>3. /\ Sound([r EXCEPT !.enabled = @ \cup {s}])
        /\ [r EXCEPT !.enabled = @ \cup {s}].callbacks = r.callbacks
    BY <2>1, <2>2, KeysSet
  <2>4. d = r \/ d = [r EXCEPT !.enabled = @ \cup {s}]
    BY DEF r
  <2> QED
    BY <2>1, <2>3, <2>4
<1>2. TimersKnown(d, task) /\ \A u \in Service : FollowedUp(d, task, u)
  BY RegisteredFollowed
<1>3. books' = d \/ books' = Forgotten(d, c, s)
  BY DEF Subscribes
<1>4. /\ TimersKnown(Forgotten(d, c, s), task)
      /\ \A u \in Service : FollowedUp(Forgotten(d, c, s), task, u)
  BY <1>1, <1>2, ForgottenFollowed
<1>5. PICK e : books' = e /\ TimersKnown(e, task) /\ \A u \in Service : FollowedUp(e, task, u)
  BY <1>2, <1>3, <1>4
<1> QED
  BY <1>5 DEF FollowUpInvariant, TimersKnown, FollowedUp, Listened

(* The dictionaries stay, or are replaced by d.                            *)
LEMMA FollowedBy ==
  ASSUME NEW d, books' = d, NEW k, task' = k, TimersKnown(d, k),
         \A s \in Service : FollowedUp(d, k, s)
  PROVE  FollowUpInvariant'
BY DEF FollowUpInvariant, TimersKnown, FollowedUp, Listened

LEMMA StartBodyFollowed ==
  ASSUME NotificationInvariant, FollowUpInvariant, NEW c \in Client, NEW s \in Service,
         client[c].kept = "none", NEW rest, StartBody(c, s, rest), task' = task
  PROVE  FollowUpInvariant'
<1> DEFINE b == WithoutTimer(books, s)
<1>0. Sound(books) /\ books \in Books
  BY DEF NotificationInvariant, ShapeOK, Sound
<1>1. Sound(b) /\ b.callbacks = books.callbacks
  BY <1>0, TimersDropped
<1>2. c \notin b.callbacks[s]
  BY <1>1, NothingKept
<1>3. /\ TimersKnown(b, task) /\ b.enabled = books.enabled
      /\ \A u \in Service \ {s} : FollowedUp(b, task, u)
  BY <1>0, TimerPopped DEF FollowUpInvariant
<1>4. CASE Subscribes(c, s, Registered(b, c, s))
  BY <1>1, <1>2, <1>3, <1>4, SubscribesFollowed
<1>5. CASE s \notin b.enabled /\ books' = b
  <2>1. \A u \in Service : FollowedUp(b, task, u)
    BY <1>3, <1>5 DEF FollowedUp
  <2> QED
    BY <1>3, <1>5, <2>1, FollowedBy
<1> QED
  BY <1>4, <1>5 DEF StartBody

LEMMA StopBodyFollowed ==
  ASSUME NotificationInvariant, FollowUpInvariant, NEW c \in Client,
         client[c].service \in Service, StopBody(c), task' = task
  PROVE  FollowUpInvariant'
<1> DEFINE s    == client[c].service
           rest == Removed(books, c, s)
<1>0. Sound(books)
  BY DEF NotificationInvariant, ShapeOK
<1>1. CASE UNCHANGED books
  BY <1>1, FollowedBy DEF FollowUpInvariant
<1>2. CASE c \in books.callbacks[s] /\ ~ UNCHANGED books
  <2>0. Sound(rest)
    BY <1>0, <1>2, CallbackRemoved
  <2>1. rest \in Books
    BY <2>0 DEF Sound
  <2>2. /\ TimersKnown(rest, task) /\ rest.armed = books.armed
        /\ \A u \in Service \ {s} : FollowedUp(rest, task, u)
    BY <1>0, RemovedFollowed DEF FollowUpInvariant
  <2>3. CASE books' = rest /\ (Listened(rest, s) \/ s \notin rest.enabled)
    <3>1. \A u \in Service : FollowedUp(rest, task, u)
      BY <2>2, <2>3 DEF FollowedUp
    <3> QED
      BY <2>2, <2>3, <3>1, FollowedBy
  <2>4. CASE \E t \in Timer : Free(t) /\ books' = Armed(rest, t, s)
    <3>1. PICK t \in Timer : Free(t) /\ books' = Armed(rest, t, s)
      BY <2>4
    <3>2. rest.armed[t] = NoService /\ task[t].at = "none"
      BY <2>2, <3>1 DEF Free
    <3> HIDE DEF rest
    <3>3. /\ TimersKnown(Armed(rest, t, s), task)
          /\ \A u \in Service : FollowedUp(Armed(rest, t, s), task, u)
      BY <2>1, <2>2, <3>2, ArmedFollowed
    <3> QED
      BY <3>1, <3>3, FollowedBy
  <2> QED
    BY <1>2, <2>3, <2>4 DEF StopBody
<1> QED
  BY <1>1, <1>2 DEF StopBody

LEMMA LeavesFollowed ==
  ASSUME NotificationInvariant, FollowUpInvariant, NEW c \in Client,
         client[c].service \in Service, books' = Forgotten(books, c, client[c].service),
         task' = task
  PROVE  FollowUpInvariant'
<1> DEFINE d == Forgotten(books, c, client[c].service)
<1>1. TimersKnown(d, task) /\ \A u \in Service : FollowedUp(d, task, u)
  BY ForgottenFollowed DEF FollowUpInvariant, NotificationInvariant, ShapeOK
<1> HIDE DEF d
<1> QED
  BY <1>1, FollowedBy DEF d

LEMMA DeviceLostFollowed ==
  ASSUME NotificationInvariant, FollowUpInvariant, DeviceLost, task' = task
  PROVE  FollowUpInvariant'
<1> DEFINE d == DeviceForgotten(books)
<1>1. books \in Books /\ books' = d
  BY DEF NotificationInvariant, ShapeOK, Sound, DeviceLost
<1>2. d.pending = Cancelled(books).pending /\ d.armed = Cancelled(books).armed /\ d.enabled = {}
  BY <1>1 DEF DeviceForgotten, Cancelled, Books
<1> HIDE DEF d
<1>3. TimersKnown(d, task) /\ \A s \in Service : FollowedUp(d, task, s)
  BY <1>1, <1>2, NothingEnabled DEF FollowUpInvariant
<1> QED
  BY <1>1, <1>3, FollowedBy

LEMMA ClientFollowed ==
  ASSUME NotificationInvariant, FollowUpInvariant, NEW c \in Client, ClientStep(c)
  PROVE  FollowUpInvariant'
<1> DEFINE s == client[c].service
<1>0. /\ Sound(books)
      /\ client[c].at # "idle" \/ client[c].kept # "none" => s \in Service
      /\ client[c].at \in {"starting", "enabling"} => client[c].kept = "none"
  BY DEF NotificationInvariant, ShapeOK, KeptFits
<1>1. CASE UNCHANGED << books, task >>
  BY <1>1, FollowedBy DEF FollowUpInvariant
<1>2. CASE Disconnect(c)
  <2>1. task' = task
    BY <1>2 DEF Disconnect
  <2>2. CASE DeviceLost
    BY <2>1, <2>2, DeviceLostFollowed
  <2>3. CASE books' = IF client[c].kept = "none" THEN books ELSE Forgotten(books, c, s)
    BY <1>0, <1>1, <2>1, <2>3, LeavesFollowed
  <2> QED
    BY <1>2, <2>2, <2>3 DEF Disconnect
<1>3. ASSUME NEW u \in Service, Start(c, u) PROVE FollowUpInvariant'
  BY <1>1, <1>3, StartBodyFollowed DEF Start
<1>4. CASE ResumeStart(c)
  BY <1>0, <1>4, StartBodyFollowed DEF ResumeStart
<1>5. CASE Enabled(c) \/ ListensLocally(c)
  <2>1. s \in Service /\ c \notin books.callbacks[s] /\ task' = task
    BY <1>0, <1>5, NothingKept DEF Enabled, ListensLocally
  <2>2. CASE Enabled(c)
    <3>1. Subscribes(c, s, [Registered(books, c, s) EXCEPT !.enabled = @ \cup {s}])
      BY <2>2 DEF Enabled
    <3> QED
      BY <1>0, <2>1, <3>1, SubscribesFollowed DEF FollowUpInvariant
  <2>3. CASE ListensLocally(c)
    <3>1. books' = Registered(books, c, s)
      BY <2>3 DEF ListensLocally
    <3>2. /\ TimersKnown(Registered(books, c, s), task)
          /\ \A u \in Service : FollowedUp(Registered(books, c, s), task, u)
      BY <1>0, <2>1, RegisteredFollowed DEF FollowUpInvariant
    <3> QED
      BY <2>1, <3>1, <3>2, FollowedBy
  <2> QED
    BY <1>5, <2>2, <2>3
<1>6. CASE EnableRefused(c) \/ StartTimesOut(c) \/ CancelQueued(c) \/ Connect(c)
  BY <1>1, <1>6 DEF EnableRefused, StartTimesOut, CancelQueued, Connect
<1>7. CASE Stop(c) \/ ResumeStop(c)
  BY <1>0, <1>1, <1>7, StopBodyFollowed DEF Stop, ResumeStop
<1>8. CASE StopLocal(c)
  BY <1>0, <1>8, LeavesFollowed DEF StopLocal
<1> QED
  BY <1>2, <1>3, <1>4, <1>5, <1>6, <1>7, <1>8 DEF ClientStep

(* Steps of the deferred disables *)

(* Timer t's task changes to `new`, and the dictionaries to d, where what  *)
(* the task was to look at is looked at, or is still to be.                *)
LEMMA TaskMovesFollowed ==
  ASSUME NotificationInvariant, FollowUpInvariant, NEW t \in Timer, NEW s \in Service,
         NEW new, new.at # "created", task[t].service = s, task[t].at # "none",
         task' = [task EXCEPT ![t] = new],
         NEW d, books' = d, d.armed = books.armed, d.callbacks = books.callbacks,
         d.enabled \subseteq books.enabled,
         \/ d.pending = books.pending /\ task[t].at # "created"
         \/ d.pending = [books.pending EXCEPT ![s] = NoTimer],
         (new.at # "none" /\ new.service = s) \/ s \notin d.enabled \/ Listened(d, s)
  PROVE  FollowUpInvariant'
<1>0. books \in Books /\ task \in [Timer -> Tasks]
  BY DEF NotificationInvariant, ShapeOK, Sound
<1>1. task'[t] = new /\ \A r \in Timer \ {t} : task'[r] = task[r]
  BY <1>0
<1>2. books.armed[t] = NoService
  BY DEF FollowUpInvariant, TimersKnown
<1>3. \A u \in Service : d.pending[u] \in {books.pending[u], NoTimer}
  BY <1>0 DEF Books
<1>4. \A u \in Service : d.pending[u] # t
  <2>1. ASSUME NEW u \in Service, books.pending[u] = t
        PROVE  u = s /\ task[t].at = "created"
    BY <1>2, <2>1, NullAssumption DEF FollowUpInvariant, TimersKnown
  <2> QED
    BY <1>0, <1>3, <2>1, NullAssumption DEF Books
<1>5. TimersKnown(d, task')
  <2>1. ASSUME NEW u \in Service, NEW r \in Timer, d.pending[u] = r
        PROVE  d.armed[r] = u \/ (task'[r].at = "created" /\ task'[r].service = u)
    BY <1>1, <1>3, <1>4, <2>1, NullAssumption DEF FollowUpInvariant, TimersKnown
  <2>2. ASSUME NEW r \in Timer, d.armed[r] # NoService
        PROVE  task'[r].at = "none"
    BY <1>1, <1>2, <2>2 DEF FollowUpInvariant, TimersKnown
  <2> QED
    BY <2>1, <2>2 DEF TimersKnown
<1>6. ASSUME NEW u \in Service PROVE FollowedUp(d, task', u)
  <2>1. CASE u = s
    BY <1>1, <2>1 DEF FollowedUp
  <2>2. CASE u # s
    BY <1>1, <1>2, <2>2, NullAssumption DEF FollowUpInvariant, FollowedUp, Listened
  <2> QED
    BY <2>1, <2>2
<1> QED
  BY <1>5, <1>6, FollowedBy

LEMMA SettledKey ==
  ASSUME NEW b \in Books, NEW s \in Service
  PROVE  LET d == Settled(b, s) IN
         /\ d.armed = b.armed /\ d.pending = b.pending /\ d.callbacks = b.callbacks
         /\ d.enabled \subseteq b.enabled
         /\ s \notin d.enabled \/ Listened(d, s)
         /\ \A u \in Service : u \in b.enabled /\ u # s => u \in d.enabled
BY DEF Settled, Listened, Books

LEMMA PoppedKey ==
  ASSUME NEW b \in Books, NEW s \in Service
  PROVE  LET d == Popped(b, s) IN
         /\ d \in Books /\ d.armed = b.armed /\ d.callbacks = b.callbacks
         /\ d.enabled = b.enabled /\ d.pending = [b.pending EXCEPT ![s] = NoTimer]
BY DEF Popped, Books

LEMMA DisableBodyFollowed ==
  ASSUME NotificationInvariant, FollowUpInvariant, NEW t \in Timer, NEW s \in Service,
         task[t].service = s, task[t].at # "none",
         NEW b \in Books, b.armed = books.armed, b.callbacks = books.callbacks,
         b.enabled = books.enabled,
         \/ b.pending = books.pending /\ task[t].at # "created"
         \/ b.pending = [books.pending EXCEPT ![s] = NoTimer],
         NEW rest, DisableBody(t, s, b, rest)
  PROVE  FollowUpInvariant'
<1>1. CASE books' = Settled(b, s) /\ TaskEnds(t)
  <2> DEFINE d == Settled(b, s)
  <2>1. /\ d.armed = b.armed /\ d.pending = b.pending /\ d.callbacks = b.callbacks
        /\ d.enabled \subseteq b.enabled /\ (s \notin d.enabled \/ Listened(d, s))
    BY SettledKey
  <2> HIDE DEF d
  <2>2. books' = d /\ task' = [task EXCEPT ![t] = NoTask] /\ NoTask.at # "created"
    BY <1>1, NoTaskIsTask DEF TaskEnds, d
  <2> QED
    BY <2>1, <2>2, TaskMovesFollowed
<1>2. CASE books' = b /\ TaskBecomes(t, "disabling", s)
  <2> DEFINE new == [at |-> "disabling", service |-> s]
  <2>1. /\ task' = [task EXCEPT ![t] = new]
        /\ new.at # "created" /\ new.at # "none" /\ new.service = s
    BY <1>2 DEF TaskBecomes
  <2>2. b.enabled \subseteq books.enabled
    OBVIOUS
  <2> HIDE DEF new
  <2> QED
    BY <1>2, <2>1, <2>2, TaskMovesFollowed
<1> QED
  BY <1>1, <1>2 DEF DisableBody

LEMMA TaskFollowed ==
  ASSUME NotificationInvariant, FollowUpInvariant, NEW t \in Timer, TaskStep(t)
  PROVE  FollowUpInvariant'
<1> DEFINE s == task[t].service
           b == Popped(books, s)
<1>0. /\ books \in Books /\ task \in [Timer -> Tasks]
      /\ task[t].at # "none" => s \in Service
  BY DEF NotificationInvariant, ShapeOK, Sound
<1>1. CASE TimerFires(t)
  <2> DEFINE u   == books.armed[t]
             new == [at |-> "created", service |-> u]
             d   == [books EXCEPT !.armed[t] = NoService]
  <2>1. /\ books' = d /\ task' = [task EXCEPT ![t] = new]
        /\ u # NoService /\ u \in Service
    BY <1>0, <1>1 DEF TimerFires, TaskBecomes, Books
  <2>2. /\ d.pending = books.pending /\ d.enabled = books.enabled
        /\ d.callbacks = books.callbacks /\ d.armed[t] = NoService
        /\ \A r \in Timer \ {t} : d.armed[r] = books.armed[r]
    BY <1>0 DEF Books
  <2>3. /\ task'[t] = new /\ new.at = "created" /\ new.service = u
        /\ \A r \in Timer \ {t} : task'[r] = task[r]
    BY <1>0, <2>1
  <2>4. task[t].at = "none"
    BY <2>1 DEF FollowUpInvariant, TimersKnown
  <2> HIDE DEF d, new
  <2>5. TimersKnown(d, task')
    <3>1. ASSUME NEW v \in Service, NEW r \in Timer, d.pending[v] = r
          PROVE  d.armed[r] = v \/ (task'[r].at = "created" /\ task'[r].service = v)
      <4>1. books.armed[r] = v \/ (task[r].at = "created" /\ task[r].service = v)
        BY <2>2, <3>1 DEF FollowUpInvariant, TimersKnown
      <4> QED
        BY <2>2, <2>3, <2>4, <4>1
    <3>2. ASSUME NEW r \in Timer, d.armed[r] # NoService
          PROVE  task'[r].at = "none"
      BY <2>2, <2>3, <3>2 DEF FollowUpInvariant, TimersKnown
    <3> QED
      BY <3>1, <3>2 DEF TimersKnown
  <2>6. ASSUME NEW v \in Service PROVE FollowedUp(d, task', v)
    <3> SUFFICES ASSUME v \in books.enabled, ~ Listened(books, v)
                 PROVE  \E r \in Timer :
                          d.armed[r] = v \/ (task'[r].at # "none" /\ task'[r].service = v)
      BY <2>2 DEF FollowedUp, Listened
    <3>1. PICK r \in Timer : books.armed[r] = v \/ (task[r].at # "none" /\ task[r].service = v)
      BY DEF FollowUpInvariant, FollowedUp
    <3>2. CASE r # t
      BY <2>2, <2>3, <3>1, <3>2
    <3>3. CASE r = t /\ books.armed[t] = v
      BY <2>3, <3>3
    <3> QED
      BY <2>4, <3>1, <3>2, <3>3
  <2> QED
    BY <2>1, <2>5, <2>6, FollowedBy
<1>2. CASE TaskRuns(t)
  <2>1. task[t].at = "created" /\ task[t].at # "none" /\ s \in Service
    BY <1>0, <1>2 DEF TaskRuns
  <2>2. /\ b \in Books /\ b.armed = books.armed /\ b.callbacks = books.callbacks
        /\ b.enabled = books.enabled /\ b.pending = [books.pending EXCEPT ![s] = NoTimer]
    BY <1>0, <2>1, PoppedKey
  <2>3. CASE DisableBody(t, s, b, << >>)
    BY <2>1, <2>2, <2>3, DisableBodyFollowed
  <2>4. CASE Unneeded(b, s) /\ books' = b /\ TaskEnds(t)
    <3>1. task' = [task EXCEPT ![t] = NoTask] /\ NoTask.at # "created"
      BY <2>4, NoTaskIsTask DEF TaskEnds
    <3>2. s \notin b.enabled \/ Listened(b, s)
      BY <2>4 DEF Unneeded
    <3> HIDE DEF b
    <3> QED
      BY <2>1, <2>2, <2>4, <3>1, <3>2, TaskMovesFollowed
  <2>5. CASE books' = b /\ TaskBecomes(t, "queued", s)
    <3> DEFINE new == [at |-> "queued", service |-> s]
    <3>1. /\ task' = [task EXCEPT ![t] = new]
          /\ new.at # "created" /\ new.at # "none" /\ new.service = s
      BY <2>5 DEF TaskBecomes
    <3>2. b.enabled \subseteq books.enabled
      BY <2>2
    <3>3. /\ books' = b /\ b.armed = books.armed /\ b.callbacks = books.callbacks
          /\ b.pending = [books.pending EXCEPT ![s] = NoTimer]
      BY <2>2, <2>5
    <3> HIDE DEF b, new
    <3> QED
      BY <2>1, <3>1, <3>2, <3>3, TaskMovesFollowed
  <2> QED
    BY <1>2, <2>3, <2>4, <2>5 DEF TaskRuns
<1>3. CASE ResumeTask(t)
  BY <1>0, <1>3, DisableBodyFollowed DEF ResumeTask
<1>4. CASE Disabled(t) \/ DisableTimesOut(t) \/ TaskCancelled(t)
  <2> DEFINE d == Settled(books, s)
  <2>1. /\ s \in Service /\ task[t].at \in {"disabling", "cancelled"}
        /\ books' = d /\ task' = [task EXCEPT ![t] = NoTask]
    BY <1>0, <1>4 DEF Disabled, DisableTimesOut, TaskCancelled, TaskEnds
  <2>2. /\ d.armed = books.armed /\ d.pending = books.pending /\ d.callbacks = books.callbacks
        /\ d.enabled \subseteq books.enabled /\ (s \notin d.enabled \/ Listened(d, s))
    BY <1>0, <2>1, SettledKey
  <2>3. NoTask.at # "created"
    BY NoTaskIsTask
  <2> HIDE DEF d
  <2> QED
    BY <2>1, <2>2, <2>3, TaskMovesFollowed
<1> QED
  BY <1>1, <1>2, <1>3, <1>4 DEF TaskStep

LEMMA StopRuntimeFollowed ==
  ASSUME NotificationInvariant, FollowUpInvariant, StopRuntime
  PROVE  FollowUpInvariant'
<1> DEFINE d == [Cancelled(books) EXCEPT !.enabled = {}]
           k == [t \in Timer |-> IF task[t].at \in {"queued", "disabling"}
                                    THEN [task[t] EXCEPT !.at = "cancelled"] ELSE NoTask]
<1>1. books' = d /\ task' = k /\ books \in Books
  BY DEF StopRuntime, NotificationInvariant, ShapeOK, Sound
<1>2. d.pending = Cancelled(books).pending /\ d.armed = Cancelled(books).armed /\ d.enabled = {}
  BY <1>1 DEF Cancelled, Books
<1>3. \A t \in Timer : task[t].at = "none" => k[t].at = "none"
  BY NoTaskIsTask
<1> HIDE DEF d, k
<1>4. TimersKnown(d, k) /\ \A s \in Service : FollowedUp(d, k, s)
  BY <1>1, <1>2, <1>3, NothingEnabled DEF FollowUpInvariant
<1> QED
  BY <1>1, <1>4, FollowedBy

LEMMA FollowUpHolds == Spec => []FollowUpInvariant
<1>1. Init => FollowUpInvariant
  BY NullAssumption DEF Init, FollowUpInvariant, TimersKnown, FollowedUp
<1>2. NotificationInvariant /\ FollowUpInvariant /\ [Next]_vars => FollowUpInvariant'
  <2> SUFFICES ASSUME NotificationInvariant, FollowUpInvariant, [Next]_vars
               PROVE  FollowUpInvariant'
    OBVIOUS
  <2>1. CASE UNCHANGED << books, task >>
    BY <2>1, FollowedBy DEF FollowUpInvariant
  <2>2. CASE LossReported \/ SourceLost \/ RuntimeStops
    BY <2>2, DeviceLostFollowed DEF LossReported, SourceLost, RuntimeStops
  <2>3. CASE LinkDrops \/ TasksAreGone \/ APActs \/ UNCHANGED vars
    BY <2>1, <2>3 DEF LinkDrops, TasksAreGone, APActs, vars
  <2> QED
    BY <2>2, <2>3, ClientFollowed, TaskFollowed, StopRuntimeFollowed DEF Next
<1> QED
  BY <1>1, <1>2, InvariantHolds, PTL DEF Spec

(* What is enabled and heard by nobody has a timer or a task that will look *)
(* at it, whatever has been popped, cancelled or rescheduled meanwhile      *)
(* (async_stop_gatt_notify, _cancel_deferred_notification_disable,         *)
(* _async_deferred_notification_disable).                                  *)
THEOREM UnheardKeysFollowedUp == Spec => []UnheardIsFollowedUp
<1>1. NotificationInvariant /\ FollowUpInvariant => UnheardIsFollowedUp
  BY DEF NotificationInvariant, ShapeOK, Sound, Books, FollowUpInvariant, FollowedUp,
         UnheardIsFollowedUp
<1> QED
  BY <1>1, InvariantHolds, FollowUpHolds, PTL

-----------------------------------------------------------------------------
(* The wire *)

Payloads == [by : Caller \cup {Nobody}, service : Service, value : BOOLEAN]

WireShapeOK ==
  /\ wire \in Seq(Payloads) /\ on \subseteq Service
  /\ answer \in [Caller -> {"none", "success", "notFound", "failed"}]

(* A result is held for a caller that waits, and then nothing is on its    *)
(* way; a payload that somebody waits for is the last.                     *)
AnswersAwaited ==
  \A x \in Caller : answer[x] # "none" => Waiting(x) /\ wire = << >>

LastIsAwaited ==
  \A i \in DOMAIN wire, x \in Caller : wire[i].by = x =>
    /\ i = Len(wire) /\ Waiting(x)
    /\ x \in Client => wire[i].service = client[x].service /\ wire[i].value
    /\ x \in Timer => wire[i].service = task[x].service /\ ~ wire[i].value

SessionsNeedDevice == connected # {} => active

(* An enable is awaited by the holder of the lock, of what nobody has.     *)
EnablesAlone ==
  \A c \in Client : client[c].at = "enabling" =>
    /\ Heads(c) /\ ~ Listened(books, client[c].service)
    /\ client[c].service \notin books.enabled

(* No disable that was given up is still to undo what is enabled.          *)
NotUndone ==
  \A i \in DOMAIN wire :
    ~ wire[i].value /\ wire[i].service \in books.enabled => wire[i].by \in Timer

SuccessIsOn ==
  \A c \in connected :
    client[c].at = "enabling" /\ answer[c] = "success" /\ linked => client[c].service \in on

WireInvariant ==
  /\ WireShapeOK
  /\ AnswersAwaited
  /\ LastIsAwaited
  /\ SessionsNeedDevice
  /\ EnablesAlone
  /\ NotUndone
  /\ SuccessIsOn
  /\ EnabledIsOn

(* Nobody but the holder of the lock waits for a result.                   *)
LEMMA OneWaits ==
  ASSUME NotificationInvariant, WireInvariant, NEW x \in Caller, line = << >> \/ Heads(x)
  PROVE  /\ \A y \in Caller : Waiting(y) => y = x
         /\ \A c \in Client : client[c].at = "enabling" => c = x
         /\ \A t \in Timer : task[t].at = "disabling" => t = x
         /\ ~ Waiting(x) => answer = [y \in Caller |-> "none"]
<1>1. \A c \in Client : client[c].at = "enabling" => c = x
  BY DEF WireInvariant, EnablesAlone, Heads
<1>2. \A t \in Timer : task[t].at = "disabling" => t = x
  BY DEF NotificationInvariant, DisablesOnlyUnheard, Heads
<1>3. \A y \in Caller : Waiting(y) => y = x
  BY <1>1, <1>2 DEF Waiting, Caller
<1>4. ~ Waiting(x) => \A y \in Caller : answer[y] = "none"
  BY <1>3 DEF WireInvariant, AnswersAwaited
<1> QED
  BY <1>1, <1>2, <1>3, <1>4 DEF WireInvariant, WireShapeOK

(* A step after which nobody waits who has not waited before.              *)
LEMMA NobodyNewWaits ==
  ASSUME NotificationInvariant, WireInvariant, WireShapeOK', NotUndone',
         \A c \in Client : client'[c].at = "enabling" =>
           client[c].at = "enabling" /\ client'[c].service = client[c].service,
         \A t \in Timer : task'[t].at = "disabling" =>
           task[t].at = "disabling" /\ task'[t].service = task[t].service,
         \A x \in Caller : answer'[x] # "none" =>
           Waiting(x)' /\ (answer[x] # "none" \/ wire' = << >>),
         \A x \in Caller : answer'[x] = "success" => answer[x] = "success",
         wire = << >> => wire' = << >>,
         \A i \in DOMAIN wire', x \in Caller : wire'[i].by = x =>
           i = Len(wire') /\ Waiting(x)' /\ i \in DOMAIN wire /\ wire'[i] = wire[i],
         connected' # {} => active',
         \A c \in connected' : c \in connected \/ client'[c].at # "enabling",
         active /\ linked' /\ (books'.enabled # {} \/ connected' # {}) => linked /\ on' = on,
         \A s \in books'.enabled \ books.enabled :
           /\ active' /\ (linked' => s \in on')
           /\ \A c \in Client : client'[c].at # "enabling",
         \A s \in books'.enabled \cap books.enabled :
           /\ active'
           /\ \A t \in Timer : task[t].at = "disabling" /\ task[t].service = s =>
                task'[t].at = "disabling" /\ task'[t].service = s,
         \A c \in Client : client'[c].at = "enabling" =>
           Heads(c)' /\ books'.callbacks[client'[c].service] = {}
  PROVE  WireInvariant'
<1> USE DEF WireInvariant
<1>1. AnswersAwaited'
  BY DEF AnswersAwaited
<1>2. LastIsAwaited'
  <2> SUFFICES ASSUME NEW i \in DOMAIN wire', NEW x \in Caller, wire'[i].by = x
      PROVE  /\ i = Len(wire') /\ Waiting(x)'
             /\ x \in Client => wire'[i].service = client'[x].service /\ wire'[i].value
             /\ x \in Timer => wire'[i].service = task'[x].service /\ ~ wire'[i].value
    BY DEF LastIsAwaited
  <2>1. i = Len(wire') /\ i \in DOMAIN wire /\ wire'[i] = wire[i] /\ Waiting(x)'
    OBVIOUS
  <2>2. /\ x \in Client => wire[i].service = client[x].service /\ wire[i].value
        /\ x \in Timer => wire[i].service = task[x].service /\ ~ wire[i].value
    BY <2>1 DEF LastIsAwaited
  <2>3. /\ x \in Client => client'[x].at = "enabling"
        /\ x \in Timer => task'[x].at = "disabling"
    BY <2>1, NullAssumption DEF Waiting
  <2> QED
    BY <2>1, <2>2, <2>3
<1>3. SessionsNeedDevice'
  BY DEF SessionsNeedDevice
<1>4. EnablesAlone'
  BY DEF EnablesAlone, Listened
<1>5. SuccessIsOn'
  <2> SUFFICES ASSUME NEW c \in connected', client'[c].at = "enabling",
                      answer'[c] = "success", linked'
               PROVE  client'[c].service \in on'
    BY DEF SuccessIsOn
  <2>1. c \in connected /\ c \in Client /\ c \in Caller
    BY DEF NotificationInvariant, ShapeOK, Caller
  <2>2. active /\ connected' # {}
    BY <2>1 DEF SessionsNeedDevice
  <2>3. linked /\ on' = on
    BY <2>2
  <2>4. client[c].at = "enabling" /\ client'[c].service = client[c].service /\ answer[c] = "success"
    BY <2>1
  <2> QED
    BY <2>1, <2>3, <2>4 DEF SuccessIsOn
<1>6. EnabledIsOn'
  <2> SUFFICES ASSUME NEW s \in books'.enabled
      PROVE  /\ active'
             /\ linked' => \/ s \in on'
                           \/ \E t \in Timer : task'[t].at = "disabling" /\ task'[t].service = s
    BY DEF EnabledIsOn
  <2>1. CASE s \notin books.enabled
    BY <2>1
  <2>2. CASE s \in books.enabled
    <3>1. active' /\ active
      BY <2>2 DEF EnabledIsOn
    <3>2. linked' => linked /\ on' = on
      BY <3>1
    <3> QED
      BY <2>2, <3>1, <3>2 DEF EnabledIsOn
  <2> QED
    BY <2>1, <2>2
<1> QED
  BY <1>1, <1>2, <1>3, <1>4, <1>5, <1>6

(* A step that concerns neither the wire nor those who wait.               *)
LEMMA WireLeft ==
  ASSUME NotificationInvariant, WireInvariant,
         UNCHANGED << wire, answer, on, linked, active >>, connected' \subseteq connected,
         books'.enabled \subseteq books.enabled,
         \A c \in Client : client'[c].at = "enabling" <=> client[c].at = "enabling",
         \A c \in Client : client[c].at = "enabling" => client'[c].service = client[c].service,
         \A t \in Timer : task'[t].at = "disabling" <=> task[t].at = "disabling",
         \A t \in Timer : task[t].at = "disabling" => task'[t].service = task[t].service,
         \A c \in Client : client[c].at = "enabling" =>
           Heads(c)' /\ books'.callbacks[client[c].service] = {}
  PROVE  WireInvariant'
<1>1. \A x \in Caller : Waiting(x)' <=> Waiting(x)
  BY DEF Waiting, Caller
<1>2. WireShapeOK'
  BY DEF WireInvariant, WireShapeOK
<1>3. NotUndone'
  BY DEF WireInvariant, NotUndone
<1>4. \A x \in Caller : answer'[x] # "none" => Waiting(x)'
  BY <1>1 DEF WireInvariant, AnswersAwaited
<1>5. \A i \in DOMAIN wire', x \in Caller : wire'[i].by = x =>
        i = Len(wire') /\ Waiting(x)' /\ i \in DOMAIN wire /\ wire'[i] = wire[i]
  BY <1>1 DEF WireInvariant, LastIsAwaited
<1>6. connected' # {} => active'
  BY DEF WireInvariant, SessionsNeedDevice
<1>7. \A s \in books.enabled : active
  BY DEF WireInvariant, EnabledIsOn
<1> QED
  BY <1>2, <1>3, <1>4, <1>5, <1>6, <1>7, NobodyNewWaits

(* The only caller that waits does so no longer, with its payload left to  *)
(* itself or never sent on.                                                *)
LEMMA GivenUpLeaves ==
  ASSUME NotificationInvariant, WireInvariant, NEW x \in Caller, Heads(x), GivenUp(x)
  PROVE  /\ wire' \in Seq(Payloads) /\ (wire = << >> => wire' = << >>)
         /\ \A j \in DOMAIN wire' :
              /\ wire'[j].by = Nobody
              /\ \E i \in DOMAIN wire : /\ wire[i].by \in {x, Nobody}
                                       /\ wire'[j].service = wire[i].service
                                       /\ wire'[j].value = wire[i].value
<1>1. wire \in Seq(Payloads) /\ \A i \in DOMAIN wire : wire[i] \in Payloads
  BY DEF WireInvariant, WireShapeOK
<1>2. \A i \in DOMAIN wire : wire[i].by = Nobody \/ (wire[i].by = x /\ i = Len(wire))
  BY <1>1, OneWaits DEF WireInvariant, LastIsAwaited, Payloads
<1>3. x # Nobody
  BY NullAssumption DEF Caller
<1>4. CASE (\A i \in DOMAIN wire : wire[i].by # x) /\ UNCHANGED wire
  BY <1>1, <1>2, <1>4
<1>5. CASE \E i \in DOMAIN wire : wire[i].by = x /\ wire' = RemoveAt(wire, i)
  <2>1. PICK i \in DOMAIN wire : wire[i].by = x /\ wire' = RemoveAt(wire, i)
    BY <1>5
  <2>2. i = Len(wire) /\ Len(wire) \in Nat
    BY <1>1, <1>2, <1>3, <2>1, LenProperties
  <2>3. /\ wire' \in Seq(Payloads) /\ Len(wire') = Len(wire) - 1
        /\ \A j \in 1 .. Len(wire) - 1 : wire'[j] = IF j < i THEN wire[j] ELSE wire[j + 1]
    BY <1>1, <2>1, RemoveAtElements
  <2>4. ASSUME NEW j \in DOMAIN wire'
        PROVE  j \in DOMAIN wire /\ j # Len(wire) /\ wire'[j] = wire[j]
    BY <1>1, <2>2, <2>3, LenProperties
  <2>5. ASSUME NEW j \in DOMAIN wire'
        PROVE  j \in DOMAIN wire /\ wire[j].by = Nobody /\ wire'[j] = wire[j]
    BY <1>2, <2>4
  <2> QED
    BY <2>1, <2>3, <2>5
<1>6. CASE \E i \in DOMAIN wire : wire[i].by = x /\ wire' = [wire EXCEPT ![i].by = Nobody]
  <2>1. PICK i \in DOMAIN wire : wire[i].by = x /\ wire' = [wire EXCEPT ![i].by = Nobody]
    BY <1>6
  <2> DEFINE q == [wire[i] EXCEPT !.by = Nobody]
  <2>2. wire' = [wire EXCEPT ![i] = q]
    BY <2>1
  <2>3. q \in Payloads /\ q.by = Nobody /\ q.service = wire[i].service /\ q.value = wire[i].value
    BY <1>1 DEF Payloads
  <2> HIDE DEF q
  <2>4. /\ wire' \in Seq(Payloads) /\ DOMAIN wire' = DOMAIN wire /\ wire'[i] = q
        /\ \A j \in DOMAIN wire : j # i => wire'[j] = wire[j]
    BY <1>1, <2>2, <2>3
  <2>5. \A j \in DOMAIN wire : j # i => wire[j].by = Nobody
    BY <1>2, <1>3, <2>1
  <2> QED
    BY <2>1, <2>3, <2>4, <2>5
<1> QED
  BY <1>4, <1>5, <1>6 DEF GivenUp

LEMMA WaitEnds ==
  ASSUME NotificationInvariant, WireInvariant, NEW x \in Caller, Heads(x), Waiting(x),
         GivenUp(x) \/ (answer[x] # "none" /\ UNCHANGED wire),
         answer' = [answer EXCEPT ![x] = "none"],
         UNCHANGED << connected, active, linked, on >>,
         \A c \in Client : client'[c].at = "enabling" => client[c].at = "enabling" /\ c # x,
         \A t \in Timer : task'[t].at = "disabling" => task[t].at = "disabling" /\ t # x,
         \A s \in books'.enabled \ books.enabled :
           active /\ (linked => s \in on) /\ wire = << >>,
         x \in Timer => task[x].service \notin books'.enabled
  PROVE  WireInvariant'
<1>1. /\ \A c \in Client : client[c].at = "enabling" => c = x
      /\ \A t \in Timer : task[t].at = "disabling" => t = x
      /\ \A y \in Caller : Waiting(y) => y = x
  BY OneWaits
<1>2. /\ \A c \in Client : client'[c].at # "enabling"
      /\ \A t \in Timer : task'[t].at # "disabling"
  BY <1>1
<1>3. answer' \in [Caller -> {"none", "success", "notFound", "failed"}]
      /\ \A y \in Caller : answer'[y] = "none"
  BY <1>1 DEF WireInvariant, WireShapeOK, AnswersAwaited
<1>4. wire' \in Seq(Payloads) /\ (wire = << >> => wire' = << >>)
  BY GivenUpLeaves DEF WireInvariant, WireShapeOK
<1>5. answer[x] # "none" => wire = << >>
  BY DEF WireInvariant, AnswersAwaited
<1>6. \A j \in DOMAIN wire' :
        /\ wire'[j].by = Nobody
        /\ \E i \in DOMAIN wire : /\ wire[i].by \in {x, Nobody}
                                 /\ wire'[j].service = wire[i].service
                                 /\ wire'[j].value = wire[i].value
  <2>1. CASE GivenUp(x)
    BY <2>1, GivenUpLeaves
  <2>2. CASE answer[x] # "none" /\ UNCHANGED wire
    BY <1>5, <2>2
  <2> QED
    BY <2>1, <2>2
<1>7. WireShapeOK'
  BY <1>3, <1>4 DEF WireInvariant, WireShapeOK
<1>8. NotUndone'
  <2> SUFFICES ASSUME NEW j \in DOMAIN wire', ~ wire'[j].value,
                      wire'[j].service \in books'.enabled
               PROVE  FALSE
    BY DEF NotUndone
  <2>1. PICK i \in DOMAIN wire : /\ wire[i].by \in {x, Nobody}
                                 /\ wire'[j].service = wire[i].service
                                 /\ wire'[j].value = wire[i].value
    BY <1>6
  <2>2. CASE wire[i].by = x
    <3>1. /\ x \in Client => wire[i].value
          /\ x \in Timer => wire[i].service = task[x].service
      BY <2>2 DEF WireInvariant, LastIsAwaited
    <3> QED
      BY <2>1, <3>1 DEF Caller
  <2>3. CASE wire[i].by = Nobody
    <3>1. wire[i].service \notin books.enabled
      BY <2>1, <2>3, NullAssumption DEF WireInvariant, NotUndone
    <3>2. wire = << >>
      BY <2>1, <3>1
    <3> QED
      BY <2>1, <3>2
  <2> QED
    BY <2>1, <2>2, <2>3
<1>9. \A i \in DOMAIN wire', y \in Caller : wire'[i].by # y
  BY <1>6, NullAssumption DEF Caller
<1>10. /\ connected' # {} => active'
       /\ \A s \in books.enabled : active
  BY DEF WireInvariant, SessionsNeedDevice, EnabledIsOn
<1>11. \A s \in books'.enabled, t \in Timer :
         ~ (task[t].at = "disabling" /\ task[t].service = s)
  BY <1>1
<1> QED
  BY <1>2, <1>3, <1>4, <1>7, <1>8, <1>9, <1>10, <1>11, NobodyNewWaits

(* The holder of the lock sends a payload and waits for its result.        *)
LEMMA WaitBegins ==
  ASSUME NotificationInvariant, WireInvariant, NEW x \in Caller, line = << >> \/ Heads(x),
         ~ Waiting(x), Heads(x)', Waiting(x)',
         NEW s \in Service, NEW value \in BOOLEAN, Send(x, s, value),
         UNCHANGED << answer, connected, active, linked, on >>,
         books'.enabled \subseteq books.enabled,
         \A c \in Client : client'[c].at = "enabling" => c = x \/ client[c].at = "enabling",
         \A t \in Timer : task'[t].at = "disabling" => t = x \/ task[t].at = "disabling",
         x \in Client => /\ value /\ client'[x].service = s
                        /\ s \notin books'.enabled /\ books'.callbacks[s] = {},
         x \in Timer => ~ value /\ task'[x].service = s
  PROVE  WireInvariant'
<1> DEFINE p == [by |-> x, service |-> s, value |-> value]
<1> USE DEF WireInvariant
<1>1. /\ \A y \in Caller : Waiting(y) => y = x
      /\ \A c \in Client : client[c].at = "enabling" => c = x
      /\ \A t \in Timer : task[t].at = "disabling" => t = x
      /\ \A y \in Caller : answer[y] = "none"
  BY OneWaits
<1>2. wire \in Seq(Payloads) /\ \A i \in DOMAIN wire : wire[i] \in Payloads
  BY DEF WireShapeOK
<1>3. p \in Payloads /\ p.by = x /\ p.service = s /\ p.value = value
  BY DEF Payloads
<1>4. wire' = Append(wire, p)
  BY DEF Send
<1> HIDE DEF p
<1>5. /\ wire' \in Seq(Payloads) /\ Len(wire') = Len(wire) + 1 /\ wire'[Len(wire')] = p
      /\ \A i \in DOMAIN wire' : i = Len(wire') \/ (i \in DOMAIN wire /\ wire'[i] = wire[i])
  BY <1>2, <1>3, <1>4, AppendProperties, LenProperties
<1>6. \A i \in DOMAIN wire, y \in Caller : wire[i].by # y
  BY <1>1 DEF LastIsAwaited
<1>7. /\ \A c \in Client : client'[c].at = "enabling" => c = x
      /\ \A t \in Timer : task'[t].at = "disabling" => t = x
      /\ \A t \in Timer : task[t].at # "disabling"
  BY <1>1, NullAssumption DEF Waiting
<1>8. WireShapeOK' /\ AnswersAwaited'
  BY <1>1, <1>5 DEF WireShapeOK, AnswersAwaited
<1>9. LastIsAwaited'
  <2> SUFFICES ASSUME NEW i \in DOMAIN wire', NEW y \in Caller, wire'[i].by = y
      PROVE  /\ i = Len(wire') /\ Waiting(y)'
             /\ y \in Client => wire'[i].service = client'[y].service /\ wire'[i].value
             /\ y \in Timer => wire'[i].service = task'[y].service /\ ~ wire'[i].value
    BY DEF LastIsAwaited
  <2>1. i = Len(wire') /\ wire'[i] = p
    BY <1>5, <1>6
  <2> QED
    BY <1>3, <2>1
<1>10. SessionsNeedDevice' /\ SuccessIsOn'
  BY <1>1 DEF SessionsNeedDevice, SuccessIsOn, NotificationInvariant, ShapeOK, Caller
<1>11. EnablesAlone'
  BY <1>7 DEF EnablesAlone, Listened
<1>12. NotUndone'
  <2> SUFFICES ASSUME NEW i \in DOMAIN wire', ~ wire'[i].value,
                      wire'[i].service \in books'.enabled
               PROVE  wire'[i].by \in Timer
    BY DEF NotUndone
  <2>1. CASE i = Len(wire')
    BY <1>3, <1>5, <2>1 DEF Caller
  <2>2. CASE i \in DOMAIN wire /\ wire'[i] = wire[i]
    BY <2>2 DEF NotUndone
  <2> QED
    BY <1>5, <2>1, <2>2
<1>13. EnabledIsOn'
  BY <1>7 DEF EnabledIsOn
<1> QED
  BY <1>8, <1>9, <1>10, <1>11, <1>12, <1>13

(* The AP acts on a payload that somebody waits for, or on one given up.   *)
LEMMA APActsWire ==
  ASSUME NotificationInvariant, WireInvariant, APActs
  PROVE  WireInvariant'
<1> DEFINE p == wire[1]
<1> USE DEF WireInvariant
<1>1. /\ wire # << >> /\ wire' = Tail(wire) /\ wire \in Seq(Payloads)
      /\ UNCHANGED << books, task, client, connected, active, line, linked >>
  BY DEF APActs, WireShapeOK
<1>2. /\ 1 \in DOMAIN wire /\ p \in Payloads /\ Head(wire) = p
      /\ wire' \in Seq(Payloads) /\ Len(wire') = Len(wire) - 1 /\ Len(wire) \in Nat
      /\ \A i \in DOMAIN wire' : i + 1 \in DOMAIN wire /\ wire'[i] = wire[i + 1]
  BY <1>1, HeadTailProperties, EmptySeq, LenProperties
<1>3. \A x \in Caller : answer[x] = "none"
  BY <1>1 DEF AnswersAwaited
<1>4. p.by \in Caller =>
        /\ Len(wire) = 1 /\ Waiting(p.by) /\ wire' = << >>
        /\ p.by \in Client => p.service = client[p.by].service /\ p.value
        /\ p.by \in Timer => p.service = task[p.by].service /\ ~ p.value
  BY <1>2, EmptySeq DEF LastIsAwaited
<1>5. p.by \in Caller \/ p.by = Nobody
  BY <1>2 DEF Payloads
<1>6. /\ \/ /\ linked
            /\ on' = IF p.value THEN on \cup {p.service} ELSE on \ {p.service}
            /\ Result(p.by, "success") \/ UNCHANGED answer
         \/ /\ \E status \in {"notFound", "failed"} : Result(p.by, status)
            /\ UNCHANGED on
  BY <1>2 DEF APActs
<1>7. /\ answer' \in [Caller -> {"none", "success", "notFound", "failed"}]
      /\ \A x \in Caller : answer'[x] # "none" => x = p.by
  <2>1. ASSUME NEW status \in {"success", "notFound", "failed"}, Result(p.by, status)
        PROVE  /\ answer' \in [Caller -> {"none", "success", "notFound", "failed"}]
               /\ \A x \in Caller : answer'[x] # "none" => x = p.by
    BY <1>3, <1>5, <2>1 DEF Result, WireShapeOK
  <2>2. CASE UNCHANGED answer
    BY <1>3, <2>2 DEF WireShapeOK
  <2> QED
    BY <1>6, <2>1, <2>2
<1>8. on' \subseteq Service
  BY <1>2, <1>6 DEF WireShapeOK, Payloads
<1>9. \A x \in Caller : answer'[x] = "success" =>
        linked /\ on' = IF p.value THEN on \cup {p.service} ELSE on \ {p.service}
  <2>1. ASSUME NEW status \in {"notFound", "failed"}, Result(p.by, status)
        PROVE  \A x \in Caller : answer'[x] # "success"
    BY <1>3, <1>5, <2>1 DEF Result, WireShapeOK
  <2> QED
    BY <1>6, <2>1
<1> HIDE DEF p
<1>10. \A x \in Caller : Waiting(x)' <=> Waiting(x)
  BY <1>1 DEF Waiting
<1>11. WireShapeOK' /\ AnswersAwaited'
  BY <1>2, <1>4, <1>7, <1>8, <1>10 DEF WireShapeOK, AnswersAwaited
<1>12. LastIsAwaited'
  <2> SUFFICES ASSUME NEW i \in DOMAIN wire', NEW x \in Caller, wire'[i].by = x
      PROVE  /\ i = Len(wire') /\ Waiting(x)'
             /\ x \in Client => wire'[i].service = client'[x].service /\ wire'[i].value
             /\ x \in Timer => wire'[i].service = task'[x].service /\ ~ wire'[i].value
    BY DEF LastIsAwaited
  <2>1. i + 1 \in DOMAIN wire /\ wire'[i] = wire[i + 1] /\ i \in Nat
    BY <1>2, LenProperties
  <2>2. /\ i + 1 = Len(wire) /\ Waiting(x)
        /\ x \in Client => wire'[i].service = client[x].service /\ wire'[i].value
        /\ x \in Timer => wire'[i].service = task[x].service /\ ~ wire'[i].value
    BY <2>1 DEF LastIsAwaited
  <2> QED
    BY <1>1, <1>2, <1>10, <2>1, <2>2
<1>13. SessionsNeedDevice' /\ EnablesAlone'
  BY <1>1 DEF SessionsNeedDevice, EnablesAlone, Listened, Heads
<1>14. NotUndone'
  BY <1>1, <1>2 DEF NotUndone
<1>15. SuccessIsOn'
  <2> SUFFICES ASSUME NEW c \in connected, client[c].at = "enabling", answer'[c] = "success"
               PROVE  client[c].service \in on'
    BY <1>1 DEF SuccessIsOn
  <2>1. c \in Caller /\ c \in Client
    BY DEF NotificationInvariant, ShapeOK, Caller
  <2>2. c = p.by
    BY <1>7, <2>1
  <2> QED
    BY <1>4, <1>9, <2>1, <2>2
<1>16. EnabledIsOn'
  <2> SUFFICES ASSUME NEW s \in books.enabled, linked, s \in on, s \notin on'
               PROVE  \E t \in Timer : task[t].at = "disabling" /\ task[t].service = s
    BY <1>1 DEF EnabledIsOn
  <2>1. ~ p.value /\ p.service = s
    BY <1>6
  <2>2. p.by \in Timer
    BY <1>2, <2>1 DEF NotUndone, p
  <2>3. Waiting(p.by) /\ task[p.by].service = s
    BY <1>4, <2>1, <2>2 DEF Caller
  <2> QED
    BY <2>2, <2>3, NullAssumption DEF Waiting
<1> QED
  BY <1>11, <1>12, <1>13, <1>14, <1>15, <1>16

(* The device or the link goes.                                            *)
LEMMA DeviceLostWire ==
  ASSUME NotificationInvariant, WireInvariant, DeviceLost, UNCHANGED << task, line >>,
         on' \subseteq Service
  PROVE  WireInvariant'
<1>1. /\ books' = DeviceForgotten(books) /\ wire' = << >> /\ connected' = {}
      /\ client' = [c \in Client |-> IF c \in connected THEN Bereft(c) ELSE client[c]]
      /\ answer' = [x \in Caller |->
                      IF Waiting(x) /\ answer[x] = "none" THEN "failed" ELSE answer[x]]
      /\ Sound(books) /\ client \in [Client -> Calls]
  BY DEF DeviceLost, NotificationInvariant, ShapeOK
<1>2. books'.enabled = {} /\ \A s \in Service : books'.callbacks[s] = {}
  <2>1. DeviceForgotten(books).enabled = {}
    BY <1>1 DEF DeviceForgotten, Cancelled, Sound, Books
  <2> QED
    BY <1>1, <2>1, CallbacksCleared, ZenonT(30)
<1>3. \A c \in Client :
        /\ client'[c].at = client[c].at
        /\ client[c].at # "idle" => client'[c].service = client[c].service
  BY <1>1, NoCallIsCall DEF Bereft, Calls
<1>4. \A x \in Caller : Waiting(x)' <=> Waiting(x)
  BY <1>3 DEF Waiting
<1>5. WireShapeOK'
  BY <1>1 DEF WireInvariant, WireShapeOK
<1>6. \A x \in Caller : answer'[x] # "none" => Waiting(x)'
  BY <1>1, <1>4 DEF WireInvariant, AnswersAwaited
<1>7. \A x \in Caller : answer'[x] = "success" => answer[x] = "success"
  BY <1>1
<1>8. NotUndone' /\ DOMAIN wire' = {}
  BY <1>1 DEF NotUndone
<1>9. \A c \in Client : client'[c].at = "enabling" =>
        /\ client[c].at = "enabling" /\ client'[c].service = client[c].service
        /\ Heads(c)' /\ books'.callbacks[client'[c].service] = {}
  <2> SUFFICES ASSUME NEW c \in Client, client'[c].at = "enabling"
      PROVE  /\ client[c].at = "enabling" /\ client'[c].service = client[c].service
             /\ Heads(c)' /\ books'.callbacks[client'[c].service] = {}
    OBVIOUS
  <2>1. client[c].at = "enabling" /\ client'[c].service = client[c].service
    BY <1>3
  <2>2. Heads(c) /\ client[c].service \in Service
    BY <2>1 DEF WireInvariant, EnablesAlone, NotificationInvariant, KeptFits
  <2> QED
    BY <1>2, <2>1, <2>2 DEF Heads
<1> QED
  BY <1>1, <1>2, <1>5, <1>6, <1>7, <1>8, <1>9, NobodyNewWaits

LEMMA LinkWire ==
  ASSUME NotificationInvariant, WireInvariant, UNCHANGED << books, task, client, line, answer, wire >>,
         \/ /\ \E c \in Client : client[c].at = "idle" /\ connected' = connected \cup {c}
            /\ active' = TRUE /\ (active => linked) /\ UNCHANGED on
         \/ linked' = FALSE /\ on' = {} /\ UNCHANGED << connected, active >>
  PROVE  WireInvariant'
<1>1. \A x \in Caller : Waiting(x)' <=> Waiting(x)
  BY DEF Waiting
<1>2. WireShapeOK' /\ NotUndone'
  BY DEF WireInvariant, WireShapeOK, NotUndone
<1>3. \A x \in Caller : answer'[x] # "none" => Waiting(x)'
  BY <1>1 DEF WireInvariant, AnswersAwaited
<1>4. \A i \in DOMAIN wire', x \in Caller : wire'[i].by = x =>
        i = Len(wire') /\ Waiting(x)' /\ i \in DOMAIN wire /\ wire'[i] = wire[i]
  BY <1>1 DEF WireInvariant, LastIsAwaited
<1>5. /\ connected' # {} => active'
      /\ \A s \in books.enabled : active'
      /\ \A c \in connected' : c \in connected \/ client'[c].at # "enabling"
  BY DEF WireInvariant, SessionsNeedDevice, EnabledIsOn
<1>6. active /\ linked' => linked /\ on' = on
  OBVIOUS
<1>7. \A c \in Client : client'[c].at = "enabling" =>
        Heads(c)' /\ books'.callbacks[client'[c].service] = {}
  BY DEF WireInvariant, EnablesAlone, Listened, Heads
<1> QED
  BY <1>2, <1>3, <1>4, <1>5, <1>6, <1>7, NobodyNewWaits

(* The runtime gives up its disables: their payloads are on their own.     *)
LEMMA StopRuntimeWire ==
  ASSUME NotificationInvariant, WireInvariant, StopRuntime
  PROVE  WireInvariant'
<1>1. /\ books' = [Cancelled(books) EXCEPT !.enabled = {}]
      /\ \A t \in Timer : task'[t] = IF task[t].at \in {"queued", "disabling"}
                                     THEN [task[t] EXCEPT !.at = "cancelled"] ELSE NoTask
      /\ answer' = [x \in Caller |-> IF x \in Timer THEN "none" ELSE answer[x]]
      /\ wire' = [i \in DOMAIN wire |->
                     IF wire[i].by \in Timer THEN [wire[i] EXCEPT !.by = Nobody] ELSE wire[i]]
      /\ UNCHANGED << client, connected, active, line, linked, on >>
      /\ Sound(books) /\ task \in [Timer -> Tasks] /\ wire \in Seq(Payloads)
  BY DEF StopRuntime, NotificationInvariant, ShapeOK, WireInvariant, WireShapeOK
<1>2. books'.enabled = {} /\ books'.callbacks = books.callbacks
  BY <1>1 DEF Cancelled, Sound, Books
<1>3. ASSUME NEW t \in Timer PROVE task'[t].at # "disabling"
  <2>1. task[t] \in Tasks
    BY <1>1
  <2> QED
    BY <1>1, <2>1, NoTaskIsTask DEF Tasks
<1>4. /\ wire' \in Seq(Payloads) /\ DOMAIN wire' = DOMAIN wire /\ Len(wire') = Len(wire)
      /\ \A i \in DOMAIN wire : wire'[i] = wire[i] \/ wire'[i].by = Nobody
      /\ \A i \in DOMAIN wire : wire'[i].by \notin Timer
  <2>1. \A i \in DOMAIN wire : wire[i] \in Payloads
    BY <1>1
  <2>2. \A i \in DOMAIN wire :
          /\ wire'[i] \in Payloads
          /\ wire'[i] = wire[i] \/ wire'[i].by = Nobody
          /\ wire'[i].by \notin Timer
    BY <1>1, <2>1, NullAssumption DEF Payloads
  <2>3. DOMAIN wire = 1 .. Len(wire) /\ Len(wire) \in Nat
    BY <1>1, LenProperties
  <2>4. wire' \in [1 .. Len(wire) -> Payloads]
    BY <1>1, <2>2, <2>3
  <2>5. wire' \in Seq(Payloads) /\ Len(wire') = Len(wire)
    BY <2>3, <2>4, SeqDef, LenProperties
  <2> QED
    BY <1>1, <2>2, <2>5
<1>5. WireShapeOK'
  BY <1>1, <1>4 DEF WireInvariant, WireShapeOK
<1>6. NotUndone'
  BY <1>2 DEF NotUndone
<1>7. ASSUME NEW x \in Caller, Waiting(x), x \notin Timer
      PROVE  Waiting(x)'
  BY <1>1, <1>7 DEF Waiting, Caller
<1>8. \A x \in Caller : answer'[x] # "none" =>
        Waiting(x)' /\ answer[x] # "none"
  BY <1>1, <1>7 DEF WireInvariant, AnswersAwaited
<1>9. \A i \in DOMAIN wire', x \in Caller : wire'[i].by = x =>
        i = Len(wire') /\ Waiting(x)' /\ i \in DOMAIN wire /\ wire'[i] = wire[i]
  <2> SUFFICES ASSUME NEW i \in DOMAIN wire, NEW x \in Caller, wire'[i].by = x
      PROVE  i = Len(wire') /\ Waiting(x)' /\ wire'[i] = wire[i]
    BY <1>4
  <2>1. x \notin Timer /\ x # Nobody
    BY <1>4, NullAssumption DEF Caller
  <2>2. wire'[i] = wire[i]
    BY <1>4, <2>1
  <2>3. i = Len(wire) /\ Waiting(x)
    BY <2>2 DEF WireInvariant, LastIsAwaited
  <2> QED
    BY <1>4, <1>7, <2>1, <2>2, <2>3
<1>10. wire = << >> => wire' = << >>
  BY <1>1, <1>4, EmptySeq
<1>11. connected' # {} => active'
  BY <1>1 DEF WireInvariant, SessionsNeedDevice
<1>12. \A c \in Client : client'[c].at = "enabling" =>
         Heads(c)' /\ books'.callbacks[client'[c].service] = {}
  BY <1>1, <1>2 DEF WireInvariant, EnablesAlone, Listened, Heads
<1>13. \A x \in Caller : answer'[x] = "success" => answer[x] = "success"
  BY <1>1
<1> QED
  BY <1>1, <1>2, <1>3, <1>5, <1>6, <1>8, <1>9, <1>10, <1>11, <1>12, <1>13, NobodyNewWaits

(* Steps of the clients *)

LEMMA ForgottenKeys ==
  ASSUME NEW b, Sound(b), NEW c \in Client, NEW s \in Service
  PROVE  LET d == Forgotten(b, c, s) IN
         /\ d.enabled \subseteq b.enabled
         /\ c \in b.callbacks[s] /\ b.callbacks[s] \subseteq {c} => s \notin d.enabled
<1> DEFINE r == Removed(b, c, s)
           w == WithoutTimer(r, s)
           d == Forgotten(b, c, s)
<1>1. CASE c \notin b.callbacks[s]
  BY <1>1 DEF Forgotten
<1>2. CASE c \in b.callbacks[s]
  <2>1. /\ Sound(r) /\ r.enabled = b.enabled
        /\ r.callbacks = [b.callbacks EXCEPT ![s] = @ \ {c}]
    BY <1>2, CallbackRemoved, RemovedFollowed
  <2>2. b.callbacks \in [Service -> SUBSET Client]
    BY DEF Sound, Books
  <2>3. CASE Listened(r, s)
    <3>1. d = r
      BY <1>2, <2>3 DEF Forgotten
    <3>2. ~ (b.callbacks[s] \subseteq {c})
      BY <2>1, <2>2, <2>3 DEF Listened
    <3> QED
      BY <2>1, <3>1, <3>2
  <2>4. CASE ~ Listened(r, s)
    <3>1. d = [w EXCEPT !.enabled = @ \ {s}]
      BY <1>2, <2>4 DEF Forgotten
    <3>2. w \in Books /\ w.enabled = r.enabled
      <4> HIDE DEF r
      <4>1. r \in Books
        BY <2>1 DEF Sound
      <4> QED
        BY <4>1 DEF WithoutTimer, Books
    <3> HIDE DEF d, w
    <3>3. d.enabled = w.enabled \ {s}
      BY <3>1, <3>2 DEF Books
    <3> QED
      BY <2>1, <3>2, <3>3 DEF d
  <2> QED
    BY <2>3, <2>4
<1> QED
  BY <1>1, <1>2

(* The holder of the lock, who has not waited, goes on without a payload.  *)
LEMMA HolderLeavesWire ==
  ASSUME NotificationInvariant, WireInvariant, NEW x \in Caller, line = << >> \/ Heads(x),
         ~ Waiting(x),
         UNCHANGED << wire, answer, on, linked, active, connected >>,
         books'.enabled \subseteq books.enabled,
         \A c \in Client : client'[c].at = "enabling" => c # x /\ client[c].at = "enabling",
         \A t \in Timer : task'[t].at = "disabling" => t # x /\ task[t].at = "disabling"
  PROVE  WireInvariant'
<1>1. /\ \A c \in Client : client[c].at = "enabling" => c = x
      /\ \A t \in Timer : task[t].at = "disabling" => t = x
  BY OneWaits
<1>2. /\ \A c \in Client : client[c].at # "enabling" /\ client'[c].at # "enabling"
      /\ \A t \in Timer : task[t].at # "disabling" /\ task'[t].at # "disabling"
  BY <1>1, NullAssumption DEF Waiting
<1> QED
  BY <1>2, WireLeft

LEMMA StartBodyWire ==
  ASSUME NotificationInvariant, WireInvariant, NEW c \in Client, NEW s \in Service,
         client[c].kept = "none", client[c].at # "enabling", line = << >> \/ Heads(c),
         NEW rest \in Seq(Caller), StartBody(c, s, rest),
         UNCHANGED << task, connected, active, answer, linked, on >>
  PROVE  WireInvariant'
<1> DEFINE b == WithoutTimer(books, s)
<1>1. /\ Sound(books) /\ books \in Books /\ client \in [Client -> Calls]
      /\ c \in Caller /\ ~ Waiting(c) /\ c \notin Timer
  BY NullAssumption DEF NotificationInvariant, ShapeOK, Sound, Caller, Waiting
<1>2. Sound(b) /\ b.callbacks = books.callbacks /\ b.enabled = books.enabled
  <2>1. b.enabled = books.enabled
    BY <1>1 DEF WithoutTimer, Books
  <2> QED
    BY <1>1, <2>1, TimersDropped
<1>3. c \notin b.callbacks[s]
  BY <1>2, NothingKept
<1>4. CASE Subscribes(c, s, Registered(b, c, s)) /\ UNCHANGED wire
  <2> DEFINE r == Registered(b, c, s)
  <2>1. Sound(r)
    BY <1>2, <1>3, CallbackAdded
  <2>2. r.enabled = b.enabled
    BY <1>2 DEF Registered, Sound, Books
  <2>3. Subscribes(c, s, r)
    BY <1>4
  <2> HIDE DEF b, r
  <2>4. Forgotten(r, c, s).enabled \subseteq r.enabled
    BY <2>1, ForgottenKeys
  <2>5. books'.enabled \subseteq books.enabled
    BY <1>2, <2>2, <2>3, <2>4 DEF Subscribes
  <2>6. \A e \in Client : client'[e].at = "enabling" => e # c /\ client[e].at = "enabling"
    BY <1>1, <2>3, NoCallIsCall DEF Subscribes, Becomes, Returns
  <2>7. \A t \in Timer : task'[t].at = "disabling" => t # c /\ task[t].at = "disabling"
    BY <1>1
  <2> QED
    BY <1>1, <1>4, <2>5, <2>6, <2>7, HolderLeavesWire
<1>5. CASE /\ ~ (Listened(b, s) \/ s \in b.enabled) /\ books' = b
           /\ Becomes(c, "enabling", s, "none") /\ line' = << c >> \o rest
           /\ Send(c, s, TRUE)
  <2>1. /\ client'[c].at = "enabling" /\ client'[c].service = s
        /\ \A e \in Client \ {c} : client'[e] = client[e]
    BY <1>1, <1>5 DEF Becomes
  <2>2. Heads(c)'
    BY <1>1, <1>5, FrontLeaves DEF Heads
  <2>3. Waiting(c)'
    BY <2>1 DEF Waiting
  <2>4. s \notin books'.enabled /\ books'.callbacks[s] = {} /\ books'.enabled \subseteq books.enabled
    BY <1>2, <1>5 DEF Listened
  <2> QED
    BY <1>1, <1>5, <2>1, <2>2, <2>3, <2>4, WaitBegins
<1>6. CASE books' = b /\ Returns(c) /\ UNCHANGED wire
  <2>1. \A e \in Client : client'[e].at = "enabling" => e # c /\ client[e].at = "enabling"
    BY <1>1, <1>6, NoCallIsCall DEF Returns
  <2>2. \A t \in Timer : task'[t].at = "disabling" => t # c /\ task[t].at = "disabling"
    BY <1>1
  <2>3. books'.enabled \subseteq books.enabled
    BY <1>2, <1>6
  <2> QED
    BY <1>1, <1>6, <2>1, <2>2, <2>3, HolderLeavesWire
<1> QED
  BY <1>4, <1>5, <1>6 DEF StartBody

(* The client that waits takes its result, or gives up.                    *)
LEMMA AnswerWire ==
  ASSUME NotificationInvariant, WireInvariant, NEW c \in Client,
         Enabled(c) \/ ListensLocally(c) \/ EnableRefused(c) \/ StartTimesOut(c)
  PROVE  WireInvariant'
<1> DEFINE s == client[c].service
<1>1. /\ Heads(c) /\ client[c].at = "enabling" /\ AnswerTaken(c)
      /\ UNCHANGED << task, connected, active, linked, on >>
      /\ GivenUp(c) \/ (answer[c] # "none" /\ UNCHANGED wire)
  BY DEF Enabled, ListensLocally, EnableRefused, StartTimesOut, apVars
<1>2. /\ Sound(books) /\ client \in [Client -> Calls] /\ c \in Caller /\ c \notin Timer
      /\ Waiting(c) /\ s \in Service /\ client[c].kept = "none"
  BY <1>1, NullAssumption
  DEF NotificationInvariant, ShapeOK, KeptFits, Caller, Waiting
<1>3. c \notin books.callbacks[s] /\ books.callbacks[s] = {} /\ s \notin books.enabled
  BY <1>1, <1>2, NothingKept DEF WireInvariant, EnablesAlone, Listened
<1>4. \A e \in Client : client'[e].at = "enabling" => client[e].at = "enabling" /\ e # c
  BY <1>2, NoCallIsCall
  DEF Enabled, ListensLocally, EnableRefused, StartTimesOut, Subscribes, Becomes, Returns
<1>5. \A u \in books'.enabled \ books.enabled :
        active /\ (linked => u \in on) /\ wire = << >>
  <2>1. CASE Enabled(c)
    <3> DEFINE r == Registered(books, c, s)
               b == [r EXCEPT !.enabled = @ \cup {s}]
    <3>1. Subscribes(c, s, b) /\ answer[c] = "success"
      BY <2>1 DEF Enabled
    <3>2. Sound(r) /\ r.callbacks = [books.callbacks EXCEPT ![s] = @ \cup {c}]
      BY <1>2, <1>3, CallbackAdded
    <3>3. r.enabled = books.enabled /\ r.enabled \cup {s} \in SUBSET Service
      BY <1>2 DEF Registered, Sound, Books
    <3> HIDE DEF r
    <3>4. Sound(b) /\ b.callbacks = r.callbacks /\ b.enabled = books.enabled \cup {s}
      <4>1. Sound(b) /\ b.callbacks = r.callbacks
        BY <3>2, <3>3, KeysSet
      <4>2. b.enabled = r.enabled \cup {s}
        BY <3>2 DEF Sound, Books
      <4> QED
        BY <3>3, <4>1, <4>2
    <3> HIDE DEF b
    <3>5. b.callbacks[s] = {c}
      BY <1>2, <1>3, <3>2, <3>4 DEF Sound, Books
    <3>6. wire = << >>
      BY <1>2, <3>1 DEF WireInvariant, AnswersAwaited
    <3>7. CASE c \in connected /\ active
      <4>1. books' = b
        BY <3>1, <3>7 DEF Subscribes
      <4>2. linked => s \in on
        BY <1>1, <3>1, <3>7 DEF WireInvariant, SuccessIsOn
      <4> QED
        BY <3>4, <3>6, <3>7, <4>1, <4>2
    <3>8. CASE ~ (c \in connected /\ active)
      <4>1. books' = Forgotten(b, c, s)
        BY <3>1, <3>8 DEF Subscribes
      <4>2. books'.enabled \subseteq b.enabled /\ s \notin books'.enabled
        BY <1>2, <3>4, <3>5, <4>1, ForgottenKeys
      <4> QED
        BY <3>4, <4>2
    <3> QED
      BY <3>7, <3>8
  <2>2. CASE ListensLocally(c)
    <3>1. books' = Registered(books, c, s)
      BY <2>2 DEF ListensLocally
    <3>2. books'.enabled = books.enabled
      BY <1>2, <3>1 DEF Registered, Sound, Books
    <3> QED
      BY <3>2
  <2>3. CASE EnableRefused(c) \/ StartTimesOut(c)
    BY <2>3 DEF EnableRefused, StartTimesOut
  <2> QED
    BY <2>1, <2>2, <2>3
<1> QED
  BY <1>1, <1>2, <1>4, <1>5, WaitEnds DEF AnswerTaken

(* A client that has not waited does what the wire does not see.           *)
LEMMA ClientUnseen ==
  ASSUME NotificationInvariant, WireInvariant, NEW c \in Client, client[c].at # "enabling",
         NEW call, call.at # "enabling", client' = [client EXCEPT ![c] = call],
         UNCHANGED << task, wire, answer, on, linked, active >>, connected' \subseteq connected,
         books'.enabled \subseteq books.enabled,
         \A s \in Service : books'.callbacks[s] \subseteq books.callbacks[s],
         \/ line = << >> \/ Heads(c)
         \/ line # << >> => line' # << >> /\ Head(line') = Head(line)
  PROVE  WireInvariant'
<1>1. client \in [Client -> Calls] /\ c \in Caller
  BY DEF NotificationInvariant, ShapeOK, Caller
<1>2. \A e \in Client : client[e].at = "enabling" =>
        /\ e # c /\ Heads(e) /\ client[e].service \in Service
        /\ books.callbacks[client[e].service] = {}
  BY DEF WireInvariant, EnablesAlone, NotificationInvariant, KeptFits, Listened
<1>3. \A e \in Client : client[e].at = "enabling" => Heads(e)'
  BY <1>2 DEF Heads
<1>4. \A e \in Client :
        /\ client'[e].at = "enabling" <=> client[e].at = "enabling"
        /\ client[e].at = "enabling" => client'[e] = client[e]
  BY <1>1
<1>5. \A e \in Client : client[e].at = "enabling" =>
        Heads(e)' /\ books'.callbacks[client[e].service] = {}
  BY <1>2, <1>3
<1> QED
  BY <1>4, <1>5, WireLeft

LEMMA StopBodyKeys ==
  ASSUME Sound(books), NEW c \in Client, client[c].service \in Service, StopBody(c)
  PROVE  books'.enabled \subseteq books.enabled
<1> DEFINE s    == client[c].service
           rest == Removed(books, c, s)
<1>1. CASE UNCHANGED books
  BY <1>1
<1>2. CASE c \in books.callbacks[s] /\ ~ UNCHANGED books
  <2>1. Sound(rest) /\ rest.enabled = books.enabled
    BY <1>2, CallbackRemoved, RemovedFollowed
  <2>2. books' = rest \/ \E t \in Timer : books' = Armed(rest, t, s)
    BY <1>2 DEF StopBody
  <2> HIDE DEF rest
  <2>3. ASSUME NEW t \in Timer PROVE Armed(rest, t, s).enabled = rest.enabled
    <3> DEFINE w == WithoutTimer(rest, s)
    <3>0. rest \in Books
      BY <2>1 DEF Sound
    <3>1. w \in Books /\ w.enabled = rest.enabled
      BY <3>0 DEF WithoutTimer, Books
    <3>2. Armed(rest, t, s) = [w EXCEPT !.pending[s] = t, !.armed[t] = s]
      BY DEF Armed
    <3> HIDE DEF w
    <3> QED
      BY <3>1, <3>2 DEF Books
  <2> QED
    BY <2>1, <2>2, <2>3
<1> QED
  BY <1>1, <1>2 DEF StopBody

LEMMA ClientWire ==
  ASSUME NotificationInvariant, WireInvariant, NEW c \in Client, ClientStep(c)
  PROVE  WireInvariant'
<1> DEFINE s == client[c].service
<1>1. /\ Sound(books) /\ books.callbacks \in [Service -> SUBSET Client]
      /\ client[c] \in Calls /\ line \in Seq(Caller) /\ c \in Caller
      /\ connected \subseteq Client /\ on \subseteq Service
      /\ client[c].at # "idle" \/ client[c].kept # "none" => s \in Service
      /\ client[c].at = "starting" => client[c].kept = "none"
  BY DEF NotificationInvariant, ShapeOK, KeptFits, Sound, Books, Caller, WireInvariant, WireShapeOK
<1>2. CASE Connect(c)
  BY <1>2, LinkWire DEF Connect
<1>3. CASE Disconnect(c)
  <2>1. UNCHANGED << task, line >> /\ client[c].at = "idle"
    BY <1>3 DEF Disconnect
  <2>2. CASE DeviceLost /\ on' = {}
    BY <2>1, <2>2, DeviceLostWire
  <2>3. CASE /\ connected' = connected \ {c} /\ client' = [client EXCEPT ![c] = NoCall]
             /\ books' = IF client[c].kept = "none" THEN books ELSE Forgotten(books, c, s)
             /\ UNCHANGED << active, answer, apVars >>
    <3>1. /\ books'.enabled \subseteq books.enabled
          /\ \A u \in Service : books'.callbacks[u] \subseteq books.callbacks[u]
      <4>1. CASE client[c].kept = "none"
        BY <2>3, <4>1
      <4>2. CASE client[c].kept # "none"
        <5>1. books' = Forgotten(books, c, s) /\ s \in Service
          BY <1>1, <2>3, <4>2
        <5>2. /\ Forgotten(books, c, s).enabled \subseteq books.enabled
              /\ Forgotten(books, c, s).callbacks = [books.callbacks EXCEPT ![s] = @ \ {c}]
          BY <1>1, <5>1, ForgottenKeys, CallbackForgotten
        <5> QED
          BY <1>1, <5>1, <5>2
      <4> QED
        BY <4>1, <4>2
    <3>2. UNCHANGED << task, line, wire, answer, on, linked, active >> /\ connected' \subseteq connected
      BY <2>1, <2>3 DEF apVars
    <3> QED
      BY <2>1, <2>3, <3>1, <3>2, NoCallIsCall, ClientUnseen
  <2> QED
    BY <1>3, <2>2, <2>3 DEF Disconnect
<1>4. ASSUME NEW u \in Service, Start(c, u)
      PROVE  WireInvariant'
  <2>1. /\ client[c].at = "idle" /\ client[c].kept = "none"
        /\ UNCHANGED << task, connected, active, answer, linked, on >>
    BY <1>4 DEF Start
  <2>2. CASE line = << >> /\ StartBody(c, u, << >>)
    <3>1. << >> \in Seq(Caller)
      OBVIOUS
    <3> QED
      BY <2>1, <2>2, <3>1, StartBodyWire
  <2>3. CASE /\ line # << >> /\ Becomes(c, "starting", u, "none") /\ line' = Append(line, c)
             /\ UNCHANGED << books, wire >>
    <3> DEFINE call == [at |-> "starting", service |-> u, kept |-> "none"]
    <3>1. client' = [client EXCEPT ![c] = call] /\ call.at # "enabling"
      BY <2>3 DEF Becomes
    <3>2. line' # << >> /\ Head(line') = Head(line)
      BY <1>1, <2>3, AppendProperties, HeadTailProperties, EmptySeq
    <3> HIDE DEF call
    <3> QED
      BY <2>1, <2>3, <3>1, <3>2, ClientUnseen
  <2> QED
    BY <1>4, <2>2, <2>3 DEF Start
<1>5. CASE ResumeStart(c)
  BY <1>1, <1>5, LineBehind, StartBodyWire DEF ResumeStart
<1>6. CASE CancelQueued(c)
  <2> DEFINE call == IF client[c].kept = "none" THEN NoCall ELSE [client[c] EXCEPT !.at = "idle"]
  <2>1. /\ client' = [client EXCEPT ![c] = call] /\ client[c].at # "enabling"
        /\ UNCHANGED << books, task, connected, active, answer, linked, on, wire >>
    BY <1>6 DEF CancelQueued, apVars
  <2>2. call.at # "enabling"
    BY <1>1, NoCallIsCall DEF Calls
  <2>3. PICK i \in DOMAIN line : line[i] = c /\ line' = RemoveAt(line, i)
    BY <1>6 DEF CancelQueued
  <2>4. i # 1 => line' # << >> /\ Head(line') = Head(line)
    BY <1>1, <2>3, RemoveAtKeepsOthers
  <2>5. i = 1 => Heads(c)
    BY <1>1, <2>3, HeadTailProperties, EmptySeq, LenProperties DEF Heads
  <2> HIDE DEF call
  <2> QED
    BY <2>1, <2>2, <2>4, <2>5, ClientUnseen
<1>7. CASE Stop(c) \/ ResumeStop(c)
  <2>1. /\ client[c].at # "enabling" /\ s \in Service
        /\ UNCHANGED << task, connected, active, answer, linked, on, wire >>
    BY <1>1, <1>7 DEF Stop, ResumeStop, apVars
  <2>2. CASE StopBody(c) /\ (line = << >> \/ Heads(c))
    <3>1. /\ Returns(c) /\ books'.callbacks = [books.callbacks EXCEPT ![s] = @ \ {c}]
          /\ books'.enabled \subseteq books.enabled
      BY <1>1, <2>1, <2>2, StopBodyResult, StopBodyKeys
    <3>2. \A u \in Service : books'.callbacks[u] \subseteq books.callbacks[u]
      BY <1>1, <3>1
    <3> QED
      BY <2>1, <2>2, <3>1, <3>2, NoCallIsCall, ClientUnseen DEF Returns
  <2>3. CASE /\ line # << >> /\ client' = [client EXCEPT ![c].at = "stopping"]
             /\ line' = Append(line, c) /\ UNCHANGED books
    <3> DEFINE call == [client[c] EXCEPT !.at = "stopping"]
    <3>1. client' = [client EXCEPT ![c] = call] /\ call.at # "enabling"
      BY <1>1, <2>3 DEF Calls
    <3>2. line' # << >> /\ Head(line') = Head(line)
      BY <1>1, <2>3, AppendProperties, HeadTailProperties, EmptySeq
    <3> HIDE DEF call
    <3> QED
      BY <2>1, <2>3, <3>1, <3>2, ClientUnseen
  <2> QED
    BY <1>7, <2>2, <2>3 DEF Stop, ResumeStop
<1>8. CASE StopLocal(c)
  <2>1. /\ client[c].at # "enabling" /\ s \in Service /\ books' = Forgotten(books, c, s)
        /\ client' = [client EXCEPT ![c] = NoCall]
        /\ UNCHANGED << task, connected, active, line, answer, linked, on, wire >>
    BY <1>1, <1>8 DEF StopLocal, Returns, apVars
  <2>2. /\ Forgotten(books, c, s).enabled \subseteq books.enabled
        /\ Forgotten(books, c, s).callbacks = [books.callbacks EXCEPT ![s] = @ \ {c}]
    BY <1>1, <2>1, ForgottenKeys, CallbackForgotten
  <2>3. /\ books'.enabled \subseteq books.enabled
        /\ \A u \in Service : books'.callbacks[u] \subseteq books.callbacks[u]
    BY <1>1, <2>1, <2>2
  <2> QED
    BY <2>1, <2>3, NoCallIsCall, ClientUnseen
<1> QED
  BY <1>2, <1>3, <1>4, <1>5, <1>6, <1>7, <1>8, AnswerWire DEF ClientStep

(* Steps of the deferred disables *)

(* A task that has not waited, and does not now. *)
LEMMA TaskUnseen ==
  ASSUME NotificationInvariant, WireInvariant, NEW t \in Timer, task[t].at # "disabling",
         NEW new, new.at # "disabling", task' = [task EXCEPT ![t] = new],
         UNCHANGED << client, connected, active, wire, answer, on, linked >>,
         books'.callbacks = books.callbacks, books'.enabled \subseteq books.enabled,
         \/ line = << >> \/ Heads(t)
         \/ line # << >> => line' # << >> /\ Head(line') = Head(line)
  PROVE  WireInvariant'
<1>1. task \in [Timer -> Tasks]
  BY DEF NotificationInvariant, ShapeOK
<1>2. \A u \in Timer :
        /\ task'[u].at = "disabling" <=> task[u].at = "disabling"
        /\ task[u].at = "disabling" => task'[u] = task[u]
  BY <1>1
<1>3. \A c \in Client : client[c].at = "enabling" =>
        c # t /\ Heads(c) /\ books'.callbacks[client[c].service] = {}
  BY NullAssumption DEF WireInvariant, EnablesAlone, Listened
<1>4. \A c \in Client : client[c].at = "enabling" => Heads(c)'
  BY <1>3 DEF Heads
<1> QED
  BY <1>2, <1>3, <1>4, WireLeft

LEMMA DisableBodyWire ==
  ASSUME NotificationInvariant, WireInvariant, NEW t \in Timer, NEW s \in Service,
         task[t].at # "disabling", NEW b \in Books, b.callbacks = books.callbacks,
         b.enabled = books.enabled, NEW rest \in Seq(Caller), line = << >> \/ Heads(t),
         DisableBody(t, s, b, rest),
         UNCHANGED << client, connected, active, answer, linked, on >>
  PROVE  WireInvariant'
<1>1. t \in Caller /\ t \notin Client /\ task \in [Timer -> Tasks]
  BY NullAssumption DEF Caller, NotificationInvariant, ShapeOK
<1>2. CASE books' = Settled(b, s) /\ TaskEnds(t) /\ UNCHANGED wire
  <2>1. Settled(b, s).callbacks = b.callbacks /\ Settled(b, s).enabled \subseteq b.enabled
    BY SettledKey
  <2>2. books'.callbacks = books.callbacks /\ books'.enabled \subseteq books.enabled
    BY <1>2, <2>1
  <2> QED
    BY <1>2, <2>2, NoTaskIsTask, TaskUnseen DEF TaskEnds
<1>3. CASE /\ books' = b /\ TaskBecomes(t, "disabling", s) /\ line' = << t >> \o rest
           /\ Send(t, s, FALSE)
  <2>1. /\ task'[t].at = "disabling" /\ task'[t].service = s
        /\ \A u \in Timer \ {t} : task'[u] = task[u]
    BY <1>1, <1>3 DEF TaskBecomes
  <2>2. Heads(t)'
    BY <1>1, <1>3, FrontLeaves DEF Heads
  <2>3. Waiting(t)' /\ ~ Waiting(t)
    BY <1>1, <2>1 DEF Waiting
  <2>4. books'.enabled \subseteq books.enabled
    BY <1>3
  <2> QED
    BY <1>1, <1>3, <2>1, <2>2, <2>3, <2>4, WaitBegins
<1> QED
  BY <1>2, <1>3 DEF DisableBody

LEMMA TaskWire ==
  ASSUME NotificationInvariant, WireInvariant, NEW t \in Timer, TaskStep(t),
         books.armed[t] # NoService => task[t].at = "none"
  PROVE  WireInvariant'
<1> DEFINE s == task[t].service
           b == Popped(books, s)
<1>1. /\ books \in Books /\ task \in [Timer -> Tasks] /\ line \in Seq(Caller)
      /\ task[t].at # "none" => s \in Service
      /\ t \in Caller /\ t \notin Client
  BY NullAssumption DEF NotificationInvariant, ShapeOK, Sound, Caller
<1>2. CASE TimerFires(t)
  <2> DEFINE new == [at |-> "created", service |-> books.armed[t]]
  <2>1. /\ task[t].at # "disabling" /\ new.at # "disabling" /\ task' = [task EXCEPT ![t] = new]
        /\ UNCHANGED << client, connected, active, line, wire, answer, on, linked >>
    BY <1>2 DEF TimerFires, TaskBecomes, apVars
  <2>2. books'.callbacks = books.callbacks /\ books'.enabled = books.enabled
    BY <1>1, <1>2 DEF TimerFires, Books
  <2>3. books'.enabled \subseteq books.enabled
    BY <2>2
  <2> HIDE DEF new
  <2> QED
    BY <2>1, <2>2, <2>3, TaskUnseen
<1>3. CASE TaskRuns(t)
  <2>1. /\ task[t].at = "created" /\ task[t].at # "disabling" /\ s \in Service
        /\ UNCHANGED << client, connected, active, answer, linked, on >>
    BY <1>1, <1>3 DEF TaskRuns
  <2>2. b \in Books /\ b.callbacks = books.callbacks /\ b.enabled = books.enabled
    BY <1>1, <2>1, PoppedKey
  <2>3. CASE line = << >> /\ DisableBody(t, s, b, << >>)
    <3>1. << >> \in Seq(Caller)
      OBVIOUS
    <3> HIDE DEF b
    <3> QED
      BY <2>1, <2>2, <2>3, <3>1, DisableBodyWire
  <2>4. CASE books' = b /\ TaskEnds(t) /\ UNCHANGED << line, wire >>
    <3>1. books'.enabled \subseteq books.enabled /\ books'.callbacks = books.callbacks
      BY <2>2, <2>4
    <3> QED
      BY <2>1, <2>4, <3>1, NoTaskIsTask, TaskUnseen DEF TaskEnds
  <2>5. CASE /\ line # << >> /\ books' = b /\ TaskBecomes(t, "queued", s)
             /\ line' = Append(line, t) /\ UNCHANGED wire
    <3> DEFINE new == [at |-> "queued", service |-> s]
    <3>1. new.at # "disabling" /\ task' = [task EXCEPT ![t] = new]
      BY <2>5 DEF TaskBecomes
    <3>2. line' # << >> /\ Head(line') = Head(line)
      BY <1>1, <2>5, AppendProperties, HeadTailProperties, EmptySeq
    <3>3. books'.enabled \subseteq books.enabled /\ books'.callbacks = books.callbacks
      BY <2>2, <2>5
    <3> HIDE DEF new
    <3> QED
      BY <2>1, <2>5, <3>1, <3>2, <3>3, TaskUnseen
  <2> QED
    BY <1>3, <2>3, <2>4, <2>5 DEF TaskRuns
<1>4. CASE ResumeTask(t)
  <2>1. /\ Heads(t) /\ task[t].at # "disabling" /\ s \in Service /\ Tail(line) \in Seq(Caller)
        /\ DisableBody(t, s, books, Tail(line))
        /\ UNCHANGED << client, connected, active, answer, linked, on >>
    BY <1>1, <1>4, LineBehind DEF ResumeTask
  <2> QED
    BY <1>1, <2>1, DisableBodyWire
<1>5. CASE Disabled(t) \/ DisableTimesOut(t)
  <2>1. /\ Heads(t) /\ task[t].at = "disabling" /\ s \in Service
        /\ books' = Settled(books, s) /\ TaskEnds(t) /\ AnswerTaken(t)
        /\ UNCHANGED << client, connected, active, linked, on >>
        /\ GivenUp(t) \/ (answer[t] # "none" /\ UNCHANGED wire)
    BY <1>1, <1>5 DEF Disabled, DisableTimesOut, apVars
  <2>2. ~ Listened(books, s)
    BY <2>1 DEF NotificationInvariant, DisablesOnlyUnheard
  <2>3. s \notin books'.enabled /\ books'.enabled \subseteq books.enabled
    BY <1>1, <2>1, <2>2, SettledKey DEF Listened
  <2>4. \A u \in Timer : task'[u].at = "disabling" => task[u].at = "disabling" /\ u # t
    BY <1>1, <2>1, NoTaskIsTask DEF TaskEnds
  <2>5. \A c \in Client : client'[c].at = "enabling" => client[c].at = "enabling" /\ c # t
    BY <1>1, <2>1
  <2>6. Waiting(t)
    BY <1>1, <2>1 DEF Waiting
  <2> QED
    BY <1>1, <2>1, <2>3, <2>4, <2>5, <2>6, WaitEnds DEF AnswerTaken
<1>6. CASE TaskCancelled(t)
  <2>1. /\ task[t].at # "disabling" /\ s \in Service
        /\ books' = Settled(books, s) /\ task' = [task EXCEPT ![t] = NoTask]
        /\ UNCHANGED << client, connected, active, answer, linked, on, wire >>
    BY <1>1, <1>6 DEF TaskCancelled, TaskEnds, apVars
  <2>2. PICK i \in DOMAIN line : line[i] = t /\ line' = RemoveAt(line, i)
    BY <1>6 DEF TaskCancelled
  <2>3. i # 1 => line' # << >> /\ Head(line') = Head(line)
    BY <1>1, <2>2, RemoveAtKeepsOthers
  <2>4. i = 1 => Heads(t)
    BY <1>1, <2>2, HeadTailProperties, EmptySeq, LenProperties DEF Heads
  <2>5. books'.callbacks = books.callbacks /\ books'.enabled \subseteq books.enabled
    BY <1>1, <2>1, SettledKey
  <2> QED
    BY <2>1, <2>3, <2>4, <2>5, NoTaskIsTask, TaskUnseen
<1> QED
  BY <1>2, <1>3, <1>4, <1>5, <1>6 DEF TaskStep

LEMMA WireHolds == Spec => []WireInvariant
<1>1. Init => WireInvariant
  BY NoCallIsCall
  DEF Init, WireInvariant, WireShapeOK, AnswersAwaited, LastIsAwaited, SessionsNeedDevice,
      EnablesAlone, NotUndone, SuccessIsOn, EnabledIsOn
<1>2. NotificationInvariant /\ FollowUpInvariant /\ WireInvariant /\ [Next]_vars => WireInvariant'
  <2> SUFFICES ASSUME NotificationInvariant, FollowUpInvariant, WireInvariant, [Next]_vars
               PROVE  WireInvariant'
    OBVIOUS
  <2>1. \A t \in Timer : books.armed[t] # NoService => task[t].at = "none"
    BY DEF FollowUpInvariant, TimersKnown
  <2>2. on \subseteq Service
    BY DEF WireInvariant, WireShapeOK
  <2>3. CASE \E t \in Timer : TaskStep(t)
    BY <2>1, <2>3, TaskWire
  <2>4. CASE LossReported \/ SourceLost \/ RuntimeStops
    BY <2>2, <2>4, DeviceLostWire DEF LossReported, SourceLost, RuntimeStops
  <2>5. CASE LinkDrops
    BY <2>5, LinkWire DEF LinkDrops
  <2>6. CASE TasksAreGone \/ UNCHANGED vars
    <3>1. UNCHANGED << books, task, client, connected, active, line, answer, linked, on, wire >>
      BY <2>6 DEF TasksAreGone, vars, apVars
    <3>2. \A c \in Client : client[c].at = "enabling" =>
            Heads(c)' /\ books'.callbacks[client[c].service] = {}
      BY <3>1 DEF WireInvariant, EnablesAlone, Listened, Heads
    <3> QED
      BY <3>1, <3>2, WireLeft
  <2> QED
    BY <2>3, <2>4, <2>5, <2>6, ClientWire, StopRuntimeWire, APActsWire DEF Next
<1> QED
  BY <1>1, <1>2, InvariantHolds, FollowUpHolds, PTL DEF Spec

(* A start that is answered already_enabled without asking the AP is right *)
(* to be: while the link lasts, what the runtime holds for enabled is on at *)
(* the AP or is just being disabled, however many payloads have been given *)
(* up and are still on their way (async_start_gatt_notify).                *)
THEOREM EnabledKeysAreOn == Spec => []EnabledIsOn
<1>1. WireInvariant => EnabledIsOn
  BY DEF WireInvariant
<1> QED
  BY <1>1, WireHolds, PTL

=============================================================================
