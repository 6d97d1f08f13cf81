---------------------------- MODULE ClientProofs ----------------------------
(***************************************************************************)
(* Sessions, for any number of clients, devices and slots: no interleaving *)
(* of connects, disconnects, losses and cancellations loses or makes a     *)
(* permit, leaks a slot, or leaves a lost session up.                      *)
(* And GattServices, for any payloads, reports and override: what a client *)
(* offers, what it asks the AP for, and what is remembered of devices; and *)
(* Advertisement: what the fields of a payload say.                        *)
(***************************************************************************)
EXTENDS Sessions, GattServices, SequenceFacts, FunctionTheorems, FiniteSetTheorems

Place == {"idle", "queued", "granted", "asking", "rejecting", "discovering", "cleaning"}

Types ==
  /\ free \in Nat /\ queue \in Seq(Client)
  /\ conn \in [Client -> Place]
  /\ outcome \in [Client -> {"none", "ok", "failed"}]
  /\ \A c \in Client : outcome[c] # "none" => conn[c] = "asking"
  /\ asking \subseteq Client /\ holds \subseteq Client /\ connected \subseteq Client
  /\ listening \subseteq Client /\ requested \subseteq Client /\ told \subseteq Client
  /\ overlapped \subseteq Client /\ late \subseteq Client
  /\ active \subseteq Device

(* Those in line have not got a permit yet, and nobody is there twice. *)
InLine(q, places) ==
  /\ \A i \in DOMAIN q : places[q[i]] = "queued"
  /\ \A i, j \in DOMAIN q : q[i] = q[j] => i = j

(* A connect that asks holds its slot, unless a disconnect has met it; a   *)
(* session is watched, and has not been reported as ended.                 *)
Flags ==
  /\ SlotsNotLeaked
  /\ listening \subseteq connected
  /\ \A c \in connected :
       /\ conn[c] \in {"idle", "discovering", "cleaning"}
       /\ c \in listening /\ c \notin told
       /\ c \notin late => Alive(c)
  /\ \A c \in Client :
       c \in connected \/ conn[c] \in {"asking", "rejecting"} => c \in holds \cup overlapped
  /\ \A c \in asking : conn[c] # "idle" => c \in overlapped

Permits(places) == {c \in Client : places[c] = "granted"}

SessionInvariant ==
  Types /\ InLine(queue, conn) /\ Flags /\ PermitsConserved

-----------------------------------------------------------------------------
(* The semaphore *)

RestOf(k) == SubSeq(queue, k + 1, Len(queue))

(* The first k in line get a permit: they are k, and the others stay.      *)
LEMMA Grants ==
  ASSUME queue \in Seq(Client), NEW places \in [Client -> Place], InLine(queue, places),
         NEW k \in 0 .. Len(queue)
  PROVE  /\ RestOf(k) \in Seq(Client) /\ Granting(k, places) \in [Client -> Place]
         /\ Len(RestOf(k)) = Len(queue) - k
         /\ \A i \in 1 .. Len(RestOf(k)) : RestOf(k)[i] = queue[i + k]
         /\ InLine(RestOf(k), Granting(k, places))
         /\ \A c \in Client : \/ Granting(k, places)[c] = places[c]
                              \/ places[c] = "queued" /\ Granting(k, places)[c] = "granted"
         /\ Cardinality(Permits(Granting(k, places))) = Cardinality(Permits(places)) + k
         /\ Cardinality(Permits(places)) \in Nat
<1> DEFINE rest == RestOf(k)
           after == Granting(k, places)
<1>1. Len(queue) \in Nat /\ DOMAIN queue = 1 .. Len(queue)
      /\ \A i \in 1 .. Len(queue) : queue[i] \in Client
  BY LenProperties, ElementOfSeq
<1>2. /\ rest \in Seq(Client) /\ Len(rest) = Len(queue) - k
      /\ \A i \in 1 .. Len(queue) - k : rest[i] = queue[i + k]
  BY RestElements DEF RestOf
<1>3. DOMAIN rest = 1 .. Len(rest)
  BY <1>2, LenProperties
<1>4. First(k) \subseteq Client /\ \A c \in First(k) : places[c] = "queued"
  BY <1>1 DEF First, InLine
<1>5. /\ after \in [Client -> Place]
      /\ \A c \in Client : after[c] = IF c \in First(k) THEN "granted" ELSE places[c]
  BY DEF Granting, Place
<1>6. ASSUME NEW i \in 1 .. Len(rest)
      PROVE  after[rest[i]] = "queued"
  <2>0. i \in 1 .. Len(queue) - k
    BY <1>2
  <2>1. rest[i] = queue[i + k]
    BY <1>2, <2>0
  <2>a. i + k \in 1 .. Len(queue)
    BY <1>1, <2>0
  <2>b. queue[i + k] \in Client
    BY <1>1, <2>a
  <2>2. ASSUME NEW j \in 1 .. k, queue[j] = queue[i + k]
        PROVE  FALSE
    <3>1. j \in DOMAIN queue /\ i + k \in DOMAIN queue /\ j # i + k
      BY <1>1, <2>0, <2>a
    <3> QED  BY <2>2, <3>1 DEF InLine
  <2>3. queue[i + k] \notin First(k)
    BY <2>2 DEF First
  <2>4. places[queue[i + k]] = "queued"
    BY <1>1, <2>a DEF InLine
  <2> QED  BY <1>5, <2>1, <2>b, <2>3, <2>4
<1>7. ASSUME NEW i \in 1 .. Len(rest), NEW j \in 1 .. Len(rest), rest[i] = rest[j]
      PROVE  i = j
  <2>1. /\ i + k \in 1 .. Len(queue) /\ rest[i] = queue[i + k]
        /\ j + k \in 1 .. Len(queue) /\ rest[j] = queue[j + k]
    BY <1>1, <1>2
  <2>2. i + k = j + k
    BY <1>1, <1>7, <2>1 DEF InLine
  <2> QED  BY <2>2
<1>8. IsFiniteSet(First(k)) /\ Cardinality(First(k)) = k
  <2> DEFINE f == [i \in 1 .. k |-> queue[i]]
  <2>1. f \in [1 .. k -> First(k)]
    BY DEF First
  <2>2. \A i, j \in 1 .. k : f[i] = f[j] => i = j
    BY <1>1 DEF InLine
  <2>3. \A c \in First(k) : \E i \in 1 .. k : f[i] = c
    BY DEF First
  <2>4. f \in Bijection(1 .. k, First(k))
    BY <2>1, <2>2, <2>3, Fun_IsBij
  <2>5. IsFiniteSet(1 .. k) /\ Cardinality(1 .. k) = k
    <3>1. k \in Nat
      BY <1>1
    <3>2. IsFiniteSet(1 .. k) /\ Cardinality(1 .. k) = IF 1 > k THEN 0 ELSE k - 1 + 1
      BY <3>1, FS_Interval
    <3> QED  BY <3>1, <3>2
  <2> QED  BY <2>4, <2>5, FS_Bijection DEF ExistsBijection
<1>9. IsFiniteSet(Permits(places)) /\ Cardinality(Permits(places)) \in Nat
  <2>1. Permits(places) \in SUBSET Client
    BY DEF Permits
  <2> QED  BY <2>1, ClientAssumption, FS_Subset, FS_CardinalityType
<1>10. Permits(after) = Permits(places) \cup First(k)
  BY <1>4, <1>5 DEF Permits
<1>11. Permits(places) \cap First(k) = {}
  BY <1>4 DEF Permits
<1>12. Cardinality(Permits(after)) = Cardinality(Permits(places)) + k
  <2>1. Cardinality(Permits(after)) =
          Cardinality(Permits(places)) + k - Cardinality(Permits(places) \cap First(k))
    BY <1>8, <1>9, <1>10, FS_Union
  <2>2. Cardinality(Permits(places) \cap First(k)) = 0
    BY <1>11, FS_EmptySet
  <2> QED  BY <1>1, <1>9, <2>1, <2>2
<1> QED  BY <1>1, <1>2, <1>3, <1>4, <1>5, <1>6, <1>7, <1>9, <1>12 DEF InLine

(* What clients give back is free or on its way to others. *)
LEMMA Releases ==
  ASSUME Types, NEW places \in [Client -> Place], InLine(queue, places),
         NEW cs \in SUBSET Client, Release(cs, places)
  PROVE  /\ free' \in Nat /\ queue' \in Seq(Client) /\ conn' \in [Client -> Place]
         /\ holds' = holds \ cs
         /\ InLine(queue', conn')
         /\ \A c \in Client : \/ conn'[c] = places[c]
                              \/ places[c] = "queued" /\ conn'[c] = "granted"
         /\ free' + Cardinality(holds') + Cardinality(Permits(conn'))
              = free + Cardinality(holds) + Cardinality(Permits(places))
<1> DEFINE n == Cardinality(cs \cap holds)
           k == Least(n, Len(queue))
<1>1. IsFiniteSet(holds) /\ Cardinality(holds) \in Nat
  BY ClientAssumption, FS_Subset, FS_CardinalityType DEF Types
<1>2. n \in Nat /\ Cardinality(holds \ cs) = Cardinality(holds) - n
  <2>1. IsFiniteSet(cs \cap holds) /\ cs \cap holds = holds \cap cs
    BY <1>1, FS_Intersection
  <2>2. Cardinality(holds \ cs) = Cardinality(holds) - Cardinality(holds \cap cs)
    BY <1>1, FS_Difference
  <2>3. n \in Nat
    BY <2>1, FS_CardinalityType
  <2> QED  BY <2>1, <2>2, <2>3
<1>3. queue \in Seq(Client) /\ Len(queue) \in Nat /\ free \in Nat
  BY LenProperties DEF Types
<1>4. k \in 0 .. Len(queue) /\ k <= n
  BY <1>2, <1>3 DEF Least
<1>5. /\ holds' = holds \ cs /\ free' = free + n - k
      /\ queue' = RestOf(k) /\ conn' = Granting(k, places)
  BY DEF Release, RestOf
<1> HIDE DEF n, k
<1>6. /\ queue' \in Seq(Client) /\ conn' \in [Client -> Place]
      /\ InLine(queue', conn')
      /\ \A c \in Client : \/ conn'[c] = places[c]
                           \/ places[c] = "queued" /\ conn'[c] = "granted"
      /\ Cardinality(Permits(conn')) = Cardinality(Permits(places)) + k
      /\ Cardinality(Permits(places)) \in Nat
  BY <1>3, <1>4, <1>5, Grants
<1>7. free' \in Nat
  BY <1>2, <1>3, <1>4, <1>5
<1>8. free' + Cardinality(holds') + Cardinality(Permits(conn'))
        = free + Cardinality(holds) + Cardinality(Permits(places))
  BY <1>1, <1>2, <1>3, <1>4, <1>5, <1>6
<1> QED  BY <1>5, <1>6, <1>7, <1>8

(* One who leaves the line's head passes on what is left. *)
LEMMA Passes ==
  ASSUME Types, NEW places \in [Client -> Place], InLine(queue, places),
         NEW n \in Nat, PassOn(n, places)
  PROVE  /\ free' \in Nat /\ queue' \in Seq(Client) /\ conn' \in [Client -> Place]
         /\ InLine(queue', conn')
         /\ \A c \in Client : \/ conn'[c] = places[c]
                              \/ places[c] = "queued" /\ conn'[c] = "granted"
         /\ free' + Cardinality(Permits(conn')) = n + Cardinality(Permits(places))
<1> DEFINE k == Least(n, Len(queue))
<1>1. queue \in Seq(Client) /\ Len(queue) \in Nat
  BY LenProperties DEF Types
<1>2. k \in 0 .. Len(queue) /\ k <= n
  BY <1>1 DEF Least
<1>3. /\ free' = n - k
      /\ queue' = RestOf(k) /\ conn' = Granting(k, places)
  BY DEF PassOn, RestOf
<1> HIDE DEF k
<1>4. /\ queue' \in Seq(Client) /\ conn' \in [Client -> Place]
      /\ InLine(queue', conn')
      /\ \A c \in Client : \/ conn'[c] = places[c]
                           \/ places[c] = "queued" /\ conn'[c] = "granted"
      /\ Cardinality(Permits(conn')) = Cardinality(Permits(places)) + k
      /\ Cardinality(Permits(places)) \in Nat
  BY <1>1, <1>2, <1>3, Grants
<1> QED  BY <1>2, <1>3, <1>4

-----------------------------------------------------------------------------
(* The steps *)

Moved(places) == \A c \in Client : \/ conn'[c] = places[c]
                                   \/ places[c] = "queued" /\ conn'[c] = "granted"

(* A connect that comes to another place beside the line. *)
LEMMA Going ==
  ASSUME Types, InLine(queue, conn), NEW c \in Client, NEW p \in Place,
         conn[c] # "queued"
  PROVE  /\ Goes(c, p) \in [Client -> Place]
         /\ Goes(c, p)[c] = p
         /\ \A x \in Client \ {c} : Goes(c, p)[x] = conn[x]
         /\ InLine(queue, Goes(c, p))
<1>1. /\ Goes(c, p) \in [Client -> Place]
      /\ Goes(c, p)[c] = p
      /\ \A x \in Client \ {c} : Goes(c, p)[x] = conn[x]
  BY DEF Types, Goes
<1>2. \A i \in DOMAIN queue : queue[i] \in Client /\ queue[i] # c
  BY LenProperties, ElementOfSeq DEF Types, InLine
<1>3. \A i \in DOMAIN queue : Goes(c, p)[queue[i]] = "queued"
  BY <1>1, <1>2 DEF InLine
<1> QED  BY <1>1, <1>3 DEF InLine

(* Permits come and go with those who were woken. *)
LEMMA PermitsElsewhere ==
  ASSUME Types, NEW c \in Client, NEW p \in Place
  PROVE  /\ IsFiniteSet(Permits(conn)) /\ Cardinality(Permits(conn)) \in Nat
         /\ conn[c] # "granted" /\ p # "granted" => Permits(Goes(c, p)) = Permits(conn)
         /\ conn[c] = "granted" /\ p # "granted" =>
              Cardinality(Permits(Goes(c, p))) = Cardinality(Permits(conn)) - 1
         /\ Permits(conn) = At("granted")
<1>1. Permits(conn) \in SUBSET Client
  BY DEF Permits
<1>2. IsFiniteSet(Permits(conn)) /\ Cardinality(Permits(conn)) \in Nat
  BY <1>1, ClientAssumption, FS_Subset, FS_CardinalityType
<1>3. ASSUME conn[c] # "granted", p # "granted"
      PROVE  Permits(Goes(c, p)) = Permits(conn)
  BY <1>3 DEF Permits, Goes, Types
<1>4. ASSUME conn[c] = "granted", p # "granted"
      PROVE  Cardinality(Permits(Goes(c, p))) = Cardinality(Permits(conn)) - 1
  <2>1. Permits(Goes(c, p)) = Permits(conn) \ {c} /\ c \in Permits(conn)
    BY <1>4 DEF Permits, Goes, Types
  <2> QED  BY <1>2, <2>1, FS_RemoveElement
<1> QED  BY <1>2, <1>3, <1>4 DEF Permits, At

(* A session ends: its client has no connect that asks, or a disconnect    *)
(* has met it.                                                             *)
LEMMA Ending ==
  ASSUME SessionInvariant,
         NEW places \in [Client -> Place], InLine(queue, places),
         Permits(places) = Permits(conn),
         NEW cs \in SUBSET Client, NEW notified \in SUBSET cs,
         MarkDisconnected(cs, notified, places),
         \A c \in Client : \/ places[c] = conn[c]
                           \/ c \in cs /\ places[c] = "idle"
                              /\ conn[c] \in {"discovering", "cleaning"},
         \A c \in cs : conn[c] \in {"asking", "rejecting"} => c \in overlapped',
         overlapped \subseteq overlapped', overlapped' \subseteq Client,
         asking' \subseteq asking, requested' \subseteq Client,
         outcome' \in [Client -> {"none", "ok", "failed"}],
         \A c \in Client : outcome'[c] = outcome[c] \/ conn[c] = "asking",
         active' \subseteq Device,
         \A c \in connected \ cs : c \notin late => DeviceOf[c] \in active'
  PROVE  SessionInvariant'
<1> USE DEF SessionInvariant
<1>1. /\ connected' = connected \ cs /\ listening' = listening \ cs
      /\ told' = told \cup (notified \cap connected) /\ late' = late \ cs
      /\ Release(cs, places)
  BY DEF MarkDisconnected
<1>2. /\ free' \in Nat /\ queue' \in Seq(Client) /\ conn' \in [Client -> Place]
      /\ holds' = holds \ cs
      /\ InLine(queue', conn')
      /\ Moved(places)
      /\ free' + Cardinality(holds') + Cardinality(Permits(conn'))
           = free + Cardinality(holds) + Cardinality(Permits(places))
  BY <1>1, Releases DEF Moved
<1>3. \A c \in Client : \/ conn'[c] = conn[c]
                        \/ conn[c] = "queued" /\ conn'[c] = "granted"
                        \/ c \in cs /\ conn'[c] = "idle"
                           /\ conn[c] \in {"discovering", "cleaning"}
  BY <1>2 DEF Moved
<1>4. Types'
  <2>1. \A c \in Client : outcome'[c] # "none" => conn'[c] = "asking"
    BY <1>3 DEF Types
  <2>2. /\ holds' \subseteq Client /\ connected' \subseteq Client /\ listening' \subseteq Client
        /\ told' \subseteq Client /\ late' \subseteq Client /\ asking' \subseteq Client
    BY <1>1, <1>2 DEF Types
  <2> QED  BY <1>2, <2>1, <2>2 DEF Types
<1>5. PermitsConserved'
  BY <1>2 DEF PermitsConserved, Permits, At
<1>6. SlotsNotLeaked'
  BY <1>1, <1>2, <1>3 DEF SlotsNotLeaked, Flags, At, Types
<1>7. \A c \in connected' :
        /\ conn'[c] \in {"idle", "discovering", "cleaning"}
        /\ c \in listening' /\ c \notin told'
        /\ c \notin late' => Alive(c)'
  BY <1>1, <1>3 DEF Flags, Alive, Types
<1>8. \A c \in Client :
        c \in connected' \/ conn'[c] \in {"asking", "rejecting"} => c \in holds' \cup overlapped'
  BY <1>1, <1>2, <1>3 DEF Flags, Types
<1>9. \A c \in asking' : conn'[c] # "idle" => c \in overlapped'
  BY <1>3 DEF Flags, Types
<1>10. listening' \subseteq connected'
  BY <1>1 DEF Flags
<1> QED  BY <1>2, <1>4, <1>5, <1>6, <1>7, <1>8, <1>9, <1>10 DEF Flags

(* A step that leaves the semaphore alone. *)
LEMMA Quiet ==
  ASSUME SessionInvariant, UNCHANGED semaphore,
         NEW c \in Client, NEW p \in Place \ {"queued", "granted"},
         conn[c] \notin {"queued", "granted"}, conn' = Goes(c, p)
  PROVE  /\ conn' \in [Client -> Place] /\ conn'[c] = p
         /\ \A x \in Client \ {c} : conn'[x] = conn[x]
         /\ InLine(queue, conn)'
         /\ PermitsConserved'
         /\ free' = free /\ queue' = queue /\ holds' = holds
<1> USE DEF SessionInvariant
<1>1. free' = free /\ queue' = queue /\ holds' = holds
  BY DEF semaphore
<1>2. /\ conn' \in [Client -> Place] /\ conn'[c] = p
      /\ \A x \in Client \ {c} : conn'[x] = conn[x]
      /\ InLine(queue, conn')
  BY Going
<1>3. Permits(conn') = Permits(conn)
  BY PermitsElsewhere
<1>4. PermitsConserved'
  BY <1>1, <1>3 DEF PermitsConserved, Permits, At
<1> QED  BY <1>1, <1>2, <1>4

(* Those that end a session. *)
LEMMA EndsKeep ==
  ASSUME SessionInvariant, NEW c \in Client,
         \/ Sync(c) \/ DiscoveredLost(c) \/ Cleaned(c)
         \/ DisconnectAtOnce(c) \/ DisconnectEnds(c)
         \/ DiscoveryFails(c) /\ ~ (c \in connected /\ Alive(c))
  PROVE  SessionInvariant'
<1> USE DEF SessionInvariant
<1>0. /\ asking \subseteq Client /\ requested \subseteq Client /\ active \subseteq Device
      /\ overlapped \subseteq Client /\ outcome \in [Client -> {"none", "ok", "failed"}]
      /\ conn \in [Client -> Place]
      /\ \A x \in connected : x \notin late => DeviceOf[x] \in active
      /\ c \in connected => conn[c] \in {"idle", "discovering", "cleaning"}
      /\ c \in asking => conn[c] = "idle" \/ c \in overlapped
  BY DEF Types, Flags, Alive
<1>1. CASE Sync(c)
  <2>1. MarkDisconnected({c}, {c}, conn) /\ c \in connected
        /\ UNCHANGED << outcome, asking, requested, active, overlapped >>
    BY <1>1 DEF Sync, Dead
  <2> QED  BY <1>0, <2>1, Ending
<1>2. CASE \/ DiscoveredLost(c) \/ Cleaned(c)
           \/ DiscoveryFails(c) /\ ~ (c \in connected /\ Alive(c))
  <2>1. conn[c] \in {"discovering", "cleaning"}
        /\ UNCHANGED << outcome, asking, requested, active, overlapped >>
    BY <1>2 DEF DiscoveredLost, Cleaned, DiscoveryFails
  <2>2. PICK notified \in SUBSET {c} : MarkDisconnected({c}, notified, Goes(c, "idle"))
    BY <1>2 DEF DiscoveredLost, Cleaned, DiscoveryFails
  <2>3. /\ Goes(c, "idle") \in [Client -> Place] /\ InLine(queue, Goes(c, "idle"))
        /\ Goes(c, "idle")[c] = "idle"
        /\ \A x \in Client \ {c} : Goes(c, "idle")[x] = conn[x]
    BY <2>1, Going DEF Place
  <2>4. Permits(Goes(c, "idle")) = Permits(conn)
    BY <2>1, PermitsElsewhere DEF Place
  <2>5. \A x \in Client : \/ Goes(c, "idle")[x] = conn[x]
                          \/ x \in {c} /\ Goes(c, "idle")[x] = "idle"
                             /\ conn[x] \in {"discovering", "cleaning"}
    BY <2>1, <2>3
  <2> QED  BY <1>0, <2>1, <2>2, <2>3, <2>4, <2>5, Ending
<1>3. CASE DisconnectAtOnce(c)
  <2>1. MarkDisconnected({c}, {c}, conn) /\ UNCHANGED << outcome, asking, requested, active >>
        /\ overlapped' = overlapped \cup {x \in {c} : conn[c] # "idle"}
    BY <1>3 DEF DisconnectAtOnce, Meets
  <2> QED  BY <1>0, <2>1, Ending
<1>4. CASE DisconnectEnds(c)
  <2>1. c \in asking /\ MarkDisconnected({c}, {}, conn) /\ UNCHANGED << outcome, active, overlapped >>
        /\ asking' = asking \ {c} /\ requested' = requested \ {c}
    BY <1>4 DEF DisconnectEnds
  <2> QED  BY <1>0, <2>1, Ending
<1> QED  BY <1>1, <1>2, <1>3, <1>4

LEMMA DeviceLostKeeps ==
  ASSUME SessionInvariant, NEW d \in Device, DeviceLost(d)
  PROVE  SessionInvariant'
<1> DEFINE cs == {c \in listening : DeviceOf[c] = d}
<1>1. /\ active' = active \ {d} /\ MarkDisconnected(cs, cs \ requested, conn)
      /\ outcome' = [c \in Client |->
           IF conn[c] = "asking" /\ outcome[c] = "none" /\ DeviceOf[c] = d THEN "failed"
           ELSE outcome[c]]
      /\ UNCHANGED << asking, requested, overlapped >>
  BY DEF DeviceLost
<1>2. /\ cs \in SUBSET Client
      /\ \A c \in cs : conn[c] \notin {"asking", "rejecting"}
      /\ \A c \in connected \ cs : c \notin late => DeviceOf[c] \in active'
  BY <1>1 DEF SessionInvariant, Types, Flags, Alive
<1>3. /\ outcome' \in [Client -> {"none", "ok", "failed"}]
      /\ \A c \in Client : outcome'[c] = outcome[c] \/ conn[c] = "asking"
  BY <1>1 DEF SessionInvariant, Types
<1>4. /\ overlapped \subseteq overlapped' /\ overlapped' \subseteq Client
      /\ asking' \subseteq asking /\ requested' \subseteq Client /\ active' \subseteq Device
      /\ conn \in [Client -> Place] /\ InLine(queue, conn)
  BY <1>1 DEF SessionInvariant, Types
<1> HIDE DEF cs
<1> QED  BY <1>1, <1>2, <1>3, <1>4, Ending

(* Those of a connect that leave the semaphore alone. *)
LEMMA QuietKeeps ==
  ASSUME SessionInvariant, NEW c \in Client,
         \/ BeginSession(c) \/ Reject(c) \/ Discovered(c) \/ CleaningCancelled(c)
         \/ DiscoveryFails(c) /\ c \in connected /\ Alive(c)
  PROVE  SessionInvariant'
<1> USE DEF SessionInvariant
<1>1. CASE BeginSession(c)
  <2>1. /\ conn[c] = "asking"
        /\ outcome' = [outcome EXCEPT ![c] = "none"]
        /\ connected' = connected \cup {c} /\ listening' = listening \cup {c}
        /\ told' = told \ {c} /\ late' = late \cup {x \in {c} : ~ Alive(c)}
        /\ UNCHANGED << semaphore, asking, requested, active, overlapped >>
    BY <1>1 DEF BeginSession
  <2>2. PICK p \in {"idle", "discovering"} : conn' = Goes(c, p)
    BY <1>1 DEF BeginSession
  <2>3. /\ conn' \in [Client -> Place] /\ conn'[c] = p
        /\ \A x \in Client \ {c} : conn'[x] = conn[x]
        /\ InLine(queue, conn)' /\ PermitsConserved'
        /\ free' = free /\ queue' = queue /\ holds' = holds
    BY <2>1, <2>2, Quiet DEF Place
  <2>4. Types'
    <3>1. \A x \in Client : outcome'[x] # "none" => conn'[x] = "asking"
      BY <2>1, <2>3 DEF Types
    <3>2. outcome' \in [Client -> {"none", "ok", "failed"}]
      BY <2>1 DEF Types
    <3> QED  BY <2>1, <2>3, <3>1, <3>2 DEF Types
  <2>5. SlotsNotLeaked'
    BY <2>1, <2>3 DEF SlotsNotLeaked, Flags, At, Types
  <2>6. \A x \in connected' :
          /\ conn'[x] \in {"idle", "discovering", "cleaning"}
          /\ x \in listening' /\ x \notin told'
          /\ x \notin late' => Alive(x)'
    BY <2>1, <2>2, <2>3 DEF Flags, Alive, Types
  <2>7. \A x \in Client :
          x \in connected' \/ conn'[x] \in {"asking", "rejecting"} => x \in holds' \cup overlapped'
    BY <2>1, <2>2, <2>3 DEF Flags, Types
  <2>8. \A x \in asking' : conn'[x] # "idle" => x \in overlapped'
    BY <2>1, <2>2, <2>3 DEF Flags, Types
  <2>9. listening' \subseteq connected'
    BY <2>1 DEF Flags
  <2> QED  BY <2>3, <2>4, <2>5, <2>6, <2>7, <2>8, <2>9 DEF Flags
<1>2. CASE \/ Reject(c) \/ Discovered(c) \/ CleaningCancelled(c)
           \/ DiscoveryFails(c) /\ c \in connected /\ Alive(c)
  <2>1. /\ \/ conn[c] = "asking" /\ conn' = Goes(c, "rejecting")
           \/ conn[c] \in {"discovering", "cleaning"} /\ conn' = Goes(c, "idle")
           \/ conn[c] = "discovering" /\ conn' = Goes(c, "cleaning")
        /\ \/ outcome' = [outcome EXCEPT ![c] = "none"]
           \/ conn[c] # "asking" /\ outcome' = outcome
        /\ UNCHANGED << semaphore, session, asking, requested, active, history >>
    BY <1>2 DEF Reject, Discovered, CleaningCancelled, DiscoveryFails, history
  <2>2. PICK p \in {"idle", "rejecting", "cleaning"} :
          conn' = Goes(c, p) /\ (p = "rejecting" => conn[c] = "asking")
                             /\ (p # "rejecting" => conn[c] \in {"discovering", "cleaning"})
    BY <2>1
  <2>3. /\ conn' \in [Client -> Place] /\ conn'[c] = p
        /\ \A x \in Client \ {c} : conn'[x] = conn[x]
        /\ InLine(queue, conn)' /\ PermitsConserved'
        /\ free' = free /\ queue' = queue /\ holds' = holds
    BY <2>1, <2>2, Quiet DEF Place
  <2>4. /\ connected' = connected /\ listening' = listening /\ told' = told
        /\ asking' = asking /\ requested' = requested /\ active' = active
        /\ overlapped' = overlapped /\ late' = late
    BY <2>1 DEF session, history
  <2>5. Types'
    <3>1. \A x \in Client : outcome'[x] # "none" => conn'[x] = "asking"
      BY <2>1, <2>3 DEF Types
    <3>2. outcome' \in [Client -> {"none", "ok", "failed"}]
      BY <2>1 DEF Types
    <3> QED  BY <2>3, <2>4, <3>1, <3>2 DEF Types
  <2>6. Flags'
    <3>1. SlotsNotLeaked'
      <4>1. conn[c] \in {"asking", "rejecting"} => conn'[c] \in {"asking", "rejecting"}
        BY <2>2, <2>3
      <4>2. SlotsNotLeaked
        BY DEF Flags
      <4>3. \A x \in At("asking") \cup At("rejecting") : x \in At("asking")' \cup At("rejecting")'
        BY <2>3, <4>1 DEF At
      <4> QED  BY <2>3, <2>4, <4>2, <4>3 DEF SlotsNotLeaked
    <3>2. \A x \in connected' :
            /\ conn'[x] \in {"idle", "discovering", "cleaning"}
            /\ x \in listening' /\ x \notin told'
            /\ x \notin late' => Alive(x)'
      BY <2>2, <2>3, <2>4 DEF Flags, Alive, Types
    <3>3. \A x \in Client :
            x \in connected' \/ conn'[x] \in {"asking", "rejecting"} => x \in holds' \cup overlapped'
      BY <2>2, <2>3, <2>4 DEF Flags, Types
    <3>4. \A x \in asking' : conn'[x] # "idle" => x \in overlapped'
      BY <2>1, <2>3, <2>4 DEF Flags, Types
    <3> QED  BY <2>4, <3>1, <3>2, <3>3, <3>4 DEF Flags
  <2> QED  BY <2>3, <2>5, <2>6
<1> QED  BY <1>1, <1>2

(* Those that leave every client where it is. *)
LEMMA StillKeeps ==
  ASSUME SessionInvariant,
         \/ \E c \in Client : Answer(c) \/ Disconnect(c)
         \/ \E d \in Device : DeviceConnects(d)
  PROVE  SessionInvariant'
<1> USE DEF SessionInvariant
<1>1. CASE \E d \in Device : DeviceConnects(d)
  BY <1>1 DEF DeviceConnects, semaphore, session, history, Types, InLine, Flags,
              PermitsConserved, SlotsNotLeaked, At, Alive
<1>2. ASSUME NEW c \in Client, Answer(c)
      PROVE  SessionInvariant'
  <2>1. /\ conn[c] = "asking"
        /\ outcome' \in [Client -> {"none", "ok", "failed"}]
        /\ \A x \in Client : outcome'[x] = outcome[x] \/ conn[x] = "asking"
        /\ active \subseteq active' /\ active' \subseteq Device
        /\ UNCHANGED << semaphore, session, conn, asking, requested, history >>
    BY <1>2, ClientAssumption DEF Answer, Types
  <2> QED
    BY <2>1 DEF semaphore, session, history, Types, InLine, Flags,
                PermitsConserved, SlotsNotLeaked, At, Alive
<1>3. ASSUME NEW c \in Client, Disconnect(c)
      PROVE  SessionInvariant'
  <2>1. /\ asking' = asking \cup {c} /\ requested' = requested \cup {c}
        /\ overlapped' = overlapped \cup {x \in {c} : conn[c] # "idle"}
        /\ UNCHANGED << semaphore, session, conn, outcome, active, late >>
    BY <1>3 DEF Disconnect, Meets
  <2> QED
    BY <2>1 DEF semaphore, session, Types, InLine, Flags,
                PermitsConserved, SlotsNotLeaked, At, Alive
<1> QED  BY <1>1, <1>2, <1>3

(* A client without a session comes to a place, and others may be woken.   *)
LEMMA Placing ==
  ASSUME SessionInvariant, NEW c \in Client,
         conn' \in [Client -> Place],
         \A x \in Client \ {c} : \/ conn'[x] = conn[x]
                                 \/ conn[x] = "queued" /\ conn'[x] = "granted",
         connected' = connected \ {c}, listening' = listening \ {c},
         told' \subseteq told \cup {c}, late \ {c} \subseteq late',
         asking' = asking, active' = active,
         overlapped \subseteq overlapped',
         holds' \subseteq holds \cup {c}, holds \ {c} \subseteq holds',
         c \in holds' <=> conn'[c] \in {"asking", "rejecting"},
         c \in asking /\ conn'[c] # "idle" => c \in overlapped'
  PROVE  Flags'
<1> USE DEF SessionInvariant
<1>1. SlotsNotLeaked'
  BY DEF SlotsNotLeaked, Flags, At, Types
<1>2. \A x \in connected' :
        /\ conn'[x] \in {"idle", "discovering", "cleaning"}
        /\ x \in listening' /\ x \notin told'
        /\ x \notin late' => Alive(x)'
  BY DEF Flags, Alive, Types
<1>3. \A x \in Client :
        x \in connected' \/ conn'[x] \in {"asking", "rejecting"} => x \in holds' \cup overlapped'
  BY DEF Flags, Types
<1>4. \A x \in asking' : conn'[x] # "idle" => x \in overlapped'
  BY DEF Flags, Types
<1> QED  BY <1>1, <1>2, <1>3, <1>4 DEF Flags

(* A connect ends without a session. *)
LEMMA GivingUpKeeps ==
  ASSUME SessionInvariant, NEW c \in Client, GivesUpAsking(c) \/ Rejected(c)
  PROVE  SessionInvariant'
<1> USE DEF SessionInvariant
<1>1. /\ conn[c] \in {"asking", "rejecting"} /\ Release({c}, Goes(c, "idle"))
      /\ \/ outcome' = [outcome EXCEPT ![c] = "none"]
         \/ conn[c] = "rejecting" /\ outcome' = outcome
      /\ UNCHANGED << session, asking, requested, active, history >>
  BY DEF GivesUpAsking, Rejected
<1>2. /\ Goes(c, "idle") \in [Client -> Place] /\ InLine(queue, Goes(c, "idle"))
      /\ Goes(c, "idle")[c] = "idle"
      /\ \A x \in Client \ {c} : Goes(c, "idle")[x] = conn[x]
  BY <1>1, Going DEF Place
<1>3. Permits(Goes(c, "idle")) = Permits(conn)
  BY <1>1, PermitsElsewhere DEF Place
<1>4. /\ free' \in Nat /\ queue' \in Seq(Client) /\ conn' \in [Client -> Place]
      /\ holds' = holds \ {c}
      /\ InLine(queue', conn')
      /\ Moved(Goes(c, "idle"))
      /\ free' + Cardinality(holds') + Cardinality(Permits(conn'))
           = free + Cardinality(holds) + Cardinality(Permits(conn))
  BY <1>1, <1>2, <1>3, Releases DEF Moved
<1>5. /\ conn'[c] = "idle"
      /\ \A x \in Client \ {c} : \/ conn'[x] = conn[x]
                                 \/ conn[x] = "queued" /\ conn'[x] = "granted"
  BY <1>2, <1>4 DEF Moved
<1>6. /\ connected' = connected /\ listening' = listening /\ told' = told
      /\ asking' = asking /\ requested' = requested /\ active' = active
      /\ overlapped' = overlapped /\ late' = late
      /\ c \notin connected /\ c \notin listening
  BY <1>1 DEF session, history, Flags
<1>7. Flags'
  BY <1>4, <1>5, <1>6, Placing
<1>8. Types'
  <2>1. \A x \in Client : outcome'[x] # "none" => conn'[x] = "asking"
    BY <1>1, <1>5 DEF Types
  <2>2. outcome' \in [Client -> {"none", "ok", "failed"}]
    BY <1>1 DEF Types
  <2> QED  BY <1>4, <1>6, <2>1, <2>2 DEF Types
<1>9. PermitsConserved'
  BY <1>4 DEF PermitsConserved, Permits, At
<1> QED  BY <1>4, <1>7, <1>8, <1>9

(* Somebody joins the line. *)
LEMMA Joining ==
  ASSUME NEW q \in Seq(Client), NEW places \in [Client -> Place], NEW c \in Client,
         InLine(q, places), places[c] = "idle",
         NEW after \in [Client -> Place], after[c] = "queued",
         \A x \in Client \ {c} : after[x] = places[x]
  PROVE  Append(q, c) \in Seq(Client) /\ InLine(Append(q, c), after)
<1>1. /\ Append(q, c) \in Seq(Client) /\ Len(Append(q, c)) = Len(q) + 1
      /\ \A i \in 1 .. Len(q) : Append(q, c)[i] = q[i]
      /\ Append(q, c)[Len(q) + 1] = c
  BY AppendProperties
<1>2. /\ Len(q) \in Nat /\ DOMAIN q = 1 .. Len(q)
      /\ DOMAIN Append(q, c) = 1 .. Len(q) + 1
      /\ \A i \in DOMAIN q : q[i] \in Client /\ q[i] # c
  BY <1>1, LenProperties, ElementOfSeq DEF InLine
<1> DEFINE r == Append(q, c)
<1> HIDE DEF r
<1>3. \A i \in DOMAIN r : \/ i \in DOMAIN q /\ r[i] = q[i]
                          \/ i = Len(q) + 1 /\ r[i] = c
  BY <1>1, <1>2 DEF r
<1>4. \A i \in DOMAIN r : after[r[i]] = "queued"
  BY <1>2, <1>3 DEF InLine
<1>5. \A i, j \in DOMAIN r : r[i] = r[j] => i = j
  BY <1>2, <1>3 DEF InLine
<1> QED  BY <1>1, <1>4, <1>5 DEF InLine, r

(* One who holds no slot takes one. *)
LEMMA Taking ==
  ASSUME Types, NEW c \in Client
  PROVE  /\ IsFiniteSet(holds) /\ Cardinality(holds) \in Nat
         /\ c \notin holds => Cardinality(holds \cup {c}) = Cardinality(holds) + 1
         /\ c \in holds => /\ holds \cup {c} = holds
                           /\ Cardinality({c} \cap holds) = 1
                           /\ Cardinality(holds \ {c}) = Cardinality(holds) - 1
         /\ c \notin holds => Cardinality({c} \cap holds) = 0 /\ holds \ {c} = holds
<1>1. IsFiniteSet(holds) /\ Cardinality(holds) \in Nat
  BY ClientAssumption, FS_Subset, FS_CardinalityType DEF Types
<1>2. c \notin holds => Cardinality(holds \cup {c}) = Cardinality(holds) + 1
  BY <1>1, FS_AddElement
<1>3. c \in holds => Cardinality(holds \ {c}) = Cardinality(holds) - 1
  BY <1>1, FS_RemoveElement
<1>4. c \in holds => {c} \cap holds = {c} /\ Cardinality({c}) = 1
  BY FS_Singleton
<1>5. c \notin holds => {c} \cap holds = {} /\ Cardinality({}) = 0
  BY FS_EmptySet
<1> QED  BY <1>1, <1>2, <1>3, <1>4, <1>5

LEMMA ConnectKeeps ==
  ASSUME SessionInvariant, NEW c \in Client, Connect(c)
  PROVE  SessionInvariant'
<1> USE DEF SessionInvariant
<1>1. /\ conn[c] = "idle" /\ c \notin connected
      /\ overlapped' = overlapped \cup ({c} \cap asking)
      /\ UNCHANGED << session, outcome, asking, requested, active, late >>
  BY DEF Connect, Overlaps
<1>2. /\ connected' = connected /\ listening' = listening /\ told' = told
      /\ outcome' = outcome /\ asking' = asking /\ requested' = requested
      /\ active' = active /\ late' = late /\ c \notin listening
  BY <1>1 DEF session, Flags
<1>3. c \notin holds /\ free \in Nat /\ queue \in Seq(Client)
  BY <1>1 DEF Flags, SlotsNotLeaked, At, Types
<1>4. CASE free > 0 /\ queue = << >> /\ At("granted") = {}
  <2>1. /\ free' = free - 1 /\ holds' = holds \cup {c}
        /\ conn' = Goes(c, "asking") /\ queue' = queue
    BY <1>4 DEF Connect
  <2>2. /\ conn' \in [Client -> Place] /\ InLine(queue', conn') /\ conn'[c] = "asking"
        /\ \A x \in Client \ {c} : conn'[x] = conn[x]
    BY <1>1, <2>1, Going DEF Place
  <2>3. Permits(conn') = Permits(conn)
    BY <1>1, <2>1, PermitsElsewhere DEF Place
  <2>4. Flags'
    BY <1>1, <1>2, <2>1, <2>2, Placing
  <2>5. Types'
    <3>1. free' \in Nat
      BY <1>3, <1>4, <2>1
    <3> QED  BY <1>1, <1>2, <2>1, <2>2, <3>1 DEF Types
  <2>6. PermitsConserved'
    <3>1. Cardinality(holds') = Cardinality(holds) + 1 /\ Cardinality(holds) \in Nat
      BY <1>3, <2>1, Taking
    <3>2. Cardinality(Permits(conn)) \in Nat
      BY PermitsElsewhere DEF Place
    <3>3. Permits(conn) = At("granted") /\ Permits(conn') = At("granted")'
      BY DEF Permits, At
    <3>4. \A f, h, g \in Nat : (f - 1) + (h + 1) + g = f + h + g
      OBVIOUS
    <3>5. free' + Cardinality(holds') + Cardinality(Permits(conn'))
            = free + Cardinality(holds) + Cardinality(Permits(conn))
      BY <1>3, <2>1, <2>3, <3>1, <3>2, <3>4
    <3> QED  BY <3>3, <3>5 DEF PermitsConserved
  <2> QED  BY <2>2, <2>4, <2>5, <2>6
<1>5. CASE ~ (free > 0 /\ queue = << >> /\ At("granted") = {})
  <2>1. /\ queue' = Append(queue, c) /\ conn' = Goes(c, "queued")
        /\ free' = free /\ holds' = holds
    BY <1>5 DEF Connect
  <2>2. /\ conn' \in [Client -> Place] /\ conn'[c] = "queued"
        /\ \A x \in Client \ {c} : conn'[x] = conn[x]
    BY <1>1, <2>1, Going DEF Place
  <2>3. queue' \in Seq(Client) /\ InLine(queue', conn')
    BY <1>1, <1>3, <2>1, <2>2, Joining DEF Types
  <2>4. Permits(conn') = Permits(conn)
    BY <1>1, <2>1, PermitsElsewhere DEF Place
  <2>5. Flags'
    BY <1>1, <1>2, <1>3, <2>1, <2>2, Placing
  <2>6. Types'
    BY <1>1, <1>2, <2>1, <2>2, <2>3 DEF Types
  <2>7. PermitsConserved'
    BY <2>1, <2>4 DEF PermitsConserved, Permits, At
  <2> QED  BY <2>3, <2>5, <2>6, <2>7
<1> QED  BY <1>4, <1>5

(* The permit has come, or does not come any more. *)
LEMMA WokenKeeps ==
  ASSUME SessionInvariant, NEW c \in Client, conn[c] = "granted",
         NEW p \in {"idle", "asking"}, NEW n \in Nat, PassOn(n, Goes(c, p)),
         \/ p = "asking" /\ n = free /\ holds' = holds \cup {c}
         \/ p = "idle" /\ n = free + 1 /\ holds' = holds,
         UNCHANGED << session, outcome, asking, requested, active, history >>
  PROVE  SessionInvariant'
<1> USE DEF SessionInvariant
<1>2. /\ connected' = connected /\ listening' = listening /\ told' = told
      /\ outcome' = outcome /\ asking' = asking /\ requested' = requested
      /\ active' = active /\ late' = late /\ overlapped' = overlapped
      /\ c \notin connected /\ c \notin listening
  BY DEF session, history, Flags
<1>3. c \notin holds /\ free \in Nat
  BY <1>2 DEF Flags, SlotsNotLeaked, At, Types
<1>4. /\ Goes(c, p) \in [Client -> Place] /\ InLine(queue, Goes(c, p)) /\ Goes(c, p)[c] = p
      /\ \A x \in Client \ {c} : Goes(c, p)[x] = conn[x]
  BY Going DEF Place
<1>5. Cardinality(Permits(Goes(c, p))) = Cardinality(Permits(conn)) - 1
      /\ Cardinality(Permits(conn)) \in Nat
  BY PermitsElsewhere DEF Place
<1>6. /\ free' \in Nat /\ queue' \in Seq(Client) /\ conn' \in [Client -> Place]
      /\ InLine(queue', conn') /\ Moved(Goes(c, p))
      /\ free' + Cardinality(Permits(conn')) = n + Cardinality(Permits(conn)) - 1
  <2>1. /\ free' \in Nat /\ queue' \in Seq(Client) /\ conn' \in [Client -> Place]
        /\ InLine(queue', conn') /\ Moved(Goes(c, p))
        /\ free' + Cardinality(Permits(conn')) = n + Cardinality(Permits(Goes(c, p)))
    BY <1>4, Passes DEF Moved
  <2> QED  BY <1>5, <2>1
<1>7. /\ conn'[c] = p
      /\ \A x \in Client \ {c} : \/ conn'[x] = conn[x]
                                 \/ conn[x] = "queued" /\ conn'[x] = "granted"
  BY <1>4, <1>6 DEF Moved
<1>8. Flags'
  <2>1. /\ holds' \subseteq holds \cup {c} /\ holds \ {c} \subseteq holds'
        /\ c \in holds' <=> conn'[c] \in {"asking", "rejecting"}
    BY <1>3, <1>7
  <2>2. c \in asking => c \in overlapped
    BY DEF Flags
  <2>3. /\ connected' = connected \ {c} /\ listening' = listening \ {c}
        /\ told' \subseteq told \cup {c} /\ late \ {c} \subseteq late'
        /\ asking' = asking /\ active' = active /\ overlapped \subseteq overlapped'
        /\ c \in asking => c \in overlapped'
    BY <1>2, <2>2
  <2> QED  BY <1>6, <1>7, <2>1, <2>3, Placing
<1>9. Types'
  <2>1. \A x \in Client : outcome'[x] # "none" => conn'[x] = "asking"
    BY <1>2, <1>7 DEF Types
  <2> QED  BY <1>2, <1>6, <2>1 DEF Types
<1>10. PermitsConserved'
  <2>1. Cardinality(Permits(conn')) \in Nat
    <3>1. Permits(conn') \in SUBSET Client
      BY DEF Permits
    <3> QED  BY <3>1, ClientAssumption, FS_Subset, FS_CardinalityType
  <2>2. free' + Cardinality(holds') + Cardinality(Permits(conn'))
          = free + Cardinality(holds) + Cardinality(Permits(conn))
    <3>1. /\ Cardinality(holds) \in Nat
          /\ p = "asking" => Cardinality(holds') = Cardinality(holds) + 1
          /\ p = "idle" => Cardinality(holds') = Cardinality(holds)
      BY <1>3, Taking
    <3>2. \A f, h, g, a, b \in Nat :
            /\ a + b = f + g - 1 => a + (h + 1) + b = f + h + g
            /\ a + b = f + 1 + g - 1 => a + h + b = f + h + g
      OBVIOUS
    <3>3. CASE p = "asking"
      BY <1>3, <1>5, <1>6, <2>1, <3>1, <3>2, <3>3, SMTT(30)
    <3>4. CASE p = "idle"
      <4>1. n = free + 1 /\ Cardinality(holds') = Cardinality(holds)
        BY <3>1, <3>4
      <4>2. free' + Cardinality(Permits(conn')) = free + 1 + Cardinality(Permits(conn)) - 1
        BY <1>6, <4>1
      <4>3. /\ free \in Nat /\ free' \in Nat /\ Cardinality(holds) \in Nat
            /\ Cardinality(Permits(conn)) \in Nat /\ Cardinality(Permits(conn')) \in Nat
        BY <1>3, <1>5, <1>6, <2>1, <3>1
      <4>4. ASSUME NEW f \in Nat, NEW h \in Nat, NEW g \in Nat, NEW a \in Nat, NEW b \in Nat,
                   a + b = f + 1 + g - 1
            PROVE  a + h + b = f + h + g
        BY <4>4
      <4>5. free' + Cardinality(holds) + Cardinality(Permits(conn'))
              = free + Cardinality(holds) + Cardinality(Permits(conn))
        BY <4>2, <4>3, <4>4
      <4> QED  BY <4>1, <4>5
    <3> QED  BY <3>3, <3>4
  <2> QED  BY <2>2 DEF PermitsConserved, Permits, At
<1> QED  BY <1>6, <1>8, <1>9, <1>10

LEMMA SlotTakenKeeps ==
  ASSUME SessionInvariant, NEW c \in Client, SlotTaken(c)
  PROVE  SessionInvariant'
<1>1. /\ conn[c] = "granted" /\ holds' = holds \cup {c} /\ PassOn(free, Goes(c, "asking"))
      /\ UNCHANGED << session, outcome, asking, requested, active, history >>
  BY DEF SlotTaken
<1>2. free \in Nat
  BY DEF SessionInvariant, Types
<1> QED  BY <1>1, <1>2, WokenKeeps

(* Somebody leaves the line. *)
LEMMA Leaving ==
  ASSUME NEW q \in Seq(Client), NEW places \in [Client -> Place], InLine(q, places),
         NEW i \in DOMAIN q,
         NEW after \in [Client -> Place], \A x \in Client \ {q[i]} : after[x] = places[x]
  PROVE  RemoveAt(q, i) \in Seq(Client) /\ InLine(RemoveAt(q, i), after)
<1> DEFINE r == RemoveAt(q, i)
<1>1. /\ r \in Seq(Client) /\ Len(r) = Len(q) - 1
      /\ \A j \in 1 .. Len(q) - 1 : r[j] = IF j < i THEN q[j] ELSE q[j + 1]
  BY RemoveAtElements
<1> HIDE DEF r
<1>2. /\ DOMAIN q = 1 .. Len(q) /\ Len(q) \in Nat /\ DOMAIN r = 1 .. Len(r)
      /\ i \in 1 .. Len(q)
      /\ \A j \in DOMAIN q : q[j] \in Client
  BY <1>1, LenProperties, ElementOfSeq
<1> DEFINE from(j) == IF j < i THEN j ELSE j + 1
<1>3. \A j \in DOMAIN r : from(j) \in DOMAIN q /\ from(j) # i /\ r[j] = q[from(j)]
  BY <1>1, <1>2
<1>4. \A j, k \in DOMAIN r : from(j) = from(k) => j = k
  BY <1>1, <1>2
<1> HIDE DEF from
<1>5. \A j \in DOMAIN r : after[r[j]] = "queued"
  <2> TAKE j \in DOMAIN r
  <2>1. r[j] = q[from(j)] /\ from(j) \in DOMAIN q /\ q[from(j)] # q[i] /\ q[from(j)] \in Client
    BY <1>2, <1>3 DEF InLine
  <2>2. places[q[from(j)]] = "queued"
    BY <2>1 DEF InLine
  <2> QED  BY <2>1, <2>2
<1>6. \A j, k \in DOMAIN r : r[j] = r[k] => j = k
  BY <1>3, <1>4 DEF InLine
<1> QED  BY <1>1, <1>5, <1>6 DEF InLine, r

LEMMA LeavesLineKeeps ==
  ASSUME SessionInvariant, NEW c \in Client, LeavesLine(c)
  PROVE  SessionInvariant'
<1> USE DEF SessionInvariant
<1>1. holds' = holds /\ UNCHANGED << session, outcome, asking, requested, active, history >>
  BY DEF LeavesLine
<1>2. CASE conn[c] = "granted" /\ PassOn(free + 1, Goes(c, "idle"))
  <2>1. free + 1 \in Nat
    BY DEF Types
  <2> QED  BY <1>1, <1>2, <2>1, WokenKeeps
<1>3. CASE /\ conn[c] = "queued" /\ conn' = Goes(c, "idle") /\ free' = free
           /\ \E i \in DOMAIN queue : queue[i] = c /\ queue' = RemoveAt(queue, i)
  <2>1. PICK i \in DOMAIN queue : queue[i] = c /\ queue' = RemoveAt(queue, i)
    BY <1>3
  <2>2. /\ conn' \in [Client -> Place] /\ conn'[c] = "idle"
        /\ \A x \in Client \ {c} : conn'[x] = conn[x]
    BY <1>3 DEF Goes, Types, Place
  <2>3. queue' \in Seq(Client) /\ InLine(queue', conn')
    BY <2>1, <2>2, Leaving DEF Types
  <2>4. Permits(conn') = Permits(conn)
    BY <1>3, PermitsElsewhere DEF Place
  <2>5. /\ connected' = connected /\ listening' = listening /\ told' = told
        /\ outcome' = outcome /\ asking' = asking /\ requested' = requested
        /\ active' = active /\ late' = late /\ overlapped' = overlapped
        /\ c \notin connected /\ c \notin listening /\ c \notin holds
    BY <1>1, <1>3 DEF session, history, Flags, SlotsNotLeaked, At
  <2>6. Flags'
    BY <1>1, <2>2, <2>5, Placing
  <2>7. Types'
    <3>1. \A x \in Client : outcome'[x] # "none" => conn'[x] = "asking"
      BY <1>3, <2>2, <2>5 DEF Types
    <3> QED  BY <1>1, <1>3, <2>2, <2>3, <2>5, <3>1 DEF Types
  <2>8. PermitsConserved'
    BY <1>1, <1>3, <2>4 DEF PermitsConserved, Permits, At
  <2> QED  BY <2>3, <2>6, <2>7, <2>8
<1> QED  BY <1>2, <1>3 DEF LeavesLine

LEMMA ConnectAgainKeeps ==
  ASSUME SessionInvariant, NEW c \in Client, ConnectAgain(c)
  PROVE  SessionInvariant'
<1> USE DEF SessionInvariant
<1> DEFINE given == Cardinality({c} \cap holds)
           k == Least(given, Len(queue))
<1>1. /\ conn[c] = "idle" /\ c \in connected
      /\ connected' = connected \ {c} /\ listening' = listening \ {c} /\ late' = late \ {c}
      /\ told' = told \cup {c} /\ overlapped' = overlapped \cup ({c} \cap asking)
      /\ outcome' = outcome /\ asking' = asking /\ requested' = requested /\ active' = active
  BY DEF ConnectAgain, Dead, Overlaps
<1>2. /\ free \in Nat /\ queue \in Seq(Client) /\ Len(queue) \in Nat
      /\ Cardinality(holds) \in Nat /\ Cardinality(Permits(conn)) \in Nat
      /\ given \in 0 .. 1
      /\ Cardinality(holds \cup {c}) = Cardinality(holds) + 1 - given
      /\ Cardinality(holds \ {c}) = Cardinality(holds) - given
  <2>1. Cardinality(holds) \in Nat /\ Cardinality(Permits(conn)) \in Nat
    BY Taking, PermitsElsewhere DEF Place
  <2>2. free \in Nat /\ queue \in Seq(Client) /\ Len(queue) \in Nat
    BY LenProperties DEF Types
  <2>3. CASE c \in holds
    <3>1. given = 1 /\ holds \cup {c} = holds
          /\ Cardinality(holds \ {c}) = Cardinality(holds) - 1
      BY <2>3, Taking
    <3> HIDE DEF given
    <3>2. Cardinality(holds \cup {c}) = Cardinality(holds)
      BY <3>1
    <3>3. Cardinality(holds) + 1 - given = Cardinality(holds)
          /\ Cardinality(holds) - given = Cardinality(holds) - 1 /\ given \in 0 .. 1
      BY <2>1, <3>1
    <3> QED  BY <2>1, <2>2, <3>1, <3>2, <3>3, Zenon
  <2>4. CASE c \notin holds
    <3>1. given = 0 /\ holds \ {c} = holds
          /\ Cardinality(holds \cup {c}) = Cardinality(holds) + 1
      BY <2>4, Taking
    <3> HIDE DEF given
    <3>2. Cardinality(holds \ {c}) = Cardinality(holds)
      BY <3>1
    <3>3. Cardinality(holds) + 1 - given = Cardinality(holds) + 1
          /\ Cardinality(holds) - given = Cardinality(holds) /\ given \in 0 .. 1
      BY <2>1, <3>1
    <3> QED  BY <2>1, <2>2, <3>1, <3>2, <3>3, Zenon
  <2> QED  BY <2>3, <2>4
<1>3. CASE free + given > 0 /\ queue = << >> /\ At("granted") = {}
  <2>1. /\ free' = free + given - 1 /\ holds' = holds \cup {c}
        /\ conn' = Goes(c, "asking") /\ queue' = queue
    BY <1>3 DEF ConnectAgain
  <2>2. /\ conn' \in [Client -> Place] /\ InLine(queue', conn') /\ conn'[c] = "asking"
        /\ \A x \in Client \ {c} : conn'[x] = conn[x]
    BY <1>1, <2>1, Going DEF Place
  <2>3. Permits(conn') = Permits(conn)
    BY <1>1, <2>1, PermitsElsewhere DEF Place
  <2>4. Flags'
    BY <1>1, <2>1, <2>2, Placing
  <2>5. Types'
    <3>1. free' \in Nat
      BY <1>2, <1>3, <2>1
    <3> QED  BY <1>1, <2>1, <2>2, <3>1 DEF Types
  <2>6. PermitsConserved'
    <3>1. Permits(conn) = At("granted") /\ Permits(conn') = At("granted")'
      BY DEF Permits, At
    <3>2. ASSUME NEW f \in Nat, NEW h \in Nat, NEW g \in Nat, NEW m \in 0 .. 1
          PROVE  (f + m - 1) + (h + 1 - m) + g = f + h + g
      OBVIOUS
    <3> HIDE DEF given
    <3>3. free' + Cardinality(holds') + Cardinality(Permits(conn'))
            = free + Cardinality(holds) + Cardinality(Permits(conn))
      BY <1>2, <2>1, <2>3, <3>2
    <3> QED  BY <3>1, <3>3 DEF PermitsConserved
  <2> QED  BY <2>2, <2>4, <2>5, <2>6
<1>4. CASE ~ (free + given > 0 /\ queue = << >> /\ At("granted") = {})
  <2> DEFINE rest == RestOf(k)
             after == Granting(k, Goes(c, "idle"))
  <2>1. /\ free' = free + given - k /\ holds' = holds \ {c}
        /\ queue' = Append(rest, c) /\ conn' = Granting(k, Goes(c, "queued"))
    BY <1>4 DEF ConnectAgain, RestOf
  <2>2. k \in 0 .. Len(queue) /\ k \in Nat /\ k <= given
    BY <1>2 DEF Least
  <2>3. /\ Goes(c, "idle") \in [Client -> Place] /\ InLine(queue, Goes(c, "idle"))
        /\ Goes(c, "idle")[c] = "idle"
        /\ \A x \in Client \ {c} : Goes(c, "idle")[x] = conn[x]
    BY <1>1, Going DEF Place
  <2> HIDE DEF given, k
  <2>4. /\ rest \in Seq(Client) /\ after \in [Client -> Place] /\ InLine(rest, after)
        /\ \A x \in Client : \/ after[x] = Goes(c, "idle")[x]
                             \/ Goes(c, "idle")[x] = "queued" /\ after[x] = "granted"
        /\ Cardinality(Permits(after)) = Cardinality(Permits(Goes(c, "idle"))) + k
    BY <1>2, <2>2, <2>3, Grants
  <2>5. after[c] = "idle" /\ c \notin First(k)
    BY <2>3, <2>4 DEF Granting
  <2>6. /\ conn' \in [Client -> Place] /\ conn'[c] = "queued"
        /\ \A x \in Client \ {c} : conn'[x] = after[x]
    BY <2>1, <2>5 DEF Granting, Goes, Types, Place
  <2> HIDE DEF rest, after
  <2>7. queue' \in Seq(Client) /\ InLine(queue', conn')
    BY <2>1, <2>4, <2>5, <2>6, Joining
  <2>8. \A x \in Client \ {c} : \/ conn'[x] = conn[x]
                                \/ conn[x] = "queued" /\ conn'[x] = "granted"
    BY <2>3, <2>4, <2>6
  <2>9. Flags'
    BY <1>1, <2>1, <2>6, <2>8, Placing
  <2>10. Types'
    <3>1. free' \in Nat
      BY <1>2, <2>1, <2>2
    <3>2. \A x \in Client : outcome'[x] # "none" => conn'[x] = "asking"
      BY <1>1, <2>6, <2>8 DEF Types
    <3> QED  BY <1>1, <2>1, <2>6, <2>7, <3>1, <3>2 DEF Types
  <2>11. PermitsConserved'
    <3>1. Permits(conn) = At("granted") /\ Permits(conn') = At("granted")'
      BY DEF Permits, At
    <3>6. Permits(conn') = Permits(after)
      BY <2>5, <2>6 DEF Permits
    <3>7. Permits(Goes(c, "idle")) = Permits(conn)
      BY <1>1, PermitsElsewhere DEF Place
    <3>2. Permits(conn') = Permits(after) /\ Permits(Goes(c, "idle")) = Permits(conn)
      BY <3>6, <3>7
    <3>3. ASSUME NEW f \in Nat, NEW h \in Nat, NEW g \in Nat, NEW m \in Nat, NEW n \in Nat
          PROVE  (f + m - n) + (h - m) + (g + n) = f + h + g
      OBVIOUS
    <3>4. given \in Nat
      BY <1>2
    <3>5. free' + Cardinality(holds') + Cardinality(Permits(conn'))
            = free + Cardinality(holds) + Cardinality(Permits(conn))
      BY <1>2, <2>1, <2>2, <2>4, <3>2, <3>3, <3>4, SMTT(30)
    <3> QED  BY <3>1, <3>5 DEF PermitsConserved
  <2> QED  BY <2>7, <2>9, <2>10, <2>11
<1> QED  BY <1>3, <1>4

-----------------------------------------------------------------------------
(* The theorems *)

LEMMA SessionInvariantInit == Init => SessionInvariant
<1> SUFFICES ASSUME Init PROVE SessionInvariant
  OBVIOUS
<1>1. At("granted") = {} /\ Cardinality({}) = 0 /\ Slots \in Nat
  BY SlotsAssumption, FS_EmptySet DEF Init, At
<1>2. PermitsConserved
  <2>1. \A n \in Nat : n + 0 + 0 = n
    OBVIOUS
  <2> QED  BY <1>1, <2>1 DEF Init, PermitsConserved
<1>3. queue \in Seq(Client) /\ DOMAIN queue = {}
  BY EmptySeq, LenProperties DEF Init
<1> QED
  BY <1>1, <1>2, <1>3 DEF Init, SessionInvariant, Types, InLine, Flags, SlotsNotLeaked, At, Place

LEMMA SessionInvariantStep == SessionInvariant /\ [Next]_vars => SessionInvariant'
<1> SUFFICES ASSUME SessionInvariant, [Next]_vars PROVE SessionInvariant'
  OBVIOUS
<1>1. CASE UNCHANGED vars
  BY <1>1 DEF vars, semaphore, session, history, SessionInvariant, Types, InLine, Flags,
              SlotsNotLeaked, PermitsConserved, At, Alive
<1>2. ASSUME NEW c \in Client,
             \/ Sync(c) \/ Connect(c) \/ ConnectAgain(c) \/ SlotTaken(c) \/ Answer(c)
             \/ GivesUpAsking(c) \/ LeavesLine(c) \/ BeginSession(c) \/ Reject(c) \/ Rejected(c)
             \/ Discovered(c) \/ DiscoveredLost(c) \/ DiscoveryFails(c)
             \/ Cleaned(c) \/ CleaningCancelled(c)
             \/ DisconnectAtOnce(c) \/ Disconnect(c) \/ DisconnectEnds(c)
      PROVE  SessionInvariant'
  <2>1. CASE \/ Sync(c) \/ DiscoveredLost(c) \/ Cleaned(c)
             \/ DisconnectAtOnce(c) \/ DisconnectEnds(c)
    BY <2>1, EndsKeep
  <2>2. CASE BeginSession(c) \/ Reject(c) \/ Discovered(c) \/ CleaningCancelled(c)
    BY <2>2, QuietKeeps
  <2>3. CASE DiscoveryFails(c)
    BY <2>3, EndsKeep, QuietKeeps
  <2>4. CASE Answer(c) \/ Disconnect(c)
    BY <2>4, StillKeeps
  <2>5. CASE GivesUpAsking(c) \/ Rejected(c)
    BY <2>5, GivingUpKeeps
  <2>6. CASE Connect(c) \/ ConnectAgain(c)
    BY <2>6, ConnectKeeps, ConnectAgainKeeps
  <2>7. CASE SlotTaken(c) \/ LeavesLine(c)
    BY <2>7, SlotTakenKeeps, LeavesLineKeeps
  <2> QED  BY <1>2, <2>1, <2>2, <2>3, <2>4, <2>5, <2>6, <2>7
<1>3. ASSUME NEW d \in Device, DeviceConnects(d) \/ DeviceLost(d)
      PROVE  SessionInvariant'
  BY <1>3, StillKeeps, DeviceLostKeeps
<1> QED  BY <1>1, <1>2, <1>3 DEF Next

(* The inductive invariant of a client's session: places in line, flags    *)
(* and permits agree (ArubaBleakClient with the AP's session semaphore).   *)
THEOREM SessionsAreConsistent == Spec => []SessionInvariant
<1>1. Init => SessionInvariant
  BY SessionInvariantInit
<1>2. SessionInvariant /\ [Next]_vars => SessionInvariant'
  BY SessionInvariantStep
<1> QED  BY <1>1, <1>2, PTL DEF Spec

(* Every variable of a client and of the semaphore keeps its values. *)
THEOREM SessionsTypeOK == Spec => []TypeOK
<1>1. SessionInvariant => TypeOK
  BY DEF SessionInvariant, Types, TypeOK, Place
<1> QED  BY <1>1, SessionsAreConsistent, PTL

(* No interleaving of connects, cancellations, disconnects and losses      *)
(* loses one of the AP's session permits, or makes one.                    *)
THEOREM PermitsAreConserved == Spec => []PermitsConserved
<1>1. SessionInvariant => PermitsConserved
  BY DEF SessionInvariant
<1> QED  BY <1>1, SessionsAreConsistent, PTL

(* A client whose connect and session are over has given its slot back.    *)
THEOREM NoSlotLeaks == Spec => []SlotsNotLeaked
<1>1. SessionInvariant => SlotsNotLeaked
  BY DEF SessionInvariant, Flags
<1> QED  BY <1>1, SessionsAreConsistent, PTL

(* A session without a slot is one whose client disconnected while it was  *)
(* connecting.                                                             *)
THEOREM EverySessionHoldsASlot == Spec => []SessionsHoldSlots
<1>1. SessionInvariant => SessionsHoldSlots
  BY DEF SessionInvariant, Flags, Types, SessionsHoldSlots
<1> QED  BY <1>1, SessionsAreConsistent, PTL

(* Who began to listen before the loss of the device has no session after. *)
THEOREM EveryLossEndsSession == Spec => []LossEndsSession
<1>1. SessionInvariant => LossEndsSession
  BY DEF SessionInvariant, Flags, LossEndsSession
<1> QED  BY <1>1, SessionsAreConsistent, PTL

(* A loss is told to exactly those clients that did not ask for it.        *)
THEOREM LossesAreTold == Spec => ToldOfLosses
<1>1. SessionInvariant /\ [Next]_vars => [LossIsTold]_vars
  <2> SUFFICES ASSUME SessionInvariant, Next,
                      NEW c \in connected, DeviceOf[c] \in active \ active'
               PROVE  c \notin connected' /\ (c \in told' <=> c \notin requested)
    BY DEF LossIsTold
  <2>1. c \in listening /\ c \notin told
    BY DEF SessionInvariant, Flags
  <2>2. PICK d \in Device : DeviceLost(d)
    BY DEF Next, Sync, Connect, ConnectAgain, SlotTaken, Answer, GivesUpAsking, LeavesLine,
           BeginSession, Reject, Rejected, Discovered, DiscoveredLost, DiscoveryFails,
           Cleaned, CleaningCancelled, DisconnectAtOnce, Disconnect, DisconnectEnds,
           DeviceConnects
  <2>3. /\ active' = active \ {d}
        /\ connected' = connected \ {x \in listening : DeviceOf[x] = d}
        /\ told' = told \cup (({x \in listening : DeviceOf[x] = d} \ requested) \cap connected)
    BY <2>2 DEF DeviceLost, MarkDisconnected
  <2>4. DeviceOf[c] = d
    BY <2>3
  <2> QED  BY <2>1, <2>3, <2>4
<1> QED  BY <1>1, SessionsAreConsistent, PTL DEF Spec, ToldOfLosses

-----------------------------------------------------------------------------
(* What a client's connect finds *)

Octets == Seq(0 .. 255)

(* The long form of a UUID: zeros, the short form, and the base *)
LongParts(all, z, r, b) ==
  /\ Len(all) = 16
  /\ SubSeq(all, 1, 2) = z /\ SubSeq(all, 3, 4) = r /\ SubSeq(all, 5, 16) = b

LEMMA LongForm ==
  ASSUME NEW O, NEW z \in Seq(O), NEW r \in Seq(O), NEW b \in Seq(O)
  PROVE  Len(z) = 2 /\ Len(r) = 2 /\ Len(b) = 12 =>
           z \o r \o b \in Seq(O) /\ LongParts(z \o r \o b, z, r, b)
<1> DEFINE all == z \o r \o b
<1>1. z # << >> /\ r # << >> /\ b # << >> =>
        /\ all \in Seq(O) /\ Len(all) = Len(z) + Len(r) + Len(b)
        /\ SubSeq(all, 1, Len(z)) = z
        /\ SubSeq(all, Len(z) + 1, Len(z) + Len(r)) = r
        /\ SubSeq(all, Len(z) + Len(r) + 1, Len(z) + Len(r) + Len(b)) = b
  <2> SUFFICES ASSUME z # << >>, r # << >>, b # << >>
               PROVE  /\ all \in Seq(O) /\ Len(all) = Len(z) + Len(r) + Len(b)
                      /\ SubSeq(all, 1, Len(z)) = z
                      /\ SubSeq(all, Len(z) + 1, Len(z) + Len(r)) = r
                      /\ SubSeq(all, Len(z) + Len(r) + 1, Len(z) + Len(r) + Len(b)) = b
    OBVIOUS
  <2> QED  BY ThreeParts
<1> HIDE DEF all
<1>2. \A w \in Seq(O) : w = << >> => Len(w) = 0
  BY EmptySeq
<1>3. Len(z) = 2 /\ Len(r) = 2 /\ Len(b) = 12 =>
        /\ all \in Seq(O) /\ Len(all) = 16 /\ SubSeq(all, 1, 2) = z
        /\ SubSeq(all, 3, 4) = r /\ SubSeq(all, 5, 16) = b
  <2> SUFFICES ASSUME Len(z) = 2, Len(r) = 2, Len(b) = 12
               PROVE  /\ all \in Seq(O) /\ Len(all) = 16 /\ SubSeq(all, 1, 2) = z
                      /\ SubSeq(all, 3, 4) = r /\ SubSeq(all, 5, 16) = b
    OBVIOUS
  <2>1. z # << >> /\ r # << >> /\ b # << >>
    <3>1. 2 # 0 /\ 12 # 0
      OBVIOUS
    <3> QED  BY <1>2, <3>1, Zenon
  <2>2. /\ all \in Seq(O) /\ Len(all) = Len(z) + Len(r) + Len(b)
        /\ SubSeq(all, 1, Len(z)) = z
        /\ SubSeq(all, Len(z) + 1, Len(z) + Len(r)) = r
        /\ SubSeq(all, Len(z) + Len(r) + 1, Len(z) + Len(r) + Len(b)) = b
    BY <1>1, <2>1, Zenon
  <2>3. Len(z) + 1 = 3 /\ Len(z) + Len(r) = 4 /\ Len(z) + Len(r) + 1 = 5
        /\ Len(z) + Len(r) + Len(b) = 16
    OBVIOUS
  <2> QED  BY <2>2, <2>3, Zenon
<1> QED  BY <1>3 DEF all, LongParts

Zeros == << 0, 0 >>

(* The parts of the long form of a short UUID *)
LEMMA LongUuid ==
  ASSUME NEW raw \in Octets
  PROVE  Len(raw) = 2 =>
           /\ Zeros \o raw \o BaseUuid \in Octets
           /\ LongParts(Zeros \o raw \o BaseUuid, Zeros, raw, BaseUuid)
<1> DEFINE base == BaseUuid
           O == 0 .. 255
<1>1. base \in Seq(O) /\ Len(base) = 12 /\ Zeros \in Seq(O) /\ Len(Zeros) = 2
  BY DEF BaseUuid, Zeros
<1>2. raw \in Seq(O)
  BY DEF Octets
<1> HIDE DEF base, O
<1>3. Len(Zeros) = 2 /\ Len(raw) = 2 /\ Len(base) = 12 =>
        Zeros \o raw \o base \in Seq(O) /\ LongParts(Zeros \o raw \o base, Zeros, raw, base)
  BY <1>1, <1>2, LongForm, Zenon
<1> QED  BY <1>1, <1>3, Zenon DEF base, O, Octets

(* A UUID that the AP reports in 16 or 128 bits is named to it as reported *)
(* or by its other form, whatever way it went through the client.          *)
LEMMA ThereAndBack ==
  ASSUME NEW raw \in Octets
  PROVE  Len(raw) \in {2, 16} => Means(UuidToBytes(FormatUuid(raw)), raw)
<1> DEFINE base == BaseUuid
           long == << 0, 0 >> \o raw \o base
<1>1. base \in Octets /\ Len(base) = 12 /\ << 0, 0 >> \in Octets /\ Len(<< 0, 0 >>) = 2
  BY DEF BaseUuid, Octets
<1> HIDE DEF base
<1>5. Len(raw) = 2 =>
        /\ long \in Octets /\ Len(long) = 16 /\ SubSeq(long, 1, 2) = << 0, 0 >>
        /\ SubSeq(long, 3, 4) = raw /\ SubSeq(long, 5, 16) = base
  BY LongUuid, Zenon DEF LongParts, Zeros, base, long
<1> HIDE DEF long
<1>4. \A u : Len(u) = 16 => UuidToBytes(u) = IF HasBase(u) THEN SubSeq(u, 3, 4) ELSE u
  <2> TAKE u
  <2> HAVE Len(u) = 16
  <2>1. Len(u) # 2
    OBVIOUS
  <2>2. CASE HasBase(u)
    BY <2>1, <2>2 DEF UuidToBytes
  <2>3. CASE ~ HasBase(u)
    BY <2>1, <2>3 DEF UuidToBytes
  <2> QED  BY <2>2, <2>3
<1>2. CASE Len(raw) = 2
  <2>1. FormatUuid(raw) = long
    BY <1>2 DEF FormatUuid, base, long
  <2>2. /\ long \in Octets /\ Len(long) = 16 /\ SubSeq(long, 1, 2) = << 0, 0 >>
        /\ SubSeq(long, 3, 4) = raw /\ SubSeq(long, 5, 16) = base
    BY <1>2, <1>5
  <2> HIDE DEF long
  <2>3. HasBase(long)
    BY <2>2 DEF HasBase, base
  <2>4. UuidToBytes(long) = raw
    BY <1>4, <2>2, <2>3
  <2> QED  BY <2>1, <2>4 DEF Means
<1>3. CASE Len(raw) = 16
  <2>1. FormatUuid(raw) = raw
    BY <1>3 DEF FormatUuid
  <2>2. CASE HasBase(raw)
    <3>1. UuidToBytes(raw) = SubSeq(raw, 3, 4)
      BY <1>3, <1>4, <2>2
    <3>2. SubSeq(raw, 1, 2) = << 0, 0 >> /\ SubSeq(raw, 5, 16) = base
      BY <1>3, <2>2 DEF HasBase, base
    <3>3. /\ SubSeq(raw, 1, 2) \o SubSeq(raw, 3, 4) = SubSeq(raw, 1, 4)
          /\ SubSeq(raw, 1, 4) \o SubSeq(raw, 5, 16) = SubSeq(raw, 1, 16)
      <4>1. SubSeq(raw, 1, 2) \o SubSeq(raw, 2 + 1, 4) = SubSeq(raw, 1, 4)
        BY <1>3, ConcatAdjacentSubSeq DEF Octets
      <4>2. SubSeq(raw, 1, 4) \o SubSeq(raw, 4 + 1, 16) = SubSeq(raw, 1, 16)
        BY <1>3, ConcatAdjacentSubSeq DEF Octets
      <4> QED  BY <4>1, <4>2
    <3>4. SubSeq(raw, 1, 16) = raw
      BY <1>3, SubSeqFull DEF Octets
    <3>5. raw = << 0, 0 >> \o SubSeq(raw, 3, 4) \o base
      BY <3>2, <3>3, <3>4
    <3> QED  BY <2>1, <3>1, <3>5 DEF Means, base
  <2>3. CASE ~ HasBase(raw)
    BY <1>3, <1>4, <2>1, <2>3 DEF Means
  <2> QED  BY <2>2, <2>3
<1> QED  BY <1>2, <1>3

Characteristic == [service : Octets, char : Octets]

(* No characteristics are made up for the client's device. *)
NoneMadeUp == TriggerUuid \notin seen \/ ToSet(CommandChars) = {}

Empty == services = << >> /\ chars = << >>

(* The collection as build_service_collection leaves it: handles count its *)
(* entries, and each characteristic and its service are a report's.        *)
FromReports ==
  /\ services \in Seq([handle : Nat, uuid : Octets])
  /\ chars \in Seq([handle : Nat, service : Nat, uuid : Octets, from : Characteristic])
  /\ \E n \in Nat : Handles = 1 .. n
  /\ \A s, t \in ToSet(services) : s.handle = t.handle => s = t
  /\ \A c \in ToSet(chars) :
       /\ c.uuid = FormatUuid(c.from.char)
       /\ \E s \in ToSet(services) :
            s.handle = c.service /\ s.uuid = FormatUuid(c.from.service)

(* The collection that the override makes of nothing *)
AllMadeUp ==
  /\ TriggerUuid \in seen
  /\ services = << [handle |-> 1, uuid |-> CommandService] >>
  /\ chars = [i \in DOMAIN CommandChars |->
                [handle |-> 1 + i, service |-> 1, uuid |-> CommandChars[i], from |-> NoReport]]

ServicesInvariant ==
  /\ todo \in Seq(Characteristic)
  /\ stage \in {"none", "guessing", "waiting", "listing", "offered"}
  /\ stage \in {"none", "guessing", "waiting"} => Empty
  /\ stage \in {"waiting", "listing"} => NoneMadeUp
  /\ stage = "listing" => FromReports
  /\ stage = "offered" => FromReports \/ AllMadeUp

LEMMA FormatIsOctets ==
  ASSUME NEW raw \in Octets PROVE FormatUuid(raw) \in Octets
<1>1. BaseUuid \in Octets /\ << 0, 0 >> \in Octets
  BY DEF Octets, BaseUuid
<1>2. << 0, 0 >> \o raw \o BaseUuid \in Octets
  <2>1. \A u, v \in Octets : u \o v \in Octets
    BY ConcatProperties DEF Octets
  <2> QED  BY <1>1, <2>1
<1> QED  BY <1>2 DEF FormatUuid

LEMMA EmptyIsFromReports == Empty => FromReports
<1> SUFFICES ASSUME Empty PROVE FromReports
  OBVIOUS
<1>1. ToSet(services) = {} /\ ToSet(chars) = {}
  BY DEF Empty, ToSet
<1>2. Handles = 1 .. 0
  BY <1>1 DEF Handles
<1> QED  BY <1>1, <1>2 DEF Empty, FromReports

(* What a collection offers is asked for as it was reported. *)
LEMMA ReportsAreAsked ==
  ASSUME FromReports PROVE AskedAsReported /\ \A c \in ToSet(chars) : c.from # NoReport
<1>1. \A s \in ToSet(services) : s \in [handle : Nat, uuid : Octets]
  BY LineSets DEF FromReports
<1>2. \A c \in ToSet(chars) : c \in [handle : Nat, service : Nat, uuid : Octets, from : Characteristic]
  BY LineSets DEF FromReports
<1>3. ASSUME NEW c \in ToSet(chars) PROVE c.from # NoReport
  <2>1. c.from \in Characteristic
    BY <1>2
  <2>2. DOMAIN c.from = {"service", "char"} /\ DOMAIN << >> = {}
    BY <2>1 DEF Characteristic
  <2> QED  BY <2>2 DEF NoReport
<1>4. ASSUME NEW c \in ToSet(chars)
      PROVE  /\ Len(c.from.char) \in {2, 16} => Means(UuidToBytes(c.uuid), c.from.char)
             /\ Len(c.from.service) \in {2, 16} =>
                  Means(UuidToBytes(ServiceOf(c)), c.from.service)
  <2>1. c.from.char \in Octets /\ c.from.service \in Octets
    BY <1>2 DEF Characteristic
  <2>2. PICK s \in ToSet(services) :
          s.handle = c.service /\ s.uuid = FormatUuid(c.from.service)
    BY DEF FromReports
  <2>3. \A t \in ToSet(services) : t.handle = c.service => t = s
    BY <2>2 DEF FromReports
  <2>4. (CHOOSE t \in ToSet(services) : t.handle = c.service) = s
    BY <2>2, <2>3
  <2>5. ServiceOf(c) = FormatUuid(c.from.service)
    BY <2>2, <2>4 DEF ServiceOf
  <2>6. c.uuid = FormatUuid(c.from.char)
    BY DEF FromReports
  <2>7. Len(c.from.char) \in {2, 16} => Means(UuidToBytes(c.uuid), c.from.char)
    BY <2>1, <2>6, ThereAndBack, Zenon
  <2>8. Len(c.from.service) \in {2, 16} =>
          Means(UuidToBytes(ServiceOf(c)), c.from.service)
    BY <2>1, <2>5, ThereAndBack, Zenon
  <2> QED  BY <2>7, <2>8
<1>5. AskedAsReported
  BY <1>4, Zenon DEF AskedAsReported
<1> QED  BY <1>3, <1>5

LEMMA MadeUpIsKnown == AllMadeUp => AskedAsReported
<1> SUFFICES ASSUME AllMadeUp PROVE AskedAsReported
  OBVIOUS
<1>1. \A c \in ToSet(chars) : c.from = NoReport
  BY DEF AllMadeUp, ToSet
<1> QED  BY <1>1 DEF AskedAsReported

(* One turn of the loop: the new entries take the next handles. *)
LEMMA ReportIsAdded ==
  ASSUME ServicesInvariant, AddReported
  PROVE  FromReports' /\ todo' \in Seq(Characteristic)
<1> DEFINE r == Head(todo)
           uuid == FormatUuid(r.service)
           handle == HandleOf(uuid, NextHandle)
           added == ServicesWith(uuid, handle)
           S == [handle : Nat, uuid : Octets]
           C == [handle : Nat, service : Nat, uuid : Octets, from : Characteristic]
           last == NextHandle + Len(added) - Len(services)
           new == [handle |-> last, service |-> handle, uuid |-> FormatUuid(r.char), from |-> r]
<1>1. r \in Characteristic /\ todo' \in Seq(Characteristic) /\ FromReports
  <2>1. todo \in Seq(Characteristic) /\ todo # << >> /\ todo' = Tail(todo) /\ stage = "listing"
    BY DEF ServicesInvariant, AddReported
  <2> QED  BY <2>1, HeadTailProperties DEF ServicesInvariant
<1>2. \/ services' = services /\ chars' = chars
      \/ services' = added /\ chars' \in {chars, Append(chars, new)}
  BY DEF AddReported, collection
<1>3. CASE services' = services /\ chars' = chars
  <2>1. Handles' = Handles
    BY <1>3 DEF Handles
  <2> QED  BY <1>1, <1>3, <2>1 DEF FromReports
<1>4. CASE services' = added /\ chars' \in {chars, Append(chars, new)}
  <2>1. services \in Seq(S) /\ chars \in Seq(C)
    BY <1>1 DEF FromReports
  <2>2. uuid \in Octets /\ FormatUuid(r.char) \in Octets
    BY <1>1, FormatIsOctets DEF Characteristic
  <2>3. PICK n \in Nat : Handles = 1 .. n
    BY <1>1 DEF FromReports
  <2>4. NextHandle = n + 1
    <3>1. 1 \in Int /\ n \in Int /\ (1 > n => n = 0) /\ n - 1 + 1 = n
      OBVIOUS
    <3>2. Cardinality(1 .. n) = n
      BY <3>1, FS_Interval
    <3> QED  BY <2>3, <3>2 DEF NextHandle
  <2>5. /\ \A s \in ToSet(services) : s \in S /\ s.handle \in 1 .. n
        /\ \A c \in ToSet(chars) : c \in C /\ c.handle \in 1 .. n
    BY <2>1, <2>3, LineSets DEF Handles
  <2> HIDE DEF r, uuid, handle, added, last, new, S, C
  <2>6. /\ handle \in Nat
        /\ \/ handle \in 1 .. n /\ added = services
              /\ \E s \in ToSet(services) : s.handle = handle /\ s.uuid = uuid
           \/ handle = n + 1 /\ added = Append(services, [handle |-> handle, uuid |-> uuid])
    <3>1. CASE \E s \in ToSet(services) : s.uuid = uuid
      <4> DEFINE t == CHOOSE s \in ToSet(services) : s.uuid = uuid
      <4>1. t \in ToSet(services) /\ t.uuid = uuid
        BY <3>1
      <4>2. handle = t.handle
        BY <3>1 DEF HandleOf, handle
      <4>3. added = services
        BY <4>1, <4>2 DEF ServicesWith, added
      <4> HIDE DEF t
      <4>4. handle \in 1 .. n /\ handle \in Nat
        BY <2>5, <4>1, <4>2
      <4> QED  BY <4>1, <4>2, <4>3, <4>4, Zenon
    <3>2. CASE ~ \E s \in ToSet(services) : s.uuid = uuid
      <4>1. handle = n + 1
        BY <2>4, <3>2 DEF HandleOf, handle
      <4>2. ~ \E s \in ToSet(services) : s.handle = handle
        BY <2>5, <4>1
      <4>3. added = Append(services, [handle |-> handle, uuid |-> uuid])
        BY <4>2 DEF ServicesWith, added
      <4> QED  BY <4>1, <4>3
    <3> QED  BY <3>1, <3>2
  <2>7. /\ services' \in Seq(S)
        /\ \A s, t \in ToSet(services') : s.handle = t.handle => s = t
        /\ \E s \in ToSet(services') : s.handle = handle /\ s.uuid = uuid
        /\ \A s \in ToSet(services) : s \in ToSet(services')
        /\ \/ services' = services /\ last = n + 1
           \/ /\ ToSet(services') = ToSet(services) \cup {[handle |-> n + 1, uuid |-> uuid]}
              /\ last = n + 2
    <3>1. CASE handle \in 1 .. n /\ added = services
               /\ \E s \in ToSet(services) : s.handle = handle /\ s.uuid = uuid
      <4>1. Len(services) \in Nat
        BY <2>1, LenProperties
      <4>2. last = n + 1
        BY <2>4, <3>1, <4>1 DEF last
      <4> QED  BY <1>1, <1>4, <2>1, <3>1, <4>2 DEF FromReports
    <3>2. CASE handle = n + 1 /\ added = Append(services, [handle |-> handle, uuid |-> uuid])
      <4> DEFINE e == [handle |-> n + 1, uuid |-> uuid]
      <4>1. e \in S /\ services' = Append(services, e)
        BY <1>4, <2>2, <3>2 DEF S
      <4>2. services' \in Seq(S) /\ Len(services') = Len(services) + 1 /\ Len(services) \in Nat
        BY <2>1, <4>1, AppendProperties, LenProperties
      <4>3. ToSet(services') = ToSet(services) \cup {e}
        BY <2>1, <4>1, LineSets
      <4>4. last = n + 2
        BY <1>4, <2>4, <4>2 DEF last
      <4>5. \A s \in ToSet(services) : s.handle # e.handle
        BY <2>5
      <4>6. \A s, t \in ToSet(services) : s.handle = t.handle => s = t
        BY <1>1 DEF FromReports
      <4>7. \A s, t \in ToSet(services') : s.handle = t.handle => s = t
        BY <4>3, <4>5, <4>6, Zenon
      <4>8. e.handle = handle /\ e.uuid = uuid
        BY <3>2
      <4> QED  BY <4>2, <4>3, <4>4, <4>7, <4>8
    <3> QED  BY <2>6, <3>1, <3>2
  <2>8. new \in C /\ last \in Nat
    BY <1>1, <2>2, <2>6, <2>7 DEF new, C
  <2>9. /\ chars' \in Seq(C)
        /\ chars' = chars \/ ToSet(chars') = ToSet(chars) \cup {new}
    <3>1. CASE chars' = chars
      BY <2>1, <3>1
    <3>2. CASE chars' = Append(chars, new)
      BY <2>1, <2>8, <3>2, LineSets, AppendProperties
    <3> QED  BY <1>4, <3>1, <3>2
  <2>10. \E m \in Nat : Handles' = 1 .. m
    <3>1. Handles' = {s.handle : s \in ToSet(services')} \cup {c.handle : c \in ToSet(chars')}
      BY DEF Handles
    <3>2. 1 .. n = {s.handle : s \in ToSet(services)} \cup {c.handle : c \in ToSet(chars)}
      BY <2>3 DEF Handles
    <3>3. \/ ToSet(chars') = ToSet(chars)
          \/ {c.handle : c \in ToSet(chars')} = {c.handle : c \in ToSet(chars)} \cup {last}
      <4>1. new.handle = last
        BY DEF new
      <4> QED  BY <2>9, <4>1
    <3>4. CASE services' = services /\ last = n + 1
      <4>1. Handles' = 1 .. n \/ Handles' = (1 .. n) \cup {n + 1}
        BY <3>1, <3>2, <3>3, <3>4
      <4>2. (1 .. n) \cup {n + 1} = 1 .. (n + 1) /\ n + 1 \in Nat
        OBVIOUS
      <4> QED  BY <4>1, <4>2
    <3>5. CASE /\ ToSet(services') = ToSet(services) \cup {[handle |-> n + 1, uuid |-> uuid]}
               /\ last = n + 2
      <4>0. {s.handle : s \in ToSet(services')} = {s.handle : s \in ToSet(services)} \cup {n + 1}
        <5> DEFINE e == [handle |-> n + 1, uuid |-> uuid]
        <5>1. e.handle = n + 1 /\ ToSet(services') = ToSet(services) \cup {e}
          BY <3>5
        <5> HIDE DEF e
        <5> QED  BY <5>1
      <4>1. Handles' = (1 .. n) \cup {n + 1} \/ Handles' = (1 .. n) \cup {n + 1, n + 2}
        BY <3>1, <3>2, <3>3, <3>5, <4>0
      <4>2. (1 .. n) \cup {n + 1} = 1 .. (n + 1) /\ (1 .. n) \cup {n + 1, n + 2} = 1 .. (n + 2)
            /\ n + 1 \in Nat /\ n + 2 \in Nat
        OBVIOUS
      <4> QED  BY <4>1, <4>2
    <3> QED  BY <2>7, <3>4, <3>5
  <2>11. \A c \in ToSet(chars') :
           /\ c.uuid = FormatUuid(c.from.char)
           /\ \E s \in ToSet(services') :
                s.handle = c.service /\ s.uuid = FormatUuid(c.from.service)
    <3>1. \A c \in ToSet(chars) :
            /\ c.uuid = FormatUuid(c.from.char)
            /\ \E s \in ToSet(services) :
                 s.handle = c.service /\ s.uuid = FormatUuid(c.from.service)
      BY <1>1 DEF FromReports
    <3>2. /\ new.uuid = FormatUuid(new.from.char)
          /\ new.service = handle /\ uuid = FormatUuid(new.from.service)
      BY DEF new, uuid
    <3> QED  BY <2>7, <2>9, <3>1, <3>2, Zenon
  <2> QED  BY <1>1, <2>7, <2>9, <2>10, <2>11 DEF FromReports, S, C
<1> QED  BY <1>1, <1>2, <1>3, <1>4

(* The override of a collection of nothing *)
LEMMA OverrideOfNothing ==
  ASSUME Empty, Overridden, seen' = seen
  PROVE  \/ chars' # << >> /\ AllMadeUp'
         \/ chars' = << >> /\ Empty' /\ NoneMadeUp'
<1> DEFINE missing == Kept(CommandChars, {i \in DOMAIN CommandChars : CommandChars[i] \notin Known})
           handle == HandleOf(CommandService, NextFreeHandle)
           added == ServicesWith(CommandService, handle)
           first == NextFreeHandle + Len(added) - Len(services)
           made == [i \in DOMAIN missing |->
                      [handle |-> first + i - 1, service |-> handle, uuid |-> missing[i], from |-> NoReport]]
           e == [handle |-> 1, uuid |-> CommandService]
<1>1. services = << >> /\ chars = << >> /\ ToSet(services) = {} /\ ToSet(chars) = {}
  BY DEF Empty, ToSet
<1>2. Known = {} /\ NextFreeHandle = 1
  BY <1>1 DEF Known, NextFreeHandle
<1>3. CommandChars \in Seq(Octets)
  BY OverrideAssumption DEF Octet, Octets
<1>4. missing = CommandChars
  <2>1. {i \in DOMAIN CommandChars : CommandChars[i] \notin Known} = DOMAIN CommandChars
    BY <1>2
  <2>2. missing = Kept(CommandChars, DOMAIN CommandChars)
    BY <2>1
  <2> QED  BY <1>3, <2>2, KeptAll
<1>5. handle = 1
  BY <1>1, <1>2 DEF HandleOf
<1>6. added = << e >>
  <2>1. added = Append(services, e)
    BY <1>1, <1>5 DEF ServicesWith
  <2> QED  BY <1>1, <2>1
<1>7. first = 2
  <2> HIDE DEF added, e
  <2>1. Len(added) = 1 /\ Len(services) = 0
    BY <1>1, <1>6
  <2> QED  BY <1>2, <2>1
<1>8. Matches <=> TriggerUuid \in seen /\ ToSet(CommandChars) # {}
  BY <1>2 DEF Matches
<1>a. \E s \in ToSet(added) : s.uuid = CommandService
  <2>1. e \in ToSet(<< e >>) /\ e.uuid = CommandService
    BY DEF ToSet
  <2> QED  BY <1>6, <2>1
<1>9. /\ Matches => services' = added /\ chars' = chars \o made
      /\ ~ Matches => services' = services /\ chars' = chars
  BY <1>a DEF Overridden, collection
<1> DEFINE all == [i \in DOMAIN CommandChars |->
                     [handle |-> 1 + i, service |-> 1, uuid |-> CommandChars[i], from |-> NoReport]]
<1>10. made = all
  <2> HIDE DEF handle, first, missing
  <2>1. \A i \in DOMAIN CommandChars : first + i - 1 = 1 + i
    BY <1>3, <1>7
  <2> QED  BY <1>4, <1>5, <2>1
<1> HIDE DEF missing, handle, added, first, made, e
<1>11. CASE Matches
  <2> DEFINE N == Len(CommandChars)
             E == [handle : Nat, service : {1}, uuid : Octets, from : {NoReport}]
  <2>1. N \in Nat /\ DOMAIN CommandChars = 1 .. N /\ \A i \in 1 .. N : CommandChars[i] \in Octets
    BY <1>3, LenProperties, ElementOfSeq
  <2>2. all = [i \in 1 .. N |-> [handle |-> 1 + i, service |-> 1, uuid |-> CommandChars[i], from |-> NoReport]]
    BY <2>1
  <2>3. all \in [1 .. N -> E]
    BY <2>1, <2>2
  <2>4. all \in Seq(E) /\ Len(all) = N
    BY <2>1, <2>3, SeqDef, LenProperties
  <2>5. << >> \o all = all
    BY <2>4, ConcatEmptySeq
  <2>6. chars' = all /\ services' = << e >>
    BY <1>1, <1>6, <1>9, <1>10, <1>11, <2>5
  <2>7. N # 0
    BY <1>8, <1>11, <2>1 DEF ToSet
  <2>8. chars' # << >>
    BY <2>4, <2>6, <2>7, EmptySeq
  <2>9. TriggerUuid \in seen
    BY <1>8, <1>11
  <2> QED  BY <2>6, <2>8, <2>9 DEF AllMadeUp, e
<1>12. CASE ~ Matches
  <2>1. services' = << >> /\ chars' = << >>
    BY <1>1, <1>9, <1>12
  <2>2. TriggerUuid \notin seen \/ ToSet(CommandChars) = {}
    BY <1>8, <1>12
  <2> QED  BY <2>1, <2>2 DEF Empty, NoneMadeUp
<1> QED  BY <1>11, <1>12

(* When none are made up for the device, the override changes nothing. *)
LEMMA NoOverride ==
  ASSUME NoneMadeUp, Overridden PROVE UNCHANGED << services, chars >>
<1>1. ~ Matches
  BY DEF NoneMadeUp, Matches
<1> QED  BY <1>1 DEF Overridden, collection

LEMMA InitServices == ServicesInit => ServicesInvariant
  BY EmptySeq DEF ServicesInit, ServicesInvariant, Empty

LEMMA NextServices ==
  ASSUME ServicesInvariant, [ServicesNext]_servicesVars
  PROVE  ServicesInvariant'
<1> USE DEF connecting, collection
<1>1. ASSUME UNCHANGED << stage, seen, todo, services, chars >>
      PROVE  ServicesInvariant'
  <2>1. Handles' = Handles
    BY <1>1 DEF Handles
  <2> QED  BY <1>1, <2>1
           DEF ServicesInvariant, Empty, NoneMadeUp, FromReports, AllMadeUp
<1>2. ASSUME NEW d \in Advertiser, LooksUp(d) PROVE ServicesInvariant'
  BY <1>2 DEF LooksUp, ServicesInvariant, Empty
<1>3. ASSUME NEW d \in Advertiser, NEW p \in Payload, Frame(d, p) PROVE ServicesInvariant'
  BY <1>1, <1>3 DEF Frame
<1>4. CASE Parse
  BY <1>1, <1>4 DEF Parse
<1>5. CASE Heard
  BY <1>1, <1>5 DEF Heard
<1>6. CASE Guesses
  <2>1. Empty /\ seen' = seen /\ todo' = todo /\ Overridden
    BY <1>6 DEF Guesses, ServicesInvariant
  <2>2. \/ chars' # << >> /\ AllMadeUp'
        \/ chars' = << >> /\ Empty' /\ NoneMadeUp'
    BY <2>1, OverrideOfNothing
  <2>3. stage' = IF chars' # << >> THEN "offered" ELSE "waiting"
    BY <1>6 DEF Guesses
  <2> QED  BY <2>1, <2>2, <2>3 DEF ServicesInvariant
<1>7. ASSUME NEW list \in Report, Reported(list) PROVE ServicesInvariant'
  <2>1. list \in Seq(Characteristic)
    BY ReportAssumption DEF Octet, Characteristic, Octets
  <2>2. NoneMadeUp /\ NoneMadeUp' /\ Empty'
    BY <1>7 DEF Reported, ServicesInvariant, NoneMadeUp, Empty
  <2>3. FromReports'
    <3>1. (Empty => FromReports)'
      BY EmptyIsFromReports, PTL
    <3> QED  BY <2>2, <3>1
  <2> QED  BY <1>7, <2>1, <2>2, <2>3 DEF Reported, ServicesInvariant
<1>8. CASE AddReported
  <2>1. FromReports' /\ todo' \in Seq(Characteristic)
    BY <1>8, ReportIsAdded
  <2>2. stage = "listing" /\ stage' = "listing" /\ NoneMadeUp'
    BY <1>8 DEF AddReported, ServicesInvariant, NoneMadeUp
  <2> QED  BY <2>1, <2>2 DEF ServicesInvariant
<1>9. CASE Offers
  <2>1. NoneMadeUp /\ FromReports /\ Overridden
    BY <1>9 DEF Offers, ServicesInvariant
  <2>2. services' = services /\ chars' = chars
    BY <2>1, NoOverride
  <2>3. FromReports'
    <3>1. Handles' = Handles
      BY <2>2 DEF Handles
    <3> QED  BY <2>1, <2>2, <3>1 DEF FromReports
  <2> QED  BY <1>9, <2>3 DEF Offers, ServicesInvariant
<1>10. CASE Forgets
  BY <1>10 DEF Forgets, ServicesInvariant, Empty
<1>11. CASE UNCHANGED servicesVars
  BY <1>1, <1>11 DEF servicesVars
<1> QED  BY <1>2, <1>3, <1>4, <1>5, <1>6, <1>7, <1>8, <1>9, <1>10, <1>11 DEF ServicesNext

LEMMA ServicesAlways ==
  ServicesSpec => []ServicesInvariant
<1>1. ServicesInit => ServicesInvariant
  BY InitServices
<1>2. ServicesInvariant /\ [ServicesNext]_servicesVars => ServicesInvariant'
  BY NextServices
<1> QED  BY <1>1, <1>2, PTL DEF ServicesSpec

LEMMA OfferedKinds ==
  ServicesInvariant => FromReports \/ AllMadeUp
  BY EmptyIsFromReports DEF ServicesInvariant

(* A request for a characteristic that the AP has reported names it by the *)
(* UUIDs that the AP gave (_format_uuid and uuid_to_bytes undo each other, *)
(* and a characteristic's service is the one it was reported with).        *)
THEOREM RequestsNameWhatWasReported ==
  ServicesSpec => []AskedAsReported
<1>1. ServicesInvariant => AskedAsReported
  BY OfferedKinds, ReportsAreAsked, MadeUpIsKnown
<1> QED  BY <1>1, ServicesAlways, PTL

(* No two of what is remembered are of one device. *)
OnceEach(w) == \A i, j \in DOMAIN w : w[i].device = w[j].device => i = j

LearntOf(w, d) == UNION {e.uuids : e \in {x \in ToSet(w) : x.device = d}}

Remembering ==
  /\ \E S : advertised \in Seq(S)
  /\ OnceEach(advertised)
  /\ Len(advertised) <= AdvertisedLimit

LEMMA OnceCounts ==
  ASSUME NEW S, NEW w \in Seq(S), OnceEach(w)
  PROVE  Cardinality({e.device : e \in ToSet(w)}) = Len(w)
<1> DEFINE n == Len(w)
           f == [i \in 1 .. n |-> w[i].device]
<1>1. n \in Nat /\ DOMAIN w = 1 .. n
  BY LenProperties
<1> HIDE DEF n
<1>2. \A i \in 1 .. n : f[i] = w[i].device
  OBVIOUS
<1>3. \A i, j \in 1 .. n : f[i] = f[j] => i = j
  BY <1>1, <1>2 DEF OnceEach
<1>4. f = [i \in 1 .. n |-> f[i]]
  OBVIOUS
<1>5. {f[i] : i \in 1 .. n} = {e.device : e \in ToSet(w)}
  BY <1>1, <1>2 DEF ToSet
<1> HIDE DEF f
<1>6. Cardinality({f[i] : i \in 1 .. n}) = n
  BY <1>1, <1>3, <1>4, CountOnce
<1> QED  BY <1>5, <1>6 DEF n

(* What a frame of a device d makes of what is remembered *)
LEMMA RememberedSets ==
  ASSUME NEW S, NEW w \in Seq(S), OnceEach(w), NEW limit \in Nat \ {0}, Len(w) <= limit,
         NEW d, NEW uuids
  PROVE  LET others == Kept(w, {i \in DOMAIN w : w[i].device # d})
             e == [device |-> d, uuids |-> LearntOf(w, d) \cup uuids]
             all == Append(others, e)
             new == IF Len(all) > limit THEN Tail(all) ELSE all IN
         /\ \E T : new \in Seq(T)
         /\ OnceEach(new) /\ Len(new) <= limit /\ e \in ToSet(new)
         /\ Len(w) < limit => \A x \in ToSet(w) : x.device # d => x \in ToSet(new)
<1> DEFINE I == {i \in DOMAIN w : w[i].device # d}
           others == Kept(w, I)
           e == [device |-> d, uuids |-> LearntOf(w, d) \cup uuids]
           all == Append(others, e)
           new == IF Len(all) > limit THEN Tail(all) ELSE all
           m == Len(others)
           T == S \cup {e}
<1> SUFFICES /\ \E U : new \in Seq(U)
             /\ OnceEach(new) /\ Len(new) <= limit /\ e \in ToSet(new)
             /\ Len(w) < limit => \A x \in ToSet(w) : x.device # d => x \in ToSet(new)
  OBVIOUS
<1>1. Len(w) \in Nat /\ DOMAIN w = 1 .. Len(w) /\ I \in SUBSET (1 .. Len(w))
  BY LenProperties
<1>2. /\ others \in Seq(S) /\ m = Cardinality(I)
      /\ ToSet(others) = {w[i] : i \in I}
  <2> HIDE DEF I
  <2> QED  BY <1>1, KeptElements
<1>3. m \in Nat /\ m <= Len(w) /\ DOMAIN others = 1 .. m
  <2> HIDE DEF I
  <2>1. Cardinality(I) <= Cardinality(1 .. Len(w)) /\ Cardinality(1 .. Len(w)) = Len(w)
    <3>1. IsFiniteSet(1 .. Len(w)) /\ Cardinality(1 .. Len(w)) = Len(w)
      <4>1. 1 \in Int /\ Len(w) \in Int /\ (1 > Len(w) => Len(w) = 0) /\ Len(w) - 1 + 1 = Len(w)
        BY <1>1
      <4> QED  BY <4>1, FS_Interval
    <3> QED  BY <1>1, <3>1, FS_Subset
  <2>2. m \in Nat /\ DOMAIN others = 1 .. m
    BY <1>2, LenProperties
  <2> QED  BY <1>2, <2>1, <2>2
<1>4. e.device = d
  OBVIOUS
<1>5. \A i \in 1 .. m : others[i].device # d
  <2>1. \A i \in 1 .. m : others[i] \in ToSet(others)
    BY <1>3 DEF ToSet
  <2>2. \A i \in I : w[i].device # d
    OBVIOUS
  <2> HIDE DEF others, m, I
  <2> QED  BY <1>2, <2>1, <2>2
<1>6. OnceEach(others)
  <2>1. \A a, b \in 1 .. m : a # b =>
          \E i, j \in I : i # j /\ others[a] = w[i] /\ others[b] = w[j]
    <3> HIDE DEF I
    <3>1. \A a, b \in 1 .. Cardinality(I) : a # b =>
            \E i, j \in I : i # j /\ Kept(w, I)[a] = w[i] /\ Kept(w, I)[b] = w[j]
      <4>1. I \in SUBSET (DOMAIN w)
        BY <1>1
      <4> TAKE a, b \in 1 .. Cardinality(I)
      <4> HAVE a # b
      <4> QED  BY <4>1, KeptPlaces
    <3>2. Cardinality(I) = m
      BY <1>2
    <3> QED  BY <3>1, <3>2
  <2>2. \A i, j \in I : i # j => w[i].device # w[j].device
    BY DEF OnceEach
  <2> HIDE DEF others, m, I
  <2> QED  BY <1>3, <2>1, <2>2 DEF OnceEach
<1> HIDE DEF others, e, I, m
<1>7. /\ all \in Seq(T) /\ Len(all) = m + 1 /\ DOMAIN all = 1 .. m + 1
      /\ \A i \in 1 .. m : all[i] = others[i]
      /\ all[m + 1] = e
  <2>1. others \in Seq(T) /\ e \in T
    BY <1>2
  <2>2. /\ all \in Seq(T) /\ Len(all) = Len(others) + 1
        /\ \A i \in 1 .. Len(others) : all[i] = others[i]
        /\ all[Len(others) + 1] = e
    BY <2>1, AppendProperties
  <2> QED  BY <1>3, <2>2, LenProperties DEF m
<1> HIDE DEF all, T
<1>8. OnceEach(all)
  <2> SUFFICES ASSUME NEW i \in 1 .. m + 1, NEW j \in 1 .. m + 1, all[i].device = all[j].device
               PROVE  i = j
    BY <1>7 DEF OnceEach
  <2>1. CASE i \in 1 .. m /\ j \in 1 .. m
    <3>1. others[i].device = others[j].device
      BY <1>7, <2>1
    <3> QED  BY <1>3, <1>6, <2>1, <3>1 DEF OnceEach
  <2>2. CASE i = m + 1 /\ j \in 1 .. m
    BY <1>4, <1>5, <1>7, <2>2
  <2>3. CASE i \in 1 .. m /\ j = m + 1
    BY <1>4, <1>5, <1>7, <2>3
  <2>4. CASE i = m + 1 /\ j = m + 1
    BY <2>4
  <2> QED  BY <1>3, <2>1, <2>2, <2>3, <2>4
<1>9. CASE m + 1 > limit
  <2>1. new = Tail(all) /\ all # << >> /\ m = limit
    BY <1>1, <1>3, <1>7, <1>9, EmptySeq
  <2>2. /\ Tail(all) \in Seq(T) /\ Len(Tail(all)) = m /\ DOMAIN Tail(all) = 1 .. m
        /\ \A i \in 1 .. m : Tail(all)[i] = all[i + 1]
    BY <1>3, <1>7, <2>1, TailKeepsOthers, HeadTailProperties, LenProperties
  <2>3. OnceEach(Tail(all))
    <3> SUFFICES ASSUME NEW i \in 1 .. m, NEW j \in 1 .. m, Tail(all)[i].device = Tail(all)[j].device
                 PROVE  i = j
      BY <2>2 DEF OnceEach
    <3>1. all[i + 1].device = all[j + 1].device /\ i + 1 \in 1 .. m + 1 /\ j + 1 \in 1 .. m + 1
      BY <1>3, <2>2
    <3>2. i + 1 = j + 1
      BY <1>7, <1>8, <3>1 DEF OnceEach
    <3> QED  BY <3>2
  <2>4. Tail(all)[m] = e /\ m \in 1 .. m
    BY <1>3, <1>7, <2>1, <2>2
  <2>5. e \in ToSet(Tail(all))
    BY <2>2, <2>4 DEF ToSet
  <2>6. ~ Len(w) < limit
    BY <1>1, <1>3, <2>1
  <2> HIDE DEF new
  <2> QED  BY <1>9, <2>1, <2>2, <2>3, <2>5, <2>6
<1>10. CASE ~ m + 1 > limit
  <2>1. new = all /\ m + 1 <= limit
    BY <1>3, <1>7, <1>10
  <2>2. e \in ToSet(all) /\ \A x \in ToSet(others) : x \in ToSet(all)
    BY <1>3, <1>7 DEF ToSet
  <2>3. \A x \in ToSet(w) : x.device # d => x \in ToSet(others)
    BY <1>2 DEF ToSet, I
  <2> HIDE DEF new
  <2> QED  BY <1>7, <1>8, <2>1, <2>2, <2>3
<1> QED  BY <1>9, <1>10

LEMMA RememberingInit == ServicesInit => Remembering
<1> SUFFICES ASSUME ServicesInit PROVE Remembering
  OBVIOUS
<1>1. advertised = << >>
  BY DEF ServicesInit
<1>2. advertised \in Seq({}) /\ Len(advertised) = 0 /\ DOMAIN advertised = {}
  BY <1>1
<1>3. AdvertisedLimit \in Nat
  BY LimitAssumption
<1> QED  BY <1>2, <1>3 DEF Remembering, OnceEach

LEMMA RememberingNext ==
  ASSUME Remembering, [ServicesNext]_servicesVars
  PROVE  Remembering' /\ NothingUnlearnt
<1> DEFINE limit == AdvertisedLimit

<1>1. limit \in Nat \ {0}
  BY LimitAssumption
<1>2. PICK S : advertised \in Seq(S)
  BY DEF Remembering
<1>3. \A d : UuidsOf(d) = LearntOf(advertised, d)
  BY DEF UuidsOf, LearntOf
<1>4. \/ advertised' = advertised
      \/ \E uuids : advertised' = Remembered(hearing, uuids)
  <2>1. ASSUME NEW d \in Advertiser, LooksUp(d) PROVE advertised' = advertised
    BY <2>1 DEF LooksUp
  <2>2. ASSUME NEW d \in Advertiser, NEW p \in Payload, Frame(d, p) PROVE advertised' = advertised
    BY <2>2 DEF Frame
  <2>3. ASSUME NEW list \in Report, Reported(list) PROVE advertised' = advertised
    BY <2>3 DEF Reported
  <2>4. CASE Heard
    BY <2>4 DEF Heard
  <2>5. CASE Parse \/ Guesses \/ AddReported \/ Offers \/ Forgets
    BY <2>5 DEF Parse, Guesses, AddReported, Offers, Forgets
  <2>6. CASE UNCHANGED servicesVars
    BY <2>6 DEF servicesVars
  <2> QED  BY <2>1, <2>2, <2>3, <2>4, <2>5, <2>6 DEF ServicesNext
<1>5. /\ Remembering'
      /\ \A d \in Advertiser : (d = hearing \/ Len(advertised) < limit) =>
           LearntOf(advertised, d) \subseteq LearntOf(advertised', d)
  <2>1. CASE advertised' = advertised
    BY <2>1 DEF Remembering
  <2>2. ASSUME NEW uuids, advertised' = Remembered(hearing, uuids)
        PROVE  /\ Remembering'
               /\ \A d \in Advertiser : (d = hearing \/ Len(advertised) < limit) =>
                    LearntOf(advertised, d) \subseteq LearntOf(advertised', d)
    <3> DEFINE e == [device |-> hearing, uuids |-> LearntOf(advertised, hearing) \cup uuids]
               others == Kept(advertised, {i \in DOMAIN advertised : advertised[i].device # hearing})
               all == Append(others, e)
               new == IF Len(all) > limit THEN Tail(all) ELSE all
    <3>1. advertised' = new
      BY <1>3, <2>2 DEF Remembered
    <3>2. /\ \E T : new \in Seq(T)
          /\ OnceEach(new) /\ Len(new) <= limit /\ e \in ToSet(new)
          /\ Len(advertised) < limit =>
               \A x \in ToSet(advertised) : x.device # hearing => x \in ToSet(new)
      <4>1. OnceEach(advertised) /\ Len(advertised) <= limit
        BY DEF Remembering
      <4> HIDE DEF limit
      <4> QED  BY <1>1, <1>2, <4>1, RememberedSets
    <3>3. e.device = hearing /\ e.uuids = LearntOf(advertised, hearing) \cup uuids
      OBVIOUS
    <3> HIDE DEF new, e
    <3>4. Remembering'
      BY <3>1, <3>2 DEF Remembering
    <3>5. ASSUME NEW d, d = hearing PROVE LearntOf(advertised, d) \subseteq LearntOf(new, d)
      <4>1. e.uuids \subseteq LearntOf(new, d)
        BY <3>2, <3>3, <3>5 DEF LearntOf
      <4> QED  BY <3>3, <3>5, <4>1
    <3>6. ASSUME NEW d, d # hearing, Len(advertised) < limit
          PROVE  LearntOf(advertised, d) \subseteq LearntOf(new, d)
      BY <3>2, <3>6 DEF LearntOf
    <3> QED  BY <3>1, <3>4, <3>5, <3>6
  <2> QED  BY <1>4, <2>1, <2>2
<1>6. Cardinality({e.device : e \in ToSet(advertised')}) = Len(advertised')
  BY <1>5, OnceCounts DEF Remembering
<1>7. \A d : UNION {e.uuids : e \in {x \in ToSet(advertised') : x.device = d}} = LearntOf(advertised', d)
  BY DEF LearntOf
<1>8. Len(advertised') <= AdvertisedLimit
  BY <1>5 DEF Remembering
<1>9. \A d \in Advertiser : (d = hearing \/ Len(advertised) < AdvertisedLimit) =>
         UuidsOf(d) \subseteq UNION {e.uuids : e \in {x \in ToSet(advertised') : x.device = d}}
  BY <1>3, <1>5, <1>7
<1> QED  BY <1>5, <1>6, <1>8, <1>9 DEF NothingUnlearnt

(* A frame takes nothing from what the runtime knows of its device, nor,   *)
(* while there is room, of others, and no device is remembered twice       *)
(* (_update_stats moves the device to the end, and pops the oldest).       *)
THEOREM WhatWasHeardStays ==
  ServicesSpec => NothingIsUnlearnt
<1>1. ServicesInit => Remembering
  BY RememberingInit
<1>2. Remembering /\ [ServicesNext]_servicesVars => Remembering'
  BY RememberingNext
<1>3. Remembering /\ [ServicesNext]_servicesVars => [NothingUnlearnt]_servicesVars
  BY RememberingNext
<1> QED  BY <1>1, <1>2, <1>3, PTL DEF ServicesSpec, NothingIsUnlearnt

-----------------------------------------------------------------------------
(* Advertisements *)

Structure == [type : Octet, data : Seq(Octet)]

(* The places of w at which there is a structure of a kind Q *)
In(w, Q) == {i \in DOMAIN w : w[i] \in Q}

Naming == {s \in Structure : s.type \in NameTypes}
Powering == {s \in Structure : s.type = PowerType /\ Len(s.data) >= 1}
Listing == {s \in Structure : s.type \in UuidListTypes}
Manufacturing == {s \in Structure : s.type = ManufacturerType /\ Len(s.data) >= 2}
Serving == {s \in Structure : s.type \in ServiceDataTypes /\ Len(s.data) >= Width(s.type)}

(* One more structure *)
LEMMA InAppend ==
  ASSUME NEW w \in Seq(Structure), NEW s \in Structure, NEW Q
  PROVE  /\ Append(w, s) \in Seq(Structure)
         /\ In(w, Q) \subseteq 1 .. Len(w) /\ Len(w) \in Nat
         /\ In(Append(w, s), Q) = In(w, Q) \cup (IF s \in Q THEN {Len(w) + 1} ELSE {})
         /\ \A i \in 1 .. Len(w) : Append(w, s)[i] = w[i]
         /\ Append(w, s)[Len(w) + 1] = s
<1> DEFINE v == Append(w, s)
           n == Len(w)
<1>1. /\ v \in Seq(Structure) /\ Len(v) = n + 1 /\ n \in Nat
      /\ \A i \in 1 .. n : v[i] = w[i]
      /\ v[n + 1] = s
      /\ DOMAIN v = 1 .. n + 1 /\ DOMAIN w = 1 .. n
  BY AppendProperties, LenProperties
<1> HIDE DEF v, n
<1>2. In(w, Q) \subseteq 1 .. n
  BY <1>1 DEF In
<1>3. \A i : i \in In(v, Q) <=> i \in In(w, Q) \cup (IF s \in Q THEN {n + 1} ELSE {})
  <2> TAKE i
  <2>1. i \in 1 .. n + 1 <=> i \in 1 .. n \/ i = n + 1
    BY <1>1
  <2>2. ~ (n + 1 \in 1 .. n)
    BY <1>1
  <2> QED  BY <1>1, <2>1, <2>2 DEF In
<1>4. In(v, Q) = In(w, Q) \cup (IF s \in Q THEN {n + 1} ELSE {})
  BY <1>3
<1> QED  BY <1>1, <1>2, <1>4 DEF v, n

(* The last of a kind *)
LEMMA LastAppend ==
  ASSUME NEW w \in Seq(Structure), NEW s \in Structure, NEW Q
  PROVE  /\ s \in Q => /\ In(Append(w, s), Q) # {}
                       /\ Append(w, s)[Max(In(Append(w, s), Q))] = s
         /\ s \notin Q => /\ In(Append(w, s), Q) = In(w, Q)
                          /\ In(w, Q) # {} => Append(w, s)[Max(In(w, Q))] = w[Max(In(w, Q))]
<1> DEFINE v == Append(w, s)
           n == Len(w)
<1>1. /\ In(w, Q) \subseteq 1 .. n /\ n \in Nat
      /\ In(v, Q) = In(w, Q) \cup (IF s \in Q THEN {n + 1} ELSE {})
      /\ \A i \in 1 .. n : v[i] = w[i]
      /\ v[n + 1] = s
  BY InAppend
<1> HIDE DEF v, n
<1>2. CASE s \in Q
  <2>1. In(v, Q) \in SUBSET (0 .. n + 1) /\ n + 1 \in In(v, Q) /\ n + 1 \in Nat
    BY <1>1, <1>2
  <2>2. Max(In(v, Q)) \in In(v, Q) /\ \A i \in In(v, Q) : i <= Max(In(v, Q))
    BY <2>1, GreatestNumber
  <2>3. Max(In(v, Q)) = n + 1
    <3> DEFINE g == Max(In(v, Q))
               m == n + 1
    <3>1. \A i \in In(v, Q) : i \in Nat /\ i <= m
      BY <1>1
    <3>2. g \in In(v, Q) /\ m \in In(v, Q) /\ m <= g
      BY <2>1, <2>2
    <3> HIDE DEF g, m
    <3>3. g \in Nat /\ g <= m /\ m \in Nat /\ m <= g
      BY <3>1, <3>2
    <3>4. g = m
      BY <3>3
    <3> QED  BY <3>4 DEF g, m
  <2> QED  BY <1>1, <1>2, <2>1, <2>3 DEF v
<1>3. CASE s \notin Q
  <2>1. In(v, Q) = In(w, Q)
    BY <1>1, <1>3
  <2>2. ASSUME In(w, Q) # {} PROVE v[Max(In(w, Q))] = w[Max(In(w, Q))]
    <3>1. In(w, Q) \in SUBSET (0 .. n)
      BY <1>1
    <3>2. Max(In(w, Q)) \in In(w, Q)
      BY <1>1, <2>2, <3>1, GreatestNumber
    <3> QED  BY <1>1, <3>2
  <2> QED  BY <1>3, <2>1, <2>2 DEF v
<1> QED  BY <1>2, <1>3

(* A dictionary d that has the last value V of each key K of a kind Q *)
Keeps(d, w, Q, K, V) ==
  /\ DOMAIN d = {K[w[i]] : i \in In(w, Q)}
  /\ \A i \in In(w, Q) :
       (\A j \in In(w, Q) : j > i => K[w[i]] # K[w[j]]) => d[K[w[i]]] = V[w[i]]

(* A dictionary into which one more structure may put its data *)
LEMMA KeepsAppend ==
  ASSUME NEW w \in Seq(Structure), NEW s \in Structure, NEW Q, NEW K, NEW V, NEW d,
         Keeps(d, w, Q, K, V)
  PROVE  Keeps(IF s \in Q THEN Put(d, K[s], V[s]) ELSE d, Append(w, s), Q, K, V)
<1> DEFINE v == Append(w, s)
           n == Len(w)
           e == Put(d, K[s], V[s])
<1>1. /\ In(w, Q) \subseteq 1 .. n /\ n \in Nat
      /\ In(v, Q) = In(w, Q) \cup (IF s \in Q THEN {n + 1} ELSE {})
      /\ \A i \in 1 .. n : v[i] = w[i]
      /\ v[n + 1] = s
  BY InAppend
<1> HIDE DEF v, n
<1>2. \A i \in In(w, Q) : v[i] = w[i] /\ n + 1 > i
  BY <1>1
<1>3. CASE s \notin Q
  <2>1. In(v, Q) = In(w, Q)
    BY <1>1, <1>3
  <2>2. DOMAIN d = {K[v[i]] : i \in In(v, Q)}
    BY <1>2, <2>1 DEF Keeps
  <2>3. ASSUME NEW i \in In(v, Q), \A j \in In(v, Q) : j > i => K[v[i]] # K[v[j]]
        PROVE  d[K[v[i]]] = V[v[i]]
    BY <1>2, <2>1, <2>3 DEF Keeps
  <2>4. Keeps(d, v, Q, K, V)
    BY <2>2, <2>3 DEF Keeps
  <2> QED  BY <1>3, <2>4 DEF v
<1>4. CASE s \in Q
  <2>1. In(v, Q) = In(w, Q) \cup {n + 1}
    BY <1>1, <1>4
  <2>2. /\ DOMAIN e = DOMAIN d \cup {K[s]} /\ e[K[s]] = V[s]
        /\ \A k \in DOMAIN d : k # K[s] => e[k] = d[k]
    BY DEF Put
  <2> HIDE DEF e
  <2>3. DOMAIN e = {K[v[i]] : i \in In(v, Q)}
    <3>1. DOMAIN d = {K[v[i]] : i \in In(w, Q)}
      BY <1>2 DEF Keeps
    <3> QED  BY <1>1, <2>1, <2>2, <3>1
  <2>4. ASSUME NEW i \in In(v, Q), \A j \in In(v, Q) : j > i => K[v[i]] # K[v[j]]
        PROVE  e[K[v[i]]] = V[v[i]]
    <3>1. CASE i = n + 1
      BY <1>1, <2>2, <3>1
    <3>2. CASE i # n + 1
      <4>1. i \in In(w, Q) /\ v[i] = w[i]
        BY <1>2, <2>1, <3>2
      <4>2. K[w[i]] # K[s]
        BY <1>1, <1>2, <2>1, <2>4, <4>1
      <4>3. \A j \in In(w, Q) : j > i => K[w[i]] # K[w[j]]
        BY <1>2, <2>1, <2>4, <4>1
      <4>4. d[K[w[i]]] = V[w[i]] /\ K[w[i]] \in DOMAIN d
        BY <4>1, <4>3 DEF Keeps
      <4> QED  BY <2>2, <4>1, <4>2, <4>4
    <3> QED  BY <3>1, <3>2
  <2>5. Keeps(e, v, Q, K, V)
    BY <2>3, <2>4 DEF Keeps
  <2> QED  BY <1>4, <2>5 DEF v, e
<1> QED  BY <1>3, <1>4

(* The UUIDs of a list are those at its multiples of their width. *)
LEMMA UuidsListed ==
  ASSUME NEW s \in Listing
  PROVE  /\ \E S : Uuids(s.data, Width(s.type)) \in Seq(S)
         /\ ToSet(Uuids(s.data, Width(s.type))) = Listed(s)
<1> DEFINE w == Width(s.type)
           L == Len(s.data)
           at(k) == Uuid(SubSeq(s.data, k + 1, k + w))
           u == Uuids(s.data, w)
<1>1. w \in {2, 4, 16} /\ L \in Nat
  BY LenProperties DEF Width, Listing, Structure, UuidListTypes
<1> HIDE DEF w, L
<1>2. u = [i \in 1 .. (L \div w) |-> Uuid(SubSeq(s.data, w * (i - 1) + 1, w * i))]
  BY DEF Uuids, L
<1>3. Listed(s) = {at(k) : k \in {n \in 0 .. L - w : n % w = 0}}
  BY DEF Listed, w, L
<1>4. \A i \in Int : w * i = w * (i - 1) + w
  BY <1>1
<1>5. L \div w \in Nat
  BY <1>1
<1>6. \A i \in 1 .. (L \div w) : u[i] = at(w * (i - 1))
  BY <1>2, <1>4
<1>7. DOMAIN u = 1 .. (L \div w)
  BY <1>2
<1>8. \A i \in 1 .. (L \div w) : w * (i - 1) \in {n \in 0 .. L - w : n % w = 0}
  <2> TAKE i \in 1 .. (L \div w)
  <2>1. CASE w = 2
    BY <1>1, <2>1
  <2>2. CASE w = 4
    BY <1>1, <2>2
  <2>3. CASE w = 16
    BY <1>1, <2>3
  <2> QED  BY <1>1, <2>1, <2>2, <2>3
<1>9. \A k \in {n \in 0 .. L - w : n % w = 0} : \E i \in 1 .. (L \div w) : k = w * (i - 1)
  <2> TAKE k \in {n \in 0 .. L - w : n % w = 0}
  <2> DEFINE q == k \div w
             i == q + 1
  <2>1. q \in Nat /\ q + 1 <= L \div w /\ k = w * q
    <3>1. CASE w = 2
      BY <1>1, <3>1
    <3>2. CASE w = 4
      BY <1>1, <3>2
    <3>3. CASE w = 16
      BY <1>1, <3>3
    <3> QED  BY <1>1, <3>1, <3>2, <3>3
  <2> HIDE DEF q
  <2>2. i \in 1 .. (L \div w) /\ i - 1 = q
    BY <1>5, <2>1
  <2> HIDE DEF i
  <2> QED  BY <2>1, <2>2
<1> HIDE DEF u, at
<1>10. ToSet(u) = {at(k) : k \in {n \in 0 .. L - w : n % w = 0}}
  BY <1>6, <1>7, <1>8, <1>9 DEF ToSet
<1>11. u \in Seq(ToSet(u))
  <2>1. u \in [1 .. (L \div w) -> ToSet(u)]
    BY <1>2, <1>7 DEF ToSet, u
  <2> QED  BY <1>5, <2>1, SeqDef
<1> QED  BY <1>3, <1>10, <1>11 DEF u, w

Shaped(f) ==
  f = [name |-> f.name, power |-> f.power, uuids |-> f.uuids,
       company |-> f.company, service |-> f.service, structures |-> f.structures]

Company == [s \in Structure |-> CompanyOf(s.data)]
CompanyData == [s \in Structure |-> From(s.data, 3)]
ServiceUuid == [s \in Structure |-> Service(s)]
ServiceData == [s \in Structure |-> Rest(s)]

(* What one structure does to each of the fields *)
AddedTo(f, g, s) ==
  /\ Shaped(g)
  /\ g.structures = Append(f.structures, s)
  /\ g.name = IF s \in Naming THEN s.data ELSE f.name
  /\ g.power = IF s \in Powering THEN Signed(s.data[1]) ELSE f.power
  /\ g.uuids = IF s \in Listing THEN f.uuids \o Uuids(s.data, Width(s.type)) ELSE f.uuids
  /\ g.company = IF s \in Manufacturing THEN Put(f.company, Company[s], CompanyData[s]) ELSE f.company
  /\ g.service = IF s \in Serving THEN Put(f.service, ServiceUuid[s], ServiceData[s]) ELSE f.service

(* To note a structure leaves the other fields as they are. *)
LEMMA StructureAdded ==
  ASSUME NEW h, Shaped(h), NEW s
  PROVE  LET g == [h EXCEPT !.structures = Append(@, s)] IN
         /\ Shaped(g) /\ g.structures = Append(h.structures, s)
         /\ g.name = h.name /\ g.power = h.power /\ g.uuids = h.uuids
         /\ g.company = h.company /\ g.service = h.service
<1> DEFINE g == [h EXCEPT !.structures = Append(@, s)]
<1>1. g = [name |-> h.name, power |-> h.power, uuids |-> h.uuids, company |-> h.company,
           service |-> h.service, structures |-> Append(h.structures, s)]
  <2>1. DOMAIN h = {"name", "power", "uuids", "company", "service", "structures"}
    BY DEF Shaped
  <2>2. /\ DOMAIN g = DOMAIN h /\ g = [x \in DOMAIN h |-> g[x]]
        /\ \A x \in DOMAIN h : g[x] = IF x = "structures" THEN Append(h.structures, s) ELSE h[x]
    OBVIOUS
  <2> HIDE DEF g
  <2> QED  BY <2>1, <2>2
<1> HIDE DEF g
<1>2. /\ Shaped(g) /\ g.structures = Append(h.structures, s)
      /\ g.name = h.name /\ g.power = h.power /\ g.uuids = h.uuids
      /\ g.company = h.company /\ g.service = h.service
  BY <1>1 DEF Shaped
<1> QED  BY <1>2 DEF g

(* A structure is of one kind at most, and changes the field of its kind. *)
LEMMA WithAdds ==
  ASSUME NEW f, Shaped(f), NEW s \in Structure
  PROVE  AddedTo(f, [With(f, s.type, s.data) EXCEPT !.structures = Append(@, s)], s)
<1> DEFINE h == With(f, s.type, s.data)
<1>1. SUFFICES /\ Shaped(h)
               /\ h.structures = f.structures
               /\ h.name = IF s \in Naming THEN s.data ELSE f.name
               /\ h.power = IF s \in Powering THEN Signed(s.data[1]) ELSE f.power
               /\ h.uuids = IF s \in Listing THEN f.uuids \o Uuids(s.data, Width(s.type)) ELSE f.uuids
               /\ h.company = IF s \in Manufacturing THEN Put(f.company, Company[s], CompanyData[s]) ELSE f.company
               /\ h.service = IF s \in Serving THEN Put(f.service, ServiceUuid[s], ServiceData[s]) ELSE f.service
  <2> HIDE DEF h
  <2> DEFINE g == [h EXCEPT !.structures = Append(@, s)]
  <2> SUFFICES ASSUME Shaped(h)
               PROVE  /\ Shaped(g) /\ g.structures = Append(h.structures, s)
                      /\ g.name = h.name /\ g.power = h.power /\ g.uuids = h.uuids
                      /\ g.company = h.company /\ g.service = h.service
    BY DEF AddedTo, h
  <2> QED  BY StructureAdded
<1> DEFINE T == s.type
           D == s.data
<1>2. /\ Company[s] = CompanyOf(D) /\ CompanyData[s] = From(D, 3)
      /\ ServiceUuid[s] = Uuid(SubSeq(D, 1, Width(T))) /\ ServiceData[s] = From(D, Width(T) + 1)
  BY DEF Company, CompanyData, ServiceUuid, ServiceData, Service, Rest
<1>3. /\ s \in Naming <=> T \in NameTypes
      /\ s \in Powering <=> T = PowerType /\ Len(D) >= 1
      /\ s \in Listing <=> T \in UuidListTypes
      /\ s \in Manufacturing <=> T = ManufacturerType /\ Len(D) >= 2
      /\ s \in Serving <=> T \in ServiceDataTypes /\ Len(D) >= Width(T)
  BY DEF Naming, Powering, Listing, Manufacturing, Serving
<1>4. /\ T \in NameTypes => T # PowerType /\ T \notin UuidListTypes /\ T # ManufacturerType /\ T \notin ServiceDataTypes
      /\ T = PowerType => T \notin UuidListTypes /\ T # ManufacturerType /\ T \notin ServiceDataTypes
      /\ T \in UuidListTypes => T # ManufacturerType /\ T \notin ServiceDataTypes
      /\ T = ManufacturerType => T \notin ServiceDataTypes
  BY DEF NameTypes, PowerType, UuidListTypes, ManufacturerType, ServiceDataTypes
<1> DEFINE Expected(n, p, u, c, v) ==
             h = [name |-> n, power |-> p, uuids |-> u, company |-> c, service |-> v,
                  structures |-> f.structures]
<1>5. CASE s \in Naming
  <2>1. h = [f EXCEPT !.name = D]
    BY <1>3, <1>4, <1>5 DEF With
  <2> HIDE DEF h
  <2>2. Expected(D, f.power, f.uuids, f.company, f.service)
    BY <2>1 DEF Shaped
  <2> QED  BY <1>3, <1>4, <1>5, <2>2 DEF Shaped
<1>6. CASE s \in Powering
  <2>1. h = [f EXCEPT !.power = Signed(D[1])]
    BY <1>3, <1>4, <1>6 DEF With
  <2> HIDE DEF h
  <2>2. Expected(f.name, Signed(D[1]), f.uuids, f.company, f.service)
    BY <2>1 DEF Shaped
  <2> QED  BY <1>3, <1>4, <1>6, <2>2 DEF Shaped
<1>7. CASE s \in Listing
  <2>1. h = [f EXCEPT !.uuids = @ \o Uuids(D, Width(T))]
    BY <1>3, <1>4, <1>7 DEF With
  <2> HIDE DEF h
  <2>2. Expected(f.name, f.power, f.uuids \o Uuids(D, Width(T)), f.company, f.service)
    BY <2>1 DEF Shaped
  <2> QED  BY <1>3, <1>4, <1>7, <2>2 DEF Shaped
<1>8. CASE s \in Manufacturing
  <2>1. h = [f EXCEPT !.company = Put(@, CompanyOf(D), From(D, 3))]
    BY <1>3, <1>4, <1>8 DEF With
  <2> HIDE DEF h
  <2>2. Expected(f.name, f.power, f.uuids, Put(f.company, CompanyOf(D), From(D, 3)), f.service)
    BY <2>1 DEF Shaped
  <2> QED  BY <1>2, <1>3, <1>4, <1>8, <2>2 DEF Shaped
<1>9. CASE s \in Serving
  <2> DEFINE k == Uuid(SubSeq(D, 1, Width(T)))
             r == From(D, Width(T) + 1)
  <2>1. h = [f EXCEPT !.service = Put(@, k, r)]
    BY <1>3, <1>4, <1>9 DEF With
  <2> HIDE DEF h, k, r
  <2>2. Expected(f.name, f.power, f.uuids, f.company, Put(f.service, k, r))
    BY <2>1 DEF Shaped
  <2>3. ServiceUuid[s] = k /\ ServiceData[s] = r
    BY <1>2 DEF k, r
  <2> QED  BY <1>3, <1>4, <1>9, <2>2, <2>3 DEF Shaped
<1>10. CASE /\ s \notin Naming /\ s \notin Powering /\ s \notin Listing
            /\ s \notin Manufacturing /\ s \notin Serving
  <2>1. h = f
    BY <1>3, <1>10 DEF With
  <2> QED  BY <1>10, <2>1
<1> QED  BY <1>5, <1>6, <1>7, <1>8, <1>9, <1>10

(* A length that is read *)
LEMMA NonZeroOctet ==
  ASSUME NEW l \in Octet, l # 0
  PROVE  l \in Int /\ l >= 1
  BY DEF Octet

(* The structure that is read is the octets that it takes. *)
LEMMA StructureOctets ==
  ASSUME NEW p \in Seq(Octet), NEW o \in Nat, o < Len(p),
         NEW l, l = p[o + 1], l # 0, o + 1 + l <= Len(p)
  PROVE  LET s == [type |-> p[o + 2], data |-> SubSeq(p, o + 3, o + 1 + l)] IN
         /\ s \in Structure
         /\ o + 1 + l \in 0 .. Len(p)
         /\ Encoded(s) \in Seq(Octet)
         /\ SubSeq(p, 1, o) \o Encoded(s) = SubSeq(p, 1, o + 1 + l)
<1> DEFINE a == o + 1
           n == a + l
           s == [type |-> p[o + 2], data |-> SubSeq(p, o + 3, o + 1 + l)]
<1>1. Len(p) \in Nat /\ a \in 1 .. Len(p)
  BY LenProperties
<1>2. l \in Octet
  BY <1>1, ElementOfSeq
<1>3. l \in Int /\ l >= 1
  BY <1>2, NonZeroOctet
<1>4. n \in a + 1 .. Len(p) /\ n - a - 1 + 1 = l /\ n \in o .. Len(p) /\ o \in 1 - 1 .. Len(p)
      /\ n \in 0 .. Len(p)
  BY <1>1, <1>3
<1>5. a + 1 = o + 2 /\ a + 2 = o + 3
  OBVIOUS
<1> HIDE DEF a, n
<1> DEFINE t == p[a + 1]
           d == SubSeq(p, a + 2, n)
<1>6. /\ t \in Octet /\ d \in Seq(Octet) /\ Len(d) = n - a - 1
      /\ SubSeq(p, a, n) = << p[a], t >> \o d
  BY <1>1, <1>4, OctetsRead
<1>7. s = [type |-> t, data |-> d] /\ p[a] = l
  BY <1>5 DEF n, a
<1> HIDE DEF t, d, s
<1>8. [type |-> t, data |-> d] \in Structure
  BY <1>6 DEF Structure
<1>9. s.type = t /\ s.data = d
  BY <1>7
<1>10. Encoded(s) = << l, t >> \o d
  BY <1>4, <1>6, <1>9 DEF Encoded
<1>11. Encoded(s) \in Seq(Octet)
  BY <1>2, <1>6, <1>10, TwoBefore, Zenon
<1>12. SubSeq(p, 1, o) \o SubSeq(p, o + 1, n) = SubSeq(p, 1, n)
  <2>1. 1 \in 1 .. Len(p) + 1
    BY <1>1
  <2> QED  BY <1>4, <2>1, ConcatAdjacentSubSeq
<1>13. SubSeq(p, 1, o) \o Encoded(s) = SubSeq(p, 1, n)
  BY <1>6, <1>7, <1>10, <1>12 DEF a
<1>14. s \in Structure /\ n \in 0 .. Len(p)
  BY <1>4, <1>7, <1>8
<1> QED  BY <1>11, <1>13, <1>14 DEF a, n, s

Encodings(w) == [i \in DOMAIN w |-> Encoded(w[i])]

(* The octets of one more structure are one more sequence of octets. *)
LEMMA EncodingsAppend ==
  ASSUME NEW w \in Seq(Structure), NEW s \in Structure
  PROVE  /\ Encodings(w) \in Seq(Seq(Int))
         /\ Encodings(Append(w, s)) = Append(Encodings(w), Encoded(s))
         /\ Encodings(w) = << >> <=> w = << >>
<1>1. \A t \in Structure : Encoded(t) \in Seq(Int)
  <2> TAKE t \in Structure
  <2>1. t.type \in Octet /\ t.data \in Seq(Octet)
    BY DEF Structure
  <2>4. \A o \in Octet : o \in Int
    BY DEF Octet
  <2>2. t.data \in Seq(Int) /\ Len(t.data) + 1 \in Int /\ t.type \in Int
    BY <2>1, <2>4, LenProperties, SeqMonotonic
  <2>3. << Len(t.data) + 1, t.type >> \in Seq(Int)
    BY <2>1, <2>2
  <2> QED  BY <2>2, <2>3, ConcatProperties DEF Encoded
<1> DEFINE n == Len(w)
           v == Append(w, s)
           e == Encodings(w)
           g == Append(e, Encoded(s))
<1>2. /\ v \in Seq(Structure) /\ Len(v) = n + 1 /\ n \in Nat
      /\ \A i \in 1 .. n : v[i] = w[i]
      /\ v[n + 1] = s
      /\ DOMAIN v = 1 .. n + 1 /\ DOMAIN w = 1 .. n
      /\ \A i \in 1 .. n : w[i] \in Structure
  BY AppendProperties, LenProperties, ElementOfSeq
<1> HIDE DEF n, v
<1>3. e = [i \in 1 .. n |-> Encoded(w[i])] /\ e \in Seq(Seq(Int))
  <2>1. e = [i \in 1 .. n |-> Encoded(w[i])]
    BY <1>2 DEF Encodings
  <2>2. e \in [1 .. n -> Seq(Int)]
    BY <1>1, <1>2, <2>1
  <2> QED  BY <1>2, <2>1, <2>2, SeqDef
<1> HIDE DEF e
<1>4. Len(e) = n /\ \A i \in 1 .. n : e[i] = Encoded(w[i])
  <2>1. DOMAIN e = 1 .. n
    BY <1>3
  <2> QED  BY <1>2, <1>3, <2>1, LenProperties
<1>5. /\ g \in Seq(Seq(Int)) /\ Len(g) = n + 1
      /\ \A i \in 1 .. n : g[i] = e[i]
      /\ g[n + 1] = Encoded(s)
  <2>1. e \in Seq(Seq(Int)) /\ Encoded(s) \in Seq(Int)
    BY <1>1, <1>3
  <2> QED  BY <1>4, <2>1, AppendProperties
<1> DEFINE f == Encodings(v)
<1>6. f = [i \in 1 .. n + 1 |-> Encoded(v[i])] /\ \A i \in 1 .. n + 1 : f[i] = Encoded(v[i])
  BY <1>2 DEF Encodings
<1>7. DOMAIN g = 1 .. n + 1 /\ g = [i \in 1 .. n + 1 |-> g[i]]
  BY <1>5, LenProperties
<1> HIDE DEF f, g
<1>8. \A i \in 1 .. n + 1 : f[i] = g[i]
  <2> TAKE i \in 1 .. n + 1
  <2>1. CASE i \in 1 .. n
    BY <1>2, <1>4, <1>5, <1>6, <2>1
  <2>2. CASE i = n + 1
    BY <1>2, <1>5, <1>6, <2>2
  <2> QED  BY <1>2, <2>1, <2>2
<1>9. f = g
  BY <1>6, <1>7, <1>8
<1>10. e = << >> <=> w = << >>
  BY <1>3, <1>4, EmptySeq DEF n
<1> QED  BY <1>3, <1>9, <1>10 DEF e, f, g, v

Text == [s \in Structure |-> s.data]
Power == [s \in Structure |-> Signed(s.data[1])]

(* x is the value V of the last of a kind. *)
Latest(x, w, Q, V, none) == x = IF In(w, Q) = {} THEN none ELSE V[w[Max(In(w, Q))]]

(* One more structure is the latest of its kind. *)
LEMMA LatestAppend ==
  ASSUME NEW w \in Seq(Structure), NEW s \in Structure, NEW Q, NEW V, NEW x, NEW none,
         Latest(x, w, Q, V, none)
  PROVE  Latest(IF s \in Q THEN V[s] ELSE x, Append(w, s), Q, V, none)
<1> DEFINE v == Append(w, s)
<1>1. /\ s \in Q => In(v, Q) # {} /\ v[Max(In(v, Q))] = s
      /\ s \notin Q => /\ In(v, Q) = In(w, Q)
                       /\ In(w, Q) # {} => v[Max(In(w, Q))] = w[Max(In(w, Q))]
  BY LastAppend
<1> HIDE DEF v
<1>2. CASE s \in Q
  BY <1>1, <1>2 DEF Latest, v
<1>3. CASE s \notin Q
  BY <1>1, <1>3 DEF Latest, v
<1> QED  BY <1>2, <1>3

(* u has the UUIDs of the lists. *)
Gathers(u, w) ==
  /\ \E S : u \in Seq(S)
  /\ ToSet(u) = UNION {Listed(w[i]) : i \in In(w, Listing)}

(* One more list of UUIDs *)
LEMMA GathersAppend ==
  ASSUME NEW w \in Seq(Structure), NEW s \in Structure, NEW u, Gathers(u, w)
  PROVE  Gathers(IF s \in Listing THEN u \o Uuids(s.data, Width(s.type)) ELSE u, Append(w, s))
<1> DEFINE v == Append(w, s)
           n == Len(w)
           more == Uuids(s.data, Width(s.type))
<1>1. /\ In(w, Listing) \subseteq 1 .. n /\ n \in Nat
      /\ In(v, Listing) = In(w, Listing) \cup (IF s \in Listing THEN {n + 1} ELSE {})
      /\ \A i \in 1 .. n : v[i] = w[i]
      /\ v[n + 1] = s
  BY InAppend
<1> HIDE DEF v, n
<1>2. ToSet(u) = UNION {Listed(v[i]) : i \in In(w, Listing)}
  BY <1>1 DEF Gathers
<1>3. CASE s \notin Listing
  <2>1. In(v, Listing) = In(w, Listing)
    BY <1>1, <1>3
  <2>2. Gathers(u, v)
    BY <1>2, <2>1 DEF Gathers
  <2> QED  BY <1>3, <2>2 DEF v
<1>4. CASE s \in Listing
  <2>1. In(v, Listing) = In(w, Listing) \cup {n + 1}
    BY <1>1, <1>4
  <2>2. (\E T : more \in Seq(T)) /\ ToSet(more) = Listed(v[n + 1])
    BY <1>1, <1>4, UuidsListed
  <2> HIDE DEF more
  <2>3. PICK S : u \in Seq(S)
    BY DEF Gathers
  <2>4. PICK T : more \in Seq(T)
    BY <2>2
  <2>5. u \in Seq(S \cup T) /\ more \in Seq(S \cup T)
    BY <2>3, <2>4, SeqMonotonic
  <2>6. u \o more \in Seq(S \cup T) /\ ToSet(u \o more) = ToSet(u) \cup ToSet(more)
    BY <2>5, ConcatSets
  <2>7. ToSet(u \o more) = UNION {Listed(v[i]) : i \in In(v, Listing)}
    BY <1>2, <2>1, <2>2, <2>6
  <2>8. Gathers(u \o more, v)
    BY <2>6, <2>7 DEF Gathers
  <2> QED  BY <1>4, <2>8 DEF v, more
<1> QED  BY <1>3, <1>4

(* The fields are what the structures w say. *)
Saying(f, w) ==
  /\ Latest(f.name, w, Naming, Text, NoName)
  /\ Latest(f.power, w, Powering, Power, NoPower)
  /\ Gathers(f.uuids, w)
  /\ Keeps(f.company, w, Manufacturing, Company, CompanyData)
  /\ Keeps(f.service, w, Serving, ServiceUuid, ServiceData)

(* Fields that are right stay right when a structure is added to them. *)
LEMMA SayingAppend ==
  ASSUME NEW w \in Seq(Structure), NEW s \in Structure, NEW f, Saying(f, w),
         NEW g, AddedTo(f, g, s)
  PROVE  Saying(g, Append(w, s))
<1>1. Text[s] = s.data /\ Power[s] = Signed(s.data[1])
  BY DEF Text, Power
<1>2. Latest(g.name, Append(w, s), Naming, Text, NoName)
  <2>1. g.name = IF s \in Naming THEN Text[s] ELSE f.name
    BY <1>1 DEF AddedTo
  <2>2. Latest(f.name, w, Naming, Text, NoName)
    BY DEF Saying
  <2> QED  BY <2>1, <2>2, LatestAppend
<1>3. Latest(g.power, Append(w, s), Powering, Power, NoPower)
  <2>1. g.power = IF s \in Powering THEN Power[s] ELSE f.power
    BY <1>1 DEF AddedTo
  <2>2. Latest(f.power, w, Powering, Power, NoPower)
    BY DEF Saying
  <2> QED  BY <2>1, <2>2, LatestAppend
<1>4. Gathers(g.uuids, Append(w, s))
  <2>1. g.uuids = IF s \in Listing THEN f.uuids \o Uuids(s.data, Width(s.type)) ELSE f.uuids
    BY DEF AddedTo
  <2>2. Gathers(f.uuids, w)
    BY DEF Saying
  <2> QED  BY <2>1, <2>2, GathersAppend
<1>5. Keeps(g.company, Append(w, s), Manufacturing, Company, CompanyData)
  <2>1. g.company = IF s \in Manufacturing THEN Put(f.company, Company[s], CompanyData[s]) ELSE f.company
    BY DEF AddedTo
  <2>2. Keeps(f.company, w, Manufacturing, Company, CompanyData)
    BY DEF Saying
  <2> QED  BY <2>1, <2>2, KeepsAppend
<1>6. Keeps(g.service, Append(w, s), Serving, ServiceUuid, ServiceData)
  <2>1. g.service = IF s \in Serving THEN Put(f.service, ServiceUuid[s], ServiceData[s]) ELSE f.service
    BY DEF AddedTo
  <2>2. Keeps(f.service, w, Serving, ServiceUuid, ServiceData)
    BY DEF Saying
  <2> QED  BY <2>1, <2>2, KeepsAppend
<1> QED  BY <1>2, <1>3, <1>4, <1>5, <1>6 DEF Saying

(* The octets read are those of the structures, which the fields follow. *)
Reading ==
  /\ payload \in Seq(Octet) /\ offset \in 0 .. Len(payload)
  /\ Shaped(fields) /\ Structures \in Seq(Structure)
  /\ FlattenSeq(Encodings(Structures)) = SubSeq(payload, 1, offset)
  /\ Saying(fields, Structures)

(* A new payload, or none *)
LEMMA NothingRead ==
  ASSUME payload \in Seq(Octet), offset = 0, fields = NoFields
  PROVE  Reading
<1>1. Structures = << >> /\ Shaped(fields)
  BY DEF Structures, NoFields, Shaped
<1>2. Structures \in Seq(Structure) /\ DOMAIN Structures = {}
  BY <1>1, EmptySeq
<1>3. \A Q : In(Structures, Q) = {}
  BY <1>2 DEF In
<1>4. /\ fields.name = NoName /\ fields.power = NoPower /\ fields.uuids = << >>
      /\ fields.company = << >> /\ fields.service = << >>
  BY DEF NoFields
<1>5. DOMAIN << >> = {} /\ ToSet(<< >>) = {} /\ \A S : << >> \in Seq(S)
  BY EmptySeq DEF ToSet
<1>6. Saying(fields, Structures)
  <2>1. Latest(fields.name, Structures, Naming, Text, NoName)
    BY <1>3, <1>4 DEF Latest
  <2>2. Latest(fields.power, Structures, Powering, Power, NoPower)
    BY <1>3, <1>4 DEF Latest
  <2>3. Gathers(fields.uuids, Structures)
    BY <1>3, <1>4, <1>5 DEF Gathers
  <2>4. Keeps(fields.company, Structures, Manufacturing, Company, CompanyData)
    BY <1>3, <1>4, <1>5 DEF Keeps
  <2>5. Keeps(fields.service, Structures, Serving, ServiceUuid, ServiceData)
    BY <1>3, <1>4, <1>5 DEF Keeps
  <2> QED  BY <2>1, <2>2, <2>3, <2>4, <2>5 DEF Saying
<1>7. FlattenSeq(Encodings(Structures)) = SubSeq(payload, 1, offset)
  <2>1. Encodings(Structures) = << >>
    BY <1>1, <1>2 DEF Encodings
  <2>2. FlattenSeq(<< >>) = << >>
    BY EmptySeq DEF FlattenSeq
  <2>3. SubSeq(payload, 1, 0) = << >>
    BY SubSeqEmpty
  <2> QED  BY <2>1, <2>2, <2>3
<1>8. offset \in 0 .. Len(payload)
  BY LenProperties
<1> QED  BY <1>1, <1>2, <1>6, <1>7, <1>8 DEF Reading

(* One turn of the loop *)
LEMMA StructureRead ==
  ASSUME Reading, ReadsStructure
  PROVE  Reading'
<1> DEFINE l == payload[offset + 1]
           s == [type |-> payload[offset + 2],
                 data |-> SubSeq(payload, offset + 3, offset + 1 + l)]
           w == Structures
<1>1. /\ offset < Len(payload) /\ l # 0 /\ offset + 1 + l <= Len(payload)
      /\ offset' = offset + 1 + l /\ payload' = payload
  BY DEF ReadsStructure, HasStructure
<1>2. fields' = [With(fields, s.type, s.data) EXCEPT !.structures = Append(@, s)]
  BY DEF ReadsStructure
<1>3. /\ payload \in Seq(Octet) /\ offset \in Nat
      /\ Shaped(fields) /\ w \in Seq(Structure)
      /\ FlattenSeq(Encodings(w)) = SubSeq(payload, 1, offset)
      /\ Saying(fields, w)
  BY DEF Reading
<1>4. /\ s \in Structure /\ offset' \in 0 .. Len(payload)
      /\ Encoded(s) \in Seq(Octet)
      /\ SubSeq(payload, 1, offset) \o Encoded(s) = SubSeq(payload, 1, offset')
  BY <1>1, <1>3, StructureOctets
<1> HIDE DEF l, s
<1>5. AddedTo(fields, fields', s)
  BY <1>2, <1>3, <1>4, WithAdds
<1>6. Structures' = Append(w, s) /\ Shaped(fields')
  BY <1>5 DEF AddedTo, Structures
<1> HIDE DEF w
<1>7. Saying(fields', Append(w, s)) /\ Append(w, s) \in Seq(Structure)
  BY <1>3, <1>4, <1>5, SayingAppend, AppendProperties
<1>8. FlattenSeq(Encodings(Append(w, s))) = SubSeq(payload, 1, offset')
  <2>1. Encodings(Append(w, s)) = Append(Encodings(w), Encoded(s))
    BY <1>3, <1>4, EncodingsAppend
  <2>2. Encodings(w) \in Seq(Seq(Int)) /\ Encoded(s) \in Seq(Int)
    <3>1. Octet \subseteq Int
      BY DEF Octet
    <3> QED  BY <1>3, <1>4, <3>1, EncodingsAppend, SeqMonotonic
  <2>3. FlattenSeq(Append(Encodings(w), Encoded(s))) =
          IF Encodings(w) = << >> THEN Encoded(s) ELSE FlattenSeq(Encodings(w)) \o Encoded(s)
    BY <2>2, FlattenAppend
  <2>4. Encodings(w) = << >> => SubSeq(payload, 1, offset) \o Encoded(s) = Encoded(s)
    <3>1. FlattenSeq(<< >>) = << >>
      BY EmptySeq DEF FlattenSeq
    <3>2. << >> \o Encoded(s) = Encoded(s)
      BY <1>4, ConcatEmptySeq
    <3> QED  BY <1>3, <3>1, <3>2
  <2> QED  BY <1>3, <1>4, <2>1, <2>3, <2>4
<1>9. payload' \in Seq(Octet) /\ offset' \in 0 .. Len(payload')
  BY <1>1, <1>3, <1>4
<1> QED  BY <1>1, <1>6, <1>7, <1>8, <1>9 DEF Reading

LEMMA ReadingInit == ServicesInit => Reading
<1> SUFFICES ASSUME ServicesInit PROVE Reading
  OBVIOUS
<1>1. payload \in Seq(Octet)
  BY EmptySeq DEF ServicesInit, AdvertisementInit
<1> QED  BY <1>1, NothingRead DEF ServicesInit, AdvertisementInit

LEMMA ReadingNext ==
  ASSUME Reading, [ServicesNext]_servicesVars
  PROVE  Reading'
<1>1. ASSUME UNCHANGED parsing PROVE Reading'
  BY <1>1 DEF parsing, Reading, Structures
<1>2. ASSUME payload' \in Seq(Octet), offset' = 0, fields' = NoFields PROVE Reading'
  <2>1. (payload \in Seq(Octet) /\ offset = 0 /\ fields = NoFields => Reading)'
    BY NothingRead, PTL
  <2> QED  BY <1>2, <2>1 DEF NoFields
<1>3. ASSUME NEW d \in Advertiser, NEW p \in Payload, Frame(d, p) PROVE Reading'
  BY <1>2, <1>3, PayloadAssumption DEF Frame, Receives
<1>4. CASE Parse
  BY <1>4, StructureRead DEF Parse
<1>5. CASE Heard
  <2>1. payload' \in Seq(Octet)
    BY <1>5, EmptySeq DEF Heard, Taken
  <2> QED  BY <1>2, <1>5, <2>1 DEF Heard, Taken
<1>6. ASSUME NEW d \in Advertiser, LooksUp(d) PROVE Reading'
  BY <1>1, <1>6 DEF LooksUp
<1>7. ASSUME NEW list \in Report, Reported(list) PROVE Reading'
  BY <1>1, <1>7 DEF Reported
<1>8. CASE Guesses \/ AddReported \/ Offers \/ Forgets
  BY <1>1, <1>8 DEF Guesses, AddReported, Offers, Forgets
<1>9. CASE UNCHANGED servicesVars
  BY <1>1, <1>9 DEF servicesVars
<1> QED  BY <1>3, <1>4, <1>5, <1>6, <1>7, <1>8, <1>9 DEF ServicesNext

(* The structures that the property picks out, as kinds *)
LEMMA KindsOfStructures ==
  ASSUME Reading
  PROVE  /\ OfType(NameTypes) = In(Structures, Naming)
         /\ AtLeast(1, OfType({PowerType})) = In(Structures, Powering)
         /\ OfType(UuidListTypes) = In(Structures, Listing)
         /\ CompanyStructures = In(Structures, Manufacturing)
         /\ ServiceStructures = In(Structures, Serving)
         /\ \A Q : \A i \in In(Structures, Q) : Structures[i] \in Structure
<1> DEFINE w == Structures
<1>1. \A i \in DOMAIN w : w[i] \in Structure
  BY LenProperties, ElementOfSeq DEF Reading
<1> HIDE DEF w
<1>2. OfType(NameTypes) = In(w, Naming)
  BY <1>1 DEF w, OfType, In, Naming
<1>3. AtLeast(1, OfType({PowerType})) = In(w, Powering)
  BY <1>1 DEF w, AtLeast, OfType, In, Powering
<1>4. OfType(UuidListTypes) = In(w, Listing)
  BY <1>1 DEF w, OfType, In, Listing
<1>5. CompanyStructures = In(w, Manufacturing)
  BY <1>1 DEF w, CompanyStructures, AtLeast, OfType, In, Manufacturing
<1>6. ServiceStructures = In(w, Serving)
  BY <1>1 DEF w, ServiceStructures, OfType, In, Serving
<1>7. \A Q : \A i \in In(w, Q) : w[i] \in Structure
  BY <1>1 DEF In
<1> QED  BY <1>2, <1>3, <1>4, <1>5, <1>6, <1>7 DEF w

LEMMA ReadingFollows == Reading => FieldsFollowStructures
<1> SUFFICES ASSUME Reading PROVE FieldsFollowStructures
  OBVIOUS
<1> DEFINE w == Structures
           names == OfType(NameTypes)
           powers == AtLeast(1, OfType({PowerType}))
<1>1. /\ names = In(w, Naming) /\ powers = In(w, Powering)
      /\ OfType(UuidListTypes) = In(w, Listing)
      /\ CompanyStructures = In(w, Manufacturing)
      /\ ServiceStructures = In(w, Serving)
      /\ \A Q : \A i \in In(w, Q) : w[i] \in Structure
  BY KindsOfStructures
<1>2. w \in Seq(Structure)
  BY DEF Reading
<1>3. Saying(fields, w)
  BY DEF Reading
<1> HIDE DEF names, powers
<1>4. fields.name = IF names = {} THEN NoName ELSE w[Max(names)].data
  <2>1. names # {} => Max(names) \in names
    <3>1. names \in SUBSET (0 .. Len(w)) /\ Len(w) \in Nat
      BY <1>1, <1>2, LenProperties DEF In
    <3> QED  BY <3>1, GreatestNumber
  <2> QED  BY <1>1, <1>3, <2>1 DEF Saying, Latest, Text
<1>5. fields.power = IF powers = {} THEN NoPower ELSE Signed(w[Max(powers)].data[1])
  <2>1. powers # {} => Max(powers) \in powers
    <3>1. powers \in SUBSET (0 .. Len(w)) /\ Len(w) \in Nat
      BY <1>1, <1>2, LenProperties DEF In
    <3> QED  BY <3>1, GreatestNumber
  <2> QED  BY <1>1, <1>3, <2>1 DEF Saying, Latest, Power
<1>6. ToSet(fields.uuids) = UNION {Listed(w[i]) : i \in OfType(UuidListTypes)}
  BY <1>1, <1>3 DEF Saying, Gathers
<1> HIDE DEF w
<1>7. /\ DOMAIN fields.company = {CompanyOf(w[i].data) : i \in CompanyStructures}
      /\ \A i \in CompanyStructures :
           (\A j \in CompanyStructures : j > i => CompanyOf(w[i].data) # CompanyOf(w[j].data)) =>
             fields.company[CompanyOf(w[i].data)] = From(w[i].data, 3)
  <2>1. \A i \in CompanyStructures :
          Company[w[i]] = CompanyOf(w[i].data) /\ CompanyData[w[i]] = From(w[i].data, 3)
    BY <1>1 DEF Company, CompanyData
  <2>2. Keeps(fields.company, w, Manufacturing, Company, CompanyData)
    BY <1>3 DEF Saying
  <2> QED  BY <1>1, <2>1, <2>2 DEF Keeps
<1>8. /\ DOMAIN fields.service = {Service(w[i]) : i \in ServiceStructures}
      /\ \A i \in ServiceStructures :
           (\A j \in ServiceStructures : j > i => Service(w[i]) # Service(w[j])) =>
             fields.service[Service(w[i])] = Rest(w[i])
  <2>1. \A i \in ServiceStructures : ServiceUuid[w[i]] = Service(w[i]) /\ ServiceData[w[i]] = Rest(w[i])
    BY <1>1 DEF ServiceUuid, ServiceData
  <2>2. Keeps(fields.service, w, Serving, ServiceUuid, ServiceData)
    BY <1>3 DEF Saying
  <2> QED  BY <1>1, <2>1, <2>2 DEF Keeps
<1>9. FlattenSeq([i \in DOMAIN w |-> Encoded(w[i])]) = SubSeq(payload, 1, offset)
  BY DEF Reading, Encodings, w
<1> QED  BY <1>4, <1>5, <1>6, <1>7, <1>8, <1>9
         DEF FieldsFollowStructures, LastOf, SameCompany, SameService, w, names, powers

(* The structures read are the payload's octets up to the offset, and the  *)
(* fields what the structures say: the last name, power, and data of each  *)
(* company and service, and every whole UUID (parse_advertisement_data).   *)
THEOREM FieldsSayWhatIsThere ==
  ServicesSpec => []FieldsFollowStructures
<1>1. ServicesInit => Reading
  BY ReadingInit
<1>2. Reading /\ [ServicesNext]_servicesVars => Reading'
  BY ReadingNext
<1>3. Reading => FieldsFollowStructures
  BY ReadingFollows
<1> QED  BY <1>1, <1>2, <1>3, PTL DEF ServicesSpec

=============================================================================
