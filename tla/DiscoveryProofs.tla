-------------------------- MODULE DiscoveryProofs --------------------------
(***************************************************************************)
(* Discovery, for any number of sources, characteristics, waits and reads: *)
(* no caller is forgotten, and what it is told is whole and of this link.  *)
(***************************************************************************)
EXTENDS Discovery, SequenceFacts

Waits == {NoWait} \cup Waiting \cup Answered
Reads == {NoRead} \cup Reading

(* The waiters' lists have those who wait, under their origins. *)
Listed ==
  /\ wait \in [Wait -> Waits]
  /\ waiters \in [Origin -> SUBSET Wait]
  /\ timer \in [Origin -> {"off", "fresh", "old"}]
  /\ \A w \in Wait, o \in Origin :
       w \in waiters[o] <=> wait[w].at = "waiting" /\ wait[w].origin = o

(* A caller that something was reported for has a timer that no report has *)
(* missed: whoever reports for an origin with waiters starts it anew.      *)
Timed ==
  \A w \in Wait :
    wait[w].at = "waiting" /\ wait[w].heard # {} => timer[wait[w].origin] = "fresh"

(* The readers' lists have reads under way, under their keys. *)
OnRecord ==
  /\ read \in [Read -> Reads]
  /\ readers \in [Key -> SUBSET Read]
  /\ linked \subseteq Source
  /\ \A r \in Read, k \in Key :
       r \in readers[k] => read[r].at # "idle" /\ read[r].key = k

WaitBooks == Listed /\ Timed
ReadBooks == OnRecord /\ NoReadInVain

-----------------------------------------------------------------------------
(* Waits *)

LEMMA WaitKinds ==
  ASSUME NEW x \in Waits
  PROVE  /\ x.origin \in Origin /\ x.heard \subseteq Key
         /\ x.at \in {"idle", "waiting", "cached", "settled", "lost"}
         /\ x.at = "waiting" => x \in Waiting
  BY DEF Waits, NoWait, Waiting, Answered, Origin

LEMMA NewWaits ==
  /\ NoWait \in Waits /\ NoWait.at = "idle"
  /\ \A o \in Origin : [NoWait EXCEPT !.at = "waiting", !.origin = o] \in Waiting
  /\ \A p \in {"cached", "settled", "lost"} : \A ks :
       [NoWait EXCEPT !.at = p, !.found = Extent(ks)] \in Answered
  BY DEF Waits, NoWait, Waiting, Answered, Extent

LEMMA InitWaits == Init => WaitBooks
<1> SUFFICES ASSUME Init PROVE WaitBooks
  OBVIOUS
<1>1. \A w \in Wait : wait[w] = NoWait /\ wait[w].at = "idle"
  BY NewWaits DEF Init
<1>2. Listed
  BY <1>1, NewWaits DEF Init, Listed
<1> QED  BY <1>1, <1>2 DEF WaitBooks, Timed

(* Some waiters get an answer; what is left of their lists goes. *)
LEMMA AnswerKeepsWaits ==
  ASSUME WaitBooks, NEW os \in SUBSET Origin, NEW p \in {"settled", "lost"}, NEW ks,
         wait' = Answer(UNION {Unanswered(o) : o \in os}, p, ks),
         waiters' = [o \in Origin |-> IF o \in os THEN {} ELSE waiters[o]],
         timer' = [o \in Origin |-> IF o \in os THEN "off" ELSE timer[o]]
  PROVE  WaitBooks'
<1> DEFINE ws == UNION {Unanswered(o) : o \in os}
           told == [NoWait EXCEPT !.at = p, !.found = Extent(ks)]
<1>1. told \in Waits /\ told.at = p /\ p # "waiting"
  BY NewWaits DEF Waits, NoWait
<1>2. \A w \in Wait : w \in ws <=> wait[w].at = "waiting" /\ wait[w].origin \in os
  BY DEF Unanswered, WaitBooks, Listed
<1>3. wait' = [w \in Wait |-> IF w \in ws THEN told ELSE wait[w]]
  BY DEF Answer
<1> HIDE DEF ws, told
<1>4. wait' \in [Wait -> Waits]
  BY <1>1, <1>3 DEF WaitBooks, Listed
<1>5. waiters' \in [Origin -> SUBSET Wait] /\ timer' \in [Origin -> {"off", "fresh", "old"}]
  BY DEF WaitBooks, Listed
<1>6. ASSUME NEW w \in Wait, NEW o \in Origin
      PROVE  w \in waiters'[o] <=> wait'[w].at = "waiting" /\ wait'[w].origin = o
  BY <1>1, <1>2, <1>3 DEF WaitBooks, Listed
<1>7. ASSUME NEW w \in Wait, wait'[w].at = "waiting", wait'[w].heard # {}
      PROVE  timer'[wait'[w].origin] = "fresh"
  <2>1. wait'[w] = wait[w] /\ wait[w].origin \notin os /\ wait[w].origin \in Origin
    BY <1>1, <1>2, <1>3, <1>7, WaitKinds DEF WaitBooks, Listed
  <2> QED  BY <1>7, <2>1 DEF WaitBooks, Timed
<1> QED  BY <1>4, <1>5, <1>6, <1>7 DEF WaitBooks, Listed, Timed

LEMMA ReportKeepsWaits ==
  ASSUME WaitBooks, NEW s \in Source, NEW c \in Char, HandleCharacteristic(s, c)
  PROVE  WaitBooks'
<1> DEFINE k == << s, c >>
           heard(w) == (wait[w].heard \cup IF wait[w].origin \in OriginsOf(s) THEN {k} ELSE {})
                       \cap ToSet(Cached(k))
<1>1. wait' = [w \in Wait |-> IF wait[w].at # "waiting" THEN wait[w]
                               ELSE [wait[w] EXCEPT !.heard = heard(w)]]
  BY DEF HandleCharacteristic
<1>2. k \in Key /\ \A w \in Wait : heard(w) \subseteq Key
  BY WaitKinds DEF Key, WaitBooks, Listed
<1>3. ASSUME NEW w \in Wait
      PROVE  /\ wait'[w] \in Waits
             /\ wait'[w].at = wait[w].at /\ wait'[w].origin = wait[w].origin
             /\ wait[w].at = "waiting" => wait'[w].heard = heard(w)
  <2>1. wait[w].at = "waiting" => wait[w] \in Waiting
    BY WaitKinds DEF WaitBooks, Listed
  <2>2. wait[w] \in Waits /\ heard(w) \subseteq Key
    BY <1>2 DEF WaitBooks, Listed
  <2> HIDE DEF heard
  <2>3. CASE wait[w].at = "waiting"
    <3>1. wait'[w] = [wait[w] EXCEPT !.heard = heard(w)]
      BY <1>1, <2>3
    <3>2. wait'[w] \in Waiting
      BY <2>1, <2>2, <2>3, <3>1 DEF Waiting
    <3> QED  BY <2>1, <2>3, <3>1, <3>2 DEF Waits, Waiting
  <2>4. CASE wait[w].at # "waiting"
    BY <1>1, <2>2, <2>4
  <2> QED  BY <2>3, <2>4
<1>4. waiters' = waiters /\ timer' = Schedule(s)
  BY DEF HandleCharacteristic
<1>5. ASSUME NEW w \in Wait, wait'[w].at = "waiting", wait'[w].heard # {}
      PROVE  timer'[wait'[w].origin] = "fresh"
  <2>1. wait[w].at = "waiting" /\ w \in waiters[wait[w].origin] /\ wait[w].origin \in Origin
    BY <1>3, <1>5, WaitKinds DEF WaitBooks, Listed
  <2>2. CASE wait[w].origin \in OriginsOf(s)
    BY <1>3, <1>4, <2>1, <2>2 DEF Schedule
  <2>3. CASE wait[w].origin \notin OriginsOf(s)
    <3>1. wait[w].heard # {}
      BY <1>3, <1>5, <2>1, <2>3
    <3>2. timer[wait[w].origin] = "fresh"
      BY <2>1, <3>1 DEF WaitBooks, Timed
    <3> QED  BY <1>3, <1>4, <2>1, <2>3, <3>2 DEF Schedule
  <2> QED  BY <2>2, <2>3
<1> HIDE DEF heard
<1>6. wait' \in [Wait -> Waits]
  BY <1>1, <1>3
<1>7. timer' \in [Origin -> {"off", "fresh", "old"}]
  BY <1>4 DEF Schedule, WaitBooks, Listed
<1> QED  BY <1>3, <1>4, <1>5, <1>6, <1>7 DEF WaitBooks, Listed, Timed

LEMMA TimerKeepsWaits ==
  ASSUME WaitBooks, NEW o \in Origin, TimerFires(o)
  PROVE  WaitBooks'
<1>1. /\ wait' = Answer(UNION {Unanswered(x) : x \in {o}}, "settled", Settled(o))
      /\ waiters' = [x \in Origin |-> IF x \in {o} THEN {} ELSE waiters[x]]
      /\ timer' = [x \in Origin |-> IF x \in {o} THEN "off" ELSE timer[x]]
  <2>1. UNION {Unanswered(x) : x \in {o}} = Unanswered(o)
    OBVIOUS
  <2>2. waiters' = [waiters EXCEPT ![o] = {}] /\ timer' = [timer EXCEPT ![o] = "off"]
    BY DEF TimerFires
  <2>3. /\ waiters' = [x \in Origin |-> IF x \in {o} THEN {} ELSE waiters[x]]
        /\ timer' = [x \in Origin |-> IF x \in {o} THEN "off" ELSE timer[x]]
    BY <2>2 DEF WaitBooks, Listed
  <2> QED  BY <2>1, <2>3 DEF TimerFires
<1>2. {o} \in SUBSET Origin
  OBVIOUS
<1> QED  BY <1>1, <1>2, AnswerKeepsWaits

LEMMA LossKeepsWaits ==
  ASSUME WaitBooks, NEW s \in Source, Lost(s)
  PROVE  WaitBooks'
<1>1. OriginsOf(s) \in SUBSET Origin
  BY DEF OriginsOf, Origin
<1> QED  BY <1>1, AnswerKeepsWaits DEF Lost

LEMMA ClearKeepsWaits ==
  ASSUME WaitBooks, NEW s \in Source, Clear(s)
  PROVE  WaitBooks'
<1>1. wait' = [w \in Wait |-> IF wait[w].at = "waiting"
                 THEN [wait[w] EXCEPT !.heard = {k \in @ : k[1] # s}] ELSE wait[w]]
  BY DEF Clear
<1>2. ASSUME NEW w \in Wait
      PROVE  /\ wait'[w] \in Waits
             /\ wait'[w].at = wait[w].at /\ wait'[w].origin = wait[w].origin
             /\ wait'[w].heard # {} => wait[w].heard # {}
  <2>1. wait[w].at = "waiting" => wait[w] \in Waiting
    BY WaitKinds DEF WaitBooks, Listed
  <2>2. wait[w] \in Waits
    BY DEF WaitBooks, Listed
  <2>3. CASE wait[w].at = "waiting"
    <3>1. wait'[w] = [wait[w] EXCEPT !.heard = {k \in @ : k[1] # s}]
      BY <1>1, <2>3
    <3>2. wait'[w] \in Waiting
      BY <2>1, <2>3, <3>1 DEF Waiting
    <3> QED  BY <2>1, <2>3, <3>1, <3>2 DEF Waits, Waiting
  <2>4. CASE wait[w].at # "waiting"
    BY <1>1, <2>2, <2>4
  <2> QED  BY <2>3, <2>4
<1>3. UNCHANGED << waiters, timer >> /\ wait' \in [Wait -> Waits]
  BY <1>1, <1>2 DEF Clear
<1> QED  BY <1>2, <1>3 DEF WaitBooks, Listed, Timed

LEMMA CallsKeepWaits ==
  ASSUME WaitBooks, NEW w \in Wait,
         WaitReturns(w) \/ WaitInterrupted(w) \/ \E o \in Origin : WaitCached(w, o) \/ WaitBegins(w, o)
  PROVE  WaitBooks'
<1>n. NoWait \in Waits /\ NoWait.at = "idle"
  BY NewWaits
<1>0. wait[w].origin \in Origin /\ timer' = timer
  BY WaitKinds DEF WaitBooks, Listed, WaitReturns, WaitInterrupted, WaitCached, WaitBegins
<1>1. CASE WaitReturns(w)
  BY <1>1, <1>n DEF WaitReturns, WaitBooks, Listed, Timed
<1>2. CASE WaitInterrupted(w)
  <2>1. /\ wait' = [wait EXCEPT ![w] = NoWait]
        /\ waiters' = [waiters EXCEPT ![wait[w].origin] = @ \ {w}]
    BY <1>2 DEF WaitInterrupted
  <2>2. Listed'
    BY <1>0, <1>n, <2>1 DEF WaitBooks, Listed
  <2>3. ASSUME NEW x \in Wait, wait'[x].at = "waiting", wait'[x].heard # {}
        PROVE  timer'[wait'[x].origin] = "fresh"
    <3>1. x # w /\ wait'[x] = wait[x]
      BY <1>n, <2>1, <2>3 DEF WaitBooks, Listed
    <3> QED  BY <1>0, <2>3, <3>1 DEF WaitBooks, Timed
  <2> QED  BY <2>2, <2>3 DEF WaitBooks, Timed
<1>3. CASE \E o \in Origin : WaitCached(w, o)
  <2>1. PICK o \in Origin : WaitCached(w, o)
    BY <1>3
  <2> DEFINE told == [NoWait EXCEPT !.at = "cached", !.found = Extent(CharacteristicsFrom(o))]
  <2>2. told \in Waits /\ told.at = "cached" /\ wait[w].at = "idle" /\ waiters' = waiters
    BY <2>1, NewWaits DEF WaitCached, Waits, NoWait
  <2>3. wait' = [x \in Wait |-> IF x = w THEN told ELSE wait[x]]
    BY <2>1 DEF WaitCached, Answer
  <2> HIDE DEF told
  <2> QED  BY <1>0, <2>2, <2>3 DEF WaitBooks, Listed, Timed
<1>4. CASE \E o \in Origin : WaitBegins(w, o)
  <2>1. PICK o \in Origin : WaitBegins(w, o)
    BY <1>4
  <2> DEFINE new == [NoWait EXCEPT !.at = "waiting", !.origin = o]
  <2>2. new \in Waits /\ new.at = "waiting" /\ new.origin = o /\ new.heard = {}
    BY NewWaits DEF Waits, NoWait
  <2>3. wait' = [wait EXCEPT ![w] = new] /\ waiters' = [waiters EXCEPT ![o] = @ \cup {w}]
        /\ wait[w].at = "idle"
    BY <2>1 DEF WaitBegins
  <2> HIDE DEF new
  <2>4. Listed'
    BY <1>0, <2>2, <2>3 DEF WaitBooks, Listed
  <2> QED  BY <1>0, <2>2, <2>3, <2>4 DEF WaitBooks, Listed, Timed
<1> QED  BY <1>1, <1>2, <1>3, <1>4

LEMMA NextKeepsWaits == WaitBooks /\ [Next]_vars => WaitBooks'
<1> SUFFICES ASSUME WaitBooks, [Next]_vars PROVE WaitBooks'
  OBVIOUS
<1>1. CASE UNCHANGED << wait, waiters, timer >>
  BY <1>1 DEF WaitBooks, Listed, Timed
<1>2. ASSUME NEW s \in Source, Connects(s) \/ \E c \in Char : MessageWaits(s, c) PROVE WaitBooks'
  BY <1>1, <1>2 DEF Connects, MessageWaits
<1>4. ASSUME NEW s \in Source, NEW c \in Char, Characteristic(s, c) \/ MessageResumes(s, c)
      PROVE  WaitBooks'
  BY <1>4, ReportKeepsWaits DEF Characteristic, MessageResumes
<1>3. ASSUME NEW r \in Read,
             ReadRefused(r) \/ ReadGranted(r) \/ ReadReturns(r) \/ \E k \in Key : ReadBegins(r, k)
      PROVE  WaitBooks'
  BY <1>1, <1>3 DEF ReadRefused, ReadGranted, ReadReturns, ReadBegins
<1> QED  BY <1>1, <1>2, <1>3, <1>4, TimerKeepsWaits, LossKeepsWaits, ClearKeepsWaits,
            CallsKeepWaits DEF Next, vars

-----------------------------------------------------------------------------
(* Reads *)

LEMMA ReadKinds ==
  ASSUME NEW x \in Reads
  PROVE  /\ x.at \in {"idle", "asking", "awaiting"}
         /\ x.at # "idle" => x \in Reading
         /\ x.at = "idle" => x = NoRead
  BY DEF Reads, NoRead, Reading

LEMMA ReadingFuture ==
  ASSUME NEW x \in Reading, NEW f \in {"none", "value", "failed"}
  PROVE  /\ [x EXCEPT !.future = f] \in Reading
         /\ [x EXCEPT !.future = f].at = x.at /\ [x EXCEPT !.future = f].key = x.key
         /\ [x EXCEPT !.future = f].future = f
         /\ x.key \in Key
  BY DEF Reading

(* Futures of reads on record are set, and they leave the record. *)
LEMMA FuturesSet ==
  ASSUME ReadBooks, NEW ks \in SUBSET Key, NEW f \in {"value", "failed"},
         read' = [r \in Read |-> IF (\E k \in ks : r \in readers[k]) /\ read[r].future = "none"
                                   THEN [read[r] EXCEPT !.future = f] ELSE read[r]],
         readers' = [k \in Key |-> IF k \in ks THEN {} ELSE readers[k]],
         linked' \subseteq Source,
         \A k \in Key \ ks : k[1] \in linked => k[1] \in linked'
  PROVE  ReadBooks'
<1>1. ASSUME NEW r \in Read
      PROVE  /\ read'[r] \in Reads
             /\ read'[r].at = read[r].at /\ read'[r].key = read[r].key
             /\ read'[r].future = "none" =>
                  read[r].future = "none" /\ \A k \in ks : r \notin readers[k]
  <2>1. CASE (\E k \in ks : r \in readers[k]) /\ read[r].future = "none"
    <3>1. read'[r] = [read[r] EXCEPT !.future = f] /\ read[r] \in Reads /\ read[r].at # "idle"
      BY <2>1 DEF ReadBooks, OnRecord
    <3>2. read[r] \in Reading
      BY <3>1, ReadKinds
    <3> DEFINE x == read[r]
               set == [x EXCEPT !.future = f]
    <3>3. x \in Reading /\ read'[r] = set
      BY <3>1, <3>2
    <3> HIDE DEF x
    <3>n. f \in {"none", "value", "failed"} /\ f # "none"
      OBVIOUS
    <3>4. set \in Reading /\ set.at = x.at /\ set.key = x.key /\ set.future = f
      BY <3>n, <3>3, ReadingFuture, Zenon
    <3> HIDE DEF set
    <3> QED  BY <3>n, <3>3, <3>4 DEF Reads, x
  <2>2. CASE ~ ((\E k \in ks : r \in readers[k]) /\ read[r].future = "none")
    BY <2>2 DEF ReadBooks, OnRecord
  <2> QED  BY <2>1, <2>2
<1>2. read' \in [Read -> Reads] /\ readers' \in [Key -> SUBSET Read]
  BY <1>1 DEF ReadBooks, OnRecord
<1>3. OnRecord'
  BY <1>1, <1>2 DEF ReadBooks, OnRecord
<1>4. ASSUME NEW r \in Read, read'[r].at # "idle", read'[r].future = "none"
      PROVE  /\ r \in readers'[read'[r].key]
             /\ read'[r].at = "awaiting" => read'[r].key[1] \in linked'
  <2>1. read[r].at # "idle" /\ read[r].future = "none" /\ read[r].key \in Key
        /\ r \in readers[read[r].key]
    BY <1>1, <1>4, ReadKinds, ReadingFuture DEF ReadBooks, OnRecord, NoReadInVain
  <2>2. read[r].key \in Key \ ks
    BY <1>1, <1>4, <2>1
  <2>3. readers'[read[r].key] = readers[read[r].key]
    BY <2>2
  <2> QED  BY <1>1, <1>4, <2>1, <2>2, <2>3 DEF ReadBooks, NoReadInVain
<1>5. NoReadInVain'
  BY <1>4, ReadKinds, <1>2 DEF NoReadInVain
<1> QED  BY <1>3, <1>5 DEF ReadBooks

LEMMA ReportKeepsReads ==
  ASSUME ReadBooks, NEW s \in Source, NEW c \in Char,
         HandleCharacteristic(s, c), UNCHANGED linked
  PROVE  ReadBooks'
<1>1. << s, c >> \in Key /\ linked' = linked /\ linked \subseteq Source
  BY DEF Key, ReadBooks, OnRecord
<1>2. /\ read' = [r \in Read |-> IF (\E k \in {<< s, c >>} : r \in readers[k]) /\ read[r].future = "none"
                                   THEN [read[r] EXCEPT !.future = "value"] ELSE read[r]]
      /\ readers' = [k \in Key |-> IF k \in {<< s, c >>} THEN {} ELSE readers[k]]
  BY <1>1 DEF HandleCharacteristic, ReadBooks, OnRecord
<1> QED  BY <1>1, <1>2, FuturesSet

LEMMA LossKeepsReads ==
  ASSUME ReadBooks, NEW s \in Source, Lost(s)
  PROVE  ReadBooks'
<1> DEFINE ks == {k \in Key : k[1] = s}
<1>1. \A r \in Read : (\E c \in Char : r \in readers[<< s, c >>]) <=> \E k \in ks : r \in readers[k]
  <2>1. \A c \in Char : << s, c >> \in ks
    BY DEF Key
  <2>2. \A k \in ks : k[2] \in Char /\ k = << s, k[2] >>
    BY DEF Key
  <2> HIDE DEF ks
  <2> QED  BY <2>1, <2>2
<1>2. /\ read' = [r \in Read |-> IF (\E k \in ks : r \in readers[k]) /\ read[r].future = "none"
                                   THEN [read[r] EXCEPT !.future = "failed"] ELSE read[r]]
      /\ readers' = [k \in Key |-> IF k \in ks THEN {} ELSE readers[k]]
      /\ linked' \in {linked \ {s}, linked}
  BY <1>1 DEF Lost, LinkGone, apVars
<1>3. \A k \in Key \ ks : k[1] \in linked => k[1] \in linked'
  BY <1>2
<1>4. linked' \subseteq Source /\ ks \in SUBSET Key
  BY <1>2 DEF ReadBooks, OnRecord
<1> QED  BY <1>2, <1>3, <1>4, FuturesSet

LEMMA ReadCallsKeepReads ==
  ASSUME ReadBooks, NEW r \in Read,
         ReadRefused(r) \/ ReadGranted(r) \/ ReadReturns(r) \/ \E k \in Key : ReadBegins(r, k)
  PROVE  ReadBooks'
<1>0. linked' = linked /\ read[r] \in Reads
  BY DEF ReadRefused, ReadGranted, ReadReturns, ReadBegins, apVars, ReadBooks, OnRecord
<1>1. CASE ReadRefused(r) \/ ReadReturns(r)
  <2>1. /\ read[r].at # "idle" /\ read' = [read EXCEPT ![r] = NoRead]
        /\ readers' = [readers EXCEPT ![read[r].key] = @ \ {r}]
    BY <1>1 DEF ReadRefused, ReadReturns, ReadEnds
  <2>2. read[r].key \in Key /\ NoRead \in Reads /\ NoRead.at = "idle"
    BY <1>0, <2>1, ReadKinds, ReadingFuture DEF Reads, NoRead
  <2>3. OnRecord'
    BY <1>0, <2>1, <2>2 DEF ReadBooks, OnRecord
  <2>4. NoReadInVain'
    BY <1>0, <2>1, <2>2, ReadKinds, ReadingFuture DEF ReadBooks, OnRecord, NoReadInVain
  <2> QED  BY <2>3, <2>4 DEF ReadBooks
<1>2. CASE ReadGranted(r)
  <2>1. /\ read[r].at = "asking" /\ read' = [read EXCEPT ![r].at = "awaiting"]
        /\ read[r].key[1] \in linked /\ readers' = readers
    BY <1>2 DEF ReadGranted
  <2>2. read[r] \in Reading
    BY <1>0, <2>1, ReadKinds
  <2>3. /\ [read[r] EXCEPT !.at = "awaiting"] \in Reading
        /\ [read[r] EXCEPT !.at = "awaiting"].at = "awaiting"
        /\ [read[r] EXCEPT !.at = "awaiting"].key = read[r].key
        /\ [read[r] EXCEPT !.at = "awaiting"].future = read[r].future
    BY <2>2 DEF Reading
  <2>4. read' = [read EXCEPT ![r] = [read[r] EXCEPT !.at = "awaiting"]]
    BY <2>1 DEF ReadBooks, OnRecord
  <2>5. OnRecord'
    BY <1>0, <2>1, <2>3, <2>4 DEF ReadBooks, OnRecord, Reads
  <2>6. NoReadInVain'
    BY <1>0, <2>1, <2>3, <2>4 DEF ReadBooks, OnRecord, NoReadInVain
  <2> QED  BY <2>5, <2>6 DEF ReadBooks
<1>3. CASE \E k \in Key : ReadBegins(r, k)
  <2>1. PICK k \in Key : ReadBegins(r, k)
    BY <1>3
  <2> DEFINE new == [at |-> "asking", key |-> k, future |-> "none"]
  <2>2. new \in Reads /\ new.at = "asking" /\ new.key = k
    BY DEF Reads, Reading
  <2>3. read[r].at = "idle" /\ read' = [read EXCEPT ![r] = new]
        /\ readers' = [readers EXCEPT ![k] = @ \cup {r}]
    BY <2>1 DEF ReadBegins
  <2> HIDE DEF new
  <2>4. OnRecord'
    BY <1>0, <2>2, <2>3 DEF ReadBooks, OnRecord
  <2>5. NoReadInVain'
    <3> SUFFICES ASSUME NEW q \in Read, read'[q].at # "idle", read'[q].future = "none"
                 PROVE  /\ q \in readers'[read'[q].key]
                        /\ read'[q].at = "awaiting" => read'[q].key[1] \in linked'
      BY <2>4, ReadKinds DEF NoReadInVain, OnRecord
    <3>1. CASE q = r
      BY <2>2, <2>3, <3>1 DEF ReadBooks, OnRecord
    <3>2. CASE q # r
      <4>1. read'[q] = read[q] /\ read[q].key \in Key
        BY <2>3, <3>2, ReadKinds, ReadingFuture DEF ReadBooks, OnRecord
      <4> QED  BY <1>0, <2>3, <3>2, <4>1 DEF ReadBooks, OnRecord, NoReadInVain
    <3> QED  BY <3>1, <3>2
  <2> QED  BY <2>4, <2>5 DEF ReadBooks
<1> QED  BY <1>1, <1>2, <1>3

LEMMA NextKeepsReads == ReadBooks /\ [Next]_vars => ReadBooks'
<1> SUFFICES ASSUME ReadBooks, [Next]_vars PROVE ReadBooks'
  OBVIOUS
<1>1. CASE UNCHANGED << read, readers >> /\ linked' \subseteq Source /\ linked \subseteq linked'
  BY <1>1 DEF ReadBooks, OnRecord, NoReadInVain
<1>2. ASSUME NEW s \in Source, Connects(s) \/ Clear(s) \/ \E c \in Char : MessageWaits(s, c)
      PROVE  ReadBooks'
  BY <1>1, <1>2 DEF Connects, Clear, MessageWaits, APReports, apVars, ReadBooks, OnRecord
<1>6. ASSUME NEW s \in Source, NEW c \in Char, Characteristic(s, c) \/ MessageResumes(s, c)
      PROVE  ReadBooks'
  <2>1. HandleCharacteristic(s, c) /\ UNCHANGED linked
    BY <1>6 DEF Characteristic, MessageResumes, APReports, apVars
  <2> QED  BY <2>1, ReportKeepsReads
<1>3. ASSUME NEW o \in Origin, TimerFires(o) \/ \E w \in Wait : WaitCached(w, o) \/ WaitBegins(w, o)
      PROVE  ReadBooks'
  BY <1>1, <1>3 DEF TimerFires, WaitCached, WaitBegins, apVars, ReadBooks, OnRecord
<1>4. ASSUME NEW w \in Wait, WaitReturns(w) \/ WaitInterrupted(w) PROVE ReadBooks'
  BY <1>1, <1>4 DEF WaitReturns, WaitInterrupted, apVars, ReadBooks, OnRecord
<1>5. CASE UNCHANGED vars
  BY <1>1, <1>5 DEF vars, apVars, ReadBooks, OnRecord
<1> QED  BY <1>2, <1>3, <1>4, <1>5, <1>6, LossKeepsReads, ReadCallsKeepReads DEF Next

(* Only its timer settles a wait. *)
LEMMA SettledByTimer ==
  ASSUME WaitBooks, [Next]_vars, NEW w \in Wait,
         wait[w].at = "waiting", wait'[w].at = "settled"
  PROVE  \E o \in Origin : TimerFires(o)
<1>0. wait[w] \in Waiting /\ \A x \in Wait : wait[x] \in Waits
  BY WaitKinds DEF WaitBooks, Listed
<1>2. ~ \E s \in Source : Lost(s)
  <2> SUFFICES ASSUME NEW s \in Source, Lost(s) PROVE FALSE
    OBVIOUS
  <2>1. wait' = Answer(UNION {Unanswered(o) : o \in OriginsOf(s)}, "lost", {})
    BY DEF Lost
  <2> QED  BY <2>1 DEF Answer, NoWait
<1>3. ~ \E s \in Source :
          \/ Connects(s) \/ Clear(s)
          \/ \E c \in Char : Characteristic(s, c) \/ MessageWaits(s, c) \/ MessageResumes(s, c)
  <2> SUFFICES ASSUME NEW s \in Source,
                      \/ Connects(s) \/ Clear(s)
                      \/ \E c \in Char : MessageWaits(s, c) \/ HandleCharacteristic(s, c)
               PROVE  wait'[w].at = "waiting"
    BY DEF Characteristic, MessageResumes
  <2>1. \/ wait'[w] = wait[w]
        \/ \E h : wait'[w] = [wait[w] EXCEPT !.heard = h]
    BY DEF Connects, Clear, MessageWaits, HandleCharacteristic
  <2> QED  BY <1>0, <2>1 DEF Waiting
<1>4. ~ \E x \in Wait : WaitReturns(x) \/ WaitInterrupted(x)
                       \/ \E o \in Origin : WaitCached(x, o) \/ WaitBegins(x, o)
  <2> SUFFICES ASSUME NEW x \in Wait,
                      WaitReturns(x) \/ WaitInterrupted(x)
                      \/ \E o \in Origin : WaitCached(x, o) \/ WaitBegins(x, o)
               PROVE  wait'[w].at # "settled"
    OBVIOUS
  <2>1. CASE x = w
    <3>1. WaitInterrupted(w)
      BY <2>1 DEF WaitReturns, WaitCached, WaitBegins
    <3>2. wait'[w] = NoWait
      BY <3>1 DEF WaitInterrupted, WaitBooks, Listed
    <3> QED  BY <3>2, NewWaits
  <2>2. CASE x # w
    <3>1. ASSUME WaitReturns(x) \/ WaitInterrupted(x) \/ \E o \in Origin : WaitBegins(x, o)
          PROVE  wait'[w] = wait[w]
      <4>1. \E n : wait' = [wait EXCEPT ![x] = n]
        BY <3>1 DEF WaitReturns, WaitInterrupted, WaitBegins
      <4> QED  BY <2>2, <4>1 DEF WaitBooks, Listed
    <3>2. ASSUME NEW o \in Origin, WaitCached(x, o)
          PROVE  wait'[w] = wait[w]
      <4>1. \E n : wait' = [y \in Wait |-> IF y \in {x} THEN n ELSE wait[y]]
        BY <3>2 DEF WaitCached, Answer
      <4> QED  BY <2>2, <4>1
    <3> QED  BY <3>1, <3>2
  <2> QED  BY <2>1, <2>2
<1>5. ~ (\E r \in Read : ReadRefused(r) \/ ReadGranted(r) \/ ReadReturns(r)
                        \/ \E k \in Key : ReadBegins(r, k)) /\ ~ UNCHANGED vars
  BY DEF ReadRefused, ReadGranted, ReadReturns, ReadBegins, vars
<1> QED  BY <1>2, <1>3, <1>4, <1>5 DEF Next

-----------------------------------------------------------------------------
(* The cache *)

(* A caller has heard all that the cache has for it: it began when there   *)
(* was nothing.                                                            *)
HeardAll ==
  \A w \in Wait :
    wait[w].at = "waiting" => wait[w].heard = CharacteristicsFrom(wait[w].origin)

(* What has been reported over the present link, cached or yet in hand. *)
Current(k) == k[1] \in linked /\ k[2] \notin burst[k[1]]

CacheBooks == cache \in Seq(Key) /\ HeardAll

(* Reports in hand are of the present link until it is lost. *)
LinkBooks ==
  /\ cache \in Seq(Key)
  /\ linked \subseteq Source
  /\ burst \in [Source -> SUBSET Char]
  /\ inHand \subseteq Key
  /\ \A k \in Known \ late : Current(k)
  /\ \A k \in inHand \ overdue : Current(k)

LEMMA CachedElements ==
  ASSUME cache \in Seq(Key), NEW k \in Key
  PROVE  /\ Cached(k) \in Seq(Key) /\ k \in ToSet(Cached(k))
         /\ ToSet(Cached(k)) \subseteq Known \cup {k}
<1> DEFINE kept == IF Len(cache) >= MaxCached THEN Tail(cache) ELSE cache
<1>1. kept \in Seq(Key) /\ ToSet(kept) \subseteq Known
  <2>1. CASE Len(cache) >= MaxCached
    <3>1. Len(cache) \in Nat /\ DOMAIN cache = 1 .. Len(cache) /\ MaxCached \in Nat /\ MaxCached >= 1
      BY LenProperties, MaxCachedAssumption
    <3>2. cache # << >>
      BY <2>1, <3>1, EmptySeq
    <3>3. /\ Tail(cache) \in Seq(Key) /\ Len(Tail(cache)) = Len(cache) - 1
          /\ \A i \in 1 .. Len(Tail(cache)) : Tail(cache)[i] = cache[i + 1]
      BY <3>2, HeadTailProperties
    <3>4. \A i \in DOMAIN Tail(cache) : i + 1 \in DOMAIN cache /\ Tail(cache)[i] = cache[i + 1]
      BY <3>1, <3>3, LenProperties
    <3> QED  BY <2>1, <3>3, <3>4 DEF Known, ToSet
  <2>2. CASE ~ (Len(cache) >= MaxCached)
    BY <2>2 DEF Known
  <2> QED  BY <2>1, <2>2
<1>2. Cached(k) = IF k \in ToSet(kept) THEN kept ELSE Append(kept, k)
  BY DEF Cached
<1> HIDE DEF kept
<1>3. CASE k \in ToSet(kept)
  BY <1>1, <1>2, <1>3
<1>4. CASE k \notin ToSet(kept)
  <2>1. /\ Append(kept, k) \in Seq(Key) /\ Len(Append(kept, k)) = Len(kept) + 1
        /\ \A i \in 1 .. Len(kept) : Append(kept, k)[i] = kept[i]
        /\ Append(kept, k)[Len(kept) + 1] = k
    BY <1>1, AppendProperties
  <2>2. Len(kept) \in Nat /\ DOMAIN kept = 1 .. Len(kept)
        /\ DOMAIN Append(kept, k) = 1 .. Len(kept) + 1
    BY <1>1, <2>1, LenProperties
  <2>3. Len(kept) + 1 \in DOMAIN Append(kept, k)
        /\ \A i \in DOMAIN Append(kept, k) : i \in DOMAIN kept \/ i = Len(kept) + 1
    BY <2>2
  <2>4. k \in ToSet(Append(kept, k)) /\ ToSet(Append(kept, k)) \subseteq ToSet(kept) \cup {k}
    BY <2>1, <2>2, <2>3 DEF ToSet
  <2> QED  BY <1>1, <1>2, <1>4, <2>1, <2>4
<1> QED  BY <1>3, <1>4

LEMMA WithoutElements ==
  ASSUME cache \in Seq(Key), NEW s
  PROVE  Without(s) \in Seq(Key) /\ ToSet(Without(s)) = {k \in Known : k[1] # s}
<1> DEFINE I == {i \in DOMAIN cache : cache[i][1] # s}
<1>1. I \in SUBSET (DOMAIN cache)
  OBVIOUS
<1>2. Kept(cache, I) \in Seq(Key) /\ ToSet(Kept(cache, I)) = {cache[i] : i \in I}
  <2> HIDE DEF I
  <2> QED  BY <1>1, KeptElements
<1>3. Without(s) = Kept(cache, I)
  BY DEF Without
<1>4. {cache[i] : i \in I} = {k \in Known : k[1] # s}
  BY DEF Known, ToSet
<1> QED  BY <1>2, <1>3, <1>4

LEMMA ReportKeepsCache ==
  ASSUME WaitBooks, CacheBooks, NEW s \in Source, NEW c \in Char, HandleCharacteristic(s, c)
  PROVE  CacheBooks'
<1> DEFINE k == << s, c >>
<1>1. k \in Key /\ k[1] = s /\ cache' = Cached(k)
  BY DEF HandleCharacteristic, Key
<1>2. /\ cache' \in Seq(Key) /\ k \in Known' /\ Known' \subseteq Known \cup {k}
      /\ Known' = ToSet(Cached(k))
  <2> HIDE DEF k
  <2> QED  BY <1>1, CachedElements DEF CacheBooks, Known
<1>4. ASSUME NEW w \in Wait, wait'[w].at = "waiting"
      PROVE  wait'[w].heard = CharacteristicsFrom(wait[w].origin)'
             /\ wait'[w].origin = wait[w].origin
  <2>1. wait[w].at = "waiting" /\ wait[w] \in Waiting /\ wait[w].origin \in Origin
    BY <1>4, WaitKinds DEF HandleCharacteristic, WaitBooks, Listed
  <2> DEFINE o == wait[w].origin
             new == (wait[w].heard \cup IF o \in OriginsOf(s) THEN {k} ELSE {}) \cap ToSet(Cached(k))
  <2>2. wait'[w] = [wait[w] EXCEPT !.heard = new]
    BY <2>1 DEF HandleCharacteristic
  <2>3. wait'[w].heard = new /\ wait'[w].origin = o
    BY <2>1, <2>2 DEF Waiting
  <2>4. wait[w].heard = {x \in Known : x[1] \in SourcesOf(o)}
    BY <2>1 DEF CacheBooks, HeardAll, CharacteristicsFrom
  <2>5. s \in SourcesOf(o) <=> o \in OriginsOf(s)
    BY <2>1, AnySourceAssumption DEF SourcesOf, OriginsOf, Origin
  <2>6. new = {x \in Known' : x[1] \in SourcesOf(o)}
    <3> HIDE DEF k, o
    <3>1. \A x \in Known' : x \in Known \/ x = k
      BY <1>2
    <3>2. \A x : x \in new <=> x \in Known' /\ (x \in wait[w].heard \/ (o \in OriginsOf(s) /\ x = k))
      BY <1>2
    <3>3. \A x : x \in new <=> x \in Known' /\ x[1] \in SourcesOf(o)
      BY <1>1, <2>4, <2>5, <3>1, <3>2
    <3> QED  BY <3>3
  <2> QED  BY <2>3, <2>6 DEF CharacteristicsFrom
<1>5. HeardAll'
  BY <1>4 DEF HeardAll, CharacteristicsFrom
<1> QED  BY <1>2, <1>5 DEF CacheBooks

(* Those left waiting after a loss wait for another source. *)
LEMMA LossKeepsCache ==
  ASSUME WaitBooks, CacheBooks, NEW s \in Source, Lost(s)
  PROVE  CacheBooks'
<1>1. cache' = Without(s)
      /\ wait' = Answer(UNION {Unanswered(o) : o \in OriginsOf(s)}, "lost", {})
  BY DEF Lost
<1>2. cache' \in Seq(Key) /\ Known' = {k \in Known : k[1] # s}
  BY <1>1, WithoutElements DEF CacheBooks, Known
<1>4. ASSUME NEW w \in Wait, wait'[w].at = "waiting"
      PROVE  wait'[w] = wait[w] /\ wait[w].origin \in Source \ {s}
  <2>1. ~ \E o \in OriginsOf(s) : w \in Unanswered(o)
    BY <1>1, <1>4, NewWaits DEF Answer, NoWait
  <2>2. wait'[w] = wait[w]
    BY <1>1, <2>1 DEF Answer
  <2>3. wait[w].origin \in Origin /\ w \in waiters[wait[w].origin]
    BY <1>4, <2>2, WaitKinds DEF WaitBooks, Listed
  <2>4. wait[w].origin \notin OriginsOf(s)
    BY <1>4, <2>1, <2>2, <2>3 DEF Unanswered
  <2> QED  BY <2>2, <2>3, <2>4 DEF OriginsOf, Origin
<1>5. HeardAll'
  <2> SUFFICES ASSUME NEW w \in Wait, wait'[w].at = "waiting"
               PROVE  wait'[w].heard = {k \in Known' : k[1] \in SourcesOf(wait'[w].origin)}
    BY DEF HeardAll, CharacteristicsFrom
  <2>1. wait[w].heard = {k \in Known : k[1] \in SourcesOf(wait[w].origin)}
    BY <1>4 DEF CacheBooks, HeardAll, CharacteristicsFrom
  <2>2. s \notin SourcesOf(wait[w].origin)
    BY <1>4, AnySourceAssumption DEF SourcesOf
  <2> QED  BY <1>2, <1>4, <2>1, <2>2
<1> QED  BY <1>2, <1>5 DEF CacheBooks

LEMMA ClearKeepsCache ==
  ASSUME WaitBooks, CacheBooks, NEW s \in Source, Clear(s)
  PROVE  CacheBooks'
<1>1. cache' = Without(s)
  BY DEF Clear
<1>2. cache' \in Seq(Key) /\ Known' = {k \in Known : k[1] # s}
  BY <1>1, WithoutElements DEF CacheBooks, Known
<1>4. HeardAll'
  <2> SUFFICES ASSUME NEW w \in Wait, wait'[w].at = "waiting"
               PROVE  wait'[w].heard = {k \in Known' : k[1] \in SourcesOf(wait'[w].origin)}
    BY DEF HeardAll, CharacteristicsFrom
  <2>1. wait[w].at = "waiting" /\ wait[w] \in Waiting
    <3>1. CASE wait[w].at = "waiting"
      BY <3>1, WaitKinds DEF WaitBooks, Listed
    <3>2. CASE wait[w].at # "waiting"
      BY <3>2 DEF Clear
    <3> QED  BY <3>1, <3>2
  <2>2. wait'[w] = [wait[w] EXCEPT !.heard = {k \in @ : k[1] # s}]
    BY <2>1 DEF Clear
  <2>3. wait'[w].heard = {k \in wait[w].heard : k[1] # s} /\ wait'[w].origin = wait[w].origin
    BY <2>1, <2>2 DEF Waiting
  <2>4. wait[w].heard = {k \in Known : k[1] \in SourcesOf(wait[w].origin)}
    BY <2>1 DEF CacheBooks, HeardAll, CharacteristicsFrom
  <2> QED  BY <1>2, <2>3, <2>4
<1> QED  BY <1>2, <1>4 DEF CacheBooks

(* Whoever else begins or ends to wait finds the cache as it is. *)
LEMMA WaitersKeepCache ==
  ASSUME WaitBooks, CacheBooks, UNCHANGED cache,
         \A w \in Wait : wait'[w].at = "waiting" =>
           \/ wait'[w] = wait[w]
           \/ wait'[w].heard = {} /\ CharacteristicsFrom(wait'[w].origin) = {}
  PROVE  CacheBooks'
<1>1. Known' = Known
  BY DEF Known
<1> QED  BY <1>1 DEF CacheBooks, HeardAll, CharacteristicsFrom

LEMMA CallsKeepCache ==
  ASSUME WaitBooks, CacheBooks, NEW w \in Wait,
         WaitReturns(w) \/ WaitInterrupted(w) \/ \E o \in Origin : WaitCached(w, o) \/ WaitBegins(w, o)
  PROVE  CacheBooks'
<1>1. UNCHANGED cache
  BY DEF WaitReturns, WaitInterrupted, WaitCached, WaitBegins
<1>2. ASSUME NEW x \in Wait, wait'[x].at = "waiting"
      PROVE  \/ wait'[x] = wait[x]
             \/ wait'[x].heard = {} /\ CharacteristicsFrom(wait'[x].origin) = {}
  <2>1. CASE WaitReturns(w) \/ WaitInterrupted(w)
    <3>1. wait' = [wait EXCEPT ![w] = NoWait]
      BY <2>1 DEF WaitReturns, WaitInterrupted
    <3> QED  BY <1>2, <3>1, NewWaits DEF WaitBooks, Listed
  <2>2. CASE \E o \in Origin : WaitCached(w, o)
    BY <1>2, <2>2 DEF WaitCached, Answer, NoWait
  <2>3. ASSUME NEW o \in Origin, WaitBegins(w, o)
        PROVE  \/ wait'[x] = wait[x]
               \/ wait'[x].heard = {} /\ CharacteristicsFrom(wait'[x].origin) = {}
    <3> DEFINE new == [NoWait EXCEPT !.at = "waiting", !.origin = o]
    <3>1. wait' = [wait EXCEPT ![w] = new] /\ CharacteristicsFrom(o) = {}
      BY <2>3 DEF WaitBegins
    <3>2. new.heard = {} /\ new.origin = o
      BY DEF NoWait
    <3> HIDE DEF new
    <3> QED  BY <3>1, <3>2 DEF WaitBooks, Listed
  <2> QED  BY <2>1, <2>2, <2>3
<1> QED  BY <1>1, <1>2, WaitersKeepCache

LEMMA NextKeepsCache == WaitBooks /\ CacheBooks /\ [Next]_vars => CacheBooks'
<1> SUFFICES ASSUME WaitBooks, CacheBooks, [Next]_vars PROVE CacheBooks'
  OBVIOUS
<1>1. CASE UNCHANGED << cache, wait >>
  BY <1>1, WaitersKeepCache
<1>2. ASSUME NEW s \in Source, Connects(s) \/ \E c \in Char : MessageWaits(s, c) PROVE CacheBooks'
  BY <1>1, <1>2 DEF Connects, MessageWaits
<1>3. ASSUME NEW r \in Read,
             ReadRefused(r) \/ ReadGranted(r) \/ ReadReturns(r) \/ \E k \in Key : ReadBegins(r, k)
      PROVE  CacheBooks'
  BY <1>1, <1>3 DEF ReadRefused, ReadGranted, ReadReturns, ReadBegins
<1>4. ASSUME NEW o \in Origin, TimerFires(o) PROVE CacheBooks'
  <2>1. UNCHANGED cache /\ wait' = Answer(Unanswered(o), "settled", Settled(o))
    BY <1>4 DEF TimerFires
  <2>2. \A w \in Wait : wait'[w].at = "waiting" => wait'[w] = wait[w]
    BY <2>1 DEF Answer, NoWait
  <2> QED  BY <2>1, <2>2, WaitersKeepCache
<1>5. ASSUME NEW s \in Source, NEW c \in Char, Characteristic(s, c) \/ MessageResumes(s, c)
      PROVE  CacheBooks'
  BY <1>5, ReportKeepsCache DEF Characteristic, MessageResumes
<1> QED  BY <1>1, <1>2, <1>3, <1>4, <1>5, LossKeepsCache, ClearKeepsCache,
            CallsKeepCache DEF Next, vars

(* A report is cached: of its own link, or marked late. *)
LEMMA ReportKeepsLinks ==
  ASSUME LinkBooks, NEW s \in Source, NEW c \in Char, Characteristic(s, c) \/ MessageResumes(s, c)
  PROVE  LinkBooks'
<1> DEFINE k == << s, c >>
<1>1. k \in Key /\ k[1] = s /\ k[2] = c /\ cache' = Cached(k)
  BY DEF Characteristic, MessageResumes, HandleCharacteristic, Key
<1>2. k \in late' \/ Current(k)'
  <2>1. CASE Characteristic(s, c)
    BY <2>1 DEF Characteristic, APReports, Current, LinkBooks
  <2>2. CASE MessageResumes(s, c) /\ k \notin overdue
    BY <1>1, <2>2 DEF MessageResumes, LinkBooks, Current, apVars
  <2>3. CASE MessageResumes(s, c) /\ k \in overdue
    <3>1. k \in ToSet(Cached(k))
      <4> HIDE DEF k
      <4> QED  BY <1>1, CachedElements DEF LinkBooks
    <3> QED  BY <2>3, <3>1 DEF MessageResumes
  <2> QED  BY <2>1, <2>2, <2>3
<1>3. /\ late' \cup {k} = (late \cap ToSet(Cached(k))) \cup {k}
      /\ \A x \in inHand' \ overdue' : x \in inHand \ overdue
  BY DEF Characteristic, MessageResumes
<1>4. linked' = linked /\ burst' \in [Source -> SUBSET Char] /\ inHand' \subseteq Key
      /\ \A x \in Source : burst'[x] \subseteq burst[x]
  BY DEF Characteristic, MessageResumes, APReports, LinkBooks, apVars
<1>5. \A x \in Key : Current(x) => Current(x)'
  BY <1>4 DEF Current, Key
<1> HIDE DEF k
<1>6. cache' \in Seq(Key) /\ Known' \subseteq Known \cup {k} /\ Known \subseteq Key
      /\ Known' = ToSet(Cached(k))
  <2>1. Known \subseteq Key
    BY LenProperties DEF LinkBooks, Known, ToSet
  <2> QED  BY <1>1, <2>1, CachedElements DEF LinkBooks, Known
<1>7. \A x \in Known' \ late' : Current(x)'
  BY <1>2, <1>3, <1>5, <1>6 DEF LinkBooks
<1>8. \A x \in inHand' \ overdue' : Current(x)'
  BY <1>3, <1>5 DEF LinkBooks
<1> QED  BY <1>4, <1>6, <1>7, <1>8 DEF LinkBooks

(* A loss takes what is cached of the source, and dates what is in hand.   *)
LEMMA LossKeepsLinks ==
  ASSUME LinkBooks, NEW s \in Source, Lost(s) \/ Clear(s)
  PROVE  LinkBooks'
<1>1. /\ cache' = Without(s) /\ late' = {k \in late : k[1] # s} /\ inHand' = inHand
      /\ \/ linked' = linked \ {s} /\ burst' = [burst EXCEPT ![s] = {}]
            /\ overdue' = overdue \cup {k \in inHand : k[1] = s}
         \/ UNCHANGED << linked, burst, overdue >>
  BY DEF Lost, Clear, LinkGone, apVars
<1>2. cache' \in Seq(Key) /\ Known' = {k \in Known : k[1] # s}
  BY <1>1, WithoutElements DEF LinkBooks, Known
<1>3. \A k : k[1] # s /\ Current(k) => Current(k)'
  <2> SUFFICES ASSUME NEW k, k[1] # s, k[1] \in linked, k[2] \notin burst[k[1]]
               PROVE  k[1] \in linked' /\ k[2] \notin burst'[k[1]]
    BY DEF Current
  <2>1. CASE UNCHANGED << linked, burst >>
    BY <2>1
  <2>2. CASE linked' = linked \ {s} /\ burst' = [burst EXCEPT ![s] = {}]
    <3>1. k[1] \in linked' /\ k[1] \in Source
      BY <2>2 DEF LinkBooks
    <3>2. burst'[k[1]] = burst[k[1]]
      BY <2>2, <3>1 DEF LinkBooks
    <3> QED  BY <3>1, <3>2
  <2> QED  BY <1>1, <2>1, <2>2
<1>4. \A k \in Known' \ late' : Current(k)'
  BY <1>1, <1>2, <1>3 DEF LinkBooks
<1>5. \A k \in inHand' \ overdue' : Current(k)'
  <2>1. CASE UNCHANGED << linked, burst, overdue >>
    BY <1>1, <2>1 DEF LinkBooks, Current
  <2>2. CASE overdue' = overdue \cup {k \in inHand : k[1] = s}
    BY <1>1, <1>3, <2>2 DEF LinkBooks
  <2> QED  BY <1>1, <2>1, <2>2
<1>6. linked' \subseteq Source /\ burst' \in [Source -> SUBSET Char]
  BY <1>1 DEF LinkBooks
<1> QED  BY <1>1, <1>2, <1>4, <1>5, <1>6 DEF LinkBooks

LEMMA NextKeepsLinks == LinkBooks /\ [Next]_vars => LinkBooks'
<1> SUFFICES ASSUME LinkBooks, [Next]_vars PROVE LinkBooks'
  OBVIOUS
<1>1. CASE UNCHANGED << cache, apVars, handVars >>
  BY <1>1 DEF LinkBooks, Current, Known, apVars, handVars
<1>2. ASSUME NEW s \in Source, Connects(s) PROVE LinkBooks'
  <2>1. /\ s \notin linked /\ linked' = linked \cup {s}
        /\ burst' = [burst EXCEPT ![s] = Char] /\ UNCHANGED << cache, handVars >>
    BY <1>2 DEF Connects
  <2>2. \A k : Current(k) => Current(k)'
    BY <2>1 DEF Current, LinkBooks
  <2>3. burst' \in [Source -> SUBSET Char]
    BY <2>1 DEF LinkBooks
  <2> QED  BY <2>1, <2>2, <2>3 DEF LinkBooks, Known, handVars
<1>3. ASSUME NEW s \in Source, NEW c \in Char, MessageWaits(s, c) PROVE LinkBooks'
  <2>1. /\ s \in linked /\ linked' = linked /\ burst' = [burst EXCEPT ![s] = @ \ {c}]
        /\ inHand' = inHand \cup {<< s, c >>} /\ UNCHANGED << cache, overdue, late >>
    BY <1>3 DEF MessageWaits, APReports
  <2>2. (\A k : Current(k) => Current(k)') /\ Current(<< s, c >>)'
    BY <2>1 DEF Current, LinkBooks
  <2>3. burst' \in [Source -> SUBSET Char] /\ << s, c >> \in Key
    BY <2>1 DEF LinkBooks, Key
  <2> QED  BY <2>1, <2>2, <2>3 DEF LinkBooks, Known
<1>4. ASSUME NEW o \in Origin, TimerFires(o) \/ \E w \in Wait : WaitCached(w, o) \/ WaitBegins(w, o)
      PROVE  LinkBooks'
  BY <1>1, <1>4 DEF TimerFires, WaitCached, WaitBegins
<1>5. ASSUME NEW w \in Wait, WaitReturns(w) \/ WaitInterrupted(w) PROVE LinkBooks'
  BY <1>1, <1>5 DEF WaitReturns, WaitInterrupted
<1>6. ASSUME NEW r \in Read,
             ReadRefused(r) \/ ReadGranted(r) \/ ReadReturns(r) \/ \E k \in Key : ReadBegins(r, k)
      PROVE  LinkBooks'
  BY <1>1, <1>6 DEF ReadRefused, ReadGranted, ReadReturns, ReadBegins
<1> QED  BY <1>1, <1>2, <1>3, <1>4, <1>5, <1>6, ReportKeepsLinks, LossKeepsLinks DEF Next, vars

-----------------------------------------------------------------------------
(* Theorems *)

(* The books of waits: lists, timers and callers agree.                    *)
THEOREM WaitBooksHold == Spec => []WaitBooks
BY InitWaits, NextKeepsWaits, PTL DEF Spec

(* A caller of async_wait_for_device_characteristics that waits is on      *)
(* record, and a timer will answer it once something was reported for it.  *)
THEOREM NoWaitIsForgotten == Spec => []NoWaitForgotten
<1>1. WaitBooks => NoWaitForgotten
  <2> SUFFICES ASSUME WaitBooks, NEW w \in Wait, wait[w].at = "waiting"
               PROVE  /\ w \in waiters[wait[w].origin]
                      /\ wait[w].heard # {} => timer[wait[w].origin] # "off"
    BY DEF NoWaitForgotten
  <2> QED  BY WaitKinds DEF WaitBooks, Listed, Timed
<1> QED  BY <1>1, WaitBooksHold, PTL

(* The books of waits and the cache agree.                                 *)
THEOREM CacheBooksHold == Spec => []CacheBooks
<1>1. Init => CacheBooks
  BY DEF Init, CacheBooks, HeardAll, NoWait
<1> QED  BY <1>1, NextKeepsCache, WaitBooksHold, PTL DEF Spec

(* What the cache has of a source, the AP has reported over the link that  *)
(* is up: a connect does not find the list of an earlier one.  Excepted    *)
(* are reports that were in hand when their link was lost.                 *)
THEOREM CacheFollowsTheLink == Spec => []CacheFollowsLink
<1>1. Init => LinkBooks
  BY DEF Init, LinkBooks, Known, ToSet
<1>2. LinkBooks => CacheFollowsLink
  BY DEF LinkBooks, CacheFollowsLink, Current
<1> QED  BY <1>1, <1>2, NextKeepsLinks, PTL DEF Spec

(* The timer's answer, to a caller something was reported for, comes after *)
(* the burst and has all that was reported for it and not forgotten.       *)
THEOREM WholeBurstIsTold == Spec => WholeBurst
<1>1. WaitBooks /\ CacheBooks /\ [Next]_vars => [SettlesAfterBurst]_vars
  <2> SUFFICES ASSUME WaitBooks, CacheBooks, [Next]_vars, NEW w \in Wait,
                      wait[w].at = "waiting", wait'[w].at = "settled", wait[w].heard # {}
               PROVE  /\ \A s \in SourcesOf(wait[w].origin) : ~ InProgress(s)
                      /\ wait'[w].found \in {Extent(wait[w].heard), "all"}
    BY DEF SettlesAfterBurst
  <2>2. PICK o \in Origin : TimerFires(o)
    BY SettledByTimer
  <2>3. wait' = Answer(Unanswered(o), "settled", Settled(o))
    BY <2>2 DEF TimerFires
  <2>4. w \in Unanswered(o)
    BY <2>3 DEF Answer
  <2>5. wait[w].origin = o
    BY <2>4 DEF Unanswered, WaitBooks, Listed
  <2>6. wait[w].heard = CharacteristicsFrom(o)
    BY <2>5 DEF CacheBooks, HeardAll
  <2>7. Settled(o) = wait[w].heard
    BY <2>6 DEF Settled
  <2>8. wait'[w].found = Extent(Settled(o))
    BY <2>3, <2>4 DEF Answer, NoWait
  <2>9. timer[o] = "fresh"
    BY <2>5 DEF WaitBooks, Timed
  <2> QED  BY <2>2, <2>5, <2>7, <2>8, <2>9 DEF TimerFires
<1> QED  BY <1>1, WaitBooksHold, CacheBooksHold, PTL DEF Spec, WholeBurst

(* A read that the AP has granted and that has no answer is on record, and *)
(* its device is linked: it ends with a value, or at once when the link is *)
(* lost.                                                                   *)
THEOREM NoReadIsInVain == Spec => []NoReadInVain
<1>1. Init => ReadBooks
  BY DEF Init, ReadBooks, OnRecord, NoReadInVain, Reads, NoRead
<1>2. ReadBooks => NoReadInVain
  BY DEF ReadBooks
<1> QED  BY <1>1, <1>2, NextKeepsReads, PTL DEF Spec

=============================================================================
