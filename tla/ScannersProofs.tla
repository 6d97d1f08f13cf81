--------------------------- MODULE ScannersProofs ---------------------------
(***************************************************************************)
(* Scanners, for any number of APs, connections and models.                *)
(***************************************************************************)
EXTENDS Scanners, TLAPS

Phase == {"down", "starting", "up", "stopping", "ending", "stuck", "removed"}
Place == {"closed", "idle", "lock", "flow", "update"}
Names == {DefaultModel} \cup Model

(* TypeOK without the entry's phase and the numbers *)
Types ==
  /\ phase \in Phase
  /\ receiver \in {"none", "binding", "serving", "failed"}
  /\ scanners \subseteq Source /\ active \subseteq Source /\ leaving \subseteq Source
  /\ crossed \subseteq Source /\ stale \subseteq Source
  /\ sourceModel \in [Source -> {None} \cup Names]
  /\ entryModel \in [Source -> {None} \cup Names]
  /\ at \in [Conn -> Place]
  /\ asked \in [Conn -> {None} \cup Names]
  /\ \A c \in Conn : asked[c] # None <=> at[c] \in {"flow", "update"}
  /\ route \in [Source -> {None} \cup Conn]
  /\ \A s \in Source : route[s] # None => SourceOf[route[s]] = s
  /\ registered \in [Source -> Nat] /\ left \in [Source -> Nat]
  /\ untidy \in BOOLEAN

(* A connection is read only while the receiver serves, and a message that *)
(* waits has named a model.  An entry that is down has nothing.            *)
Serving ==
  /\ \A c \in Conn : at[c] # "closed" => receiver = "serving"
  /\ \A c \in Conn : at[c] \notin {"closed", "idle"} => sourceModel[SourceOf[c]] # None
  /\ \A s \in scanners : sourceModel[s] # None
  /\ phase \in {"down", "stuck", "removed"} => receiver = "none" /\ scanners = {}

Base == Types /\ Serving /\ RegisteredAreKnown

-----------------------------------------------------------------------------

LEMMA BaseInit == Init => Base
<1> SUFFICES ASSUME Init PROVE Base
  OBVIOUS
<1>1. Types
  BY SourceOfAssumption, ModelAssumption DEF Init, Types, Phase, Place, Names
<1>2. Serving
  BY DEF Init, Serving
<1>3. RegisteredAreKnown
  BY DEF Init, RegisteredAreKnown, One
<1> QED  BY <1>1, <1>2, <1>3 DEF Base

LEMMA LearntIsNamed ==
  ASSUME Base, NEW s \in Source, NEW m \in Names
  PROVE  Learnt(s, m) \in Names
  BY ModelAssumption DEF Base, Types, Learnt, Names

LEMMA MessageKeepsBase ==
  ASSUME Base, NEW c \in Conn, NEW m \in Names, Message(c, m)
  PROVE  Base'
<1> DEFINE s == SourceOf[c]
<1>0. s \in Source /\ Learnt(s, m) \in Names /\ None \notin Names /\ None \notin Conn
  BY LearntIsNamed, SourceOfAssumption, ModelAssumption DEF Names
<1>1. Types'
  BY <1>0, SMTT(60) DEF Base, Types, Message, UpdatesModel, Creates, CreateScanner, RolledBack, Attempt, One, Handled, Reports, Phase, Place, devices, homeAssistant, HasEntry
<1>2. Serving'
  BY <1>0, SMTT(60) DEF Base, Types, Serving, Message, UpdatesModel, Creates, CreateScanner, RolledBack, Attempt, One, Handled, Phase, Place, devices, homeAssistant, HasEntry
<1>3. RegisteredAreKnown'
  BY <1>0, SMTT(60) DEF Base, Types, RegisteredAreKnown, Message, UpdatesModel, Creates, CreateScanner, RolledBack, Attempt, One, homeAssistant
<1> QED  BY <1>1, <1>2, <1>3 DEF Base

LEMMA LockTurnKeepsBase ==
  ASSUME Base, NEW c \in Conn, LockTurn(c)
  PROVE  Base'
<1>0. SourceOf[c] \in Source /\ sourceModel[SourceOf[c]] \in Names /\ None \notin Names /\ None \notin Conn
  BY SourceOfAssumption, ModelAssumption DEF Base, Types, Serving, Names, LockTurn
<1>1. Types'
  BY <1>0, SMTT(60) DEF Base, Types, LockTurn, Creates, CreateScanner, RolledBack, Attempt, One, Handled, Reports, Phase, Place, devices, homeAssistant, life, HasEntry
<1>2. Serving'
  BY <1>0, SMTT(60) DEF Base, Types, Serving, LockTurn, Creates, CreateScanner, RolledBack, Attempt, One, Handled, Phase, Place, devices, homeAssistant, life, HasEntry
<1>3. RegisteredAreKnown'
  BY <1>0, SMTT(60) DEF Base, Types, RegisteredAreKnown, LockTurn, Creates, CreateScanner, RolledBack, Attempt, One, homeAssistant, life
<1> QED  BY <1>1, <1>2, <1>3 DEF Base

(* A scanner is created only where there is none, see below. *)
LEMMA FlowEndsKeepsBase ==
  ASSUME Base, NEW c \in Conn, FlowEnds(c), SourceOf[c] \notin scanners
  PROVE  Base'
<1>0. SourceOf[c] \in Source /\ sourceModel[SourceOf[c]] # None /\ asked[c] \in Names /\ None \notin Names /\ None \notin Conn
  BY SourceOfAssumption, ModelAssumption DEF Base, Types, Serving, Names, FlowEnds
<1>1. Types'
  BY <1>0, SMTT(60) DEF Base, Types, FlowEnds, FlowResult, CreateScanner, RolledBack, Attempt, One, Handled, Reports, Phase, Place, devices, life
<1>2. Serving'
  BY <1>0, SMTT(60) DEF Base, Types, Serving, FlowEnds, FlowResult, CreateScanner, RolledBack, Attempt, One, Handled, Phase, Place, life
<1>3. RegisteredAreKnown'
  BY <1>0, SMTT(60) DEF Base, Types, RegisteredAreKnown, FlowEnds, CreateScanner, RolledBack, Attempt, One, life
<1> QED  BY <1>1, <1>2, <1>3 DEF Base

LEMMA UpdateEndsKeepsBase ==
  ASSUME Base, NEW c \in Conn, UpdateEnds(c)
  PROVE  Base'
<1>0. SourceOf[c] \in Source /\ asked[c] \in Names /\ None \notin Names /\ None \notin Conn
  BY SourceOfAssumption, ModelAssumption DEF Base, Types, Names, UpdateEnds
<1>1. Types'
  BY <1>0, SMTT(60) DEF Base, Types, UpdateEnds, FlowResult, Handled, Reports, Phase, Place, devices, life
<1>2. Serving'
  BY <1>0, SMTT(60) DEF Base, Types, Serving, UpdateEnds, FlowResult, Handled, Phase, Place, life
<1>3. RegisteredAreKnown'
  BY <1>0, SMTT(60) DEF Base, RegisteredAreKnown, UpdateEnds, life
<1> QED  BY <1>1, <1>2, <1>3 DEF Base

LEMMA ConnectionsKeepBase ==
  ASSUME Base, NEW c \in Conn, Opens(c) \/ Closes(c)
  PROVE  Base'
<1>0. SourceOf[c] \in Source /\ None \notin Names /\ None \notin Conn
  BY SourceOfAssumption, ModelAssumption DEF Names
<1>1. Types'
  BY <1>0, SMTT(60) DEF Base, Types, Opens, Closes, Phase, Place, devices, life, runtimeVars, homeAssistant
<1>2. Serving'
  BY <1>0, SMTT(60) DEF Base, Types, Serving, Opens, Closes, Phase, Place, life, runtimeVars
<1>3. RegisteredAreKnown'
  BY DEF Base, RegisteredAreKnown, Opens, Closes, life, runtimeVars, homeAssistant
<1> QED  BY <1>1, <1>2, <1>3 DEF Base

LEMMA StartKeepsBase ==
  ASSUME Base, Start
  PROVE  Base'
<1>1. Types'
  BY SMTT(60) DEF Base, Types, Start, One, RolledBack, Attempt, Phase, Place, devices, handling
<1>2. Serving'
  BY SMTT(60) DEF Base, Types, Serving, Start, HasEntry, handling
<1>3. RegisteredAreKnown'
  BY SMTT(60) DEF Base, Types, Serving, RegisteredAreKnown, One, Start, RolledBack, Attempt
<1> QED  BY <1>1, <1>2, <1>3 DEF Base

LEMMA EndKeepsBase ==
  ASSUME Base, StartFails \/ Stopped
  PROVE  Base'
<1>0. left' \in [Source -> Nat]
  BY SMTT(60) DEF Base, Types, StartFails, Stopped, Gone, One
<1>1. phase' \in Phase /\ untidy' \in BOOLEAN
  BY DEF Base, Types, StartFails, Stopped, Phase
<1>2. Gone /\ sourceModel' \in [Source -> {None} \cup Names]
  BY DEF StartFails, Stopped, Gone
<1>3. Types'
  BY <1>0, <1>1, <1>2 DEF Base, Types, Gone, handling, homeAssistant
<1>4. Serving'
  BY SMTT(60) DEF Base, Types, Serving, StartFails, Stopped, Gone, handling, Place
<1>5. RegisteredAreKnown'
  BY SMTT(60) DEF Base, Types, RegisteredAreKnown, One, StartFails, Stopped, Gone, homeAssistant
<1> QED  BY <1>3, <1>4, <1>5 DEF Base

LEMMA UnregisterKeepsBase ==
  ASSUME Base, Unregister
  PROVE  Base'
<1>1. registered' \in [Source -> Nat] /\ RegisteredAreKnown'
  BY SMTT(60) DEF Base, Types, RegisteredAreKnown, One, Unregister
<1>2. Types'
  BY <1>1, SMTT(60) DEF Base, Types, Unregister, Phase, Place, handling, devices
<1>3. Serving'
  BY SMTT(60) DEF Base, Types, Serving, Unregister, handling
<1> QED  BY <1>1, <1>2, <1>3 DEF Base

LEMMA RestKeepsBase ==
  ASSUME Base,
         \/ \E o \in {"serving", "failed"} : Bound(o)
         \/ StartReturns \/ Stop \/ Removed
         \/ \E s \in Source : StopDisconnects(s) \/ EntryRemoved(s)
         \/ UNCHANGED vars
  PROVE  Base'
<1> USE DEF Base, Types, Serving, RegisteredAreKnown, Phase, Place, Names, handling, devices, homeAssistant, life, runtimeVars
<1>1. ASSUME NEW o \in {"serving", "failed"}, Bound(o) PROVE Base'
  BY <1>1 DEF Bound
<1>2. CASE StartReturns
  BY <1>2 DEF StartReturns
<1>3. CASE Stop
  BY <1>3 DEF Stop
<1>4. CASE Removed
  BY <1>4 DEF Removed
<1>5. ASSUME NEW s \in Source, StopDisconnects(s) PROVE Base'
  BY <1>5 DEF StopDisconnects
<1>6. ASSUME NEW s \in Source, EntryRemoved(s) PROVE Base'
  BY <1>6 DEF EntryRemoved
<1>7. CASE UNCHANGED vars
  BY <1>7 DEF vars
<1> QED  BY <1>1, <1>2, <1>3, <1>4, <1>5, <1>6, <1>7

-----------------------------------------------------------------------------

(* While a flow makes a scanner there is none, and no other flow does.     *)
Making ==
  /\ \A c \in Conn : at[c] = "flow" => SourceOf[c] \notin scanners
  /\ \A c, d \in Conn :
       at[c] = "flow" /\ at[d] = "flow" /\ SourceOf[c] = SourceOf[d] => c = d

(* What an entry or a flow has of a named model, the runtime has too, and  *)
(* only a flow that nothing can overtake was given the default.            *)
Naming ==
  /\ phase \in {"starting", "up", "stopping", "ending"} =>
       \A s \in Source : entryModel[s] \in Model => sourceModel[s] \in Model
  /\ \A c \in Conn : asked[c] \in Model => sourceModel[SourceOf[c]] \in Model
  /\ \A c \in Conn : at[c] = "update" => asked[c] \in Model
  /\ \A c, d \in Conn :
       at[c] = "flow" /\ at[d] = "update" /\ SourceOf[c] = SourceOf[d] => asked[c] \in Model
  /\ \A c \in Conn : at[c] = "flow" /\ entryModel[SourceOf[c]] \in Model => asked[c] \in Model

Books == Base /\ Making /\ Naming

LEMMA LearntStays ==
  ASSUME Base, NEW s \in Source, NEW m \in Names
  PROVE  /\ sourceModel[s] \in Model => Learnt(s, m) \in Model
         /\ sourceModel[s] # None /\ Learnt(s, m) # sourceModel[s] => Learnt(s, m) \in Model
  BY ModelAssumption DEF Base, Types, Learnt, Names

LEMMA BooksInit == Init => Books
<1> SUFFICES ASSUME Init PROVE Books
  OBVIOUS
<1>1. Making /\ Naming
  BY ModelAssumption, SourceOfAssumption DEF Init, Making, Naming
<1> QED  BY <1>1, BaseInit DEF Books

(* What a message may change, in the terms of Naming *)
LEMMA MessageKeepsMaking ==
  ASSUME Books, NEW c \in Conn, NEW m \in Names, Message(c, m)
  PROVE  Making'
  BY SourceOfAssumption, SMTT(60)
     DEF Books, Base, Types, Making, Message, UpdatesModel, Creates, CreateScanner, RolledBack, Attempt, One, Handled, Creating, homeAssistant, devices

LEMMA MessageKeepsNaming ==
  ASSUME Books, NEW c \in Conn, NEW m \in Names, Message(c, m)
  PROVE  Naming' /\ SavedModelStays
<1> DEFINE s == SourceOf[c]
<1>0. /\ s \in Source /\ Learnt(s, m) \in Names /\ None \notin Names /\ DefaultModel \notin Model
      /\ sourceModel[s] \in Model => Learnt(s, m) \in Model
      /\ sourceModel[s] # None /\ Learnt(s, m) # sourceModel[s] => Learnt(s, m) \in Model
  BY LearntIsNamed, LearntStays, SourceOfAssumption, ModelAssumption DEF Names, Books
<1>1. phase \in {"starting", "up", "stopping", "ending"}
  BY DEF Books, Base, Types, Serving, Message, Phase
<1>2. sourceModel' = [sourceModel EXCEPT ![s] = Learnt(s, m)] /\ sourceModel'[s] = Learnt(s, m)
  BY <1>0 DEF Books, Base, Types, Message
<1>3. CASE s \in scanners
  <2>1. sourceModel[s] # None /\ \A d \in Conn : SourceOf[d] = s => at[d] # "flow"
    BY <1>3 DEF Books, Base, Serving, Making
  <2>2. UpdatesModel(c)
    BY <1>3 DEF Message
  <2>3. CASE Learnt(s, m) # sourceModel[s] /\ ~ HasEntry(s)
    BY <1>0, <1>1, <1>2, <2>1, <2>2, <2>3, SMTT(60)
       DEF Books, Base, Types, Naming, UpdatesModel, SavedModelStays
  <2>4. CASE ~ (Learnt(s, m) # sourceModel[s] /\ ~ HasEntry(s))
    <3>1. /\ at' = [at EXCEPT ![c] = "idle"] /\ asked' = [asked EXCEPT ![c] = None]
          /\ entryModel' = IF Learnt(s, m) # sourceModel[s]
                           THEN [entryModel EXCEPT ![s] = Learnt(s, m)] ELSE entryModel
          /\ UNCHANGED phase
      BY <1>2, <2>2, <2>4 DEF UpdatesModel, Handled, Message
    <3>2. Naming'
      BY <1>0, <1>1, <1>2, <2>1, <3>1, SMTT(60) DEF Books, Base, Types, Naming
    <3>3. SavedModelStays
      BY <1>0, <1>1, <1>2, <2>1, <3>1, SMTT(60) DEF Books, Base, Types, Naming, SavedModelStays
    <3> QED  BY <3>2, <3>3
  <2> QED  BY <2>3, <2>4
<1>4. CASE s \notin scanners /\ Creating(s)
  BY <1>0, <1>1, <1>2, <1>4, SMTT(60)
     DEF Books, Base, Types, Naming, Message, SavedModelStays, homeAssistant
<1>5. CASE s \notin scanners /\ ~ Creating(s)
  <2>1. Creates(c) /\ \A d \in Conn : SourceOf[d] = s => at[d] # "flow"
    BY <1>5 DEF Message, Creating
  <2>2. CASE HasEntry(s)
    <3>1. /\ at' = [at EXCEPT ![c] = "idle"] /\ asked' = [asked EXCEPT ![c] = None]
          /\ entryModel' = [entryModel EXCEPT ![s] = Learnt(s, m)]
          /\ UNCHANGED phase
      BY <1>2, <2>1, <2>2 DEF Creates, Handled, Message
    <3>2. Naming'
      BY <1>0, <1>1, <1>2, <2>1, <3>1, SMTT(60) DEF Books, Base, Types, Naming
    <3>3. SavedModelStays
      BY <1>0, <1>1, <1>2, <2>1, <3>1, SMTT(60) DEF Books, Base, Types, Naming, SavedModelStays
    <3> QED  BY <3>2, <3>3
  <2>3. CASE ~ HasEntry(s)
    BY <1>0, <1>1, <1>2, <2>1, <2>3, ModelAssumption, SMTT(60)
       DEF Books, Base, Types, Naming, Creates, HasEntry, homeAssistant, SavedModelStays
  <2> QED  BY <2>2, <2>3
<1> QED  BY <1>3, <1>4, <1>5

(* A message is handled, with a name x written to its AP's entry or not. *)
LEMMA WrittenKeepsNaming ==
  ASSUME Books, NEW c \in Conn, NEW x \in Names,
         at' = [at EXCEPT ![c] = "idle"], asked' = [asked EXCEPT ![c] = None],
         UNCHANGED << sourceModel, phase >>,
         \/ UNCHANGED entryModel
         \/ entryModel' = [entryModel EXCEPT ![SourceOf[c]] = x],
         x \in Model => sourceModel[SourceOf[c]] \in Model,
         entryModel[SourceOf[c]] \in Model => x \in Model,
         \A d \in Conn : SourceOf[d] = SourceOf[c] /\ d # c /\ at[d] = "flow" => asked[d] \in Model
  PROVE  Naming' /\ SavedModelStays
<1> DEFINE s == SourceOf[c]
<1>0. s \in Source /\ None \notin Names /\ None \notin Model /\ DefaultModel \notin Model
  BY SourceOfAssumption, ModelAssumption DEF Names
<1>1. /\ \A r \in Source : r # s => entryModel'[r] = entryModel[r]
      /\ entryModel'[s] \in {entryModel[s], x}
  BY <1>0 DEF Books, Base, Types
<1>2. /\ \A d \in Conn : d # c => at'[d] = at[d] /\ asked'[d] = asked[d]
      /\ at'[c] = "idle" /\ asked'[c] = None
  BY DEF Books, Base, Types
<1>3. \A d \in Conn : SourceOf[d] \in Source
  BY SourceOfAssumption
<1>4. Naming'
  BY <1>0, <1>1, <1>2, <1>3 DEF Books, Naming
<1>5. SavedModelStays
  BY <1>0, <1>1 DEF Books, SavedModelStays
<1> QED  BY <1>4, <1>5

LEMMA LockTurnKeepsBooks ==
  ASSUME Books, NEW c \in Conn, LockTurn(c)
  PROVE  Books' /\ SavedModelStays
<1> DEFINE s == SourceOf[c]
<1>0. /\ s \in Source /\ sourceModel[s] \in Names /\ None \notin Names /\ DefaultModel \notin Model
      /\ UNCHANGED << sourceModel, phase >>
      /\ \A d \in Conn : SourceOf[d] = s => at[d] # "flow"
  BY SourceOfAssumption, ModelAssumption DEF Books, Base, Types, Serving, Names, LockTurn, Creating, life
<1>1. phase \in {"starting", "up", "stopping", "ending"}
  BY DEF Books, Base, Types, Serving, LockTurn, Phase
<1>2. Making'
  BY <1>0, SMTT(60) DEF Books, Base, Types, Making, LockTurn, Creates, CreateScanner, RolledBack, Attempt, One, Handled, Creating, homeAssistant, devices
<1>3. ASSUME s \in scanners \/ HasEntry(s) PROVE Naming' /\ SavedModelStays
  <2>1. /\ at' = [at EXCEPT ![c] = "idle"] /\ asked' = [asked EXCEPT ![c] = None]
        /\ UNCHANGED entryModel \/ entryModel' = [entryModel EXCEPT ![s] = sourceModel[s]]
    BY <1>0, <1>3 DEF LockTurn, Creates, Handled, homeAssistant
  <2>2. entryModel[s] \in Model => sourceModel[s] \in Model
    BY <1>0, <1>1 DEF Books, Naming
  <2> QED  BY <1>0, <2>1, <2>2, WrittenKeepsNaming
<1>4. ASSUME s \notin scanners, ~ HasEntry(s) PROVE Naming' /\ SavedModelStays
  <2>1. /\ at' = [at EXCEPT ![c] = "flow"] /\ asked' = [asked EXCEPT ![c] = sourceModel[s]]
        /\ UNCHANGED entryModel /\ entryModel[s] = None
    BY <1>0, <1>4 DEF LockTurn, Creates, HasEntry, homeAssistant
  <2>2. Naming'
    BY <1>0, <1>1, <2>1, ModelAssumption, SMTT(60) DEF Books, Base, Types, Naming
  <2>3. SavedModelStays
    BY <1>0, <2>1 DEF SavedModelStays
  <2> QED  BY <2>2, <2>3
<1> QED  BY <1>2, <1>3, <1>4, LockTurnKeepsBase DEF Books

LEMMA FlowEndsKeepsBooks ==
  ASSUME Books, NEW c \in Conn, FlowEnds(c)
  PROVE  Books' /\ SavedModelStays
<1> DEFINE s == SourceOf[c]
<1>0. /\ s \in Source /\ s \notin scanners /\ asked[c] \in Names
      /\ \A d \in Conn : SourceOf[d] = s /\ d # c => at[d] # "flow"
  BY SourceOfAssumption, ModelAssumption DEF Books, Base, Types, Making, Names, FlowEnds
<1>1. /\ at[c] = "flow" /\ at' = [at EXCEPT ![c] = "idle"] /\ asked' = [asked EXCEPT ![c] = None]
      /\ UNCHANGED << sourceModel, phase >>
      /\ UNCHANGED entryModel \/ entryModel' = [entryModel EXCEPT ![s] = asked[c]]
  BY DEF FlowEnds, FlowResult, Handled, life
<1>2. Making'
  BY <1>0, <1>1, SMTT(60) DEF Books, Base, Types, Making, FlowEnds, CreateScanner, RolledBack, Attempt, One
<1>3. /\ asked[c] \in Model => sourceModel[s] \in Model
      /\ entryModel[s] \in Model => asked[c] \in Model
  BY <1>1 DEF Books, Naming
<1>4. Naming' /\ SavedModelStays
  BY <1>0, <1>1, <1>3, WrittenKeepsNaming
<1> QED  BY <1>0, <1>2, <1>4, FlowEndsKeepsBase DEF Books

LEMMA UpdateEndsKeepsBooks ==
  ASSUME Books, NEW c \in Conn, UpdateEnds(c)
  PROVE  Books' /\ SavedModelStays
<1> DEFINE s == SourceOf[c]
<1>0. asked[c] \in Model /\ sourceModel[s] \in Model /\ asked[c] \in Names
  BY DEF Books, Naming, Names, UpdateEnds
<1>1. /\ at[c] = "update" /\ at' = [at EXCEPT ![c] = "idle"] /\ asked' = [asked EXCEPT ![c] = None]
      /\ UNCHANGED << sourceModel, phase, scanners >>
      /\ UNCHANGED entryModel \/ entryModel' = [entryModel EXCEPT ![s] = asked[c]]
  BY DEF UpdateEnds, FlowResult, Handled, life
<1>2. Making'
  BY <1>1, SMTT(60) DEF Books, Base, Types, Making
<1>3. \A d \in Conn : SourceOf[d] = s /\ at[d] = "flow" => asked[d] \in Model
  BY <1>1 DEF Books, Naming
<1>4. Naming' /\ SavedModelStays
  BY <1>0, <1>1, <1>3, WrittenKeepsNaming
<1> QED  BY <1>2, <1>4, UpdateEndsKeepsBase DEF Books

LEMMA ConnectionsKeepBooks ==
  ASSUME Books, NEW c \in Conn, Opens(c) \/ Closes(c)
  PROVE  Books' /\ SavedModelStays
<1>1. /\ at' \in {[at EXCEPT ![c] = "idle"], [at EXCEPT ![c] = "closed"]}
      /\ UNCHANGED << asked, sourceModel, entryModel, phase, scanners >>
  BY DEF Opens, Closes, life, runtimeVars, homeAssistant
<1>2. Making' /\ Naming'
  BY <1>1, SMTT(60) DEF Books, Base, Types, Making, Naming
<1>3. SavedModelStays
  BY <1>1, ModelAssumption DEF SavedModelStays
<1> QED  BY <1>2, <1>3, ConnectionsKeepBase DEF Books

(* The steps of the entry between which no message is handled *)
LEMMA LifeKeepsBooks ==
  ASSUME Books, Start \/ StartFails \/ Stopped
  PROVE  Books' /\ SavedModelStays
<1>0. UNCHANGED << at, asked, entryModel >> /\ \A c \in Conn : at[c] = "closed"
  BY DEF Books, Base, Serving, Types, Start, StartFails, Stopped, Gone, handling, homeAssistant
<1>1. \A c \in Conn : asked[c] = None
  BY <1>0 DEF Books, Base, Types
<1>2. Making'
  BY <1>0 DEF Making
<1>3. Naming'
  BY <1>0, <1>1, ModelAssumption DEF Naming, Start, StartFails, Stopped
<1>4. SavedModelStays
  BY <1>0, ModelAssumption DEF SavedModelStays
<1> QED  BY <1>2, <1>3, <1>4, StartKeepsBase, EndKeepsBase DEF Books

LEMMA RestKeepsBooks ==
  ASSUME Books,
         \/ \E o \in {"serving", "failed"} : Bound(o)
         \/ StartReturns \/ Stop \/ Removed \/ Unregister
         \/ \E s \in Source : StopDisconnects(s) \/ EntryRemoved(s)
         \/ UNCHANGED vars
  PROVE  Books' /\ SavedModelStays
<1>1. /\ UNCHANGED << at, asked, sourceModel >>
      /\ scanners' \in {scanners, {}}
      /\ \/ UNCHANGED entryModel /\ (phase' # phase => phase \in {"starting", "up", "stopping"})
         \/ \E s \in Source : entryModel' = [entryModel EXCEPT ![s] = None] /\ UNCHANGED phase
         \/ entryModel' = [s \in Source |-> None]
  BY DEF Bound, StartReturns, Stop, Removed, Unregister, StopDisconnects, EntryRemoved,
         handling, devices, homeAssistant, life, runtimeVars, vars
<1>2. Making'
  BY <1>1 DEF Books, Making
<1>3. /\ \A s \in Source : entryModel'[s] \in {entryModel[s], None}
      /\ None \notin Model /\ DefaultModel \notin Model /\ None # DefaultModel
      /\ \A c \in Conn : SourceOf[c] \in Source
  BY <1>1, ModelAssumption, SourceOfAssumption DEF Books, Base, Types
<1>4. phase' \in {"starting", "up", "stopping", "ending"} =>
        phase \in {"starting", "up", "stopping", "ending"} \/ \A s \in Source : entryModel'[s] = None
  BY <1>1
<1>5. Naming'
  BY <1>1, <1>3, <1>4 DEF Books, Naming
<1>6. SavedModelStays
  BY <1>3 DEF SavedModelStays
<1> QED  BY <1>2, <1>5, <1>6, RestKeepsBase, UnregisterKeepsBase DEF Books

LEMMA NextKeepsBooks == Books /\ [Next]_vars => Books' /\ SavedModelStays
<1> SUFFICES ASSUME Books, [Next]_vars PROVE Books' /\ SavedModelStays
  OBVIOUS
<1>1. ASSUME NEW c \in Conn, NEW m \in Model \cup {DefaultModel}, Message(c, m)
      PROVE  Books' /\ SavedModelStays
  <2>1. m \in Names
    BY DEF Names
  <2> QED  BY <1>1, <2>1, MessageKeepsBase, MessageKeepsMaking, MessageKeepsNaming DEF Books
<1>2. ASSUME NEW c \in Conn, Opens(c) \/ Closes(c) \/ LockTurn(c) \/ FlowEnds(c) \/ UpdateEnds(c)
      PROVE  Books' /\ SavedModelStays
  BY <1>2, ConnectionsKeepBooks, LockTurnKeepsBooks, FlowEndsKeepsBooks, UpdateEndsKeepsBooks
<1>3. CASE \/ Start \/ \E o \in {"serving", "failed"} : Bound(o)
           \/ StartReturns \/ StartFails \/ Stop \/ Unregister \/ Stopped \/ Removed
           \/ \E s \in Source : StopDisconnects(s) \/ EntryRemoved(s)
           \/ UNCHANGED vars
  BY <1>3, LifeKeepsBooks, RestKeepsBooks
<1> QED  BY <1>1, <1>2, <1>3 DEF Next

-----------------------------------------------------------------------------
(* What is left behind *)

(* Until something goes untidily, a runtime that is gone has left nothing, *)
(* and nothing is under way that could register a scanner once those there *)
(* were are unregistered.                                                  *)
Tidy ==
  ~ untidy => /\ \A s \in Source : left[s] = 0
              /\ phase = "ending" => scanners = {} /\ Busy = {}

LEMMA MessageKeepsTidy ==
  ASSUME Tidy, NEW c \in Conn, NEW m, Message(c, m)
  PROVE  Tidy'
  BY DEF Tidy, Message

LEMMA WaitingIsUntidy ==
  ASSUME Base, Tidy, NEW c \in Conn, LockTurn(c) \/ FlowEnds(c) \/ UpdateEnds(c)
  PROVE  Tidy'
<1>1. c \in Busy /\ UNCHANGED << phase, left, untidy >>
  BY DEF LockTurn, FlowEnds, UpdateEnds, Busy, life
<1> QED  BY <1>1 DEF Tidy

LEMMA ConnectionsKeepTidy ==
  ASSUME Base, Tidy, NEW c \in Conn, Opens(c) \/ Closes(c)
  PROVE  Tidy'
<1>1. UNCHANGED << phase, left, untidy, scanners >>
  BY DEF Opens, Closes, life, runtimeVars
<1>2. Busy' \subseteq Busy
  BY DEF Base, Types, Busy, Opens, Closes
<1> QED  BY <1>1, <1>2 DEF Tidy

LEMMA LifeKeepsTidy ==
  ASSUME Base, Tidy,
         \/ Start \/ \E o \in {"serving", "failed"} : Bound(o)
         \/ StartReturns \/ StartFails \/ Stop \/ Unregister \/ Removed
         \/ \E s \in Source : StopDisconnects(s) \/ EntryRemoved(s)
         \/ UNCHANGED vars
  PROVE  Tidy'
<1>1. CASE Unregister
  <2>1. UNCHANGED << at, left >> /\ scanners' = {} /\ (~ untidy' => ~ untidy /\ Busy = {})
    BY <1>1 DEF Unregister, handling
  <2>2. Busy' = Busy
    BY <2>1 DEF Busy
  <2> QED  BY <2>1, <2>2 DEF Tidy
<1>2. CASE StartFails
  BY <1>2 DEF StartFails, Tidy
<1>3. CASE Start \/ StartReturns \/ Stop \/ Removed
  BY <1>3 DEF Start, StartReturns, Stop, Removed, Tidy
<1>4. CASE \/ \E o \in {"serving", "failed"} : Bound(o)
           \/ \E s \in Source : StopDisconnects(s) \/ EntryRemoved(s)
           \/ UNCHANGED vars
  <2>1. UNCHANGED << phase, left, untidy, scanners, at >>
    BY <1>4 DEF Bound, StopDisconnects, EntryRemoved, life, runtimeVars, handling, vars
  <2>2. Busy' = Busy
    BY <2>1 DEF Busy
  <2> QED  BY <2>1, <2>2 DEF Tidy
<1> QED  BY <1>1, <1>2, <1>3, <1>4

LEMMA StoppedKeepsTidy ==
  ASSUME Base, Tidy, Stopped
  PROVE  Tidy'
<1>1. phase = "ending" /\ phase' # "ending" /\ untidy' = untidy
  BY DEF Stopped
<1>2. ASSUME ~ untidy, NEW s \in Source PROVE left'[s] = 0
  <2>1. scanners = {} /\ left[s] = 0
    BY <1>1, <1>2 DEF Tidy
  <2> QED  BY <2>1 DEF Stopped, Gone, One
<1> QED  BY <1>1, <1>2 DEF Tidy

LEMMA NextKeepsTidy == Base /\ Tidy /\ [Next]_vars => Tidy'
<1> SUFFICES ASSUME Base, Tidy, [Next]_vars PROVE Tidy'
  OBVIOUS
<1> QED  BY MessageKeepsTidy, WaitingIsUntidy, ConnectionsKeepTidy, LifeKeepsTidy,
            StoppedKeepsTidy DEF Next

LEMMA TidyIsClean == Base /\ Tidy => CleanUnload
<1> SUFFICES ASSUME Base, Tidy, phase \in {"down", "stuck", "removed"}, ~ untidy, NEW s \in Source
             PROVE  registered[s] = 0
  BY DEF CleanUnload
<1>1. s \notin scanners /\ left[s] = 0
  BY DEF Base, Serving, Tidy
<1> QED  BY <1>1 DEF Base, RegisteredAreKnown, One

-----------------------------------------------------------------------------
(* Active devices and routes *)

LEMMA ReportsKeepRoutes ==
  ASSUME Base, ActiveHasRoute, NEW c \in Conn, Reports(c),
         route' = route \/ route' = [route EXCEPT ![SourceOf[c]] = c]
  PROVE  ActiveHasRoute'
<1>1. SourceOf[c] \in Source /\ c # None
  BY SourceOfAssumption, ModelAssumption
<1>2. \A s \in Source : route[s] # None => route'[s] # None
  BY <1>1 DEF Base, Types
<1>3. ASSUME NEW s \in active', s \notin stale' PROVE route'[s] # None
  <2>1. CASE s \in active /\ s \notin stale
    BY <1>2, <2>1 DEF ActiveHasRoute, Base, Types
  <2>2. CASE ~ (s \in active /\ s \notin stale)
    <3>1. s = SourceOf[c] /\ route'[s] = c
      BY <1>3, <2>2 DEF Reports, devices
    <3> QED  BY <1>1, <3>1
  <2> QED  BY <2>1, <2>2
<1> QED  BY <1>3 DEF ActiveHasRoute

LEMMA NextKeepsRoutes == Base /\ ActiveHasRoute /\ [Next]_vars => ActiveHasRoute'
<1> SUFFICES ASSUME Base, ActiveHasRoute, [Next]_vars PROVE ActiveHasRoute'
  OBVIOUS
<1>1. ASSUME NEW c \in Conn, NEW m \in Model \cup {DefaultModel}, Message(c, m)
      PROVE  ActiveHasRoute'
  <2>1. route' = [route EXCEPT ![SourceOf[c]] = c] /\ (Reports(c) \/ UNCHANGED devices)
    BY <1>1 DEF Message, UpdatesModel, Creates, Handled
  <2>2. UNCHANGED devices => Reports(c)
    BY DEF Reports
  <2> QED  BY <2>1, <2>2, ReportsKeepRoutes
<1>2. ASSUME NEW c \in Conn, LockTurn(c) \/ FlowEnds(c) \/ UpdateEnds(c)
      PROVE  ActiveHasRoute'
  <2>1. route' = route /\ (Reports(c) \/ UNCHANGED devices)
    BY <1>2 DEF LockTurn, FlowEnds, UpdateEnds, Creates, Handled
  <2>2. UNCHANGED devices => Reports(c)
    BY DEF Reports
  <2> QED  BY <2>1, <2>2, ReportsKeepRoutes
<1>3. ASSUME NEW c \in Conn, Opens(c) \/ Closes(c)
      PROVE  ActiveHasRoute'
  <2>1. SourceOf[c] \in Source
    BY SourceOfAssumption
  <2>2. active' \ stale' \subseteq active \ stale
    BY <1>3 DEF Opens, Closes, devices
  <2>3. ASSUME NEW s \in active' \ stale' PROVE route'[s] = route[s]
    BY <1>3, <2>1, <2>3 DEF Opens, Closes, Base, Types
  <2> QED  BY <2>2, <2>3 DEF ActiveHasRoute
<1>4. CASE \/ Start \/ \E o \in {"serving", "failed"} : Bound(o)
           \/ StartReturns \/ StartFails \/ Stop \/ Unregister \/ Stopped \/ Removed
           \/ \E s \in Source : StopDisconnects(s) \/ EntryRemoved(s)
           \/ UNCHANGED vars
  <2>1. route' = route
    BY <1>4 DEF Start, Bound, StartReturns, StartFails, Stop, Unregister, Stopped, Gone, Removed,
                StopDisconnects, EntryRemoved, handling, vars
  <2>2. active' \ stale' \subseteq active \ stale
    BY <1>4 DEF Start, Bound, StartReturns, StartFails, Stop, Unregister, Stopped, Gone, Removed,
                StopDisconnects, EntryRemoved, devices, vars
  <2> QED  BY <2>1, <2>2 DEF ActiveHasRoute
<1> QED  BY <1>1, <1>2, <1>3, <1>4 DEF Next

-----------------------------------------------------------------------------
(* Theorems *)

(* Scanners, models, messages in hand and the configured entries stay in   *)
(* step, whatever happens to connections, flows and the listener.          *)
THEOREM BooksHold == Spec => []Books
<1>1. Init => Books
  BY BooksInit
<1>2. Books /\ [Next]_vars => Books'
  BY NextKeepsBooks
<1> QED  BY <1>1, <1>2, PTL DEF Spec

(* Each variable has its values. *)
THEOREM ScannersTypeOK == Spec => []TypeOK
<1>1. Books => TypeOK
  BY SMTT(60) DEF Books, Base, Types, TypeOK, Phase, Place, Names
<1> QED  BY <1>1, BooksHold, PTL

(* One scanner per source, and the runtime can unregister it: the double   *)
(* check around the create lock and the rollback of a half registration.   *)
THEOREM ScannersAreKnown == Spec => []RegisteredAreKnown
<1>1. Books => RegisteredAreKnown
  BY DEF Books, Base
<1> QED  BY <1>1, BooksHold, PTL

(* The default model never replaces the one saved in an AP's entry.        *)
THEOREM SavedModelsAreKept == Spec => SavedModelsStay
<1>1. Books /\ [Next]_vars => [SavedModelStays]_vars
  BY NextKeepsBooks
<1> QED  BY <1>1, BooksHold, PTL DEF Spec, SavedModelsStay

(* Unloading leaves no scanner behind, but for failed starts and messages  *)
(* that outlive the unregistering.                                         *)
THEOREM UnloadIsClean == Spec => []CleanUnload
<1>1. Init => Tidy
  BY DEF Init, Tidy
<1>2. Books => Base
  BY DEF Books
<1> QED  BY <1>1, <1>2, BooksHold, NextKeepsTidy, TidyIsClean, PTL DEF Spec

(* Active devices have routes, but where a message was overtaken.          *)
THEOREM ActiveDevicesHaveRoutes == Spec => []ActiveHasRoute
<1>1. Init => ActiveHasRoute
  BY DEF Init, ActiveHasRoute
<1>2. Books => Base
  BY DEF Books
<1> QED  BY <1>1, <1>2, BooksHold, NextKeepsRoutes, PTL DEF Spec

-----------------------------------------------------------------------------
(* What the config entries have, when each AP names one model: an update   *)
(* was given the name, and so was the flow of an entry, unless the model   *)
(* was learnt meanwhile.  Until then the entry has nothing else.           *)
Saving(ModelOf) ==
  /\ \A c \in Conn : at[c] = "update" =>
       asked[c] = ModelOf[SourceOf[c]] /\ sourceModel[SourceOf[c]] = ModelOf[SourceOf[c]]
  /\ \A c \in Conn : at[c] = "flow" /\ SourceOf[c] \notin crossed =>
       /\ asked[c] = sourceModel[SourceOf[c]]
       /\ entryModel[SourceOf[c]] \in {None, sourceModel[SourceOf[c]]}
  /\ \A s \in scanners \ crossed : entryModel[s] \in {None, sourceModel[s]}

(* Each AP names its one model, or none. *)
NamesOne(ModelOf) ==
  \A c \in Conn : \A m \in Model : Message(c, m) => m = ModelOf[SourceOf[c]]

LEMMA MessageKeepsSaving ==
  ASSUME NEW ModelOf \in [Source -> Model], Books, Saving(ModelOf), NamesOne(ModelOf),
         NEW c \in Conn, NEW m \in Names, Message(c, m)
  PROVE  Saving(ModelOf)'
<1> DEFINE s == SourceOf[c]
<1>0. /\ s \in Source /\ Learnt(s, m) \in Names /\ None \notin Names
      /\ Learnt(s, m) # sourceModel[s] => sourceModel[s] = None \/ Learnt(s, m) = ModelOf[s]
      /\ \A d \in Conn : SourceOf[d] \in Source
  <2>1. m # DefaultModel => m = ModelOf[s]
    BY DEF Names, NamesOne
  <2>2. s \in Source /\ Learnt(s, m) \in Names /\ None \notin Names /\ \A d \in Conn : SourceOf[d] \in Source
    BY LearntIsNamed, SourceOfAssumption, ModelAssumption DEF Names, Books
  <2> QED  BY <2>1, <2>2 DEF Learnt
<1>1. sourceModel' = [sourceModel EXCEPT ![s] = Learnt(s, m)] /\ sourceModel'[s] = Learnt(s, m)
  BY <1>0 DEF Books, Base, Types, Message
<1>2. crossed' = crossed \cup {x \in {s} : Creating(s) /\ Learnt(s, m) # sourceModel[s]}
  BY DEF Message
<1>3. \A d \in Conn : d # c => at'[d] = at[d] /\ asked'[d] = asked[d]
  BY DEF Message, UpdatesModel, Creates, Handled, Books, Base, Types
<1>4. \A d \in Conn : at[d] = "update" => sourceModel[SourceOf[d]] # None
  BY DEF Books, Base, Serving
<1>5. \A r \in Source : r # s => sourceModel'[r] = sourceModel[r] /\ entryModel'[r] = entryModel[r]
  BY <1>0, <1>1 DEF Message, UpdatesModel, Creates, Books, Base, Types, homeAssistant
<1>6. scanners' \subseteq scanners \cup {s}
  BY DEF Message, UpdatesModel, Creates, CreateScanner, RolledBack, Attempt, One, homeAssistant
<1>7. \/ at[c] = "idle" /\ s \in crossed'
      \/ ~ Creating(s)
      \/ Learnt(s, m) = sourceModel[s]
  BY <1>2 DEF Message
<1>8. /\ at'[c] = "update" => /\ asked'[c] = Learnt(s, m) /\ Learnt(s, m) # sourceModel[s]
                              /\ s \in scanners
      /\ at'[c] = "flow" => asked'[c] = Learnt(s, m) /\ entryModel'[s] = None
      /\ \/ entryModel'[s] = entryModel[s] /\ (s \in scanners' => s \in scanners /\ 
              (Learnt(s, m) = sourceModel[s] \/ entryModel[s] = None))
         \/ entryModel'[s] = Learnt(s, m)
  BY <1>0, <1>1, SMTT(60) DEF Message, UpdatesModel, Creates, CreateScanner, RolledBack, Attempt, One, Handled, Books, Base, Types, homeAssistant, HasEntry
<1>9. ASSUME NEW d \in Conn, at'[d] = "update"
      PROVE  asked'[d] = ModelOf[SourceOf[d]] /\ sourceModel'[SourceOf[d]] = ModelOf[SourceOf[d]]
  <2>1. CASE d = c
    <3>1. sourceModel[s] # None
      BY <1>8, <1>9, <2>1 DEF Books, Base, Serving
    <3> QED  BY <1>0, <1>1, <1>8, <1>9, <2>1, <3>1
  <2>2. CASE d # c
    BY <1>0, <1>1, <1>3, <1>4, <1>5, <1>9, <2>2 DEF Saving
  <2> QED  BY <2>1, <2>2
<1>10. ASSUME NEW d \in Conn, at'[d] = "flow", SourceOf[d] \notin crossed'
       PROVE  /\ asked'[d] = sourceModel'[SourceOf[d]]
              /\ entryModel'[SourceOf[d]] \in {None, sourceModel'[SourceOf[d]]}
  <2>1. CASE d = c
    BY <1>1, <1>8, <1>10, <2>1
  <2>2. CASE d # c /\ SourceOf[d] # s
    BY <1>0, <1>2, <1>3, <1>5, <1>10, <2>2 DEF Saving
  <2>3. CASE d # c /\ SourceOf[d] = s
    <3>1. Creating(s) /\ s \notin crossed /\ at[d] = "flow" /\ asked'[d] = asked[d]
      BY <1>2, <1>3, <1>10, <2>3 DEF Creating
    <3>2. Learnt(s, m) = sourceModel[s]
      BY <1>2, <1>10, <2>3, <3>1
    <3> QED  BY <1>1, <1>8, <2>3, <3>1, <3>2 DEF Saving
  <2> QED  BY <2>1, <2>2, <2>3
<1>11. ASSUME NEW r \in scanners', r \notin crossed'
       PROVE  entryModel'[r] \in {None, sourceModel'[r]}
  <2>1. CASE r # s
    <3>1. r \in scanners /\ r \in Source /\ r \notin crossed
      BY <1>2, <1>6, <1>11, <2>1 DEF Books, Base, Types
    <3> QED  BY <1>5, <2>1, <3>1 DEF Saving
  <2>2. CASE r = s
    BY <1>1, <1>2, <1>8, <1>11, <2>2 DEF Saving
  <2> QED  BY <2>1, <2>2
<1> QED  BY <1>9, <1>10, <1>11 DEF Saving

(* A message is handled; its AP's entry has got the runtime's model, or is *)
(* as it was.                                                              *)
LEMMA WaitingKeepsSaving ==
  ASSUME NEW ModelOf \in [Source -> Model], Books, Saving(ModelOf), NEW c \in Conn,
         LockTurn(c) \/ FlowEnds(c) \/ UpdateEnds(c)
  PROVE  Saving(ModelOf)'
<1> DEFINE s == SourceOf[c]
<1>1. /\ UNCHANGED << sourceModel, crossed >> /\ s \in Source
      /\ scanners' \in {scanners, scanners \cup {s}}
      /\ \A d \in Conn : d # c => at'[d] = at[d] /\ asked'[d] = asked[d]
      /\ \A r \in Source : r # s => entryModel'[r] = entryModel[r]
      /\ \A d \in Conn : SourceOf[d] \in Source
  BY SourceOfAssumption
     DEF LockTurn, FlowEnds, UpdateEnds, FlowResult, Creates, CreateScanner, RolledBack, Attempt, One, Handled, Books, Base, Types,
         homeAssistant
<1>2. s \notin crossed => /\ entryModel'[s] \in {entryModel[s], sourceModel[s]}
                          /\ s \in scanners' => entryModel'[s] \in {None, sourceModel[s]}
  <2>1. CASE LockTurn(c)
    BY <1>1, <2>1, SMTT(60)
       DEF LockTurn, Creates, CreateScanner, RolledBack, Attempt, One, Handled, Books, Base, Types, homeAssistant, Saving
  <2>2. CASE FlowEnds(c)
    BY <1>1, <2>2, SMTT(60) DEF FlowEnds, FlowResult, Books, Base, Types, Saving
  <2>3. CASE UpdateEnds(c)
    BY <1>1, <2>3, SMTT(60) DEF UpdateEnds, FlowResult, Books, Base, Types, Saving
  <2> QED  BY <2>1, <2>2, <2>3
<1>3. /\ at'[c] # "update"
      /\ at'[c] = "flow" => asked'[c] = sourceModel[s] /\ entryModel'[s] = None
  BY <1>1, SMTT(60)
     DEF LockTurn, FlowEnds, UpdateEnds, Creates, Handled, Books, Base, Types, homeAssistant, HasEntry
<1>4. \A d \in Conn : at'[d] = "update" =>
        asked'[d] = ModelOf[SourceOf[d]] /\ sourceModel'[SourceOf[d]] = ModelOf[SourceOf[d]]
  BY <1>1, <1>3 DEF Saving
<1>5. ASSUME NEW d \in Conn, at'[d] = "flow", SourceOf[d] \notin crossed'
      PROVE  /\ asked'[d] = sourceModel'[SourceOf[d]]
             /\ entryModel'[SourceOf[d]] \in {None, sourceModel'[SourceOf[d]]}
  <2>1. CASE d = c
    BY <1>1, <1>3, <1>5, <2>1
  <2>2. CASE d # c
    BY <1>1, <1>2, <1>5, <2>2 DEF Saving
  <2> QED  BY <2>1, <2>2
<1>6. \A r \in scanners' \ crossed' : entryModel'[r] \in {None, sourceModel'[r]}
  BY <1>1, <1>2 DEF Saving, Books, Base, Types
<1> QED  BY <1>4, <1>5, <1>6 DEF Saving

LEMMA LifeKeepsSaving ==
  ASSUME NEW ModelOf \in [Source -> Model], Books, Saving(ModelOf), Start \/ StartFails \/ Stopped
  PROVE  Saving(ModelOf)'
<1>1. /\ UNCHANGED at /\ \A c \in Conn : at[c] = "closed"
      /\ scanners' = {} \/ (sourceModel' = entryModel /\ entryModel' = entryModel)
  BY DEF Books, Base, Serving, Types, Start, StartFails, Stopped, Gone, handling, homeAssistant
<1> QED  BY <1>1 DEF Saving

LEMMA RestKeepsSaving ==
  ASSUME NEW ModelOf \in [Source -> Model], Books, Saving(ModelOf),
         \/ \E c \in Conn : Opens(c) \/ Closes(c)
         \/ \E o \in {"serving", "failed"} : Bound(o)
         \/ StartReturns \/ Stop \/ Removed \/ Unregister
         \/ \E s \in Source : StopDisconnects(s) \/ EntryRemoved(s)
         \/ UNCHANGED vars
  PROVE  Saving(ModelOf)'
<1>1. /\ UNCHANGED << asked, sourceModel, crossed >> /\ scanners' \subseteq scanners
      /\ \A c \in Conn : at'[c] \in {at[c], "idle", "closed"}
      /\ \A s \in Source : entryModel'[s] \in {entryModel[s], None}
  <2>1. CASE \E c \in Conn : Opens(c) \/ Closes(c)
    BY <2>1 DEF Opens, Closes, life, runtimeVars, homeAssistant, Books, Base, Types
  <2>2. CASE \/ \E o \in {"serving", "failed"} : Bound(o)
             \/ StartReturns \/ Stop \/ Removed \/ Unregister
             \/ \E s \in Source : StopDisconnects(s) \/ EntryRemoved(s)
             \/ UNCHANGED vars
    BY <2>2 DEF Bound, StartReturns, Stop, Removed, Unregister, StopDisconnects, EntryRemoved,
                handling, devices, homeAssistant, life, runtimeVars, vars, Books, Base, Types
  <2> QED  BY <2>1, <2>2
<1>2. scanners \subseteq Source /\ \A c \in Conn : SourceOf[c] \in Source
  BY SourceOfAssumption DEF Books, Base, Types
<1> QED  BY <1>1, <1>2 DEF Saving

LEMMA NextKeepsSaving ==
  ASSUME NEW ModelOf \in [Source -> Model], Books, Saving(ModelOf), [Next]_vars,
         [NamesOne(ModelOf)]_vars
  PROVE  Saving(ModelOf)'
<1>1. CASE NamesOne(ModelOf)
  <2>1. ASSUME NEW c \in Conn, NEW m \in Model \cup {DefaultModel}, Message(c, m)
        PROVE  Saving(ModelOf)'
    BY <1>1, <2>1, MessageKeepsSaving DEF Names
  <2> QED  BY <2>1, WaitingKeepsSaving, LifeKeepsSaving, RestKeepsSaving DEF Next
<1>2. CASE UNCHANGED vars
  BY <1>2, RestKeepsSaving
<1> QED  BY <1>1, <1>2

(* A model that is learnt is saved, for any number of APs and connections  *)
(* and whatever their entries said before, when each AP names one model of *)
(* its own: only one learnt while the scanner is made is not.              *)
THEOREM LearntModelsAreSaved ==
  ASSUME NEW ModelOf \in [Source -> Model]
  PROVE  Spec /\ [][NamesOne(ModelOf)]_vars => []LearntModelIsSaved
<1>1. Init => Saving(ModelOf)
  BY DEF Init, Saving
<1>2. Books /\ Saving(ModelOf) /\ [Next]_vars /\ [NamesOne(ModelOf)]_vars => Saving(ModelOf)'
  BY NextKeepsSaving
<1>3. Saving(ModelOf) => LearntModelIsSaved
  BY DEF Saving, LearntModelIsSaved
<1> QED  BY <1>1, <1>2, <1>3, BooksHold, PTL DEF Spec
====
