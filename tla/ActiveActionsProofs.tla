------------------------ MODULE ActiveActionsProofs ------------------------
(***************************************************************************)
(* Proofs about ActiveActions and SlotArbitration, for any number of calls,*)
(* APs, devices and handlers.  The invariant has three layers, each using  *)
(* those before it: where the calls are (pc, req, line), what the APs      *)
(* report (wire, inHand, inbound), and the runtime's books.  The last three*)
(* sections add what the lines, the slots and the record of links need.    *)
(***************************************************************************)
EXTENDS SlotArbitration, SequenceFacts, FiniteSetTheorems

(* A call that queues is in the line of its lock; a call in flight is the  *)
(* first of it.                                                            *)
CallTypeOK ==
  /\ pc   \in [Call -> {"idle", "queued", "sending", "waiting"} \cup Ended]
  /\ req  \in [Call -> Request \cup {NoRequest}]
  /\ line \in [Key -> Seq(Call)]

HasAsked == \A c \in Call : pc[c] # "idle" => req[c] \in Request

QueuedInLine ==
  \A c \in Call : pc[c] = "queued" => \E i \in DOMAIN LineOf(req[c]) : LineOf(req[c])[i] = c

InFlightIsFirst ==
  \A c \in Call : InFlight(c) => LineOf(req[c]) # << >> /\ Head(LineOf(req[c])) = c

CallInvariant == CallTypeOK /\ HasAsked /\ QueuedInLine /\ InFlightIsFirst

LEMMA RequestHasKey == ASSUME NEW r \in Request PROVE KeyOf(r) \in Key
BY RequestAssumption DEF KeyOf, OperationLockKey, Key, PerSourceLockActions

(* The first of a line leaves it and ends. *)
LEMMA FirstLeaves ==
  ASSUME CallInvariant, NEW c \in Call, NEW p \in Ended,
         pc[c] # "idle", LineOf(req[c]) # << >>, Head(LineOf(req[c])) = c,
         GoTo(c, p), SetLine(req[c], Tail(LineOf(req[c]))), UNCHANGED req
  PROVE  CallInvariant'
<1> DEFINE k == KeyOf(req[c])
<1> USE DEF CallInvariant
<1>1. k \in Key /\ \A d \in Call : pc[d] # "idle" => KeyOf(req[d]) \in Key
  BY RequestHasKey DEF HasAsked
<1>2. /\ line[k] \in Seq(Call) /\ line[k] # << >> /\ line[k][1] = c
      /\ Tail(line[k]) \in Seq(Call)
      /\ \A i \in DOMAIN line[k] : i # 1 =>
           \E j \in DOMAIN Tail(line[k]) : Tail(line[k])[j] = line[k][i]
  <2>1. line[k] \in Seq(Call) /\ line[k] # << >> /\ Head(line[k]) = c
    BY <1>1 DEF CallTypeOK, LineOf
  <2>2. Head(line[k]) = line[k][1]
    BY <2>1
  <2>. QED
    BY <2>1, <2>2, TailKeepsOthers
<1>3. line' = [line EXCEPT ![k] = Tail(line[k])]
  BY DEF SetLine, LineOf
<1>4. pc' = [pc EXCEPT ![c] = p] /\ req' = req
  BY DEF GoTo
<1> HIDE DEF k
<1>5. CallTypeOK' /\ HasAsked'
  BY <1>1, <1>2, <1>3, <1>4 DEF CallTypeOK, HasAsked
<1>6. ASSUME NEW d \in Call, pc'[d] = "queued"
      PROVE  \E i \in DOMAIN line'[KeyOf(req'[d])] : line'[KeyOf(req'[d])][i] = d
  <2>1. d # c /\ pc[d] = "queued" /\ KeyOf(req[d]) \in Key
    BY <1>1, <1>4, <1>6 DEF CallTypeOK, Ended
  <2>2. PICK i \in DOMAIN line[KeyOf(req[d])] : line[KeyOf(req[d])][i] = d
    BY <2>1 DEF QueuedInLine, LineOf
  <2>3. CASE KeyOf(req[d]) = k
    <3>1. i # 1
      BY <1>2, <2>1, <2>2, <2>3
    <3>. QED
      BY <1>1, <1>2, <1>3, <1>4, <2>2, <2>3, <3>1 DEF CallTypeOK
  <2>4. CASE KeyOf(req[d]) # k
    BY <1>3, <1>4, <2>1, <2>2, <2>4 DEF CallTypeOK
  <2>. QED
    BY <2>3, <2>4
<1>7. ASSUME NEW d \in Call, pc'[d] \in {"sending", "waiting"}
      PROVE  line'[KeyOf(req'[d])] # << >> /\ Head(line'[KeyOf(req'[d])]) = d
  <2>1. d # c /\ pc[d] \in {"sending", "waiting"} /\ KeyOf(req[d]) \in Key
    BY <1>1, <1>4, <1>7 DEF CallTypeOK, Ended
  <2>2. line[KeyOf(req[d])] # << >> /\ Head(line[KeyOf(req[d])]) = d
    BY <2>1 DEF InFlightIsFirst, InFlight, LineOf
  <2>3. KeyOf(req[d]) # k
    BY <2>1, <2>2 DEF LineOf, k
  <2>. QED
    BY <1>3, <1>4, <2>1, <2>2, <2>3 DEF CallTypeOK
<1>. QED
  BY <1>5, <1>6, <1>7 DEF QueuedInLine, InFlightIsFirst, InFlight, LineOf

(* The first of a line goes on to the next phase of its action. *)
LEMMA FirstGoesOn ==
  ASSUME CallInvariant, NEW c \in Call, NEW p \in {"sending", "waiting"},
         pc[c] # "idle", LineOf(req[c]) # << >>, Head(LineOf(req[c])) = c,
         GoTo(c, p), UNCHANGED << req, line >>
  PROVE  CallInvariant'
<1> USE DEF CallInvariant, GoTo
<1>1. CallTypeOK' /\ HasAsked'
  BY DEF CallTypeOK, HasAsked
<1>2. ASSUME NEW d \in Call, pc'[d] = "queued"
      PROVE  \E i \in DOMAIN line'[KeyOf(req'[d])] : line'[KeyOf(req'[d])][i] = d
  BY <1>2 DEF CallTypeOK, QueuedInLine, LineOf
<1>3. ASSUME NEW d \in Call, pc'[d] \in {"sending", "waiting"}
      PROVE  line'[KeyOf(req'[d])] # << >> /\ Head(line'[KeyOf(req'[d])]) = d
  BY <1>3 DEF CallTypeOK, InFlightIsFirst, InFlight, LineOf
<1>. QED
  BY <1>1, <1>2, <1>3 DEF QueuedInLine, InFlightIsFirst, InFlight, LineOf

(* A call that asks for r and has line w behind its key, or joins it last. *)
LEMMA ArrivesFirst ==
  ASSUME CallInvariant, NEW c \in Call, NEW r \in Request, NEW p, NEW w,
         pc[c] = "idle", LineOf(r) = << >>,
         \/ p = "sending" /\ w = << c >>
         \/ p = "done" /\ w = << >>,
         GoTo(c, p), SetLine(r, w), req' = [req EXCEPT ![c] = r]
  PROVE  CallInvariant'
<1> DEFINE k == KeyOf(r)
<1> USE DEF CallInvariant
<1>1. k \in Key /\ \A d \in Call : pc[d] # "idle" => KeyOf(req[d]) \in Key
  BY RequestHasKey DEF HasAsked
<1>2. w \in Seq(Call) /\ line[k] = << >>
  <2>1. << >> \in Seq(Call) /\ << c >> \in Seq(Call)
    OBVIOUS
  <2>2. line[k] = << >>
    BY DEF LineOf
  <2>. QED
    BY <2>1, <2>2
<1>3. line' = [line EXCEPT ![k] = w] /\ pc' = [pc EXCEPT ![c] = p]
  BY DEF SetLine, GoTo
<1> HIDE DEF k
<1>4. p \in {"sending"} \cup Ended
  BY DEF Ended
<1>5. CallTypeOK' /\ HasAsked'
  BY <1>1, <1>2, <1>3, <1>4 DEF CallTypeOK, HasAsked
<1>6. ASSUME NEW d \in Call, pc'[d] = "queued"
      PROVE  \E i \in DOMAIN line'[KeyOf(req'[d])] : line'[KeyOf(req'[d])][i] = d
  <2>1. d # c /\ pc[d] = "queued" /\ KeyOf(req[d]) \in Key /\ req'[d] = req[d]
    BY <1>1, <1>3, <1>4, <1>6 DEF CallTypeOK, Ended
  <2>2. PICK i \in DOMAIN line[KeyOf(req[d])] : line[KeyOf(req[d])][i] = d
    BY <2>1 DEF QueuedInLine, LineOf
  <2>3. KeyOf(req[d]) # k
    BY <1>2, <2>2
  <2>4. line'[KeyOf(req'[d])] = line[KeyOf(req[d])]
    BY <1>1, <1>3, <2>1, <2>3 DEF CallTypeOK
  <2>. QED
    BY <2>2, <2>4
<1>7. ASSUME NEW d \in Call, pc'[d] \in {"sending", "waiting"}
      PROVE  line'[KeyOf(req'[d])] # << >> /\ Head(line'[KeyOf(req'[d])]) = d
  <2>1. CASE d = c
    <3>1. p = "sending" /\ w = << c >>
      BY <1>3, <1>7, <2>1 DEF CallTypeOK
    <3>2. KeyOf(req'[c]) = k
      BY DEF k, CallTypeOK
    <3>. QED
      BY <1>1, <1>3, <2>1, <3>1, <3>2 DEF CallTypeOK
  <2>2. CASE d # c
    <3>1. pc[d] \in {"sending", "waiting"} /\ KeyOf(req[d]) \in Key /\ req'[d] = req[d]
      BY <1>1, <1>3, <1>7, <2>2 DEF CallTypeOK
    <3>2. line[KeyOf(req[d])] # << >> /\ Head(line[KeyOf(req[d])]) = d
      BY <3>1 DEF InFlightIsFirst, InFlight, LineOf
    <3>3. KeyOf(req[d]) # k
      BY <1>2, <3>2
    <3>. QED
      BY <1>3, <3>1, <3>2, <3>3 DEF CallTypeOK
  <2>. QED
    BY <2>1, <2>2
<1>. QED
  BY <1>5, <1>6, <1>7 DEF QueuedInLine, InFlightIsFirst, InFlight, LineOf

LEMMA ArrivesBehind ==
  ASSUME CallInvariant, NEW c \in Call, NEW r \in Request,
         pc[c] = "idle", LineOf(r) # << >>,
         GoTo(c, "queued"), SetLine(r, Append(LineOf(r), c)), req' = [req EXCEPT ![c] = r]
  PROVE  CallInvariant'
<1> DEFINE k == KeyOf(r)
<1> USE DEF CallInvariant
<1>1. k \in Key /\ \A d \in Call : pc[d] # "idle" => KeyOf(req[d]) \in Key
  BY RequestHasKey DEF HasAsked
<1>2. line' = [line EXCEPT ![k] = Append(line[k], c)] /\ pc' = [pc EXCEPT ![c] = "queued"]
  BY DEF SetLine, GoTo, LineOf
<1>3. line[k] \in Seq(Call) /\ line[k] # << >>
  BY <1>1 DEF CallTypeOK, LineOf
<1>4. /\ Append(line[k], c) \in Seq(Call) /\ Append(line[k], c) # << >>
      /\ Len(Append(line[k], c)) = Len(line[k]) + 1
      /\ \A i \in 1 .. Len(line[k]) : Append(line[k], c)[i] = line[k][i]
      /\ Append(line[k], c)[Len(line[k]) + 1] = c
      /\ Head(Append(line[k], c)) = Head(line[k])
  BY <1>3, AppendProperties, HeadTailAppend
<1>5. /\ Len(line[k]) \in Nat /\ DOMAIN line[k] = 1 .. Len(line[k])
      /\ DOMAIN Append(line[k], c) = 1 .. Len(line[k]) + 1
  BY <1>3, <1>4, LenProperties
<1> HIDE DEF k
<1>6. CallTypeOK' /\ HasAsked'
  BY <1>1, <1>2, <1>4 DEF CallTypeOK, HasAsked
<1>7. ASSUME NEW d \in Call, pc'[d] = "queued"
      PROVE  \E i \in DOMAIN line'[KeyOf(req'[d])] : line'[KeyOf(req'[d])][i] = d
  <2>1. CASE d = c
    <3>1. KeyOf(req'[c]) = k
      BY DEF k, CallTypeOK
    <3>2. line'[k] = Append(line[k], c)
      BY <1>1, <1>2 DEF CallTypeOK
    <3>. QED
      BY <1>4, <1>5, <2>1, <3>1, <3>2
  <2>2. CASE d # c
    <3>1. pc[d] = "queued" /\ KeyOf(req[d]) \in Key /\ req'[d] = req[d]
      BY <1>1, <1>2, <1>7, <2>2 DEF CallTypeOK
    <3>2. PICK i \in DOMAIN line[KeyOf(req[d])] : line[KeyOf(req[d])][i] = d
      BY <3>1 DEF QueuedInLine, LineOf
    <3>3. CASE KeyOf(req[d]) = k
      BY <1>1, <1>2, <1>4, <1>5, <3>1, <3>2, <3>3 DEF CallTypeOK
    <3>4. CASE KeyOf(req[d]) # k
      BY <1>2, <3>1, <3>2, <3>4 DEF CallTypeOK
    <3>. QED
      BY <3>3, <3>4
  <2>. QED
    BY <2>1, <2>2
<1>8. ASSUME NEW d \in Call, pc'[d] \in {"sending", "waiting"}
      PROVE  line'[KeyOf(req'[d])] # << >> /\ Head(line'[KeyOf(req'[d])]) = d
  <2>1. /\ d # c /\ pc[d] \in {"sending", "waiting"}
        /\ KeyOf(req[d]) \in Key /\ req'[d] = req[d]
    BY <1>1, <1>2, <1>8 DEF CallTypeOK
  <2>2. line[KeyOf(req[d])] # << >> /\ Head(line[KeyOf(req[d])]) = d
    BY <2>1 DEF InFlightIsFirst, InFlight, LineOf
  <2>3. CASE KeyOf(req[d]) = k
    BY <1>1, <1>2, <1>4, <2>1, <2>2, <2>3 DEF CallTypeOK
  <2>4. CASE KeyOf(req[d]) # k
    BY <1>2, <2>1, <2>2, <2>4 DEF CallTypeOK
  <2>. QED
    BY <2>3, <2>4
<1>. QED
  BY <1>6, <1>7, <1>8 DEF QueuedInLine, InFlightIsFirst, InFlight, LineOf

LEMMA QueuedLeaves ==
  ASSUME CallInvariant, NEW c \in Call, CancelQueued(c)
  PROVE  CallInvariant'
<1> DEFINE k == KeyOf(req[c])
<1> USE DEF CallInvariant
<1>1. pc[c] = "queued" /\ req' = req /\ pc' = [pc EXCEPT ![c] = "done"]
  BY DEF CancelQueued, GoTo
<1>2. k \in Key /\ \A d \in Call : pc[d] # "idle" => KeyOf(req[d]) \in Key
  BY <1>1, RequestHasKey DEF HasAsked
<1>3. PICK x \in DOMAIN line[k] : line[k][x] = c /\ line' = [line EXCEPT ![k] = RemoveAt(line[k], x)]
  BY DEF CancelQueued, SetLine, LineOf
<1>4. line[k] \in Seq(Call) /\ line[k] # << >> /\ Head(line[k]) = line[k][1]
  BY <1>2, <1>3 DEF CallTypeOK
<1>5. /\ RemoveAt(line[k], x) \in Seq(Call)
      /\ \A i \in DOMAIN line[k] : i # x =>
           \E j \in DOMAIN RemoveAt(line[k], x) : RemoveAt(line[k], x)[j] = line[k][i]
      /\ x # 1 => RemoveAt(line[k], x) # << >> /\ Head(RemoveAt(line[k], x)) = Head(line[k])
  BY <1>4, RemoveAtKeepsOthers
<1> HIDE DEF k
<1>6. CallTypeOK' /\ HasAsked'
  BY <1>1, <1>2, <1>3, <1>5 DEF CallTypeOK, HasAsked, Ended
<1>7. ASSUME NEW d \in Call, pc'[d] = "queued"
      PROVE  \E i \in DOMAIN line'[KeyOf(req'[d])] : line'[KeyOf(req'[d])][i] = d
  <2>1. d # c /\ pc[d] = "queued" /\ KeyOf(req[d]) \in Key
    BY <1>1, <1>2, <1>7 DEF CallTypeOK
  <2>2. PICK i \in DOMAIN line[KeyOf(req[d])] : line[KeyOf(req[d])][i] = d
    BY <2>1 DEF QueuedInLine, LineOf
  <2>3. CASE KeyOf(req[d]) = k
    <3>1. i # x
      BY <1>3, <2>1, <2>2, <2>3
    <3>. QED
      BY <1>1, <1>2, <1>3, <1>5, <2>2, <2>3, <3>1 DEF CallTypeOK
  <2>4. CASE KeyOf(req[d]) # k
    BY <1>1, <1>3, <2>1, <2>2, <2>4 DEF CallTypeOK
  <2>. QED
    BY <2>3, <2>4
<1>8. ASSUME NEW d \in Call, pc'[d] \in {"sending", "waiting"}
      PROVE  line'[KeyOf(req'[d])] # << >> /\ Head(line'[KeyOf(req'[d])]) = d
  <2>1. d # c /\ pc[d] \in {"sending", "waiting"} /\ KeyOf(req[d]) \in Key
    BY <1>1, <1>2, <1>8 DEF CallTypeOK
  <2>2. line[KeyOf(req[d])] # << >> /\ Head(line[KeyOf(req[d])]) = d
    BY <2>1 DEF InFlightIsFirst, InFlight, LineOf
  <2>3. CASE KeyOf(req[d]) = k
    <3>1. x # 1
      BY <1>3, <1>4, <2>1, <2>2, <2>3
    <3>. QED
      BY <1>1, <1>2, <1>3, <1>5, <2>2, <2>3, <3>1 DEF CallTypeOK
  <2>4. CASE KeyOf(req[d]) # k
    BY <1>1, <1>3, <2>1, <2>2, <2>4 DEF CallTypeOK
  <2>. QED
    BY <2>3, <2>4
<1>. QED
  BY <1>6, <1>7, <1>8 DEF QueuedInLine, InFlightIsFirst, InFlight, LineOf

(* Whatever the runtime or an AP does, a call changes its place only by    *)
(* the steps above.                                                        *)
LEMMA CallStep == CallInvariant /\ [Next]_vars => CallInvariant'
<1> SUFFICES ASSUME CallInvariant, [Next]_vars PROVE CallInvariant'
  OBVIOUS
<1>1. CASE UNCHANGED << pc, req, line >>
  BY <1>1 DEF CallInvariant, CallTypeOK, HasAsked, QueuedInLine, InFlightIsFirst, InFlight, LineOf
<1>2. ASSUME NEW c \in Call, Arrive(c)
      PROVE  CallInvariant'
  <2>1. pc[c] = "idle"
    BY <1>2 DEF Arrive
  <2>2. PICK r \in Request :
          /\ req' = [req EXCEPT ![c] = r]
          /\ \/ LineOf(r) = << >> /\ Run(c, r, << >>)
             \/ /\ LineOf(r) # << >>
                /\ GoTo(c, "queued") /\ SetLine(r, Append(LineOf(r), c))
    BY <1>2 DEF Arrive
  <2>3. CASE LineOf(r) = << >> /\ Run(c, r, << >>)
    <3>1. << c >> \o << >> = << c >>
      BY ConcatEmptySeq
    <3>2. \/ GoTo(c, "sending") /\ SetLine(r, << c >>)
          \/ GoTo(c, "done") /\ SetLine(r, << >>)
      BY <2>3, <3>1 DEF Run
    <3>. QED
      BY <2>1, <2>2, <2>3, <3>2, ArrivesFirst
  <2>4. CASE LineOf(r) # << >> /\ GoTo(c, "queued") /\ SetLine(r, Append(LineOf(r), c))
    BY <2>1, <2>2, <2>4, ArrivesBehind
  <2>. QED
    BY <2>2, <2>3, <2>4
<1>3. ASSUME NEW c \in Call, Enter(c)
      PROVE  CallInvariant'
  <2> DEFINE r == req[c]
  <2>1. /\ pc[c] = "queued" /\ Head(LineOf(r)) = c
        /\ Run(c, r, Tail(LineOf(r))) /\ req' = req
    BY <1>3 DEF Enter
  <2>2. KeyOf(r) \in Key
    BY <2>1, RequestHasKey DEF CallInvariant, HasAsked
  <2>3. LineOf(r) \in Seq(Call) /\ LineOf(r) # << >>
    BY <2>1, <2>2 DEF CallInvariant, CallTypeOK, QueuedInLine, LineOf
  <2>4. << c >> \o Tail(LineOf(r)) = LineOf(r)
    BY <2>1, <2>3
  <2>5. CASE GoTo(c, "sending") /\ SetLine(r, << c >> \o Tail(LineOf(r)))
    <3>1. line' = line
      BY <2>2, <2>4, <2>5 DEF SetLine, LineOf, CallInvariant, CallTypeOK
    <3>. QED
      BY <2>1, <2>3, <2>5, <3>1, FirstGoesOn
  <2>6. CASE GoTo(c, "done") /\ SetLine(r, Tail(LineOf(r)))
    BY <2>1, <2>3, <2>6, FirstLeaves DEF Ended
  <2>. QED
    BY <2>1, <2>5, <2>6 DEF Run
<1>4. ASSUME NEW c \in Call, NEW p \in Ended, InFlight(c), EndAs(c, p), UNCHANGED req
      PROVE  CallInvariant'
  BY <1>4, FirstLeaves DEF EndAs, CallInvariant, InFlightIsFirst, InFlight
<1>5. ASSUME NEW c \in Call, SendReturns(c) \/ SendRaises(c) \/ CancelSending(c) \/ Resume(c)
      PROVE  CallInvariant'
  <2>1. InFlight(c) /\ UNCHANGED req
    BY <1>5 DEF SendReturns, SendRaises, CancelSending, Resume, InFlight
  <2>2. \/ \E p \in Ended : EndAs(c, p)
        \/ GoTo(c, "waiting") /\ UNCHANGED line
    BY <1>5 DEF SendReturns, SendRaises, CancelSending, Resume, Ended
  <2>. QED
    BY <1>4, <2>1, <2>2, FirstGoesOn DEF CallInvariant, InFlightIsFirst, InFlight
<1>6. ASSUME NEW c \in Call, CancelQueued(c)
      PROVE  CallInvariant'
  BY <1>6, QueuedLeaves
<1>7. CASE HandleReport
  BY <1>1, <1>7 DEF HandleReport, callVars
<1>8. ASSUME NEW c \in Call, Interrupt(c) \/ APAnswers(c)
      PROVE  CallInvariant'
  BY <1>1, <1>8 DEF Interrupt, APAnswers, callVars
<1>9. ASSUME NEW s \in Source, HandleMessage(s) \/ SourceConnects(s) \/ SourceDrops(s)
      PROVE  CallInvariant'
  BY <1>1, <1>9 DEF HandleMessage, SourceConnects, SourceDrops, callVars
<1>10. ASSUME NEW l \in Link, LinkDrops(l) \/ LinkUpdate(l)
       PROVE  CallInvariant'
  BY <1>1, <1>10 DEF LinkDrops, LinkUpdate, callVars
<1>11. CASE UNCHANGED vars
  BY <1>1, <1>11 DEF vars, callVars
<1>12. ASSUME NEW h \in Handler, MessageResumes(h) \/ \E s \in Source : MessageWaits(h, s)
       PROVE  CallInvariant'
  BY <1>1, <1>12 DEF MessageResumes, MessageWaits, callVars
<1>. QED
  BY <1>2, <1>3, <1>5, <1>6, <1>7, <1>8, <1>9, <1>10, <1>11, <1>12 DEF Next, InCode

-----------------------------------------------------------------------------
(* What is on its way to and from the APs.  Reports on the wire come from  *)
(* connected sources, and a result belongs to a call that was made.        *)
Belongs(e) == IsResult(e) => e.call \in Call /\ pc[e.call] # "idle" /\ e.link = LinkOf(e.call)

ReportTypeOK ==
  /\ connected \in SUBSET Source
  /\ inbound   \in Seq(Report)
  /\ inHand    \in [Handler -> Seq(Report)]
  /\ atAP      \in SUBSET Call
  /\ linked    \in SUBSET Link
  /\ wire      \in [Source -> Seq(Report)]

AskedOfAP == \A c \in atAP : pc[c] # "idle"

OnWire ==
  \A s \in Source : \A i \in DOMAIN wire[s] :
    s \in connected /\ wire[s][i].link[1] = s /\ Belongs(wire[s][i])

ArrivedBelong == \A e \in Arrived : e \in Report /\ Belongs(e)

ReportInvariant == ReportTypeOK /\ AskedOfAP /\ OnWire /\ ArrivedBelong

(* What has arrived is being handled or waits in some handler's hand. *)
LEMMA ArrivedWhere ==
  \A e : e \in Arrived <=>
    \/ \E i \in DOMAIN inbound : e = inbound[i]
    \/ \E h \in Handler : \E i \in DOMAIN inHand[h] : e = inHand[h][i]
BY DEF Arrived, ToSet

LEMMA LinkOfAsked ==
  ASSUME CallInvariant, NEW c \in Call, pc[c] # "idle"
  PROVE  LinkOf(c) \in Link /\ LinkOf(c)[1] = req[c].source /\ req[c].source \in Source
BY RequestAssumption DEF CallInvariant, HasAsked, LinkOf, Link

(* A call that was made keeps its request. *)
LEMMA CallsStay ==
  ASSUME CallInvariant, Next
  PROVE  \A c \in Call : pc[c] # "idle" => pc'[c] # "idle" /\ req'[c] = req[c]
<1> USE DEF CallInvariant, CallTypeOK
<1>1. CASE UNCHANGED << pc, req >>
  BY <1>1
<1>2. ASSUME NEW c \in Call, Arrive(c)
      PROVE  \A d \in Call : pc[d] # "idle" => pc'[d] # "idle" /\ req'[d] = req[d]
  BY <1>2 DEF Arrive, Run, GoTo
<1>3. ASSUME NEW c \in Call, Enter(c) \/ CancelQueued(c) \/ SendReturns(c) \/ SendRaises(c)
                              \/ CancelSending(c) \/ Interrupt(c) \/ Resume(c)
      PROVE  \A d \in Call : pc[d] # "idle" => pc'[d] # "idle" /\ req'[d] = req[d]
  BY <1>3 DEF Enter, Run, CancelQueued, SendReturns, SendRaises, CancelSending, Interrupt,
              Resume, EndAs, GoTo
<1>4. CASE HandleReport
  BY <1>1, <1>4 DEF HandleReport, callVars
<1>5. ASSUME NEW c \in Call, APAnswers(c)
      PROVE  UNCHANGED << pc, req >>
  BY <1>5 DEF APAnswers, callVars
<1>6. ASSUME NEW s \in Source, HandleMessage(s) \/ SourceConnects(s) \/ SourceDrops(s)
      PROVE  UNCHANGED << pc, req >>
  BY <1>6 DEF HandleMessage, SourceConnects, SourceDrops, callVars
<1>7. ASSUME NEW l \in Link, LinkDrops(l) \/ LinkUpdate(l)
      PROVE  UNCHANGED << pc, req >>
  BY <1>7 DEF LinkDrops, LinkUpdate, callVars
<1>8. ASSUME NEW h \in Handler, MessageResumes(h) \/ \E s \in Source : MessageWaits(h, s)
      PROVE  UNCHANGED << pc, req >>
  BY <1>8 DEF MessageResumes, MessageWaits, callVars
<1>. QED
  BY <1>1, <1>2, <1>3, <1>4, <1>5, <1>6, <1>7, <1>8 DEF Next, InCode

LEMMA BelongingStays ==
  ASSUME CallInvariant, Next, NEW e, Belongs(e)
  PROVE  Belongs(e)'
BY CallsStay DEF Belongs, LinkOf

(* A report joins those on their way. *)
LEMMA ReportArrives ==
  ASSUME ReportInvariant, CallInvariant, Next, NEW s \in Source, NEW e \in Report,
         e.link[1] = s, Belongs(e), Reports(s, e),
         UNCHANGED << connected, messageVars >>,
         atAP' \in SUBSET atAP, linked' \in SUBSET Link
  PROVE  ReportInvariant'
<1> USE DEF ReportInvariant
<1>1. s \in connected /\ wire' = [wire EXCEPT ![s] = Append(wire[s], e)]
  BY DEF Reports, ReportTypeOK
<1>2. /\ Append(wire[s], e) \in Seq(Report)
      /\ Len(Append(wire[s], e)) = Len(wire[s]) + 1
      /\ \A i \in 1 .. Len(wire[s]) : Append(wire[s], e)[i] = wire[s][i]
      /\ Append(wire[s], e)[Len(wire[s]) + 1] = e
  BY AppendProperties DEF ReportTypeOK
<1>3. /\ DOMAIN wire[s] = 1 .. Len(wire[s]) /\ Len(wire[s]) \in Nat
      /\ DOMAIN Append(wire[s], e) = 1 .. Len(wire[s]) + 1
  BY <1>2, LenProperties DEF ReportTypeOK
<1>4. ReportTypeOK'
  BY <1>1, <1>2 DEF ReportTypeOK, messageVars
<1>5. AskedOfAP'
  BY CallsStay DEF AskedOfAP, ReportTypeOK
<1>6. ASSUME NEW t \in Source, NEW i \in DOMAIN wire'[t]
      PROVE  t \in connected' /\ wire'[t][i].link[1] = t /\ Belongs(wire[t][i])'
  <2>1. CASE t = s
    <3>1. wire'[t] = Append(wire[s], e)
      BY <1>1, <2>1 DEF ReportTypeOK
    <3>2. CASE i = Len(wire[s]) + 1
      <4>1. wire'[t][i] = e /\ Belongs(e)'
        BY <1>2, <3>1, <3>2, BelongingStays
      <4>. QED
        BY <1>1, <2>1, <4>1 DEF Belongs, LinkOf
    <3>3. CASE i \in DOMAIN wire[s]
      <4>1. wire'[t][i] = wire[s][i] /\ s \in connected /\ wire[s][i].link[1] = s
        BY <1>2, <1>3, <3>1, <3>3 DEF OnWire
      <4>2. Belongs(wire[s][i])
        BY <3>3 DEF OnWire
      <4>3. Belongs(wire[t][i])'
        BY <4>1, <4>2, CallsStay DEF Belongs, LinkOf
      <4>. QED
        BY <2>1, <4>1, <4>3
    <3>. QED
      BY <1>3, <3>1, <3>2, <3>3
  <2>2. CASE t # s
    <3>1. wire'[t] = wire[t]
      BY <1>1, <2>2 DEF ReportTypeOK
    <3>2. t \in connected /\ wire[t][i].link[1] = t /\ Belongs(wire[t][i])
      BY <3>1 DEF OnWire
    <3>3. Belongs(wire[t][i])'
      BY <3>1, <3>2, CallsStay DEF Belongs, LinkOf
    <3>. QED
      BY <3>1, <3>2, <3>3
  <2>. QED
    BY <2>1, <2>2
<1>7. ArrivedBelong'
  <2>1. Arrived' = Arrived
    BY DEF Arrived, messageVars
  <2>. QED
    BY <2>1, CallsStay DEF ArrivedBelong, Belongs, LinkOf
<1>. QED
  BY <1>4, <1>5, <1>6, <1>7 DEF OnWire

(* Nothing joins: the reports on their way are some of those that were.    *)
LEMMA ReportsPass ==
  ASSUME ReportInvariant, CallInvariant, Next, ReportTypeOK', AskedOfAP',
         connected \subseteq connected',
         \A s \in Source : \A i \in DOMAIN wire'[s] : \E j \in DOMAIN wire[s] : wire'[s][i] = wire[s][j],
         \A e \in Arrived' :
           \/ e \in Arrived
           \/ \E s \in Source : \E j \in DOMAIN wire[s] : e = wire[s][j]
  PROVE  ReportInvariant'
<1> USE DEF ReportInvariant
<1>1. ASSUME NEW s \in Source, NEW i \in DOMAIN wire'[s]
      PROVE  s \in connected' /\ wire'[s][i].link[1] = s /\ Belongs(wire[s][i])'
  <2>1. PICK j \in DOMAIN wire[s] : wire'[s][i] = wire[s][j]
    BY <1>1
  <2>2. s \in connected /\ wire[s][j].link[1] = s /\ Belongs(wire[s][j])
    BY DEF OnWire
  <2>. QED
    BY <2>1, <2>2, CallsStay DEF Belongs, LinkOf
<1>2. ASSUME NEW e, e \in Arrived'
      PROVE  e \in Report /\ Belongs(e)'
  <2>1. CASE e \in Arrived
    BY <2>1, CallsStay DEF ArrivedBelong, Belongs, LinkOf
  <2>2. CASE \E s \in Source : \E j \in DOMAIN wire[s] : e = wire[s][j]
    <3>1. PICK s \in Source : \E j \in DOMAIN wire[s] : e = wire[s][j]
      BY <2>2
    <3>2. PICK j \in DOMAIN wire[s] : e = wire[s][j]
      BY <3>1
    <3>3. wire[s][j] \in Report /\ Belongs(wire[s][j])
      BY LenProperties, ElementOfSeq DEF OnWire, ReportTypeOK
    <3>. QED
      BY <3>2, <3>3, CallsStay DEF Belongs, LinkOf
  <2>. QED
    BY <1>2, <2>1, <2>2
<1>. QED
  BY <1>1, <1>2 DEF OnWire, ArrivedBelong

(* An AP's report of what happened to a link or an action is well formed.  *)
LEMMA PerformedReport ==
  ASSUME ReportInvariant, CallInvariant, Next, NEW c \in Call, NEW status \in Status,
         pc[c] # "idle", Performs(c, status),
         UNCHANGED << connected, messageVars >>, atAP' \in SUBSET atAP, linked' \in SUBSET Link
  PROVE  ReportInvariant'
<1>1. PICK named \in Named :
        Reports(req[c].source,
                [call |-> c, link |-> LinkOf(c), status |-> status, named |-> named])
  BY DEF Performs
<1> DEFINE e == [call |-> c, link |-> LinkOf(c), status |-> status, named |-> named]
<1>2. LinkOf(c) \in Link /\ LinkOf(c)[1] = req[c].source /\ req[c].source \in Source
  BY LinkOfAsked
<1>3. e \in Report /\ e.link = LinkOf(c) /\ e.call = c
  BY <1>2, ReportsAssumption DEF Report
<1>4. Belongs(e)
  BY <1>3 DEF Belongs
<1>5. Reports(req[c].source, e)
  BY <1>1
<1> HIDE DEF e
<1>. QED
  BY <1>2, <1>3, <1>4, <1>5, ReportArrives

LEMMA StatusReported ==
  ASSUME ReportInvariant, CallInvariant, Next, NEW l \in Link, NEW status \in Status,
         StatusReport(l, status),
         UNCHANGED << connected, messageVars, atAP >>, linked' \in SUBSET Link
  PROVE  ReportInvariant'
<1> DEFINE e == [call |-> NoCall, link |-> l, status |-> status, named |-> TRUE]
<1>1. e \in Report /\ e.link[1] = l[1] /\ l[1] \in Source
  BY DEF Report, Link
<1>2. Belongs(e)
  BY DEF Belongs, IsResult
<1>3. Reports(l[1], e)
  BY DEF StatusReport
<1> HIDE DEF e
<1>. QED
  BY <1>1, <1>2, <1>3, ReportArrives

(* A message is taken off the wire, to be handled now or later.            *)
Takes(s, n) ==
  /\ n \in 1 .. MaxBatch /\ n <= Len(wire[s])
  /\ wire' = [wire EXCEPT ![s] = SubSeq(wire[s], n + 1, Len(wire[s]))]
  /\ UNCHANGED << callVars, runtimeVars, connected, atAP, linked, misled >>

LEMMA TakingMessage ==
  ASSUME ReportInvariant, NEW s \in Source,
         HandleMessage(s) \/ \E h \in Handler : MessageWaits(h, s)
  PROVE  \E n \in Nat :
           /\ Takes(s, n)
           /\ inbound' \in Seq(Report) /\ inHand' \in [Handler -> Seq(Report)]
           /\ Arrived' = Arrived \cup {wire[s][i] : i \in 1 .. n}
<1> USE DEF ReportInvariant
<1>1. PICK n \in 1 .. MaxBatch :
        /\ n <= Len(wire[s])
        /\ \/ inbound' = SubSeq(wire[s], 1, n) /\ inHand' = inHand /\ inbound = << >>
           \/ \E h \in Handler :
                /\ inHand' = [inHand EXCEPT ![h] = SubSeq(wire[s], 1, n)]
                /\ inbound' = inbound /\ inHand[h] = << >>
        /\ wire' = [wire EXCEPT ![s] = SubSeq(wire[s], n + 1, Len(wire[s]))]
  <2>1. wire \in [Source -> Seq(Report)]
    BY DEF ReportTypeOK
  <2>. QED
    BY <2>1 DEF HandleMessage, MessageWaits, Idle
<1>2. UNCHANGED << callVars, runtimeVars, connected, atAP, linked, misled >>
  BY DEF HandleMessage, MessageWaits
<1>3. n \in Nat /\ Takes(s, n)
  BY <1>1, <1>2, ReportsAssumption DEF Takes
<1>4. /\ wire[s] \in Seq(Report) /\ Len(wire[s]) \in Nat
      /\ \A i \in 1 .. Len(wire[s]) : wire[s][i] \in Report
  BY LenProperties, ElementOfSeq DEF ReportTypeOK
<1> DEFINE taken == SubSeq(wire[s], 1, n)
<1>5. /\ taken \in Seq(Report) /\ Len(taken) = n
      /\ \A i \in 1 .. n : taken[i] = wire[s][i]
  BY <1>1, <1>3, <1>4
<1>6. \A e : (\E i \in DOMAIN taken : e = taken[i]) <=> e \in {wire[s][i] : i \in 1 .. n}
  <2>1. DOMAIN taken = 1 .. n
    BY <1>5, LenProperties
  <2>. QED
    BY <1>5, <2>1
<1>7. DOMAIN << >> = {}
  OBVIOUS
<1>8. inHand \in [Handler -> Seq(Report)] /\ inbound \in Seq(Report)
  BY DEF ReportTypeOK
<1>9. \/ inbound' = taken /\ inHand' = inHand /\ inbound = << >>
      \/ \E h \in Handler :
           inHand' = [inHand EXCEPT ![h] = taken] /\ inbound' = inbound /\ inHand[h] = << >>
  BY <1>1
<1> HIDE DEF taken
<1>10. \A e : e \in Arrived' <=> e \in Arrived \/ \E i \in DOMAIN taken : e = taken[i]
  <2>1. CASE inbound' = taken /\ inHand' = inHand /\ inbound = << >>
    BY <1>7, <2>1 DEF Arrived, ToSet
  <2>2. ASSUME NEW h \in Handler,
               inHand' = [inHand EXCEPT ![h] = taken], inbound' = inbound, inHand[h] = << >>
        PROVE  \A e : e \in Arrived' <=> e \in Arrived \/ \E i \in DOMAIN taken : e = taken[i]
    <3>1. inHand'[h] = taken /\ \A g \in Handler \ {h} : inHand'[g] = inHand[g]
      BY <1>8, <2>2
    <3>. QED
      BY <1>7, <2>2, <3>1 DEF Arrived, ToSet
  <2>. QED
    BY <1>9, <2>1, <2>2
<1>11. Arrived' = Arrived \cup {wire[s][i] : i \in 1 .. n}
  BY <1>6, <1>10
<1>12. inbound' \in Seq(Report) /\ inHand' \in [Handler -> Seq(Report)]
  BY <1>5, <1>8, <1>9
<1>. QED
  BY <1>3, <1>11, <1>12

(* What is left on the wire *)
LEMMA TakenFromWire ==
  ASSUME ReportInvariant, NEW s \in Source, NEW n \in Nat, Takes(s, n)
  PROVE  /\ wire' \in [Source -> Seq(Report)]
         /\ \A t \in Source \ {s} : wire'[t] = wire[t]
         /\ DOMAIN wire[s] = 1 .. Len(wire[s]) /\ Len(wire[s]) \in Nat
         /\ DOMAIN wire'[s] = 1 .. Len(wire[s]) - n
         /\ \A i \in DOMAIN wire'[s] : n + i \in DOMAIN wire[s] /\ wire'[s][i] = wire[s][n + i]
<1>1. wire \in [Source -> Seq(Report)] /\ Len(wire[s]) \in Nat /\ DOMAIN wire[s] = 1 .. Len(wire[s])
  BY LenProperties DEF ReportInvariant, ReportTypeOK
<1> DEFINE rest == SubSeq(wire[s], n + 1, Len(wire[s]))
<1>3. wire' = [wire EXCEPT ![s] = rest] /\ n <= Len(wire[s])
  BY DEF Takes
<1>2. /\ rest \in Seq(Report) /\ Len(rest) = Len(wire[s]) - n
      /\ \A i \in 1 .. Len(wire[s]) - n : rest[i] = wire[s][n + i]
  <2>1. wire[s] \in Seq(Report) /\ n \in 0 .. Len(wire[s])
    BY <1>1, <1>3
  <2>2. /\ rest \in Seq(Report) /\ Len(rest) = Len(wire[s]) - n
        /\ \A i \in 1 .. Len(wire[s]) - n : rest[i] = wire[s][i + n]
    BY <2>1, RestElements
  <2>3. \A i \in 1 .. Len(wire[s]) - n : i + n = n + i
    BY <1>1
  <2>. QED
    BY <2>2, <2>3
<1> HIDE DEF rest
<1>4. DOMAIN rest = 1 .. Len(wire[s]) - n
  BY <1>2, LenProperties
<1>. QED
  BY <1>1, <1>2, <1>3, <1>4

LEMMA MessageTaken ==
  ASSUME ReportInvariant, CallInvariant, Next, NEW s \in Source, NEW n \in Nat, Takes(s, n),
         inbound' \in Seq(Report), inHand' \in [Handler -> Seq(Report)],
         Arrived' = Arrived \cup {wire[s][i] : i \in 1 .. n}
  PROVE  ReportInvariant'
<1> USE DEF ReportInvariant
<1>1. UNCHANGED << connected, atAP, linked >> /\ n <= Len(wire[s])
  BY DEF Takes
<1>2. ReportTypeOK'
  BY <1>1, TakenFromWire DEF ReportTypeOK
<1>3. \A t \in Source : \A i \in DOMAIN wire'[t] : \E j \in DOMAIN wire[t] : wire'[t][i] = wire[t][j]
  BY TakenFromWire
<1>4. \A e \in Arrived' : e \in Arrived \/ \E j \in DOMAIN wire[s] : e = wire[s][j]
  BY <1>1, TakenFromWire
<1>5. AskedOfAP'
  BY <1>1, CallsStay DEF AskedOfAP, ReportTypeOK
<1>. QED
  BY <1>1, <1>2, <1>3, <1>4, <1>5, ReportsPass

LEMMA ResumingMessage ==
  ASSUME ReportInvariant, NEW h \in Handler, MessageResumes(h)
  PROVE  /\ UNCHANGED << callVars, runtimeVars, connected, apVars, misled, Arrived >>
         /\ inbound' \in Seq(Report) /\ inHand' \in [Handler -> Seq(Report)]
<1>1. /\ inbound = << >> /\ inbound' = inHand[h] /\ inHand' = [inHand EXCEPT ![h] = << >>]
      /\ UNCHANGED << callVars, runtimeVars, connected, apVars, misled >>
  BY DEF MessageResumes, Idle
<1>2. inHand \in [Handler -> Seq(Report)] /\ << >> \in Seq(Report)
  BY EmptySeq DEF ReportInvariant, ReportTypeOK
<1>3. inHand'[h] = << >> /\ \A g \in Handler \ {h} : inHand'[g] = inHand[g]
  BY <1>1, <1>2
<1>4. DOMAIN << >> = {}
  OBVIOUS
<1>5. Arrived' = Arrived
  BY <1>1, <1>3, <1>4 DEF Arrived, ToSet
<1>. QED
  BY <1>1, <1>2, <1>5

(* Handling a report takes it out of what has arrived. *)
LEMMA HandlingReport ==
  ASSUME ReportInvariant, HandleReport
  PROVE  \E e \in Report :
           /\ Belongs(e) /\ Arrived = Arrived' \cup {e}
           /\ \/ ~ IsResult(e) /\ HandleStatus(e)
              \/ IsResult(e) /\ HandleResult(e)
           /\ UNCHANGED << callVars, connected, apVars >>
           /\ inbound' \in Seq(Report) /\ inHand' = inHand
<1>1. PICK x \in DOMAIN inbound :
        /\ inbound' = RemoveAt(inbound, x)
        /\ \/ ~ IsResult(inbound[x]) /\ HandleStatus(inbound[x])
           \/ IsResult(inbound[x]) /\ HandleResult(inbound[x])
  BY DEF HandleReport
<1>2. UNCHANGED << callVars, connected, apVars >> /\ inHand' = inHand
  BY DEF HandleReport
<1>3. inbound \in Seq(Report) /\ DOMAIN inbound = 1 .. Len(inbound) /\ Len(inbound) \in Nat
  BY LenProperties DEF ReportInvariant, ReportTypeOK
<1>4. inbound[x] \in Arrived /\ inbound[x] \in Report /\ Belongs(inbound[x])
  BY ArrivedWhere DEF ReportInvariant, ArrivedBelong
<1>5. inbound' \in Seq(Report)
  BY <1>1, <1>3, RemoveAtElements
<1>6. /\ \A i \in DOMAIN inbound' : \E j \in DOMAIN inbound : inbound'[i] = inbound[j]
      /\ \A i \in DOMAIN inbound : i # x => \E j \in DOMAIN inbound' : inbound'[j] = inbound[i]
  <2>1. /\ Len(RemoveAt(inbound, x)) = Len(inbound) - 1
        /\ \A j \in 1 .. Len(inbound) - 1 :
             RemoveAt(inbound, x)[j] = IF j < x THEN inbound[j] ELSE inbound[j + 1]
    BY <1>3, RemoveAtElements
  <2>2. DOMAIN inbound' = 1 .. Len(inbound) - 1
    BY <1>1, <1>5, <2>1, LenProperties
  <2>3. ASSUME NEW i \in DOMAIN inbound'
        PROVE  \E j \in DOMAIN inbound : inbound'[i] = inbound[j]
    <3>1. i \in DOMAIN inbound /\ i + 1 \in DOMAIN inbound
      BY <1>3, <2>2, <2>3
    <3>2. inbound'[i] = inbound[i] \/ inbound'[i] = inbound[i + 1]
      BY <1>1, <2>1, <2>2, <2>3
    <3>. QED
      BY <3>1, <3>2
  <2>4. \A i \in DOMAIN inbound : i # x => \E j \in DOMAIN inbound' : inbound'[j] = inbound[i]
    BY <1>1, <1>3, RemoveAtKeepsOthers
  <2>. QED
    BY <2>3, <2>4
<1>7. \A e : e \in Arrived <=> e \in Arrived' \/ e = inbound[x]
  BY <1>2, <1>6 DEF Arrived, ToSet
<1>8. Arrived = Arrived' \cup {inbound[x]}
  BY <1>7
<1>. QED
  BY <1>1, <1>2, <1>4, <1>5, <1>8

LEMMA ReportHandled ==
  ASSUME ReportInvariant, CallInvariant, Next, HandleReport
  PROVE  ReportInvariant'
<1> USE DEF ReportInvariant
<1>1. /\ Arrived' \subseteq Arrived /\ UNCHANGED << connected, atAP, linked, wire >>
      /\ inbound' \in Seq(Report) /\ inHand' = inHand
  BY HandlingReport DEF apVars
<1>2. ReportTypeOK'
  BY <1>1 DEF ReportTypeOK
<1>3. AskedOfAP'
  BY <1>1, CallsStay DEF AskedOfAP, ReportTypeOK
<1>. QED
  BY <1>1, <1>2, <1>3, ReportsPass

(* The reports of a source that drops go with it. *)
LEMMA DroppedReports ==
  ASSUME ReportInvariant, CallInvariant, Next, NEW s \in Source, SourceDrops(s)
  PROVE  ReportInvariant'
<1> USE DEF ReportInvariant
<1>1. /\ connected' = connected \ {s} /\ atAP' \in SUBSET atAP
      /\ wire' = [wire EXCEPT ![s] = << >>]
      /\ linked' \in SUBSET linked /\ UNCHANGED messageVars
  BY DEF SourceDrops
<1>2. ReportTypeOK'
  <2>1. << >> \in Seq(Report)
    BY EmptySeq
  <2>. QED
    BY <1>1, <2>1 DEF ReportTypeOK, messageVars
<1>3. AskedOfAP'
  BY <1>1, CallsStay DEF AskedOfAP, ReportTypeOK
<1>4. ASSUME NEW t \in Source, NEW i \in DOMAIN wire'[t]
      PROVE  t \in connected' /\ wire'[t][i].link[1] = t /\ Belongs(wire[t][i])'
  <2>1. t # s
    BY <1>1, <1>4 DEF ReportTypeOK
  <2>2. wire'[t] = wire[t]
    BY <1>1, <2>1 DEF ReportTypeOK
  <2>3. t \in connected /\ wire[t][i].link[1] = t /\ Belongs(wire[t][i])
    BY <2>2 DEF OnWire
  <2>. QED
    BY <1>1, <2>1, <2>2, <2>3, CallsStay DEF Belongs, LinkOf
<1>5. ArrivedBelong'
  <2>1. Arrived' = Arrived
    BY <1>1 DEF Arrived, messageVars
  <2>. QED
    BY <2>1, CallsStay DEF ArrivedBelong, Belongs, LinkOf
<1>. QED
  BY <1>2, <1>3, <1>4, <1>5 DEF OnWire

LEMMA ReportStep == ReportInvariant /\ CallInvariant /\ [Next]_vars => ReportInvariant'
<1> SUFFICES ASSUME ReportInvariant, CallInvariant, [Next]_vars PROVE ReportInvariant'
  OBVIOUS
<1>1. CASE UNCHANGED vars
  BY <1>1 DEF vars, callVars, messageVars, apVars, ReportInvariant, ReportTypeOK, AskedOfAP, OnWire,
              ArrivedBelong, Arrived, Belongs, LinkOf
<1> SUFFICES ASSUME Next PROVE ReportInvariant'
  BY <1>1
<1>2. ASSUME UNCHANGED << connected, messageVars, linked, wire >>,
             atAP' \in SUBSET Call, \A c \in atAP' : c \in atAP \/ pc'[c] # "idle"
      PROVE  ReportInvariant'
  <2>1. ReportTypeOK' /\ Arrived' = Arrived
    BY <1>2 DEF ReportInvariant, ReportTypeOK, Arrived, messageVars
  <2>2. AskedOfAP'
    BY <1>2, CallsStay DEF ReportInvariant, AskedOfAP, ReportTypeOK
  <2>. QED
    BY <1>2, <2>1, <2>2, ReportsPass
<1>3. ASSUME NEW c \in Call, InCode(c)
      PROVE  ReportInvariant'
  <2>1. CASE Arrive(c)
    <3>1. atAP' \in {atAP, atAP \cup {c}} /\ pc'[c] # "idle"
      BY <2>1 DEF Arrive, Run, GoTo, CallInvariant, CallTypeOK
    <3>. QED
      BY <1>2, <2>1, <3>1 DEF Arrive, ReportInvariant, ReportTypeOK
  <2>2. CASE Enter(c)
    <3>1. atAP' \in {atAP, atAP \cup {c}} /\ pc'[c] # "idle"
      BY <2>2 DEF Enter, Run, GoTo, CallInvariant, CallTypeOK
    <3>. QED
      BY <1>2, <2>2, <3>1 DEF Enter, ReportInvariant, ReportTypeOK
  <2>3. CASE CancelQueued(c) \/ SendReturns(c) \/ SendRaises(c) \/ CancelSending(c)
             \/ Interrupt(c) \/ Resume(c)
    BY <1>2, <2>3 DEF CancelQueued, SendReturns, SendRaises, CancelSending, Interrupt, Resume,
                      apVars, ReportInvariant, ReportTypeOK
  <2>. QED
    BY <1>3, <2>1, <2>2, <2>3 DEF InCode
<1>4. ASSUME NEW c \in Call, APAnswers(c)
      PROVE  ReportInvariant'
  <2>1. c \in atAP /\ atAP' \in SUBSET atAP /\ UNCHANGED << connected, messageVars >>
    BY <1>4 DEF APAnswers
  <2>2. pc[c] # "idle"
    BY <2>1 DEF ReportInvariant, AskedOfAP
  <2>3. linked' \in SUBSET Link
    BY <1>4, <2>2, LinkOfAsked DEF APAnswers, ReportInvariant, ReportTypeOK
  <2>4. \E status \in Status : Performs(c, status)
    BY <1>4 DEF APAnswers, Status, ConnectSuccess, DisconnectedStatus
  <2>. QED
    BY <2>1, <2>2, <2>3, <2>4, PerformedReport
<1>5. ASSUME NEW l \in Link, LinkDrops(l) \/ LinkUpdate(l)
      PROVE  ReportInvariant'
  <2>1. UNCHANGED << connected, messageVars, atAP, pc >> /\ linked' \in SUBSET Link
    BY <1>5 DEF LinkDrops, LinkUpdate, ReportInvariant, ReportTypeOK, callVars
  <2>2. CASE \E status \in Status : StatusReport(l, status)
    BY <2>1, <2>2, StatusReported
  <2>3. CASE UNCHANGED wire
    <3>1. ReportTypeOK' /\ AskedOfAP' /\ Arrived' = Arrived
      BY <2>1, <2>3 DEF ReportInvariant, ReportTypeOK, AskedOfAP, Arrived, messageVars
    <3>. QED
      BY <2>1, <2>3, <3>1, ReportsPass
  <2>. QED
    BY <1>5, <2>2, <2>3 DEF LinkDrops, LinkUpdate, Status, DisconnectedStatus
<1>6. ASSUME NEW s \in Source, SourceConnects(s)
      PROVE  ReportInvariant'
  <2>1. /\ connected' = connected \cup {s}
        /\ UNCHANGED << pc, req, messageVars, atAP, linked, wire >>
    BY <1>6 DEF SourceConnects, callVars, apVars
  <2>2. ReportTypeOK' /\ AskedOfAP' /\ Arrived' = Arrived
    BY <2>1 DEF ReportInvariant, ReportTypeOK, AskedOfAP, Arrived, messageVars
  <2>. QED
    BY <2>1, <2>2, ReportsPass
<1>7. ASSUME NEW s \in Source, SourceDrops(s)
      PROVE  ReportInvariant'
  BY <1>7, DroppedReports
<1>8. CASE HandleReport
  BY <1>8, ReportHandled
<1>9. ASSUME NEW s \in Source, HandleMessage(s) \/ \E h \in Handler : MessageWaits(h, s)
      PROVE  ReportInvariant'
  BY <1>9, TakingMessage, MessageTaken
<1>10. ASSUME NEW h \in Handler, MessageResumes(h)
       PROVE  ReportInvariant'
  <2>1. ReportTypeOK' /\ AskedOfAP'
    BY <1>10, ResumingMessage DEF ReportInvariant, ReportTypeOK, AskedOfAP, callVars, apVars
  <2>. QED
    BY <1>10, <2>1, ResumingMessage, ReportsPass DEF apVars
<1>. QED
  BY <1>3, <1>4, <1>5, <1>6, <1>7, <1>8, <1>9, <1>10 DEF Next

-----------------------------------------------------------------------------
(* The runtime's books.  A future that has its result is out of both       *)
(* dictionaries; a cancelled one belongs to an interrupted call, which     *)
(* takes it out when it resumes; a call that has not run yet has neither.  *)
BookTypeOK ==
  /\ pending     \in SUBSET Call
  /\ contexts    \in SUBSET Call
  /\ future      \in [Call -> Status \cup {"unset", "cancelled"}]
  /\ interrupted \in SUBSET Call
  /\ active      \in SUBSET Link
  /\ lost        \in SUBSET Link

FuturesInStep ==
  \A c \in Call :
    /\ InFlight(c) /\ future[c] \notin {"unset", "cancelled"} => c \notin contexts
    /\ InFlight(c) /\ future[c] = "cancelled" => c \in interrupted
    /\ c \in interrupted => pc[c] = "waiting"
    /\ pc[c] \in {"idle", "queued"} => future[c] = "unset"
    /\ pc[c] = "waiting" => req[c].wait

Registrations ==
  BookTypeOK /\ WaiterIsRegistered /\ RegistrationsAccountedFor /\ FuturesInStep

RegisteredHaveRoutes == \A c \in contexts : req[c].source \in connected

Links == RegisteredHaveRoutes /\ ActiveNotLost

(* Whatever the cause, actions leave both dictionaries together and those  *)
(* that still waited get a result.                                         *)
LEMMA Settling ==
  ASSUME Registrations, NEW gone \in SUBSET Call,
         UNCHANGED << pc, req, interrupted >>,
         pending' = pending \ gone, contexts' = contexts \ gone,
         active' \in SUBSET Link, lost' \in SUBSET Link,
         future' \in [Call -> Status \cup {"unset", "cancelled"}],
         \A c \in Call : IF c \in gone \cap pending /\ future[c] = "unset"
                           THEN future'[c] \in Status ELSE future'[c] = future[c]
  PROVE  Registrations'
<1> USE DEF Registrations
<1>1. "unset" \notin Status /\ "cancelled" \notin Status
  BY DEF Status, ConnectSuccess, DisconnectedStatus
<1>2. BookTypeOK'
  BY DEF BookTypeOK
<1>3. WaiterIsRegistered'
  BY <1>1 DEF WaiterIsRegistered, InFlight, BookTypeOK
<1>4. RegistrationsAccountedFor'
  BY DEF RegistrationsAccountedFor, InFlight
<1>5. FuturesInStep'
  BY <1>1 DEF FuturesInStep, RegistrationsAccountedFor, InFlight, BookTypeOK
<1>. QED
  BY <1>2, <1>3, <1>4, <1>5

(* Nobody's registration changes. *)
LEMMA OnlyLinksChange ==
  ASSUME Registrations, UNCHANGED << pc, req, interrupted, pending, contexts, future >>,
         active' \in SUBSET Link, lost' \in SUBSET Link
  PROVE  Registrations'
BY DEF Registrations, BookTypeOK, WaiterIsRegistered, RegistrationsAccountedFor,
       FuturesInStep, InFlight

LEMMA Disconnecting ==
  ASSUME Registrations, UNCHANGED << pc, req, interrupted >>,
         NEW link \in Link, NEW status \in Status,
         NEW answered \in SUBSET Call, NEW answer \in Status \cup {"unset"},
         answered # {} => answer \in Status,
         MarkDisconnected(link, status, answered, answer)
  PROVE  Registrations' /\ active' = active \ {link} /\ lost' = lost \cup {link}
<1> DEFINE failing == {c \in contexts \ answered : LinkOf(c) = link}
<1>1. /\ active' = active \ {link} /\ lost' = lost \cup {link}
      /\ contexts' = contexts \ (answered \cup failing)
      /\ pending' = pending \ (answered \cup failing)
      /\ future' = Settled(Settled(future, failing, status), answered, answer)
  BY DEF MarkDisconnected
<1>2. failing \in SUBSET Call
  BY DEF Registrations, BookTypeOK
<1> HIDE DEF failing
<1>3. "unset" \notin Status
  BY DEF Status, ConnectSuccess, DisconnectedStatus
<1>4. \A c \in Call :
        future'[c] = IF c \in answered \cap pending
                        /\ (IF c \in failing \cap pending /\ future[c] = "unset"
                              THEN status ELSE future[c]) = "unset"
                       THEN answer
                       ELSE IF c \in failing \cap pending /\ future[c] = "unset"
                              THEN status ELSE future[c]
  BY <1>1 DEF Settled
<1>5. \A c \in Call : IF c \in (answered \cup failing) \cap pending /\ future[c] = "unset"
                        THEN future'[c] \in Status ELSE future'[c] = future[c]
  BY <1>3, <1>4
<1>6. future' \in [Call -> Status \cup {"unset", "cancelled"}]
  <2>1. \A c \in Call : future'[c] \in Status \cup {"unset", "cancelled"}
    BY <1>4 DEF Registrations, BookTypeOK
  <2>2. \E f : future' = [c \in Call |-> f[c]]
    BY <1>1 DEF Settled
  <2>. QED
    BY <2>1, <2>2
<1>7. active' \in SUBSET Link /\ lost' \in SUBSET Link
  BY <1>1 DEF Registrations, BookTypeOK
<1>. QED
  BY <1>1, <1>2, <1>5, <1>6, <1>7, Settling

LEMMA Answering ==
  ASSUME Registrations, UNCHANGED << pc, req, interrupted >>,
         NEW c \in Call, NEW status \in Status,
         Forget(c), future' = Settled(future, {c}, status),
         active' \in SUBSET Link, lost' \in SUBSET Link
  PROVE  Registrations'
<1>1. \A d \in Call : future'[d] = IF d \in {c} \cap pending /\ future[d] = "unset"
                                     THEN status ELSE future[d]
  BY DEF Settled
<1>2. future' \in [Call -> Status \cup {"unset", "cancelled"}]
  BY DEF Settled, Registrations, BookTypeOK
<1>. QED
  BY <1>1, <1>2, Settling DEF Forget

(* The invariant: its three layers together. *)
ActionInvariant == CallInvariant /\ ReportInvariant /\ Registrations /\ Links

(* A call that gets its lock ends or is registered. *)
LEMMA Running ==
  ASSUME ActionInvariant, NEW c \in Call, NEW r \in Request,
         pc[c] \in {"idle", "queued"}, \E rest : Run(c, r, rest),
         req' = [req EXCEPT ![c] = r],
         UNCHANGED << interrupted, future, active, lost, connected >>
  PROVE  Registrations' /\ Links'
<1> USE DEF ActionInvariant, Registrations, CallInvariant
<1>1. c \notin contexts /\ future[c] = "unset" /\ c \notin interrupted
  BY DEF RegistrationsAccountedFor, InFlight, FuturesInStep
<1>2. \A d \in Call : d # c => pc'[d] = pc[d] /\ req'[d] = req[d]
  BY DEF Run, GoTo, CallTypeOK
<1>3. req'[c] = r
  BY DEF CallTypeOK
<1>4. CASE pc'[c] = "done" /\ UNCHANGED << pending, contexts >>
  <2>1. BookTypeOK' /\ WaiterIsRegistered'
    BY <1>2, <1>4 DEF BookTypeOK, WaiterIsRegistered, InFlight
  <2>2. RegistrationsAccountedFor' /\ FuturesInStep'
    BY <1>1, <1>2, <1>4 DEF RegistrationsAccountedFor, InFlight, FuturesInStep, BookTypeOK
  <2>3. Links'
    BY <1>1, <1>2, <1>4 DEF Links, RegisteredHaveRoutes, ActiveNotLost, BookTypeOK
  <2>. QED
    BY <2>1, <2>2, <2>3
<1>5. CASE /\ pc'[c] = "sending" /\ r.source \in connected
           /\ pending'  = IF r.wait THEN pending \cup {c} ELSE pending
           /\ contexts' = IF r.wait THEN contexts \cup {c} ELSE contexts
  <2>1. BookTypeOK' /\ WaiterIsRegistered'
    BY <1>1, <1>2, <1>3, <1>5 DEF BookTypeOK, WaiterIsRegistered, InFlight
  <2>2. RegistrationsAccountedFor'
    BY <1>1, <1>2, <1>3, <1>5 DEF RegistrationsAccountedFor, InFlight, BookTypeOK
  <2>3. FuturesInStep'
    BY <1>1, <1>2, <1>3, <1>5 DEF FuturesInStep, InFlight, BookTypeOK
  <2>4. Links'
    BY <1>1, <1>2, <1>3, <1>5 DEF Links, RegisteredHaveRoutes, ActiveNotLost, BookTypeOK
  <2>. QED
    BY <2>1, <2>2, <2>3, <2>4
<1>. QED
  BY <1>4, <1>5 DEF Run, GoTo, CallTypeOK

(* A call in flight ends; unless it was cancelled while sending it is in   *)
(* neither dictionary any more.                                            *)
LEMMA Ending ==
  ASSUME ActionInvariant, NEW c \in Call, NEW p \in Ended, InFlight(c), EndAs(c, p),
         \/ p = "done" /\ Forget(c)
         \/ p = "done" /\ c \notin contexts /\ UNCHANGED << pending, contexts >>
         \/ p = "cancelledSending" /\ pc[c] = "sending" /\ UNCHANGED << pending, contexts >>,
         interrupted' = interrupted \ {c},
         UNCHANGED << req, active, lost, connected >>
  PROVE  Registrations' /\ Links'
<1> USE DEF ActionInvariant, Registrations
<1>1. /\ pc' = [pc EXCEPT ![c] = p] /\ future' = [future EXCEPT ![c] = "unset"]
      /\ p \notin {"idle", "queued", "sending", "waiting"}
  BY DEF EndAs, GoTo, Ended
<1>2. /\ contexts' \in SUBSET contexts /\ pending' = contexts'
      /\ \A d \in Call : d # c => (d \in contexts' <=> d \in contexts)
      /\ c \in contexts' => p = "cancelledSending"
  BY DEF Forget, RegistrationsAccountedFor, BookTypeOK
<1>3. pc'[c] = p /\ \A d \in Call : d # c => pc'[d] = pc[d] /\ future'[d] = future[d]
  BY <1>1 DEF CallInvariant, CallTypeOK, BookTypeOK
<1>4. BookTypeOK'
  BY <1>1, <1>2 DEF BookTypeOK
<1>5. WaiterIsRegistered' /\ RegistrationsAccountedFor'
  BY <1>1, <1>2, <1>3 DEF WaiterIsRegistered, RegistrationsAccountedFor, InFlight, BookTypeOK
<1>6. FuturesInStep'
  BY <1>1, <1>2, <1>3 DEF FuturesInStep, InFlight, BookTypeOK
<1>7. Links'
  BY <1>2 DEF Links, RegisteredHaveRoutes, ActiveNotLost, BookTypeOK
<1>. QED
  BY <1>4, <1>5, <1>6, <1>7

LEMMA CallBooks ==
  ASSUME ActionInvariant, NEW c \in Call, InCode(c)
  PROVE  Registrations' /\ Links'
<1> USE DEF ActionInvariant, Registrations
<1>1. CASE Arrive(c)
  <2>1. pc[c] = "idle" /\ UNCHANGED << interrupted, future, active, lost, connected >>
    BY <1>1 DEF Arrive
  <2>2. PICK r \in Request :
          /\ req' = [req EXCEPT ![c] = r]
          /\ \/ Run(c, r, << >>)
             \/ GoTo(c, "queued") /\ UNCHANGED << pending, contexts >>
    BY <1>1 DEF Arrive
  <2>3. CASE Run(c, r, << >>)
    <3>1. pc[c] \in {"idle", "queued"}
      BY <2>1
    <3> HIDE DEF ActionInvariant, Registrations
    <3>. QED
      BY <2>1, <2>2, <2>3, <3>1, Running
  <2>4. CASE GoTo(c, "queued") /\ UNCHANGED << pending, contexts >>
    <3>1. c \notin contexts /\ c \notin interrupted /\ future[c] = "unset"
      BY <2>1 DEF RegistrationsAccountedFor, InFlight, FuturesInStep
    <3>2. pc'[c] = "queued" /\ \A d \in Call : d # c => pc'[d] = pc[d] /\ req'[d] = req[d]
      BY <2>2, <2>4 DEF GoTo, CallInvariant, CallTypeOK
    <3>3. BookTypeOK' /\ WaiterIsRegistered' /\ RegistrationsAccountedFor'
      BY <2>1, <2>4, <3>1, <3>2 DEF BookTypeOK, WaiterIsRegistered, RegistrationsAccountedFor, InFlight
    <3>4. FuturesInStep'
      BY <2>1, <2>4, <3>1, <3>2 DEF BookTypeOK, FuturesInStep, InFlight
    <3>5. Links'
      BY <2>1, <2>4, <3>1, <3>2 DEF Links, RegisteredHaveRoutes, ActiveNotLost, BookTypeOK
    <3>. QED
      BY <3>3, <3>4, <3>5
  <2>. QED
    BY <2>2, <2>3, <2>4
<1>2. CASE Enter(c)
  <2>1. pc[c] = "queued" /\ req[c] \in Request
    BY <1>2 DEF Enter, CallInvariant, HasAsked
  <2>2. req' = [req EXCEPT ![c] = req[c]]
    BY <1>2 DEF Enter, CallInvariant, CallTypeOK
  <2>3. /\ Run(c, req[c], Tail(LineOf(req[c])))
        /\ UNCHANGED << interrupted, future, active, lost, connected >>
    BY <1>2 DEF Enter
  <2>4. pc[c] \in {"idle", "queued"}
    BY <2>1
  <2> HIDE DEF ActionInvariant, Registrations
  <2>. QED
    BY <2>1, <2>2, <2>3, <2>4, Running
<1>3. CASE CancelQueued(c)
  <2>1. pc' = [pc EXCEPT ![c] = "done"] /\ pc[c] = "queued"
    BY <1>3 DEF CancelQueued, GoTo
  <2>2. UNCHANGED << req, interrupted, pending, contexts, future, active, lost, connected >>
    BY <1>3 DEF CancelQueued, runtimeVars
  <2>3. c \notin contexts
    BY <2>1 DEF RegistrationsAccountedFor, InFlight
  <2>4. BookTypeOK' /\ WaiterIsRegistered' /\ RegistrationsAccountedFor'
    BY <2>1, <2>2, <2>3 DEF BookTypeOK, WaiterIsRegistered, RegistrationsAccountedFor, InFlight,
                            CallInvariant, CallTypeOK
  <2>5. FuturesInStep'
    BY <2>1, <2>2, <2>3 DEF BookTypeOK, FuturesInStep, InFlight, CallInvariant, CallTypeOK
  <2>6. Links'
    BY <2>2 DEF Links, RegisteredHaveRoutes, ActiveNotLost
  <2>. QED
    BY <2>4, <2>5, <2>6
<1>4. CASE SendReturns(c)
  <2>1. /\ pc[c] = "sending"
        /\ UNCHANGED << req, interrupted, pending, contexts, active, lost, connected >>
    BY <1>4 DEF SendReturns
  <2>2. c \notin interrupted /\ future[c] # "cancelled"
    BY <2>1 DEF FuturesInStep, InFlight
  <2>3. CASE /\ req[c].wait /\ future[c] = "unset"
             /\ GoTo(c, "waiting") /\ UNCHANGED future
    <3>1. pc'[c] = "waiting" /\ \A d \in Call : d # c => pc'[d] = pc[d]
      BY <2>3 DEF GoTo, CallInvariant, CallTypeOK
    <3>2. BookTypeOK' /\ WaiterIsRegistered' /\ RegistrationsAccountedFor'
      BY <2>1, <2>3, <3>1 DEF BookTypeOK, WaiterIsRegistered, RegistrationsAccountedFor, InFlight
    <3>3. FuturesInStep'
      BY <2>1, <2>2, <2>3, <3>1 DEF FuturesInStep, InFlight, BookTypeOK
    <3>4. Links'
      BY <2>1 DEF Links, RegisteredHaveRoutes, ActiveNotLost
    <3>. QED
      BY <3>2, <3>3, <3>4
  <2>4. CASE EndAs(c, "done") /\ (~ req[c].wait \/ future[c] # "unset")
    <3>1. c \notin contexts
      BY <2>1, <2>2, <2>4 DEF RegistrationsAccountedFor, FuturesInStep, InFlight
    <3>. QED
      BY <2>1, <2>2, <2>4, <3>1, Ending DEF InFlight, Ended
  <2>. QED
    BY <1>4, <2>3, <2>4 DEF SendReturns
<1>5. CASE SendRaises(c)
  <2>1. pc[c] = "sending" /\ c \notin interrupted
    BY <1>5 DEF SendRaises, FuturesInStep
  <2>. QED
    BY <1>5, <2>1, Ending DEF SendRaises, InFlight, Ended
<1>6. CASE CancelSending(c)
  <2>1. pc[c] = "sending" /\ c \notin interrupted
    BY <1>6 DEF CancelSending, FuturesInStep
  <2>. QED
    BY <1>6, <2>1, Ending DEF CancelSending, InFlight, Ended
<1>7. CASE Interrupt(c)
  <2>1. /\ pc[c] = "waiting" /\ c \notin interrupted
        /\ interrupted' = interrupted \cup {c}
        /\ future' = [future EXCEPT ![c] = IF future[c] = "unset" THEN "cancelled" ELSE future[c]]
        /\ UNCHANGED << pc, req, pending, contexts, active, lost, connected >>
    BY <1>7 DEF Interrupt, BookTypeOK
  <2>2. BookTypeOK' /\ WaiterIsRegistered' /\ RegistrationsAccountedFor'
    BY <2>1 DEF BookTypeOK, WaiterIsRegistered, RegistrationsAccountedFor, InFlight
  <2>3. FuturesInStep'
    BY <2>1 DEF FuturesInStep, InFlight, BookTypeOK
  <2>4. Links'
    BY <2>1 DEF Links, RegisteredHaveRoutes, ActiveNotLost
  <2>. QED
    BY <2>2, <2>3, <2>4
<1>8. CASE Resume(c)
  <2>1. pc[c] = "waiting" /\ future[c] # "unset" /\ EndAs(c, "done")
    BY <1>8 DEF Resume
  <2>2. CASE c \in interrupted
    BY <1>8, <2>1, <2>2, Ending DEF Resume, InFlight, Ended
  <2>3. CASE c \notin interrupted
    <3>1. c \notin contexts
      BY <2>1, <2>3 DEF FuturesInStep, InFlight
    <3>. QED
      BY <1>8, <2>1, <2>3, <3>1, Ending DEF Resume, InFlight, Ended
  <2>. QED
    BY <2>2, <2>3
<1>. QED
  BY <1>1, <1>2, <1>3, <1>4, <1>5, <1>6, <1>7, <1>8 DEF InCode

(* Fewer actions, and one link more or less in the record. *)
LEMMA LinksKept ==
  ASSUME ActionInvariant, UNCHANGED << req, connected >>,
         contexts' \subseteq contexts, NEW link \in Link,
         \/ active' = active \ {link} /\ lost' = lost \cup {link}
         \/ active' = active \cup {link} /\ lost' = lost \ {link}
         \/ UNCHANGED << active, lost >>
  PROVE  Links' /\ active' \in SUBSET Link /\ lost' \in SUBSET Link
<1>1. RegisteredHaveRoutes'
  BY DEF ActionInvariant, Links, RegisteredHaveRoutes
<1>2. ActiveNotLost'
  BY DEF ActionInvariant, Links, ActiveNotLost
<1>. QED
  BY <1>1, <1>2 DEF Links, ActionInvariant, Registrations, BookTypeOK

LEMMA StatusBooks ==
  ASSUME ActionInvariant, UNCHANGED << pc, req, interrupted, connected >>,
         NEW e \in Report, HandleStatus(e)
  PROVE  Registrations' /\ Links'
<1>1. e.link \in Link /\ e.status \in Status
  BY DEF Report
<1>2. CASE MarkDisconnected(e.link, e.status, {}, "unset")
  <2>1. Registrations' /\ active' = active \ {e.link} /\ lost' = lost \cup {e.link}
    BY <1>1, <1>2, Disconnecting DEF ActionInvariant
  <2>2. contexts' \subseteq contexts
    BY <1>2 DEF MarkDisconnected
  <2>. QED
    BY <1>1, <2>1, <2>2, LinksKept
<1>3. CASE MarkActive(e.link) /\ UNCHANGED << pending, contexts, future >>
  <2>1. Links' /\ active' \in SUBSET Link /\ lost' \in SUBSET Link
    BY <1>1, <1>3, LinksKept DEF MarkActive
  <2>. QED
    BY <1>3, <2>1, OnlyLinksChange DEF ActionInvariant
<1>. QED
  BY <1>2, <1>3 DEF HandleStatus

LEMMA ResultBooks ==
  ASSUME ActionInvariant, UNCHANGED << pc, req, interrupted, connected >>,
         NEW e \in Report, Belongs(e), IsResult(e), HandleResult(e)
  PROVE  Registrations' /\ Links'
<1> DEFINE c == e.call
<1>1. c \in Call /\ LinkOf(c) \in Link /\ e.status \in Status
  BY LinkOfAsked DEF Belongs, ActionInvariant, Report
<1>2. CASE \E status \in Status : MarkDisconnected(LinkOf(c), status, {c}, e.status)
  <2>1. PICK status \in Status : MarkDisconnected(LinkOf(c), status, {c}, e.status)
    BY <1>2
  <2>2. Registrations' /\ active' = active \ {LinkOf(c)} /\ lost' = lost \cup {LinkOf(c)}
    BY <1>1, <2>1, Disconnecting DEF ActionInvariant
  <2>3. contexts' \subseteq contexts
    BY <2>1 DEF MarkDisconnected
  <2>. QED
    BY <1>1, <2>2, <2>3, LinksKept
<1>3. CASE /\ Forget(c) /\ future' = Settled(future, {c}, e.status)
           /\ MarkActive(LinkOf(c)) \/ UNCHANGED << active, lost >>
  <2>1. contexts' \subseteq contexts
    BY <1>3 DEF Forget
  <2>2. Links' /\ active' \in SUBSET Link /\ lost' \in SUBSET Link
    BY <1>1, <1>3, <2>1, LinksKept DEF MarkActive
  <2>. QED
    BY <1>1, <1>3, <2>2, Answering DEF ActionInvariant
<1>4. "deviceDisconnected" \in Status
  BY DEF Status, DisconnectedStatus
<1>. QED
  BY <1>1, <1>2, <1>3, <1>4 DEF HandleResult

LEMMA ReportBooks ==
  ASSUME ActionInvariant, HandleReport
  PROVE  Registrations' /\ Links'
<1>1. PICK e \in Report :
        /\ Belongs(e) /\ Arrived = Arrived' \cup {e}
        /\ \/ ~ IsResult(e) /\ HandleStatus(e)
           \/ IsResult(e) /\ HandleResult(e)
        /\ UNCHANGED << callVars, connected, apVars >>
  BY HandlingReport DEF ActionInvariant
<1>. QED
  BY <1>1, StatusBooks, ResultBooks DEF callVars

LEMMA DropBooks ==
  ASSUME ActionInvariant, NEW s \in Source, SourceDrops(s)
  PROVE  Registrations' /\ Links'
<1>1. /\ UNCHANGED << pc, req, interrupted >> /\ connected' = connected \ {s}
      /\ active' = {l \in active : l[1] # s}
      /\ contexts' = contexts \ OfSource(s) /\ pending' = pending \ OfSource(s)
      /\ future' = Settled(future, OfSource(s), "sourceDisconnected")
  BY DEF SourceDrops, callVars
<1>2. PICK others \in SUBSET Device : lost' = lost \cup (active \ active') \cup ({s} \X others)
  BY DEF SourceDrops
<1>3. active' \in SUBSET Link /\ lost' \in SUBSET Link
  BY <1>1, <1>2 DEF ActionInvariant, Registrations, BookTypeOK, Link
<1>4. OfSource(s) \in SUBSET Call
  BY DEF OfSource, ActionInvariant, Registrations, BookTypeOK
<1>5. "sourceDisconnected" \in Status
  BY DEF Status, DisconnectedStatus
<1>6. \A c \in Call : future'[c] = IF c \in OfSource(s) \cap pending /\ future[c] = "unset"
                                     THEN "sourceDisconnected" ELSE future[c]
  BY <1>1 DEF Settled
<1>7. future' \in [Call -> Status \cup {"unset", "cancelled"}]
  BY <1>1, <1>5 DEF Settled, ActionInvariant, Registrations, BookTypeOK
<1>8. Registrations'
  BY <1>1, <1>3, <1>4, <1>5, <1>6, <1>7, Settling DEF ActionInvariant
<1>9. RegisteredHaveRoutes'
  BY <1>1 DEF ActionInvariant, Links, RegisteredHaveRoutes, OfSource
<1>10. ActiveNotLost'
  <2>1. \A l \in {s} \X others : l[1] = s
    OBVIOUS
  <2>. QED
    BY <1>1, <1>2, <2>1 DEF ActionInvariant, Links, ActiveNotLost
<1>. QED
  BY <1>8, <1>9, <1>10 DEF Links

LEMMA BookStep == ActionInvariant /\ [Next]_vars => Registrations' /\ Links'
<1> SUFFICES ASSUME ActionInvariant, [Next]_vars PROVE Registrations' /\ Links'
  OBVIOUS
<1>1. ASSUME UNCHANGED << pc, req, interrupted, pending, contexts, future, active, lost >>,
             connected \subseteq connected'
      PROVE  Registrations' /\ Links'
  <2>1. Registrations'
    BY <1>1, OnlyLinksChange DEF ActionInvariant, Registrations, BookTypeOK
  <2>2. Links'
    BY <1>1 DEF ActionInvariant, Links, RegisteredHaveRoutes, ActiveNotLost
  <2>. QED
    BY <2>1, <2>2
<1>2. CASE UNCHANGED vars
  BY <1>1, <1>2 DEF vars, callVars, runtimeVars
<1>3. ASSUME NEW c \in Call, APAnswers(c)
      PROVE  Registrations' /\ Links'
  BY <1>1, <1>3 DEF APAnswers, callVars, runtimeVars
<1>4. ASSUME NEW s \in Source, HandleMessage(s) \/ SourceConnects(s)
      PROVE  Registrations' /\ Links'
  BY <1>1, <1>4 DEF HandleMessage, SourceConnects, callVars, runtimeVars
<1>5. ASSUME NEW l \in Link, LinkDrops(l) \/ LinkUpdate(l)
      PROVE  Registrations' /\ Links'
  BY <1>1, <1>5 DEF LinkDrops, LinkUpdate, callVars, runtimeVars
<1>6. ASSUME NEW h \in Handler, MessageResumes(h) \/ \E s \in Source : MessageWaits(h, s)
      PROVE  Registrations' /\ Links'
  BY <1>1, <1>6 DEF MessageResumes, MessageWaits, callVars, runtimeVars
<1>. QED
  BY <1>2, <1>3, <1>4, <1>5, <1>6, CallBooks, ReportBooks, DropBooks DEF Next

-----------------------------------------------------------------------------

LEMMA InitActions == Init => ActionInvariant
<1> SUFFICES ASSUME Init PROVE ActionInvariant
  OBVIOUS
<1> USE DEF Init
<1>1. CallInvariant
  <2>1. CallTypeOK
    BY EmptySeq DEF CallTypeOK
  <2>. QED
    BY <2>1 DEF CallInvariant, HasAsked, QueuedInLine, InFlightIsFirst, InFlight
<1>2. ReportInvariant
  <2>1. << >> \in Seq(Report)
    BY EmptySeq
  <2>. QED
    BY <2>1 DEF ReportInvariant, ReportTypeOK, AskedOfAP, OnWire, ArrivedBelong, Arrived, ToSet
<1>3. Registrations /\ Links
  BY DEF Registrations, BookTypeOK, WaiterIsRegistered, RegistrationsAccountedFor, FuturesInStep,
         InFlight, Links, RegisteredHaveRoutes, ActiveNotLost
<1>. QED
  BY <1>1, <1>2, <1>3 DEF ActionInvariant

LEMMA ActionStep == ActionInvariant /\ [Next]_vars => ActionInvariant'
<1>1. ActionInvariant => CallInvariant /\ ReportInvariant
  BY DEF ActionInvariant
<1>2. CallInvariant' /\ ReportInvariant' /\ Registrations' /\ Links' => ActionInvariant'
  BY DEF ActionInvariant
<1>. QED
  BY <1>1, <1>2, CallStep, ReportStep, BookStep

(* Every reachable state satisfies the three layers of the invariant.      *)
THEOREM ActionsInvariant == Spec => []ActionInvariant
BY InitActions, ActionStep, PTL DEF Spec

(* No answer is lost: an unsettled call in flight is in both dictionaries. *)
THEOREM WaitersAreRegistered == Spec => []WaiterIsRegistered
<1>1. ActionInvariant => WaiterIsRegistered
  BY DEF ActionInvariant, Registrations
<1>. QED
  BY <1>1, ActionsInvariant, PTL

(* Only calls under way, and those cancelled while sending, are in the     *)
(* dictionaries, and the two agree.                                        *)
THEOREM RegistrationsAreAccountedFor == Spec => []RegistrationsAccountedFor
<1>1. ActionInvariant => RegistrationsAccountedFor
  BY DEF ActionInvariant, Registrations
<1>. QED
  BY <1>1, ActionsInvariant, PTL

(* The two records of links never contradict each other. *)
THEOREM ActiveIsNeverLost == Spec => []ActiveNotLost
<1>1. ActionInvariant => ActiveNotLost
  BY DEF ActionInvariant, Links
<1>. QED
  BY <1>1, ActionsInvariant, PTL

-----------------------------------------------------------------------------
(* Answers and the record of links *)

Answered(c) == future[c] = "unset" /\ future'[c] # "unset" /\ future'[c] # "cancelled"

Matches(c) ==
  /\ req[c].type = "connect" /\ Succeeded("connect", future'[c])
       => LinkOf(c) \in active' \ lost'
  /\ \/ req[c].type = "disconnect" /\ Succeeded("disconnect", future'[c])
     \/ future'[c] \in DisconnectedStatus
       => LinkOf(c) \notin active'

LEMMA NotConnectedMatches ==
  ASSUME NEW c \in Call, future'[c] \in DisconnectedStatus, LinkOf(c) \notin active'
  PROVE  Matches(c)
BY DEF Matches, Succeeded, ConnectSuccess, DisconnectedStatus

LEMMA StatusMatches ==
  ASSUME ActionInvariant, NEW e \in Report, HandleStatus(e), NEW c \in Call, Answered(c)
  PROVE  Matches(c)
<1>1. CASE e.status \in DisconnectedStatus /\ MarkDisconnected(e.link, e.status, {}, "unset")
  <2>1. LinkOf(c) = e.link /\ future'[c] = e.status /\ active' = active \ {e.link}
    BY <1>1 DEF MarkDisconnected, Settled, Answered
  <2>. QED
    BY <1>1, <2>1, NotConnectedMatches
<1>2. CASE UNCHANGED future
  BY <1>2 DEF Answered
<1>. QED
  BY <1>1, <1>2 DEF HandleStatus

LEMMA ResultMatches ==
  ASSUME ActionInvariant, NEW e \in Report, Belongs(e), IsResult(e), HandleResult(e),
         NEW c \in Call, Answered(c)
  PROVE  Matches(c)
<1> DEFINE a == e.call
           type == req[a].type
           identified == e.named \/ a \in contexts
           status == IF type = "disconnect" THEN "deviceDisconnected" ELSE e.status
<1>1. a \in Call /\ type \in ActionType
  BY RequestAssumption DEF Belongs, ActionInvariant, CallInvariant, HasAsked
<1>2. CASE ShowsNoLink(type, e.status) /\ MarkDisconnected(LinkOf(a), status, {a}, e.status)
  <2>1. active' = active \ {LinkOf(a)}
    BY <1>2 DEF MarkDisconnected
  <2>2. status \in DisconnectedStatus
    BY <1>2 DEF ShowsNoLink, DisconnectedStatus
  <2>3. \/ LinkOf(c) = LinkOf(a) /\ future'[c] = status
        \/ c = a /\ future'[c] = e.status
    BY <1>2 DEF MarkDisconnected, Settled, Answered
  <2>4. CASE LinkOf(c) = LinkOf(a) /\ future'[c] = status
    BY <2>1, <2>2, <2>4, NotConnectedMatches
  <2>5. CASE c = a /\ future'[c] = e.status
    BY <1>2, <2>1, <2>5 DEF Matches, ShowsNoLink
  <2>. QED
    BY <2>3, <2>4, <2>5
<1>3. CASE /\ ~ (identified /\ ShowsNoLink(type, e.status))
           /\ future' = Settled(future, {a}, e.status)
           /\ IF identified /\ type = "connect" /\ Succeeded(type, e.status)
                THEN MarkActive(LinkOf(a)) ELSE UNCHANGED << active, lost >>
  <2>1. c = a /\ a \in pending /\ future'[a] = e.status
    BY <1>3 DEF Settled, Answered
  <2>2. identified
    BY <2>1 DEF ActionInvariant, Registrations, RegistrationsAccountedFor
  <2>3. ~ ShowsNoLink(type, e.status)
    BY <1>3, <2>2
  <2>4. ASSUME type = "connect", Succeeded("connect", e.status)
        PROVE  LinkOf(a) \in active' \ lost'
    BY <1>3, <2>2, <2>4 DEF MarkActive
  <2>5. ~ (type = "disconnect" /\ Succeeded("disconnect", e.status))
    BY <2>3 DEF ShowsNoLink
  <2>6. e.status \notin DisconnectedStatus
    BY <1>1, <2>3 DEF ShowsNoLink, Succeeded, ActionType, ConnectSuccess, DisconnectedStatus,
                      DisconnectSuccess
  <2>. QED
    BY <2>1, <2>4, <2>5, <2>6 DEF Matches
<1>. QED
  BY <1>2, <1>3 DEF HandleResult

LEMMA DropMatches ==
  ASSUME ActionInvariant, NEW s \in Source, SourceDrops(s), NEW c \in Call, Answered(c)
  PROVE  Matches(c)
<1>1. c \in OfSource(s) /\ future'[c] = "sourceDisconnected"
  BY DEF SourceDrops, Settled, Answered
<1>2. LinkOf(c)[1] = s /\ active' = {l \in active : l[1] # s}
  BY <1>1 DEF OfSource, LinkOf, SourceDrops
<1>. QED
  BY <1>1, <1>2, NotConnectedMatches DEF DisconnectedStatus

LEMMA AnswerStep ==
  ASSUME ActionInvariant, [Next]_vars, NEW c \in Call, Answered(c)
  PROVE  Matches(c)
<1>1. ASSUME NEW d \in Call, InCode(d)
      PROVE  ~ Answered(c)
  BY <1>1 DEF InCode, Arrive, Enter, CancelQueued, SendReturns, SendRaises, CancelSending,
              Interrupt, Resume, EndAs, runtimeVars, Answered, ActionInvariant, Registrations, BookTypeOK
<1>2. CASE UNCHANGED future
  BY <1>2 DEF Answered
<1>3. ASSUME NEW d \in Call, APAnswers(d)
      PROVE  UNCHANGED future
  BY <1>3 DEF APAnswers, runtimeVars
<1>4. ASSUME NEW s \in Source, HandleMessage(s) \/ SourceConnects(s)
      PROVE  UNCHANGED future
  BY <1>4 DEF HandleMessage, SourceConnects, runtimeVars
<1>5. ASSUME NEW l \in Link, LinkDrops(l) \/ LinkUpdate(l)
      PROVE  UNCHANGED future
  BY <1>5 DEF LinkDrops, LinkUpdate, runtimeVars
<1>6. CASE HandleReport
  <2>1. PICK e \in Report :
          /\ Belongs(e) /\ Arrived = Arrived' \cup {e}
          /\ \/ ~ IsResult(e) /\ HandleStatus(e)
             \/ IsResult(e) /\ HandleResult(e)
          /\ UNCHANGED << callVars, connected, apVars >>
    BY <1>6, HandlingReport DEF ActionInvariant
  <2>. QED
    BY <2>1, StatusMatches, ResultMatches
<1>7. CASE UNCHANGED vars
  BY <1>2, <1>7 DEF vars, runtimeVars
<1>8. ASSUME NEW h \in Handler, MessageResumes(h) \/ \E s \in Source : MessageWaits(h, s)
      PROVE  UNCHANGED future
  BY <1>8 DEF MessageResumes, MessageWaits, runtimeVars
<1>. QED
  BY <1>1, <1>2, <1>3, <1>4, <1>5, <1>6, <1>7, <1>8, DropMatches DEF Next

(* No answer runs ahead of the record of links, for connects, disconnects  *)
(* and actions that failed because their link was gone.                    *)
THEOREM AnswersAlwaysMatch == Spec => AnswersMatchBooks
<1>1. ActionInvariant /\ [Next]_vars =>
        [\A c \in Call : Answered(c) => Matches(c)]_vars
  BY AnswerStep DEF ActionInvariant
<1>2. [\A c \in Call : Answered(c) => Matches(c)]_vars =>
        [\A c \in Call : future[c] = "unset" /\ future'[c] # "unset" /\ future'[c] # "cancelled" =>
           /\ req[c].type = "connect" /\ Succeeded("connect", future'[c])
                => LinkOf(c) \in active' \ lost'
           /\ \/ req[c].type = "disconnect" /\ Succeeded("disconnect", future'[c])
              \/ future'[c] \in DisconnectedStatus
                => LinkOf(c) \notin active']_vars
  BY DEF Answered, Matches
<1>. QED
  BY <1>1, <1>2, ActionsInvariant, PTL DEF Spec, AnswersMatchBooks

-----------------------------------------------------------------------------
(* The lines: who is in one waits for its lock or holds it, and once only. *)
MembersAsked ==
  \A k \in Key : \A i \in DOMAIN line[k] :
    LET c == line[k][i] IN (pc[c] = "queued" \/ InFlight(c)) /\ KeyOf(req[c]) = k

InLineOnce ==
  \A k \in Key : \A i, j \in DOMAIN line[k] : line[k][i] = line[k][j] => i = j

LineInvariant == MembersAsked /\ InLineOnce

LEMMA LinesAreOfCalls ==
  ASSUME CallInvariant, NEW k \in Key
  PROVE  line[k] \in Seq(Call) /\ \A i \in DOMAIN line[k] : line[k][i] \in Call
<1>1. line[k] \in Seq(Call)
  BY DEF CallInvariant, CallTypeOK
<1>. QED
  BY <1>1, ElementOfSeq, LenProperties

(* Who is in a line stays in it. *)
LEMMA LinesStay ==
  ASSUME CallInvariant, LineInvariant, line' = line,
         \A c \in Call : pc[c] \in {"queued", "sending", "waiting"} =>
           pc'[c] \in {"queued", "sending", "waiting"} /\ req'[c] = req[c]
  PROVE  LineInvariant'
<1>1. \A k \in Key : \A i \in DOMAIN line[k] :
        /\ line[k][i] \in Call /\ pc[line[k][i]] \in {"queued", "sending", "waiting"}
        /\ KeyOf(req[line[k][i]]) = k
  BY LinesAreOfCalls DEF LineInvariant, MembersAsked, InFlight
<1>2. \A k \in Key : \A i \in DOMAIN line'[k] :
        /\ pc'[line'[k][i]] \in {"queued", "sending", "waiting"}
        /\ KeyOf(req'[line'[k][i]]) = k
  BY <1>1
<1>. QED
  BY <1>2 DEF LineInvariant, MembersAsked, InLineOnce, InFlight

(* A call that is in no line joins one. *)
LEMMA CallJoins ==
  ASSUME CallInvariant, LineInvariant,
         NEW c \in Call, NEW r \in Request, NEW p \in {"queued", "sending"},
         pc[c] = "idle", GoTo(c, p), req' = [req EXCEPT ![c] = r],
         SetLine(r, Append(LineOf(r), c))
  PROVE  LineInvariant'
<1> DEFINE k == KeyOf(r)  w == line[k]
<1>1. k \in Key /\ w \in Seq(Call) /\ line' = [line EXCEPT ![k] = Append(w, c)]
  BY RequestHasKey, LinesAreOfCalls DEF SetLine, LineOf
<1>2. /\ \A l \in Key \ {k} : line'[l] = line[l]
      /\ line'[k] = Append(w, c)
  BY <1>1 DEF CallInvariant, CallTypeOK
<1>3. /\ pc'[c] = p /\ req'[c] = r
      /\ \A d \in Call \ {c} : pc'[d] = pc[d] /\ req'[d] = req[d]
  BY DEF GoTo, CallInvariant, CallTypeOK
<1>4. \A l \in Key : \A i \in DOMAIN line[l] :
        /\ line[l][i] \in Call /\ line[l][i] # c
        /\ pc[line[l][i]] = "queued" \/ pc[line[l][i]] \in {"sending", "waiting"}
        /\ KeyOf(req[line[l][i]]) = l
  BY LinesAreOfCalls DEF LineInvariant, MembersAsked, InFlight
<1>5. /\ \A i, j \in DOMAIN Append(w, c) : Append(w, c)[i] = Append(w, c)[j] => i = j
      /\ \A j \in DOMAIN Append(w, c) :
           Append(w, c)[j] = c \/ \E i \in DOMAIN w : Append(w, c)[j] = w[i]
  <2>1. w \in Seq(Call) /\ \A i, j \in DOMAIN w : w[i] = w[j] => i = j
    BY <1>1 DEF LineInvariant, InLineOnce
  <2>2. \A j \in DOMAIN w : w[j] # c
    BY <1>1, <1>4
  <2> HIDE DEF w
  <2>. QED
    BY <2>1, <2>2, AppendOnce
<1> HIDE DEF k
<1>6. InLineOnce'
  <2>1. ASSUME NEW l \in Key
        PROVE  \A i, j \in DOMAIN line'[l] : line'[l][i] = line'[l][j] => i = j
    BY <1>2, <1>5 DEF LineInvariant, InLineOnce
  <2>. QED
    BY <2>1 DEF InLineOnce
<1>7. ASSUME NEW l \in Key, NEW j \in DOMAIN line'[l]
      PROVE  /\ pc'[line'[l][j]] = "queued" \/ pc'[line'[l][j]] \in {"sending", "waiting"}
             /\ KeyOf(req'[line'[l][j]]) = l
  <2>1. CASE line'[l][j] = c /\ l = k
    BY <1>3, <2>1 DEF k
  <2>2. CASE \E i \in DOMAIN line[l] : line'[l][j] = line[l][i]
    BY <1>3, <1>4, <2>2
  <2>3. (line'[l][j] = c /\ l = k) \/ \E i \in DOMAIN line[l] : line'[l][j] = line[l][i]
    BY <1>2, <1>5, <1>7
  <2>. QED
    BY <2>1, <2>2, <2>3
<1>8. MembersAsked'
  BY <1>7 DEF MembersAsked, InFlight
<1>. QED
  BY <1>6, <1>8 DEF LineInvariant

(* A call leaves its line, v being what is left of it, and ends. *)
LEMMA CallLeaves ==
  ASSUME CallInvariant, LineInvariant, NEW c \in Call, NEW p \in Ended, pc[c] # "idle",
         GoTo(c, p), UNCHANGED req, NEW v, SetLine(req[c], v),
         \A i, j \in DOMAIN v : v[i] = v[j] => i = j,
         \A j \in DOMAIN v : v[j] # c /\ \E i \in DOMAIN LineOf(req[c]) : v[j] = LineOf(req[c])[i]
  PROVE  LineInvariant'
<1> DEFINE k == KeyOf(req[c])
<1>1. k \in Key /\ line' = [line EXCEPT ![k] = v]
  BY RequestHasKey DEF SetLine, CallInvariant, HasAsked
<1>2. /\ \A l \in Key \ {k} : line'[l] = line[l]
      /\ line'[k] = v
  BY <1>1 DEF CallInvariant, CallTypeOK
<1>3. req' = req /\ \A d \in Call \ {c} : pc'[d] = pc[d]
  BY DEF GoTo, CallInvariant, CallTypeOK
<1>4. \A l \in Key : \A i \in DOMAIN line[l] :
        /\ line[l][i] \in Call
        /\ pc[line[l][i]] = "queued" \/ pc[line[l][i]] \in {"sending", "waiting"}
        /\ KeyOf(req[line[l][i]]) = l
  BY LinesAreOfCalls DEF LineInvariant, MembersAsked, InFlight
<1>5. \A j \in DOMAIN v : v[j] # c /\ \E i \in DOMAIN line[k] : v[j] = line[k][i]
  BY DEF LineOf
<1>6. \A l \in Key \ {k} : \A i \in DOMAIN line[l] : line[l][i] # c
  BY <1>4
<1> HIDE DEF k
<1>7. InLineOnce'
  <2>1. ASSUME NEW l \in Key
        PROVE  \A i, j \in DOMAIN line'[l] : line'[l][i] = line'[l][j] => i = j
    BY <1>2 DEF LineInvariant, InLineOnce
  <2>. QED
    BY <2>1 DEF InLineOnce
<1>8. ASSUME NEW l \in Key, NEW j \in DOMAIN line'[l]
      PROVE  /\ pc'[line'[l][j]] = "queued" \/ pc'[line'[l][j]] \in {"sending", "waiting"}
             /\ KeyOf(req'[line'[l][j]]) = l
  <2>1. line'[l][j] # c /\ \E i \in DOMAIN line[l] : line'[l][j] = line[l][i]
    BY <1>2, <1>5, <1>6, <1>8
  <2>. QED
    BY <1>3, <1>4, <2>1
<1>9. MembersAsked'
  BY <1>8 DEF MembersAsked, InFlight
<1>. QED
  BY <1>7, <1>9 DEF LineInvariant

(* A step of the lines, as KeyedQueue allows it. *)
LineStepOK == LineInvariant' /\ [Locks!Next]_(Locks!vars)

LEMMA NoLineStep ==
  ASSUME CallInvariant, LineInvariant, line' = line,
         \A c \in Call : pc[c] \in {"queued", "sending", "waiting"} =>
           pc'[c] \in {"queued", "sending", "waiting"} /\ req'[c] = req[c],
         \A c \in Call : InFlight(c)' <=> InFlight(c)
  PROVE  LineStepOK
<1>1. LineInvariant'
  BY LinesStay
<1>2. UNCHANGED Locks!vars
  BY DEF Locks!vars
<1>. QED
  BY <1>1, <1>2 DEF LineStepOK

LEMMA ArriveLines ==
  ASSUME CallInvariant, LineInvariant, NEW c \in Call, Arrive(c)
  PROVE  LineStepOK
<1>1. PICK r \in Request :
        /\ pc[c] = "idle" /\ req' = [req EXCEPT ![c] = r]
        /\ IF LineOf(r) = << >>
             THEN Run(c, r, << >>)
             ELSE GoTo(c, "queued") /\ SetLine(r, Append(LineOf(r), c))
  BY DEF Arrive
<1>2. PICK k \in Key : k = KeyOf(r)
  BY RequestHasKey
<1>3. line[k] \in Seq(Call) /\ LineOf(r) = line[k]
  BY <1>2, LinesAreOfCalls DEF LineOf
<1>4. ~ Locks!InLine(c)
  <2>1. \A l \in Key : \A i \in DOMAIN line[l] : line[l][i] # c
    BY <1>1, LinesAreOfCalls DEF LineInvariant, MembersAsked, InFlight
  <2>. QED
    BY <2>1 DEF Locks!InLine, Locks!ToSet
<1>5. CASE LineOf(r) = << >> /\ GoTo(c, "done") /\ SetLine(r, << >>)
  <2>1. line' = line
    BY <1>2, <1>3, <1>5 DEF SetLine, CallInvariant, CallTypeOK
  <2>. QED
    BY <1>1, <1>5, <2>1, NoLineStep DEF GoTo, InFlight, CallInvariant, CallTypeOK
<1>6. CASE LineOf(r) = << >> /\ GoTo(c, "sending") /\ SetLine(r, << c >> \o << >>)
  <2>1. << c >> \o << >> = << c >> /\ Append(<< >>, c) = << c >>
    BY ConcatEmptySeq
  <2>2. LineInvariant'
    BY <1>1, <1>6, <2>1, CallJoins
  <2>3. Locks!ArriveAtEmpty(c, k)
    BY <1>1, <1>2, <1>3, <1>4, <1>6, <2>1
       DEF Locks!ArriveAtEmpty, GoTo, SetLine, InFlight, CallInvariant, CallTypeOK
  <2>. QED
    BY <2>2, <2>3 DEF LineStepOK, Locks!Next
<1>7. CASE LineOf(r) # << >> /\ GoTo(c, "queued") /\ SetLine(r, Append(LineOf(r), c))
  <2>1. LineInvariant'
    BY <1>1, <1>7, CallJoins
  <2>2. Locks!ArriveBehind(c, k)
    BY <1>1, <1>2, <1>3, <1>4, <1>7
       DEF Locks!ArriveBehind, GoTo, SetLine, InFlight, CallInvariant, CallTypeOK
  <2>. QED
    BY <2>1, <2>2 DEF LineStepOK, Locks!Next
<1>. QED
  BY <1>1, <1>5, <1>6, <1>7 DEF Run

(* The call in place i leaves, as Abandon or, from the front, as Leave. *)
LEMMA PlaceLeft ==
  ASSUME CallInvariant, LineInvariant, NEW c \in Call, NEW p \in Ended, pc[c] # "idle",
         NEW i \in DOMAIN LineOf(req[c]), LineOf(req[c])[i] = c,
         GoTo(c, p), UNCHANGED req, SetLine(req[c], RemoveAt(LineOf(req[c]), i))
  PROVE  LineInvariant'
<1>1. KeyOf(req[c]) \in Key
  BY RequestHasKey DEF CallInvariant, HasAsked
<1> DEFINE w == LineOf(req[c])
<1>2. w \in Seq(Call) /\ \A j, l \in DOMAIN w : w[j] = w[l] => j = l
  BY <1>1, LinesAreOfCalls DEF LineOf, LineInvariant, InLineOnce
<1>3. i \in DOMAIN w /\ w[i] = c /\ SetLine(req[c], RemoveAt(w, i))
  OBVIOUS
<1>4. /\ \A j, l \in DOMAIN RemoveAt(w, i) : RemoveAt(w, i)[j] = RemoveAt(w, i)[l] => j = l
      /\ \A j \in DOMAIN RemoveAt(w, i) :
           RemoveAt(w, i)[j] # c /\ \E l \in DOMAIN w : RemoveAt(w, i)[j] = w[l]
  <2> HIDE DEF w
  <2>. QED
    BY <1>2, <1>3, RemoveAtOnce
<1>. QED
  BY <1>3, <1>4, CallLeaves

LEMMA QueuedLines ==
  ASSUME CallInvariant, LineInvariant, NEW c \in Call, pc[c] = "queued",
         NEW i \in DOMAIN LineOf(req[c]), LineOf(req[c])[i] = c,
         GoTo(c, "done"), UNCHANGED req, SetLine(req[c], RemoveAt(LineOf(req[c]), i))
  PROVE  LineStepOK
<1>1. PICK k \in Key : k = KeyOf(req[c])
  BY RequestHasKey DEF CallInvariant, HasAsked
<1>2. LineInvariant'
  BY PlaceLeft DEF Ended
<1>3. Locks!Abandon(c, k)
  <2>1. i \in DOMAIN line[k] /\ line[k][i] = c /\ line' = [line EXCEPT ![k] = RemoveAt(line[k], i)]
    BY <1>1 DEF LineOf, SetLine
  <2>2. \A d \in Call : InFlight(d)' <=> InFlight(d)
    BY DEF GoTo, InFlight, CallInvariant, CallTypeOK
  <2>3. ~ InFlight(c)
    BY DEF InFlight
  <2>. QED
    BY <2>1, <2>2, <2>3 DEF Locks!Abandon, Locks!RemoveAt, RemoveAt
<1>. QED
  BY <1>2, <1>3 DEF LineStepOK, Locks!Next

(* The holder of the lock leaves. *)
LEMMA EndLines ==
  ASSUME CallInvariant, LineInvariant, NEW c \in Call, NEW p \in Ended, InFlight(c),
         EndAs(c, p), UNCHANGED req
  PROVE  LineStepOK
<1>1. PICK k \in Key : k = KeyOf(req[c])
  BY RequestHasKey DEF CallInvariant, HasAsked, InFlight
<1> DEFINE w == LineOf(req[c])
<1>2. w \in Seq(Call) /\ w # << >> /\ Head(w) = c
  BY <1>1, LinesAreOfCalls DEF LineOf, CallInvariant, InFlightIsFirst
<1>3. RemoveAt(w, 1) = Tail(w) /\ 1 \in DOMAIN w /\ w[1] = c
  <2> HIDE DEF w
  <2>. QED
    BY <1>2, RemoveHead
<1>4. LineInvariant'
  BY <1>2, <1>3, PlaceLeft DEF EndAs, InFlight
<1>5. Locks!Leave(c, k)
  <2>1. /\ line[k] # << >> /\ Head(line[k]) = c
        /\ line' = [line EXCEPT ![k] = Tail(line[k])]
    BY <1>1, <1>2 DEF LineOf, EndAs, SetLine
  <2>2. \A d \in Call : InFlight(d)' <=> InFlight(d) /\ d # c
    BY DEF EndAs, GoTo, InFlight, Ended, CallInvariant, CallTypeOK
  <2>. QED
    BY <2>1, <2>2 DEF Locks!Leave
<1>. QED
  BY <1>4, <1>5 DEF LineStepOK, Locks!Next

LEMMA EnterLines ==
  ASSUME CallInvariant, LineInvariant, NEW c \in Call, Enter(c)
  PROVE  LineStepOK
<1> DEFINE w == LineOf(req[c])
<1>1. /\ pc[c] = "queued" /\ Head(w) = c /\ Run(c, req[c], Tail(w)) /\ UNCHANGED req
  BY DEF Enter
<1>2. PICK k \in Key : k = KeyOf(req[c])
  BY <1>1, RequestHasKey DEF CallInvariant, HasAsked
<1>3. w \in Seq(Call) /\ w # << >> /\ w = line[k]
  BY <1>1, <1>2, LinesAreOfCalls DEF LineOf, CallInvariant, QueuedInLine
<1>4. RemoveAt(w, 1) = Tail(w) /\ 1 \in DOMAIN w /\ w[1] = c /\ << c >> \o Tail(w) = w
  <2>1. w \in Seq(Call) /\ w # << >> /\ Head(w) = c
    BY <1>1, <1>3
  <2> HIDE DEF w
  <2>2. RemoveAt(w, 1) = Tail(w) /\ 1 \in DOMAIN w /\ w[1] = c
    BY <2>1, RemoveHead
  <2>3. << Head(w) >> \o Tail(w) = w
    BY <2>1, HeadInFront
  <2>. QED
    BY <2>1, <2>2, <2>3
<1>5. CASE GoTo(c, "done") /\ SetLine(req[c], Tail(w))
  BY <1>1, <1>4, <1>5, QueuedLines
<1>6. CASE GoTo(c, "sending") /\ SetLine(req[c], << c >> \o Tail(w))
  <2>1. line' = line
    BY <1>2, <1>3, <1>4, <1>6 DEF SetLine, CallInvariant, CallTypeOK
  <2>2. LineInvariant'
    BY <1>1, <1>6, <2>1, LinesStay DEF GoTo, CallInvariant, CallTypeOK
  <2>3. \A d \in Call : InFlight(d)' <=> InFlight(d) \/ d = c
    BY <1>6 DEF GoTo, InFlight, CallInvariant, CallTypeOK
  <2>4. Locks!Enter(c, k)
    BY <1>1, <1>3, <2>1, <2>3 DEF Locks!Enter, InFlight
  <2>. QED
    BY <2>2, <2>4 DEF LineStepOK, Locks!Next
<1>. QED
  BY <1>1, <1>5, <1>6 DEF Run

LEMMA LineStep ==
  ASSUME CallInvariant, LineInvariant, [Next]_vars
  PROVE  LineStepOK
<1>1. CASE UNCHANGED << pc, req, line >>
  BY <1>1, NoLineStep DEF InFlight
<1>2. ASSUME NEW c \in Call, CancelQueued(c)
      PROVE  LineStepOK
  BY <1>2, QueuedLines DEF CancelQueued
<1>3. ASSUME NEW c \in Call, SendReturns(c) \/ SendRaises(c) \/ CancelSending(c) \/ Resume(c)
      PROVE  LineStepOK
  <2>1. InFlight(c) /\ UNCHANGED req
    BY <1>3 DEF SendReturns, SendRaises, CancelSending, Resume, InFlight
  <2>2. CASE \E p \in Ended : EndAs(c, p)
    BY <2>1, <2>2, EndLines
  <2>3. CASE GoTo(c, "waiting") /\ UNCHANGED line
    BY <2>1, <2>3, NoLineStep DEF GoTo, InFlight, CallInvariant, CallTypeOK
  <2>. QED
    BY <1>3, <2>2, <2>3 DEF SendReturns, SendRaises, CancelSending, Resume, Ended
<1>4. CASE HandleReport
  BY <1>1, <1>4 DEF HandleReport, callVars
<1>5. ASSUME NEW c \in Call, Interrupt(c) \/ APAnswers(c)
      PROVE  LineStepOK
  BY <1>1, <1>5 DEF Interrupt, APAnswers, callVars
<1>6. ASSUME NEW s \in Source, HandleMessage(s) \/ SourceConnects(s) \/ SourceDrops(s)
      PROVE  LineStepOK
  BY <1>1, <1>6 DEF HandleMessage, SourceConnects, SourceDrops, callVars
<1>7. ASSUME NEW l \in Link, LinkDrops(l) \/ LinkUpdate(l)
      PROVE  LineStepOK
  BY <1>1, <1>7 DEF LinkDrops, LinkUpdate, callVars
<1>8. CASE UNCHANGED vars
  BY <1>1, <1>8 DEF vars, callVars
<1>9. ASSUME NEW h \in Handler, MessageResumes(h) \/ \E s \in Source : MessageWaits(h, s)
      PROVE  LineStepOK
  BY <1>1, <1>9 DEF MessageResumes, MessageWaits, callVars
<1>. QED
  BY <1>2, <1>3, <1>4, <1>5, <1>6, <1>7, <1>8, <1>9, ArriveLines, EnterLines DEF Next, InCode

(* The line every active action waits in, and holds while its payload is   *)
(* out and its answer awaited, is first-come-first-served: no action       *)
(* overtakes another or is lost from the line, whatever is cancelled.      *)
THEOREM ActionsAlwaysKeepLine == Spec => ActionsKeepLine
<1>1. Init => CallInvariant /\ LineInvariant /\ Locks!Init
  <2> SUFFICES ASSUME Init PROVE CallInvariant /\ LineInvariant /\ Locks!Init
    OBVIOUS
  <2>1. CallInvariant
    BY InitActions DEF ActionInvariant
  <2>2. \A k \in Key : line[k] = << >> /\ DOMAIN line[k] = {}
    BY DEF Init
  <2>3. LineInvariant
    BY <2>2 DEF LineInvariant, MembersAsked, InLineOnce
  <2>4. {c \in Call : InFlight(c)} = {}
    BY DEF Init, InFlight
  <2>. QED
    BY <2>1, <2>3, <2>4 DEF Locks!Init, Init
<1>2. CallInvariant /\ LineInvariant /\ [Next]_vars => CallInvariant' /\ LineInvariant'
  BY CallStep, LineStep DEF LineStepOK
<1>3. CallInvariant /\ LineInvariant /\ [Next]_vars => [Locks!Next]_(Locks!vars)
  BY LineStep DEF LineStepOK
<1>. QED
  BY <1>1, <1>2, <1>3, PTL DEF Spec, Locks!Spec, ActionsKeepLine

-----------------------------------------------------------------------------
(* Slots (SlotArbitration).  The invariant says what lapsing means: a link *)
(* that may be up, or be reported up, and is not reserved has lapsed.  So a*)
(* link that joins the reserved ones either passed the check of the slots  *)
(* or had lapsed before, and stays so.                                     *)
SlotInvariant ==
  /\ IsFiniteSet(reserved)
  /\ possible \ reserved \subseteq lapsed
  /\ SlotsRespected

LEMMA ReservedLinks == ActionInvariant => reserved \in SUBSET Link
<1> SUFFICES ASSUME ActionInvariant PROVE reserved \in SUBSET Link
  OBVIOUS
<1>1. active \in SUBSET Link /\ contexts \in SUBSET Call
  BY DEF ActionInvariant, Registrations, BookTypeOK
<1>2. \A c \in contexts : pc[c] # "idle"
  BY DEF ActionInvariant, Registrations, RegistrationsAccountedFor, InFlight
<1>3. \A c \in contexts : LinkOf(c) \in Link
  BY <1>1, <1>2, LinkOfAsked DEF ActionInvariant
<1>. QED
  BY <1>1, <1>3 DEF reserved, Connects

(* Where reserved links come from. *)
LEMMA ReservedBy ==
  ASSUME NEW more, active' \ lost' \subseteq (active \ lost) \cup more,
         \A c \in contexts' :
           \/ c \in contexts /\ req'[c] = req[c]
           \/ req'[c].type = "connect" => << req'[c].source, req'[c].device >> \in more
  PROVE  reserved' \subseteq reserved \cup more
<1> SUFFICES ASSUME NEW l \in reserved', l \notin active' \ lost'
             PROVE  l \in reserved \cup more
  BY DEF reserved
<1>1. PICK c \in contexts' : req'[c].type = "connect" /\ l = << req'[c].source, req'[c].device >>
  BY DEF reserved, Connects, LinkOf
<1>2. CASE c \in contexts /\ req'[c] = req[c]
  BY <1>1, <1>2 DEF reserved, Connects, LinkOf
<1>. QED
  BY <1>1, <1>2

(* A link is reserved that the slot check let pass, or that was possible.  *)
ReservesOne ==
  \/ reserved' \subseteq reserved
  \/ \E l \in Link :
       /\ reserved' \subseteq reserved \cup {l}
       /\ l \in possible \/ ~ (Cardinality(SlotDevices(l[1])) >= Slots)

LEMMA ContextsAsked ==
  ActionInvariant /\ Next => \A c \in contexts : req'[c] = req[c]
<1> SUFFICES ASSUME ActionInvariant, Next, NEW c \in contexts PROVE req'[c] = req[c]
  OBVIOUS
<1>1. c \in Call /\ pc[c] # "idle"
  BY DEF ActionInvariant, Registrations, BookTypeOK, RegistrationsAccountedFor, InFlight
<1>. QED
  BY <1>1, CallsStay DEF ActionInvariant

LEMMA FewerReserved ==
  ASSUME ActionInvariant, Next, active' \ lost' \subseteq active \ lost, contexts' \subseteq contexts
  PROVE  ReservesOne
<1>1. \A c \in contexts' : c \in contexts /\ req'[c] = req[c]
  BY ContextsAsked
<1>2. reserved' \subseteq reserved \cup {}
  BY <1>1, ReservedBy
<1>. QED
  BY <1>2 DEF ReservesOne

LEMMA RunReserves ==
  ASSUME ActionInvariant, Next, NEW c \in Call, NEW r \in Request, \E rest : Run(c, r, rest),
         req'[c] = r, UNCHANGED << active, lost >>
  PROVE  ReservesOne
<1>1. CASE UNCHANGED contexts
  BY <1>1, FewerReserved
<1>2. CASE ~ LocalAnswer(r) /\ contexts' \subseteq contexts \cup {c}
  <2>1. r \in [type : ActionType, source : Source, device : Device, wait : BOOLEAN]
    BY RequestAssumption
  <2> DEFINE l == << r.source, r.device >>
  <2>2. l \in Link /\ l[1] = r.source
    BY <2>1 DEF Link
  <2>3. CASE r.type = "connect"
    <3>1. \A d \in contexts' :
            \/ d \in contexts /\ req'[d] = req[d]
            \/ req'[d].type = "connect" => << req'[d].source, req'[d].device >> \in {l}
      BY <1>2, ContextsAsked
    <3>2. reserved' \subseteq reserved \cup {l}
      BY <3>1, ReservedBy
    <3>3. ~ (Cardinality(SlotDevices(l[1])) >= Slots)
      BY <1>2, <2>2, <2>3 DEF LocalAnswer
    <3> HIDE DEF l
    <3>. QED
      BY <2>2, <3>2, <3>3 DEF ReservesOne
  <2>4. CASE r.type # "connect"
    <3>1. \A d \in contexts' :
            \/ d \in contexts /\ req'[d] = req[d]
            \/ req'[d].type = "connect" => << req'[d].source, req'[d].device >> \in {}
      BY <1>2, <2>4, ContextsAsked
    <3>2. reserved' \subseteq reserved \cup {}
      BY <3>1, ReservedBy
    <3>. QED
      BY <3>2 DEF ReservesOne
  <2>. QED
    BY <2>3, <2>4
<1>. QED
  BY <1>1, <1>2 DEF Run

LEMMA LinkReported ==
  ASSUME ActionInvariant, Next, NEW e \in Report, e \in underway, Raises(e),
         NEW l \in Link, l = e.link, MarkActive(l), contexts' \subseteq contexts
  PROVE  ReservesOne
<1>1. \A c \in contexts' : c \in contexts /\ req'[c] = req[c]
  BY ContextsAsked
<1>2. reserved' \subseteq reserved \cup {l}
  BY <1>1, ReservedBy DEF MarkActive
<1>3. l \in possible
  BY DEF possible, Raised
<1>. QED
  BY <1>2, <1>3 DEF ReservesOne

LEMMA ReportReserves ==
  ASSUME ActionInvariant, Next, HandleReport
  PROVE  ReservesOne
<1>1. PICK e \in Report :
        /\ Belongs(e) /\ Arrived = Arrived' \cup {e}
        /\ \/ ~ IsResult(e) /\ HandleStatus(e)
           \/ IsResult(e) /\ HandleResult(e)
  BY HandlingReport DEF ActionInvariant
<1>2. e \in underway /\ e.link \in Link
  BY <1>1 DEF underway, Report
<1>3. ASSUME NEW link, NEW status, NEW answered, NEW answer,
             MarkDisconnected(link, status, answered, answer)
      PROVE  ReservesOne
  BY <1>3, FewerReserved DEF MarkDisconnected
<1>4. CASE ~ IsResult(e) /\ HandleStatus(e)
  <2>1. CASE e.status = "connectionUpdate" /\ MarkActive(e.link) /\ UNCHANGED contexts
    BY <1>2, <2>1, LinkReported DEF Raises
  <2>. QED
    BY <1>3, <1>4, <2>1 DEF HandleStatus
<1>5. CASE IsResult(e) /\ HandleResult(e)
  <2>1. contexts' \subseteq contexts
    BY <1>5 DEF HandleResult, MarkDisconnected, Forget
  <2>2. CASE UNCHANGED << active, lost >>
    BY <2>1, <2>2, FewerReserved
  <2>3. CASE /\ req[e.call].type = "connect" /\ Succeeded("connect", e.status)
             /\ MarkActive(LinkOf(e.call))
    <3>1. Raises(e) /\ LinkOf(e.call) = e.link
      BY <1>1, <1>5, <2>3 DEF Raises, Belongs, Succeeded
    <3>. QED
      BY <1>2, <2>1, <2>3, <3>1, LinkReported
  <2>. QED
    BY <1>3, <1>5, <2>2, <2>3 DEF HandleResult
<1>. QED
  BY <1>1, <1>4, <1>5

LEMMA ReservedStep ==
  ASSUME ActionInvariant, Next
  PROVE  ReservesOne
<1>1. CASE UNCHANGED << active, lost >> /\ contexts' \subseteq contexts
  BY <1>1, FewerReserved
<1>2. ASSUME NEW c \in Call, Arrive(c)
      PROVE  ReservesOne
  <2>1. PICK r \in Request :
          /\ req'[c] = r
          /\ (\E rest : Run(c, r, rest)) \/ UNCHANGED contexts
    <3>1. req \in [Call -> Request \cup {NoRequest}]
      BY DEF ActionInvariant, CallInvariant, CallTypeOK
    <3>. QED
      BY <1>2, <3>1 DEF Arrive
  <2>2. UNCHANGED << active, lost >>
    BY <1>2 DEF Arrive
  <2>. QED
    BY <1>1, <2>1, <2>2, RunReserves
<1>3. ASSUME NEW c \in Call, Enter(c)
      PROVE  ReservesOne
  <2>1. /\ pc[c] = "queued" /\ UNCHANGED << req, active, lost >>
        /\ \E rest : Run(c, req[c], rest)
    BY <1>3 DEF Enter
  <2>2. req[c] \in Request
    BY <2>1 DEF ActionInvariant, CallInvariant, HasAsked
  <2>. QED
    BY <2>1, <2>2, RunReserves
<1>4. ASSUME NEW c \in Call, CancelQueued(c) \/ SendReturns(c) \/ SendRaises(c) \/ CancelSending(c)
                              \/ Interrupt(c) \/ Resume(c) \/ APAnswers(c)
      PROVE  ReservesOne
  BY <1>1, <1>4 DEF CancelQueued, SendReturns, SendRaises, CancelSending, Interrupt, Resume,
                    APAnswers, Forget, runtimeVars
<1>5. ASSUME NEW s \in Source, HandleMessage(s) \/ SourceConnects(s)
      PROVE  ReservesOne
  BY <1>1, <1>5 DEF HandleMessage, SourceConnects, runtimeVars
<1>6. ASSUME NEW s \in Source, SourceDrops(s)
      PROVE  ReservesOne
  BY <1>6, FewerReserved DEF SourceDrops
<1>7. ASSUME NEW l \in Link, LinkDrops(l) \/ LinkUpdate(l)
      PROVE  ReservesOne
  BY <1>1, <1>7 DEF LinkDrops, LinkUpdate, runtimeVars
<1>8. ASSUME NEW h \in Handler, MessageResumes(h) \/ \E s \in Source : MessageWaits(h, s)
      PROVE  ReservesOne
  BY <1>1, <1>8 DEF MessageResumes, MessageWaits, runtimeVars
<1>. QED
  BY <1>2, <1>3, <1>4, <1>5, <1>6, <1>7, <1>8, ReportReserves DEF Next, InCode

(* Devices that take a slot are counted by the links reserved. *)
LEMMA SlotsCounted ==
  ASSUME ActionInvariant, IsFiniteSet(reserved), NEW s \in Source
  PROVE  Cardinality(SlotDevices(s)) = Cardinality({l \in reserved : l[1] = s})
<1> DEFINE R == {l \in reserved : l[1] = s}
           D == SlotDevices(s)
           f == [l \in R |-> l[2]]
<1>1. IsFiniteSet(R)
  BY FS_Subset
<1>2. reserved \in SUBSET (Source \X Device)
  BY ReservedLinks DEF Link
<1>3. \A l \in R : l = << s, l[2] >> /\ l[2] \in D
  BY <1>2 DEF SlotDevices
<1>4. \A d \in D : << s, d >> \in R
  BY DEF SlotDevices
<1> HIDE DEF R, D
<1>5. f \in [R -> D]
  BY <1>3
<1>6. \A a, b \in R : f[a] = f[b] => a = b
  BY <1>3
<1>7. \A d \in D : \E a \in R : f[a] = d
  BY <1>4
<1> HIDE DEF f
<1>8. f \in Bijection(R, D)
  BY <1>5, <1>6, <1>7 DEF Bijection, Injection, Surjection, IsInjective
<1>9. ExistsBijection(R, D)
  BY <1>8 DEF ExistsBijection
<1>. QED
  BY <1>1, <1>9, FS_Bijection DEF R, D

LEMMA SlotStep == ActionInvariant /\ SlotInvariant /\ [NextHistory]_historyVars => SlotInvariant'
<1> SUFFICES ASSUME ActionInvariant, SlotInvariant, [NextHistory]_historyVars PROVE SlotInvariant'
  OBVIOUS
<1>1. CASE UNCHANGED historyVars
  BY <1>1 DEF historyVars, vars, callVars, runtimeVars, messageVars, apVars, SlotInvariant,
              SlotsRespected, reserved, possible, underway, Arrived, Raised, Connects, LinkOf,
              Raises, IsResult
<1>2. CASE NextHistory
  <2>1. /\ ReservesOne
        /\ lapsed' = (lapsed \cap (possible' \cup reserved')) \cup (possible' \ reserved')
    BY <1>2, ReservedStep DEF NextHistory, Lapse
  <2>2. IsFiniteSet(reserved')
    <3>1. PICK l : reserved' \subseteq reserved \cup {l}
      BY <2>1 DEF ReservesOne
    <3>2. IsFiniteSet(reserved \cup {l})
      BY FS_AddElement DEF SlotInvariant
    <3>. QED
      BY <3>1, <3>2, FS_Subset
  <2>3. possible' \ reserved' \subseteq lapsed'
    BY <2>1
  <2>4. ASSUME NEW s \in Source
        PROVE  Cardinality({l \in reserved' \ lapsed' : l[1] = s}) <= Slots
    <3> DEFINE R == {l \in reserved \ lapsed : l[1] = s}
               T == {l \in reserved' \ lapsed' : l[1] = s}
    <3>1. /\ IsFiniteSet(R) /\ Cardinality(R) \in Nat
          /\ IsFiniteSet(T) /\ Cardinality(T) \in Nat
      BY <2>2, FS_Subset, FS_CardinalityType DEF SlotInvariant
    <3>2. Cardinality(R) <= Slots
      BY DEF SlotInvariant, SlotsRespected
    <3>3. \A l \in reserved' : l \in lapsed => l \in lapsed'
      BY <2>1
    <3>4. CASE T \subseteq R
      <4>1. Cardinality(T) <= Cardinality(R)
        BY <3>1, <3>4, FS_Subset
      <4>. QED
        BY <3>1, <3>2, <4>1, SlotsAssumption
    <3>5. CASE reserved' \subseteq reserved
      BY <3>3, <3>4, <3>5
    <3>6. ASSUME NEW l \in Link, reserved' \subseteq reserved \cup {l},
                 l \in possible \/ ~ (Cardinality(SlotDevices(l[1])) >= Slots)
          PROVE  Cardinality(T) <= Slots
      <4>1. CASE l \in possible \/ l[1] # s
        <5>1. l \in reserved \/ l \in lapsed \/ l[1] # s
          BY <4>1 DEF SlotInvariant
        <5>2. T \subseteq R
          BY <3>3, <3>6, <5>1
        <5>. QED
          BY <3>4, <5>2
      <4>2. CASE l[1] = s /\ ~ (Cardinality(SlotDevices(l[1])) >= Slots)
        <5> DEFINE A == {x \in reserved : x[1] = s}
        <5>1. IsFiniteSet(A) /\ Cardinality(A) \in Nat
          BY FS_Subset, FS_CardinalityType DEF SlotInvariant
        <5>2. Cardinality(SlotDevices(s)) = Cardinality(A)
          BY SlotsCounted DEF SlotInvariant
        <5>3. Cardinality(A) < Slots
          BY <4>2, <5>1, <5>2, SlotsAssumption
        <5>4. T \subseteq A \cup {l}
          BY <3>6
        <5> HIDE DEF A, T
        <5>5. IsFiniteSet(A \cup {l}) /\ Cardinality(A \cup {l}) <= Cardinality(A) + 1
              /\ Cardinality(A \cup {l}) \in Nat
          BY <5>1, FS_AddElement, FS_CardinalityType
        <5>6. Cardinality(T) <= Cardinality(A \cup {l})
          BY <5>4, <5>5, FS_Subset
        <5>. QED
          BY <3>1, <5>1, <5>3, <5>5, <5>6, SlotsAssumption
      <4>. QED
        BY <3>6, <4>1, <4>2
    <3>. QED
      BY <2>1, <3>5, <3>6 DEF ReservesOne
  <2>. QED
    BY <2>2, <2>3, <2>4 DEF SlotInvariant, SlotsRespected
<1>. QED
  BY <1>1, <1>2

(* For any number of calls, APs, devices and slots, no AP is asked for more*)
(* devices than it has slots, but for links that had lapsed: what is       *)
(* awaited between the check and the answer never lets one too many pass.  *)
THEOREM SlotsAreRespected == SpecHistory => []SlotsRespected
<1>1. InitHistory => ActionInvariant /\ SlotInvariant
  <2> SUFFICES ASSUME InitHistory PROVE ActionInvariant /\ SlotInvariant
    OBVIOUS
  <2>1. ActionInvariant
    BY InitActions DEF InitHistory
  <2>2. reserved = {} /\ possible = {}
    BY DEF InitHistory, Init, reserved, possible, Connects, underway, Arrived, Raised, ToSet
  <2>3. \A s \in Source : {l \in reserved \ lapsed : l[1] = s} = {}
    BY <2>2
  <2>. QED
    BY <2>1, <2>2, <2>3, FS_EmptySet, SlotsAssumption DEF SlotInvariant, SlotsRespected
<1>2. ActionInvariant /\ [NextHistory]_historyVars => ActionInvariant'
  BY ActionStep DEF NextHistory, historyVars
<1>3. SlotInvariant => SlotsRespected
  BY DEF SlotInvariant
<1>. QED
  BY <1>1, <1>2, <1>3, SlotStep, PTL DEF SpecHistory

-----------------------------------------------------------------------------
(* The runtime's record and the links.  The last word on a link that is on *)
(* the wire, or else among what has arrived and the record, is true when it*)
(* says that the link is up, and what says so here comes from a connected  *)
(* source, but for links whose record may be wrong (misled).               *)
Up(q, e) ==
  \/ e.status = "connectionUpdate"
  \/ IsResult(e) /\ q[e.call].type = "connect" /\ e.status \in ConnectSuccess

Down(q, e) ==
  IF IsResult(e) THEN ShowsNoLink(q[e.call].type, e.status) ELSE e.status \in DisconnectedStatus

(* After its first n reports, w never says that l is down. *)
Quiet(q, w, l, n) == \A j \in DOMAIN w : j > n /\ w[j].link = l => ~ Down(q, w[j])

(* Links on record as up, or that will be when what has arrived is handled *)
Told == active \cup Raised(Arrived)

HasRoute(l) == l \in Told => l[1] \in connected

WireTellsTrue(l) ==
  \A i \in DOMAIN wire[l[1]] :
    wire[l[1]][i].link = l /\ Up(req, wire[l[1]][i]) /\ Quiet(req, wire[l[1]], l, i) =>
      l \in linked

BooksTellTrue(l) ==
  /\ l \in Told
  /\ \A e \in Arrived : e.link = l => ~ Down(req, e)
  /\ Quiet(req, wire[l[1]], l, 0)
  => l \in linked

LinkTold(l) == HasRoute(l) /\ WireTellsTrue(l) /\ BooksTellTrue(l)

LastWord == \A l \in Link \ misled : LinkTold(l)

LEMMA RaisedByUp ==
  ASSUME NEW reports, NEW l
  PROVE  l \in Raised(reports) <=> \E e \in reports : e.link = l /\ Up(req, e)
BY DEF Raised, Raises, Up

LEMMA WireTyped ==
  ASSUME ActionInvariant
  PROVE  /\ \A s \in Source : wire[s] \in Seq(Report) /\ Len(wire[s]) \in Nat
                              /\ DOMAIN wire[s] = 1 .. Len(wire[s])
         /\ \A l \in Link : l[1] \in Source
<1>1. \A s \in Source : wire[s] \in Seq(Report)
  BY DEF ActionInvariant, ReportInvariant, ReportTypeOK
<1>. QED
  BY <1>1, LenProperties DEF Link

(* Only the callers and the bookkeeping of calls move. *)
LEMMA NothingTold ==
  ASSUME ActionInvariant, LastWord, [Next]_vars,
         UNCHANGED << wire, Arrived, linked, active, misled >>, connected \subseteq connected'
  PROVE  LastWord'
<1>1. ASSUME NEW e, Belongs(e)
      PROVE  (Up(req', e) <=> Up(req, e)) /\ (Down(req', e) <=> Down(req, e))
  <2>1. CASE Next
    <3>1. IsResult(e) => req'[e.call] = req[e.call]
      BY <1>1, <2>1, CallsStay DEF Belongs, ActionInvariant
    <3>. QED
      BY <3>1 DEF Up, Down
  <2>2. CASE UNCHANGED vars
    <3>1. req' = req
      BY <2>2 DEF vars, callVars
    <3>. QED
      BY <3>1
  <2>. QED
    BY <2>1, <2>2
<1>2. /\ \A e \in Arrived : Belongs(e)
      /\ \A l \in Link : \A i \in DOMAIN wire[l[1]] : Belongs(wire[l[1]][i])
  BY WireTyped DEF ActionInvariant, ReportInvariant, OnWire, ArrivedBelong
<1>3. Told' = Told
  <2>1. \A l : l \in Raised(Arrived)' <=> \E e \in Arrived' : e.link = l /\ Up(req', e)
    BY DEF Raised, Raises, Up
  <2>2. \A l : l \in Raised(Arrived)' <=> l \in Raised(Arrived)
    BY <1>1, <1>2, <2>1, RaisedByUp
  <2>3. Raised(Arrived)' = Raised(Arrived)
    BY <2>2 DEF Raised
  <2>. QED
    BY <2>3 DEF Told
<1>4. ASSUME NEW l \in Link \ misled'
      PROVE  LinkTold(l)'
  <2>1. LinkTold(l)
    BY DEF LastWord
  <2>2. HasRoute(l)'
    BY <1>3, <2>1 DEF LinkTold, HasRoute
  <2>3. \A n : Quiet(req', wire[l[1]], l, n) <=> Quiet(req, wire[l[1]], l, n)
    BY <1>1, <1>2 DEF Quiet
  <2>4. WireTellsTrue(l)'
    BY <1>1, <1>2, <2>1, <2>3 DEF LinkTold, WireTellsTrue
  <2>5. BooksTellTrue(l)'
    BY <1>1, <1>2, <1>3, <2>1, <2>3 DEF LinkTold, BooksTellTrue
  <2>. QED
    BY <2>2, <2>4, <2>5 DEF LinkTold
<1>. QED
  BY <1>4 DEF LastWord

(* The AP reports what it did, e, and it says so when a link comes or goes.*)
LEMMA ReportTold ==
  ASSUME ActionInvariant, LastWord, NEW s \in Source, NEW e \in Report,
         e.link[1] = s, Reports(s, e),
         UNCHANGED << req, Arrived, active, connected, misled >>,
         \A l \in linked : l \notin linked' => l = e.link /\ Down(req, e),
         Up(req, e) => e.link \in linked'
  PROVE  LastWord'
<1> DEFINE w == wire[s]
<1>1. w \in Seq(Report) /\ Len(w) \in Nat /\ DOMAIN w = 1 .. Len(w)
  BY WireTyped
<1>2. /\ wire'[s] = Append(w, e)
      /\ \A t \in Source \ {s} : wire'[t] = wire[t]
  BY DEF Reports, ActionInvariant, ReportInvariant, ReportTypeOK
<1>3. /\ \A i \in 1 .. Len(w) : Append(w, e)[i] = w[i]
      /\ Append(w, e)[Len(w) + 1] = e
      /\ DOMAIN Append(w, e) = 1 .. Len(w) + 1
  <2> HIDE DEF w
  <2>. QED
    BY <1>1, AppendProperties, LenProperties
<1>4. Told' = Told
  BY DEF Told, Raised, Raises
<1>5. ASSUME NEW l \in Link \ misled', l[1] # s
      PROVE  LinkTold(l)'
  <2>1. wire'[l[1]] = wire[l[1]] /\ (l \in linked => l \in linked')
    BY <1>2, <1>5, WireTyped
  <2>2. LinkTold(l)
    BY DEF LastWord
  <2>. QED
    BY <1>4, <2>1, <2>2 DEF LinkTold, HasRoute, WireTellsTrue, BooksTellTrue
<1>6. ASSUME NEW l \in Link \ misled', l[1] = s
      PROVE  LinkTold(l)'
  <2>1. ASSUME NEW n \in Nat, n <= Len(w), Quiet(req, wire'[s], l, n)
        PROVE  Quiet(req, w, l, n) /\ ~ (e.link = l /\ Down(req, e))
    BY <1>1, <1>2, <1>3, <2>1 DEF Quiet
  <2>2. LinkTold(l)
    BY DEF LastWord
  <2>3. \A i \in DOMAIN w : w[i].link = l /\ Up(req, w[i]) /\ Quiet(req, w, l, i) => l \in linked
    BY <1>6, <2>2 DEF LinkTold, WireTellsTrue
  <2>4. ASSUME NEW i \in DOMAIN wire'[s], wire'[s][i].link = l, Up(req, wire'[s][i]),
               Quiet(req, wire'[s], l, i)
        PROVE  l \in linked'
    <3>1. CASE i = Len(w) + 1
      BY <1>2, <1>3, <2>4, <3>1
    <3>2. CASE i # Len(w) + 1
      <4>1. i \in 1 .. Len(w) /\ wire'[s][i] = w[i]
        BY <1>1, <1>2, <1>3, <2>4, <3>2
      <4>. QED
        BY <1>1, <2>1, <2>3, <2>4, <4>1
    <3>. QED
      BY <3>1, <3>2
  <2>5. ASSUME l \in Told, \A x \in Arrived : x.link = l => ~ Down(req, x),
               Quiet(req, wire'[s], l, 0)
        PROVE  l \in linked'
    <3>1. Quiet(req, w, l, 0) /\ ~ (e.link = l /\ Down(req, e))
      BY <1>1, <2>1, <2>5
    <3>2. l \in linked
      BY <1>6, <2>2, <2>5, <3>1 DEF LinkTold, BooksTellTrue
    <3>. QED
      BY <3>1, <3>2
  <2>6. HasRoute(l)'
    BY <1>4, <2>2 DEF LinkTold, HasRoute
  <2>7. WireTellsTrue(l)'
    BY <1>6, <2>4 DEF WireTellsTrue
  <2>8. BooksTellTrue(l)'
    BY <1>4, <1>6, <2>5 DEF BooksTellTrue
  <2>. QED
    BY <2>6, <2>7, <2>8 DEF LinkTold
<1>. QED
  BY <1>5, <1>6 DEF LastWord

LEMMA AnswerTold ==
  ASSUME ActionInvariant, LastWord, NEW c \in Call, APAnswers(c)
  PROVE  LastWord'
<1> DEFINE link == LinkOf(c)
<1>1. /\ pc[c] # "idle" /\ Arrived' = Arrived
      /\ UNCHANGED << req, active, connected, misled >>
  BY DEF APAnswers, Arrived, messageVars, callVars, runtimeVars, ActionInvariant, ReportInvariant,
         AskedOfAP
<1>2. link \in Link /\ link[1] = req[c].source /\ req[c].source \in Source
  BY <1>1, LinkOfAsked DEF ActionInvariant
<1> HIDE DEF link
<1>3. ASSUME NEW status \in Status, Performs(c, status),
             \A l \in linked : l \notin linked' =>
               l = link /\ req[c].type = "disconnect" /\ status \in DisconnectSuccess,
             req[c].type = "connect" /\ status \in ConnectSuccess => link \in linked',
             status # "connectionUpdate"
      PROVE  LastWord'
  <2>1. PICK named \in Named :
          Reports(req[c].source, [call |-> c, link |-> link, status |-> status, named |-> named])
    BY <1>3 DEF Performs, link
  <2> DEFINE e == [call |-> c, link |-> link, status |-> status, named |-> named]
  <2>2. e \in Report /\ IsResult(e)
    BY <1>2, NoCallAssumption, ReportsAssumption DEF Report, IsResult
  <2>3. /\ Up(req, e) => req[c].type = "connect" /\ status \in ConnectSuccess
        /\ req[c].type = "disconnect" /\ status \in DisconnectSuccess => Down(req, e)
    BY <1>3, <2>2 DEF Up, Down, ShowsNoLink, Succeeded
  <2>4. e.link = link /\ Reports(req[c].source, e)
    BY <2>1
  <2> HIDE DEF e
  <2>. QED
    BY <1>1, <1>2, <1>3, <2>2, <2>3, <2>4, ReportTold
<1>4. {"success", "alreadyConnected", "notConnected", "failed"} \in SUBSET Status
  BY DEF Status, ConnectSuccess, DisconnectedStatus
<1>5. CASE req[c].type = "connect" /\ linked' = linked \cup {link}
           /\ (Performs(c, "alreadyConnected") \/ Performs(c, "success"))
  BY <1>3, <1>4, <1>5
<1>6. CASE req[c].type = "disconnect" /\ linked' = linked \ {link}
           /\ (Performs(c, "success") \/ Performs(c, "notConnected"))
  <2>1. "success" \in DisconnectSuccess /\ "notConnected" \in DisconnectSuccess
    BY DEF DisconnectSuccess, DisconnectedStatus
  <2>. QED
    BY <1>3, <1>4, <1>6, <2>1
<1>7. CASE req[c].type = "gatt" /\ UNCHANGED linked
           /\ (Performs(c, "success") \/ Performs(c, "notConnected"))
  BY <1>3, <1>4, <1>7
<1>8. CASE UNCHANGED linked /\ Performs(c, "failed")
  BY <1>3, <1>4, <1>8 DEF ConnectSuccess
<1>. QED
  BY <1>5, <1>6, <1>7, <1>8 DEF APAnswers, link

LEMMA StatusTold ==
  ASSUME ActionInvariant, LastWord, NEW l \in Link, LinkDrops(l) \/ LinkUpdate(l)
  PROVE  LastWord'
<1>1. /\ UNCHANGED << req, active, connected >> /\ Arrived' = Arrived /\ l \in linked
      /\ \/ linked' = linked \ {l} /\ StatusReport(l, "deviceDisconnected") /\ misled' = misled
         \/ linked' = linked /\ StatusReport(l, "connectionUpdate") /\ misled' = misled
         \/ linked' = linked \ {l} /\ wire' = wire /\ misled' = misled \cup {l}
  BY DEF LinkDrops, LinkUpdate, Arrived, messageVars, callVars, runtimeVars
<1>2. ASSUME NEW status \in {"deviceDisconnected", "connectionUpdate"}, StatusReport(l, status),
             status = "deviceDisconnected" => linked' = linked \ {l},
             status = "connectionUpdate" => linked' = linked, misled' = misled
      PROVE  LastWord'
  <2> DEFINE e == [call |-> NoCall, link |-> l, status |-> status, named |-> TRUE]
  <2>1. Reports(l[1], e) /\ l[1] \in Source
    BY <1>2, WireTyped DEF StatusReport
  <2>2. e \in Report /\ ~ IsResult(e)
    BY DEF Report, IsResult, Status, DisconnectedStatus
  <2>3. /\ Up(req, e) => status = "connectionUpdate"
        /\ status = "deviceDisconnected" => Down(req, e)
    BY <2>2 DEF Up, Down, DisconnectedStatus
  <2>4. e.link = l
    OBVIOUS
  <2> HIDE DEF e
  <2>. QED
    BY <1>1, <1>2, <2>1, <2>2, <2>3, <2>4, ReportTold
<1>3. CASE linked' = linked \ {l} /\ wire' = wire /\ misled' = misled \cup {l}
  <2>1. Told' = Told
    BY <1>1 DEF Told, Raised, Raises
  <2>2. \A k \in Link \ misled' : LinkTold(k) /\ (k \in linked => k \in linked')
    BY <1>3 DEF LastWord
  <2>. QED
    BY <1>1, <1>3, <2>1, <2>2 DEF LastWord, LinkTold, HasRoute, WireTellsTrue, BooksTellTrue
<1>. QED
  BY <1>1, <1>2, <1>3

LEMMA MessageTold ==
  ASSUME ActionInvariant, LastWord, NEW s \in Source, NEW n \in Nat, Takes(s, n),
         Arrived' = Arrived \cup {wire[s][i] : i \in 1 .. n}
  PROVE  LastWord'
<1> DEFINE w == wire[s]
           rest == wire'[s]
<1>1. /\ \A t \in Source \ {s} : wire'[t] = wire[t]
      /\ DOMAIN w = 1 .. Len(w) /\ Len(w) \in Nat
      /\ DOMAIN rest = 1 .. Len(w) - n
      /\ \A i \in DOMAIN rest : n + i \in DOMAIN w /\ rest[i] = w[n + i]
  BY TakenFromWire DEF ActionInvariant
<1>2. n <= Len(w) /\ UNCHANGED << req, active, connected, linked, misled >>
  BY DEF Takes, callVars, runtimeVars
<1>3. \A i \in 1 .. n : i \in DOMAIN w /\ w[i] \in Arrived' /\ w[i].link[1] = s
  BY <1>1, <1>2 DEF ActionInvariant, ReportInvariant, OnWire
<1>4. \A l : l \in Told' <=> l \in Told \/ \E i \in 1 .. n : w[i].link = l /\ Up(req, w[i])
  <2>1. \A l : l \in Raised(Arrived)' <=> \E e \in Arrived' : e.link = l /\ Up(req, e)
    BY <1>2 DEF Raised, Raises, Up
  <2>. QED
    BY <1>2, <2>1, RaisedByUp DEF Told
<1>5. ASSUME NEW l \in Link \ misled', l[1] # s
      PROVE  LinkTold(l)'
  <2>1. wire'[l[1]] = wire[l[1]]
    BY <1>1, <1>5, WireTyped
  <2>2. LinkTold(l)
    BY <1>2 DEF LastWord
  <2>3. l \in Told' => l \in Told
    BY <1>3, <1>4, <1>5
  <2>. QED
    BY <1>2, <2>1, <2>2, <2>3 DEF LinkTold, HasRoute, WireTellsTrue, BooksTellTrue
<1>6. ASSUME NEW l \in Link \ misled', l[1] = s
      PROVE  LinkTold(l)'
  <2>1. LinkTold(l)
    BY <1>2 DEF LastWord
  <2>2. ASSUME NEW m \in Nat, Quiet(req, rest, l, m)
        PROVE  Quiet(req, w, l, n + m)
    <3> SUFFICES ASSUME NEW j \in DOMAIN w, j > n + m, w[j].link = l PROVE ~ Down(req, w[j])
      BY DEF Quiet
    <3>1. j - n \in DOMAIN rest /\ rest[j - n] = w[j] /\ j - n > m
      <4>1. j \in Nat /\ j <= Len(w) /\ j - n \in 1 .. Len(w) - n
        BY <1>1
      <4>2. j - n \in DOMAIN rest /\ n + (j - n) = j
        BY <1>1, <4>1
      <4>. QED
        BY <1>1, <4>1, <4>2
    <3>. QED
      BY <2>2, <3>1 DEF Quiet
  <2>3. \A i \in DOMAIN w : w[i].link = l /\ Up(req, w[i]) /\ Quiet(req, w, l, i) => l \in linked
    BY <1>6, <2>1 DEF LinkTold, WireTellsTrue
  <2>4. HasRoute(l)'
    <3>1. n > 0 => s \in connected
      <4>1. n > 0 => 1 \in DOMAIN w
        BY <1>1, <1>2
      <4>. QED
        BY <4>1 DEF ActionInvariant, ReportInvariant, OnWire
    <3>2. CASE l \in Told
      BY <1>2, <2>1, <3>2 DEF LinkTold, HasRoute
    <3>3. CASE l \notin Told
      BY <1>2, <1>4, <1>6, <3>1, <3>3 DEF HasRoute
    <3>. QED
      BY <3>2, <3>3
  <2>5. WireTellsTrue(l)'
    <3> SUFFICES ASSUME NEW i \in DOMAIN rest, rest[i].link = l, Up(req, rest[i]),
                        Quiet(req, rest, l, i)
                 PROVE  l \in linked
      BY <1>2, <1>6 DEF WireTellsTrue
    <3>1. i \in Nat /\ n + i \in DOMAIN w /\ rest[i] = w[n + i]
      BY <1>1
    <3>2. Quiet(req, w, l, n + i)
      BY <2>2, <3>1
    <3>. QED
      BY <2>3, <3>1, <3>2
  <2>6. BooksTellTrue(l)'
    <3> SUFFICES ASSUME l \in Told', \A e \in Arrived' : e.link = l => ~ Down(req, e),
                        Quiet(req, rest, l, 0)
                 PROVE  l \in linked
      BY <1>2, <1>6 DEF BooksTellTrue
    <3>1. Quiet(req, w, l, n)
      BY <2>2
    <3>2. \A i \in Nat : Quiet(req, w, l, i)
      BY <1>1, <1>3, <3>1 DEF Quiet
    <3>3. CASE l \in Told
      <4>1. \A e \in Arrived : e.link = l => ~ Down(req, e)
        OBVIOUS
      <4>2. Quiet(req, wire[l[1]], l, 0)
        BY <1>6, <3>2
      <4>. QED
        BY <2>1, <3>3, <4>1, <4>2 DEF LinkTold, BooksTellTrue
    <3>4. CASE \E i \in 1 .. n : w[i].link = l /\ Up(req, w[i])
      BY <1>3, <2>3, <3>2, <3>4
    <3>. QED
      BY <1>4, <3>3, <3>4
  <2>. QED
    BY <2>4, <2>5, <2>6 DEF LinkTold
<1>. QED
  BY <1>5, <1>6 DEF LastWord

(* The record after the loss of a link was handled: it is off the record,  *)
(* and misled unless nothing that has arrived says that it is up.          *)
LEMMA LossHandled ==
  ASSUME UNCHANGED req, NEW link, NEW status, NEW answered, NEW answer,
         MarkDisconnected(link, status, answered, answer)
  PROVE  /\ active' = active \ {link} /\ misled \ {link} \subseteq misled'
         /\ link \in Raised(Arrived)' => link \in misled'
         /\ link \in Raised(ToSet(wire[link[1]])) /\ link \in misled => link \in misled'
<1>1. Raised(Arrived)' = Raised(Arrived')
  BY DEF Raised, Raises
<1>. QED
  BY <1>1 DEF MarkDisconnected, Misleads

(* What the record says after a report e was handled. *)
LEMMA RecordHandled ==
  ASSUME ActionInvariant, UNCHANGED req, NEW e \in Report, Belongs(e),
         (~ IsResult(e) /\ HandleStatus(e)) \/ (IsResult(e) /\ HandleResult(e))
  PROVE  /\ \A l \in active' : l \in active \/ (l = e.link /\ Up(req, e))
         /\ Down(req, e) /\ e.link \notin misled' =>
              e.link \notin active' /\ e.link \notin Raised(Arrived)'
         /\ \A l \in misled \ misled' :
              /\ l \notin active' /\ l \notin Raised(Arrived)'
              /\ l \notin Raised(ToSet(wire[l[1]]))
<1>1. ASSUME NEW status, NEW answered, NEW answer,
             MarkDisconnected(e.link, status, answered, answer)
      PROVE  /\ active' = active \ {e.link} /\ misled \ {e.link} \subseteq misled'
             /\ e.link \in Raised(Arrived)' => e.link \in misled'
             /\ e.link \in Raised(ToSet(wire[e.link[1]])) /\ e.link \in misled => e.link \in misled'
  BY <1>1, LossHandled
<1>2. CASE \E status, answered, answer : MarkDisconnected(e.link, status, answered, answer)
  BY <1>1, <1>2
<1>3. CASE ~ IsResult(e) /\ HandleStatus(e)
  <2>1. CASE e.status = "connectionUpdate" /\ MarkActive(e.link) /\ misled' = misled
    BY <1>3, <2>1 DEF MarkActive, Up, Down, DisconnectedStatus
  <2>. QED
    BY <1>2, <1>3, <2>1 DEF HandleStatus
<1>4. CASE IsResult(e) /\ HandleResult(e)
  <2>1. e.link = LinkOf(e.call)
    BY <1>4 DEF Belongs
  <2> DEFINE type == req[e.call].type
  <2>2. ASSUME misled' = IF ShowsNoLink(type, e.status) THEN misled \cup {e.link} ELSE misled,
               \/ type = "connect" /\ Succeeded(type, e.status) /\ MarkActive(e.link)
               \/ UNCHANGED << active, lost >>
        PROVE  /\ \A l \in active' : l \in active \/ (l = e.link /\ Up(req, e))
               /\ Down(req, e) => e.link \in misled'
               /\ misled \subseteq misled'
    BY <1>4, <2>2 DEF Up, Down, MarkActive, Succeeded
  <2>3. \/ \E status, answered, answer : MarkDisconnected(e.link, status, answered, answer)
        \/ /\ misled' = IF ShowsNoLink(type, e.status) THEN misled \cup {e.link} ELSE misled
           /\ \/ type = "connect" /\ Succeeded(type, e.status) /\ MarkActive(e.link)
              \/ UNCHANGED << active, lost >>
    BY <1>4, <2>1 DEF HandleResult
  <2> HIDE DEF type
  <2>. QED
    BY <1>2, <2>2, <2>3
<1>. QED
  BY <1>3, <1>4

LEMMA HandledTold ==
  ASSUME ActionInvariant, LastWord, HandleReport
  PROVE  LastWord'
<1>1. PICK e \in Report :
        /\ Belongs(e) /\ Arrived = Arrived' \cup {e}
        /\ \/ ~ IsResult(e) /\ HandleStatus(e)
           \/ IsResult(e) /\ HandleResult(e)
        /\ UNCHANGED << callVars, connected, apVars >>
  BY HandlingReport DEF ActionInvariant
<1>2. UNCHANGED << req, connected, linked, wire >>
  BY <1>1 DEF callVars, apVars
<1>3. /\ \A l \in active' : l \in active \/ (l = e.link /\ Up(req, e))
      /\ Down(req, e) /\ e.link \notin misled' =>
           e.link \notin active' /\ e.link \notin Raised(Arrived)'
      /\ \A l \in misled \ misled' :
           /\ l \notin active' /\ l \notin Raised(Arrived)'
           /\ l \notin Raised(ToSet(wire[l[1]]))
  BY <1>1, <1>2, RecordHandled
<1>4. \A l : l \in Raised(Arrived)' <=> \E x \in Arrived' : x.link = l /\ Up(req, x)
  BY <1>2 DEF Raised, Raises, Up
<1>5. \A l : l \in Told' => l \in Told
  BY <1>1, <1>3, <1>4, RaisedByUp DEF Told
<1>6. ASSUME NEW l \in Link \ misled', l \in misled
      PROVE  LinkTold(l)'
  <2>1. l \notin Told' /\ l \notin Raised(ToSet(wire[l[1]]))
    BY <1>3, <1>6 DEF Told
  <2>2. \A i \in DOMAIN wire[l[1]] : wire[l[1]][i].link = l => ~ Up(req, wire[l[1]][i])
    BY <2>1, RaisedByUp DEF ToSet
  <2>. QED
    BY <1>2, <2>1, <2>2 DEF LinkTold, HasRoute, WireTellsTrue, BooksTellTrue
<1>7. ASSUME NEW l \in Link \ misled', l \notin misled
      PROVE  LinkTold(l)'
  <2>1. LinkTold(l)
    BY <1>7 DEF LastWord
  <2>2. HasRoute(l)' /\ WireTellsTrue(l)'
    BY <1>2, <1>5, <2>1 DEF LinkTold, HasRoute, WireTellsTrue
  <2>3. BooksTellTrue(l)'
    <3> SUFFICES ASSUME l \in Told', \A x \in Arrived' : x.link = l => ~ Down(req, x),
                        Quiet(req, wire[l[1]], l, 0)
                 PROVE  l \in linked
      BY <1>2 DEF BooksTellTrue
    <3>1. ~ (e.link = l /\ Down(req, e))
      BY <1>3, <1>7 DEF Told
    <3>2. \A x \in Arrived : x.link = l => ~ Down(req, x)
      BY <1>1, <3>1
    <3>. QED
      BY <1>5, <2>1, <3>2 DEF LinkTold, BooksTellTrue
  <2>. QED
    BY <2>2, <2>3 DEF LinkTold
<1>. QED
  BY <1>6, <1>7 DEF LastWord

LEMMA DropTold ==
  ASSUME ActionInvariant, LastWord, NEW s \in Source, SourceDrops(s)
  PROVE  LastWord'
<1>1. /\ req' = req /\ Arrived' = Arrived /\ connected' = connected \ {s}
      /\ active' = {l \in active : l[1] # s} /\ wire' = [wire EXCEPT ![s] = << >>]
      /\ \A l \in linked : l[1] # s => l \in linked'
      /\ misled' = {l \in misled : l[1] # s} \cup {l \in Raised(Arrived) : l[1] = s}
  BY DEF SourceDrops, Arrived, messageVars, callVars
<1>2. wire'[s] = << >> /\ \A t \in Source \ {s} : wire'[t] = wire[t]
  BY <1>1 DEF ActionInvariant, ReportInvariant, ReportTypeOK
<1>3. Told' = active' \cup Raised(Arrived)
  BY <1>1 DEF Told, Raised, Raises
<1>4. ASSUME NEW l \in Link \ misled'
      PROVE  LinkTold(l)'
  <2>1. CASE l[1] = s
    <3>1. l \notin Told' /\ DOMAIN wire'[l[1]] = {}
      BY <1>1, <1>2, <1>3, <2>1
    <3>. QED
      BY <3>1 DEF LinkTold, HasRoute, WireTellsTrue, BooksTellTrue
  <2>2. CASE l[1] # s
    <3>1. wire'[l[1]] = wire[l[1]] /\ (l \in Told' => l \in Told)
      BY <1>1, <1>2, <1>3, <2>2, WireTyped DEF Told
    <3>2. LinkTold(l)
      BY <1>1, <2>2 DEF LastWord
    <3>. QED
      BY <1>1, <2>2, <3>1, <3>2 DEF LinkTold, HasRoute, WireTellsTrue, BooksTellTrue
  <2>. QED
    BY <2>1, <2>2
<1>. QED
  BY <1>4 DEF LastWord

LEMMA TellingStep ==
  ASSUME ActionInvariant, LastWord, [Next]_vars
  PROVE  LastWord'
<1>1. ASSUME UNCHANGED messageVars
      PROVE  Arrived' = Arrived
  BY <1>1 DEF Arrived, messageVars
<1>2. ASSUME NEW c \in Call, InCode(c)
      PROVE  LastWord'
  <2>1. UNCHANGED << wire, messageVars, linked, active, connected, misled >>
    BY <1>2 DEF InCode, Arrive, Enter, CancelQueued, SendReturns, SendRaises, CancelSending,
                Interrupt, Resume, runtimeVars, apVars
  <2>. QED
    BY <1>1, <2>1, NothingTold
<1>3. ASSUME NEW s \in Source, SourceConnects(s)
      PROVE  LastWord'
  BY <1>1, <1>3, NothingTold DEF SourceConnects, runtimeVars, apVars
<1>4. ASSUME NEW s \in Source, HandleMessage(s) \/ \E h \in Handler : MessageWaits(h, s)
      PROVE  LastWord'
  BY <1>4, TakingMessage, MessageTold DEF ActionInvariant
<1>5. ASSUME NEW h \in Handler, MessageResumes(h)
      PROVE  LastWord'
  BY <1>5, ResumingMessage, NothingTold DEF ActionInvariant, runtimeVars, apVars
<1>6. CASE UNCHANGED vars
  BY <1>1, <1>6, NothingTold DEF vars, runtimeVars, apVars
<1>. QED
  BY <1>2, <1>3, <1>4, <1>5, <1>6, AnswerTold, StatusTold, HandledTold, DropTold DEF Next

LEMMA MisledStep ==
  ASSUME ActionInvariant, misled \in SUBSET Link, [Next]_vars
  PROVE  misled' \in SUBSET Link
<1>1. Raised(Arrived) \in SUBSET Link
  BY DEF Raised, Report, ActionInvariant, ReportInvariant, ArrivedBelong
<1>2. ASSUME NEW s \in Source, SourceDrops(s)
      PROVE  misled' \in SUBSET Link
  BY <1>1, <1>2 DEF SourceDrops
<1>3. CASE HandleReport
  <2>1. PICK e \in Report :
          /\ Belongs(e) /\ Arrived = Arrived' \cup {e}
          /\ \/ ~ IsResult(e) /\ HandleStatus(e)
             \/ IsResult(e) /\ HandleResult(e)
          /\ UNCHANGED << callVars, connected, apVars >>
    BY <1>3, HandlingReport DEF ActionInvariant
  <2>2. e.link \in Link /\ (IsResult(e) => LinkOf(e.call) = e.link)
    BY <2>1 DEF Report, Belongs
  <2>3. ASSUME NEW status, NEW answered, NEW answer,
               MarkDisconnected(e.link, status, answered, answer)
        PROVE  misled' \in SUBSET Link
    <3>1. misled' \in {misled \cup {e.link}, misled, misled \ {e.link}}
      BY <2>3 DEF MarkDisconnected, Misleads
    <3>. QED
      BY <2>2, <3>1
  <2>4. CASE misled' \in {misled, misled \cup {e.link}}
    BY <2>2, <2>4
  <2>. QED
    BY <2>1, <2>2, <2>3, <2>4 DEF HandleStatus, HandleResult
<1>4. ASSUME NEW l \in Link, LinkDrops(l) \/ LinkUpdate(l)
      PROVE  misled' \in SUBSET Link
  BY <1>4 DEF LinkDrops, LinkUpdate
<1>5. CASE UNCHANGED misled
  BY <1>5
<1>6. ASSUME NEW c \in Call, InCode(c) \/ APAnswers(c)
      PROVE  UNCHANGED misled
  BY <1>6 DEF InCode, Arrive, Enter, CancelQueued, SendReturns, SendRaises, CancelSending,
              Interrupt, Resume, APAnswers
<1>7. ASSUME NEW s \in Source, HandleMessage(s) \/ SourceConnects(s)
      PROVE  UNCHANGED misled
  BY <1>7 DEF HandleMessage, SourceConnects
<1>8. ASSUME NEW h \in Handler, MessageResumes(h) \/ \E s \in Source : MessageWaits(h, s)
      PROVE  UNCHANGED misled
  BY <1>8 DEF MessageResumes, MessageWaits
<1>9. CASE UNCHANGED vars
  BY <1>5, <1>9 DEF vars
<1>. QED
  BY <1>2, <1>3, <1>4, <1>5, <1>6, <1>7, <1>8, <1>9 DEF Next

(* The variables keep their types, the lines are sequences of calls and    *)
(* what is on its way from an AP is well formed.                           *)
THEOREM ActionsTypeOK == Spec => []TypeOK
<1>1. Init => misled \in SUBSET Link
  BY DEF Init
<1>2. ActionInvariant /\ misled \in SUBSET Link /\ [Next]_vars => (misled \in SUBSET Link)'
  BY MisledStep
<1>3. ActionInvariant /\ misled \in SUBSET Link => TypeOK
  BY DEF ActionInvariant, CallInvariant, CallTypeOK, ReportInvariant,
         ReportTypeOK, Registrations, BookTypeOK, TypeOK
<1>. QED
  BY <1>1, <1>2, <1>3, ActionsInvariant, PTL DEF Spec

LEMMA LastWordHolds == Spec => [](ActionInvariant /\ LastWord)
<1>1. Init => ActionInvariant /\ LastWord
  <2> SUFFICES ASSUME Init PROVE ActionInvariant /\ LastWord
    OBVIOUS
  <2>1. \A l \in Link : DOMAIN wire[l[1]] = {}
    BY DEF Init, Link
  <2>2. Told = {}
    BY DEF Init, Told, Raised, Arrived, ToSet
  <2>3. LastWord
    BY <2>1, <2>2 DEF LastWord, LinkTold, HasRoute, WireTellsTrue, BooksTellTrue
  <2>. QED
    BY <2>3, InitActions
<1>2. ActionInvariant /\ LastWord /\ [Next]_vars => ActionInvariant' /\ LastWord'
  BY ActionStep, TellingStep
<1>. QED
  BY <1>1, <1>2, PTL DEF Spec

(* What a lost source had, actions and active devices, is gone with it, but*)
(* for devices that a message in hand at the loss puts back on the record. *)
THEOREM BooksFollowTheRoutes == Spec => []BooksFollowRoutes
<1>1. ActionInvariant /\ LastWord => BooksFollowRoutes
  <2> SUFFICES ASSUME ActionInvariant, LastWord PROVE BooksFollowRoutes
    OBVIOUS
  <2>1. \A l \in active : l \in Link /\ l \in Told
    BY DEF ActionInvariant, Registrations, BookTypeOK, Told
  <2>2. \A l \in active \ misled : l[1] \in connected
    BY <2>1 DEF LastWord, LinkTold, HasRoute
  <2>. QED
    BY <2>2 DEF BooksFollowRoutes, ActionInvariant, Links, RegisteredHaveRoutes
<1>. QED
  BY <1>1, LastWordHolds, PTL

(* A device on record as active is really linked once its reports are      *)
(* handled, for any number of calls, devices, handlers and reports to a    *)
(* message, but for links whose loss was not reported, not identified or   *)
(* handled while a report that the link is up was in hand.                 *)
THEOREM ActiveIsAlwaysLinked == Spec => []ActiveIsLinked
<1>1. ActionInvariant /\ LastWord => ActiveIsLinked
  <2> SUFFICES ASSUME ActionInvariant, LastWord, NEW l \in active \ misled,
                      wire[l[1]] = << >>, \A e \in Arrived : e.link # l
               PROVE  l \in linked
    BY DEF ActiveIsLinked
  <2>1. l \in Link /\ l \in Told
    BY DEF ActionInvariant, Registrations, BookTypeOK, Told
  <2>2. Quiet(req, wire[l[1]], l, 0)
    BY DEF Quiet
  <2>. QED
    BY <2>1, <2>2 DEF LastWord, LinkTold, BooksTellTrue
<1>. QED
  BY <1>1, LastWordHolds, PTL

=============================================================================
