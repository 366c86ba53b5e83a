------------------------ MODULE CommandChannelProofs ------------------------
(* Theorems about CommandChannel, for every number of callers, every table *)
(* of commands and every bound.                                            *)
EXTENDS CommandChannel, FiniteSetTheorems, TLAPS

-----------------------------------------------------------------------------
(* What Append and Tail do to the indices of a sequence. *)

LEMMA AppendIndices ==
    ASSUME NEW S, NEW s \in Seq(S), NEW e \in S
    PROVE  /\ Append(s, e) \in Seq(S)
           /\ \A i \in DOMAIN Append(s, e) :
                 \/ i \in DOMAIN s /\ Append(s, e)[i] = s[i]
                 \/ i \notin DOMAIN s /\ i = Len(s) + 1 /\ Append(s, e)[i] = e
OBVIOUS

LEMMA TailIndices ==
    ASSUME NEW S, NEW s \in Seq(S), s # << >>
    PROVE  /\ Tail(s) \in Seq(S)
           /\ Head(s) \in S
           /\ 1 \in DOMAIN s
           /\ Head(s) = s[1]
           /\ \A i \in DOMAIN Tail(s) : /\ i + 1 \in DOMAIN s
                                        /\ i \in Nat /\ i >= 1
                                        /\ Tail(s)[i] = s[i + 1]
OBVIOUS

LEMMA ElementType ==
    ASSUME NEW S, NEW s \in Seq(S), NEW i \in DOMAIN s
    PROVE  s[i] \in S
OBVIOUS

-----------------------------------------------------------------------------
(* Type correctness *)

LEMMA TableTyped ==
    \A r \in Requests : CodeOf[r] \in Nat /\ CodeOf[r] <= 63 /\ SizeOf[r] \in Nat
BY ChannelAssumption

LEMMA PackagesTyped ==
    ASSUME NEW m \in Message
    PROVE  /\ AnswerTo(m) \in Package
           /\ RejectionOf(m) \in Package
<1>1. /\ CodeOf[m.request] \in Nat /\ SizeOf[m.request] \in Nat
      /\ EchoOf[m.request] \in Nat
  BY ChannelAssumption DEF Message
<1>2. OriginOf(m) \in Origin
  BY DEF OriginOf, Origin, Message
<1>3. AnswerTo(m) \in Package
  BY <1>1, <1>2 DEF AnswerTo, Package, ResponseMessage
<1>4. CodeOf[m.request] + ErrorReply \in Nat
  BY <1>1 DEF ErrorReply
<1>5. RejectionOf(m) \in Package
  BY <1>3, <1>4 DEF RejectionOf, Package
<1> QED BY <1>3, <1>5

LEMMA OthersTyped ==
    /\ \A n \in Nat : KeyReport(n) \in Package
    /\ \A s \in StrayPackages : Stray(s) \in Package
BY ChannelAssumption DEF KeyReport, Stray, Package, Origin, KeyActivity

LEMMA TypeStep == TypeOK /\ [Next]_vars => TypeOK'
<1> SUFFICES ASSUME TypeOK, [Next]_vars PROVE TypeOK'
  OBVIOUS
<1> USE ChannelAssumption
<1>1. ASSUME NEW c \in Callers, SendMessage(c) PROVE TypeOK'
  <2>1. PICK r \in RequestsOf[c] :
           /\ request' = [request EXCEPT ![c] = r]
           /\ sent' = [sent EXCEPT ![c] = @ + 1]
           /\ \/ /\ toDevice' = Append(toDevice,
                      [kind |-> "command", request |-> r, caller |-> c,
                       number |-> sent[c] + 1])
                 /\ pc' = [pc EXCEPT ![c] =
                              IF r \in PayloadRequests THEN "payload" ELSE "receive"]
              \/ toDevice' = toDevice /\ pc' = [pc EXCEPT ![c] = "threw"]
    BY <1>1 DEF SendMessage
  <2>2. r \in Requests /\ sent[c] + 1 \in 0 .. MaxRequests
    BY SMTT(30), <1>1 DEF SendMessage, TypeOK
  <2>3. [kind |-> "command", request |-> r, caller |-> c, number |-> sent[c] + 1]
           \in Message
    BY <2>2 DEF Message
  <2>4. toDevice' \in Seq(Message)
    <3>1. \A m \in Message : Append(toDevice, m) \in Seq(Message)
      BY DEF TypeOK
    <3>2. toDevice \in Seq(Message)
      BY DEF TypeOK
    <3> QED BY <2>1, <2>3, <3>1, <3>2
  <2>5. pc' \in [Callers -> {"idle", "payload", "receive", "waiting", "threw"}]
    BY <2>1 DEF TypeOK
  <2> QED BY <1>1, <2>1, <2>2, <2>4, <2>5
          DEF TypeOK, SendMessage, hostVars, faultVars
<1>2. ASSUME NEW c \in Callers, SendData(c) PROVE TypeOK'
  <2>1. MessageOf(c, "pixels") \in Message
    BY DEF MessageOf, Message, TypeOK
  <2>2. toDevice' \in Seq(Message)
    <3>1. \A m \in Message : Append(toDevice, m) \in Seq(Message)
      BY DEF TypeOK
    <3>2. toDevice \in Seq(Message)
      BY DEF TypeOK
    <3> QED BY <1>2, <2>1, <3>1, <3>2 DEF SendData
  <2> QED BY <1>2, <2>2 DEF TypeOK, SendData, hostVars, faultVars
<1>3. ASSUME NEW c \in Callers, TakeAnswer(c) PROVE TypeOK'
  <2>1. Head(packages) \in Package /\ Tail(packages) \in Seq(Package)
    BY <1>3, TailIndices DEF TakeAnswer, FrontIsFor, TypeOK
  <2> QED BY <1>3, <2>1 DEF TypeOK, TakeAnswer, deviceVars, faultVars
<1>4. ASSUME NEW c \in Callers, Sleep(c) \/ SpuriousWakeup(c) PROVE TypeOK'
  <2>1. /\ UNCHANGED <<request, sent, answer, toDevice, pixelsFor, executed>>
        /\ UNCHANGED <<fromDevice, packages, reader, keyThreads>>
        /\ UNCHANGED <<keysReported, linkUp, faults, strayed>>
    BY <1>4 DEF Sleep, SpuriousWakeup, deviceVars, hostVars, faultVars
  <2>2. pc' \in [Callers -> {"idle", "payload", "receive", "waiting", "threw"}]
    BY <1>4 DEF TypeOK, Sleep, SpuriousWakeup
  <2> QED BY <2>1, <2>2 DEF TypeOK
<1>5. CASE ReaderStep
  <2>1. ASSUME fromDevice # << >>
        PROVE  /\ Head(fromDevice) \in Package
               /\ Head(fromDevice).origin \in Origin
               /\ Tail(fromDevice) \in Seq(Package)
               /\ Append(packages, Head(fromDevice)) \in Seq(Package)
    <3>1. Head(fromDevice) \in Package /\ Tail(fromDevice) \in Seq(Package)
      BY <2>1 DEF TypeOK
    <3>2. Head(fromDevice).origin \in Origin
      BY <3>1 DEF Package
    <3>3. Append(packages, Head(fromDevice)) \in Seq(Package)
      BY <3>1 DEF TypeOK
    <3> QED BY <3>1, <3>2, <3>3
  <2>2. CASE ReaderDrops
    BY <2>1, <2>2 DEF TypeOK, ReaderDrops, callerVars, deviceVars, hostVars, faultVars
  <2>3. CASE ReaderStartsKeyThread
    BY <2>1, <2>3 DEF TypeOK, ReaderStartsKeyThread, callerVars, deviceVars, faultVars
  <2>4. CASE ReaderQueues
    BY <2>1, <2>4 DEF TypeOK, ReaderQueues, callerVars, deviceVars, faultVars
  <2>5. CASE ReaderNotifies
    BY <2>5 DEF TypeOK, ReaderNotifies, deviceVars, faultVars
  <2>6. CASE ReaderStops
    BY <2>6 DEF TypeOK, ReaderStops, callerVars, deviceVars, faultVars
  <2> QED BY <1>5, <2>2, <2>3, <2>4, <2>5, <2>6 DEF ReaderStep
<1>6. CASE DeviceStep
  <2>1. ASSUME toDevice # << >>
        PROVE  Head(toDevice) \in Message /\ Tail(toDevice) \in Seq(Message)
    BY <2>1, TailIndices DEF TypeOK
  <2>2. ASSUME NEW m \in Message
        PROVE  /\ Append(fromDevice, AnswerTo(m)) \in Seq(Package)
               /\ Executes(m) => executed' \in [Callers -> Nat]
    <3>1. AnswerTo(m) \in Package
      BY PackagesTyped
    <3>2. Append(fromDevice, AnswerTo(m)) \in Seq(Package)
      BY <3>1 DEF TypeOK
    <3>3. Executes(m) => executed' \in [Callers -> Nat]
      BY DEF TypeOK, Executes, Message
    <3> QED BY <3>2, <3>3
  <2>3. CASE DeviceAnswers
    BY <2>1, <2>2, <2>3 DEF TypeOK, DeviceAnswers, callerVars, hostVars, faultVars
  <2>4. CASE DeviceExpectsPixels
    BY <2>1, <2>4 DEF TypeOK, DeviceExpectsPixels, callerVars, hostVars, faultVars
  <2>5. CASE DeviceTakesPixels
    <3>1. PICK m \in pixelsFor : /\ Executes(m)
                                 /\ fromDevice' = Append(fromDevice, AnswerTo(m))
      BY <2>5 DEF DeviceTakesPixels
    <3>2. m \in Message
      BY DEF TypeOK
    <3> QED BY <2>1, <2>2, <2>5, <3>1, <3>2
            DEF TypeOK, DeviceTakesPixels, callerVars, hostVars, faultVars
  <2>6. CASE DeviceIgnores
    BY <2>1, <2>6 DEF TypeOK, DeviceIgnores, callerVars, hostVars, faultVars
  <2> QED BY <1>6, <2>3, <2>4, <2>5, <2>6 DEF DeviceStep
<1>7. CASE LineStep
  <2>1. ASSUME toDevice # << >>
        PROVE  Head(toDevice) \in Message /\ Tail(toDevice) \in Seq(Message)
    BY <2>1, TailIndices DEF TypeOK
  <2>2. ASSUME NEW p \in Package PROVE Append(fromDevice, p) \in Seq(Package)
    BY AppendIndices DEF TypeOK
  <2>3. CASE DeviceReportsKey
    BY <2>2, <2>3, OthersTyped
    DEF TypeOK, DeviceReportsKey, callerVars, deviceVars, hostVars
  <2>4. CASE LineLosesRequest
    BY <2>1, <2>4 DEF TypeOK, LineLosesRequest, Fault, callerVars, hostVars
  <2>5. CASE DeviceRejects
    BY <2>1, <2>2, <2>5, PackagesTyped
    DEF TypeOK, DeviceRejects, Fault, callerVars, hostVars
  <2>6. CASE LineCorrupts
    <3>1. PICK i \in DOMAIN fromDevice :
             fromDevice' = [fromDevice EXCEPT ![i].intact = FALSE]
      BY <2>6 DEF LineCorrupts
    <3>2. fromDevice[i] \in Package
      BY ElementType DEF TypeOK
    <3>3. [fromDevice[i] EXCEPT !.intact = FALSE] \in Package
      BY <3>2 DEF Package
    <3>4. fromDevice' \in Seq(Package)
      BY <3>1, <3>3 DEF TypeOK
    <3> QED BY SMTT(30), <2>6, <3>4 DEF TypeOK, LineCorrupts, Fault, callerVars, deviceVars, hostVars
  <2>7. CASE LineStalls
    BY <2>7, TailIndices DEF TypeOK, LineStalls, Fault, callerVars, deviceVars
  <2>8. CASE DeviceStrays
    BY <2>2, <2>8, OthersTyped DEF TypeOK, DeviceStrays, Fault, callerVars, deviceVars, hostVars
  <2>9. CASE Unplug
    <3>1. << >> \in Seq(Message) /\ << >> \in Seq(Package)
      OBVIOUS
    <3>2. toDevice' \in Seq(Message) /\ fromDevice' \in Seq(Package)
      BY <2>9, <3>1 DEF Unplug
    <3>3. pixelsFor' \subseteq Message
      BY <2>9 DEF Unplug
    <3>4. faults < MaxFaults /\ faults' = faults + 1
      BY <2>9 DEF Unplug, Fault
    <3>5. faults' \in 0 .. MaxFaults
      BY <3>4 DEF TypeOK
    <3>6. linkUp' \in BOOLEAN
      BY <2>9 DEF Unplug
    <3> QED BY <2>9, <3>2, <3>3, <3>5, <3>6 DEF TypeOK, Unplug, callerVars, hostVars
  <2> QED BY <1>7, <2>3, <2>4, <2>5, <2>6, <2>7, <2>8, <2>9 DEF LineStep
<1>8. CASE UNCHANGED vars
  <2>1. /\ pc' = pc /\ request' = request /\ sent' = sent /\ answer' = answer
        /\ toDevice' = toDevice /\ pixelsFor' = pixelsFor /\ executed' = executed
        /\ fromDevice' = fromDevice /\ packages' = packages /\ reader' = reader
        /\ keyThreads' = keyThreads /\ keysReported' = keysReported
        /\ linkUp' = linkUp /\ faults' = faults /\ strayed' = strayed
    BY <1>8 DEF vars, callerVars, deviceVars, hostVars, faultVars
  <2> QED BY <2>1 DEF TypeOK
<1> QED BY <1>1, <1>2, <1>3, <1>4, <1>5, <1>6, <1>7, <1>8 DEF Next, CallerStep

\* Every variable keeps its type, whatever the threads, the device and the
\* line do (the state of cfa835.h:323-330 and of the threads that use it).
THEOREM TypeCorrect == Spec => []TypeOK
<1>1. Init => TypeOK
  <2> SUFFICES ASSUME Init PROVE TypeOK
    OBVIOUS
  <2>1. (CHOOSE r \in Requests : TRUE) \in Requests
    BY ChannelAssumption
  <2>2. sent \in [Callers -> 0 .. MaxRequests] /\ keysReported \in 0 .. MaxKeys
        /\ faults \in 0 .. MaxFaults
    BY ChannelAssumption DEF Init
  <2>3. answer \in [Callers -> Package]
    BY DEF Init, Package, Origin
  <2>4. /\ toDevice \in Seq(Message) /\ fromDevice \in Seq(Package)
        /\ packages \in Seq(Package)
    BY DEF Init
  <2> QED BY <2>1, <2>2, <2>3, <2>4 DEF Init, TypeOK
<1>2. TypeOK /\ [Next]_vars => TypeOK'
  BY TypeStep
<1> QED BY <1>1, <1>2, PTL DEF Spec

-----------------------------------------------------------------------------
(* One token per call.  First the steps that only lose or move tokens: the  *)
(* lines lose their heads (k, l), nobody starts, finishes or executes.      *)

ToShift(k) ==
    \A i \in DOMAIN toDevice' :
        \/ toDevice'[i].kind = "pixels"
        \/ i + k \in DOMAIN toDevice /\ toDevice'[i] = toDevice[i + k]

FromShift(l) ==
    \A i \in DOMAIN fromDevice' :
        /\ i + l \in DOMAIN fromDevice
        /\ fromDevice'[i].origin = fromDevice[i + l].origin
        /\ fromDevice'[i].command = fromDevice[i + l].command
        /\ fromDevice'[i].size = fromDevice[i + l].size

SameCalls ==
    /\ UNCHANGED <<request, sent, answer, executed, packages>>
    /\ \A c \in Callers : pc'[c] = "idle" <=> pc[c] = "idle"
    /\ pixelsFor' \subseteq pixelsFor

LEMMA ToUnchanged == ASSUME TypeOK, toDevice' = toDevice PROVE ToShift(0)
BY DEF TypeOK, ToShift

LEMMA FromUnchanged == ASSUME TypeOK, fromDevice' = fromDevice PROVE FromShift(0)
BY DEF TypeOK, FromShift

LEMMA ToTail ==
    ASSUME TypeOK, toDevice # << >>, toDevice' = Tail(toDevice) PROVE ToShift(1)
BY TailIndices DEF TypeOK, ToShift

LEMMA FromTail ==
    ASSUME TypeOK, fromDevice # << >>, fromDevice' = Tail(fromDevice) PROVE FromShift(1)
BY TailIndices DEF TypeOK, FromShift

LEMMA QuietStep ==
    ASSUME TypeOK, TypeOK', TokenInv, SameCalls,
           NEW k \in {0, 1}, ToShift(k), NEW l \in {0, 1}, FromShift(l)
    PROVE  TokenInv'
<1> USE DEF SameCalls, ToShift, FromShift
<1>1. ASSUME NEW m \in Message, Pending(m) PROVE Pending(m)'
  BY <1>1 DEF Pending, Message
<1>2. ASSUME NEW i \in DOMAIN toDevice', toDevice'[i].kind = "command"
      PROVE  i + k \in DOMAIN toDevice /\ toDevice'[i] = toDevice[i + k]
  BY <1>2
<1>3. \A i \in DOMAIN toDevice' : i \in Nat
  BY DEF TypeOK
<1>4. \A i \in DOMAIN fromDevice' : i \in Nat
  BY DEF TypeOK
<1>5. ASSUME NEW c, \A i \in DOMAIN toDevice : Answered(c, toDevice[i])
      PROVE  \A i \in DOMAIN toDevice' : Answered(c, toDevice'[i])
  BY <1>2, <1>5 DEF Answered
<1>7. CommandsInv'
  <2>1. ASSUME NEW i \in DOMAIN toDevice', toDevice'[i].kind = "command"
        PROVE  Pending(toDevice[i])'
    <3>1. toDevice[i + k] \in Message
      BY <1>2, <2>1, ElementType DEF TypeOK
    <3>2. Pending(toDevice[i + k])
      BY <1>2, <2>1 DEF TokenInv, CommandsInv
    <3> QED BY <1>2, <2>1, <3>1, <3>2 DEF Pending, Message
  <2>2. ASSUME NEW i \in DOMAIN toDevice', NEW j \in DOMAIN toDevice',
               toDevice'[i].kind = "command", toDevice'[j].kind = "command",
               toDevice'[i].caller = toDevice'[j].caller
        PROVE  i = j
    <3>1. i + k = j + k
      BY <1>2, <2>2 DEF TokenInv, CommandsInv
    <3> QED BY <1>3, <3>1
  <2> QED BY <2>1, <2>2 DEF CommandsInv
<1>8. PixelsInv'
  <2>1. \A m \in pixelsFor' : m \in Message /\ Pending(m)
    BY DEF TypeOK, TokenInv, PixelsInv
  <2>2. \A m \in pixelsFor' : Pending(m)'
    BY <1>1, <2>1
  <2>3. \A m \in pixelsFor' : \A i \in DOMAIN toDevice' : Answered(m.caller, toDevice'[i])
    BY <1>5 DEF TokenInv, PixelsInv
  <2>4. \A m, n \in pixelsFor' : m = n
    BY DEF TokenInv, PixelsInv
  <2> QED BY <2>2, <2>3, <2>4 DEF PixelsInv, Answered
<1>9. WireInv'
  <2>1. ASSUME NEW i \in DOMAIN fromDevice'
        PROVE  \/ fromDevice'[i].origin.caller \in Callers /\ Answering(fromDevice[i])'
               \/ fromDevice'[i].origin.caller = Nobody /\ fromDevice'[i].command = KeyActivity
    <3>1. CASE fromDevice[i + l].origin.caller \in Callers /\ Answering(fromDevice[i + l])
      BY <1>5, <3>1 DEF Answering, Answered
    <3> QED BY <3>1 DEF TokenInv, WireInv
  <2>2. ASSUME NEW i \in DOMAIN fromDevice', NEW j \in DOMAIN fromDevice',
               fromDevice'[i].origin.caller = fromDevice'[j].origin.caller,
               fromDevice'[i].origin.caller # Nobody
        PROVE  i = j
    <3>1. i + l = j + l
      BY <2>2 DEF TokenInv, WireInv
    <3> QED BY <1>4, <3>1
  <2> QED BY <2>1, <2>2 DEF WireInv
<1>10. QueueInv'
  <2>1. \A i \in DOMAIN packages' :
           packages'[i].origin.caller \in Callers /\ Answering(packages[i])'
    BY <1>5 DEF TokenInv, QueueInv, Answering, Answered
  <2>2. \A i \in DOMAIN packages', j \in DOMAIN fromDevice' :
           packages'[i].origin.caller # fromDevice'[j].origin.caller
    BY DEF TokenInv, QueueInv
  <2> QED BY <2>1, <2>2 DEF TokenInv, QueueInv
<1>11. CallersInv'
  BY DEF TokenInv, CallersInv
<1> QED BY <1>7, <1>8, <1>9, <1>10, <1>11 DEF TokenInv

\* A step that turns the one command of a caller into the one package for it.
LEMMA AnswerStep ==
    ASSUME TypeOK, TypeOK', TokenInv,
           UNCHANGED <<pc, request, sent, answer, packages>>,
           NEW m \in Message, Pending(m),
           NEW p \in Package, p.origin = OriginOf(m), p.size = SizeOf[m.request],
           \/ /\ p.command = CodeOf[m.request] + ResponseMessage
              /\ executed' = [executed EXCEPT ![m.caller] = m.number]
           \/ /\ p.command = CodeOf[m.request] + ErrorReply
              /\ executed' = executed,
           fromDevice' = Append(fromDevice, p),
           toDevice # << >>, toDevice' = Tail(toDevice),
           pixelsFor' \subseteq pixelsFor,
           \A i \in DOMAIN toDevice' :
              toDevice'[i].kind = "command" => toDevice'[i].caller # m.caller,
           \A n \in pixelsFor' : n.caller # m.caller,
           \A i \in DOMAIN fromDevice : fromDevice[i].origin.caller # m.caller,
           \A i \in DOMAIN packages : packages[i].origin.caller # m.caller
    PROVE  TokenInv'
<1> DEFINE c == m.caller
<1>1. /\ c \in Callers /\ m.number = sent[c] /\ m.request = request[c]
      /\ p.origin.caller = c /\ p.origin.number = sent[c] /\ c # Nobody
      /\ pc[c] # "idle"
  BY ChannelAssumption DEF Message, Pending, OriginOf
<1>2. /\ \A d \in Callers : d # c => executed'[d] = executed[d]
      /\ p.command = CodeOf[request[c]] + ResponseMessage => executed'[c] = sent[c]
      /\ executed'[c] \in {executed[c], sent[c]}
  <2>1. CodeOf[m.request] + ResponseMessage # CodeOf[m.request] + ErrorReply
    <3>1. m.request \in Requests
      BY DEF Message
    <3>2. CodeOf[m.request] \in Nat
      BY <3>1, TableTyped
    <3> QED BY <3>2 DEF ResponseMessage, ErrorReply
  <2> QED BY <1>1, <2>1 DEF TypeOK
<1>3. \A i \in DOMAIN toDevice' : /\ i + 1 \in DOMAIN toDevice /\ i \in Nat
                                  /\ toDevice'[i] = toDevice[i + 1]
                                  /\ toDevice[i + 1] \in Message
  BY TailIndices, ElementType DEF TypeOK
<1>4. \A i \in DOMAIN fromDevice' :
         \/ i \in DOMAIN fromDevice /\ fromDevice'[i] = fromDevice[i]
         \/ i \notin DOMAIN fromDevice /\ i = Len(fromDevice) + 1 /\ fromDevice'[i] = p
  BY AppendIndices DEF TypeOK
<1>5. CommandsInv'
  <2>1. ASSUME NEW i \in DOMAIN toDevice', toDevice'[i].kind = "command"
        PROVE  Pending(toDevice[i])'
    <3>1. Pending(toDevice[i + 1]) /\ toDevice[i + 1].caller # c
      BY <1>3, <2>1 DEF TokenInv, CommandsInv
    <3>2. toDevice[i + 1].caller \in Callers
      BY <1>3, <2>1 DEF Message
    <3> QED BY <1>2, <1>3, <2>1, <3>1, <3>2 DEF Pending
  <2>2. ASSUME NEW i \in DOMAIN toDevice', NEW j \in DOMAIN toDevice',
               toDevice'[i].kind = "command", toDevice'[j].kind = "command",
               toDevice'[i].caller = toDevice'[j].caller
        PROVE  i = j
    <3>1. i + 1 = j + 1
      BY <1>3, <2>2 DEF TokenInv, CommandsInv
    <3> QED BY <1>3, <3>1
  <2> QED BY <2>1, <2>2 DEF CommandsInv
<1>6. PixelsInv'
  <2>1. ASSUME NEW n \in pixelsFor'
        PROVE  n.caller \in Callers /\ n.caller # c /\ Pending(n)
    BY <2>1 DEF TypeOK, Message, TokenInv, PixelsInv
  <2>2. \A n \in pixelsFor' : Pending(n)'
    BY <1>2, <2>1 DEF Pending
  <2>3. \A n \in pixelsFor' : \A i \in DOMAIN toDevice' :
           toDevice'[i].kind = "command" => toDevice'[i].caller # n.caller
    BY <1>3 DEF TokenInv, PixelsInv, Answered
  <2>4. \A n, o \in pixelsFor' : n = o
    BY DEF TokenInv, PixelsInv
  <2> QED BY <2>2, <2>3, <2>4 DEF PixelsInv, Answered
<1>7. ASSUME NEW d \in Callers, d # c, \A i \in DOMAIN toDevice : Answered(d, toDevice[i])
      PROVE  \A i \in DOMAIN toDevice' :
                toDevice'[i].kind = "command" => toDevice'[i].caller # d
  BY <1>3, <1>7 DEF Answered
<1>8. ASSUME NEW q, q.origin.caller \in Callers, q.origin.caller # c, Answering(q)
      PROVE  Answering(q)'
  BY <1>2, <1>7, <1>8 DEF Answering, Answered
<1>9. Answering(p)'
  <2>1. p.size = SizeOf[request[c]]
    BY <1>1
  <2>2. \/ p.command = CodeOf[request[c]] + ResponseMessage /\ executed'[c] = sent[c]
        \/ p.command = CodeOf[request[c]] + ErrorReply
    BY <1>1, <1>2
  <2> QED BY <1>1, <2>1, <2>2 DEF Answering, Answered
<1>10. WireInv'
  <2>1. ASSUME NEW i \in DOMAIN fromDevice'
        PROVE  \/ fromDevice'[i].origin.caller \in Callers /\ Answering(fromDevice[i])'
               \/ fromDevice'[i].origin.caller = Nobody /\ fromDevice'[i].command = KeyActivity
    <3>1. CASE i \in DOMAIN fromDevice /\ fromDevice'[i] = fromDevice[i]
      <4>1. CASE fromDevice[i].origin.caller \in Callers /\ Answering(fromDevice[i])
        <5>1. PICK q : q = fromDevice[i]
          OBVIOUS
        <5>2. q.origin.caller # c
          BY <3>1, <5>1
        <5>3. Answering(q)'
          BY <1>8, <4>1, <5>1, <5>2
        <5> QED BY <3>1, <4>1, <5>1, <5>3 DEF Answering, Answered
      <4>2. CASE /\ fromDevice[i].origin.caller = Nobody
                 /\ fromDevice[i].command = KeyActivity
        BY <3>1, <4>2
      <4>3. \/ fromDevice[i].origin.caller \in Callers /\ Answering(fromDevice[i])
            \/ fromDevice[i].origin.caller = Nobody /\ fromDevice[i].command = KeyActivity
        BY <3>1 DEF TokenInv, WireInv
      <4> QED BY <4>1, <4>2, <4>3
    <3>2. CASE fromDevice'[i] = p
      BY <1>1, <1>9, <3>2 DEF Answering, Answered
    <3> QED BY <1>4, <3>1, <3>2
  <2>2. ASSUME NEW i \in DOMAIN fromDevice', NEW j \in DOMAIN fromDevice',
               fromDevice'[i].origin.caller = fromDevice'[j].origin.caller
        PROVE  i = j \/ fromDevice'[i].origin.caller = Nobody
    BY <1>1, <1>4, <2>2 DEF TokenInv, WireInv
  <2> QED BY <2>1, <2>2 DEF WireInv
<1>11. QueueInv'
  <2>1. ASSUME NEW i \in DOMAIN packages'
        PROVE  packages'[i].origin.caller \in Callers /\ Answering(packages[i])'
    <3>1. packages[i].origin.caller \in Callers /\ Answering(packages[i])
          /\ packages[i].origin.caller # c
      BY DEF TokenInv, QueueInv
    <3> QED BY <1>8, <3>1 DEF Answering, Answered
  <2>2. \A i \in DOMAIN packages', j \in DOMAIN fromDevice' :
           packages'[i].origin.caller # fromDevice'[j].origin.caller
    BY <1>1, <1>4 DEF TokenInv, QueueInv
  <2> QED BY <2>1, <2>2 DEF TokenInv, QueueInv
<1>12. CallersInv'
  <2>1. \A d \in Callers : executed'[d] <= sent[d]
    <3>1. \A d \in Callers : executed[d] <= sent[d]
      BY DEF TokenInv, CallersInv
    <3>2. sent[c] \in Nat
      BY <1>1, ChannelAssumption DEF TypeOK
    <3> QED BY <1>1, <1>2, <3>1, <3>2
  <2>2. \A d \in Callers : pc[d] = "idle" => executed'[d] = sent[d]
    BY <1>1, <1>2 DEF TokenInv, CallersInv
  <2> QED BY <2>1, <2>2 DEF TokenInv, CallersInv
<1> QED BY <1>5, <1>6, <1>10, <1>11, <1>12 DEF TokenInv

\* A caller between two commands has no token: its new command is the first.
LEMMA SendStep ==
    ASSUME TypeOK, TypeOK', TokenInv, NEW c \in Callers, SendMessage(c)
    PROVE  TokenInv'
<1>1. PICK r \in RequestsOf[c] :
         /\ request' = [request EXCEPT ![c] = r]
         /\ \/ /\ toDevice' = Append(toDevice,
                    [kind |-> "command", request |-> r, caller |-> c,
                     number |-> sent[c] + 1])
               /\ pc' = [pc EXCEPT ![c] =
                            IF r \in PayloadRequests THEN "payload" ELSE "receive"]
            \/ toDevice' = toDevice /\ pc' = [pc EXCEPT ![c] = "threw"]
  BY DEF SendMessage
<1>2. /\ pc[c] = "idle" /\ sent' = [sent EXCEPT ![c] = @ + 1]
      /\ answer' = answer /\ executed' = executed /\ pixelsFor' = pixelsFor
      /\ fromDevice' = fromDevice /\ packages' = packages
  BY DEF SendMessage, hostVars
<1> DEFINE m == [kind |-> "command", request |-> r, caller |-> c, number |-> sent[c] + 1]
<1>3. r \in Requests
  BY ChannelAssumption
<1>4. /\ pc'[c] # "idle" /\ request'[c] = r /\ sent'[c] = sent[c] + 1
      /\ sent[c] \in Nat /\ executed[c] = sent[c]
      /\ \A d \in Callers : d # c =>
            pc'[d] = pc[d] /\ request'[d] = request[d] /\ sent'[d] = sent[d]
  <2>1. sent[c] \in Nat /\ sent \in [Callers -> Nat]
    BY ChannelAssumption DEF TypeOK
  <2>2. pc \in [Callers -> {"idle", "payload", "receive", "waiting", "threw"}]
        /\ request \in [Callers -> Requests]
    BY DEF TypeOK
  <2>3. executed[c] = sent[c]
    BY <1>2 DEF TokenInv, CallersInv
  <2>4. sent'[c] = sent[c] + 1 /\ \A d \in Callers : d # c => sent'[d] = sent[d]
    BY <1>2, <2>1
  <2>5. request'[c] = r /\ \A d \in Callers : d # c => request'[d] = request[d]
    BY <1>1, <2>2
  <2>6. pc'[c] # "idle" /\ \A d \in Callers : d # c => pc'[d] = pc[d]
    BY <1>1, <2>2
  <2> QED BY <2>1, <2>3, <2>4, <2>5, <2>6
<1>5. ASSUME NEW i \in DOMAIN toDevice'
      PROVE  \/ i \in DOMAIN toDevice /\ toDevice'[i] = toDevice[i]
             \/ i \notin DOMAIN toDevice /\ i = Len(toDevice) + 1 /\ toDevice'[i] = m
  <2>1. m \in Message
    BY <1>3, <1>4 DEF Message
  <2>2. toDevice \in Seq(Message)
    BY DEF TypeOK
  <2> HIDE DEF m
  <2> QED BY <1>1, <2>1, <2>2, AppendIndices DEF m
<1>6. \A i \in DOMAIN toDevice : toDevice[i].kind = "command" => toDevice[i].caller # c
  BY <1>2 DEF TokenInv, CommandsInv, Pending
<1>7. \A n \in pixelsFor : n.caller # c /\ n.caller \in Callers
  BY <1>2 DEF TokenInv, PixelsInv, Pending, TypeOK, Message
<1>8. ASSUME NEW q, q.origin.caller \in Callers, Answering(q)
      PROVE  q.origin.caller # c /\ Answering(q)'
  <2>1. q.origin.caller # c
    BY <1>2, <1>8 DEF Answering
  <2>2. \A i \in DOMAIN toDevice' :
           toDevice'[i].kind = "command" => toDevice'[i].caller # q.origin.caller
    BY <1>5, <1>8, <2>1 DEF Answering, Answered
  <2> QED BY <1>2, <1>4, <1>8, <2>1, <2>2 DEF Answering, Answered
<1>9. CommandsInv'
  <2>1. ASSUME NEW i \in DOMAIN toDevice', toDevice'[i].kind = "command"
        PROVE  Pending(toDevice[i])'
    <3>1. CASE i \in DOMAIN toDevice /\ toDevice'[i] = toDevice[i]
      <4>1. Pending(toDevice[i]) /\ toDevice[i].caller # c
        BY <1>6, <2>1, <3>1 DEF TokenInv, CommandsInv
      <4>2. toDevice[i] \in Message
        BY <3>1, ElementType DEF TypeOK
      <4>3. toDevice[i].caller \in Callers
        BY <4>2 DEF Message
      <4> QED BY <1>2, <1>4, <3>1, <4>1, <4>3 DEF Pending
    <3>2. CASE toDevice'[i] = m
      BY <1>2, <1>4, <3>2 DEF Pending
    <3> QED BY <1>5, <3>1, <3>2
  <2>2. ASSUME NEW i \in DOMAIN toDevice', NEW j \in DOMAIN toDevice',
               toDevice'[i].kind = "command", toDevice'[j].kind = "command",
               toDevice'[i].caller = toDevice'[j].caller
        PROVE  i = j
    BY <1>5, <1>6, <2>2 DEF TokenInv, CommandsInv
  <2> QED BY <2>1, <2>2 DEF CommandsInv
<1>10. PixelsInv'
  <2>1. ASSUME NEW n \in pixelsFor PROVE Pending(n)'
    BY <1>2, <1>4, <1>7 DEF TokenInv, PixelsInv, Pending
  <2>2. \A n \in pixelsFor : \A i \in DOMAIN toDevice' :
           toDevice'[i].kind = "command" => toDevice'[i].caller # n.caller
    BY <1>5, <1>7 DEF TokenInv, PixelsInv, Answered
  <2> QED BY <1>2, <2>1, <2>2 DEF TokenInv, PixelsInv, Answered
<1>11. WireInv'
  <2>1. ASSUME NEW i \in DOMAIN fromDevice'
        PROVE  \/ fromDevice'[i].origin.caller \in Callers /\ Answering(fromDevice[i])'
               \/ fromDevice'[i].origin.caller = Nobody /\ fromDevice'[i].command = KeyActivity
    <3>1. PICK q : q = fromDevice[i]
      OBVIOUS
    <3>2. CASE q.origin.caller \in Callers /\ Answering(q)
      BY <1>2, <1>8, <3>1, <3>2 DEF Answering, Answered
    <3> QED BY <1>2, <3>1, <3>2 DEF TokenInv, WireInv
  <2> QED BY <1>2, <2>1 DEF TokenInv, WireInv
<1>12. QueueInv'
  <2>1. ASSUME NEW i \in DOMAIN packages'
        PROVE  packages'[i].origin.caller \in Callers /\ Answering(packages[i])'
    <3>1. PICK q : q = packages[i]
      OBVIOUS
    <3>2. q.origin.caller \in Callers /\ Answering(q)
      BY <1>2, <3>1 DEF TokenInv, QueueInv
    <3> QED BY <1>2, <1>8, <3>1, <3>2 DEF Answering, Answered
  <2> QED BY <1>2, <2>1 DEF TokenInv, QueueInv
<1>13. CallersInv'
  <2>1. ASSUME NEW d \in Callers PROVE executed'[d] <= sent'[d]
    <3>1. executed[d] <= sent[d] /\ executed[d] \in Nat
      BY DEF TokenInv, CallersInv, TypeOK
    <3> QED BY <1>2, <1>4, <3>1
  <2> QED BY <1>2, <1>4, <2>1 DEF TokenInv, CallersInv
<1> QED BY <1>9, <1>10, <1>11, <1>12, <1>13 DEF TokenInv

\* The package a caller pops is its own: what the others wait for differs.
LEMMA TakeStep ==
    ASSUME TypeOK, TypeOK', TokenInv, Separated, NEW c \in Callers, TakeAnswer(c)
    PROVE  TokenInv'
<1>1. /\ pc[c] = "receive" /\ FrontIsFor(c)
      /\ answer' = [answer EXCEPT ![c] = Head(packages)]
      /\ packages' = Tail(packages) /\ pc' = [pc EXCEPT ![c] = "idle"]
      /\ request' = request /\ sent' = sent /\ toDevice' = toDevice
      /\ pixelsFor' = pixelsFor /\ executed' = executed /\ fromDevice' = fromDevice
  BY DEF TakeAnswer, deviceVars
<1>2. /\ packages # << >> /\ packages \in Seq(Package)
      /\ 1 \in DOMAIN packages /\ Head(packages) = packages[1]
  BY <1>1 DEF FrontIsFor, TypeOK
<1> DEFINE d == packages[1].origin.caller
<1>3. /\ d \in Callers /\ Answering(packages[1])
  BY <1>2 DEF TokenInv, QueueInv
<1>4. /\ packages[1].command = CodeOf[request[d]] + ResponseMessage
      /\ CodeOf[request[d]] = CodeOf[request[c]]
      /\ SizeOf[request[d]] = SizeOf[request[c]]
  <2>1. /\ CodeOf[request[c]] \in Nat /\ CodeOf[request[c]] <= 63
        /\ CodeOf[request[d]] \in Nat /\ CodeOf[request[d]] <= 63
    BY <1>3, TableTyped DEF TypeOK
  <2>2. /\ TypeOf(packages[1]) = CodeOf[request[c]]
        /\ packages[1].size = SizeOf[request[c]]
    BY <1>1, <1>2 DEF FrontIsFor
  <2>3. packages[1].command # CodeOf[request[d]] + ErrorReply
    BY <2>1, <2>2 DEF TypeOf, ErrorReply, ResponseMessage
  <2>4. packages[1].command = CodeOf[request[d]] + ResponseMessage
    BY <1>3, <2>3 DEF Answering
  <2>5. TypeOf(packages[1]) = CodeOf[request[d]]
    <3>1. /\ packages[1].command \in 64 .. 127
          /\ packages[1].command - 64 = CodeOf[request[d]]
      <4>1. \A n \in Nat : n <= 63 => n + 64 \in 64 .. 127 /\ (n + 64) - 64 = n
        OBVIOUS
      <4>2. packages[1].command = CodeOf[request[d]] + 64
        BY <2>4 DEF ResponseMessage
      <4> QED BY <2>1, <4>1, <4>2, Zenon
    <3> QED BY <3>1 DEF TypeOf, ResponseMessage
  <2> QED BY <1>3, <2>2, <2>4, <2>5 DEF Answering
<1>5. d = c
  <2>1. pc[c] # "idle" /\ pc[d] # "idle"
    BY <1>1, <1>3 DEF Answering
  <2>2. request[c] \in RequestsOf[c] /\ request[d] \in RequestsOf[d]
    BY <1>3, <2>1 DEF TokenInv, CallersInv
  <2> QED BY <1>3, <1>4, <2>2 DEF Separated
<1>6. /\ executed[c] = sent[c]
      /\ packages[1].origin.number = sent[c]
      /\ \A i \in DOMAIN toDevice : toDevice[i].kind = "command" => toDevice[i].caller # c
      /\ \A m \in pixelsFor : m.caller # c
  <2>1. CodeOf[request[c]] + ResponseMessage # CodeOf[request[c]] + ErrorReply
    <3>1. CodeOf[request[c]] \in Nat
      BY TableTyped DEF TypeOK
    <3> QED BY <3>1 DEF ResponseMessage, ErrorReply
  <2> QED BY <1>3, <1>4, <1>5, <2>1 DEF Answering, Answered
<1>7. packages[1].origin = [caller |-> c, number |-> sent[c]]
  <2>1. packages[1] \in Package
    BY <1>2, ElementType
  <2>2. packages[1].origin \in Origin
    BY <2>1 DEF Package
  <2> QED BY <1>5, <1>6, <2>2 DEF Origin
<1>8. \A i \in DOMAIN packages' : /\ i + 1 \in DOMAIN packages /\ i \in Nat /\ i >= 1
                                  /\ packages'[i] = packages[i + 1]
                                  /\ packages'[i].origin.caller # c
  <2>1. \A i \in DOMAIN packages' : /\ i + 1 \in DOMAIN packages /\ i \in Nat /\ i >= 1
                                    /\ packages'[i] = packages[i + 1]
    BY <1>1, <1>2, TailIndices
  <2>2. \A i \in DOMAIN packages' : i + 1 # 1
    BY <2>1
  <2> QED BY <1>2, <1>5, <2>1, <2>2 DEF TokenInv, QueueInv
<1>9. \A i \in DOMAIN fromDevice : fromDevice[i].origin.caller # c
  BY <1>2, <1>5 DEF TokenInv, QueueInv
<1>10. \A e \in Callers : e # c => pc'[e] = pc[e]
  BY <1>1
<1>11. ASSUME NEW q, q.origin.caller \in Callers, q.origin.caller # c, Answering(q)
       PROVE  Answering(q)'
  BY <1>1, <1>10, <1>11 DEF Answering, Answered
<1>12. CommandsInv'
  <2>1. ASSUME NEW i \in DOMAIN toDevice, toDevice[i].kind = "command"
        PROVE  Pending(toDevice[i])'
    <3>1. Pending(toDevice[i]) /\ toDevice[i].caller # c
      BY <1>6, <2>1 DEF TokenInv, CommandsInv
    <3>2. toDevice[i] \in Message
      BY ElementType DEF TypeOK
    <3>3. toDevice[i].caller \in Callers
      BY <3>2 DEF Message
    <3> QED BY <1>1, <1>10, <3>1, <3>3 DEF Pending
  <2> QED BY <1>1, <2>1 DEF TokenInv, CommandsInv
<1>13. PixelsInv'
  <2>1. ASSUME NEW n \in pixelsFor PROVE Pending(n)'
    <3>1. Pending(n) /\ n.caller # c /\ n.caller \in Callers
      BY <1>6 DEF TokenInv, PixelsInv, TypeOK, Message
    <3> QED BY <1>1, <1>10, <3>1 DEF Pending
  <2> QED BY <1>1, <2>1 DEF TokenInv, PixelsInv, Answered
<1>14. WireInv'
  <2>1. ASSUME NEW i \in DOMAIN fromDevice'
        PROVE  \/ fromDevice'[i].origin.caller \in Callers /\ Answering(fromDevice[i])'
               \/ fromDevice'[i].origin.caller = Nobody /\ fromDevice'[i].command = KeyActivity
    <3>1. PICK q : q = fromDevice[i]
      OBVIOUS
    <3>2. CASE q.origin.caller \in Callers /\ Answering(q)
      <4>1. Answering(q)'
        BY <1>1, <1>9, <1>11, <3>1, <3>2
      <4> QED BY <1>1, <3>1, <3>2, <4>1 DEF Answering, Answered
    <3> QED BY <1>1, <3>1, <3>2 DEF TokenInv, WireInv
  <2> QED BY <1>1, <2>1 DEF TokenInv, WireInv
<1>15. QueueInv'
  <2>1. ASSUME NEW i \in DOMAIN packages'
        PROVE  packages'[i].origin.caller \in Callers /\ Answering(packages[i])'
    <3>1. PICK q : q = packages[i + 1]
      OBVIOUS
    <3>2. q.origin.caller \in Callers /\ Answering(q) /\ q.origin.caller # c
      BY <1>8, <3>1 DEF TokenInv, QueueInv
    <3>3. Answering(q)'
      BY <1>11, <3>2
    <3> QED BY <1>8, <3>1, <3>2, <3>3 DEF Answering, Answered
  <2>2. ASSUME NEW i \in DOMAIN packages', NEW j \in DOMAIN packages',
               packages'[i].origin.caller = packages'[j].origin.caller
        PROVE  i = j
    <3>1. i + 1 = j + 1
      BY <1>8, <2>2 DEF TokenInv, QueueInv
    <3> QED BY <1>8, <3>1
  <2>3. \A i \in DOMAIN packages', j \in DOMAIN fromDevice' :
           packages'[i].origin.caller # fromDevice'[j].origin.caller
    BY <1>1, <1>8 DEF TokenInv, QueueInv
  <2> QED BY <2>1, <2>2, <2>3 DEF QueueInv
<1>16. CallersInv'
  BY <1>1, <1>2, <1>6, <1>7, <1>10 DEF TokenInv, CallersInv, TypeOK
<1> QED BY <1>12, <1>13, <1>14, <1>15, <1>16 DEF TokenInv

\* The reader moves a package from the line to the queue.
LEMMA QueueStep ==
    ASSUME TypeOK, TypeOK', TokenInv, ReaderQueues
    PROVE  TokenInv'
<1>1. /\ fromDevice # << >> /\ TypeOf(Head(fromDevice)) # KeyActivity
      /\ packages' = Append(packages, Head(fromDevice)) /\ fromDevice' = Tail(fromDevice)
      /\ pc' = pc /\ request' = request /\ sent' = sent /\ answer' = answer
      /\ toDevice' = toDevice /\ pixelsFor' = pixelsFor /\ executed' = executed
  BY DEF ReaderQueues, callerVars, deviceVars
<1>2. PICK p : p = Head(fromDevice)
  OBVIOUS
<1>3. /\ p \in Package /\ 1 \in DOMAIN fromDevice /\ p = fromDevice[1]
      /\ \A i \in DOMAIN fromDevice' : /\ i + 1 \in DOMAIN fromDevice /\ i \in Nat
                                       /\ i >= 1 /\ fromDevice'[i] = fromDevice[i + 1]
  BY <1>1, <1>2, TailIndices DEF TypeOK
<1>4. \A i \in DOMAIN packages' :
         \/ i \in DOMAIN packages /\ packages'[i] = packages[i]
         \/ i \notin DOMAIN packages /\ i = Len(packages) + 1 /\ packages'[i] = p
  BY <1>1, <1>2, <1>3, AppendIndices DEF TypeOK
<1>5. p.origin.caller \in Callers /\ Answering(p)
  <2>1. TypeOf(p) # KeyActivity => p.command # KeyActivity
    BY DEF TypeOf, KeyActivity
  <2> QED BY <1>1, <1>2, <1>3, <2>1 DEF TokenInv, WireInv
<1>6. ASSUME NEW i \in DOMAIN fromDevice' PROVE fromDevice'[i].origin.caller # p.origin.caller
  <2>1. i + 1 # 1
    BY <1>3
  <2> QED BY <1>3, <1>5, <2>1, ChannelAssumption DEF TokenInv, WireInv
<1>7. ASSUME NEW q, Answering(q) PROVE Answering(q)'
  BY <1>1, <1>7 DEF Answering, Answered
<1>8. CommandsInv' /\ PixelsInv' /\ CallersInv'
  BY <1>1 DEF TokenInv, CommandsInv, PixelsInv, CallersInv, Pending, Answered
<1>9. WireInv'
  <2>1. ASSUME NEW i \in DOMAIN fromDevice'
        PROVE  \/ fromDevice'[i].origin.caller \in Callers /\ Answering(fromDevice[i])'
               \/ fromDevice'[i].origin.caller = Nobody /\ fromDevice'[i].command = KeyActivity
    <3>1. PICK q : q = fromDevice[i + 1]
      OBVIOUS
    <3>2. CASE q.origin.caller \in Callers /\ Answering(q)
      <4>1. Answering(q)'
        BY <1>7, <3>2
      <4> QED BY <1>3, <3>1, <3>2, <4>1 DEF Answering, Answered
    <3> QED BY <1>3, <3>1, <3>2 DEF TokenInv, WireInv
  <2>2. ASSUME NEW i \in DOMAIN fromDevice', NEW j \in DOMAIN fromDevice',
               fromDevice'[i].origin.caller = fromDevice'[j].origin.caller,
               fromDevice'[i].origin.caller # Nobody
        PROVE  i = j
    <3>1. i + 1 = j + 1
      BY <1>3, <2>2 DEF TokenInv, WireInv
    <3> QED BY <1>3, <3>1
  <2> QED BY <2>1, <2>2 DEF WireInv
<1>10. QueueInv'
  <2>1. ASSUME NEW i \in DOMAIN packages'
        PROVE  packages'[i].origin.caller \in Callers /\ Answering(packages[i])'
    <3>1. PICK q : q = packages'[i]
      OBVIOUS
    <3>2. q.origin.caller \in Callers /\ Answering(q)
      BY <1>4, <1>5, <3>1 DEF TokenInv, QueueInv
    <3>3. Answering(q)'
      BY <1>7, <3>2
    <3> QED BY <3>1, <3>2, <3>3 DEF Answering, Answered
  <2>2. \A i \in DOMAIN packages : packages[i].origin.caller # p.origin.caller
    BY <1>3 DEF TokenInv, QueueInv
  <2>3. \A i, j \in DOMAIN packages' :
           packages'[i].origin.caller = packages'[j].origin.caller => i = j
    BY <1>4, <2>2 DEF TokenInv, QueueInv
  <2>4. \A i \in DOMAIN packages', j \in DOMAIN fromDevice' :
           packages'[i].origin.caller # fromDevice'[j].origin.caller
    BY <1>3, <1>4, <1>6 DEF TokenInv, QueueInv
  <2> QED BY <2>1, <2>3, <2>4 DEF QueueInv
<1> QED BY <1>8, <1>9, <1>10 DEF TokenInv

\* The device keeps a command until its raw bytes come.
LEMMA ExpectStep ==
    ASSUME TypeOK, TypeOK', TokenInv, DeviceExpectsPixels
    PROVE  TokenInv'
<1>1. /\ toDevice # << >> /\ pixelsFor = {} /\ Head(toDevice).kind = "command"
      /\ pixelsFor' = {Head(toDevice)} /\ toDevice' = Tail(toDevice)
      /\ pc' = pc /\ request' = request /\ sent' = sent /\ answer' = answer
      /\ executed' = executed /\ fromDevice' = fromDevice /\ packages' = packages
  BY DEF DeviceExpectsPixels, callerVars, hostVars
<1>2. PICK m : m = Head(toDevice)
  OBVIOUS
<1>3. /\ m = toDevice[1] /\ m \in Message /\ 1 \in DOMAIN toDevice
      /\ \A i \in DOMAIN toDevice' : /\ i + 1 \in DOMAIN toDevice /\ i \in Nat /\ i >= 1
                                     /\ toDevice'[i] = toDevice[i + 1]
  BY <1>1, <1>2, TailIndices DEF TypeOK
<1>4. Pending(m)
  BY <1>1, <1>2, <1>3 DEF TokenInv, CommandsInv
<1>5. ASSUME NEW i \in DOMAIN toDevice', toDevice'[i].kind = "command"
      PROVE  toDevice'[i].caller # m.caller
  <2>1. i + 1 # 1
    BY <1>3
  <2> QED BY <1>1, <1>2, <1>3, <1>5, <2>1 DEF TokenInv, CommandsInv
<1>6. ASSUME NEW q, Answering(q) PROVE Answering(q)'
  <2>1. \A i \in DOMAIN toDevice' :
           toDevice'[i].kind = "command" => toDevice'[i].caller # q.origin.caller
    BY <1>3, <1>6 DEF Answering, Answered
  <2>2. m.caller # q.origin.caller
    BY <1>1, <1>2, <1>3, <1>6 DEF Answering, Answered
  <2>3. \A n \in pixelsFor' : n.caller # q.origin.caller
    BY <1>1, <1>2, <2>2
  <2> QED BY <1>1, <1>6, <2>1, <2>3 DEF Answering, Answered
<1>7. CommandsInv'
  <2>1. ASSUME NEW i \in DOMAIN toDevice', toDevice'[i].kind = "command"
        PROVE  Pending(toDevice[i])'
    BY <1>1, <1>3, <2>1 DEF TokenInv, CommandsInv, Pending
  <2>2. ASSUME NEW i \in DOMAIN toDevice', NEW j \in DOMAIN toDevice',
               toDevice'[i].kind = "command", toDevice'[j].kind = "command",
               toDevice'[i].caller = toDevice'[j].caller
        PROVE  i = j
    <3>1. i + 1 = j + 1
      BY <1>3, <2>2 DEF TokenInv, CommandsInv
    <3> QED BY <1>3, <3>1
  <2> QED BY <2>1, <2>2 DEF CommandsInv
<1>8. PixelsInv'
  BY <1>1, <1>2, <1>4, <1>5 DEF PixelsInv, Pending, Answered
<1>9. CallersInv'
  BY <1>1 DEF TokenInv, CallersInv
<1>10. WireInv'
  <2>1. ASSUME NEW i \in DOMAIN fromDevice'
        PROVE  \/ fromDevice'[i].origin.caller \in Callers /\ Answering(fromDevice[i])'
               \/ fromDevice'[i].origin.caller = Nobody /\ fromDevice'[i].command = KeyActivity
    <3>1. PICK q : q = fromDevice[i]
      OBVIOUS
    <3>2. CASE q.origin.caller \in Callers /\ Answering(q)
      <4>1. Answering(q)'
        BY <1>6, <3>2
      <4> QED BY <1>1, <3>1, <3>2, <4>1 DEF Answering, Answered
    <3> QED BY <1>1, <3>1, <3>2 DEF TokenInv, WireInv
  <2> QED BY <1>1, <2>1 DEF TokenInv, WireInv
<1>11. QueueInv'
  <2>1. ASSUME NEW i \in DOMAIN packages'
        PROVE  packages'[i].origin.caller \in Callers /\ Answering(packages[i])'
    <3>1. PICK q : q = packages[i]
      OBVIOUS
    <3>2. q.origin.caller \in Callers /\ Answering(q)
      BY <1>1, <3>1 DEF TokenInv, QueueInv
    <3>3. Answering(q)'
      BY <1>6, <3>2
    <3> QED BY <1>1, <3>1, <3>2, <3>3 DEF Answering, Answered
  <2> QED BY <1>1, <2>1 DEF TokenInv, QueueInv
<1> QED BY <1>7, <1>8, <1>9, <1>10, <1>11 DEF TokenInv

\* A key report joins the line.
LEMMA KeyStep ==
    ASSUME TypeOK, TypeOK', TokenInv, DeviceReportsKey
    PROVE  TokenInv'
<1>1. /\ fromDevice' = Append(fromDevice, KeyReport(keysReported + 1))
      /\ pc' = pc /\ request' = request /\ sent' = sent /\ answer' = answer
      /\ toDevice' = toDevice /\ pixelsFor' = pixelsFor /\ executed' = executed
      /\ packages' = packages
  BY DEF DeviceReportsKey, callerVars, deviceVars, hostVars
<1>2. PICK p : p = KeyReport(keysReported + 1)
  OBVIOUS
<1>3. p \in Package /\ p.origin.caller = Nobody /\ p.command = KeyActivity
  <2>1. keysReported + 1 \in Nat
    BY ChannelAssumption DEF TypeOK
  <2> QED BY <1>2, <2>1, OthersTyped DEF KeyReport
<1>4. \A i \in DOMAIN fromDevice' :
         \/ i \in DOMAIN fromDevice /\ fromDevice'[i] = fromDevice[i]
         \/ fromDevice'[i] = p
  BY <1>1, <1>2, <1>3, AppendIndices DEF TypeOK
<1>5. ASSUME NEW q, Answering(q) PROVE Answering(q)'
  BY <1>1, <1>5 DEF Answering, Answered
<1>6. CommandsInv' /\ PixelsInv' /\ CallersInv'
  BY <1>1 DEF TokenInv, CommandsInv, PixelsInv, CallersInv, Pending, Answered
<1>7. WireInv'
  <2>1. ASSUME NEW i \in DOMAIN fromDevice'
        PROVE  \/ fromDevice'[i].origin.caller \in Callers /\ Answering(fromDevice[i])'
               \/ fromDevice'[i].origin.caller = Nobody /\ fromDevice'[i].command = KeyActivity
    <3>1. PICK q : q = fromDevice'[i]
      OBVIOUS
    <3>2. CASE q.origin.caller \in Callers /\ Answering(q)
      <4>1. Answering(q)'
        BY <1>5, <3>2
      <4> QED BY <3>1, <3>2, <4>1 DEF Answering, Answered
    <3> QED BY <1>3, <1>4, <3>1, <3>2 DEF TokenInv, WireInv
  <2>2. ASSUME NEW i \in DOMAIN fromDevice', NEW j \in DOMAIN fromDevice',
               fromDevice'[i].origin.caller = fromDevice'[j].origin.caller,
               fromDevice'[i].origin.caller # Nobody
        PROVE  i = j
    BY <1>3, <1>4, <2>2 DEF TokenInv, WireInv
  <2> QED BY <2>1, <2>2 DEF WireInv
<1>8. QueueInv'
  <2>1. ASSUME NEW i \in DOMAIN packages'
        PROVE  packages'[i].origin.caller \in Callers /\ Answering(packages[i])'
    <3>1. PICK q : q = packages[i]
      OBVIOUS
    <3>2. q.origin.caller \in Callers /\ Answering(q)
      BY <1>1, <3>1 DEF TokenInv, QueueInv
    <3>3. Answering(q)'
      BY <1>5, <3>2
    <3> QED BY <1>1, <3>1, <3>2, <3>3 DEF Answering, Answered
  <2>2. \A i \in DOMAIN packages', j \in DOMAIN fromDevice' :
           packages'[i].origin.caller # fromDevice'[j].origin.caller
    BY <1>1, <1>3, <1>4, ChannelAssumption DEF TokenInv, QueueInv
  <2> QED BY <1>1, <2>1, <2>2 DEF TokenInv, QueueInv
<1> QED BY <1>6, <1>7, <1>8 DEF TokenInv

LEMMA TokenStep ==
    ASSUME Separated, ~strayed',
           TypeOK, TypeOK', TokenInv, [Next]_vars
    PROVE  TokenInv'
<1>1. ASSUME NEW c \in Callers, SendMessage(c) PROVE TokenInv'
  BY <1>1, SendStep
<1>2. ASSUME NEW c \in Callers, SendData(c) PROVE TokenInv'
  <2>1. SameCalls /\ fromDevice' = fromDevice
    BY <1>2 DEF SendData, SameCalls, hostVars, TypeOK
  <2>2. ToShift(0)
    <3>1. CASE toDevice' = toDevice
      BY <3>1, ToUnchanged
    <3>2. CASE toDevice' = Append(toDevice, MessageOf(c, "pixels"))
      <4>1. MessageOf(c, "pixels") \in Message
        BY DEF MessageOf, Message, TypeOK
      <4>2. MessageOf(c, "pixels").kind = "pixels"
        BY DEF MessageOf
      <4>3. \A i \in DOMAIN toDevice' :
               \/ i \in DOMAIN toDevice /\ toDevice'[i] = toDevice[i]
               \/ toDevice'[i] = MessageOf(c, "pixels")
        BY SMTT(30), <3>2, <4>1, AppendIndices DEF TypeOK
      <4>4. \A i \in DOMAIN toDevice : i + 0 = i
        BY DEF TypeOK
      <4> QED BY <4>2, <4>3, <4>4 DEF ToShift
    <3> QED BY <1>2, <3>1, <3>2 DEF SendData
  <2> QED BY <2>1, <2>2, FromUnchanged, QuietStep
<1>3. ASSUME NEW c \in Callers, TakeAnswer(c) PROVE TokenInv'
  BY <1>3, TakeStep
<1>4. ASSUME NEW c \in Callers, Sleep(c) \/ SpuriousWakeup(c) PROVE TokenInv'
  <2>1. SameCalls /\ fromDevice' = fromDevice /\ toDevice' = toDevice
    BY <1>4 DEF Sleep, SpuriousWakeup, SameCalls, hostVars, deviceVars, TypeOK
  <2> QED BY <2>1, ToUnchanged, FromUnchanged, QuietStep
<1>5. CASE ReaderDrops \/ ReaderStartsKeyThread
  <2>1. /\ SameCalls /\ toDevice' = toDevice
        /\ fromDevice # << >> /\ fromDevice' = Tail(fromDevice)
    BY <1>5 DEF ReaderDrops, ReaderStartsKeyThread, SameCalls, callerVars, hostVars,
                deviceVars
  <2> QED BY <2>1, ToUnchanged, FromTail, QuietStep
<1>6. CASE ReaderQueues
  BY <1>6, QueueStep
<1>7. CASE ReaderNotifies \/ ReaderStops \/ UNCHANGED vars
  <2>1. SameCalls /\ toDevice' = toDevice /\ fromDevice' = fromDevice
    <3>1. CASE ReaderNotifies
      BY <3>1 DEF ReaderNotifies, SameCalls, deviceVars, TypeOK
    <3>2. CASE ReaderStops
      BY <3>2 DEF ReaderStops, SameCalls, callerVars, deviceVars
    <3>3. CASE UNCHANGED vars
      BY <3>3 DEF vars, SameCalls, callerVars, deviceVars, hostVars
    <3> QED BY <1>7, <3>1, <3>2, <3>3
  <2> QED BY <2>1, ToUnchanged, FromUnchanged, QuietStep
<1>8. CASE DeviceAnswers \/ DeviceRejects
  <2>1. /\ toDevice # << >> /\ toDevice' = Tail(toDevice)
        /\ pixelsFor = {} /\ pixelsFor' = {} /\ Head(toDevice).kind = "command"
        /\ UNCHANGED <<pc, request, sent, answer, packages>>
    BY <1>8 DEF DeviceAnswers, DeviceRejects, callerVars, hostVars
  <2>2. PICK m : m = Head(toDevice)
    OBVIOUS
  <2>3. /\ m \in Message /\ 1 \in DOMAIN toDevice /\ m = toDevice[1]
        /\ \A i \in DOMAIN toDevice' : /\ i + 1 \in DOMAIN toDevice /\ i \in Nat /\ i >= 1
                                       /\ toDevice'[i] = toDevice[i + 1]
    BY <2>1, <2>2, TailIndices DEF TypeOK
  <2>4. Pending(m)
    BY <2>1, <2>2, <2>3 DEF TokenInv, CommandsInv
  <2>5. ASSUME NEW i \in DOMAIN toDevice', toDevice'[i].kind = "command"
        PROVE  toDevice'[i].caller # m.caller
    <3>1. i + 1 # 1
      BY <2>3
    <3> QED BY <2>1, <2>2, <2>3, <2>5, <3>1 DEF TokenInv, CommandsInv
  <2>6. /\ \A i \in DOMAIN fromDevice : fromDevice[i].origin.caller # m.caller
        /\ \A i \in DOMAIN packages : packages[i].origin.caller # m.caller
    <3>1. m.caller \in Callers /\ m.caller # Nobody
      BY <2>3, ChannelAssumption DEF Message
    <3>2. ASSUME NEW q, Answering(q) PROVE q.origin.caller # m.caller
      BY <2>1, <2>2, <2>3, <3>2 DEF Answering, Answered
    <3> QED BY <3>1, <3>2 DEF TokenInv, WireInv, QueueInv
  <2>7. PICK p : /\ p \in Package /\ p.origin = OriginOf(m) /\ p.size = SizeOf[m.request]
                 /\ fromDevice' = Append(fromDevice, p)
                 /\ \/ /\ p.command = CodeOf[m.request] + ResponseMessage
                       /\ executed' = [executed EXCEPT ![m.caller] = m.number]
                    \/ /\ p.command = CodeOf[m.request] + ErrorReply
                       /\ executed' = executed
    <3>1. CASE DeviceAnswers
      BY SMTT(30), <2>2, <2>3, <3>1, PackagesTyped DEF DeviceAnswers, Executes, AnswerTo
    <3>2. CASE DeviceRejects
      <4>1. PICK p : p = RejectionOf(m)
        OBVIOUS
      <4>2. fromDevice' = Append(fromDevice, p) /\ executed' = executed
        BY <2>2, <3>2, <4>1 DEF DeviceRejects
      <4>3. p \in Package
        BY <2>3, <4>1, PackagesTyped
      <4>4. /\ p.origin = OriginOf(m) /\ p.size = SizeOf[m.request]
            /\ p.command = CodeOf[m.request] + ErrorReply
        BY <4>1 DEF RejectionOf, AnswerTo
      <4> QED BY <4>2, <4>3, <4>4
    <3> QED BY <1>8, <3>1, <3>2
  <2> QED BY <2>1, <2>3, <2>4, <2>5, <2>6, <2>7, AnswerStep
<1>9. CASE DeviceTakesPixels
  <2>1. PICK m \in pixelsFor :
           /\ executed' = [executed EXCEPT ![m.caller] = m.number]
           /\ fromDevice' = Append(fromDevice, AnswerTo(m))
    BY <1>9 DEF DeviceTakesPixels, Executes
  <2>2. /\ toDevice # << >> /\ toDevice' = Tail(toDevice) /\ pixelsFor' = {}
        /\ UNCHANGED <<pc, request, sent, answer, packages>>
    BY <1>9 DEF DeviceTakesPixels, callerVars, hostVars
  <2>3. m \in Message /\ m.caller \in Callers /\ Pending(m)
    BY DEF TypeOK, Message, TokenInv, PixelsInv
  <2>4. \A i \in DOMAIN toDevice' :
           toDevice'[i].kind = "command" => toDevice'[i].caller # m.caller
    <3>1. \A i \in DOMAIN toDevice' : /\ i + 1 \in DOMAIN toDevice
                                      /\ toDevice'[i] = toDevice[i + 1]
      BY <2>2, TailIndices DEF TypeOK
    <3> QED BY <3>1 DEF TokenInv, PixelsInv, Answered
  <2>5. /\ \A i \in DOMAIN fromDevice : fromDevice[i].origin.caller # m.caller
        /\ \A i \in DOMAIN packages : packages[i].origin.caller # m.caller
    <3>1. m.caller # Nobody
      BY <2>3, ChannelAssumption
    <3>2. ASSUME NEW q, Answering(q) PROVE q.origin.caller # m.caller
      BY <3>2 DEF Answering
    <3> QED BY <3>1, <3>2 DEF TokenInv, WireInv, QueueInv
  <2>6. PICK p : p = AnswerTo(m)
    OBVIOUS
  <2>7. /\ p \in Package /\ p.origin = OriginOf(m) /\ p.size = SizeOf[m.request]
        /\ p.command = CodeOf[m.request] + ResponseMessage
    BY <2>3, <2>6, PackagesTyped DEF AnswerTo
  <2> QED BY <2>1, <2>2, <2>3, <2>4, <2>5, <2>6, <2>7, AnswerStep
<1>10. CASE DeviceExpectsPixels
  BY <1>10, ExpectStep
<1>11. CASE DeviceIgnores \/ LineLosesRequest
  <2>1. /\ SameCalls /\ fromDevice' = fromDevice
        /\ toDevice # << >> /\ toDevice' = Tail(toDevice)
    BY <1>11 DEF DeviceIgnores, LineLosesRequest, SameCalls, callerVars, hostVars
  <2> QED BY <2>1, ToTail, FromUnchanged, QuietStep
<1>12. CASE DeviceReportsKey
  BY <1>12, KeyStep
<1>13. CASE LineCorrupts
  <2>1. SameCalls /\ toDevice' = toDevice
    BY <1>13 DEF LineCorrupts, SameCalls, callerVars, hostVars, deviceVars
  <2>2. PICK i \in DOMAIN fromDevice :
           fromDevice' = [fromDevice EXCEPT ![i].intact = FALSE]
    BY <1>13 DEF LineCorrupts
  <2>3. \A j \in DOMAIN fromDevice : fromDevice[j] \in Package /\ j + 0 = j
    BY ElementType DEF TypeOK
  <2>4. FromShift(0)
    <3>1. ASSUME NEW j \in DOMAIN fromDevice'
          PROVE  /\ j \in DOMAIN fromDevice
                 /\ fromDevice'[j].origin = fromDevice[j].origin
                 /\ fromDevice'[j].command = fromDevice[j].command
                 /\ fromDevice'[j].size = fromDevice[j].size
      <4>1. j \in DOMAIN fromDevice /\ fromDevice[j] \in Package
        BY <2>2, <2>3
      <4>2. fromDevice'[j] = fromDevice[j]
            \/ fromDevice'[j] = [fromDevice[j] EXCEPT !.intact = FALSE]
        BY <2>2, <4>1
      <4> QED BY <4>1, <4>2 DEF Package
    <3> QED BY <2>3, <3>1 DEF FromShift
  <2> QED BY <2>1, <2>4, ToUnchanged, QuietStep
<1>14. CASE LineStalls
  <2>1. /\ SameCalls /\ toDevice' = toDevice
        /\ fromDevice # << >> /\ fromDevice' = Tail(fromDevice)
    BY <1>14 DEF LineStalls, SameCalls, callerVars, deviceVars
  <2> QED BY <2>1, ToUnchanged, FromTail, QuietStep
<1>15. CASE DeviceStrays
  BY <1>15 DEF DeviceStrays
<1>16. CASE Unplug
  <2>1. SameCalls /\ toDevice' = << >> /\ fromDevice' = << >>
    BY <1>16 DEF Unplug, SameCalls, callerVars, hostVars
  <2>2. ToShift(0) /\ FromShift(0)
    BY <2>1 DEF ToShift, FromShift
  <2> QED BY <2>1, <2>2, QuietStep
<1> QED BY <1>1, <1>2, <1>3, <1>4, <1>5, <1>6, <1>7, <1>8, <1>9, <1>10, <1>11, <1>12,
           <1>13, <1>14, <1>15, <1>16
        DEF Next, CallerStep, ReaderStep, DeviceStep, LineStep

LEMMA TokenInit == Init => TokenInv
<1> SUFFICES ASSUME Init PROVE TokenInv
  OBVIOUS
<1>1. CommandsInv /\ PixelsInv /\ WireInv /\ QueueInv
  BY DEF Init, CommandsInv, PixelsInv, WireInv, QueueInv
<1>2. CallersInv
  BY DEF Init, CallersInv
<1> QED BY <1>1, <1>2 DEF TokenInv

\* What strayed is remembered, and nothing else sets the history.
LEMMA StrayedStep ==
    ASSUME [Next]_vars
    PROVE  strayed' = strayed \/ DeviceStrays
<1>1. ASSUME NEW c \in Callers, CallerStep(c) PROVE strayed' = strayed
  BY <1>1 DEF CallerStep, SendMessage, SendData, TakeAnswer, Sleep, SpuriousWakeup, faultVars
<1>2. CASE ReaderStep \/ DeviceStep \/ UNCHANGED vars
  BY <1>2 DEF ReaderStep, ReaderDrops, ReaderStartsKeyThread, ReaderQueues, ReaderNotifies,
              ReaderStops, DeviceStep, DeviceAnswers, DeviceExpectsPixels,
              DeviceTakesPixels, DeviceIgnores, vars, faultVars
<1>3. CASE LineStep
  BY <1>3 DEF LineStep, DeviceReportsKey, LineLosesRequest, DeviceRejects, LineCorrupts,
              LineStalls, Unplug
<1> QED BY <1>1, <1>2, <1>3 DEF Next

LEMMA StrayedStays == [Next]_vars /\ strayed => strayed'
BY StrayedStep DEF DeviceStrays

\* As long as nothing strayed, every call has one token.
LEMMA TokensUntilStrayed ==
    ASSUME Separated
    PROVE  Spec => [](strayed \/ TokenInv)
<1>1. TypeOK /\ TypeOK' /\ (strayed \/ TokenInv) /\ [Next]_vars => (strayed \/ TokenInv)'
  BY TokenStep, StrayedStays
<1> QED BY <1>1, TokenInit, TypeCorrect, PTL DEF Spec

\* Without packages nobody asked for, and with callers whose answers differ,
\* every call has one token and every finished call none (send_message to
\* receive_message, line 335-492).
THEOREM TokensInvariant ==
    ASSUME Separated, "stray" \notin FaultKinds
    PROVE  Spec => []TokenInv
<1>1. Init => ~strayed
  BY DEF Init
<1>2. ~strayed /\ [Next]_vars => ~strayed'
  BY StrayedStep DEF DeviceStrays, Fault
<1> QED BY <1>1, <1>2, TokensUntilStrayed, PTL DEF Spec

-----------------------------------------------------------------------------
(* With strays: a package still has the shape of what its caller asked for.  *)

OrderOf(m) == m.request \in RequestsOf[m.caller]

ShapeOf(p, r) ==
    /\ p.size = SizeOf[r]
    /\ p.command \in {CodeOf[r] + ResponseMessage, CodeOf[r] + ErrorReply}

Shaped(p) ==
    p.origin.caller # Nobody => \E r \in RequestsOf[p.origin.caller] : ShapeOf(p, r)

OrdersShaped ==
    /\ \A i \in DOMAIN toDevice : OrderOf(toDevice[i])
    /\ \A m \in pixelsFor : OrderOf(m)

PackagesShaped ==
    /\ \A i \in DOMAIN fromDevice : Shaped(fromDevice[i])
    /\ \A i \in DOMAIN packages : Shaped(packages[i])

CallersShaped ==
    \A c \in Callers :
        /\ pc[c] # "idle" => request[c] \in RequestsOf[c]
        /\ pc[c] = "idle" => answer[c].origin.caller \in {c, Nobody}

ShapeInv == OrdersShaped /\ PackagesShaped /\ CallersShaped

LEMMA AnswersShaped ==
    ASSUME NEW m \in Message, OrderOf(m)
    PROVE  Shaped(AnswerTo(m)) /\ Shaped(RejectionOf(m))
<1>1. /\ AnswerTo(m).origin.caller = m.caller /\ AnswerTo(m).size = SizeOf[m.request]
      /\ AnswerTo(m).command = CodeOf[m.request] + ResponseMessage
  BY DEF AnswerTo, OriginOf
<1>2. /\ RejectionOf(m).origin.caller = m.caller /\ RejectionOf(m).size = SizeOf[m.request]
      /\ RejectionOf(m).command = CodeOf[m.request] + ErrorReply
  BY DEF RejectionOf, AnswerTo, OriginOf
<1> QED BY <1>1, <1>2 DEF OrderOf, Shaped, ShapeOf

LEMMA OthersShaped ==
    /\ \A n \in Nat : Shaped(KeyReport(n))
    /\ \A s \in StrayPackages : Shaped(Stray(s))
BY DEF Shaped, KeyReport, Stray

\* What joins and leaves the lines and the queue keeps the shape.
LEMMA ToJoins ==
    ASSUME TypeOK, OrdersShaped, NEW m \in Message, OrderOf(m),
           toDevice' \in {toDevice, Append(toDevice, m)}, pixelsFor' = pixelsFor
    PROVE  OrdersShaped'
<1>1. \A i \in DOMAIN toDevice' :
         \/ i \in DOMAIN toDevice /\ toDevice'[i] = toDevice[i]
         \/ toDevice'[i] = m
  <2>1. toDevice \in Seq(Message)
    BY DEF TypeOK
  <2>2. CASE toDevice' = toDevice
    BY <2>2
  <2>3. CASE toDevice' = Append(toDevice, m)
    BY <2>1, <2>3, AppendIndices
  <2> QED BY <2>2, <2>3
<1> QED BY <1>1 DEF OrdersShaped, OrderOf

LEMMA ToLeaves ==
    ASSUME TypeOK, OrdersShaped, toDevice # << >>, toDevice' = Tail(toDevice),
           pixelsFor' \subseteq pixelsFor \cup {Head(toDevice)}
    PROVE  OrdersShaped'
<1>1. /\ 1 \in DOMAIN toDevice /\ Head(toDevice) = toDevice[1]
      /\ \A i \in DOMAIN toDevice' : i + 1 \in DOMAIN toDevice /\ toDevice'[i] = toDevice[i + 1]
  BY TailIndices DEF TypeOK
<1> QED BY <1>1 DEF OrdersShaped, OrderOf

LEMMA FromJoins ==
    ASSUME TypeOK, PackagesShaped, NEW p \in Package, Shaped(p),
           fromDevice' = Append(fromDevice, p), packages' = packages
    PROVE  PackagesShaped'
<1>1. \A i \in DOMAIN fromDevice' :
         \/ i \in DOMAIN fromDevice /\ fromDevice'[i] = fromDevice[i]
         \/ fromDevice'[i] = p
  BY AppendIndices DEF TypeOK
<1> QED BY <1>1 DEF PackagesShaped, Shaped, ShapeOf

LEMMA FromLeaves ==
    ASSUME TypeOK, PackagesShaped, fromDevice # << >>, fromDevice' = Tail(fromDevice),
           packages' \in {packages, Append(packages, Head(fromDevice))}
    PROVE  PackagesShaped'
<1>1. /\ 1 \in DOMAIN fromDevice /\ Head(fromDevice) = fromDevice[1]
      /\ Head(fromDevice) \in Package
      /\ \A i \in DOMAIN fromDevice' :
            i + 1 \in DOMAIN fromDevice /\ fromDevice'[i] = fromDevice[i + 1]
  BY TailIndices DEF TypeOK
<1>2. \A i \in DOMAIN packages' :
         \/ i \in DOMAIN packages /\ packages'[i] = packages[i]
         \/ packages'[i] = Head(fromDevice)
  <2>1. packages \in Seq(Package)
    BY DEF TypeOK
  <2>2. CASE packages' = packages
    BY <2>2
  <2>3. CASE packages' = Append(packages, Head(fromDevice))
    BY <1>1, <2>1, <2>3, AppendIndices
  <2> QED BY <2>2, <2>3
<1> QED BY <1>1, <1>2 DEF PackagesShaped, Shaped, ShapeOf

LEMMA CallersKeep ==
    ASSUME CallersShaped, UNCHANGED <<request, answer>>,
           \A c \in Callers : pc'[c] = "idle" <=> pc[c] = "idle"
    PROVE  CallersShaped'
BY DEF CallersShaped

\* Codes and sizes tell the callers apart, so what a caller pops is its own, or
\* nobody's.
LEMMA PopsOwn ==
    ASSUME TypeOK, Separated, PackagesShaped, CallersShaped,
           NEW c \in Callers, TakeAnswer(c)
    PROVE  Head(packages).origin.caller \in {c, Nobody}
<1>1. PICK p : p = Head(packages)
  OBVIOUS
<1>2. /\ p \in Package /\ Shaped(p)
      /\ TypeOf(p) = CodeOf[request[c]] /\ p.size = SizeOf[request[c]]
      /\ request[c] \in RequestsOf[c]
  <2>1. packages # << >> /\ pc[c] # "idle" /\ FrontIsFor(c)
    BY DEF TakeAnswer, FrontIsFor
  <2>2. 1 \in DOMAIN packages /\ p = packages[1] /\ p \in Package
    BY <1>1, <2>1, TailIndices DEF TypeOK
  <2> QED BY <1>1, <2>1, <2>2 DEF PackagesShaped, CallersShaped, FrontIsFor
<1>3. SUFFICES ASSUME p.origin.caller \in Callers, p.origin.caller # c PROVE FALSE
  BY <1>1, <1>2 DEF Package, Origin
<1>4. PICK r \in RequestsOf[p.origin.caller] : ShapeOf(p, r)
  BY <1>2, <1>3, ChannelAssumption DEF Shaped
<1>5. /\ CodeOf[r] \in Nat /\ CodeOf[r] <= 63
      /\ CodeOf[request[c]] \in Nat /\ CodeOf[request[c]] <= 63
  <2>1. r \in Requests /\ request[c] \in Requests
    BY <1>3, ChannelAssumption DEF TypeOK
  <2> QED BY <2>1, TableTyped
<1>6. p.command # CodeOf[r] + ErrorReply
  BY <1>2, <1>5 DEF TypeOf, ErrorReply, ResponseMessage
<1>7. p.command = CodeOf[r] + ResponseMessage
  BY <1>4, <1>6 DEF ShapeOf
<1>8. TypeOf(p) = CodeOf[r]
  BY SMTT(60), <1>5, <1>7 DEF TypeOf, ResponseMessage
<1>9. CodeOf[r] = CodeOf[request[c]] /\ SizeOf[r] = SizeOf[request[c]]
  BY <1>2, <1>4, <1>8 DEF ShapeOf
<1> QED BY <1>2, <1>3, <1>9 DEF Separated

LEMMA ShapeStep ==
    ASSUME Separated, TypeOK, TypeOK', ShapeInv, [Next]_vars
    PROVE  ShapeInv'
<1> USE DEF ShapeInv
<1>1. ASSUME NEW c \in Callers, SendMessage(c) PROVE ShapeInv'
  <2>1. PICK r \in RequestsOf[c] :
           /\ request' = [request EXCEPT ![c] = r]
           /\ \/ toDevice' = Append(toDevice,
                     [kind |-> "command", request |-> r, caller |-> c,
                      number |-> sent[c] + 1])
              \/ toDevice' = toDevice
    BY <1>1 DEF SendMessage
  <2>2. PICK m : m = [kind |-> "command", request |-> r, caller |-> c, number |-> sent[c] + 1]
    OBVIOUS
  <2>3. m \in Message
    <3>1. r \in Requests
      BY ChannelAssumption
    <3>2. sent[c] \in 0 .. MaxRequests /\ MaxRequests \in Nat
      BY ChannelAssumption DEF TypeOK
    <3>3. sent[c] + 1 \in Nat
      BY <3>2
    <3> QED BY <2>2, <3>1, <3>3 DEF Message
  <2>4. OrderOf(m)
    BY <2>2 DEF OrderOf
  <2>5. /\ UNCHANGED <<pixelsFor, fromDevice, packages, answer>>
        /\ pc'[c] # "idle" /\ request'[c] = r
        /\ \A d \in Callers : d # c => pc'[d] = pc[d] /\ request'[d] = request[d]
    BY <1>1, <2>1 DEF SendMessage, hostVars, TypeOK
  <2>6. OrdersShaped'
    BY <2>1, <2>2, <2>3, <2>4, <2>5, ToJoins
  <2> QED BY <2>5, <2>6 DEF PackagesShaped, Shaped, ShapeOf, CallersShaped
<1>2. ASSUME NEW c \in Callers, SendData(c) PROVE ShapeInv'
  <2>1. /\ UNCHANGED <<pixelsFor, fromDevice, packages, answer, request>>
        /\ toDevice' \in {toDevice, Append(toDevice, MessageOf(c, "pixels"))}
        /\ pc[c] # "idle" /\ \A d \in Callers : pc'[d] = "idle" <=> pc[d] = "idle"
    BY <1>2 DEF SendData, hostVars, TypeOK
  <2>2. MessageOf(c, "pixels") \in Message
    BY DEF MessageOf, Message, TypeOK
  <2>3. OrderOf(MessageOf(c, "pixels"))
    BY <2>1 DEF OrderOf, MessageOf, CallersShaped
  <2>4. OrdersShaped'
    BY <2>1, <2>2, <2>3, ToJoins
  <2>5. CallersShaped'
    BY <2>1, CallersKeep
  <2> QED BY <2>1, <2>4, <2>5 DEF PackagesShaped, Shaped, ShapeOf
<1>3. ASSUME NEW c \in Callers, TakeAnswer(c) PROVE ShapeInv'
  <2>1. /\ UNCHANGED <<toDevice, pixelsFor, fromDevice, request>>
        /\ packages # << >> /\ packages' = Tail(packages)
        /\ answer' = [answer EXCEPT ![c] = Head(packages)]
        /\ pc' = [pc EXCEPT ![c] = "idle"]
    BY <1>3 DEF TakeAnswer, FrontIsFor, deviceVars
  <2>2. \A i \in DOMAIN packages' : i + 1 \in DOMAIN packages /\ packages'[i] = packages[i + 1]
    BY <2>1, TailIndices DEF TypeOK
  <2>3. PackagesShaped'
    BY <2>1, <2>2 DEF PackagesShaped, Shaped, ShapeOf
  <2>4. Head(packages).origin.caller \in {c, Nobody}
    BY <1>3, PopsOwn
  <2>5. CallersShaped'
    BY <2>1, <2>4 DEF CallersShaped, TypeOK
  <2> QED BY <2>1, <2>3, <2>5 DEF OrdersShaped, OrderOf
<1>4. ASSUME NEW c \in Callers, Sleep(c) \/ SpuriousWakeup(c) PROVE ShapeInv'
  <2>1. /\ UNCHANGED <<toDevice, pixelsFor, fromDevice, packages, request, answer>>
        /\ \A d \in Callers : pc'[d] = "idle" <=> pc[d] = "idle"
    BY <1>4 DEF Sleep, SpuriousWakeup, deviceVars, hostVars, TypeOK
  <2>2. CallersShaped'
    BY <2>1, CallersKeep
  <2> QED BY <2>1, <2>2 DEF OrdersShaped, OrderOf, PackagesShaped, Shaped, ShapeOf
<1>5. CASE ReaderDrops \/ ReaderStartsKeyThread \/ ReaderQueues \/ LineStalls
  <2>1. /\ UNCHANGED <<pc, request, answer, toDevice, pixelsFor>>
        /\ fromDevice # << >> /\ fromDevice' = Tail(fromDevice)
        /\ packages' \in {packages, Append(packages, Head(fromDevice))}
    BY <1>5 DEF ReaderDrops, ReaderStartsKeyThread, ReaderQueues, LineStalls, callerVars,
                deviceVars, hostVars
  <2>2. PackagesShaped'
    BY <2>1, FromLeaves
  <2> QED BY <2>1, <2>2 DEF OrdersShaped, OrderOf, CallersShaped
<1>6. CASE ReaderNotifies \/ ReaderStops \/ UNCHANGED vars
  <2>1. /\ UNCHANGED <<request, answer, toDevice, pixelsFor, fromDevice, packages>>
        /\ \A d \in Callers : pc'[d] = "idle" <=> pc[d] = "idle"
    <3>1. CASE ReaderNotifies
      BY <3>1 DEF ReaderNotifies, deviceVars, TypeOK
    <3>2. CASE ReaderStops \/ UNCHANGED vars
      BY <3>2 DEF ReaderStops, callerVars, deviceVars, hostVars, vars
    <3> QED BY <1>6, <3>1, <3>2
  <2>2. CallersShaped'
    BY <2>1, CallersKeep
  <2> QED BY <2>1, <2>2 DEF OrdersShaped, OrderOf, PackagesShaped, Shaped, ShapeOf
<1>7. CASE DeviceAnswers \/ DeviceRejects \/ DeviceTakesPixels
  <2>1. /\ UNCHANGED <<pc, request, answer, packages>>
        /\ toDevice # << >> /\ toDevice' = Tail(toDevice) /\ pixelsFor' \subseteq pixelsFor
    BY <1>7 DEF DeviceAnswers, DeviceRejects, DeviceTakesPixels, callerVars, hostVars
  <2>2. Head(toDevice) \in Message /\ OrderOf(Head(toDevice))
    <3>1. 1 \in DOMAIN toDevice /\ Head(toDevice) = toDevice[1] /\ Head(toDevice) \in Message
      BY <2>1, TailIndices DEF TypeOK
    <3> QED BY <3>1 DEF OrdersShaped
  <2>3. PICK m \in Message :
           /\ OrderOf(m)
           /\ \/ fromDevice' = Append(fromDevice, AnswerTo(m))
              \/ fromDevice' = Append(fromDevice, RejectionOf(m))
    <3>1. CASE DeviceAnswers \/ DeviceRejects
      BY <2>2, <3>1 DEF DeviceAnswers, DeviceRejects
    <3>2. CASE DeviceTakesPixels
      BY <3>2 DEF DeviceTakesPixels, OrdersShaped, TypeOK
    <3> QED BY <1>7, <3>1, <3>2
  <2>4. PackagesShaped'
    BY <2>1, <2>3, PackagesTyped, AnswersShaped, FromJoins
  <2>5. OrdersShaped'
    BY <2>1, ToLeaves
  <2> QED BY <2>1, <2>4, <2>5 DEF CallersShaped
<1>8. CASE DeviceExpectsPixels \/ DeviceIgnores \/ LineLosesRequest
  <2>1. /\ UNCHANGED <<pc, request, answer, packages, fromDevice>>
        /\ toDevice # << >> /\ toDevice' = Tail(toDevice)
        /\ pixelsFor' \subseteq pixelsFor \cup {Head(toDevice)}
    BY <1>8 DEF DeviceExpectsPixels, DeviceIgnores, LineLosesRequest, callerVars, hostVars
  <2>2. OrdersShaped'
    BY <2>1, ToLeaves
  <2> QED BY <2>1, <2>2 DEF PackagesShaped, Shaped, ShapeOf, CallersShaped
<1>9. CASE DeviceReportsKey \/ DeviceStrays
  <2>1. UNCHANGED <<pc, request, answer, packages, toDevice, pixelsFor>>
    BY <1>9 DEF DeviceReportsKey, DeviceStrays, callerVars, deviceVars, hostVars
  <2>2. PICK p \in Package : Shaped(p) /\ fromDevice' = Append(fromDevice, p)
    <3>1. CASE DeviceReportsKey
      <4>1. keysReported + 1 \in Nat
        BY ChannelAssumption DEF TypeOK
      <4> QED BY <3>1, <4>1, OthersTyped, OthersShaped DEF DeviceReportsKey
    <3>2. CASE DeviceStrays
      BY <3>2, OthersTyped, OthersShaped DEF DeviceStrays
    <3> QED BY <1>9, <3>1, <3>2
  <2>3. PackagesShaped'
    BY <2>1, <2>2, FromJoins
  <2> QED BY <2>1, <2>3 DEF OrdersShaped, OrderOf, CallersShaped
<1>10. CASE LineCorrupts
  <2>1. UNCHANGED <<pc, request, answer, packages, toDevice, pixelsFor>>
    BY <1>10 DEF LineCorrupts, callerVars, deviceVars, hostVars
  <2>2. PICK i \in DOMAIN fromDevice : fromDevice' = [fromDevice EXCEPT ![i].intact = FALSE]
    BY <1>10 DEF LineCorrupts
  <2>3. ASSUME NEW j \in DOMAIN fromDevice' PROVE Shaped(fromDevice'[j])
    <3>1. fromDevice[j] \in Package /\ Shaped(fromDevice[j])
      BY <2>2, ElementType DEF TypeOK, PackagesShaped
    <3>2. PICK q : q = fromDevice'[j]
      OBVIOUS
    <3>3. q = fromDevice[j] \/ q = [fromDevice[j] EXCEPT !.intact = FALSE]
      BY <2>2, <3>2
    <3>4. /\ q.origin = fromDevice[j].origin /\ q.command = fromDevice[j].command
          /\ q.size = fromDevice[j].size
      BY <3>1, <3>3 DEF Package
    <3> QED BY <3>1, <3>2, <3>4 DEF Shaped, ShapeOf
  <2> QED BY <2>1, <2>3 DEF OrdersShaped, OrderOf, CallersShaped, PackagesShaped, Shaped, ShapeOf
<1>11. CASE Unplug
  BY <1>11 DEF Unplug, callerVars, hostVars, OrdersShaped, PackagesShaped, Shaped, ShapeOf,
               CallersShaped
<1> QED BY <1>1, <1>2, <1>3, <1>4, <1>5, <1>6, <1>7, <1>8, <1>9, <1>10, <1>11
        DEF Next, CallerStep, ReaderStep, DeviceStep, LineStep

LEMMA ShapeInvariant == ASSUME Separated PROVE Spec => []ShapeInv
<1>1. Init => ShapeInv
  BY DEF Init, ShapeInv, OrdersShaped, PackagesShaped, CallersShaped
<1>2. TypeOK /\ TypeOK' /\ ShapeInv /\ [Next]_vars => ShapeInv'
  BY ShapeStep
<1> QED BY <1>1, <1>2, TypeCorrect, PTL DEF Spec

\* A finished command never holds the answer to another caller's command, whatever
\* the line loses, damages, refuses or brings unasked; and it holds the answer to
\* itself, not to an earlier one, as long as nothing came unasked (receive_message,
\* line 477-492).
THEOREM OwnAnswerInvariant ==
    ASSUME Separated
    PROVE  Spec => []OwnAnswer
<1>1. (strayed \/ TokenInv) /\ ShapeInv => OwnAnswer
  BY DEF TokenInv, CallersInv, ShapeInv, CallersShaped, OwnAnswer
<1> QED BY <1>1, TokensUntilStrayed, ShapeInvariant, PTL

\* A command that returned was carried out by the device, whatever the line lost,
\* damaged or refused meanwhile, as long as no package came that nobody asked for.
THEOREM ReturnMeansExecutedInvariant ==
    ASSUME Separated
    PROVE  Spec => []ReturnMeansExecuted
<1>1. (strayed \/ TokenInv) => ReturnMeansExecuted
  BY DEF TokenInv, CallersInv, ReturnMeansExecuted
<1> QED BY <1>1, TokensUntilStrayed, PTL

-----------------------------------------------------------------------------
(* The channel implements the remote call. *)

LEMMA SamePhase ==
    ASSUME TypeOK, SameCalls
    PROVE  Phase' = Phase /\ sent' = sent /\ Result' = Result
BY DEF SameCalls, Phase, Result

LEMMA ExecuteStep ==
    ASSUME TypeOK, NEW m \in Message, Pending(m), Executes(m),
           UNCHANGED <<pc, sent, answer>>
    PROVE  Rpc!Execute(m.caller)
<1>1. /\ m.caller \in Callers /\ pc[m.caller] # "idle"
      /\ executed[m.caller] # sent[m.caller]
      /\ executed'[m.caller] = sent[m.caller]
      /\ \A d \in Callers : d # m.caller => executed'[d] = executed[d]
  BY DEF Message, Pending, Executes, TypeOK
<1>2. Phase[m.caller] = "called"
  BY <1>1 DEF Phase
<1>3. Phase' = [Phase EXCEPT ![m.caller] = "executed"]
  BY <1>1 DEF Phase
<1>4. Result' = Result
  BY DEF Result
<1> QED BY <1>2, <1>3, <1>4 DEF Rpc!Execute

LEMMA RpcStep ==
    ASSUME TypeOK, TokenInv, TokenInv', [Next]_vars
    PROVE  [Rpc!Next]_(Rpc!vars)
<1>1. ASSUME NEW c \in Callers, SendMessage(c) PROVE Rpc!Call(c)
  <2>1. /\ pc[c] = "idle" /\ pc'[c] # "idle" /\ sent[c] < MaxRequests
        /\ sent' = [sent EXCEPT ![c] = @ + 1] /\ executed' = executed /\ answer' = answer
        /\ \A d \in Callers : d # c => pc'[d] = pc[d]
    BY <1>1 DEF SendMessage, TypeOK
  <2>2. executed[c] = sent[c] /\ sent[c] \in Nat /\ sent'[c] = sent[c] + 1
    BY <2>1, ChannelAssumption DEF TypeOK, TokenInv, CallersInv
  <2>3. executed'[c] # sent'[c]
    BY <2>1, <2>2
  <2>4. \A d \in Callers : d # c => sent'[d] = sent[d]
    BY <2>1 DEF TypeOK
  <2>5. Phase[c] = "idle" /\ Phase' = [Phase EXCEPT ![c] = "called"]
    BY <2>1, <2>3, <2>4 DEF Phase
  <2>6. Result' = Result
    BY <2>1 DEF Result
  <2> QED BY <2>1, <2>5, <2>6 DEF Rpc!Call
<1>2. ASSUME NEW c \in Callers, TakeAnswer(c) PROVE Rpc!Return(c)
  <2>1. /\ pc[c] # "idle" /\ pc' = [pc EXCEPT ![c] = "idle"]
        /\ sent' = sent /\ executed' = executed
        /\ answer' = [answer EXCEPT ![c] = Head(packages)]
    BY <1>2 DEF TakeAnswer, deviceVars
  <2>2. /\ executed[c] = sent[c]
        /\ answer'[c].origin = [caller |-> c, number |-> sent[c]]
    BY <2>1 DEF TokenInv, CallersInv, TypeOK
  <2>3. Phase[c] = "executed" /\ Phase' = [Phase EXCEPT ![c] = "idle"]
    BY <2>1, <2>2 DEF Phase, TypeOK
  <2>4. Result' = [Result EXCEPT ![c] = [caller |-> c, number |-> sent[c]]]
    BY <2>1, <2>2 DEF Result, TypeOK
  <2> QED BY <2>1, <2>3, <2>4 DEF Rpc!Return
<1>3. ASSUME NEW c \in Callers, SendData(c) \/ Sleep(c) \/ SpuriousWakeup(c)
      PROVE  Phase' = Phase /\ sent' = sent /\ Result' = Result
  <2>1. SameCalls
    BY <1>3 DEF SendData, Sleep, SpuriousWakeup, SameCalls, hostVars, deviceVars, TypeOK
  <2> QED BY <2>1, SamePhase
<1>4. CASE ReaderStep \/ UNCHANGED vars
  <2>1. \A c \in Callers : pc'[c] = "idle" <=> pc[c] = "idle"
    BY <1>4 DEF ReaderStep, ReaderDrops, ReaderStartsKeyThread, ReaderQueues,
                ReaderNotifies, ReaderStops, callerVars, vars, TypeOK
  <2>2. sent' = sent /\ answer' = answer /\ executed' = executed
    BY <1>4 DEF ReaderStep, ReaderDrops, ReaderStartsKeyThread, ReaderQueues,
                ReaderNotifies, ReaderStops, callerVars, deviceVars, vars
  <2> QED BY <2>1, <2>2 DEF Phase, Result, Rpc!vars
<1>5. CASE DeviceAnswers
  <2>1. PICK m : m = Head(toDevice)
    OBVIOUS
  <2>2. m \in Message /\ Pending(m)
    <3>1. /\ Head(toDevice) \in Message /\ 1 \in DOMAIN toDevice
          /\ Head(toDevice) = toDevice[1]
      BY <1>5, TailIndices DEF DeviceAnswers, TypeOK
    <3> QED BY <1>5, <2>1, <3>1 DEF DeviceAnswers, TokenInv, CommandsInv
  <2>3. Executes(m) /\ UNCHANGED <<pc, sent, answer>>
    BY <1>5, <2>1 DEF DeviceAnswers, callerVars
  <2>4. m.caller \in Callers
    BY <2>2 DEF Message
  <2> QED BY <2>2, <2>3, <2>4, ExecuteStep DEF Rpc!Next
<1>6. CASE DeviceTakesPixels
  <2>1. PICK m \in pixelsFor : Executes(m)
    BY <1>6 DEF DeviceTakesPixels
  <2>2. m \in Message /\ Pending(m)
    BY DEF TypeOK, TokenInv, PixelsInv
  <2>3. UNCHANGED <<pc, sent, answer>>
    BY <1>6 DEF DeviceTakesPixels, callerVars
  <2>4. m.caller \in Callers
    BY <2>2 DEF Message
  <2> QED BY <2>1, <2>2, <2>3, <2>4, ExecuteStep DEF Rpc!Next
<1>7. CASE DeviceExpectsPixels \/ DeviceIgnores \/ LineStep
  <2>1. UNCHANGED <<pc, sent, answer, executed>>
    BY <1>7 DEF DeviceExpectsPixels, DeviceIgnores, LineStep, DeviceReportsKey,
                LineLosesRequest, DeviceRejects, LineCorrupts, LineStalls,
                DeviceStrays, Unplug, callerVars, deviceVars
  <2> QED BY <2>1 DEF Phase, Result, Rpc!vars
<1> QED BY <1>1, <1>2, <1>3, <1>4, <1>5, <1>6, <1>7
        DEF Next, CallerStep, DeviceStep, Rpc!Next, Rpc!vars

\* A command is a remote call: executed exactly once before it returns, and
\* what it returns is its own answer (the public commands of cfa835.cpp).
THEOREM ChannelImplementsRpc ==
    ASSUME Separated, "stray" \notin FaultKinds
    PROVE  Spec => ImplementsRpc
<1>1. Init => Rpc!Init
  BY DEF Init, Rpc!Init, Phase, Result
<1>2. TypeOK /\ TokenInv /\ TokenInv' /\ [Next]_vars => [Rpc!Next]_(Rpc!vars)
  BY RpcStep
<1> QED BY <1>1, <1>2, TypeCorrect, TokensInvariant, PTL
        DEF Spec, ImplementsRpc, Rpc!Spec

-----------------------------------------------------------------------------
(* One caller, as in the application: notify_one cannot wake the wrong one. *)

LEMMA WakeupStep ==
    ASSUME \A c, d \in Callers : c = d,
           TypeOK, NoLostWakeup, [Next]_vars
    PROVE  NoLostWakeup'
<1> SUFFICES ASSUME NEW c \in Callers, pc'[c] = "waiting", FrontIsFor(c)'
             PROVE  reader' = "notify"
  BY DEF NoLostWakeup
<1>1. ASSUME NEW d \in Callers, CallerStep(d) PROVE reader' = "notify"
  <2>1. d = c
    OBVIOUS
  <2>2. CASE SendMessage(c) \/ SendData(c) \/ TakeAnswer(c) \/ SpuriousWakeup(c)
    BY ZenonT(30), <2>2 DEF SendMessage, SendData, TakeAnswer, SpuriousWakeup, TypeOK
  <2>3. CASE Sleep(c)
    BY <2>3 DEF Sleep, FrontIsFor, hostVars
  <2> QED BY <1>1, <2>1, <2>2, <2>3 DEF CallerStep
<1>2. CASE ReaderNotifies
  BY <1>2 DEF ReaderNotifies, TypeOK
<1>3. CASE ReaderQueues
  BY <1>3 DEF ReaderQueues
<1>4. CASE \/ ReaderDrops \/ ReaderStartsKeyThread \/ ReaderStops
           \/ DeviceStep \/ LineStep \/ UNCHANGED vars
  <2>1. UNCHANGED <<pc, request, packages>> /\ (reader' = reader \/ reader = "reading")
    BY <1>4 DEF ReaderDrops, ReaderStartsKeyThread, ReaderStops, DeviceStep,
                DeviceAnswers, DeviceExpectsPixels, DeviceTakesPixels, DeviceIgnores,
                LineStep, DeviceReportsKey, LineLosesRequest, DeviceRejects,
                LineCorrupts, LineStalls, DeviceStrays, Unplug,
                callerVars, hostVars, vars
  <2>2. pc[c] = "waiting" /\ FrontIsFor(c)
    BY <2>1 DEF FrontIsFor
  <2> QED BY <2>1, <2>2 DEF NoLostWakeup
<1> QED BY <1>1, <1>2, <1>3, <1>4 DEF Next, ReaderStep

\* A lone caller never sleeps beside its own answer, although notify_one runs
\* after the mutex is released (process_package, line 469-474).
THEOREM NoLostWakeupInvariant ==
    ASSUME \A c, d \in Callers : c = d
    PROVE  Spec => []NoLostWakeup
<1>1. Init => NoLostWakeup
  BY DEF Init, NoLostWakeup
<1>2. TypeOK /\ NoLostWakeup /\ [Next]_vars => NoLostWakeup'
  BY WakeupStep
<1> QED BY <1>1, <1>2, TypeCorrect, PTL DEF Spec

-----------------------------------------------------------------------------
(* What may be taken for something else, for any number of callers.  Raw bytes *)
(* that the device has not read belong to an earlier command of their caller,   *)
(* or to the one that is out; behind that one, only to it.                      *)

RawBytes(i) == i \in DOMAIN toDevice /\ toDevice[i].kind = "pixels"

RawInv ==
    /\ \A i : RawBytes(i) =>
          /\ toDevice[i].number <= sent[toDevice[i].caller]
          /\ toDevice[i].number = sent[toDevice[i].caller]
                => toDevice[i].request = request[toDevice[i].caller]
    /\ \A i \in DOMAIN toDevice : \A j : RawBytes(j) /\ i < j =>
          (toDevice[i].kind = "command" /\ toDevice[i].caller = toDevice[j].caller
             => toDevice[j].number = sent[toDevice[j].caller])
    /\ \A m \in pixelsFor : \A j : RawBytes(j) /\ toDevice[j].caller = m.caller =>
          toDevice[j].number = sent[m.caller]

\* Steps that at most take the head off the line to the device.
ToLoses(k) ==
    \A i \in DOMAIN toDevice' :
        /\ i \in Nat
        /\ i + k \in DOMAIN toDevice
        /\ toDevice'[i] = toDevice[i + k]

LEMMA LosesUnchanged == ASSUME TypeOK, toDevice' = toDevice PROVE ToLoses(0)
BY DEF TypeOK, ToLoses

LEMMA LosesTail ==
    ASSUME TypeOK, toDevice # << >>, toDevice' = Tail(toDevice) PROVE ToLoses(1)
BY TailIndices DEF TypeOK, ToLoses

LEMMA RawQuiet ==
    ASSUME TypeOK, RawInv, NEW k \in {0, 1}, ToLoses(k),
           UNCHANGED <<request, sent>>, pixelsFor' \subseteq pixelsFor
    PROVE  RawInv'
<1>1. ASSUME NEW i \in DOMAIN toDevice'
      PROVE  /\ i \in Nat /\ i + k \in DOMAIN toDevice /\ toDevice'[i] = toDevice[i + k]
             /\ RawBytes(i)' => RawBytes(i + k)
  BY DEF ToLoses, RawBytes
<1>2. ASSUME NEW i, RawBytes(i)'
      PROVE  /\ toDevice'[i].number <= sent'[toDevice'[i].caller]
             /\ toDevice'[i].number = sent'[toDevice'[i].caller]
                   => toDevice'[i].request = request'[toDevice'[i].caller]
  <2>1. i \in DOMAIN toDevice'
    BY <1>2 DEF RawBytes
  <2> QED BY <1>1, <1>2, <2>1 DEF RawInv
<1>3. ASSUME NEW i \in DOMAIN toDevice', NEW j, RawBytes(j)', i < j,
             toDevice'[i].kind = "command", toDevice'[i].caller = toDevice'[j].caller
      PROVE  toDevice'[j].number = sent'[toDevice'[j].caller]
  <2>1. j \in DOMAIN toDevice'
    BY <1>3 DEF RawBytes
  <2>2. i + k < j + k
    BY <1>1, <1>3, <2>1
  <2> QED BY <1>1, <1>3, <2>1, <2>2 DEF RawInv
<1>4. ASSUME NEW m \in pixelsFor', NEW j, RawBytes(j)', toDevice'[j].caller = m.caller
      PROVE  toDevice'[j].number = sent'[m.caller]
  <2>1. j \in DOMAIN toDevice'
    BY <1>4 DEF RawBytes
  <2> QED BY <1>1, <1>4, <2>1 DEF RawInv
<1> QED BY <1>2, <1>3, <1>4 DEF RawInv

LEMMA RawStep ==
    ASSUME TypeOK, TypeOK', TokenInv, RawInv, [Next]_vars
    PROVE  RawInv'
<1>0. /\ sent \in [Callers -> Nat] /\ toDevice \in Seq(Message)
      /\ \A i \in DOMAIN toDevice : toDevice[i] \in Message
      /\ \A m \in Message : m.caller \in Callers /\ m.number \in Nat
  <2>1. sent \in [Callers -> Nat]
    BY ChannelAssumption DEF TypeOK
  <2>2. toDevice \in Seq(Message)
    BY DEF TypeOK
  <2>3. \A i \in DOMAIN toDevice : toDevice[i] \in Message
    BY <2>2, ElementType
  <2>4. \A m \in Message : m.caller \in Callers /\ m.number \in Nat
    BY DEF Message
  <2> QED BY <2>1, <2>2, <2>3, <2>4
<1>1. ASSUME NEW c \in Callers, SendMessage(c) PROVE RawInv'
  <2>1. PICK r \in RequestsOf[c] :
           \/ toDevice' = Append(toDevice,
                 [kind |-> "command", request |-> r, caller |-> c, number |-> sent[c] + 1])
           \/ toDevice' = toDevice
    BY <1>1 DEF SendMessage
  <2>2. PICK m : m = [kind |-> "command", request |-> r, caller |-> c, number |-> sent[c] + 1]
    OBVIOUS
  <2>3. m \in Message /\ m.kind = "command"
    <3>1. r \in Requests /\ sent[c] + 1 \in Nat
      BY <1>0, ChannelAssumption
    <3> QED BY <2>2, <3>1 DEF Message
  <2>4. \A i \in DOMAIN toDevice' :
           \/ i \in DOMAIN toDevice /\ toDevice'[i] = toDevice[i]
           \/ i = Len(toDevice) + 1 /\ toDevice'[i] = m
    <3>1. CASE toDevice' = toDevice
      BY <3>1
    <3>2. CASE toDevice' = Append(toDevice, m)
      BY <1>0, <2>3, <3>2, AppendIndices
    <3> QED BY <2>1, <2>2, <3>1, <3>2
  <2>5. /\ pixelsFor' = pixelsFor /\ pc[c] = "idle"
        /\ sent'[c] = sent[c] + 1 /\ sent[c] \in Nat
        /\ \A d \in Callers : d # c => sent'[d] = sent[d] /\ request'[d] = request[d]
    BY <1>0, <1>1 DEF SendMessage, TypeOK
  <2>6. ASSUME NEW i, RawBytes(i)'
        PROVE  /\ RawBytes(i) /\ i \in DOMAIN toDevice /\ toDevice'[i] = toDevice[i]
               /\ toDevice[i].caller \in Callers /\ toDevice[i].number \in Nat
    <3>1. i \in DOMAIN toDevice /\ toDevice'[i] = toDevice[i]
      BY <2>3, <2>4, <2>6 DEF RawBytes
    <3> QED BY <1>0, <2>6, <3>1 DEF RawBytes
  <2>7. ASSUME NEW i, RawBytes(i)'
        PROVE  /\ toDevice'[i].number <= sent'[toDevice'[i].caller]
               /\ toDevice'[i].number = sent'[toDevice'[i].caller]
                     => toDevice'[i].request = request'[toDevice'[i].caller]
    <3>1. PICK q : q = toDevice[i]
      OBVIOUS
    <3>2. /\ q.number <= sent[q.caller] /\ q.caller \in Callers /\ q.number \in Nat
          /\ q.number = sent[q.caller] => q.request = request[q.caller]
          /\ toDevice'[i] = q
      BY <2>6, <2>7, <3>1 DEF RawInv
    <3>3. q.number <= sent'[q.caller]
          /\ (q.number = sent'[q.caller] => q.request = request'[q.caller])
      <4>1. CASE q.caller = c
        BY <2>5, <3>2, <4>1
      <4>2. CASE q.caller # c
        BY <2>5, <3>2, <4>2
      <4> QED BY <4>1, <4>2
    <3> QED BY <3>2, <3>3
  <2>8. ASSUME NEW i \in DOMAIN toDevice', NEW j, RawBytes(j)', i < j,
               toDevice'[i].kind = "command", toDevice'[i].caller = toDevice'[j].caller
        PROVE  toDevice'[j].number = sent'[toDevice'[j].caller]
    <3>1. j \in DOMAIN toDevice /\ toDevice'[j] = toDevice[j] /\ RawBytes(j)
      BY <2>6, <2>8
    <3>2. i \in DOMAIN toDevice /\ toDevice'[i] = toDevice[i]
      <4>1. i # Len(toDevice) + 1
        BY <1>0, <2>8, <3>1
      <4> QED BY <2>4, <4>1
    <3>3. toDevice[i].caller # c /\ toDevice[i].caller \in Callers
      BY <1>0, <2>5, <2>8, <3>2 DEF TokenInv, CommandsInv, Pending
    <3>4. toDevice[j].number = sent[toDevice[j].caller]
      BY <2>8, <3>1, <3>2 DEF RawInv
    <3> QED BY <2>5, <2>8, <3>1, <3>2, <3>3, <3>4
  <2>9. ASSUME NEW n \in pixelsFor', NEW j, RawBytes(j)', toDevice'[j].caller = n.caller
        PROVE  toDevice'[j].number = sent'[n.caller]
    <3>1. n \in pixelsFor /\ n.caller # c /\ n.caller \in Callers
      BY <1>0, <2>5 DEF TypeOK, TokenInv, PixelsInv, Pending
    <3> QED BY <2>5, <2>6, <2>9, <3>1 DEF RawInv
  <2> QED BY <2>7, <2>8, <2>9 DEF RawInv
<1>2. ASSUME NEW c \in Callers, SendData(c) PROVE RawInv'
  <2>1. PICK m : m = MessageOf(c, "pixels")
    OBVIOUS
  <2>2. /\ UNCHANGED <<request, sent, pixelsFor>>
        /\ toDevice' = toDevice \/ toDevice' = Append(toDevice, m)
    BY <1>2, <2>1 DEF SendData
  <2>3. /\ m \in Message /\ m.caller = c /\ m.number = sent[c] /\ m.request = request[c]
        /\ m.kind = "pixels" /\ sent[c] \in Nat
    BY <1>0, <2>1 DEF MessageOf, Message, TypeOK
  <2>4. CASE toDevice' = toDevice
    BY <2>2, <2>4, LosesUnchanged, RawQuiet
  <2>5. CASE toDevice' = Append(toDevice, m)
    <3>1. \A i \in DOMAIN toDevice' :
             \/ i \in DOMAIN toDevice /\ toDevice'[i] = toDevice[i]
             \/ i = Len(toDevice) + 1 /\ toDevice'[i] = m
      BY <1>0, <2>3, <2>5, AppendIndices
    <3>2. ASSUME NEW i, RawBytes(i)'
          PROVE  \/ /\ RawBytes(i) /\ toDevice'[i] = toDevice[i]
                 \/ toDevice'[i] = m
      BY <3>1, <3>2 DEF RawBytes
    <3>3. ASSUME NEW i, RawBytes(i)'
          PROVE  /\ toDevice'[i].number <= sent'[toDevice'[i].caller]
                 /\ toDevice'[i].number = sent'[toDevice'[i].caller]
                       => toDevice'[i].request = request'[toDevice'[i].caller]
      <4>1. CASE toDevice'[i] = m
        BY <2>2, <2>3, <4>1
      <4>2. CASE RawBytes(i) /\ toDevice'[i] = toDevice[i]
        BY <2>2, <4>2 DEF RawInv
      <4> QED BY <3>2, <3>3, <4>1, <4>2
    <3>4. ASSUME NEW i \in DOMAIN toDevice', NEW j, RawBytes(j)', i < j,
                 toDevice'[i].kind = "command", toDevice'[i].caller = toDevice'[j].caller
          PROVE  toDevice'[j].number = sent'[toDevice'[j].caller]
      <4>1. CASE toDevice'[j] = m
        BY <2>2, <2>3, <4>1
      <4>2. CASE RawBytes(j) /\ toDevice'[j] = toDevice[j]
        <5>1. i \in DOMAIN toDevice /\ toDevice'[i] = toDevice[i]
          BY <2>3, <3>1, <3>4
        <5> QED BY <2>2, <3>4, <4>2, <5>1 DEF RawInv
      <4> QED BY <3>2, <3>4, <4>1, <4>2
    <3>5. ASSUME NEW n \in pixelsFor', NEW j, RawBytes(j)', toDevice'[j].caller = n.caller
          PROVE  toDevice'[j].number = sent'[n.caller]
      BY <2>2, <2>3, <3>2, <3>5 DEF RawInv
    <3> QED BY <3>3, <3>4, <3>5 DEF RawInv
  <2> QED BY <2>2, <2>4, <2>5
<1>3. ASSUME \/ \E c \in Callers : TakeAnswer(c) \/ Sleep(c) \/ SpuriousWakeup(c)
             \/ ReaderStep \/ UNCHANGED vars
      PROVE  RawInv'
  <2>1. UNCHANGED <<request, sent, toDevice, pixelsFor>>
    BY <1>3 DEF TakeAnswer, Sleep, SpuriousWakeup, ReaderStep, ReaderDrops,
                ReaderStartsKeyThread, ReaderQueues, ReaderNotifies, ReaderStops, vars,
                callerVars, deviceVars
  <2> QED BY <2>1, LosesUnchanged, RawQuiet
<1>4. CASE DeviceExpectsPixels
  <2>1. /\ UNCHANGED <<request, sent>> /\ toDevice # << >> /\ Head(toDevice).kind = "command"
        /\ toDevice' = Tail(toDevice) /\ pixelsFor' = {Head(toDevice)}
    BY <1>4 DEF DeviceExpectsPixels, callerVars
  <2>2. /\ 1 \in DOMAIN toDevice /\ Head(toDevice) = toDevice[1]
        /\ \A i \in DOMAIN toDevice' : /\ i + 1 \in DOMAIN toDevice /\ i \in Nat /\ i >= 1
                                       /\ toDevice'[i] = toDevice[i + 1]
    BY <2>1, TailIndices DEF TypeOK
  <2>3. ASSUME NEW j, RawBytes(j)'
        PROVE  \E k : /\ k = j + 1 /\ j \in Nat /\ j >= 1
                      /\ RawBytes(k) /\ toDevice'[j] = toDevice[k]
    BY <2>2, <2>3 DEF RawBytes
  <2>4. ASSUME NEW i, RawBytes(i)'
        PROVE  /\ toDevice'[i].number <= sent'[toDevice'[i].caller]
               /\ toDevice'[i].number = sent'[toDevice'[i].caller]
                     => toDevice'[i].request = request'[toDevice'[i].caller]
    <3>1. PICK k : RawBytes(k) /\ toDevice'[i] = toDevice[k]
      BY <2>3, <2>4
    <3> QED BY <2>1, <3>1 DEF RawInv
  <2>5. ASSUME NEW i \in DOMAIN toDevice', NEW j, RawBytes(j)', i < j,
               toDevice'[i].kind = "command", toDevice'[i].caller = toDevice'[j].caller
        PROVE  toDevice'[j].number = sent'[toDevice'[j].caller]
    <3>1. PICK k : RawBytes(k) /\ toDevice'[j] = toDevice[k] /\ i + 1 < k
      BY <2>2, <2>3, <2>5
    <3>2. PICK h \in DOMAIN toDevice : h < k /\ toDevice'[i] = toDevice[h]
      BY <2>2, <2>5, <3>1
    <3>3. toDevice[h].kind = "command" /\ toDevice[h].caller = toDevice[k].caller
      BY <2>5, <3>1, <3>2
    <3>4. toDevice[k].number = sent[toDevice[k].caller]
      BY <3>1, <3>2, <3>3 DEF RawInv
    <3> QED BY <2>1, <3>1, <3>4
  <2>6. ASSUME NEW n \in pixelsFor', NEW j, RawBytes(j)', toDevice'[j].caller = n.caller
        PROVE  toDevice'[j].number = sent'[n.caller]
    <3>1. PICK k : RawBytes(k) /\ toDevice'[j] = toDevice[k] /\ 1 < k
      BY <2>3, <2>6
    <3>2. n = toDevice[1] /\ n.kind = "command" /\ 1 \in DOMAIN toDevice
      BY <2>1, <2>2
    <3>3. toDevice[k].number = sent[toDevice[k].caller]
      BY <2>6, <3>1, <3>2 DEF RawInv
    <3> QED BY <2>1, <2>6, <3>1, <3>3
  <2> QED BY <2>4, <2>5, <2>6 DEF RawInv
<1>5. CASE \/ DeviceAnswers \/ DeviceTakesPixels \/ DeviceIgnores \/ LineStep
  <2>1. UNCHANGED <<request, sent>> /\ pixelsFor' \subseteq pixelsFor
    BY <1>5 DEF DeviceAnswers, DeviceTakesPixels, DeviceIgnores, LineStep,
                DeviceReportsKey, LineLosesRequest, DeviceRejects, LineCorrupts,
                LineStalls, DeviceStrays, Unplug, callerVars, deviceVars
  <2>2. \/ toDevice' = toDevice \/ toDevice' = << >>
        \/ toDevice # << >> /\ toDevice' = Tail(toDevice)
    BY <1>5 DEF DeviceAnswers, DeviceTakesPixels, DeviceIgnores, LineStep,
                DeviceReportsKey, LineLosesRequest, DeviceRejects, LineCorrupts,
                LineStalls, DeviceStrays, Unplug, deviceVars
  <2>3. ToLoses(0) \/ ToLoses(1)
    <3>1. toDevice' = << >> => ToLoses(0)
      BY DEF ToLoses
    <3> QED BY <2>2, <3>1, LosesUnchanged, LosesTail
  <2> QED BY <2>1, <2>3, RawQuiet
<1> QED BY <1>1, <1>2, <1>3, <1>4, <1>5 DEF Next, CallerStep, DeviceStep

\* The caller of a package that was taken for a key report waits without a token.
Tokenless(c) ==
    /\ \A i \in DOMAIN toDevice : Answered(c, toDevice[i])
    /\ \A m \in pixelsFor : m.caller # c
    /\ \A i \in DOMAIN fromDevice : fromDevice[i].origin.caller # c
    /\ \A i \in DOMAIN packages : packages[i].origin.caller # c

Deprived(o) ==
    /\ CodeOf[request[o.caller]] = 0
    /\ o.number = sent[o.caller] /\ pc[o.caller] # "idle"
    /\ Tokenless(o.caller)

KeyInv == \A o \in keyThreads : o.caller # Nobody => Deprived(o)

\* Nothing of caller c joins a line or the queue.
NoneOf(c) ==
    /\ \A i \in DOMAIN toDevice' :
          \/ Answered(c, toDevice'[i])
          \/ \E j \in DOMAIN toDevice : toDevice'[i] = toDevice[j]
    /\ \A m \in pixelsFor' :
          \/ m \in pixelsFor
          \/ \E j \in DOMAIN toDevice : m = toDevice[j] /\ m.kind = "command"
    /\ \A i \in DOMAIN fromDevice' :
          \/ fromDevice'[i].origin.caller # c
          \/ \E j \in DOMAIN fromDevice : fromDevice'[i].origin = fromDevice[j].origin
    /\ \A i \in DOMAIN packages' :
          \/ \E j \in DOMAIN packages : packages'[i] = packages[j]
          \/ \E j \in DOMAIN fromDevice : packages'[i] = fromDevice[j]

LEMMA TokenlessStays ==
    ASSUME NEW c, Tokenless(c), NoneOf(c) PROVE Tokenless(c)'
<1>1. \A i \in DOMAIN toDevice' : Answered(c, toDevice'[i])
  BY DEF Tokenless, NoneOf
<1>2. \A m \in pixelsFor' : m.caller # c
  BY DEF Tokenless, NoneOf, Answered
<1>3. \A i \in DOMAIN fromDevice' : fromDevice'[i].origin.caller # c
  BY DEF Tokenless, NoneOf
<1>4. \A i \in DOMAIN packages' : packages'[i].origin.caller # c
  BY DEF Tokenless, NoneOf
<1> QED BY <1>1, <1>2, <1>3, <1>4 DEF Tokenless, Answered

LEMMA DeprivedStep ==
    ASSUME TypeOK, TypeOK', TokenInv', [Next]_vars,
           NEW o \in Origin, o.caller \in Callers, Deprived(o)
    PROVE  Deprived(o)'
<1> DEFINE c == o.caller
<1>0. /\ Tokenless(c) /\ pc[c] # "idle" /\ c # Nobody
      /\ \A i \in DOMAIN toDevice : toDevice[i] \in Message
      /\ \A i \in DOMAIN fromDevice : fromDevice[i] \in Package
      /\ toDevice \in Seq(Message) /\ fromDevice \in Seq(Package)
  <2>1. Tokenless(c) /\ pc[c] # "idle" /\ c # Nobody
    BY ChannelAssumption DEF Deprived
  <2>2. toDevice \in Seq(Message) /\ fromDevice \in Seq(Package)
    BY DEF TypeOK
  <2> HIDE DEF c
  <2> QED BY <2>1, <2>2, ElementType
<1>1. ASSUME pc'[c] # "idle", request'[c] = request[c], sent'[c] = sent[c], NoneOf(c)
      PROVE  Deprived(o)'
  <2>1. Tokenless(c)'
    BY <1>0, <1>1, TokenlessStays
  <2> QED BY <1>1, <2>1 DEF Deprived, Tokenless, Answered
<1>2. ASSUME toDevice' = toDevice \/ (toDevice # << >> /\ toDevice' = Tail(toDevice))
      PROVE  \A i \in DOMAIN toDevice' : \E j \in DOMAIN toDevice : toDevice'[i] = toDevice[j]
  BY <1>0, <1>2, TailIndices
<1>3. ASSUME fromDevice' = fromDevice
                \/ (fromDevice # << >> /\ fromDevice' = Tail(fromDevice))
      PROVE  \A i \in DOMAIN fromDevice' :
                \E j \in DOMAIN fromDevice : fromDevice'[i].origin = fromDevice[j].origin
  BY <1>0, <1>3, TailIndices
<1>4. ASSUME NEW p \in Package, fromDevice' = Append(fromDevice, p), p.origin.caller # c
      PROVE  \A i \in DOMAIN fromDevice' :
                \/ fromDevice'[i].origin.caller # c
                \/ \E j \in DOMAIN fromDevice : fromDevice'[i].origin = fromDevice[j].origin
  <2>1. \A i \in DOMAIN fromDevice' :
           \/ i \in DOMAIN fromDevice /\ fromDevice'[i] = fromDevice[i]
           \/ fromDevice'[i] = p
    BY <1>0, <1>4, AppendIndices
  <2> QED BY <1>4, <2>1
<1>5. ASSUME NEW m \in Message, toDevice' \in {toDevice, Append(toDevice, m)}, Answered(c, m)
      PROVE  \A i \in DOMAIN toDevice' :
                \/ Answered(c, toDevice'[i])
                \/ \E j \in DOMAIN toDevice : toDevice'[i] = toDevice[j]
  <2>1. CASE toDevice' = toDevice
    BY <2>1
  <2>2. CASE toDevice' = Append(toDevice, m)
    <3>1. \A i \in DOMAIN toDevice' :
             \/ i \in DOMAIN toDevice /\ toDevice'[i] = toDevice[i]
             \/ toDevice'[i] = m
      BY <1>0, <2>2, AppendIndices
    <3> QED BY <1>5, <3>1
  <2> QED BY <1>5, <2>1, <2>2
<1>6. ASSUME NEW d \in Callers, SendMessage(d) PROVE Deprived(o)'
  <2>1. d # c
    BY <1>0, <1>6 DEF SendMessage
  <2>2. PICK r \in RequestsOf[d] :
           \/ toDevice' = Append(toDevice,
                 [kind |-> "command", request |-> r, caller |-> d, number |-> sent[d] + 1])
           \/ toDevice' = toDevice
    BY <1>6 DEF SendMessage
  <2>3. PICK m : m = [kind |-> "command", request |-> r, caller |-> d, number |-> sent[d] + 1]
    OBVIOUS
  <2>4. m \in Message /\ Answered(c, m)
    <3>1. r \in Requests
      BY ChannelAssumption
    <3>2. sent[d] \in 0 .. MaxRequests /\ MaxRequests \in Nat
      BY ChannelAssumption DEF TypeOK
    <3>3. sent[d] + 1 \in Nat
      BY <3>2
    <3> QED BY <2>1, <2>3, <3>1, <3>3 DEF Message, Answered
  <2>5. \A i \in DOMAIN toDevice' :
           \/ Answered(c, toDevice'[i])
           \/ \E j \in DOMAIN toDevice : toDevice'[i] = toDevice[j]
    BY <1>5, <2>2, <2>3, <2>4
  <2>6. /\ UNCHANGED <<pixelsFor, fromDevice, packages>>
        /\ pc'[c] = pc[c] /\ request'[c] = request[c] /\ sent'[c] = sent[c]
    BY <1>6, <2>1 DEF SendMessage, hostVars, TypeOK
  <2>7. NoneOf(c)
    BY <2>5, <2>6 DEF NoneOf
  <2> QED BY <1>0, <1>1, <2>6, <2>7
<1>7. ASSUME NEW d \in Callers, SendData(d) PROVE Deprived(o)'
  <2>1. /\ UNCHANGED <<pixelsFor, fromDevice, packages, request, sent>>
        /\ toDevice' \in {toDevice, Append(toDevice, MessageOf(d, "pixels"))}
        /\ pc'[c] # "idle"
    BY <1>0, <1>7 DEF SendData, hostVars, TypeOK
  <2>2. MessageOf(d, "pixels") \in Message /\ Answered(c, MessageOf(d, "pixels"))
    BY DEF MessageOf, Message, TypeOK, Answered
  <2>3. NoneOf(c)
    BY <1>5, <2>1, <2>2 DEF NoneOf
  <2> QED BY <1>1, <2>1, <2>3
<1>8. ASSUME NEW d \in Callers, TakeAnswer(d) PROVE Deprived(o)'
  <2>1. /\ UNCHANGED <<toDevice, pixelsFor, fromDevice, request, sent>>
        /\ packages # << >> /\ packages' = Tail(packages)
        /\ answer' = [answer EXCEPT ![d] = Head(packages)]
        /\ pc' = [pc EXCEPT ![d] = "idle"]
    BY <1>8 DEF TakeAnswer, FrontIsFor, deviceVars
  <2>2. /\ 1 \in DOMAIN packages /\ Head(packages) = packages[1]
        /\ \A i \in DOMAIN packages' : i + 1 \in DOMAIN packages /\ packages'[i] = packages[i + 1]
    BY <2>1, TailIndices DEF TypeOK
  <2>3. d # c
    <3>1. pc'[d] = "idle" /\ answer'[d] = Head(packages)
      BY <2>1 DEF TypeOK
    <3>2. answer'[d].origin = [caller |-> d, number |-> sent'[d]]
      BY <3>1 DEF TokenInv, CallersInv
    <3> QED BY <1>0, <2>2, <3>1, <3>2 DEF Tokenless
  <2>4. pc'[c] # "idle"
    BY <1>0, <2>1, <2>3 DEF TypeOK
  <2>5. NoneOf(c)
    BY <2>1, <2>2 DEF NoneOf
  <2> QED BY <1>1, <2>1, <2>4, <2>5
<1>9. ASSUME NEW d \in Callers, Sleep(d) \/ SpuriousWakeup(d) PROVE Deprived(o)'
  <2>1. /\ UNCHANGED <<toDevice, pixelsFor, fromDevice, packages, request, sent>>
        /\ pc'[c] # "idle"
    BY <1>0, <1>9 DEF Sleep, SpuriousWakeup, deviceVars, hostVars, TypeOK
  <2>2. NoneOf(c)
    BY <2>1 DEF NoneOf
  <2> QED BY <1>1, <2>1, <2>2
<1>10. CASE ReaderStep \/ UNCHANGED vars
  <2>1. UNCHANGED <<toDevice, pixelsFor, request, sent>> /\ pc'[c] # "idle"
    BY <1>0, <1>10 DEF ReaderStep, ReaderDrops, ReaderStartsKeyThread, ReaderQueues,
                       ReaderNotifies, ReaderStops, callerVars, deviceVars, vars, TypeOK
  <2>2. /\ fromDevice' = fromDevice
              \/ (fromDevice # << >> /\ fromDevice' = Tail(fromDevice))
        /\ \/ packages' = packages
           \/ fromDevice # << >> /\ packages' = Append(packages, Head(fromDevice))
    BY <1>10 DEF ReaderStep, ReaderDrops, ReaderStartsKeyThread, ReaderQueues,
                 ReaderNotifies, ReaderStops, hostVars, vars
  <2>3. \A i \in DOMAIN packages' :
           \/ \E j \in DOMAIN packages : packages'[i] = packages[j]
           \/ \E j \in DOMAIN fromDevice : packages'[i] = fromDevice[j]
    <3>1. CASE packages' = packages
      BY <3>1
    <3>2. CASE fromDevice # << >> /\ packages' = Append(packages, Head(fromDevice))
      <4>1. /\ 1 \in DOMAIN fromDevice /\ Head(fromDevice) = fromDevice[1]
            /\ Head(fromDevice) \in Package
        BY <1>0, <3>2, TailIndices
      <4>2. \A i \in DOMAIN packages' :
               \/ i \in DOMAIN packages /\ packages'[i] = packages[i]
               \/ packages'[i] = Head(fromDevice)
        BY <3>2, <4>1, AppendIndices DEF TypeOK
      <4> QED BY <4>1, <4>2
    <3> QED BY <2>2, <3>1, <3>2
  <2>4. \A i \in DOMAIN fromDevice' :
           \/ fromDevice'[i].origin.caller # c
           \/ \E j \in DOMAIN fromDevice : fromDevice'[i].origin = fromDevice[j].origin
    <3>1. CASE fromDevice' = fromDevice
      BY <1>3, <3>1
    <3>2. CASE fromDevice # << >> /\ fromDevice' = Tail(fromDevice)
      BY <1>3, <3>2
    <3> QED BY <2>2, <3>1, <3>2
  <2>5. /\ \A i \in DOMAIN toDevice' :
              \E j \in DOMAIN toDevice : toDevice'[i] = toDevice[j]
        /\ \A m \in pixelsFor' : m \in pixelsFor
    BY <2>1
  <2>6. NoneOf(c)
    BY <2>3, <2>4, <2>5 DEF NoneOf
  <2> QED BY <1>1, <2>1, <2>6
<1>11. CASE DeviceAnswers \/ DeviceRejects \/ DeviceTakesPixels
  <2>1. /\ UNCHANGED <<pc, request, sent, packages>> /\ pixelsFor' \subseteq pixelsFor
        /\ toDevice # << >> /\ toDevice' = Tail(toDevice)
    BY <1>11 DEF DeviceAnswers, DeviceRejects, DeviceTakesPixels, callerVars, hostVars
  <2>2. PICK m \in Message :
           /\ m.caller # c
           /\ \/ fromDevice' = Append(fromDevice, AnswerTo(m))
              \/ fromDevice' = Append(fromDevice, RejectionOf(m))
    <3>1. CASE DeviceAnswers \/ DeviceRejects
      <4>1. 1 \in DOMAIN toDevice /\ Head(toDevice) = toDevice[1]
        BY <1>0, <2>1, TailIndices
      <4>2. Head(toDevice).caller # c /\ Head(toDevice) \in Message
        BY <1>0, <3>1, <4>1 DEF DeviceAnswers, DeviceRejects, Tokenless, Answered
      <4> QED BY <3>1, <4>2 DEF DeviceAnswers, DeviceRejects
    <3>2. CASE DeviceTakesPixels
      BY <1>0, <3>2 DEF DeviceTakesPixels, Tokenless, TypeOK
    <3> QED BY <1>11, <3>1, <3>2
  <2>3. PICK p \in Package : p.origin.caller # c /\ fromDevice' = Append(fromDevice, p)
    <3>1. AnswerTo(m).origin.caller = m.caller /\ RejectionOf(m).origin.caller = m.caller
      BY DEF AnswerTo, RejectionOf, OriginOf
    <3> QED BY <2>2, <3>1, PackagesTyped
  <2>4. NoneOf(c)
    BY <1>2, <1>4, <2>1, <2>3 DEF NoneOf
  <2> QED BY <1>0, <1>1, <2>1, <2>4
<1>12. CASE DeviceExpectsPixels \/ DeviceIgnores \/ LineLosesRequest
  <2>1. /\ UNCHANGED <<pc, request, sent, packages, fromDevice>>
        /\ toDevice # << >> /\ toDevice' = Tail(toDevice)
        /\ \/ pixelsFor' = pixelsFor
           \/ pixelsFor' = {Head(toDevice)} /\ Head(toDevice).kind = "command"
    BY <1>12 DEF DeviceExpectsPixels, DeviceIgnores, LineLosesRequest, callerVars, hostVars
  <2>2. 1 \in DOMAIN toDevice /\ Head(toDevice) = toDevice[1]
    BY <1>0, <2>1, TailIndices
  <2>3. NoneOf(c)
    BY <1>2, <2>1, <2>2 DEF NoneOf
  <2> QED BY <1>0, <1>1, <2>1, <2>3
<1>13. CASE DeviceReportsKey \/ DeviceStrays
  <2>1. UNCHANGED <<pc, request, sent, packages, toDevice, pixelsFor>>
    BY <1>13 DEF DeviceReportsKey, DeviceStrays, callerVars, deviceVars, hostVars
  <2>2. PICK p \in Package : p.origin.caller # c /\ fromDevice' = Append(fromDevice, p)
    <3>1. keysReported + 1 \in Nat
      BY ChannelAssumption DEF TypeOK
    <3>2. /\ KeyReport(keysReported + 1).origin.caller = Nobody
          /\ \A s : Stray(s).origin.caller = Nobody
      BY DEF KeyReport, Stray
    <3>3. CASE DeviceReportsKey
      BY <1>0, <3>1, <3>2, <3>3, OthersTyped DEF DeviceReportsKey
    <3>4. CASE DeviceStrays
      BY <1>0, <3>2, <3>4, OthersTyped DEF DeviceStrays
    <3> QED BY <1>13, <3>3, <3>4
  <2>3. NoneOf(c)
    BY <1>4, <2>1, <2>2 DEF NoneOf
  <2> QED BY <1>0, <1>1, <2>1, <2>3
<1>14. CASE LineStalls
  <2>1. /\ UNCHANGED <<pc, request, sent, packages, toDevice, pixelsFor>>
        /\ fromDevice # << >> /\ fromDevice' = Tail(fromDevice)
    BY <1>14 DEF LineStalls, callerVars, deviceVars
  <2>2. NoneOf(c)
    BY <1>3, <2>1 DEF NoneOf
  <2> QED BY <1>0, <1>1, <2>1, <2>2
<1>15. CASE LineCorrupts
  <2>1. UNCHANGED <<pc, request, sent, packages, toDevice, pixelsFor>>
    BY <1>15 DEF LineCorrupts, callerVars, deviceVars, hostVars
  <2>2. PICK i \in DOMAIN fromDevice : fromDevice' = [fromDevice EXCEPT ![i].intact = FALSE]
    BY <1>15 DEF LineCorrupts
  <2>3. ASSUME NEW j \in DOMAIN fromDevice'
        PROVE  j \in DOMAIN fromDevice /\ fromDevice'[j].origin = fromDevice[j].origin
    <3>1. j \in DOMAIN fromDevice /\ fromDevice[j] \in Package
      BY <1>0, <2>2
    <3>2. PICK q : q = fromDevice'[j]
      OBVIOUS
    <3>3. q = fromDevice[j] \/ q = [fromDevice[j] EXCEPT !.intact = FALSE]
      BY <2>2, <3>1, <3>2
    <3>4. q.origin = fromDevice[j].origin
      BY <3>1, <3>3 DEF Package
    <3> QED BY <3>1, <3>2, <3>4
  <2>4. NoneOf(c)
    BY <2>1, <2>3 DEF NoneOf
  <2> QED BY <1>0, <1>1, <2>1, <2>4
<1>16. CASE Unplug
  <2>1. /\ UNCHANGED <<pc, request, sent, packages>>
        /\ toDevice' = << >> /\ fromDevice' = << >> /\ pixelsFor' = {}
    BY <1>16 DEF Unplug, callerVars, hostVars
  <2>2. NoneOf(c)
    BY <2>1 DEF NoneOf
  <2> QED BY <1>0, <1>1, <2>1, <2>2
<1> QED BY <1>6, <1>7, <1>8, <1>9, <1>10, <1>11, <1>12, <1>13, <1>14, <1>15, <1>16
        DEF Next, CallerStep, ReaderStep, DeviceStep, LineStep

\* The reader starts a key thread for a package of a caller only for a refusal.
LEMMA MistakenForKey ==
    ASSUME TypeOK, TypeOK', TokenInv, ReaderStartsKeyThread,
           NEW o, o = Head(fromDevice).origin, o.caller # Nobody
    PROVE  Deprived(o)'
<1>1. /\ fromDevice # << >> /\ TypeOf(Head(fromDevice)) = KeyActivity
      /\ fromDevice' = Tail(fromDevice)
      /\ UNCHANGED <<pc, request, sent, toDevice, pixelsFor, packages>>
  BY DEF ReaderStartsKeyThread, callerVars, deviceVars
<1>2. PICK p : p = Head(fromDevice)
  OBVIOUS
<1>3. /\ p \in Package /\ p = fromDevice[1] /\ 1 \in DOMAIN fromDevice
      /\ \A i \in DOMAIN fromDevice' : /\ i + 1 \in DOMAIN fromDevice /\ i + 1 # 1
                                       /\ fromDevice'[i] = fromDevice[i + 1]
  <2>1. \A i \in DOMAIN fromDevice' : i \in Nat /\ i >= 1
    BY <1>1, TailIndices DEF TypeOK
  <2>2. \A i \in DOMAIN fromDevice' : i + 1 # 1
    BY <2>1
  <2> QED BY <1>1, <1>2, <2>2, TailIndices DEF TypeOK
<1> DEFINE c == p.origin.caller
<1>4. c \in Callers /\ Answering(p)
  BY <1>2, <1>3 DEF TokenInv, WireInv
<1>5. CodeOf[request[c]] = 0
  <2>1. CodeOf[request[c]] \in Nat /\ CodeOf[request[c]] <= 63
    BY <1>4, TableTyped DEF TypeOK
  <2>2. \/ p.command = CodeOf[request[c]] + ResponseMessage
        \/ p.command = CodeOf[request[c]] + ErrorReply
    BY <1>4 DEF Answering
  <2>3. p.command = KeyActivity \/ p.command = ErrorReply
    BY <1>1, <1>2, <1>3 DEF TypeOf, KeyActivity, ResponseMessage, ErrorReply, Package
  <2> HIDE DEF c
  <2> QED BY <2>1, <2>2, <2>3 DEF KeyActivity, ResponseMessage, ErrorReply
<1>6. /\ \A i \in DOMAIN fromDevice' : fromDevice'[i].origin.caller # c
      /\ \A i \in DOMAIN packages : packages[i].origin.caller # c
  BY <1>3, <1>4, ChannelAssumption DEF TokenInv, WireInv, QueueInv
<1>7. /\ pc[c] # "idle" /\ p.origin.number = sent[c]
      /\ \A i \in DOMAIN toDevice : Answered(c, toDevice[i])
      /\ \A m \in pixelsFor : m.caller # c
  BY <1>4 DEF Answering
<1> QED BY <1>1, <1>2, <1>5, <1>6, <1>7 DEF Deprived, Tokenless, Answered

LEMMA KeyThreadStep ==
    ASSUME TypeOK, TypeOK', TokenInv, TokenInv', KeyInv, [Next]_vars
    PROVE  KeyInv'
<1> SUFFICES ASSUME NEW o \in keyThreads', o.caller # Nobody PROVE Deprived(o)'
  BY DEF KeyInv, Deprived, Tokenless, Answered
<1>1. o \in Origin /\ o.caller \in Callers
  BY DEF TypeOK, Origin
<1>2. CASE o \in keyThreads
  BY <1>1, <1>2, DeprivedStep DEF KeyInv
<1>3. CASE o \notin keyThreads
  <2>1. ReaderStartsKeyThread
    BY <1>3 DEF Next, CallerStep, ReaderStep, DeviceStep, LineStep, SendMessage,
                SendData, TakeAnswer, Sleep, SpuriousWakeup, ReaderDrops,
                ReaderQueues, ReaderNotifies, ReaderStops, DeviceAnswers,
                DeviceExpectsPixels, DeviceTakesPixels, DeviceIgnores,
                DeviceReportsKey, LineLosesRequest, DeviceRejects, LineCorrupts,
                LineStalls, DeviceStrays, Unplug, vars, hostVars
  <2>2. o = Head(fromDevice).origin
    BY <1>3, <2>1 DEF ReaderStartsKeyThread
  <2> QED BY <2>1, <2>2, MistakenForKey
<1> QED BY <1>2, <1>3

LEMMA NotMistaken ==
    ASSUME TypeOK, TokenInv, RawInv, KeyInv PROVE NothingIsMistaken
<1>1. ASSUME NEW m \in pixelsFor, toDevice # << >>, Head(toDevice).caller = m.caller
      PROVE  Head(toDevice) = [m EXCEPT !.kind = "pixels"]
  <2>1. PICK h : h = Head(toDevice)
    OBVIOUS
  <2>2. /\ 1 \in DOMAIN toDevice /\ h = toDevice[1] /\ h \in Message
    BY <1>1, <2>1, TailIndices DEF TypeOK
  <2>3. m \in Message /\ Pending(m)
    BY DEF TypeOK, TokenInv, PixelsInv
  <2>4. h.kind = "pixels"
    BY <1>1, <2>1, <2>2 DEF TokenInv, PixelsInv, Answered, Message
  <2>5. RawBytes(1)
    BY <2>2, <2>4 DEF RawBytes
  <2>6. h.number = sent[m.caller] /\ h.request = request[m.caller]
    BY <1>1, <2>1, <2>2, <2>5 DEF RawInv
  <2>7. h.number = m.number /\ h.request = m.request
    BY <2>3, <2>6 DEF Pending
  <2> QED BY <1>1, <2>1, <2>2, <2>3, <2>4, <2>7 DEF Message
<1>2. \A o \in keyThreads : o.caller # Nobody =>
         /\ CodeOf[request[o.caller]] = 0
         /\ o.number = sent[o.caller] /\ pc[o.caller] # "idle"
  BY DEF KeyInv, Deprived
<1> QED BY <1>1, <1>2 DEF NothingIsMistaken

\* Among any callers: only the command of another caller can slip in between a
\* command and its raw bytes (send_message and send_data, line 1159-1160), never
\* one of the same caller, and no answer but the refusal of a ping starts a key
\* thread (line 459-467), as long as nothing came that nobody asked for.
THEOREM NothingIsMistakenInvariant ==
    ASSUME Separated
    PROVE  Spec => []NothingIsMistaken
<1> DEFINE Inv == strayed \/ (TokenInv /\ RawInv /\ KeyInv)
<1>1. Init => Inv
  <2> SUFFICES ASSUME Init PROVE TokenInv /\ RawInv /\ KeyInv
    OBVIOUS
  <2>1. RawInv /\ KeyInv
    BY DEF Init, RawInv, RawBytes, KeyInv
  <2> QED BY <2>1, TokenInit
<1>2. TypeOK /\ TypeOK' /\ Inv /\ [Next]_vars => Inv'
  <2> SUFFICES ASSUME TypeOK, TypeOK', Inv, [Next]_vars, ~strayed'
               PROVE  TokenInv' /\ RawInv' /\ KeyInv'
    OBVIOUS
  <2>1. TokenInv /\ RawInv /\ KeyInv
    BY StrayedStays
  <2>2. TokenInv'
    BY <2>1, TokenStep
  <2> QED BY <2>1, <2>2, RawStep, KeyThreadStep
<1>3. TypeOK /\ Inv => NothingIsMistaken
  BY NotMistaken DEF NothingIsMistaken
<1> HIDE DEF Inv
<1> QED BY <1>1, <1>2, <1>3, TypeCorrect, PTL DEF Spec

-----------------------------------------------------------------------------
(* The queue is bounded, for any callers and any faults: every command and   *)
(* every package is paid for by a call that is out or by a fault.            *)

CountIn(s, T) == Cardinality({i \in DOMAIN s : s[i] \in T})

LEMMA CountType ==
    ASSUME NEW S, NEW s \in Seq(S), NEW T
    PROVE  /\ IsFiniteSet({i \in DOMAIN s : s[i] \in T})
           /\ CountIn(s, T) \in Nat
<1>1. IsFiniteSet(1 .. Len(s))
  BY FS_Interval
<1>2. {i \in DOMAIN s : s[i] \in T} \in SUBSET (1 .. Len(s))
  OBVIOUS
<1> QED BY <1>1, <1>2, FS_Subset, FS_CardinalityType DEF CountIn

LEMMA CountEmpty == \A T : CountIn(<< >>, T) = 0
<1> SUFFICES ASSUME NEW T PROVE CountIn(<< >>, T) = 0
  OBVIOUS
<1>1. {i \in DOMAIN << >> : << >>[i] \in T} = {}
  OBVIOUS
<1> QED BY <1>1, FS_EmptySet DEF CountIn

LEMMA CountAppend ==
    ASSUME NEW S, NEW s \in Seq(S), NEW e \in S, NEW T
    PROVE  CountIn(Append(s, e), T) = CountIn(s, T) + (IF e \in T THEN 1 ELSE 0)
<1> DEFINE I == {i \in DOMAIN s : s[i] \in T}
           J == {i \in DOMAIN Append(s, e) : Append(s, e)[i] \in T}
           n == Len(s) + 1
<1>1. IsFiniteSet(I) /\ Cardinality(I) \in Nat /\ n \notin I
  BY SMTT(30), CountType, FS_CardinalityType
<1>2. J = IF e \in T THEN I \cup {n} ELSE I
  OBVIOUS
<1>3. Cardinality(I \cup {n}) = Cardinality(I) + 1
  BY <1>1, FS_AddElement
<1>4. CountIn(s, T) = Cardinality(I) /\ CountIn(Append(s, e), T) = Cardinality(J)
  BY DEF CountIn
<1> HIDE DEF I, J, n
<1> QED BY <1>1, <1>2, <1>3, <1>4

LEMMA CountTail ==
    ASSUME NEW S, NEW s \in Seq(S), s # << >>, NEW T
    PROVE  CountIn(s, T) = CountIn(Tail(s), T) + (IF Head(s) \in T THEN 1 ELSE 0)
<1> DEFINE I == {i \in DOMAIN s : s[i] \in T}
           J == {i \in DOMAIN Tail(s) : Tail(s)[i] \in T}
           f == [j \in J |-> j + 1]
<1>1. Tail(s) \in Seq(S) /\ 1 \in DOMAIN s /\ Head(s) = s[1]
  BY TailIndices
<1>2. IsFiniteSet(I) /\ IsFiniteSet(J) /\ Cardinality(I) \in Nat /\ Cardinality(J) \in Nat
  <2>1. IsFiniteSet(I)
    BY CountType
  <2>2. IsFiniteSet(J)
    BY <1>1, CountType
  <2> QED BY <2>1, <2>2, FS_CardinalityType
<1>3. f \in Bijection(J, I \ {1})
  <2>1. \A j \in J : j \in Nat /\ j + 1 \in I /\ j + 1 # 1
    BY TailIndices
  <2>2. \A i \in I \ {1} : i - 1 \in J /\ (i - 1) + 1 = i
    OBVIOUS
  <2>3. f \in [J -> I \ {1}]
    BY <2>1
  <2>4. \A j, k \in J : f[j] = f[k] => j = k
    BY <2>1
  <2>5. \A i \in I \ {1} : \E j \in J : f[j] = i
    BY <2>2
  <2> HIDE DEF I, J, f
  <2>6. f \in Injection(J, I \ {1})
    BY <2>3, <2>4 DEF Injection, IsInjective
  <2>7. f \in Surjection(J, I \ {1})
    BY <2>3, <2>5 DEF Surjection
  <2> QED BY <2>6, <2>7 DEF Bijection
<1>4. Cardinality(I \ {1}) = Cardinality(J)
  BY ZenonT(30), <1>2, <1>3, FS_Bijection DEF ExistsBijection
<1>5. Cardinality(I \ {1}) = IF 1 \in I THEN Cardinality(I) - 1 ELSE Cardinality(I)
  BY <1>2, FS_RemoveElement
<1>6. 1 \in I <=> Head(s) \in T
  BY <1>1
<1>7. CountIn(s, T) = Cardinality(I) /\ CountIn(Tail(s), T) = Cardinality(J)
  BY DEF CountIn
<1> HIDE DEF I, J, f
<1> QED BY <1>2, <1>4, <1>5, <1>6, <1>7

\* Commands on the line, and packages that are not key reports.
Orders   == {m \in Message : m.kind = "command"}
Joining  == {p \in Package : JoinsQueue(p)}
CallsOut == {c \in Callers : pc[c] # "idle"}

PaidInv ==
    /\ IsFiniteSet(pixelsFor)
    /\ CountIn(toDevice, Orders) + Cardinality(pixelsFor)
         + CountIn(fromDevice, Joining) + Len(packages)
         <= Cardinality(CallsOut) + faults

LEMMA CallsOutFinite ==
    ASSUME IsFiniteSet(Callers)
    PROVE  IsFiniteSet(CallsOut) /\ Cardinality(CallsOut) \in Nat
<1>1. CallsOut \in SUBSET Callers
  BY DEF CallsOut
<1> QED BY <1>1, FS_Subset, FS_CardinalityType

\* All four counts are numbers.
LEMMA CountsTyped ==
    ASSUME TypeOK, IsFiniteSet(Callers), IsFiniteSet(pixelsFor)
    PROVE  /\ CountIn(toDevice, Orders) \in Nat
           /\ CountIn(fromDevice, Joining) \in Nat
           /\ Cardinality(pixelsFor) \in Nat
           /\ Len(packages) \in Nat
           /\ Cardinality(CallsOut) \in Nat
           /\ faults \in Nat
<1>1. CountIn(toDevice, Orders) \in Nat
  BY CountType DEF TypeOK
<1>2. CountIn(fromDevice, Joining) \in Nat
  BY CountType DEF TypeOK
<1>3. Len(packages) \in Nat /\ faults \in Nat
  BY ChannelAssumption DEF TypeOK
<1> QED BY <1>1, <1>2, <1>3, CallsOutFinite, FS_CardinalityType

\* A package and the same package damaged count alike.
LEMMA CorruptCount ==
    ASSUME TypeOK, NEW i \in DOMAIN fromDevice,
           fromDevice' = [fromDevice EXCEPT ![i].intact = FALSE]
    PROVE  CountIn(fromDevice, Joining)' = CountIn(fromDevice, Joining)
<1>1. ASSUME NEW p \in Package
      PROVE  [p EXCEPT !.intact = FALSE] \in Joining <=> p \in Joining
  <2>1. PICK q : q = [p EXCEPT !.intact = FALSE]
    OBVIOUS
  <2>2. q \in Package /\ q.origin = p.origin /\ q.command = p.command
    BY <2>1 DEF Package
  <2>3. JoinsQueue(q) <=> JoinsQueue(p)
    BY <2>2 DEF JoinsQueue, TypeOf
  <2> QED BY <2>1, <2>2, <2>3 DEF Joining
<1>2. DOMAIN fromDevice' = DOMAIN fromDevice
  OBVIOUS
<1>3. ASSUME NEW j \in DOMAIN fromDevice
      PROVE  fromDevice'[j] \in Joining <=> fromDevice[j] \in Joining
  <2>1. fromDevice[j] \in Package
    BY ElementType DEF TypeOK
  <2>2. \/ fromDevice'[j] = fromDevice[j]
        \/ fromDevice'[j] = [fromDevice[j] EXCEPT !.intact = FALSE]
    OBVIOUS
  <2> QED BY <1>1, <2>1, <2>2
<1>4. {j \in DOMAIN fromDevice' : fromDevice'[j] \in Joining}
        = {j \in DOMAIN fromDevice : fromDevice[j] \in Joining}
  BY <1>2, <1>3
<1>5. Joining' = Joining
  BY DEF Joining, JoinsQueue, TypeOf
<1> QED BY <1>4, <1>5 DEF CountIn

LEMMA PaidStep ==
    ASSUME IsFiniteSet(Callers), TypeOK, TypeOK', PaidInv, [Next]_vars
    PROVE  PaidInv'
<1> DEFINE to == CountIn(toDevice, Orders)
           from == CountIn(fromDevice, Joining)
           calls == Cardinality(CallsOut)
<1>0. /\ to \in Nat /\ from \in Nat /\ calls \in Nat /\ faults \in Nat
      /\ Len(packages) \in Nat /\ Cardinality(pixelsFor) \in Nat
      /\ IsFiniteSet(pixelsFor)
      /\ to + Cardinality(pixelsFor) + from + Len(packages) <= calls + faults
  BY CountsTyped DEF PaidInv
<1>1. /\ Orders' = Orders /\ Joining' = Joining
      /\ toDevice' = toDevice => to' = to
      /\ fromDevice' = fromDevice => from' = from
      /\ pc' = pc => calls' = calls
  BY DEF Orders, Joining, JoinsQueue, TypeOf, CountIn, CallsOut
<1>2. IsFiniteSet(CallsOut)
  BY CallsOutFinite
<1>3. ASSUME NEW m \in Message, toDevice' = Append(toDevice, m)
      PROVE  to' = to + (IF m.kind = "command" THEN 1 ELSE 0)
  <2>1. to' = CountIn(Append(toDevice, m), Orders)
    BY <1>1, <1>3 DEF CountIn
  <2>2. m \in Orders <=> m.kind = "command"
    BY DEF Orders
  <2> QED BY <2>1, <2>2, CountAppend DEF TypeOK
<1>4. ASSUME toDevice # << >>, toDevice' = Tail(toDevice)
      PROVE  to = to' + (IF Head(toDevice).kind = "command" THEN 1 ELSE 0)
             /\ to' \in Nat
  <2>1. to' = CountIn(Tail(toDevice), Orders)
    BY <1>1, <1>4 DEF CountIn
  <2>2. Head(toDevice) \in Message /\ Tail(toDevice) \in Seq(Message)
    BY <1>4, TailIndices DEF TypeOK
  <2>3. Head(toDevice) \in Orders <=> Head(toDevice).kind = "command"
    BY <2>2 DEF Orders
  <2>4. to' \in Nat
    BY <2>1, <2>2, CountType
  <2> QED BY <1>4, <2>1, <2>3, <2>4, CountTail DEF TypeOK
<1>5. ASSUME NEW p \in Package, fromDevice' = Append(fromDevice, p)
      PROVE  from' \in {from, from + 1} /\ (~JoinsQueue(p) => from' = from)
  <2>1. from' = CountIn(Append(fromDevice, p), Joining)
    BY <1>1, <1>5 DEF CountIn
  <2>2. p \in Joining <=> JoinsQueue(p)
    BY DEF Joining
  <2>3. from' = from + (IF p \in Joining THEN 1 ELSE 0)
    BY <2>1, CountAppend DEF TypeOK
  <2> QED BY <1>0, <2>2, <2>3
<1>6. ASSUME fromDevice # << >>, fromDevice' = Tail(fromDevice)
      PROVE  /\ from' \in Nat /\ from' <= from
             /\ JoinsQueue(Head(fromDevice)) => from = from' + 1
  <2>1. from' = CountIn(Tail(fromDevice), Joining)
    BY <1>1, <1>6 DEF CountIn
  <2>2. Head(fromDevice) \in Package /\ Tail(fromDevice) \in Seq(Package)
    BY <1>6, TailIndices DEF TypeOK
  <2>3. Head(fromDevice) \in Joining <=> JoinsQueue(Head(fromDevice))
    BY <2>2 DEF Joining
  <2>4. from' \in Nat
    BY <2>1, <2>2, CountType
  <2>5. from = from' + (IF Head(fromDevice) \in Joining THEN 1 ELSE 0)
    BY <1>6, <2>1, CountTail DEF TypeOK
  <2> QED BY <2>3, <2>4, <2>5
<1>7. ASSUME \A c \in Callers : pc'[c] = "idle" <=> pc[c] = "idle"
      PROVE  calls' = calls
  <2>1. CallsOut' = CallsOut
    BY <1>7 DEF CallsOut
  <2> QED BY <2>1
<1>8. ASSUME NEW c \in Callers, SendMessage(c) PROVE PaidInv'
  <2>1. CallsOut' = CallsOut \cup {c} /\ c \notin CallsOut
    BY SMTT(30), <1>8 DEF SendMessage, CallsOut, TypeOK
  <2>2. calls' = calls + 1
    BY <1>2, <2>1, FS_AddElement
  <2>3. to' \in {to, to + 1}
    <3>1. PICK m \in Message : toDevice' = toDevice \/ toDevice' = Append(toDevice, m)
      <4>1. PICK r \in RequestsOf[c] :
               \/ toDevice' = toDevice
               \/ toDevice' = Append(toDevice,
                     [kind |-> "command", request |-> r, caller |-> c,
                      number |-> sent[c] + 1])
        BY <1>8 DEF SendMessage
      <4>2. [kind |-> "command", request |-> r, caller |-> c, number |-> sent[c] + 1]
               \in Message
        <5>1. r \in Requests
          BY ChannelAssumption
        <5>2. sent[c] \in 0 .. MaxRequests /\ MaxRequests \in Nat
          BY ChannelAssumption DEF TypeOK
        <5>3. sent[c] + 1 \in Nat
          BY <5>2
        <5> QED BY <5>1, <5>3 DEF Message
      <4> QED BY <4>1, <4>2
    <3> QED BY <1>0, <1>1, <1>3, <3>1
  <2>4. UNCHANGED <<pixelsFor, fromDevice, packages, faults>>
    BY <1>8 DEF SendMessage, hostVars, faultVars
  <2> QED BY <1>0, <1>1, <2>2, <2>3, <2>4 DEF PaidInv
<1>9. ASSUME NEW c \in Callers, SendData(c) PROVE PaidInv'
  <2>1. calls' = calls
    BY <1>7, <1>9 DEF SendData, TypeOK
  <2>2. MessageOf(c, "pixels") \in Message /\ MessageOf(c, "pixels").kind = "pixels"
    BY DEF MessageOf, Message, TypeOK
  <2>3. to' = to
    <3>1. toDevice' = toDevice \/ toDevice' = Append(toDevice, MessageOf(c, "pixels"))
      BY <1>9 DEF SendData
    <3> QED BY <1>0, <1>1, <1>3, <2>2, <3>1
  <2>4. UNCHANGED <<pixelsFor, fromDevice, packages, faults>>
    BY <1>9 DEF SendData, hostVars, faultVars
  <2> QED BY <1>0, <1>1, <2>1, <2>3, <2>4 DEF PaidInv
<1>10. ASSUME NEW c \in Callers, TakeAnswer(c) PROVE PaidInv'
  <2>1. CallsOut' = CallsOut \ {c} /\ c \in CallsOut
    BY <1>10 DEF TakeAnswer, CallsOut, TypeOK
  <2>2. calls' = calls - 1
    BY <1>2, <2>1, FS_RemoveElement
  <2>3. Len(packages') = Len(packages) - 1
    BY <1>10 DEF TakeAnswer, FrontIsFor, TypeOK
  <2>4. UNCHANGED <<pixelsFor, fromDevice, toDevice, faults>>
    BY <1>10 DEF TakeAnswer, deviceVars, faultVars
  <2> QED BY SMTT(30), <1>0, <1>1, <2>2, <2>3, <2>4 DEF PaidInv
<1>11. ASSUME NEW c \in Callers, Sleep(c) \/ SpuriousWakeup(c) PROVE PaidInv'
  <2>1. calls' = calls
    BY <1>7, <1>11 DEF Sleep, SpuriousWakeup, TypeOK
  <2>2. UNCHANGED <<pixelsFor, fromDevice, toDevice, packages, faults>>
    BY <1>11 DEF Sleep, SpuriousWakeup, deviceVars, hostVars, faultVars
  <2> QED BY <1>0, <1>1, <2>1, <2>2 DEF PaidInv
<1>12. CASE ReaderDrops \/ ReaderStartsKeyThread
  <2>1. /\ UNCHANGED <<pixelsFor, toDevice, packages, faults, pc>>
        /\ fromDevice # << >> /\ fromDevice' = Tail(fromDevice)
    BY <1>12 DEF ReaderDrops, ReaderStartsKeyThread, callerVars, deviceVars, hostVars,
                 faultVars
  <2> QED BY <1>0, <1>1, <1>6, <2>1 DEF PaidInv
<1>13. CASE ReaderQueues
  <2>1. /\ UNCHANGED <<pixelsFor, toDevice, faults, pc>>
        /\ fromDevice # << >> /\ fromDevice' = Tail(fromDevice)
        /\ TypeOf(Head(fromDevice)) # KeyActivity
        /\ packages' = Append(packages, Head(fromDevice))
    BY <1>13 DEF ReaderQueues, callerVars, deviceVars, faultVars
  <2>2. from = from' + 1 /\ from' \in Nat
    BY <1>6, <2>1 DEF JoinsQueue
  <2>3. Len(packages') = Len(packages) + 1
    BY <2>1 DEF TypeOK
  <2> QED BY SMTT(30), <1>0, <1>1, <2>1, <2>2, <2>3 DEF PaidInv
<1>14. CASE ReaderNotifies
  <2>1. calls' = calls
    BY <1>7, <1>14 DEF ReaderNotifies, TypeOK
  <2>2. UNCHANGED <<pixelsFor, fromDevice, toDevice, packages, faults>>
    BY <1>14 DEF ReaderNotifies, deviceVars, faultVars
  <2> QED BY <1>0, <1>1, <2>1, <2>2 DEF PaidInv
<1>15. CASE ReaderStops \/ UNCHANGED vars
  <2>1. UNCHANGED <<pixelsFor, fromDevice, toDevice, packages, faults, pc>>
    BY <1>15 DEF ReaderStops, vars, callerVars, deviceVars, hostVars, faultVars
  <2> QED BY <1>0, <1>1, <2>1 DEF PaidInv
<1>16. CASE DeviceAnswers
  <2>1. /\ UNCHANGED <<pixelsFor, packages, faults, pc>>
        /\ toDevice # << >> /\ toDevice' = Tail(toDevice)
        /\ Head(toDevice).kind = "command"
        /\ fromDevice' = Append(fromDevice, AnswerTo(Head(toDevice)))
    BY <1>16 DEF DeviceAnswers, callerVars, hostVars, faultVars
  <2>2. AnswerTo(Head(toDevice)) \in Package
    BY <2>1, TailIndices, PackagesTyped DEF TypeOK
  <2>3. from' \in {from, from + 1}
    BY <1>5, <2>1, <2>2
  <2>4. to = to' + 1 /\ to' \in Nat
    BY <1>4, <2>1
  <2> QED BY SMTT(30), <1>0, <1>1, <2>1, <2>3, <2>4 DEF PaidInv
<1>17. CASE DeviceExpectsPixels
  <2>1. /\ UNCHANGED <<fromDevice, packages, faults, pc>>
        /\ toDevice # << >> /\ toDevice' = Tail(toDevice)
        /\ Head(toDevice).kind = "command"
        /\ pixelsFor = {} /\ pixelsFor' = {Head(toDevice)}
    BY <1>17 DEF DeviceExpectsPixels, callerVars, hostVars, faultVars
  <2>2. /\ IsFiniteSet(pixelsFor') /\ Cardinality(pixelsFor') = 1
        /\ Cardinality(pixelsFor) = 0
    BY <2>1, FS_Singleton, FS_EmptySet
  <2>3. to = to' + 1 /\ to' \in Nat
    BY <1>4, <2>1
  <2> QED BY <1>0, <1>1, <2>1, <2>2, <2>3 DEF PaidInv
<1>18. CASE DeviceTakesPixels
  <2>1. PICK m \in pixelsFor : fromDevice' = Append(fromDevice, AnswerTo(m))
    BY <1>18 DEF DeviceTakesPixels
  <2>2. /\ UNCHANGED <<packages, faults, pc>>
        /\ toDevice # << >> /\ toDevice' = Tail(toDevice) /\ pixelsFor' = {}
    BY <1>18 DEF DeviceTakesPixels, callerVars, hostVars, faultVars
  <2>3. AnswerTo(m) \in Package
    BY PackagesTyped DEF TypeOK
  <2>4. from' \in {from, from + 1}
    BY <1>5, <2>1, <2>3
  <2>5. to' <= to /\ to' \in Nat
    BY <1>0, <1>4, <2>2
  <2>6. /\ IsFiniteSet(pixelsFor') /\ Cardinality(pixelsFor') = 0
        /\ Cardinality(pixelsFor) >= 1
    BY <1>0, <2>1, <2>2, FS_EmptySet
  <2> QED BY SMTT(30), <1>0, <1>1, <2>2, <2>4, <2>5, <2>6 DEF PaidInv
<1>19. CASE DeviceIgnores \/ LineLosesRequest
  <2>1. /\ UNCHANGED <<pixelsFor, fromDevice, packages, pc>>
        /\ toDevice # << >> /\ toDevice' = Tail(toDevice)
        /\ faults' \in {faults, faults + 1}
    BY <1>19 DEF DeviceIgnores, LineLosesRequest, Fault, callerVars, hostVars, faultVars
  <2>2. to' <= to /\ to' \in Nat
    BY <1>0, <1>4, <2>1
  <2> QED BY SMTT(30), <1>0, <1>1, <2>1, <2>2 DEF PaidInv
<1>20. CASE DeviceReportsKey
  <2>1. /\ UNCHANGED <<pixelsFor, toDevice, packages, faults, pc>>
        /\ fromDevice' = Append(fromDevice, KeyReport(keysReported + 1))
        /\ keysReported + 1 \in Nat
    BY <1>20, ChannelAssumption
    DEF DeviceReportsKey, callerVars, deviceVars, hostVars, TypeOK
  <2>2. KeyReport(keysReported + 1) \in Package
    BY <2>1, OthersTyped
  <2>3. ~JoinsQueue(KeyReport(keysReported + 1))
    BY DEF JoinsQueue, KeyReport, TypeOf, KeyActivity
  <2>4. from' = from
    BY <1>5, <2>1, <2>2, <2>3
  <2> QED BY <1>0, <1>1, <2>1, <2>4 DEF PaidInv
<1>21. CASE DeviceRejects
  <2>1. /\ UNCHANGED <<pixelsFor, packages, pc>> /\ faults' = faults + 1
        /\ toDevice # << >> /\ toDevice' = Tail(toDevice)
        /\ fromDevice' = Append(fromDevice, RejectionOf(Head(toDevice)))
    BY <1>21 DEF DeviceRejects, Fault, callerVars, hostVars
  <2>2. RejectionOf(Head(toDevice)) \in Package
    BY <2>1, TailIndices, PackagesTyped DEF TypeOK
  <2>3. from' \in {from, from + 1}
    BY <1>5, <2>1, <2>2
  <2>4. to' <= to /\ to' \in Nat
    BY <1>0, <1>4, <2>1
  <2>5. calls' = calls
    BY <1>1, <2>1
  <2>6. to' + Cardinality(pixelsFor) + from' + Len(packages) <= calls + (faults + 1)
    BY SMTT(30), <1>0, <2>3, <2>4
  <2> QED BY <1>0, <2>1, <2>5, <2>6 DEF PaidInv
<1>22. CASE LineCorrupts
  <2>1. /\ UNCHANGED <<pixelsFor, toDevice, packages, pc>> /\ faults' = faults + 1
        /\ \E i \in DOMAIN fromDevice :
              fromDevice' = [fromDevice EXCEPT ![i].intact = FALSE]
    BY <1>22 DEF LineCorrupts, Fault, callerVars, deviceVars, hostVars
  <2>2. from' = from
    BY <2>1, CorruptCount
  <2> QED BY <1>0, <1>1, <2>1, <2>2 DEF PaidInv
<1>23. CASE LineStalls
  <2>1. /\ UNCHANGED <<pixelsFor, toDevice, packages, pc>> /\ faults' = faults + 1
        /\ fromDevice # << >> /\ fromDevice' = Tail(fromDevice)
    BY <1>23 DEF LineStalls, Fault, callerVars, deviceVars
  <2> QED BY SMTT(30), <1>0, <1>1, <1>6, <2>1 DEF PaidInv
<1>24. CASE DeviceStrays
  <2>1. PICK s \in StrayPackages : fromDevice' = Append(fromDevice, Stray(s))
    BY <1>24 DEF DeviceStrays
  <2>2. UNCHANGED <<pixelsFor, toDevice, packages, pc>> /\ faults' = faults + 1
    BY <1>24 DEF DeviceStrays, Fault, callerVars, deviceVars, hostVars
  <2>3. from' \in {from, from + 1}
    BY <1>5, <2>1, OthersTyped
  <2> QED BY <1>0, <1>1, <2>2, <2>3 DEF PaidInv
<1>25. CASE Unplug
  <2>1. /\ UNCHANGED <<packages, pc>> /\ faults' = faults + 1
        /\ toDevice' = << >> /\ fromDevice' = << >> /\ pixelsFor' = {}
    BY <1>25 DEF Unplug, Fault, callerVars, hostVars
  <2>2. to' = 0 /\ from' = 0
    <3>1. to' = CountIn(<< >>, Orders) /\ from' = CountIn(<< >>, Joining)
      BY <1>1, <2>1 DEF CountIn
    <3> QED BY <3>1, CountEmpty
  <2>3. IsFiniteSet(pixelsFor') /\ Cardinality(pixelsFor') = 0
    BY <2>1, FS_EmptySet
  <2> QED BY <1>0, <1>1, <2>1, <2>2, <2>3 DEF PaidInv
<1> QED BY <1>8, <1>9, <1>10, <1>11, <1>12, <1>13, <1>14, <1>15, <1>16, <1>17, <1>18,
           <1>19, <1>20, <1>21, <1>22, <1>23, <1>24, <1>25
        DEF Next, CallerStep, ReaderStep, DeviceStep, LineStep

\* The queue, and what is about to join it, never exceeds one package per call
\* that is out and one per fault (packages.emplace and pop, line 469-492): what
\* nobody takes stays, but the callers cannot make it grow.
THEOREM QueueBoundedInvariant ==
    ASSUME IsFiniteSet(Callers)
    PROVE  Spec => []QueueBounded
<1>1. Init => PaidInv
  <2> SUFFICES ASSUME Init PROVE PaidInv
    OBVIOUS
  <2>1. CallsOut = {}
    BY DEF Init, CallsOut
  <2>2. Cardinality(CallsOut) = 0 /\ Cardinality(pixelsFor) = 0 /\ IsFiniteSet(pixelsFor)
    BY <2>1, FS_EmptySet DEF Init
  <2>3. CountIn(toDevice, Orders) = 0 /\ CountIn(fromDevice, Joining) = 0
    BY CountEmpty DEF Init
  <2>4. Len(packages) = 0 /\ faults = 0
    BY DEF Init
  <2> QED BY <2>2, <2>3, <2>4 DEF PaidInv
<1>2. TypeOK /\ TypeOK' /\ PaidInv /\ [Next]_vars => PaidInv'
  BY PaidStep
<1>3. TypeOK /\ PaidInv => QueueBounded
  <2> SUFFICES ASSUME TypeOK, PaidInv PROVE QueueBounded
    OBVIOUS
  <2>1. \A i \in DOMAIN fromDevice : JoinsQueue(fromDevice[i]) <=> fromDevice[i] \in Joining
    BY ElementType DEF TypeOK, Joining
  <2>2. Cardinality({i \in DOMAIN fromDevice : JoinsQueue(fromDevice[i])})
          = CountIn(fromDevice, Joining)
    <3>1. {i \in DOMAIN fromDevice : JoinsQueue(fromDevice[i])}
            = {i \in DOMAIN fromDevice : fromDevice[i] \in Joining}
      BY <2>1
    <3> QED BY <3>1 DEF CountIn
  <2>3. Len(packages) + CountIn(fromDevice, Joining) <= Cardinality(CallsOut) + faults
    BY CountsTyped DEF PaidInv
  <2> QED BY <2>2, <2>3 DEF QueueBounded, CallsOut
<1> QED BY <1>1, <1>2, <1>3, TypeCorrect, PTL DEF Spec

=============================================================================
