--------------------------- MODULE CommandChannel ---------------------------
(***************************************************************************)
(* The request/answer channel of the CFA835 driver.                        *)
(*                                                                         *)
(* A thread that calls a command of the class (a CALLER) writes one frame  *)
(* to the serial port (send_message), for a bitmap also the raw pixels     *)
(* (send_data), and then sleeps in receive_message on a condition variable *)
(* until the FRONT of the queue `packages' has the code and the size it    *)
(* expects.  One READER thread takes the packages off the serial port,     *)
(* drops the damaged ones, starts a detached thread per key report and     *)
(* appends the others to the queue; it notifies one sleeper AFTER it has   *)
(* released the mutex.                                                     *)
(*                                                                         *)
(* A critical section of packages_mutex is one action.  The wire carries   *)
(* whole packages here; PackageReader models how bytes become packages.    *)
(***************************************************************************)
EXTENDS Naturals, Sequences, FiniteSets

CONSTANTS
    Callers,          \* threads that call commands of the driver
    Nobody,           \* the origin of a package that answers no request
    Requests,         \* the commands the callers use
    RequestsOf,       \* [Callers -> SUBSET Requests], what each caller uses
    CodeOf,           \* [Requests -> command code]
    SizeOf,           \* [Requests -> number of data bytes of its answer]
    EchoOf,           \* [Requests -> first data byte of its answer]
    PayloadRequests,  \* requests followed by raw bytes (send_data)
    StrayPackages,    \* [command, size, echo] of packages nobody asked for
    FaultKinds,       \* the faults the environment may produce
    MaxFaults,        \* bound: how many of them
    MaxRequests,      \* bound: requests per caller
    MaxKeys           \* bound: key reports

ResponseMessage == 64
KeyActivity     == 128
ErrorReply      == 192   \* the device's "command rejected" bits

ASSUME ChannelAssumption ==
    /\ Nobody \notin Callers
    /\ Requests # {}
    /\ RequestsOf \in [Callers -> SUBSET Requests]
    /\ CodeOf \in [Requests -> 0 .. 63]
    /\ SizeOf \in [Requests -> Nat]
    /\ EchoOf \in [Requests -> Nat]
    /\ PayloadRequests \subseteq Requests
    /\ StrayPackages \subseteq [command : 0 .. 255, size : Nat, echo : Nat]
    /\ FaultKinds \subseteq {"lost", "reject", "corrupt", "stall", "stray", "unplug"}
    /\ MaxFaults \in Nat /\ MaxRequests \in Nat /\ MaxKeys \in Nat

VARIABLES
    pc,           \* [Callers -> where the thread is]
    request,      \* [Callers -> the last request it made]
    sent,         \* [Callers -> how many it made]
    answer,       \* [Callers -> the package its last call returned]
    toDevice,     \* what the host wrote and the device has not read
    pixelsFor,    \* the command whose raw bytes the device waits for, if any
    executed,     \* [Callers -> number of the last request the device did]
    fromDevice,   \* what the device wrote and the reader has not read
    packages,     \* the queue CFA835::packages
    reader,       \* where the reader thread is
    keyThreads,   \* origins of the packages that started a key thread
    keysReported, \* key reports the device has made
    linkUp,       \* the serial port works
    faults,       \* faults so far
    strayed       \* history: a package came that nobody asked for

callerVars == <<pc, request, sent, answer>>
deviceVars == <<toDevice, pixelsFor, executed>>
hostVars   == <<packages, reader, keyThreads>>
faultVars  == <<keysReported, linkUp, faults, strayed>>
vars == <<callerVars, deviceVars, fromDevice, hostVars, faultVars>>

-----------------------------------------------------------------------------
Origin  == [caller : Callers \cup {Nobody}, number : Nat]
Message == [kind : {"command", "pixels"}, request : Requests,
            caller : Callers, number : Nat]
Package == [command : Nat, size : Nat, echo : Nat, origin : Origin,
            intact : BOOLEAN]

OriginOf(m) == [caller |-> m.caller, number |-> m.number]

\* The message caller c writes for its current request.
MessageOf(c, kind) ==
    [kind |-> kind, request |-> request[c], caller |-> c, number |-> sent[c]]

\* What the device answers to message m.
AnswerTo(m) ==
    [command |-> CodeOf[m.request] + ResponseMessage, size |-> SizeOf[m.request],
     echo |-> EchoOf[m.request], origin |-> OriginOf(m), intact |-> TRUE]

\* What it answers to a command it refuses.
RejectionOf(m) ==
    [AnswerTo(m) EXCEPT !.command = CodeOf[m.request] + ErrorReply]

KeyReport(n) ==
    [command |-> KeyActivity, size |-> 1, echo |-> n,
     origin |-> [caller |-> Nobody, number |-> n], intact |-> TRUE]

Stray(s) ==
    [command |-> s.command, size |-> s.size, echo |-> s.echo,
     origin |-> [caller |-> Nobody, number |-> 0], intact |-> TRUE]

\* Mutant: the two high bits are cleared.
TypeOfLowBits(p) == p.command % ResponseMessage

\* command & ~RESPONSE_MESSAGE: bit 6 of the command byte is cleared.
TypeOf(p) ==
    IF p.command \in 64 .. 127 \cup 192 .. 255 THEN p.command - ResponseMessage
                                               ELSE p.command

\* Mutant: the size is not compared.
FrontIsForAnySize(c) ==
    /\ packages # << >>
    /\ TypeOf(Head(packages)) = CodeOf[request[c]]

\* The predicate receive_message waits for.
FrontIsFor(c) ==
    /\ packages # << >>
    /\ TypeOf(Head(packages)) = CodeOf[request[c]]
    /\ Head(packages).size = SizeOf[request[c]]

Init ==
    /\ pc = [c \in Callers |-> "idle"]
    /\ request = [c \in Callers |-> CHOOSE r \in Requests : TRUE]
    /\ sent = [c \in Callers |-> 0]
    /\ answer = [c \in Callers |-> [command |-> 0, size |-> 0, echo |-> 0,
                    origin |-> [caller |-> c, number |-> 0], intact |-> TRUE]]
    /\ toDevice = << >>
    /\ pixelsFor = {}
    /\ executed = [c \in Callers |-> 0]
    /\ fromDevice = << >>
    /\ packages = << >>
    /\ reader = "reading"
    /\ keyThreads = {}
    /\ keysReported = 0
    /\ linkUp = TRUE
    /\ faults = 0
    /\ strayed = FALSE

-----------------------------------------------------------------------------
(* The calling threads *)

\* Mutant: a command with raw bytes returns before it has sent them.
SendMessageOnly(c) ==
    /\ pc[c] = "idle"
    /\ sent[c] < MaxRequests
    /\ linkUp
    /\ \E r \in RequestsOf[c] :
         /\ request' = [request EXCEPT ![c] = r]
         /\ sent' = [sent EXCEPT ![c] = @ + 1]
         /\ toDevice' = Append(toDevice,
                [kind |-> "command", request |-> r, caller |-> c,
                 number |-> sent[c] + 1])
         /\ pc' = [pc EXCEPT ![c] = IF r \in PayloadRequests THEN "idle" ELSE "receive"]
    /\ UNCHANGED <<answer, pixelsFor, executed, fromDevice, hostVars, faultVars>>

\* A command starts: send_message builds the frame and writes it under the
\* mutex.  On a dead port boost::asio::write throws and the call is over.
SendMessage(c) ==
    /\ pc[c] = "idle"
    /\ sent[c] < MaxRequests
    /\ \E r \in RequestsOf[c] :
         /\ request' = [request EXCEPT ![c] = r]
         /\ sent' = [sent EXCEPT ![c] = @ + 1]
         /\ IF linkUp
            THEN /\ toDevice' = Append(toDevice,
                        [kind |-> "command", request |-> r, caller |-> c,
                         number |-> sent[c] + 1])
                 /\ pc' = [pc EXCEPT ![c] =
                              IF r \in PayloadRequests THEN "payload" ELSE "receive"]
            ELSE /\ toDevice' = toDevice
                 /\ pc' = [pc EXCEPT ![c] = "threw"]
    /\ UNCHANGED <<answer, pixelsFor, executed, fromDevice, hostVars, faultVars>>

\* send_data: a second critical section, so others may write in between.
SendData(c) ==
    /\ pc[c] = "payload"
    /\ IF linkUp
       THEN /\ toDevice' = Append(toDevice, MessageOf(c, "pixels"))
            /\ pc' = [pc EXCEPT ![c] = "receive"]
       ELSE /\ toDevice' = toDevice
            /\ pc' = [pc EXCEPT ![c] = "threw"]
    /\ UNCHANGED <<request, sent, answer, pixelsFor, executed, fromDevice,
                   hostVars, faultVars>>

\* Mutant: the package is copied and not popped.
TakeAnswerKeepsIt(c) ==
    /\ pc[c] = "receive"
    /\ FrontIsFor(c)
    /\ answer' = [answer EXCEPT ![c] = Head(packages)]
    /\ pc' = [pc EXCEPT ![c] = "idle"]
    /\ UNCHANGED <<request, sent, deviceVars, fromDevice, hostVars, faultVars>>

\* receive_message with the mutex held and the predicate true: pop, return.
TakeAnswer(c) ==
    /\ pc[c] = "receive"
    /\ FrontIsFor(c)
    /\ answer' = [answer EXCEPT ![c] = Head(packages)]
    /\ packages' = Tail(packages)
    /\ pc' = [pc EXCEPT ![c] = "idle"]
    /\ UNCHANGED <<request, sent, deviceVars, fromDevice, reader, keyThreads,
                   faultVars>>

\* receive_message with the predicate false: release the mutex and sleep.
Sleep(c) ==
    /\ pc[c] = "receive"
    /\ ~FrontIsFor(c)
    /\ pc' = [pc EXCEPT ![c] = "waiting"]
    /\ UNCHANGED <<request, sent, answer, deviceVars, fromDevice, hostVars,
                   faultVars>>

\* A condition variable may wake a sleeper without a notification.
SpuriousWakeup(c) ==
    /\ pc[c] = "waiting"
    /\ pc' = [pc EXCEPT ![c] = "receive"]
    /\ UNCHANGED <<request, sent, answer, deviceVars, fromDevice, hostVars,
                   faultVars>>

-----------------------------------------------------------------------------
(* The reader thread: read_package and process_package *)

\* A package whose CRC does not match is dropped.
ReaderDrops ==
    /\ reader = "reading"
    /\ fromDevice # << >> /\ ~Head(fromDevice).intact
    /\ fromDevice' = Tail(fromDevice)
    /\ UNCHANGED <<callerVars, deviceVars, hostVars, faultVars>>

\* A key report starts a detached thread; the queue is not touched.
ReaderStartsKeyThread ==
    /\ reader = "reading"
    /\ fromDevice # << >> /\ Head(fromDevice).intact
    /\ TypeOf(Head(fromDevice)) = KeyActivity
    /\ keyThreads' = keyThreads \cup {Head(fromDevice).origin}
    /\ fromDevice' = Tail(fromDevice)
    /\ UNCHANGED <<callerVars, deviceVars, packages, reader, faultVars>>

\* Mutant: nobody is notified.
ReaderQueuesSilently ==
    /\ reader = "reading"
    /\ fromDevice # << >> /\ Head(fromDevice).intact
    /\ TypeOf(Head(fromDevice)) # KeyActivity
    /\ packages' = Append(packages, Head(fromDevice))
    /\ fromDevice' = Tail(fromDevice)
    /\ UNCHANGED <<callerVars, deviceVars, reader, keyThreads, faultVars>>

\* Any other package joins the queue, under the mutex ...
ReaderQueues ==
    /\ reader = "reading"
    /\ fromDevice # << >> /\ Head(fromDevice).intact
    /\ TypeOf(Head(fromDevice)) # KeyActivity
    /\ packages' = Append(packages, Head(fromDevice))
    /\ fromDevice' = Tail(fromDevice)
    /\ reader' = "notify"
    /\ UNCHANGED <<callerVars, deviceVars, keyThreads, faultVars>>

\* Mutant: the notification is a rendezvous with a sleeper.
ReaderMeetsSleeper ==
    /\ reader = "notify"
    /\ reader' = "reading"
    /\ \E c \in Callers : /\ pc[c] = "waiting"
                          /\ pc' = [pc EXCEPT ![c] = "receive"]
    /\ UNCHANGED <<request, sent, answer, deviceVars, fromDevice, packages,
                   keyThreads, faultVars>>

\* Mutant: the sleeper is marked and nobody takes it out of that state.
ReaderMarksSleeper ==
    /\ reader = "notify"
    /\ reader' = "reading"
    /\ \E c \in Callers : pc' = [pc EXCEPT ![c] = "notified"]
    /\ UNCHANGED <<request, sent, answer, deviceVars, fromDevice, packages,
                   keyThreads, faultVars>>

\* ... and notify_one follows after the mutex is released.
ReaderNotifies ==
    /\ reader = "notify"
    /\ reader' = "reading"
    /\ IF \E c \in Callers : pc[c] = "waiting"
       THEN \E c \in Callers : /\ pc[c] = "waiting"
                               /\ pc' = [pc EXCEPT ![c] = "receive"]
       ELSE pc' = pc
    /\ UNCHANGED <<request, sent, answer, deviceVars, fromDevice, packages,
                   keyThreads, faultVars>>

\* A read error other than the timeout ends the thread.
ReaderStops ==
    /\ reader = "reading" /\ ~linkUp
    /\ reader' = "stopped"
    /\ UNCHANGED <<callerVars, deviceVars, fromDevice, packages, keyThreads,
                   faultVars>>

-----------------------------------------------------------------------------
(* The device and the line: external *)

Executes(m) == executed' = [executed EXCEPT ![m.caller] = m.number]

\* The device reads a command that needs no raw bytes and answers it.
DeviceAnswers ==
    /\ toDevice # << >> /\ pixelsFor = {}
    /\ LET m == Head(toDevice) IN
         /\ m.kind = "command" /\ m.request \notin PayloadRequests
         /\ Executes(m)
         /\ fromDevice' = Append(fromDevice, AnswerTo(m))
    /\ toDevice' = Tail(toDevice)
    /\ UNCHANGED <<callerVars, pixelsFor, hostVars, faultVars>>

\* It reads a command that announces raw bytes and waits for them.
DeviceExpectsPixels ==
    /\ toDevice # << >> /\ pixelsFor = {}
    /\ Head(toDevice).kind = "command" /\ Head(toDevice).request \in PayloadRequests
    /\ pixelsFor' = {Head(toDevice)}
    /\ toDevice' = Tail(toDevice)
    /\ UNCHANGED <<callerVars, executed, fromDevice, hostVars, faultVars>>

\* Whatever is next on the line is taken as those raw bytes.
DeviceTakesPixels ==
    /\ toDevice # << >>
    /\ \E m \in pixelsFor : /\ Executes(m)
                            /\ fromDevice' = Append(fromDevice, AnswerTo(m))
    /\ pixelsFor' = {}
    /\ toDevice' = Tail(toDevice)
    /\ UNCHANGED <<callerVars, hostVars, faultVars>>

\* Raw bytes nothing announced are no valid frame: the device ignores them.
DeviceIgnores ==
    /\ toDevice # << >> /\ pixelsFor = {}
    /\ Head(toDevice).kind = "pixels"
    /\ toDevice' = Tail(toDevice)
    /\ UNCHANGED <<callerVars, pixelsFor, executed, fromDevice, hostVars, faultVars>>

\* A key is pressed or released.
DeviceReportsKey ==
    /\ linkUp
    /\ keysReported < MaxKeys
    /\ keysReported' = keysReported + 1
    /\ fromDevice' = Append(fromDevice, KeyReport(keysReported + 1))
    /\ UNCHANGED <<callerVars, deviceVars, hostVars, linkUp, faults, strayed>>

Fault(kind) ==
    /\ kind \in FaultKinds /\ faults < MaxFaults /\ linkUp
    /\ faults' = faults + 1

\* A command arrives damaged and the device ignores it.
LineLosesRequest ==
    /\ Fault("lost")
    /\ toDevice # << >>
    /\ toDevice' = Tail(toDevice)
    /\ UNCHANGED <<callerVars, pixelsFor, executed, fromDevice, hostVars,
                   keysReported, linkUp, strayed>>

\* The device refuses a command: it answers, with other command bits.
DeviceRejects ==
    /\ Fault("reject")
    /\ toDevice # << >> /\ pixelsFor = {} /\ Head(toDevice).kind = "command"
    /\ fromDevice' = Append(fromDevice, RejectionOf(Head(toDevice)))
    /\ toDevice' = Tail(toDevice)
    /\ UNCHANGED <<callerVars, pixelsFor, executed, hostVars, keysReported, linkUp,
                   strayed>>

\* A package is damaged on its way to the host.
LineCorrupts ==
    /\ Fault("corrupt")
    /\ \E i \in DOMAIN fromDevice :
          fromDevice' = [fromDevice EXCEPT ![i].intact = FALSE]
    /\ UNCHANGED <<callerVars, deviceVars, hostVars, keysReported, linkUp, strayed>>

\* A package breaks off among its data bytes: that timeout ends the reader.
LineStalls ==
    /\ Fault("stall")
    /\ reader = "reading" /\ fromDevice # << >>
    /\ Head(fromDevice).size > 0
    /\ reader' = "stopped"
    /\ fromDevice' = Tail(fromDevice)
    /\ UNCHANGED <<callerVars, deviceVars, packages, keyThreads, keysReported, linkUp,
                   strayed>>

\* A package nobody asked for, e.g. an answer to the previous process that
\* came after discard_initial_data had given up.  It may look like the answer a
\* caller waits for, and is then taken for it.
DeviceStrays ==
    /\ Fault("stray")
    /\ \E s \in StrayPackages : fromDevice' = Append(fromDevice, Stray(s))
    /\ strayed' = TRUE
    /\ UNCHANGED <<callerVars, deviceVars, hostVars, keysReported, linkUp>>

\* The cable is pulled: what is on the line is lost.
Unplug ==
    /\ Fault("unplug")
    /\ linkUp' = FALSE
    /\ toDevice' = << >> /\ fromDevice' = << >> /\ pixelsFor' = {}
    /\ UNCHANGED <<callerVars, executed, hostVars, keysReported, strayed>>

-----------------------------------------------------------------------------
CallerStep(c) == \/ SendMessage(c)
                 \/ SendData(c)
                 \/ TakeAnswer(c)
                 \/ Sleep(c)
                 \/ SpuriousWakeup(c)

ReaderStep == \/ ReaderDrops
              \/ ReaderStartsKeyThread
              \/ ReaderQueues
              \/ ReaderNotifies
              \/ ReaderStops

DeviceStep == \/ DeviceAnswers
              \/ DeviceExpectsPixels
              \/ DeviceTakesPixels
              \/ DeviceIgnores

LineStep == \/ DeviceReportsKey
            \/ LineLosesRequest
            \/ DeviceRejects
            \/ LineCorrupts
            \/ LineStalls
            \/ DeviceStrays
            \/ Unplug

Next == (\E c \in Callers : CallerStep(c)) \/ ReaderStep \/ DeviceStep \/ LineStep

Spec == Init /\ [][Next]_vars

\* Threads run and the device serves what it reads; nobody has to start a
\* command, press a key or wake a sleeper without reason.
FairSpec ==
    /\ Spec
    /\ WF_vars(ReaderStep)
    /\ WF_vars(DeviceStep)
    /\ \A c \in Callers : WF_vars(SendData(c) \/ TakeAnswer(c) \/ Sleep(c))

-----------------------------------------------------------------------------
(* Properties *)

\* The values each variable ranges over, and the bounds of the counters.
TypeOK ==
    /\ pc \in [Callers -> {"idle", "payload", "receive", "waiting", "threw"}]
    /\ request \in [Callers -> Requests]
    /\ sent \in [Callers -> 0 .. MaxRequests]
    /\ answer \in [Callers -> Package]
    /\ toDevice \in Seq(Message)
    /\ pixelsFor \subseteq Message
    /\ executed \in [Callers -> Nat]
    /\ fromDevice \in Seq(Package)
    /\ packages \in Seq(Package)
    /\ reader \in {"reading", "notify", "stopped"}
    /\ keyThreads \subseteq Origin
    /\ keysReported \in 0 .. MaxKeys
    /\ linkUp \in BOOLEAN
    /\ faults \in 0 .. MaxFaults
    /\ strayed \in BOOLEAN

\* What two callers wait for differs in the code or in the size.  It is so
\* when there is one caller, as in the application, whose main thread alone
\* talks to the device.
Separated ==
    \A c, d \in Callers : c # d =>
        \A r \in RequestsOf[c], s \in RequestsOf[d] :
            CodeOf[r] # CodeOf[s] \/ SizeOf[r] # SizeOf[s]

\* The queue is matched on code and size only (line 479-483), yet a finished
\* command never holds the answer to another caller.  It holds its own, as no
\* loss and no refusal shifts the answers by one; only a stray package that
\* looks like an answer does, which is why the second half ends with the first.
OwnAnswer ==
    \A c \in Callers : pc[c] = "idle" =>
        /\ answer[c].origin.caller \in {c, Nobody}
        /\ ~strayed => answer[c].origin = [caller |-> c, number |-> sent[c]]

\* When a command returns, the device has carried it out, and every command
\* before it: one that was lost, refused or swallowed as the pixels of another
\* caller's bitmap is never reported as done, unless by a stray package.  A
\* bitmap is carried out with whatever the device took for its pixels.
ReturnMeansExecuted ==
    ~strayed => \A c \in Callers : pc[c] = "idle" => executed[c] = sent[c]

\* notify_one runs after the mutex is released (line 469-474): a sleeper whose
\* answer is at the front is about to be notified, it does not sleep on.
NoLostWakeup ==
    \A c \in Callers : pc[c] = "waiting" /\ FrontIsFor(c) => reader = "notify"

\* A package that joins the queue unless it is damaged, or answers a request.
JoinsQueue(p) == p.origin.caller # Nobody \/ TypeOf(p) # KeyActivity

\* The queue has no capacity in the code (std::queue, line 471): with what is on
\* its way to it, it never exceeds one package per call that has not returned,
\* and one more per fault of the line.
QueueBounded ==
    Len(packages) + Cardinality({i \in DOMAIN fromDevice : JoinsQueue(fromDevice[i])})
        <= Cardinality({c \in Callers : pc[c] # "idle"}) + faults

\* What may be taken for something else.  Send_message and send_data are two
\* critical sections (line 1159-1160): the command of ANOTHER caller may slip in
\* between and be taken for pixels, but no later one of the same caller, however
\* its call ends.  Clearing bit 6 (line 458) makes a key report of no answer but
\* the refusal of a ping, whose command byte is 192; its caller sleeps for ever.
NothingIsMistaken ==
    ~strayed =>
    /\ \A m \in pixelsFor : toDevice # << >> =>
          \/ Head(toDevice) = [m EXCEPT !.kind = "pixels"]
          \/ Head(toDevice).caller # m.caller
    /\ \A o \in keyThreads : o.caller # Nobody =>
          /\ CodeOf[request[o.caller]] = 0
          /\ o.number = sent[o.caller] /\ pc[o.caller] # "idle"

\* The asserts on response[0] after each command of a group, e.g. line 1143.
EchoAsserted ==
    \A c \in Callers : pc[c] = "idle" /\ sent[c] > 0 =>
        answer[c].echo = EchoOf[request[c]]

\* A lone caller gets its answer, unless the line fails: wait has no timeout,
\* so this rests on the queue, the notification and the predicate together.
AnswersArrive ==
    \A c \in Callers : pc[c] # "idle" ~> pc[c] = "idle" \/ faults > 0

\* Every key report starts its thread, whatever the callers do, even when they
\* sleep for ever on one another's packages: the reader never waits for them.
KeysDispatched ==
    \A n \in 1 .. MaxKeys : keysReported >= n ~> KeyReport(n).origin \in keyThreads

-----------------------------------------------------------------------------
(* The inductive invariant behind OwnAnswer and ReturnMeansExecuted, as long  *)
(* as nothing strayed: a call that is out has one token, its command, its     *)
(* promise of pixels or its answer, and a call that is over has none.         *)

\* A command the device has not carried out is the current one of its caller.
Pending(m) ==
    /\ pc[m.caller] # "idle"
    /\ m.number = sent[m.caller]
    /\ m.request = request[m.caller]
    /\ executed[m.caller] # m.number

Answered(c, m) == m.kind = "command" => m.caller # c

\* A package with an origin answers, or refuses, the current command of its
\* caller, which is no more on its way to the device.
Answering(p) ==
    LET c == p.origin.caller IN
    /\ pc[c] # "idle"
    /\ p.origin.number = sent[c]
    /\ p.size = SizeOf[request[c]]
    /\ \/ p.command = CodeOf[request[c]] + ResponseMessage /\ executed[c] = sent[c]
       \/ p.command = CodeOf[request[c]] + ErrorReply
    /\ \A i \in DOMAIN toDevice : Answered(c, toDevice[i])
    /\ \A m \in pixelsFor : m.caller # c

CommandsInv ==
    /\ \A i \in DOMAIN toDevice : toDevice[i].kind = "command" => Pending(toDevice[i])
    /\ \A i, j \in DOMAIN toDevice :
          /\ toDevice[i].kind = "command" /\ toDevice[j].kind = "command"
          /\ toDevice[i].caller = toDevice[j].caller
          => i = j

PixelsInv ==
    /\ \A m, n \in pixelsFor : m = n
    /\ \A m \in pixelsFor : Pending(m)
    /\ \A m \in pixelsFor : \A i \in DOMAIN toDevice : Answered(m.caller, toDevice[i])

WireInv ==
    /\ \A i \in DOMAIN fromDevice :
          \/ fromDevice[i].origin.caller \in Callers /\ Answering(fromDevice[i])
          \/ fromDevice[i].origin.caller = Nobody /\ fromDevice[i].command = KeyActivity
    /\ \A i, j \in DOMAIN fromDevice :
          fromDevice[i].origin.caller = fromDevice[j].origin.caller
          => i = j \/ fromDevice[i].origin.caller = Nobody

QueueInv ==
    /\ \A i \in DOMAIN packages :
          packages[i].origin.caller \in Callers /\ Answering(packages[i])
    /\ \A i, j \in DOMAIN packages :
          packages[i].origin.caller = packages[j].origin.caller => i = j
    /\ \A i \in DOMAIN packages, j \in DOMAIN fromDevice :
          packages[i].origin.caller # fromDevice[j].origin.caller

CallersInv ==
    \A c \in Callers :
        /\ pc[c] # "idle" => request[c] \in RequestsOf[c]
        /\ executed[c] <= sent[c]
        /\ pc[c] = "idle" => executed[c] = sent[c]
        /\ pc[c] = "idle" => answer[c].origin = [caller |-> c, number |-> sent[c]]

\* A call in flight has one token and a finished one has none, so no package
\* can be taken by a later command (receive_message, line 477-492).
TokenInv == CommandsInv /\ PixelsInv /\ WireInv /\ QueueInv /\ CallersInv

-----------------------------------------------------------------------------
(* The abstract call of Rpc: a call is out, done by the device, or over. *)
Phase ==
    [c \in Callers |-> IF pc[c] = "idle" THEN "idle"
                       ELSE IF executed[c] = sent[c] THEN "executed"
                       ELSE "called"]

Result == [c \in Callers |-> answer[c].origin]

Rpc == INSTANCE Rpc WITH phase <- Phase, calls <- sent, result <- Result

\* A command behaves as a remote call that the device executes exactly once
\* before it returns and whose result is its own, or that never returns.
ImplementsRpc == Rpc!Spec

=============================================================================
