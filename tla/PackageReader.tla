---------------------------- MODULE PackageReader ----------------------------
(***************************************************************************)
(* The reader thread of the CFA835 driver, byte by byte: read_package with *)
(* its timeouts, the CRC test of process_package, and the discarding of    *)
(* what the device still had to say to the previous process.               *)
(*                                                                         *)
(* A byte knows which package it is of and at which place: history, by     *)
(* which the CRC is modelled.  The CRC test succeeds on exactly the bytes  *)
(* of one package, in order and undamaged (no collision of the 16 bits).   *)
(* A package on the line may still be on its way out of the device: the    *)
(* reader may time out in the middle of it.                                *)
(***************************************************************************)
EXTENDS Naturals, Sequences

CONSTANTS
    Sizes,        \* numbers of data bytes a package may have
    Junk,         \* values of bytes that are no length, read as a length
    MaxPackages,  \* bound: packages the device sends
    MaxFaults     \* bound: faults of the line

ASSUME ReaderAssumption ==
    /\ Sizes \subseteq Nat /\ Junk \subseteq Nat /\ Junk # {}
    /\ MaxPackages \in Nat /\ MaxFaults \in Nat

VARIABLES
    wire,       \* bytes the reader has not read
    got,        \* bytes read of the package under way
    mode,       \* "discarding", "reading" or "stopped"
    delivered,  \* packages handed to the queue or to a key thread
    sizes,      \* sizes of the packages sent
    faults,     \* faults so far
    portFailed, \* the serial port has failed
    inStep,     \* history: the reader begins its packages where they begin
    clean       \* history: packages sent to a reader in step and not touched

host == <<got, mode, delivered>>
vars == <<wire, host, sizes, faults, portFailed, inStep, clean>>

-----------------------------------------------------------------------------
LengthPlace == 2

\* command, length, data, CRC low, CRC high
BytesOf(n, size, junk) ==
    [i \in 1 .. size + 4 |->
        [of |-> n, place |-> i, intact |-> TRUE,
         value |-> IF i = LengthPlace THEN size ELSE junk]]

DataLength(bytes) == bytes[LengthPlace].value

\* What the next byte is to the reader.
Part == IF got = << >> THEN "command"
        ELSE IF Len(got) < LengthPlace THEN "length"
        ELSE IF Len(got) < LengthPlace + DataLength(got) THEN "data"
        ELSE "crc"

\* Mutant: one byte of CRC is read.
CompleteEarly(bytes) == Len(bytes) >= LengthPlace /\ Len(bytes) = 3 + DataLength(bytes)

Complete(bytes) == Len(bytes) >= LengthPlace /\ Len(bytes) = 4 + DataLength(bytes)

\* Mutant: the CRC is not compared.
CrcMatchesAlways(bytes) == TRUE

CrcMatches(bytes) ==
    \A i \in DOMAIN bytes :
        bytes[i].of = bytes[1].of /\ bytes[i].place = i /\ bytes[i].intact

Init ==
    /\ wire = << >> /\ got = << >> /\ mode = "discarding" /\ delivered = << >>
    /\ sizes = << >> /\ faults = 0 /\ portFailed = FALSE
    /\ inStep = FALSE /\ clean = {}

-----------------------------------------------------------------------------
(* The reader *)

\* discard_initial_data: what arrives within 100 ms is thrown away, wherever
\* that cuts a package.
Discard ==
    /\ mode = "discarding"
    /\ \E n \in 0 .. Len(wire) :
         /\ wire' = SubSeq(wire, n + 1, Len(wire))
         /\ inStep' = (n = Len(wire))
    /\ mode' = "reading"
    /\ UNCHANGED <<got, delivered, sizes, faults, portFailed, clean>>

\* A byte that does not end the package.
ReadByte ==
    /\ mode = "reading" /\ wire # << >>
    /\ ~Complete(Append(got, Head(wire)))
    /\ got' = Append(got, Head(wire))
    /\ wire' = Tail(wire)
    /\ UNCHANGED <<mode, delivered, sizes, faults, portFailed, inStep, clean>>

\* Mutant: a package with a wrong CRC ends the thread.
FinishPackageStops ==
    /\ mode = "reading" /\ wire # << >>
    /\ LET bytes == Append(got, Head(wire)) IN
         /\ Complete(bytes)
         /\ IF CrcMatches(bytes)
            THEN delivered' = Append(delivered, bytes[1].of) /\ mode' = mode
            ELSE delivered' = delivered /\ mode' = "stopped"
    /\ got' = << >>
    /\ wire' = Tail(wire)
    /\ UNCHANGED <<sizes, faults, portFailed, inStep, clean>>

\* The last byte of the CRC: process_package drops the package or hands it on.
FinishPackage ==
    /\ mode = "reading" /\ wire # << >>
    /\ LET bytes == Append(got, Head(wire)) IN
         /\ Complete(bytes)
         /\ delivered' = IF CrcMatches(bytes) THEN Append(delivered, bytes[1].of)
                                              ELSE delivered
    /\ got' = << >>
    /\ wire' = Tail(wire)
    /\ UNCHANGED <<mode, sizes, faults, portFailed, inStep, clean>>

\* Mutant: the bytes read are kept and the reader waits for the rest.
GiveUpWaits ==
    IF Part = "data" THEN mode' = "stopped" /\ got' = got
                     ELSE mode' = mode /\ got' = got

\* Five seconds without a byte: the package is given up and the reader starts
\* over, except among the data bytes, where the thread returns.
GiveUp ==
    IF Part = "data" THEN mode' = "stopped" /\ got' = got
                     ELSE mode' = mode /\ got' = << >>

\* ... because the line is silent,
Timeout ==
    /\ mode = "reading" /\ wire = << >>
    /\ GiveUp
    /\ inStep' = (inStep \/ mode' = "reading")
    /\ UNCHANGED <<wire, delivered, sizes, faults, portFailed, clean>>

\* The reader is no longer where packages begin: what is on the line is lost
\* or not, as it happens.
OutOfStep(from) ==
    /\ inStep' = FALSE
    /\ clean' = {n \in clean : n < from \/ \E i \in DOMAIN delivered : delivered[i] = n}

\* ... or because the device pauses in the middle of a package.
TimeoutInPause ==
    /\ mode = "reading" /\ wire # << >> /\ Part # "command"
    /\ faults < MaxFaults /\ faults' = faults + 1
    /\ GiveUp
    /\ OutOfStep(0)
    /\ UNCHANGED <<wire, delivered, sizes, portFailed>>

\* Any other error of the port ends the thread.
PortFails ==
    /\ faults < MaxFaults /\ faults' = faults + 1
    /\ mode = "reading"
    /\ mode' = "stopped" /\ portFailed' = TRUE
    /\ UNCHANGED <<wire, got, delivered, sizes, inStep, clean>>

-----------------------------------------------------------------------------
(* The device and the line: external *)

DeviceSends ==
    /\ Len(sizes) < MaxPackages
    /\ \E size \in Sizes, junk \in Junk :
         /\ wire' = wire \o BytesOf(Len(sizes) + 1, size, junk)
         /\ sizes' = Append(sizes, size)
    /\ clean' = IF inStep /\ mode = "reading" THEN clean \cup {Len(sizes) + 1} ELSE clean
    /\ UNCHANGED <<host, faults, portFailed, inStep>>

LineLosesByte ==
    /\ faults < MaxFaults /\ faults' = faults + 1
    /\ \E i \in DOMAIN wire :
         /\ wire' = SubSeq(wire, 1, i - 1) \o SubSeq(wire, i + 1, Len(wire))
         /\ OutOfStep(wire[i].of)
    /\ UNCHANGED <<host, sizes, portFailed>>

LineDamagesByte ==
    /\ faults < MaxFaults /\ faults' = faults + 1
    /\ \E i \in DOMAIN wire :
         /\ \E v \in Junk : wire' = [wire EXCEPT ![i].value = v, ![i].intact = FALSE]
         /\ IF wire[i].place = LengthPlace
            THEN OutOfStep(wire[i].of)
            ELSE clean' = clean \ {wire[i].of} /\ inStep' = inStep
    /\ UNCHANGED <<host, sizes, portFailed>>

Reader == Discard \/ ReadByte \/ FinishPackage \/ Timeout

Next == \/ Reader
        \/ TimeoutInPause
        \/ PortFails
        \/ DeviceSends
        \/ LineLosesByte
        \/ LineDamagesByte

Spec == Init /\ [][Next]_vars

\* The thread runs and its timer expires.
FairSpec == Spec /\ WF_vars(Reader)

-----------------------------------------------------------------------------
(* Properties *)

Byte == [of : Nat, place : Nat, intact : BOOLEAN, value : Nat]

\* The values of the variables and the bounds.
TypeOK ==
    /\ wire \in Seq(Byte) /\ got \in Seq(Byte)
    /\ mode \in {"discarding", "reading", "stopped"}
    /\ delivered \in Seq(1 .. Len(sizes))
    /\ sizes \in Seq(Sizes) /\ Len(sizes) <= MaxPackages
    /\ faults \in 0 .. MaxFaults
    /\ portFailed \in BOOLEAN /\ inStep \in BOOLEAN
    /\ clean \subseteq 1 .. Len(sizes)

Delivered(n) == \E i \in DOMAIN delivered : delivered[i] = n

\* A package sent to a reader in step and not itself touched is handed on: a
\* damaged byte costs its own package only, unless it is the length, and
\* silence makes up for everything (read_package, line 387-437).
CleanArrives ==
    \A n \in clean : Delivered(n) \/ portFailed \/
        LET line == got \o wire IN
        \E i \in DOMAIN line : line[i].of = n /\ line[i].place = 1

\* The thread never ends without cause: it has been thrown out of step by a
\* lost byte, a damaged length or a pause, or the port has failed (line 417).
StopsForCause == mode = "stopped" => portFailed \/ ~inStep

\* However the bytes were mangled, silence brings the reader back to the
\* beginning of a package, or to its end (line 392-433).
Settles == <>[](mode = "stopped" \/ got = << >>)

Fifo == INSTANCE LossyFifo WITH sent <- Len(sizes)

\* What is handed on are packages of the device, in order and once each.
ImplementsFifo == Fifo!Spec

=============================================================================
