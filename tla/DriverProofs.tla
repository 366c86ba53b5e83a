---------------------------- MODULE DriverProofs ----------------------------
(***************************************************************************)
(* The driver and its helpers, for any command and any files, sizes and    *)
(* card: a frame counts its data and fits a package, within one life of    *)
(* the program is_file_opened is true and no file is opened over an open   *)
(* one, run_command returns all of an output that fits its pipe or         *)
(* nothing, and the CRC tells a package from the damaged one.              *)
(***************************************************************************)
EXTENDS FrameBuilder, MicroSd, ShellCommand, Checksum, WellFoundedInduction, TLAPS

-----------------------------------------------------------------------------
(* Frames *)

\* The data of every command is counted by a number, and but for the commands in
\* Oversized it fits a package.
LEMMA LengthsFit ==
    ASSUME NEW c \in AllCommands, NEW n \in c.lengths
    PROVE  n \in Nat /\ (c \in Oversized \/ n <= 120)
<1>1. CASE c \in Oversized
  <2>1. c.lengths \in SUBSET Nat
    BY <1>1 DEF Oversized, Command, MaxInput, Ping, WriteUserFlash, WriteText, LoadFont,
         PrintFont, OpenFile, WriteFile, DeleteFile
  <2> QED BY <1>1, <2>1
<1>2. CASE c \notin Oversized
  <2> DEFINE Small == { GetHardwareInfo, GetSerialNumber, ReadUserFlash,
        StoreBootState, Restart, ClearDisplay, ReadSpecialCharacter,
        WriteSpecialCharacter, ShowCursor, SetCursorPosition, GetCursorStyle,
        SetCursorStyle, GetContrast, SetContrast, GetBrightness, SetBrightness,
        GetKeyEvents, SetKeyEvents, ReadKeypad, ReadText, ConfigureGpio, CloseFile,
        SeekFile, ReadFile, SetGraphicOptions, FlushBuffer, SendBitmap, SetPixel,
        GetPixel, DrawLine, DrawRectangle, DrawCircle }
  <2>1. c \in Small
    BY <1>2 DEF AllCommands, Oversized
  <2>2. c.lengths \in SUBSET (0 .. 9)
    BY <2>1 DEF Command, GetHardwareInfo, GetSerialNumber, ReadUserFlash,
        StoreBootState, Restart, ClearDisplay, ReadSpecialCharacter,
        WriteSpecialCharacter, ShowCursor, SetCursorPosition, GetCursorStyle,
        SetCursorStyle, GetContrast, SetContrast, GetBrightness, SetBrightness,
        GetKeyEvents, SetKeyEvents, ReadKeypad, ReadText, ConfigureGpio, CloseFile,
        SeekFile, ReadFile, SetGraphicOptions, FlushBuffer, SendBitmap, SetPixel,
        GetPixel, DrawLine, DrawRectangle, DrawCircle
  <2>3. n \in 0 .. 9
    BY <2>2
  <2> QED BY <2>3
<1> QED BY <1>1, <1>2

\* The frame is the one of the data, and a package that was written fits.
FrameInvariant ==
    /\ length \in Nat
    /\ command \in Oversized \/ length <= 120
    /\ frame = FrameOf(length)
    /\ outcome \in {"building", "written", "aborted"}
    /\ outcome = "written" => length <= 120
    /\ outcome = "aborted" => length > 120

\* Whatever the command and its arguments: send_message aborts on the commands
\* in Oversized only, and the length byte of every frame it writes counts the
\* data, for the assert keeps the cast to a byte from wrapping.
THEOREM FramesFitHolds == FrameSpec => []FramesFit
<1>1. FrameInit => FrameInvariant
  <2> SUFFICES ASSUME FrameInit PROVE FrameInvariant
    OBVIOUS
  <2>1. command \in AllCommands /\ length \in command.lengths
    BY DEF FrameInit
  <2>2. length \in Nat /\ (command \in Oversized \/ length <= 120)
    BY <2>1, LengthsFit
  <2> QED BY <2>2 DEF FrameInit, FrameInvariant
<1>2. FrameInvariant /\ [FrameNext]_frameVars => FrameInvariant'
  <2> SUFFICES ASSUME FrameInvariant, [FrameNext]_frameVars PROVE FrameInvariant'
    OBVIOUS
  <2>1. CASE FrameNext
    <3>1. /\ length \in Nat /\ frame.size = length + 4
          /\ command' = command /\ length' = length /\ frame' = frame
      BY <2>1 DEF FrameInvariant, FrameNext, Write, FrameOf, HeaderSize, CrcSize
    <3>2. outcome' = IF frame.size <= 124 THEN "written" ELSE "aborted"
      BY <2>1 DEF FrameNext, Write, MaxPackageSize
    <3> QED BY <3>1, <3>2 DEF FrameInvariant
  <2>2. CASE UNCHANGED frameVars
    BY <2>2 DEF frameVars, FrameInvariant
  <2> QED BY <2>1, <2>2
<1>3. FrameInvariant => FramesFit
  <2> SUFFICES ASSUME FrameInvariant PROVE FramesFit
    OBVIOUS
  <2>1. \A n \in 0 .. 120 : n % 256 = n
    OBVIOUS
  <2> QED BY <2>1 DEF FrameInvariant, FramesFit, FrameOf
<1> QED BY <1>1, <1>2, <1>3, PTL DEF FrameSpec

-----------------------------------------------------------------------------
(* Files of the card *)

\* What makes FlagIsTrue inductive: an open is under way for a file that has a
\* name, and comes to the device only after a file the flag knew was closed.
FlagInv ==
    /\ opened \in BOOLEAN /\ restarts \in Nat
    /\ doing \in {"closing", "opening"} => pending.name \in Names
    /\ doing = "opening" => ~opened
    /\ FlagIsTrue

LEMMA InitiallyTrue ==
    SdInit => FlagInv
<1> SUFFICES ASSUME SdInit PROVE FlagInv
  OBVIOUS
<1>1. opened = FALSE /\ file = None /\ doing = "ready"
  BY DEF SdInit
<1>2. restarts \in Nat
  BY DEF SdInit
<1> QED
  BY <1>1, <1>2, Zenon DEF FlagInv, FlagIsTrue

LEMMA FlagStep ==
    ASSUME FlagInv, [SdNext]_sdVars
    PROVE  FlagInv'
<1> USE DEF FlagInv, FlagIsTrue
<1>1. CASE Close
  BY <1>1 DEF Close
<1>2. CASE StartOpen
  BY <1>2 DEF StartOpen
<1>3. CASE StartUpload
  BY <1>3 DEF StartUpload
<1>4. CASE CloseBeforeOpen
  BY <1>4 DEF CloseBeforeOpen
<1>5. CASE Open
  <2>1. pending.name # None
    BY <1>5, MicroSdAssumption DEF Open
  <2> QED BY <1>5, <2>1 DEF Open, DeviceOpens, AfterOpen
<1>6. ASSUME NEW n \in Sizes, Seek(n) \/ ReadData(n) \/ WriteData(n)
      PROVE  FlagInv'
  <2>1. UNCHANGED <<opened, pending, file, restarts>> /\ doing' \in {doing, "aborted"}
    BY <1>6 DEF Seek, ReadData, WriteData
  <2> QED BY <2>1
<1>7. CASE Delete
  BY <1>7 DEF Delete
<1>8. CASE UploadChunk
  BY <1>8 DEF UploadChunk
<1>9. CASE UploadEnd
  BY <1>9 DEF UploadEnd
<1>10. CASE StartAgain
  <2>1. restarts' \in Nat /\ restarts' # 0
    BY <1>10 DEF StartAgain
  <2>2. opened' = FALSE /\ doing' = "ready"
    BY <1>10 DEF StartAgain
  <2> QED BY <2>1, <2>2, Zenon
<1>11. CASE UNCHANGED sdVars
  BY <1>11 DEF sdVars
<1> QED
  BY <1>1, <1>2, <1>3, <1>4, <1>5, <1>6, <1>7, <1>8, <1>9, <1>10, <1>11 DEF SdNext

\* The flag is_file_opened agrees with the device until the program is restarted,
\* whatever the order of file commands and early returns of upload_file
\* (cfa835.cpp:162, 1028, 1039).
THEOREM FlagIsTrueInvariant ==
    SdSpec => []FlagIsTrue
<1>1. FlagInv => FlagIsTrue
  BY DEF FlagInv
<1> QED
  BY InitiallyTrue, FlagStep, <1>1, PTL DEF SdSpec

\* No step of the driver opens a file over an open one (cfa835.cpp:1012-1014):
\* the file of the device goes by way of none.
LEMMA OpenStep ==
    ASSUME FlagInv, [SdNext]_sdVars
    PROVE  [restarts = 0 /\ file # None => file' \in {file, None}]_sdVars
<1> SUFFICES ASSUME restarts = 0, file # None, SdNext
             PROVE  file' \in {file, None}
  BY DEF sdVars
<1>1. CASE Open
  BY <1>1 DEF Open, FlagInv, FlagIsTrue
<1>2. ASSUME NEW n \in Sizes, Seek(n) \/ ReadData(n) \/ WriteData(n)
      PROVE  file' \in {file, None}
  BY <1>2 DEF Seek, ReadData, WriteData
<1> QED
  BY <1>1, <1>2 DEF SdNext, Close, StartOpen, StartUpload, CloseBeforeOpen, Delete,
                    UploadChunk, UploadEnd, StartAgain

\* The device is never told to open a file over an open one, in one life of the
\* program (cfa835.cpp:1012-1014, 1295-1298).
THEOREM NeverOpensOverHolds ==
    SdSpec => NeverOpensOver
BY InitiallyTrue, FlagStep, OpenStep, PTL DEF SdSpec, NeverOpensOver

-----------------------------------------------------------------------------
(* Commands of the shell *)

\* Every line is in the pipe or read, and the child has ended before a line is
\* read: all of its output was in the pipe at once.
ShellInvariant ==
    /\ lines \in Nat /\ written \in 0 .. lines /\ pipe \in 0 .. PipeSize /\ output \in Nat
    /\ written = pipe + output
    /\ child \in {"running", "exited"} /\ parent \in {"waiting", "reading", "returned"}
    /\ parent = "waiting" => output = 0
    /\ child = "running" => parent = "waiting"
    /\ child = "exited" => written = lines /\ lines <= PipeSize
    /\ parent = "returned" => pipe = 0

\* What run_command returns is all that the command wrote, and a command that
\* writes more than the pipe holds never lets it return: the half of
\* ReturnsWhatFits that is about safety.
THEOREM ReturnsOnlyAll ==
    ShellSpec => [](parent = "returned" => output = lines /\ lines <= PipeSize)
<1>1. ShellInit => ShellInvariant
  BY ShellAssumption DEF ShellInit, ShellInvariant
<1>2. ShellInvariant /\ [RunCommand]_shellVars => ShellInvariant'
  <2> SUFFICES ASSUME ShellInvariant, [RunCommand]_shellVars PROVE ShellInvariant'
    OBVIOUS
  <2> USE ShellAssumption DEF ShellInvariant
  <2>1. CASE ChildWrites
    BY <2>1 DEF ChildWrites
  <2>2. CASE ChildExits
    BY <2>2 DEF ChildExits
  <2>3. CASE Wait
    BY <2>3 DEF Wait
  <2>4. CASE GetLine
    BY <2>4 DEF GetLine
  <2>5. CASE UNCHANGED shellVars
    BY <2>5 DEF shellVars
  <2> QED BY <2>1, <2>2, <2>3, <2>4, <2>5 DEF RunCommand
<1>3. ShellInvariant => (parent = "returned" => output = lines /\ lines <= PipeSize)
  BY DEF ShellInvariant
<1> QED BY <1>1, <1>2, <1>3, PTL DEF ShellSpec

-----------------------------------------------------------------------------
(* Bytes and their exclusive-or *)

\* Bytes and, below, two bytes at once, by inequalities.
LEMMA InBytes == \A n : n \in Bytes <=> n \in Nat /\ n <= 255
BY DEF Bytes

Words == {n \in Nat : n <= 65535}

Widths == {2, 4, 16, 256}

\* A number of two halves, each less than w.
LEMMA Joined ==
    ASSUME NEW w \in Widths, NEW h \in 0 .. w - 1, NEW l \in 0 .. w - 1
    PROVE  /\ w * h + l \in 0 .. w * w - 1
           /\ (w * h + l) \div w = h
           /\ (w * h + l) % w = l
BY DEF Widths

LEMMA Halved ==
    ASSUME NEW w \in Widths, NEW a \in 0 .. w * w - 1
    PROVE  /\ a \div w \in 0 .. w - 1
           /\ a % w \in 0 .. w - 1
           /\ a = w * (a \div w) + (a % w)
BY DEF Widths

\* What is needed of an exclusive-or of numbers less than w.
IsXor(xor, w) ==
    /\ \A a, b \in 0 .. w - 1 : xor[a][b] \in 0 .. w - 1
    /\ \A a, b \in 0 .. w - 1 : xor[a][b] = xor[b][a]
    /\ \A a, b \in 0 .. w - 1 : xor[a][xor[a][b]] = b
    /\ \A a \in 0 .. w - 1 : xor[a][0] = a

\* That of two bits has it, and what is joined from two that have it, has it.
LEMMA BitIsXor == IsXor(XorBit, 2)
BY DEF IsXor, XorBit

LEMMA TwiceAsWideIsXor ==
    ASSUME NEW w \in Widths, NEW xor, IsXor(xor, w)
    PROVE  IsXor(TwiceAsWide(xor, w), w * w)
<1> DEFINE S == 0 .. w * w - 1
           X == TwiceAsWide(xor, w)
<1>1. ASSUME NEW a \in S, NEW b \in S
      PROVE  X[a][b] = w * xor[a \div w][b \div w] + xor[a % w][b % w]
  BY DEF TwiceAsWide
<1> HIDE DEF X
<1>2. ASSUME NEW a \in S, NEW b \in S
      PROVE  /\ X[a][b] \in S
             /\ X[a][b] \div w = xor[a \div w][b \div w]
             /\ X[a][b] % w = xor[a % w][b % w]
  <2>1. /\ a \div w \in 0 .. w - 1 /\ a % w \in 0 .. w - 1
        /\ b \div w \in 0 .. w - 1 /\ b % w \in 0 .. w - 1
    BY Halved
  <2>2. xor[a \div w][b \div w] \in 0 .. w - 1 /\ xor[a % w][b % w] \in 0 .. w - 1
    BY <2>1 DEF IsXor
  <2> QED BY <1>1, <2>2, Joined
<1>3. ASSUME NEW a \in S, NEW b \in S
      PROVE  X[a][b] = X[b][a] /\ X[a][X[a][b]] = b
  <2>1. /\ a \div w \in 0 .. w - 1 /\ a % w \in 0 .. w - 1
        /\ b \div w \in 0 .. w - 1 /\ b % w \in 0 .. w - 1
        /\ b = w * (b \div w) + (b % w)
    BY Halved
  <2>2. /\ xor[a \div w][b \div w] = xor[b \div w][a \div w]
        /\ xor[a % w][b % w] = xor[b % w][a % w]
        /\ xor[a \div w][xor[a \div w][b \div w]] = b \div w
        /\ xor[a % w][xor[a % w][b % w]] = b % w
    BY <2>1 DEF IsXor
  <2>3. X[a][b] = X[b][a]
    BY <1>1, <2>2
  <2>4. X[a][X[a][b]] = w * xor[a \div w][X[a][b] \div w] + xor[a % w][X[a][b] % w]
    BY <1>1, <1>2
  <2> QED BY <1>2, <2>1, <2>2, <2>3, <2>4
<1>4. ASSUME NEW a \in S
      PROVE  X[a][0] = a
  <2>1. 0 \in S /\ 0 \div w = 0 /\ 0 % w = 0
    BY DEF Widths
  <2>2. xor[a \div w][0] = a \div w /\ xor[a % w][0] = a % w
    BY Halved DEF IsXor
  <2> QED BY <1>1, <2>1, <2>2, Halved
<1> QED BY <1>2, <1>3, <1>4 DEF IsXor, X

\* So that of two bytes has it.
LEMMA ByteIsXor == IsXor(XorByte, 256)
<1>1. IsXor(TwiceAsWide(XorBit, 2), 4)
  <2>1. 2 \in Widths /\ 2 * 2 = 4
    BY DEF Widths
  <2> QED BY <2>1, BitIsXor, TwiceAsWideIsXor
<1>2. IsXor(TwiceAsWide(TwiceAsWide(XorBit, 2), 4), 16)
  <2>1. 4 \in Widths /\ 4 * 4 = 16
    BY DEF Widths
  <2> QED BY <1>1, <2>1, TwiceAsWideIsXor
<1>3. 16 \in Widths /\ 16 * 16 = 256
  BY DEF Widths
<1> QED BY <1>2, <1>3, TwiceAsWideIsXor DEF XorByte

LEMMA XorOfBytes ==
    /\ \A a, b \in Bytes : XorByte[a][b] \in Bytes
    /\ \A a, b \in Bytes : XorByte[a][XorByte[a][b]] = b
    /\ \A a, b \in Bytes : XorByte[a][b] = XorByte[b][a]
    /\ \A a \in Bytes : XorByte[a][0] = a /\ XorByte[0][a] = a
<1>1. 0 .. 256 - 1 = Bytes /\ 0 \in Bytes
  BY DEF Bytes
<1>2. \A a, b \in Bytes : XorByte[a][b] \in Bytes
  BY <1>1, ByteIsXor, ZenonT(60) DEF IsXor
<1>3. \A a, b \in Bytes : XorByte[a][XorByte[a][b]] = b
  BY <1>1, ByteIsXor, ZenonT(60) DEF IsXor
<1>4. \A a, b \in Bytes : XorByte[a][b] = XorByte[b][a]
  BY <1>1, ByteIsXor, ZenonT(60) DEF IsXor
<1>5. \A a \in Bytes : XorByte[a][0] = a
  BY <1>1, ByteIsXor, ZenonT(60) DEF IsXor
<1> QED BY <1>1, <1>2, <1>3, <1>4, <1>5

\* The exclusive-or of words is that of their bytes.
LEMMA HalvesOfWord ==
    ASSUME NEW a \in Words
    PROVE  /\ a \div 256 \in Bytes /\ a % 256 \in Bytes
           /\ a = 256 * (a \div 256) + (a % 256)
BY InBytes DEF Words

LEMMA JoinedWord ==
    ASSUME NEW h \in Bytes, NEW l \in Bytes
    PROVE  /\ 256 * h + l \in Words
           /\ (256 * h + l) \div 256 = h
           /\ (256 * h + l) % 256 = l
BY InBytes DEF Words

LEMMA ByteAsWord ==
    ASSUME NEW b \in Bytes
    PROVE  b \in Words /\ b \div 256 = 0 /\ b % 256 = b
BY InBytes DEF Words

LEMMA XorOfWords ==
    ASSUME NEW a \in Words, NEW b \in Words
    PROVE  /\ Xor(a, b) \in Words
           /\ Xor(a, b) \div 256 = XorByte[a \div 256][b \div 256]
           /\ Xor(a, b) % 256 = XorByte[a % 256][b % 256]
<1>1. XorByte[a \div 256][b \div 256] \in Bytes /\ XorByte[a % 256][b % 256] \in Bytes
  BY HalvesOfWord, XorOfBytes
<1> QED BY <1>1, JoinedWord DEF Xor

-----------------------------------------------------------------------------
(* One step of the sum *)

\* The entries of the table, by the byte that falls out.
Entry(i) == CRCTable[i + 1]

\* The assumption on the table.
LEMMA Entries ==
    /\ \A i \in Bytes : Entry(i) \in Words
    /\ \A i, j \in Bytes : Entry(i) \div 256 = Entry(j) \div 256 => i = j
<1>1. \A i \in Bytes : i + 1 \in 1 .. 256 /\ i \in Nat
  BY InBytes
<1>2. ASSUME NEW e \in Nat, e \div 256 \in Bytes
      PROVE  e \in Words
  <2>1. e \div 256 <= 255
    BY <1>2, InBytes
  <2> QED BY <2>1 DEF Words
<1>3. ASSUME NEW i \in Bytes
      PROVE  Entry(i) \in Words
  BY <1>1, <1>2, TableAssumption, ZenonT(60) DEF Entry
<1>4. ASSUME NEW i \in Bytes, NEW j \in Bytes, Entry(i) \div 256 = Entry(j) \div 256
      PROVE  i = j
  <2>1. i + 1 = j + 1
    BY <1>1, <1>4, TableAssumption, ZenonT(60) DEF Entry
  <2> QED BY <1>1, <2>1
<1> QED BY <1>3, <1>4

\* The high byte of a new sum is that of the entry, which also takes part in the
\* low one, and the new sum is the one of eight steps bit by bit.
LEMMA SumStep ==
    ASSUME NEW s \in Words, NEW b \in Bytes
    PROVE  LET i == XorByte[s % 256][b]
           IN  /\ i \in Bytes
               /\ NextSum(s, b) \in Words
               /\ NextSum(s, b) \div 256 = Entry(i) \div 256
               /\ NextSum(s, b) % 256 = XorByte[s \div 256][Entry(i) % 256]
               /\ NextSum(s, b) = ByteStep(Xor(s, b))
<1> DEFINE i == XorByte[s % 256][b]
           h == s \div 256
<1>1. h \in Bytes /\ i \in Bytes
  BY HalvesOfWord, XorOfBytes
<1>2. b \in Words /\ b \div 256 = 0 /\ b % 256 = b
  BY ByteAsWord
<1>3. Xor(s, b) \in Words /\ Xor(s, b) \div 256 = h /\ Xor(s, b) % 256 = i
  BY <1>1, <1>2, XorOfWords, XorOfBytes
<1>4. NextSum(s, b) = Xor(h, Entry(i))
  BY <1>3 DEF NextSum, Entry
<1>5. Xor(s, b) = 256 * h + i
  BY <1>3, HalvesOfWord
<1> HIDE DEF h, i
<1>6. NextSum(s, b) = ByteStep(Xor(s, b))
  <2>1. ByteStep(256 * h + i) = Xor(h, Entry(i))
    BY <1>1, TableAssumption, ZenonT(60) DEF Entry
  <2> QED BY <1>4, <1>5, <2>1
<1>7. h \in Words /\ h \div 256 = 0 /\ h % 256 = h
  BY <1>1, ByteAsWord
<1>8. Entry(i) \in Words /\ Entry(i) \div 256 \in Bytes
  BY <1>1, Entries, HalvesOfWord
<1>9. /\ Xor(h, Entry(i)) \in Words
      /\ Xor(h, Entry(i)) \div 256 = XorByte[0][Entry(i) \div 256]
      /\ Xor(h, Entry(i)) % 256 = XorByte[h][Entry(i) % 256]
  BY <1>7, <1>8, XorOfWords
<1>10. XorByte[0][Entry(i) \div 256] = Entry(i) \div 256
  BY <1>8, XorOfBytes
<1> QED BY <1>1, <1>4, <1>6, <1>9, <1>10 DEF h, i

\* The high byte of the sum tells which entry was taken.
LEMMA HighByteTells ==
    ASSUME NEW s \in Words, NEW t \in Words, NEW b \in Bytes, NEW c \in Bytes,
           NextSum(s, b) \div 256 = NextSum(t, c) \div 256
    PROVE  XorByte[s % 256][b] = XorByte[t % 256][c]
<1> DEFINE i == XorByte[s % 256][b]
           j == XorByte[t % 256][c]
<1>1. i \in Bytes /\ j \in Bytes /\ Entry(i) \div 256 = Entry(j) \div 256
  BY SumStep
<1> HIDE DEF i, j
<1>2. i = j
  BY <1>1, Entries
<1> QED BY <1>2 DEF i, j

\* Exclusive-or can be undone.
LEMMA XorUndone ==
    ASSUME NEW a \in Bytes, NEW b \in Bytes, NEW c \in Bytes
    PROVE  /\ XorByte[a][b] = XorByte[a][c] => b = c
           /\ XorByte[b][a] = XorByte[c][a] => b = c
BY XorOfBytes

\* After the same sum it tells the byte.
LEMMA ByteTells ==
    ASSUME NEW s \in Words, NEW b \in Bytes, NEW c \in Bytes,
           NextSum(s, b) \div 256 = NextSum(s, c) \div 256
    PROVE  b = c
BY HighByteTells, XorUndone, HalvesOfWord

\* With the same byte the new sum tells the old one.
LEMMA SumTells ==
    ASSUME NEW s \in Words, NEW t \in Words, NEW b \in Bytes,
           NextSum(s, b) = NextSum(t, b)
    PROVE  s = t
<1>1. XorByte[s % 256][b] = XorByte[t % 256][b]
  BY HighByteTells
<1>2. s % 256 = t % 256
  BY <1>1, XorUndone, HalvesOfWord
<1> DEFINE e == Entry(XorByte[s % 256][b]) % 256
<1>3. e \in Bytes
  BY SumStep, Entries, HalvesOfWord
<1>4. XorByte[s \div 256][e] = XorByte[t \div 256][e]
  BY <1>1, SumStep
<1> HIDE DEF e
<1>5. s \div 256 = t \div 256
  BY <1>3, <1>4, XorUndone, HalvesOfWord
<1> QED BY <1>2, <1>5, HalvesOfWord

\* Two bytes after the same sum come to the same sum only if they are the same.
LEMMA TwoBytesTell ==
    ASSUME NEW s \in Words, NEW a \in Bytes, NEW b \in Bytes, NEW c \in Bytes, NEW d \in Bytes,
           NextSum(NextSum(s, a), b) = NextSum(NextSum(s, c), d)
    PROVE  a = c /\ b = d
<1> DEFINE u == NextSum(s, a)
           v == NextSum(s, c)
           i == XorByte[u % 256][b]
           j == XorByte[v % 256][d]
<1>1. u \in Words /\ v \in Words
  BY SumStep
<1>2. i = j
  BY <1>1, HighByteTells
<1>3. /\ i \in Bytes
      /\ XorByte[u \div 256][Entry(i) % 256] = XorByte[v \div 256][Entry(i) % 256]
  BY <1>1, <1>2, SumStep
<1>4. u \div 256 = v \div 256
  <2> HIDE DEF u, v, i, j
  <2> QED BY <1>1, <1>3, Entries, HalvesOfWord, XorUndone
<1>5. a = c
  BY <1>4, ByteTells
<1>6. b = d
  <2> HIDE DEF u, v
  <2>1. u = v
    BY <1>5 DEF u, v
  <2> QED BY <1>1, <1>2, <2>1, HalvesOfWord, XorUndone
<1> QED BY <1>5, <1>6

-----------------------------------------------------------------------------
(* The sums of all bytes *)

\* A set of numbers that is not empty has a least one.
LEMMA LeastNumber ==
    ASSUME NEW S \in SUBSET Nat, S # {}
    PROVE  \E k \in S : \A m \in S : k <= m
<1> DEFINE less == OpToRel(<, Nat)
<1>1. IsWellFoundedOn(less, Nat)
  BY NatLessThanWellFounded
<1>2. PICK k \in S : \A m \in S : <<m, k>> \notin less
  <2> HIDE DEF less
  <2> QED BY <1>1, WFMin
<1>3. \A m \in Nat : m < k => <<m, k>> \in less
  BY DEF OpToRel
<1> HIDE DEF less
<1>4. \A m \in S : ~ (m < k)
  BY <1>2, <1>3
<1> QED BY <1>4

\* A set that has `from`, and with a number of the interval the next, has all of it.
Climbs(S, from, to) == \A n \in from + 1 .. to : n - 1 \in S => n \in S

LEMMA AllClimbed ==
    ASSUME NEW from \in Nat, NEW to \in Nat, NEW S, from \in S, Climbs(S, from, to)
    PROVE  from .. to \subseteq S
<1> DEFINE Missing == {n \in from .. to : n \notin S}
<1> SUFFICES ASSUME Missing # {} PROVE FALSE
  OBVIOUS
<1>1. Missing \in SUBSET Nat
  OBVIOUS
<1>2. PICK n \in Missing : \A m \in Missing : n <= m
  <2> HIDE DEF Missing
  <2> QED BY <1>1, LeastNumber
<1>3. n \in from + 1 .. to /\ n - 1 \in from .. to /\ n \notin S /\ ~ (n <= n - 1)
  BY <1>2
<1>4. n - 1 \in S
  BY <1>2, <1>3
<1> QED BY <1>3, <1>4 DEF Climbs

\* What goes step by step from 65535 exists: the step is a function of the place
\* and of the sum so far.
Runs(f, step, n) ==
    /\ f \in [0 .. n -> Words]
    /\ f[0] = 65535
    /\ \A k \in 1 .. n : f[k] = step[k][f[k - 1]]

LEMMA RunExists ==
    ASSUME NEW n \in Nat, NEW step \in [1 .. n -> [Words -> Words]]
    PROVE  \E f : Runs(f, step, n)
<1> DEFINE S == {m \in 0 .. n : \E f : Runs(f, step, m)}
<1>1. 0 \in S
  <2> DEFINE f == [k \in 0 .. 0 |-> 65535]
  <2>1. f \in [0 .. 0 -> Words] /\ f[0] = 65535
    BY DEF Words
  <2> HIDE DEF f
  <2>2. Runs(f, step, 0)
    BY <2>1 DEF Runs
  <2> QED BY <2>2
<1>2. ASSUME NEW m \in 1 .. n, m - 1 \in S
      PROVE  m \in S
  <2>1. PICK f : Runs(f, step, m - 1)
    BY <1>2
  <2> DEFINE g == [k \in 0 .. m |-> IF k = m THEN step[m][f[m - 1]] ELSE f[k]]
  <2>2. f \in [0 .. m - 1 -> Words] /\ f[0] = 65535
        /\ \A k \in 1 .. m - 1 : f[k] = step[k][f[k - 1]]
    BY <2>1 DEF Runs
  <2>3. step[m][f[m - 1]] \in Words
    BY <2>2
  <2>4. /\ g \in [0 .. m -> Words] /\ g[0] = 65535 /\ g[m] = step[m][f[m - 1]]
        /\ \A k \in 0 .. m - 1 : g[k] = f[k]
    BY <2>2, <2>3
  <2> HIDE DEF g
  <2>5. \A k \in 1 .. m : g[k] = step[k][g[k - 1]]
    BY <2>2, <2>4
  <2>6. Runs(g, step, m)
    BY <2>4, <2>5 DEF Runs
  <2> QED BY <2>6
<1> HIDE DEF S
<1>3. Climbs(S, 0, n)
  <2>1. 0 + 1 .. n = 1 .. n
    OBVIOUS
  <2> QED BY <1>2, <2>1 DEF Climbs
<1>4. 0 .. n \subseteq S
  BY <1>1, <1>3, AllClimbed
<1> QED BY <1>4 DEF S

\* The steps of the sums, place by place.
SumStepOf(bytes) == [k \in 1 .. Len(bytes) |-> [s \in Words |-> NextSum(s, bytes[k])]]

LEMMA SumStepType ==
    ASSUME NEW bytes \in Seq(Bytes)
    PROVE  /\ Len(bytes) \in Nat
           /\ \A k \in 1 .. Len(bytes) : bytes[k] \in Bytes
           /\ SumStepOf(bytes) \in [1 .. Len(bytes) -> [Words -> Words]]
<1>1. Len(bytes) \in Nat /\ \A k \in 1 .. Len(bytes) : bytes[k] \in Bytes
  OBVIOUS
<1>2. \A k \in 1 .. Len(bytes), s \in Words : NextSum(s, bytes[k]) \in Words
  BY <1>1, SumStep
<1> QED BY <1>1, <1>2 DEF SumStepOf

\* The same numbers at every place of 0 .. n.
StayAlike(f, g, n) == \A k \in 1 .. n : f[k - 1] = g[k - 1] => f[k] = g[k]

LEMMA SameRun ==
    ASSUME NEW n \in Nat, NEW f, NEW g, f[0] = g[0], StayAlike(f, g, n)
    PROVE  \A k \in 0 .. n : f[k] = g[k]
<1> DEFINE S == {k \in 0 .. n : f[k] = g[k]}
<1>1. 0 \in S
  OBVIOUS
<1>2. Climbs(S, 0, n)
  BY DEF Climbs, StayAlike
<1> HIDE DEF S
<1>3. 0 .. n \subseteq S
  BY <1>1, <1>2, AllClimbed
<1> QED BY <1>3 DEF S

\* The recursive definition is well-founded, and sums are words.
LEMMA SumsRun ==
    ASSUME NEW bytes \in Seq(Bytes)
    PROVE  Runs(Sums(bytes), SumStepOf(bytes), Len(bytes))
<1> DEFINE L == Len(bytes)
           Def(f) == [n \in 0 .. L |-> IF n = 0 THEN 65535 ELSE NextSum(f[n - 1], bytes[n])]
<1>1. PICK f : Runs(f, SumStepOf(bytes), L)
  BY SumStepType, RunExists
<1>2. f = Def(f)
  BY <1>1, SumStepType DEF Runs, SumStepOf
<1>3. Sums(bytes) = Def(Sums(bytes))
  BY <1>2, SMTT(60) DEF Sums
<1> DEFINE s == Sums(bytes)
<1>4. s[0] = 65535 /\ \A n \in 1 .. L : s[n] = NextSum(s[n - 1], bytes[n])
  <2> HIDE DEF s
  <2> QED BY <1>3, SumStepType DEF s
<1>5. f[0] = 65535 /\ \A n \in 1 .. L : f[n] = NextSum(f[n - 1], bytes[n])
  BY <1>2, SumStepType
<1>6. \A n \in 0 .. L : s[n] = f[n]
  <2> HIDE DEF s
  <2>1. StayAlike(s, f, L)
    BY <1>4, <1>5 DEF StayAlike
  <2> QED BY <1>4, <1>5, <2>1, SameRun, SumStepType
<1>7. s = f
  BY <1>2, <1>3, <1>6
<1> QED BY <1>1, <1>7

\* What the proofs use of the sums.
LEMMA SumsStep ==
    ASSUME NEW bytes \in Seq(Bytes)
    PROVE  /\ Sums(bytes)[0] = 65535
           /\ \A k \in 0 .. Len(bytes) : Sums(bytes)[k] \in Words
           /\ \A k \in 1 .. Len(bytes) : Sums(bytes)[k] = NextSum(Sums(bytes)[k - 1], bytes[k])
<1> DEFINE s == Sums(bytes)
           L == Len(bytes)
<1>1. Runs(s, SumStepOf(bytes), L)
  BY SumsRun
<1> HIDE DEF s
<1>2. \A k \in 0 .. L : s[k] \in Words
  BY <1>1 DEF Runs
<1>3. ASSUME NEW k \in 1 .. L
      PROVE  s[k] = NextSum(s[k - 1], bytes[k])
  <2>1. k - 1 \in 0 .. L
    BY SumStepType
  <2> QED BY <1>1, <1>2, <2>1 DEF Runs, SumStepOf
<1>4. s[0] = 65535
  BY <1>1 DEF Runs
<1> QED BY <1>2, <1>3, <1>4 DEF s

\* The table makes up for the steps bit by bit: both sums agree after every byte.
LEMMA ReferenceAgrees ==
    ASSUME NEW bytes \in Seq(Bytes)
    PROVE  GetCrc(bytes) = ReferenceCrc(bytes)
<1> DEFINE L == Len(bytes)
           s == Sums(bytes)
           r == ReferenceSums(bytes)
           Def(f) == [n \in 0 .. L |-> IF n = 0 THEN 65535 ELSE ByteStep(Xor(f[n - 1], bytes[n]))]
<1>1. /\ s[0] = 65535
      /\ \A k \in 0 .. L : s[k] \in Words
      /\ \A k \in 1 .. L : s[k] = NextSum(s[k - 1], bytes[k])
  BY SumsStep
<1>2. L \in Nat /\ \A k \in 1 .. L : bytes[k] \in Bytes
  BY SumStepType
<1>3. \A k \in 1 .. L : s[k] = ByteStep(Xor(s[k - 1], bytes[k]))
  <2> HIDE DEF s
  <2>1. \A k \in 1 .. L : k - 1 \in 0 .. L
    BY <1>2
  <2> QED BY <1>1, <1>2, <2>1, SumStep
<1>4. \E f : f = Def(f)
  <2> DEFINE f == [k \in 0 .. L |-> s[k]]
  <2>1. /\ f[0] = 65535
        /\ \A k \in 1 .. L : f[k] = ByteStep(Xor(f[k - 1], bytes[k]))
    <3> HIDE DEF s
    <3> QED BY <1>1, <1>2, <1>3
  <2>2. f = [k \in 0 .. L |-> f[k]]
    OBVIOUS
  <2> HIDE DEF f
  <2>3. f = Def(f)
    BY <1>2, <2>1, <2>2
  <2> QED BY <2>3
<1>5. r = Def(r)
  <2>1. PICK f : f = Def(f)
    BY <1>4
  <2> HIDE DEF s
  <2> QED BY <2>1, SMTT(60) DEF ReferenceSums
<1>6. r[0] = 65535 /\ \A k \in 1 .. L : r[k] = ByteStep(Xor(r[k - 1], bytes[k]))
  <2> HIDE DEF r
  <2> QED BY <1>2, <1>5
<1> HIDE DEF r, s
<1>7. StayAlike(s, r, L)
  BY <1>3, <1>6 DEF StayAlike
<1>8. s[L] = r[L]
  BY <1>1, <1>2, <1>6, <1>7, SameRun
<1> QED BY <1>8 DEF GetCrc, ReferenceCrc, r, s

-----------------------------------------------------------------------------
(* Damage of neighbouring bytes *)

\* The same bytes everywhere but at i and the next place.
SameBut(a, b, i) == \A k \in 1 .. Len(a) : k \notin {i, i + 1} => a[k] = b[k]

\* The sums are the same before the damage.
LEMMA SameBefore ==
    ASSUME NEW a \in Seq(Bytes), NEW b \in Seq(Bytes), Len(a) = Len(b),
           NEW i \in 1 .. Len(a), SameBut(a, b, i)
    PROVE  Sums(a)[i - 1] = Sums(b)[i - 1]
<1> DEFINE s == Sums(a)
           t == Sums(b)
<1>1. /\ s[0] = t[0]
      /\ \A k \in 1 .. Len(a) : s[k] = NextSum(s[k - 1], a[k]) /\ t[k] = NextSum(t[k - 1], b[k])
  BY SumsStep
<1> HIDE DEF s, t
<1>2. i - 1 \in Nat /\ i - 1 \in 0 .. i - 1 /\ Len(a) \in Nat
  BY SumStepType
<1>3. \A k \in 1 .. i - 1 : k \in 1 .. Len(a) /\ a[k] = b[k]
  BY <1>2 DEF SameBut
<1>4. StayAlike(s, t, i - 1)
  BY <1>1, <1>3 DEF StayAlike
<1>5. s[i - 1] = t[i - 1]
  BY <1>1, <1>2, <1>4, SameRun
<1> QED BY <1>5 DEF s, t

\* If the sums are the same in the end, they are the same after the damage.
LEMMA SameAfter ==
    ASSUME NEW a \in Seq(Bytes), NEW b \in Seq(Bytes), Len(a) = Len(b),
           NEW i \in 1 .. Len(a) - 1, SameBut(a, b, i),
           Sums(a)[Len(a)] = Sums(b)[Len(a)]
    PROVE  Sums(a)[i + 1] = Sums(b)[i + 1]
<1> DEFINE s == Sums(a)
           t == Sums(b)
           L == Len(a)
           S == {k \in 0 .. L - (i + 1) : s[L - k] = t[L - k]}
<1>1. /\ \A k \in 0 .. L : s[k] \in Words /\ t[k] \in Words
      /\ \A k \in 1 .. L : s[k] = NextSum(s[k - 1], a[k]) /\ t[k] = NextSum(t[k - 1], b[k])
  BY SumsStep
<1>2. L \in Nat /\ L - (i + 1) \in Nat /\ \A k \in 1 .. L : a[k] \in Bytes
  BY SumStepType
<1> HIDE DEF s, t, L
<1>3. 0 \in S
  BY <1>2 DEF s, t, L
<1>4. ASSUME NEW k \in 0 + 1 .. L - (i + 1), k - 1 \in S
      PROVE  k \in S
  <2> DEFINE j == L - (k - 1)
  <2>1. /\ j \in 1 .. L /\ j \notin {i, i + 1} /\ j - 1 \in 0 .. L /\ L - k = j - 1
        /\ k \in 0 .. L - (i + 1)
    BY <1>2
  <2>2. s[j] = t[j]
    BY <1>4
  <2> HIDE DEF j
  <2>3. a[j] = b[j] /\ a[j] \in Bytes
    BY <1>2, <2>1 DEF SameBut, L
  <2>4. NextSum(s[j - 1], a[j]) = NextSum(t[j - 1], a[j])
    BY <1>1, <2>1, <2>2, <2>3
  <2>5. s[j - 1] = t[j - 1]
    BY <1>1, <2>1, <2>3, <2>4, SumTells
  <2> QED BY <2>1, <2>5
<1>5. L - (i + 1) \in S
  <2> HIDE DEF S
  <2>1. Climbs(S, 0, L - (i + 1))
    BY <1>4 DEF Climbs
  <2>2. 0 .. L - (i + 1) \subseteq S
    BY <1>2, <1>3, <2>1, AllClimbed
  <2> QED BY <1>2, <2>2
<1>6. L - (L - (i + 1)) = i + 1
  BY <1>2
<1> QED BY <1>5, <1>6 DEF s, t, L

\* Damage of two neighbouring bytes changes the sum.
LEMMA NeighboursTell ==
    ASSUME NEW a \in Seq(Bytes), NEW b \in Seq(Bytes), Len(a) = Len(b),
           NEW i \in 1 .. Len(a) - 1, SameBut(a, b, i),
           Sums(a)[Len(a)] = Sums(b)[Len(a)]
    PROVE  \A k \in 1 .. Len(a) : a[k] = b[k]
<1>1. Len(a) \in Nat /\ i \in 1 .. Len(a) /\ i + 1 \in 1 .. Len(a)
      /\ i - 1 \in 0 .. Len(a) /\ (i + 1) - 1 = i
  BY SumStepType
<1>2. Sums(a)[i - 1] = Sums(b)[i - 1] /\ Sums(a)[i + 1] = Sums(b)[i + 1]
  BY <1>1, SameBefore, SameAfter
<1>3. /\ a[i] \in Bytes /\ a[i + 1] \in Bytes /\ b[i] \in Bytes /\ b[i + 1] \in Bytes
      /\ Sums(a)[i - 1] \in Words
  BY <1>1, SumStepType, SumsStep
<1>4. /\ Sums(a)[i + 1] = NextSum(NextSum(Sums(a)[i - 1], a[i]), a[i + 1])
      /\ Sums(b)[i + 1] = NextSum(NextSum(Sums(b)[i - 1], b[i]), b[i + 1])
  BY <1>1, SumsStep
<1>5. a[i] = b[i] /\ a[i + 1] = b[i + 1]
  <2> DEFINE x == Sums(a)[i - 1]
  <2>1. /\ x \in Words
        /\ NextSum(NextSum(x, a[i]), a[i + 1]) = NextSum(NextSum(x, b[i]), b[i + 1])
    BY <1>2, <1>3, <1>4
  <2> HIDE DEF x
  <2> QED BY <1>3, <2>1, TwoBytesTell
<1> QED BY <1>5 DEF SameBut

\* Of the last byte even the high byte of the sum tells.
LEMMA LastByteTells ==
    ASSUME NEW a \in Seq(Bytes), NEW b \in Seq(Bytes), Len(a) = Len(b), Len(a) >= 1,
           SameBut(a, b, Len(a)),
           Sums(a)[Len(a)] \div 256 = Sums(b)[Len(a)] \div 256
    PROVE  \A k \in 1 .. Len(a) : a[k] = b[k]
<1> DEFINE L == Len(a)
<1>1. L \in Nat /\ L \in 1 .. L /\ L - 1 \in 0 .. L /\ L + 1 \notin 1 .. L
  BY SumStepType
<1>2. Sums(a)[L - 1] = Sums(b)[L - 1]
  BY <1>1, SameBefore
<1>3. /\ a[L] \in Bytes /\ b[L] \in Bytes /\ Sums(a)[L - 1] \in Words
      /\ Sums(a)[L] = NextSum(Sums(a)[L - 1], a[L])
      /\ Sums(b)[L] = NextSum(Sums(b)[L - 1], b[L])
  BY <1>1, SumStepType, SumsStep
<1>4. a[L] = b[L]
  BY <1>2, <1>3, ByteTells
<1> QED BY <1>4 DEF SameBut

-----------------------------------------------------------------------------
(* A package *)

\* The two bytes of the CRC.
LEMMA CrcBytes ==
    ASSUME NEW m \in Seq(Bytes)
    PROVE  /\ GetCrc(m) = 65535 - Sums(m)[Len(m)]
           /\ Sums(m)[Len(m)] \in Words
           /\ GetCrc(m) % 256 \in Bytes /\ GetCrc(m) \div 256 \in Bytes
           /\ GetCrc(m) = 256 * (GetCrc(m) \div 256) + (GetCrc(m) % 256)
<1>1. Sums(m)[Len(m)] \in Words
  BY SumsStep, SumStepType
<1>2. GetCrc(m) = 65535 - Sums(m)[Len(m)]
  BY DEF GetCrc
<1>3. GetCrc(m) \in Words
  BY <1>1, <1>2 DEF Words
<1> QED BY <1>1, <1>2, <1>3, HalvesOfWord

\* The bytes of a package.
LEMMA PackedBytes ==
    ASSUME NEW m \in Seq(Bytes)
    PROVE  LET p == Packed(m)
           IN  /\ p \in Seq(Bytes) /\ Len(p) = Len(m) + 2
               /\ \A k \in 1 .. Len(m) : p[k] = m[k]
               /\ p[Len(m) + 1] = GetCrc(m) % 256
               /\ p[Len(m) + 2] = GetCrc(m) \div 256
<1> DEFINE lo == GetCrc(m) % 256
           hi == GetCrc(m) \div 256
<1>1. lo \in Bytes /\ hi \in Bytes
  BY CrcBytes
<1>2. Packed(m) = m \o <<lo, hi>>
  BY DEF Packed
<1> HIDE DEF lo, hi
<1>3. <<lo, hi>> \in Seq(Bytes) /\ Len(<<lo, hi>>) = 2
  BY <1>1
<1> QED BY <1>1, <1>2, <1>3 DEF lo, hi

\* What the line may make of a package p: bytes that differ from it in two
\* neighbouring places at most, none of which is the command or the length.
Damaged(p, a) ==
    /\ a \in Seq(Bytes) /\ Len(a) = Len(p)
    /\ \E i \in 3 .. Len(p) - 1 : SameBut(p, a, i)

\* The line of the model makes no more of it.
LEMMA FlippedIsDamaged ==
    ASSUME NEW p \in Seq(Bytes), NEW i \in 3 .. Len(p) - 1, NEW d \in Bytes \X Bytes
    PROVE  Damaged(p, Flipped(p, i, d))
<1> DEFINE a == Flipped(p, i, d)
<1>1. d[1] \in Bytes /\ d[2] \in Bytes
  OBVIOUS
<1>2. Len(p) \in Nat /\ i \in 1 .. Len(p) /\ i + 1 \in 1 .. Len(p)
      /\ p[i] \in Bytes /\ p[i + 1] \in Bytes
  OBVIOUS
<1>3. XorByte[p[i]][d[1]] \in Bytes /\ XorByte[p[i + 1]][d[2]] \in Bytes
  BY <1>1, <1>2, XorOfBytes
<1>4. a = [p EXCEPT ![i] = XorByte[p[i]][d[1]], ![i + 1] = XorByte[p[i + 1]][d[2]]]
  BY <1>2 DEF Flipped
<1>5. a \in Seq(Bytes) /\ Len(a) = Len(p)
  BY <1>2, <1>3, <1>4
<1>6. SameBut(p, a, i)
  BY <1>2, <1>4 DEF SameBut
<1> QED BY <1>5, <1>6 DEF Damaged

\* The inverted bits of words.
LEMMA Inverted ==
    ASSUME NEW x \in Words, NEW y \in Words
    PROVE  /\ 65535 - x = 65535 - y => x = y
           /\ (65535 - x) \div 256 = (65535 - y) \div 256 => x \div 256 = y \div 256
<1>1. x \in Nat /\ y \in Nat /\ x <= 65535 /\ y <= 65535
  BY DEF Words
<1>2. /\ (65535 - x) \div 256 = 255 - (x \div 256)
      /\ (65535 - y) \div 256 = 255 - (y \div 256)
      /\ x \div 256 \in Nat /\ y \div 256 \in Nat
  BY <1>1
<1> QED BY <1>1, <1>2

\* The CRC that arrives, from its two bytes.
LEMMA JoinedBytes ==
    ASSUME NEW h \in Bytes, NEW l \in Bytes
    PROVE  /\ (h * 256 + l) \div 256 = h
           /\ (h * 256 + l) % 256 = l
           /\ h * 256 + l = 256 * h + l
<1>1. h * 256 + l = 256 * h + l
  BY InBytes
<1> QED BY <1>1, JoinedWord

\* The test of process_package on the bytes a, for a package sent with the
\* message m: it passes if and only if nothing was damaged.
LEMMA TestTells ==
    ASSUME NEW m \in Seq(Bytes), Len(m) >= 2, Len(m) = 2 + m[2],
           NEW a, Damaged(Packed(m), a)
    PROVE  LET n == 2 + a[2]
           IN  a[n + 2] * 256 + a[n + 1] = GetCrc(SubSeq(a, 1, n)) <=> a = Packed(m)
<1> DEFINE L == Len(m)
           p == Packed(m)
           r == SubSeq(a, 1, L)
           crc == a[L + 2] * 256 + a[L + 1]
<1>1. /\ p \in Seq(Bytes) /\ Len(p) = L + 2
      /\ \A k \in 1 .. L : p[k] = m[k]
      /\ p[L + 1] = GetCrc(m) % 256 /\ p[L + 2] = GetCrc(m) \div 256
  BY PackedBytes
<1>2. L \in Nat /\ L >= 2 /\ \A k \in 1 .. L : m[k] \in Bytes
  BY SumStepType
<1> HIDE DEF L, p
<1>3. /\ a \in Seq(Bytes) /\ Len(a) = L + 2
      /\ \A k \in 1 .. L + 2 : a[k] \in Bytes
  <2>1. a \in Seq(Bytes) /\ Len(a) = L + 2
    BY <1>1 DEF Damaged, p
  <2> QED BY <2>1
<1>4. PICK i \in 3 .. L + 1 : SameBut(p, a, i)
  <2>1. \E i \in 3 .. Len(p) - 1 : SameBut(p, a, i)
    BY DEF Damaged, p
  <2>2. Len(p) - 1 = L + 1
    BY <1>1, <1>2
  <2> QED BY <2>1, <2>2
<1>5. \A k \in 1 .. L + 2 : k \notin {i, i + 1} => p[k] = a[k]
  BY <1>1, <1>4 DEF SameBut
<1>6. 2 + a[2] = L
  <2>1. a[2] = p[2] /\ p[2] = m[2]
    BY <1>1, <1>2, <1>5
  <2> QED BY <2>1 DEF L
<1>7. r \in Seq(Bytes) /\ Len(r) = L /\ \A k \in 1 .. L : r[k] = a[k]
  BY <1>2, <1>3
<1> HIDE DEF r
<1>8. a[L + 1] \in Bytes /\ a[L + 2] \in Bytes
  BY <1>2, <1>3
<1>9. crc \div 256 = a[L + 2] /\ crc % 256 = a[L + 1]
  BY <1>8, JoinedBytes
<1>10. (\A k \in 1 .. L : m[k] = r[k]) => r = m
  BY <1>2, <1>7 DEF L
<1>11. ASSUME r = m
       PROVE  crc = GetCrc(r) <=> a = p
  <2>1. ASSUME crc = GetCrc(r)
        PROVE  a = p
    <3>1. a[L + 1] = p[L + 1] /\ a[L + 2] = p[L + 2]
      BY <1>1, <1>9, <1>11, <2>1
    <3>2. \A k \in 1 .. L : a[k] = p[k]
      BY <1>1, <1>7, <1>11
    <3>3. \A k \in 1 .. L + 2 : a[k] = p[k]
      BY <1>2, <3>1, <3>2
    <3> QED BY <1>1, <1>2, <1>3, <3>3
  <2>2. ASSUME a = p
        PROVE  crc = GetCrc(r)
    <3>1. /\ a[L + 1] = GetCrc(m) % 256
          /\ a[L + 2] = GetCrc(m) \div 256
      BY <1>1, <2>2
    <3>2. crc = 256 * (GetCrc(m) \div 256) + (GetCrc(m) % 256)
      BY <1>8, <3>1, JoinedBytes
    <3> QED BY <1>11, <3>2, CrcBytes
  <2> QED BY <2>1, <2>2
<1>12. ASSUME a = p
       PROVE  r = m
  BY <1>1, <1>7, <1>10, <1>12
<1>13. ASSUME crc = GetCrc(r)
       PROVE  r = m
  <2>1. GetCrc(m) = 65535 - Sums(m)[L] /\ Sums(m)[L] \in Words
        /\ GetCrc(r) = 65535 - Sums(r)[L] /\ Sums(r)[L] \in Words
        /\ GetCrc(m) = 256 * (GetCrc(m) \div 256) + (GetCrc(m) % 256)
        /\ GetCrc(r) = 256 * (GetCrc(r) \div 256) + (GetCrc(r) % 256)
    BY <1>7, CrcBytes DEF L
  <2>2. CASE i = L + 1
    <3>1. \A k \in 1 .. L : m[k] = r[k]
      BY <1>1, <1>2, <1>5, <1>7, <2>2
    <3> QED BY <1>10, <3>1
  <2>3. CASE i = L
    <3>1. SameBut(m, r, L)
      BY <1>1, <1>2, <1>5, <1>7, <2>3 DEF SameBut, L
    <3>2. GetCrc(r) \div 256 = GetCrc(m) \div 256
      BY <1>1, <1>2, <1>5, <1>9, <1>13, <2>3
    <3>3. Sums(m)[L] \div 256 = Sums(r)[L] \div 256
      <4> DEFINE x == Sums(m)[L]
                 y == Sums(r)[L]
      <4>1. x \in Words /\ y \in Words /\ (65535 - x) \div 256 = (65535 - y) \div 256
        BY <2>1, <3>2
      <4> HIDE DEF x, y
      <4>2. x \div 256 = y \div 256
        BY <4>1, Inverted
      <4> QED BY <4>2 DEF x, y
    <3>4. \A k \in 1 .. L : m[k] = r[k]
      BY <1>2, <1>7, <3>1, <3>3, LastByteTells DEF L
    <3> QED BY <1>10, <3>4
  <2>4. CASE i \in 1 .. L - 1
    <3>1. SameBut(m, r, i)
      BY <1>1, <1>2, <1>5, <1>7 DEF SameBut, L
    <3>2. L + 1 \notin {i, i + 1} /\ L + 2 \notin {i, i + 1}
          /\ L + 1 \in 1 .. L + 2 /\ L + 2 \in 1 .. L + 2
      BY <1>2, <2>4
    <3>3. GetCrc(r) \div 256 = GetCrc(m) \div 256 /\ GetCrc(r) % 256 = GetCrc(m) % 256
      BY <1>1, <1>5, <1>9, <1>13, <3>2
    <3>4. Sums(m)[L] = Sums(r)[L]
      <4> DEFINE x == Sums(m)[L]
                 y == Sums(r)[L]
      <4>1. GetCrc(r) = GetCrc(m)
        BY <2>1, <3>3
      <4>2. x \in Words /\ y \in Words /\ 65535 - x = 65535 - y
        BY <2>1, <4>1
      <4> HIDE DEF x, y
      <4>3. x = y
        BY <4>2, Inverted
      <4> QED BY <4>3 DEF x, y
    <3>5. \A k \in 1 .. L : m[k] = r[k]
      BY <1>7, <2>4, <3>1, <3>4, NeighboursTell DEF L
    <3> QED BY <1>10, <3>5
  <2> QED BY <1>2, <2>2, <2>3, <2>4
<1>14. crc = GetCrc(r) <=> a = p
  BY <1>11, <1>12, <1>13
<1> QED BY <1>6, <1>14 DEF p, r

\* What makes ChecksumCatches inductive: what arrives is what was sent, or damaged
\* in two neighbouring bytes.
ChecksumInv ==
    /\ message \in Messages
    /\ Damaged(Packed(message), arrived)
    /\ ChecksumCatches

\* For packages of any length and any damage of two neighbouring bytes after the
\* length: get_crc is the CRC of CCITT computed bit by bit, and process_package
\* takes what arrived for a package if and only if it is what was sent
\* (cfa835.cpp:181-214, 447-454, 494-503).
THEOREM ChecksumCatchesHolds == ChecksumSpec => []ChecksumCatches
<1>1. ASSUME NEW m \in Messages
      PROVE  m \in Seq(Bytes) /\ Len(m) >= 2 /\ Len(m) = 2 + m[2]
  BY ChecksumAssumption
<1>2. ChecksumInit => ChecksumInv
  <2> SUFFICES ASSUME ChecksumInit PROVE ChecksumInv
    OBVIOUS
  <2>1. message \in Messages /\ verdict = "unread"
    BY DEF ChecksumInit
  <2> DEFINE p == Packed(message)
  <2>2. p \in Seq(Bytes) /\ Len(p) = Len(message) + 2 /\ Len(message) \in Nat /\ Len(message) >= 2
    BY <1>1, <2>1, PackedBytes
  <2>3. CASE arrived = p
    <3>1. 3 \in 3 .. Len(p) - 1
      BY <2>2
    <3>2. SameBut(p, p, 3)
      BY DEF SameBut
    <3> HIDE DEF p
    <3>3. Damaged(p, arrived)
      BY <2>2, <2>3, <3>1, <3>2 DEF Damaged
    <3> QED BY <2>1, <3>3 DEF ChecksumInv, ChecksumCatches, p
  <2>4. CASE \E i \in 3 .. Len(message) + 1, d \in Damages : arrived = Flipped(p, i, d)
    <3> HIDE DEF p
    <3>1. PICK i \in 3 .. Len(message) + 1, d \in Damages : arrived = Flipped(p, i, d)
      BY <2>4
    <3>2. i \in 3 .. Len(p) - 1 /\ d \in Bytes \X Bytes
      BY <2>2, ChecksumAssumption
    <3>3. Damaged(p, arrived)
      BY <2>2, <3>1, <3>2, FlippedIsDamaged
    <3> QED BY <2>1, <3>3 DEF ChecksumInv, ChecksumCatches, p
  <2> QED BY <2>3, <2>4 DEF ChecksumInit
<1>3. ChecksumInv /\ [ProcessPackage]_checksumVars => ChecksumInv'
  <2> SUFFICES ASSUME ChecksumInv, [ProcessPackage]_checksumVars PROVE ChecksumInv'
    OBVIOUS
  <2>1. CASE ProcessPackage
    <3>1. message \in Messages /\ Damaged(Packed(message), arrived)
          /\ message' = message /\ arrived' = arrived
      BY <2>1 DEF ChecksumInv, ProcessPackage
    <3>2. GetCrc(message) = ReferenceCrc(message)
      BY <1>1, <3>1, ReferenceAgrees
    <3> DEFINE n == 2 + arrived[2]
               passes == arrived[n + 2] * 256 + arrived[n + 1] = GetCrc(SubSeq(arrived, 1, n))
    <3>3. passes <=> arrived = Packed(message)
      BY <1>1, <3>1, TestTells
    <3>4. verdict' = IF passes THEN "accepted" ELSE "corrupted"
      BY <2>1 DEF ProcessPackage
    <3> HIDE DEF passes
    <3>5. verdict' = "accepted" <=> arrived = Packed(message)
      BY <3>3, <3>4
    <3>6. ChecksumCatches'
      BY <3>1, <3>2, <3>5 DEF ChecksumCatches
    <3> QED BY <3>1, <3>6 DEF ChecksumInv
  <2>2. CASE UNCHANGED checksumVars
    BY <2>2 DEF checksumVars, ChecksumInv, ChecksumCatches
  <2> QED BY <2>1, <2>2
<1>4. ChecksumInv => ChecksumCatches
  BY DEF ChecksumInv
<1> QED BY <1>2, <1>3, <1>4, PTL DEF ChecksumSpec

=============================================================================
